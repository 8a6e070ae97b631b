---------------------------- MODULE StagePipeline ----------------------------
(***************************************************************************)
(* What a run of the flow promises about its stages, whatever the tools    *)
(* do: a wanted stage is reported successful in its turn, none but the     *)
(* last is after a failure, and the run calls itself "ok" only when it has *)
(* not failed and every stage that was asked for has been reported.  A run *)
(* may also be cut short ("died") and then says nothing of itself.         *)
(***************************************************************************)
EXTENDS Integers

CONSTANT Last          \* the number of stages, and the last of them

VARIABLES
  wanted,              \* the stages asked for
  reported,            \* the stages reported successful
  failed,              \* has the run failed?
  verdict              \* "none", "running", "ok", "failed" or "died"

vars == <<wanted, reported, failed, verdict>>

Stages == 1 .. Last

Init ==
  /\ wanted = {}
  /\ reported = {}
  /\ failed = FALSE
  /\ verdict = "none"

\* A run begins; it may be refused, or have failed already because of its architecture.
Begin ==
  /\ verdict # "running"
  /\ wanted' \in SUBSET Stages
  /\ reported' = {}
  /\ failed' \in BOOLEAN
  /\ verdict' \in {"running", "died"}

Report ==
  /\ verdict = "running"
  /\ \E s \in wanted :
       /\ \A r \in reported : r < s
       /\ failed => s = Last
       /\ reported' = reported \cup {s}
  /\ UNCHANGED <<wanted, failed, verdict>>

Fail ==
  /\ verdict = "running"
  /\ failed' = TRUE
  /\ UNCHANGED <<wanted, reported, verdict>>

Finish ==
  /\ verdict = "running"
  /\ verdict' = IF failed THEN "failed" ELSE "ok"
  /\ ~failed => reported = wanted
  /\ UNCHANGED <<wanted, reported, failed>>

\* The run ends without a word: a signal, a fatal stage, a lost process.
Quit ==
  /\ verdict = "running"
  /\ verdict' = "died"
  /\ UNCHANGED <<wanted, reported, failed>>

Next == Begin \/ Report \/ Fail \/ Finish \/ Quit

Spec == Init /\ [][Next]_vars
=============================================================================
