---------------------------- MODULE MCPowerFlow ----------------------------
(* Command lines and widths for model checking PowerFlow. *)
EXTENDS PowerFlow

Plain(s, e) == [DefaultOptions EXCEPT !.start = s, !.end = e]

\* The whole flow with each option in turn, and parts of it: up to VPR, from ACE, from VPR
\* with a netlist of the user, the power stage alone, a single stage, and no stage.
MCCommands ==
  LET whole == DefaultOptions
  IN { whole, [whole EXCEPT !.keep = TRUE, !.timing = FALSE], [whole EXCEPT !.width = 3],
       [whole EXCEPT !.arch = FALSE],
       Plain(stage_idx_abc, stage_idx_vpr), Plain(stage_idx_ace, stage_idx_hpower),
       [Plain(stage_idx_vpr, stage_idx_hpower) EXCEPT !.blif = TRUE],
       Plain(stage_idx_hpower, stage_idx_hpower), Plain(stage_idx_script, stage_idx_script),
       Plain(stage_idx_vpr, stage_idx_odin) }

MCWidths == {3}
=============================================================================
