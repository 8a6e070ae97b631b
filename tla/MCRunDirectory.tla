--------------------------- MODULE MCRunDirectory ---------------------------
(* Three copies of the script and up to three directories of earlier runs. *)
EXTENDS RunDirectory

CONSTANTS s1, s2, s3
ScriptsDef == {s1, s2, s3}
=============================================================================
