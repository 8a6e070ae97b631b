----------------------------- MODULE MCTaskPool -----------------------------
(* Three threads and three commands, two of which may print nothing or leave no file. *)
EXTENDS TaskPool

CONSTANTS t1, t2, t3, j1, j2, j3
ThreeThreads == {t1, t2, t3}
ThreeJobs == {j1, j2, j3}
TwoOfThem == {j1, j2}
=============================================================================
