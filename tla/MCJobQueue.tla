----------------------------- MODULE MCJobQueue -----------------------------
(***************************************************************************)
(* Small instances of JobQueue for TLC.                                    *)
(***************************************************************************)
EXTENDS JobQueue, TLC

CONSTANTS j1, j2, w1, w2, migrate, rollout

TwoRows    == {j1, j2}
TwoWorkers == {w1, w2}
Rollout    == {rollout}
BothKeys   == {migrate, rollout}

\* Rows are used in any order and workers run the same program.
Interchangeable == Permutations(Jobs) \cup Permutations(Workers)
=============================================================================
