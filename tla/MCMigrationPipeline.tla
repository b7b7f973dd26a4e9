------------------------ MODULE MCMigrationPipeline ------------------------
(***************************************************************************)
(* Small instances of MigrationPipeline for TLC.  focus narrows a run to   *)
(* one of two cases: a job that is retried, or two jobs side by side.  The *)
(* first job is j1 and its base c1, which loses nothing: jobs and bases    *)
(* are interchangeable.                                                    *)
(***************************************************************************)
EXTENDS MigrationPipeline, TLC

CONSTANTS j1, j2, c1, c2, good, bad, odd
VARIABLE focus

MCVerdict == (good :> "allow") @@ (bad :> "reject") @@ (odd :> "escalate")

Submitted    == {j \in Jobs : state[j] # "none"}
Generated(d) == \E j \in Jobs, n \in AttemptNos :
  run[j][n].at = "generate-migration" /\ run[j][n].out = d

Retry == Submitted \subseteq {j1} /\ ~Generated(odd)
Bases == /\ Cardinality(Started) <= 2 /\ faults <= 1
         /\ ~suppressed /\ ~revoked /\ ~Generated(bad)

MCInit == Init /\ focus \in {"retry", "bases"}

MCNext ==
  /\ Next /\ UNCHANGED focus
  /\ Submitted' \in {{}, {j1}, {j1, j2}} /\ key'[j1] \in {None, c1}
  /\ CASE focus = "retry" -> Retry' [] focus = "bases" -> Bases'

MCSpec == MCInit /\ [][MCNext]_<<vars, focus>>
=============================================================================
