------------------------------ MODULE MCRollout ------------------------------
(***************************************************************************)
(* Sweeps and rollouts meet in the row of the change alone, which Resweep  *)
(* stands for: each is checked with the other at rest.                     *)
(***************************************************************************)
EXTENDS Sweeps, Rollout, TLC

CONSTANTS r1, r2, Focuses
VARIABLE focus

MCAge   == (r1 :> 1) @@ (r2 :> 2)
MCStars == (r1 :> 7) @@ (r2 :> 3)

\* A push to r1 takes the dependency out of the way; one to r2 brings it in.
MCImpactAt == (r1 :> [h \in 0..1 |-> IF h = 0 THEN "exposed" ELSE "unrelated"])
           @@ (r2 :> [h \in 0..1 |-> IF h = 0 THEN "stranded" ELSE "exposed"])

\* canarySize up to 5 repositories.
MCEveryone(verdict, n) == n

MCInit == SweepsInit /\ RolloutInit /\ focus \in Focuses

MCNext ==
  /\ UNCHANGED focus
  /\ \/ focus = "sweeps"  /\ SweepsNext  /\ UNCHANGED rolloutVars
     \/ focus = "rollout" /\ RolloutNext /\ UNCHANGED sweepVars

MCSpec ==
  /\ MCInit /\ [][MCNext]_<<sweepVars, rolloutVars, focus>>
  /\ focus = "sweeps"  => SweepsFairness
  /\ focus = "rollout" => RolloutFairness

\* Types, of both modules.
FanOutTypeOK == SweepsTypeOK /\ RolloutTypeOK
=============================================================================
