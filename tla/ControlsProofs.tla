---------------------------- MODULE ControlsProofs ----------------------------
(***************************************************************************)
(* The controls on what passes: what holds of Outbound for every set of    *)
(* jobs, finite or not, and for every number of slots and every ceiling;   *)
(* of RateLimiter for every set of addresses, every allowance and every    *)
(* length of a window, however long the process lives; and of AuditChain   *)
(* for every set of mints and every number of failures and checkpoints.    *)
(***************************************************************************)
EXTENDS Outbound, RateLimiter, AuditChain, FiniteSetTheorems, SequenceTheorems, TLAPS

-----------------------------------------------------------------------------
(* Counting *)

AtMost(S, n) == IsFiniteSet(S) /\ Cardinality(S) <= n

\* What is contained in something small is small.
LEMMA AtMostWithin ==
  ASSUME NEW S, NEW T, T \subseteq S, NEW m \in Nat, NEW n \in Nat, AtMost(S, m), m <= n
  PROVE  AtMost(T, n)
<1>1. IsFiniteSet(T) /\ Cardinality(T) <= Cardinality(S)
  BY FS_Subset DEF AtMost
<1>2. Cardinality(T) \in Nat /\ Cardinality(S) \in Nat
  BY <1>1, FS_CardinalityType DEF AtMost
<1> QED
  BY <1>1, <1>2 DEF AtMost

\* What is contained in something small is small.
LEMMA AtMostSubset ==
  ASSUME NEW S, NEW T \in SUBSET S, NEW n \in Nat, AtMost(S, n)
  PROVE  AtMost(T, n)
<1>1. IsFiniteSet(T) /\ Cardinality(T) <= Cardinality(S)
  BY FS_Subset DEF AtMost
<1>2. Cardinality(T) \in Nat /\ Cardinality(S) \in Nat
  BY <1>1, FS_CardinalityType DEF AtMost
<1> QED
  BY <1>1, <1>2 DEF AtMost

LEMMA AtMostUnion ==
  ASSUME NEW S, NEW T, NEW m \in Nat, NEW n \in Nat, AtMost(S, m), AtMost(T, n)
  PROVE  AtMost(S \cup T, m + n)
<1>1. /\ IsFiniteSet(S \cup T)
      /\ Cardinality(S \cup T) = Cardinality(S) + Cardinality(T) - Cardinality(S \cap T)
  BY FS_Union DEF AtMost
<1>2. Cardinality(S) \in Nat /\ Cardinality(T) \in Nat /\ Cardinality(S \cap T) \in Nat
  BY FS_CardinalityType, FS_Intersection DEF AtMost
<1> QED
  BY <1>1, <1>2 DEF AtMost

\* Fewer than m of one kind, and of another at most n: fewer than their sum.
LEMMA AtMostUnionBelow ==
  ASSUME NEW S, NEW T, NEW m \in Nat, NEW n \in Nat,
         IsFiniteSet(S), Cardinality(S) < m, AtMost(T, n)
  PROVE  AtMost(S \cup T, m + n - 1)
<1>1. /\ IsFiniteSet(S \cup T)
      /\ Cardinality(S \cup T) = Cardinality(S) + Cardinality(T) - Cardinality(S \cap T)
  BY FS_Union DEF AtMost
<1>2. Cardinality(S) \in Nat /\ Cardinality(T) \in Nat /\ Cardinality(S \cap T) \in Nat
  BY FS_CardinalityType, FS_Intersection DEF AtMost
<1> QED
  BY <1>1, <1>2 DEF AtMost

LEMMA AtMostOneMore ==
  ASSUME NEW S, NEW x, NEW n \in Nat, AtMost(S, n)
  PROVE  AtMost(S \cup {x}, n + 1)
<1>1. AtMost({x}, 1)
  BY FS_Singleton DEF AtMost
<1> QED
  BY <1>1, AtMostUnion

-----------------------------------------------------------------------------
(* Outbound *)

OutboundSpec == OutboundInit /\ [][OutboundNext]_outboundVars

-----------------------------------------------------------------------------
(* The inductive invariant.  The ceilings are read by PassBrakes and used   *)
(* by ClaimWrite, and by RecordResult much later: what stays bounded is     *)
(* what was written together with what has passed and may yet write.        *)

InSlots   == {j \in Jobs : stage[j] \in Running}
Recent    == {j \in Jobs : write[j].recent}
Succeeded == {j \in Jobs : write[j].status = "succeeded"}

\* Claims of the hour, and those the brakes let by.
HourlyClaims == {j \in Jobs : write[j].recent \/ stage[j] = "cleared"}

\* Pull requests opened at the first try, and those still at their first try.
FirstTries ==
  {j \in Jobs : \/ write[j].status = "succeeded" /\ ~write[j].heldOver
                \/ stage[j] = "cleared"
                \/ stage[j] = "writing" /\ ~write[j].heldOver}

\* Whoever goes on from a grant failed after it was granted, and whoever did
\* that never asks again.
GrantsHeldOver ==
  \A j \in Jobs :
    /\ stage[j] = "granted" => write[j].heldOver
    /\ write[j].heldOver => stage[j] \in {"granted", "writing", "done"}

SlotsOK  == AtMost(InSlots, Slots)
HourlyOK == AtMost(HourlyClaims, MaxPerHour + Slots - 1)
OpenOK   == IsFiniteSet(Succeeded) /\ AtMost(FirstTries, MaxOpen + Slots - 1)

OutboundIInv == OutboundTypeOK /\ GrantsHeldOver /\ SlotsOK /\ HourlyOK /\ OpenOK

-----------------------------------------------------------------------------
(* Counting *)

LEMMA SizesAreNatural ==
  /\ Slots \in Nat /\ Slots > 0 /\ MaxPerHour \in Nat /\ MaxPerHour > 0
  /\ MaxOpen \in Nat /\ MaxOpen > 0 /\ MaxSwitches \in Nat /\ MaxSwitches > 0
  /\ MaxPerHour + Slots - 1 \in Nat /\ MaxOpen + Slots - 1 \in Nat
BY OutboundAssumption

-----------------------------------------------------------------------------
(* What a step leaves of them *)

\* The slots: nobody enters, or one enters while one is free.
LEMMA SlotsKept ==
  ASSUME SlotsOK, InSlots' \subseteq InSlots
  PROVE  SlotsOK'
BY AtMostSubset, SizesAreNatural DEF SlotsOK

LEMMA HourlyKept ==
  ASSUME HourlyOK, HourlyClaims' \subseteq HourlyClaims
  PROVE  HourlyOK'
BY AtMostSubset, SizesAreNatural DEF HourlyOK

LEMMA OpenKept ==
  ASSUME OpenOK, FirstTries' \subseteq FirstTries,
         NEW j, Succeeded' \subseteq Succeeded \cup {j}
  PROVE  OpenOK'
<1>1. IsFiniteSet(Succeeded')
  <2>1. IsFiniteSet(Succeeded \cup {j})
    BY FS_AddElement DEF OpenOK
  <2> QED
    BY <2>1, FS_Subset
<1>2. AtMost(FirstTries', MaxOpen + Slots - 1)
  BY AtMostSubset, SizesAreNatural DEF OpenOK
<1> QED
  BY <1>1, <1>2 DEF OpenOK

\* A step that neither takes a job up, nor lets one by, nor writes a result,
\* counts nothing anew.
LEMMA NothingIsCounted ==
  ASSUME OutboundIInv,
         \A k \in Jobs :
           /\ stage'[k] \in Running => stage[k] \in Running
           /\ stage'[k] = "cleared" => stage[k] = "cleared"
           /\ stage'[k] = "writing" => stage[k] = "writing"
           /\ write'[k].recent => write[k].recent
           /\ write'[k].status = "succeeded" => write[k].status = "succeeded"
           /\ write[k].heldOver => write'[k].heldOver
  PROVE  SlotsOK' /\ HourlyOK' /\ OpenOK'
<1>1. InSlots' \subseteq InSlots /\ HourlyClaims' \subseteq HourlyClaims
  BY DEF InSlots, HourlyClaims
<1>2. FirstTries' \subseteq FirstTries /\ \A j : Succeeded' \subseteq Succeeded \cup {j}
  BY DEF FirstTries, Succeeded
<1> QED
  BY <1>1, <1>2, SlotsKept, HourlyKept, OpenKept DEF OutboundIInv

-----------------------------------------------------------------------------
(* The actions *)

LEMMA StartKeeps ==
  ASSUME OutboundIInv, NEW j \in Jobs, Start(j)
  PROVE  OutboundIInv'
<1> DEFINE to == IF stage[j] = "queued" THEN "started" ELSE "writing"
<1>1. /\ stage[j] \in {"queued", "granted"} /\ write' = write
      /\ \A k \in Jobs : stage'[k] = IF k = j THEN to ELSE stage[k]
  BY DEF Start, OutboundIInv, OutboundTypeOK
<1>2. OutboundTypeOK' /\ GrantsHeldOver'
  <2>1. stage' \in [Jobs -> Running \cup {"queued", "granted", "refused", "done"}]
    BY DEF Start, OutboundIInv, OutboundTypeOK, Running
  <2>2. OutboundTypeOK'
    BY <1>1, <2>1 DEF Start, AtJobs, OutboundIInv, OutboundTypeOK
  <2>3. GrantsHeldOver'
    BY <1>1 DEF OutboundIInv, GrantsHeldOver
  <2> QED
    BY <2>2, <2>3
<1>3. SlotsOK'
  <2>1. IsFiniteSet(InSlots) /\ Cardinality(InSlots) < Slots /\ Cardinality(InSlots) \in Nat
    BY FS_CardinalityType DEF Start, InSlots, OutboundIInv, SlotsOK, AtMost
  <2>2. /\ IsFiniteSet(InSlots \cup {j})
        /\ \/ Cardinality(InSlots \cup {j}) = Cardinality(InSlots)
           \/ Cardinality(InSlots \cup {j}) = Cardinality(InSlots) + 1
    BY <2>1, FS_AddElement
  <2>3. Cardinality(InSlots \cup {j}) \in Nat
    BY <2>2, FS_CardinalityType
  <2>4. AtMost(InSlots \cup {j}, Slots)
    BY <2>1, <2>2, <2>3, SizesAreNatural DEF AtMost
  <2>5. InSlots' \subseteq InSlots \cup {j}
    BY <1>1 DEF InSlots
  <2> QED
    BY <2>4, <2>5, AtMostSubset, SizesAreNatural DEF SlotsOK
<1>4. HourlyOK'
  <2>1. HourlyClaims' \subseteq HourlyClaims
    BY <1>1 DEF HourlyClaims
  <2> QED
    BY <2>1, HourlyKept DEF OutboundIInv
<1>5. OpenOK'
  <2>1. FirstTries' \subseteq FirstTries
    BY <1>1 DEF FirstTries, OutboundIInv, GrantsHeldOver
  <2>2. Succeeded' \subseteq Succeeded \cup {j}
    BY <1>1 DEF Succeeded
  <2> QED
    BY <2>1, <2>2, OpenKept DEF OutboundIInv
<1> QED
  BY <1>2, <1>3, <1>4, <1>5 DEF OutboundIInv

\* Whoever passes is in a slot, so what passed and what was counted below the
\* ceiling stay within the two together.
LEMMA PassBrakesKeeps ==
  ASSUME OutboundIInv, NEW j \in Jobs, PassBrakes(j)
  PROVE  OutboundIInv'
<1> DEFINE to == IF Brakes(j) THEN "cleared" ELSE "refused"
<1>1. /\ stage[j] = "started" /\ write' = write
      /\ \A k \in Jobs : stage'[k] = IF k = j THEN to ELSE stage[k]
  BY DEF PassBrakes, OutboundIInv, OutboundTypeOK
<1> HIDE DEF to
<1>2. OutboundTypeOK' /\ GrantsHeldOver'
  <2>0. to \in {"cleared", "refused"}
    BY DEF to
  <2>1. stage' \in [Jobs -> Running \cup {"queued", "granted", "refused", "done"}]
    BY DEF PassBrakes, OutboundIInv, OutboundTypeOK, Running
  <2>2. OutboundTypeOK'
    BY <1>1, <2>0, <2>1 DEF PassBrakes, AtJobs, OutboundIInv, OutboundTypeOK
  <2>3. GrantsHeldOver'
    BY <1>1, <2>0 DEF OutboundIInv, GrantsHeldOver
  <2> QED
    BY <2>2, <2>3
<1>3. CASE ~Brakes(j)
  BY <1>1, <1>2, <1>3, NothingIsCounted DEF to, OutboundIInv, Running
<1>4. CASE Brakes(j)
  <2>1. SlotsOK'
    <3>1. InSlots' \subseteq InSlots
      BY <1>1 DEF InSlots, to, Running
    <3> QED
      BY <3>1, SlotsKept DEF OutboundIInv
  <2>2. InSlots = InSlots' /\ AtMost(InSlots, Slots)
    BY <1>1, <1>4 DEF InSlots, to, Running, OutboundIInv, SlotsOK
  <2>3. HourlyOK'
    <3>1. IsFiniteSet(Recent) /\ Cardinality(Recent) < MaxPerHour
      <4>1. Recent \in SUBSET HourlyClaims
        BY DEF Recent, HourlyClaims
      <4> QED
        BY <1>4, <4>1, FS_Subset DEF Brakes, WithinCeilings, Recent, OutboundIInv, HourlyOK, AtMost
    <3>2. AtMost(Recent \cup InSlots, MaxPerHour + Slots - 1)
      BY <2>2, <3>1, AtMostUnionBelow, SizesAreNatural
    <3>3. HourlyClaims' \subseteq Recent \cup InSlots
      BY <1>1, <2>2 DEF HourlyClaims, Recent, InSlots, Running
    <3> QED
      BY <3>2, <3>3, AtMostSubset, SizesAreNatural DEF HourlyOK
  <2>4. OpenOK'
    <3>1. IsFiniteSet(Succeeded) /\ Cardinality(Succeeded) < MaxOpen
      BY <1>4 DEF Brakes, WithinCeilings, Succeeded, OutboundIInv, OpenOK
    <3>2. AtMost(Succeeded \cup InSlots, MaxOpen + Slots - 1)
      BY <2>2, <3>1, AtMostUnionBelow, SizesAreNatural
    <3>3. FirstTries' \subseteq Succeeded \cup InSlots
      BY <1>1, <2>2 DEF FirstTries, Succeeded, InSlots, Running
    <3>4. Succeeded' = Succeeded
      BY <1>1 DEF Succeeded
    <3> QED
      BY <3>1, <3>2, <3>3, <3>4, AtMostSubset, SizesAreNatural DEF OpenOK
  <2> QED
    BY <1>2, <2>1, <2>3, <2>4 DEF OutboundIInv
<1> QED
  BY <1>3, <1>4

\* A claim counts for the hour from here, and was counted since it passed.
LEMMA ClaimWriteKeeps ==
  ASSUME OutboundIInv, NEW j \in Jobs, ClaimWrite(j)
  PROVE  OutboundIInv'
<1>1. stage[j] = "cleared" /\ AtJobs
  BY DEF ClaimWrite
<1>2. CASE /\ stage' = [stage EXCEPT ![j] = "refused"]
           /\ UNCHANGED write
  <2>1. \A k \in Jobs : stage'[k] = IF k = j THEN "refused" ELSE stage[k]
    BY <1>2 DEF OutboundIInv, OutboundTypeOK
  <2>2. OutboundTypeOK' /\ GrantsHeldOver'
    BY <1>1, <1>2, <2>1 DEF AtJobs, OutboundIInv, OutboundTypeOK, GrantsHeldOver
  <2> QED
    BY <1>2, <2>1, <2>2, NothingIsCounted DEF OutboundIInv, Running
<1>3. CASE /\ write' = [write EXCEPT ![j].status = "claimed", ![j].recent = TRUE, ![j].expired = FALSE]
           /\ stage' = [stage EXCEPT ![j] = "writing"]
  <2>1. \A k \in Jobs : stage'[k] = IF k = j THEN "writing" ELSE stage[k]
    BY <1>3 DEF OutboundIInv, OutboundTypeOK
  <2>2. /\ write' \in [Jobs -> Writes]
        /\ \A k \in Jobs : k # j => write'[k] = write[k]
        /\ write'[j].status = "claimed" /\ write'[j].heldOver = write[j].heldOver
    <3> DEFINE w == [write[j] EXCEPT !.status = "claimed", !.recent = TRUE, !.expired = FALSE]
    <3>1. write \in [Jobs -> Writes] /\ write[j] \in Writes
      BY DEF OutboundIInv, OutboundTypeOK
    <3>2. w \in Writes /\ w.status = "claimed" /\ w.heldOver = write[j].heldOver
      BY <3>1 DEF Writes
    <3>3. write' = [write EXCEPT ![j] = w]
      BY <1>3, <3>1
    <3> QED
      BY <3>1, <3>2, <3>3
  <2>3. OutboundTypeOK' /\ GrantsHeldOver'
    <3>1. stage' \in [Jobs -> Running \cup {"queued", "granted", "refused", "done"}]
      BY <1>3 DEF OutboundIInv, OutboundTypeOK, Running
    <3>2. OutboundTypeOK'
      BY <1>1, <2>1, <2>2, <3>1 DEF AtJobs, OutboundIInv, OutboundTypeOK
    <3>3. GrantsHeldOver'
      BY <2>1, <2>2 DEF OutboundIInv, GrantsHeldOver
    <3> QED
      BY <3>2, <3>3
  <2>4. InSlots' \subseteq InSlots
    BY <1>1, <2>1 DEF InSlots, Running
  <2>5. HourlyClaims' \subseteq HourlyClaims
    BY <1>1, <2>1, <2>2 DEF HourlyClaims
  <2>6. FirstTries' \subseteq FirstTries
    BY <1>1, <2>1, <2>2 DEF FirstTries
  <2>7. Succeeded' \subseteq Succeeded \cup {j}
    BY <2>2 DEF Succeeded
  <2> QED
    BY <2>3, <2>4, <2>5, <2>6, <2>7, SlotsKept, HourlyKept, OpenKept DEF OutboundIInv
<1> QED
  BY <1>2, <1>3 DEF ClaimWrite

LEMMA RecordResultKeeps ==
  ASSUME OutboundIInv, NEW j \in Jobs, NEW status \in {"succeeded", "failed"},
         RecordResult(j, status)
  PROVE  OutboundIInv'
<1>1. /\ stage[j] = "writing" /\ AtJobs
      /\ \A k \in Jobs : stage'[k] = IF k = j THEN "done" ELSE stage[k]
  BY DEF RecordResult, OutboundIInv, OutboundTypeOK
<1>2. /\ write' \in [Jobs -> Writes]
      /\ \A k \in Jobs : k # j => write'[k] = write[k]
      /\ write'[j].recent = write[j].recent /\ write'[j].heldOver = write[j].heldOver
  BY DEF RecordResult, OutboundIInv, OutboundTypeOK, Writes
<1>3. OutboundTypeOK' /\ GrantsHeldOver'
  <2>1. stage' \in [Jobs -> Running \cup {"queued", "granted", "refused", "done"}]
    BY DEF RecordResult, OutboundIInv, OutboundTypeOK, Running
  <2>2. OutboundTypeOK'
    BY <1>1, <1>2, <2>1 DEF AtJobs, OutboundIInv, OutboundTypeOK
  <2>3. GrantsHeldOver'
    BY <1>1, <1>2 DEF OutboundIInv, GrantsHeldOver
  <2> QED
    BY <2>2, <2>3
<1>4. InSlots' \subseteq InSlots
  BY <1>1 DEF InSlots, Running
<1>5. HourlyClaims' \subseteq HourlyClaims
  BY <1>1, <1>2 DEF HourlyClaims
<1>6. FirstTries' \subseteq FirstTries
  BY <1>1, <1>2 DEF FirstTries
<1>7. Succeeded' \subseteq Succeeded \cup {j}
  BY <1>2 DEF Succeeded
<1> QED
  BY <1>3, <1>4, <1>5, <1>6, <1>7, SlotsKept, HourlyKept, OpenKept DEF OutboundIInv

\* What crashes, failures and clocks do counts nothing anew.
LEMMA MishapKeeps ==
  ASSUME OutboundIInv, NEW j \in Jobs, AttemptFails(j) \/ AttemptDies(j) \/ ClaimExpires(j) \/ Merge(j)
  PROVE  OutboundIInv'
<1>1. CASE AttemptFails(j)
  <2>1. /\ stage[j] = "writing"
        /\ \A k \in Jobs : stage'[k] = IF k = j THEN "granted" ELSE stage[k]
    BY <1>1 DEF AttemptFails, OutboundIInv, OutboundTypeOK
  <2>2. /\ write' \in [Jobs -> Writes]
        /\ \A k \in Jobs : k # j => write'[k] = write[k]
        /\ write'[j].status = write[j].status /\ write'[j].recent = write[j].recent
        /\ write'[j].heldOver
    BY <1>1 DEF AttemptFails, OutboundIInv, OutboundTypeOK, Writes
  <2>3. stage' \in [Jobs -> Running \cup {"queued", "granted", "refused", "done"}] /\ switches' \in 0 .. MaxSwitches
    BY <1>1, SizesAreNatural DEF AttemptFails, Switch, OutboundIInv, OutboundTypeOK, Running
  <2>4. OutboundTypeOK' /\ GrantsHeldOver'
    BY <1>1, <2>1, <2>2, <2>3 DEF AttemptFails, OutboundIInv, OutboundTypeOK, GrantsHeldOver
  <2> QED
    BY <2>1, <2>2, <2>4, NothingIsCounted DEF OutboundIInv, Running
<1>2. CASE AttemptDies(j)
  <2>1. /\ stage[j] \in Running /\ write' = write
        /\ \A k \in Jobs : stage'[k] =
             IF k = j THEN IF write[j].heldOver THEN "granted" ELSE "queued" ELSE stage[k]
    BY <1>2 DEF AttemptDies, OutboundIInv, OutboundTypeOK
  <2>2. stage' \in [Jobs -> Running \cup {"queued", "granted", "refused", "done"}] /\ switches' \in 0 .. MaxSwitches
    BY <1>2, SizesAreNatural DEF AttemptDies, Switch, OutboundIInv, OutboundTypeOK, Running
  <2>3. OutboundTypeOK' /\ GrantsHeldOver'
    BY <1>2, <2>1, <2>2 DEF AttemptDies, OutboundIInv, OutboundTypeOK, GrantsHeldOver, Running
  <2> QED
    BY <2>1, <2>3, NothingIsCounted DEF OutboundIInv, Running
<1>3. CASE ClaimExpires(j)
  <2>1. /\ write' \in [Jobs -> Writes] /\ stage' = stage
        /\ \A k \in Jobs : k # j => write'[k] = write[k]
        /\ write'[j].status = write[j].status /\ write'[j].recent = write[j].recent
        /\ write'[j].heldOver = write[j].heldOver
    BY <1>3 DEF ClaimExpires, OutboundIInv, OutboundTypeOK, Writes
  <2>2. switches' \in 0 .. MaxSwitches
    BY <1>3, SizesAreNatural DEF ClaimExpires, Switch, OutboundIInv, OutboundTypeOK
  <2>3. OutboundTypeOK' /\ GrantsHeldOver'
    BY <1>3, <2>1, <2>2 DEF ClaimExpires, OutboundIInv, OutboundTypeOK, GrantsHeldOver
  <2> QED
    BY <2>1, <2>3, NothingIsCounted DEF OutboundIInv
<1>4. CASE Merge(j)
  <2>1. /\ write' \in [Jobs -> Writes] /\ stage' = stage /\ AtJobs
        /\ \A k \in Jobs : k # j => write'[k] = write[k]
        /\ write'[j].status = write[j].status /\ write'[j].recent = write[j].recent
        /\ write'[j].heldOver = write[j].heldOver
    BY <1>4 DEF Merge, OutboundIInv, OutboundTypeOK, Writes
  <2>2. OutboundTypeOK' /\ GrantsHeldOver'
    BY <2>1 DEF AtJobs, OutboundIInv, OutboundTypeOK, GrantsHeldOver
  <2> QED
    BY <2>1, <2>2, NothingIsCounted DEF OutboundIInv
<1> QED
  BY <1>1, <1>2, <1>3, <1>4

\* Nor does anything done to the brakes themselves.
LEMMA SwitchKeeps ==
  ASSUME OutboundIInv,
         \/ FlipKillSwitch \/ FlipEntitlement \/ HourPasses
         \/ \E r \in Targets : RedeemOptOut(r)
  PROVE  OutboundIInv'
<1>1. switches' \in 0 .. MaxSwitches /\ stage' = stage
  BY SizesAreNatural DEF Switch, FlipKillSwitch, FlipEntitlement, HourPasses, RedeemOptOut,
       OutboundIInv, OutboundTypeOK
<1>2. /\ halted' \in BOOLEAN /\ entitled' \in BOOLEAN
      /\ suppression' \subseteq Targets
  BY DEF FlipKillSwitch, FlipEntitlement, HourPasses, RedeemOptOut,
       OutboundIInv, OutboundTypeOK
<1>3. /\ write' \in [Jobs -> Writes]
      /\ \A k \in Jobs : /\ write'[k].status = write[k].status /\ write'[k].heldOver = write[k].heldOver
                         /\ write'[k].recent => write[k].recent
  <2>1. CASE HourPasses
    BY <2>1 DEF HourPasses, OutboundIInv, OutboundTypeOK, Writes
  <2>2. CASE write' = write
    BY <2>2 DEF OutboundIInv, OutboundTypeOK
  <2> QED
    BY <2>1, <2>2 DEF FlipKillSwitch, FlipEntitlement, RedeemOptOut
<1>4. OutboundTypeOK' /\ GrantsHeldOver'
  BY <1>1, <1>2, <1>3 DEF OutboundIInv, OutboundTypeOK, GrantsHeldOver
<1> QED
  BY <1>1, <1>3, <1>4, NothingIsCounted DEF OutboundIInv

-----------------------------------------------------------------------------
LEMMA OutboundInitHolds ==
  ASSUME OutboundInit
  PROVE  OutboundIInv
<1>1. OutboundTypeOK /\ GrantsHeldOver
  <2>1. NoWrite \in Writes
    BY DEF NoWrite, Writes
  <2>2. 0 \in 0 .. MaxSwitches
    BY SizesAreNatural
  <2>3. write \in [Jobs -> Writes] /\ switches \in 0 .. MaxSwitches
    BY <2>1, <2>2 DEF OutboundInit
  <2>4. \A j \in Jobs : stage[j] = "queued" /\ ~write[j].heldOver
    BY DEF OutboundInit, NoWrite
  <2> QED
    BY <2>3, <2>4 DEF OutboundInit, OutboundTypeOK, GrantsHeldOver, Running
<1>2. InSlots = {} /\ HourlyClaims = {} /\ FirstTries = {} /\ Succeeded = {}
  BY DEF OutboundInit, InSlots, HourlyClaims, FirstTries, Succeeded, NoWrite, Running
<1> QED
  BY <1>1, <1>2, FS_EmptySet, SizesAreNatural DEF OutboundIInv, SlotsOK, HourlyOK, OpenOK, AtMost

LEMMA OutboundStepKeeps ==
  ASSUME OutboundIInv, [OutboundNext]_outboundVars
  PROVE  OutboundIInv'
<1>1. CASE UNCHANGED outboundVars
  BY <1>1 DEF outboundVars, OutboundIInv, OutboundTypeOK, GrantsHeldOver, SlotsOK, HourlyOK, OpenOK,
       InSlots, HourlyClaims, FirstTries, Succeeded
<1>2. CASE \/ FlipKillSwitch \/ FlipEntitlement \/ HourPasses
           \/ \E r \in Targets : RedeemOptOut(r)
  BY <1>2, SwitchKeeps
<1>3. ASSUME NEW j \in Jobs, Start(j) PROVE OutboundIInv'
  BY <1>3, StartKeeps
<1>4. ASSUME NEW j \in Jobs, PassBrakes(j) PROVE OutboundIInv'
  BY <1>4, PassBrakesKeeps
<1>5. ASSUME NEW j \in Jobs, ClaimWrite(j) PROVE OutboundIInv'
  BY <1>5, ClaimWriteKeeps
<1>6. ASSUME NEW j \in Jobs, NEW status \in {"succeeded", "failed"}, RecordResult(j, status)
      PROVE  OutboundIInv'
  BY <1>6, RecordResultKeeps
<1>7. ASSUME NEW j \in Jobs, AttemptFails(j) \/ AttemptDies(j) \/ ClaimExpires(j) \/ Merge(j)
      PROVE  OutboundIInv'
  BY <1>7, MishapKeeps
<1> QED
  BY <1>1, <1>2, <1>3, <1>4, <1>5, <1>6, <1>7 DEF OutboundNext

\* What stays bounded contains what the ceilings are about.
LEMMA OutboundIInvBounds ==
  ASSUME OutboundIInv
  PROVE  OvershootIsBounded
<1>1. Recent \in SUBSET HourlyClaims
  BY DEF Recent, HourlyClaims
<1>2. {j \in Jobs : write[j].status = "succeeded" /\ ~write[j].heldOver} \in SUBSET FirstTries
  BY DEF FirstTries
<1>3. AtMost(Recent, MaxPerHour + Slots - 1)
  BY <1>1, AtMostSubset, SizesAreNatural DEF OutboundIInv, HourlyOK
<1>4. AtMost({j \in Jobs : write[j].status = "succeeded" /\ ~write[j].heldOver}, MaxOpen + Slots - 1)
  BY <1>2, AtMostSubset, SizesAreNatural DEF OutboundIInv, OpenOK
<1> QED
  BY <1>3, <1>4 DEF AtMost, Recent, OvershootIsBounded

-----------------------------------------------------------------------------
\* Every value is of its type, and a job that writes has a claim.
THEOREM OutboundTypeCorrect == OutboundSpec => []OutboundTypeOK
<1>1. OutboundIInv => OutboundTypeOK
  BY DEF OutboundIInv
<1> QED
  BY <1>1, OutboundInitHolds, OutboundStepKeeps, PTL DEF OutboundSpec

\* However many jobs there are and whatever crashes, expires or is switched
\* off in between, neither the writes of an hour nor the open pull requests
\* exceed their ceiling by a slot's worth each (src/outbound/guard.ts:118).
THEOREM OvershootBounded == OutboundSpec => []OvershootIsBounded
BY OutboundInitHolds, OutboundStepKeeps, OutboundIInvBounds, PTL DEF OutboundSpec

-----------------------------------------------------------------------------
(* RateLimiter *)

LimiterSpec == LimiterInit /\ [][LimiterNext]_limiterVars

-----------------------------------------------------------------------------
(* The inductive invariant.  Two windows do not overlap, so a stretch of    *)
(* one window's length that reaches into the present one reaches back into  *)
(* no more than one window before it.                                       *)

\* The requests let through from one tick to another, both included.
Spent(first, last) ==
  {p \in (first .. last) \X (1 .. 2 * Global + 1) :
     p[1] \in 0 .. MaxTime /\ p[2] <= passed[p[1]]}

Since(window) == window.resetAt - WindowLength

\* Nothing passes after a window's end without opening the next one.
NothingAhead(window) ==
  \A u \in 0 .. MaxTime : u > time \/ u >= window.resetAt => passed[u] = 0

TicksBounded(window) ==
  \A u \in 0 .. MaxTime :
    passed[u] <= Global /\ (u >= Since(window) => passed[u] <= window.count)

\* What an open window has counted, what passed in one length before it was
\* opened, and what passed in any length before that.
PresentBounded(window) == AtMost(Spent(Since(window), time), window.count)
PreviousBounded(window) == AtMost(Spent(Since(window) - WindowLength, Since(window) - 1), Global)
PastBounded(window) ==
  \A t \in Nat : t + WindowLength <= Since(window) => AtMost(Spent(t, t + WindowLength - 1), 2 * Global)

Windowed(window) ==
  /\ window \in [count : 0..Global, resetAt : 0..MaxTime + WindowLength]
  /\ Since(window) \in 0 .. time
  /\ NothingAhead(window) /\ TicksBounded(window)
  /\ PresentBounded(window) /\ PreviousBounded(window) /\ PastBounded(window)

LimiterIInv == LimiterTypeOK /\ Windowed(globalWindow) /\ Len(tracked) <= MaxTracked

-----------------------------------------------------------------------------
(* Counting *)

LEMMA AllowancesAreNatural ==
  /\ PerClient \in Nat /\ Global \in Nat /\ WindowLength \in Nat /\ MaxTracked \in Nat /\ MaxTime \in Nat
  /\ PerClient > 0 /\ Global > 0 /\ WindowLength > 0 /\ MaxTracked > 0 /\ MaxTime > 0
BY RateLimiterAssumption

\* A nonempty set of naturals has a least element: of the intervals below its
\* elements one contains no other.
LEMMA LeastElement ==
  ASSUME NEW T \in SUBSET Nat, T # {}
  PROVE  \E x \in T : \A y \in T : x <= y
<1> DEFINE Below == {0 .. n : n \in T}
<1>1. Below \subseteq FiniteSubsetsOf(Nat)
  <2>1. \A n \in T : IsFiniteSet(0 .. n) /\ 0 .. n \subseteq Nat
    <3> TAKE n \in T
    <3> QED
      BY 0 \in Int, n \in Int, FS_Interval
  <2> QED
    BY <2>1 DEF FiniteSubsetsOf
<1>2. Below # {}
  OBVIOUS
<1> HIDE DEF Below
<1>3. \E U \in Below : \A V \in Below : <<V, U>> \notin StrictSubsetOrdering(Nat)
  BY <1>1, <1>2, FS_StrictSubsetOrderingWellFounded, WFMin
<1>4. PICK x \in T : \A V \in Below : <<V, 0 .. x>> \notin StrictSubsetOrdering(Nat)
  BY <1>3 DEF Below
<1>5. ASSUME NEW y \in T, y < x PROVE FALSE
  <2>1. 0 .. y \in Below /\ 0 .. y \subseteq 0 .. x /\ x \in 0 .. x /\ x \notin 0 .. y
    BY <1>5 DEF Below
  <2>2. 0 .. y # 0 .. x /\ 0 .. x \in SUBSET Nat /\ 0 .. y \in SUBSET Nat
    BY <2>1
  <2>3. <<0 .. y, 0 .. x>> \in StrictSubsetOrdering(Nat)
    <3> DEFINE pair == <<0 .. y, 0 .. x>>
    <3>1. pair \in (SUBSET Nat) \X (SUBSET Nat) /\ pair[1] = 0 .. y /\ pair[2] = 0 .. x
      BY <2>2
    <3>2. pair[1] \subseteq pair[2] /\ pair[1] # pair[2]
      BY <2>1, <2>2, <3>1
    <3> HIDE DEF pair
    <3>3. pair \in StrictSubsetOrdering(Nat)
      BY <3>1, <3>2 DEF StrictSubsetOrdering
    <3> QED
      BY <3>3 DEF pair
  <2> QED
    BY <1>4, <2>1, <2>3
<1> QED
  BY <1>5

-----------------------------------------------------------------------------
(* Windows *)

\* Any stretch of one window's length: before the present window, or over its
\* beginning, or within it.
LEMMA StretchBounded ==
  ASSUME LimiterTypeOK, NEW w, Windowed(w), NEW t \in Nat
  PROVE  AtMost(Spent(t, t + WindowLength - 1), 2 * Global)
<1> USE AllowancesAreNatural
<1>1. CASE t + WindowLength <= Since(w)
  BY <1>1 DEF Windowed, PastBounded
<1>2. CASE t + WindowLength > Since(w)
  <2> DEFINE Before == Spent(Since(w) - WindowLength, Since(w) - 1)
             During == Spent(Since(w), time)
  <2>1. Spent(t, t + WindowLength - 1) \subseteq Before \cup During
    <3> SUFFICES ASSUME NEW p \in Spent(t, t + WindowLength - 1)
                 PROVE  p \in Before \cup During
      OBVIOUS
    <3>1. /\ p[1] \in t .. t + WindowLength - 1 /\ p[1] \in 0 .. MaxTime
          /\ p[2] \in 1 .. 2 * Global + 1 /\ p[2] <= passed[p[1]] /\ p = <<p[1], p[2]>>
      BY DEF Spent
    <3>2. p[1] <= time
      <4>1. CASE p[1] > time
        <5>1. passed[p[1]] = 0
          BY <3>1, <4>1 DEF Windowed, NothingAhead
        <5> QED
          BY <3>1, <5>1
      <4> QED
        BY <3>1, <4>1 DEF LimiterTypeOK
    <3>3. p[1] \in (Since(w) - WindowLength) .. (Since(w) - 1) \/ p[1] \in Since(w) .. time
      BY <1>2, <3>1, <3>2 DEF Windowed
    <3> QED
      BY <3>1, <3>3 DEF Spent
  <2>2. AtMost(Before, Global) /\ AtMost(During, Global)
    <3>1. w.count \in Nat /\ w.count <= Global
      BY DEF Windowed
    <3> QED
      BY <3>1, AtMostWithin DEF Windowed, PresentBounded, PreviousBounded
  <2>3. AtMost(Before \cup During, 2 * Global)
    BY <2>2, AtMostUnion
  <2> QED
    BY <2>1, <2>3, AtMostWithin
<1> QED
  BY <1>1, <1>2 DEF Windowed

\* Opening a window when the last one has ended keeps the books.
LEMMA OpeningKeeps ==
  ASSUME LimiterIInv
  PROVE  Windowed(Current(globalWindow))
<1> USE AllowancesAreNatural
<1> DEFINE w == globalWindow
<1>0. Windowed(w) /\ LimiterTypeOK
  BY DEF LimiterIInv
<1>1. CASE time < w.resetAt
  BY <1>0, <1>1 DEF Current, LimiterTypeOK
<1>2. CASE time >= w.resetAt
  <2>1. Current(w) = Fresh /\ Since(Fresh) = time /\ Fresh.count = 0 /\ Fresh.resetAt = time + WindowLength
    BY <1>0, <1>2 DEF Current, Fresh, Since, LimiterTypeOK
  <2>2. Fresh \in [count : 0..Global, resetAt : 0..MaxTime + WindowLength]
    BY <1>0 DEF Fresh, LimiterTypeOK
  <2>3. NothingAhead(Fresh)
    BY <1>0, <2>1 DEF Windowed, NothingAhead, LimiterTypeOK
  <2>4. passed[time] = 0 /\ time \in 0 .. MaxTime
    BY <1>0, <1>2 DEF Windowed, NothingAhead, LimiterTypeOK
  <2>5. TicksBounded(Fresh)
    <3> SUFFICES ASSUME NEW u \in 0 .. MaxTime
                 PROVE  passed[u] <= Global /\ (u >= time => passed[u] <= 0)
      BY <2>1 DEF TicksBounded
    <3>1. passed[u] \in Nat /\ passed[u] <= Global /\ (u > time => passed[u] = 0)
      BY <1>0 DEF Windowed, TicksBounded, NothingAhead, LimiterTypeOK
    <3> QED
      BY <2>4, <3>1
  <2>6. PresentBounded(Fresh)
    <3>1. Spent(time, time) = {}
      BY <2>4 DEF Spent
    <3> QED
      BY <2>1, <3>1, FS_EmptySet DEF PresentBounded, AtMost
  <2>7. PreviousBounded(Fresh)
    <3>1. Since(w) + WindowLength <= time /\ Since(w) \in Nat
      BY <1>0, <1>2 DEF Windowed, Since, LimiterTypeOK
    <3>2. Spent(time - WindowLength, time - 1) \subseteq Spent(Since(w), time)
      <4>1. (time - WindowLength) .. (time - 1) \subseteq Since(w) .. time
        BY <2>4, <3>1
      <4> QED
        BY <4>1 DEF Spent
    <3>3. w.count \in Nat /\ w.count <= Global
      BY <1>0 DEF Windowed
    <3> QED
      BY <1>0, <2>1, <3>2, <3>3, AtMostWithin DEF Windowed, PresentBounded, PreviousBounded
  <2>8. PastBounded(Fresh)
    BY <1>0, StretchBounded DEF PastBounded
  <2> QED
    BY <1>0, <2>1, <2>2, <2>3, <2>5, <2>6, <2>7, <2>8 DEF Windowed, LimiterTypeOK
<1> QED
  BY <1>0, <1>1, <1>2 DEF LimiterTypeOK

\* One more request in a window that has room for it, before its end.
LEMMA CountingKeeps ==
  ASSUME LimiterTypeOK, NEW w, Windowed(w), w.count < Global, time < w.resetAt,
         globalWindow' = Counted(w), time' = time, passed' = [passed EXCEPT ![time] = @ + 1]
  PROVE  Windowed(globalWindow)' /\ passed' \in [0 .. MaxTime -> Nat]
<1> USE AllowancesAreNatural
<1>1. /\ w.count \in Nat /\ w.resetAt \in Nat
      /\ globalWindow' \in [count : 0..Global, resetAt : 0..MaxTime + WindowLength]
      /\ globalWindow'.count = w.count + 1 /\ globalWindow'.resetAt = w.resetAt
  BY DEF Windowed, Counted
<1>2. /\ time \in 0 .. MaxTime /\ passed' \in [0 .. MaxTime -> Nat]
      /\ \A u \in 0 .. MaxTime : passed'[u] = IF u = time THEN passed[u] + 1 ELSE passed[u]
  BY DEF LimiterTypeOK
<1>3. Since(w) \in Nat /\ Since(w) <= time /\ Since(globalWindow)' = Since(w)
  BY <1>1, <1>2 DEF Windowed, Since
<1>4. passed[time] \in Nat /\ passed[time] <= w.count
  BY <1>2, <1>3 DEF Windowed, TicksBounded, LimiterTypeOK
<1> DEFINE one == <<time, passed[time] + 1>>
<1>5. \A a, b \in Int : time \in a .. b => Spent(a, b)' \subseteq Spent(a, b) \cup {one}
  <2> SUFFICES ASSUME NEW a \in Int, NEW b \in Int, NEW u \in a .. b, NEW n \in 1 .. 2 * Global + 1,
                      u \in 0 .. MaxTime, n <= passed'[u]
               PROVE  <<u, n>> \in Spent(a, b) \/ <<u, n>> = one
    BY DEF Spent
  <2>1. u # time => n <= passed[u]
    BY <1>2
  <2>2. u = time => n <= passed[time] \/ n = passed[time] + 1
    BY <1>2, <1>4
  <2> QED
    BY <2>1, <2>2 DEF Spent
<1>6. \A a, b \in Int : b < time => Spent(a, b)' = Spent(a, b)
  BY <1>2 DEF Spent
<1>7. NothingAhead(globalWindow)'
  BY <1>1, <1>2 DEF Windowed, NothingAhead
<1>8. TicksBounded(globalWindow)'
  <2> SUFFICES ASSUME NEW u \in 0 .. MaxTime
               PROVE  passed'[u] <= Global /\ (u >= Since(w) => passed'[u] <= w.count + 1)
    BY <1>1, <1>3 DEF TicksBounded
  <2>1. passed[u] \in Nat /\ passed[u] <= Global /\ (u >= Since(w) => passed[u] <= w.count)
    BY DEF Windowed, TicksBounded, LimiterTypeOK
  <2> QED
    BY <1>1, <1>2, <1>4, <2>1
<1>9. PresentBounded(globalWindow)'
  <2>1. Spent(Since(w), time)' \subseteq Spent(Since(w), time) \cup {one}
    BY <1>2, <1>3, <1>5
  <2>2. AtMost(Spent(Since(w), time) \cup {one}, w.count + 1)
    BY <1>1, AtMostOneMore DEF Windowed, PresentBounded
  <2>3. AtMost(Spent(Since(w), time)', w.count + 1)
    BY <1>1, <2>1, <2>2, AtMostWithin
  <2> QED
    BY <1>1, <1>3, <2>3 DEF PresentBounded, AtMost, Spent
<1>10. PreviousBounded(globalWindow)'
  <2>1. Spent(Since(w) - WindowLength, Since(w) - 1)' = Spent(Since(w) - WindowLength, Since(w) - 1)
    BY <1>2, <1>3, <1>6
  <2> QED
    BY <1>3, <2>1 DEF Windowed, PreviousBounded, AtMost, Spent
<1>11. PastBounded(globalWindow)'
  <2> SUFFICES ASSUME NEW t \in Nat, t + WindowLength <= Since(w)
               PROVE  AtMost(Spent(t, t + WindowLength - 1), 2 * Global)'
    BY <1>3 DEF PastBounded
  <2>1. Spent(t, t + WindowLength - 1)' = Spent(t, t + WindowLength - 1)
    BY <1>2, <1>3, <1>6
  <2> QED
    BY <2>1 DEF Windowed, PastBounded, AtMost
<1> QED
  BY <1>1, <1>2, <1>3, <1>7, <1>8, <1>9, <1>10, <1>11 DEF Windowed

-----------------------------------------------------------------------------
(* The map of addresses *)

\* #evict takes one address out when one too many is held.
LEMMA EvictionBounds ==
  ASSUME NEW order \in Seq(Addresses), Len(order) <= MaxTracked + 1,
         NEW known \in [Addresses -> [count : 0..PerClient, resetAt : 0..MaxTime + WindowLength]]
  PROVE  Evicted(order, known) \in Seq(Addresses) /\ Len(Evicted(order, known)) <= MaxTracked
<1> USE AllowancesAreNatural
<1>1. CASE Len(order) <= MaxTracked
  BY <1>1 DEF Evicted
<1>2. CASE Len(order) > MaxTracked
  <2> DEFINE expired == {k \in DOMAIN order : time >= known[order[k]].resetAt}
             victim == IF expired = {} THEN 1 ELSE CHOOSE k \in expired : \A l \in expired : k <= l
             before == SubSeq(order, 1, victim - 1)
             after  == SubSeq(order, victim + 1, Len(order))
  <2>1. Len(order) \in Nat /\ DOMAIN order = 1 .. Len(order) /\ Len(order) >= 1
    BY <1>2, LenProperties
  <2>2. victim \in 1 .. Len(order)
    <3>1. CASE expired = {}
      BY <2>1, <3>1
    <3>2. CASE expired # {}
      <4>1. expired \in SUBSET Nat /\ expired \subseteq 1 .. Len(order)
        BY <2>1
      <4>2. \E k \in expired : \A l \in expired : k <= l
        BY <3>2, <4>1, LeastElement
      <4> QED
        BY <3>2, <4>1, <4>2
    <3> QED
      BY <3>1, <3>2
  <2>3. Evicted(order, known) = before \o after
    <3>1. ~(Len(order) <= MaxTracked)
      BY <1>2, <2>1
    <3> QED
      BY <3>1, Zenon DEF Evicted
  <2> HIDE DEF victim
  <2>4. \A i \in 1 .. Len(order) : order[i] \in Addresses
    BY ElementOfSeq
  <2>5. before \in Seq(Addresses) /\ Len(before) = victim - 1
    <3>1. victim - 1 \in Int /\ \A i \in 1 .. victim - 1 : order[i] \in Addresses
      BY <2>1, <2>2, <2>4
    <3>2. /\ SubSeq(order, 1, victim - 1) \in Seq(Addresses)
          /\ Len(SubSeq(order, 1, victim - 1)) = IF 1 <= victim - 1 THEN victim - 1 - 1 + 1 ELSE 0
      BY <3>1, SubSeqProperties
    <3> QED
      BY <2>1, <2>2, <3>2
  <2>6. after \in Seq(Addresses) /\ Len(after) = Len(order) - victim
    <3>1. victim + 1 \in Int /\ \A i \in victim + 1 .. Len(order) : order[i] \in Addresses
      BY <2>1, <2>2, <2>4
    <3>2. /\ SubSeq(order, victim + 1, Len(order)) \in Seq(Addresses)
          /\ Len(SubSeq(order, victim + 1, Len(order))) =
               IF victim + 1 <= Len(order) THEN Len(order) - (victim + 1) + 1 ELSE 0
      BY <2>1, <3>1, SubSeqProperties
    <3>3. CASE victim + 1 <= Len(order)
      BY <2>1, <2>2, <3>2, <3>3
    <3>4. CASE victim = Len(order)
      BY <2>1, <2>2, <3>2, <3>4
    <3>5. victim + 1 <= Len(order) \/ victim = Len(order)
      <4> SUFFICES ASSUME NEW l \in Nat, NEW v \in 1 .. l PROVE v + 1 <= l \/ v = l
        BY <2>1, <2>2
      <4> QED
        OBVIOUS
    <3> QED
      BY <3>3, <3>4, <3>5
  <2>7. before \o after \in Seq(Addresses) /\ Len(before \o after) = Len(before) + Len(after)
    BY <2>5, <2>6, ConcatProperties
  <2>8. Len(before \o after) <= MaxTracked
    <3> HIDE DEF before, after
    <3> QED
      BY <2>1, <2>2, <2>5, <2>6, <2>7
  <2> QED
    BY <2>3, <2>7, <2>8
<1> QED
  BY <1>1, <1>2, LenProperties

-----------------------------------------------------------------------------
(* The actions *)

LEMMA RefuseKeeps ==
  ASSUME LimiterIInv, NEW a \in Addresses, Refuse(a)
  PROVE  LimiterIInv'
<1>1. Windowed(Current(globalWindow)) /\ globalWindow' = Current(globalWindow)
  BY OpeningKeeps DEF Refuse
<1>2. time' = time /\ tracked' = tracked /\ windows' = windows /\ passed' = passed
  BY DEF Refuse
<1>3. Windowed(globalWindow)'
  BY <1>1, <1>2 DEF Windowed, NothingAhead, TicksBounded, PresentBounded, PreviousBounded, PastBounded,
       Since, Spent, AtMost
<1> QED
  BY <1>1, <1>2, <1>3 DEF LimiterIInv, LimiterTypeOK, Windowed

LEMMA AllowKeeps ==
  ASSUME LimiterIInv, NEW a \in Addresses, Allow(a)
  PROVE  LimiterIInv'
<1> USE AllowancesAreNatural
<1> DEFINE w == Current(globalWindow)
<1>1. Windowed(w) /\ w.count < Global /\ time < w.resetAt
  <2>1. Windowed(w) /\ w.count < Global
    BY OpeningKeeps DEF Allow, LimiterIInv
  <2>2. time \in 0 .. MaxTime /\ globalWindow.resetAt \in 0 .. MaxTime + WindowLength
    BY DEF LimiterIInv, LimiterTypeOK
  <2>3. time < w.resetAt
    BY <2>2 DEF Current, Fresh
  <2> QED
    BY <2>1, <2>3
<1>2. Windowed(globalWindow)' /\ passed' \in [0 .. MaxTime -> Nat]
  <2> HIDE DEF w
  <2>1. globalWindow' = Counted(w) /\ time' = time /\ passed' = [passed EXCEPT ![time] = @ + 1]
    BY DEF Allow, w
  <2> QED
    BY <1>1, <2>1, CountingKeeps DEF LimiterIInv
<1>3. windows' \in [Addresses -> [count : 0..PerClient, resetAt : 0..MaxTime + WindowLength]]
  <2>1. ClientWindow(a) \in [count : 0..PerClient, resetAt : 0..MaxTime + WindowLength]
    BY DEF ClientWindow, Current, Fresh, LimiterIInv, LimiterTypeOK
  <2>2. Counted(ClientWindow(a)) \in [count : 0..PerClient, resetAt : 0..MaxTime + WindowLength]
    BY <2>1 DEF Allow, Counted
  <2> QED
    BY <2>2 DEF Allow, LimiterIInv, LimiterTypeOK
<1>4. tracked' \in Seq(Addresses) /\ Len(tracked') <= MaxTracked
  <2>1. Inserted(a) \in Seq(Addresses) /\ Len(Inserted(a)) <= MaxTracked + 1
    <3>1. tracked \in Seq(Addresses) /\ Len(tracked) <= MaxTracked /\ Len(tracked) \in Nat
      BY LenProperties DEF LimiterIInv, LimiterTypeOK
    <3>2. Append(tracked, a) \in Seq(Addresses) /\ Len(Append(tracked, a)) = Len(tracked) + 1
      BY <3>1, AppendProperties
    <3> QED
      BY <3>1, <3>2 DEF Inserted
  <2> QED
    BY <1>3, <2>1, EvictionBounds DEF Allow
<1> QED
  BY <1>2, <1>3, <1>4 DEF Allow, LimiterIInv, LimiterTypeOK, Windowed

LEMMA ClockKeeps ==
  ASSUME LimiterIInv, ClockTicks
  PROVE  LimiterIInv'
<1> USE AllowancesAreNatural
<1> DEFINE w == globalWindow
<1>1. /\ time' = time + 1 /\ time \in Nat /\ time' \in 0 .. MaxTime
      /\ globalWindow' = globalWindow /\ tracked' = tracked /\ windows' = windows /\ passed' = passed
  BY DEF ClockTicks, LimiterIInv, LimiterTypeOK
<1>2. Windowed(w)
  BY DEF LimiterIInv
<1>3. Spent(Since(w), time)' = Spent(Since(w), time)
  <2>1. passed[time + 1] = 0 /\ Since(w) \in Int
    BY <1>1, <1>2 DEF Windowed, NothingAhead
  <2>2. \A u \in Since(w) .. time + 1 : u \in Since(w) .. time \/ u = time + 1
    BY <1>1, <2>1
  <2>3. \A u \in Since(w) .. time : u \in Since(w) .. time + 1
    BY <1>1, <2>1
  <2>4. Since(w)' = Since(w)
    BY <1>1 DEF Since
  <2>5. \A p \in (Since(w) .. time + 1) \X (1 .. 2 * Global + 1) :
          p[1] \in 0 .. MaxTime /\ p[2] <= passed[p[1]]
            => p \in (Since(w) .. time) \X (1 .. 2 * Global + 1)
    BY <2>1, <2>2, AllowancesAreNatural
  <2>6. (Since(w) .. time) \X (1 .. 2 * Global + 1) \subseteq (Since(w) .. time + 1) \X (1 .. 2 * Global + 1)
    BY <2>3
  <2> QED
    BY <1>1, <2>4, <2>5, <2>6 DEF Spent
<1>4. PresentBounded(globalWindow)'
  <2>1. Since(w)' = Since(w) /\ w.count' = w.count
    BY <1>1 DEF Since
  <2> QED
    BY <1>1, <1>2, <1>3, <2>1 DEF Windowed, PresentBounded, AtMost
<1>5. NothingAhead(globalWindow)' /\ TicksBounded(globalWindow)' /\ Since(globalWindow)' \in 0 .. time'
  BY <1>1, <1>2 DEF Windowed, NothingAhead, TicksBounded, Since
<1>6. PreviousBounded(globalWindow)' /\ PastBounded(globalWindow)'
  BY <1>1, <1>2 DEF Windowed, PreviousBounded, PastBounded, Spent, AtMost, Since
<1> QED
  BY <1>1, <1>2, <1>4, <1>5, <1>6 DEF LimiterIInv, LimiterTypeOK, Windowed

LEMMA LimiterInitHolds ==
  ASSUME LimiterInit
  PROVE  LimiterIInv
<1> USE AllowancesAreNatural
<1>1. /\ time = 0 /\ globalWindow = [count |-> 0, resetAt |-> WindowLength]
      /\ passed = [t \in 0..MaxTime |-> 0] /\ tracked = <<>>
  BY DEF LimiterInit, Fresh
<1>2. LimiterTypeOK /\ Len(tracked) <= MaxTracked
  BY <1>1 DEF LimiterInit, LimiterTypeOK, Fresh
<1>3. Since(globalWindow) = 0
  BY <1>1 DEF Since
<1>4. \A b, c \in Int : Spent(b, c) = {}
  BY <1>1 DEF Spent
<1>5. \A b, c \in Int, n \in Nat : AtMost(Spent(b, c), n)
  BY <1>4, FS_EmptySet DEF AtMost
<1> QED
  BY <1>1, <1>2, <1>3, <1>5
     DEF LimiterIInv, Windowed, NothingAhead, TicksBounded, PresentBounded, PreviousBounded, PastBounded

LEMMA LimiterStepKeeps ==
  ASSUME LimiterIInv, [LimiterNext]_limiterVars
  PROVE  LimiterIInv'
<1>1. CASE UNCHANGED limiterVars
  BY <1>1 DEF limiterVars, LimiterIInv, LimiterTypeOK, Windowed, NothingAhead, TicksBounded, PresentBounded,
       PreviousBounded, PastBounded, Since, Spent, AtMost
<1>2. CASE ClockTicks
  BY <1>2, ClockKeeps
<1>3. ASSUME NEW a \in Addresses, Allow(a) PROVE LimiterIInv'
  BY <1>3, AllowKeeps
<1>4. ASSUME NEW a \in Addresses, Refuse(a) PROVE LimiterIInv'
  BY <1>4, RefuseKeeps
<1> QED
  BY <1>1, <1>2, <1>3, <1>4 DEF LimiterNext

\* Every stretch is bounded, hence those the property is about.
LEMMA LimiterIInvBounds ==
  ASSUME LimiterIInv
  PROVE  SpendingIsBounded
<1> SUFFICES ASSUME NEW t \in 0 .. time
             PROVE  Passed(t) <= 2 * Global
  BY DEF LimiterIInv, SpendingIsBounded
<1>1. Cardinality(Spent(t, t + WindowLength - 1)) <= 2 * Global
  BY StretchBounded DEF LimiterIInv, AtMost
<1>2. \A u \in t .. t + WindowLength - 1 : u <= MaxTime <=> u \in 0 .. MaxTime
  BY AllowancesAreNatural DEF LimiterIInv, LimiterTypeOK
<1>3. {p \in (t .. t + WindowLength - 1) \X (1 .. 2 * Global + 1) :
         p[1] <= MaxTime /\ p[2] <= passed[p[1]]} = Spent(t, t + WindowLength - 1)
  BY <1>2 DEF Spent
<1> QED
  BY <1>1, <1>3 DEF Passed

-----------------------------------------------------------------------------
\* Every count is within its allowance, and what is held is an address.
THEOREM LimiterTypeCorrect == LimiterSpec => []LimiterTypeOK
<1>1. LimiterIInv => LimiterTypeOK
  BY DEF LimiterIInv
<1> QED
  BY <1>1, LimiterInitHolds, LimiterStepKeeps, PTL DEF LimiterSpec

\* No stretch of one window's length lets more than two windows' worth of
\* requests through, and no more addresses are held than there is room for
\* (src/http/rate-limit.ts:17, :135).
THEOREM SpendingBounded == LimiterSpec => []SpendingIsBounded
BY LimiterInitHolds, LimiterStepKeeps, LimiterIInvBounds, PTL DEF LimiterSpec

-----------------------------------------------------------------------------
(* The audit chain *)

ChainSpec == ChainInit /\ [][ChainNext]_chainVars

-----------------------------------------------------------------------------
(* The inductive invariant *)

Actions == Answers \cup {"intent"}

IsSeq(s) == s \in Seq(Range(s))
PrevHash(k) == IF k = 1 THEN Genesis ELSE chain[k - 1].hash

\* What is in the chain is what the trigger makes of an action and a mint.
Linked ==
  /\ IsSeq(chain)
  /\ \A k \in 1 .. Len(chain) :
       /\ chain[k] = Linking(k, PrevHash(k), chain[k].payload[3], chain[k].payload[4])
       /\ chain[k].payload[3] \in Actions

\* Whoever is appending has the head, and has prepared the very next entry.
HeadIsLocked == \A m \in Mints : Logging(m) <=> head = m

Prepared ==
  \A m \in Mints :
    /\ mint[m].at \in {"outcome", "logging outcome"} => mint[m].result \in Answers
    /\ Logging(m) => mint[m].entry = <<Linking(Next1, HeadHash, Pending(m)[1], m)>>

Intended(m, upTo) == \E k \in 1 .. upTo : chain[k].payload[3] = "intent" /\ chain[k].payload[4] = m

\* No call gets past its intent before the intent is in the chain.
IntentFirst ==
  \A m \in Mints :
    /\ mint[m].at \in {"requesting", "outcome", "logging outcome", "using", "done"} => Intended(m, Len(chain))
    /\ issued[m] # NoToken => issued[m] <= Len(chain) + 1 /\ Intended(m, issued[m] - 1)

\* A checkpoint is the seq and the hash of an entry that stays.
Anchored == \A c \in held : c.seq \in 1 .. Len(chain) /\ c.hash = chain[c.seq].hash

ChainIInv == ChainTypeOK /\ Linked /\ HeadIsLocked /\ Prepared /\ IntentFirst /\ Anchored

-----------------------------------------------------------------------------
(* Data *)

LEMMA SeqFacts ==
  ASSUME NEW s, IsSeq(s)
  PROVE  Len(s) \in Nat /\ DOMAIN s = 1 .. Len(s) /\ (s = <<>> <=> Len(s) = 0)
BY LenProperties, EmptySeq DEF IsSeq

\* What an append does to a sequence of anything.
LEMMA Appended ==
  ASSUME NEW s, IsSeq(s), NEW e
  PROVE  /\ IsSeq(Append(s, e)) /\ Len(Append(s, e)) = Len(s) + 1
         /\ \A k \in 1 .. Len(s) : Append(s, e)[k] = s[k]
         /\ Append(s, e)[Len(s) + 1] = e
<1> DEFINE S == Range(s) \cup {e}
<1>1. s \in Seq(S)
  BY SeqMonotonic DEF IsSeq
<1>2. e \in S
  OBVIOUS
<1> HIDE DEF S
<1>3. /\ Append(s, e) \in Seq(S) /\ Len(Append(s, e)) = Len(s) + 1
      /\ \A k \in 1 .. Len(s) : Append(s, e)[k] = s[k]
      /\ Append(s, e)[Len(s) + 1] = e
  BY <1>1, <1>2, AppendProperties
<1>4. IsSeq(Append(s, e))
  BY <1>3, SeqOfRange DEF IsSeq
<1> QED
  BY <1>3, <1>4

LEMMA EntryFacts ==
  ASSUME NEW seq, NEW prev, NEW action, NEW of
  PROVE  /\ Linking(seq, prev, action, of).seq = seq
         /\ Linking(seq, prev, action, of).prev = prev
         /\ Linking(seq, prev, action, of).payload = <<seq, prev, action, of>>
         /\ Linking(seq, prev, action, of).payload[3] = action
         /\ Linking(seq, prev, action, of).payload[4] = of
         /\ Linking(seq, prev, action, of).hash = HashPayload(<<seq, prev, action, of>>)
BY DEF Linking, Payload

\* No two payloads share a hash.
LEMMA HashIsInjective ==
  ASSUME NEW s1, NEW p1, NEW a1, NEW o1, NEW s2, NEW p2, NEW a2, NEW o2,
         HashPayload(<<s1, p1, a1, o1>>) = HashPayload(<<s2, p2, a2, o2>>)
  PROVE  s1 = s2 /\ p1 = p2 /\ a1 = a2 /\ o1 = o2
BY DEF HashPayload

\* The members of a record of mint are of their types, whatever its entry.
LEMMA Retyped ==
  ASSUME NEW E, mint' \in [Mints -> [at : MintStages, result : Answers \cup {"none"}, entry : E]]
  PROVE  mint' \in [Mints -> [at : MintStages, result : Answers \cup {"none"}, entry : {mint'[m].entry : m \in Mints}]]
<1>1. \A m \in Mints : mint'[m] \in [at : MintStages, result : Answers \cup {"none"}, entry : {mint'[k].entry : k \in Mints}]
  OBVIOUS
<1> QED
  BY <1>1

-----------------------------------------------------------------------------
(* What appending the prepared entry does, whoever does it and however its  *)
(* call goes on.                                                            *)

Appends(m) == Logging(m) /\ chain' = Append(chain, mint[m].entry[1])

LEMMA AppendKeepsChain ==
  ASSUME ChainIInv, NEW m \in Mints, Appends(m)
  PROVE  /\ Linked' /\ Len(chain') = Len(chain) + 1
         /\ \A k \in 1 .. Len(chain) : chain'[k] = chain[k]
         /\ chain'[Len(chain')].payload[3] = Pending(m)[1] /\ chain'[Len(chain')].payload[4] = m
<1> DEFINE e == Linking(Next1, HeadHash, Pending(m)[1], m)
           L == Len(chain)
<1>1. L \in Nat /\ DOMAIN chain = 1 .. L /\ (chain = <<>> <=> L = 0) /\ IsSeq(chain)
  BY SeqFacts DEF ChainIInv, Linked
<1>2. mint[m].entry[1] = e
  <2>1. mint[m].entry = <<e>>
    BY DEF ChainIInv, Prepared, Appends
  <2> HIDE DEF e
  <2> QED
    BY <2>1
<1>3. /\ IsSeq(chain') /\ Len(chain') = L + 1 /\ \A k \in 1 .. L : chain'[k] = chain[k]
      /\ chain'[L + 1] = e
  BY <1>1, <1>2, Appended DEF Appends
<1>4. e.payload[3] = Pending(m)[1] /\ e.payload[4] = m
  BY DEF Linking, Payload
<1>5. Pending(m)[1] \in Actions
  BY DEF Pending, Logging, ChainIInv, Prepared, Actions, Appends
<1>6. HeadHash = (IF L + 1 = 1 THEN Genesis ELSE chain'[L].hash)
  BY <1>1, <1>3 DEF HeadHash
<1>7. ASSUME NEW k \in 1 .. Len(chain')
      PROVE  /\ chain'[k] = Linking(k, PrevHash(k)', chain'[k].payload[3], chain'[k].payload[4])
             /\ chain'[k].payload[3] \in Actions
  <2>1. CASE k = L + 1
    <3>1. PrevHash(k)' = HeadHash
      BY <1>1, <1>6, <2>1 DEF PrevHash
    <3>2. chain'[k] = Linking(k, PrevHash(k)', Pending(m)[1], m)
      BY <1>3, <2>1, <3>1 DEF Next1, Linking, Payload
    <3>3. chain'[k].payload[3] = Pending(m)[1] /\ chain'[k].payload[4] = m
      BY <1>3, <1>4, <2>1
    <3> QED
      BY <1>5, <3>2, <3>3
  <2>2. CASE k \in 1 .. L
    <3>1. PrevHash(k)' = PrevHash(k)
      BY <1>1, <1>3, <2>2 DEF PrevHash
    <3> QED
      BY <1>3, <2>2, <3>1 DEF ChainIInv, Linked
  <2> QED
    BY <1>1, <1>3, <2>1, <2>2
<1>8. Linked'
  BY <1>3, <1>7 DEF Linked
<1> HIDE DEF e
<1> QED
  BY <1>1, <1>3, <1>4, <1>8

\* Nothing that is in the chain goes.
LEMMA GrownChain ==
  ASSUME ChainIInv, Len(chain') \in Nat, Len(chain') >= Len(chain),
         \A k \in 1 .. Len(chain) : chain'[k] = chain[k]
  PROVE  /\ \A m, n : n \in 0 .. Len(chain) /\ Intended(m, n) => Intended(m, n)'
         /\ \A m : Intended(m, Len(chain)) => Intended(m, Len(chain))'
         /\ held' = held => Anchored'
<1>1. Len(chain) \in Nat
  BY SeqFacts DEF ChainIInv, Linked
<1>2. \A m, n : n \in 0 .. Len(chain) /\ Intended(m, n) => Intended(m, n)'
  BY <1>1 DEF Intended
<1>3. \A m : Intended(m, Len(chain)) => Intended(m, Len(chain))'
  BY <1>1 DEF Intended
<1>4. held' = held => Anchored'
  BY <1>1 DEF ChainIInv, Anchored
<1> QED
  BY <1>2, <1>3, <1>4

-----------------------------------------------------------------------------
(* The actions *)

LEMMA TakeHeadKeeps ==
  ASSUME ChainIInv, NEW m \in Mints, TakeHead(m)
  PROVE  ChainIInv'
<1> DEFINE e == Linking(Next1, HeadHash, Pending(m)[1], m)
           to == IF mint[m].at = "intent" THEN "logging intent" ELSE "logging outcome"
<1>1. /\ mint[m].at \in {"intent", "outcome"} /\ head = Nobody /\ head' = m
      /\ UNCHANGED <<chain, issued, held, lost>>
      /\ mint' = [mint EXCEPT ![m].at = IF @ = "intent" THEN "logging intent" ELSE "logging outcome",
                              ![m].entry = <<Linking(Next1, HeadHash, Pending(m)[1], m)>>]
  BY DEF TakeHead
<1>2. /\ mint \in [Mints -> [at : MintStages, result : Answers \cup {"none"}, entry : {mint[k].entry : k \in Mints}]]
      /\ \A k \in Mints : head # k
  BY <1>1, AuditAssumption DEF ChainIInv, ChainTypeOK
<1>3. /\ \A k \in Mints : k # m => mint'[k] = mint[k]
      /\ mint'[m].at = to /\ mint'[m].entry = <<e>> /\ mint'[m].result = mint[m].result
      /\ mint' \in [Mints -> [at : MintStages, result : Answers \cup {"none"}, entry : {mint[k].entry : k \in Mints} \cup {<<e>>}]]
  <2> HIDE DEF e
  <2>1. mint' = [mint EXCEPT ![m].at = to, ![m].entry = <<e>>]
    BY <1>1 DEF e
  <2>2. to \in MintStages
    BY DEF MintStages
  <2> HIDE DEF to
  <2> QED
    BY <1>2, <2>1, <2>2
<1> HIDE DEF e
<1>4. \A k \in Mints : Logging(k)' <=> k = m
  BY <1>1, <1>2, <1>3 DEF Logging, ChainIInv, HeadIsLocked
<1>5. ChainTypeOK'
  <2>1. mint' \in [Mints -> [at : MintStages, result : Answers \cup {"none"}, entry : {mint'[k].entry : k \in Mints}]]
    BY <1>3, Retyped
  <2>2. \A k \in Mints : Logging(k)' <=> mint'[k].entry # <<>>
    BY <1>1, <1>2, <1>3, <1>4 DEF ChainIInv, ChainTypeOK, HeadIsLocked
  <2> QED
    BY <1>1, <2>1, <2>2 DEF ChainIInv, ChainTypeOK
<1>6. HeadIsLocked'
  BY <1>1, <1>4 DEF HeadIsLocked
<1>7. Prepared'
  <2>1. Pending(m)' = Pending(m)
    BY <1>1, <1>3 DEF Pending
  <2>2. mint'[m].entry = <<Linking(Next1, HeadHash, Pending(m)[1], m)>>'
    BY <1>1, <1>3, <2>1 DEF e, Next1, HeadHash
  <2>3. \A k \in Mints : mint'[k].at \in {"outcome", "logging outcome"} => mint'[k].result \in Answers
    BY <1>1, <1>3 DEF ChainIInv, Prepared
  <2> QED
    BY <1>4, <2>2, <2>3 DEF Prepared
<1>8. Linked' /\ Anchored'
  BY <1>1 DEF ChainIInv, Linked, PrevHash, Anchored
<1>9. IntentFirst'
  <2>1. \A k, n : Intended(k, n)' <=> Intended(k, n)
    BY <1>1 DEF Intended
  <2>2. \A k \in Mints : mint'[k].at \in {"requesting", "outcome", "logging outcome", "using", "done"}
          => mint[k].at \in {"requesting", "outcome", "logging outcome", "using", "done"}
    BY <1>1, <1>3
  <2>3. Len(chain)' = Len(chain)
    BY <1>1
  <2> QED
    BY <1>1, <2>1, <2>2, <2>3 DEF ChainIInv, IntentFirst
<1> QED
  BY <1>5, <1>6, <1>7, <1>8, <1>9 DEF ChainIInv

\* A call that leaves the log, its entry appended or not.
Leaves(m, to) ==
  /\ Logging(m) /\ to \in MintStages
  /\ chain' = chain \/ Appends(m)
  /\ head' = Nobody
  /\ mint' = [mint EXCEPT ![m].entry = <<>>, ![m].at = to]
  /\ mint[m].at = "logging intent" => to = "failed" \/ (to = "requesting" /\ Appends(m))
  /\ mint[m].at # "logging intent" => to \in {"failed", "using"}
  /\ UNCHANGED <<issued, held>> /\ lost' \in 0 .. MaxLost

LEMMA LeavingKeeps ==
  ASSUME ChainIInv, NEW m \in Mints, NEW to, Leaves(m, to)
  PROVE  ChainIInv'
<1>1. /\ mint \in [Mints -> [at : MintStages, result : Answers \cup {"none"}, entry : {mint[k].entry : k \in Mints}]]
      /\ head = m /\ Logging(m) /\ to \in MintStages /\ issued' = issued /\ held' = held /\ head' = Nobody
      /\ lost' \in 0 .. MaxLost /\ to \in {"failed", "requesting", "using"}
  BY DEF ChainIInv, ChainTypeOK, HeadIsLocked, Leaves
<1>2. /\ \A k \in Mints : k # m => mint'[k] = mint[k]
      /\ mint'[m].at = to /\ mint'[m].entry = <<>> /\ mint'[m].result = mint[m].result
      /\ mint' \in [Mints -> [at : MintStages, result : Answers \cup {"none"}, entry : {mint[k].entry : k \in Mints} \cup {<<>>}]]
  BY <1>1 DEF Leaves
<1>3. \A k \in Mints : ~Logging(k)'
  BY <1>1, <1>2 DEF Logging, ChainIInv, HeadIsLocked
<1>4. ChainTypeOK'
  <2>1. mint' \in [Mints -> [at : MintStages, result : Answers \cup {"none"}, entry : {mint'[k].entry : k \in Mints}]]
    BY <1>2, Retyped
  <2>2. \A k \in Mints : mint'[k].entry = <<>>
    BY <1>1, <1>2 DEF ChainIInv, ChainTypeOK, HeadIsLocked
  <2> QED
    BY <1>1, <1>3, <2>1, <2>2 DEF ChainIInv, ChainTypeOK
<1>5. HeadIsLocked'
  BY <1>1, <1>3, AuditAssumption DEF HeadIsLocked
<1>6. Prepared'
  BY <1>1, <1>2, <1>3 DEF ChainIInv, Prepared
<1>7. /\ Linked' /\ Len(chain') \in Nat /\ Len(chain') >= Len(chain)
      /\ \A k \in 1 .. Len(chain) : chain'[k] = chain[k]
  <2>0. Len(chain) \in Nat
    BY SeqFacts DEF ChainIInv, Linked
  <2>1. CASE chain' = chain
    BY <2>0, <2>1 DEF ChainIInv, Linked, PrevHash
  <2>2. CASE Appends(m)
    BY <2>0, <2>2, AppendKeepsChain
  <2> QED
    BY <2>1, <2>2 DEF Leaves
<1>8. Anchored'
  BY <1>1, <1>7, GrownChain
<1>9. ASSUME to # "failed"
      PROVE  Intended(m, Len(chain))'
  <2>1. CASE mint[m].at = "logging outcome"
    BY <1>7, <2>1, GrownChain DEF ChainIInv, IntentFirst
  <2>2. CASE mint[m].at = "logging intent"
    <3>1. Appends(m)
      BY <1>9, <2>2 DEF Leaves
    <3>2. Len(chain') = Len(chain) + 1 /\ Len(chain) \in Nat
      BY <3>1, AppendKeepsChain, SeqFacts DEF ChainIInv, Linked
    <3>3. chain'[Len(chain')].payload[3] = "intent" /\ chain'[Len(chain')].payload[4] = m
      BY <2>2, <3>1, AppendKeepsChain DEF Pending
    <3> QED
      BY <3>2, <3>3 DEF Intended
  <2> QED
    BY <1>1, <2>1, <2>2 DEF Logging
<1>10. IntentFirst'
  <2>1. ASSUME NEW k \in Mints, mint'[k].at \in {"requesting", "outcome", "logging outcome", "using", "done"}
        PROVE  Intended(k, Len(chain))'
    <3>1. CASE k = m
      BY <1>2, <1>9, <2>1, <3>1
    <3>2. CASE k # m
      BY <1>2, <1>7, <2>1, <3>2, GrownChain DEF ChainIInv, IntentFirst
    <3> QED
      BY <3>1, <3>2
  <2>2. ASSUME NEW k \in Mints, issued'[k] # NoToken
        PROVE  issued'[k] <= Len(chain') + 1 /\ Intended(k, issued[k] - 1)'
    <3>1. issued[k] \in Nat /\ issued[k] # 0 /\ issued[k] <= Len(chain) + 1 /\ Intended(k, issued[k] - 1)
      BY <1>1, <2>2 DEF ChainIInv, ChainTypeOK, IntentFirst, NoToken
    <3>2. issued[k] - 1 \in 0 .. Len(chain)
      <4>1. Len(chain) \in Nat
        BY SeqFacts DEF ChainIInv, Linked
      <4> QED
        BY <3>1, <4>1
    <3>3. Intended(k, issued[k] - 1)'
      <4>1. Intended(k, issued[k] - 1) /\ issued' = issued
        BY <1>1, <3>1
      <4>2. \A j \in 1 .. issued[k] - 1 : j \in 1 .. Len(chain)
        BY <3>1, <3>2, SeqFacts DEF ChainIInv, Linked
      <4> QED
        BY <1>7, <4>1, <4>2 DEF Intended
    <3> QED
      BY <1>1, <1>7, <3>1, <3>2, <3>3, SeqFacts DEF ChainIInv, Linked
  <2> QED
    BY <2>1, <2>2 DEF IntentFirst
<1> QED
  BY <1>4, <1>5, <1>6, <1>7, <1>8, <1>10 DEF ChainIInv

LEMMA CommitKeeps ==
  ASSUME ChainIInv, NEW m \in Mints, CommitEntry(m)
  PROVE  ChainIInv'
<1> DEFINE to == IF mint[m].at = "logging intent" THEN "requesting"
                 ELSE IF mint[m].result = "granted" THEN "using" ELSE "failed"
<1>1. mint' = [mint EXCEPT ![m].entry = <<>>, ![m].at = to]
  BY DEF CommitEntry, ChainIInv, ChainTypeOK
<1>2. Appends(m) /\ lost' \in 0 .. MaxLost
  BY DEF CommitEntry, Appends, ChainIInv, ChainTypeOK
<1>3. to \in MintStages
  BY DEF MintStages
<1> QED
  BY <1>1, <1>2, <1>3, LeavingKeeps DEF CommitEntry, Leaves

LEMMA AppendFailsKeeps ==
  ASSUME ChainIInv, NEW m \in Mints, AppendFails(m)
  PROVE  ChainIInv'
<1>1. "failed" \in MintStages
  BY DEF MintStages
<1>2. lost' \in 0 .. MaxLost
  <2>1. MaxLost \in Nat
    BY AuditAssumption
  <2> QED
    BY <2>1 DEF AppendFails, ChainIInv, ChainTypeOK
<1>3. chain' = chain \/ Appends(m)
  BY DEF AppendFails, Appends
<1>4. Leaves(m, "failed")
  <2>1. /\ Logging(m) /\ head' = Nobody
        /\ mint' = [mint EXCEPT ![m].entry = <<>>, ![m].at = "failed"]
        /\ UNCHANGED <<issued, held>>
    BY Zenon DEF AppendFails
  <2>2. "failed" \in {"failed", "using"}
    OBVIOUS
  <2> QED
    BY <1>1, <1>2, <1>3, <2>1, <2>2, Zenon DEF Leaves
<1> QED
  BY <1>4, LeavingKeeps

LEMMA MinterDiesKeeps ==
  ASSUME ChainIInv, NEW m \in Mints, MinterDies(m)
  PROVE  ChainIInv'
<1>1. "failed" \in MintStages /\ "failed" \notin {"logging intent", "logging outcome"}
  BY DEF MintStages
<1>2. /\ mint \in [Mints -> [at : MintStages, result : Answers \cup {"none"}, entry : {mint[k].entry : k \in Mints}]]
      /\ UNCHANGED <<chain, issued, held>> /\ lost' \in 0 .. MaxLost
      /\ head' = IF head = m THEN Nobody ELSE head
  <2>1. MaxLost \in Nat
    BY AuditAssumption
  <2> QED
    BY <2>1 DEF MinterDies, ChainIInv, ChainTypeOK
<1>3. /\ \A k \in Mints : k # m => mint'[k] = mint[k]
      /\ mint'[m].at = "failed" /\ mint'[m].entry = <<>>
      /\ mint' \in [Mints -> [at : MintStages, result : Answers \cup {"none"}, entry : {mint[k].entry : k \in Mints} \cup {<<>>}]]
  BY <1>1, <1>2 DEF MinterDies
<1>4. \A k \in Mints : Logging(k)' <=> Logging(k) /\ k # m
  BY <1>1, <1>3 DEF Logging
<1>5. ChainTypeOK'
  <2>1. mint' \in [Mints -> [at : MintStages, result : Answers \cup {"none"}, entry : {mint'[k].entry : k \in Mints}]]
    BY <1>3, Retyped
  <2>2. \A k \in Mints : Logging(k)' <=> mint'[k].entry # <<>>
    BY <1>3, <1>4 DEF ChainIInv, ChainTypeOK
  <2>3. head' \in Mints \cup {Nobody}
    BY <1>2 DEF ChainIInv, ChainTypeOK
  <2> QED
    BY <1>2, <2>1, <2>2, <2>3 DEF ChainIInv, ChainTypeOK
<1>6. HeadIsLocked'
  BY <1>2, <1>4, AuditAssumption DEF ChainIInv, HeadIsLocked
<1>7. Prepared'
  <2>1. \A k \in Mints : k # m => Pending(k)' = Pending(k)
    BY <1>3 DEF Pending
  <2>2. Next1' = Next1 /\ HeadHash' = HeadHash
    BY <1>2 DEF Next1, HeadHash
  <2>3. ASSUME NEW k \in Mints, Logging(k)'
        PROVE  mint'[k].entry = <<Linking(Next1, HeadHash, Pending(k)[1], k)>>'
    <3>1. k # m /\ Logging(k) /\ mint'[k] = mint[k]
      BY <1>3, <1>4, <2>3
    <3>2. mint[k].entry = <<Linking(Next1, HeadHash, Pending(k)[1], k)>>
      BY <3>1 DEF ChainIInv, Prepared
    <3> QED
      BY <2>1, <2>2, <3>1, <3>2
  <2>4. \A k \in Mints : mint'[k].at \in {"outcome", "logging outcome"} => mint'[k].result \in Answers
    BY <1>3 DEF ChainIInv, Prepared
  <2> QED
    BY <2>3, <2>4 DEF Prepared
<1>8. Linked' /\ Anchored'
  BY <1>2 DEF ChainIInv, Linked, PrevHash, Anchored
<1>9. IntentFirst'
  <2>1. \A k, n : Intended(k, n)' <=> Intended(k, n)
    BY <1>2 DEF Intended
  <2> QED
    BY <1>2, <1>3, <2>1 DEF ChainIInv, IntentFirst
<1> QED
  BY <1>5, <1>6, <1>7, <1>8, <1>9 DEF ChainIInv

\* A call that goes on outside the log: what it is issued, it is issued after
\* its intent was committed.
GoesOn(m, to, answer) ==
  /\ mint[m].at \in {"requesting", "using"}
  /\ to \in {"outcome", "failed", "done"} /\ answer \in Answers \cup {"none"}
  /\ to = "outcome" => answer \in Answers
  /\ mint' = [mint EXCEPT ![m].at = to, ![m].result = answer]
  /\ issued' \in {issued, [issued EXCEPT ![m] = Len(chain) + 1]}
  /\ UNCHANGED <<chain, head, held, lost>>

LEMMA GoingOnKeeps ==
  ASSUME ChainIInv, NEW m \in Mints, NEW to, NEW answer, GoesOn(m, to, answer)
  PROVE  ChainIInv'
<1>1. /\ mint \in [Mints -> [at : MintStages, result : Answers \cup {"none"}, entry : {mint[k].entry : k \in Mints}]]
      /\ issued \in [Mints -> Nat] /\ Len(chain) \in Nat
      /\ UNCHANGED <<chain, head, held, lost>>
  BY SeqFacts DEF GoesOn, ChainIInv, ChainTypeOK, Linked
<1>2. /\ mint[m].at \in {"requesting", "using"} /\ to \in {"outcome", "failed", "done"} /\ to \in MintStages
      /\ to = "outcome" => answer \in Answers
  BY DEF GoesOn, MintStages
<1>3. /\ \A k \in Mints : k # m => mint'[k] = mint[k]
      /\ mint'[m].at = to /\ mint'[m].entry = mint[m].entry /\ mint'[m].result = answer
      /\ mint' \in [Mints -> [at : MintStages, result : Answers \cup {"none"}, entry : {mint[k].entry : k \in Mints}]]
  <2> DEFINE r == [mint[m] EXCEPT !.at = to, !.result = answer]
             Calls == [at : MintStages, result : Answers \cup {"none"}, entry : {mint[k].entry : k \in Mints}]
  <2>1. mint[m] \in Calls /\ answer \in Answers \cup {"none"}
    BY <1>1 DEF GoesOn
  <2>2. r \in Calls /\ r.at = to /\ r.entry = mint[m].entry /\ r.result = answer
    BY <1>2, <2>1
  <2>3. mint' = [mint EXCEPT ![m] = r]
    BY <1>1, <2>1 DEF GoesOn
  <2> QED
    BY <1>1, <2>2, <2>3
<1>4. /\ issued' \in [Mints -> Nat]
      /\ \A k \in Mints : k # m => issued'[k] = issued[k]
      /\ issued'[m] = issued[m] \/ issued'[m] = Len(chain) + 1
  <2>1. CASE issued' = issued
    BY <1>1, <2>1
  <2>2. CASE issued' = [issued EXCEPT ![m] = Len(chain) + 1]
    BY <1>1, <2>2
  <2> QED
    BY <2>1, <2>2 DEF GoesOn
<1>5. \A k \in Mints : (Logging(k)' <=> Logging(k)) /\ (Logging(k) => k # m)
  BY <1>2, <1>3 DEF Logging
<1>6. ChainTypeOK'
  <2>1. mint' \in [Mints -> [at : MintStages, result : Answers \cup {"none"}, entry : {mint'[k].entry : k \in Mints}]]
    BY <1>3, Retyped
  <2>2. \A k \in Mints : Logging(k)' <=> mint'[k].entry # <<>>
    BY <1>3, <1>5 DEF ChainIInv, ChainTypeOK
  <2> QED
    BY <1>1, <1>4, <2>1, <2>2 DEF ChainIInv, ChainTypeOK
<1>7. HeadIsLocked'
  BY <1>1, <1>5 DEF ChainIInv, HeadIsLocked
<1>8. Prepared'
  <2>1. \A k \in Mints : k # m => Pending(k)' = Pending(k)
    BY <1>3 DEF Pending
  <2>2. Next1' = Next1 /\ HeadHash' = HeadHash
    BY <1>1 DEF Next1, HeadHash
  <2>3. ASSUME NEW k \in Mints, Logging(k)'
        PROVE  mint'[k].entry = <<Linking(Next1, HeadHash, Pending(k)[1], k)>>'
    <3>1. k # m /\ Logging(k) /\ mint'[k] = mint[k]
      BY <1>3, <1>5, <2>3
    <3>2. mint[k].entry = <<Linking(Next1, HeadHash, Pending(k)[1], k)>>
      BY <3>1 DEF ChainIInv, Prepared
    <3> QED
      BY <2>1, <2>2, <3>1, <3>2
  <2>4. \A k \in Mints : mint'[k].at \in {"outcome", "logging outcome"} => mint'[k].result \in Answers
    BY <1>2, <1>3 DEF ChainIInv, Prepared
  <2> QED
    BY <2>3, <2>4 DEF Prepared
<1>9. Linked' /\ Anchored'
  BY <1>1 DEF ChainIInv, Linked, PrevHash, Anchored
<1>10. IntentFirst'
  <2>1. \A k, n : Intended(k, n)' <=> Intended(k, n)
    BY <1>1 DEF Intended
  <2>2. Intended(m, Len(chain))
    BY <1>2 DEF ChainIInv, IntentFirst
  <2>3. \A k \in Mints : mint'[k].at \in {"requesting", "outcome", "logging outcome", "using", "done"}
          => Intended(k, Len(chain))
    BY <1>2, <1>3, <2>2 DEF ChainIInv, IntentFirst
  <2>4. ASSUME NEW k \in Mints, issued'[k] # NoToken
        PROVE  issued'[k] <= Len(chain) + 1 /\ Intended(k, issued'[k] - 1)
    <3>1. CASE issued'[k] = issued[k]
      BY <2>4, <3>1 DEF ChainIInv, IntentFirst
    <3>2. CASE k = m /\ issued'[k] = Len(chain) + 1
      <4>1. issued'[k] - 1 = Len(chain)
        BY <1>1, <3>2
      <4> QED
        BY <1>1, <2>2, <3>2, <4>1
    <3> QED
      BY <1>4, <3>1, <3>2
  <2>5. Len(chain') = Len(chain)
    BY <1>1
  <2> QED
    BY <2>1, <2>3, <2>4, <2>5 DEF IntentFirst
<1> QED
  BY <1>6, <1>7, <1>8, <1>9, <1>10 DEF ChainIInv

LEMMA RequestKeeps ==
  ASSUME ChainIInv, NEW m \in Mints, NEW answer \in Answers, Request(m, answer)
  PROVE  ChainIInv'
<1> DEFINE to == IF answer = "unreadable" THEN "failed" ELSE "outcome"
<1>1. to \in {"outcome", "failed"}
  OBVIOUS
<1>2. GoesOn(m, to, answer)
  BY <1>1, Zenon DEF Request, GoesOn
<1> QED
  BY <1>2, GoingOnKeeps

LEMMA UseKeeps ==
  ASSUME ChainIInv, NEW m \in Mints, Use(m)
  PROVE  ChainIInv'
<1>1. mint \in [Mints -> [at : MintStages, result : Answers \cup {"none"}, entry : {mint[k].entry : k \in Mints}]]
  BY DEF ChainIInv, ChainTypeOK
<1>2. mint' = [mint EXCEPT ![m].at = "done", ![m].result = mint[m].result]
  BY <1>1 DEF Use, StandsAt
<1>3. mint[m].result \in Answers \cup {"none"}
  BY <1>1
<1>4. GoesOn(m, "done", mint[m].result)
  BY <1>2, <1>3 DEF Use, GoesOn
<1> QED
  BY <1>4, GoingOnKeeps

LEMMA TakeCheckpointKeeps ==
  ASSUME ChainIInv, TakeCheckpoint
  PROVE  ChainIInv'
<1> DEFINE c == [seq |-> Len(chain), hash |-> HeadHash]
<1>1. UNCHANGED <<chain, head, mint, issued, lost>> /\ held' = held \cup {c}
  BY DEF TakeCheckpoint
<1>2. IsFiniteSet(held') /\ Cardinality(held') <= MaxHeld
  <2>1. IsFiniteSet(held) /\ Cardinality(held) \in Nat /\ Cardinality(held) < MaxHeld /\ MaxHeld \in Nat
    BY AuditAssumption, FS_CardinalityType DEF TakeCheckpoint, ChainIInv, ChainTypeOK
  <2>2. /\ IsFiniteSet(held \cup {c})
        /\ Cardinality(held \cup {c}) = IF c \in held THEN Cardinality(held) ELSE Cardinality(held) + 1
    <3> HIDE DEF c
    <3> QED
      BY <2>1, FS_AddElement
  <2> HIDE DEF c
  <2> QED
    BY <1>1, <2>1, <2>2
<1>3. c.seq \in 1 .. Len(chain) /\ c.hash = chain[c.seq].hash
  BY SeqFacts DEF TakeCheckpoint, ChainIInv, Linked, HeadHash
<1> HIDE DEF c
<1>4. Anchored'
  BY <1>1, <1>3 DEF ChainIInv, Anchored
<1>5. ChainTypeOK'
  BY <1>1, <1>2 DEF ChainIInv, ChainTypeOK, Logging
<1>6. Linked' /\ HeadIsLocked' /\ Prepared' /\ IntentFirst'
  <2>1. \A m, n : Intended(m, n)' <=> Intended(m, n)
    BY <1>1 DEF Intended
  <2>2. \A m : (Logging(m)' <=> Logging(m)) /\ Pending(m)' = Pending(m)
    BY <1>1 DEF Logging, Pending
  <2>3. Linked' /\ HeadIsLocked' /\ IntentFirst'
    BY <1>1, <2>1, <2>2 DEF ChainIInv, Linked, PrevHash, HeadIsLocked, IntentFirst
  <2>4. Prepared'
    BY <1>1, <2>2 DEF ChainIInv, Prepared, Next1, HeadHash
  <2> QED
    BY <2>3, <2>4
<1> QED
  BY <1>4, <1>5, <1>6 DEF ChainIInv

-----------------------------------------------------------------------------
LEMMA ChainInitHolds ==
  ASSUME ChainInit
  PROVE  ChainIInv
<1>1. /\ chain = <<>> /\ Len(chain) = 0 /\ IsSeq(chain)
  BY EmptySeq DEF ChainInit, IsSeq
<1>2. \A m \in Mints : ~Logging(m) /\ mint[m].at = "intent" /\ mint[m].entry = <<>>
  BY DEF ChainInit, Logging
<1>3. ChainTypeOK
  <2>1. \A m \in Mints : mint[m] \in [at : MintStages, result : Answers \cup {"none"}, entry : {mint[k].entry : k \in Mints}]
    BY DEF ChainInit, MintStages
  <2>2. mint \in [Mints -> [at : MintStages, result : Answers \cup {"none"}, entry : {mint[m].entry : m \in Mints}]]
    BY <2>1 DEF ChainInit
  <2>3. issued \in [Mints -> Nat]
    BY DEF ChainInit, NoToken
  <2>4. IsFiniteSet(held) /\ Cardinality(held) <= MaxHeld /\ lost \in 0 .. MaxLost /\ head = Nobody
    BY AuditAssumption, FS_EmptySet DEF ChainInit
  <2> QED
    BY <1>2, <2>2, <2>3, <2>4 DEF ChainTypeOK
<1>4. Linked /\ Anchored
  BY <1>1 DEF ChainInit, Linked, Anchored
<1>5. HeadIsLocked /\ Prepared /\ IntentFirst
  BY <1>2, AuditAssumption DEF ChainInit, HeadIsLocked, Prepared, IntentFirst, NoToken
<1> QED
  BY <1>3, <1>4, <1>5 DEF ChainIInv

LEMMA ChainStepKeeps ==
  ASSUME ChainIInv, [ChainNext]_chainVars
  PROVE  ChainIInv'
<1>1. CASE UNCHANGED chainVars
  <2>1. UNCHANGED <<chain, head, mint, issued, held, lost>>
    BY <1>1 DEF chainVars
  <2>2. \A m, n : Intended(m, n)' <=> Intended(m, n)
    BY <2>1 DEF Intended
  <2>3. \A m : (Logging(m)' <=> Logging(m)) /\ Pending(m)' = Pending(m)
    BY <2>1 DEF Logging, Pending
  <2>4. ChainTypeOK' /\ Linked' /\ HeadIsLocked' /\ IntentFirst' /\ Anchored'
    BY <2>1, <2>2, <2>3 DEF ChainIInv, ChainTypeOK, Linked, PrevHash, HeadIsLocked, IntentFirst, Anchored
  <2>5. Prepared'
    BY <2>1, <2>3 DEF ChainIInv, Prepared, Next1, HeadHash
  <2> QED
    BY <2>4, <2>5 DEF ChainIInv
<1>2. CASE TakeCheckpoint
  BY <1>2, TakeCheckpointKeeps
<1>3. ASSUME NEW m \in Mints, TakeHead(m) PROVE ChainIInv'
  BY <1>3, TakeHeadKeeps
<1>4. ASSUME NEW m \in Mints, CommitEntry(m) PROVE ChainIInv'
  BY <1>4, CommitKeeps
<1>5. ASSUME NEW m \in Mints, AppendFails(m) PROVE ChainIInv'
  BY <1>5, AppendFailsKeeps
<1>6. ASSUME NEW m \in Mints, MinterDies(m) PROVE ChainIInv'
  BY <1>6, MinterDiesKeeps
<1>7. ASSUME NEW m \in Mints, Use(m) PROVE ChainIInv'
  BY <1>7, UseKeeps
<1>8. ASSUME NEW m \in Mints, NEW answer \in Answers, Request(m, answer) PROVE ChainIInv'
  BY <1>8, RequestKeeps
<1> QED
  BY <1>1, <1>2, <1>3, <1>4, <1>5, <1>6, <1>7, <1>8 DEF ChainNext

-----------------------------------------------------------------------------
(* verifyChain *)

LEMMA NoFailures ==
  ASSUME NEW entries
  PROVE  EntryFailures(entries) = {} <=>
           \A k \in DOMAIN entries :
             /\ entries[k].seq = ExpectedSeq(entries, k)
             /\ entries[k].prev = ExpectedPrev(entries, k)
             /\ HashPayload(entries[k].payload) = entries[k].hash
BY DEF EntryFailures

\* An entry of the chain is what the trigger made of it.
LEMMA LinkedFacts ==
  ASSUME ChainIInv, NEW k \in 1 .. Len(chain)
  PROVE  \E action \in Actions, of \in {chain[k].payload[4]} :
           /\ chain[k] = [seq |-> k, prev |-> PrevHash(k), hash |-> HashPayload(<<k, PrevHash(k), action, of>>),
                             payload |-> <<k, PrevHash(k), action, of>>]
           /\ action = chain[k].payload[3]
<1> DEFINE action == chain[k].payload[3]
           of == chain[k].payload[4]
<1>1. chain[k] = Linking(k, PrevHash(k), action, of) /\ action \in Actions
  BY DEF ChainIInv, Linked
<1> HIDE DEF action, of
<1>2. chain[k] = [seq |-> k, prev |-> PrevHash(k), hash |-> HashPayload(<<k, PrevHash(k), action, of>>),
                  payload |-> <<k, PrevHash(k), action, of>>]
  BY <1>1 DEF Linking, Payload
<1> QED
  BY <1>1, <1>2 DEF action, of

\* The chain verifies against every checkpoint that was taken of it.
LEMMA ChainVerifies ==
  ASSUME ChainIInv
  PROVE  Verifies(chain, held)
<1>1. Len(chain) \in Nat /\ DOMAIN chain = 1 .. Len(chain) /\ (chain = <<>> <=> Len(chain) = 0)
  BY SeqFacts DEF ChainIInv, Linked
<1>2. \A k \in 1 .. Len(chain) :
        chain[k].seq = k /\ chain[k].prev = PrevHash(k) /\ HashPayload(chain[k].payload) = chain[k].hash
  <2> TAKE k \in 1 .. Len(chain)
  <2>1. PICK action \in Actions, of \in {chain[k].payload[4]} :
          chain[k] = [seq |-> k, prev |-> PrevHash(k), hash |-> HashPayload(<<k, PrevHash(k), action, of>>),
                         payload |-> <<k, PrevHash(k), action, of>>]
    BY LinkedFacts
  <2> QED
    BY <2>1
<1>3. CASE chain = <<>>
  BY <1>1, <1>3 DEF Verifies, ChainIInv, Anchored
<1>4. CASE chain # <<>>
  <2>1. \A k \in DOMAIN chain :
          /\ chain[k].seq = ExpectedSeq(chain, k)
          /\ chain[k].prev = ExpectedPrev(chain, k)
          /\ HashPayload(chain[k].payload) = chain[k].hash
    <3> TAKE k \in DOMAIN chain
    <3>1. k \in 1 .. Len(chain) /\ chain[1].seq = 1 /\ (k > 1 => k - 1 \in 1 .. Len(chain) /\ chain[k - 1].seq = k - 1)
      BY <1>1, <1>2, <1>4
    <3>2. chain[k].seq = ExpectedSeq(chain, k)
      BY <1>2, <3>1 DEF ExpectedSeq
    <3>3. chain[k].prev = ExpectedPrev(chain, k)
      BY <1>2, <3>1 DEF ExpectedPrev, PrevHash
    <3> QED
      BY <1>2, <3>1, <3>2, <3>3
  <2>2. EntryFailures(chain) = {}
    BY <2>1, NoFailures
  <2>3. \A c \in held : c.seq \in Answering(chain, c.seq) /\ chain[c.seq].hash = c.hash
    <3> TAKE c \in held
    <3>1. c.seq \in 1 .. Len(chain) /\ c.hash = chain[c.seq].hash
      BY DEF ChainIInv, Anchored
    <3>2. c.seq \in DOMAIN chain /\ chain[c.seq].seq = c.seq
      BY <1>1, <1>2, <3>1
    <3>3. \A l \in DOMAIN chain : chain[l].seq = c.seq => l <= c.seq
      BY <1>1, <1>2, <3>1
    <3> QED
      BY <3>1, <3>2, <3>3 DEF Answering
  <2>4. CheckpointFailures(chain, held) = {}
    BY <2>3 DEF CheckpointFailures
  <2> QED
    BY <1>4, <2>2, <2>4 DEF Verifies
<1> QED
  BY <1>3, <1>4

-----------------------------------------------------------------------------
(* What rewriting shows *)

\* An export that does not verify: an entry of it fails, or no entry of it has
\* the hash that a checkpoint holds.
LEMMA FailingEntry ==
  ASSUME NEW entries, NEW checkpoints, NEW k \in DOMAIN entries,
         \/ entries[k].seq # ExpectedSeq(entries, k)
         \/ HashPayload(entries[k].payload) # entries[k].hash
  PROVE  ~Verifies(entries, checkpoints)
<1>1. EntryFailures(entries) # {}
  BY NoFailures
<1>2. entries # <<>>
  OBVIOUS
<1> QED
  BY <1>1, <1>2 DEF Verifies

LEMMA FailingCheckpoint ==
  ASSUME NEW entries, NEW checkpoints, NEW c \in checkpoints,
         \A k \in DOMAIN entries : entries[k].seq = c.seq => entries[k].hash # c.hash
  PROVE  ~Verifies(entries, checkpoints)
<1>1. CheckpointFailures(entries, checkpoints) # {}
  BY DEF CheckpointFailures, Answering
<1>2. checkpoints # {}
  OBVIOUS
<1> QED
  BY <1>1, <1>2 DEF Verifies

LEMMA AlteredFails ==
  ASSUME ChainIInv, NEW k \in 1 .. Len(chain)
  PROVE  ~Verifies(Altered(k), held)
<1>1. PICK action \in Actions, of \in {chain[k].payload[4]} :
        chain[k] = [seq |-> k, prev |-> PrevHash(k), hash |-> HashPayload(<<k, PrevHash(k), action, of>>),
                       payload |-> <<k, PrevHash(k), action, of>>]
  BY LinkedFacts
<1>2. DOMAIN chain = 1 .. Len(chain)
  BY SeqFacts DEF ChainIInv, Linked
<1> DEFINE forged == [chain[k].payload EXCEPT ![3] = "altered"]
<1>3. /\ Altered(k)[k].payload = forged
      /\ Altered(k)[k].hash = chain[k].hash /\ DOMAIN Altered(k) = DOMAIN chain
  BY <1>1, <1>2 DEF Altered
<1>4. forged[3] = "altered" /\ chain[k].payload[3] = action /\ action # "altered"
  <2>1. chain[k].payload = <<k, PrevHash(k), action, of>>
    BY <1>1
  <2>2. forged = <<k, PrevHash(k), "altered", of>>
    BY <2>1
  <2>3. "altered" \notin Actions
    BY DEF Actions, Answers
  <2> HIDE DEF forged
  <2> QED
    BY <2>1, <2>2, <2>3
<1>5. HashPayload(forged) # HashPayload(chain[k].payload)
  <2> HIDE DEF forged
  <2> QED
    BY <1>4 DEF HashPayload
<1>6. HashPayload(chain[k].payload) = chain[k].hash
  BY <1>1
<1> HIDE DEF forged
<1>7. k \in DOMAIN Altered(k) /\ HashPayload(Altered(k)[k].payload) # Altered(k)[k].hash
  BY <1>2, <1>3, <1>5, <1>6
<1> QED
  BY <1>7, FailingEntry

LEMMA SeqOfEntry ==
  ASSUME ChainIInv
  PROVE  \A k \in 1 .. Len(chain) : chain[k].seq = k
<1> TAKE k \in 1 .. Len(chain)
<1>1. PICK action \in Actions, of \in {chain[k].payload[4]} :
        chain[k] = [seq |-> k, prev |-> PrevHash(k), hash |-> HashPayload(<<k, PrevHash(k), action, of>>),
                       payload |-> <<k, PrevHash(k), action, of>>]
  BY LinkedFacts
<1> QED
  BY <1>1

LEMMA SwappedFails ==
  ASSUME ChainIInv, NEW k \in 1 .. Len(chain) - 1
  PROVE  ~Verifies(Swapped(k), held)
<1> DEFINE entries == Swapped(k)
<1>1. Len(chain) \in Nat /\ DOMAIN chain = 1 .. Len(chain) /\ k \in 1 .. Len(chain) /\ k + 1 \in 1 .. Len(chain)
  BY SeqFacts DEF ChainIInv, Linked
<1>2. /\ DOMAIN entries = 1 .. Len(chain)
      /\ entries[k] = chain[k + 1] /\ entries[k + 1] = chain[k]
      /\ \A l \in 1 .. Len(chain) : l # k /\ l # k + 1 => entries[l] = chain[l]
  BY <1>1 DEF Swapped
<1>3. entries[k].seq = k + 1 /\ entries[k + 1].seq = k
  BY <1>1, <1>2, SeqOfEntry
<1>4. ExpectedSeq(entries, k + 1) = k + 2
  <2> HIDE DEF entries
  <2>1. k + 1 # 1 /\ (k + 1) - 1 = k /\ (k + 1) + 1 = k + 2
    BY <1>1
  <2>2. ExpectedSeq(entries, k + 1) = entries[(k + 1) - 1].seq + 1
    BY <2>1 DEF ExpectedSeq
  <2> QED
    BY <1>3, <2>1, <2>2
<1> HIDE DEF entries
<1>5. k + 1 \in DOMAIN entries /\ entries[k + 1].seq # ExpectedSeq(entries, k + 1)
  BY <1>1, <1>2, <1>3, <1>4
<1> QED
  BY <1>5, FailingEntry DEF entries

\* Leaving out the last entry, or one between two others.
LEMMA WithoutFails ==
  ASSUME ChainIInv, NEW c \in held, NEW k \in 2 .. c.seq
  PROVE  ~Verifies(Without(k), held)
<1> DEFINE S == Range(chain)
           L == Len(chain)
           before == SubSeq(chain, 1, k - 1)
           after == SubSeq(chain, k + 1, L)
           entries == before \o after
<1>1. L \in Nat /\ DOMAIN chain = 1 .. L /\ c.seq \in 1 .. L /\ k \in 2 .. L /\ chain \in Seq(S)
  BY SeqFacts DEF ChainIInv, Linked, Anchored, IsSeq
<1>2. \A l \in 1 .. L : chain[l] \in S
  BY <1>1, ElementOfSeq
<1>3. /\ before \in Seq(S) /\ Len(before) = k - 1 /\ \A l \in 1 .. k - 1 : before[l] = chain[l]
  <2>1. \A l \in 1 .. k - 1 : chain[l] \in S
    BY <1>1, <1>2
  <2>2. k - 1 \in Int /\ 1 <= k - 1
    BY <1>1
  <2> HIDE DEF S
  <2>3. /\ before \in Seq(S) /\ Len(before) = IF 1 <= k - 1 THEN k - 1 - 1 + 1 ELSE 0
        /\ \A l \in 1 .. k - 1 - 1 + 1 : before[l] = chain[1 + l - 1]
    BY <2>1, <2>2, SubSeqProperties
  <2> HIDE DEF before
  <2>4. k - 1 - 1 + 1 = k - 1 /\ \A l \in 1 .. k - 1 : 1 + l - 1 = l
    BY <1>1
  <2> QED
    BY <2>2, <2>3, <2>4
<1>4. /\ after \in Seq(S) /\ Len(after) = L - k /\ \A l \in 1 .. L - k : after[l] = chain[k + l]
  <2>1. \A l \in k + 1 .. L : chain[l] \in S
    BY <1>1, <1>2
  <2>2. k + 1 \in Int /\ L \in Int
    BY <1>1
  <2> HIDE DEF S
  <2>3. /\ after \in Seq(S) /\ Len(after) = IF k + 1 <= L THEN L - (k + 1) + 1 ELSE 0
        /\ \A l \in 1 .. L - (k + 1) + 1 : after[l] = chain[k + 1 + l - 1]
    BY <2>1, <2>2, SubSeqProperties
  <2> HIDE DEF after
  <2>4. L \in Int /\ k \in Int /\ k <= L
    BY <1>1
  <2>5. L - (k + 1) + 1 = L - k /\ (~(k + 1 <= L) => L - k = 0)
    BY <2>4
  <2>6. \A l \in 1 .. L - k : k + 1 + l - 1 = k + l
    BY <2>4
  <2> QED
    BY <2>3, <2>5, <2>6
<1> HIDE DEF S, before, after
<1>5. /\ entries \in Seq(S) /\ Len(entries) = L - 1
      /\ \A l \in 1 .. L - 1 : entries[l] = IF l <= k - 1 THEN chain[l] ELSE chain[l + 1]
  <2>1. /\ entries \in Seq(S) /\ Len(entries) = Len(before) + Len(after)
        /\ \A l \in 1 .. Len(before) + Len(after) :
             entries[l] = IF l <= Len(before) THEN before[l] ELSE after[l - Len(before)]
    BY <1>3, <1>4, ConcatProperties
  <2>2. Len(before) + Len(after) = L - 1
    BY <1>1, <1>3, <1>4
  <2> HIDE DEF entries
  <2>3. ASSUME NEW l \in 1 .. L - 1
        PROVE  entries[l] = IF l <= k - 1 THEN chain[l] ELSE chain[l + 1]
    <3>1. CASE l <= k - 1
      BY <1>1, <1>3, <2>1, <2>2, <2>3, <3>1
    <3>2. CASE ~(l <= k - 1)
      <4>1. l - (k - 1) \in 1 .. L - k /\ k + (l - (k - 1)) = l + 1
        BY <1>1, <2>3, <3>2
      <4>2. entries[l] = after[l - (k - 1)]
        BY <1>3, <2>1, <2>2, <2>3, <3>2
      <4> QED
        BY <1>4, <3>2, <4>1, <4>2
    <3> QED
      BY <3>1, <3>2
  <2> QED
    BY <2>1, <2>2, <2>3
<1>6. Without(k) = entries
  BY DEF Without, before, after
<1> HIDE DEF entries
<1>7. DOMAIN entries = 1 .. L - 1
  BY <1>5, LenProperties
<1>8. CASE k = L
  <2>1. \A l \in 1 .. L - 1 : entries[l].seq = l
    BY <1>1, <1>5, <1>8, SeqOfEntry
  <2>2. \A l \in DOMAIN entries : entries[l].seq # c.seq
    BY <1>1, <1>7, <1>8, <2>1
  <2> QED
    BY <1>6, <2>2, FailingCheckpoint
<1>9. CASE k < L
  <2>1. entries[k].seq = k + 1 /\ entries[k - 1].seq = k - 1
    BY <1>1, <1>5, <1>9, SeqOfEntry
  <2>2. ExpectedSeq(entries, k) = k
    BY <1>1, <2>1 DEF ExpectedSeq
  <2>3. k \in DOMAIN entries /\ entries[k].seq # ExpectedSeq(entries, k)
    BY <1>1, <1>7, <1>9, <2>1, <2>2
  <2> QED
    BY <1>6, <2>3, FailingEntry
<1>10. k = L \/ k < L
  <2>1. k \in Int /\ L \in Int /\ k <= L
    BY <1>1
  <2> HIDE DEF L
  <2> QED
    BY <2>1
<1> QED
  BY <1>8, <1>9, <1>10

\* Everything from k on hashed anew, up to n.
Forges(f, k, n) ==
  f = [j \in 1 .. n |->
        IF j < k THEN chain[j]
        ELSE Linking(j, IF j = 1 THEN Genesis ELSE f[j - 1].hash,
                   IF j = k THEN "altered" ELSE chain[j].payload[3], chain[j].payload[4])]

\* The chain can be hashed anew to any length: from the least length for which
\* it could not, one step further would do.
LEMMA ForgeryExists ==
  ASSUME NEW k \in Nat, NEW n \in Nat
  PROVE  \E f : Forges(f, k, n)
<1> DEFINE Fails == {i \in Nat : ~\E f : Forges(f, k, i)}
<1>1. SUFFICES ASSUME Fails # {} PROVE FALSE
  OBVIOUS
<1>2. PICK i \in Fails : \A j \in Fails : i <= j
  BY <1>1, LeastElement
<1>3. CASE i = 0
  <2> DEFINE f == [j \in 1 .. 0 |-> chain[j]]
  <2>1. Forges(f, k, 0)
    BY DEF Forges
  <2> QED
    BY <1>2, <1>3, <2>1
<1>4. CASE i > 0
  <2>1. i \in Nat /\ i - 1 \in Nat /\ i - 1 \notin Fails
    BY <1>2, <1>4
  <2>2. PICK f : Forges(f, k, i - 1)
    BY <2>1
  <2> DEFINE prev == IF i = 1 THEN Genesis ELSE f[i - 1].hash
             last == IF i < k THEN chain[i]
                     ELSE Linking(i, prev, IF i = k THEN "altered" ELSE chain[i].payload[3], chain[i].payload[4])
             g == [j \in 1 .. i |-> IF j = i THEN last ELSE f[j]]
  <2>3. \A j \in 1 .. i - 1 :
          f[j] = IF j < k THEN chain[j]
                 ELSE Linking(j, IF j = 1 THEN Genesis ELSE f[j - 1].hash,
                            IF j = k THEN "altered" ELSE chain[j].payload[3], chain[j].payload[4])
    BY <2>2 DEF Forges
  <2>4. \A j \in 1 .. i : j # 1 => g[j - 1] = f[j - 1]
    BY <2>1
  <2>5. \A j \in 1 .. i : j # i => j \in 1 .. i - 1
    BY <2>1
  <2>6. \A j \in 1 .. i :
          g[j] = IF j < k THEN chain[j]
                 ELSE Linking(j, IF j = 1 THEN Genesis ELSE g[j - 1].hash,
                            IF j = k THEN "altered" ELSE chain[j].payload[3], chain[j].payload[4])
    <3> TAKE j \in 1 .. i
    <3>1. CASE j = i
      <4>1. g[j] = last /\ (j # 1 => g[j - 1] = f[j - 1])
        BY <2>4, <3>1
      <4> HIDE DEF g
      <4> QED
        BY <3>1, <4>1
    <3>2. CASE j # i
      <4>1. g[j] = f[j] /\ j \in 1 .. i - 1 /\ (j # 1 => g[j - 1] = f[j - 1])
        BY <2>4, <2>5, <3>2
      <4> HIDE DEF g
      <4> QED
        BY <2>3, <4>1
    <3> QED
      BY <3>1, <3>2
  <2>7. Forges(g, k, i)
    <3>1. g = [j \in 1 .. i |-> g[j]]
      OBVIOUS
    <3> HIDE DEF g
    <3> QED
      BY <2>6, <3>1 DEF Forges
  <2> HIDE DEF g
  <2> QED
    BY <1>2, <2>7
<1> QED
  BY <1>2, <1>3, <1>4

LEMMA RehashedForges ==
  ASSUME ChainIInv, NEW k \in Nat
  PROVE  Forges(Rehashed(k), k, Len(chain))
<1>1. \E f : Forges(f, k, Len(chain))
  BY ForgeryExists, SeqFacts DEF ChainIInv, Linked
<1>2. Rehashed(k) = CHOOSE f : Forges(f, k, Len(chain))
  BY Zenon DEF Rehashed, Forges
<1> QED
  BY <1>1, <1>2

\* The new hash at k differs, and a link with another hash before it is another
\* link: the least position at which the two agreed again would have none before.
LEMMA RehashedDiffers ==
  ASSUME ChainIInv, NEW k \in 1 .. Len(chain), NEW f, Forges(f, k, Len(chain))
  PROVE  /\ DOMAIN f = 1 .. Len(chain)
         /\ \A j \in 1 .. Len(chain) : f[j].seq = j
         /\ \A j \in k .. Len(chain) : f[j].hash # chain[j].hash
<1> DEFINE L == Len(chain)
           Action(j) == IF j = k THEN "altered" ELSE chain[j].payload[3]
           Before(j) == IF j = 1 THEN Genesis ELSE f[j - 1].hash
           Agreeing == {j \in k .. L : f[j].hash = chain[j].hash}
<1>1. L \in Nat /\ k \in 1 .. L /\ k \in Nat
  BY SeqFacts DEF ChainIInv, Linked
<1>2. /\ DOMAIN f = 1 .. L
      /\ \A j \in 1 .. L : f[j] = IF j < k THEN chain[j] ELSE Linking(j, Before(j), Action(j), chain[j].payload[4])
  BY DEF Forges
<1> HIDE DEF L
<1>3. \A j \in 1 .. L : j >= k =>
        f[j].seq = j /\ f[j].hash = HashPayload(<<j, Before(j), Action(j), chain[j].payload[4]>>)
  <2> TAKE j \in 1 .. L
  <2> HAVE j >= k
  <2>1. f[j] = Linking(j, Before(j), Action(j), chain[j].payload[4])
    BY <1>1, <1>2
  <2> HIDE DEF Before, Action
  <2> QED
    BY <2>1, EntryFacts
<1>4. \A j \in 1 .. L : f[j].seq = j
  <2> TAKE j \in 1 .. L
  <2>1. CASE j < k
    <3>1. f[j] = chain[j]
      BY <1>2, <2>1
    <3> QED
      BY <3>1, SeqOfEntry DEF L
  <2>2. CASE j >= k
    BY <1>3, <2>2
  <2> QED
    BY <1>1, <2>1, <2>2
<1>5. Agreeing = {}
  <2> SUFFICES ASSUME Agreeing # {} PROVE FALSE
    OBVIOUS
  <2>1. Agreeing \in SUBSET Nat
    BY <1>1
  <2>2. PICK j \in Agreeing : \A i \in Agreeing : j <= i
    BY <2>1, LeastElement
  <2>3. /\ j \in 1 .. L /\ j >= k /\ j \in Nat /\ f[j].hash = chain[j].hash
        /\ j > k => j - 1 \in k .. L /\ j - 1 \notin Agreeing /\ j # 1
    BY <1>1, <2>2
  <2>4. PICK action \in Actions, of \in {chain[j].payload[4]} :
          /\ chain[j] = [seq |-> j, prev |-> PrevHash(j), hash |-> HashPayload(<<j, PrevHash(j), action, of>>),
                         payload |-> <<j, PrevHash(j), action, of>>]
          /\ action = chain[j].payload[3]
    BY <2>3, LinkedFacts DEF L
  <2>5. HashPayload(<<j, Before(j), Action(j), chain[j].payload[4]>>) = HashPayload(<<j, PrevHash(j), action, of>>)
    <3>1. chain[j].hash = HashPayload(<<j, PrevHash(j), action, of>>)
      BY <2>4
    <3> QED
      BY <1>3, <2>3, <3>1
  <2>6. Action(j) = action /\ Before(j) = PrevHash(j)
    <3> HIDE DEF Action, Before
    <3> QED
      BY <2>5, HashIsInjective
  <2>7. CASE j = k
    <3>1. "altered" \notin Actions
      BY DEF Actions, Answers
    <3> QED
      BY <2>6, <2>7, <3>1
  <2>8. CASE j > k
    <3>1. f[j - 1].hash = chain[j - 1].hash
      BY <2>3, <2>6, <2>8 DEF PrevHash
    <3> QED
      BY <2>3, <2>8, <3>1
  <2> QED
    BY <1>1, <2>3, <2>7, <2>8
<1> QED
  BY <1>2, <1>4, <1>5 DEF L

LEMMA RehashedFails ==
  ASSUME ChainIInv, NEW c \in held, NEW k \in 1 .. c.seq
  PROVE  ~Verifies(Rehashed(k), held)
<1> DEFINE f == Rehashed(k)
<1>1. c.seq \in 1 .. Len(chain) /\ c.hash = chain[c.seq].hash /\ Len(chain) \in Nat
  BY SeqFacts DEF ChainIInv, Anchored, Linked
<1>2. k \in 1 .. Len(chain) /\ k \in Nat /\ c.seq \in k .. Len(chain)
  BY <1>1
<1>3. Forges(f, k, Len(chain))
  BY <1>2, RehashedForges
<1> HIDE DEF f
<1>4. /\ DOMAIN f = 1 .. Len(chain)
      /\ \A j \in 1 .. Len(chain) : f[j].seq = j
      /\ \A j \in k .. Len(chain) : f[j].hash # chain[j].hash
  BY <1>2, <1>3, RehashedDiffers
<1>5. \A j \in DOMAIN f : f[j].seq = c.seq => f[j].hash # c.hash
  BY <1>1, <1>2, <1>4
<1> QED
  BY <1>5, FailingCheckpoint DEF f

LEMMA ChainIInvIsExact ==
  ASSUME ChainIInv
  PROVE  TokensAreAccountedFor /\ VerificationIsExact
<1>1. TokensAreAccountedFor
  BY DEF ChainIInv, IntentFirst, Intended, TokensAreAccountedFor
<1>2. ASSUME NEW c \in held, NEW k \in 1 .. c.seq, NEW entries \in Rewritings(k)
      PROVE  ~Verifies(entries, held)
  <2>1. c.seq \in 1 .. Len(chain) /\ Len(chain) \in Nat
    BY SeqFacts DEF ChainIInv, Anchored, Linked
  <2>2. k \in 1 .. Len(chain)
    BY <2>1
  <2>3. CASE entries = Altered(k)
    BY <2>2, <2>3, AlteredFails
  <2>4. CASE entries = Rehashed(k)
    BY <2>4, RehashedFails
  <2>5. CASE k > 1 /\ entries = Without(k)
    <3>1. k \in 2 .. c.seq
      BY <2>1, <2>5
    <3> QED
      BY <2>5, <3>1, WithoutFails
  <2>6. CASE k < Len(chain) /\ entries = Swapped(k)
    <3>1. k \in 1 .. Len(chain) - 1
      BY <2>1, <2>2, <2>6
    <3> QED
      BY <2>6, <3>1, SwappedFails
  <2> QED
    BY <2>3, <2>4, <2>5, <2>6, Zenon DEF Rewritings
<1>3. VerificationIsExact
  BY <1>2, ChainVerifies DEF VerificationIsExact
<1> QED
  BY <1>1, <1>3

-----------------------------------------------------------------------------
\* Every value is of its type, and who is logging has an entry prepared.
THEOREM ChainTypeCorrect == ChainSpec => []ChainTypeOK
<1>1. ChainIInv => ChainTypeOK
  BY DEF ChainIInv
<1> QED
  BY <1>1, ChainInitHolds, ChainStepKeeps, PTL DEF ChainSpec

\* No token without its intent in the chain before it, whatever failed since
\* (src/github/app.ts:64, src/audit/sink.ts:11).
THEOREM TokensAccountedFor == ChainSpec => []TokensAreAccountedFor
<1>1. ChainIInv => TokensAreAccountedFor
  BY ChainIInvIsExact
<1> QED
  BY <1>1, ChainInitHolds, ChainStepKeeps, PTL DEF ChainSpec

\* However many mints append at once and whatever fails, an export verifies
\* against every checkpoint when it is the chain, and does not when it leaves
\* out, swaps, alters or rehashes an entry that a checkpoint covers, however
\* long the chain (src/audit/verify.ts:51).
THEOREM VerificationExact == ChainSpec => []VerificationIsExact
<1>1. ChainIInv => VerificationIsExact
  BY ChainIInvIsExact
<1> QED
  BY <1>1, ChainInitHolds, ChainStepKeeps, PTL DEF ChainSpec
=============================================================================
