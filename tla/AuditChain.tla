------------------------------ MODULE AuditChain ------------------------------
(***************************************************************************)
(* One tenant's audit chain and the tokens it accounts for:                *)
(* mintInstallationToken of src/github/app.ts writes through               *)
(* src/audit/sink.ts into migrations/003_audit_chain.sql, several jobs at  *)
(* once, and a customer checks an export with src/audit/verify.ts.         *)
(*                                                                         *)
(* A hash is the payload it hashes: no two payloads share one.             *)
(***************************************************************************)
EXTENDS Integers, Sequences, FiniteSets

CONSTANTS
  Mints,     \* calls of mintInstallationToken, each of a job of its own
  MaxHeld,   \* bound: checkpoints the customer holds
  MaxLost    \* bound: processes that die and statements that fail

VARIABLES
  chain,     \* audit_entry, committed, in the order of seq
  head,      \* the mint whose transaction has the row of audit_chain_head locked
  mint,      \* mint[m]: where the call is, and the seq of its intent
  issued,    \* issued[m]: GitHub issued one, and the chain was this long then
  held,      \* checkpoints in the customer's hands
  lost

chainVars == <<chain, head, mint, issued, held, lost>>

Genesis == <<"genesis">>
Nobody == "nobody"
NoToken == 0

ASSUME AuditAssumption == Nobody \notin Mints /\ {MaxHeld, MaxLost} \subseteq Nat

-----------------------------------------------------------------------------
(* Entries *)

Payload(seq, prev, action, of) == <<seq, prev, action, of>>
HashPayload(payload) == <<"sha256", payload>>

\* audit_entry_chain: seq, prev and hash are the trigger's.
Linking(seq, prev, action, of) ==
  [seq |-> seq, prev |-> prev, hash |-> HashPayload(Payload(seq, prev, action, of)),
   payload |-> Payload(seq, prev, action, of)]

HeadHash == IF chain = <<>> THEN Genesis ELSE chain[Len(chain)].hash
Next1 == Len(chain) + 1

\* The entry a mint has to append: its intent first, then how it went.
Pending(m) == IF mint[m].at \in {"intent", "logging intent"} THEN <<"intent", m>> ELSE <<mint[m].result, m>>

-----------------------------------------------------------------------------
(* verifyChain *)

\* A partial export starts where it starts; only the first entry is anchored.
ExpectedSeq(entries, k) == IF k = 1 THEN entries[1].seq ELSE entries[k - 1].seq + 1
ExpectedPrev(entries, k) ==
  IF k > 1 THEN entries[k - 1].hash ELSE IF entries[1].seq = 1 THEN Genesis ELSE entries[1].prev

EntryFailures(entries) ==
  {<<"sequence_gap", k>> : k \in {k \in DOMAIN entries : entries[k].seq # ExpectedSeq(entries, k)}}
  \cup {<<"broken_link", k>> : k \in {k \in DOMAIN entries : entries[k].prev # ExpectedPrev(entries, k)}}
  \cup {<<"hash_mismatch", k>> : k \in {k \in DOMAIN entries : HashPayload(entries[k].payload) # entries[k].hash}}

\* By its seq, an entry hides the ones before it that have the same.
Answering(entries, seq) == {k \in DOMAIN entries : entries[k].seq = seq /\ \A l \in DOMAIN entries :
                                                     entries[l].seq = seq => l <= k}

CheckpointFailures(entries, checkpoints) ==
  {c \in checkpoints : ~\E k \in Answering(entries, c.seq) : entries[k].hash = c.hash}

Verifies(entries, checkpoints) ==
  IF entries = <<>> THEN checkpoints = {}
  ELSE EntryFailures(entries) = {} /\ CheckpointFailures(entries, checkpoints) = {}

-----------------------------------------------------------------------------
(* Appending: one statement in a transaction of its own *)

StandsAt(m, at) == [mint EXCEPT ![m].at = at]

\* Mutant of TakeHead: the head is read without its lock.
TakeHead_Unlocked(m) ==
  /\ mint[m].at \in {"intent", "outcome"}
  /\ mint' = [mint EXCEPT ![m].at = IF @ = "intent" THEN "logging intent" ELSE "logging outcome",
                          ![m].entry = <<Linking(Next1, HeadHash, Pending(m)[1], m)>>]
  /\ head' = m
  /\ UNCHANGED <<chain, issued, held, lost>>

\* The trigger's upsert of the head waits for whoever has it.
TakeHead(m) ==
  /\ mint[m].at \in {"intent", "outcome"} /\ head = Nobody
  /\ mint' = [mint EXCEPT ![m].at = IF @ = "intent" THEN "logging intent" ELSE "logging outcome",
                          ![m].entry = <<Linking(Next1, HeadHash, Pending(m)[1], m)>>]
  /\ head' = m
  /\ UNCHANGED <<chain, issued, held, lost>>

Logging(m) == mint[m].at \in {"logging intent", "logging outcome"}

\* COMMIT.  A mint that was refused throws once it has said so.
CommitEntry(m) ==
  /\ Logging(m)
  /\ chain' = Append(chain, mint[m].entry[1])
  /\ head' = Nobody
  /\ mint' = [mint EXCEPT ![m].entry = <<>>,
       ![m].at = IF @ = "logging intent" THEN "requesting"
                 ELSE IF mint[m].result = "granted" THEN "using" ELSE "failed"]
  /\ UNCHANGED <<issued, held, lost>>

\* The statement fails, or its COMMIT does, before or after it took effect:
\* the call throws.
AppendFails(m) ==
  /\ Logging(m) /\ lost < MaxLost /\ lost' = lost + 1
  /\ chain' \in {chain, Append(chain, mint[m].entry[1])}
  /\ head' = Nobody
  /\ mint' = [mint EXCEPT ![m].entry = <<>>, ![m].at = "failed"]
  /\ UNCHANGED <<issued, held>>

\* The process dies: what was not committed is rolled back.
MinterDies(m) ==
  /\ mint[m].at \notin {"done", "failed"} /\ lost < MaxLost /\ lost' = lost + 1
  /\ head' = IF head = m THEN Nobody ELSE head
  /\ mint' = [mint EXCEPT ![m].entry = <<>>, ![m].at = "failed"]
  /\ UNCHANGED <<chain, issued, held>>

-----------------------------------------------------------------------------
(* mintInstallationToken *)

Answers == {"granted", "refused", "too broad", "no answer", "unreadable"}
MintStages == {"intent", "logging intent", "requesting", "outcome", "logging outcome", "using", "done", "failed"}

\* Mutant of Request: the token is requested while its intent is being logged.
Request_Eager(m, answer) ==
  /\ mint[m].at \in {"logging intent", "requesting"} /\ issued[m] = NoToken
  /\ issued' = [issued EXCEPT ![m] = IF answer \in {"refused"} THEN NoToken ELSE Len(chain) + 1]
  /\ mint' = IF mint[m].at = "requesting" THEN [mint EXCEPT ![m].at = "outcome", ![m].result = answer] ELSE mint
  /\ UNCHANGED <<chain, head, held, lost>>

\* The POST to GitHub.  An answer that is lost may still have issued a token,
\* one granted too much is not used, and one that is not JSON throws before
\* its outcome is logged.
Request(m, answer) ==
  /\ mint[m].at = "requesting"
  /\ \/ answer # "refused" /\ issued' = [issued EXCEPT ![m] = Len(chain) + 1]
     \/ answer \in {"refused", "no answer"} /\ UNCHANGED issued
  /\ mint' = [mint EXCEPT ![m].at = IF answer = "unreadable" THEN "failed" ELSE "outcome", ![m].result = answer]
  /\ UNCHANGED <<chain, head, held, lost>>

\* The caller is done with its token.
Use(m) ==
  /\ mint[m].at = "using"
  /\ mint' = StandsAt(m, "done")
  /\ UNCHANGED <<chain, head, issued, held, lost>>

\* A customer takes a checkpoint of the chain as it is.
TakeCheckpoint ==
  /\ chain # <<>> /\ Cardinality(held) < MaxHeld
  /\ held' = held \cup {[seq |-> Len(chain), hash |-> HeadHash]}
  /\ UNCHANGED <<chain, head, mint, issued, lost>>

-----------------------------------------------------------------------------
ChainInit ==
  /\ chain = <<>> /\ head = Nobody /\ held = {} /\ lost = 0
  /\ mint = [m \in Mints |-> [at |-> "intent", entry |-> <<>>, result |-> "none"]]
  /\ issued = [m \in Mints |-> NoToken]

ChainNext ==
  \/ TakeCheckpoint
  \/ \E m \in Mints :
       \/ TakeHead(m) \/ CommitEntry(m) \/ AppendFails(m) \/ MinterDies(m) \/ Use(m)
       \/ \E answer \in Answers : Request(m, answer)

-----------------------------------------------------------------------------
(* What somebody with the table could hand out instead of the chain *)

Without(k) == SubSeq(chain, 1, k - 1) \o SubSeq(chain, k + 1, Len(chain))
Swapped(k) == [chain EXCEPT ![k] = chain[k + 1], ![k + 1] = chain[k]]
Altered(k) == [chain EXCEPT ![k].payload[3] = "altered"]

\* Everything from k on hashed anew, over another action at k.
Rehashed(k) ==
  LET forged[j \in 1..Len(chain)] ==
        IF j < k THEN chain[j]
        ELSE Linking(j, IF j = 1 THEN Genesis ELSE forged[j - 1].hash,
                   IF j = k THEN "altered" ELSE chain[j].payload[3], chain[j].payload[4])
  IN  forged

\* Leaving the first out is an export of the others.
Rewritings(k) ==
  {Altered(k), Rehashed(k)} \cup (IF k > 1 THEN {Without(k)} ELSE {})
  \cup (IF k < Len(chain) THEN {Swapped(k)} ELSE {})

-----------------------------------------------------------------------------
(* Properties *)

ChainTypeOK ==
  /\ head \in Mints \cup {Nobody} /\ lost \in 0..MaxLost
  /\ mint \in [Mints -> [at : MintStages, result : Answers \cup {"none"}, entry : {mint[m].entry : m \in Mints}]]
  /\ \A m \in Mints : Logging(m) <=> mint[m].entry # <<>>
  /\ issued \in [Mints -> Nat]
  /\ IsFiniteSet(held) /\ Cardinality(held) <= MaxHeld

\* Every token there ever was has an intent in the chain that precedes it,
\* whatever failed since (src/github/app.ts:64, src/audit/sink.ts:11).
TokensAreAccountedFor ==
  \A m \in Mints : issued[m] # NoToken =>
    \E k \in 1..issued[m] - 1 : chain[k].payload[3] = "intent" /\ chain[k].payload[4] = m

\* However the appends interleave, the chain verifies against every checkpoint;
\* and no rewriting of what a checkpoint covers does (src/audit/verify.ts:51).
VerificationIsExact ==
  /\ Verifies(chain, held)
  /\ \A c \in held : \A k \in 1..c.seq : \A entries \in Rewritings(k) : ~Verifies(entries, held)
=============================================================================
