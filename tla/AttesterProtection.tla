-------------------------- MODULE AttesterProtection --------------------------
(***************************************************************************)
(* Local slashing protection for attestations in the validator client.     *)
(*                                                                         *)
(* SubmitAttestation goroutines ("callers") take the lock of their public  *)
(* key, fetch and sign attestation data, run slashableAttestationCheck     *)
(* against the key-value store, hand the record to a background routine    *)
(* that writes records in batches, wait for a response on an event feed,   *)
(* and only then send the attestation to the beacon node.  The process may *)
(* crash at any point; only the database survives.                         *)
(*                                                                         *)
(* A signing root is a collision-free hash of the attestation data.  The   *)
(* per-epoch lists of the source and target buckets are sets of            *)
(* <<source, target>> pairs: nothing reads their order or multiplicity.    *)
(***************************************************************************)
EXTENDS Integers, Sequences, FiniteSets

CONSTANTS
    Keys,             \* validator public keys
    Callers,          \* goroutines that run SubmitAttestation
    Blocks,           \* beacon block roots an attestation may vote for
    Data,             \* attestation data the beacon node may hand out
    ChanCap,          \* capacity of batchedAttestationsChan
    BatchCap,         \* attestationBatchCapacity
    PruneEnabled,     \* EnableSlashingProtectionPruning
    PruneEpochs,      \* SlashingProtectionPruningEpochs
    MaxCalls,         \* bound: calls of SubmitAttestation
    MaxFail,          \* bound: database transactions that fail
    MaxCrash          \* bound: crashes of the process

ASSUME DataAssumption ==
    Data \subseteq [source : Nat, target : Nat, block : Blocks]
ASSUME CapAssumption == ChanCap \in Nat \ {0} /\ BatchCap \in Nat \ {0}
ASSUME BoundAssumption ==
    /\ MaxCalls \in Nat /\ MaxFail \in Nat /\ MaxCrash \in Nat
    /\ PruneEpochs \in Nat /\ PruneEnabled \in BOOLEAN

VARIABLES
    \* the callers
    pc,               \* where each caller is in SubmitAttestation
    cur,              \* the record of the attestation each caller works on
    calls,            \* calls made so far; the identity of the next record
    \* the queue, the background routine and the feed
    chan,             \* batchedAttestationsChan
    batch,            \* batchedAttestations.records
    flushing,         \* records handed to flushAttestationRecords
    phase,            \* where batchAttestationWrites is
    result,           \* error result of the last saveAttestationRecords
    subs,             \* callers subscribed to batchAttestationsFlushedFeed
    pending,          \* subscribers the running Send has not reached
    resp,             \* responseChan of each caller
    \* the database
    signingRoots, sourceEpochs, targetEpochs, lowestSource, lowestTarget,
    \* history and bounds
    enqueued,         \* records ever handed to the background routine
    sent,             \* records of attestations sent to the beacon node
    early,            \* the sent ones that were still queued at that time
    pruned,           \* the sent ones whose database entries were pruned
    fails, crashes

callerVars == <<pc, cur, calls>>
queueVars  == <<chan, batch, flushing, phase, result>>
feedVars   == <<subs, pending, resp>>
dbVars     == <<signingRoots, sourceEpochs, targetEpochs,
                lowestSource, lowestTarget>>
histVars   == <<enqueued, sent, early, pruned>>
boundVars  == <<fails, crashes>>
vars == <<callerVars, queueVars, feedVars, dbVars, histVars, boundVars>>

-------------------------------------------------------------------------------
(* Records and slashing conditions *)

NoEpoch == -1         \* no bytes stored under the key
NoRoot  == <<>>       \* the zero signing root
NoRecord == <<>>      \* an idle caller has no record
Epochs  == {d.source : d \in Data} \cup {d.target : d \in Data}

SigningRoot(d) == <<d.source, d.target, d.block>>
AllRoots == {SigningRoot(d) : d \in Data}
Pair(d)  == <<d.source, d.target>>
Records  == [key : Keys, data : Data, id : Nat]

\* slashutil.SigningRootsDiffer: a stored zero root always differs.
SigningRootsDiffer(existing, incoming) ==
    existing = NoRoot \/ existing # incoming

\* slashutil.IsSurround: the pair p surrounds the pair q.
IsSurround(p, q) == p[1] < q[1] /\ q[2] < p[2]

\* The consensus rule the store protects against.
Slashable(d, e) ==
    \/ d.target = e.target /\ SigningRoot(d) # SigningRoot(e)
    \/ IsSurround(Pair(d), Pair(e))
    \/ IsSurround(Pair(e), Pair(d))

MinOf(S) == CHOOSE x \in S : \A y \in S : x <= y
MaxOf(S) == CHOOSE x \in S : \A y \in S : x >= y

-------------------------------------------------------------------------------
(* The database transactions *)

\* Records not yet written, oldest first.
Unsaved  == IF phase = "save" THEN flushing ELSE <<>>
Queue    == Unsaved \o batch \o chan
InQueue(r) == \E i \in DOMAIN Queue : Queue[i] = r

RecsOf(recs, k) == {recs[i].data : i \in {j \in DOMAIN recs : recs[j].key = k}}

\* The signing root a batch leaves at target epoch t: the last Put wins.
RootAfter(recs, k, t) ==
    LET at == {i \in DOMAIN recs : recs[i].key = k /\ recs[i].data.target = t}
    IN  IF at = {} THEN signingRoots[k][t]
        ELSE SigningRoot(recs[MaxOf(at)].data)

LowestAfter(old, epochs) ==
    LET all == epochs \cup ({old} \ {NoEpoch})
    IN  IF all = {} THEN NoEpoch ELSE MinOf(all)

\* saveAttestationRecords: one transaction for the whole batch.
SaveAttestationRecords(recs) ==
    /\ signingRoots' = [k \in Keys |->
                           [t \in Epochs |-> RootAfter(recs, k, t)]]
    /\ sourceEpochs' = [k \in Keys |->
           sourceEpochs[k] \cup {Pair(d) : d \in RecsOf(recs, k)}]
    /\ targetEpochs' = [k \in Keys |->
           targetEpochs[k] \cup {Pair(d) : d \in RecsOf(recs, k)}]
    /\ lowestSource' = [k \in Keys |->
           LowestAfter(lowestSource[k], {d.source : d \in RecsOf(recs, k)})]
    /\ lowestTarget' = [k \in Keys |->
           LowestAfter(lowestTarget[k], {d.target : d \in RecsOf(recs, k)})]

\* Mutant: votes surrounded by a stored one are not looked for.
NoSurroundedCheck(k, d) ==
    /\ signingRoots[k][d.target] # NoRoot =>
           ~SigningRootsDiffer(signingRoots[k][d.target], SigningRoot(d))
    /\ \A p \in sourceEpochs[k] : ~(p[1] > d.source /\ IsSurround(Pair(d), p))

\* CheckSlashableAttestation: double vote, surrounding vote, surrounded vote.
CheckSlashableAttestation(k, d) ==
    /\ signingRoots[k][d.target] # NoRoot =>
           ~SigningRootsDiffer(signingRoots[k][d.target], SigningRoot(d))
    /\ \A p \in sourceEpochs[k] : ~(p[1] > d.source /\ IsSurround(Pair(d), p))
    /\ \A p \in targetEpochs[k] : ~(p[2] > d.target /\ IsSurround(p, Pair(d)))

\* Is the record, with all its index entries, in the database?
Stored(r) ==
    /\ signingRoots[r.key][r.data.target] = SigningRoot(r.data)
    /\ Pair(r.data) \in sourceEpochs[r.key]
    /\ Pair(r.data) \in targetEpochs[r.key]

\* pruningEpochCutoff, with the highest key of the bucket.
Cutoff(epochs) ==
    IF epochs = {} \/ MaxOf(epochs) <= PruneEpochs
    THEN 0 ELSE MaxOf(epochs) - PruneEpochs

\* Mutant: the source bucket is cut by the highest target epoch.
PruneSourcesByTarget ==
    /\ sourceEpochs' = [k \in Keys |->
           {p \in sourceEpochs[k] :
               p[1] >= Cutoff({q[2] : q \in targetEpochs[k]})}]
    /\ UNCHANGED <<targetEpochs, signingRoots, lowestSource, lowestTarget>>

\* PruneAttestations: every bucket is cut by the highest key of that bucket,
\* so the source bucket by source epochs.  One transaction per public key; a
\* crash between two of them is followed by another start, which prunes again.
PruneAttestations ==
    /\ sourceEpochs' = [k \in Keys |->
           {p \in sourceEpochs[k] :
               p[1] >= Cutoff({q[1] : q \in sourceEpochs[k]})}]
    /\ targetEpochs' = [k \in Keys |->
           {p \in targetEpochs[k] :
               p[2] >= Cutoff({q[2] : q \in targetEpochs[k]})}]
    /\ signingRoots' = [k \in Keys |->
           LET stored == {t \in Epochs : signingRoots[k][t] # NoRoot}
           IN  [t \in Epochs |-> IF t >= Cutoff(stored)
                                 THEN signingRoots[k][t] ELSE NoRoot]]
    /\ UNCHANGED <<lowestSource, lowestTarget>>

-------------------------------------------------------------------------------
(* SubmitAttestation *)

Init ==
    /\ pc = [c \in Callers |-> "idle"]
    /\ cur = [c \in Callers |-> NoRecord]
    /\ calls = 0
    /\ chan = <<>> /\ batch = <<>> /\ flushing = <<>>
    /\ phase = "select" /\ result = "ok"
    /\ subs = {} /\ pending = {}
    /\ resp = [c \in Callers |-> "none"]
    /\ signingRoots = [k \in Keys |-> [t \in Epochs |-> NoRoot]]
    /\ sourceEpochs = [k \in Keys |-> {}]
    /\ targetEpochs = [k \in Keys |-> {}]
    /\ lowestSource = [k \in Keys |-> NoEpoch]
    /\ lowestTarget = [k \in Keys |-> NoEpoch]
    /\ enqueued = {} /\ sent = {} /\ early = {} /\ pruned = {}
    /\ fails = 0 /\ crashes = 0

\* A return drops the caller's record and unlocks the key.
Step(c, from, to) ==
    /\ pc[c] = from
    /\ pc' = [pc EXCEPT ![c] = to]
    /\ cur' = IF to = "idle" THEN [cur EXCEPT ![c] = NoRecord] ELSE cur
    /\ UNCHANGED calls

\* Mutant: SubmitAttestation takes no lock.
NoLock(k) == k \in Keys

\* The lock of the public key is free.
Unlocked(k) == \A o \in Callers : pc[o] # "idle" => cur[o].key # k

\* Lock the key, fetch the attestation data and sign it.  The early returns
\* on the way (no duty, failed request or signature) leave no trace.
Sign(c, k, d) ==
    /\ pc[c] = "idle"
    /\ calls < MaxCalls
    /\ Unlocked(k)
    /\ pc' = [pc EXCEPT ![c] = "lowestSource"]
    /\ calls' = calls + 1
    /\ cur' = [cur EXCEPT ![c] = [key |-> k, data |-> d, id |-> calls]]
    /\ UNCHANGED <<queueVars, feedVars, dbVars, histVars, boundVars>>

\* A check of slashableAttestationCheck: go on, or return and unlock.
Check(c, from, to, ok) ==
    /\ Step(c, from, IF ok THEN to ELSE "idle")
    /\ UNCHANGED <<queueVars, feedVars, dbVars, histVars, boundVars>>

CheckLowestSource(c) ==
    LET lowest == lowestSource[cur[c].key] IN
    Check(c, "lowestSource", "lowestTarget",
          ~(lowest # NoEpoch /\ cur[c].data.source < lowest))

CheckLowestTarget(c) ==
    LET k == cur[c].key
        d == cur[c].data
        differ == SigningRootsDiffer(signingRoots[k][d.target], SigningRoot(d))
    IN  Check(c, "lowestTarget", "slashable",
              ~(/\ differ
                /\ lowestTarget[k] # NoEpoch
                /\ d.target <= lowestTarget[k]))

CheckSlashable(c) ==
    Check(c, "slashable", "enqueue",
          CheckSlashableAttestation(cur[c].key, cur[c].data))

\* SaveAttestationForPubKey first sends the record ...
Enqueue(c) ==
    /\ Step(c, "enqueue", "subscribe")
    /\ Len(chan) < ChanCap
    /\ chan' = Append(chan, cur[c])
    /\ enqueued' = enqueued \cup {cur[c]}
    /\ UNCHANGED <<batch, flushing, phase, result, feedVars,
                   dbVars, sent, early, pruned, boundVars>>

\* ... then subscribes to the feed with a fresh responseChan ...
Subscribe(c) ==
    /\ Step(c, "subscribe", "wait")
    /\ subs' = subs \cup {c}
    /\ resp' = [resp EXCEPT ![c] = "none"]
    /\ UNCHANGED <<queueVars, pending, dbVars, histVars, boundVars>>

\* Mutant: the caller returns without Unsubscribe.
ReceiveSubscribed(c) ==
    /\ resp[c] # "none"
    /\ Step(c, "wait", IF resp[c] = "ok" THEN "send" ELSE "idle")
    /\ resp' = [resp EXCEPT ![c] = "none"]
    /\ UNCHANGED <<queueVars, subs, pending, dbVars, histVars, boundVars>>

\* ... and returns what the feed delivers, after Unsubscribe.
Receive(c) ==
    /\ resp[c] # "none"
    /\ Step(c, "wait", IF resp[c] = "ok" THEN "send" ELSE "idle")
    /\ subs' = subs \ {c}
    /\ pending' = pending \ {c}
    /\ resp' = [resp EXCEPT ![c] = "none"]
    /\ UNCHANGED <<queueVars, dbVars, histVars, boundVars>>

\* The external slasher, when configured, rejects the attestation.
CommitRejected(c) ==
    /\ Step(c, "send", "idle")
    /\ UNCHANGED <<queueVars, feedVars, dbVars, histVars, boundVars>>

\* ProposeAttestation; a failed request may still have reached the network.
Send(c) ==
    /\ Step(c, "send", "idle")
    /\ sent' = sent \cup {cur[c]}
    /\ early' = IF InQueue(cur[c]) THEN early \cup {cur[c]} ELSE early
    /\ UNCHANGED <<queueVars, feedVars, dbVars, enqueued, pruned,
                   boundVars>>

-------------------------------------------------------------------------------
(* batchAttestationWrites and flushAttestationRecords: one goroutine.      *)
(* batchedAttestationsFlushInProgress is set exactly while phase # select. *)

\* case v := <-s.batchedAttestationsChan
BatchReceive ==
    /\ phase = "select"
    /\ chan # <<>>
    /\ chan' = Tail(chan)
    /\ LET recs == Append(batch, Head(chan)) IN
       IF Len(recs) >= BatchCap
       THEN batch' = <<>> /\ flushing' = recs /\ phase' = "save"
       ELSE batch' = recs /\ UNCHANGED <<flushing, phase>>
    /\ UNCHANGED <<callerVars, result, feedVars, dbVars, histVars, boundVars>>

\* case <-ticker.C
BatchTick ==
    /\ phase = "select"
    /\ batch # <<>>
    /\ flushing' = batch
    /\ batch' = <<>>
    /\ phase' = "save"
    /\ UNCHANGED <<callerVars, chan, result, feedVars, dbVars, histVars,
                   boundVars>>

FlushSaved ==
    /\ phase = "save"
    /\ SaveAttestationRecords(flushing)
    /\ phase' = "send"
    /\ flushing' = <<>>
    /\ result' = "ok"
    /\ UNCHANGED <<callerVars, chan, batch, feedVars, histVars, boundVars>>

\* Mutant: the records of a failed batch are not queued again.
FlushDropped ==
    /\ phase = "save"
    /\ fails < MaxFail
    /\ fails' = fails + 1
    /\ flushing' = <<>>
    /\ phase' = "send"
    /\ result' = "err"
    /\ UNCHANGED <<callerVars, chan, batch, feedVars, dbVars, histVars,
                   crashes>>

\* The transaction is rolled back and the records are queued again.
FlushFailed ==
    /\ phase = "save"
    /\ fails < MaxFail
    /\ fails' = fails + 1
    /\ batch' = batch \o flushing
    /\ flushing' = <<>>
    /\ phase' = "send"
    /\ result' = "err"
    /\ UNCHANGED <<callerVars, chan, feedVars, dbVars, histVars, crashes>>

\* Feed.Send takes the current subscribers ...
FeedSend ==
    /\ phase = "send"
    /\ pending' = subs
    /\ phase' = "deliver"
    /\ UNCHANGED <<callerVars, chan, batch, flushing, result, subs, resp,
                   dbVars, histVars, boundVars>>

\* ... delivers to each whose one-element buffer has room, else blocks ...
FeedDeliver(c) ==
    /\ phase = "deliver"
    /\ c \in pending
    /\ resp[c] = "none"
    /\ resp' = [resp EXCEPT ![c] = result]
    /\ pending' = pending \ {c}
    /\ UNCHANGED <<callerVars, queueVars, subs, dbVars, histVars, boundVars>>

\* ... and returns when nobody is left.
FeedDone ==
    /\ phase = "deliver"
    /\ pending = {}
    /\ phase' = "select"
    /\ UNCHANGED <<callerVars, chan, batch, flushing, result, feedVars,
                   dbVars, histVars, boundVars>>

\* The process dies and starts again on the same database (NewKVStore).
Crash ==
    /\ crashes < MaxCrash
    /\ crashes' = crashes + 1
    /\ pc' = [c \in Callers |-> "idle"]
    /\ cur' = [c \in Callers |-> NoRecord]
    /\ chan' = <<>> /\ batch' = <<>> /\ flushing' = <<>>
    /\ phase' = "select" /\ result' = "ok"
    /\ subs' = {} /\ pending' = {}
    /\ resp' = [c \in Callers |-> "none"]
    /\ IF PruneEnabled
       THEN /\ PruneAttestations
            /\ pruned' = pruned \cup {r \in sent : Stored(r) /\ ~Stored(r)'}
       ELSE UNCHANGED <<dbVars, pruned>>
    /\ UNCHANGED <<calls, enqueued, sent, early, fails>>

BatchRoutine ==
    \/ BatchReceive \/ BatchTick \/ FlushSaved \/ FlushFailed
    \/ FeedSend \/ FeedDone \/ \E c \in Callers : FeedDeliver(c)

Proceed(c) ==
    \/ CheckLowestSource(c) \/ CheckLowestTarget(c) \/ CheckSlashable(c)
    \/ Enqueue(c) \/ Subscribe(c) \/ Receive(c) \/ Send(c) \/ CommitRejected(c)

Next ==
    \/ \E c \in Callers, k \in Keys, d \in Data : Sign(c, k, d)
    \/ \E c \in Callers : Proceed(c)
    \/ BatchRoutine
    \/ Crash

\* The Go scheduler runs every goroutine that can run.
Fairness == WF_vars(BatchRoutine) /\ \A c \in Callers : WF_vars(Proceed(c))

Spec == Init /\ [][Next]_vars
FairSpec == Spec /\ Fairness

-------------------------------------------------------------------------------
(* Properties *)

\* Types of the state of the validator client and its database; a caller is
\* subscribed to the feed exactly while it waits for the response.
TypeOK ==
    /\ pc \in [Callers -> {"idle", "lowestSource", "lowestTarget", "slashable",
                           "enqueue", "subscribe", "wait", "send"}]
    /\ cur \in [Callers -> Records \cup {NoRecord}]
    /\ \A c \in Callers : pc[c] # "idle" => cur[c] \in Records
    /\ calls \in Nat /\ fails \in Nat /\ crashes \in Nat
    /\ chan \in Seq(Records) /\ batch \in Seq(Records)
    /\ flushing \in Seq(Records)
    /\ phase \in {"select", "save", "send", "deliver"}
    /\ result \in {"ok", "err"}
    /\ subs = {c \in Callers : pc[c] = "wait"} /\ pending \subseteq subs
    /\ resp \in [Callers -> {"none", "ok", "err"}]
    /\ signingRoots \in [Keys -> [Epochs -> AllRoots \cup {NoRoot}]]
    /\ sourceEpochs \in [Keys -> SUBSET (Epochs \X Epochs)]
    /\ targetEpochs \in [Keys -> SUBSET (Epochs \X Epochs)]
    /\ lowestSource \in [Keys -> Epochs \cup {NoEpoch}]
    /\ lowestTarget \in [Keys -> Epochs \cup {NoEpoch}]
    /\ sent \subseteq Records /\ enqueued \subseteq Records
    /\ early \subseteq sent /\ pruned \subseteq sent

\* Two attestations of one key sent to the beacon node are never slashable
\* together, whatever the interleaving, failed writes and crashes, unless the
\* earlier one was sent while its record was still queued, or pruning removed
\* its entries (slashableAttestationCheck followed by ProposeAttestation).
NoSlashableSent ==
    \A a, b \in sent :
        (a.key = b.key /\ a.id < b.id /\ a \notin early \cup pruned)
            => ~Slashable(a.data, b.data)

\* Pruning alone never makes a validator slashable as long as its targets grow:
\* an attestation whose target is above every earlier one of the key conflicts
\* with no earlier sent one, although PruneAttestations cut the source bucket
\* by source epochs and left the lowest signed epochs alone.
GrowingTargetsSafe ==
    \A b \in sent :
        (\A r \in enqueued : r.key = b.key /\ r.id < b.id
                                => r.data.target < b.data.target)
            => \A a \in sent \ early : a.key = b.key /\ a.id < b.id
                                           => ~Slashable(a.data, b.data)

\* When SaveAttestationForPubKey reports success the record is in the database
\* ("Subscribe to be notified when the attestation record queued for saving to
\* the DB is indeed saved").
SavedWhenReported == \A c \in Callers : pc[c] = "send" => ~InQueue(cur[c])

\* The record a caller queued last for its key is written before it, or with
\* it: no older record of the key outlives it in the queue, in spite of batches
\* that fail and are queued again.
OwnRecordLast ==
    \A c \in Callers : pc[c] \in {"subscribe", "wait", "send"} =>
        \A i \in DOMAIN Queue : Queue[i].key = cur[c].key =>
            \E j \in DOMAIN Queue : j >= i /\ Queue[j] = cur[c]

\* Every queued record is eventually written, whatever transactions fail on the
\* way (flushAttestationRecords: "retry the records since the TX would have
\* been reverted"), unless the process dies.
QueuedIsWritten ==
    \A k \in Keys, d \in Data, n \in 0 .. MaxCalls - 1 :
        LET r == [key |-> k, data |-> d, id |-> n]
        IN  InQueue(r) ~> (Pair(d) \in targetEpochs[k] \/ crashes > 0)

\* A caller that waits on responseChan is eventually answered.
WaiterIsAnswered ==
    \A c \in Callers : (pc[c] = "wait") ~> (pc[c] # "wait")
===============================================================================
