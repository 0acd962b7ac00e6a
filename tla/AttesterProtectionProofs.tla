----------------------- MODULE AttesterProtectionProofs -----------------------
(***************************************************************************)
(* Proofs about AttesterProtection for any number of keys, callers, calls, *)
(* failed transactions and crashes, any attestation data and any capacity. *)
(***************************************************************************)
EXTENDS AttesterProtection, WellFoundedInduction, TLAPS

-------------------------------------------------------------------------------
(* The inductive invariant *)

\* Callers between Enqueue and the end of the call.
Queued(c) == pc[c] \in {"subscribe", "wait", "send"}

\* Callers past CheckSlashableAttestation.
Checked(c) == pc[c] = "enqueue" \/ Queued(c)

\* Two running callers hold the locks of different keys.
LockInv ==
    \A c, o \in Callers :
        (c # o /\ pc[c] # "idle" /\ pc[o] # "idle") => cur[c].key # cur[o].key

\* Records are numbered in the order of the calls; under the lock of its key
\* a caller works on the newest one.
OrderInv ==
    /\ sent \subseteq enqueued
    /\ \A r \in enqueued : r.id < calls
    /\ \A c \in Callers : pc[c] # "idle" =>
           /\ cur[c].id < calls
           /\ \A r \in enqueued :
                  r.key = cur[c].key => r.id < cur[c].id \/ r = cur[c]
    /\ \A c \in Callers : Queued(c) => cur[c] \in enqueued

\* The routine has nothing batched while it writes: requeueing keeps the order.
BatchInv == phase = "save" => batch = <<>>

\* A record that left the queue while its caller runs is in the database.
OwnStored ==
    \A c \in Callers : (Queued(c) /\ ~InQueue(cur[c])) => Stored(cur[c])

\* A sent attestation is in the database, and nothing that is queued or passed
\* the check conflicts with it.
Guarded(a) ==
    /\ Stored(a)
    /\ \A i \in DOMAIN Queue :
           Queue[i].key = a.key => ~Slashable(a.data, Queue[i].data)
    /\ \A c \in Callers :
           (Checked(c) /\ cur[c].key = a.key) => ~Slashable(a.data, cur[c].data)
SentInv == \A a \in sent : a \notin early \cup pruned => Guarded(a)

IInv == /\ TypeOK /\ LockInv /\ OrderInv /\ BatchInv
        /\ OwnRecordLast /\ OwnStored /\ SentInv /\ NoSlashableSent

-------------------------------------------------------------------------------
(* Sequences.  The solver has these facts; they are stated for the leaves that *)
(* need no others.                                                             *)

\* A sequence is a function on the numbers up to its length.
LEMMA SeqLength ==
  ASSUME NEW S, NEW q \in Seq(S)
  PROVE  /\ Len(q) \in Nat /\ DOMAIN q = 1 .. Len(q) /\ q \in [1 .. Len(q) -> S]
         /\ \A i \in 1 .. Len(q) : q[i] \in S
OBVIOUS

\* The empty sequence, and that every other one has a length above zero.
LEMMA SeqEmpty ==
  ASSUME NEW S
  PROVE  <<>> \in Seq(S) /\ Len(<<>>) = 0 /\ \A q \in Seq(S) : q # <<>> => Len(q) \in Nat \ {0}
OBVIOUS

\* Sequences with the same elements are equal.
LEMMA SeqSame ==
  ASSUME NEW S, NEW q \in Seq(S), NEW r \in Seq(S), Len(q) = Len(r),
         \A i \in 1 .. Len(q) : q[i] = r[i]
  PROVE  q = r
OBVIOUS

\* Taking the first record off the channel.
LEMMA SeqTail ==
  ASSUME NEW S, NEW q \in Seq(S), q # <<>>
  PROVE  /\ Head(q) \in S /\ Tail(q) \in Seq(S) /\ Len(Tail(q)) = Len(q) - 1
         /\ \A i \in 1 .. Len(Tail(q)) : Tail(q)[i] = q[i + 1]
OBVIOUS

\* Putting a record at the end.
LEMMA SeqAppend ==
  ASSUME NEW S, NEW q \in Seq(S), NEW e \in S
  PROVE  /\ Append(q, e) \in Seq(S) /\ Append(q, e) # <<>> /\ Len(Append(q, e)) = Len(q) + 1
         /\ Append(q, e)[Len(q) + 1] = e /\ \A i \in 1 .. Len(q) : Append(q, e)[i] = q[i]
OBVIOUS

\* The records of one sequence and then those of another.
LEMMA SeqConcat ==
  ASSUME NEW S, NEW q \in Seq(S), NEW r \in Seq(S)
  PROVE  /\ q \o r \in Seq(S) /\ Len(q \o r) = Len(q) + Len(r)
         /\ \A i \in 1 .. Len(q) + Len(r) :
               (q \o r)[i] = IF i <= Len(q) THEN q[i] ELSE r[i - Len(q)]
OBVIOUS

\* Nothing before or after a sequence leaves it as it is.
LEMMA SeqConcatEmpty ==
  ASSUME NEW S, NEW q \in Seq(S)
  PROVE  q \o <<>> = q /\ <<>> \o q = q
OBVIOUS

\* Appending is concatenation with one record.
LEMMA SeqAppendConcat ==
  ASSUME NEW S, NEW q \in Seq(S), NEW e \in S
  PROVE  Append(q, e) = q \o <<e>>
OBVIOUS

\* Concatenation is associative.
LEMMA SeqConcat3 ==
  ASSUME NEW S, NEW q \in Seq(S), NEW r \in Seq(S), NEW t \in Seq(S)
  PROVE  (q \o r) \o t = q \o (r \o t)
OBVIOUS

-------------------------------------------------------------------------------
(* Lemmas about the operators *)

\* Every nonempty set of naturals has a least element.
LEMMA MinExists ==
    ASSUME NEW S \in SUBSET Nat, S # {}
    PROVE  MinOf(S) \in S /\ \A y \in S : MinOf(S) <= y
<1>. DEFINE R == {ss \in Nat \X Nat : ss[1] < ss[2]}
<1>1. IsWellFoundedOn(R, Nat)
  <2>1. OpToRel(<, Nat) = R
    BY Zenon DEF OpToRel
  <2>. QED  BY <2>1, NatLessThanWellFounded
<1>2. PICK m \in S : \A y \in S : ~(<<y, m>> \in R)
  <2>. HIDE DEF R
  <2>. QED  BY <1>1, WFMin
<1>3. ASSUME NEW y \in S  PROVE m <= y
  <2>1. <<y, m>> \in Nat \X Nat /\ (<<y, m>> \in R <=> y < m)
    OBVIOUS
  <2>. QED  BY <2>1, <1>2
<1>. QED  BY <1>3, Zenon DEF MinOf

\* Every nonempty bounded set of naturals has a greatest element.
LEMMA MaxExists ==
    ASSUME NEW n \in Nat, NEW S \in SUBSET (0 .. n), S # {}
    PROVE  MaxOf(S) \in S /\ \A y \in S : MaxOf(S) >= y
<1>. DEFINE T == {n - i : i \in S}
<1>1. T \in SUBSET Nat
  OBVIOUS
<1>2. PICK m \in T : \A y \in T : m <= y
  <2>1. T # {}
    OBVIOUS
  <2>. HIDE DEF T
  <2>. QED  BY <1>1, <2>1, MinExists, Zenon
<1>3. PICK i \in S : m = n - i
  OBVIOUS
<1>4. \A y \in S : n - y \in T
  OBVIOUS
<1>5. \A y \in S : i >= y
  BY <1>2, <1>3, <1>4
<1>. QED  BY <1>5 DEF MaxOf

\* Epochs are natural numbers; a stored root is never the zero root.
LEMMA DataFacts ==
    /\ Epochs \subseteq Nat
    /\ \A d \in Data : d.source \in Epochs /\ d.target \in Epochs
    /\ NoRoot \notin AllRoots
BY DataAssumption DEF Epochs, AllRoots, SigningRoot, NoRoot

\* The lowest signed epoch after a write is one of the epochs written so far.
LEMMA LowestAfterType ==
    ASSUME NEW old \in Epochs \cup {NoEpoch}, NEW E \in SUBSET Epochs
    PROVE  LowestAfter(old, E) \in Epochs \cup {NoEpoch}
<1>. DEFINE all == E \cup ({old} \ {NoEpoch})
<1>1. all \in SUBSET Epochs
  OBVIOUS
<1>2. all # {} => MinOf(all) \in Epochs
  <2>. HIDE DEF all
  <2>. QED  BY <1>1, MinExists, DataFacts
<1>. QED  BY <1>2 DEF LowestAfter

\* saveAttestationRecords keeps the types of the database.
LEMMA SaveType ==
    ASSUME TypeOK, NEW recs \in Seq(Records), SaveAttestationRecords(recs)
    PROVE  /\ signingRoots' \in [Keys -> [Epochs -> AllRoots \cup {NoRoot}]]
           /\ sourceEpochs' \in [Keys -> SUBSET (Epochs \X Epochs)]
           /\ targetEpochs' \in [Keys -> SUBSET (Epochs \X Epochs)]
           /\ lowestSource' \in [Keys -> Epochs \cup {NoEpoch}]
           /\ lowestTarget' \in [Keys -> Epochs \cup {NoEpoch}]
<1>1. ASSUME NEW i \in DOMAIN recs
      PROVE  recs[i].data \in Data
  <2>1. i \in 1 .. Len(recs)
    BY SeqLength
  <2>2. recs[i] \in Records
    BY <2>1, SeqLength
  <2>. QED  BY <2>2 DEF Records
<1>2. \A k \in Keys : RecsOf(recs, k) \subseteq Data
  BY <1>1 DEF RecsOf
<1>3. ASSUME NEW k \in Keys, NEW t \in Epochs
      PROVE  RootAfter(recs, k, t) \in AllRoots \cup {NoRoot}
  <2>. DEFINE at == {i \in DOMAIN recs : recs[i].key = k /\ recs[i].data.target = t}
  <2>1. CASE at = {}
    BY <2>1 DEF RootAfter, TypeOK
  <2>2. CASE at # {}
    <3>1. at \in SUBSET (1 .. Len(recs)) /\ Len(recs) \in Nat
      BY SeqLength
    <3>2. MaxOf(at) \in at
      <4>1. at \in SUBSET (0 .. Len(recs))
        BY <3>1
      <4>. HIDE DEF at
      <4>. QED  BY <2>2, <3>1, <4>1, MaxExists, Zenon
    <3>3. recs[MaxOf(at)].data \in Data
      BY <3>2, <1>1
    <3>4. RootAfter(recs, k, t) = SigningRoot(recs[MaxOf(at)].data)
      BY <2>2 DEF RootAfter
    <3>. HIDE DEF at
    <3>. QED  BY <3>3, <3>4 DEF AllRoots
  <2>. QED  BY <2>1, <2>2
<1>4. ASSUME NEW k \in Keys
      PROVE  {Pair(d) : d \in RecsOf(recs, k)} \subseteq Epochs \X Epochs
  BY <1>2, DataFacts DEF Pair
<1>5. ASSUME NEW k \in Keys
      PROVE  /\ LowestAfter(lowestSource[k], {d.source : d \in RecsOf(recs, k)})
                   \in Epochs \cup {NoEpoch}
             /\ LowestAfter(lowestTarget[k], {d.target : d \in RecsOf(recs, k)})
                   \in Epochs \cup {NoEpoch}
  <2>1. /\ {d.source : d \in RecsOf(recs, k)} \in SUBSET Epochs
        /\ {d.target : d \in RecsOf(recs, k)} \in SUBSET Epochs
    BY <1>2, DataFacts
  <2>2. /\ lowestSource[k] \in Epochs \cup {NoEpoch}
        /\ lowestTarget[k] \in Epochs \cup {NoEpoch}
    BY DEF TypeOK
  <2>. QED  BY <2>1, <2>2, LowestAfterType, Zenon
<1>6. signingRoots' \in [Keys -> [Epochs -> AllRoots \cup {NoRoot}]]
  BY <1>3 DEF SaveAttestationRecords
<1>7. /\ sourceEpochs' \in [Keys -> SUBSET (Epochs \X Epochs)]
      /\ targetEpochs' \in [Keys -> SUBSET (Epochs \X Epochs)]
  BY <1>4 DEF SaveAttestationRecords, TypeOK
<1>8. /\ lowestSource' \in [Keys -> Epochs \cup {NoEpoch}]
      /\ lowestTarget' \in [Keys -> Epochs \cup {NoEpoch}]
  BY <1>5 DEF SaveAttestationRecords
<1>. QED  BY <1>6, <1>7, <1>8

\* The types hold initially, and every step of the client keeps them.
LEMMA TypeInit == Init => TypeOK
BY BoundAssumption DEF Init, TypeOK

LEMMA TypeStep == TypeOK /\ [Next]_vars => TypeOK'
<1>. SUFFICES ASSUME TypeOK, [Next]_vars  PROVE TypeOK'
  OBVIOUS
<1>. USE DEF callerVars, queueVars, feedVars, dbVars, histVars, boundVars
<1>1. CASE UNCHANGED vars
  BY <1>1 DEF vars, TypeOK
<1>2. ASSUME NEW c \in Callers, NEW k \in Keys, NEW d \in Data, Sign(c, k, d)
      PROVE  TypeOK'
  BY <1>2 DEF Sign, TypeOK, Records
<1>3. ASSUME NEW c \in Callers, NEW from, NEW to, NEW ok, Check(c, from, to, ok),
             from \in {"lowestSource", "lowestTarget", "slashable"},
             to \in {"lowestTarget", "slashable", "enqueue"}
      PROVE  TypeOK'
  BY <1>3 DEF Check, Step, TypeOK
<1>4. ASSUME NEW c \in Callers, Enqueue(c)
      PROVE  TypeOK'
  <2>1. cur[c] \in Records
    BY <1>4 DEF Enqueue, Step, TypeOK
  <2>2. chan' \in Seq(Records) /\ enqueued' \subseteq Records
    BY <1>4, <2>1, SeqAppend DEF Enqueue, TypeOK
  <2>. QED  BY <1>4, <2>2 DEF Enqueue, Step, TypeOK
<1>5. ASSUME NEW c \in Callers, Subscribe(c)  PROVE TypeOK'
  BY <1>5 DEF Subscribe, Step, TypeOK
<1>6. ASSUME NEW c \in Callers, Receive(c)  PROVE TypeOK'
  BY <1>6 DEF Receive, Step, TypeOK
<1>7. ASSUME NEW c \in Callers, CommitRejected(c)  PROVE TypeOK'
  BY <1>7 DEF CommitRejected, Step, TypeOK
<1>8. ASSUME NEW c \in Callers, Send(c)  PROVE TypeOK'
  <2>1. cur[c] \in Records
    BY <1>8 DEF Send, Step, TypeOK
  <2>. QED  BY <1>8, <2>1 DEF Send, Step, TypeOK
<1>9. CASE BatchReceive
  <2>. DEFINE recs == Append(batch, Head(chan))
  <2>1. recs \in Seq(Records) /\ Tail(chan) \in Seq(Records)
    BY <1>9, SeqAppend, SeqTail DEF BatchReceive, TypeOK
  <2>2. batch' \in Seq(Records) /\ flushing' \in Seq(Records)
        /\ phase' \in {"select", "save"} /\ chan' \in Seq(Records)
    <3>. HIDE DEF recs
    <3>1. CASE Len(recs) >= BatchCap
      BY <1>9, <2>1, <3>1, SeqEmpty, Zenon DEF BatchReceive, TypeOK, recs
    <3>2. CASE ~(Len(recs) >= BatchCap)
      BY <1>9, <2>1, <3>2, Zenon DEF BatchReceive, TypeOK, recs
    <3>. QED  BY <3>1, <3>2
  <2>. QED  BY <1>9, <2>2 DEF BatchReceive, TypeOK
<1>10. CASE BatchTick
  BY <1>10, SeqEmpty DEF BatchTick, TypeOK
<1>11. CASE FlushSaved
  <2>1. flushing \in Seq(Records) /\ SaveAttestationRecords(flushing)
    BY <1>11 DEF FlushSaved, TypeOK
  <2>. QED  BY <1>11, <2>1, SaveType, SeqEmpty DEF FlushSaved, TypeOK
<1>12. CASE FlushFailed
  BY <1>12, SeqConcat, SeqEmpty DEF FlushFailed, TypeOK
<1>13. CASE FeedSend
  BY <1>13 DEF FeedSend, TypeOK
<1>14. ASSUME NEW c \in Callers, FeedDeliver(c)  PROVE TypeOK'
  BY <1>14 DEF FeedDeliver, TypeOK
<1>15. CASE FeedDone
  BY <1>15 DEF FeedDone, TypeOK
<1>16. CASE Crash
  <2>1. CASE PruneEnabled
    <3>1. PruneAttestations
      BY <1>16, <2>1 DEF Crash
    <3>2. signingRoots' \in [Keys -> [Epochs -> AllRoots \cup {NoRoot}]]
      BY <3>1 DEF PruneAttestations, TypeOK
    <3>3. /\ sourceEpochs' \in [Keys -> SUBSET (Epochs \X Epochs)]
          /\ targetEpochs' \in [Keys -> SUBSET (Epochs \X Epochs)]
      BY <3>1 DEF PruneAttestations, TypeOK
    <3>4. lowestSource' = lowestSource /\ lowestTarget' = lowestTarget
      BY <3>1 DEF PruneAttestations
    <3>5. pruned' \subseteq sent'
      BY <1>16, <2>1 DEF Crash, TypeOK
    <3>. QED  BY <1>16, <3>2, <3>3, <3>4, <3>5, SeqEmpty DEF Crash, TypeOK
  <2>2. CASE ~PruneEnabled
    BY <1>16, <2>2, SeqEmpty DEF Crash, TypeOK
  <2>. QED  BY <2>1, <2>2
<1>17. ASSUME NEW c \in Callers, Proceed(c)  PROVE TypeOK'
  BY <1>3, <1>4, <1>5, <1>6, <1>7, <1>8, <1>17, Zenon DEF Proceed, CheckLowestSource, CheckLowestTarget, CheckSlashable
<1>. QED
  BY <1>1, <1>2, <1>17, <1>9, <1>10, <1>11, <1>12, <1>13, <1>14, <1>15, <1>16
     DEF Next, BatchRoutine

\* The state always has its types: pc, cur, the queue, the feed, the database.
THEOREM TypeCorrect == Spec => []TypeOK
BY TypeInit, TypeStep, PTL DEF Spec

-------------------------------------------------------------------------------
(* What the steps do to the queue *)

\* No caller hands over a record; one may pass CheckSlashableAttestation.
CallersQuiet ==
    \A c \in Callers :
        /\ Queued(c)' => Queued(c) /\ cur'[c] = cur[c]
        /\ Checked(c)' =>
               /\ cur'[c] = cur[c]
               /\ pc[c] # "idle"
               /\ Checked(c) \/ CheckSlashableAttestation(cur[c].key, cur[c].data)

QueueQuiet == Queue' = Queue /\ UNCHANGED <<dbVars, enqueued, pruned>>

\* Moving the oldest record of the channel to the batch keeps the order.
LEMMA ShiftQueue ==
    ASSUME NEW S, NEW s \in Seq(S), NEW t \in Seq(S), t # <<>>
    PROVE  Append(s, Head(t)) \o Tail(t) = s \o t
<1>. DEFINE u == Append(s, Head(t)) \o Tail(t)
<1>1. /\ Head(t) \in S /\ Tail(t) \in Seq(S) /\ Len(Tail(t)) = Len(t) - 1
      /\ \A i \in 1 .. Len(Tail(t)) : Tail(t)[i] = t[i+1]
  BY SeqTail
<1>2. /\ Append(s, Head(t)) \in Seq(S)
      /\ Len(Append(s, Head(t))) = Len(s) + 1
      /\ \A i \in 1 .. Len(s) : Append(s, Head(t))[i] = s[i]
      /\ Append(s, Head(t))[Len(s) + 1] = t[1]
  BY <1>1, SeqAppend
<1>3. Len(s) \in Nat /\ Len(t) \in Nat \ {0}
  BY SeqLength, SeqEmpty
<1>4. /\ u \in Seq(S) /\ Len(u) = Len(s) + Len(t)
      /\ \A i \in 1 .. Len(s) + Len(t) :
             u[i] = IF i <= Len(s) + 1 THEN Append(s, Head(t))[i]
                    ELSE Tail(t)[i - (Len(s) + 1)]
  BY <1>1, <1>2, <1>3, SeqConcat
<1>5. /\ s \o t \in Seq(S) /\ Len(s \o t) = Len(s) + Len(t)
      /\ \A i \in 1 .. Len(s) + Len(t) :
             (s \o t)[i] = IF i <= Len(s) THEN s[i] ELSE t[i - Len(s)]
  BY SeqConcat
<1>6. ASSUME NEW i \in 1 .. Len(s) + Len(t)  PROVE u[i] = (s \o t)[i]
  <2>. HIDE DEF u
  <2>1. CASE i <= Len(s)
    BY <1>2, <1>3, <1>4, <1>5, <2>1
  <2>2. CASE i = Len(s) + 1
    BY <1>2, <1>3, <1>4, <1>5, <2>2
  <2>3. CASE i > Len(s) + 1
    <3>1. /\ i - (Len(s) + 1) \in 1 .. Len(Tail(t))
          /\ (i - (Len(s) + 1)) + 1 = i - Len(s)
      BY <1>1, <1>3, <2>3
    <3>. QED  BY <1>1, <1>3, <1>4, <1>5, <2>3, <3>1
  <2>. QED  BY <1>3, <2>1, <2>2, <2>3
<1>. HIDE DEF u
<1>7. u = s \o t
  BY <1>4, <1>5, <1>6, SeqSame
<1>. QED  BY <1>7 DEF u

\* The queue in the two situations of batchAttestationWrites.
Shape ==
    /\ Queue \in Seq(Records)
    /\ phase # "save" => Queue = batch \o chan
    /\ phase = "save" => Queue = flushing \o chan

LEMMA QueueShape == TypeOK /\ BatchInv => Shape
<1>. SUFFICES ASSUME TypeOK, BatchInv  PROVE Shape
  OBVIOUS
<1>1. flushing \in Seq(Records) /\ batch \in Seq(Records) /\ chan \in Seq(Records)
  BY DEF TypeOK
<1>2. CASE phase # "save"
  BY <1>1, <1>2, SeqConcat, SeqConcatEmpty DEF Queue, Unsaved, Shape
<1>3. CASE phase = "save"
  BY <1>1, <1>3, SeqConcat, SeqConcatEmpty DEF Queue, Unsaved, BatchInv,
     Shape
<1>. QED  BY <1>2, <1>3 DEF Shape

LEMMA BatchStep == TypeOK /\ BatchInv /\ [Next]_vars => BatchInv'
<1>. SUFFICES ASSUME TypeOK, BatchInv, [Next]_vars  PROVE BatchInv'
  OBVIOUS
<1>. USE DEF callerVars, queueVars, feedVars, dbVars, histVars, boundVars
<1>1. CASE UNCHANGED vars
  BY <1>1 DEF vars, BatchInv
<1>2. ASSUME NEW c \in Callers, NEW k \in Keys, NEW d \in Data, Sign(c, k, d)
      PROVE  BatchInv'
  BY <1>2 DEF Sign, BatchInv
<1>3. ASSUME NEW c \in Callers, Proceed(c)
      PROVE  BatchInv'
  BY <1>3, Zenon DEF Proceed, CheckLowestSource, CheckLowestTarget, CheckSlashable,
              Check, Enqueue, Subscribe, Receive, Send, CommitRejected, BatchInv
<1>4. CASE BatchRoutine
  BY <1>4 DEF BatchRoutine, BatchReceive, BatchTick, FlushSaved, FlushFailed,
              FeedSend, FeedDone, FeedDeliver, BatchInv
<1>5. CASE Crash
  BY <1>5 DEF Crash, BatchInv
<1>. QED  BY <1>1, <1>2, <1>3, <1>4, <1>5 DEF Next

\* Steps that neither queue a record, nor send one, nor write the database.
LEMMA QuietSteps ==
    ASSUME TypeOK, BatchInv, [Next]_vars,
           ~Crash, ~FlushSaved,
           ~ \E c \in Callers : Enqueue(c) \/ Send(c)
    PROVE  QueueQuiet /\ CallersQuiet /\ UNCHANGED <<sent, early>>
<1>. USE DEF callerVars, queueVars, feedVars, dbVars, histVars, boundVars
<1>. DEFINE Quiet == QueueQuiet /\ CallersQuiet /\ UNCHANGED <<sent, early>>
<1>0. TypeOK' /\ BatchInv'
  BY TypeStep, BatchStep
<1>5. Shape /\ Shape'
  BY <1>0, QueueShape, PTL
<1>1. CASE UNCHANGED vars
  BY <1>1 DEF vars, QueueQuiet, CallersQuiet, Queue, Unsaved, Queued, Checked
<1>2. ASSUME NEW c \in Callers, NEW k \in Keys, NEW d \in Data, Sign(c, k, d)
      PROVE  Quiet
  <2>1. QueueQuiet /\ UNCHANGED <<sent, early>>
    BY <1>2 DEF Sign, QueueQuiet, Queue, Unsaved
  <2>2. CallersQuiet
    BY <1>2, Zenon DEF Sign, CallersQuiet, Queued, Checked, TypeOK
  <2>. QED  BY <2>1, <2>2
<1>3. ASSUME NEW c \in Callers, Proceed(c)
      PROVE  Quiet
  <2>1. \/ CheckLowestSource(c) \/ CheckLowestTarget(c) \/ CheckSlashable(c)
        \/ Subscribe(c) \/ Receive(c) \/ CommitRejected(c)
    BY <1>3 DEF Proceed
  <2>2. QueueQuiet /\ UNCHANGED <<sent, early>>
    BY <2>1, Zenon DEF CheckLowestSource, CheckLowestTarget, CheckSlashable, Check,
                Subscribe, Receive, CommitRejected, QueueQuiet, Queue, Unsaved
  <2>3. CASE CheckLowestSource(c) \/ CheckLowestTarget(c)
    <3>1. /\ ~(pc'[c] = "enqueue") /\ ~Queued(c)'
          /\ \A o \in Callers : o # c => pc'[o] = pc[o] /\ cur'[o] = cur[o]
      BY <2>3, Zenon DEF CheckLowestSource, CheckLowestTarget, Check, Step, Queued, TypeOK
    <3>. QED  BY <2>2, <3>1, Zenon DEF CallersQuiet, Queued, Checked
  <2>4. CASE CheckSlashable(c)
    BY <2>2, <2>4, Zenon DEF CheckSlashable, Check, Step, CallersQuiet, Queued, Checked,
                TypeOK
  <2>5. CASE Subscribe(c) \/ Receive(c) \/ CommitRejected(c)
    BY <2>2, <2>5, Zenon DEF Subscribe, Receive, CommitRejected, Step, CallersQuiet,
                Queued, Checked, TypeOK
  <2>. QED  BY <2>1, <2>2, <2>3, <2>4, <2>5
<1>4. CASE BatchRoutine
  <2>1. \/ BatchReceive \/ BatchTick \/ FlushFailed \/ FeedSend \/ FeedDone
        \/ \E c \in Callers : FeedDeliver(c)
    BY <1>4 DEF BatchRoutine
  <2>2. UNCHANGED <<pc, cur, dbVars, histVars>>
    BY <2>1, Zenon DEF BatchReceive, BatchTick, FlushFailed, FeedSend, FeedDone,
                FeedDeliver
  <2>3. CallersQuiet
    BY <2>2, Zenon DEF CallersQuiet, Queued, Checked
  <2>4. Queue' = Queue
    <3>1. CASE BatchReceive
      <4>1. Append(batch, Head(chan)) \o Tail(chan) = batch \o chan
        BY <3>1, ShiftQueue DEF BatchReceive, TypeOK
      <4>2. Queue = batch \o chan
        BY <3>1, <1>5 DEF BatchReceive, Shape
      <4>3. CASE Len(Append(batch, Head(chan))) >= BatchCap
        <5>1. phase' = "save" /\ flushing' = Append(batch, Head(chan))
              /\ chan' = Tail(chan)
          BY <3>1, <4>3 DEF BatchReceive
        <5>2. Queue' = flushing' \o chan'
          BY <1>5, <5>1, Zenon DEF Shape
        <5>. QED  BY <4>1, <4>2, <5>1, <5>2, Zenon
      <4>4. CASE ~(Len(Append(batch, Head(chan))) >= BatchCap)
        <5>1. phase' # "save" /\ batch' = Append(batch, Head(chan))
              /\ chan' = Tail(chan)
          BY <3>1, <4>4 DEF BatchReceive
        <5>2. Queue' = batch' \o chan'
          BY <1>5, <5>1 DEF Shape
        <5>. QED  BY <4>1, <4>2, <5>1, <5>2
      <4>. QED  BY <4>3, <4>4
    <3>2. CASE BatchTick
      <4>1. phase # "save" /\ phase' = "save" /\ flushing' = batch /\ chan' = chan
        BY <3>2 DEF BatchTick
      <4>2. Queue' = flushing' \o chan' /\ Queue = batch \o chan
        BY <1>5, <4>1 DEF Shape
      <4>. QED  BY <4>1, <4>2
    <3>3. CASE FlushFailed
      <4>1. /\ phase = "save" /\ phase' # "save" /\ batch' = batch \o flushing
            /\ chan' = chan /\ batch = <<>> /\ flushing \in Seq(Records)
        BY <3>3 DEF FlushFailed, BatchInv, TypeOK
      <4>2. batch' = flushing
        BY <4>1, SeqConcatEmpty
      <4>3. Queue' = batch' \o chan' /\ Queue = flushing \o chan
        BY <1>5, <4>1 DEF Shape
      <4>. QED  BY <4>1, <4>2, <4>3
    <3>4. CASE FeedSend \/ FeedDone \/ \E c \in Callers : FeedDeliver(c)
      BY <3>4 DEF FeedSend, FeedDone, FeedDeliver, Queue, Unsaved
    <3>. QED  BY <2>1, <3>1, <3>2, <3>3, <3>4
  <2>. QED  BY <2>2, <2>3, <2>4 DEF QueueQuiet
<1>. QED  BY <1>1, <1>2, <1>3, <1>4 DEF Next

-------------------------------------------------------------------------------
(* Locks and the order of the calls *)

\* How one step moves a caller: it starts a call under a free lock, goes on
\* with the same record, or stops.
CallerMoves(c) ==
    \/ pc'[c] = "idle"
    \/ pc[c] # "idle" /\ cur'[c] = cur[c]

LEMMA CallerSteps ==
    ASSUME TypeOK, [Next]_vars,
           ~ \E c \in Callers, k \in Keys, d \in Data : Sign(c, k, d)
    PROVE  calls' = calls /\ \A c \in Callers : CallerMoves(c)
<1>. USE DEF callerVars, queueVars, feedVars, dbVars, histVars, boundVars
<1>1. CASE UNCHANGED vars
  BY <1>1, Zenon DEF vars, CallerMoves
<1>2. ASSUME NEW c \in Callers, NEW from, NEW to, Step(c, from, to),
             from # "idle"
      PROVE  calls' = calls /\ \A o \in Callers : CallerMoves(o)
  BY <1>2 DEF Step, CallerMoves, TypeOK
<1>3. ASSUME NEW c \in Callers, Proceed(c)
      PROVE  calls' = calls /\ \A o \in Callers : CallerMoves(o)
  <2>1. CASE CheckLowestSource(c) \/ CheckLowestTarget(c) \/ CheckSlashable(c)
    BY <1>2, <2>1, Zenon DEF CheckLowestSource, CheckLowestTarget, CheckSlashable, Check
  <2>2. CASE Enqueue(c) \/ Subscribe(c) \/ Send(c) \/ CommitRejected(c)
    BY <1>2, <2>2 DEF Enqueue, Subscribe, Send, CommitRejected
  <2>3. CASE Receive(c)
    BY <1>2, <2>3 DEF Receive
  <2>. QED  BY <1>3, <2>1, <2>2, <2>3 DEF Proceed
<1>4. CASE BatchRoutine
  BY <1>4, Zenon DEF BatchRoutine, BatchReceive, BatchTick, FlushSaved, FlushFailed,
              FeedSend, FeedDone, FeedDeliver, CallerMoves
<1>5. CASE Crash
  BY <1>5, Zenon DEF Crash, CallerMoves
<1>. QED  BY <1>1, <1>3, <1>4, <1>5 DEF Next

LEMMA LockStep == TypeOK /\ LockInv /\ [Next]_vars => LockInv'
<1>. SUFFICES ASSUME TypeOK, LockInv, [Next]_vars  PROVE LockInv'
  OBVIOUS
<1>1. ASSUME NEW c \in Callers, NEW k \in Keys, NEW d \in Data, Sign(c, k, d)
      PROVE  LockInv'
  BY <1>1 DEF Sign, Unlocked, LockInv, TypeOK
<1>2. CASE ~ \E c \in Callers, k \in Keys, d \in Data : Sign(c, k, d)
  BY <1>2, CallerSteps, Zenon DEF CallerMoves, LockInv
<1>. QED  BY <1>1, <1>2

\* The histories of a step: only Enqueue and Send extend them.
LEMMA HistorySteps ==
    ASSUME TypeOK, [Next]_vars
    PROVE  /\ enqueued' # enqueued =>
                  \E c \in Callers : Enqueue(c)
           /\ sent' # sent \/ early' # early => \E c \in Callers : Send(c)
           /\ \A c \in Callers : Queued(c)' => Queued(c) \/ Enqueue(c)
<1>. USE DEF callerVars, queueVars, feedVars, dbVars, histVars, boundVars
<1>1. CASE UNCHANGED vars
  BY <1>1 DEF vars, Queued
<1>2. ASSUME NEW c \in Callers, NEW k \in Keys, NEW d \in Data, Sign(c, k, d)
      PROVE  /\ UNCHANGED <<enqueued, sent, early>>
             /\ \A o \in Callers : Queued(o)' => Queued(o)
  BY <1>2, Zenon DEF Sign, Queued, TypeOK
<1>3. ASSUME NEW c \in Callers, Proceed(c)
      PROVE  /\ enqueued' # enqueued => Enqueue(c)
             /\ sent' # sent \/ early' # early => Send(c)
             /\ \A o \in Callers : Queued(o)' => Queued(o) \/ Enqueue(o)
  <2>1. CASE CheckLowestSource(c) \/ CheckLowestTarget(c) \/ CheckSlashable(c)
    BY <2>1, Zenon DEF CheckLowestSource, CheckLowestTarget, CheckSlashable, Check,
                Step, Queued, TypeOK
  <2>2. CASE Subscribe(c) \/ Receive(c) \/ CommitRejected(c)
    BY <2>2, Zenon DEF Subscribe, Receive, CommitRejected, Step, Queued, TypeOK
  <2>3. CASE Enqueue(c)
    BY <2>3, Zenon DEF Enqueue, Step, Queued, TypeOK
  <2>4. CASE Send(c)
    BY <2>4, Zenon DEF Send, Step, Queued, TypeOK
  <2>. QED  BY <1>3, <2>1, <2>2, <2>3, <2>4 DEF Proceed
<1>4. CASE BatchRoutine
  BY <1>4, Zenon DEF BatchRoutine, BatchReceive, BatchTick, FlushSaved, FlushFailed,
              FeedSend, FeedDone, FeedDeliver, Queued
<1>5. CASE Crash
  BY <1>5 DEF Crash, Queued
<1>. QED  BY <1>1, <1>2, <1>3, <1>4, <1>5 DEF Next

LEMMA OrderStep == TypeOK /\ LockInv /\ OrderInv /\ [Next]_vars => OrderInv'
<1>. SUFFICES ASSUME TypeOK, LockInv, OrderInv, [Next]_vars  PROVE OrderInv'
  OBVIOUS
<1>. USE DEF histVars
<1>1. ASSUME NEW c \in Callers, NEW k \in Keys, NEW d \in Data, Sign(c, k, d)
      PROVE  OrderInv'
  <2>1. /\ calls' = calls + 1 /\ calls \in Nat
        /\ UNCHANGED <<enqueued, sent>>
        /\ cur' = [cur EXCEPT ![c] = [key |-> k, data |-> d, id |-> calls]]
        /\ pc' = [pc EXCEPT ![c] = "lowestSource"]
    BY <1>1, Zenon DEF Sign, TypeOK
  <2>2. \A r \in enqueued : r.id \in Nat
    BY DEF TypeOK, Records
  <2>3. \A o \in Callers : pc[o] # "idle" => cur[o].id \in Nat
    BY Zenon DEF TypeOK, Records
  <2>. QED  BY <2>1, <2>2, <2>3 DEF OrderInv, Queued, TypeOK
<1>2. CASE ~ \E c \in Callers, k \in Keys, d \in Data : Sign(c, k, d)
  <2>1. calls' = calls /\ \A c \in Callers : CallerMoves(c)
    BY <1>2, CallerSteps
  <2>2. CASE ~ \E c \in Callers : Enqueue(c) \/ Send(c)
    <3>1. UNCHANGED <<enqueued, sent>> /\ \A c \in Callers : Queued(c)' => Queued(c)
      BY <2>2, HistorySteps
    <3>. QED  BY <2>1, <3>1 DEF CallerMoves, OrderInv, Queued
  <2>3. ASSUME NEW c \in Callers, Enqueue(c)  PROVE OrderInv'
    <3>1. /\ enqueued' = enqueued \cup {cur[c]} /\ sent' = sent
          /\ pc[c] # "idle" /\ cur' = cur /\ pc' = [pc EXCEPT ![c] = "subscribe"]
      BY <2>3 DEF Enqueue, Step
    <3>2. \A o \in Callers : o # c /\ pc[o] # "idle" => cur[o].key # cur[c].key
      BY <3>1 DEF LockInv
    <3>3. \A r \in enqueued' : r.id < calls'
      BY <2>1, <3>1 DEF OrderInv
    <3>4. ASSUME NEW o \in Callers, pc'[o] # "idle"
          PROVE  /\ cur'[o].id < calls'
                 /\ \A r \in enqueued' :
                        r.key = cur'[o].key => r.id < cur'[o].id \/ r = cur'[o]
      BY <2>1, <3>1, <3>2, <3>4, Zenon DEF OrderInv, TypeOK
    <3>5. \A o \in Callers : Queued(o)' => cur'[o] \in enqueued'
      BY <3>1, Zenon DEF OrderInv, Queued, TypeOK
    <3>. QED  BY <3>1, <3>3, <3>4, <3>5, Zenon DEF OrderInv
  <2>4. ASSUME NEW c \in Callers, Send(c)  PROVE OrderInv'
    <3>1. /\ enqueued' = enqueued /\ sent' = sent \cup {cur[c]} /\ Queued(c)
          /\ pc' = [pc EXCEPT ![c] = "idle"]
          /\ cur' = [cur EXCEPT ![c] = NoRecord]
      BY <2>4 DEF Send, Step, Queued
    <3>2. sent' \subseteq enqueued'
      BY <3>1 DEF OrderInv
    <3>. QED  BY <2>1, <3>1, <3>2, Zenon DEF OrderInv, Queued, TypeOK
  <2>. QED  BY <2>2, <2>3, <2>4
<1>. QED  BY <1>1, <1>2

-------------------------------------------------------------------------------
(* The queue and the database *)

\* Positions in a concatenation and in an extended sequence.
LEMMA ConcatIndex ==
    ASSUME NEW S, NEW s \in Seq(S), NEW t \in Seq(S), NEW q, q = s \o t
    PROVE  /\ Len(s) \in Nat /\ Len(t) \in Nat
           /\ DOMAIN s = 1 .. Len(s) /\ DOMAIN t = 1 .. Len(t)
           /\ DOMAIN q = 1 .. Len(s) + Len(t)
           /\ \A i \in 1 .. Len(s) : q[i] = s[i]
           /\ \A i \in 1 .. Len(t) : t[i] = q[Len(s) + i]
<1>1. /\ Len(s) \in Nat /\ Len(t) \in Nat
      /\ DOMAIN s = 1 .. Len(s) /\ DOMAIN t = 1 .. Len(t)
  BY SeqLength
<1>2. /\ q \in Seq(S) /\ Len(q) = Len(s) + Len(t)
      /\ \A i \in 1 .. Len(s) + Len(t) :
             q[i] = IF i <= Len(s) THEN s[i] ELSE t[i - Len(s)]
  BY SeqConcat
<1>3. DOMAIN q = 1 .. Len(s) + Len(t)
  BY <1>2, SeqLength
<1>4. ASSUME NEW i \in 1 .. Len(t)  PROVE t[i] = q[Len(s) + i]
  <2>1. /\ Len(s) + i \in 1 .. Len(s) + Len(t) /\ ~(Len(s) + i <= Len(s))
        /\ (Len(s) + i) - Len(s) = i
    BY <1>1
  <2>. QED  BY <1>2, <2>1
<1>5. ASSUME NEW i \in 1 .. Len(s)  PROVE q[i] = s[i]
  <2>1. i \in 1 .. Len(s) + Len(t) /\ i <= Len(s)
    BY <1>1
  <2>. QED  BY <1>2, <2>1
<1>. QED  BY <1>1, <1>3, <1>4, <1>5

LEMMA AppendIndex ==
    ASSUME NEW S, NEW s \in Seq(S), NEW e \in S, NEW q, q = Append(s, e)
    PROVE  /\ Len(s) \in Nat /\ DOMAIN s = 1 .. Len(s)
           /\ DOMAIN q = 1 .. Len(s) + 1
           /\ \A i \in 1 .. Len(s) : q[i] = s[i]
           /\ q[Len(s) + 1] = e
           /\ \A i \in DOMAIN q : i = Len(s) + 1 \/ i \in DOMAIN s
<1>1. q \in Seq(S) /\ Len(q) = Len(s) + 1
  BY SeqAppend
<1>2. /\ Len(s) \in Nat /\ DOMAIN s = 1 .. Len(s)
      /\ DOMAIN q = 1 .. Len(s) + 1
  BY <1>1, SeqLength
<1>3. \A i \in 1 .. Len(s) + 1 : i = Len(s) + 1 \/ i \in 1 .. Len(s)
  BY <1>2
<1>. QED  BY <1>1, <1>2, <1>3, SeqAppend

\* Appending a record at the end of the queue.
LEMMA EnqueueQueue ==
    ASSUME TypeOK, BatchInv, NEW c \in Callers, Enqueue(c)
    PROVE  /\ cur[c] \in Records /\ Queue \in Seq(Records)
           /\ Queue' = Append(Queue, cur[c])
           /\ UNCHANGED <<dbVars, sent, early, pruned, cur>>
           /\ pc[c] = "enqueue" /\ pc' = [pc EXCEPT ![c] = "subscribe"]
<1>1. /\ cur[c] \in Records /\ chan' = Append(chan, cur[c])
      /\ UNCHANGED <<batch, flushing, phase>>
      /\ UNCHANGED <<dbVars, sent, early, pruned, cur>>
      /\ pc[c] = "enqueue" /\ pc' = [pc EXCEPT ![c] = "subscribe"]
  BY Zenon DEF Enqueue, Step, TypeOK
<1>2. Unsaved \in Seq(Records) /\ batch \in Seq(Records) /\ chan \in Seq(Records)
  BY SeqEmpty DEF TypeOK, Unsaved
<1>. DEFINE q == Unsaved \o batch
<1>3. q \in Seq(Records) /\ q' = q
  BY <1>1, <1>2, SeqConcat DEF Unsaved
<1>4. Queue = q \o chan /\ Queue' = q' \o chan'
  BY DEF Queue
<1>. HIDE DEF q
<1>5. q \o Append(chan, cur[c]) = Append(q \o chan, cur[c])
  BY <1>1, <1>2, <1>3, SeqAppendConcat, SeqConcat3, SeqConcat
<1>. QED  BY <1>1, <1>2, <1>3, <1>4, <1>5, SeqConcat

\* Writing the batch removes the front of the queue.
LEMMA SaveQueue ==
    ASSUME TypeOK, BatchInv, FlushSaved
    PROVE  /\ flushing \in Seq(Records) /\ chan \in Seq(Records)
           /\ Queue = flushing \o chan /\ Queue' = chan
           /\ SaveAttestationRecords(flushing)
           /\ UNCHANGED <<pc, cur, sent, early, pruned>>
<1>1. /\ phase = "save" /\ phase' # "save" /\ batch = <<>> /\ batch' = <<>>
      /\ chan' = chan /\ flushing \in Seq(Records) /\ chan \in Seq(Records)
      /\ SaveAttestationRecords(flushing)
      /\ UNCHANGED <<pc, cur, sent, early, pruned>>
  BY DEF FlushSaved, BatchInv, TypeOK, callerVars, histVars
<1>2. Queue = flushing \o chan
  BY <1>1, QueueShape DEF Shape
<1>3. Queue' = chan
  BY <1>1, SeqConcatEmpty DEF Queue, Unsaved
<1>. QED  BY <1>1, <1>2, <1>3

LEMMA SavePositions ==
    ASSUME TypeOK, BatchInv, FlushSaved
    PROVE  /\ Len(flushing) \in Nat /\ Len(chan) \in Nat
           /\ DOMAIN flushing = 1 .. Len(flushing)
           /\ DOMAIN Queue = 1 .. Len(flushing) + Len(chan)
           /\ DOMAIN Queue' = 1 .. Len(chan)
           /\ \A i \in DOMAIN flushing : i \in DOMAIN Queue /\ Queue[i] = flushing[i]
           /\ \A i \in DOMAIN Queue' : /\ Len(flushing) + i \in DOMAIN Queue
                                       /\ Queue'[i] = Queue[Len(flushing) + i]
<1>1. /\ flushing \in Seq(Records) /\ chan \in Seq(Records)
      /\ Queue = flushing \o chan /\ Queue' = chan
  BY SaveQueue
<1>2. /\ Len(flushing) \in Nat /\ Len(chan) \in Nat
      /\ DOMAIN flushing = 1 .. Len(flushing)
      /\ DOMAIN chan = 1 .. Len(chan)
      /\ DOMAIN Queue = 1 .. Len(flushing) + Len(chan)
      /\ \A i \in 1 .. Len(flushing) : Queue[i] = flushing[i]
      /\ \A i \in 1 .. Len(chan) : chan[i] = Queue[Len(flushing) + i]
  BY <1>1, ConcatIndex
<1>3. ASSUME NEW m \in Nat, NEW n \in Nat
      PROVE  /\ \A i \in 1 .. m : i \in 1 .. m + n
             /\ \A i \in 1 .. n : m + i \in 1 .. m + n
  OBVIOUS
<1>4. /\ \A i \in 1 .. Len(flushing) : i \in 1 .. Len(flushing) + Len(chan)
      /\ \A i \in 1 .. Len(chan) : Len(flushing) + i \in 1 .. Len(flushing) + Len(chan)
  BY <1>2, <1>3
<1>5. Queue' = chan
  BY <1>1
<1>. QED  BY <1>2, <1>4, <1>5, Zenon

\* A record that is stored or in the batch is stored after the write, if no
\* other record of the batch has the last word on its target epoch.
LEMMA SaveStored ==
    ASSUME TypeOK, NEW recs \in Seq(Records), SaveAttestationRecords(recs),
           NEW r \in Records,
           Stored(r) \/ \E j \in DOMAIN recs : recs[j] = r,
           \A i \in DOMAIN recs :
               (recs[i].key = r.key /\ recs[i].data.target = r.data.target) =>
                   \/ SigningRoot(recs[i].data) = SigningRoot(r.data)
                   \/ \E j \in DOMAIN recs : j > i /\ recs[j] = r
    PROVE  Stored(r)'
<1>. DEFINE k == r.key
            t == r.data.target
            at == {i \in DOMAIN recs : recs[i].key = k /\ recs[i].data.target = t}
<1>1. k \in Keys /\ r.data \in Data /\ t \in Epochs
  BY DataFacts, Zenon DEF Records
<1>2. DOMAIN recs = 1 .. Len(recs) /\ Len(recs) \in Nat
  BY SeqLength
<1>3. signingRoots'[k][t] = RootAfter(recs, k, t)
  BY <1>1, Zenon DEF SaveAttestationRecords
<1>4. RootAfter(recs, k, t) = SigningRoot(r.data)
  <2>1. CASE at = {}
    <3>1. Stored(r)
      BY <2>1
    <3>. QED  BY <2>1, <3>1, Zenon DEF RootAfter, Stored
  <2>2. CASE at # {}
    <3>1. at \in SUBSET (1 .. Len(recs))
      BY <1>2
    <3>. DEFINE m == MaxOf(at)
    <3>2. m \in at /\ \A y \in at : m >= y
      <4>1. at \in SUBSET (0 .. Len(recs))
        BY <1>2, <3>1
      <4>. HIDE DEF at
      <4>. QED  BY <1>2, <2>2, <4>1, MaxExists, Zenon
    <3>3. RootAfter(recs, k, t) = SigningRoot(recs[m].data)
      BY <2>2, Zenon DEF RootAfter
    <3>. HIDE DEF m
    <3>4. ~ \E j \in DOMAIN recs : j > m /\ recs[j] = r
      BY <1>2, <3>2
    <3>. QED  BY <3>2, <3>3, <3>4
  <2>. QED  BY <2>1, <2>2, Zenon
<1>5. Pair(r.data) \in sourceEpochs[k] \cup {Pair(d) : d \in RecsOf(recs, k)}
  BY DEF Stored, RecsOf
<1>6. Pair(r.data) \in targetEpochs[k] \cup {Pair(d) : d \in RecsOf(recs, k)}
  BY DEF Stored, RecsOf
<1>7. /\ sourceEpochs'[k] = sourceEpochs[k] \cup {Pair(d) : d \in RecsOf(recs, k)}
      /\ targetEpochs'[k] = targetEpochs[k] \cup {Pair(d) : d \in RecsOf(recs, k)}
  BY <1>1, Zenon DEF SaveAttestationRecords
<1>. QED  BY <1>3, <1>4, <1>5, <1>6, <1>7, Zenon DEF Stored

LEMMA OwnLastStep ==
    TypeOK /\ BatchInv /\ LockInv /\ OwnRecordLast /\ [Next]_vars => OwnRecordLast'
<1>. SUFFICES ASSUME TypeOK, BatchInv, LockInv, OwnRecordLast, [Next]_vars
              PROVE  OwnRecordLast'
  OBVIOUS
<1>1. ASSUME QueueQuiet, CallersQuiet  PROVE OwnRecordLast'
  BY <1>1 DEF QueueQuiet, CallersQuiet, OwnRecordLast, Queued
<1>2. ASSUME NEW c \in Callers, Enqueue(c)  PROVE OwnRecordLast'
  <2>1. /\ cur[c] \in Records /\ Queue \in Seq(Records)
        /\ Queue' = Append(Queue, cur[c])
        /\ cur' = cur
        /\ pc[c] = "enqueue" /\ pc' = [pc EXCEPT ![c] = "subscribe"]
    BY <1>2, EnqueueQueue
  <2>2. /\ Len(Queue) \in Nat /\ DOMAIN Queue = 1 .. Len(Queue)
        /\ DOMAIN Queue' = 1 .. Len(Queue) + 1
        /\ \A i \in 1 .. Len(Queue) : Queue'[i] = Queue[i]
        /\ Queue'[Len(Queue) + 1] = cur[c]
    BY <2>1, AppendIndex
  <2>3. ASSUME NEW o \in Callers, Queued(o)', NEW i \in DOMAIN Queue',
               Queue'[i].key = cur'[o].key
        PROVE  \E j \in DOMAIN Queue' : j >= i /\ Queue'[j] = cur'[o]
    <3>1. CASE o = c
      BY <2>1, <2>2, <3>1
    <3>2. CASE o # c
      <4>1. Queued(o) /\ cur[o].key # cur[c].key
        BY <2>1, <2>3, <3>2, Zenon DEF Queued, LockInv, TypeOK
      <4>2. i \in DOMAIN Queue /\ Queue[i].key = cur[o].key
        BY <2>1, <2>2, <2>3, <4>1
      <4>3. PICK j \in DOMAIN Queue : j >= i /\ Queue[j] = cur[o]
        BY <4>1, <4>2 DEF OwnRecordLast, Queued
      <4>. QED  BY <2>1, <2>2, <4>3
    <3>. QED  BY <3>1, <3>2
  <2>. QED  BY <2>3, Zenon DEF OwnRecordLast, Queued
<1>3. CASE FlushSaved
  <2>1. /\ flushing \in Seq(Records) /\ chan \in Seq(Records)
        /\ Queue = flushing \o chan /\ Queue' = chan
        /\ UNCHANGED <<pc, cur>>
    BY <1>3, SaveQueue
  <2>2. /\ Len(flushing) \in Nat /\ Len(chan) \in Nat
        /\ DOMAIN Queue = 1 .. Len(flushing) + Len(chan)
        /\ DOMAIN Queue' = 1 .. Len(chan)
        /\ \A i \in DOMAIN Queue' : /\ Len(flushing) + i \in DOMAIN Queue
                                    /\ Queue'[i] = Queue[Len(flushing) + i]
    BY <1>3, SavePositions, Zenon
  <2>3. ASSUME NEW o \in Callers, Queued(o), NEW i \in DOMAIN Queue',
               Queue'[i].key = cur[o].key
        PROVE  \E j \in DOMAIN Queue' : j >= i /\ Queue'[j] = cur[o]
    <3>1. Len(flushing) + i \in DOMAIN Queue
      BY <2>2
    <3>2. PICK j \in DOMAIN Queue : j >= Len(flushing) + i /\ Queue[j] = cur[o]
      BY <2>2, <2>3, <3>1, Zenon DEF OwnRecordLast, Queued
    <3>3. j - Len(flushing) \in DOMAIN Queue' /\ j - Len(flushing) >= i
          /\ Len(flushing) + (j - Len(flushing)) = j
      BY <2>2, <3>2
    <3>. QED  BY <2>2, <3>2, <3>3
  <2>. QED  BY <2>1, <2>3 DEF OwnRecordLast, Queued
<1>4. CASE Crash
  BY <1>4, Zenon DEF Crash, OwnRecordLast
<1>5. ASSUME NEW c \in Callers, Send(c)  PROVE QueueQuiet /\ CallersQuiet
  BY <1>5, Zenon DEF Send, Step, QueueQuiet, CallersQuiet, Queue, Unsaved, Queued,
              Checked, TypeOK, queueVars, dbVars
<1>. QED  BY <1>1, <1>2, <1>3, <1>4, <1>5, QuietSteps

LEMMA SendSteps ==
    ASSUME TypeOK, NEW c \in Callers, Send(c)
    PROVE  /\ QueueQuiet /\ CallersQuiet
           /\ Queued(c) /\ ~Queued(c)' /\ pc'[c] = "idle"
           /\ sent' = sent \cup {cur[c]}
           /\ early' = IF InQueue(cur[c]) THEN early \cup {cur[c]} ELSE early
BY Zenon DEF Send, Step, QueueQuiet, CallersQuiet, Queue, Unsaved, Queued,
       Checked, TypeOK, queueVars, dbVars

LEMMA OwnStoredStep ==
    IInv /\ [Next]_vars => OwnStored'
<1>. SUFFICES ASSUME IInv, [Next]_vars  PROVE OwnStored'
  OBVIOUS
<1>. USE DEF IInv
<1>1. ASSUME QueueQuiet, CallersQuiet  PROVE OwnStored'
  BY <1>1, Zenon DEF QueueQuiet, CallersQuiet, OwnStored, InQueue, Stored, dbVars
<1>2. ASSUME NEW c \in Callers, Enqueue(c)  PROVE OwnStored'
  <2>1. /\ cur[c] \in Records /\ Queue \in Seq(Records)
        /\ Queue' = Append(Queue, cur[c])
        /\ cur' = cur /\ UNCHANGED dbVars
        /\ pc[c] = "enqueue" /\ pc' = [pc EXCEPT ![c] = "subscribe"]
    BY <1>2, EnqueueQueue
  <2>2. /\ Len(Queue) \in Nat /\ DOMAIN Queue = 1 .. Len(Queue)
        /\ DOMAIN Queue' = 1 .. Len(Queue) + 1
        /\ \A i \in 1 .. Len(Queue) : Queue'[i] = Queue[i]
        /\ Queue'[Len(Queue) + 1] = cur[c]
    BY <2>1, AppendIndex
  <2>3. InQueue(cur[c])' /\ \A r : InQueue(r) => InQueue(r)'
    BY <2>1, <2>2 DEF InQueue
  <2>4. \A o \in Callers : Queued(o)' => o = c \/ Queued(o)
    BY <2>1, Zenon DEF Queued, TypeOK
  <2>5. \A r : Stored(r) => Stored(r)'
    BY <2>1, Zenon DEF Stored, dbVars
  <2>. QED  BY <2>1, <2>3, <2>4, <2>5 DEF OwnStored
<1>3. CASE FlushSaved
  <2>1. /\ flushing \in Seq(Records) /\ chan \in Seq(Records)
        /\ Queue = flushing \o chan /\ Queue' = chan
        /\ UNCHANGED <<pc, cur>> /\ SaveAttestationRecords(flushing)
    BY <1>3, SaveQueue
  <2>2. /\ Len(flushing) \in Nat /\ Len(chan) \in Nat
        /\ DOMAIN flushing = 1 .. Len(flushing)
        /\ DOMAIN Queue = 1 .. Len(flushing) + Len(chan)
        /\ DOMAIN Queue' = 1 .. Len(chan)
        /\ \A i \in DOMAIN flushing : i \in DOMAIN Queue /\ Queue[i] = flushing[i]
        /\ \A i \in DOMAIN Queue' : /\ Len(flushing) + i \in DOMAIN Queue
                                    /\ Queue'[i] = Queue[Len(flushing) + i]
    BY <1>3, SavePositions
  <2>3. ASSUME NEW o \in Callers, Queued(o), ~InQueue(cur[o])'
        PROVE  Stored(cur[o])'
    <3>1. cur[o] \in Records
      BY <2>3 DEF Queued, TypeOK
    <3>2. ASSUME NEW j \in DOMAIN Queue, Queue[j] = cur[o]
          PROVE  j \in DOMAIN flushing /\ flushing[j] = cur[o]
      <4>1. CASE j > Len(flushing)
        <5>1. j - Len(flushing) \in 1 .. Len(chan)
              /\ Len(flushing) + (j - Len(flushing)) = j
          BY <2>2, <4>1
        <5>2. Queue'[j - Len(flushing)] = cur'[o]
          BY <2>1, <2>2, <3>2, <5>1, Zenon
        <5>. QED  BY <2>1, <2>2, <2>3, <5>1, <5>2, Zenon DEF InQueue
      <4>2. CASE j <= Len(flushing)
        <5>1. j \in Nat /\ j >= 1
          BY <2>2
        <5>2. j \in DOMAIN flushing
          BY <2>2, <4>2, <5>1
        <5>3. Queue[j] = flushing[j]
          BY <2>2, <5>2, Zenon
        <5>. QED  BY <3>2, <5>2, <5>3, Zenon
      <4>. QED  BY <2>2, <4>1, <4>2
    <3>3. Stored(cur[o]) \/ \E j \in DOMAIN flushing : flushing[j] = cur[o]
      BY <2>3, <3>2 DEF OwnStored, InQueue
    <3>4. ASSUME NEW i \in DOMAIN flushing, flushing[i].key = cur[o].key
          PROVE  \/ SigningRoot(flushing[i].data) = SigningRoot(cur[o].data)
                 \/ \E j \in DOMAIN flushing : j > i /\ flushing[j] = cur[o]
      <4>1. i \in DOMAIN Queue /\ Queue[i].key = cur[o].key
        BY <2>2, <3>4
      <4>2. PICK j \in DOMAIN Queue : j >= i /\ Queue[j] = cur[o]
        BY <2>3, <4>1 DEF OwnRecordLast, Queued
      <4>3. j \in DOMAIN flushing /\ flushing[j] = cur[o]
        BY <3>2, <4>2
      <4>. QED  BY <2>2, <4>2, <4>3
    <3>. QED  BY <2>1, <3>1, <3>3, <3>4, SaveStored, Zenon
  <2>. QED  BY <2>1, <2>3, Zenon DEF OwnStored, Queued
<1>4. CASE Crash
  BY <1>4, Zenon DEF Crash, OwnStored, Queued
<1>. QED  BY <1>1, <1>2, <1>3, <1>4, SendSteps, QuietSteps

\* A stored attestation makes CheckSlashableAttestation reject every other one
\* that conflicts with it.
LEMMA CheckIsSound ==
    ASSUME TypeOK, NEW a \in Records, Stored(a), NEW d \in Data,
           CheckSlashableAttestation(a.key, d)
    PROVE  ~Slashable(a.data, d)
<1>1. a.key \in Keys /\ a.data \in Data
  BY DEF Records
<1>2. SigningRoot(a.data) # NoRoot
  BY <1>1, DataFacts DEF AllRoots
<1>3. a.data.target = d.target => SigningRoot(a.data) = SigningRoot(d)
  BY <1>2, Zenon DEF Stored, CheckSlashableAttestation, SigningRootsDiffer
<1>4. /\ a.data.source \in Nat /\ a.data.target \in Nat
      /\ d.source \in Nat /\ d.target \in Nat
  BY <1>1, DataFacts
<1>5. ~IsSurround(Pair(d), Pair(a.data))
  BY <1>4, Zenon DEF Stored, CheckSlashableAttestation, IsSurround, Pair
<1>6. ~IsSurround(Pair(a.data), Pair(d))
  BY <1>4, Zenon DEF Stored, CheckSlashableAttestation, IsSurround, Pair
<1>. QED  BY <1>3, <1>5, <1>6 DEF Slashable

LEMMA SentStep == IInv /\ [Next]_vars => SentInv'
<1>. SUFFICES ASSUME IInv, [Next]_vars  PROVE SentInv'
  OBVIOUS
<1>. USE DEF IInv
<1>1. ASSUME QueueQuiet, CallersQuiet, NEW a \in sent, Guarded(a)
      PROVE  Guarded(a)'
  <2>1. Stored(a)' /\ Queue' = Queue
    BY <1>1, Zenon DEF QueueQuiet, Guarded, Stored, dbVars
  <2>2. ASSUME NEW c \in Callers, Checked(c)', cur'[c].key = a.key
        PROVE  ~Slashable(a.data, cur'[c].data)
    <3>1. cur'[c] = cur[c] /\ pc[c] # "idle"
          /\ (Checked(c) \/ CheckSlashableAttestation(cur[c].key, cur[c].data))
      BY <1>1, <2>2, Zenon DEF CallersQuiet
    <3>2. CASE Checked(c)
      BY <1>1, <2>2, <3>1, <3>2, Zenon DEF Guarded
    <3>3. CASE CheckSlashableAttestation(cur[c].key, cur[c].data)
      <4>1. a \in Records /\ cur[c].data \in Data
        BY <3>1, Zenon DEF TypeOK, Records
      <4>. QED  BY <1>1, <2>2, <3>1, <3>3, <4>1, CheckIsSound, Zenon DEF Guarded
    <3>. QED  BY <3>1, <3>2, <3>3, Zenon
  <2>. QED  BY <1>1, <2>1, <2>2, Zenon DEF Guarded
<1>2. ASSUME QueueQuiet, CallersQuiet, UNCHANGED <<sent, early>>
      PROVE  SentInv'
  BY <1>1, <1>2 DEF SentInv, QueueQuiet
<1>3. ASSUME NEW c \in Callers, Send(c)  PROVE SentInv'
  <2>1. /\ QueueQuiet /\ CallersQuiet /\ Queued(c) /\ pc'[c] = "idle"
        /\ sent' = sent \cup {cur[c]}
        /\ early' = IF InQueue(cur[c]) THEN early \cup {cur[c]} ELSE early
        /\ pruned' = pruned
    BY <1>3, SendSteps, Zenon DEF QueueQuiet
  <2>2. ASSUME NEW a \in sent, a \notin early' \cup pruned'  PROVE Guarded(a)'
    BY <1>1, <2>1, <2>2, Zenon DEF SentInv
  <2>4. PICK r \in Records : r = cur[c]
    BY <2>1, Zenon DEF TypeOK, Queued
  <2>3. ASSUME r \notin early'  PROVE Guarded(r)'
    <3>1. ~InQueue(r)
      BY <2>1, <2>3, <2>4
    <3>2. Stored(r)'
      <4>1. Stored(r)
        BY <2>1, <2>4, <3>1, Zenon DEF OwnStored
      <4>. QED  BY <2>1, <4>1, Zenon DEF QueueQuiet, Stored, dbVars
    <3>3. \A i \in DOMAIN Queue : Queue[i].key # r.key
      BY <2>1, <2>4, <3>1, Zenon DEF OwnRecordLast, InQueue, Queued
    <3>4. ASSUME NEW o \in Callers, Checked(o)'  PROVE cur'[o].key # r.key
      <4>1. o # c /\ cur'[o] = cur[o] /\ pc[o] # "idle" /\ pc[c] # "idle"
        BY <2>1, <3>4, Zenon DEF CallersQuiet, Checked, Queued
      <4>. QED  BY <2>4, <4>1, Zenon DEF LockInv
    <3>5. Queue' = Queue
      BY <2>1, Zenon DEF QueueQuiet
    <3>. QED  BY <3>2, <3>3, <3>4, <3>5, Zenon DEF Guarded
  <2>. QED  BY <2>1, <2>2, <2>3, <2>4, Zenon DEF SentInv
<1>4. ASSUME NEW c \in Callers, Enqueue(c)  PROVE SentInv'
  <2>1. /\ cur[c] \in Records /\ Queue \in Seq(Records)
        /\ Queue' = Append(Queue, cur[c])
        /\ UNCHANGED <<dbVars, sent, early, pruned, cur>>
        /\ pc[c] = "enqueue" /\ pc' = [pc EXCEPT ![c] = "subscribe"]
    BY <1>4, EnqueueQueue
  <2>2. /\ Len(Queue) \in Nat /\ DOMAIN Queue = 1 .. Len(Queue)
        /\ DOMAIN Queue' = 1 .. Len(Queue) + 1
        /\ \A i \in 1 .. Len(Queue) : Queue'[i] = Queue[i]
        /\ Queue'[Len(Queue) + 1] = cur[c]
        /\ \A i \in DOMAIN Queue' : i = Len(Queue) + 1 \/ i \in DOMAIN Queue
    BY <2>1, AppendIndex
  <2>3. ASSUME NEW a \in sent, Guarded(a)  PROVE Guarded(a)'
    <3>1. Stored(a)'
      BY <2>1, <2>3, Zenon DEF Guarded, Stored, dbVars
    <3>2. ASSUME NEW i \in DOMAIN Queue', Queue'[i].key = a.key
          PROVE  ~Slashable(a.data, Queue'[i].data)
      <4>1. CASE i = Len(Queue) + 1
        BY <2>1, <2>2, <2>3, <3>2, <4>1, Zenon DEF Guarded, Checked
      <4>2. CASE i \in DOMAIN Queue
        BY <2>2, <2>3, <3>2, <4>2, Zenon DEF Guarded
      <4>. QED  BY <2>2, <4>1, <4>2, Zenon
    <3>3. \A o \in Callers : Checked(o)' => Checked(o)
      BY <2>1, Zenon DEF Checked, Queued, TypeOK
    <3>. QED  BY <2>1, <2>3, <3>1, <3>2, <3>3, Zenon DEF Guarded
  <2>. QED  BY <2>1, <2>3 DEF SentInv
<1>5. CASE FlushSaved
  <2>1. /\ flushing \in Seq(Records) /\ chan \in Seq(Records)
        /\ Queue = flushing \o chan /\ Queue' = chan
        /\ UNCHANGED <<pc, cur, sent, early, pruned>>
        /\ SaveAttestationRecords(flushing)
    BY <1>5, SaveQueue
  <2>2. /\ Len(flushing) \in Nat /\ Len(chan) \in Nat
        /\ DOMAIN flushing = 1 .. Len(flushing)
        /\ DOMAIN Queue = 1 .. Len(flushing) + Len(chan)
        /\ DOMAIN Queue' = 1 .. Len(chan)
        /\ \A i \in DOMAIN flushing : i \in DOMAIN Queue /\ Queue[i] = flushing[i]
        /\ \A i \in DOMAIN Queue' : /\ Len(flushing) + i \in DOMAIN Queue
                                    /\ Queue'[i] = Queue[Len(flushing) + i]
    BY <1>5, SavePositions
  <2>3. ASSUME NEW a \in sent, Guarded(a)  PROVE Guarded(a)'
    <3>1. Stored(a) /\ a \in Records
      BY <2>3, Zenon DEF Guarded, TypeOK
    <3>2. ASSUME NEW i \in DOMAIN flushing, flushing[i].key = a.key,
                 flushing[i].data.target = a.data.target
          PROVE  SigningRoot(flushing[i].data) = SigningRoot(a.data)
      <4>1. i \in DOMAIN Queue /\ Queue[i] = flushing[i]
        BY <2>2
      <4>2. ~Slashable(a.data, flushing[i].data)
        BY <2>3, <3>2, <4>1, Zenon DEF Guarded
      <4>. QED  BY <3>2, <4>2, Zenon DEF Slashable
    <3>3. Stored(a)'
      BY <2>1, <3>1, <3>2, SaveStored
    <3>. QED  BY <2>1, <2>2, <2>3, <3>3, Zenon DEF Guarded, Checked, Queued
  <2>. QED  BY <2>1, <2>3 DEF SentInv
<1>6. CASE Crash
  <2>1. /\ Queue' = <<>> /\ \A c \in Callers : pc'[c] = "idle"
        /\ UNCHANGED <<sent, early>>
    BY <1>6, SeqConcatEmpty DEF Crash, Queue, Unsaved
  <2>2. ASSUME NEW a \in sent, a \notin early' \cup pruned'  PROVE Stored(a)'
    <3>1. CASE PruneEnabled
      <4>1. pruned' = pruned \cup {r \in sent : Stored(r) /\ ~Stored(r)'}
        BY <1>6, <3>1 DEF Crash
      <4>. QED  BY <2>1, <2>2, <4>1, Zenon DEF SentInv, Guarded
    <3>2. CASE ~PruneEnabled
      <4>1. UNCHANGED <<dbVars, pruned>>
        BY <1>6, <3>2 DEF Crash
      <4>2. Stored(a)
        BY <2>1, <2>2, <4>1, Zenon DEF SentInv, Guarded
      <4>. QED  BY <4>1, <4>2, Zenon DEF Stored, dbVars
    <3>. QED  BY <3>1, <3>2
  <2>3. DOMAIN Queue' = {}
    BY <2>1
  <2>4. \A c \in Callers : ~Checked(c)'
    BY <2>1 DEF Checked, Queued
  <2>5. \A a \in sent : a \notin early' \cup pruned' => Guarded(a)'
    BY <2>2, <2>3, <2>4, Zenon DEF Guarded
  <2>. QED  BY <2>1, <2>5 DEF SentInv
<1>. QED  BY <1>2, <1>3, <1>4, <1>5, <1>6, QuietSteps

LEMMA NoSlashableStep == IInv /\ [Next]_vars => NoSlashableSent'
<1>. SUFFICES ASSUME IInv, [Next]_vars  PROVE NoSlashableSent'
  OBVIOUS
<1>. USE DEF IInv
<1>1. ASSUME NEW c \in Callers, Send(c)  PROVE NoSlashableSent'
  <2>1. /\ Queued(c) /\ sent' = sent \cup {cur[c]}
        /\ early \subseteq early' /\ pruned' = pruned
    BY <1>1, SendSteps, Zenon DEF QueueQuiet
  <2>2. cur[c] \in Records
    BY <2>1, Zenon DEF Queued, TypeOK
  <2>3. ASSUME NEW a \in sent, a.key = cur[c].key, a \notin early \cup pruned
        PROVE  ~Slashable(a.data, cur[c].data)
    BY <2>1, <2>3, Zenon DEF SentInv, Guarded, Checked
  <2>4. ASSUME NEW b \in sent, b.key = cur[c].key  PROVE ~(cur[c].id < b.id)
    <3>1. b \in enqueued /\ b \in Records
      BY Zenon DEF OrderInv, TypeOK
    <3>2. b.id < cur[c].id \/ b = cur[c]
      BY <2>1, <2>4, <3>1, Zenon DEF OrderInv, Queued
    <3>. QED  BY <2>2, <3>1, <3>2 DEF Records
  <2>5. ~(cur[c].id < cur[c].id)
    BY <2>2 DEF Records
  <2>. QED  BY <2>1, <2>3, <2>4, <2>5, Zenon DEF NoSlashableSent
<1>2. CASE ~ \E c \in Callers : Send(c)
  <2>1. UNCHANGED <<sent, early>>
    BY <1>2, HistorySteps
  <2>2. pruned \subseteq pruned'
    <3>1. CASE Crash
      BY <3>1 DEF Crash
    <3>2. CASE FlushSaved
      BY <3>2, SaveQueue
    <3>3. CASE \E c \in Callers : Enqueue(c)
      BY <3>3, EnqueueQueue
    <3>. QED  BY <1>2, <3>1, <3>2, <3>3, QuietSteps DEF QueueQuiet
  <2>. QED  BY <2>1, <2>2 DEF NoSlashableSent
<1>. QED  BY <1>1, <1>2

\* The inductive invariant holds initially and is kept by every step.
LEMMA InvInit == Init => IInv
<1>. SUFFICES ASSUME Init  PROVE IInv
  OBVIOUS
<1>1. Queue = <<>>
  BY SeqConcatEmpty DEF Init, Queue, Unsaved
<1>. QED  BY <1>1, TypeInit, Zenon DEF Init, IInv, LockInv, OrderInv, BatchInv, OwnRecordLast, OwnStored, SentInv,
      NoSlashableSent, Queued

LEMMA InvStep == IInv /\ [Next]_vars => IInv'
BY TypeStep, LockStep, OrderStep, BatchStep, OwnLastStep, OwnStoredStep, SentStep,
   NoSlashableStep DEF IInv

\* The inductive invariant holds in every reachable state.
THEOREM Invariance == Spec => []IInv
BY InvInit, InvStep, PTL DEF Spec

\* No two attestations of a key sent to the beacon node are slashable together
\* (but for early and pruned ones), for any set of keys, callers and attestation
\* data, and any number of calls, failed transactions and crashes.
THEOREM NeverSlashable == Spec => []NoSlashableSent
<1>1. IInv => NoSlashableSent
  BY DEF IInv
<1>. QED  BY <1>1, Invariance, PTL

\* Within a key, records reach the database in the order they were queued.
THEOREM QueueIsFIFO == Spec => []OwnRecordLast
<1>1. IInv => OwnRecordLast
  BY DEF IInv
<1>. QED  BY <1>1, Invariance, PTL
-------------------------------------------------------------------------------
(* Pruning and growing targets *)

\* The source bucket holds what was queued, and for every attestation sent an
\* entry with a source that is not lower: pruning keeps the highest.
SourcesInv ==
    /\ \E m \in Nat : \A r \in enqueued : r.data.source <= m
    /\ \A k \in Keys : \A p \in sourceEpochs[k] :
           \E r \in enqueued : r.key = k /\ p = Pair(r.data)
    /\ \A i \in DOMAIN Queue : Queue[i] \in enqueued
    /\ \A a \in sent \ early : \E p \in sourceEpochs[a.key] : p[1] >= a.data.source

\* The target of b is above all earlier ones of its key.
TargetGrows(b) ==
    \A r \in enqueued : r.key = b.key /\ r.id < b.id => r.data.target < b.data.target

\* Then its source is not below an earlier one.
SourceGrows(b) ==
    TargetGrows(b) => \A a \in sent \ early :
        a.key = b.key /\ a.id < b.id => a.data.source <= b.data.source

GrowInv ==
    /\ \A c \in Callers : Checked(c) => SourceGrows(cur[c])
    /\ \A b \in sent : SourceGrows(b)

\* Pruning a bucket keeps its highest source epoch.
LEMMA PruneKeepsHighest ==
    ASSUME NEW S \in SUBSET (Nat \X Nat), NEW m \in Nat, \A p \in S : p[1] <= m,
           NEW q \in S
    PROVE  \E p \in {s \in S : s[1] >= Cutoff({t[1] : t \in S})} : p[1] >= q[1]
<1>. DEFINE E == {t[1] : t \in S}
<1>1. E \in SUBSET (0 .. m) /\ E # {} /\ q[1] \in E
  OBVIOUS
<1>2. PICK p \in S : p[1] = MaxOf(E) /\ \A y \in E : MaxOf(E) >= y
  <2>1. MaxOf(E) \in E /\ \A y \in E : MaxOf(E) >= y
    <3>. HIDE DEF E
    <3>. QED  BY <1>1, MaxExists, Zenon
  <2>. QED  BY <2>1, Zenon
<1>3. Cutoff(E) <= p[1]
  <2>. HIDE DEF E
  <2>. QED  BY <1>2, BoundAssumption DEF Cutoff
<1>4. p \in {s \in S : s[1] >= Cutoff(E)}
  <2>1. Cutoff(E) \in Int /\ p[1] \in Int
    <3>. HIDE DEF E
    <3>. QED  BY <1>2, BoundAssumption DEF Cutoff
  <2>. QED  BY <1>3, <2>1
<1>. QED  BY <1>1, <1>2, <1>4, Zenon

\* Every step keeps the source bucket as SourcesInv says.
LEMMA SourcesStep == IInv /\ SourcesInv /\ [Next]_vars => SourcesInv'
<1>. SUFFICES ASSUME IInv, SourcesInv, [Next]_vars  PROVE SourcesInv'
  OBVIOUS
<1>. USE DEF IInv
<1>0. TypeOK'
  BY TypeStep
<1>1. ASSUME QueueQuiet, UNCHANGED <<sent, early>>  PROVE SourcesInv'
  BY <1>1, Zenon DEF QueueQuiet, SourcesInv, dbVars
<1>2. ASSUME NEW c \in Callers, Send(c)  PROVE SourcesInv'
  <2>1. /\ QueueQuiet /\ Queued(c) /\ sent' = sent \cup {cur[c]}
        /\ early' = IF InQueue(cur[c]) THEN early \cup {cur[c]} ELSE early
    BY <1>2, SendSteps, Zenon
  <2>2. cur[c] \in Records
    BY <2>1, Zenon DEF TypeOK, Queued
  <2>3. ASSUME cur[c] \notin early'
        PROVE  \E p \in sourceEpochs[cur[c].key] : p[1] >= cur[c].data.source
    <3>1. Stored(cur[c])
      BY <2>1, <2>3 DEF OwnStored
    <3>2. Pair(cur[c].data)[1] = cur[c].data.source /\ cur[c].data.source \in Nat
      BY <2>2, DataFacts, Zenon DEF Pair, Records
    <3>3. Pair(cur[c].data) \in sourceEpochs[cur[c].key]
      BY <3>1, Zenon DEF Stored
    <3>4. Pair(cur[c].data)[1] >= cur[c].data.source
      BY <3>2
    <3>. QED  BY <3>3, <3>4, Zenon
  <2>. QED  BY <2>1, <2>3, Zenon DEF QueueQuiet, SourcesInv, dbVars
<1>3. ASSUME NEW c \in Callers, Enqueue(c)  PROVE SourcesInv'
  <2>1. /\ cur[c] \in Records /\ Queue \in Seq(Records)
        /\ Queue' = Append(Queue, cur[c])
        /\ UNCHANGED <<dbVars, sent, early>>
    BY <1>3, EnqueueQueue
  <2>2. enqueued' = enqueued \cup {cur[c]}
    BY <1>3 DEF Enqueue
  <2>3. \A i \in DOMAIN Queue' : Queue'[i] = cur[c] \/ (i \in DOMAIN Queue /\ Queue'[i] = Queue[i])
    <3>1. /\ DOMAIN Queue = 1 .. Len(Queue)
          /\ \A i \in 1 .. Len(Queue) : Queue'[i] = Queue[i]
          /\ Queue'[Len(Queue) + 1] = cur[c]
          /\ \A i \in DOMAIN Queue' : i = Len(Queue) + 1 \/ i \in DOMAIN Queue
      BY <2>1, AppendIndex
    <3>. QED  BY <3>1, Zenon
  <2>4. \A i \in DOMAIN Queue' : Queue'[i] \in enqueued'
    BY <2>2, <2>3, Zenon DEF SourcesInv
  <2>5. \E m \in Nat : \A r \in enqueued' : r.data.source <= m
    <3>1. PICK m \in Nat : \A r \in enqueued : r.data.source <= m
      BY DEF SourcesInv
    <3>2. cur[c].data.source \in Nat /\ \A r \in enqueued : r.data.source \in Nat
      BY <2>1, DataFacts, Zenon DEF Records, TypeOK
    <3>3. m + cur[c].data.source \in Nat
          /\ \A r \in enqueued' : r.data.source <= m + cur[c].data.source
      BY <2>2, <3>1, <3>2
    <3>. QED  BY <3>3
  <2>6. \A k \in Keys : \A p \in sourceEpochs'[k] :
            \E r \in enqueued' : r.key = k /\ p = Pair(r.data)
    <3>1. sourceEpochs' = sourceEpochs /\ \A r \in enqueued : r \in enqueued'
      BY <2>1, <2>2, Zenon DEF dbVars
    <3>. QED  BY <3>1, Zenon DEF SourcesInv
  <2>7. \A a \in sent' \ early' : \E p \in sourceEpochs'[a.key] : p[1] >= a.data.source
    BY <2>1, Zenon DEF SourcesInv, dbVars
  <2>. QED  BY <2>4, <2>5, <2>6, <2>7, Zenon DEF SourcesInv
<1>4. CASE FlushSaved
  <2>1. /\ flushing \in Seq(Records) /\ SaveAttestationRecords(flushing)
        /\ UNCHANGED <<sent, early>>
    BY <1>4, SaveQueue
  <2>2. /\ \A i \in DOMAIN flushing : i \in DOMAIN Queue /\ Queue[i] = flushing[i]
        /\ \A i \in DOMAIN Queue' : \E j \in DOMAIN Queue : Queue'[i] = Queue[j]
    BY <1>4, SavePositions, Zenon
  <2>3. enqueued' = enqueued
    BY <1>4 DEF FlushSaved, histVars
  <2>4. \A k \in Keys : sourceEpochs'[k] =
            sourceEpochs[k] \cup {Pair(d) : d \in RecsOf(flushing, k)}
    BY <2>1, Zenon DEF SaveAttestationRecords
  <2>5. ASSUME NEW k \in Keys, NEW d \in RecsOf(flushing, k)
        PROVE  \E r \in enqueued : r.key = k /\ Pair(d) = Pair(r.data)
    BY <2>2, Zenon DEF RecsOf, SourcesInv
  <2>6. \A k \in Keys : \A p \in sourceEpochs'[k] :
            \E r \in enqueued : r.key = k /\ p = Pair(r.data)
    <3>. SUFFICES ASSUME NEW k \in Keys, NEW p \in sourceEpochs'[k]
                  PROVE  \E r \in enqueued : r.key = k /\ p = Pair(r.data)
      OBVIOUS
    <3>1. p \in sourceEpochs[k] \/ \E d \in RecsOf(flushing, k) : p = Pair(d)
      BY <2>4
    <3>2. CASE p \in sourceEpochs[k]
      BY <3>2, Zenon DEF SourcesInv
    <3>3. CASE \E d \in RecsOf(flushing, k) : p = Pair(d)
      <4>1. PICK d \in RecsOf(flushing, k) : p = Pair(d)
        BY <3>3
      <4>2. PICK r \in enqueued : r.key = k /\ Pair(d) = Pair(r.data)
        BY <2>5
      <4>. QED  BY <4>1, <4>2, Zenon
    <3>. QED  BY <3>1, <3>2, <3>3, Zenon
  <2>7. \A a \in sent : a.key \in Keys
    BY Zenon DEF TypeOK, Records
  <2>8. \A i \in DOMAIN Queue' : Queue'[i] \in enqueued
    BY <2>2, Zenon DEF SourcesInv
  <2>9. \A a \in sent \ early : \E p \in sourceEpochs'[a.key] : p[1] >= a.data.source
    <3>1. \A k \in Keys : sourceEpochs[k] \subseteq sourceEpochs'[k]
      BY <2>4
    <3>. QED  BY <2>7, <3>1, Zenon DEF SourcesInv
  <2>. QED  BY <2>1, <2>3, <2>6, <2>8, <2>9, Zenon DEF SourcesInv
<1>5. CASE Crash
  <2>1. Queue' = <<>> /\ UNCHANGED <<sent, early, enqueued>>
    BY <1>5, SeqConcatEmpty DEF Crash, Queue, Unsaved
  <2>2. CASE ~PruneEnabled
    <3>1. UNCHANGED sourceEpochs /\ DOMAIN Queue' = {}
      BY <1>5, <2>1, <2>2 DEF Crash, dbVars
    <3>. QED  BY <2>1, <3>1, Zenon DEF SourcesInv
  <2>3. CASE PruneEnabled
    <3>1. \A k \in Keys : sourceEpochs'[k] =
             {p \in sourceEpochs[k] : p[1] >= Cutoff({q[1] : q \in sourceEpochs[k]})}
      BY <1>5, <2>3, Zenon DEF Crash, PruneAttestations
    <3>2. \A a \in sent : a.key \in Keys
      BY Zenon DEF TypeOK, Records
    <3>3. PICK m \in Nat : \A r \in enqueued : r.data.source <= m
      BY DEF SourcesInv
    <3>4. ASSUME NEW k \in Keys
          PROVE  /\ sourceEpochs[k] \in SUBSET (Nat \X Nat)
                 /\ \A p \in sourceEpochs[k] : p[1] <= m
      <4>1. sourceEpochs[k] \in SUBSET (Nat \X Nat)
        <5>1. sourceEpochs[k] \in SUBSET (Epochs \X Epochs)
          BY Zenon DEF TypeOK
        <5>. QED  BY <5>1, DataFacts
      <4>2. ASSUME NEW p \in sourceEpochs[k]  PROVE p[1] <= m
        <5>1. PICK r \in enqueued : r.key = k /\ p = Pair(r.data)
          BY Zenon DEF SourcesInv
        <5>2. p[1] = r.data.source
          BY <5>1 DEF Pair
        <5>. QED  BY <3>3, <5>2
      <4>. QED  BY <4>1, <4>2
    <3>5. ASSUME NEW a \in sent \ early
          PROVE  \E p \in sourceEpochs'[a.key] : p[1] >= a.data.source
      <4>1. PICK q \in sourceEpochs[a.key] : q[1] >= a.data.source
        BY Zenon DEF SourcesInv
      <4>2. PICK p \in sourceEpochs'[a.key] : p[1] >= q[1]
        BY <3>1, <3>2, <3>4, PruneKeepsHighest, Zenon
      <4>3. p[1] \in Nat /\ q[1] \in Nat /\ a.data.source \in Nat
        <5>1. a.data.source \in Nat
          BY DataFacts, Zenon DEF TypeOK, Records
        <5>2. a.key \in Keys /\ p \in sourceEpochs[a.key] /\ q \in sourceEpochs[a.key]
          BY <3>1, <3>2, Zenon
        <5>3. sourceEpochs[a.key] \in SUBSET (Nat \X Nat)
          BY <3>4, <5>2
        <5>. QED  BY <5>1, <5>2, <5>3, Zenon
      <4>. QED  BY <4>1, <4>2, <4>3
    <3>6. \A k \in Keys : sourceEpochs'[k] \subseteq sourceEpochs[k]
      BY <3>1
    <3>7. \A k \in Keys : \A p \in sourceEpochs'[k] :
              \E r \in enqueued : r.key = k /\ p = Pair(r.data)
      BY <3>6, Zenon DEF SourcesInv
    <3>8. DOMAIN Queue' = {}
      BY <2>1
    <3>. QED  BY <2>1, <3>3, <3>5, <3>7, <3>8, Zenon DEF SourcesInv
  <2>. QED  BY <2>2, <2>3
<1>. QED  BY <1>1, <1>2, <1>3, <1>4, <1>5, QuietSteps

\* The arithmetic of a vote with source s and target t that does not surround one
\* with source p and target q.
LEMMA NotSurrounded ==
    ASSUME NEW a \in Nat, NEW p \in Nat, NEW q \in Nat, NEW s \in Nat, NEW t \in Nat,
           p >= a, ~(s < p /\ q < t), p = s \/ q < t
    PROVE  a <= s
OBVIOUS

\* Every step keeps the sources of growing targets from falling.
LEMMA GrowStep == IInv /\ SourcesInv /\ GrowInv /\ [Next]_vars => GrowInv'
<1>. SUFFICES ASSUME IInv, SourcesInv, GrowInv, [Next]_vars  PROVE GrowInv'
  OBVIOUS
<1>. USE DEF IInv
\* An attestation that passes the check and whose target grows has a source not
\* below the highest of the bucket.
<1>1. ASSUME NEW c \in Callers, pc[c] # "idle", ~Queued(c),
             CheckSlashableAttestation(cur[c].key, cur[c].data)
      PROVE  SourceGrows(cur[c])
  <2>1. cur[c] \in Records
    BY <1>1, Zenon DEF TypeOK
  <2>. SUFFICES ASSUME TargetGrows(cur[c]), NEW a \in sent \ early,
                       a.key = cur[c].key, a.id < cur[c].id
                PROVE  a.data.source <= cur[c].data.source
    BY Zenon DEF SourceGrows
  <2>2. PICK p \in sourceEpochs[cur[c].key] : p[1] >= a.data.source
    BY Zenon DEF SourcesInv
  <2>3. PICK r \in enqueued : r.key = cur[c].key /\ p = Pair(r.data)
    BY <2>1, Zenon DEF SourcesInv, Records
  <2>4. r \in Records /\ a \in Records
    BY Zenon DEF TypeOK
  <2>5. /\ cur[c].data.source \in Nat /\ cur[c].data.target \in Nat
        /\ r.data.source \in Nat /\ r.data.target \in Nat /\ a.data.source \in Nat
    BY <2>1, <2>4, DataFacts, Zenon DEF Records
  <2>6. r.id < cur[c].id \/ r = cur[c]
    BY <1>1, <2>3, Zenon DEF OrderInv
  <2>7. r.id < cur[c].id => r.data.target < cur[c].data.target
    BY <2>3, Zenon DEF TargetGrows
  <2>8. p[1] = r.data.source /\ p[2] = r.data.target
    BY <2>3, Zenon DEF Pair
  <2>9. r.data.source >= a.data.source
    BY <2>2, <2>8, Zenon
  <2>10. ~(cur[c].data.source < r.data.source /\ r.data.target < cur[c].data.target)
    BY <1>1, <2>8, Zenon DEF CheckSlashableAttestation, IsSurround, Pair
  <2>11. r.data.source = cur[c].data.source \/ r.data.target < cur[c].data.target
    BY <2>6, <2>7, Zenon
  <2>. QED  BY <2>5, <2>9, <2>10, <2>11, NotSurrounded
<1>2. ASSUME NEW b, SourceGrows(b), enqueued \subseteq enqueued',
             sent' \ early' \subseteq sent \ early
      PROVE  SourceGrows(b)'
  BY <1>2, Zenon DEF SourceGrows, TargetGrows
<1>3. ASSUME CallersQuiet, enqueued \subseteq enqueued', UNCHANGED <<sent, early>>
      PROVE  GrowInv'
  <2>1. ASSUME NEW c \in Callers, Checked(c)'  PROVE SourceGrows(cur[c])'
    <3>1. cur'[c] = cur[c] /\ pc[c] # "idle"
          /\ (Checked(c) \/ CheckSlashableAttestation(cur[c].key, cur[c].data))
      BY <1>3, <2>1, Zenon DEF CallersQuiet
    <3>2. SourceGrows(cur[c])
      BY <1>1, <3>1, Zenon DEF GrowInv, Checked
    <3>3. PICK b : b = cur[c]
      OBVIOUS
    <3>4. SourceGrows(b)'
      BY <1>2, <1>3, <3>2, <3>3
    <3>. QED  BY <3>1, <3>3, <3>4, Zenon
  <2>2. \A b \in sent : SourceGrows(b)'
    BY <1>2, <1>3 DEF GrowInv
  <2>. QED  BY <1>3, <2>1, <2>2, Zenon DEF GrowInv
<1>4. ASSUME NEW c \in Callers, Send(c)  PROVE GrowInv'
  <2>1. /\ QueueQuiet /\ CallersQuiet /\ Queued(c) /\ pc'[c] = "idle"
        /\ sent' = sent \cup {cur[c]} /\ early \subseteq early' /\ enqueued' = enqueued
    BY <1>4, SendSteps, Zenon DEF QueueQuiet
  <2>2. PICK r \in Records : r = cur[c]
    BY <2>1, Zenon DEF TypeOK, Queued
  <2>3. ASSUME NEW b, SourceGrows(b), b.key # r.key \/ ~(r.id < b.id)
        PROVE  SourceGrows(b)'
    BY <2>1, <2>2, <2>3, Zenon DEF SourceGrows, TargetGrows
  <2>4. ASSUME NEW b \in sent  PROVE SourceGrows(b)'
    <3>1. b \in enqueued /\ b \in Records
      BY Zenon DEF OrderInv, TypeOK
    <3>2. b.key = r.key => b.id < r.id \/ b = r
      BY <2>1, <2>2, <3>1, Zenon DEF OrderInv, Queued
    <3>3. r.id \in Nat /\ b.id \in Nat
      BY <3>1 DEF Records
    <3>4. SourceGrows(b)
      BY DEF GrowInv
    <3>. QED  BY <2>3, <3>2, <3>3, <3>4
  <2>5. SourceGrows(r)'
    <3>1. SourceGrows(r) /\ r.id \in Nat
      BY <2>1, <2>2, Zenon DEF GrowInv, Checked, Records
    <3>. QED  BY <2>3, <3>1
  <2>6. ASSUME NEW o \in Callers, Checked(o)'  PROVE SourceGrows(cur[o])'
    <3>1. /\ o # c /\ cur'[o] = cur[o] /\ pc[o] # "idle" /\ pc[c] # "idle"
          /\ (Checked(o) \/ CheckSlashableAttestation(cur[o].key, cur[o].data))
      BY <2>1, <2>6, Zenon DEF CallersQuiet, Checked, Queued
    <3>2. SourceGrows(cur[o])
      BY <1>1, <3>1, Zenon DEF GrowInv, Checked
    <3>3. PICK b : b = cur[o]
      OBVIOUS
    <3>4. b.key # r.key
      BY <2>2, <3>1, <3>3, Zenon DEF LockInv
    <3>5. SourceGrows(b)'
      BY <2>3, <3>2, <3>3, <3>4, Zenon
    <3>. QED  BY <3>1, <3>3, <3>5, Zenon
  <2>. QED  BY <2>1, <2>2, <2>4, <2>5, <2>6, Zenon DEF GrowInv
<1>5. ASSUME NEW c \in Callers, Enqueue(c)  PROVE GrowInv'
  <2>1. /\ UNCHANGED <<sent, early, cur>> /\ enqueued \subseteq enqueued'
        /\ pc[c] = "enqueue" /\ pc' = [pc EXCEPT ![c] = "subscribe"]
    BY <1>5, EnqueueQueue, Zenon DEF Enqueue
  <2>2. ASSUME NEW o \in Callers, Checked(o)'  PROVE SourceGrows(cur[o])'
    <3>1. Checked(o)
      BY <2>1, <2>2, Zenon DEF Checked, Queued, TypeOK
    <3>2. PICK b : b = cur[o]
      OBVIOUS
    <3>3. SourceGrows(b)'
      BY <1>2, <2>1, <3>1, <3>2 DEF GrowInv
    <3>. QED  BY <2>1, <3>2, <3>3
  <2>3. \A b \in sent : SourceGrows(b)'
    BY <1>2, <2>1 DEF GrowInv
  <2>. QED  BY <2>1, <2>2, <2>3 DEF GrowInv
<1>6. CASE FlushSaved
  <2>1. UNCHANGED <<pc, cur, sent, early, enqueued>>
    BY <1>6, SaveQueue DEF FlushSaved, histVars
  <2>2. CallersQuiet
    BY <2>1, Zenon DEF CallersQuiet, Checked, Queued
  <2>. QED  BY <1>3, <2>1, <2>2
<1>7. CASE Crash
  <2>1. (\A c \in Callers : ~Checked(c)') /\ UNCHANGED <<sent, early, enqueued>>
    BY <1>7 DEF Crash, Checked, Queued
  <2>2. CallersQuiet
    BY <2>1, Zenon DEF CallersQuiet, Checked
  <2>. QED  BY <1>3, <2>1, <2>2
<1>. QED  BY <1>3, <1>4, <1>5, <1>6, <1>7, QuietSteps DEF QueueQuiet

\* Pruning makes no validator slashable whose targets grow, for any keys, callers,
\* attestation data, pruning depth, calls, failed transactions and crashes.
THEOREM PruningIsSafe == Spec => []GrowingTargetsSafe
<1>1. Init => SourcesInv /\ GrowInv
  <2>1. Init => Queue = <<>>
    BY SeqConcatEmpty DEF Init, Queue, Unsaved
  <2>. SUFFICES ASSUME Init  PROVE SourcesInv /\ GrowInv
    OBVIOUS
  <2>2. /\ enqueued = {} /\ sent = {} /\ \A k \in Keys : sourceEpochs[k] = {}
        /\ \A c \in Callers : pc[c] = "idle"
    BY DEF Init
  <2>3. DOMAIN Queue = {} /\ 0 \in Nat
    BY <2>1
  <2>4. SourcesInv
    BY <2>2, <2>3, Zenon DEF SourcesInv
  <2>5. \A c \in Callers : ~Checked(c)
    BY <2>2 DEF Checked, Queued
  <2>. QED  BY <2>2, <2>4, <2>5, Zenon DEF GrowInv
<1>2. IInv /\ GrowInv => GrowingTargetsSafe
  <2>. SUFFICES ASSUME IInv, GrowInv, NEW b \in sent, TargetGrows(b),
                       NEW a \in sent \ early, a.key = b.key, a.id < b.id
                PROVE  ~Slashable(a.data, b.data)
    BY Zenon DEF GrowingTargetsSafe, TargetGrows
  <2>1. a.data.source <= b.data.source /\ a.data.target < b.data.target
    BY Zenon DEF GrowInv, SourceGrows, TargetGrows, IInv, OrderInv
  <2>2. /\ a.data.source \in Nat /\ a.data.target \in Nat
        /\ b.data.source \in Nat /\ b.data.target \in Nat
    BY DataFacts, Zenon DEF IInv, TypeOK, Records
  <2>3. /\ a.data.target # b.data.target
        /\ ~(b.data.source < a.data.source) /\ ~(b.data.target < a.data.target)
    BY <2>1, <2>2
  <2>. QED  BY <2>3, Zenon DEF Slashable, IsSurround, Pair
<1>. QED  BY <1>1, <1>2, Invariance, InvInit, InvStep, SourcesStep, GrowStep, PTL DEF Spec
===============================================================================
