------------------------------ MODULE CacheProofs ------------------------------
(* The two caches in which a request marks what it computes and others wait,   *)
(* and the cache of pending blocks: the properties of SkipSlots, of            *)
(* AttestationData and of PendingBlocks for any requests, slots, head updates, *)
(* block trees, faults and bounds.                                             *)
EXTENDS SkipSlots, AttestationData, PendingBlocks, FiniteSetTheorems, TLAPS

-------------------------------------------------------------------------------
(* The skip slot cache. *)

\* The state of a goroutine is behind the slot it wants until the loop, and at
\* it after the loop.  At a read this rests on the test of the cached slot.
Progress(r) ==
    /\ req[r].pc \in {"get", "wait", "read", "mark", "get2", "wait2", "read2"}
         => req[r].slot < req[r].target /\ req[r].slot \in Nat
    /\ req[r].pc = "run" => req[r].slot \in Nat /\ req[r].slot =< req[r].target
    /\ req[r].pc = "put" => req[r].slot = req[r].target
    /\ req[r].pc = "unmark" => req[r].slot \in {req[r].target, Returned}

NeverDisabled == resyncs = 0 => ~disabled

SkipInv ==
    /\ SkipTypeOK
    /\ NeverDisabled
    /\ \A r \in Requests : Progress(r)
    /\ MarkHasOwner

LEMMA SkipInitInv == SkipInit => SkipInv
<1>. SUFFICES ASSUME SkipInit PROVE SkipInv
  OBVIOUS
<1>1. SkipTypeOK
  BY DEF SkipInit, SkipTypeOK, IdleRequest, SkipSteps, Nothing
<1>2. \A r \in Requests : req[r].pc = "idle"
  BY DEF SkipInit, IdleRequest
<1>3. \A r \in Requests : Progress(r)
  BY <1>2 DEF Progress
<1>4. MarkHasOwner /\ NeverDisabled
  BY DEF SkipInit, MarkHasOwner, NeverDisabled
<1>. QED
  BY <1>1, <1>3, <1>4 DEF SkipInv

LEMMA TypeStep ==
  ASSUME SkipTypeOK, SkipNext
  PROVE  SkipTypeOK'
<1>. USE SkipAssumption DEF SkipTypeOK, SkipSteps, Nothing, Returned, SkipAt, SkipGoto
<1>1. ASSUME NEW r \in Requests, NEW t \in Targets, ProcessSlots(r, t) PROVE SkipTypeOK'
  BY <1>1 DEF ProcessSlots
<1>2. ASSUME NEW r \in Requests, Get(r) PROVE SkipTypeOK'
  BY <1>2 DEF Get
<1>3. ASSUME NEW r \in Requests, GetWait(r) PROVE SkipTypeOK'
  BY <1>3 DEF GetWait
<1>4. ASSUME NEW r \in Requests, GetRead(r) PROVE SkipTypeOK'
  <2>. DEFINE use == cached # Nothing /\ cached < req[r].target
              pc == IF SkipAt(r, "read") THEN "mark" ELSE "run"
              slot == IF use THEN cached ELSE req[r].slot
              highest == IF use THEN cached ELSE req[r].highest
  <2>1. req' = [req EXCEPT ![r] = [pc |-> pc, target |-> req[r].target,
                                   slot |-> slot, highest |-> highest]]
    BY <1>4 DEF GetRead
  <2>2. pc \in SkipSteps /\ slot \in Nat \cup {Returned} /\ highest \in Nat
    OBVIOUS
  <2>3. UNCHANGED <<cached, inProgress, disabled, requests, cancels, resyncs>>
    BY <1>4 DEF GetRead
  <2>. HIDE DEF pc, slot, highest
  <2>. QED
    BY <2>1, <2>2, <2>3
<1>5. ASSUME NEW r \in Requests, MarkInProgress(r) PROVE SkipTypeOK'
  BY <1>5 DEF MarkInProgress
<1>6. ASSUME NEW r \in Requests, ProcessSlot(r) PROVE SkipTypeOK'
  BY <1>6 DEF ProcessSlot
<1>7. ASSUME NEW r \in Requests, Put(r) PROVE SkipTypeOK'
  BY <1>7 DEF Put
<1>8. ASSUME NEW r \in Requests, MarkNotInProgress(r) PROVE SkipTypeOK'
  BY <1>8 DEF MarkNotInProgress, IdleRequest
<1>9. ASSUME NEW r \in Requests, GetCancelled(r) PROVE SkipTypeOK'
  BY <1>9 DEF GetCancelled, IdleRequest
<1>10. ASSUME NEW r \in Requests, SlotFails(r) PROVE SkipTypeOK'
  <2>1. req[r].highest < req[r].slot => req[r].slot \in Nat
    OBVIOUS
  <2>2. cached' = cached \/ (req[r].highest < req[r].slot /\ cached' = req[r].slot)
    BY <1>10 DEF SlotFails
  <2>. QED
    <3>1. cached' \in Nat
      BY <2>1, <2>2
    <3>2. req' = [req EXCEPT ![r] = [pc |-> "unmark", target |-> req[r].target,
                                     slot |-> Returned, highest |-> req[r].highest]]
      BY <1>10 DEF SlotFails
    <3>3. /\ UNCHANGED <<inProgress, disabled, requests, resyncs>>
          /\ cancels' = cancels + 1
      BY <1>10 DEF SlotFails
    <3>. QED
      BY <3>1, <3>2, <3>3
<1>11. CASE EvictSlot
  BY <1>11 DEF EvictSlot
<1>12. CASE Disable
  BY <1>12 DEF Disable
<1>13. CASE Enable
  BY <1>13 DEF Enable
<1>. QED
  BY <1>1, <1>2, <1>3, <1>4, <1>5, <1>6, <1>7, <1>8, <1>9, <1>10, <1>11, <1>12, <1>13
  DEF SkipNext, SkipStep

LEMMA TypeStutter == SkipTypeOK /\ UNCHANGED skipVars => SkipTypeOK'
  BY DEF SkipTypeOK, skipVars

\* A step of one goroutine concerns its own state only.
LEMMA ProgressStep ==
  ASSUME SkipTypeOK, \A r \in Requests : Progress(r), SkipNext
  PROVE  \A r \in Requests : Progress(r)'
<1>. USE SkipAssumption DEF SkipTypeOK, SkipSteps, Nothing, SkipAt, SkipGoto, Progress
<1>1. ASSUME NEW r \in Requests, NEW t \in Targets, ProcessSlots(r, t)
      PROVE  \A q \in Requests : Progress(q)'
  BY <1>1 DEF ProcessSlots
<1>2. ASSUME NEW r \in Requests, Get(r) PROVE \A q \in Requests : Progress(q)'
  BY <1>2 DEF Get
<1>3. ASSUME NEW r \in Requests, GetWait(r) PROVE \A q \in Requests : Progress(q)'
  BY <1>3 DEF GetWait
<1>4. ASSUME NEW r \in Requests, GetRead(r) PROVE \A q \in Requests : Progress(q)'
  <2>. HIDE DEF Progress
  <2>. DEFINE use == cached # Nothing /\ cached < req[r].target
              pc == IF SkipAt(r, "read") THEN "mark" ELSE "run"
              slot == IF use THEN cached ELSE req[r].slot
              highest == IF use THEN cached ELSE req[r].highest
  <2>0. req' = [req EXCEPT ![r] = [pc |-> pc, target |-> req[r].target,
                                   slot |-> slot, highest |-> highest]]
    BY <1>4 DEF GetRead
  <2>1. /\ req'[r].pc = pc /\ req'[r].target = req[r].target /\ req'[r].slot = slot
        /\ \A q \in Requests \ {r} : req'[q] = req[q]
    BY <2>0
  <2>2. req[r].slot < req[r].target /\ req[r].slot \in Nat
    BY <1>4 DEF GetRead, Progress
  <2>3. req[r].target \in Nat /\ cached \in Nat
    <3>1. req[r].target \in Targets \cup {0}
      OBVIOUS
    <3>2. cached \in Nat
      OBVIOUS
    <3>. QED
      BY <3>1, <3>2, SkipAssumption
  <2>4. Progress(r)'
    BY <2>1, <2>2, <2>3 DEF Progress
  <2>5. ASSUME NEW q \in Requests \ {r} PROVE Progress(q)'
    BY <2>1, <2>5 DEF Progress
  <2>. QED
    BY <2>4, <2>5
<1>5. ASSUME NEW r \in Requests, MarkInProgress(r) PROVE \A q \in Requests : Progress(q)'
  BY <1>5 DEF MarkInProgress
<1>6. ASSUME NEW r \in Requests, ProcessSlot(r) PROVE \A q \in Requests : Progress(q)'
  BY <1>6 DEF ProcessSlot
<1>7. ASSUME NEW r \in Requests, Put(r) PROVE \A q \in Requests : Progress(q)'
  BY <1>7 DEF Put
<1>8. ASSUME NEW r \in Requests, MarkNotInProgress(r) PROVE \A q \in Requests : Progress(q)'
  BY <1>8 DEF MarkNotInProgress, IdleRequest
<1>9. ASSUME NEW r \in Requests, GetCancelled(r) PROVE \A q \in Requests : Progress(q)'
  BY <1>9 DEF GetCancelled, IdleRequest
<1>10. ASSUME NEW r \in Requests, SlotFails(r) PROVE \A q \in Requests : Progress(q)'
  BY <1>10 DEF SlotFails
<1>11. CASE EvictSlot \/ Disable \/ Enable
  BY <1>11 DEF EvictSlot, Disable, Enable
<1>. QED
  BY <1>1, <1>2, <1>3, <1>4, <1>5, <1>6, <1>7, <1>8, <1>9, <1>10, <1>11, Zenon DEF SkipNext, SkipStep

\* Whoever leaves the loop's steps removes the mark, and whoever makes the mark
\* enters them.
LEMMA OwnerStep ==
  ASSUME SkipTypeOK, MarkHasOwner, NeverDisabled, SkipNext
  PROVE  MarkHasOwner'
<1>. USE DEF SkipTypeOK, SkipAt, SkipGoto, MarkHasOwner, Running
<1>1. ASSUME NEW r \in Requests, NEW t \in Targets, ProcessSlots(r, t) PROVE MarkHasOwner'
  BY <1>1 DEF ProcessSlots
<1>2. ASSUME NEW r \in Requests, Get(r) PROVE MarkHasOwner'
  BY <1>2 DEF Get
<1>3. ASSUME NEW r \in Requests, GetWait(r) PROVE MarkHasOwner'
  BY <1>3 DEF GetWait
<1>4. ASSUME NEW r \in Requests, GetRead(r) PROVE MarkHasOwner'
  BY <1>4 DEF GetRead
<1>5. ASSUME NEW r \in Requests, MarkInProgress(r) PROVE MarkHasOwner'
  BY <1>5 DEF MarkInProgress
<1>6. ASSUME NEW r \in Requests, ProcessSlot(r) PROVE MarkHasOwner'
  BY <1>6 DEF ProcessSlot
<1>7. ASSUME NEW r \in Requests, Put(r) PROVE MarkHasOwner'
  BY <1>7 DEF Put
<1>8. ASSUME NEW r \in Requests, MarkNotInProgress(r) PROVE MarkHasOwner'
  <2>1. resyncs = 0 => ~inProgress'
    BY <1>8 DEF MarkNotInProgress, NeverDisabled
  <2>2. UNCHANGED resyncs
    BY <1>8 DEF MarkNotInProgress
  <2>. QED
    BY <2>1, <2>2
<1>9. ASSUME NEW r \in Requests, GetCancelled(r) PROVE MarkHasOwner'
  BY <1>9 DEF GetCancelled, IdleRequest
<1>10. ASSUME NEW r \in Requests, SlotFails(r) PROVE MarkHasOwner'
  BY <1>10 DEF SlotFails
<1>11. CASE EvictSlot \/ Enable
  <2>. UNCHANGED <<inProgress, req, resyncs>>
    BY <1>11 DEF EvictSlot, Enable
  <2>. QED
    OBVIOUS
<1>12. CASE Disable
  <2>. resyncs' # 0
    BY <1>12 DEF Disable
  <2>. QED
    OBVIOUS
<1>. QED
  BY <1>1, <1>2, <1>3, <1>4, <1>5, <1>6, <1>7, <1>8, <1>9, <1>10, <1>11, <1>12, Zenon DEF SkipNext, SkipStep

LEMMA DisabledStep ==
  ASSUME SkipTypeOK, NeverDisabled, SkipNext
  PROVE  NeverDisabled'
<1>1. CASE Disable
  BY <1>1 DEF Disable, NeverDisabled, SkipTypeOK
<1>2. CASE Enable
  BY <1>2 DEF Enable, NeverDisabled
<1>3. CASE UNCHANGED <<disabled, resyncs>>
  BY <1>3 DEF NeverDisabled
<1>4. Disable \/ Enable \/ UNCHANGED <<disabled, resyncs>>
  BY DEF SkipNext, SkipStep, ProcessSlots, Get, GetWait, GetRead, MarkInProgress, ProcessSlot,
     Put, MarkNotInProgress, GetCancelled, SlotFails, EvictSlot
<1>. QED
  BY <1>1, <1>2, <1>3, <1>4

LEMMA SkipInvStep == SkipInv /\ [SkipNext]_skipVars => SkipInv'
<1>. SUFFICES ASSUME SkipInv, [SkipNext]_skipVars PROVE SkipInv'
  OBVIOUS
<1>. USE DEF SkipInv
<1>1. CASE SkipNext
  BY <1>1, TypeStep, ProgressStep, OwnerStep, DisabledStep
<1>2. CASE UNCHANGED skipVars
  <2>1. \A r \in Requests : Progress(r)'
    BY <1>2 DEF Progress, skipVars
  <2>2. MarkHasOwner' /\ NeverDisabled'
    BY <1>2 DEF MarkHasOwner, NeverDisabled, skipVars
  <2>. QED
    BY <1>2, <2>1, <2>2, TypeStutter
<1>. QED
  BY <1>1, <1>2

\* The types of the cache, its mark and the calls of ProcessSlots.
THEOREM SkipTypeCorrect == SkipSpec => []SkipTypeOK
<1>1. SkipInv => SkipTypeOK
  BY DEF SkipInv
<1>. QED
  BY <1>1, SkipInitInv, SkipInvStep, PTL DEF SkipSpec

\* ProcessSlots returns a state at the slot that was asked for, whatever states
\* concurrent calls left in the cache.
THEOREM AnswersAtTarget == SkipSpec => []AnswerAtTarget
<1>1. SkipInv => AnswerAtTarget
  BY DEF SkipInv, AnswerAtTarget, Progress, SkipAt
<1>. QED
  BY <1>1, SkipInitInv, SkipInvStep, PTL DEF SkipSpec

\* While initial sync has not disabled the cache, a mark never outlives the
\* goroutines that would remove it: no call of Get waits for nobody.
THEOREM MarksHaveOwners == SkipSpec => []MarkHasOwner
<1>1. SkipInv => MarkHasOwner
  BY DEF SkipInv
<1>. QED
  BY <1>1, SkipInitInv, SkipInvStep, PTL DEF SkipSpec

-------------------------------------------------------------------------------
(* The attestation cache. *)

Data == [root : Nat, state : Nat]

\* What a request carries at each of its steps.
CallType(r) ==
    /\ call[r] \in [pc : DataSteps, data : Data]
    /\ call[r].pc = "root" => call[r].data.state \in 1..MaxHeads + 1
    /\ call[r].pc = "put" => call[r].data \in Answers
    /\ call[r].pc = "unmark" => call[r].data \in Answers \cup {Failed}
    /\ call[r].pc = "done" => call[r].data \in Answers \cup {DataLoss, Failed}

Types ==
    /\ head \in 1..MaxHeads + 1
    /\ entry \in Answers \cup {NoData}
    /\ marked \in BOOLEAN
    /\ dataFaults \in 0..MaxDataFaults
    /\ DOMAIN call = DataRequests
    /\ call = [r \in DataRequests |-> call[r]]
    /\ \A r \in DataRequests : CallType(r)

\* Without a fault, the answer is in the cache before the mark is removed, and
\* it is there when a request that has waited for the mark looks for it.
AnswerKept(r) ==
    dataFaults = 0 =>
        /\ call[r].pc = "wait2" => marked \/ entry # NoData
        /\ call[r].pc \in {"read2", "unmark"} => entry # NoData
        /\ call[r].pc = "done" => call[r].data # DataLoss

DataInv ==
    /\ Types
    /\ OneComputes
    /\ \A r \in DataRequests : AnswerKept(r)

LEMMA Distinct ==
  /\ Answers \subseteq Data /\ {NoData, DataLoss, Failed} \subseteq Data
  /\ NoData \notin Answers /\ DataLoss \notin Answers
  /\ Failed # DataLoss /\ Failed # NoData /\ DataLoss # NoData
  BY DataAssumption DEF Data, Answers, NoData, DataLoss, Failed

LEMMA DataInitInv == DataInit => DataInv
<1>. SUFFICES ASSUME DataInit PROVE DataInv
  OBVIOUS
<1>1. \A r \in DataRequests : call[r] = [pc |-> "new", data |-> NoData]
  BY DEF DataInit
<1>2. \A r \in DataRequests : CallType(r)
  BY <1>1, Distinct DEF CallType, DataSteps
<1>3. DOMAIN call = DataRequests /\ call = [r \in DataRequests |-> call[r]]
  BY DEF DataInit
<1>4. head \in 1..MaxHeads + 1 /\ dataFaults \in 0..MaxDataFaults
  BY DataAssumption DEF DataInit
<1>5. Types
  BY <1>2, <1>3, <1>4, Zenon DEF DataInit, Types
<1>. QED
  BY <1>1, <1>5 DEF DataInv, DataInit, OneComputes, AnswerKept, Computing

\* A step of request r that goes to step pc with data d.
LEMMA Moved ==
  ASSUME Types, NEW r \in DataRequests, NEW pc, NEW d, DataGoto(r, pc, d)
  PROVE  /\ DOMAIN call' = DataRequests
         /\ call' = [q \in DataRequests |-> call'[q]]
         /\ call'[r] = [pc |-> pc, data |-> d]
         /\ \A q \in DataRequests \ {r} : call'[q] = call[q]
  BY DEF Types, DataGoto

\* Such a step keeps the invariant when it does so for r itself and for the
\* variables that all requests share.
LEMMA MovedInv ==
  ASSUME DataInv, NEW r \in DataRequests, NEW pc \in DataSteps, NEW d \in Data,
         DataGoto(r, pc, d),
         head' \in 1..MaxHeads + 1, entry' \in Answers \cup {NoData},
         marked' \in BOOLEAN, dataFaults' \in 0..MaxDataFaults,
         pc = "root" => d.state \in 1..MaxHeads + 1,
         pc = "put" => d \in Answers,
         pc = "unmark" => d \in Answers \cup {Failed},
         pc = "done" => d \in Answers \cup {DataLoss, Failed},
         pc \in Computing => marked' /\ \A q \in DataRequests \ {r} : call[q].pc \notin Computing,
         marked => marked' \/ call[r].pc \in Computing,
         dataFaults = 0 /\ entry # NoData => entry' # NoData \/ dataFaults' # 0,
         dataFaults # 0 => dataFaults' # 0,
         dataFaults' = 0 /\ marked => marked' \/ entry' # NoData,
         dataFaults' = 0 /\ pc = "wait2" => marked' \/ entry' # NoData,
         dataFaults' = 0 /\ pc \in {"read2", "unmark"} => entry' # NoData,
         dataFaults' = 0 /\ pc = "done" => d # DataLoss
  PROVE  DataInv'
<1>. USE DEF DataInv
<1>1. /\ DOMAIN call' = DataRequests
      /\ call' = [q \in DataRequests |-> call'[q]]
      /\ call'[r] = [pc |-> pc, data |-> d]
      /\ \A q \in DataRequests \ {r} : call'[q] = call[q]
  BY Moved
<1>2. CallType(r)'
  BY <1>1 DEF CallType
<1>3. ASSUME NEW q \in DataRequests \ {r} PROVE CallType(q)'
  BY <1>1, <1>3 DEF CallType, Types
<1>4. Types'
  BY <1>1, <1>2, <1>3 DEF Types
<1>5. OneComputes'
  BY <1>1 DEF OneComputes
<1>6. AnswerKept(r)'
  BY <1>1 DEF AnswerKept
<1>7. ASSUME NEW q \in DataRequests \ {r} PROVE AnswerKept(q)'
  BY <1>1, <1>7 DEF AnswerKept
<1>. QED
  BY <1>4, <1>5, <1>6, <1>7

LEMMA DataInvStep ==
  ASSUME DataInv, DataNext
  PROVE  DataInv'
<1>. USE DataAssumption, Distinct
<1>0. Types /\ OneComputes /\ \A r \in DataRequests : AnswerKept(r) /\ CallType(r)
  BY DEF DataInv, Types
<1>1. ASSUME NEW r \in DataRequests, GetAttestationData(r) PROVE DataInv'
  BY <1>0, <1>1, MovedInv DEF GetAttestationData, Types, DataSteps, Computing
<1>2. ASSUME NEW r \in DataRequests, DataGetWait(r) PROVE DataInv'
  <2>. DEFINE pc == IF DataAt(r, "wait") THEN "read" ELSE "read2"
  <2>1. /\ pc \in {"read", "read2"} /\ DataGoto(r, pc, NoData)
        /\ ~marked /\ UNCHANGED <<head, entry, marked, dataFaults>>
        /\ pc = "read2" => call[r].pc = "wait2"
    BY <1>2 DEF DataGetWait, DataAt
  <2>2. dataFaults = 0 /\ pc = "read2" => entry # NoData
    BY <1>0, <2>1 DEF AnswerKept
  <2>. HIDE DEF pc
  <2>. QED
    BY <1>0, <2>1, <2>2, MovedInv, Zenon DEF Types, DataSteps, Computing
<1>3. ASSUME NEW r \in DataRequests, DataGetCancelled(r) PROVE DataInv'
  BY <1>0, <1>3, MovedInv DEF DataGetCancelled, Types, DataSteps, Computing
<1>4. ASSUME NEW r \in DataRequests, DataGetRead(r) PROVE DataInv'
  <2>1. \/ DataGoto(r, "done", entry) /\ entry # NoData
        \/ DataGoto(r, "mark", NoData)
        \/ DataGoto(r, "done", DataLoss) /\ entry = NoData /\ call[r].pc = "read2"
    BY <1>4 DEF DataGetRead, DataAt
  <2>2. UNCHANGED <<head, entry, marked, dataFaults>>
    BY <1>4 DEF DataGetRead
  <2>3. CASE DataGoto(r, "done", entry) /\ entry # NoData
    BY <1>0, <2>2, <2>3, MovedInv, Zenon DEF Types, DataSteps, Computing
  <2>4. CASE DataGoto(r, "mark", NoData)
    BY <1>0, <2>2, <2>4, MovedInv, Zenon DEF Types, DataSteps, Computing
  <2>5. CASE DataGoto(r, "done", DataLoss) /\ entry = NoData /\ call[r].pc = "read2"
    <3>1. dataFaults # 0
      BY <1>0, <2>5 DEF AnswerKept
    <3>. QED
      BY <1>0, <2>2, <2>5, <3>1, MovedInv, Zenon DEF Types, DataSteps, Computing
  <2>. QED
    BY <2>1, <2>3, <2>4, <2>5
<1>5. ASSUME NEW r \in DataRequests, DataMarkInProgress(r) PROVE DataInv'
  <2>1. /\ DataGoto(r, IF marked THEN "wait2" ELSE "state", NoData)
        /\ marked' = TRUE /\ UNCHANGED <<head, entry, dataFaults>>
    BY <1>5 DEF DataMarkInProgress
  <2>2. CASE marked
    BY <1>0, <2>1, <2>2, MovedInv, Zenon DEF Types, DataSteps, Computing
  <2>3. CASE ~marked
    <3>1. \A q \in DataRequests : call[q].pc \notin Computing
      BY <1>0, <2>3 DEF OneComputes
    <3>. QED
      BY <1>0, <2>1, <2>3, <3>1, MovedInv, Zenon DEF Types, DataSteps
  <2>. QED
    BY <2>2, <2>3
<1>6. ASSUME NEW r \in DataRequests, HeadState(r) PROVE DataInv'
  <2>1. /\ call[r].pc = "state" /\ DataGoto(r, "root", [root |-> 0, state |-> head])
        /\ UNCHANGED <<head, entry, marked, dataFaults>>
    BY <1>6, Zenon DEF HeadState, DataAt
  <2>2. /\ marked /\ \A q \in DataRequests \ {r} : call[q].pc \notin Computing
        /\ [root |-> 0, state |-> head] \in Data
    BY <1>0, <2>1 DEF OneComputes, Computing, Types, Data
  <2>. QED
    BY <1>0, <2>1, <2>2, MovedInv, Zenon DEF Types, DataSteps
<1>7. ASSUME NEW r \in DataRequests, HeadRoot(r) PROVE DataInv'
  <2>. DEFINE d == [root |-> head, state |-> call[r].data.state]
  <2>1. /\ call[r].pc = "root" /\ DataGoto(r, "put", d)
        /\ UNCHANGED <<head, entry, marked, dataFaults>>
    BY <1>7, Zenon DEF HeadRoot, DataAt
  <2>2. /\ marked /\ \A q \in DataRequests \ {r} : call[q].pc \notin Computing
    BY <1>0, <2>1 DEF OneComputes, Computing
  <2>3. d \in Answers
    BY <1>0, <2>1, Zenon DEF CallType, Types, Answers
  <2>. HIDE DEF d
  <2>. QED
    BY <1>0, <2>1, <2>2, <2>3, MovedInv, Zenon DEF Types, DataSteps
<1>8. ASSUME NEW r \in DataRequests, DataFails(r) PROVE DataInv'
  <2>1. /\ call[r].pc \in Computing /\ DataGoto(r, "unmark", Failed)
        /\ dataFaults' = dataFaults + 1 /\ dataFaults < MaxDataFaults
        /\ UNCHANGED <<head, entry, marked>>
    BY <1>8, Zenon DEF DataFails, Computing
  <2>2. marked /\ \A q \in DataRequests \ {r} : call[q].pc \notin Computing
    BY <1>0, <2>1 DEF OneComputes
  <2>. QED
    BY <1>0, <2>1, <2>2, MovedInv DEF Types, DataSteps
<1>9. ASSUME NEW r \in DataRequests, DataPut(r) PROVE DataInv'
  <2>1. /\ call[r].pc = "put" /\ DataGoto(r, "unmark", call[r].data)
        /\ entry' = IF entry = NoData THEN call[r].data ELSE entry
        /\ UNCHANGED <<head, marked, dataFaults>>
    BY <1>9, Zenon DEF DataPut, DataAt
  <2>2. marked /\ \A q \in DataRequests \ {r} : call[q].pc \notin Computing
    BY <1>0, <2>1 DEF OneComputes, Computing
  <2>3. call[r].data \in Answers
    BY <1>0, <2>1, Zenon DEF CallType
  <2>. QED
    BY <1>0, <2>1, <2>2, <2>3, MovedInv, Zenon DEF Types, DataSteps
<1>10. ASSUME NEW r \in DataRequests, DataMarkNotInProgress(r) PROVE DataInv'
  <2>1. /\ call[r].pc = "unmark" /\ DataGoto(r, "done", call[r].data)
        /\ marked' = FALSE /\ UNCHANGED <<head, entry, dataFaults>>
    BY <1>10 DEF DataMarkNotInProgress, DataAt
  <2>2. call[r].data \in Answers \cup {Failed} /\ (dataFaults = 0 => entry # NoData)
    BY <1>0, <2>1, Zenon DEF CallType, AnswerKept
  <2>3. call[r].pc \in Computing
    BY <2>1 DEF Computing
  <2>. QED
    BY <1>0, <2>1, <2>2, <2>3, MovedInv, Zenon DEF Types, DataSteps, Computing
<1>11. CASE NewHead
  BY <1>0, <1>11 DEF NewHead, DataInv, Types, CallType, OneComputes, AnswerKept
<1>12. CASE TrimData
  BY <1>0, <1>12 DEF TrimData, DataInv, Types, CallType, OneComputes, AnswerKept
<1>. QED
  BY <1>1, <1>2, <1>3, <1>4, <1>5, <1>6, <1>7, <1>8, <1>9, <1>10, <1>11, <1>12
  DEF DataNext, DataStep

LEMMA DataInvNext == DataInv /\ [DataNext]_dataVars => DataInv'
<1>1. DataInv /\ UNCHANGED dataVars => DataInv'
  BY DEF dataVars, DataInv, Types, CallType, OneComputes, AnswerKept
<1>. QED
  BY <1>1, DataInvStep

\* The types of the cache and of the answers: an answer is complete when it is
\* put into the cache and when it is returned.
THEOREM DataTypeCorrect == DataSpec => []DataTypeOK
<1>1. DataInv => DataTypeOK
  BY DEF DataInv, Types, CallType, DataTypeOK
<1>. QED
  BY <1>1, DataInitInv, DataInvNext, PTL DEF DataSpec

\* GetAttestationData computes the data of a slot in one request at a time, and
\* the mark stands as long as it does.
THEOREM OneRequestComputes == DataSpec => []OneComputes
<1>1. DataInv => OneComputes
  BY DEF DataInv
<1>. QED
  BY <1>1, DataInitInv, DataInvNext, PTL DEF DataSpec

\* GetAttestationData reports that a request "resolved to nil" only after some
\* request failed or the cache dropped the answer.
THEOREM LossIsAFault == DataSpec => []LossNeedsFault
<1>1. DataInv => LossNeedsFault
  BY DEF DataInv, Types, AnswerKept, LossNeedsFault, DataAt
<1>. QED
  BY <1>1, DataInitInv, DataInvNext, PTL DEF DataSpec

-------------------------------------------------------------------------------
(* The queue of pending blocks. *)

\* A finite set of numbers in order is a sequence that has each of them once.
LEMMA AscendingFacts ==
  ASSUME NEW S \in SUBSET Nat, IsFiniteSet(S)
  PROVE  /\ Ascending(S) \in Seq(S) /\ Len(Ascending(S)) = Cardinality(S)
         /\ IsInjective(Ascending(S)) /\ Range(Ascending(S)) = S
<1>. DEFINE n == Cardinality(S)
            below(b) == {c \in S : c < b}
            rank == [b \in S |-> Cardinality(below(b))]
<1>0. n \in Nat /\ S \subseteq Nat
  BY FS_CardinalityType
<1>1. ASSUME NEW b \in S
      PROVE  IsFiniteSet(below(b)) /\ Cardinality(below(b)) \in 0..n - 1
  <2>1. below(b) \in SUBSET S /\ below(b) # S
    BY <1>0
  <2>2. IsFiniteSet(below(b)) /\ Cardinality(below(b)) =< n /\ Cardinality(below(b)) # n
    <3>. HIDE DEF below
    <3>. QED
      BY <2>1, FS_Subset
  <2>3. Cardinality(below(b)) \in Nat
    BY <2>2, FS_CardinalityType
  <2>. QED
    BY <1>0, <2>2, <2>3
<1>2. ASSUME NEW a \in S, NEW b \in S, a < b
      PROVE  Cardinality(below(a)) # Cardinality(below(b))
  <2>1. below(a) \in SUBSET below(b) /\ below(a) # below(b)
    <3>1. \A c \in S : c < a => c < b
      BY <1>0, <1>2
    <3>2. ~(a < a)
      BY <1>0
    <3>. QED
      BY <1>2, <3>1, <3>2
  <2>. HIDE DEF below
  <2>. QED
    BY <1>1, <2>1, FS_Subset
<1>3. rank \in Injection(S, 0..n - 1)
  <2>1. rank \in [S -> 0..n - 1]
    BY <1>1, Zenon
  <2>2. \A a, b \in S : rank[a] = rank[b] => a = b
    <3>. SUFFICES ASSUME NEW a \in S, NEW b \in S, a # b PROVE rank[a] # rank[b]
      OBVIOUS
    <3>1. rank[a] = Cardinality(below(a)) /\ rank[b] = Cardinality(below(b))
      OBVIOUS
    <3>2. a < b \/ b < a
      BY <1>0
    <3>. HIDE DEF rank, below
    <3>. QED
      BY <1>2, <3>1, <3>2
  <2>. HIDE DEF rank
  <2>. QED
    BY <2>1, <2>2 DEF Injection, IsInjective
<1>4. rank \in Surjection(S, 0..n - 1)
  <2>1. IsFiniteSet(0..n - 1) /\ Cardinality(0..n - 1) = n
    <3>. DEFINE m == n - 1
    <3>0. 0 \in Int /\ m \in Int
      BY <1>0
    <3>. HIDE DEF m
    <3>1. /\ IsFiniteSet(0..m)
          /\ Cardinality(0..m) = IF 0 > m THEN 0 ELSE m - 0 + 1
      BY <3>0, FS_Interval, Zenon
    <3>. QED
      BY <1>0, <3>1 DEF m
  <2>. HIDE DEF rank
  <2>. QED
    BY <1>3, <2>1, FS_Injection
<1>. DEFINE at(i) == CHOOSE b \in S : Cardinality(below(b)) = i - 1
<1>5. ASSUME NEW i \in 1..n PROVE at(i) \in S /\ Cardinality(below(at(i))) = i - 1
  <2>1. \E b \in S : rank[b] = i - 1
    <3>1. i - 1 \in 0..n - 1
      BY <1>0
    <3>. HIDE DEF rank
    <3>. QED
      BY <1>4, <3>1 DEF Surjection
  <2>2. \E b \in S : Cardinality(below(b)) = i - 1
    BY <2>1, Zenon
  <2>. HIDE DEF below
  <2>. QED
    BY <2>2
<1>6. Ascending(S) = [i \in 1..n |-> at(i)]
  BY DEF Ascending
<1>7. ASSUME NEW b \in S PROVE \E i \in 1..n : at(i) = b
  <2>. DEFINE i == Cardinality(below(b)) + 1
  <2>1. i \in 1..n /\ i - 1 = Cardinality(below(b))
    BY <1>0, <1>1
  <2>2. at(i) \in S /\ Cardinality(below(at(i))) = Cardinality(below(b))
    <3>. HIDE DEF i, at, below
    <3>. QED
      BY <2>1, <1>5
  <2>. HIDE DEF i, at
  <2>3. at(i) = b
    <3>0. at(i) \in Nat /\ b \in Nat
      BY <1>0, <2>2, Zenon
    <3>1. at(i) < b \/ b < at(i) \/ at(i) = b
      BY <3>0
    <3>. HIDE DEF below
    <3>. QED
      BY <3>1, <2>2, <1>2
  <2>. QED
    BY <2>1, <2>3
<1>. HIDE DEF at
<1>8. ASSUME NEW i \in 1..n, NEW j \in 1..n, at(i) = at(j) PROVE i = j
  <2>. HIDE DEF at, below
  <2>. QED
    BY <1>0, <1>5, <1>8
<1>. HIDE DEF at
<1>9. Ascending(S) \in [1..n -> S] /\ DOMAIN Ascending(S) = 1..n
  BY <1>5, <1>6, Zenon
<1>10. Ascending(S) \in Seq(S) /\ Len(Ascending(S)) = n
  BY <1>0, <1>9
<1>11. IsInjective(Ascending(S))
  BY <1>6, <1>8, <1>9 DEF IsInjective
<1>12. Range(Ascending(S)) = S
  BY <1>6, <1>7, <1>9 DEF Range
<1>. QED
  BY <1>10, <1>11, <1>12

\* What is assumed of the tree.
LEMMA PendFacts ==
  /\ PGenesis \in PBlocks /\ PBlocks \subseteq Nat /\ PParent[PGenesis] = PGenesis
  /\ \A b \in PBlocks : b \in Nat /\ PParent[b] \in PBlocks /\ PParent[b] \in Nat /\ PSlot[b] \in Nat
  /\ \A b \in PBlocks \ {PGenesis} : PParent[b] < b
BY PendAssumption, Zenon

\* The principle of induction.
LEMMA PendInduction ==
  ASSUME NEW T, T \subseteq PBlocks, PGenesis \in T,
         \A b \in PBlocks \ {PGenesis} : PParent[b] \in T => b \in T
  PROVE  T = PBlocks
<1>. SUFFICES ASSUME PBlocks \ T # {} PROVE FALSE
  OBVIOUS
<1>. DEFINE S == PBlocks \ T
            R == {ss \in Nat \X Nat : ss[1] < ss[2]}
<1>0. S \subseteq Nat /\ S # {}
  BY PendAssumption
<1>1. IsWellFoundedOn(R, Nat)
  <2>1. OpToRel(<, Nat) = R
    BY Zenon DEF OpToRel
  <2>. QED
    BY <2>1, NatLessThanWellFounded
<1>2. PICK m \in S : \A y \in S : ~(<<y, m>> \in R)
  <2>. HIDE DEF R, S
  <2>. QED
    BY <1>0, <1>1, WFMin
<1>3. m # PGenesis /\ m \in PBlocks \ {PGenesis} /\ PParent[m] \notin T
  OBVIOUS
<1>4. PParent[m] \in S /\ PParent[m] < m /\ PParent[m] \in Nat /\ m \in Nat
  BY <1>3, PendFacts
<1>5. <<PParent[m], m>> \in R
  <2>1. <<PParent[m], m>> \in Nat \X Nat /\ (<<PParent[m], m>> \in R <=> PParent[m] < m)
    BY <1>4
  <2>. QED
    BY <2>1, <1>4
<1>. QED
  BY <1>2, <1>4, <1>5

\* The recursive definition of PAncestors has a solution: the least sets that are
\* closed under PParent.
LEMMA PAncestorsUnfold ==
  \A b \in PBlocks : PAncestors[b] = IF b = PGenesis THEN {b} ELSE {b} \cup PAncestors[PParent[b]]
<1>. DEFINE Closed == {S \in SUBSET PBlocks : \A x \in S : PParent[x] \in S}
            A(b) == {a \in PBlocks : \A S \in Closed : b \in S => a \in S}
            g == [b \in PBlocks |-> A(b)]
            Def(f) == [b \in PBlocks |-> IF b = PGenesis THEN {b} ELSE {b} \cup f[PParent[b]]]
<1>1. A(PGenesis) = {PGenesis}
  <2>1. {PGenesis} \in Closed
    BY PendAssumption
  <2>. QED
    BY <2>1, PendAssumption, Zenon
<1>2. ASSUME NEW b \in PBlocks PROVE A(b) = {b} \cup A(PParent[b])
  <2>1. PParent[b] \in PBlocks
    BY PendAssumption
  <2>2. {b} \cup A(PParent[b]) \subseteq A(b)
    BY <2>1
  <2>3. {b} \cup A(PParent[b]) \in Closed
    BY <2>1, PendAssumption
  <2>4. A(b) \subseteq {b} \cup A(PParent[b])
    <3>. HIDE DEF Closed
    <3>. QED
      BY <2>3
  <2>. QED
    BY <2>2, <2>4
<1>3. g = Def(g)
  <2>1. ASSUME NEW b \in PBlocks
        PROVE  g[b] = IF b = PGenesis THEN {b} ELSE {b} \cup g[PParent[b]]
    <3>1. g[b] = A(b) /\ g[PParent[b]] = A(PParent[b])
      BY PendAssumption
    <3>. HIDE DEF g, A
    <3>. QED
      BY <1>1, <1>2, <3>1
  <2>. HIDE DEF A
  <2>2. g = [b \in PBlocks |-> g[b]]
    OBVIOUS
  <2>. HIDE DEF g
  <2>. QED
    BY <2>1, <2>2
<1>4. PAncestors = CHOOSE f : f = Def(f)
  BY DEF PAncestors
<1>5. PAncestors = Def(PAncestors)
  <2>. HIDE DEF g, Def
  <2>. QED
    BY <1>3, <1>4
<1>. QED
  BY <1>5, Zenon

\* The chain of a block has the genesis block, and the chains of its blocks.
LEMMA PendChain ==
  \A b \in PBlocks :
    /\ PAncestors[b] \subseteq PBlocks /\ b \in PAncestors[b] /\ PGenesis \in PAncestors[b]
    /\ \A a \in PAncestors[b] : PAncestors[a] \subseteq PAncestors[b]
<1>. DEFINE P(b) ==
              /\ PAncestors[b] \subseteq PBlocks /\ b \in PAncestors[b]
              /\ PGenesis \in PAncestors[b]
              /\ \A a \in PAncestors[b] : PAncestors[a] \subseteq PAncestors[b]
            T == {b \in PBlocks : P(b)}
<1>1. PGenesis \in T
  <2>1. PAncestors[PGenesis] = {PGenesis} /\ PGenesis \in PBlocks
    BY PAncestorsUnfold, PendFacts, Zenon
  <2>. QED
    BY <2>1
<1>2. ASSUME NEW b \in PBlocks \ {PGenesis}, PParent[b] \in T PROVE b \in T
  <2>1. PAncestors[b] = {b} \cup PAncestors[PParent[b]]
    BY PAncestorsUnfold, Zenon
  <2>. QED
    BY <1>2, <2>1
<1>3. T = PBlocks
  <2>1. T \subseteq PBlocks
    OBVIOUS
  <2>. HIDE DEF T
  <2>. QED
    BY <1>1, <1>2, <2>1, PendInduction
<1>. QED
  BY <1>3

\* What is left of a queue when some blocks are deleted.
LEMMA WithoutFacts ==
  ASSUME NEW T, NEW queue \in Seq(T), NEW D
  PROVE  /\ Without(queue, D) \in Seq(T) /\ Len(Without(queue, D)) =< Len(queue)
         /\ Range(Without(queue, D)) = Range(queue) \ D
         /\ IsInjective(queue) => IsInjective(Without(queue, D))
<1>. DEFINE K == {i \in DOMAIN queue : queue[i] \notin D}
            kept == Ascending(K)
            left == [n \in DOMAIN kept |-> queue[kept[n]]]
<1>1. Without(queue, D) = left
  BY DEF Without
<1>2. K \in SUBSET Nat /\ K \in SUBSET (1..Len(queue)) /\ Len(queue) \in Nat
  OBVIOUS
<1>3. IsFiniteSet(1..Len(queue)) /\ Cardinality(1..Len(queue)) = Len(queue)
  <2>. DEFINE n == Len(queue)
  <2>0. 1 \in Int /\ n \in Int /\ n >= 0
    BY <1>2
  <2>. HIDE DEF n
  <2>1. IsFiniteSet(1..n) /\ Cardinality(1..n) = IF 1 > n THEN 0 ELSE n - 1 + 1
    BY <2>0, FS_Interval, Zenon
  <2>2. IsFiniteSet(1..n) /\ Cardinality(1..n) = n
    BY <2>0, <2>1
  <2>. QED
    BY <2>2 DEF n
<1>4. IsFiniteSet(K) /\ Cardinality(K) =< Len(queue)
  <2>. HIDE DEF K
  <2>. QED
    BY <1>2, <1>3, FS_Subset, Zenon
<1>5. kept \in Seq(K) /\ Len(kept) =< Len(queue) /\ IsInjective(kept) /\ Range(kept) = K
  <2>. HIDE DEF K
  <2>. QED
    BY <1>2, <1>4, AscendingFacts
<1>. HIDE DEF kept
<1>6. \A n \in DOMAIN kept : kept[n] \in DOMAIN queue /\ queue[kept[n]] \notin D
  BY <1>5
<1>7. left \in Seq(T) /\ Len(left) = Len(kept) /\ DOMAIN left = DOMAIN kept
  <2>1. DOMAIN kept = 1..Len(kept) /\ Len(kept) \in Nat
    BY <1>5
  <2>2. left \in [1..Len(kept) -> T]
    BY <1>6, <2>1
  <2>. HIDE DEF left
  <2>3. left \in Seq(T) /\ Len(left) = Len(kept)
    BY <2>1, <2>2
  <2>. QED
    BY <2>1, <2>2, <2>3
<1>8. Range(left) = Range(queue) \ D
  <2>1. ASSUME NEW x \in Range(left) PROVE x \in Range(queue) \ D
    BY <1>6, <1>7 DEF Range
  <2>2. ASSUME NEW x \in Range(queue) \ D PROVE x \in Range(left)
    <3>1. PICK i \in DOMAIN queue : queue[i] = x
      BY DEF Range
    <3>2. i \in Range(kept)
      BY <1>5, <3>1
    <3>3. PICK n \in DOMAIN kept : kept[n] = i
      BY <3>2 DEF Range
    <3>. QED
      BY <1>7, <3>1, <3>3 DEF Range
  <2>. QED
    BY <2>1, <2>2
<1>9. ASSUME IsInjective(queue) PROVE IsInjective(left)
  BY <1>5, <1>6, <1>7, <1>9, Zenon DEF IsInjective
<1>. QED
  BY <1>1, <1>5, <1>7, <1>8, <1>9

-------------------------------------------------------------------------------
(* Types, and what is in the queue. *)

\* The queue of a slot: its own blocks, each once, no more than the limit.
GoodQueue(s, queue) ==
    /\ queue \in Seq(PBlocks) /\ Len(queue) =< MaxBlocksPerSlot
    /\ IsInjective(queue)
    /\ \A b \in Range(queue) : PSlot[b] = s

\* Every block of the queue is seen, and those are finitely many.
QueueInv ==
    /\ slotToPendingBlocks \in [PSlots -> Seq(PBlocks)]
    /\ \A s \in PSlots : GoodQueue(s, slotToPendingBlocks[s])
    /\ \A s \in PSlots : Range(slotToPendingBlocks[s]) \subseteq seenPendingBlocks
    /\ seenPendingBlocks \in SUBSET PBlocks /\ IsFiniteSet(seenPendingBlocks)

WalkSteps == {"idle", "slots", "block", "check", "process", "drop", "delete", "request"}
AtBlock == {"check", "process", "drop", "delete"}

WalkTypes == [pc : WalkSteps, peers : BOOLEAN, slots : Seq(PSlots), blocks : Seq(PBlocks),
              inQueue : BOOLEAN, asked : SUBSET PBlocks]

\* The two goroutines: a walk that is at a block has one.
RunInv ==
    /\ walk \in WalkTypes /\ (walk.pc \in AtBlock => walk.blocks # <<>>)
    /\ gossip \in [pc : {"idle", "insert", "receive"}, block : PBlocks]

\* The chain and the counters.
RestInv ==
    /\ badBlocks \in SUBSET PBlocks /\ stored \in SUBSET PBlocks
    /\ finalizedBlock \in stored
    /\ seenBlockSlots \in SUBSET PSlots /\ currentSlot \in 0 .. PLastSlot
    /\ locked \in BOOLEAN
    /\ lost \in Nat /\ drops \in Nat /\ lost + drops =< MaxPendFaults

PendInv == QueueInv /\ RunInv /\ RestInv

\* A sequence without repetition is as long as its set is large.
LEMMA DistinctCardinality ==
  ASSUME NEW T, NEW queue \in Seq(T), IsInjective(queue)
  PROVE  Cardinality(Range(queue)) = Len(queue)
<1>. DEFINE n == Len(queue)
<1>1. n \in Nat /\ DOMAIN queue = 1..n /\ queue \in [1..n -> T]
  OBVIOUS
<1>2. IsFiniteSet(1..n) /\ Cardinality(1..n) = n
  <2>0. 1 \in Int /\ n \in Int /\ n >= 0
    BY <1>1
  <2>. HIDE DEF n
  <2>1. IsFiniteSet(1..n) /\ Cardinality(1..n) = IF 1 > n THEN 0 ELSE n - 1 + 1
    BY <2>0, FS_Interval, Zenon
  <2>. QED
    BY <2>0, <2>1
<1>. HIDE DEF n
<1>3. queue \in [1..n -> Range(queue)] /\ \A x \in Range(queue) : \E i \in 1..n : queue[i] = x
  BY <1>1 DEF Range
<1>4. queue \in Surjection(1..n, Range(queue))
  BY <1>3 DEF Surjection
<1>5. queue \in Injection(1..n, Range(queue))
  BY <1>1, <1>3 DEF Injection, IsInjective
<1>6. Cardinality(Range(queue)) = Cardinality(1..n)
  BY <1>2, <1>4, <1>5, FS_Surjection
<1>. QED
  BY <1>2, <1>6 DEF n

\* The invariant gives the types and QueuedOnce.
LEMMA PendInvImplies == PendInv => PendTypeOK /\ QueuedOnce
<1>. SUFFICES ASSUME PendInv PROVE PendTypeOK /\ QueuedOnce
  OBVIOUS
<1>1. PendTypeOK
  <2>1. /\ slotToPendingBlocks \in [PSlots -> Seq(PBlocks)]
        /\ \A s \in PSlots : \A b \in Range(slotToPendingBlocks[s]) : PSlot[b] = s
        /\ {seenPendingBlocks, badBlocks, stored} \subseteq SUBSET PBlocks
    BY DEF PendInv, QueueInv, GoodQueue, RestInv
  <2>2. /\ walk.slots \in Seq(PSlots) /\ walk.blocks \in Seq(PBlocks)
        /\ walk.asked \subseteq PBlocks /\ gossip.block \in PBlocks
    BY DEF PendInv, RunInv, WalkTypes
  <2>3. /\ finalizedBlock \in stored
        /\ seenBlockSlots \subseteq PSlots /\ currentSlot \in 0 .. PLastSlot
        /\ locked \in BOOLEAN
    BY DEF PendInv, RestInv
  <2>4. {lost, drops, lost + drops} \subseteq 0 .. MaxPendFaults
    BY PendAssumption DEF PendInv, RestInv
  <2>. QED
    BY <2>1, <2>2, <2>3, <2>4, Zenon DEF PendTypeOK
<1>2. QueuedOnce
  <2>. SUFFICES ASSUME NEW s \in PSlots
                PROVE  /\ Len(slotToPendingBlocks[s]) <= MaxBlocksPerSlot
                       /\ Cardinality(Range(slotToPendingBlocks[s])) = Len(slotToPendingBlocks[s])
                       /\ Range(slotToPendingBlocks[s]) \subseteq seenPendingBlocks
    BY DEF QueuedOnce
  <2>1. /\ GoodQueue(s, slotToPendingBlocks[s])
        /\ Range(slotToPendingBlocks[s]) \subseteq seenPendingBlocks
    BY DEF PendInv, QueueInv
  <2>. QED
    BY <2>1, DistinctCardinality DEF GoodQueue
<1>. QED
  BY <1>1, <1>2

\* At the start the queue is empty.
LEMMA PendInitInv == PendInit => PendInv
<1>. SUFFICES ASSUME PendInit PROVE PendInv
  OBVIOUS
<1>1. /\ <<>> \in Seq(PBlocks) /\ Len(<<>>) = 0 /\ Range(<<>>) = {} /\ IsInjective(<<>>)
      /\ <<>> \in Seq(PSlots)
  BY DEF Range, IsInjective
<1>2. QueueInv
  <2>1. \A s \in PSlots : GoodQueue(s, <<>>)
    BY <1>1, PendAssumption DEF GoodQueue
  <2>2. IsFiniteSet({})
    BY FS_EmptySet
  <2>. QED
    BY <1>1, <2>1, <2>2 DEF PendInit, QueueInv
<1>3. RunInv
  BY <1>1, PendFacts, Zenon DEF PendInit, RunInv, IdleWalk, IdleGossip, WalkTypes, WalkSteps, AtBlock
<1>4. RestInv
  <2>1. PGenesis \in PBlocks /\ PLastSlot \in Nat /\ MaxPendFaults \in Nat
    BY PendAssumption
  <2>2. /\ badBlocks \in SUBSET PBlocks /\ stored \in SUBSET PBlocks /\ finalizedBlock \in stored
        /\ seenBlockSlots \in SUBSET PSlots /\ locked \in BOOLEAN
    BY <2>1, Zenon DEF PendInit
  <2>3. /\ currentSlot \in 0 .. PLastSlot
        /\ lost \in Nat /\ drops \in Nat /\ lost + drops =< MaxPendFaults
    BY <2>1 DEF PendInit
  <2>. QED
    BY <2>2, <2>3 DEF RestInv
<1>. QED
  BY <1>2, <1>3, <1>4 DEF PendInv

\* The slots of blocks are numbers.
LEMMA SlotFacts == PSlots \subseteq Nat /\ \A b \in PBlocks : PSlot[b] \in PSlots
BY PendFacts DEF PSlots

\* The empty queue.
LEMMA EmptyQueue ==
  /\ <<>> \in Seq(PBlocks) /\ Range(<<>>) = {}
  /\ \A s \in PSlots : GoodQueue(s, <<>>)
<1>1. <<>> \in Seq(PBlocks) /\ Len(<<>>) = 0 /\ Range(<<>>) = {} /\ IsInjective(<<>>)
  BY DEF Range, IsInjective
<1>. QED
  BY <1>1, PendAssumption DEF GoodQueue

\* A block that is not in the queue comes to its end.
LEMMA AppendQueue ==
  ASSUME NEW b \in PBlocks, NEW queue, GoodQueue(PSlot[b], queue), b \notin Range(queue),
         Len(queue) < MaxBlocksPerSlot
  PROVE  /\ Append(queue, b) \in Seq(PBlocks) /\ Range(Append(queue, b)) = Range(queue) \cup {b}
         /\ GoodQueue(PSlot[b], Append(queue, b))
<1>. DEFINE new == Append(queue, b)
<1>1. /\ queue \in Seq(PBlocks) /\ Len(queue) \in Nat /\ DOMAIN queue = 1 .. Len(queue)
      /\ \A i, j \in DOMAIN queue : queue[i] = queue[j] => i = j
      /\ \A i \in DOMAIN queue : queue[i] # b
  BY DEF GoodQueue, IsInjective, Range
<1>2. /\ new \in Seq(PBlocks) /\ Len(new) = Len(queue) + 1
      /\ DOMAIN new = 1 .. Len(queue) + 1
      /\ \A i \in DOMAIN queue : new[i] = queue[i]
      /\ new[Len(queue) + 1] = b
  BY <1>1
<1>. HIDE DEF new
<1>3. \A i \in DOMAIN new : i \in DOMAIN queue \/ i = Len(queue) + 1
  BY <1>1, <1>2
<1>4. IsInjective(new)
  <2>. SUFFICES ASSUME NEW i \in DOMAIN new, NEW j \in DOMAIN new, new[i] = new[j]
                PROVE  i = j
    BY DEF IsInjective
  <2>. QED
    BY <1>1, <1>2, <1>3, Zenon
<1>5. Range(new) = Range(queue) \cup {b}
  <2>1. \A x \in Range(new) : x \in Range(queue) \cup {b}
    BY <1>2, <1>3 DEF Range
  <2>2. \A i \in DOMAIN queue : i \in DOMAIN new
    BY <1>1, <1>2
  <2>3. Len(queue) + 1 \in DOMAIN new
    BY <1>1, <1>2
  <2>. QED
    BY <1>2, <2>1, <2>2, <2>3, Zenon DEF Range
<1>6. \A x \in Range(new) : PSlot[x] = PSlot[b]
  BY <1>5 DEF GoodQueue
<1>7. Len(new) =< MaxBlocksPerSlot
  BY <1>1, <1>2, PendAssumption
<1>. QED
  BY <1>2, <1>4, <1>5, <1>6, <1>7, Zenon DEF GoodQueue, new

\* Blocks are deleted from a queue.
LEMMA DeleteQueue ==
  ASSUME NEW s \in PSlots, NEW queue, GoodQueue(s, queue), NEW D
  PROVE  /\ Without(queue, D) \in Seq(PBlocks) /\ Range(Without(queue, D)) = Range(queue) \ D
         /\ GoodQueue(s, Without(queue, D))
<1>. DEFINE new == Without(queue, D)
<1>1. queue \in Seq(PBlocks) /\ Len(queue) \in Nat /\ Len(queue) =< MaxBlocksPerSlot
  BY DEF GoodQueue
<1>2. /\ new \in Seq(PBlocks) /\ Len(new) =< Len(queue) /\ Range(new) = Range(queue) \ D
      /\ IsInjective(queue) => IsInjective(new)
  BY <1>1, WithoutFacts
<1>. HIDE DEF new
<1>3. Len(new) =< MaxBlocksPerSlot
  BY <1>1, <1>2, PendAssumption
<1>. QED
  BY <1>2, <1>3 DEF GoodQueue, new

\* insertBlockToPendingQueue.
LEMMA InsertKeeps ==
  ASSUME QueueInv, NEW b \in PBlocks, InsertBlockToPendingQueue(b)
  PROVE  QueueInv'
<1>. DEFINE queue == slotToPendingBlocks[PSlot[b]]
<1>1. PSlot[b] \in PSlots /\ GoodQueue(PSlot[b], queue) /\ Range(queue) \subseteq seenPendingBlocks
  BY SlotFacts DEF QueueInv
<1>2. seenPendingBlocks' = seenPendingBlocks \cup {b}
  BY DEF InsertBlockToPendingQueue
<1>3. seenPendingBlocks' \in SUBSET PBlocks /\ IsFiniteSet(seenPendingBlocks')
  BY <1>2, FS_AddElement DEF QueueInv
<1>4. CASE b \in seenPendingBlocks \/ Len(queue) >= MaxBlocksPerSlot
  <2>1. slotToPendingBlocks' = slotToPendingBlocks
    BY <1>4 DEF InsertBlockToPendingQueue
  <2>. QED
    BY <1>2, <1>3, <2>1 DEF QueueInv
<1>5. CASE ~(b \in seenPendingBlocks \/ Len(queue) >= MaxBlocksPerSlot)
  <2>1. slotToPendingBlocks' = [slotToPendingBlocks EXCEPT ![PSlot[b]] = Append(queue, b)]
    BY <1>5 DEF InsertBlockToPendingQueue
  <2>2. Len(queue) < MaxBlocksPerSlot /\ b \notin Range(queue)
    <3>1. Len(queue) \in Nat /\ MaxBlocksPerSlot \in Nat
      BY <1>1, PendAssumption DEF GoodQueue
    <3>. QED
      BY <1>1, <1>5, <3>1
  <2>3. /\ Append(queue, b) \in Seq(PBlocks) /\ Range(Append(queue, b)) = Range(queue) \cup {b}
        /\ GoodQueue(PSlot[b], Append(queue, b))
    <3>. HIDE DEF queue
    <3>. QED
      BY <1>1, <2>2, AppendQueue
  <2>. DEFINE new == Append(queue, b)
  <2>. HIDE DEF new
  <2>4. /\ slotToPendingBlocks' \in [PSlots -> Seq(PBlocks)]
        /\ slotToPendingBlocks'[PSlot[b]] = new
        /\ \A s \in PSlots : s # PSlot[b] => slotToPendingBlocks'[s] = slotToPendingBlocks[s]
    BY <1>1, <2>1, <2>3, Zenon DEF QueueInv, new
  <2>5. \A s \in PSlots : GoodQueue(s, slotToPendingBlocks'[s])
    BY <2>3, <2>4 DEF QueueInv, new
  <2>6. \A s \in PSlots : Range(slotToPendingBlocks'[s]) \subseteq seenPendingBlocks'
    BY <1>1, <1>2, <2>3, <2>4, Zenon DEF QueueInv, new
  <2>. QED
    BY <1>3, <2>4, <2>5, <2>6 DEF QueueInv
<1>. QED
  BY <1>4, <1>5

\* Deletions, expiry and clearPendingSlots.
LEMMA DeletionsKeep ==
  ASSUME QueueInv,
         slotToPendingBlocks' \in [PSlots -> Seq(PBlocks)],
         \A s \in PSlots : /\ GoodQueue(s, slotToPendingBlocks'[s])
                           /\ Range(slotToPendingBlocks'[s]) \subseteq seenPendingBlocks',
         seenPendingBlocks' \subseteq seenPendingBlocks
  PROVE  QueueInv'
<1>1. seenPendingBlocks' \in SUBSET PBlocks /\ IsFiniteSet(seenPendingBlocks')
  BY FS_Subset DEF QueueInv
<1>. QED
  BY <1>1 DEF QueueInv

\* Every step keeps the queue in order.
LEMMA QueueInvStep ==
  ASSUME QueueInv, RunInv, [PendNext]_pendVars
  PROVE  QueueInv'
<1>. USE DEF RunInv, WalkTypes, AtBlock
<1>1. ASSUME UNCHANGED <<slotToPendingBlocks, seenPendingBlocks>> PROVE QueueInv'
  BY <1>1, Zenon DEF QueueInv
<1>2. CASE WalkStart
  <2>1. PICK order : ValidatePendingSlots(order)
    BY <1>2 DEF WalkStart
  <2>. DEFINE old == Old(order)
  <2>2. slotToPendingBlocks' = [s \in PSlots |-> Without(slotToPendingBlocks[s], old)]
    BY <2>1, Zenon DEF ValidatePendingSlots
  <2>3. seenPendingBlocks' \subseteq seenPendingBlocks /\ seenPendingBlocks \ old \subseteq seenPendingBlocks'
    <3>. HIDE DEF old
    <3>1. \E E : seenPendingBlocks' = seenPendingBlocks \ (old \ E)
      BY <2>1, Zenon DEF ValidatePendingSlots, old
    <3>. QED
      BY <3>1
  <2>. HIDE DEF old
  <2>4. \A s \in PSlots : /\ Without(slotToPendingBlocks[s], old) \in Seq(PBlocks)
                          /\ Range(Without(slotToPendingBlocks[s], old))
                                = Range(slotToPendingBlocks[s]) \ old
                          /\ GoodQueue(s, Without(slotToPendingBlocks[s], old))
    BY DeleteQueue, Zenon DEF QueueInv
  <2>5. \A s \in PSlots : /\ slotToPendingBlocks'[s] \in Seq(PBlocks)
                          /\ Range(slotToPendingBlocks'[s]) \subseteq seenPendingBlocks'
                          /\ GoodQueue(s, slotToPendingBlocks'[s])
    BY <2>2, <2>3, <2>4 DEF QueueInv
  <2>. QED
    BY <2>2, <2>3, <2>4, <2>5, DeletionsKeep
<1>3. CASE WalkDelete
  <2>. DEFINE b == WalkBlock
              queue == slotToPendingBlocks[PSlot[b]]
              new == Without(queue, {b})
  <2>1. b \in PBlocks /\ PSlot[b] \in PSlots
    BY <1>3, SlotFacts DEF WalkDelete, Walking, WalkBlock
  <2>. HIDE DEF b
  <2>2. /\ slotToPendingBlocks' = [slotToPendingBlocks EXCEPT ![PSlot[b]] = new]
        /\ seenPendingBlocks' = IF Range(queue) \subseteq {b} THEN seenPendingBlocks
                                ELSE seenPendingBlocks \ {b}
    BY <1>3 DEF WalkDelete, Deleted, StillSeen, b
  <2>3. new \in Seq(PBlocks) /\ Range(new) = Range(queue) \ {b} /\ GoodQueue(PSlot[b], new)
    BY <2>1, DeleteQueue, Zenon DEF QueueInv
  <2>. HIDE DEF new
  <2>4. /\ slotToPendingBlocks' \in [PSlots -> Seq(PBlocks)]
        /\ slotToPendingBlocks'[PSlot[b]] = new
        /\ \A s \in PSlots : s # PSlot[b] => slotToPendingBlocks'[s] = slotToPendingBlocks[s]
    BY <2>1, <2>2, <2>3 DEF QueueInv
  <2>5. /\ seenPendingBlocks' \subseteq seenPendingBlocks
        /\ seenPendingBlocks \ {b} \subseteq seenPendingBlocks'
    BY <2>2
  <2>6. ASSUME NEW s \in PSlots
        PROVE  /\ GoodQueue(s, slotToPendingBlocks'[s])
               /\ Range(slotToPendingBlocks'[s]) \subseteq seenPendingBlocks'
    <3>1. CASE s = PSlot[b]
      BY <2>3, <2>4, <2>5, <3>1, Zenon DEF QueueInv
    <3>2. CASE s # PSlot[b]
      <4>1. b \notin Range(slotToPendingBlocks[s])
        BY <3>2 DEF QueueInv, GoodQueue
      <4>. QED
        BY <2>4, <2>5, <3>2, <4>1 DEF QueueInv
    <3>. QED
      BY <3>1, <3>2, Zenon
  <2>. QED
    BY <2>4, <2>5, <2>6, DeletionsKeep, Zenon
<1>4. ASSUME NEW s \in PSlots,
             slotToPendingBlocks' = [slotToPendingBlocks EXCEPT ![s] = <<>>],
             seenPendingBlocks' = seenPendingBlocks
      PROVE  QueueInv'
  <2>1. /\ slotToPendingBlocks' \in [PSlots -> Seq(PBlocks)]
        /\ slotToPendingBlocks'[s] = <<>>
        /\ \A t \in PSlots : t # s => slotToPendingBlocks'[t] = slotToPendingBlocks[t]
    BY <1>4, EmptyQueue DEF QueueInv
  <2>2. \A t \in PSlots : /\ GoodQueue(t, slotToPendingBlocks'[t])
                          /\ Range(slotToPendingBlocks'[t]) \subseteq seenPendingBlocks'
    BY <1>4, <2>1, EmptyQueue DEF QueueInv
  <2>. QED
    BY <1>4, <2>1, <2>2, DeletionsKeep
<1>5. CASE WalkDeleteFails
  <2>1. WalkBlock \in PBlocks
    BY <1>5 DEF WalkDeleteFails, Walking, WalkBlock
  <2>. QED
    BY <1>4, <1>5, <2>1, SlotFacts, Zenon DEF WalkDeleteFails
<1>6. ASSUME NEW s \in PSlots, Expire(s) PROVE QueueInv'
  BY <1>4, <1>6 DEF Expire
<1>7. CASE ClearPendingSlots
  <2>1. slotToPendingBlocks' = [s \in PSlots |-> <<>>] /\ seenPendingBlocks' = {}
    BY <1>7 DEF ClearPendingSlots
  <2>. QED
    BY <2>1, EmptyQueue, DeletionsKeep
<1>8. CASE WalkReceive
  <2>1. PICK b \in walk.asked : InsertBlockToPendingQueue(b)
    BY <1>8 DEF WalkReceive
  <2>. QED
    BY <2>1, InsertKeeps
<1>9. CASE GossipInsert
  BY <1>9, InsertKeeps DEF GossipInsert
<1>. QED
  BY <1>1, <1>2, <1>3, <1>5, <1>6, <1>7, <1>8, <1>9
     DEF PendNext, WalkNext, WalkSlots, WalkSlot, WalkRead, WalkCheck, WalkProcess, WalkEnd,
         GossipValidate, GossipReceive, PendTick, PendFinalize, pendVars

\* The slots with blocks are finitely many.
LEMMA PendingSlots ==
  ASSUME QueueInv
  PROVE  Ascending({s \in PSlots : slotToPendingBlocks[s] # <<>>}) \in Seq(PSlots)
<1>. DEFINE S == {s \in PSlots : slotToPendingBlocks[s] # <<>>}
            f == [b \in seenPendingBlocks |-> PSlot[b]]
            I == {PSlot[b] : b \in seenPendingBlocks}
<1>1. f \in Surjection(seenPendingBlocks, I)
  BY DEF Surjection
<1>2. IsFiniteSet(I)
  <2>. HIDE DEF f, I
  <2>. QED
    BY <1>1, FS_Surjection DEF QueueInv
<1>3. S \subseteq I
  <2>. SUFFICES ASSUME NEW s \in S PROVE s \in I
    OBVIOUS
  <2>1. /\ slotToPendingBlocks[s] \in Seq(PBlocks) /\ slotToPendingBlocks[s] # <<>>
        /\ GoodQueue(s, slotToPendingBlocks[s])
        /\ Range(slotToPendingBlocks[s]) \subseteq seenPendingBlocks
    BY DEF QueueInv
  <2>2. 1 \in DOMAIN slotToPendingBlocks[s]
    BY <2>1
  <2>3. slotToPendingBlocks[s][1] \in Range(slotToPendingBlocks[s])
    BY <2>2 DEF Range
  <2>. QED
    BY <2>1, <2>3, Zenon DEF GoodQueue
<1>4. IsFiniteSet(S) /\ S \in SUBSET Nat /\ S \in SUBSET PSlots
  <2>1. S \in SUBSET PSlots
    OBVIOUS
  <2>. HIDE DEF S, I
  <2>. QED
    BY <1>2, <1>3, <2>1, SlotFacts, FS_Subset, Zenon
<1>. HIDE DEF S
<1>5. Ascending(S) \in Seq(S)
  BY <1>4, AscendingFacts
<1>6. Ascending(S) \in Seq(PSlots)
  <2>. DEFINE q == Ascending(S)
  <2>. HIDE DEF q
  <2>1. q \in Seq(S)
    BY <1>5 DEF q
  <2>2. Len(q) \in Nat /\ q \in [1 .. Len(q) -> S]
    BY <2>1
  <2>3. q \in [1 .. Len(q) -> PSlots]
    BY <1>4, <2>2
  <2>4. q \in Seq(PSlots)
    BY <2>2, <2>3
  <2>. QED
    BY <2>4 DEF q
<1>. QED
  BY <1>6 DEF S

\* Every step keeps the types of the two goroutines.
LEMMA RunInvStep ==
  ASSUME QueueInv, RunInv, [PendNext]_pendVars
  PROVE  RunInv'
<1>. DEFINE GossipType == gossip \in [pc : {"idle", "insert", "receive"}, block : PBlocks]
<1>1. ASSUME UNCHANGED <<walk, gossip>> PROVE RunInv'
  BY <1>1, Zenon DEF RunInv
<1>2. ASSUME gossip' = IdleGossip, UNCHANGED walk PROVE RunInv'
  BY <1>2, PendFacts, Zenon DEF RunInv, IdleGossip
<1>3. ASSUME NEW p \in WalkSteps, NEW peers \in BOOLEAN, NEW slots \in Seq(PSlots),
             NEW blocks \in Seq(PBlocks), NEW in \in BOOLEAN, NEW asked \in SUBSET PBlocks,
             p \in AtBlock => blocks # <<>>,
             walk' = [pc |-> p, peers |-> peers, slots |-> slots, blocks |-> blocks,
                      inQueue |-> in, asked |-> asked],
             UNCHANGED gossip
      PROVE  RunInv'
  BY <1>3, Zenon DEF RunInv, WalkTypes
<1>4. /\ walk.pc \in WalkSteps /\ walk.peers \in BOOLEAN /\ walk.slots \in Seq(PSlots)
      /\ walk.blocks \in Seq(PBlocks) /\ walk.inQueue \in BOOLEAN /\ walk.asked \in SUBSET PBlocks
      /\ walk = [pc |-> walk.pc, peers |-> walk.peers, slots |-> walk.slots,
                 blocks |-> walk.blocks, inQueue |-> walk.inQueue, asked |-> walk.asked]
  BY Zenon DEF RunInv, WalkTypes
<1>5. /\ walk.pc \in AtBlock => walk.blocks # <<>>
      /\ walk.blocks # <<>> => Tail(walk.blocks) \in Seq(PBlocks) /\ WalkBlock \in PBlocks
  BY <1>4 DEF RunInv, WalkBlock
<1>6. ASSUME walk' = IdleWalk, UNCHANGED gossip PROVE RunInv'
  <2>1. <<>> \in Seq(PSlots) /\ <<>> \in Seq(PBlocks) /\ "idle" \in WalkSteps /\ "idle" \notin AtBlock
    BY DEF WalkSteps, AtBlock
  <2>2. walk' = [pc |-> "idle", peers |-> FALSE, slots |-> <<>>, blocks |-> <<>>,
                 inQueue |-> FALSE, asked |-> {}]
    BY <1>6, Zenon DEF IdleWalk
  <2>3. FALSE \in BOOLEAN /\ {} \in SUBSET PBlocks
    BY Zenon
  <2>. QED
    BY <1>3, <1>6, <2>1, <2>2, <2>3, Zenon
<1>7. ASSUME walk.blocks # <<>>, walk' = NextBlock, UNCHANGED gossip PROVE RunInv'
  <2>1. "block" \in WalkSteps /\ "block" \notin AtBlock
    BY DEF WalkSteps, AtBlock
  <2>2. walk' = [pc |-> "block", peers |-> walk.peers, slots |-> walk.slots,
                 blocks |-> Tail(walk.blocks), inQueue |-> FALSE, asked |-> walk.asked]
    BY <1>4, <1>7, Zenon DEF NextBlock
  <2>. QED
    BY <1>3, <1>4, <1>5, <1>7, <2>1, <2>2, Zenon
<1>8. ASSUME NEW p \in WalkSteps, p \in AtBlock => walk.blocks # <<>>,
             walk' = [walk EXCEPT !.pc = p], UNCHANGED gossip
      PROVE  RunInv'
  <2>1. walk' = [pc |-> p, peers |-> walk.peers, slots |-> walk.slots,
                 blocks |-> walk.blocks, inQueue |-> walk.inQueue, asked |-> walk.asked]
    BY <1>4, <1>8
  <2>. QED
    BY <1>3, <1>4, <1>8, <2>1
<1>9. CASE WalkStart
  <2>1. PICK peers \in BOOLEAN : walk' = [IdleWalk EXCEPT !.pc = "slots", !.peers = peers]
    BY <1>9, Zenon DEF WalkStart
  <2>2. walk' = [pc |-> "slots", peers |-> peers, slots |-> <<>>, blocks |-> <<>>,
                 inQueue |-> FALSE, asked |-> {}]
    BY <2>1, Zenon DEF IdleWalk
  <2>3. <<>> \in Seq(PSlots) /\ <<>> \in Seq(PBlocks) /\ "slots" \in WalkSteps /\ "slots" \notin AtBlock
    BY DEF WalkSteps, AtBlock
  <2>4. UNCHANGED gossip
    BY <1>9 DEF WalkStart
  <2>. QED
    BY <2>2, <2>3, <2>4, Zenon DEF RunInv, WalkTypes
<1>10. CASE WalkSlots
  <2>. DEFINE slots == Ascending({s \in PSlots : slotToPendingBlocks[s] # <<>>})
  <2>1. slots \in Seq(PSlots) /\ "block" \in WalkSteps /\ "block" \notin AtBlock
    BY PendingSlots DEF WalkSteps, AtBlock
  <2>2. walk' = [walk EXCEPT !.pc = "block", !.slots = slots] /\ UNCHANGED gossip
    BY <1>10 DEF WalkSlots
  <2>. HIDE DEF slots
  <2>3. walk' = [pc |-> "block", peers |-> walk.peers, slots |-> slots,
                 blocks |-> walk.blocks, inQueue |-> walk.inQueue, asked |-> walk.asked]
    BY <1>4, <2>2, Zenon
  <2>. QED
    BY <1>3, <1>4, <2>1, <2>2, <2>3, Zenon
<1>11. CASE WalkSlot
  <2>1. CASE walk.slots = <<>>
    <3>1. "request" \in WalkSteps /\ "request" \notin AtBlock
      BY DEF WalkSteps, AtBlock
    <3>. QED
      BY <1>8, <1>11, <2>1, <3>1 DEF WalkSlot
  <2>2. CASE walk.slots # <<>>
    <3>. DEFINE blocks == IF Head(walk.slots) > currentSlot THEN <<>>
                          ELSE slotToPendingBlocks[Head(walk.slots)]
    <3>1. Tail(walk.slots) \in Seq(PSlots) /\ Head(walk.slots) \in PSlots
      BY <1>4, <2>2
    <3>2. blocks \in Seq(PBlocks)
      BY <3>1, EmptyQueue DEF QueueInv
    <3>3. /\ walk' = [walk EXCEPT !.slots = Tail(walk.slots), !.blocks = blocks]
          /\ UNCHANGED gossip /\ walk.pc = "block"
      BY <1>11, <2>2 DEF WalkSlot, Walking
    <3>. HIDE DEF blocks
    <3>4. walk' = [pc |-> walk.pc, peers |-> walk.peers, slots |-> Tail(walk.slots),
                   blocks |-> blocks, inQueue |-> walk.inQueue, asked |-> walk.asked]
      BY <1>4, <3>3
    <3>5. walk.pc \notin AtBlock
      BY <3>3 DEF AtBlock
    <3>. QED
      BY <1>4, <3>1, <3>2, <3>3, <3>4, <3>5, Zenon DEF RunInv, WalkTypes
  <2>. QED
    BY <2>1, <2>2
<1>12. CASE WalkRead
  <2>. DEFINE in == PParent[WalkBlock] \in seenPendingBlocks
  <2>1. walk' = [walk EXCEPT !.pc = "check", !.inQueue = in] /\ UNCHANGED gossip
        /\ walk.blocks # <<>>
    BY <1>12 DEF WalkRead
  <2>2. in \in BOOLEAN /\ "check" \in WalkSteps
    BY DEF WalkSteps
  <2>. HIDE DEF in
  <2>3. walk' = [pc |-> "check", peers |-> walk.peers, slots |-> walk.slots,
                 blocks |-> walk.blocks, inQueue |-> in, asked |-> walk.asked]
    BY <1>4, <2>1
  <2>. QED
    BY <1>4, <2>1, <2>2, <2>3 DEF RunInv, WalkTypes
<1>13. CASE WalkCheck
  <2>0. walk.blocks # <<>> /\ UNCHANGED gossip /\ WalkBlock \in PBlocks
    BY <1>5, <1>13 DEF WalkCheck, Walking, AtBlock
  <2>1. \/ walk' = [walk EXCEPT !.pc = "drop"] \/ walk' = [walk EXCEPT !.pc = "process"]
        \/ walk' = [NextBlock EXCEPT !.asked = @ \cup {PParent[WalkBlock]}]
        \/ walk' = NextBlock
    BY <1>13, Zenon DEF WalkCheck
  <2>2. "drop" \in WalkSteps /\ "process" \in WalkSteps /\ "block" \in WalkSteps /\ "block" \notin AtBlock
    BY DEF WalkSteps, AtBlock
  <2>3. ASSUME walk' = [NextBlock EXCEPT !.asked = @ \cup {PParent[WalkBlock]}] PROVE RunInv'
    <3>. DEFINE asked == walk.asked \cup {PParent[WalkBlock]}
    <3>1. asked \in SUBSET PBlocks
      BY <1>4, <2>0, PendFacts, Zenon
    <3>2. walk' = [pc |-> "block", peers |-> walk.peers, slots |-> walk.slots,
                   blocks |-> Tail(walk.blocks), inQueue |-> FALSE, asked |-> asked]
      BY <1>4, <2>3 DEF NextBlock
    <3>. HIDE DEF asked
    <3>. QED
      BY <1>3, <1>4, <1>5, <2>0, <2>2, <3>1, <3>2, Zenon
  <2>. QED
    BY <1>7, <1>8, <2>0, <2>1, <2>2, <2>3
<1>14. CASE WalkProcess
  <2>0. walk.blocks # <<>> /\ UNCHANGED gossip
    BY <1>5, <1>14 DEF WalkProcess, Walking, AtBlock
  <2>1. walk' = [walk EXCEPT !.pc = "delete"] \/ walk' = NextBlock
    BY <1>14 DEF WalkProcess
  <2>2. "delete" \in WalkSteps
    BY DEF WalkSteps
  <2>. QED
    BY <1>7, <1>8, <2>0, <2>1, <2>2
<1>15. CASE WalkDelete
  BY <1>5, <1>7, <1>15, Zenon DEF WalkDelete, Walking, AtBlock
<1>16. CASE WalkDeleteFails \/ WalkEnd
  BY <1>6, <1>16, Zenon DEF WalkDeleteFails, WalkEnd
<1>17. ASSUME NEW b \in PBlocks, GossipValidate(b) PROVE RunInv'
  <2>1. /\ UNCHANGED walk
        /\ UNCHANGED gossip \/ \E p \in {"insert", "receive"} : gossip' = [pc |-> p, block |-> b]
    BY <1>17, Zenon DEF GossipValidate
  <2>. QED
    BY <2>1 DEF RunInv
<1>18. CASE GossipInsert \/ GossipReceive
  BY <1>2, <1>18, Zenon DEF GossipInsert, GossipReceive
<1>. QED
  BY <1>1, <1>9, <1>10, <1>11, <1>12, <1>13, <1>14, <1>15, <1>16, <1>17, <1>18, Zenon DEF PendNext, WalkNext, WalkReceive, PendTick, PendFinalize, Expire, ClearPendingSlots,
         pendVars

\* Every step keeps the types of the chain and the bounds on faults.
LEMMA RestInvStep ==
  ASSUME RunInv, RestInv, [PendNext]_pendVars
  PROVE  RestInv'
<1>. USE DEF UnchangedChain
<1>0. /\ walk.pc \in AtBlock => WalkBlock \in PBlocks /\ PSlot[WalkBlock] \in PSlots
      /\ gossip.block \in PBlocks /\ PSlot[gossip.block] \in PSlots
  <2>1. walk.pc \in AtBlock => walk.blocks # <<>> /\ walk.blocks \in Seq(PBlocks)
    BY DEF RunInv, WalkTypes
  <2>2. walk.pc \in AtBlock => WalkBlock \in PBlocks
    BY <2>1 DEF WalkBlock
  <2>3. gossip.block \in PBlocks
    BY DEF RunInv
  <2>. QED
    BY <2>2, <2>3, SlotFacts
<1>. DEFINE Sets == /\ badBlocks \in SUBSET PBlocks /\ stored \in SUBSET PBlocks
                    /\ finalizedBlock \in stored /\ seenBlockSlots \in SUBSET PSlots
                    /\ locked \in BOOLEAN
            Counts == lost \in Nat /\ drops \in Nat /\ lost + drops =< MaxPendFaults
<1>1. Sets /\ Counts /\ currentSlot \in 0 .. PLastSlot
  BY DEF RestInv
<1>2. Sets'
  <2>1. CASE WalkCheck
    BY <1>0, <1>1, <2>1 DEF WalkCheck, Walking, AtBlock
  <2>2. CASE WalkProcess
    BY <1>0, <1>1, <2>2 DEF WalkProcess, Walking, AtBlock
  <2>3. CASE WalkDeleteFails
    BY <1>1, <2>3, Zenon DEF WalkDeleteFails, Walking
  <2>4. ASSUME NEW b \in PBlocks, GossipValidate(b) \/ PendFinalize(b) PROVE Sets'
    BY <1>1, <2>4, Zenon DEF GossipValidate, PendFinalize
  <2>5. CASE GossipReceive
    BY <1>0, <1>1, <2>5, Zenon DEF GossipReceive
  <2>. QED
    BY <1>1, <2>1, <2>2, <2>3, <2>4, <2>5, Zenon DEF PendNext, WalkNext, WalkStart, WalkSlots, WalkSlot, WalkRead, WalkDelete, WalkReceive,
           WalkEnd, GossipInsert, PendTick, Expire, ClearPendingSlots, pendVars
<1>3. Counts'
  <2>1. MaxPendFaults \in Nat
    BY PendAssumption
  <2>2. \/ UNCHANGED <<lost, drops>>
        \/ lost + drops < MaxPendFaults /\ lost' = lost + 1 /\ drops' = drops
        \/ lost + drops < MaxPendFaults /\ lost' = lost /\ drops' = drops + 1
    <3>1. CASE WalkStart
      BY <3>1 DEF WalkStart
    <3>2. CASE WalkEnd
      BY <3>2, Zenon DEF WalkEnd
    <3>. QED
      BY <3>1, <3>2, Zenon DEF PendNext, WalkNext, WalkSlots, WalkSlot, WalkRead, WalkCheck, WalkProcess, WalkDelete,
             WalkDeleteFails, WalkReceive, GossipValidate, GossipInsert, GossipReceive,
             PendTick, PendFinalize, Expire, ClearPendingSlots, pendVars
  <2>. QED
    BY <1>1, <2>1, <2>2
<1>4. (currentSlot \in 0 .. PLastSlot)'
  <2>1. CASE PendTick
    BY <1>1, <2>1, PendAssumption DEF PendTick
  <2>2. CASE ~PendTick
    <3>1. currentSlot' = currentSlot
      BY <2>2, Zenon DEF PendNext, WalkNext, WalkStart, WalkSlots, WalkSlot, WalkRead, WalkCheck,
                  WalkProcess, WalkDelete, WalkDeleteFails, WalkReceive, WalkEnd, GossipValidate,
                  GossipInsert, GossipReceive, PendFinalize, Expire, ClearPendingSlots, pendVars
    <3>. QED
      BY <1>1, <3>1
  <2>. QED
    BY <2>1, <2>2
<1>. QED
  BY <1>2, <1>3, <1>4 DEF RestInv

\* The invariant of the queue of pending blocks.
LEMMA PendInvariant == PendSpec => []PendInv
<1>1. PendInv /\ [PendNext]_pendVars => PendInv'
  BY QueueInvStep, RunInvStep, RestInvStep DEF PendInv
<1>. QED
  BY <1>1, PendInitInv, PTL DEF PendSpec

\* In every state the variables of the pending blocks queue have their types, and
\* no block waits in the slot of another.
THEOREM PendTypeCorrect == PendSpec => []PendTypeOK
BY PendInvariant, PendInvImplies, PTL

\* insertBlockToPendingQueue and the deletions keep every block in the queue once,
\* within the limit of its slot and in the map of seen blocks.
THEOREM PendingQueuedOnce == PendSpec => []QueuedOnce
BY PendInvariant, PendInvImplies, PTL

-------------------------------------------------------------------------------
(* Bad blocks. *)

\* A block that will never be accepted.
Refused(b) == b \in PInvalid \/ finalizedBlock \notin PAncestors[PParent[b]]

\* A bad block is refused, or its parent is bad.  What is stored is valid, with
\* its parent stored, and before the first finalization not bad.
BadInv ==
    /\ \A b \in badBlocks : Refused(b) \/ PParent[b] \in badBlocks
    /\ \A b \in stored : PParent[b] \in stored /\ b \notin PInvalid
    /\ finalizedBlock = PGenesis => badBlocks \cap stored = {}
    /\ walk.pc = "process" => PParent[WalkBlock] \in stored
    /\ gossip.pc = "receive" => PParent[gossip.block] \in stored

\* At the start no block is bad.
LEMMA BadInitInv == PendInit => BadInv
<1>. SUFFICES ASSUME PendInit PROVE BadInv
  OBVIOUS
<1>1. badBlocks = {} /\ stored = {PGenesis} /\ walk.pc = "idle" /\ gossip.pc = "idle"
  BY Zenon DEF PendInit, IdleWalk, IdleGossip
<1>2. PParent[PGenesis] = PGenesis /\ PGenesis \notin PInvalid
  BY PendAssumption
<1>. QED
  BY <1>1, <1>2, Zenon DEF BadInv

\* What a step does to the database: it stores at most one block, and accepts it.
LEMMA StoreStep ==
  ASSUME PendInv, [PendNext]_pendVars
  PROVE  \/ stored' = stored
         \/ /\ \E b \in PBlocks : Accepted(b) /\ stored' = stored \cup {b}
            /\ UNCHANGED <<badBlocks, finalizedBlock>>
<1>1. CASE WalkProcess
  <2>1. WalkBlock \in PBlocks
    <3>1. walk.pc = "process"
      BY <1>1 DEF WalkProcess, Walking
    <3>2. walk.blocks # <<>> /\ walk.blocks \in Seq(PBlocks)
      BY <3>1 DEF PendInv, RunInv, WalkTypes, AtBlock
    <3>. QED
      BY <3>2 DEF WalkBlock
  <2>. QED
    BY <1>1, <2>1, Zenon DEF WalkProcess
<1>2. CASE GossipReceive
  <2>1. gossip.block \in PBlocks
    BY DEF PendInv, RunInv
  <2>. QED
    BY <1>2, <2>1, Zenon DEF GossipReceive
<1>. QED
  BY <1>1, <1>2, Zenon
     DEF PendNext, WalkNext, WalkStart, WalkSlots, WalkSlot, WalkRead, WalkCheck, WalkDelete,
         WalkDeleteFails, WalkReceive, WalkEnd, GossipValidate, GossipInsert, PendTick,
         PendFinalize, Expire, ClearPendingSlots, UnchangedChain, pendVars

\* What a step does to the bad blocks: it adds at most one, which has a bad parent
\* or is not accepted.
LEMMA MarkStep ==
  ASSUME PendInv, BadInv, [PendNext]_pendVars
  PROVE  \/ badBlocks' = badBlocks
         \/ /\ \E b \in PBlocks : /\ PParent[b] \in badBlocks \/ Refused(b)
                                  /\ badBlocks' = badBlocks \cup {b}
            /\ UNCHANGED <<stored, finalizedBlock>>
<1>0. walk.pc \in AtBlock => WalkBlock \in PBlocks
  <2>1. walk.pc \in AtBlock => walk.blocks # <<>> /\ walk.blocks \in Seq(PBlocks)
    BY DEF PendInv, RunInv, WalkTypes
  <2>. QED
    BY <2>1 DEF WalkBlock
<1>1. CASE WalkCheck
  <2>1. WalkBlock \in PBlocks
    BY <1>0, <1>1 DEF WalkCheck, Walking, AtBlock
  <2>. QED
    BY <1>1, <2>1, Zenon DEF WalkCheck, UnchangedChain
<1>2. CASE WalkProcess
  <2>1. WalkBlock \in PBlocks /\ PParent[WalkBlock] \in stored
    BY <1>0, <1>2 DEF WalkProcess, Walking, AtBlock, BadInv
  <2>. QED
    BY <1>2, <2>1, Zenon DEF WalkProcess, Accepted, Validated, Refused
<1>3. CASE GossipReceive
  <2>1. gossip.block \in PBlocks /\ PParent[gossip.block] \in stored
    BY <1>3, Zenon DEF GossipReceive, BadInv, PendInv, RunInv
  <2>. QED
    BY <1>3, <2>1, Zenon DEF GossipReceive, Accepted, Validated, Refused
<1>4. ASSUME NEW b \in PBlocks, GossipValidate(b)
      PROVE  \/ badBlocks' = badBlocks
             \/ /\ PParent[b] \in badBlocks \/ Refused(b)
                /\ badBlocks' = badBlocks \cup {b} /\ UNCHANGED <<stored, finalizedBlock>>
  BY <1>4, Zenon DEF GossipValidate, Validated, Refused, UnchangedChain
<1>. QED
  BY <1>1, <1>2, <1>3, <1>4, Zenon
     DEF PendNext, WalkNext, WalkStart, WalkSlots, WalkSlot, WalkRead, WalkDelete,
         WalkDeleteFails, WalkReceive, WalkEnd, GossipInsert, PendTick,
         PendFinalize, Expire, ClearPendingSlots, pendVars

\* A step that finalizes a block goes forward on a chain and changes nothing else.
LEMMA FinalizeStep ==
  ASSUME PendInv, [PendNext]_pendVars
  PROVE  \/ finalizedBlock' = finalizedBlock
         \/ /\ finalizedBlock \in PAncestors[finalizedBlock'] /\ finalizedBlock' # finalizedBlock
            /\ finalizedBlock' \in PBlocks
            /\ UNCHANGED <<stored, badBlocks, walk, gossip>>
<1>1. ASSUME NEW b \in PBlocks, PendFinalize(b)
      PROVE  /\ finalizedBlock \in PAncestors[finalizedBlock'] /\ finalizedBlock' # finalizedBlock
             /\ finalizedBlock' \in PBlocks
             /\ UNCHANGED <<stored, badBlocks, walk, gossip>>
  <2>1. finalizedBlock' = b /\ finalizedBlock \in PAncestors[b]
        /\ UNCHANGED <<stored, badBlocks, walk, gossip>>
    BY <1>1, Zenon DEF PendFinalize
  <2>2. EpochOf(PSlot[b]) > EpochOf(PSlot[finalizedBlock])
    BY <1>1 DEF PendFinalize
  <2>3. EpochOf(PSlot[b]) \in Int
    BY PendAssumption DEF EpochOf
  <2>4. b # finalizedBlock
    BY <2>2, <2>3
  <2>. QED
    BY <2>1, <2>4
<1>. QED
  BY <1>1, Zenon
     DEF PendNext, WalkNext, WalkStart, WalkSlots, WalkSlot, WalkRead, WalkCheck, WalkProcess,
         WalkDelete, WalkDeleteFails, WalkReceive, WalkEnd, GossipValidate, GossipInsert,
         GossipReceive, PendTick, Expire, ClearPendingSlots, UnchangedChain, pendVars

\* A goroutine comes to processing a block only when it has seen the parent stored.
LEMMA GoroutineStep ==
  ASSUME PendInv, BadInv, [PendNext]_pendVars
  PROVE  /\ walk'.pc = "process" => PParent[WalkBlock'] \in stored
         /\ gossip'.pc = "receive" => PParent[gossip'.block] \in stored
<1>1. walk'.pc = "process" => PParent[WalkBlock'] \in stored
  <2>1. CASE WalkCheck
    <3>1. \/ walk' = [walk EXCEPT !.pc = "drop"]
          \/ walk' = [walk EXCEPT !.pc = "process"] /\ PParent[WalkBlock] \in stored
          \/ walk' = [NextBlock EXCEPT !.asked = @ \cup {PParent[WalkBlock]}]
          \/ walk' = NextBlock
      BY <2>1, Zenon DEF WalkCheck
    <3>2. walk \in WalkTypes
      BY DEF PendInv, RunInv
    <3>. QED
      BY <3>1, <3>2, Zenon DEF WalkTypes, NextBlock, WalkBlock
  <2>2. CASE ~WalkCheck
    <3>1. walk \in WalkTypes
      BY DEF PendInv, RunInv
    <3>2. walk' = walk \/ walk'.pc # "process"
      <4>1. CASE WalkStart
        BY <4>1 DEF WalkStart, IdleWalk
      <4>2. CASE WalkSlots \/ WalkSlot \/ WalkRead
        BY <3>1, <4>2, Zenon DEF WalkSlots, WalkSlot, WalkRead, Walking, WalkTypes
      <4>3. CASE WalkProcess \/ WalkDelete
        <5>1. walk' = NextBlock \/ walk' = [walk EXCEPT !.pc = "delete"]
          BY <4>3, Zenon DEF WalkProcess, WalkDelete
        <5>. QED
          BY <3>1, <5>1, Zenon DEF NextBlock, WalkTypes
      <4>4. CASE WalkDeleteFails \/ WalkEnd
        BY <4>4 DEF WalkDeleteFails, WalkEnd, IdleWalk
      <4>. QED
        BY <2>2, <4>1, <4>2, <4>3, <4>4, Zenon
           DEF PendNext, WalkNext, WalkReceive, GossipValidate, GossipInsert, GossipReceive,
               PendTick, PendFinalize, Expire, ClearPendingSlots, pendVars
    <3>. QED
      BY <3>2 DEF BadInv, WalkBlock
  <2>. QED
    BY <2>1, <2>2
<1>2. gossip'.pc = "receive" => PParent[gossip'.block] \in stored
  <2>1. ASSUME NEW b \in PBlocks, GossipValidate(b)
        PROVE  gossip'.pc = "receive" => PParent[gossip'.block] \in stored
    <3>1. \/ gossip' = gossip \/ gossip' = [pc |-> "insert", block |-> b]
          \/ gossip' = [pc |-> "receive", block |-> b] /\ PParent[b] \in stored
      BY <2>1, Zenon DEF GossipValidate
    <3>. QED
      BY <3>1 DEF BadInv
  <2>2. CASE gossip' = gossip
    BY <2>2, Zenon DEF BadInv
  <2>3. CASE gossip' = IdleGossip
    BY <2>3 DEF IdleGossip
  <2>. QED
    BY <2>1, <2>2, <2>3, Zenon
       DEF PendNext, WalkNext, WalkStart, WalkSlots, WalkSlot, WalkRead, WalkCheck, WalkProcess,
           WalkDelete, WalkDeleteFails, WalkReceive, WalkEnd, GossipInsert, GossipReceive,
           PendTick, PendFinalize, Expire, ClearPendingSlots, pendVars
<1>. QED
  BY <1>1, <1>2

\* Every step keeps BadInv.
LEMMA BadInvStep ==
  ASSUME PendInv, BadInv, [PendNext]_pendVars
  PROVE  BadInv'
<1>0. /\ stored \subseteq PBlocks /\ badBlocks \subseteq PBlocks /\ finalizedBlock \in PBlocks
      /\ \A b \in PBlocks : PParent[b] \in PBlocks
  BY PendFacts DEF PendInv, RestInv
<1>1. stored \subseteq stored'
  BY StoreStep
<1>2. /\ walk'.pc = "process" => PParent[WalkBlock'] \in stored'
      /\ gossip'.pc = "receive" => PParent[gossip'.block] \in stored'
  BY <1>1, GoroutineStep
<1>. DEFINE Core == /\ \A b \in badBlocks : Refused(b) \/ PParent[b] \in badBlocks
                    /\ \A b \in stored : PParent[b] \in stored /\ b \notin PInvalid
                    /\ finalizedBlock = PGenesis => badBlocks \cap stored = {}
<1>3. Core
  BY Zenon DEF BadInv
<1>4. CASE finalizedBlock' # finalizedBlock
  <2>1. /\ finalizedBlock \in PAncestors[finalizedBlock'] /\ finalizedBlock' \in PBlocks
        /\ UNCHANGED <<stored, badBlocks>>
    BY <1>4, FinalizeStep
  <2>2. ASSUME NEW b \in badBlocks, Refused(b) PROVE Refused(b)'
    <3>1. finalizedBlock' \in PAncestors[PParent[b]] => finalizedBlock \in PAncestors[PParent[b]]
      BY <1>0, <2>1, PendChain, Zenon
    <3>. QED
      BY <2>2, <3>1, Zenon DEF Refused
  <2>3. finalizedBlock' # PGenesis
    <3>1. PAncestors[PGenesis] = {PGenesis}
      BY PAncestorsUnfold, PendFacts, Zenon
    <3>. QED
      BY <1>4, <2>1, <3>1, Zenon
  <2>4. Core'
    BY <1>3, <2>1, <2>2, <2>3, Zenon
  <2>. QED
    BY <1>2, <2>4, Zenon DEF BadInv
<1>5. CASE finalizedBlock' = finalizedBlock /\ badBlocks' = badBlocks /\ stored' = stored
  <2>1. Core'
    BY <1>3, <1>5, Zenon DEF Refused
  <2>. QED
    BY <1>2, <2>1, Zenon DEF BadInv
<1>6. CASE finalizedBlock' = finalizedBlock /\ badBlocks' # badBlocks
  <2>1. PICK b \in PBlocks : /\ PParent[b] \in badBlocks \/ Refused(b)
                             /\ badBlocks' = badBlocks \cup {b}
    BY <1>6, MarkStep
  <2>2. stored' = stored
    BY <1>6, MarkStep
  <2>3. \A c \in badBlocks' : Refused(c)' \/ PParent[c] \in badBlocks'
    BY <1>3, <1>6, <2>1, Zenon DEF Refused
  <2>4. ASSUME finalizedBlock = PGenesis, b \in stored PROVE FALSE
    <3>1. PParent[b] \notin badBlocks
      BY <1>3, <2>4
    <3>2. finalizedBlock \in PAncestors[PParent[b]]
      BY <1>0, <2>4, PendChain
    <3>. QED
      BY <1>3, <2>1, <2>4, <3>1, <3>2, Zenon DEF Refused
  <2>5. Core'
    BY <1>3, <1>6, <2>1, <2>2, <2>3, <2>4, Zenon
  <2>. QED
    BY <1>2, <2>5, Zenon DEF BadInv
<1>7. CASE finalizedBlock' = finalizedBlock /\ badBlocks' = badBlocks /\ stored' # stored
  <2>1. PICK b \in PBlocks : Accepted(b) /\ stored' = stored \cup {b}
    BY <1>7, StoreStep
  <2>2. ~Refused(b) /\ PParent[b] \in stored /\ b \notin PInvalid
    BY <2>1 DEF Accepted, Validated, Refused
  <2>3. finalizedBlock = PGenesis => b \notin badBlocks
    BY <1>3, <2>2, Zenon
  <2>4. Core'
    BY <1>3, <1>7, <2>1, <2>2, <2>3, Zenon DEF Refused
  <2>. QED
    BY <1>2, <2>4, Zenon DEF BadInv
<1>. QED
  BY <1>4, <1>5, <1>6, <1>7

\* Neither processPendingBlocks nor the gossip handlers store a block that has been
\* found bad, except for a child of a block that was found bad after it was stored
\* and finalized.
THEOREM BadBlocksStayOut == PendSpec => BadStaysOut
<1>. DEFINE StaysOut == \A b \in badBlocks : b \in stored' \ stored =>
                          finalizedBlock # PGenesis /\ PParent[b] \in badBlocks \cap stored
<1>1. ASSUME PendInv, BadInv, [PendNext]_pendVars PROVE StaysOut
  <2>. SUFFICES ASSUME NEW b \in badBlocks, b \in stored' \ stored
                PROVE  finalizedBlock # PGenesis /\ PParent[b] \in badBlocks \cap stored
    OBVIOUS
  <2>1. Accepted(b)
    BY <1>1, StoreStep
  <2>2. ~Refused(b) /\ PParent[b] \in stored
    BY <2>1 DEF Accepted, Validated, Refused
  <2>3. PParent[b] \in badBlocks \cap stored
    BY <1>1, <2>2, Zenon DEF BadInv
  <2>. QED
    BY <1>1, <2>3, Zenon DEF BadInv
<1>2. PendInv /\ BadInv /\ [PendNext]_pendVars => BadInv'
  BY BadInvStep
<1>3. PendSpec => [](PendInv /\ BadInv)
  BY <1>2, PendInvariant, BadInitInv, PTL DEF PendSpec
<1>4. PendInv /\ BadInv /\ [PendNext]_pendVars => [StaysOut]_pendVars
  BY <1>1
<1>. QED
  BY <1>3, <1>4, PTL DEF PendSpec, BadStaysOut
===============================================================================
