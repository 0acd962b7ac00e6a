---------------------------- MODULE AttestationData ----------------------------
(* GetAttestationData of the beacon node's validator service, and the cache in  *)
(* front of it (rpc/prysm/v1alpha1/validator/attester.go,                       *)
(* cache/attestation_data.go): requests for one slot, which is one key of the   *)
(* cache.  The answer is the head root and the checkpoints of the head state,   *)
(* which two calls of the chain service read; here both are the version of the  *)
(* head they were read at.                                                      *)
EXTENDS Integers, FiniteSets

CONSTANTS
    DataRequests,   \* concurrent calls of GetAttestationData for the slot
    MaxHeads,       \* bound on the head updates while they run
    MaxDataFaults,  \* bound on cancelled calls, errors and trimmed entries
    DataWatched     \* the request that WaitsEnd is about; they are alike

ASSUME DataAssumption == MaxHeads \in Nat /\ MaxDataFaults \in Nat

VARIABLES
    head,           \* version of the head
    entry,          \* the cached answer, or NoData
    marked,         \* inProgress[slot]
    call,           \* per request: its step and the answer so far
    dataFaults

dataVars == <<head, entry, marked, call, dataFaults>>

NoData == [root |-> 0, state |-> 0]
DataLoss == [root |-> 0, state |-> 1]      \* the error of that name
Failed == [root |-> 0, state |-> 2]        \* any other error
Answers == [root : 1..MaxHeads + 1, state : 1..MaxHeads + 1]

DataSteps == {"new", "wait", "read", "mark", "wait2", "read2", "state", "root",
              "put", "unmark", "done"}
Computing == {"state", "root", "put", "unmark"}

DataInit ==
    /\ head = 1
    /\ entry = NoData
    /\ marked = FALSE
    /\ call = [r \in DataRequests |-> [pc |-> "new", data |-> NoData]]
    /\ dataFaults = 0

DataAt(r, pc) == call[r].pc = pc
DataGoto(r, pc, data) == call' = [call EXCEPT ![r] = [pc |-> pc, data |-> data]]

\* The first call of Get; a node that syncs refuses before it.
GetAttestationData(r) ==
    /\ DataAt(r, "new")
    /\ DataGoto(r, "wait", NoData)
    /\ UNCHANGED <<head, entry, marked, dataFaults>>

\* The loop of AttestationCache.Get: polls until the mark is gone.
DataGetWait(r) ==
    /\ DataAt(r, "wait") \/ DataAt(r, "wait2")
    /\ ~marked
    /\ DataGoto(r, IF DataAt(r, "wait") THEN "read" ELSE "read2", NoData)
    /\ UNCHANGED <<head, entry, marked, dataFaults>>

DataGetCancelled(r) ==
    /\ DataAt(r, "wait") \/ DataAt(r, "wait2")
    /\ dataFaults < MaxDataFaults
    /\ dataFaults' = dataFaults + 1
    /\ DataGoto(r, "done", Failed)
    /\ UNCHANGED <<head, entry, marked>>

\* The look-up: a hit is the answer; a miss goes on to compute it, or is an
\* error for the caller that has waited for someone else's computation.
DataGetRead(r) ==
    /\ \/ DataAt(r, "read") /\ entry # NoData /\ DataGoto(r, "done", entry)
       \/ DataAt(r, "read") /\ entry = NoData /\ DataGoto(r, "mark", NoData)
       \/ DataAt(r, "read2") /\ entry # NoData /\ DataGoto(r, "done", entry)
       \/ DataAt(r, "read2") /\ entry = NoData /\ DataGoto(r, "done", DataLoss)
    /\ UNCHANGED <<head, entry, marked, dataFaults>>

\* Mutant: a caller that has found the mark computes as well.
DataMarkShared(r) ==
    /\ DataAt(r, "mark")
    /\ DataGoto(r, "state", NoData)
    /\ marked' = TRUE
    /\ UNCHANGED <<head, entry, dataFaults>>

\* AttestationCache.MarkInProgress; a caller that finds the mark calls Get again.
DataMarkInProgress(r) ==
    /\ DataAt(r, "mark")
    /\ DataGoto(r, IF marked THEN "wait2" ELSE "state", NoData)
    /\ marked' = TRUE
    /\ UNCHANGED <<head, entry, dataFaults>>

\* HeadFetcher.HeadState, and in another critical section HeadFetcher.HeadRoot.
HeadState(r) ==
    /\ DataAt(r, "state")
    /\ DataGoto(r, "root", [root |-> 0, state |-> head])
    /\ UNCHANGED <<head, entry, marked, dataFaults>>

HeadRoot(r) ==
    /\ DataAt(r, "root")
    /\ DataGoto(r, "put", [root |-> head, state |-> call[r].data.state])
    /\ UNCHANGED <<head, entry, marked, dataFaults>>

\* Mutant: the error is returned before the deferred call is set.
DataFailsMarked(r) ==
    /\ call[r].pc \in {"state", "root", "put"}
    /\ dataFaults < MaxDataFaults
    /\ dataFaults' = dataFaults + 1
    /\ DataGoto(r, "done", Failed)
    /\ UNCHANGED <<head, entry, marked>>

\* The head or its state is not available, slots cannot be processed, ...
DataFails(r) ==
    /\ call[r].pc \in {"state", "root", "put"}
    /\ dataFaults < MaxDataFaults
    /\ dataFaults' = dataFaults + 1
    /\ DataGoto(r, "unmark", Failed)
    /\ UNCHANGED <<head, entry, marked>>

\* Mutant: the answer is returned without Put.
DataNotPut(r) ==
    /\ DataAt(r, "put")
    /\ DataGoto(r, "unmark", call[r].data)
    /\ UNCHANGED <<head, entry, marked, dataFaults>>

\* Mutant: the answer is put before its root is set.
DataPutHalf(r) ==
    /\ DataAt(r, "put")
    /\ entry' = [root |-> 0, state |-> call[r].data.state]
    /\ DataGoto(r, "unmark", call[r].data)
    /\ UNCHANGED <<head, marked, dataFaults>>

\* AttestationCache.Put adds the answer if the slot has none.
DataPut(r) ==
    /\ DataAt(r, "put")
    /\ entry' = IF entry = NoData THEN call[r].data ELSE entry
    /\ DataGoto(r, "unmark", call[r].data)
    /\ UNCHANGED <<head, marked, dataFaults>>

\* The deferred MarkNotInProgress, and the return.
DataMarkNotInProgress(r) ==
    /\ DataAt(r, "unmark")
    /\ marked' = FALSE
    /\ DataGoto(r, "done", call[r].data)
    /\ UNCHANGED <<head, entry, dataFaults>>

\* A block arrives.
NewHead ==
    /\ head =< MaxHeads
    /\ head' = head + 1
    /\ UNCHANGED <<entry, marked, call, dataFaults>>

\* Answers of later slots push this one out of the cache.
TrimData ==
    /\ entry # NoData /\ dataFaults < MaxDataFaults
    /\ entry' = NoData
    /\ dataFaults' = dataFaults + 1
    /\ UNCHANGED <<head, marked, call>>

DataStep(r) ==
    \/ GetAttestationData(r) \/ DataGetWait(r) \/ DataGetRead(r) \/ DataMarkInProgress(r)
    \/ HeadState(r) \/ HeadRoot(r) \/ DataPut(r) \/ DataMarkNotInProgress(r)

DataNext ==
    \/ \E r \in DataRequests : DataStep(r) \/ DataGetCancelled(r) \/ DataFails(r)
    \/ NewHead \/ TrimData

DataFairness == \A r \in DataRequests : WF_dataVars(DataStep(r))
DataSpec == DataInit /\ [][DataNext]_dataVars
DataFairSpec == DataSpec /\ DataFairness

-------------------------------------------------------------------------------
(* Properties. *)

DataTypeOK ==
    /\ head \in 1..MaxHeads + 1
    /\ entry \in Answers \cup {NoData}
    /\ marked \in BOOLEAN
    /\ \A r \in DataRequests :
         /\ call[r].pc \in DataSteps
         /\ call[r].pc = "done" => call[r].data \in Answers \cup {DataLoss, Failed}
    /\ dataFaults \in 0..MaxDataFaults

\* "MarkInProgress a request so that any other similar requests will block": a
\* slot's data is computed by one request at a time, and while it is the mark is
\* set.
OneComputes ==
    \A r \in DataRequests : call[r].pc \in Computing =>
        marked /\ \A q \in DataRequests \ {r} : call[q].pc \notin Computing

\* A request that waited for another one's computation gets its answer: "A
\* request was in progress and resolved to nil" is only said after a failure.
LossNeedsFault ==
    \A r \in DataRequests : DataAt(r, "done") /\ call[r].data = DataLoss => dataFaults > 0

===============================================================================
