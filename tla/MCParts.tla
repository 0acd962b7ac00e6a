-------------------------------- MODULE MCParts --------------------------------
(* Components that do not share state, each in an instance of its own, for one  *)
(* run of TLC: a behaviour picks a component at the start, and only that one    *)
(* takes steps.                                                                 *)
EXTENDS PendingBlocks, SkipSlots, AttestationData, BlocksQueue

VARIABLE part

\* Block 3 is invalid; 2 and 4 wait for their parents 1 and 3.
MCBlocks == 0..4
MCParent == [b \in MCBlocks |-> <<0, 0, 1, 0, 3>>[b + 1]]
MCSlot == [b \in MCBlocks |-> <<0, 1, 3, 2, 3>>[b + 1]]

partsVars == <<part, pendVars, skipVars, dataVars, queueVars>>

PartsInit ==
    /\ part \in {"pending", "skip", "data", "queue"}
    /\ PendInit /\ SkipInit /\ DataInit /\ QueueInit

\* The component picked, and what the others keep.
PendOnly ==
    part = "pending" /\ UNCHANGED <<part, skipVars, dataVars, queueVars>>
SkipOnly ==
    part = "skip" /\ UNCHANGED <<part, pendVars, dataVars, queueVars>>
DataOnly ==
    part = "data" /\ UNCHANGED <<part, pendVars, skipVars, queueVars>>
QueueOnly ==
    part = "queue" /\ UNCHANGED <<part, pendVars, skipVars, dataVars>>

PartsNext ==
    \/ PendOnly /\ PendNext
    \/ SkipOnly /\ SkipNext
    \/ DataOnly /\ DataNext
    \/ QueueOnly /\ QueueNext

\* The fairness of each component, for the behaviours that picked it.
PartsStep(i) ==
    \/ PendOnly /\ CASE i = 1 -> WalkNext [] i = 2 -> GossipInsert [] i = 3 -> PendTick
    \/ SkipOnly /\ IF i \in Requests THEN SkipStep(i) ELSE Enable
    \/ DataOnly /\ DataStep(i)
    \/ QueueOnly /\ CASE i = 1 -> QueueStep [] i = 2 -> FetcherQuits [] i = 3 -> Consumer

PartsFairness ==
    /\ \A i \in 1..3 : WF_partsVars(PartsStep(i))
    /\ SF_partsVars(QueueOnly /\ QueueEnd)

PartsSpec == PartsInit /\ [][PartsNext]_partsVars /\ PartsFairness

-------------------------------------------------------------------------------

\* The state of each of the four components has its type: among others, no block
\* waits in the slot of another, no error is cached, no answer is half complete
\* and the window of initial sync has its size.
PartsTypeOK == PendTypeOK /\ SkipTypeOK /\ DataTypeOK /\ QueueTypeOK

\* Nobody waits for ever.  "Get waits for any in progress calculation to complete
\* before returning a cached response": a call of ProcessSlots returns, as long as
\* initial sync has not toggled the skip slot cache, and so does one of
\* GetAttestationData.  A block in the pending queue is processed or found bad, as
\* long as the cache drops nothing and no later block is finalized.  "stop
\* terminates all queue operations": when the context is done the queue of initial
\* sync closes its channel and the goroutine that reads it returns, once the
\* fetcher had started.
WaitsEnd ==
    \/ part = "skip" /\ ~SkipAt(SkipWatched, "idle")
    \/ part = "data" /\ DataAt(DataWatched, "wait")
    \/ part = "pending" /\ Queued(PWatched)
    \/ part = "queue" /\ fetcher # "new" /\ ctxDone
    ~>
    \/ part = "skip" /\ (SkipAt(SkipWatched, "idle") \/ resyncs > 0)
    \/ part = "data" /\ DataAt(DataWatched, "done")
    \/ part = "pending" /\ (\/ PWatched \in stored \cup badBlocks
                            \/ finalizedBlock # PGenesis
                            \/ drops > 0)
    \/ part = "queue" /\ ~consuming

===============================================================================
