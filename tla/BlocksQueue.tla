------------------------------ MODULE BlocksQueue ------------------------------
(* Initial sync up to the finalized epoch of the peers: the queue of state      *)
(* machines (sync/initial-sync/blocks_queue.go, blocks_queue_utils.go, fsm.go), *)
(* the fetcher that serves it (blocks_fetcher.go) and the goroutine that        *)
(* processes what it sends (round_robin.go).  A machine fetches the blocks of   *)
(* BlocksPerRequest slots from its start slot on; blocks are their slots.       *)
EXTENDS Integers, Sequences, FiniteSets, FiniteSetsExt

CONSTANTS
    ChainSlots,         \* slots of the peers' blocks
    BestFinalizedSlot,  \* of the peers, bestFinalizedSlot()
    HighestExpected,    \* q.highestExpectedSlot, one epoch later
    BlocksPerRequest,
    LookaheadSteps,
    MaxFetchFaults      \* bound on answers without the blocks the peers have

ASSUME QueueAssumption ==
    /\ BlocksPerRequest \in Nat \ {0} /\ LookaheadSteps \in Nat \ {0, 1}
    /\ HighestExpected \in Nat /\ ChainSlots \subseteq 1..HighestExpected
    /\ BestFinalizedSlot \in 0..HighestExpected /\ MaxFetchFaults \in Nat

VARIABLES
    machines,       \* smm.machines: start slot -> state and blocks
    ticking,        \* the keys the tick in progress has still to visit
    loopAt,         \* where blocksQueue.loop is
    fetcher,        \* the fetcher's loop: "new", "runs" or "quit"
    flying,         \* requests that are not answered: start slot -> how many
    fetchedData,    \* the channel, of capacity one
    batch,          \* what the consumer works on, or NoBatch
    consuming,      \* whether the consumer still ranges over the channel
    headSlot,       \* chain.HeadSlot()
    ctxDone,        \* the queue's context
    stopped,        \* the service was stopped
    fetchFaults

queueVars == <<machines, ticking, loopAt, fetcher, flying, fetchedData, batch, consuming,
               headSlot, ctxDone, stopped, fetchFaults>>

NoBatch == {0}
MachineStates == {"New", "Scheduled", "DataParsed", "Skipped", "Sent"}
NewMachine == [state |-> "New", blocks |-> {}]

\* The machine that onEvent is called for may have been replaced: setState then
\* changes the old one.
SetState(ms, s, state) ==
    IF s \in DOMAIN ms THEN [ms EXCEPT ![s].state = state] ELSE ms
AddMachine(ms, s) == [t \in DOMAIN ms \cup {s} |-> IF t = s THEN NewMachine ELSE ms[t]]
RemoveMachine(ms, s) == [t \in DOMAIN ms \ {s} |-> ms[t]]
Window(start, steps) ==
    [s \in {start + i * BlocksPerRequest : i \in 0..steps - 1} |-> NewMachine]
BlocksFrom(s) == ChainSlots \cap s..(s + BlocksPerRequest - 1)

QueueInit ==
    /\ machines = <<>> /\ ticking = {}
    /\ loopAt = "start" /\ fetcher = "new"
    /\ flying = <<>>
    /\ fetchedData = <<>> /\ batch = NoBatch /\ consuming = TRUE
    /\ headSlot = 0
    /\ ctxDone = FALSE /\ stopped = FALSE /\ fetchFaults = 0

\* loop: starts the fetcher, unless the context is done, and the machines.
QueueStart ==
    /\ loopAt = "start"
    /\ fetcher' = IF ctxDone THEN fetcher ELSE "runs"
    /\ machines' = Window(headSlot, LookaheadSteps)
    /\ loopAt' = "check"
    /\ UNCHANGED <<ticking, flying, fetchedData, batch, consuming, headSlot, ctxDone, stopped,
                   fetchFaults>>

\* The test at the top of the loop.
CheckHighest ==
    /\ loopAt = "check"
    /\ ctxDone' = (ctxDone \/ headSlot >= HighestExpected)
    /\ loopAt' = "select"
    /\ UNCHANGED <<machines, ticking, fetcher, flying, fetchedData, batch, consuming, headSlot,
                   stopped, fetchFaults>>

Tick ==
    /\ loopAt = "select"
    /\ ticking' = DOMAIN machines
    /\ loopAt' = "tick"
    /\ UNCHANGED <<machines, fetcher, flying, fetchedData, batch, consuming, headSlot, ctxDone,
                   stopped, fetchFaults>>

\* Mutant: the new machine starts one slot after the end of the window.
CollectGap(ms, s) ==
    IF headSlot >= s + BlocksPerRequest - 1
    THEN LET left == RemoveMachine(ms, s)
         IN  IF Cardinality(DOMAIN left) < LookaheadSteps
             THEN AddMachine(left, Max(DOMAIN ms) + BlocksPerRequest + 1) ELSE left
    ELSE ms

\* Mutant: a machine is added for one that is still there.
CollectGrows(ms, s) ==
    IF headSlot >= s + BlocksPerRequest - 1
    THEN AddMachine(ms, Max(DOMAIN ms) + BlocksPerRequest) ELSE ms

\* "Do garbage collection, and advance sliding window forward."
Collect(ms, s) ==
    IF headSlot >= s + BlocksPerRequest - 1
    THEN LET left == RemoveMachine(ms, s)
         IN  IF Cardinality(DOMAIN left) < LookaheadSteps
             THEN AddMachine(left, Max(DOMAIN ms) + BlocksPerRequest) ELSE left
    ELSE ms

\* The end of a machine's visit.
Visited(ms, s) ==
    /\ machines' = Collect(ms, s)
    /\ ticking' = ticking \ {s}
    /\ UNCHANGED <<loopAt, fetcher, batch, consuming, headSlot, stopped, fetchFaults>>

\* The keys are visited in order.
Visiting(s, state) ==
    /\ loopAt = "tick" /\ s \in ticking /\ \A t \in ticking : s =< t
    /\ s \in DOMAIN machines
    /\ machines[s].state = state

\* Mutant: the machine is marked before its request is accepted.
MarkThenSchedule(s) ==
    /\ Visiting(s, "New")
    /\ Visited(SetState(machines, s, "Scheduled"), s)
    /\ flying' = IF s > HighestExpected \/ ctxDone THEN flying
                 ELSE [t \in DOMAIN flying \cup {s} |->
                         IF t \in DOMAIN flying THEN flying[t] + (IF t = s THEN 1 ELSE 0) ELSE 1]
    /\ UNCHANGED <<fetchedData, ctxDone>>

\* A machine beyond the highest slot is skipped; scheduleRequest fails when the
\* context is done.
OnScheduleEvent(s) ==
    /\ Visiting(s, "New")
    /\ \/ /\ s > HighestExpected
          /\ Visited(SetState(machines, s, "Skipped"), s)
          /\ UNCHANGED flying
       \/ /\ s =< HighestExpected /\ ctxDone
          /\ Visited(machines, s)
          /\ UNCHANGED flying
       \/ /\ s =< HighestExpected /\ ~ctxDone
          /\ Visited(SetState(machines, s, "Scheduled"), s)
          /\ flying' = [t \in DOMAIN flying \cup {s} |->
                          IF t \notin DOMAIN flying THEN 1
                          ELSE flying[t] + (IF t = s THEN 1 ELSE 0)]
    /\ UNCHANGED <<fetchedData, ctxDone>>

\* States without a handler for the tick.
OnNoEvent(s) ==
    /\ Visiting(s, "Scheduled")
    /\ Visited(machines, s)
    /\ UNCHANGED <<flying, fetchedData, ctxDone>>

\* The first machine sends, and any machine whose predecessors are not pending;
\* the loop blocks while the channel is full.
OnReadyToSendEvent(s) ==
    LET pending == {t \in DOMAIN machines :
                      t < s /\ machines[t].state \in {"New", "Scheduled", "DataParsed"}}
    IN  /\ Visiting(s, "DataParsed")
        /\ \/ /\ ctxDone
              /\ Visited(machines, s)
              /\ UNCHANGED fetchedData
           \/ /\ ~ctxDone /\ machines[s].blocks = {}
              /\ Visited(SetState(machines, s, "Skipped"), s)
              /\ UNCHANGED fetchedData
           \/ /\ ~ctxDone /\ machines[s].blocks # {} /\ pending # {}
              /\ Visited(machines, s)
              /\ UNCHANGED fetchedData
           \/ /\ ~ctxDone /\ machines[s].blocks # {} /\ pending = {}
              /\ fetchedData = <<>>
              /\ fetchedData' = <<machines[s].blocks>>
              /\ Visited(SetState(machines, s, "Sent"), s)
        /\ UNCHANGED <<flying, ctxDone>>

\* A batch that was sent a second ago and is not processed is skipped.
OnCheckStaleEvent(s) ==
    /\ Visiting(s, "Sent")
    /\ \/ Visited(machines, s)
       \/ ~ctxDone /\ Visited(SetState(machines, s, "Skipped"), s)
    /\ UNCHANGED <<flying, fetchedData, ctxDone>>

\* resetFromSlot, after the head: the last machine starts at the next slot that
\* is not empty, or is missing when the peers did not say which.
ResetFromSlot(found) ==
    LET start == headSlot + 1
        end == start + BlocksPerRequest * (LookaheadSteps - 1)
        after == {c \in ChainSlots : c >= end}
        window == Window(start, LookaheadSteps - 1)
    IN  IF ~found THEN window
        ELSE AddMachine(window, IF after = {} THEN end ELSE Min(after))

\* Mutant: the queue ends without asking for the finalized slot of the peers.
EndWhenAllSkipped(s) ==
    /\ Visiting(s, "Skipped") /\ ~ctxDone
    /\ s = Max(DOMAIN machines)
    /\ \A t \in DOMAIN machines : machines[t].state = "Skipped"
    /\ ctxDone' = TRUE
    /\ ticking' = ticking \ {s}
    /\ UNCHANGED <<machines, loopAt, fetcher, batch, consuming, headSlot, stopped, fetchFaults>>
    /\ UNCHANGED <<flying, fetchedData>>

\* Mutant: the first machine that finds all skipped resets them.
ResetByAny(s) ==
    /\ Visiting(s, "Skipped") /\ ~ctxDone
    /\ \A t \in DOMAIN machines : machines[t].state = "Skipped"
    /\ BestFinalizedSlot > headSlot
    /\ Visited(ResetFromSlot(TRUE), s)
    /\ UNCHANGED <<flying, fetchedData, ctxDone>>

\* The last machine, when all are skipped: without peers that have finalized
\* more the queue ends, otherwise all machines are replaced.
OnAllSkipped(s) ==
    /\ Visiting(s, "Skipped") /\ ~ctxDone
    /\ s = Max(DOMAIN machines)
    /\ \A t \in DOMAIN machines : machines[t].state = "Skipped"
    /\ \/ /\ BestFinalizedSlot =< headSlot
          /\ ctxDone' = TRUE
          /\ ticking' = ticking \ {s}
          /\ UNCHANGED <<machines, loopAt, fetcher, batch, consuming, headSlot, stopped, fetchFaults>>
       \/ /\ BestFinalizedSlot > headSlot
          /\ Visited(ResetFromSlot(TRUE), s)
          /\ UNCHANGED ctxDone
       \/ /\ BestFinalizedSlot > headSlot
          /\ fetchFaults < MaxFetchFaults
          /\ fetchFaults' = fetchFaults + 1
          /\ machines' = Collect(ResetFromSlot(FALSE), s)
          /\ ticking' = ticking \ {s}
          /\ UNCHANGED <<loopAt, fetcher, batch, consuming, headSlot, ctxDone, stopped>>
    /\ UNCHANGED <<flying, fetchedData>>

\* Any other skipped machine: it waits, or after ten seconds starts again.
OnProcessSkippedEvent(s) ==
    /\ Visiting(s, "Skipped")
    /\ \/ Visited(machines, s)
       \/ /\ ~ctxDone /\ s # Max(DOMAIN machines)
          /\ Visited(SetState(machines, s, "New"), s)
    /\ \/ ctxDone
       \/ s # Max(DOMAIN machines)
       \/ \E t \in DOMAIN machines : machines[t].state # "Skipped"
    /\ UNCHANGED <<flying, fetchedData, ctxDone>>

TickDone ==
    /\ loopAt = "tick" /\ ticking = {}
    /\ loopAt' = "check"
    /\ UNCHANGED <<machines, ticking, fetcher, flying, fetchedData, batch, consuming, headSlot,
                   ctxDone, stopped, fetchFaults>>

Visit(s) ==
    \/ OnScheduleEvent(s) \/ OnNoEvent(s) \/ OnReadyToSendEvent(s) \/ OnCheckStaleEvent(s)
    \/ OnAllSkipped(s) \/ OnProcessSkippedEvent(s)

\* An answer of handleRequest: the blocks, fewer than the peers have (none), or an
\* error, after which the machine starts again.  Only a scheduled machine has a
\* handler for it.
OnDataReceivedEvent(s, answer) ==
    /\ loopAt = "select" /\ fetcher = "runs"
    /\ s \in DOMAIN flying
    /\ flying' = IF flying[s] = 1 THEN [t \in DOMAIN flying \ {s} |-> flying[t]]
                 ELSE [flying EXCEPT ![s] = @ - 1]
    /\ fetchFaults' = IF answer = "blocks" THEN fetchFaults ELSE fetchFaults + 1
    /\ fetchFaults' =< MaxFetchFaults
    /\ machines' = IF s \notin DOMAIN machines \/ machines[s].state # "Scheduled" THEN machines
                   ELSE IF ctxDone \/ answer = "error" THEN SetState(machines, s, "New")
                   ELSE [machines EXCEPT ![s] =
                           [state |-> "DataParsed",
                            blocks |-> IF answer = "blocks" THEN BlocksFrom(s) ELSE {}]]
    /\ loopAt' = "check"
    /\ UNCHANGED <<ticking, fetcher, fetchedData, batch, consuming, headSlot, ctxDone, stopped>>

\* The two ways out of the loop: the context, or the fetcher's closed channel.
LoopEnds ==
    /\ loopAt = "select" /\ (ctxDone \/ fetcher = "quit")
    /\ ctxDone' = TRUE
    /\ loopAt' = "exit"
    /\ UNCHANGED <<machines, ticking, fetcher, flying, fetchedData, batch, consuming, headSlot,
                   stopped, fetchFaults>>

\* Mutant: the channel is closed when its reader has returned.
CloseAfterConsumer ==
    /\ loopAt = "exit" /\ fetcher = "quit" /\ ~consuming
    /\ loopAt' = "closed"
    /\ UNCHANGED <<machines, ticking, fetcher, flying, fetchedData, batch, consuming, headSlot,
                   ctxDone, stopped, fetchFaults>>

\* The deferred calls: blocksFetcher.stop waits for its loop, then the channel is
\* closed.
CloseQueue ==
    /\ loopAt = "exit" /\ fetcher = "quit"
    /\ loopAt' = "closed"
    /\ UNCHANGED <<machines, ticking, fetcher, flying, fetchedData, batch, consuming, headSlot,
                   ctxDone, stopped, fetchFaults>>

\* blocksFetcher.loop, whose context is the queue's: its goroutines end.
FetcherQuits ==
    /\ fetcher = "runs" /\ ctxDone
    /\ fetcher' = "quit"
    /\ flying' = <<>>
    /\ UNCHANGED <<machines, ticking, loopAt, fetchedData, batch, consuming, headSlot, ctxDone,
                   stopped, fetchFaults>>

\* syncToFinalizedEpoch ranges over the channel.
Consume ==
    /\ consuming /\ batch = NoBatch /\ fetchedData # <<>>
    /\ batch' = Head(fetchedData)
    /\ fetchedData' = <<>>
    /\ UNCHANGED <<machines, ticking, loopAt, fetcher, flying, consuming, headSlot, ctxDone,
                   stopped, fetchFaults>>

\* processBatchedBlocks: processed blocks are dropped, and the parent of the first
\* block left must be known.  The batch may also be refused.
ProcessFetchedData ==
    LET left == {c \in batch : c > headSlot}
        parentKnown == left # {} /\ \A c \in ChainSlots : c < Min(left) => c =< headSlot
    IN  /\ batch # NoBatch
        /\ batch' = NoBatch
        /\ \/ /\ headSlot' = IF parentKnown THEN Max(left) ELSE headSlot
              /\ UNCHANGED fetchFaults
           \/ /\ fetchFaults < MaxFetchFaults
              /\ fetchFaults' = fetchFaults + 1
              /\ UNCHANGED headSlot
        /\ UNCHANGED <<machines, ticking, loopAt, fetcher, flying, fetchedData, consuming,
                       ctxDone, stopped>>

ConsumerEnds ==
    /\ consuming /\ batch = NoBatch /\ fetchedData = <<>> /\ loopAt = "closed"
    /\ consuming' = FALSE
    /\ UNCHANGED <<machines, ticking, loopAt, fetcher, flying, fetchedData, batch, headSlot,
                   ctxDone, stopped, fetchFaults>>

\* The service is stopped: its context is the parent of the queue's.
StopSync ==
    /\ ~stopped
    /\ stopped' = TRUE /\ ctxDone' = TRUE
    /\ UNCHANGED <<machines, ticking, loopAt, fetcher, flying, fetchedData, batch, consuming,
                   headSlot, fetchFaults>>

QueueStep == QueueStart \/ CheckHighest \/ (\E s \in DOMAIN machines : Visit(s)) \/ TickDone
QueueEnd == LoopEnds \/ CloseQueue
Consumer == Consume \/ ProcessFetchedData \/ ConsumerEnds

QueueNext ==
    \/ QueueStep \/ Tick \/ QueueEnd \/ FetcherQuits \/ Consumer \/ StopSync
    \/ \E s \in DOMAIN flying, a \in {"blocks", "none", "error"} : OnDataReceivedEvent(s, a)

\* Goroutines run when they can; a select whose channel is ready again and again
\* takes it in the end, for it chooses at random.
QueueFairness ==
    /\ WF_queueVars(QueueStep) /\ WF_queueVars(FetcherQuits) /\ WF_queueVars(Consumer)
    /\ SF_queueVars(QueueEnd)

QueueSpec == QueueInit /\ [][QueueNext]_queueVars
QueueFairSpec == QueueSpec /\ QueueFairness

-------------------------------------------------------------------------------
(* Properties. *)

QueueTypeOK ==
    /\ \A s \in DOMAIN machines :
         machines[s].state \in MachineStates /\ machines[s].blocks \subseteq ChainSlots
    /\ Cardinality(DOMAIN machines) =< LookaheadSteps
    /\ loopAt \in {"start", "check", "select", "tick", "exit", "closed"}
    /\ fetcher \in {"new", "runs", "quit"}
    /\ \A s \in DOMAIN flying : flying[s] \in Nat \ {0}
    /\ Len(fetchedData) =< 1
    /\ headSlot \in ChainSlots \cup {0}
    /\ {consuming, ctxDone, stopped} \subseteq BOOLEAN

\* The tick visits the keys it found when it began; each of them still has its
\* machine when its turn comes (q.smm.machines[key] is used without a test).
TickedMachineExists == ticking \subseteq DOMAIN machines

\* A scheduled machine has a request on its way, so an answer will move it on,
\* although windows are replaced while requests are on their way.
ScheduledHasRequest ==
    \A s \in DOMAIN machines :
        machines[s].state = "Scheduled" /\ fetcher = "runs" => s \in DOMAIN flying

\* The sliding window never moves past a block: the first block after the head
\* is in the range of a machine, or all machines are still before it.
WindowHoldsNext ==
    LET next == {c \in ChainSlots : c > headSlot}
    IN  next # {} =>
          \/ \E s \in DOMAIN machines : Min(next) \in s..(s + BlocksPerRequest - 1)
          \/ \A s \in DOMAIN machines : s < Min(next)

\* A queue that closes by itself has brought the head to the finalized slot of
\* the peers.
SyncedWhenClosed == loopAt = "closed" /\ ~stopped => headSlot >= BestFinalizedSlot

===============================================================================
