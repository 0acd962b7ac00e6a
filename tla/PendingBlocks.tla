----------------------------- MODULE PendingBlocks -----------------------------
(* The queue of blocks that wait for their parent or their slot in regular     *)
(* sync (beacon-chain/sync/pending_blocks_queue.go): the goroutine that walks   *)
(* over the queue, the validation and the processing of gossip blocks, the     *)
(* requests for missing parents, expiring cache entries and resyncs.            *)
(*                                                                             *)
(* The chain service is the environment: it stores a block whose parent it has,*)
(* that is valid and descends from the finalized block.                        *)
EXTENDS Integers, Sequences, FiniteSets, Functions

CONSTANTS
    PBlocks,            \* block roots; a parent is smaller than its children
    PParent, PSlot,     \* the parent of a block, in an earlier slot
    PInvalid,           \* blocks that fail the state transition
    PSlotsPerEpoch,
    PLastSlot,          \* bound on the clock
    MaxBlocksPerSlot,   \* maxBlocksPerSlot
    MaxPendFaults,      \* bound on rounds without an answer, expired entries, resyncs
    PWatched            \* the block that WaitsEnd is about

PGenesis == 0

ASSUME PendAssumption ==
    /\ PBlocks \in SUBSET Nat /\ PGenesis \in PBlocks
    /\ PParent \in [PBlocks -> PBlocks] /\ PSlot \in [PBlocks -> Nat]
    /\ PParent[PGenesis] = PGenesis
    /\ \A b \in PBlocks \ {PGenesis} : PParent[b] < b /\ PSlot[PParent[b]] < PSlot[b]
    /\ PInvalid \subseteq PBlocks \ {PGenesis}
    /\ PSlotsPerEpoch \in Nat \ {0}
    /\ {PLastSlot, MaxBlocksPerSlot, MaxPendFaults} \subseteq Nat

PSlots == {PSlot[b] : b \in PBlocks}

VARIABLES
    slotToPendingBlocks,    \* [PSlots -> Seq(PBlocks)]
    seenPendingBlocks,
    badBlocks,              \* badBlockCache
    stored,                 \* blocks in the database
    finalizedBlock,
    seenBlockSlots,         \* seenBlockCache: slots whose proposer's block has been taken
    currentSlot,
    locked,                 \* pendingQueueLock is held by a goroutine that has returned
    walk,                   \* the goroutine of processPendingBlocks
    gossip,                 \* the goroutine of a gossip block
    lost, drops

pendVars == <<slotToPendingBlocks, seenPendingBlocks, badBlocks, stored, finalizedBlock,
              seenBlockSlots, currentSlot, locked, walk, gossip, lost, drops>>

PAncestors[b \in PBlocks] ==
    IF b = PGenesis THEN {b} ELSE {b} \cup PAncestors[PParent[b]]

EpochOf(slot) == slot \div PSlotsPerEpoch

Queued(b) == b \in Range(slotToPendingBlocks[PSlot[b]])

\* validateBeaconBlock: the signature and the proposer are right, so what is left
\* is VerifyBlkDescendant of the parent.
Validated(b) == finalizedBlock \in PAncestors[PParent[b]]

\* ReceiveBlock stores the block.
Accepted(b) == Validated(b) /\ b \notin PInvalid /\ PParent[b] \in stored

\* The entry of a slot expires after pendingBlockExpTime, an epoch.
MayExpire(slot) == currentSlot >= slot + PSlotsPerEpoch

-------------------------------------------------------------------------------
(* The helpers of the queue. *)

\* Numbers in ascending order.
Ascending(S) ==
    [n \in 1 .. Cardinality(S) |-> CHOOSE i \in S : Cardinality({j \in S : j < i}) = n - 1]

\* The queue of a slot without the blocks of D.
Without(queue, D) ==
    LET kept == Ascending({i \in DOMAIN queue : queue[i] \notin D})
    IN  [n \in DOMAIN kept |-> queue[kept[n]]]

\* deleteBlockFromPendingQueue: the block is seen no longer only when others of
\* its slot are left.
Deleted(queue, b) == [queue EXCEPT ![PSlot[b]] = Without(@, {b})]
StillSeen(queue, seen, b) ==
    IF Range(queue[PSlot[b]]) \subseteq {b} THEN seen ELSE seen \ {b}

\* Mutant: a block already seen is queued again.
InsertAgain(b) ==
    /\ ~locked
    /\ slotToPendingBlocks' = [slotToPendingBlocks EXCEPT ![PSlot[b]] = Append(@, b)]
    /\ seenPendingBlocks' = seenPendingBlocks \cup {b}

\* Mutant: the block is filed under the slot it arrived in.
InsertAtNow(b) ==
    /\ ~locked
    /\ slotToPendingBlocks' =
          IF b \in seenPendingBlocks \/ Len(slotToPendingBlocks[currentSlot]) >= MaxBlocksPerSlot
          THEN slotToPendingBlocks
          ELSE [slotToPendingBlocks EXCEPT ![currentSlot] = Append(@, b)]
    /\ seenPendingBlocks' = seenPendingBlocks \cup {b}

\* insertBlockToPendingQueue: a block over the limit of its slot is seen but not
\* queued.
InsertBlockToPendingQueue(b) ==
    LET queue == slotToPendingBlocks[PSlot[b]]
    IN  /\ ~locked
        /\ slotToPendingBlocks' =
              IF b \in seenPendingBlocks \/ Len(queue) >= MaxBlocksPerSlot
              THEN slotToPendingBlocks
              ELSE [slotToPendingBlocks EXCEPT ![PSlot[b]] = Append(@, b)]
        /\ seenPendingBlocks' = seenPendingBlocks \cup {b}

\* validatePendingSlots deletes the blocks that are not after the finalized
\* epoch, and their descendants if it comes to them later: the slots are in the
\* order of a map.
Before(order, s, t) == \E i, j \in DOMAIN order : i < j /\ order[i] = s /\ order[j] = t

Old(order) ==
    LET old[b \in PBlocks] ==
            /\ Queued(b)
            /\ \/ /\ Before(order, PSlot[PParent[b]], PSlot[b])
                  /\ old[PParent[b]]
               \/ /\ EpochOf(PSlot[finalizedBlock]) > 0
                  /\ EpochOf(PSlot[b]) <= EpochOf(PSlot[finalizedBlock])
    IN  {b \in PBlocks : old[b]}

\* Of a slot that is emptied the block deleted last is still seen.
ValidatePendingSlots(order) ==
    LET old == Old(order)
        emptied == {s \in Range(order) : Range(slotToPendingBlocks[s]) \subseteq old}
        LastOf(queue) == queue[Len(queue)]
    IN  /\ slotToPendingBlocks' = [s \in PSlots |-> Without(slotToPendingBlocks[s], old)]
        /\ seenPendingBlocks' =
              seenPendingBlocks \ (old \ {LastOf(slotToPendingBlocks[s]) : s \in emptied})

-------------------------------------------------------------------------------
(* processPendingBlocks.  The slots and the blocks of a slot are copies.       *)

IdleWalk == [pc |-> "idle", peers |-> FALSE, slots |-> <<>>, blocks |-> <<>>,
             inQueue |-> FALSE, asked |-> {}]
IdleGossip == [pc |-> "idle", block |-> PGenesis]

PendInit ==
    /\ slotToPendingBlocks = [s \in PSlots |-> <<>>]
    /\ seenPendingBlocks = {}
    /\ badBlocks = {}
    /\ stored = {PGenesis}
    /\ finalizedBlock = PGenesis
    /\ seenBlockSlots = {}
    /\ currentSlot = 0
    /\ locked = FALSE
    /\ walk = IdleWalk
    /\ gossip = IdleGossip
    /\ lost = 0
    /\ drops = 0

Walking(pc) == walk.pc = pc
WalkBlock == walk.blocks[1]
NextBlock == [walk EXCEPT !.pc = "block", !.blocks = Tail(@), !.inQueue = FALSE]
UnchangedChain == UNCHANGED <<stored, finalizedBlock, currentSlot>>

\* The peers connected, and validatePendingSlots.
WalkStart ==
    /\ Walking("idle") /\ ~locked
    /\ \E peers \in BOOLEAN :
          /\ peers \/ lost + drops < MaxPendFaults
          /\ lost' = IF peers THEN lost ELSE lost + 1
          /\ walk' = [IdleWalk EXCEPT !.pc = "slots", !.peers = peers]
    /\ LET slots == {s \in PSlots : slotToPendingBlocks[s] # <<>>}
       IN  \E order \in Injection(1 .. Cardinality(slots), slots) : ValidatePendingSlots(order)
    /\ UnchangedChain
    /\ UNCHANGED <<badBlocks, seenBlockSlots, locked, gossip, drops>>

\* sortedPendingSlots
WalkSlots ==
    /\ Walking("slots") /\ ~locked
    /\ walk' = [walk EXCEPT !.pc = "block",
                 !.slots = Ascending({s \in PSlots : slotToPendingBlocks[s] # <<>>})]
    /\ UnchangedChain
    /\ UNCHANGED <<slotToPendingBlocks, seenPendingBlocks, badBlocks, seenBlockSlots, locked,
                   gossip, lost, drops>>

\* The next slot, unless it is in the future, ...
WalkSlot ==
    /\ Walking("block") /\ walk.blocks = <<>>
    /\ IF walk.slots = <<>>
       THEN walk' = [walk EXCEPT !.pc = "request"]
       ELSE /\ Head(walk.slots) <= currentSlot => ~locked
            /\ walk' = [walk EXCEPT
                  !.slots = Tail(@),
                  !.blocks = IF Head(walk.slots) > currentSlot THEN <<>>
                             ELSE slotToPendingBlocks[Head(walk.slots)]]
    /\ UnchangedChain
    /\ UNCHANGED <<slotToPendingBlocks, seenPendingBlocks, badBlocks, seenBlockSlots, locked,
                   gossip, lost, drops>>

\* ... or the next block of the slot: is its parent in the queue?
WalkRead ==
    /\ Walking("block") /\ walk.blocks # <<>> /\ ~locked
    /\ walk' = [walk EXCEPT !.pc = "check",
                            !.inQueue = PParent[WalkBlock] \in seenPendingBlocks]
    /\ UnchangedChain
    /\ UNCHANGED <<slotToPendingBlocks, seenPendingBlocks, badBlocks, seenBlockSlots, locked,
                   gossip, lost, drops>>

\* Mutant: the parent is not asked for.
WalkCheckOnly ==
    /\ Walking("check")
    /\ walk' = IF WalkBlock \in badBlocks THEN [walk EXCEPT !.pc = "drop"]
               ELSE IF PParent[WalkBlock] \in stored THEN [walk EXCEPT !.pc = "process"]
               ELSE NextBlock
    /\ UnchangedChain
    /\ UNCHANGED <<slotToPendingBlocks, seenPendingBlocks, badBlocks, seenBlockSlots, locked,
                   gossip, lost, drops>>

\* A bad block goes, the missing parent is asked for, and a block whose parent
\* is in the database is processed.
WalkCheck ==
    LET parent == PParent[WalkBlock]
        parentIsBad == parent \in badBlocks
        inDB == parent \in stored
    IN  /\ Walking("check")
        /\ badBlocks' = IF parentIsBad THEN badBlocks \cup {WalkBlock} ELSE badBlocks
        /\ walk' = IF parentIsBad \/ WalkBlock \in badBlocks
                   THEN [walk EXCEPT !.pc = "drop"]
                   ELSE IF inDB THEN [walk EXCEPT !.pc = "process"]
                   ELSE IF ~walk.inQueue /\ walk.peers
                   THEN [NextBlock EXCEPT !.asked = @ \cup {parent}]
                   ELSE NextBlock
        /\ UnchangedChain
        /\ UNCHANGED <<slotToPendingBlocks, seenPendingBlocks, seenBlockSlots, locked, gossip,
                       lost, drops>>

\* validateBeaconBlock and ReceiveBlock.  A bad block is left to the next walk.
WalkProcess ==
    /\ Walking("process")
    /\ IF Accepted(WalkBlock)
       THEN /\ stored' = stored \cup {WalkBlock}
            /\ seenBlockSlots' = seenBlockSlots \cup {PSlot[WalkBlock]}
            /\ walk' = [walk EXCEPT !.pc = "delete"]
            /\ UNCHANGED badBlocks
       ELSE /\ badBlocks' = badBlocks \cup {WalkBlock}
            /\ walk' = NextBlock
            /\ UNCHANGED <<stored, seenBlockSlots>>
    /\ UNCHANGED <<slotToPendingBlocks, seenPendingBlocks, finalizedBlock, currentSlot, locked,
                   gossip, lost, drops>>

\* The deletion of a bad or of a processed block.
WalkDelete ==
    /\ Walking("drop") \/ Walking("delete")
    /\ ~locked
    /\ slotToPendingBlocks' = Deleted(slotToPendingBlocks, WalkBlock)
    /\ seenPendingBlocks' = StillSeen(slotToPendingBlocks, seenPendingBlocks, WalkBlock)
    /\ walk' = NextBlock
    /\ UnchangedChain
    /\ UNCHANGED <<badBlocks, seenBlockSlots, locked, gossip, lost, drops>>

\* The entry expires before deleteBlockFromPendingQueue replaces it.  The error
\* ends the walk, after a processed block with the lock held.
WalkDeleteFails ==
    /\ Walking("drop") \/ Walking("delete")
    /\ ~locked /\ lost + drops < MaxPendFaults /\ MayExpire(PSlot[WalkBlock])
    /\ ~(Range(slotToPendingBlocks[PSlot[WalkBlock]]) \subseteq {WalkBlock})
    /\ slotToPendingBlocks' = [slotToPendingBlocks EXCEPT ![PSlot[WalkBlock]] = <<>>]
    /\ locked' = Walking("delete")
    /\ drops' = drops + 1
    /\ walk' = IdleWalk
    /\ UnchangedChain
    /\ UNCHANGED <<seenPendingBlocks, badBlocks, seenBlockSlots, gossip, lost>>

\* sendBatchRootRequest: a peer answers with some of the blocks ...
WalkReceive ==
    /\ Walking("request")
    /\ \E b \in walk.asked \ seenPendingBlocks : InsertBlockToPendingQueue(b)
    /\ UnchangedChain
    /\ UNCHANGED <<badBlocks, seenBlockSlots, locked, walk, gossip, lost, drops>>

\* ... until none is left or the tries are used up.
WalkEnd ==
    /\ Walking("request")
    /\ walk.asked \subseteq seenPendingBlocks \/ lost + drops < MaxPendFaults
    /\ lost' = IF walk.asked \subseteq seenPendingBlocks THEN lost ELSE lost + 1
    /\ walk' = IdleWalk
    /\ UnchangedChain
    /\ UNCHANGED <<slotToPendingBlocks, seenPendingBlocks, badBlocks, seenBlockSlots, locked,
                   gossip, drops>>

-------------------------------------------------------------------------------
(* validateBeaconBlockPubSub, and beaconBlockSubscriber for an accepted block. *)

\* The checks.  The block may be up to two slots early.
GossipValidate(b) ==
    /\ gossip.pc = "idle"
    /\ PSlot[b] \notin seenBlockSlots
    /\ b \notin stored
    /\ IF PParent[b] \in badBlocks
       THEN badBlocks' = badBlocks \cup {b} /\ UNCHANGED gossip
       ELSE /\ ~locked /\ b \notin seenPendingBlocks
            /\ PSlot[b] <= currentSlot + 2
            /\ PSlot[b] > EpochOf(PSlot[finalizedBlock]) * PSlotsPerEpoch
            /\ IF PSlot[b] > currentSlot \/ PParent[b] \notin stored
               THEN gossip' = [pc |-> "insert", block |-> b] /\ UNCHANGED badBlocks
               ELSE IF Validated(b)
               THEN gossip' = [pc |-> "receive", block |-> b] /\ UNCHANGED badBlocks
               ELSE badBlocks' = badBlocks \cup {b} /\ UNCHANGED gossip
    /\ UnchangedChain
    /\ UNCHANGED <<slotToPendingBlocks, seenPendingBlocks, seenBlockSlots, locked, walk, lost,
                   drops>>

GossipInsert ==
    /\ gossip.pc = "insert"
    /\ InsertBlockToPendingQueue(gossip.block)
    /\ gossip' = IdleGossip
    /\ UnchangedChain
    /\ UNCHANGED <<badBlocks, seenBlockSlots, locked, walk, lost, drops>>

\* Mutant: the subscriber trusts the validation.
GossipStore ==
    /\ gossip.pc = "receive"
    /\ seenBlockSlots' = seenBlockSlots \cup {PSlot[gossip.block]}
    /\ stored' = stored \cup {gossip.block}
    /\ gossip' = IdleGossip
    /\ UNCHANGED <<slotToPendingBlocks, seenPendingBlocks, badBlocks, finalizedBlock,
                   currentSlot, locked, walk, lost, drops>>

\* The subscriber: setSeenBlockIndexSlot and ReceiveBlock.
GossipReceive ==
    /\ gossip.pc = "receive"
    /\ seenBlockSlots' = seenBlockSlots \cup {PSlot[gossip.block]}
    /\ IF Accepted(gossip.block)
       THEN stored' = stored \cup {gossip.block} /\ UNCHANGED badBlocks
       ELSE badBlocks' = badBlocks \cup {gossip.block} /\ UNCHANGED stored
    /\ gossip' = IdleGossip
    /\ UNCHANGED <<slotToPendingBlocks, seenPendingBlocks, finalizedBlock, currentSlot, locked,
                   walk, lost, drops>>

-------------------------------------------------------------------------------
(* The environment. *)

PendTick ==
    /\ currentSlot < PLastSlot
    /\ currentSlot' = currentSlot + 1
    /\ UNCHANGED <<slotToPendingBlocks, seenPendingBlocks, badBlocks, stored, finalizedBlock,
                   seenBlockSlots, locked, walk, gossip, lost, drops>>

\* A checkpoint is finalized two epochs later at the earliest.
PendFinalize(b) ==
    /\ b \in stored /\ finalizedBlock \in PAncestors[b]
    /\ EpochOf(PSlot[b]) > EpochOf(PSlot[finalizedBlock])
    /\ EpochOf(currentSlot) >= EpochOf(PSlot[b]) + 2
    /\ finalizedBlock' = b
    /\ UNCHANGED <<slotToPendingBlocks, seenPendingBlocks, badBlocks, stored, seenBlockSlots,
                   currentSlot, locked, walk, gossip, lost, drops>>

\* An entry of the cache has expired, an epoch after its last block came.
Expire(s) ==
    /\ lost + drops < MaxPendFaults
    /\ MayExpire(s)
    /\ slotToPendingBlocks[s] # <<>>
    /\ slotToPendingBlocks' = [slotToPendingBlocks EXCEPT ![s] = <<>>]
    /\ drops' = drops + 1
    /\ UnchangedChain
    /\ UNCHANGED <<seenPendingBlocks, badBlocks, seenBlockSlots, locked, walk, gossip, lost>>

\* resyncIfBehind: clearPendingSlots
ClearPendingSlots ==
    /\ lost + drops < MaxPendFaults /\ ~locked
    /\ slotToPendingBlocks' = [s \in PSlots |-> <<>>]
    /\ seenPendingBlocks' = {}
    /\ drops' = drops + 1
    /\ UnchangedChain
    /\ UNCHANGED <<badBlocks, seenBlockSlots, locked, walk, gossip, lost>>

WalkNext ==
    \/ WalkStart \/ WalkSlots \/ WalkSlot \/ WalkRead \/ WalkCheck \/ WalkProcess
    \/ WalkDelete \/ WalkDeleteFails \/ WalkReceive \/ WalkEnd

PendNext ==
    \/ WalkNext
    \/ \E b \in PBlocks : GossipValidate(b) \/ PendFinalize(b)
    \/ GossipInsert \/ GossipReceive
    \/ PendTick
    \/ \E s \in PSlots : Expire(s)
    \/ ClearPendingSlots

\* RunEvery starts a walk again and again, and time passes.
PendSpec ==
    /\ PendInit /\ [][PendNext]_pendVars
    /\ WF_pendVars(WalkNext) /\ WF_pendVars(GossipInsert) /\ WF_pendVars(PendTick)

-------------------------------------------------------------------------------
(* Properties. *)

PendTypeOK ==
    /\ slotToPendingBlocks \in [PSlots -> Seq(PBlocks)]
    /\ \A s \in PSlots : \A b \in Range(slotToPendingBlocks[s]) : PSlot[b] = s
    /\ {seenPendingBlocks, badBlocks, stored} \subseteq SUBSET PBlocks
    /\ finalizedBlock \in stored
    /\ seenBlockSlots \subseteq PSlots /\ currentSlot \in 0 .. PLastSlot
    /\ locked \in BOOLEAN
    /\ walk.slots \in Seq(PSlots) /\ walk.blocks \in Seq(PBlocks)
    /\ walk.asked \subseteq PBlocks /\ gossip.block \in PBlocks
    /\ {lost, drops, lost + drops} \subseteq 0 .. MaxPendFaults

\* A block is in the queue at most once, no slot has more blocks than the limit,
\* and the map of seen blocks has every block of the queue.
QueuedOnce ==
    \A s \in PSlots :
        LET queue == slotToPendingBlocks[s]
        IN  /\ Len(queue) <= MaxBlocksPerSlot
            /\ Cardinality(Range(queue)) = Len(queue)
            /\ Range(queue) \subseteq seenPendingBlocks

\* A block that has been found bad is not stored later, whichever way it comes.
\* The one exception: after a finalization a second copy of a block that is stored
\* already may be found bad, and with it its children.
BadStaysOut ==
    [][\A b \in badBlocks : b \in stored' \ stored =>
           finalizedBlock # PGenesis /\ PParent[b] \in badBlocks \cap stored]_pendVars

===============================================================================
