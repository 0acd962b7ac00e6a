----------------------------- MODULE ChainService -----------------------------
(* The blockchain service of the beacon node (beacon-chain/blockchain): the    *)
(* processing of received blocks and of batches of initial sync, the justified *)
(* and finalized checkpoints in memory and in the database, the fork choice    *)
(* store as the service fills and prunes it, the head, the routine that        *)
(* updates the head after attestations, errors half way, crashes and restarts. *)
(*                                                                             *)
(* The block tree is a constant: for every block its parent, its slot and the  *)
(* justified and finalized checkpoints of its post state, which the state      *)
(* transition computes.  The goroutines that receive blocks take no common     *)
(* lock.  Weights are not kept: Head may pick any viable leaf.  The previous   *)
(* checkpoints, which are only reported, the caches of committees and the      *)
(* events sent to other services are left out.                                 *)
EXTENDS Integers, Sequences, FiniteSets

CONSTANTS
    Blocks,         \* block roots, numbered so that a parent precedes its children
    Parent,         \* [Blocks -> Blocks]; the genesis block is its own parent
    Slot,           \* [Blocks -> Nat]
    J,              \* [Blocks -> Checkpoints], justified in the post state
    F,              \* [Blocks -> Checkpoints], finalized in the post state
    SlotsPerEpoch,
    Workers,        \* goroutines that call ReceiveBlock or ReceiveBlockBatch
    Timely,         \* the feature flag UpdateHeadTimely
    InitSyncCap,    \* initialSyncBlockCacheSize
    PruneThreshold, \* defaultPruneThreshold
    Resync,         \* the attestation routine may run during initial sync
    MaxFaults       \* bound on failed operations, evictions and restarts

Genesis == 0
ZeroHash == -1      \* the root of the checkpoints of the genesis state
Attester == "attestations"      \* processAttestationsRoutine

Checkpoints == [epoch : Nat, root : Blocks \cup {ZeroHash}]
GenesisCheckpoint == [epoch |-> 0, root |-> ZeroHash]

ASSUME TreeAssumption ==
    /\ Genesis \in Blocks /\ Blocks \subseteq Nat
    /\ Parent \in [Blocks -> Blocks] /\ Slot \in [Blocks -> Nat]
    /\ Parent[Genesis] = Genesis /\ Slot[Genesis] = 0
    /\ \A b \in Blocks \ {Genesis} : Parent[b] < b /\ Slot[Parent[b]] < Slot[b]
    /\ J \in [Blocks -> Checkpoints] /\ F \in [Blocks -> Checkpoints]
    /\ J[Genesis] = GenesisCheckpoint /\ F[Genesis] = GenesisCheckpoint
    /\ SlotsPerEpoch \in Nat \ {0} /\ InitSyncCap \in Nat /\ PruneThreshold \in Nat
    /\ MaxFaults \in Nat
    /\ Timely \in BOOLEAN /\ Resync \in BOOLEAN
    /\ Attester \notin Workers

VARIABLES
    justified,      \* justifiedCheckpt
    best,           \* bestJustifiedCheckpt
    finalized,      \* finalizedCheckpt
    head,           \* root of the head
    initSync,       \* initSyncBlocks: blocks of batches not yet in the database
    fc,             \* ForkChoiceStore: its nodes in order of insertion, with their
                    \* epochs and whether they have a parent in the array
    hot,            \* roots of the states in the caches of the state generator
    dbBlocks,       \* blocks in the database
    dbSummaries,    \* state summaries in the database
    dbJustified,    \* justified checkpoint in the database
    dbFinalized,    \* finalized checkpoint in the database
    pr,             \* the goroutines: where they are and their local variables
    fails, crashes

memory == <<justified, best, finalized, head, initSync, fc, hot>>
database == <<dbBlocks, dbSummaries, dbJustified, dbFinalized>>
vars == <<memory, database, pr, fails, crashes>>

Procs == Workers \cup {Attester}

Nodes == {fc[i].root : i \in DOMAIN fc}
Linked == {fc[i].root : i \in {k \in DOMAIN fc : fc[k].linked}}

-------------------------------------------------------------------------------
(* The block tree. *)

Ancestors[b \in Blocks] ==
    IF b = Genesis THEN {Genesis} ELSE {b} \cup Ancestors[Parent[b]]

StartSlot(epoch) == epoch * SlotsPerEpoch

\* ensureRootNotZeros
EnsureRootNotZeros(r) == IF r = ZeroHash THEN Genesis ELSE r

\* The block of the chain of r at slot s, or the last one before it.
AncestorAt(r, s) ==
    CHOOSE a \in Ancestors[r] :
        /\ Slot[a] <= s
        /\ \A c \in Ancestors[r] : Slot[c] <= s => Slot[c] <= Slot[a]

\* The chain of b contains the checkpoint c.
Extends(b, c) == EnsureRootNotZeros(c.root) \in Ancestors[b]

\* Fewer than a third of the validators are slashable: a checkpoint justified at
\* or after the epoch of a finalized one descends from it, and its chain has that
\* block at the start of that epoch.
ASSUME SafeVotes ==
    \A b, c \in Blocks : J[c].epoch >= F[b].epoch =>
        LET chain == EnsureRootNotZeros(J[c].root)
        IN  /\ Extends(chain, F[b])
            /\ F[b].epoch > 0 => AncestorAt(chain, StartSlot(F[b].epoch)) = F[b].root

\* A checkpoint that is finalized in one block was justified in some block, and is
\* not later than the one justified in the same block.
ASSUME FinalizedWasJustified ==
    \A b \in Blocks : F[b].epoch =< J[b].epoch /\ \E c \in Blocks : F[b] = J[c]

-------------------------------------------------------------------------------
(* Look-ups. *)

Above(r, s) == {a \in Ancestors[r] : Slot[a] > s}

\* ancestor: through the fork choice store, else block by block through the
\* database and the blocks of initial sync; otherwise it is an error.
HasAncestor(r, s) ==
    \/ r \in Linked /\ Above(r, s) \subseteq Linked
    \/ Above(r, s) \cup {AncestorAt(r, s)} \subseteq dbBlocks \cup initSync

\* StateByRoot: a cached state, or one replayed from a state of the caches or
\* the genesis state with the blocks of the database.
HasStateByRoot(r, blocks) ==
    \/ r \in hot
    \/ \E a \in Ancestors[r] : /\ a \in hot \cup {Genesis}
                               /\ Above(r, Slot[a]) \subseteq blocks

\* VerifyBlkDescendant
VerifyBlkDescendant(r) ==
    LET fRoot == EnsureRootNotZeros(finalized.root)
    IN  /\ fRoot \in dbBlocks
        /\ HasAncestor(r, Slot[fRoot])
        /\ AncestorAt(r, Slot[fRoot]) = fRoot

\* verifyBlkPreState, but for the flush of the blocks of initial sync.
VerifyBlkPreState(b) ==
    /\ Parent[b] \in dbSummaries \cup dbBlocks
    /\ VerifyBlkDescendant(Parent[b])

\* Mutant: a parent with a state summary needs no flush.
NeedsFlushNoSummary(b) == Parent[b] \notin hot \cup {Genesis} \cup dbSummaries

\* Its flush: SaveBlocks(getInitSyncBlocks()) and clearInitSyncBlocks, when the
\* state generator has no state of the parent.
NeedsFlush(b) == Parent[b] \notin hot \cup {Genesis}

BlocksForPreState(b) == IF NeedsFlush(b) THEN dbBlocks \cup initSync ELSE dbBlocks

FlushForPreState(b) ==
    /\ dbBlocks' = BlocksForPreState(b)
    /\ initSync' = IF NeedsFlush(b) THEN {} ELSE initSync

-------------------------------------------------------------------------------
(* The fork choice store. *)

\* Blocks in the order of their numbers, a parent before its children.
InOrder(blocks) ==
    [i \in 1..Cardinality(blocks) |->
        CHOOSE b \in blocks : Cardinality({c \in blocks : c < b}) = i - 1]

\* ProcessBlock of the fork choice store, for some blocks in order: those it has
\* are passed over, and a node is linked when its parent is already there.
ProcessBlocks(nodes, blocks, j, f) ==
    LET roots == {nodes[i].root : i \in DOMAIN nodes}
        new == InOrder(blocks \ roots)
    IN  nodes \o [i \in DOMAIN new |->
            [root |-> new[i], j |-> j.epoch, f |-> f.epoch,
             linked |-> new[i] # Genesis /\ Parent[new[i]] \in roots \cup blocks]]

\* fillInForkChoiceMissingBlocks: the ancestors of b in the database, down to a
\* node of the store or to the finalized slot.
MissingBlocks(nodes, b) ==
    LET roots == {nodes[i].root : i \in DOMAIN nodes}
        fSlot == StartSlot(finalized.epoch)
    IN  {a \in Ancestors[b] \ {b} :
            /\ \A c \in Ancestors[b] : Slot[c] > Slot[a] => Slot[c] > fSlot
            /\ \A c \in Ancestors[b] \ {b} :
                  Slot[c] >= Slot[a] => c \in dbBlocks \ roots}

\* insertBlockToForkChoiceStore: the missing ancestors get the epochs of b.
InsertBlock(nodes, b, j, f) == ProcessBlocks(nodes, MissingBlocks(nodes, b) \cup {b}, j, f)

\* The nodes from which the parent links of the store lead to root.
InSubtree(nodes, root) ==
    LET linked == {nodes[i].root : i \in {k \in DOMAIN nodes : nodes[k].linked}}
    IN  {nodes[i].root : i \in {k \in DOMAIN nodes :
            /\ root \in Ancestors[nodes[k].root]
            /\ Above(nodes[k].root, Slot[root]) \subseteq linked}}

\* Head: a viable node below the justified one with no viable node below it.
Heads(nodes, j, f, root) ==
    LET tree == InSubtree(nodes, root)
        viable == {nodes[i].root : i \in {k \in DOMAIN nodes :
                      /\ nodes[k].root \in tree
                      /\ j.epoch \in {0, nodes[k].j}
                      /\ f.epoch \in {0, nodes[k].f}}}
    IN  {n \in viable : \A m \in viable : n \in Ancestors[m] => m = n}

\* prune: the nodes inserted before the finalized one go.
PruneNodes(nodes, fRoot) ==
    LET at == CHOOSE i \in DOMAIN nodes : nodes[i].root = fRoot
        kept == SubSeq(nodes, at, Len(nodes))
        roots == {kept[i].root : i \in DOMAIN kept}
    IN  IF at - 1 < PruneThreshold THEN nodes
        ELSE [i \in DOMAIN kept |->
                [kept[i] EXCEPT !.linked = @ /\ Parent[kept[i].root] \in roots]]

-------------------------------------------------------------------------------
(* A goroutine: the step it is at, the blocks it has still to process, whether *)
(* they are a batch, the variables newFinalized and f of the code, and what is *)
(* next when the blocks of initial sync are saved.                             *)

Steps == {"idle", "saveBlock", "saveState", "insert", "justify", "balances",
          "clear", "saveJustified", "finalize", "newJustified", "flush",
          "saveFinalized", "adopt", "prune", "promote", "readFinalized", "head",
          "batchInsert", "batchSummary", "dead"}

IdleProc == [pc |-> "idle", todo |-> <<>>, batch |-> FALSE, newF |-> FALSE,
             f |-> GenesisCheckpoint, then |-> "idle"]

Blk(p) == pr[p].todo[1]
At(p, pc) == pr[p].pc = pc
Goto(p, pc) == pr' = [pr EXCEPT ![p].pc = pc]
Return(p) == pr' = [pr EXCEPT ![p] = IdleProc]
Idle(p) == pr[p] = IdleProc
Syncing == \E p \in Workers : pr[p].batch

Bounds == <<fails, crashes>>

\* The step after updateFinalized and, for a block of a batch, the next block.
NextOfBatch(p) ==
    IF Len(pr[p].todo) = 1 THEN Return(p)
    ELSE pr' = [pr EXCEPT ![p].pc = "batchInsert", ![p].todo = Tail(@)]

FlushThenSave(p) == pr' = [pr EXCEPT ![p].pc = "flush", ![p].then = "saveFinalized"]

\* The rest of updateFinalized: only without the flag is the checkpoint taken
\* into memory here.
AfterSaveFinalized(p) ==
    IF ~Timely THEN Goto(p, "adopt")
    ELSE IF pr[p].batch THEN NextOfBatch(p) ELSE Goto(p, "prune")

\* The caller of updateHead goes on.
AfterHead(p) ==
    IF Timely /\ pr[p].newF THEN FlushThenSave(p) ELSE Return(p)

\* The function goes on with cacheJustifiedStateBalances, and then at "then".
CacheBalancesThen(p, then) ==
    pr' = [pr EXCEPT ![p].pc = "balances", ![p].then = then]

Init ==
    /\ justified = GenesisCheckpoint
    /\ best = GenesisCheckpoint
    /\ finalized = GenesisCheckpoint
    /\ head = Genesis
    /\ initSync = {}
    /\ fc = ProcessBlocks(<<>>, {Genesis}, GenesisCheckpoint, GenesisCheckpoint)
    /\ hot = {}
    /\ dbBlocks = {Genesis}
    /\ dbSummaries = {Genesis}
    /\ dbJustified = GenesisCheckpoint
    /\ dbFinalized = GenesisCheckpoint
    /\ pr = [p \in Procs |-> IdleProc]
    /\ fails = 0
    /\ crashes = 0

-------------------------------------------------------------------------------
(* ReceiveBlock. *)

\* The callers drop a block they have and wait for its parent; getBlockPreState
\* refuses one that does not descend from the finalized block.
ReceiveBlock(p, b) ==
    /\ Idle(p) /\ ~Syncing
    /\ b \notin dbBlocks \cup initSync
    /\ Parent[b] \in dbBlocks \cup initSync
    /\ VerifyBlkPreState(b)
    /\ Slot[b] > StartSlot(finalized.epoch)
    /\ FlushForPreState(b)
    /\ HasStateByRoot(Parent[b], dbBlocks')
    /\ dbSummaries' = dbSummaries \cup (IF Parent[b] \in hot THEN {} ELSE {Parent[b]})
    /\ pr' = [pr EXCEPT ![p].pc = "saveBlock", ![p].todo = <<b>>]
    /\ UNCHANGED <<justified, best, finalized, head, fc, hot, dbJustified, dbFinalized, Bounds>>

\* savePostStateInfo
SaveBlock(p) ==
    /\ At(p, "saveBlock")
    /\ dbBlocks' = dbBlocks \cup {Blk(p)}
    /\ Goto(p, "saveState")
    /\ UNCHANGED <<memory, dbSummaries, dbJustified, dbFinalized, Bounds>>

SaveState(p) ==
    /\ At(p, "saveState")
    /\ dbSummaries' = dbSummaries \cup {Blk(p)}
    /\ hot' = hot \cup {Blk(p)}
    /\ Goto(p, "insert")
    /\ UNCHANGED <<justified, best, finalized, head, initSync, fc,
                   dbBlocks, dbJustified, dbFinalized, Bounds>>

InsertToForkChoice(p) ==
    /\ At(p, "insert")
    /\ fc' = InsertBlock(fc, Blk(p), J[Blk(p)], F[Blk(p)])
    /\ Goto(p, "justify")
    /\ UNCHANGED <<justified, best, finalized, head, initSync, hot, database, Bounds>>

\* shouldUpdateCurrentJustified, when it is not an error.  The clock is late when
\* the current slot is not one of the first of its epoch.
ShouldUpdateCurrentJustified(cp, late) ==
    \/ ~late
    \/ /\ Slot[cp.root] > StartSlot(justified.epoch)
       /\ AncestorAt(cp.root, Slot[EnsureRootNotZeros(justified.root)]) = justified.root

CanCompareJustified(cp, late) ==
    LET jRoot == EnsureRootNotZeros(justified.root)
    IN  late => /\ cp.root \in dbBlocks \cup initSync
                /\ Slot[cp.root] > StartSlot(justified.epoch) =>
                      jRoot \in dbBlocks \cup initSync /\ HasAncestor(cp.root, Slot[jRoot])

\* onBlock from the comparison of the justified epochs, and updateJustified up
\* to the balances, when the clock says early or late.  The error of
\* shouldUpdateCurrentJustified ends the call.
UpdateJustified(p) ==
    LET cp == J[Blk(p)]
    IN  /\ At(p, "justify")
        /\ IF cp.epoch <= justified.epoch
           THEN Goto(p, "finalize") /\ UNCHANGED <<best, justified>>
           ELSE /\ best' = IF cp.epoch > best.epoch THEN cp ELSE best
                /\ \E late \in BOOLEAN :
                      IF ~CanCompareJustified(cp, late)
                      THEN Return(p) /\ UNCHANGED justified
                      ELSE IF ShouldUpdateCurrentJustified(cp, late)
                      THEN justified' = cp /\ CacheBalancesThen(p, "saveJustified")
                      ELSE Goto(p, "saveJustified") /\ UNCHANGED justified
        /\ UNCHANGED <<finalized, head, initSync, fc, hot, database, Bounds>>

\* cacheJustifiedStateBalances saves the blocks of initial sync, ...
SaveInitSyncBlocks(p) ==
    /\ At(p, "balances") \/ At(p, "flush")
    /\ dbBlocks' = dbBlocks \cup initSync
    /\ Goto(p, "clear")
    /\ UNCHANGED <<memory, dbSummaries, dbJustified, dbFinalized, Bounds>>

\* ... clears the cache of them, and needs the justified state; the error of
\* updateHead is only logged.  updateFinalized saves and clears them too.
ClearInitSyncBlocks(p) ==
    /\ At(p, "clear")
    /\ initSync' = {}
    /\ IF pr[p].then = "saveFinalized"
          \/ HasStateByRoot(EnsureRootNotZeros(justified.root), dbBlocks)
       THEN pr' = [pr EXCEPT ![p].pc = pr[p].then, ![p].then = "idle"]
       ELSE IF pr[p].then = "readFinalized" THEN AfterHead(p) ELSE Return(p)
    /\ UNCHANGED <<justified, best, finalized, head, fc, hot, database, Bounds>>

\* SaveJustifiedCheckpoint needs a state summary of the checkpoint.
SaveJustifiedCheckpoint(p) ==
    LET cp == J[Blk(p)]
    IN  /\ At(p, "saveJustified")
        /\ IF EnsureRootNotZeros(cp.root) \in dbSummaries
           THEN dbJustified' = cp /\ Goto(p, "finalize")
           ELSE UNCHANGED dbJustified /\ Return(p)
        /\ UNCHANGED <<memory, dbBlocks, dbSummaries, dbFinalized, Bounds>>

\* Mutant: the checkpoint is taken into memory before it is saved.
FinalizedBeforeSaved(p) ==
    /\ At(p, "finalize")
    /\ IF F[Blk(p)].epoch > finalized.epoch
       THEN finalized' = F[Blk(p)] /\ FlushThenSave(p)
       ELSE Return(p) /\ UNCHANGED finalized
    /\ UNCHANGED <<justified, best, head, initSync, fc, hot, database, Bounds>>

\* newFinalized, and which step comes next.
CheckFinalized(p) ==
    LET newF == F[Blk(p)].epoch > finalized.epoch
    IN  /\ At(p, "finalize")
        /\ IF pr[p].batch
           THEN IF newF THEN FlushThenSave(p) ELSE NextOfBatch(p)
           ELSE pr' = [pr EXCEPT
                    ![p].newF = newF,
                    ![p].pc = IF ~newF THEN "promote"
                              ELSE IF Timely THEN "newJustified" ELSE "flush",
                    ![p].then = IF newF /\ ~Timely THEN "saveFinalized" ELSE @]
        /\ UNCHANGED <<memory, database, Bounds>>

\* SaveFinalizedCheckpoint needs a state summary, and every block of the chain.
SaveFinalizedCheckpoint(p) ==
    LET cp == F[Blk(p)]
    IN  /\ At(p, "saveFinalized")
        /\ IF cp.root \in dbSummaries /\ Ancestors[cp.root] \subseteq dbBlocks
           THEN dbFinalized' = cp /\ AfterSaveFinalized(p)
           ELSE UNCHANGED dbFinalized /\ Return(p)
        /\ UNCHANGED <<memory, dbBlocks, dbSummaries, dbJustified, Bounds>>

\* The finalized checkpoint in memory.
AdoptFinalized(p) ==
    /\ At(p, "adopt")
    /\ finalized' = F[Blk(p)]
    /\ IF pr[p].batch THEN NextOfBatch(p) ELSE Goto(p, IF Timely THEN "promote" ELSE "prune")
    /\ UNCHANGED <<justified, best, head, initSync, fc, hot, database, Bounds>>

\* Prune; an unknown finalized root is an error.
Prune(p) ==
    LET fRoot == F[Blk(p)].root
    IN  /\ At(p, "prune")
        /\ IF fRoot \in Nodes
           THEN /\ fc' = PruneNodes(fc, fRoot)
                /\ IF Timely THEN Return(p) ELSE Goto(p, "newJustified")
           ELSE UNCHANGED fc /\ Return(p)
        /\ UNCHANGED <<justified, best, finalized, head, initSync, hot, database, Bounds>>

\* finalizedImpliesNewJustified
FinalizedImpliesNewJustified(p) ==
    LET cp == J[Blk(p)]
        jRoot == EnsureRootNotZeros(justified.root)
        fSlot == StartSlot(finalized.epoch)
        after == IF Timely THEN "adopt" ELSE "promote"
    IN  /\ At(p, "newJustified")
        /\ IF cp # justified /\ cp.epoch <= justified.epoch /\ ~HasAncestor(jRoot, fSlot)
           THEN Return(p) /\ UNCHANGED justified
           ELSE IF /\ cp # justified
                   /\ cp.epoch > justified.epoch \/ AncestorAt(jRoot, fSlot) # finalized.root
           THEN justified' = cp /\ CacheBalancesThen(p, after)
           ELSE Goto(p, after) /\ UNCHANGED justified
        /\ UNCHANGED <<best, finalized, head, initSync, fc, hot, database, Bounds>>

-------------------------------------------------------------------------------
(* updateHead, by ReceiveBlock and by the attestation routine. *)

\* A slot with attestations in the pool.  While blocks are only received in
\* batches the pool stays empty, unless the node had been synced before.
ProcessAttestations(p) ==
    /\ p = Attester /\ Idle(p)
    /\ Resync \/ ~Syncing
    /\ Goto(p, "promote")
    /\ UNCHANGED <<memory, database, Bounds>>

PromoteBestJustified(p) ==
    /\ At(p, "promote")
    /\ IF best.epoch > justified.epoch
       THEN justified' = best /\ CacheBalancesThen(p, "readFinalized")
       ELSE Goto(p, "readFinalized") /\ UNCHANGED justified
    /\ UNCHANGED <<best, finalized, head, initSync, fc, hot, database, Bounds>>

ReadFinalized(p) ==
    /\ At(p, "readFinalized")
    /\ pr' = [pr EXCEPT ![p].pc = "head", ![p].f = finalized]
    /\ UNCHANGED <<memory, database, Bounds>>

\* The fork choice store of updateHead, made anew when it lacks the justified block.
StoreForHead(root, j, f) ==
    IF root \in Nodes THEN fc ELSE InsertBlock(<<>>, root, j, f)

\* saveHead takes a head whose state summary, block and state it finds.
CanSaveHead(r) == r \in dbSummaries \cap dbBlocks /\ HasStateByRoot(r, dbBlocks)

\* Mutant: the head is looked for from the first node of the store.
HeadOfStore(p) ==
    /\ At(p, "head")
    /\ \E r \in Heads(fc, GenesisCheckpoint, GenesisCheckpoint, fc[1].root) : head' = r
    /\ AfterHead(p)
    /\ UNCHANGED <<justified, best, finalized, initSync, fc, hot, database, Bounds>>

\* The rest of updateHead.  It is an error when no node is viable.
UpdateHead(p) ==
    LET j == justified
        f == pr[p].f
        root == EnsureRootNotZeros(j.root)
    IN  /\ At(p, "head")
        /\ root \in Nodes \cup dbBlocks
        /\ \E nodes \in {StoreForHead(root, j, f)} :
              /\ fc' = nodes
              /\ \/ \E r \in Heads(nodes, j, f, root) :
                       head' = IF CanSaveHead(r) THEN r ELSE head
                 \/ Heads(nodes, j, f, root) = {} /\ UNCHANGED head
        /\ AfterHead(p)
        /\ UNCHANGED <<justified, best, finalized, initSync, hot, database, Bounds>>

\* A store without the justified block, nor the database: nil is dereferenced.
Panic(p) ==
    /\ At(p, "head")
    /\ EnsureRootNotZeros(justified.root) \notin Nodes \cup dbBlocks
    /\ pr' = [q \in Procs |-> [IdleProc EXCEPT !.pc = "dead"]]
    /\ UNCHANGED <<memory, database, Bounds>>

-------------------------------------------------------------------------------
(* ReceiveBlockBatch, by initial sync. *)

\* The blocks after "from" up to "to", in order.
Chain(from, to) == InOrder(Ancestors[to] \ Ancestors[from])

\* isProcessedBlock
IsProcessedBlock(b) ==
    Slot[b] <= StartSlot(finalized.epoch) \/ b \in dbBlocks \cup initSync

\* onBlockBatch: the pre state leaves the hot state cache, the states at the
\* start of an epoch and the last one are kept, and the head is set at once.
ReceiveBlockBatch(p, from, to) ==
    LET chain == Chain(from, to)
        first == chain[1]
    IN  /\ \A w \in Workers : Idle(w)
        /\ p \in Workers
        /\ Resync \/ Idle(Attester)
        /\ from # to /\ from \in Ancestors[to]
        /\ ~(Slot[head] >= Slot[first] /\ IsProcessedBlock(first))
        /\ from \in dbBlocks \cup initSync
        /\ VerifyBlkPreState(first)
        /\ FlushForPreState(first)
        /\ HasStateByRoot(from, dbBlocks')
        /\ \E kept \in {{b \in Ancestors[to] \ Ancestors[from] : Slot[b] % SlotsPerEpoch = 0} \cup {to}} :
              /\ hot' = (IF Slot[from] % SlotsPerEpoch = 0 THEN hot ELSE hot \ {from})
                        \cup kept
              /\ dbSummaries' = dbSummaries \cup kept
                                \cup (IF from \in hot THEN {} ELSE {from})
        /\ head' = to
        /\ pr' = [pr EXCEPT ![p] = [@ EXCEPT !.pc = "batchInsert", !.todo = chain,
                                             !.batch = TRUE]]
        /\ UNCHANGED <<justified, best, finalized, fc, dbJustified, dbFinalized, Bounds>>

\* Mutant: a block of a batch is not kept for the database.
BatchInsertOnly(p) ==
    /\ At(p, "batchInsert")
    /\ fc' = InsertBlock(fc, Blk(p), J[Blk(p)], F[Blk(p)])
    /\ Goto(p, "batchSummary")
    /\ UNCHANGED <<justified, best, finalized, head, initSync, hot, database, Bounds>>

\* handleBlockAfterBatchVerify
BatchInsert(p) ==
    /\ At(p, "batchInsert")
    /\ initSync' = initSync \cup {Blk(p)}
    /\ fc' = InsertBlock(fc, Blk(p), J[Blk(p)], F[Blk(p)])
    /\ Goto(p, "batchSummary")
    /\ UNCHANGED <<justified, best, finalized, head, hot, database, Bounds>>

\* Mutant: initial sync takes every justified checkpoint.
BatchJustifyAlways(p) ==
    /\ At(p, "batchSummary")
    /\ dbSummaries' = dbSummaries \cup {Blk(p)}
    /\ justified' = J[Blk(p)]
    /\ CacheBalancesThen(p, "saveJustified")
    /\ UNCHANGED <<best, finalized, head, initSync, fc, hot, dbBlocks, dbJustified,
                   dbFinalized, Bounds>>

\* ..., with updateJustifiedInitSync, which never delays a checkpoint.
BatchJustify(p) ==
    LET cp == J[Blk(p)]
    IN  /\ At(p, "batchSummary")
        /\ dbSummaries' = dbSummaries \cup {Blk(p)}
        /\ IF Cardinality(initSync) > InitSyncCap
           THEN dbBlocks' = dbBlocks \cup initSync /\ initSync' = {}
           ELSE UNCHANGED <<dbBlocks, initSync>>
        /\ IF cp.epoch > justified.epoch
           THEN justified' = cp /\ CacheBalancesThen(p, "saveJustified")
           ELSE UNCHANGED justified /\ Goto(p, "finalize")
        /\ UNCHANGED <<best, finalized, head, fc, hot, dbJustified, dbFinalized, Bounds>>

-------------------------------------------------------------------------------
(* The environment. *)

\* The steps that begin with an operation that can fail.
Fallible == {"saveBlock", "saveState", "insert", "balances", "saveJustified",
             "newJustified", "flush", "saveFinalized", "prune", "batchInsert",
             "batchSummary"}

\* An operation of the database or of the state transition fails, or the
\* context is cancelled: the call returns with what it has done so far.
Fail(p) ==
    /\ fails + crashes < MaxFaults
    /\ pr[p].pc \in Fallible
    /\ fails' = fails + 1
    /\ Return(p)
    /\ UNCHANGED <<memory, database, crashes>>

\* A state generator that has seen many states since has dropped this one.
Evict(r) ==
    /\ fails + crashes < MaxFaults
    /\ \A p \in Procs : Idle(p)
    /\ r \in hot
    /\ hot' = hot \ {r}
    /\ fails' = fails + 1
    /\ UNCHANGED <<justified, best, finalized, head, initSync, fc, database, pr, crashes>>

\* A database a node can be started from: the states of the finalized and of
\* the justified checkpoint can be replayed.
CanRestart ==
    /\ Ancestors[EnsureRootNotZeros(dbFinalized.root)] \subseteq dbBlocks
    /\ Ancestors[EnsureRootNotZeros(dbJustified.root)] \subseteq dbBlocks

\* Mutant: the head starts at the root of the checkpoint as it is stored.
RestartAtRawRoot ==
    /\ fails + crashes < MaxFaults
    /\ CanRestart
    /\ crashes' = crashes + 1
    /\ justified' = dbJustified /\ best' = dbJustified /\ finalized' = dbFinalized
    /\ head' = dbFinalized.root
    /\ initSync' = {} /\ fc' = <<>> /\ hot' = {}
    /\ pr' = [p \in Procs |-> IdleProc]
    /\ UNCHANGED <<database, fails>>

\* A restart, after Stop, which saves the blocks of initial sync, or after a
\* crash: Start takes the checkpoints from the database, the finalized block as
\* head, and an empty fork choice store.
Restart ==
    /\ fails + crashes < MaxFaults
    /\ CanRestart
    /\ crashes' = crashes + 1
    /\ dbBlocks' \in {dbBlocks, dbBlocks \cup initSync}
    /\ justified' = dbJustified
    /\ best' = dbJustified
    /\ finalized' = dbFinalized
    /\ head' = EnsureRootNotZeros(dbFinalized.root)
    /\ initSync' = {}
    /\ fc' = <<>>
    /\ hot' = {}
    /\ pr' = [p \in Procs |-> IdleProc]
    /\ UNCHANGED <<dbSummaries, dbJustified, dbFinalized, fails>>

Next ==
    \/ \E p \in Workers, b \in Blocks : ReceiveBlock(p, b)
    \/ \E p \in Workers, from \in Blocks, to \in Blocks : ReceiveBlockBatch(p, from, to)
    \/ \E p \in Procs :
         \/ SaveBlock(p) \/ SaveState(p) \/ InsertToForkChoice(p)
         \/ UpdateJustified(p) \/ SaveInitSyncBlocks(p) \/ ClearInitSyncBlocks(p)
         \/ SaveJustifiedCheckpoint(p) \/ CheckFinalized(p)
         \/ SaveFinalizedCheckpoint(p) \/ AdoptFinalized(p) \/ Prune(p)
         \/ FinalizedImpliesNewJustified(p)
         \/ ProcessAttestations(p) \/ PromoteBestJustified(p) \/ ReadFinalized(p)
         \/ UpdateHead(p) \/ Panic(p)
         \/ BatchInsert(p) \/ BatchJustify(p)
         \/ Fail(p)
    \/ \E r \in Blocks : Evict(r)
    \/ Restart

Spec == Init /\ [][Next]_vars

-------------------------------------------------------------------------------
(* Properties. *)

TypeOK ==
    /\ {justified, best, finalized, dbJustified, dbFinalized} \subseteq Checkpoints
    /\ head \in Blocks
    /\ initSync \subseteq Blocks /\ hot \subseteq Blocks
    /\ dbBlocks \subseteq Blocks /\ dbSummaries \subseteq Blocks
    /\ fc \in Seq([root : Blocks, j : Nat, f : Nat, linked : BOOLEAN])
    /\ {fails, crashes, fails + crashes} \subseteq 0 .. MaxFaults
    /\ pr \in [Procs -> [pc : Steps, todo : Seq(Blocks), batch : BOOLEAN, newF : BOOLEAN,
                         f : Checkpoints, then : Steps]]

\* A node that stops at any instant can be started again: Start finds the
\* blocks it needs for the states of the two checkpoints of the database.
RestartPossible == CanRestart

\* A block whose parent the node has taken in, and that passes the checks of
\* verifyBlkPreState, has its pre state: it is cached, or the flush makes it
\* replayable.
PreStateAvailable ==
    \A b \in Blocks \ (dbBlocks \cup initSync) :
        Parent[b] \in dbBlocks \cup initSync /\ VerifyBlkPreState(b) =>
            HasStateByRoot(Parent[b], BlocksForPreState(b))

\* A block in the fork choice store is in the database or in the cache of
\* initial sync, so that it can become the head and survive a clean stop.
InsertedBlocksAreStored == Nodes \subseteq dbBlocks \cup initSync

\* Once a block has been processed without an error the head is on the chain of
\* the finalized block.
HeadFollowsFinalized ==
    (fails = 0 /\ crashes = 0 /\ \A p \in Procs : Idle(p)) => Extends(head, finalized)

\* The justified epoch never goes back while the node runs.
JustifiedNeverGoesBack ==
    [][crashes' = crashes => justified'.epoch >= justified.epoch]_vars

\* The checkpoint of a block that updateJustified has put off, as it conflicts
\* with the justified one and the slot is late, is not taken by the updateHead
\* of the same call: "Otherwise, delay incorporation of new justified checkpoint
\* until next epoch boundary."
LateCheckpointIsDelayed ==
    [][\A p \in Workers :
         /\ At(p, "promote") /\ pr'[p] # pr[p]
         /\ J[Blk(p)].epoch > justified.epoch /\ ~Extends(J[Blk(p)].root, justified)
         => justified' # J[Blk(p)]]_vars

\* The finalized checkpoint on disk moves only along the chain and survives
\* every restart, and the one in memory follows it.
LF == INSTANCE LinearFinality WITH
        Checkpoints <- {F[b] : b \in Blocks}, First <- GenesisCheckpoint,
        Follows <- LAMBDA c, d : Extends(EnsureRootNotZeros(c.root), d),
        stored <- dbFinalized, used <- finalized

ImplementsLinearFinality == LF!Spec

=============================================================================
