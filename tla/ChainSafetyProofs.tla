-------------------------- MODULE ChainSafetyProofs ---------------------------
(* The chain service implements LinearFinality and its justified epoch never   *)
(* goes back, and its storage holds what the fork choice store refers to, for  *)
(* any tree of blocks, any order of blocks, batches and head updates, any      *)
(* errors and any restarts.                                                    *)
EXTENDS ChainTypeProofs

-------------------------------------------------------------------------------
(* Finality, as long as one goroutine at a time receives blocks and            *)
(* UpdateHeadTimely is off.                                                    *)

\* The receivers take no common lock: that there is one is an assumption.
OneReceiver == \A p, q \in Workers : p = q

\* Where the goroutine is whose blocks of initial sync are saved on the way to
\* the finalized checkpoint.
Finalizing(s) ==
    \/ s.pc = "saveFinalized"
    \/ s.pc \in {"flush", "clear"} /\ s.then = "saveFinalized"

\* The receiver, with the finalized checkpoints f in memory and d on disk: they
\* differ only between the save and the assignment after it, or for good when
\* the process has died in between.
ReceiverOK(s, f, d) ==
    /\ s.pc \notin {"idle", "dead"} => s.todo # <<>>
    /\ s.pc \in {"balances", "clear"} =>
          s.then \in {"saveJustified", "promote", "readFinalized", "saveFinalized"}
    /\ s.pc = "flush" => s.then = "saveFinalized"
    /\ s.pc = "balances" => s.then # "saveFinalized"
    /\ Finalizing(s) => F[s.todo[1]].epoch > f.epoch
    /\ s.pc = "adopt" => d = F[s.todo[1]] /\ d.epoch > 0
    /\ s.pc \in {"prune", "newJustified"} => f = F[s.todo[1]] /\ f.epoch > 0
    /\ s.pc \notin {"adopt", "dead"} => d = f

ChainInv ==
    /\ OneReceiver /\ Attester \notin Workers /\ Timely = FALSE
    /\ finalized \in Finals /\ dbFinalized \in Finals
    /\ pr \in [Procs -> Procedure]
    /\ \A p \in Workers : ReceiverOK(pr[p], finalized, dbFinalized)
    /\ RoutineOK(pr[Attester])

\* The invariant holds when the node starts, ...
LEMMA ChainInit == OneReceiver /\ Timely = FALSE /\ Init => ChainInv
<1>. SUFFICES ASSUME OneReceiver, Timely = FALSE, Init PROVE ChainInv
  OBVIOUS
<1>1. pr \in [Procs -> Procedure] /\ \A p \in Procs : pr[p].pc = "idle"
  BY TreeFacts DEF Init
<1>2. finalized = dbFinalized /\ finalized \in Finals
  BY TreeFacts DEF Init
<1>. QED
  BY <1>1, <1>2, TreeAssumption DEF ChainInv, ReceiverOK, RoutineOK, Finalizing, Procs

\* A step of one goroutine keeps the invariant when it does so for itself.
LEMMA OneMoves ==
  ASSUME ChainInv, NEW p \in Procs, NEW s \in Procedure,
         pr' = [pr EXCEPT ![p] = s],
         finalized' \in Finals, dbFinalized' \in Finals,
         p \in Workers \/ UNCHANGED <<finalized, dbFinalized>>,
         p \in Workers => ReceiverOK(s, finalized', dbFinalized'),
         p = Attester => RoutineOK(s)
  PROVE  ChainInv'
<1>1. /\ pr' \in [Procs -> Procedure] /\ pr'[p] = s
      /\ \A q \in Procs \ {p} : pr'[q] = pr[q]
  BY DEF ChainInv
<1>2. ASSUME NEW q \in Workers PROVE ReceiverOK(pr'[q], finalized', dbFinalized')
  <2>1. CASE q = p
    BY <1>1, <1>2, <2>1
  <2>2. CASE q # p
    BY <1>1, <1>2, <2>2 DEF ChainInv, OneReceiver, Procs
  <2>. QED
    BY <2>1, <2>2
<1>3. RoutineOK(pr'[Attester])
  BY <1>1 DEF ChainInv, Procs
<1>. QED
  BY <1>1, <1>2, <1>3 DEF ChainInv, OneReceiver

\* ..., in particular when it returns,
LEMMA Returns ==
  ASSUME ChainInv, NEW p \in Procs, Return(p),
         p \in Workers => pr[p].pc \notin {"adopt", "dead"},
         UNCHANGED <<finalized, dbFinalized>>
  PROVE  ChainInv'
<1>1. pr' = [pr EXCEPT ![p] = IdleProc]
  BY DEF Return
<1>2. p \in Workers => ReceiverOK(IdleProc, finalized', dbFinalized')
  BY TreeFacts DEF ChainInv, ReceiverOK, Finalizing
<1>3. RoutineOK(IdleProc)
  BY TreeFacts DEF RoutineOK
<1>. QED
  BY <1>1, <1>2, <1>3, TreeFacts, OneMoves DEF ChainInv

\* ... and when it goes on with its block and the next step is not one of
\* those that save the finalized checkpoint.
Plain == Steps \ {"balances", "clear", "flush", "saveFinalized", "adopt", "prune"}

LEMMA Goes ==
  ASSUME ChainInv, NEW p \in Procs, NEW pc \in Plain, Goto(p, pc),
         pr[p].pc \notin {"idle", "adopt", "dead"},
         p = Attester => pc \in {"readFinalized", "head"},
         pc = "newJustified" => pr[p].pc = "prune",
         UNCHANGED <<finalized, dbFinalized>>
  PROVE  ChainInv'
<1>. DEFINE s == [pr[p] EXCEPT !.pc = pc]
<1>1. pr[p] \in Procedure /\ pr' = [pr EXCEPT ![p] = s]
  BY DEF ChainInv, Goto
<1>2. s \in Procedure /\ s.pc = pc /\ s.todo = pr[p].todo
  BY <1>1 DEF Procedure, Plain
<1>. HIDE DEF s
<1>3. p \in Workers => ReceiverOK(s, finalized', dbFinalized')
  BY <1>2 DEF ChainInv, ReceiverOK, Finalizing, Plain
<1>4. p = Attester => RoutineOK(s)
  BY <1>2 DEF RoutineOK
<1>. QED
  BY <1>1, <1>2, <1>3, <1>4, OneMoves DEF ChainInv

\* cacheJustifiedStateBalances.
LEMMA Caches ==
  ASSUME ChainInv, NEW p \in Procs,
         NEW then \in {"saveJustified", "promote", "readFinalized"},
         CacheBalancesThen(p, then),
         pr[p].pc \notin {"idle", "adopt", "dead"},
         p = Attester => then = "readFinalized",
         UNCHANGED <<finalized, dbFinalized>>
  PROVE  ChainInv'
<1>. DEFINE s == [pr[p] EXCEPT !.pc = "balances", !.then = then]
<1>1. pr[p] \in Procedure /\ pr' = [pr EXCEPT ![p] = s]
  BY Zenon DEF ChainInv, CacheBalancesThen
<1>2. s \in Procedure /\ s.pc = "balances" /\ s.then = then /\ s.todo = pr[p].todo
  BY <1>1, Zenon DEF Procedure, Steps
<1>. HIDE DEF s
<1>3. p \in Workers => ReceiverOK(s, finalized', dbFinalized')
  BY <1>2 DEF ChainInv, ReceiverOK, Finalizing
<1>4. p = Attester => RoutineOK(s)
  BY <1>2 DEF RoutineOK
<1>. QED
  BY <1>1, <1>2, <1>3, <1>4, OneMoves DEF ChainInv

\* The blocks of initial sync are saved on the way to the finalized checkpoint.
LEMMA Flushes ==
  ASSUME ChainInv, NEW p \in Workers, FlushThenSave(p),
         pr[p].pc \notin {"idle", "adopt", "dead"},
         F[Blk(p)].epoch > finalized.epoch,
         UNCHANGED <<finalized, dbFinalized>>
  PROVE  ChainInv'
<1>. DEFINE s == [pr[p] EXCEPT !.pc = "flush", !.then = "saveFinalized"]
<1>0. p \in Procs /\ p # Attester
  BY DEF Procs, ChainInv, OneReceiver
<1>1. pr[p] \in Procedure /\ pr' = [pr EXCEPT ![p] = s]
  BY <1>0, Zenon DEF ChainInv, FlushThenSave
<1>2. s \in Procedure /\ s.pc = "flush" /\ s.then = "saveFinalized" /\ s.todo = pr[p].todo
  BY <1>1, Zenon DEF Procedure, Steps
<1>. HIDE DEF s
<1>3. ReceiverOK(s, finalized', dbFinalized')
  BY <1>2 DEF ChainInv, ReceiverOK, Finalizing, Blk
<1>. QED
  BY <1>0, <1>1, <1>2, <1>3, OneMoves DEF ChainInv

\* The next block of a batch, or the end of it, whatever the step was that
\* left the two finalized checkpoints equal.
LEMMA Batches ==
  ASSUME ChainInv, NEW p \in Workers, NextOfBatch(p),
         pr[p].pc \notin {"idle", "dead"},
         finalized' \in Finals, finalized' = dbFinalized, dbFinalized' = dbFinalized
  PROVE  ChainInv'
<1>0. p \in Procs /\ p # Attester
  BY DEF Procs, ChainInv, OneReceiver
<1>1. pr[p] \in Procedure /\ pr[p].todo \in Seq(Blocks) /\ pr[p].todo # <<>>
  BY <1>0 DEF ChainInv, Procedure, ReceiverOK
<1>2. CASE Len(pr[p].todo) = 1
  <2>1. pr' = [pr EXCEPT ![p] = IdleProc]
    BY <1>2 DEF NextOfBatch, Return
  <2>2. ReceiverOK(IdleProc, finalized', dbFinalized')
    BY TreeFacts DEF ReceiverOK, Finalizing
  <2>. QED
    BY <1>0, <2>1, <2>2, TreeFacts, OneMoves, Zenon
<1>3. CASE Len(pr[p].todo) # 1
  <2>. DEFINE s == [pr[p] EXCEPT !.pc = "batchInsert", !.todo = Tail(@)]
  <2>1. pr' = [pr EXCEPT ![p] = s]
    BY <1>0, <1>1, <1>3, Zenon DEF NextOfBatch, ChainInv
  <2>2. Tail(pr[p].todo) \in Seq(Blocks) /\ Tail(pr[p].todo) # <<>>
    <3>1. \A t \in Seq(Blocks) :
            t # <<>> /\ Len(t) # 1 => Len(Tail(t)) # 0 /\ Tail(t) \in Seq(Blocks)
      OBVIOUS
    <3>. QED
      BY <1>1, <1>3, <3>1, Zenon
  <2>3. s \in Procedure /\ s.pc = "batchInsert" /\ s.todo = Tail(pr[p].todo)
    BY <1>1, <2>2, Zenon DEF Procedure, Steps
  <2>. HIDE DEF s
  <2>4. ReceiverOK(s, finalized', dbFinalized')
    BY <2>2, <2>3 DEF ReceiverOK, Finalizing
  <2>. QED
    BY <1>0, <2>1, <2>3, <2>4, OneMoves, Zenon DEF ChainInv
<1>. QED
  BY <1>2, <1>3

\* A block is received by a goroutine that was idle.
LEMMA Receives ==
  ASSUME ChainInv, NEW p \in Workers, NEW b \in Blocks, ReceiveBlock(p, b)
  PROVE  ChainInv'
<1>. DEFINE s == [pr[p] EXCEPT !.pc = "saveBlock", !.todo = <<b>>]
<1>0. p \in Procs /\ p # Attester /\ pr[p] = IdleProc
  BY DEF Procs, ChainInv, OneReceiver, ReceiveBlock, Idle
<1>1. pr[p] \in Procedure /\ pr' = [pr EXCEPT ![p] = s] /\ UNCHANGED <<finalized, dbFinalized>>
  BY <1>0 DEF ChainInv, ReceiveBlock
<1>2. <<b>> \in Seq(Blocks) /\ <<b>> # <<>>
  OBVIOUS
<1>3. s \in Procedure /\ s.pc = "saveBlock" /\ s.todo # <<>>
  BY <1>1, <1>2, Zenon DEF Procedure, Steps
<1>. HIDE DEF s
<1>4. ReceiverOK(s, finalized', dbFinalized')
  BY <1>0, <1>1, <1>3, TreeFacts DEF ChainInv, ReceiverOK, Finalizing
<1>. QED
  BY <1>0, <1>1, <1>3, <1>4, OneMoves DEF ChainInv

\* ..., or a batch of blocks.
LEMMA ReceivesBatch ==
  ASSUME ChainInv, NEW p \in Workers, NEW from \in Blocks, NEW to \in Blocks,
         ReceiveBlockBatch(p, from, to)
  PROVE  ChainInv'
<1>. DEFINE chain == Chain(from, to)
            s == [pr[p] EXCEPT !.pc = "batchInsert", !.todo = chain, !.batch = TRUE]
<1>0. p \in Procs /\ p # Attester /\ pr[p] = IdleProc /\ from # to /\ from \in Ancestors[to]
  BY DEF Procs, ChainInv, OneReceiver, ReceiveBlockBatch, Idle
<1>1. pr[p] \in Procedure /\ pr' = [pr EXCEPT ![p] = s] /\ UNCHANGED <<finalized, dbFinalized>>
  BY <1>0 DEF ChainInv, ReceiveBlockBatch
<1>2. chain \in Seq(Blocks) /\ chain # <<>>
  BY <1>0, BatchFacts
<1>. HIDE DEF chain
<1>3. s \in Procedure /\ s.pc = "batchInsert" /\ s.todo = chain
  BY <1>1, <1>2, Zenon DEF Procedure, Steps
<1>. HIDE DEF s
<1>4. ReceiverOK(s, finalized', dbFinalized')
  BY <1>0, <1>1, <1>2, <1>3, TreeFacts DEF ChainInv, ReceiverOK, Finalizing
<1>. QED
  BY <1>0, <1>1, <1>3, <1>4, OneMoves DEF ChainInv

\* A goroutine at one of these steps is a receiver.
LEMMA AtReceiver ==
  ASSUME ChainInv, NEW p \in Procs,
         pr[p].pc \notin {"idle", "promote", "balances", "clear", "readFinalized", "head", "dead"}
  PROVE  p \in Workers
  BY DEF ChainInv, RoutineOK, Procs

\* The cache of initial sync is cleared and the caller goes on.
LEMMA ClearsInitSync ==
  ASSUME ChainInv, NEW p \in Procs, ClearInitSyncBlocks(p)
  PROVE  ChainInv'
<1>. DEFINE s == [pr[p] EXCEPT !.pc = pr[p].then, !.then = "idle"]
<1>1. pr[p] \in Procedure /\ pr[p].pc = "clear" /\ UNCHANGED <<finalized, dbFinalized>>
  BY DEF ChainInv, ClearInitSyncBlocks, At, database
<1>2. Return(p) \/ pr' = [pr EXCEPT ![p] = s]
  BY <1>1, Zenon DEF ClearInitSyncBlocks, AfterHead, ChainInv
<1>3. CASE Return(p)
  BY <1>1, <1>3, Returns
<1>4. CASE pr' = [pr EXCEPT ![p] = s]
  <2>1. s \in Procedure /\ s.pc = pr[p].then /\ s.then = "idle" /\ s.todo = pr[p].todo
    BY <1>1, Zenon DEF Procedure, Steps
  <2>. HIDE DEF s
  <2>2. p \in Workers => ReceiverOK(s, finalized', dbFinalized')
    BY <1>1, <2>1 DEF ChainInv, ReceiverOK, Finalizing
  <2>3. p = Attester => RoutineOK(s)
    BY <1>1, <2>1 DEF ChainInv, RoutineOK
  <2>. QED
    BY <1>1, <1>4, <2>1, <2>2, <2>3, OneMoves DEF ChainInv
<1>. QED
  BY <1>2, <1>3, <1>4

\* The blocks of initial sync are saved.
LEMMA SavesInitSync ==
  ASSUME ChainInv, NEW p \in Procs, SaveInitSyncBlocks(p)
  PROVE  ChainInv'
<1>. DEFINE s == [pr[p] EXCEPT !.pc = "clear"]
<1>1. /\ pr[p] \in Procedure /\ pr[p].pc \in {"balances", "flush"}
      /\ UNCHANGED <<finalized, dbFinalized>> /\ pr' = [pr EXCEPT ![p] = s]
  BY DEF ChainInv, SaveInitSyncBlocks, At, Goto, memory
<1>2. s \in Procedure /\ s.pc = "clear" /\ s.then = pr[p].then /\ s.todo = pr[p].todo
  BY <1>1 DEF Procedure, Steps
<1>. HIDE DEF s
<1>3. p \in Workers => ReceiverOK(s, finalized', dbFinalized')
  BY <1>1, <1>2 DEF ChainInv, ReceiverOK, Finalizing
<1>4. p = Attester => RoutineOK(s)
  BY <1>1, <1>2 DEF ChainInv, RoutineOK
<1>. QED
  BY <1>1, <1>2, <1>3, <1>4, OneMoves DEF ChainInv

\* onBlock finds out whether the block finalizes a later epoch.
LEMMA ChecksFinalized ==
  ASSUME ChainInv, NEW p \in Procs, CheckFinalized(p)
  PROVE  ChainInv'
<1>. DEFINE newF == F[Blk(p)].epoch > finalized.epoch
            s == [pr[p] EXCEPT !.newF = newF,
                               !.pc = IF ~newF THEN "promote"
                                      ELSE IF Timely THEN "newJustified" ELSE "flush",
                               !.then = IF newF /\ ~Timely THEN "saveFinalized" ELSE @]
<1>1. pr[p] \in Procedure /\ pr[p].pc = "finalize" /\ UNCHANGED <<finalized, dbFinalized>>
  BY DEF ChainInv, CheckFinalized, At, memory, database
<1>2. p \in Workers /\ p # Attester
  BY <1>1, AtReceiver, Zenon DEF ChainInv, OneReceiver
<1>3. \/ newF /\ FlushThenSave(p)
      \/ NextOfBatch(p)
      \/ pr' = [pr EXCEPT ![p] = s]
  <2>1. CASE pr[p].batch
    BY <2>1, Zenon DEF CheckFinalized
  <2>2. CASE ~pr[p].batch
    BY <1>1, <2>2, Zenon DEF CheckFinalized, ChainInv
  <2>. QED
    BY <2>1, <2>2
<1>4. CASE newF /\ FlushThenSave(p)
  BY <1>1, <1>2, <1>4, Flushes
<1>5. CASE NextOfBatch(p)
  BY <1>1, <1>2, <1>5, Batches, Zenon DEF ChainInv, ReceiverOK
<1>6. CASE pr' = [pr EXCEPT ![p] = s]
  <2>1. newF \in BOOLEAN /\ Timely = FALSE
    BY DEF ChainInv
  <2>2. /\ s \in Procedure /\ s.todo = pr[p].todo
        /\ s.pc = IF newF THEN "flush" ELSE "promote"
        /\ newF => s.then = "saveFinalized"
    BY <1>1, <2>1, Zenon DEF Procedure, Steps
  <2>. HIDE DEF s
  <2>3. ReceiverOK(s, finalized', dbFinalized')
    BY <1>1, <1>2, <2>2 DEF ChainInv, ReceiverOK, Finalizing, Blk
  <2>. QED
    BY <1>1, <1>2, <1>6, <2>2, <2>3, OneMoves DEF ChainInv
<1>. QED
  BY <1>3, <1>4, <1>5, <1>6

\* A receiver under way has a block.
LEMMA BlkIsBlock ==
  ASSUME ChainInv, NEW p \in Workers, pr[p].pc \notin {"idle", "dead"}
  PROVE  Blk(p) \in Blocks
<1>1. pr[p].todo \in Seq(Blocks) /\ pr[p].todo # <<>>
  BY DEF ChainInv, Procedure, Procs, ReceiverOK
<1>. QED
  BY <1>1 DEF Blk

\* The finalized checkpoint is saved, from then on ahead of the one in memory, ...
LEMMA SavesFinalized ==
  ASSUME ChainInv, NEW p \in Procs, SaveFinalizedCheckpoint(p)
  PROVE  ChainInv'
<1>. DEFINE s == [pr[p] EXCEPT !.pc = "adopt"]
<1>1. pr[p] \in Procedure /\ pr[p].pc = "saveFinalized" /\ UNCHANGED finalized
  BY DEF ChainInv, SaveFinalizedCheckpoint, At, memory
<1>2. p \in Workers /\ p # Attester
  BY <1>1, AtReceiver, Zenon DEF ChainInv, OneReceiver
<1>3. \/ UNCHANGED dbFinalized /\ Return(p)
      \/ dbFinalized' = F[Blk(p)] /\ pr' = [pr EXCEPT ![p] = s]
  BY <1>1 DEF SaveFinalizedCheckpoint, AfterSaveFinalized, Goto, ChainInv
<1>4. CASE UNCHANGED dbFinalized /\ Return(p)
  BY <1>1, <1>4, Returns
<1>5. CASE dbFinalized' = F[Blk(p)] /\ pr' = [pr EXCEPT ![p] = s]
  <2>1. dbFinalized' \in Finals
    BY <1>1, <1>2, <1>5, BlkIsBlock DEF Finals
  <2>2. s \in Procedure /\ s.pc = "adopt" /\ s.todo = pr[p].todo
    BY <1>1 DEF Procedure, Steps
  <2>. HIDE DEF s
  <2>3. F[Blk(p)].epoch > 0
    <3>1. ReceiverOK(pr[p], finalized, dbFinalized) /\ Finalizing(pr[p])
      BY <1>1, <1>2 DEF ChainInv, Finalizing
    <3>2. F[Blk(p)].epoch > finalized.epoch
      BY <3>1 DEF ReceiverOK, Blk
    <3>3. F[Blk(p)].epoch \in Nat /\ finalized.epoch \in Nat
      BY <1>5, <2>1, TreeFacts DEF ChainInv, Checkpoints
    <3>. QED
      BY <3>2, <3>3
  <2>4. ReceiverOK(s, finalized', dbFinalized')
    BY <1>1, <1>2, <1>5, <2>2, <2>3 DEF ReceiverOK, Finalizing, Blk, ChainInv
  <2>. QED
    BY <1>1, <1>2, <1>5, <2>1, <2>2, <2>4, OneMoves DEF ChainInv
<1>. QED
  BY <1>3, <1>4, <1>5

\* ... and taken into memory.
LEMMA Adopts ==
  ASSUME ChainInv, NEW p \in Procs, AdoptFinalized(p)
  PROVE  ChainInv'
<1>. DEFINE s == [pr[p] EXCEPT !.pc = "prune"]
<1>1. /\ pr[p] \in Procedure /\ pr[p].pc = "adopt" /\ UNCHANGED dbFinalized
      /\ finalized' = F[Blk(p)]
  BY DEF ChainInv, AdoptFinalized, At, database
<1>2. p \in Workers /\ p # Attester
  BY <1>1, AtReceiver, Zenon DEF ChainInv, OneReceiver
<1>3. finalized' = dbFinalized /\ finalized' \in Finals /\ finalized'.epoch > 0
  BY <1>1, <1>2 DEF ChainInv, ReceiverOK, Blk
<1>4. NextOfBatch(p) \/ pr' = [pr EXCEPT ![p] = s]
  BY <1>1 DEF AdoptFinalized, Goto, ChainInv
<1>5. CASE NextOfBatch(p)
  BY <1>1, <1>2, <1>3, <1>5, Batches
<1>6. CASE pr' = [pr EXCEPT ![p] = s]
  <2>1. s \in Procedure /\ s.pc = "prune" /\ s.todo = pr[p].todo
    BY <1>1 DEF Procedure, Steps
  <2>. HIDE DEF s
  <2>2. ReceiverOK(s, finalized', dbFinalized')
    BY <1>1, <1>2, <1>3, <2>1 DEF ChainInv, ReceiverOK, Finalizing, Blk
  <2>. QED
    BY <1>1, <1>2, <1>3, <1>6, <2>1, <2>2, OneMoves, Zenon DEF ChainInv
<1>. QED
  BY <1>4, <1>5, <1>6

\* The actions of one goroutine.
LEMMA ProcStep ==
  ASSUME ChainInv, NEW p \in Procs,
         \/ SaveBlock(p) \/ SaveState(p) \/ InsertToForkChoice(p)
         \/ UpdateJustified(p) \/ SaveJustifiedCheckpoint(p) \/ Prune(p)
         \/ FinalizedImpliesNewJustified(p)
         \/ ProcessAttestations(p) \/ PromoteBestJustified(p) \/ ReadFinalized(p)
         \/ UpdateHead(p) \/ BatchInsert(p) \/ BatchJustify(p) \/ Fail(p)
  PROVE  ChainInv'
<1>. USE DEF At, memory, database
<1>0. /\ pr[p] \in Procedure /\ Timely = FALSE /\ p \in Workers \cup {Attester}
      /\ {"saveState", "insert", "justify", "finalize", "saveJustified", "newJustified",
          "promote", "readFinalized", "head", "batchSummary"} \subseteq Plain
  BY DEF ChainInv, Procs, Plain, Steps
<1>1. CASE SaveBlock(p)
  BY <1>0, <1>1, AtReceiver, Goes, Zenon DEF SaveBlock, ChainInv, OneReceiver
<1>2. CASE SaveState(p)
  BY <1>0, <1>2, AtReceiver, Goes, Zenon DEF SaveState, ChainInv, OneReceiver
<1>3. CASE InsertToForkChoice(p)
  BY <1>0, <1>3, AtReceiver, Goes DEF InsertToForkChoice, ChainInv, OneReceiver
<1>4. CASE UpdateJustified(p)
  <2>1. /\ pr[p].pc = "justify" /\ UNCHANGED <<finalized, dbFinalized>>
        /\ \/ Goto(p, "finalize") \/ Goto(p, "saveJustified") \/ Return(p)
           \/ CacheBalancesThen(p, "saveJustified")
    BY <1>4, Zenon DEF UpdateJustified
  <2>2. p \in Workers /\ p # Attester
    BY <2>1, AtReceiver, Zenon DEF ChainInv, OneReceiver
  <2>. QED
    BY <1>0, <2>1, <2>2, Goes, Returns, Caches
<1>5. CASE SaveJustifiedCheckpoint(p)
  <2>1. /\ pr[p].pc = "saveJustified" /\ UNCHANGED <<finalized, dbFinalized>>
        /\ Goto(p, "finalize") \/ Return(p)
    BY <1>5 DEF SaveJustifiedCheckpoint
  <2>2. p \in Workers /\ p # Attester
    BY <2>1, AtReceiver, Zenon DEF ChainInv, OneReceiver
  <2>. QED
    BY <1>0, <2>1, <2>2, Goes, Returns
<1>6. CASE Prune(p)
  <2>1. /\ pr[p].pc = "prune" /\ UNCHANGED <<finalized, dbFinalized>>
        /\ Goto(p, "newJustified") \/ Return(p)
    BY <1>0, <1>6 DEF Prune
  <2>2. p \in Workers /\ p # Attester
    BY <2>1, AtReceiver, Zenon DEF ChainInv, OneReceiver
  <2>. QED
    BY <1>0, <2>1, <2>2, Goes, Returns
<1>7. CASE FinalizedImpliesNewJustified(p)
  <2>1. /\ pr[p].pc = "newJustified" /\ UNCHANGED <<finalized, dbFinalized>>
        /\ Goto(p, "promote") \/ Return(p) \/ CacheBalancesThen(p, "promote")
    BY <1>0, <1>7 DEF FinalizedImpliesNewJustified
  <2>2. p \in Workers /\ p # Attester
    BY <2>1, AtReceiver, Zenon DEF ChainInv, OneReceiver
  <2>. QED
    BY <1>0, <2>1, <2>2, Goes, Returns, Caches
<1>8. CASE ProcessAttestations(p)
  <2>. DEFINE s == [pr[p] EXCEPT !.pc = "promote"]
  <2>1. /\ p = Attester /\ p \notin Workers /\ pr' = [pr EXCEPT ![p] = s]
        /\ UNCHANGED <<finalized, dbFinalized>>
    BY <1>8 DEF ProcessAttestations, Goto, ChainInv, OneReceiver
  <2>2. s \in Procedure /\ s.pc = "promote"
    BY <1>0 DEF Procedure, Steps
  <2>. HIDE DEF s
  <2>3. RoutineOK(s)
    BY <2>2 DEF RoutineOK
  <2>. QED
    BY <2>1, <2>2, <2>3, OneMoves DEF ChainInv
<1>9. CASE PromoteBestJustified(p)
  <2>1. /\ pr[p].pc = "promote" /\ UNCHANGED <<finalized, dbFinalized>>
        /\ Goto(p, "readFinalized") \/ CacheBalancesThen(p, "readFinalized")
    BY <1>9, Zenon DEF PromoteBestJustified
  <2>. QED
    BY <1>0, <2>1, Goes, Caches
<1>10. CASE ReadFinalized(p)
  <2>. DEFINE s == [pr[p] EXCEPT !.pc = "head", !.f = finalized]
  <2>1. /\ pr[p].pc = "readFinalized" /\ UNCHANGED <<finalized, dbFinalized>>
        /\ pr' = [pr EXCEPT ![p] = s]
    BY <1>10, Zenon DEF ReadFinalized, ChainInv
  <2>2. s \in Procedure /\ s.pc = "head" /\ s.todo = pr[p].todo
    BY <1>0, TreeFacts, Zenon DEF Procedure, Steps, ChainInv
  <2>. HIDE DEF s
  <2>3. p \in Workers => ReceiverOK(s, finalized', dbFinalized')
    BY <2>1, <2>2 DEF ChainInv, ReceiverOK, Finalizing
  <2>4. RoutineOK(s)
    BY <2>2 DEF RoutineOK
  <2>. QED
    BY <2>1, <2>2, <2>3, <2>4, OneMoves DEF ChainInv
<1>11. CASE UpdateHead(p)
  BY <1>0, <1>11, Returns, Zenon DEF UpdateHead, AfterHead
<1>12. CASE BatchInsert(p)
  BY <1>0, <1>12, AtReceiver, Goes DEF BatchInsert, ChainInv, OneReceiver
<1>13. CASE BatchJustify(p)
  <2>1. /\ pr[p].pc = "batchSummary" /\ UNCHANGED <<finalized, dbFinalized>>
        /\ Goto(p, "finalize") \/ CacheBalancesThen(p, "saveJustified")
    BY <1>13, Zenon DEF BatchJustify
  <2>2. p \in Workers /\ p # Attester
    BY <2>1, AtReceiver DEF ChainInv, OneReceiver
  <2>. QED
    BY <1>0, <2>1, <2>2, Goes, Caches, Zenon
<1>14. CASE Fail(p)
  BY <1>14, Returns, Zenon DEF Fail, Fallible
<1>. QED
  BY <1>1, <1>2, <1>3, <1>4, <1>5, <1>6, <1>7, <1>8, <1>9, <1>10, <1>11, <1>12,
     <1>13, <1>14

\* The process dies, or is started again with the checkpoint on disk.
LEMMA Dies ==
  ASSUME ChainInv, NEW p \in Procs, Panic(p)
  PROVE  ChainInv'
<1>1. /\ pr' \in [Procs -> Procedure] /\ \A q \in Procs : pr'[q].pc = "dead"
      /\ UNCHANGED <<finalized, dbFinalized>>
  BY TreeFacts, Zenon DEF Panic, memory, database
<1>. QED
  BY <1>1 DEF ChainInv, ReceiverOK, RoutineOK, Finalizing, OneReceiver, Procs

\* ..., or is started again.
LEMMA Restarts ==
  ASSUME ChainInv, Restart
  PROVE  ChainInv'
<1>1. /\ pr' \in [Procs -> Procedure] /\ \A q \in Procs : pr'[q].pc = "idle"
      /\ finalized' = dbFinalized /\ dbFinalized' = dbFinalized
  BY TreeFacts DEF Restart
<1>. QED
  BY <1>1 DEF ChainInv, ReceiverOK, RoutineOK, Finalizing, OneReceiver, Procs

\* Steps of nobody.
LEMMA Unmoved ==
  ASSUME ChainInv, UNCHANGED <<finalized, dbFinalized, pr>>
  PROVE  ChainInv'
  BY DEF ChainInv, OneReceiver

\* ... and every step keeps it.
LEMMA ChainInvNext == ChainInv /\ [Next]_vars => ChainInv'
<1>. SUFFICES ASSUME ChainInv, [Next]_vars PROVE ChainInv'
  OBVIOUS
<1>1. CASE \E p \in Workers, b \in Blocks : ReceiveBlock(p, b)
  BY <1>1, Receives
<1>2. CASE \E p \in Workers, from \in Blocks, to \in Blocks : ReceiveBlockBatch(p, from, to)
  BY <1>2, ReceivesBatch
<1>3. ASSUME NEW p \in Procs,
             \/ SaveBlock(p) \/ SaveState(p) \/ InsertToForkChoice(p)
             \/ UpdateJustified(p) \/ SaveJustifiedCheckpoint(p) \/ Prune(p)
             \/ FinalizedImpliesNewJustified(p)
             \/ ProcessAttestations(p) \/ PromoteBestJustified(p) \/ ReadFinalized(p)
             \/ UpdateHead(p) \/ BatchInsert(p) \/ BatchJustify(p) \/ Fail(p)
      PROVE  ChainInv'
  BY <1>3, ProcStep
<1>4. ASSUME NEW p \in Procs,
             \/ SaveInitSyncBlocks(p) \/ ClearInitSyncBlocks(p) \/ CheckFinalized(p)
             \/ SaveFinalizedCheckpoint(p) \/ AdoptFinalized(p) \/ Panic(p)
      PROVE  ChainInv'
  BY <1>4, SavesInitSync, ClearsInitSync, ChecksFinalized, SavesFinalized, Adopts, Dies
<1>5. CASE (\E r \in Blocks : Evict(r)) \/ UNCHANGED vars
  BY <1>5, Unmoved DEF Evict, vars, memory, database
<1>. QED
  BY <1>1, <1>2, <1>3, <1>4, <1>5, Restarts DEF Next

\* The initial state maps to the initial state of LinearFinality, ...
LEMMA InitMaps == Init => LF!Init
  BY DEF Init, LF!Init

\* ... the save of a finalized checkpoint to Finalize, ...
LEMMA SaveMaps ==
  ASSUME ChainInv, NEW p \in Procs, SaveFinalizedCheckpoint(p)
  PROVE  LF!Next \/ UNCHANGED <<dbFinalized, finalized>>
<1>1. pr[p].pc = "saveFinalized" /\ UNCHANGED finalized
  BY DEF SaveFinalizedCheckpoint, At, memory
<1>2. p \in Workers
  BY <1>1, AtReceiver
<1>3. CASE UNCHANGED dbFinalized
  BY <1>1, <1>3
<1>4. CASE dbFinalized' = F[Blk(p)]
  <2>1. Blk(p) \in Blocks
    BY <1>1, <1>2, BlkIsBlock
  <2>2. F[Blk(p)].epoch > dbFinalized.epoch
    <3>1. ReceiverOK(pr[p], finalized, dbFinalized)
      BY <1>2 DEF ChainInv
    <3>2. dbFinalized = finalized
      BY <1>1, <3>1 DEF ReceiverOK
    <3>3. Finalizing(pr[p])
      BY <1>1, Zenon DEF Finalizing
    <3>. QED
      BY <3>1, <3>2, <3>3, Zenon DEF ReceiverOK, Blk
  <2>3. PICK b \in Blocks : dbFinalized = F[b]
    BY DEF ChainInv, Finals
  <2>4. PICK c \in Blocks : F[Blk(p)] = J[c]
    BY <2>1, FinalizedWasJustified
  <2>5. J[c].epoch >= F[b].epoch
    BY <2>1, <2>2, <2>3, <2>4, TreeAssumption DEF Checkpoints
  <2>6. Extends(EnsureRootNotZeros(F[Blk(p)].root), dbFinalized)
    BY <2>3, <2>4, <2>5, SafeVotes
  <2>. QED
    BY <1>1, <1>4, <2>1, <2>2, <2>6 DEF LF!Next, LF!Finalize
<1>. QED
  BY <1>3, <1>4 DEF SaveFinalizedCheckpoint

\* ... the assignment after it and a restart to Adopt, and every other step to
\* a stuttering step.
LEMMA NextMaps == ChainInv /\ [Next]_vars => [LF!Next]_<<dbFinalized, finalized>>
<1>. SUFFICES ASSUME ChainInv, [Next]_vars
              PROVE  LF!Next \/ UNCHANGED <<dbFinalized, finalized>>
  OBVIOUS
<1>1. ASSUME NEW p \in Procs, AdoptFinalized(p) PROVE LF!Next
  <2>1. pr[p].pc = "adopt" /\ UNCHANGED dbFinalized /\ finalized' = F[Blk(p)]
    BY <1>1 DEF AdoptFinalized, At, database
  <2>2. dbFinalized = F[Blk(p)]
    BY <2>1, AtReceiver, Zenon DEF ChainInv, ReceiverOK, Blk
  <2>. QED
    BY <2>1, <2>2 DEF LF!Next, LF!Adopt
<1>2. CASE Restart
  BY <1>2 DEF Restart, LF!Next, LF!Adopt
<1>3. ASSUME NEW p \in Procs,
             \/ SaveBlock(p) \/ SaveState(p) \/ InsertToForkChoice(p)
             \/ UpdateJustified(p) \/ SaveInitSyncBlocks(p) \/ ClearInitSyncBlocks(p)
             \/ SaveJustifiedCheckpoint(p) \/ CheckFinalized(p) \/ Prune(p)
             \/ FinalizedImpliesNewJustified(p)
             \/ ProcessAttestations(p) \/ PromoteBestJustified(p) \/ ReadFinalized(p)
             \/ UpdateHead(p) \/ Panic(p) \/ BatchInsert(p) \/ BatchJustify(p) \/ Fail(p)
      PROVE  UNCHANGED <<dbFinalized, finalized>>
  BY <1>3
  DEF SaveBlock, SaveState, InsertToForkChoice, UpdateJustified, SaveInitSyncBlocks,
      ClearInitSyncBlocks, SaveJustifiedCheckpoint, CheckFinalized, Prune,
      FinalizedImpliesNewJustified, ProcessAttestations, PromoteBestJustified,
      ReadFinalized, UpdateHead, Panic, BatchInsert, BatchJustify, Fail, memory, database
<1>4. CASE \E p \in Workers, b \in Blocks : ReceiveBlock(p, b)
  BY <1>4 DEF ReceiveBlock
<1>5. CASE \E p \in Workers, from \in Blocks, to \in Blocks : ReceiveBlockBatch(p, from, to)
  BY <1>5 DEF ReceiveBlockBatch
<1>6. CASE (\E r \in Blocks : Evict(r)) \/ UNCHANGED vars
  BY <1>6 DEF Evict, vars, memory, database
<1>. QED
  BY <1>1, <1>2, <1>3, <1>4, <1>5, <1>6, SaveMaps DEF Next

\* With one receiver and without UpdateHeadTimely, the finalized checkpoint of
\* the database moves only along one chain, through every error and restart,
\* and the one in memory follows it.
THEOREM FinalityIsLinear ==
  OneReceiver /\ Timely = FALSE /\ Spec => ImplementsLinearFinality
<1>1. OneReceiver /\ Timely = FALSE /\ Spec => []ChainInv
  BY ChainInit, ChainInvNext, PTL DEF Spec
<1>. QED
  BY <1>1, InitMaps, NextMaps, PTL DEF Spec, ImplementsLinearFinality, LF!Spec

\* finalizedImpliesNewJustified replaces the justified checkpoint only by a
\* later one: an earlier or equal one of the block is at or after the finalized
\* one, so the justified one descends from the finalized block already.
LEMMA ReplacesByLater ==
  ASSUME ChainInv, ProcsInv, DataInv, NEW p \in Procs, FinalizedImpliesNewJustified(p)
  PROVE  justified' = justified \/ justified'.epoch > justified.epoch
<1>. DEFINE cp == J[Blk(p)]
            jRoot == EnsureRootNotZeros(justified.root)
            fSlot == StartSlot(finalized.epoch)
<1>1. p \in Workers /\ Blk(p) \in Blocks /\ pr[p].pc = "newJustified"
  BY ProcReceiver DEF FinalizedImpliesNewJustified, At
<1>2. finalized = F[Blk(p)] /\ finalized.epoch > 0
  BY <1>1 DEF ChainInv, ReceiverOK, Blk
<1>3. PICK c \in Blocks : justified = J[c]
  BY DEF DataInv, Justs
<1>4. F[Blk(p)].epoch =< cp.epoch
  BY <1>1, FinalizedWasJustified
<1>5. cp.epoch \in Nat /\ justified.epoch \in Nat /\ finalized.epoch \in Nat
  BY <1>1, <1>2, <1>3, TreeAssumption DEF Checkpoints
<1>6. cp.epoch =< justified.epoch => AncestorAt(jRoot, fSlot) = finalized.root
  <2>. SUFFICES ASSUME cp.epoch =< justified.epoch PROVE AncestorAt(jRoot, fSlot) = finalized.root
    OBVIOUS
  <2>1. J[c].epoch >= F[Blk(p)].epoch
    BY <1>2, <1>3, <1>4, <1>5
  <2>. QED
    BY <1>1, <1>2, <1>3, <2>1, SafeVotes
<1>7. \/ justified' = justified
      \/ /\ justified' = cp
         /\ cp.epoch > justified.epoch \/ AncestorAt(jRoot, fSlot) # finalized.root
  BY DEF FinalizedImpliesNewJustified
<1>8. cp.epoch > justified.epoch \/ cp.epoch =< justified.epoch
  BY <1>5
<1>. QED
  BY <1>6, <1>7, <1>8

\* With one receiver and without UpdateHeadTimely, the justified epoch in memory
\* never goes back between two starts of the node, whichever of the four places
\* that assign it a running node reaches.
THEOREM JustifiedOnlyAdvances ==
  OneReceiver /\ Timely = FALSE /\ Spec => JustifiedNeverGoesBack
<1>1. OneReceiver /\ Timely = FALSE /\ Spec => []ChainInv
  BY ChainInit, ChainInvNext, PTL DEF Spec
<1>2. Spec => [](ProcsInv /\ DataInv)
  BY TypesInit, ProcsNext, DataNext, PTL DEF Spec
<1>3. ChainInv /\ ProcsInv /\ DataInv /\ [Next]_vars =>
        [crashes' = crashes => justified'.epoch >= justified.epoch]_vars
  <2>. SUFFICES ASSUME ChainInv, ProcsInv, DataInv, [Next]_vars, crashes' = crashes
                PROVE  justified'.epoch >= justified.epoch
    OBVIOUS
  <2>0. DataInv' /\ justified.epoch \in Nat /\ justified'.epoch \in Nat /\ crashes \in Nat
    <3>1. DataInv'
      BY DataNext
    <3>. QED
      BY <3>1, JustsFacts DEF DataInv
  <2>1. justified' = justified \/ justified'.epoch > justified.epoch
    <3>1. ASSUME NEW p \in Procs, UpdateJustified(p) \/ PromoteBestJustified(p) \/ BatchJustify(p)
          PROVE  justified' = justified \/ justified'.epoch > justified.epoch
      <4>1. J[Blk(p)].epoch =< justified.epoch \/ J[Blk(p)].epoch > justified.epoch
            \/ PromoteBestJustified(p)
        <5>1. CASE UpdateJustified(p) \/ BatchJustify(p)
          <6>1. Blk(p) \in Blocks
            BY <5>1, ProcReceiver DEF UpdateJustified, BatchJustify, At
          <6>2. J[Blk(p)].epoch \in Nat
            BY <6>1, TreeAssumption DEF Checkpoints
          <6>. QED
            BY <2>0, <6>2
        <5>. QED
          BY <3>1, <5>1
      <4>. QED
        BY <3>1, <4>1 DEF UpdateJustified, PromoteBestJustified, BatchJustify
    <3>2. ASSUME NEW p \in Procs,
             \/ SaveBlock(p) \/ SaveState(p) \/ InsertToForkChoice(p)
             \/ SaveInitSyncBlocks(p) \/ ClearInitSyncBlocks(p)
             \/ SaveJustifiedCheckpoint(p) \/ CheckFinalized(p)
             \/ SaveFinalizedCheckpoint(p) \/ AdoptFinalized(p) \/ Prune(p)
             \/ ProcessAttestations(p) \/ ReadFinalized(p)
             \/ UpdateHead(p) \/ Panic(p) \/ BatchInsert(p) \/ Fail(p)
          PROVE  justified' = justified
      BY <3>2
      DEF SaveBlock, SaveState, InsertToForkChoice, SaveInitSyncBlocks, ClearInitSyncBlocks,
          SaveJustifiedCheckpoint, CheckFinalized, SaveFinalizedCheckpoint, AdoptFinalized,
          Prune, ProcessAttestations, ReadFinalized, UpdateHead, Panic, BatchInsert, Fail, memory
    <3>3. CASE \E p \in Workers, b \in Blocks : ReceiveBlock(p, b)
      BY <3>3 DEF ReceiveBlock
    <3>4. CASE \E p \in Workers, from \in Blocks, to \in Blocks : ReceiveBlockBatch(p, from, to)
      BY <3>4 DEF ReceiveBlockBatch
    <3>5. CASE (\E r \in Blocks : Evict(r)) \/ UNCHANGED vars
      BY <3>5 DEF Evict, vars, memory
    <3>6. ~Restart
      BY <2>0 DEF Restart
    <3>. QED
      BY <3>1, <3>2, <3>3, <3>4, <3>5, <3>6, ReplacesByLater DEF Next
  <2>. QED
    BY <2>0, <2>1
<1>. QED
  BY <1>1, <1>2, <1>3, PTL DEF Spec, JustifiedNeverGoesBack


-------------------------------------------------------------------------------
(* Storage.  The blocks of the fork choice store are kept, and with them the   *)
(* pre states, for any number of receivers, as long as the attestation routine *)
(* waits for the end of initial sync.                                          *)

\* What a goroutine relies on, with the blocks db in the database and cache in
\* the cache of initial sync: the block it inserts and the chain it finalizes
\* are saved, and nothing enters the cache between the save and the clear.
ProcStored(s, db, cache) ==
    /\ s.pc \in {"saveState", "insert"} => s.todo[1] \in db
    /\ s.pc = "clear" => cache \subseteq db
    /\ s.pc = "batchInsert" => s.batch
    /\ s.then \notin {"saveState", "insert", "batchInsert"}
    /\ ~Timely => /\ s.then # "adopt"
                  /\ s.pc = "adopt" =>
                        Ancestors[EnsureRootNotZeros(F[s.todo[1]].root)] \subseteq db

\* A batch runs alone when the attestation routine waits for the end of initial
\* sync.
StoredInv ==
    /\ Resync = FALSE
    /\ Nodes \subseteq dbBlocks \cup initSync
    /\ ~Timely => Ancestors[EnsureRootNotZeros(finalized.root)] \subseteq dbBlocks
    /\ \A p \in Procs : ProcStored(pr[p], dbBlocks, initSync)
    /\ \A p \in Procs : pr[p].batch => \A q \in Procs \ {p} : Idle(q)
    /\ pr[Attester].batch = FALSE

\* What a step may do to the stores: blocks leave the cache of initial sync for
\* the database only, and enter it only in a batch.
Keeps(p) ==
    /\ dbBlocks \subseteq dbBlocks'
    /\ initSync' \subseteq initSync \/ pr[p].batch
    /\ Nodes' \subseteq dbBlocks' \cup initSync'
    /\ ~Timely => Ancestors[EnsureRootNotZeros(finalized'.root)] \subseteq dbBlocks'

\* A step of one goroutine keeps the invariant when it does so for itself and
\* keeps the stores.
LEMMA StoredMoves ==
  ASSUME StoredInv, ProcsInv, NEW p \in Procs, NEW s \in Procedure,
         pr' = [pr EXCEPT ![p] = s], Keeps(p), ProcStored(s, dbBlocks', initSync'),
         s.batch => \A q \in Procs \ {p} : Idle(q),
         \A q \in Procs \ {p} : pr[q].batch => s = IdleProc,
         p = Attester => s.batch = FALSE
  PROVE  StoredInv'
<1>1. /\ pr' \in [Procs -> Procedure] /\ pr'[p] = s
      /\ \A q \in Procs \ {p} : pr'[q] = pr[q]
  BY DEF ProcsInv
<1>2. ASSUME NEW q \in Procs PROVE ProcStored(pr'[q], dbBlocks', initSync')
  <2>1. CASE q = p
    BY <1>1, <2>1
  <2>2. CASE q # p /\ initSync' \subseteq initSync
    BY <1>1, <2>2 DEF Keeps, StoredInv, ProcStored
  <2>3. CASE q # p /\ pr[p].batch
    <3>1. pr'[q] = IdleProc
      BY <1>1, <2>3 DEF StoredInv, Idle
    <3>. QED
      BY <3>1 DEF ProcStored, IdleProc
  <2>. QED
    BY <2>1, <2>2, <2>3 DEF Keeps
<1>3. ASSUME NEW q \in Procs, pr'[q].batch, NEW r \in Procs \ {q} PROVE pr'[r] = IdleProc
  <2>1. CASE q = p
    BY <1>1, <1>3, <2>1 DEF Idle
  <2>2. CASE q # p
    BY <1>1, <1>3, <2>2 DEF Idle, StoredInv
  <2>. QED
    BY <2>1, <2>2
<1>4. pr'[Attester].batch = FALSE
  BY <1>1 DEF StoredInv, Procs
<1>5. Nodes' \subseteq dbBlocks' \cup initSync'
      /\ (~Timely => Ancestors[EnsureRootNotZeros(finalized'.root)] \subseteq dbBlocks')
  BY DEF Keeps
<1>. QED
  BY <1>2, <1>3, <1>4, <1>5 DEF StoredInv, Idle

\* A goroutine under way goes on, alone if it has a batch.
LEMMA StoredGoesOn ==
  ASSUME StoredInv, ProcsInv, NEW p \in Procs, NEW s \in Procedure,
         pr[p].pc # "idle", pr' = [pr EXCEPT ![p] = s], Keeps(p),
         ProcStored(s, dbBlocks', initSync'),
         s = IdleProc \/ s.batch = pr[p].batch
  PROVE  StoredInv'
<1>1. IdleProc.batch = FALSE /\ IdleProc.pc = "idle"
  BY DEF IdleProc
<1>2. s.batch => \A q \in Procs \ {p} : Idle(q)
  BY <1>1, Zenon DEF StoredInv
<1>3. \A q \in Procs \ {p} : ~pr[q].batch
  BY <1>1 DEF StoredInv, Idle
<1>4. p = Attester => s.batch = FALSE
  BY <1>1 DEF StoredInv
<1>. QED
  BY <1>2, <1>3, <1>4, StoredMoves, Zenon

\* ..., in particular when it returns,
LEMMA StoredReturns ==
  ASSUME StoredInv, ProcsInv, NEW p \in Procs, pr[p].pc # "idle", Return(p), Keeps(p)
  PROVE  StoredInv'
<1>1. IdleProc \in Procedure /\ ProcStored(IdleProc, dbBlocks', initSync')
  BY TreeFacts DEF ProcStored, IdleProc
<1>. QED
  BY <1>1, StoredGoesOn, Zenon DEF Return

\* ... when it goes on with its block,
LEMMA StoredGoes ==
  ASSUME StoredInv, ProcsInv, NEW p \in Procs, NEW pc \in Steps \ {"adopt", "batchInsert"},
         pr[p].pc # "idle", Goto(p, pc), Keeps(p),
         pc \in {"saveState", "insert"} => Blk(p) \in dbBlocks',
         pc = "clear" => initSync' \subseteq dbBlocks'
  PROVE  StoredInv'
<1>. DEFINE s == [pr[p] EXCEPT !.pc = pc]
<1>1. pr[p] \in Procedure /\ pr' = [pr EXCEPT ![p] = s]
  BY DEF ProcsInv, Goto
<1>2. /\ s \in Procedure /\ s.pc = pc /\ s.todo = pr[p].todo /\ s.batch = pr[p].batch
      /\ s.then = pr[p].then
  BY <1>1 DEF Procedure
<1>. HIDE DEF s
<1>3. ProcStored(s, dbBlocks', initSync')
  BY <1>2, Zenon DEF ProcStored, StoredInv, Blk
<1>. QED
  BY <1>1, <1>2, <1>3, StoredGoesOn

\* ... when it saves the blocks of initial sync and then goes on at "then",
LEMMA StoredCaches ==
  ASSUME StoredInv, ProcsInv, NEW p \in Procs, NEW pc \in {"balances", "flush"}, NEW then \in Steps,
         pr[p].pc # "idle", pr' = [pr EXCEPT ![p].pc = pc, ![p].then = then], Keeps(p),
         then \notin {"saveState", "insert", "batchInsert"}, ~Timely => then # "adopt"
  PROVE  StoredInv'
<1>. DEFINE s == [pr[p] EXCEPT !.pc = pc, !.then = then]
<1>1. pr[p] \in Procedure /\ pr' = [pr EXCEPT ![p] = s]
  BY DEF ProcsInv
<1>2. s \in Procedure /\ s.pc = pc /\ s.batch = pr[p].batch /\ s.then = then
  BY <1>1, Zenon DEF Procedure, Steps
<1>. HIDE DEF s
<1>3. ProcStored(s, dbBlocks', initSync')
  BY <1>2 DEF ProcStored, StoredInv
<1>. QED
  BY <1>1, <1>2, <1>3, StoredGoesOn, Zenon

\* ... and when it takes the next block of its batch.
LEMMA StoredBatches ==
  ASSUME StoredInv, ProcsInv, NEW p \in Workers, pr[p].pc \notin {"idle", "dead"}, pr[p].batch,
         NextOfBatch(p), Keeps(p)
  PROVE  StoredInv'
<1>0. p \in Procs /\ pr[p] \in Procedure /\ pr[p].todo \in Seq(Blocks) /\ pr[p].todo # <<>>
  BY DEF ProcsInv, Procedure, Procs
<1>1. CASE Len(pr[p].todo) = 1
  BY <1>0, <1>1, StoredReturns DEF NextOfBatch
<1>2. CASE Len(pr[p].todo) # 1
  <2>. DEFINE s == [pr[p] EXCEPT !.pc = "batchInsert", !.todo = Tail(@)]
  <2>1. pr' = [pr EXCEPT ![p] = s]
    BY <1>0, <1>2, Zenon DEF NextOfBatch, ProcsInv
  <2>2. Tail(pr[p].todo) \in Seq(Blocks)
    BY <1>0
  <2>3. s \in Procedure /\ s.pc = "batchInsert" /\ s.batch = pr[p].batch /\ s.then = pr[p].then
    BY <1>0, <2>2 DEF Procedure, Steps
  <2>. HIDE DEF s
  <2>4. ProcStored(s, dbBlocks', initSync')
    BY <1>0, <2>3 DEF ProcStored, StoredInv
  <2>. QED
    BY <1>0, <2>1, <2>3, <2>4, StoredGoesOn, Zenon
<1>. QED
  BY <1>1, <1>2

\* The stores are kept when blocks only move from the cache to the database.
LEMMA KeepsAll ==
  ASSUME StoredInv, NEW p \in Procs, UNCHANGED <<fc, finalized>>,
         dbBlocks \subseteq dbBlocks', initSync' \subseteq initSync,
         initSync \subseteq dbBlocks' \cup initSync'
  PROVE  Keeps(p)
  BY DEF StoredInv, Keeps, Nodes

\* A block is received while no batch is,
LEMMA StoredReceives ==
  ASSUME StoredInv, ProcsInv, DataInv, NEW p \in Workers, NEW b \in Blocks, ReceiveBlock(p, b)
  PROVE  StoredInv'
<1>. DEFINE s == [pr[p] EXCEPT !.pc = "saveBlock", !.todo = <<b>>]
<1>0. p \in Procs /\ p # Attester /\ pr[p] = IdleProc
  BY TreeAssumption DEF Procs, ReceiveBlock, Idle
<1>1. pr[p] \in Procedure /\ pr' = [pr EXCEPT ![p] = s] /\ UNCHANGED <<fc, finalized>>
  BY <1>0, Zenon DEF ProcsInv, ReceiveBlock
<1>2. <<b>> \in Seq(Blocks)
  OBVIOUS
<1>3. /\ s \in Procedure /\ s.pc = "saveBlock" /\ s.then = pr[p].then
      /\ s.batch = pr[p].batch
  BY <1>1, <1>2, Zenon DEF Procedure, Steps
<1>. HIDE DEF s
<1>4. Keeps(p)
  BY <1>0, <1>1, KeepsAll DEF ReceiveBlock, FlushForPreState, BlocksForPreState
<1>5. ProcStored(s, dbBlocks', initSync') /\ s.batch = FALSE
  BY <1>0, <1>3 DEF ProcStored, IdleProc
<1>6. \A q \in Procs \ {p} : ~pr[q].batch
  BY DEF ReceiveBlock, Syncing, Procs, StoredInv
<1>. QED
  BY <1>0, <1>1, <1>3, <1>4, <1>5, <1>6, StoredMoves, Zenon

\* ... and a batch while no goroutine is under way.
LEMMA StoredReceivesBatch ==
  ASSUME StoredInv, ProcsInv, DataInv, NEW p \in Workers, NEW from \in Blocks, NEW to \in Blocks,
         ReceiveBlockBatch(p, from, to)
  PROVE  StoredInv'
<1>. DEFINE chain == Chain(from, to)
            s == [pr[p] EXCEPT !.pc = "batchInsert", !.todo = chain, !.batch = TRUE]
<1>0. /\ p \in Procs /\ p # Attester /\ pr[p] = IdleProc /\ from # to /\ from \in Ancestors[to]
      /\ \A q \in Procs : pr[q] = IdleProc
  BY TreeAssumption DEF Procs, ReceiveBlockBatch, Idle, StoredInv
<1>1. pr[p] \in Procedure /\ pr' = [pr EXCEPT ![p] = s] /\ UNCHANGED <<fc, finalized>>
  BY <1>0 DEF ProcsInv, ReceiveBlockBatch
<1>2. chain \in Seq(Blocks)
  BY <1>0, BatchFacts
<1>. HIDE DEF chain
<1>3. s \in Procedure /\ s.pc = "batchInsert" /\ s.then = pr[p].then /\ s.batch = TRUE
  BY <1>1, <1>2, Zenon DEF Procedure, Steps
<1>. HIDE DEF s
<1>4. Keeps(p)
  BY <1>0, <1>1, KeepsAll DEF ReceiveBlockBatch, FlushForPreState, BlocksForPreState
<1>5. ProcStored(s, dbBlocks', initSync')
  BY <1>0, <1>3 DEF ProcStored, IdleProc
<1>6. \A q \in Procs \ {p} : Idle(q) /\ ~pr[q].batch
  BY <1>0 DEF Idle, IdleProc
<1>. QED
  BY <1>0, <1>1, <1>3, <1>4, <1>5, <1>6, StoredMoves, Zenon

\* A block is inserted once it is saved, or with a batch.
LEMMA StoredInserts ==
  ASSUME StoredInv, ProcsInv, DataInv, NEW p \in Procs, InsertToForkChoice(p) \/ BatchInsert(p)
  PROVE  StoredInv'
<1>. USE DEF At, database
<1>1. Blk(p) \in Blocks /\ pr[p].pc \in {"insert", "batchInsert"}
  BY ProcReceiver DEF InsertToForkChoice, BatchInsert
<1>2. fc \in Seq(Node) /\ J[Blk(p)] \in Checkpoints /\ F[Blk(p)] \in Checkpoints
  BY <1>1, TreeAssumption DEF DataInv
<1>3. Nodes' = RootsOf(fc')
  BY DEF Nodes, RootsOf
<1>4. Nodes' \subseteq Nodes \cup dbBlocks \cup {Blk(p)}
  BY <1>1, <1>2, <1>3, InsertBlockFacts, NodesAreRoots DEF InsertToForkChoice, BatchInsert
<1>5. UNCHANGED <<dbBlocks, finalized>>
  BY DEF InsertToForkChoice, BatchInsert
<1>6. ProcStored(pr[p], dbBlocks, initSync)
  BY DEF StoredInv
<1>7. CASE InsertToForkChoice(p)
  <2>1. Blk(p) \in dbBlocks /\ initSync' = initSync /\ Goto(p, "justify")
    BY <1>6, <1>7, Zenon DEF InsertToForkChoice, ProcStored, Blk
  <2>2. Keeps(p)
    BY <1>4, <1>5, <2>1, Zenon DEF Keeps, StoredInv
  <2>. QED
    BY <1>1, <2>1, <2>2, StoredGoes DEF Steps
<1>8. CASE BatchInsert(p)
  <2>1. pr[p].batch /\ initSync' = initSync \cup {Blk(p)} /\ Goto(p, "batchSummary")
    BY <1>6, <1>8 DEF BatchInsert, ProcStored
  <2>2. Keeps(p)
    BY <1>4, <1>5, <2>1 DEF Keeps, StoredInv
  <2>. QED
    BY <1>1, <2>1, <2>2, StoredGoes DEF Steps
<1>. QED
  BY <1>7, <1>8

\* The cache is cleared when its blocks have been saved.
LEMMA StoredClears ==
  ASSUME StoredInv, ProcsInv, DataInv, NEW p \in Procs, ClearInitSyncBlocks(p)
  PROVE  StoredInv'
<1>. DEFINE s == [pr[p] EXCEPT !.pc = pr[p].then, !.then = "idle"]
<1>1. /\ pr[p] \in Procedure /\ pr[p].pc = "clear" /\ ProcStored(pr[p], dbBlocks, initSync)
      /\ initSync' = {} /\ UNCHANGED <<fc, finalized, dbBlocks>>
  BY DEF ProcsInv, ClearInitSyncBlocks, At, StoredInv, database
<1>2. Keeps(p)
  BY <1>1, KeepsAll DEF ProcStored
<1>3. Return(p) \/ FlushThenSave(p) \/ pr' = [pr EXCEPT ![p] = s]
  BY <1>1, Zenon DEF ClearInitSyncBlocks, ProcsInv, AfterHead
<1>4. CASE pr' = [pr EXCEPT ![p] = s]
  <2>1. s \in Procedure /\ s.pc = pr[p].then /\ s.then = "idle" /\ s.batch = pr[p].batch
    BY <1>1 DEF Procedure, Steps
  <2>. HIDE DEF s
  <2>2. ProcStored(s, dbBlocks', initSync')
    BY <1>1, <2>1 DEF ProcStored
  <2>. QED
    BY <1>1, <1>2, <1>4, <2>1, <2>2, StoredGoesOn, Zenon
<1>. QED
  BY <1>1, <1>2, <1>3, <1>4, StoredReturns, StoredCaches, Zenon DEF FlushThenSave, Steps

\* The finalized checkpoint: its chain is in the database when it is saved, and
\* without UpdateHeadTimely it is saved first.
LEMMA StoredFinalizes ==
  ASSUME StoredInv, ProcsInv, DataInv, NEW p \in Procs,
         SaveFinalizedCheckpoint(p) \/ AdoptFinalized(p)
  PROVE  StoredInv'
<1>. USE DEF At, memory, database
<1>1. /\ pr[p] \in Procedure /\ pr[p].pc \in {"saveFinalized", "adopt"}
      /\ ProcStored(pr[p], dbBlocks, initSync) /\ UNCHANGED <<fc, initSync, dbBlocks>>
  BY DEF ProcsInv, SaveFinalizedCheckpoint, AdoptFinalized, StoredInv
<1>2. p \in Workers /\ Blk(p) \in Blocks
  BY <1>1, ProcReceiver
<1>3. Keeps(p)
  <2>1. Nodes' \subseteq dbBlocks' \cup initSync'
    BY <1>1 DEF StoredInv, Nodes
  <2>2. \/ finalized' = finalized
        \/ finalized' = F[Blk(p)] /\ pr[p].pc = "adopt"
    BY DEF SaveFinalizedCheckpoint, AdoptFinalized
  <2>3. ~Timely => Ancestors[EnsureRootNotZeros(finalized'.root)] \subseteq dbBlocks'
    BY <1>1, <2>2, Zenon DEF StoredInv, ProcStored, Blk
  <2>. QED
    BY <1>1, <2>1, <2>3 DEF Keeps
<1>4. CASE \/ Return(p) \/ Goto(p, "prune") \/ Goto(p, "promote")
           \/ pr[p].batch /\ NextOfBatch(p)
  BY <1>1, <1>2, <1>3, <1>4, StoredReturns, StoredGoes, StoredBatches DEF Steps
<1>5. CASE /\ ~Timely /\ Goto(p, "adopt") /\ F[Blk(p)].root \in dbSummaries
           /\ Ancestors[F[Blk(p)].root] \subseteq dbBlocks
  <2>. DEFINE s == [pr[p] EXCEPT !.pc = "adopt"]
  <2>1. pr' = [pr EXCEPT ![p] = s]
    BY <1>5 DEF Goto
  <2>2. /\ s \in Procedure /\ s.pc = "adopt" /\ s.then = pr[p].then /\ s.todo = pr[p].todo
        /\ s.batch = pr[p].batch
    BY <1>1 DEF Procedure, Steps
  <2>. HIDE DEF s
  <2>3. F[Blk(p)].root \in Blocks /\ F[Blk(p)].root # ZeroHash
    <3>1. F[Blk(p)].root \in Blocks
      BY <1>5 DEF DataInv
    <3>2. ZeroHash \notin Nat
      BY DEF ZeroHash
    <3>. QED
      BY <3>1, <3>2, ParentFacts, Zenon
  <2>4. EnsureRootNotZeros(F[Blk(p)].root) = F[Blk(p)].root
    BY <2>3 DEF EnsureRootNotZeros
  <2>5. ProcStored(s, dbBlocks', initSync')
    BY <1>1, <1>5, <2>2, <2>4, Zenon DEF ProcStored, Blk
  <2>. QED
    BY <1>1, <1>3, <2>1, <2>2, <2>5, StoredGoesOn, Zenon
<1>. QED
  BY <1>4, <1>5 DEF SaveFinalizedCheckpoint, AdoptFinalized, AfterSaveFinalized

\* onBlock finds out whether the block finalizes a later epoch.
LEMMA StoredChecks ==
  ASSUME StoredInv, ProcsInv, DataInv, NEW p \in Procs, CheckFinalized(p)
  PROVE  StoredInv'
<1>. DEFINE newF == F[Blk(p)].epoch > finalized.epoch
            s == [pr[p] EXCEPT !.newF = newF,
                               !.pc = IF ~newF THEN "promote"
                                      ELSE IF Timely THEN "newJustified" ELSE "flush",
                               !.then = IF newF /\ ~Timely THEN "saveFinalized" ELSE @]
<1>1. /\ pr[p] \in Procedure /\ pr[p].pc = "finalize" /\ ProcStored(pr[p], dbBlocks, initSync)
      /\ UNCHANGED <<fc, finalized, dbBlocks, initSync>>
  BY DEF ProcsInv, CheckFinalized, At, memory, database, StoredInv
<1>2. p \in Workers
  BY <1>1, ProcReceiver
<1>3. Keeps(p)
  BY <1>1, KeepsAll
<1>4. FlushThenSave(p) \/ (pr[p].batch /\ NextOfBatch(p)) \/ pr' = [pr EXCEPT ![p] = s]
  <2>1. CASE pr[p].batch
    BY <2>1, Zenon DEF CheckFinalized
  <2>2. CASE ~pr[p].batch
    BY <1>1, <2>2, Zenon DEF CheckFinalized, ProcsInv
  <2>. QED
    BY <2>1, <2>2
<1>5. CASE pr' = [pr EXCEPT ![p] = s]
  <2>1. newF \in BOOLEAN /\ Timely \in BOOLEAN
    BY TreeAssumption
  <2>2. /\ s \in Procedure /\ s.pc \in {"promote", "newJustified", "flush"}
        /\ s.then \in {"saveFinalized", pr[p].then} /\ s.batch = pr[p].batch
    BY <1>1, <2>1 DEF Procedure, Steps
  <2>. HIDE DEF s
  <2>3. ProcStored(s, dbBlocks', initSync')
    BY <1>1, <2>2, Zenon DEF ProcStored
  <2>. QED
    BY <1>1, <1>3, <1>5, <2>2, <2>3, StoredGoesOn, Zenon
<1>. QED
  BY <1>1, <1>2, <1>3, <1>4, <1>5, StoredCaches, StoredBatches, Zenon DEF FlushThenSave, Steps

\* A store made anew from b has only blocks of the database and b.
LEMMA StoreAnew ==
  ASSUME NEW b \in Blocks, NEW j \in Checkpoints, NEW f \in Checkpoints
  PROVE  RootsOf(InsertBlock(<<>>, b, j, f)) \subseteq dbBlocks \cup {b}
<1>1. <<>> \in Seq(Node) /\ RootsOf(<<>>) = {}
  BY DEF RootsOf
<1>. DEFINE e == <<>>
<1>2. e \in Seq(Node) /\ RootsOf(e) = {}
  BY <1>1
<1>. HIDE DEF e
<1>3. RootsOf(InsertBlock(e, b, j, f)) \subseteq RootsOf(e) \cup dbBlocks \cup {b}
  BY <1>2, InsertBlockFacts
<1>4. RootsOf(InsertBlock(e, b, j, f)) \subseteq dbBlocks \cup {b}
  BY <1>2, <1>3
<1>. QED
  BY <1>4 DEF e

\* updateHead makes the store anew from a block of the database only.
LEMMA StoredHeads ==
  ASSUME StoredInv, ProcsInv, DataInv, NEW p \in Procs, UpdateHead(p)
  PROVE  StoredInv'
<1>. DEFINE root == EnsureRootNotZeros(justified.root)
            nodes == StoreForHead(root, justified, pr[p].f)
<1>1. fc \in Seq(Node) /\ justified \in Checkpoints /\ root \in Blocks
  BY JustsFacts DEF DataInv
<1>2. pr[p].f \in Checkpoints /\ <<>> \in Seq(Node) /\ RootsOf(<<>>) = {}
  BY DEF ProcsInv, Procedure, RootsOf
<1>3. fc' = nodes /\ root \in Nodes \cup dbBlocks /\ pr[p].pc = "head"
  BY Zenon DEF UpdateHead, At
<1>4. RootsOf(nodes) \subseteq Nodes \cup dbBlocks
  <2>1. CASE root \in Nodes
    BY <2>1, NodesAreRoots DEF StoreForHead
  <2>2. CASE root \notin Nodes
    <3>1. RootsOf(InsertBlock(<<>>, root, justified, pr[p].f)) \subseteq dbBlocks \cup {root}
      BY <1>1, <1>2, StoreAnew
    <3>. QED
      BY <1>2, <1>3, <2>2, <3>1 DEF StoreForHead
  <2>. QED
    BY <2>1, <2>2
<1>. HIDE DEF nodes
<1>5. Nodes' = RootsOf(fc')
  BY DEF Nodes, RootsOf
<1>6. UNCHANGED <<finalized, initSync, dbBlocks>>
  BY DEF UpdateHead, database
<1>7. Keeps(p)
  BY <1>3, <1>4, <1>5, <1>6, Zenon DEF Keeps, StoredInv
<1>8. Return(p) \/ FlushThenSave(p)
  BY DEF UpdateHead, AfterHead
<1>. QED
  BY <1>3, <1>7, <1>8, StoredReturns, StoredCaches, Zenon DEF FlushThenSave, Steps

\* Pruning adds no node.
LEMMA StoredPrunes ==
  ASSUME StoredInv, ProcsInv, DataInv, NEW p \in Procs, Prune(p)
  PROVE  StoredInv'
<1>1. fc \in Seq(Node) /\ pr[p].pc = "prune" /\ UNCHANGED <<finalized, initSync, dbBlocks>>
  BY DEF DataInv, Prune, At, database
<1>2. RootsOf(fc') \subseteq RootsOf(fc)
  BY <1>1, PruneFacts, NodesAreRoots DEF Prune
<1>3. Nodes' = RootsOf(fc')
  BY DEF Nodes, RootsOf
<1>4. Keeps(p)
  BY <1>1, <1>2, <1>3, NodesAreRoots DEF Keeps, StoredInv
<1>. QED
  BY <1>1, <1>4, StoredReturns, StoredGoes DEF Prune, Steps

\* The steps that leave the fork choice store alone.
LEMMA StoredSteps ==
  ASSUME StoredInv, ProcsInv, DataInv, NEW p \in Procs,
         \/ SaveBlock(p) \/ SaveState(p) \/ UpdateJustified(p) \/ SaveInitSyncBlocks(p)
         \/ SaveJustifiedCheckpoint(p) \/ FinalizedImpliesNewJustified(p)
         \/ PromoteBestJustified(p) \/ BatchJustify(p) \/ Fail(p)
  PROVE  StoredInv'
<1>. USE DEF At, memory, database
<1>1. /\ dbBlocks \subseteq dbBlocks' /\ initSync' \subseteq initSync
      /\ initSync \subseteq dbBlocks' \cup initSync' /\ UNCHANGED <<fc, finalized>>
  BY Zenon DEF SaveBlock, SaveState, UpdateJustified, SaveInitSyncBlocks, SaveJustifiedCheckpoint,
         FinalizedImpliesNewJustified, PromoteBestJustified, BatchJustify, Fail
<1>2. Keeps(p)
  BY <1>1, KeepsAll
<1>3. CASE SaveBlock(p)
  BY <1>2, <1>3, StoredGoes, Zenon DEF SaveBlock, Steps
<1>4. CASE SaveState(p)
  BY <1>2, <1>4, StoredGoes, Zenon DEF SaveState, Steps, StoredInv, ProcStored, Blk
<1>5. CASE UpdateJustified(p)
  <2>1. /\ pr[p].pc = "justify"
        /\ \/ Goto(p, "finalize") \/ Goto(p, "saveJustified") \/ Return(p)
           \/ CacheBalancesThen(p, "saveJustified")
    BY <1>5, Zenon DEF UpdateJustified
  <2>. QED
    BY <1>2, <2>1, StoredGoes, StoredReturns, StoredCaches, Zenon DEF CacheBalancesThen, Steps
<1>6. CASE SaveInitSyncBlocks(p)
  BY <1>2, <1>6, StoredGoes, Zenon DEF SaveInitSyncBlocks, Steps
<1>7. CASE SaveJustifiedCheckpoint(p)
  BY <1>2, <1>7, StoredGoes, StoredReturns, Zenon DEF SaveJustifiedCheckpoint, Steps
<1>8. CASE FinalizedImpliesNewJustified(p)
  <2>. DEFINE after == IF Timely THEN "adopt" ELSE "promote"
  <2>1. /\ pr[p].pc = "newJustified"
        /\ Goto(p, after) \/ Return(p) \/ CacheBalancesThen(p, after)
    BY <1>8, Zenon DEF FinalizedImpliesNewJustified
  <2>2. CASE Goto(p, after) /\ Timely
    <3>. DEFINE s == [pr[p] EXCEPT !.pc = "adopt"]
    <3>1. pr[p] \in Procedure /\ pr' = [pr EXCEPT ![p] = s]
      BY <2>2 DEF Goto, ProcsInv
    <3>2. s \in Procedure /\ s.pc = "adopt" /\ s.then = pr[p].then /\ s.batch = pr[p].batch
      BY <3>1 DEF Procedure, Steps
    <3>. HIDE DEF s
    <3>3. ProcStored(s, dbBlocks', initSync')
      BY <2>2, <3>2 DEF ProcStored, StoredInv
    <3>. QED
      BY <1>2, <2>1, <3>1, <3>2, <3>3, StoredGoesOn, Zenon
  <2>3. CASE Goto(p, after) /\ ~Timely
    BY <1>2, <2>1, <2>3, StoredGoes DEF Steps
  <2>. QED
    BY <1>2, <2>1, <2>2, <2>3, StoredReturns, StoredCaches, Zenon DEF CacheBalancesThen, Steps
<1>9. CASE PromoteBestJustified(p)
  BY <1>2, <1>9, StoredGoes, StoredCaches, Zenon DEF PromoteBestJustified, CacheBalancesThen, Steps
<1>10. CASE BatchJustify(p)
  BY <1>2, <1>10, StoredGoes, StoredCaches, Zenon DEF BatchJustify, CacheBalancesThen, Steps
<1>11. CASE Fail(p)
  BY <1>2, <1>11, StoredReturns, Zenon DEF Fail, Fallible
<1>. QED
  BY <1>3, <1>4, <1>5, <1>6, <1>7, <1>8, <1>9, <1>10, <1>11

\* The attestation routine starts when no batch runs.
LEMMA StoredRoutine ==
  ASSUME StoredInv, ProcsInv, DataInv, NEW p \in Procs, ProcessAttestations(p) \/ ReadFinalized(p)
  PROVE  StoredInv'
<1>1. UNCHANGED <<fc, finalized, dbBlocks, initSync>>
  BY DEF ProcessAttestations, ReadFinalized, memory, database
<1>2. Keeps(p)
  BY <1>1, KeepsAll
<1>3. CASE ProcessAttestations(p)
  <2>. DEFINE s == [pr[p] EXCEPT !.pc = "promote"]
  <2>1. p = Attester /\ pr[p] = IdleProc /\ pr[p] \in Procedure /\ pr' = [pr EXCEPT ![p] = s]
    BY <1>3 DEF ProcessAttestations, Idle, Goto, ProcsInv
  <2>2. s \in Procedure /\ s.pc = "promote" /\ s.then = pr[p].then /\ s.batch = pr[p].batch
    BY <2>1 DEF Procedure, Steps
  <2>. HIDE DEF s
  <2>3. ProcStored(s, dbBlocks', initSync') /\ s.batch = FALSE
    BY <2>1, <2>2 DEF ProcStored, IdleProc
  <2>4. \A q \in Procs \ {p} : ~pr[q].batch
    BY <1>3, <2>1 DEF ProcessAttestations, Syncing, StoredInv, Procs
  <2>. QED
    BY <1>2, <2>1, <2>2, <2>3, <2>4, StoredMoves, Zenon
<1>4. CASE ReadFinalized(p)
  <2>. DEFINE s == [pr[p] EXCEPT !.pc = "head", !.f = finalized]
  <2>1. pr[p] \in Procedure /\ pr[p].pc = "readFinalized" /\ pr' = [pr EXCEPT ![p] = s]
    BY <1>4, Zenon DEF ReadFinalized, ProcsInv, At
  <2>2. s \in Procedure /\ s.pc = "head" /\ s.then = pr[p].then /\ s.batch = pr[p].batch
    BY <2>1, TreeFacts, Zenon DEF Procedure, Steps, DataInv
  <2>. HIDE DEF s
  <2>3. ProcStored(s, dbBlocks', initSync')
    BY <2>2, Zenon DEF ProcStored, StoredInv
  <2>. QED
    BY <1>2, <2>1, <2>2, <2>3, StoredGoesOn, Zenon
<1>. QED
  BY <1>3, <1>4

\* Every step keeps the invariant,
LEMMA StoredNext == StoredInv /\ ProcsInv /\ DataInv /\ [Next]_vars => StoredInv'
<1>. SUFFICES ASSUME StoredInv, ProcsInv, DataInv, [Next]_vars PROVE StoredInv'
  OBVIOUS
<1>1. CASE \/ \E p \in Workers, b \in Blocks : ReceiveBlock(p, b)
           \/ \E p \in Workers, from \in Blocks, to \in Blocks : ReceiveBlockBatch(p, from, to)
  BY <1>1, StoredReceives, StoredReceivesBatch
<1>2. ASSUME NEW p \in Procs,
         \/ SaveBlock(p) \/ SaveState(p) \/ UpdateJustified(p) \/ SaveInitSyncBlocks(p)
         \/ SaveJustifiedCheckpoint(p) \/ FinalizedImpliesNewJustified(p)
         \/ PromoteBestJustified(p) \/ BatchJustify(p) \/ Fail(p)
      PROVE  StoredInv'
  BY <1>2, StoredSteps
<1>3. ASSUME NEW p \in Procs,
         \/ InsertToForkChoice(p) \/ BatchInsert(p) \/ ClearInitSyncBlocks(p)
         \/ SaveFinalizedCheckpoint(p) \/ AdoptFinalized(p) \/ CheckFinalized(p)
         \/ UpdateHead(p) \/ Prune(p) \/ ProcessAttestations(p) \/ ReadFinalized(p)
      PROVE  StoredInv'
  BY <1>3, StoredInserts, StoredClears, StoredFinalizes, StoredChecks, StoredHeads,
     StoredPrunes, StoredRoutine
<1>4. ASSUME NEW p \in Procs, Panic(p) PROVE StoredInv'
  <2>1. /\ UNCHANGED <<fc, finalized, dbBlocks, initSync>>
        /\ \A q \in Procs : pr'[q] = [IdleProc EXCEPT !.pc = "dead"]
    BY <1>4 DEF Panic, memory, database
  <2>2. \A q \in Procs : pr'[q].pc = "dead" /\ pr'[q].then = "idle" /\ pr'[q].batch = FALSE
    BY <2>1 DEF IdleProc
  <2>3. \A q \in Procs : ProcStored(pr'[q], dbBlocks', initSync')
    BY <2>2 DEF ProcStored
  <2>. QED
    BY <2>1, <2>2, <2>3 DEF StoredInv, Nodes, Procs
<1>5. CASE Restart
  <2>1. /\ fc' = <<>> /\ finalized' = dbFinalized /\ dbBlocks \subseteq dbBlocks'
        /\ \A q \in Procs : pr'[q] = IdleProc
    BY <1>5 DEF Restart
  <2>2. \A q \in Procs : pr'[q].pc = "idle" /\ pr'[q].then = "idle" /\ pr'[q].batch = FALSE
    BY <2>1 DEF IdleProc
  <2>3. \A q \in Procs : ProcStored(pr'[q], dbBlocks', initSync')
    BY <2>2 DEF ProcStored
  <2>4. Ancestors[EnsureRootNotZeros(finalized'.root)] \subseteq dbBlocks'
    BY <1>5, <2>1 DEF Restart, CanRestart
  <2>. QED
    BY <2>1, <2>2, <2>3, <2>4 DEF StoredInv, Nodes, Procs
<1>6. CASE (\E r \in Blocks : Evict(r)) \/ UNCHANGED vars
  <2>1. UNCHANGED <<fc, finalized, dbBlocks, initSync, pr>>
    BY <1>6 DEF Evict, vars, memory, database
  <2>. QED
    BY <2>1 DEF StoredInv, Nodes, Idle
<1>. QED
  BY <1>1, <1>2, <1>3, <1>4, <1>5, <1>6 DEF Next

\* ... it holds when the node starts,
LEMMA StoredInit == Resync = FALSE /\ Init => StoredInv
<1>. SUFFICES ASSUME Resync = FALSE, Init PROVE StoredInv
  OBVIOUS
<1>. IsFiniteSet({Genesis})
  BY FS_Singleton, Zenon
<1>1. <<>> \in Seq(Node) /\ {Genesis} \subseteq Blocks /\ RootsOf(<<>>) = {}
  BY ParentFacts DEF RootsOf
<1>2. RootsOf(ProcessBlocks(<<>>, {Genesis}, GenesisCheckpoint, GenesisCheckpoint)) =
        RootsOf(<<>>) \cup {Genesis}
  BY <1>1, ProcessBlocksFacts, JustsFacts, Zenon
<1>3. Nodes \subseteq dbBlocks
  BY <1>1, <1>2, NodesAreRoots, Zenon DEF Init
<1>4. Ancestors[EnsureRootNotZeros(finalized.root)] \subseteq dbBlocks
  BY AncestorsUnfold, ParentFacts DEF Init, GenesisCheckpoint, EnsureRootNotZeros
<1>5. \A p \in Procs : ProcStored(pr[p], dbBlocks, initSync) /\ pr[p].batch = FALSE
  BY Zenon DEF Init, ProcStored, IdleProc
<1>. QED
  BY <1>3, <1>4, <1>5 DEF StoredInv, Procs

\* ... and so always.
LEMMA StoredAlways == Resync = FALSE /\ Spec => [](StoredInv /\ ProcsInv /\ DataInv)
<1>1. Resync = FALSE /\ Init => StoredInv /\ ProcsInv /\ DataInv
  BY StoredInit, TypesInit
<1>2. StoredInv /\ ProcsInv /\ DataInv /\ [Next]_vars => (StoredInv /\ ProcsInv /\ DataInv)'
  BY StoredNext, ProcsNext, DataNext
<1>. QED
  BY <1>1, <1>2, PTL DEF Spec

\* When the attestation routine waits for the end of initial sync, every block of
\* the fork choice store is in the database or in the cache of initial sync,
\* however many goroutines receive blocks, and through every error and restart.
THEOREM StoreHoldsForkChoice == Resync = FALSE /\ Spec => []InsertedBlocksAreStored
<1>1. StoredInv => InsertedBlocksAreStored
  BY DEF StoredInv, InsertedBlocksAreStored
<1>. QED
  BY <1>1, StoredAlways, PTL

\* Under the same assumption, and without UpdateHeadTimely, a block that passes
\* the checks of verifyBlkPreState has its pre state: the blocks down to the
\* finalized one were found, and those below it were in the database when it
\* was finalized.
THEOREM PreStatesAreAvailable ==
  Resync = FALSE /\ Timely = FALSE /\ Spec => []PreStateAvailable
<1>. SUFFICES ASSUME Timely = FALSE PROVE Resync = FALSE /\ Spec => []PreStateAvailable
  BY Zenon
<1>1. StoredInv /\ ProcsInv /\ DataInv => PreStateAvailable
  <2>. SUFFICES ASSUME StoredInv, DataInv, NEW b \in Blocks, VerifyBlkPreState(b)
                PROVE  HasStateByRoot(Parent[b], BlocksForPreState(b))
    BY DEF PreStateAvailable
  <2>. DEFINE r == Parent[b]
              fRoot == EnsureRootNotZeros(finalized.root)
              stored == dbBlocks \cup initSync
  <2>1. r \in Blocks /\ fRoot \in Blocks /\ Slot[fRoot] \in Nat /\ Slot[Genesis] = 0
    BY ParentFacts, JustsFacts, TreeFacts DEF DataInv
  <2>2. CASE r \in hot
    BY <2>2 DEF HasStateByRoot
  <2>3. CASE r = Genesis
    <3>1. Ancestors[r] = {Genesis}
      BY <2>1, <2>3, AncestorsUnfold, Zenon
    <3>2. Genesis \in Ancestors[r] /\ Above(r, Slot[Genesis]) = {}
      BY <2>1, <3>1 DEF Above
    <3>. QED
      BY <3>2 DEF HasStateByRoot
  <2>4. CASE r \notin hot \cup {Genesis}
    <3>1. BlocksForPreState(b) = stored
      BY <2>4 DEF BlocksForPreState, NeedsFlush
    <3>2. HasAncestor(r, Slot[fRoot]) /\ AncestorAt(r, Slot[fRoot]) = fRoot
      BY DEF VerifyBlkPreState, VerifyBlkDescendant
    <3>3. Linked \subseteq stored /\ Ancestors[fRoot] \subseteq stored
      BY DEF StoredInv, Linked, Nodes
    <3>4. Above(r, Slot[fRoot]) \subseteq stored
      BY <3>2, <3>3 DEF HasAncestor
    <3>5. ASSUME NEW a \in Ancestors[r] PROVE a \in stored
      <4>1. a \in Blocks /\ Slot[a] \in Nat
        BY <2>1, ChainFacts, ParentFacts, Zenon
      <4>2. CASE Slot[a] > Slot[fRoot]
        BY <3>4, <4>2 DEF Above
      <4>3. CASE Slot[a] =< Slot[fRoot]
        <5>1. fRoot \in Ancestors[r]
          BY <2>1, <3>2, AncestorAtFacts
        <5>2. a \in Ancestors[fRoot]
          BY <2>1, <4>3, <5>1, ChainFacts
        <5>. QED
          BY <3>3, <5>2
      <4>. QED
        BY <2>1, <4>1, <4>2, <4>3
    <3>6. Genesis \in Ancestors[r] /\ Above(r, Slot[Genesis]) \subseteq stored
      BY <2>1, <3>5, ChainFacts DEF Above
    <3>. QED
      BY <3>1, <3>6 DEF HasStateByRoot
  <2>. QED
    BY <2>2, <2>3, <2>4
<1>. QED
  BY <1>1, StoredAlways, PTL

===============================================================================
