----------------------------- MODULE SerialProofs -----------------------------
(* Proofs about two components whose steps one goroutine at a time takes: the  *)
(* proposal history under the role lock (ProposerProtection), for any keys,    *)
(* callers, slots and roots, any number of calls and crashes and any period,   *)
(* and the queue of initial sync in its loop (BlocksQueue), for any chain of   *)
(* the peers, any size of a request and of the window, and any number of       *)
(* answers without blocks.                                                     *)
EXTENDS ProposerProtection, BlocksQueue, FiniteSetTheorems, TLAPS

-------------------------------------------------------------------------------
(* The proposal history: the inductive invariant *)

\* The role lock admits one caller at a time.
LockInv ==
    \A c, o \in Callers : (proposing[c] # "idle" /\ proposing[o] # "idle") => c = o

\* What a caller read is what the history holds, until it saves.
ReadInv ==
    \A c \in Callers :
        LET b == proposed[c] IN
        /\ proposing[c] = "lowest" => prev[c] = history[b.key][b.slot]
        /\ proposing[c] = "save" =>
               /\ history[b.key][b.slot] \in {NoRoot, b.root}
               /\ lowest[b.key] # NoSlot => lowest[b.key] <= b.slot
        /\ proposing[c] = "broadcast" => history[b.key][b.slot] = b.root

\* The lowest and the highest slot bound the slots of the history.
RangeInv ==
    \A k \in PubKeys :
        /\ lowest[k] = NoSlot <=> highest[k] = NoSlot
        /\ \A s \in Slots : history[k][s] # NoRoot =>
               lowest[k] # NoSlot /\ lowest[k] <= s /\ s <= highest[k]

\* Every broadcast or imported proposal that is not too old is in the history.
KeptInv ==
    \A a \in sent \cup imported :
        /\ highest[a.key] # NoSlot
        /\ ~Prunable(a.slot, highest[a.key]) => history[a.key][a.slot] = a.root

ProposeInv == ProposeTypeOK /\ LockInv /\ ReadInv /\ RangeInv /\ KeptInv

-------------------------------------------------------------------------------
(* Epochs and pruning *)

\* Epochs grow with the slots.
LEMMA EpochMonotone ==
    ASSUME NEW s \in Nat, NEW t \in Nat, s <= t
    PROVE  Epoch(s) \in Nat /\ Epoch(t) \in Nat /\ Epoch(s) <= Epoch(t)
BY SlotAssumption DEF Epoch

\* What is too old for one slot is too old for every later one; no slot is too
\* old for itself.
LEMMA PrunableMonotone ==
    ASSUME NEW s \in Nat, NEW n \in Nat, NEW m \in Nat, n <= m
    PROVE  (Prunable(s, n) => Prunable(s, m)) /\ ~Prunable(n, n)
<1>1. /\ Epoch(s) \in Nat /\ Epoch(n) \in Nat /\ Epoch(m) \in Nat
      /\ Epoch(n) <= Epoch(m)
  BY EpochMonotone
<1>. QED  BY <1>1, SlotAssumption DEF Prunable

\* The database after SaveProposalHistoryForSlot.
LEMMA SaveFacts ==
    ASSUME ProposeTypeOK, RangeInv, NEW b \in Blocks, SaveProposalHistoryForSlot(b)
    PROVE  /\ history' \in [PubKeys -> [Slots -> Roots \cup {ZeroRoot, NoRoot}]]
           /\ lowest' \in [PubKeys -> Slots \cup {NoSlot}]
           /\ highest' \in [PubKeys -> Slots \cup {NoSlot}]
           /\ \A k \in PubKeys : k # b.key =>
                 /\ history'[k] = history[k] /\ lowest'[k] = lowest[k]
                 /\ highest'[k] = highest[k]
           /\ history'[b.key][b.slot] = b.root
           /\ \A s \in Slots : s # b.slot => history'[b.key][s] =
                 IF Prunable(s, b.slot) THEN NoRoot ELSE history[b.key][s]
           /\ lowest'[b.key] \in Slots /\ lowest'[b.key] <= b.slot
           /\ lowest[b.key] # NoSlot => lowest'[b.key] <= lowest[b.key]
           /\ (lowest[b.key] # NoSlot /\ lowest[b.key] <= b.slot)
                 => lowest'[b.key] = lowest[b.key]
           /\ highest'[b.key] \in Slots /\ highest'[b.key] >= b.slot
           /\ highest[b.key] # NoSlot => highest'[b.key] >= highest[b.key]
<1>. DEFINE k == b.key
            h == [history[k] EXCEPT ![b.slot] = b.root]
<1>1. k \in PubKeys /\ b.slot \in Slots /\ b.slot \in Nat /\ b.root \in Roots
  BY SlotAssumption, Zenon DEF Blocks
<1>2. /\ history' = [history EXCEPT ![k] = PruneProposalHistoryBySlot(h, b.slot)]
      /\ lowest' = [lowest EXCEPT ![k] =
           IF lowest[k] = NoSlot \/ b.slot < lowest[k] THEN b.slot ELSE lowest[k]]
      /\ highest' = [highest EXCEPT ![k] =
           IF highest[k] = NoSlot \/ b.slot > highest[k] THEN b.slot ELSE highest[k]]
  BY DEF SaveProposalHistoryForSlot
<1>3. h \in [Slots -> Roots \cup {ZeroRoot, NoRoot}]
  BY <1>1 DEF ProposeTypeOK
<1>4. ~Prunable(b.slot, b.slot)
  BY <1>1, PrunableMonotone
<1>5. /\ history'[k] = [s \in Slots |-> IF Prunable(s, b.slot) THEN NoRoot ELSE h[s]]
      /\ \A j \in PubKeys : j # k => history'[j] = history[j]
      /\ history' \in [PubKeys -> [Slots -> Roots \cup {ZeroRoot, NoRoot}]]
  BY <1>1, <1>2, <1>3 DEF PruneProposalHistoryBySlot, ProposeTypeOK
<1>6. /\ history'[k][b.slot] = b.root
      /\ \A s \in Slots : s # b.slot => history'[k][s] =
                 IF Prunable(s, b.slot) THEN NoRoot ELSE history[k][s]
  BY <1>1, <1>4, <1>5 DEF ProposeTypeOK
<1>7. /\ lowest \in [PubKeys -> Slots \cup {NoSlot}] /\ lowest[k] \in Slots \cup {NoSlot}
      /\ highest \in [PubKeys -> Slots \cup {NoSlot}] /\ highest[k] \in Slots \cup {NoSlot}
      /\ Slots \subseteq Nat /\ NoSlot = -1
  BY <1>1, SlotAssumption DEF ProposeTypeOK, NoSlot
<1>8. /\ lowest' \in [PubKeys -> Slots \cup {NoSlot}]
      /\ \A j \in PubKeys : j # k => lowest'[j] = lowest[j]
      /\ lowest'[k] \in Slots /\ lowest'[k] <= b.slot
      /\ lowest[k] # NoSlot => lowest'[k] <= lowest[k]
      /\ (lowest[k] # NoSlot /\ lowest[k] <= b.slot) => lowest'[k] = lowest[k]
  <2>. DEFINE v == IF lowest[k] = NoSlot \/ b.slot < lowest[k] THEN b.slot ELSE lowest[k]
  <2>1. v \in Slots
    BY <1>1, <1>7
  <2>2. lowest' = [lowest EXCEPT ![k] = v]
    BY <1>2
  <2>3. /\ lowest' \in [PubKeys -> Slots \cup {NoSlot}] /\ lowest'[k] = v
        /\ \A j \in PubKeys : j # k => lowest'[j] = lowest[j]
    <3>. HIDE DEF v
    <3>. QED  BY <1>1, <1>7, <2>1, <2>2
  <2>4. /\ v <= b.slot /\ (lowest[k] # NoSlot => v <= lowest[k])
        /\ (lowest[k] # NoSlot /\ lowest[k] <= b.slot) => v = lowest[k]
    <3>1. CASE lowest[k] = NoSlot
      BY <1>1, <3>1
    <3>2. CASE lowest[k] # NoSlot
      <4>1. lowest[k] \in Nat
        BY <1>7, <3>2, Zenon
      <4>2. v = IF b.slot < lowest[k] THEN b.slot ELSE lowest[k]
        BY <3>2
      <4>. HIDE DEF v
      <4>. QED  BY <1>1, <4>1, <4>2
    <3>. QED  BY <3>1, <3>2
  <2>. HIDE DEF v
  <2>. QED  BY <2>1, <2>3, <2>4
<1>9. /\ highest' \in [PubKeys -> Slots \cup {NoSlot}]
      /\ \A j \in PubKeys : j # k => highest'[j] = highest[j]
      /\ highest'[k] \in Slots /\ highest'[k] >= b.slot
      /\ highest[k] # NoSlot => highest'[k] >= highest[k]
  <2>. DEFINE v == IF highest[k] = NoSlot \/ b.slot > highest[k] THEN b.slot ELSE highest[k]
  <2>1. v \in Slots
    BY <1>1, <1>7
  <2>2. highest' = [highest EXCEPT ![k] = v]
    BY <1>2
  <2>3. /\ highest' \in [PubKeys -> Slots \cup {NoSlot}] /\ highest'[k] = v
        /\ \A j \in PubKeys : j # k => highest'[j] = highest[j]
    <3>. HIDE DEF v
    <3>. QED  BY <1>1, <1>7, <2>1, <2>2
  <2>4. /\ v >= b.slot /\ (highest[k] # NoSlot => v >= highest[k])
    <3>1. CASE highest[k] = NoSlot
      BY <1>1, <3>1
    <3>2. CASE highest[k] # NoSlot
      <4>1. highest[k] \in Nat
        BY <1>7, <3>2, Zenon
      <4>2. v = IF b.slot > highest[k] THEN b.slot ELSE highest[k]
        BY <3>2
      <4>. HIDE DEF v
      <4>. QED  BY <1>1, <4>1, <4>2
    <3>. QED  BY <3>1, <3>2
  <2>. HIDE DEF v
  <2>. QED  BY <2>1, <2>3, <2>4
<1>. QED  BY <1>5, <1>6, <1>8, <1>9

-------------------------------------------------------------------------------
(* The proposal history, step by step *)

\* The initial database, with or without an imported proposal.
LEMMA ProposeInvInit == ProposeInit => ProposeInv
<1>. SUFFICES ASSUME ProposeInit  PROVE ProposeInv
  OBVIOUS
<1>1. CASE imported = {}
  BY <1>1, RootAssumption
     DEF ProposeInit, ProposeInv, ProposeTypeOK, LockInv, ReadInv, RangeInv, KeptInv, NoBlock
<1>2. ASSUME NEW i \in Imports, imported = {i}  PROVE ProposeInv
  <2>1. i.key \in PubKeys /\ i.slot \in Slots /\ i.root \in Roots \cup {ZeroRoot}
        /\ i.slot \in Nat /\ Slots \subseteq Nat
    BY SlotAssumption, Zenon DEF Imports
  <2>9. i.slot # NoSlot
    BY <2>1 DEF NoSlot
  <2>2. (CHOOSE j \in imported : TRUE) = i
    BY <1>2
  <2>3. history = [k \in PubKeys |-> [s \in Slots |->
                      IF i.key = k /\ i.slot = s THEN i.root ELSE NoRoot]]
    BY <1>2, <2>2 DEF ProposeInit
  <2>4. lowest = [k \in PubKeys |-> IF i.key = k THEN i.slot ELSE NoSlot]
        /\ highest = lowest
    BY <1>2, <2>2 DEF ProposeInit
  <2>5. ProposeTypeOK
    BY <1>2, <2>1, <2>3, <2>4 DEF ProposeInit, ProposeTypeOK
  <2>6. LockInv /\ ReadInv
    BY DEF ProposeInit, LockInv, ReadInv
  <2>7. RangeInv
    <3>1. ASSUME NEW k \in PubKeys, NEW s \in Slots, history[k][s] # NoRoot
          PROVE  lowest[k] # NoSlot /\ lowest[k] = s /\ highest[k] = s
      BY <2>1, <2>3, <2>4, <2>9, <3>1
    <3>2. \A s \in Slots : s <= s
      BY <2>1
    <3>. QED  BY <2>4, <3>1, <3>2 DEF RangeInv
  <2>8. KeptInv
    BY <1>2, <2>1, <2>3, <2>4, <2>9 DEF ProposeInit, KeptInv
  <2>. QED  BY <2>5, <2>6, <2>7, <2>8 DEF ProposeInv
<1>. QED  BY <1>1, <1>2 DEF ProposeInit

\* A step of one caller within ProposeBlock keeps the other callers out.
LEMMA ProposeStepFacts ==
    ASSUME ProposeInv, NEW c \in Callers, NEW from, NEW to, ProposeStep(c, from, to),
           from # "idle",
           to \in {"idle", "history", "lowest", "save", "broadcast"}
    PROVE  /\ proposed[c] \in Blocks /\ proposed[c].slot # 0
           /\ \A o \in Callers : o # c => proposing[o] = "idle" /\ proposing'[o] = "idle"
           /\ proposing'[c] = to /\ (to # "idle" => proposed' = proposed)
           /\ proposing' \in [Callers -> {"idle", "history", "lowest", "save", "broadcast"}]
           /\ proposed' \in [Callers -> Blocks \cup {NoBlock}]
           /\ \A o \in Callers :
                  proposing'[o] # "idle" => proposed'[o] \in Blocks /\ proposed'[o].slot # 0
           /\ LockInv'
<1>1. proposing[c] # "idle" /\ proposing' = [proposing EXCEPT ![c] = to]
      /\ proposed' = IF to = "idle" THEN [proposed EXCEPT ![c] = NoBlock] ELSE proposed
  BY DEF ProposeStep
<1>2. proposed[c] \in Blocks /\ proposed[c].slot # 0
  BY <1>1 DEF ProposeInv, ProposeTypeOK
<1>3. \A o \in Callers : o # c => proposing[o] = "idle" /\ proposing'[o] = "idle"
  BY <1>1 DEF ProposeInv, ProposeTypeOK, LockInv
<1>4. proposing'[c] = to
  BY <1>1 DEF ProposeInv, ProposeTypeOK
<1>5. proposing' \in [Callers -> {"idle", "history", "lowest", "save", "broadcast"}]
  BY <1>1 DEF ProposeInv, ProposeTypeOK
<1>6. proposed' \in [Callers -> Blocks \cup {NoBlock}]
  BY <1>1 DEF ProposeInv, ProposeTypeOK
<1>7. to # "idle" => proposed' = proposed
  BY <1>1
<1>8. LockInv'
  BY <1>3 DEF LockInv
<1>. QED  BY <1>2, <1>3, <1>4, <1>5, <1>6, <1>7, <1>8

\* What does not touch the database, the broadcasts and the imports keeps what
\* is said of them alone.
LEMMA DatabaseUnchanged ==
    ASSUME ProposeInv, UNCHANGED <<dbVars, imported, sent>>
    PROVE  RangeInv' /\ KeptInv'
BY DEF ProposeInv, dbVars, RangeInv, KeptInv

\* Taking the lock and building a block.
LEMMA GetBlockStep ==
    ASSUME ProposeInv, NEW c \in Callers, NEW b \in Blocks, GetBlock(c, b)
    PROVE  ProposeInv'
<1>1. /\ b.slot # 0 /\ \A o \in Callers : proposing[o] = "idle"
      /\ proposing' = [proposing EXCEPT ![c] = "history"] /\ proposed' = [proposed EXCEPT ![c] = b]
      /\ calls' = calls + 1 /\ UNCHANGED <<prev, dbVars, imported, sent>>
  BY DEF GetBlock, Unlocked
<1>2. \A o \in Callers : o # c => proposing'[o] = "idle"
  BY <1>1 DEF ProposeInv, ProposeTypeOK
<1>3. proposing'[c] = "history" /\ proposed'[c] = b
  BY <1>1 DEF ProposeInv, ProposeTypeOK
<1>4. ProposeTypeOK'
  BY <1>1, <1>2, <1>3 DEF ProposeInv, ProposeTypeOK, dbVars
<1>5. LockInv' /\ ReadInv'
  BY <1>2, <1>3 DEF LockInv, ReadInv
<1>. QED  BY <1>1, <1>4, <1>5, DatabaseUnchanged DEF ProposeInv

\* The first read: the history entry of the slot.
LEMMA ProposalHistoryForSlotStep ==
    ASSUME ProposeInv, NEW c \in Callers, ProposalHistoryForSlot(c)
    PROVE  ProposeInv'
<1>1. /\ ProposeStep(c, "history", "lowest")
      /\ prev' = [prev EXCEPT ![c] = history[proposed[c].key][proposed[c].slot]]
      /\ UNCHANGED <<calls, dbVars, imported, sent>>
  BY DEF ProposalHistoryForSlot
<1>2. /\ proposed[c] \in Blocks /\ proposed' = proposed /\ proposing'[c] = "lowest"
      /\ \A o \in Callers : o # c => proposing'[o] = "idle"
      /\ proposing' \in [Callers -> {"idle", "history", "lowest", "save", "broadcast"}]
      /\ proposed' \in [Callers -> Blocks \cup {NoBlock}]
      /\ \A o \in Callers :
             proposing'[o] # "idle" => proposed'[o] \in Blocks /\ proposed'[o].slot # 0
      /\ LockInv'
  BY <1>1, ProposeStepFacts
<1>3. history[proposed[c].key][proposed[c].slot] \in Roots \cup {ZeroRoot, NoRoot}
  BY <1>2 DEF ProposeInv, ProposeTypeOK, Blocks
<1>4. ProposeTypeOK'
  BY <1>1, <1>2, <1>3, Zenon DEF ProposeInv, ProposeTypeOK, dbVars
<1>5. prev'[c] = history[proposed[c].key][proposed[c].slot]
  BY <1>1 DEF ProposeInv, ProposeTypeOK
<1>6. ReadInv'
  BY <1>1, <1>2, <1>5 DEF ReadInv, dbVars
<1>. QED  BY <1>1, <1>2, <1>4, <1>6, DatabaseUnchanged DEF ProposeInv

\* The check passes only if the slot has no proposal or the same one, and no
\* lower slot than the lowest one is signed: a slot that has a proposal is in
\* the range by RangeInv.
LEMMA LowestSignedProposalStep ==
    ASSUME ProposeInv, NEW c \in Callers, LowestSignedProposal(c)
    PROVE  ProposeInv'
<1>. DEFINE b == proposed[c]
            low == lowest[b.key]
            differs == prev[c] = ZeroRoot \/ prev[c] # b.root
            refused == \/ prev[c] # NoRoot /\ differs
                       \/ low # NoSlot /\ differs /\ low >= b.slot
            to == IF refused THEN "idle" ELSE "save"
<1>1. /\ ProposeStep(c, "lowest", to)
      /\ UNCHANGED <<prev, calls, dbVars, imported, sent>>
  BY DEF LowestSignedProposal
<1>2. to \in {"idle", "history", "lowest", "save", "broadcast"}
      /\ to \in {"idle", "save"} /\ (to = "save" => ~refused)
  OBVIOUS
<1>3. proposing[c] = "lowest"
  BY <1>1 DEF ProposeStep
<1>. HIDE DEF to
<1>4. /\ proposed[c] \in Blocks /\ proposing'[c] = to /\ (to # "idle" => proposed' = proposed)
      /\ \A o \in Callers : o # c => proposing'[o] = "idle"
      /\ proposing' \in [Callers -> {"idle", "history", "lowest", "save", "broadcast"}]
      /\ proposed' \in [Callers -> Blocks \cup {NoBlock}]
      /\ \A o \in Callers :
             proposing'[o] # "idle" => proposed'[o] \in Blocks /\ proposed'[o].slot # 0
      /\ LockInv'
  BY <1>1, <1>2, ProposeStepFacts
<1>5. ProposeTypeOK'
  BY <1>1, <1>4 DEF ProposeInv, ProposeTypeOK, dbVars
<1>6. prev[c] = history[b.key][b.slot]
  BY <1>3 DEF ProposeInv, ReadInv
<1>7. b.key \in PubKeys /\ b.slot \in Slots /\ b.slot \in Nat /\ b.root \in Roots
  BY <1>4, SlotAssumption, Zenon DEF Blocks
<1>8. CASE to = "save"
  <2>1. prev[c] = NoRoot \/ (prev[c] = b.root /\ prev[c] # ZeroRoot)
    BY <1>2, <1>8
  <2>2. low # NoSlot => low <= b.slot
    <3>1. CASE prev[c] = NoRoot
      <4>1. prev[c] # b.root
        BY <1>7, <3>1, RootAssumption
      <4>2. low # NoSlot => low \in Nat
        BY <1>7, SlotAssumption, Zenon DEF ProposeInv, ProposeTypeOK
      <4>3. low # NoSlot => ~(low >= b.slot)
        BY <1>2, <1>8, <4>1
      <4>. HIDE DEF low, b
      <4>. QED  BY <1>7, <4>2, <4>3
    <3>2. CASE prev[c] = b.root
      BY <1>6, <1>7, <3>2, RootAssumption, Zenon DEF ProposeInv, RangeInv
    <3>. QED  BY <2>1, <3>1, <3>2
  <2>3. ReadInv'
    BY <1>1, <1>4, <1>6, <1>8, <2>1, <2>2 DEF ReadInv, dbVars
  <2>. QED  BY <1>1, <1>4, <1>5, <2>3, DatabaseUnchanged DEF ProposeInv
<1>9. CASE to = "idle"
  <2>1. ReadInv'
    BY <1>4, <1>9 DEF ReadInv
  <2>. QED  BY <1>1, <1>4, <1>5, <2>1, DatabaseUnchanged DEF ProposeInv
<1>. QED  BY <1>2, <1>8, <1>9

\* A proposal that is refused before it is saved.
LEMMA PostBlockSignRejectedStep ==
    ASSUME ProposeInv, NEW c \in Callers, PostBlockSignRejected(c)
    PROVE  ProposeInv'
<1>1. /\ ProposeStep(c, "save", "idle")
      /\ UNCHANGED <<prev, calls, dbVars, imported, sent>>
  BY DEF PostBlockSignRejected
<1>2. /\ proposing'[c] = "idle" /\ \A o \in Callers : o # c => proposing'[o] = "idle"
      /\ proposing' \in [Callers -> {"idle", "history", "lowest", "save", "broadcast"}]
      /\ proposed' \in [Callers -> Blocks \cup {NoBlock}]
      /\ LockInv'
  BY <1>1, ProposeStepFacts
<1>3. ProposeTypeOK' /\ ReadInv'
  BY <1>1, <1>2 DEF ProposeInv, ProposeTypeOK, ReadInv, dbVars
<1>. QED  BY <1>1, <1>2, <1>3, DatabaseUnchanged DEF ProposeInv

\* A crash: the database stays, the callers start again.
LEMMA CrashStep ==
    ASSUME ProposeInv, Crash
    PROVE  ProposeInv'
<1>1. ProposeTypeOK' /\ LockInv' /\ ReadInv'
  BY DEF Crash, ProposeInv, ProposeTypeOK, LockInv, ReadInv, dbVars
<1>. QED  BY <1>1, DatabaseUnchanged DEF Crash, ProposeInv

\* A broadcast block is in the history, and so is within the range.
LEMMA ProposeBlockStep ==
    ASSUME ProposeInv, NEW c \in Callers, ProposeBlock(c)
    PROVE  ProposeInv'
<1>1. /\ ProposeStep(c, "broadcast", "idle") /\ sent' = sent \cup {proposed[c]}
      /\ UNCHANGED <<prev, calls, dbVars, imported>>
  BY DEF ProposeBlock
<1>2. /\ proposed[c] \in Blocks /\ proposed[c].slot # 0
      /\ proposing'[c] = "idle" /\ \A o \in Callers : o # c => proposing'[o] = "idle"
      /\ proposing' \in [Callers -> {"idle", "history", "lowest", "save", "broadcast"}]
      /\ proposed' \in [Callers -> Blocks \cup {NoBlock}]
      /\ LockInv'
  BY <1>1, ProposeStepFacts
<1>3. ProposeTypeOK'
  BY <1>1, <1>2 DEF ProposeInv, ProposeTypeOK, dbVars
<1>4. ReadInv' /\ RangeInv'
  BY <1>1, <1>2 DEF ProposeInv, ReadInv, RangeInv, dbVars
<1>5. history[proposed[c].key][proposed[c].slot] = proposed[c].root
  BY <1>1 DEF ProposeInv, ReadInv, ProposeStep
<1>6. highest[proposed[c].key] # NoSlot
  BY <1>2, <1>5, RootAssumption DEF ProposeInv, RangeInv, Blocks
<1>7. KeptInv'
  BY <1>1, <1>5, <1>6 DEF ProposeInv, KeptInv, dbVars
<1>. QED  BY <1>2, <1>3, <1>4, <1>7 DEF ProposeInv

\* The save overwrites no other proposal, by ReadInv, and deletes only what is
\* too old for the new block and so for the highest slot.
LEMMA PostBlockSignUpdateStep ==
    ASSUME ProposeInv, NEW c \in Callers, PostBlockSignUpdate(c)
    PROVE  ProposeInv' /\ \A k \in PubKeys : lowest[k] # NoSlot => lowest'[k] = lowest[k]
<1>. DEFINE b == proposed[c]
            k == b.key
<1>1. /\ ProposeStep(c, "save", "broadcast") /\ SaveProposalHistoryForSlot(b)
      /\ UNCHANGED <<prev, calls, imported, sent>>
  BY DEF PostBlockSignUpdate
<1>2. /\ b \in Blocks /\ b.slot # 0 /\ proposed' = proposed
      /\ proposing'[c] = "broadcast" /\ \A o \in Callers : o # c => proposing'[o] = "idle"
      /\ proposing' \in [Callers -> {"idle", "history", "lowest", "save", "broadcast"}]
      /\ proposed' \in [Callers -> Blocks \cup {NoBlock}]
      /\ \A o \in Callers :
             proposing'[o] # "idle" => proposed'[o] \in Blocks /\ proposed'[o].slot # 0
      /\ LockInv'
  BY <1>1, ProposeStepFacts
<1>3. k \in PubKeys /\ b.slot \in Slots /\ b.slot \in Nat /\ b.root \in Roots
  BY <1>2, SlotAssumption DEF Blocks
<1>4. /\ history' \in [PubKeys -> [Slots -> Roots \cup {ZeroRoot, NoRoot}]]
      /\ lowest' \in [PubKeys -> Slots \cup {NoSlot}]
      /\ highest' \in [PubKeys -> Slots \cup {NoSlot}]
      /\ \A j \in PubKeys : j # k =>
            /\ history'[j] = history[j] /\ lowest'[j] = lowest[j]
            /\ highest'[j] = highest[j]
      /\ history'[k][b.slot] = b.root
      /\ \A s \in Slots : s # b.slot => history'[k][s] =
            IF Prunable(s, b.slot) THEN NoRoot ELSE history[k][s]
      /\ lowest'[k] \in Slots /\ lowest'[k] <= b.slot
      /\ lowest[k] # NoSlot => lowest'[k] <= lowest[k]
      /\ (lowest[k] # NoSlot /\ lowest[k] <= b.slot) => lowest'[k] = lowest[k]
      /\ highest'[k] \in Slots /\ highest'[k] >= b.slot
      /\ highest[k] # NoSlot => highest'[k] >= highest[k]
  BY <1>1, <1>2, SaveFacts DEF ProposeInv
<1>5. /\ history[k][b.slot] \in {NoRoot, b.root}
      /\ lowest[k] # NoSlot => lowest[k] <= b.slot
  BY <1>1 DEF ProposeInv, ReadInv, ProposeStep
<1>6. ProposeTypeOK'
  BY <1>1, <1>2, <1>4 DEF ProposeInv, ProposeTypeOK
<1>7. ReadInv'
  BY <1>2, <1>4 DEF ReadInv
<1>. HIDE DEF k, b
<1>8. /\ lowest'[k] \in Nat /\ lowest'[k] # NoSlot
      /\ highest'[k] \in Nat /\ highest'[k] # NoSlot
  <2>1. lowest'[k] \in Nat /\ highest'[k] \in Nat
    BY <1>4, SlotAssumption
  <2>. QED  BY <2>1 DEF NoSlot
<1>12. /\ history'[k][b.slot] = b.root
       /\ \A s \in Slots : s # b.slot => history'[k][s] =
             IF Prunable(s, b.slot) THEN NoRoot ELSE history[k][s]
  BY <1>4
<1>13. /\ lowest'[k] <= b.slot /\ highest'[k] >= b.slot
       /\ lowest[k] # NoSlot => lowest'[k] <= lowest[k]
       /\ highest[k] # NoSlot => highest'[k] >= highest[k]
  BY <1>4
<1>9. RangeInv'
  <2>1. ASSUME NEW s \in Slots, history'[k][s] # NoRoot
        PROVE  lowest'[k] <= s /\ s <= highest'[k]
    <3>1. CASE s = b.slot
      BY <1>3, <1>8, <1>13, <3>1
    <3>2. CASE s # b.slot
      <4>1. history[k][s] # NoRoot
        BY <1>12, <2>1, <3>2
      <4>2. /\ lowest[k] # NoSlot /\ highest[k] # NoSlot
            /\ lowest[k] <= s /\ s <= highest[k]
        BY <1>3, <4>1 DEF ProposeInv, RangeInv
      <4>3. lowest[k] \in Nat /\ highest[k] \in Nat /\ s \in Nat
        BY <1>3, <4>2, SlotAssumption, Zenon DEF ProposeInv, ProposeTypeOK
      <4>4. lowest'[k] <= lowest[k] /\ highest'[k] >= highest[k]
        BY <1>3, <1>8, <1>13, <4>2, <4>3
      <4>. QED  BY <1>8, <4>2, <4>3, <4>4
    <3>. QED  BY <3>1, <3>2
  <2>2. ASSUME NEW j \in PubKeys, j # k
        PROVE  /\ lowest'[j] = NoSlot <=> highest'[j] = NoSlot
               /\ \A s \in Slots : history'[j][s] # NoRoot =>
                      lowest'[j] # NoSlot /\ lowest'[j] <= s /\ s <= highest'[j]
    BY <1>4, <2>2 DEF ProposeInv, RangeInv
  <2>. QED  BY <1>8, <2>1, <2>2 DEF RangeInv
<1>10. KeptInv'
  <2>1. ASSUME NEW a \in sent \cup imported, a.key = k
        PROVE  ~Prunable(a.slot, highest'[k]) => history'[k][a.slot] = a.root
    <3>1. a.slot \in Slots /\ a.slot \in Nat /\ a.root \in Roots \cup {ZeroRoot}
      BY SlotAssumption, Zenon DEF ProposeInv, ProposeTypeOK, Blocks, Imports
    <3>2. highest[k] # NoSlot /\ (~Prunable(a.slot, highest[k]) => history[k][a.slot] = a.root)
      BY <2>1 DEF ProposeInv, KeptInv
    <3>3. highest[k] \in Nat
      BY <1>3, <3>2, SlotAssumption DEF ProposeInv, ProposeTypeOK
    <3>4. highest[k] <= highest'[k] /\ b.slot <= highest'[k]
      BY <1>3, <1>8, <1>13, <3>2, <3>3
    <3>5. ~Prunable(a.slot, highest'[k]) =>
              ~Prunable(a.slot, highest[k]) /\ ~Prunable(a.slot, b.slot)
      BY <1>3, <1>8, <3>1, <3>3, <3>4, PrunableMonotone
    <3>6. CASE a.slot = b.slot
      BY <1>5, <1>12, <3>1, <3>2, <3>5, <3>6, RootAssumption
    <3>7. CASE a.slot # b.slot
      BY <1>12, <3>1, <3>2, <3>5, <3>7
    <3>. QED  BY <3>6, <3>7
  <2>2. ASSUME NEW a \in sent \cup imported, a.key # k
        PROVE  /\ highest'[a.key] # NoSlot
               /\ ~Prunable(a.slot, highest'[a.key]) => history'[a.key][a.slot] = a.root
    <3>1. a.key \in PubKeys
      BY DEF ProposeInv, ProposeTypeOK, Blocks, Imports
    <3>. QED  BY <1>4, <2>2, <3>1 DEF ProposeInv, KeptInv
  <2>. QED  BY <1>1, <1>8, <2>1, <2>2 DEF KeptInv
<1>11. \A j \in PubKeys : lowest[j] # NoSlot => lowest'[j] = lowest[j]
  BY <1>4, <1>5
<1>. QED  BY <1>2, <1>6, <1>7, <1>9, <1>10, <1>11 DEF ProposeInv

-------------------------------------------------------------------------------
(* The theorems about the proposal history *)

\* Every step keeps the invariant.
LEMMA ProposeInvNext ==
    ASSUME ProposeInv, [ProposeNext]_proposeVars
    PROVE  ProposeInv' /\ \A k \in PubKeys : lowest[k] # NoSlot => lowest'[k] = lowest[k]
<1>1. CASE UNCHANGED proposeVars
  BY <1>1 DEF proposeVars, dbVars, ProposeInv, ProposeTypeOK, LockInv, ReadInv, RangeInv, KeptInv
<1>2. ASSUME NEW c \in Callers, NEW b \in Blocks, GetBlock(c, b)
      PROVE  ProposeInv' /\ UNCHANGED lowest
  BY <1>2, GetBlockStep, Zenon DEF GetBlock, dbVars
<1>3. ASSUME NEW c \in Callers, ProposalHistoryForSlot(c)
      PROVE  ProposeInv' /\ UNCHANGED lowest
  BY <1>3, ProposalHistoryForSlotStep DEF ProposalHistoryForSlot, dbVars
<1>4. ASSUME NEW c \in Callers, LowestSignedProposal(c)
      PROVE  ProposeInv' /\ UNCHANGED lowest
  BY <1>4, LowestSignedProposalStep DEF LowestSignedProposal, dbVars
<1>5. ASSUME NEW c \in Callers, PostBlockSignRejected(c)
      PROVE  ProposeInv' /\ UNCHANGED lowest
  BY <1>5, PostBlockSignRejectedStep DEF PostBlockSignRejected, dbVars
<1>6. ASSUME NEW c \in Callers, ProposeBlock(c)
      PROVE  ProposeInv' /\ UNCHANGED lowest
  BY <1>6, ProposeBlockStep DEF ProposeBlock, dbVars
<1>7. CASE Crash
  BY <1>7, CrashStep DEF Crash, dbVars
<1>. QED  BY <1>1, <1>2, <1>3, <1>4, <1>5, <1>6, <1>7, PostBlockSignUpdateStep DEF ProposeNext

\* Two different proposals of one slot cannot both be the one in the history.
LEMMA KeptIsUnique == ProposeInv => NoDoubleProposal
BY DEF ProposeInv, KeptInv, NoDoubleProposal

\* The invariant holds in every reachable state.
THEOREM ProposeInvariance == ProposeSpec => []ProposeInv
<1>1. ProposeInv /\ [ProposeNext]_proposeVars => ProposeInv'
  BY ProposeInvNext
<1>. QED  BY <1>1, ProposeInvInit, PTL DEF ProposeSpec

\* Every variable of ProposeBlock and of the database keeps its type, and
\* nothing is proposed for the genesis slot.
THEOREM ProposeTypeCorrect == ProposeSpec => []ProposeTypeOK
<1>1. ProposeInv => ProposeTypeOK
  BY DEF ProposeInv
<1>. QED  BY <1>1, ProposeInvariance, PTL

\* Whatever the interleaving of the calls and the crashes, no key broadcasts
\* two different blocks of a slot that is not older than the weak subjectivity
\* period before its highest signed slot.
THEOREM NeverDoubleProposes == ProposeSpec => []NoDoubleProposal
BY ProposeInvariance, KeptIsUnique, PTL

\* The lowest signed slot of a key is set once and never moves.
THEOREM LowestIsFixed == ProposeSpec => LowestNeverMoves
<1>1. ProposeInv /\ [ProposeNext]_proposeVars =>
          [\A k \in PubKeys : lowest[k] # NoSlot => lowest'[k] = lowest[k]]_proposeVars
  BY ProposeInvNext
<1>. QED  BY <1>1, ProposeInvariance, PTL DEF ProposeSpec, LowestNeverMoves

-------------------------------------------------------------------------------
(* The queue of initial sync: the inductive invariant. *)

Machine == [state : MachineStates, blocks : SUBSET ChainSlots]

\* A finite set of machines, no more than the lookahead.
IsWindow(ms) ==
    /\ ms \in [DOMAIN ms -> Machine] /\ DOMAIN ms \subseteq Nat
    /\ IsFiniteSet(DOMAIN ms) /\ Cardinality(DOMAIN ms) =< LookaheadSteps
    /\ \E m \in Nat : \A s \in DOMAIN ms : s =< m

\* A block after slot h is in the range of a machine, or after all of them: the
\* window has no gap with a block in it.
Covers(ms, h) ==
    \A c \in ChainSlots : c > h =>
        \/ \E s \in DOMAIN ms : s =< c /\ c < s + BlocksPerRequest
        \/ \A s \in DOMAIN ms : s < c

\* The machines that wait for an answer.
Waiting(ms) == {s \in DOMAIN ms : ms[s].state = "Scheduled"}

WindowInv ==
    /\ IsWindow(machines) /\ Covers(machines, headSlot)
    /\ ticking \subseteq DOMAIN machines
    /\ loopAt # "tick" => ticking = {}

RequestInv ==
    /\ flying \in [DOMAIN flying -> Nat \ {0}]
    /\ fetcher = "runs" => Waiting(machines) \subseteq DOMAIN flying

\* Without a stop, the context is done only when the head is at the finalized
\* slot of the peers, and the fetcher has quit only when the context is done.
SyncInv ==
    /\ headSlot \in ChainSlots \cup {0}
    /\ batch \in (SUBSET ChainSlots) \cup {NoBatch}
    /\ fetchedData \in Seq(SUBSET ChainSlots) /\ Len(fetchedData) =< 1
    /\ loopAt \in {"start", "check", "select", "tick", "exit", "closed"}
    /\ fetcher \in {"new", "runs", "quit"}
    /\ consuming \in BOOLEAN /\ ctxDone \in BOOLEAN /\ stopped \in BOOLEAN
    /\ ctxDone /\ ~stopped => headSlot >= BestFinalizedSlot
    /\ fetcher = "quit" \/ loopAt \in {"exit", "closed"} => ctxDone

QueueInv == WindowInv /\ RequestInv /\ SyncInv

-------------------------------------------------------------------------------
(* Least and greatest elements. *)

\* Every nonempty set of naturals has a least element.
LEMMA MinIsLeast ==
  ASSUME NEW S \in SUBSET Nat, S # {}
  PROVE  Min(S) \in S /\ \A y \in S : Min(S) =< y
<1>. DEFINE R == {ss \in Nat \X Nat : ss[1] < ss[2]}
<1>1. IsWellFoundedOn(R, Nat)
  <2>1. OpToRel(<, Nat) = R
    BY Zenon DEF OpToRel
  <2>. QED
    BY <2>1, NatLessThanWellFounded
<1>2. PICK m \in S : \A y \in S : ~(<<y, m>> \in R)
  <2>. HIDE DEF R
  <2>. QED
    BY <1>1, WFMin
<1>3. ASSUME NEW y \in S PROVE m =< y
  <2>1. <<y, m>> \in Nat \X Nat /\ (<<y, m>> \in R <=> y < m)
    OBVIOUS
  <2>. QED
    BY <2>1, <1>2
<1>. QED
  BY <1>3, Zenon DEF Min

\* A nonempty set of naturals with an upper bound has a greatest element: the
\* bound less the least distance to it.
LEMMA MaxIsGreatest ==
  ASSUME NEW S \in SUBSET Nat, S # {}, NEW m \in Nat, \A x \in S : x =< m
  PROVE  Max(S) \in S /\ \A y \in S : Max(S) >= y
<1>. DEFINE D == {m - x : x \in S}
<1>1. D \in SUBSET Nat /\ D # {}
  <2>1. \A x \in S : m - x \in Nat
    OBVIOUS
  <2>. QED
    BY <2>1
<1>2. Min(D) \in D /\ \A d \in D : Min(D) =< d
  <2>. HIDE DEF D
  <2>. QED
    BY <1>1, MinIsLeast
<1>3. PICK x \in S : Min(D) = m - x
  BY <1>2, Zenon
<1>4. \A y \in S : x >= y
  <2>1. \A y \in S : m - x =< m - y
    BY <1>2, <1>3
  <2>. QED
    BY <2>1
<1>. QED
  BY <1>4, Zenon DEF Max

-------------------------------------------------------------------------------
(* Windows of machines. *)

\* A machine that changes its state leaves the window as it is.
LEMMA SetStateKeeps ==
  ASSUME NEW ms, NEW h, IsWindow(ms), Covers(ms, h), NEW s, NEW state \in MachineStates
  PROVE  /\ IsWindow(SetState(ms, s, state)) /\ Covers(SetState(ms, s, state), h)
         /\ DOMAIN SetState(ms, s, state) = DOMAIN ms
         /\ Waiting(SetState(ms, s, state)) \subseteq
              Waiting(ms) \cup (IF state = "Scheduled" THEN {s} ELSE {})
<1>. DEFINE new == SetState(ms, s, state)
<1>1. new \in [DOMAIN ms -> Machine]
  BY DEF SetState, IsWindow, Machine
<1>2. DOMAIN new = DOMAIN ms
  BY <1>1
<1>3. \A t \in DOMAIN ms : t # s => new[t] = ms[t]
  BY DEF SetState, IsWindow
<1>4. s \in DOMAIN ms => new[s].state = state
  BY DEF SetState, IsWindow, Machine
<1>. HIDE DEF new
<1>5. IsWindow(new) /\ Covers(new, h)
  BY <1>1, <1>2 DEF IsWindow, Covers
<1>6. Waiting(new) \subseteq Waiting(ms) \cup (IF state = "Scheduled" THEN {s} ELSE {})
  BY <1>2, <1>3, <1>4 DEF Waiting
<1>. QED
  BY <1>2, <1>5, <1>6 DEF new

\* "Do garbage collection, and advance sliding window forward": only machine s
\* goes, its blocks are at or before the head, and the one that is added begins
\* where the window ends.
LEMMA CollectKeeps ==
  ASSUME NEW ms, IsWindow(ms), Covers(ms, headSlot), headSlot \in Nat,
         NEW s \in Nat, DOMAIN ms # {}
  PROVE  /\ IsWindow(Collect(ms, s)) /\ Covers(Collect(ms, s), headSlot)
         /\ DOMAIN ms \ {s} \subseteq DOMAIN Collect(ms, s)
         /\ Waiting(Collect(ms, s)) \subseteq Waiting(ms)
<1>. DEFINE K == DOMAIN ms
            left == RemoveMachine(ms, s)
            top == Max(K)
            new == AddMachine(left, top + BlocksPerRequest)
<1>0. K \subseteq Nat /\ IsFiniteSet(K) /\ Cardinality(K) =< LookaheadSteps
      /\ BlocksPerRequest \in Nat \ {0} /\ LookaheadSteps \in Nat
  BY QueueAssumption DEF IsWindow
<1>1. top \in K /\ \A t \in K : t =< top
  <2>1. PICK m \in Nat : \A t \in K : t =< m
    BY DEF IsWindow
  <2>2. Max(K) \in K /\ \A t \in K : Max(K) >= t
    <3>. HIDE DEF K
    <3>. QED
      BY <1>0, <2>1, MaxIsGreatest, Zenon DEF K
  <2>. QED
    BY <2>2, <1>0
<1>2. CASE ~(headSlot >= s + BlocksPerRequest - 1)
  BY <1>2 DEF Collect
<1>3. CASE headSlot >= s + BlocksPerRequest - 1
  <2>1. left \in [K \ {s} -> Machine] /\ \A t \in K \ {s} : left[t] = ms[t]
    BY DEF RemoveMachine, IsWindow
  <2>2. DOMAIN left = K \ {s}
    BY <2>1
  <2>3. IsFiniteSet(K \ {s}) /\ Cardinality(K \ {s}) \in Nat
        /\ Cardinality(K \ {s}) =< LookaheadSteps
    <3>1. IsFiniteSet(K \ {s}) /\ Cardinality(K \ {s}) =< Cardinality(K)
      BY <1>0, FS_Subset, K \ {s} \in SUBSET K
    <3>2. Cardinality(K) \in Nat /\ Cardinality(K \ {s}) \in Nat
      BY <1>0, <3>1, FS_CardinalityType
    <3>. QED
      BY <3>1, <3>2, <1>0
  <2>4. IsWindow(left)
    BY <2>1, <2>2, <2>3, <1>0, <1>1 DEF IsWindow
  <2>5. Covers(left, headSlot)
    BY <2>2, <1>0, <1>3, QueueAssumption DEF Covers
  <2>6. Waiting(left) \subseteq Waiting(ms)
    BY <2>1, <2>2 DEF Waiting
  <2>7. CASE ~(Cardinality(DOMAIN left) < LookaheadSteps)
    <3>1. Collect(ms, s) = left
      BY <1>3, <2>7 DEF Collect
    <3>. QED
      BY <3>1, <2>2, <2>4, <2>5, <2>6
  <2>8. CASE Cardinality(DOMAIN left) < LookaheadSteps
    <3>. DEFINE k == top + BlocksPerRequest
    <3>1. Collect(ms, s) = new
      BY <1>3, <2>8 DEF Collect
    <3>2. k \in Nat /\ \A t \in K : t < k
      BY <1>0, <1>1
    <3>3. NewMachine \in Machine /\ NewMachine.state # "Scheduled"
      BY DEF NewMachine, Machine, MachineStates
    <3>4. new = [t \in (K \ {s}) \cup {k} |-> IF t = k THEN NewMachine ELSE left[t]]
      BY <2>2 DEF AddMachine
    <3>5. new \in [(K \ {s}) \cup {k} -> Machine] /\ new[k] = NewMachine
          /\ \A t \in K \ {s} : new[t] = ms[t]
      <4>. HIDE DEF new, k, left, K
      <4>. QED
        BY <3>2, <3>3, <3>4, <2>1, <1>0
    <3>. HIDE DEF new
    <3>6. DOMAIN new = (K \ {s}) \cup {k}
      BY <3>5
    <3>7. IsFiniteSet(DOMAIN new) /\ Cardinality(DOMAIN new) =< LookaheadSteps
      <4>1. /\ IsFiniteSet((K \ {s}) \cup {k})
            /\ Cardinality((K \ {s}) \cup {k}) =
                 IF k \in K \ {s} THEN Cardinality(K \ {s}) ELSE Cardinality(K \ {s}) + 1
        BY <2>3, FS_AddElement
      <4>. QED
        BY <4>1, <3>6, <2>3, <2>8, <2>2, <1>0
    <3>8. IsWindow(new)
      <4>1. DOMAIN new \subseteq Nat /\ \A t \in DOMAIN new : t =< k
        BY <3>2, <3>6, <1>0
      <4>. QED
        BY <4>1, <3>2, <3>5, <3>6, <3>7 DEF IsWindow
    <3>9. Covers(new, headSlot)
      <4>. SUFFICES ASSUME NEW c \in ChainSlots, c > headSlot
                    PROVE  \/ \E t \in DOMAIN new : t =< c /\ c < t + BlocksPerRequest
                           \/ \A t \in DOMAIN new : t < c
        BY DEF Covers
      <4>0. c \in Nat
        BY QueueAssumption
      <4>1. CASE \E t \in K : t =< c /\ c < t + BlocksPerRequest
        <5>1. PICK t \in K : t =< c /\ c < t + BlocksPerRequest
          BY <4>1
        <5>2. t # s
          BY <5>1, <1>3, <1>0, <4>0
        <5>. QED
          BY <5>1, <5>2, <3>6
      <4>2. CASE \A t \in K : t < c
        <5>1. CASE c < k
          <6>1. top # s
            BY <5>1, <1>3, <1>0, <1>1, <4>0
          <6>. QED
            BY <6>1, <5>1, <4>2, <1>0, <1>1, <4>0, <3>6
        <5>2. CASE k =< c
          <6>1. CASE c < k + BlocksPerRequest
            BY <6>1, <5>2, <3>6
          <6>2. CASE k + BlocksPerRequest =< c
            BY <6>2, <3>2, <3>6, <4>0, <4>2, <1>0
          <6>. QED
            BY <6>1, <6>2, <3>2, <4>0, <1>0
        <5>. QED
          BY <5>1, <5>2, <3>2, <4>0
      <4>. QED
        BY <4>1, <4>2 DEF Covers
    <3>10. Waiting(new) \subseteq Waiting(ms)
      BY <3>3, <3>5, <3>6 DEF Waiting
    <3>. QED
      BY <3>1, <3>6, <3>8, <3>9, <3>10
  <2>. QED
    BY <2>7, <2>8
<1>. QED
  BY <1>2, <1>3

\* A fresh window: one machine for each step from its start on, all new.
LEMMA WindowIsWindow ==
  ASSUME NEW start \in Nat, NEW steps \in Nat, steps =< LookaheadSteps
  PROVE  LET w == Window(start, steps) IN
         /\ IsWindow(w) /\ Cardinality(DOMAIN w) =< steps
         /\ \A t \in DOMAIN w : /\ w[t] = NewMachine
                                /\ start =< t /\ t < start + BlocksPerRequest * steps
         /\ \A c \in Nat : start =< c /\ c < start + BlocksPerRequest * steps
                => \E t \in DOMAIN w : t =< c /\ c < t + BlocksPerRequest
<1>. DEFINE B == BlocksPerRequest
            w == Window(start, steps)
            T == {start + i * B : i \in 0..steps - 1}
            f == [i \in 0..steps - 1 |-> start + i * B]
            last == start + B * steps
<1>0. B \in Nat \ {0} /\ LookaheadSteps \in Nat
  BY QueueAssumption
<1>1. w = [s \in T |-> NewMachine]
  BY DEF Window
<1>2. DOMAIN w = T /\ w \in [T -> Machine] /\ \A t \in T : w[t] = NewMachine
  <2>1. NewMachine \in Machine
    BY DEF NewMachine, Machine, MachineStates
  <2>. HIDE DEF w, T
  <2>. QED
    BY <1>1, <2>1
<1>3. \A i \in 0..steps - 1 : start + i * B \in Nat /\ start =< start + i * B
                              /\ start + i * B < last
  <2>. SUFFICES ASSUME NEW i \in 0..steps - 1
                PROVE  start + i * B \in Nat /\ start =< start + i * B /\ start + i * B < last
    OBVIOUS
  <2>. HIDE DEF B
  <2>1. PICK j \in Nat : steps = i + 1 + j
    <3>1. steps - i - 1 \in Nat /\ steps = i + 1 + (steps - i - 1)
      OBVIOUS
    <3>. QED
      BY <3>1
  <2>2. B * steps = B * i + B + B * j
    BY <2>1, <1>0
  <2>3. B * i \in Nat /\ B * j \in Nat /\ i * B = B * i
    BY <1>0
  <2>. QED
    BY <2>2, <2>3, <1>0
<1>4. T \subseteq Nat /\ \A t \in T : start =< t /\ t < last
  BY <1>3
<1>5. last \in Nat
  <2>1. B * steps \in Nat
    BY <1>0
  <2>. QED
    BY <2>1
<1>6. IsFiniteSet(T) /\ Cardinality(T) =< LookaheadSteps /\ Cardinality(T) =< steps
  <2>1. f \in Surjection(0..steps - 1, T)
    BY DEF Surjection
  <2>2. IsFiniteSet(0..steps - 1) /\ Cardinality(0..steps - 1) = steps
    <3>1. /\ IsFiniteSet(0..steps - 1)
          /\ Cardinality(0..steps - 1) = IF 0 > steps - 1 THEN 0 ELSE (steps - 1) - 0 + 1
      BY FS_Interval
    <3>. QED
      BY <3>1
  <2>3. IsFiniteSet(T) /\ Cardinality(T) =< Cardinality(0..steps - 1)
    <3>. HIDE DEF T, f
    <3>. QED
      BY <2>1, <2>2, FS_Surjection
  <2>4. Cardinality(T) \in Nat
    BY <2>3, FS_CardinalityType
  <2>. QED
    BY <2>2, <2>3, <2>4, <1>0
<1>7. IsWindow(w)
  <2>. HIDE DEF w, T, last
  <2>1. \A t \in T : t =< last
    BY <1>4, <1>5
  <2>. QED
    BY <1>2, <1>4, <1>5, <1>6, <2>1 DEF IsWindow
<1>8. ASSUME NEW c \in Nat, start =< c, c < last
      PROVE  \E t \in T : t =< c /\ c < t + B
  <2>. DEFINE After == {n \in Nat : c < start + n * B}
              n == Min(After)
  <2>1. steps \in After
    BY <1>8, <1>0
  <2>2. n \in After /\ \A m \in After : n =< m
    <3>. HIDE DEF After
    <3>1. After \subseteq Nat
      BY DEF After
    <3>. QED
      BY <3>1, <2>1, MinIsLeast
  <2>. HIDE DEF n
  <2>3. n \in Nat /\ c < start + n * B
    BY <2>2
  <2>4. n # 0
    <3>1. start + 0 * B = start
      BY <1>0
    <3>. QED
      BY <3>1, <2>3, <1>8
  <2>5. n - 1 \in Nat /\ n - 1 \in 0..steps - 1
    BY <2>1, <2>2, <2>3, <2>4
  <2>6. ~(n - 1 \in After)
    BY <2>2, <2>3
  <2>7. start + (n - 1) * B =< c
    <3>1. start + (n - 1) * B \in Nat
      BY <2>5, <1>3
    <3>. QED
      BY <2>5, <2>6, <3>1
  <2>8. start + n * B = start + (n - 1) * B + B
    BY <2>3, <1>0
  <2>9. start + (n - 1) * B \in T
    BY <2>5
  <2>. QED
    BY <2>3, <2>7, <2>8, <2>9
<1>. HIDE DEF T, w, last
<1>9. \A c \in Nat : start =< c /\ c < last => \E t \in DOMAIN w : t =< c /\ c < t + B
  BY <1>8, <1>2
<1>. QED
  BY <1>2, <1>4, <1>6, <1>7, <1>9 DEF w, last

\* resetFromSlot: the machines after the head up to the next slot that is not
\* empty, which is far ahead when many slots are.
LEMMA ResetIsWindow ==
  ASSUME headSlot \in Nat, NEW found \in BOOLEAN
  PROVE  LET w == ResetFromSlot(found) IN
         IsWindow(w) /\ Covers(w, headSlot) /\ Waiting(w) = {} /\ DOMAIN w # {}
<1>. DEFINE start == headSlot + 1
            steps == LookaheadSteps - 1
            end == start + BlocksPerRequest * steps
            after == {c \in ChainSlots : c >= end}
            window == Window(start, steps)
            k == IF after = {} THEN end ELSE Min(after)
<1>0. BlocksPerRequest \in Nat \ {0} /\ steps \in Nat \ {0} /\ start \in Nat
      /\ LookaheadSteps \in Nat /\ steps =< LookaheadSteps /\ ChainSlots \subseteq Nat
  BY QueueAssumption
<1>1. /\ IsWindow(window) /\ Cardinality(DOMAIN window) =< steps
      /\ \A t \in DOMAIN window : window[t] = NewMachine /\ start =< t /\ t < end
      /\ \A c \in Nat : start =< c /\ c < end
             => \E t \in DOMAIN window : t =< c /\ c < t + BlocksPerRequest
  BY <1>0, WindowIsWindow
<1>2. end \in Nat /\ start < end
  <2>1. BlocksPerRequest * steps \in Nat /\ BlocksPerRequest * steps >= 1
    <3>1. PICK b \in Nat, j \in Nat : BlocksPerRequest = b + 1 /\ steps = j + 1
      <4>1. BlocksPerRequest - 1 \in Nat /\ BlocksPerRequest = (BlocksPerRequest - 1) + 1
        BY <1>0
      <4>2. steps - 1 \in Nat /\ steps = (steps - 1) + 1
        BY <1>0
      <4>. QED
        BY <4>1, <4>2
    <3>2. (b + 1) * (j + 1) = b * j + b + j + 1 /\ b * j \in Nat
      OBVIOUS
    <3>. QED
      BY <3>1, <3>2
  <2>. QED
    BY <2>1, <1>0
<1>3. DOMAIN window # {}
  BY <1>0, <1>1, <1>2
<1>4. \A c \in ChainSlots : c > headSlot => c \in Nat /\ start =< c
  BY <1>0
<1>5. k \in Nat /\ end =< k /\ \A c \in ChainSlots : c >= end => k =< c
  <2>1. CASE after = {}
    BY <2>1, <1>2
  <2>2. CASE after # {}
    <3>1. Min(after) \in after /\ \A c \in after : Min(after) =< c
      <4>1. after \subseteq Nat
        BY <1>0, Zenon
      <4>. HIDE DEF after
      <4>. QED
        BY <4>1, <2>2, MinIsLeast
    <3>. QED
      BY <3>1, <2>2, <1>0, <1>2, Zenon
  <2>. QED
    BY <2>1, <2>2
<1>6. CASE ~found
  <2>1. ResetFromSlot(found) = window
    BY <1>6 DEF ResetFromSlot
  <2>. HIDE DEF window, end, start
  <2>2. Covers(window, headSlot)
    BY <1>1, <1>2, <1>4 DEF Covers, IsWindow
  <2>3. Waiting(window) = {}
    BY <1>1 DEF Waiting, NewMachine
  <2>. QED
    BY <1>1, <1>3, <2>1, <2>2, <2>3
<1>7. CASE found
  <2>. DEFINE new == AddMachine(window, k)
  <2>1. ResetFromSlot(found) = new
    BY <1>7 DEF ResetFromSlot
  <2>2. NewMachine \in Machine /\ NewMachine.state # "Scheduled"
    BY DEF NewMachine, Machine, MachineStates
  <2>. HIDE DEF window, k, end, start, after
  <2>3. new \in [DOMAIN window \cup {k} -> Machine] /\ \A t \in DOMAIN new : new[t] = NewMachine
    BY <1>1, <2>2 DEF AddMachine, IsWindow
  <2>4. DOMAIN new = DOMAIN window \cup {k}
    BY DEF AddMachine
  <2>. HIDE DEF new
  <2>5. IsFiniteSet(DOMAIN new) /\ Cardinality(DOMAIN new) =< LookaheadSteps
    <3>1. /\ IsFiniteSet(DOMAIN window \cup {k})
          /\ Cardinality(DOMAIN window \cup {k}) =
               IF k \in DOMAIN window THEN Cardinality(DOMAIN window)
               ELSE Cardinality(DOMAIN window) + 1
      BY <1>1, FS_AddElement DEF IsWindow
    <3>2. Cardinality(DOMAIN window) \in Nat
      BY <1>1, FS_CardinalityType DEF IsWindow
    <3>. QED
      BY <2>4, <1>0, <1>1, <3>1, <3>2
  <2>6. IsWindow(new)
    <3>1. DOMAIN new \subseteq Nat /\ \A t \in DOMAIN new : t =< k
      BY <2>4, <1>1, <1>2, <1>5 DEF IsWindow
    <3>. QED
      BY <3>1, <2>3, <2>4, <2>5, <1>5 DEF IsWindow
  <2>7. Covers(new, headSlot)
    <3>. SUFFICES ASSUME NEW c \in ChainSlots, c > headSlot
                  PROVE  \/ \E t \in DOMAIN new : t =< c /\ c < t + BlocksPerRequest
                         \/ \A t \in DOMAIN new : t < c
      BY DEF Covers
    <3>0. c \in Nat /\ start =< c
      BY <1>4
    <3>1. CASE c < end
      BY <3>0, <3>1, <1>1, <2>4
    <3>2. CASE end =< c /\ c < k + BlocksPerRequest
      BY <3>2, <1>5, <2>4, <1>2, <3>0
    <3>3. CASE k + BlocksPerRequest =< c
      BY <3>3, <1>5, <1>1, <1>2, <1>0, <2>4, <3>0 DEF IsWindow
    <3>. QED
      BY <3>0, <3>1, <3>2, <3>3, <1>0, <1>2, <1>5
  <2>8. Waiting(new) = {} /\ DOMAIN new # {}
    BY <2>2, <2>3, <2>4 DEF Waiting
  <2>. QED
    BY <2>1, <2>6, <2>7, <2>8
<1>. QED
  BY <1>6, <1>7

-------------------------------------------------------------------------------
(* The steps. *)

\* The end of a visit, whatever the handler made of the machines.
LEMMA VisitedKeeps ==
  ASSUME QueueInv, NEW s, NEW state, Visiting(s, state),
         NEW ms, IsWindow(ms), Covers(ms, headSlot), DOMAIN ms # {},
         ticking \ {s} \subseteq DOMAIN ms,
         machines' = Collect(ms, s), ticking' = ticking \ {s},
         UNCHANGED <<loopAt, fetcher, headSlot>>,
         flying' \in [DOMAIN flying' -> Nat \ {0}],
         fetcher = "runs" => Waiting(ms) \subseteq DOMAIN flying'
  PROVE  WindowInv' /\ RequestInv'
<1>0. headSlot \in Nat /\ s \in Nat
  BY QueueAssumption DEF QueueInv, SyncInv, WindowInv, IsWindow, Visiting
<1>1. /\ IsWindow(machines') /\ Covers(machines', headSlot)
      /\ DOMAIN ms \ {s} \subseteq DOMAIN machines'
      /\ Waiting(machines') \subseteq Waiting(ms)
  BY <1>0, CollectKeeps
<1>2. Waiting(machines)' = Waiting(machines') /\ IsWindow(machines)' = IsWindow(machines')
      /\ Covers(machines, headSlot)' = Covers(machines', headSlot)
  BY DEF Waiting, IsWindow, Covers
<1>3. loopAt = "tick"
  BY DEF Visiting
<1>. QED
  BY <1>1, <1>2, <1>3 DEF WindowInv, RequestInv, QueueInv

\* A handler that changes at most the state of its machine.
LEMMA HandledKeeps ==
  ASSUME QueueInv, NEW s, NEW old, Visiting(s, old),
         NEW ms, \/ ms = machines
                 \/ \E state \in MachineStates \ {"Scheduled"} : ms = SetState(machines, s, state),
         Visited(ms, s), UNCHANGED flying
  PROVE  WindowInv' /\ RequestInv'
<1>1. IsWindow(machines) /\ Covers(machines, headSlot)
  BY DEF QueueInv, WindowInv
<1>2. /\ IsWindow(ms) /\ Covers(ms, headSlot) /\ DOMAIN ms = DOMAIN machines
      /\ Waiting(ms) \subseteq Waiting(machines)
  <2>1. CASE ms = machines
    BY <2>1, <1>1
  <2>2. CASE \E state \in MachineStates \ {"Scheduled"} : ms = SetState(machines, s, state)
    <3>1. PICK state \in MachineStates \ {"Scheduled"} : ms = SetState(machines, s, state)
      BY <2>2
    <3>. QED
      BY <3>1, <1>1, SetStateKeeps
  <2>. QED
    BY <2>1, <2>2
<1>3. s \in DOMAIN machines /\ ticking \subseteq DOMAIN machines
  BY DEF QueueInv, WindowInv, Visiting
<1>4. flying' \in [DOMAIN flying' -> Nat \ {0}]
      /\ (fetcher = "runs" => Waiting(ms) \subseteq DOMAIN flying')
  BY <1>2 DEF QueueInv, RequestInv
<1>. QED
  BY <1>2, <1>3, <1>4, VisitedKeeps DEF Visited

\* The variables SyncInv is about stay as they are.
LEMMA SyncStays ==
  ASSUME SyncInv, UNCHANGED <<headSlot, batch, fetchedData, loopAt, fetcher, consuming,
                              ctxDone, stopped>>
  PROVE  SyncInv'
BY DEF SyncInv

LEMMA ScheduleKeeps ==
  ASSUME QueueInv, NEW s, OnScheduleEvent(s)
  PROVE  QueueInv'
<1>1. Visiting(s, "New") /\ {"Skipped"} \subseteq MachineStates \ {"Scheduled"}
  BY DEF OnScheduleEvent, MachineStates
<1>2. SyncInv'
  BY SyncStays DEF OnScheduleEvent, Visited, QueueInv
<1>3. CASE Visited(SetState(machines, s, "Skipped"), s) /\ UNCHANGED flying
  BY <1>1, <1>2, <1>3, HandledKeeps DEF QueueInv
<1>4. CASE Visited(machines, s) /\ UNCHANGED flying
  BY <1>1, <1>2, <1>4, HandledKeeps DEF QueueInv
<1>5. CASE /\ Visited(SetState(machines, s, "Scheduled"), s)
           /\ flying' = [t \in DOMAIN flying \cup {s} |->
                           IF t \notin DOMAIN flying THEN 1
                           ELSE flying[t] + (IF t = s THEN 1 ELSE 0)]
  <2>. DEFINE ms == SetState(machines, s, "Scheduled")
  <2>1. "Scheduled" \in MachineStates /\ IsWindow(machines) /\ Covers(machines, headSlot)
    BY DEF MachineStates, QueueInv, WindowInv
  <2>2. /\ IsWindow(ms) /\ Covers(ms, headSlot) /\ DOMAIN ms = DOMAIN machines
        /\ Waiting(ms) \subseteq Waiting(machines) \cup {s}
    BY <2>1, SetStateKeeps
  <2>3. s \in DOMAIN machines /\ ticking \subseteq DOMAIN machines
    BY <1>1 DEF QueueInv, WindowInv, Visiting
  <2>4. DOMAIN flying' = DOMAIN flying \cup {s} /\ flying' \in [DOMAIN flying' -> Nat \ {0}]
    <3>1. flying \in [DOMAIN flying -> Nat \ {0}]
      BY DEF QueueInv, RequestInv
    <3>. QED
      BY <1>5, <3>1
  <2>5. fetcher = "runs" => Waiting(ms) \subseteq DOMAIN flying'
    BY <2>2, <2>4 DEF QueueInv, RequestInv
  <2>. HIDE DEF ms
  <2>6. /\ machines' = Collect(ms, s) /\ ticking' = ticking \ {s}
        /\ UNCHANGED <<loopAt, fetcher, headSlot>>
    BY <1>5 DEF Visited, ms
  <2>7. DOMAIN ms # {} /\ ticking \ {s} \subseteq DOMAIN ms
    BY <2>2, <2>3
  <2>8. WindowInv' /\ RequestInv'
    BY <1>1, <2>2, <2>4, <2>5, <2>6, <2>7, VisitedKeeps
  <2>. QED
    BY <2>8, <1>2 DEF QueueInv
<1>. QED
  BY <1>3, <1>4, <1>5 DEF OnScheduleEvent

LEMMA NoEventKeeps ==
  ASSUME QueueInv, NEW s, OnNoEvent(s)
  PROVE  QueueInv'
<1>1. WindowInv' /\ RequestInv'
  BY HandledKeeps DEF OnNoEvent
<1>2. SyncInv'
  BY SyncStays DEF OnNoEvent, Visited, QueueInv
<1>. QED
  BY <1>1, <1>2 DEF QueueInv

LEMMA ReadyToSendKeeps ==
  ASSUME QueueInv, NEW s, OnReadyToSendEvent(s)
  PROVE  QueueInv'
<1>1. Visiting(s, "DataParsed") /\ {"Skipped", "Sent"} \subseteq MachineStates \ {"Scheduled"}
  BY DEF OnReadyToSendEvent, MachineStates
<1>2. PICK ms \in {machines, SetState(machines, s, "Skipped"), SetState(machines, s, "Sent")} :
        /\ Visited(ms, s) /\ UNCHANGED <<flying, ctxDone>>
        /\ fetchedData' \in {fetchedData, <<machines[s].blocks>>}
  BY DEF OnReadyToSendEvent
<1>3. WindowInv' /\ RequestInv'
  BY <1>1, <1>2, HandledKeeps
<1>4. fetchedData' \in Seq(SUBSET ChainSlots) /\ Len(fetchedData') =< 1
  <2>1. machines[s].blocks \in SUBSET ChainSlots
    BY <1>1 DEF QueueInv, WindowInv, IsWindow, Machine, Visiting
  <2>2. \A b \in SUBSET ChainSlots : <<b>> \in Seq(SUBSET ChainSlots) /\ Len(<<b>>) =< 1
    OBVIOUS
  <2>. QED
    BY <1>2, <2>1, <2>2, Zenon DEF QueueInv, SyncInv
<1>5. SyncInv'
  BY <1>2, <1>4 DEF SyncInv, QueueInv, Visited
<1>. QED
  BY <1>3, <1>5 DEF QueueInv

LEMMA CheckStaleKeeps ==
  ASSUME QueueInv, NEW s, OnCheckStaleEvent(s)
  PROVE  QueueInv'
<1>1. Visiting(s, "Sent") /\ {"Skipped"} \subseteq MachineStates \ {"Scheduled"}
  BY DEF OnCheckStaleEvent, MachineStates
<1>2. WindowInv' /\ RequestInv'
  BY <1>1, HandledKeeps DEF OnCheckStaleEvent
<1>3. SyncInv'
  BY SyncStays DEF OnCheckStaleEvent, Visited, QueueInv
<1>. QED
  BY <1>2, <1>3 DEF QueueInv

LEMMA ProcessSkippedKeeps ==
  ASSUME QueueInv, NEW s, OnProcessSkippedEvent(s)
  PROVE  QueueInv'
<1>1. Visiting(s, "Skipped") /\ {"New"} \subseteq MachineStates \ {"Scheduled"}
  BY DEF OnProcessSkippedEvent, MachineStates
<1>2. WindowInv' /\ RequestInv'
  BY <1>1, HandledKeeps DEF OnProcessSkippedEvent
<1>3. SyncInv'
  BY SyncStays DEF OnProcessSkippedEvent, Visited, QueueInv
<1>. QED
  BY <1>2, <1>3 DEF QueueInv

\* The machines are replaced only by the last of them, whose visit is the last of
\* the tick: no key of the old machines is still to be visited.
LEMMA AllSkippedKeeps ==
  ASSUME QueueInv, NEW s, OnAllSkipped(s)
  PROVE  QueueInv'
<1>0. headSlot \in Nat /\ IsWindow(machines) /\ ticking \subseteq DOMAIN machines
  BY QueueAssumption DEF QueueInv, SyncInv, WindowInv
<1>1. Visiting(s, "Skipped") /\ s = Max(DOMAIN machines)
  BY DEF OnAllSkipped
<1>2. ticking \ {s} = {}
  <2>1. PICK m \in Nat : \A t \in DOMAIN machines : t =< m
    BY <1>0 DEF IsWindow
  <2>2. s \in DOMAIN machines /\ \A t \in DOMAIN machines : s >= t
    BY <1>0, <1>1, <2>1, MaxIsGreatest DEF IsWindow, Visiting
  <2>. QED
    BY <2>2, <1>0, <1>1 DEF Visiting, IsWindow
<1>3. CASE /\ BestFinalizedSlot =< headSlot /\ ctxDone' = TRUE /\ ticking' = ticking \ {s}
           /\ UNCHANGED <<machines, loopAt, fetcher, batch, consuming, headSlot, stopped>>
           /\ UNCHANGED <<flying, fetchedData>>
  <2>1. WindowInv' /\ RequestInv'
    BY <1>3, <1>2 DEF QueueInv, WindowInv, RequestInv, IsWindow, Covers, Waiting
  <2>2. SyncInv'
    BY <1>0, <1>3, QueueAssumption DEF QueueInv, SyncInv
  <2>. QED
    BY <2>1, <2>2 DEF QueueInv
<1>4. CASE \E found \in BOOLEAN :
             /\ machines' = Collect(ResetFromSlot(found), s) /\ ticking' = ticking \ {s}
             /\ UNCHANGED <<loopAt, fetcher, batch, consuming, headSlot, stopped, ctxDone>>
             /\ UNCHANGED <<flying, fetchedData>>
  <2>1. PICK found \in BOOLEAN :
             /\ machines' = Collect(ResetFromSlot(found), s) /\ ticking' = ticking \ {s}
             /\ UNCHANGED <<loopAt, fetcher, batch, consuming, headSlot, stopped, ctxDone>>
             /\ UNCHANGED <<flying, fetchedData>>
    BY <1>4
  <2>. DEFINE ms == ResetFromSlot(found)
  <2>2. IsWindow(ms) /\ Covers(ms, headSlot) /\ Waiting(ms) = {} /\ DOMAIN ms # {}
    BY <1>0, ResetIsWindow
  <2>3. flying' \in [DOMAIN flying' -> Nat \ {0}]
    BY <2>1 DEF QueueInv, RequestInv
  <2>. HIDE DEF ms
  <2>4. machines' = Collect(ms, s)
    BY <2>1 DEF ms
  <2>5. WindowInv' /\ RequestInv'
    BY <1>1, <1>2, <2>1, <2>2, <2>3, <2>4, VisitedKeeps
  <2>6. SyncInv'
    BY <2>1, SyncStays DEF QueueInv
  <2>. QED
    BY <2>5, <2>6 DEF QueueInv
<1>. QED
  BY <1>3, <1>4, Zenon DEF OnAllSkipped, Visited

\* The answer of one request: only a scheduled machine takes it, and leaves that
\* state.
LEMMA DataReceivedKeeps ==
  ASSUME QueueInv, NEW s, NEW answer, OnDataReceivedEvent(s, answer)
  PROVE  QueueInv'
<1>. USE DEF QueueInv
<1>1. IsWindow(machines) /\ Covers(machines, headSlot) /\ ticking = {} /\ loopAt' = "check"
      /\ UNCHANGED <<ticking, headSlot>>
  BY DEF WindowInv, OnDataReceivedEvent
<1>2. /\ flying' \in [DOMAIN flying' -> Nat \ {0}]
      /\ DOMAIN flying \ {s} \subseteq DOMAIN flying'
  BY DEF RequestInv, OnDataReceivedEvent
<1>3. /\ IsWindow(machines') /\ Covers(machines', headSlot)
      /\ Waiting(machines') \subseteq Waiting(machines) \ {s}
  <2>1. CASE (s \notin DOMAIN machines \/ machines[s].state # "Scheduled") /\ machines' = machines
    BY <1>1, <2>1 DEF Waiting
  <2>2. CASE machines' = SetState(machines, s, "New") /\ s \in DOMAIN machines
    <3>1. "New" \in MachineStates
      BY DEF MachineStates
    <3>2. machines'[s].state = "New"
      BY <1>1, <2>2 DEF SetState, IsWindow, Machine
    <3>. QED
      BY <1>1, <2>2, <3>1, <3>2, SetStateKeeps DEF Waiting
  <2>3. CASE \E m \in Machine : /\ machines' = [machines EXCEPT ![s] = m]
                                /\ m.state = "DataParsed" /\ s \in DOMAIN machines
    <3>1. DOMAIN machines' = DOMAIN machines /\ machines' \in [DOMAIN machines -> Machine]
      BY <1>1, <2>3 DEF IsWindow
    <3>2. /\ machines'[s].state = "DataParsed"
          /\ \A t \in DOMAIN machines : t # s => machines'[t] = machines[t]
      BY <1>1, <2>3 DEF IsWindow
    <3>. QED
      BY <1>1, <3>1, <3>2 DEF IsWindow, Covers, Waiting
  <2>. QED
    <3>1. [state |-> "DataParsed", blocks |-> IF answer = "blocks" THEN BlocksFrom(s) ELSE {}]
            \in Machine
      BY DEF Machine, MachineStates, BlocksFrom
    <3>. QED
      BY <2>1, <2>2, <2>3, <3>1, Zenon DEF OnDataReceivedEvent
<1>4. Waiting(machines)' = Waiting(machines') /\ IsWindow(machines)' = IsWindow(machines')
      /\ Covers(machines, headSlot)' = Covers(machines', headSlot)
  BY <1>1 DEF Waiting, IsWindow, Covers
<1>5. WindowInv'
  BY <1>1, <1>3, <1>4 DEF WindowInv
<1>6. RequestInv'
  BY <1>2, <1>3, <1>4, Zenon DEF RequestInv, OnDataReceivedEvent
<1>7. SyncInv'
  BY DEF SyncInv, OnDataReceivedEvent
<1>. QED
  BY <1>5, <1>6, <1>7

\* The head only moves forward, over blocks the consumer took.
LEMMA ConsumerKeeps ==
  ASSUME QueueInv, Consumer
  PROVE  QueueInv'
<1>. USE DEF QueueInv
<1>1. CASE Consume
  <2>1. WindowInv' /\ RequestInv'
    BY <1>1 DEF Consume, WindowInv, RequestInv, Waiting, IsWindow, Covers
  <2>2. batch' \in SUBSET ChainSlots
    BY <1>1 DEF Consume, SyncInv
  <2>3. fetchedData' \in Seq(SUBSET ChainSlots) /\ Len(fetchedData') =< 1
    <3>1. <<>> \in Seq(SUBSET ChainSlots) /\ Len(<<>>) =< 1
      OBVIOUS
    <3>. QED
      BY <1>1, <3>1 DEF Consume
  <2>4. SyncInv'
    BY <1>1, <2>2, <2>3 DEF Consume, SyncInv, NoBatch
  <2>. QED
    BY <2>1, <2>4
<1>2. CASE ProcessFetchedData
  <2>. DEFINE left == {c \in batch : c > headSlot}
  <2>0. ChainSlots \subseteq Nat /\ headSlot \in Nat /\ BestFinalizedSlot \in Nat
    BY QueueAssumption DEF SyncInv
  <2>1. batch \in SUBSET ChainSlots
    BY <1>2 DEF ProcessFetchedData, SyncInv
  <2>2. left # {} => Max(left) \in left
    <3>0. left \subseteq ChainSlots
      BY <2>1
    <3>1. left \subseteq Nat /\ \A x \in left : x =< HighestExpected
      <4>. HIDE DEF left
      <4>. QED
        BY <3>0, QueueAssumption
    <3>2. HighestExpected \in Nat
      BY QueueAssumption
    <3>. HIDE DEF left
    <3>. QED
      BY <3>1, <3>2, MaxIsGreatest
  <2>3. headSlot' \in ChainSlots \cup {0} /\ headSlot' >= headSlot /\ headSlot' \in Nat
    <3>1. CASE headSlot' = headSlot
      BY <3>1, <2>0 DEF SyncInv
    <3>2. CASE left # {} /\ headSlot' = Max(left)
      <4>1. headSlot' \in left
        BY <3>2, <2>2
      <4>2. headSlot' \in ChainSlots /\ headSlot' > headSlot
        BY <4>1, <2>1
      <4>. QED
        BY <4>2, <2>0
    <3>. QED
      BY <1>2, <3>1, <3>2 DEF ProcessFetchedData
  <2>4. Covers(machines', headSlot')
    BY <1>2, <2>0, <2>3 DEF ProcessFetchedData, WindowInv, Covers
  <2>5. WindowInv' /\ RequestInv'
    <3>1. Covers(machines, headSlot)' = Covers(machines', headSlot')
      BY DEF Covers
    <3>. QED
      BY <1>2, <2>4, <3>1 DEF ProcessFetchedData, WindowInv, RequestInv, Waiting, IsWindow
  <2>6. SyncInv'
    BY <1>2, <2>0, <2>3 DEF ProcessFetchedData, SyncInv
  <2>. QED
    BY <2>5, <2>6
<1>3. CASE ConsumerEnds
  <2>1. WindowInv' /\ RequestInv'
    BY <1>3 DEF ConsumerEnds, WindowInv, RequestInv, Waiting, IsWindow, Covers
  <2>2. SyncInv'
    BY <1>3, Zenon DEF ConsumerEnds, SyncInv
  <2>. QED
    BY <2>1, <2>2
<1>. QED
  BY <1>1, <1>2, <1>3 DEF Consumer

\* The queue's loop outside a visit, its end, the fetcher's end and a stop.
LEMMA LoopKeeps ==
  ASSUME QueueInv, CheckHighest \/ Tick \/ TickDone \/ QueueEnd \/ FetcherQuits \/ StopSync
  PROVE  QueueInv'
<1>. USE DEF QueueInv
<1>1. WindowInv'
  BY DEF CheckHighest, Tick, TickDone, QueueEnd, LoopEnds, CloseQueue, FetcherQuits, StopSync,
         WindowInv, IsWindow, Covers
<1>2. RequestInv'
  <2>1. CASE FetcherQuits
    <3>1. <<>> \in [DOMAIN <<>> -> Nat \ {0}]
      OBVIOUS
    <3>. QED
      BY <2>1, <3>1 DEF FetcherQuits, RequestInv
  <2>2. CASE CheckHighest \/ Tick \/ TickDone \/ QueueEnd \/ StopSync
    BY <2>2 DEF CheckHighest, Tick, TickDone, QueueEnd, LoopEnds, CloseQueue, StopSync,
                RequestInv, Waiting
  <2>. QED
    BY <2>1, <2>2
<1>3. SyncInv'
  <2>1. CASE CheckHighest
    <3>1. headSlot >= HighestExpected => headSlot >= BestFinalizedSlot
      BY QueueAssumption DEF SyncInv
    <3>. QED
      BY <2>1, <3>1 DEF CheckHighest, SyncInv
  <2>2. CASE Tick \/ TickDone
    BY <2>2 DEF Tick, TickDone, SyncInv
  <2>3. CASE QueueEnd
    BY <2>3, Zenon DEF QueueEnd, LoopEnds, CloseQueue, SyncInv
  <2>4. CASE FetcherQuits \/ StopSync
    BY <2>4, Zenon DEF FetcherQuits, StopSync, SyncInv
  <2>. QED
    BY <2>1, <2>2, <2>3, <2>4
<1>. QED
  BY <1>1, <1>2, <1>3

\* The first window begins at the head.
LEMMA StartKeeps ==
  ASSUME QueueInv, QueueStart
  PROVE  QueueInv'
<1>. USE DEF QueueInv
<1>0. headSlot \in Nat /\ LookaheadSteps \in Nat /\ ChainSlots \subseteq Nat
      /\ BlocksPerRequest \in Nat
  BY QueueAssumption DEF SyncInv
<1>1. /\ IsWindow(machines')
      /\ \A t \in DOMAIN machines' : machines'[t] = NewMachine
                                     /\ t < headSlot + BlocksPerRequest * LookaheadSteps
      /\ \A c \in Nat : headSlot =< c /\ c < headSlot + BlocksPerRequest * LookaheadSteps
             => \E t \in DOMAIN machines' : t =< c /\ c < t + BlocksPerRequest
  BY <1>0, WindowIsWindow DEF QueueStart
<1>2. BlocksPerRequest * LookaheadSteps \in Nat
  BY <1>0
<1>3. Covers(machines', headSlot)
  BY <1>0, <1>1, <1>2 DEF Covers, IsWindow
<1>4. Waiting(machines') = {}
  BY <1>1 DEF Waiting, NewMachine
<1>5. Waiting(machines)' = Waiting(machines') /\ IsWindow(machines)' = IsWindow(machines')
      /\ Covers(machines, headSlot)' = Covers(machines', headSlot)
  BY DEF Waiting, IsWindow, Covers, QueueStart
<1>6. WindowInv' /\ RequestInv'
  BY <1>1, <1>3, <1>4, <1>5 DEF WindowInv, RequestInv, QueueStart
<1>7. SyncInv'
  BY DEF SyncInv, QueueStart
<1>. QED
  BY <1>6, <1>7

LEMMA QueueInitInv == QueueInit => QueueInv
<1>. SUFFICES ASSUME QueueInit PROVE QueueInv
  OBVIOUS
<1>1. IsWindow(<<>>) /\ Covers(<<>>, 0) /\ Waiting(<<>>) = {}
  <2>1. DOMAIN <<>> = {} /\ <<>> \in [{} -> Machine]
    OBVIOUS
  <2>2. IsFiniteSet({}) /\ Cardinality({}) =< LookaheadSteps
    BY FS_EmptySet, QueueAssumption
  <2>. QED
    BY <2>1, <2>2 DEF IsWindow, Covers, Waiting
<1>2. <<>> \in [DOMAIN <<>> -> Nat \ {0}] /\ <<>> \in Seq(SUBSET ChainSlots) /\ Len(<<>>) =< 1
  OBVIOUS
<1>. QED
  BY <1>1, <1>2, QueueAssumption, Zenon DEF QueueInit, QueueInv, WindowInv, RequestInv, SyncInv

LEMMA QueueNextInv == QueueInv /\ [QueueNext]_queueVars => QueueInv'
<1>. SUFFICES ASSUME QueueInv, [QueueNext]_queueVars PROVE QueueInv'
  OBVIOUS
<1>1. CASE \E s \in DOMAIN machines : Visit(s)
  BY <1>1, ScheduleKeeps, NoEventKeeps, ReadyToSendKeeps, CheckStaleKeeps, AllSkippedKeeps,
     ProcessSkippedKeeps DEF Visit
<1>2. CASE QueueStart
  BY <1>2, StartKeeps
<1>3. CASE CheckHighest \/ Tick \/ TickDone \/ QueueEnd \/ FetcherQuits \/ StopSync
  BY <1>3, LoopKeeps
<1>4. CASE Consumer
  BY <1>4, ConsumerKeeps
<1>5. CASE \E s \in DOMAIN flying, a \in {"blocks", "none", "error"} : OnDataReceivedEvent(s, a)
  BY <1>5, DataReceivedKeeps
<1>6. CASE UNCHANGED queueVars
  BY <1>6 DEF queueVars, QueueInv, WindowInv, RequestInv, SyncInv, IsWindow, Covers, Waiting
<1>. QED
  BY <1>1, <1>2, <1>3, <1>4, <1>5, <1>6 DEF QueueNext, QueueStep

\* The inductive invariant holds in every behaviour of the queue.
THEOREM QueueInvariant == QueueSpec => []QueueInv
BY QueueInitInv, QueueNextInv, PTL DEF QueueSpec

-------------------------------------------------------------------------------
(* The properties. *)

\* Type correctness of the queue, and never more machines than the lookahead
\* (addStateMachine and removeStateMachine in every order of the handlers).
THEOREM QueueTypeCorrect == QueueSpec => []QueueTypeOK
<1>1. QueueInv => QueueTypeOK
  BY DEF QueueInv, QueueTypeOK, WindowInv, RequestInv, SyncInv, IsWindow, Machine
<1>. QED
  BY <1>1, QueueInvariant, PTL

\* Every key of a tick has its machine when its turn comes (blocks_queue.go reads
\* q.smm.machines[key] without a test).
THEOREM TicksFindMachines == QueueSpec => []TickedMachineExists
<1>1. QueueInv => TickedMachineExists
  BY DEF QueueInv, TickedMachineExists, WindowInv
<1>. QED
  BY <1>1, QueueInvariant, PTL

\* A scheduled machine has a request on its way, although machines are replaced
\* while requests are on their way (resetFromSlot, onDataReceivedEvent).
THEOREM ScheduledAwaitsAnswer == QueueSpec => []ScheduledHasRequest
<1>1. QueueInv => ScheduledHasRequest
  BY DEF QueueInv, ScheduledHasRequest, RequestInv, Waiting
<1>. QED
  BY <1>1, QueueInvariant, PTL

\* The sliding window never moves past a block that is not processed.
THEOREM WindowNeverSkips == QueueSpec => []WindowHoldsNext
<1>1. QueueInv => WindowHoldsNext
  <2>. SUFFICES ASSUME QueueInv PROVE WindowHoldsNext
    OBVIOUS
  <2>. DEFINE next == {c \in ChainSlots : c > headSlot}
  <2>. SUFFICES ASSUME next # {}
                PROVE  \/ \E s \in DOMAIN machines : Min(next) \in s..(s + BlocksPerRequest - 1)
                       \/ \A s \in DOMAIN machines : s < Min(next)
    BY DEF WindowHoldsNext
  <2>0. ChainSlots \subseteq Nat
    BY QueueAssumption
  <2>1. next \subseteq Nat /\ next \subseteq ChainSlots
    BY <2>0
  <2>2. Min(next) \in next
    <3>. HIDE DEF next
    <3>. QED
      BY <2>1, MinIsLeast
  <2>3. Min(next) \in ChainSlots /\ Min(next) > headSlot /\ Min(next) \in Nat
    BY <2>1, <2>2
  <2>4. \/ \E s \in DOMAIN machines : s =< Min(next) /\ Min(next) < s + BlocksPerRequest
        \/ \A s \in DOMAIN machines : s < Min(next)
    <3>. HIDE DEF next
    <3>. QED
      BY <2>3 DEF QueueInv, WindowInv, Covers
  <2>5. DOMAIN machines \subseteq Nat /\ BlocksPerRequest \in Nat
    BY QueueAssumption DEF QueueInv, WindowInv, IsWindow
  <2>. HIDE DEF next
  <2>. QED
    BY <2>3, <2>4, <2>5
<1>. QED
  BY <1>1, QueueInvariant, PTL

\* A queue that closes without a stop of the service has brought the head to the
\* finalized slot of the peers (blocksQueue.loop, onProcessSkippedEvent).
THEOREM ClosedMeansSynced == QueueSpec => []SyncedWhenClosed
<1>1. QueueInv => SyncedWhenClosed
  BY DEF QueueInv, SyncedWhenClosed, SyncInv
<1>. QED
  BY <1>1, QueueInvariant, PTL

===============================================================================
