-------------------------- MODULE ProposerProtection --------------------------
(***************************************************************************)
(* Local slashing protection for block proposals in the validator client.  *)
(*                                                                         *)
(* ProposeBlock goroutines ("callers") lock the proposer role and their    *)
(* key, get a block from the beacon node and sign it, read the proposal    *)
(* history and the lowest signed slot in two transactions, save the        *)
(* proposal in a third one, which also prunes the history, and broadcast.  *)
(* The process may crash between any two steps; the database survives.     *)
(***************************************************************************)
EXTENDS Integers

CONSTANTS
    PubKeys,             \* validator public keys
    Callers,          \* goroutines that run ProposeBlock
    Slots,            \* slots of the blocks the beacon node may hand out
    Roots,            \* their signing roots
    ZeroRoot,         \* the root of an imported proposal without signing root
    NoRoot,           \* no proposal stored at a slot
    SlotsPerEpoch,
    WeakSubjectivityPeriod,
    MaxCalls          \* bound: calls of ProposeBlock

ASSUME SlotAssumption ==
    /\ Slots \subseteq Nat
    /\ SlotsPerEpoch \in Nat \ {0}
    /\ WeakSubjectivityPeriod \in Nat \ {0}
ASSUME RootAssumption ==
    ZeroRoot \notin Roots /\ NoRoot \notin Roots /\ ZeroRoot # NoRoot
ASSUME CallsAssumption == MaxCalls \in Nat

VARIABLES
    proposing,        \* where each caller is in ProposeBlock
    proposed,         \* the block each caller works on
    prev,             \* the history entry each caller read for its slot
    calls,
    history,          \* historicProposalsBucket: key, slot -> signing root
    lowest, highest,  \* lowest and highest signed proposal buckets
    imported,         \* proposals imported before the client started
    sent              \* blocks sent to the beacon node

dbVars == <<history, lowest, highest>>
proposeVars == <<proposing, proposed, prev, calls, dbVars, imported, sent>>

-------------------------------------------------------------------------------

NoSlot  == -1         \* no bytes stored under the key
NoBlock == [key |-> NoRoot]
Blocks  == [key : PubKeys, slot : Slots, root : Roots]
Imports == [key : PubKeys, slot : Slots, root : Roots \cup {ZeroRoot}]

Epoch(slot) == slot \div SlotsPerEpoch

\* Only epochs older than the weak subjectivity period are deleted.
Prunable(slot, newest) ==
    Epoch(slot) + WeakSubjectivityPeriod <= Epoch(newest)

\* Mutant: prunes one epoch too many.
PruneOneEarly(h, newest) ==
    [s \in Slots |-> IF Epoch(s) + WeakSubjectivityPeriod <= Epoch(newest) + 1
                     THEN NoRoot ELSE h[s]]

\* pruneProposalHistoryBySlot: keys are sorted, so it stops at the first slot
\* it keeps after deleting every prunable one.
PruneProposalHistoryBySlot(h, newest) ==
    [s \in Slots |-> IF Prunable(s, newest) THEN NoRoot ELSE h[s]]

\* SaveProposalHistoryForSlot: one transaction.
SaveProposalHistoryForSlot(b) ==
    LET k == b.key IN
    /\ history' = [history EXCEPT ![k] =
           PruneProposalHistoryBySlot([@ EXCEPT ![b.slot] = b.root], b.slot)]
    /\ lowest' = [lowest EXCEPT ![k] =
           IF @ = NoSlot \/ b.slot < @ THEN b.slot ELSE @]
    /\ highest' = [highest EXCEPT ![k] =
           IF @ = NoSlot \/ b.slot > @ THEN b.slot ELSE @]

-------------------------------------------------------------------------------

\* The client starts on an empty database or on one that holds an imported
\* proposal of some key, with or without a signing root.
ProposeInit ==
    /\ proposing = [c \in Callers |-> "idle"]
    /\ proposed = [c \in Callers |-> NoBlock]
    /\ prev = [c \in Callers |-> NoRoot]
    /\ calls = 0
    /\ sent = {}
    /\ imported \in {{}} \cup {{i} : i \in Imports}
    /\ history = [k \in PubKeys |-> [s \in Slots |->
           IF \E i \in imported : i.key = k /\ i.slot = s
           THEN (CHOOSE i \in imported : TRUE).root ELSE NoRoot]]
    /\ lowest = [k \in PubKeys |->
           IF \E i \in imported : i.key = k
           THEN (CHOOSE i \in imported : TRUE).slot ELSE NoSlot]
    /\ highest = lowest

ProposeStep(c, from, to) ==
    /\ proposing[c] = from
    /\ proposing' = [proposing EXCEPT ![c] = to]
    /\ proposed' = IF to = "idle" THEN [proposed EXCEPT ![c] = NoBlock] ELSE proposed

\* The multilock holds the proposer role, which all calls share, and the key.
Unlocked == \A o \in Callers : proposing[o] = "idle"

\* Mutant: the genesis slot is not skipped.
GetAnyBlock(c, b) ==
    /\ proposing[c] = "idle"
    /\ calls < MaxCalls
    /\ Unlocked
    /\ calls' = calls + 1
    /\ proposing' = [proposing EXCEPT ![c] = "history"]
    /\ proposed' = [proposed EXCEPT ![c] = b]
    /\ UNCHANGED <<prev, dbVars, imported, sent>>

\* Skip the genesis slot, lock, get the block of the slot from the beacon node
\* and sign it.  The early returns on the way leave no trace.
GetBlock(c, b) ==
    /\ b.slot # 0
    /\ proposing[c] = "idle"
    /\ calls < MaxCalls
    /\ Unlocked
    /\ calls' = calls + 1
    /\ proposing' = [proposing EXCEPT ![c] = "history"]
    /\ proposed' = [proposed EXCEPT ![c] = b]
    /\ UNCHANGED <<prev, dbVars, imported, sent>>

\* preBlockSignValidations reads the history entry of the slot ...
ProposalHistoryForSlot(c) ==
    /\ ProposeStep(c, "history", "lowest")
    /\ prev' = [prev EXCEPT ![c] = history[proposed[c].key][proposed[c].slot]]
    /\ UNCHANGED <<calls, dbVars, imported, sent>>

\* Mutant: a proposal at or below the lowest signed slot is not refused.
CheckHistoryOnly(c) ==
    LET differs == prev[c] = ZeroRoot \/ prev[c] # proposed[c].root
    IN  /\ ProposeStep(c, "lowest", IF prev[c] # NoRoot /\ differs THEN "idle" ELSE "save")
        /\ UNCHANGED <<prev, calls, dbVars, imported, sent>>

\* ... and the lowest signed slot, and decides.
LowestSignedProposal(c) ==
    LET b == proposed[c]
        low == lowest[b.key]
        differs == prev[c] = ZeroRoot \/ prev[c] # b.root
        refused == \/ prev[c] # NoRoot /\ differs
                   \/ low # NoSlot /\ differs /\ low >= b.slot
    IN  /\ ProposeStep(c, "lowest", IF refused THEN "idle" ELSE "save")
        /\ UNCHANGED <<prev, calls, dbVars, imported, sent>>

\* The external slasher refuses the block (CheckBlockSafety, CommitBlock), or
\* the transaction of SaveProposalHistoryForSlot fails.
PostBlockSignRejected(c) ==
    /\ ProposeStep(c, "save", "idle")
    /\ UNCHANGED <<prev, calls, dbVars, imported, sent>>

PostBlockSignUpdate(c) ==
    /\ ProposeStep(c, "save", "broadcast")
    /\ SaveProposalHistoryForSlot(proposed[c])
    /\ UNCHANGED <<prev, calls, imported, sent>>

\* A failed request may still have reached the network.
ProposeBlock(c) ==
    /\ ProposeStep(c, "broadcast", "idle")
    /\ sent' = sent \cup {proposed[c]}
    /\ UNCHANGED <<prev, calls, dbVars, imported>>

\* The process dies and starts again; only the database survives.
Crash ==
    /\ proposing' = [c \in Callers |-> "idle"]
    /\ proposed' = [c \in Callers |-> NoBlock]
    /\ prev' = [c \in Callers |-> NoRoot]
    /\ UNCHANGED <<calls, dbVars, imported, sent>>

ProposeNext ==
    \/ \E c \in Callers, b \in Blocks : GetBlock(c, b)
    \/ \E c \in Callers :
           \/ ProposalHistoryForSlot(c) \/ LowestSignedProposal(c)
           \/ PostBlockSignRejected(c) \/ PostBlockSignUpdate(c)
           \/ ProposeBlock(c)
    \/ Crash

ProposeSpec == ProposeInit /\ [][ProposeNext]_proposeVars

-------------------------------------------------------------------------------
(* Properties *)

\* Types of the callers, the database and the history; nothing is proposed for
\* the genesis slot.
ProposeTypeOK ==
    /\ proposing \in [Callers -> {"idle", "history", "lowest", "save", "broadcast"}]
    /\ proposed \in [Callers -> Blocks \cup {NoBlock}]
    /\ \A c \in Callers : proposing[c] # "idle" => proposed[c] \in Blocks /\ proposed[c].slot # 0
    /\ prev \in [Callers -> Roots \cup {ZeroRoot, NoRoot}]
    /\ calls \in Nat
    /\ history \in [PubKeys -> [Slots -> Roots \cup {ZeroRoot, NoRoot}]]
    /\ lowest \in [PubKeys -> Slots \cup {NoSlot}]
    /\ highest \in [PubKeys -> Slots \cup {NoSlot}]
    /\ imported \subseteq Imports
    /\ sent \subseteq {b \in Blocks : b.slot # 0}

\* A key never broadcasts two different blocks of one slot, nor one that
\* differs from an imported proposal, unless the slot is older than the weak
\* subjectivity period before the highest slot it signed, and so was pruned.
NoDoubleProposal ==
    \A a \in sent \cup imported, b \in sent :
        (a.key = b.key /\ a.slot = b.slot /\ a.root # b.root)
            => Prunable(a.slot, highest[a.key])

\* The minimum rule of EIP-3076: once a key has a lowest signed slot, ProposeBlock
\* never saves a lower one, although SaveProposalHistoryForSlot would override
\* it, not even for slots whose history was pruned.
LowestNeverMoves ==
    [][\A k \in PubKeys : lowest[k] # NoSlot => lowest'[k] = lowest[k]]_proposeVars
===============================================================================
