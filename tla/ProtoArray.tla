------------------------------ MODULE ProtoArray ------------------------------
(***************************************************************************)
(* The proto array fork choice store.                                      *)
(*                                                                         *)
(* The block tree is an array in which parents come before their children. *)
(* Every node caches its weight, its best child and its best descendant;   *)
(* Head moves changed votes and balances through the array and refreshes   *)
(* the links, insert links a new node to its parent only, and prune cuts   *)
(* off the array before the finalized node.  Each operation runs under the *)
(* locks of the store and is one step.                                     *)
(*                                                                         *)
(* The chain service inserts parents first, passes checkpoints that never  *)
(* go back, and starts with the genesis block.                             *)
(***************************************************************************)
EXTENDS Integers, Sequences, FiniteSets, Functions

CONSTANTS
    BlockRoots,      \* block roots, numbers in the order of bytes.Compare
    Genesis,         \* the root of the first block
    Validators,
    BalanceVectors,  \* justified balances the caller may pass to Head
    Epochs,          \* epochs of justified and finalized checkpoints
    TargetEpochs,    \* target epochs of attestations
    PruneThreshold,
    UnknownVotes     \* whether votes may be for blocks that were not inserted

ASSUME RootsAssumption ==
    BlockRoots \subseteq Nat \ {0} /\ IsFiniteSet(BlockRoots) /\ Genesis \in BlockRoots
ASSUME EpochsAssumption == Epochs \subseteq Nat /\ 0 \in Epochs
ASSUME TargetsAssumption == TargetEpochs \subseteq Nat
ASSUME BalanceAssumption ==
    IsFiniteSet(Validators) /\ BalanceVectors \subseteq [Validators -> Nat]
ASSUME ThresholdAssumption == PruneThreshold \in Nat
ASSUME UnknownAssumption == UnknownVotes \in BOOLEAN

VARIABLES
    nodes,           \* Store.nodes
    nodesIndices,    \* Store.nodesIndices, NonExistentNode if absent
    justifiedEpoch, finalizedEpoch,
    canonicalNodes,
    votes,           \* ForkChoice.votes
    balances,        \* ForkChoice.balances
    justifiedRoot,   \* the root of the service's justified checkpoint
    parentOf,        \* history: the parent of every block inserted so far
    counted,         \* history: validators whose current vote met its block
    result           \* what the last call of Head returned

epochVars == <<justifiedEpoch, finalizedEpoch, justifiedRoot>>
storeVars == <<nodes, nodesIndices, canonicalNodes, epochVars, parentOf>>
voteVars  == <<votes, balances, counted>>
vars      == <<storeVars, voteVars, result>>

-------------------------------------------------------------------------------

ZeroHash == 0
NonExistentNode == 0     \* positions start with 1
NoResult == 0
HeadError == -1
NewVote == [current |-> ZeroHash, next |-> ZeroHash, epoch |-> 0]

\* i and the positions below it in the tree.
Subtree(ns, i) ==
    LET below[j \in DOMAIN ns] ==
            \/ j = i
            \/ ns[j].parent # NonExistentNode /\ below[ns[j].parent]
    IN  {j \in DOMAIN ns : below[j]}

\* The epochs of a node agree with the store's, or the store is at genesis.
ViableForHead(n, je, fe) ==
    (je = n.je \/ je = 0) /\ (fe = n.fe \/ fe = 0)

LeadsToViableHead(ns, i, je, fe) ==
    LET d == ns[i].bestDescendant
    IN  \/ d # NonExistentNode /\ ViableForHead(ns[d], je, fe)
        \/ ViableForHead(ns[i], je, fe)

\* Mutant: weights are compared before viability.
UpdateByWeight(ns, p, c, je, fe) ==
    LET best  == ns[p].bestChild
        link(x, y) == [ns EXCEPT ![p] = [@ EXCEPT !.bestChild = x, !.bestDescendant = y]]
        child == link(c, IF ns[c].bestDescendant = NonExistentNode
                         THEN c ELSE ns[c].bestDescendant)
        heavier == \/ ns[c].weight > ns[best].weight
                   \/ ns[c].weight = ns[best].weight /\ ns[c].root > ns[best].root
    IN  IF best = NonExistentNode \/ best = c THEN child
        ELSE IF heavier THEN child ELSE ns

\* updateBestChildAndDescendant: the links of node p after a look at child c.
UpdateBestChildAndDescendant(ns, p, c, je, fe) ==
    LET best  == ns[p].bestChild
        leads(i) == LeadsToViableHead(ns, i, je, fe)
        link(x, y) == [ns EXCEPT ![p] = [@ EXCEPT !.bestChild = x, !.bestDescendant = y]]
        none  == link(NonExistentNode, NonExistentNode)
        child == link(c, IF ns[c].bestDescendant = NonExistentNode
                         THEN c ELSE ns[c].bestDescendant)
        heavier == \/ ns[c].weight > ns[best].weight
                   \/ ns[c].weight = ns[best].weight /\ ns[c].root > ns[best].root
    IN  CASE best = NonExistentNode -> IF leads(c) THEN child ELSE ns
          [] best = c               -> IF leads(c) THEN child ELSE none
          [] OTHER -> IF leads(c) /\ ~leads(best) THEN child
                      ELSE IF ~leads(c) /\ leads(best) THEN ns
                      ELSE IF heavier THEN child ELSE ns

\* Mutant: parents before their children.
RefreshUpwards(ns, je, fe) ==
    LET after[i \in 0 .. Len(ns)] ==
            IF i = 0 THEN ns
            ELSE LET p == ns[i].parent
                 IN  IF p = NonExistentNode THEN after[i - 1]
                     ELSE UpdateBestChildAndDescendant(after[i - 1], p, i, je, fe)
    IN  after[Len(ns)]

\* The second loop of applyWeightChanges: from the last node to the first.
RefreshLinks(ns, je, fe) ==
    LET n == Len(ns)
        after[k \in 0 .. n] ==
            IF k = 0 THEN ns
            ELSE LET i == n + 1 - k
                     p == ns[i].parent
                 IN  IF p = NonExistentNode THEN after[k - 1]
                     ELSE UpdateBestChildAndDescendant(after[k - 1], p, i, je, fe)
    IN  after[n]

IndexOf(root) == IF root = ZeroHash THEN NonExistentNode ELSE nodesIndices[root]

SumOver(f, S) == FoldFunctionOnSet(+, 0, f, S)

\* Validators whose vote or balance has changed.
Changed(newBalances) ==
    {v \in Validators :
        /\ votes[v].current # ZeroHash \/ votes[v].next # ZeroHash
        /\ \/ votes[v].current # votes[v].next
           \/ balances[v] # newBalances[v]}

\* Mutant: the new balance is taken from the old block.
ComputeNewDeltas(newBalances) ==
    LET C == Changed(newBalances)
    IN  [i \in DOMAIN nodes |->
            SumOver(newBalances, {v \in C : IndexOf(votes[v].next) = i})
                - SumOver(newBalances, {v \in C : IndexOf(votes[v].current) = i})]

\* computeDeltas: what the changed votes add to each node, less what they added.
ComputeDeltas(newBalances) ==
    LET C == Changed(newBalances)
    IN  [i \in DOMAIN nodes |->
            SumOver(newBalances, {v \in C : IndexOf(votes[v].next) = i})
                - SumOver(balances, {v \in C : IndexOf(votes[v].current) = i})]

\* The first loop of applyWeightChanges: a node gets the deltas of its subtree,
\* and its weight stays at zero when it would become negative.
ApplyDeltas(deltas) ==
    [i \in DOMAIN nodes |->
        LET w == nodes[i].weight + SumOver(deltas, Subtree(nodes, i))
        IN  [nodes[i] EXCEPT !.weight = IF w < 0 THEN 0 ELSE w]]

Ancestors(ns, i) == {j \in DOMAIN ns : i \in Subtree(ns, j)}

\* head: the best descendant of the justified node, or the node itself.
HeadOf(ns, j, je, fe) ==
    LET best == IF ns[j].bestDescendant = NonExistentNode THEN j ELSE ns[j].bestDescendant
    IN  IF ViableForHead(ns[best], je, fe) THEN best ELSE NonExistentNode

\* Mutant: the ancestors are forgotten.
UpdateHeadOnly(ns, i) == {ns[i].root}

\* updateCanonicalNodes: the root and its ancestors up to the first canonical.
UpdateCanonicalNodes(ns, i) ==
    LET marked[j \in DOMAIN ns] ==
            LET p == ns[j].parent
            IN  {ns[j].root} \cup
                IF p = NonExistentNode \/ ns[p].root \in canonicalNodes THEN {} ELSE marked[p]
    IN  marked[i]

-------------------------------------------------------------------------------

NewNode(root, parent, je, fe) ==
    [root |-> root, parent |-> parent, je |-> je, fe |-> fe, weight |-> 0,
     bestChild |-> NonExistentNode, bestDescendant |-> NonExistentNode]

\* New, and the insertion of the genesis block.
Init ==
    /\ nodes = <<NewNode(Genesis, NonExistentNode, 0, 0)>>
    /\ nodesIndices = [r \in BlockRoots |-> IF r = Genesis THEN 1 ELSE NonExistentNode]
    /\ justifiedEpoch = 0
    /\ finalizedEpoch = 0
    /\ justifiedRoot = Genesis
    /\ canonicalNodes = {}
    /\ votes = [v \in Validators |-> NewVote]
    /\ balances = [v \in Validators |-> 0]
    /\ parentOf = [r \in {Genesis} |-> ZeroHash]
    /\ counted = {}
    /\ result = NoResult

\* insert: the node is linked to its parent, not to the rest of its ancestors.
\* The service verifies that the block descends from the finalized one; the
\* epochs of a block's state are at least those of its parent's.
ProcessBlock(root, parent, je, fe) ==
    /\ root \notin DOMAIN parentOf
    /\ IndexOf(parent) \in Subtree(nodes, 1)
    /\ LET p  == IndexOf(parent)
           i  == Len(nodes) + 1
           ns == Append(nodes, NewNode(root, p, je, fe))
       IN  /\ fe <= je /\ nodes[p].je <= je /\ nodes[p].fe <= fe
           /\ nodes' = UpdateBestChildAndDescendant(ns, p, i, justifiedEpoch, finalizedEpoch)
           /\ nodesIndices' = [nodesIndices EXCEPT ![root] = i]
    /\ parentOf' = [r \in DOMAIN parentOf \cup {root} |->
                        IF r = root THEN parent ELSE parentOf[r]]
    /\ result' = NoResult
    /\ UNCHANGED <<canonicalNodes, epochVars, voteVars>>

\* One validator of an attestation.
ProcessAttestation(v, root, epoch) ==
    /\ UnknownVotes \/ IndexOf(root) # NonExistentNode
    /\ \/ votes[v].current = ZeroHash /\ votes[v].next = ZeroHash
       \/ epoch > votes[v].epoch
    /\ votes' = [votes EXCEPT ![v].next = root, ![v].epoch = epoch]
    /\ result' = NoResult
    /\ UNCHANGED <<storeVars, balances, counted>>

\* The service passes its justified checkpoint, which some block of the tree
\* justifies, and its finalized epoch.
FindHead(je, fe, root, newBalances) ==
    /\ IndexOf(root) \in Subtree(nodes, 1)
    /\ je >= justifiedEpoch /\ fe >= finalizedEpoch /\ fe <= je
    /\ je = justifiedEpoch => root = justifiedRoot
    /\ je > justifiedEpoch =>
           /\ \E i \in Subtree(nodes, IndexOf(root)) : nodes[i].je = je
           /\ \A i \in DOMAIN nodes : nodes[i].je <= je
    /\ fe > finalizedEpoch =>
           /\ \E i \in DOMAIN nodes : nodes[i].fe = fe
           /\ \A i \in DOMAIN nodes : nodes[i].fe <= fe
    /\ \E deltas \in {ComputeDeltas(newBalances)} :
       \E weighed \in {ApplyDeltas(deltas)} :
       \E ns \in {RefreshLinks(weighed, je, fe)} :
          LET head == HeadOf(ns, IndexOf(root), je, fe)
          IN  /\ nodes' = ns
              /\ result' = IF head = NonExistentNode THEN HeadError ELSE ns[head].root
              /\ canonicalNodes' =
                    canonicalNodes \cup
                        IF head = NonExistentNode THEN {} ELSE UpdateCanonicalNodes(ns, head)
    /\ votes' = [v \in Validators |-> [votes[v] EXCEPT !.current = votes[v].next]]
    /\ counted' = {v \in Validators : IF v \in Changed(newBalances)
                                      THEN IndexOf(votes[v].next) # NonExistentNode
                                      ELSE v \in counted}
    /\ balances' = newBalances
    /\ justifiedEpoch' = je
    /\ finalizedEpoch' = fe
    /\ justifiedRoot' = root
    /\ UNCHANGED <<nodesIndices, parentOf>>

\* Mutant: a parent that is gone is moved like the others.
PruneMoveAll(root) ==
    LET f == IndexOf(root)
        move(i)  == IF i = NonExistentNode THEN NonExistentNode ELSE i - f + 1
        moveUp(i) == IF i < f THEN NonExistentNode ELSE move(i)
    IN  /\ finalizedEpoch > 0
        /\ f \in Ancestors(nodes, IndexOf(justifiedRoot))
        /\ f - 1 >= PruneThreshold
        /\ nodes' = [i \in 1 .. Len(nodes) - f + 1 |->
               [nodes[i + f - 1] EXCEPT !.parent = move(@),
                                        !.bestChild = move(@),
                                        !.bestDescendant = move(@)]]
        /\ nodesIndices' = [r \in BlockRoots |-> moveUp(nodesIndices[r])]
        /\ result' = NoResult
        /\ UNCHANGED <<canonicalNodes, epochVars, voteVars, parentOf>>

\* Mutant: best descendants keep their old positions.
PruneKeepBest(root) ==
    LET f == IndexOf(root)
        move(i)  == IF i = NonExistentNode THEN NonExistentNode ELSE i - f + 1
        moveUp(i) == IF i < f THEN NonExistentNode ELSE move(i)
    IN  /\ finalizedEpoch > 0
        /\ f \in Ancestors(nodes, IndexOf(justifiedRoot))
        /\ f - 1 >= PruneThreshold
        /\ nodes' = [i \in 1 .. Len(nodes) - f + 1 |->
               [nodes[i + f - 1] EXCEPT !.parent = moveUp(@), !.bestChild = move(@)]]
        /\ nodesIndices' = [r \in BlockRoots |-> moveUp(nodesIndices[r])]
        /\ result' = NoResult
        /\ UNCHANGED <<canonicalNodes, epochVars, voteVars, parentOf>>

\* prune: everything before the finalized node goes, whatever its fork.  The
\* finalized block is the justified one or an ancestor of it.
Prune(root) ==
    LET f == IndexOf(root)
        move(i)  == IF i = NonExistentNode THEN NonExistentNode ELSE i - f + 1
        moveUp(i) == IF i < f THEN NonExistentNode ELSE move(i)
    IN  /\ finalizedEpoch > 0
        /\ f \in Ancestors(nodes, IndexOf(justifiedRoot))
        /\ f - 1 >= PruneThreshold
        /\ nodes' = [i \in 1 .. Len(nodes) - f + 1 |->
               [nodes[i + f - 1] EXCEPT !.parent = moveUp(@),
                                        !.bestChild = move(@),
                                        !.bestDescendant = move(@)]]
        /\ nodesIndices' = [r \in BlockRoots |-> moveUp(nodesIndices[r])]
        /\ result' = NoResult
        /\ UNCHANGED <<canonicalNodes, epochVars, voteVars, parentOf>>

Next ==
    \/ \E r, p \in BlockRoots, je, fe \in Epochs : ProcessBlock(r, p, je, fe)
    \/ \E v \in Validators, r \in BlockRoots, e \in TargetEpochs : ProcessAttestation(v, r, e)
    \/ \E je, fe \in Epochs, r \in BlockRoots, b \in BalanceVectors : FindHead(je, fe, r, b)
    \/ \E r \in BlockRoots : Prune(r)

Spec == Init /\ [][Next]_vars

-------------------------------------------------------------------------------

Positions == 0 .. Cardinality(BlockRoots)
Nodes == [root : BlockRoots, parent : Positions, je : Epochs, fe : Epochs, weight : Nat,
          bestChild : Positions, bestDescendant : Positions]

\* The state of the store is well formed.
TypeOK ==
    /\ Len(nodes) \in 1 .. Cardinality(BlockRoots)
    /\ \A i \in DOMAIN nodes : nodes[i] \in Nodes
    /\ nodesIndices \in [BlockRoots -> Positions]
    /\ justifiedEpoch \in Epochs /\ finalizedEpoch \in Epochs
    /\ justifiedRoot \in BlockRoots
    /\ canonicalNodes \subseteq BlockRoots
    /\ votes \in [Validators -> [current : BlockRoots \cup {ZeroHash},
                                 next : BlockRoots \cup {ZeroHash}, epoch : TargetEpochs \cup {0}]]
    /\ balances \in [Validators -> Nat]
    /\ counted \subseteq Validators
    /\ result \in BlockRoots \cup {NoResult, HeadError}

\* The index map and the links of the array (insert, prune) describe the tree
\* of the blocks inserted: no position is stale after a prune, parents come
\* before their children, a best child is a child, a best descendant is below.
LinksAreSound ==
    /\ \A r \in BlockRoots : nodesIndices[r] # NonExistentNode =>
           nodesIndices[r] \in DOMAIN nodes /\ nodes[nodesIndices[r]].root = r
    /\ \A i \in DOMAIN nodes :
           LET n == nodes[i]
           IN  /\ nodesIndices[n.root] = i
               /\ n.parent < i
               /\ n.parent = IndexOf(parentOf[n.root])
               /\ n.bestChild # NonExistentNode =>
                     n.bestChild \in DOMAIN nodes /\ nodes[n.bestChild].parent = i
               /\ n.bestDescendant # NonExistentNode =>
                     n.bestDescendant \in Subtree(nodes, i) \ {i}

\* After any run of votes, balance changes, insertions and prunes, the weight of
\* a node is the balance of the validators whose vote computeDeltas has counted
\* for a block of its subtree.
WeightIsCountedVotes ==
    \A i \in DOMAIN nodes :
        nodes[i].weight =
            SumOver(balances,
                {v \in counted : IndexOf(votes[v].current) \in Subtree(nodes, i)})

\* The head by its definition: from the justified block, always to the heaviest
\* child below which a block is viable.
Ghost ==
    LET viable(i) == ViableForHead(nodes[i], justifiedEpoch, finalizedEpoch)
        walk[k \in 0 .. Len(nodes)] ==
            IF k = 0 THEN IndexOf(justifiedRoot)
            ELSE LET i == walk[k - 1]
                     C == {c \in DOMAIN nodes : nodes[c].parent = i
                              /\ \E d \in Subtree(nodes, c) : viable(d)}
                 IN  IF C = {} THEN i
                     ELSE CHOOSE c \in C : \A d \in C :
                            \/ nodes[c].weight > nodes[d].weight
                            \/ nodes[c].weight = nodes[d].weight
                                  /\ nodes[c].root >= nodes[d].root
        h == walk[Len(nodes)]
    IN  IF viable(h) THEN nodes[h].root ELSE HeadError

\* What Head returns is what the definition of the fork choice returns.
HeadIsGhost == result # NoResult => result = Ghost

\* The head and all of its ancestors are canonical: the early exit of
\* updateCanonicalNodes skips none.
HeadChainIsCanonical ==
    result \in BlockRoots =>
        {nodes[i].root : i \in Ancestors(nodes, IndexOf(result))} \subseteq canonicalNodes
===============================================================================
