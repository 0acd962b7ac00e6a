--------------------------- MODULE ForkChoiceProofs ---------------------------
(* The fork choice store keeps its types, its links sound, its canonical       *)
(* blocks the chain of the head and, while attestations are for blocks it      *)
(* has, its weights the balances of the counted votes: for any tree of blocks, *)
(* any validators, balances, epochs and prune threshold.                       *)
EXTENDS ForkTreeProofs

-------------------------------------------------------------------------------
(* The fork choice store: the inductive invariant *)

\* The index map is the inverse of the roots, and parents are those of the blocks.
Indexed ==
    /\ nodesIndices \in [BlockRoots -> Positions]
    /\ \A r \in BlockRoots : nodesIndices[r] # 0 =>
          nodesIndices[r] \in 1 .. Len(nodes) /\ nodes[nodesIndices[r]].root = r
    /\ \A i \in 1 .. Len(nodes) :
          /\ nodesIndices[nodes[i].root] = i
          /\ nodes[i].root \in DOMAIN parentOf
          /\ nodes[i].parent = IndexOf(parentOf[nodes[i].root])

\* The blocks inserted so far, parents first.
Inserted ==
    /\ DOMAIN parentOf \subseteq BlockRoots
    /\ \A r \in DOMAIN parentOf : parentOf[r] \in DOMAIN parentOf \cup {ZeroHash}

ArrayInv == Tree(nodes) /\ Links(nodes) /\ Len(nodes) # 0 /\ Indexed /\ Inserted

\* The canonical blocks have canonical parents, as far as the array goes.
CanonicalInv ==
    /\ canonicalNodes \subseteq DOMAIN parentOf
    /\ \A i \in 1 .. Len(nodes) :
          nodes[i].root \in canonicalNodes /\ nodes[i].parent # 0 =>
             nodes[nodes[i].parent].root \in canonicalNodes
    /\ result \in BlockRoots => nodesIndices[result] # 0 /\ result \in canonicalNodes

\* The variables that are not part of the array.
CallerInv ==
    /\ justifiedEpoch \in Epochs /\ finalizedEpoch \in Epochs
    /\ justifiedRoot \in BlockRoots
    /\ votes \in [Validators -> [current : BlockRoots \cup {ZeroHash},
                                 next : BlockRoots \cup {ZeroHash}, epoch : TargetEpochs \cup {0}]]
    /\ balances \in [Validators -> Nat]
    /\ counted \subseteq Validators
    /\ result \in BlockRoots \cup {NoResult, HeadError}

StoreInv == ArrayInv /\ CanonicalInv /\ CallerInv

\* A block that was never inserted fits into the array.
LEMMA RoomForBlock ==
  ASSUME ArrayInv, NEW root \in BlockRoots, root \notin DOMAIN parentOf
  PROVE  Len(nodes) + 1 <= Cardinality(BlockRoots)
<1>. DEFINE S == 1 .. Len(nodes)
            R == BlockRoots \ {root}
            f == [i \in S |-> nodes[i].root]
<1>1. Len(nodes) \in Nat /\ \A i \in S : nodes[i].root \in BlockRoots
  BY TreeFacts DEF ArrayInv, Nodes
<1>2. f \in Injection(S, R)
  <2>1. f \in [S -> R]
    BY <1>1 DEF ArrayInv, Indexed
  <2>2. \A i, j \in S : f[i] = f[j] => i = j
    BY DEF ArrayInv, Indexed
  <2>. HIDE DEF f, R, S
  <2>. QED
    BY <2>1, <2>2 DEF Injection, IsInjective
<1>3. IsFiniteSet(R) /\ Cardinality(R) = Cardinality(BlockRoots) - 1 /\ Cardinality(BlockRoots) \in Nat
  BY RootsAssumption, FS_RemoveElement, FS_CardinalityType
<1>4. Cardinality(S) = Len(nodes)
  <2>1. Cardinality(S) = IF 1 > Len(nodes) THEN 0 ELSE Len(nodes) - 1 + 1
    BY <1>1, FS_Interval
  <2>. HIDE DEF S
  <2>. QED
    BY <1>1, <2>1
<1>5. Cardinality(S) <= Cardinality(R)
  <2>. HIDE DEF f, R, S
  <2>. QED
    BY <1>2, <1>3, FS_Injection
<1>. HIDE DEF R, S
<1>. QED
  BY <1>1, <1>3, <1>4, <1>5

\* The array ms is ns and a new last node, a child of node p.
GrownBy(ns, ms, root, p) ==
    /\ Len(ms) = Len(ns) + 1
    /\ ms[Len(ms)].root = root /\ ms[Len(ms)].parent = p /\ ms[Len(ms)].weight = 0
    /\ \A i \in 1 .. Len(ns) :
          /\ ms[i].root = ns[i].root /\ ms[i].parent = ns[i].parent
          /\ ms[i].weight = ns[i].weight
    /\ \A i : \A j \in 1 .. Len(ns) : j \in Subtree(ms, i) <=> j \in Subtree(ns, i)

\* What insert makes of the array.
LEMMA InsertFacts ==
  ASSUME ArrayInv, NEW root \in BlockRoots, root \notin DOMAIN parentOf,
         NEW p \in 1 .. Len(nodes), NEW je \in Epochs, NEW fe \in Epochs, NEW n, n = Len(nodes) + 1,
         NEW ms, NEW a, NEW b,
         ms = UpdateBestChildAndDescendant(Append(nodes, NewNode(root, p, je, fe)), p, n, a, b)
  PROVE  /\ Tree(ms) /\ Links(ms) /\ n \in 1 .. Cardinality(BlockRoots)
         /\ GrownBy(nodes, ms, root, p)
<1>. DEFINE new == NewNode(root, p, je, fe)
            ns == Append(nodes, new)
<1>0. /\ Len(nodes) \in Nat /\ n \in Nat /\ n <= Cardinality(BlockRoots)
      /\ Cardinality(BlockRoots) \in Nat
      /\ nodes \in Seq(Nodes) /\ Tree(nodes) /\ Links(nodes)
      /\ \A i \in 1 .. Len(nodes) : nodes[i].parent \in Nat /\ nodes[i].parent < i
  BY TreeFacts, RoomForBlock, RootsAssumption, FS_CardinalityType DEF ArrayInv, Tree
<1>1. /\ new \in Nodes /\ new.root = root /\ new.parent = p /\ new.weight = 0
      /\ new.bestChild = 0 /\ new.bestDescendant = 0
  <2>1. p \in Positions /\ 0 \in Positions
    BY <1>0 DEF Positions
  <2>. QED
    BY <2>1 DEF NewNode, Nodes, NonExistentNode
<1>. HIDE DEF new
<1>2. /\ ns \in Seq(Nodes) /\ Len(ns) = n /\ ns[n] = new
      /\ \A i \in 1 .. Len(nodes) : ns[i] = nodes[i]
  BY <1>0, <1>1
<1>. HIDE DEF ns
<1>3. Tree(ns)
  <2>1. ASSUME NEW j \in 1 .. n PROVE ns[j].parent < j
    <3>1. CASE j = n
      BY <1>0, <1>1, <1>2, <3>1
    <3>2. CASE j # n
      <4>1. j \in 1 .. Len(nodes)
        BY <1>0, <3>2
      <4>. QED
        BY <1>0, <1>2, <4>1
    <3>. QED
      BY <3>1, <3>2
  <2>. QED
    BY <1>0, <1>2, <2>1 DEF Tree
<1>4. \A i : \A j \in 1 .. Len(nodes) : j \in Subtree(ns, i) <=> j \in Subtree(nodes, i)
  <2>1. Len(nodes) <= Len(ns) /\ \A j \in 1 .. Len(nodes) : ns[j].parent = nodes[j].parent
    BY <1>0, <1>2
  <2>. QED
    BY <1>0, <1>3, <2>1, SubtreeSame
<1>5. Links(ns)
  <2>. SUFFICES ASSUME NEW i \in 1 .. n
                PROVE  /\ ns[i].bestChild # 0 =>
                            ns[i].bestChild \in 1 .. n /\ ns[ns[i].bestChild].parent = i
                       /\ ns[i].bestDescendant # 0 => ns[i].bestDescendant \in Subtree(ns, i) \ {i}
    BY <1>2 DEF Links
  <2>1. CASE i = n
    BY <1>1, <1>2, <2>1
  <2>2. CASE i # n
    <3>1. i \in 1 .. Len(nodes) /\ ns[i] = nodes[i]
      BY <1>0, <1>2, <2>2
    <3>2. nodes[i].bestChild # 0 =>
             nodes[i].bestChild \in 1 .. Len(nodes) /\ nodes[nodes[i].bestChild].parent = i
      BY <1>0, <3>1 DEF Links
    <3>3. nodes[i].bestDescendant # 0 =>
             /\ nodes[i].bestDescendant \in Subtree(nodes, i) \ {i}
             /\ nodes[i].bestDescendant \in 1 .. Len(nodes)
      BY <1>0, <3>1, SubtreeDef DEF Links
    <3>4. 1 .. Len(nodes) \subseteq 1 .. n
      BY <1>0
    <3>. QED
      BY <1>2, <1>4, <3>1, <3>2, <3>3, <3>4
  <2>. QED
    BY <2>1, <2>2
<1>6. Tree(ms) /\ Links(ms) /\ SameBlocks(ms, ns) /\ SameWeights(ms, ns)
  <2>1. n \in 1 .. Len(ns) /\ p = ns[n].parent /\ p # 0
    BY <1>0, <1>1, <1>2
  <2>2. ms = UpdateBestChildAndDescendant(ns, p, n, a, b)
    BY DEF ns, new
  <2>. QED
    BY <1>3, <1>5, <2>1, <2>2, UpdateKeeps
<1>7. \A i : Subtree(ms, i) = Subtree(ns, i)
  BY <1>3, <1>6, SameBlocksTree
<1>8. n \in 1 .. n /\ \A i \in 1 .. Len(nodes) : i \in 1 .. n
  BY <1>0
<1>9. n \in 1 .. Cardinality(BlockRoots)
  BY <1>0
<1>10. /\ Len(ms) = n
       /\ \A i \in 1 .. n : /\ ms[i].root = ns[i].root /\ ms[i].parent = ns[i].parent
                            /\ ms[i].weight = ns[i].weight
  BY <1>2, <1>6 DEF SameBlocks, SameWeights
<1>11. \A i : \A j \in 1 .. Len(nodes) : j \in Subtree(ms, i) <=> j \in Subtree(nodes, i)
  BY <1>4, <1>7
<1>12. GrownBy(nodes, ms, root, p)
  BY <1>1, <1>2, <1>8, <1>10, <1>11 DEF GrownBy
<1>. QED
  BY <1>6, <1>9, <1>12

\* A node that prune keeps, when f is the first.
Moved(f, nd) ==
    [nd EXCEPT !.parent = IF @ < f THEN 0 ELSE @ - f + 1,
               !.bestChild = IF @ = 0 THEN 0 ELSE @ - f + 1,
               !.bestDescendant = IF @ = 0 THEN 0 ELSE @ - f + 1]

\* The fields of such a node.
LEMMA MovedFacts ==
  ASSUME NEW nd \in Nodes, NEW f \in Nat \ {0}, NEW n \in Nat, n <= Cardinality(BlockRoots),
         nd.parent <= n, nd.bestChild <= n, nd.bestDescendant <= n,
         nd.bestChild # 0 => nd.bestChild > f, nd.bestDescendant # 0 => nd.bestDescendant > f
  PROVE  /\ Moved(f, nd) \in Nodes
         /\ Moved(f, nd).root = nd.root /\ Moved(f, nd).weight = nd.weight
         /\ Moved(f, nd).parent = IF nd.parent < f THEN 0 ELSE nd.parent - f + 1
         /\ Moved(f, nd).bestChild = IF nd.bestChild = 0 THEN 0 ELSE nd.bestChild - f + 1
         /\ Moved(f, nd).bestDescendant =
               IF nd.bestDescendant = 0 THEN 0 ELSE nd.bestDescendant - f + 1
<1>. DEFINE u == IF nd.parent < f THEN 0 ELSE nd.parent - f + 1
            v == IF nd.bestChild = 0 THEN 0 ELSE nd.bestChild - f + 1
            w == IF nd.bestDescendant = 0 THEN 0 ELSE nd.bestDescendant - f + 1
<1>0. Cardinality(BlockRoots) \in Nat
  BY RootsAssumption, FS_CardinalityType
<1>1. nd.parent \in Nat /\ nd.bestChild \in Nat /\ nd.bestDescendant \in Nat
  <2>1. nd.parent \in Positions /\ nd.bestChild \in Positions /\ nd.bestDescendant \in Positions
    BY DEF Nodes
  <2>. QED
    BY <1>0, <2>1 DEF Positions
<1>2. u \in Positions /\ v \in Positions /\ w \in Positions
  BY <1>0, <1>1 DEF Positions
<1>3. Moved(f, nd) = [nd EXCEPT !.parent = u, !.bestChild = v, !.bestDescendant = w]
  BY DEF Moved
<1>. HIDE DEF u, v, w
<1>4. /\ Moved(f, nd) \in Nodes
      /\ Moved(f, nd).root = nd.root /\ Moved(f, nd).weight = nd.weight
      /\ Moved(f, nd).parent = u /\ Moved(f, nd).bestChild = v /\ Moved(f, nd).bestDescendant = w
  BY <1>2, <1>3, Zenon DEF Nodes
<1>. QED
  BY <1>4 DEF u, v, w

\* The nodes that prune keeps.
Kept(f) == [i \in 1 .. Len(nodes) - f + 1 |-> Moved(f, nodes[i + f - 1])]

\* The array ms is ns from position f on: node k has become node k - f + 1.
CutBefore(ns, ms, f) ==
    /\ \A i \in 1 .. Len(ms), k \in 1 .. Len(ns) : k = i + f - 1 =>
          /\ ms[i].root = ns[k].root /\ ms[i].weight = ns[k].weight
          /\ ms[i].parent = IF ns[k].parent < f THEN 0 ELSE ns[k].parent - f + 1
    /\ \A i, l \in 1 .. Len(ms), k, m \in 1 .. Len(ns) : k = i + f - 1 /\ m = l + f - 1 =>
          (l \in Subtree(ms, i) <=> m \in Subtree(ns, k))

\* What prune makes of the array.
LEMMA PruneFacts ==
  ASSUME ArrayInv, NEW f \in 1 .. Len(nodes), NEW n, n = Len(nodes) - f + 1, NEW ms,
         ms = Kept(f)
  PROVE  /\ Tree(ms) /\ Links(ms) /\ Len(ms) = n /\ n \in 1 .. Len(nodes)
         /\ CutBefore(nodes, ms, f)
<1>. DEFINE old(i) == nodes[i + f - 1]
<1>0. /\ Len(nodes) \in Nat /\ Len(nodes) <= Cardinality(BlockRoots)
      /\ Cardinality(BlockRoots) \in Nat
      /\ nodes \in Seq(Nodes) /\ Tree(nodes) /\ Links(nodes)
      /\ \A i \in 1 .. Len(nodes) : /\ nodes[i] \in Nodes
                                    /\ nodes[i].parent \in Nat /\ nodes[i].parent < i
  BY TreeFacts, RootsAssumption, FS_CardinalityType DEF ArrayInv, Tree
<1>1. n \in Nat /\ n \in 1 .. Len(nodes) /\ f \in Nat \ {0}
  BY <1>0
<1>2. ASSUME NEW i \in 1 .. n
      PROVE  /\ i + f - 1 \in 1 .. Len(nodes) /\ i + f - 1 >= f
             /\ old(i) \in Nodes /\ old(i).parent \in Nat /\ old(i).parent < i + f - 1
  <2>1. i + f - 1 \in 1 .. Len(nodes) /\ i + f - 1 >= f
    BY <1>0, <1>1
  <2>. QED
    BY <1>0, <2>1
<1>3. ASSUME NEW i \in 1 .. n
      PROVE  /\ old(i).bestChild # 0 =>
                   /\ old(i).bestChild \in i + f .. Len(nodes)
                   /\ nodes[old(i).bestChild].parent = i + f - 1
             /\ old(i).bestDescendant # 0 =>
                   /\ old(i).bestDescendant \in i + f .. Len(nodes)
                   /\ old(i).bestDescendant \in Subtree(nodes, i + f - 1)
  <2>. DEFINE k == i + f - 1
  <2>1. k \in 1 .. Len(nodes) /\ k + 1 = i + f
    BY <1>1, <1>2
  <2>2. Subtree(nodes, k) \subseteq k .. Len(nodes)
    BY <1>0, <2>1, SubtreeFacts
  <2>. HIDE DEF k
  <2>3. /\ nodes[k].bestChild # 0 =>
              nodes[k].bestChild \in 1 .. Len(nodes) /\ nodes[nodes[k].bestChild].parent = k
        /\ nodes[k].bestDescendant # 0 => nodes[k].bestDescendant \in Subtree(nodes, k) \ {k}
    BY <1>0, <2>1 DEF Links
  <2>4. nodes[k].bestChild # 0 => nodes[k].bestChild \in k + 1 .. Len(nodes)
    BY <1>0, <2>1, <2>3
  <2>5. nodes[k].bestDescendant # 0 => nodes[k].bestDescendant \in k + 1 .. Len(nodes)
    BY <1>0, <2>1, <2>2, <2>3
  <2>6. old(i) = nodes[k]
    BY DEF k
  <2>. HIDE DEF old
  <2>7. i + f - 1 = k
    BY DEF k
  <2>. QED
    BY <2>1, <2>3, <2>4, <2>5, <2>6, <2>7
<1>4. ASSUME NEW i \in 1 .. n
      PROVE  LET node == Moved(f, old(i))
             IN  /\ node \in Nodes /\ node.root = old(i).root /\ node.weight = old(i).weight
                 /\ node.parent = IF old(i).parent < f THEN 0 ELSE old(i).parent - f + 1
                 /\ node.bestChild = IF old(i).bestChild = 0 THEN 0 ELSE old(i).bestChild - f + 1
                 /\ node.bestDescendant =
                       IF old(i).bestDescendant = 0 THEN 0 ELSE old(i).bestDescendant - f + 1
  <2>1. /\ i + f - 1 \in 1 .. Len(nodes) /\ i + f > f
        /\ old(i) \in Nodes /\ old(i).parent \in Nat /\ old(i).parent < i + f - 1
        /\ old(i).bestChild # 0 => old(i).bestChild \in i + f .. Len(nodes)
        /\ old(i).bestDescendant # 0 => old(i).bestDescendant \in i + f .. Len(nodes)
    <3>1. i + f > f
      BY <1>1
    <3>. HIDE DEF old
    <3>. QED
      BY <1>2, <1>3, <3>1
  <2>. HIDE DEF old
  <2>2. /\ old(i).parent <= Len(nodes) /\ old(i).bestChild <= Len(nodes)
        /\ old(i).bestDescendant <= Len(nodes)
        /\ old(i).bestChild # 0 => old(i).bestChild > f
        /\ old(i).bestDescendant # 0 => old(i).bestDescendant > f
    BY <1>0, <1>1, <2>1
  <2>. QED
    BY <1>0, <1>1, <2>1, <2>2, MovedFacts
<1>5. ms = [i \in 1 .. n |-> Moved(f, old(i))] /\ \A i \in 1 .. n : ms[i] = Moved(f, old(i))
  BY DEF Kept
<1>6. ms \in Seq(Nodes) /\ Len(ms) = n
  <2>1. ms \in [1 .. n -> Nodes]
    <3>1. \A i \in 1 .. n : Moved(f, old(i)) \in Nodes
      BY <1>4
    <3>. HIDE DEF old
    <3>. QED
      BY <1>5, <3>1
  <2>. QED
    BY <1>1, <2>1
<1>7. ASSUME NEW i \in 1 .. n
      PROVE  /\ ms[i].root = old(i).root /\ ms[i].weight = old(i).weight
             /\ ms[i].parent = IF old(i).parent < f THEN 0 ELSE old(i).parent - f + 1
             /\ ms[i].bestChild = IF old(i).bestChild = 0 THEN 0 ELSE old(i).bestChild - f + 1
             /\ ms[i].bestDescendant =
                   IF old(i).bestDescendant = 0 THEN 0 ELSE old(i).bestDescendant - f + 1
  <2>. HIDE DEF old
  <2>. QED
    BY <1>4, <1>5
<1>8. Tree(ms)
  <2>1. ASSUME NEW i \in 1 .. n PROVE ms[i].parent < i
    <3>1. /\ old(i).parent \in Nat /\ old(i).parent < i + f - 1
          /\ ms[i].parent = IF old(i).parent < f THEN 0 ELSE old(i).parent - f + 1
      BY <1>2, <1>7, Zenon
    <3>. HIDE DEF old
    <3>. QED
      BY <1>1, <3>1
  <2>2. Len(ms) <= Cardinality(BlockRoots)
    BY <1>0, <1>1, <1>6
  <2>. QED
    BY <1>6, <2>1, <2>2 DEF Tree
<1>9. ASSUME NEW i \in 1 .. n, NEW l \in 1 .. n
      PROVE  l \in Subtree(ms, i) <=> l + f - 1 \in Subtree(nodes, i + f - 1)
  <2>1. \A j \in 1 .. Len(ms) : ms[j].parent = IF nodes[j + f - 1].parent < f THEN 0
                                               ELSE nodes[j + f - 1].parent - f + 1
    BY <1>6, <1>7
  <2>2. i \in 1 .. Len(ms) /\ l \in 1 .. Len(ms) /\ Len(ms) = Len(nodes) - f + 1
    BY <1>6
  <2>. QED
    BY <1>0, <1>8, <2>1, <2>2, SubtreeShift, Zenon
<1>10. Links(ms)
  <2>. SUFFICES ASSUME NEW i \in 1 .. n
                PROVE  /\ ms[i].bestChild # 0 =>
                            ms[i].bestChild \in 1 .. n /\ ms[ms[i].bestChild].parent = i
                       /\ ms[i].bestDescendant # 0 => ms[i].bestDescendant \in Subtree(ms, i) \ {i}
    BY <1>6 DEF Links
  <2>. DEFINE c == old(i).bestChild
              d == old(i).bestDescendant
  <2>1. /\ ms[i].bestChild = (IF c = 0 THEN 0 ELSE c - f + 1)
        /\ ms[i].bestDescendant = (IF d = 0 THEN 0 ELSE d - f + 1)
        /\ c # 0 => c \in i + f .. Len(nodes) /\ nodes[c].parent = i + f - 1
        /\ d # 0 => d \in i + f .. Len(nodes) /\ d \in Subtree(nodes, i + f - 1)
    BY <1>3, <1>7
  <2>. HIDE DEF c, d
  <2>2. ASSUME ms[i].bestChild # 0
        PROVE  ms[i].bestChild \in 1 .. n /\ ms[ms[i].bestChild].parent = i
    <3>. DEFINE k == c - f + 1
    <3>1. c # 0 /\ ms[i].bestChild = k /\ k \in 1 .. n /\ k + f - 1 = c
      <4>1. c # 0 /\ ms[i].bestChild = k /\ c \in i + f .. Len(nodes)
        BY <2>1, <2>2
      <4>2. Len(nodes) \in Nat /\ c \in Nat /\ c >= i + f /\ c <= Len(nodes)
        BY <1>0, <1>1, <4>1
      <4>3. k \in 1 .. n /\ k + f - 1 = c
        BY <1>1, <4>2
      <4>. QED
        BY <4>1, <4>3
    <3>. HIDE DEF k
    <3>2. old(k).parent = i + f - 1
      BY <2>1, <3>1
    <3>3. ms[k].parent = IF old(k).parent < f THEN 0 ELSE old(k).parent - f + 1
      BY <1>7, <3>1
    <3>. HIDE DEF old
    <3>4. ms[k].parent = i
      BY <1>1, <3>2, <3>3
    <3>. QED
      BY <3>1, <3>4
  <2>3. ASSUME ms[i].bestDescendant # 0
        PROVE  ms[i].bestDescendant \in Subtree(ms, i) \ {i}
    <3>. DEFINE k == d - f + 1
    <3>1. d # 0 /\ ms[i].bestDescendant = k /\ k \in 1 .. n /\ k + f - 1 = d /\ k # i
      <4>1. d # 0 /\ ms[i].bestDescendant = k /\ d \in i + f .. Len(nodes)
        BY <2>1, <2>3
      <4>2. Len(nodes) \in Nat /\ d \in Nat /\ d >= i + f /\ d <= Len(nodes)
        BY <1>0, <1>1, <4>1
      <4>3. k \in 1 .. n /\ k + f - 1 = d /\ k # i
        BY <1>1, <4>2
      <4>. QED
        BY <4>1, <4>3
    <3>. HIDE DEF k
    <3>. QED
      BY <1>9, <2>1, <3>1
  <2>. QED
    BY <2>2, <2>3
<1>11. CutBefore(nodes, ms, f)
  BY <1>6, <1>7, <1>9 DEF CutBefore
<1>. QED
  BY <1>1, <1>6, <1>8, <1>10, <1>11

-------------------------------------------------------------------------------
(* The array and the canonical blocks, step by step *)

\* The initial store.
LEMMA StoreInit ==
  ASSUME Init
  PROVE  StoreInv
<1>. DEFINE g == NewNode(Genesis, NonExistentNode, 0, 0)
<1>0. Cardinality(BlockRoots) \in Nat /\ Cardinality(BlockRoots) # 0 /\ Genesis \in BlockRoots
  BY RootsAssumption, FS_CardinalityType, FS_EmptySet
<1>1. 0 \in Positions /\ 1 \in Positions
  BY <1>0 DEF Positions
<1>2. /\ g \in Nodes /\ g.root = Genesis /\ g.parent = 0
      /\ g.bestChild = 0 /\ g.bestDescendant = 0
  BY <1>0, <1>1, EpochsAssumption DEF NewNode, Nodes, NonExistentNode
<1>3. nodes = <<g>> /\ parentOf = [r \in {Genesis} |-> 0]
  BY DEF Init, ZeroHash
<1>. HIDE DEF g
<1>4. nodes \in Seq(Nodes) /\ Len(nodes) = 1 /\ nodes[1] = g
  BY <1>2, <1>3
<1>5. \A i \in 1 .. Len(nodes) : i = 1
  BY <1>4
<1>6. Tree(nodes) /\ Links(nodes)
  BY <1>0, <1>2, <1>4, <1>5 DEF Tree, Links
<1>7. DOMAIN parentOf = {Genesis} /\ parentOf[Genesis] = 0
  BY <1>3
<1>8. Indexed
  <2>1. nodesIndices = [r \in BlockRoots |-> IF r = Genesis THEN 1 ELSE 0]
    BY DEF Init, NonExistentNode
  <2>. QED
    BY <1>0, <1>1, <1>2, <1>4, <1>5, <1>7, <2>1 DEF Indexed, IndexOf, ZeroHash, NonExistentNode
<1>9. Inserted
  BY <1>0, <1>7 DEF Inserted, ZeroHash
<1>10. CanonicalInv
  BY RootsAssumption DEF CanonicalInv, Init, NoResult
<1>11. CallerInv
  BY <1>0, EpochsAssumption DEF CallerInv, Init, NewVote, ZeroHash, NoResult
<1>. QED
  BY <1>4, <1>6, <1>8, <1>9, <1>10, <1>11 DEF StoreInv, ArrayInv

\* insert keeps the invariant.
LEMMA StoreProcessBlock ==
  ASSUME StoreInv, NEW root \in BlockRoots, NEW parent \in BlockRoots,
         NEW je \in Epochs, NEW fe \in Epochs, ProcessBlock(root, parent, je, fe)
  PROVE  StoreInv'
<1>. DEFINE p == IndexOf(parent)
            n == Len(nodes) + 1
<1>0. /\ ArrayInv /\ Tree(nodes) /\ Indexed /\ Inserted /\ CanonicalInv /\ CallerInv
      /\ parent # 0 /\ Len(nodes) \in Nat
  BY TreeFacts, RootsAssumption DEF StoreInv, ArrayInv
<1>1. /\ root \notin DOMAIN parentOf /\ p \in 1 .. Len(nodes) /\ p = nodesIndices[parent]
      /\ nodes' = UpdateBestChildAndDescendant(Append(nodes, NewNode(root, p, je, fe)), p, n,
                                               justifiedEpoch, finalizedEpoch)
      /\ nodesIndices' = [nodesIndices EXCEPT ![root] = n]
      /\ parentOf' = [r \in DOMAIN parentOf \cup {root} |->
                         IF r = root THEN parent ELSE parentOf[r]]
      /\ result' = NoResult
      /\ canonicalNodes' = canonicalNodes /\ justifiedEpoch' = justifiedEpoch
      /\ finalizedEpoch' = finalizedEpoch /\ justifiedRoot' = justifiedRoot
      /\ votes' = votes /\ balances' = balances /\ counted' = counted
  BY <1>0, SubtreeDef DEF ProcessBlock, epochVars, voteVars, IndexOf, ZeroHash
<1>. HIDE DEF p
<1>2. /\ Tree(nodes') /\ Links(nodes') /\ Len(nodes') = n /\ n \in 1 .. Cardinality(BlockRoots)
      /\ nodes'[n].root = root /\ nodes'[n].parent = p
      /\ \A i \in 1 .. Len(nodes) :
            nodes'[i].root = nodes[i].root /\ nodes'[i].parent = nodes[i].parent
  <2>1. /\ Tree(nodes') /\ Links(nodes') /\ n \in 1 .. Cardinality(BlockRoots)
        /\ GrownBy(nodes, nodes', root, p)
    BY <1>0, <1>1, InsertFacts
  <2>. QED
    BY <2>1 DEF GrownBy
<1>3. /\ n \in Nat /\ n # 0 /\ n \notin 1 .. Len(nodes) /\ n \in 1 .. n /\ n \in Positions
      /\ \A i \in 1 .. n : i = n \/ i \in 1 .. Len(nodes)
      /\ \A i \in 1 .. Len(nodes) : i \in 1 .. n
  BY <1>0, <1>2, RootsAssumption, FS_CardinalityType DEF Positions
<1>. HIDE DEF n
<1>4. \A i \in 1 .. Len(nodes) : /\ nodes[i].root \in DOMAIN parentOf /\ nodes[i].root # root
                                 /\ nodes[i].root \in BlockRoots
  BY <1>0, <1>1 DEF Indexed, Inserted
<1>5. nodesIndices[root] = 0
  BY <1>0, <1>1, <1>4 DEF Indexed
<1>6. /\ DOMAIN parentOf' = DOMAIN parentOf \cup {root} /\ parentOf'[root] = parent
      /\ \A r \in DOMAIN parentOf : parentOf'[r] = parentOf[r]
  BY <1>1
<1>7. /\ nodesIndices' \in [BlockRoots -> Positions] /\ nodesIndices'[root] = n
      /\ \A r \in BlockRoots : r # root => nodesIndices'[r] = nodesIndices[r]
  BY <1>0, <1>1, <1>3 DEF Indexed
<1>8. parent # root
  BY <1>1, <1>5
<1>9. Inserted' /\ parent \in DOMAIN parentOf
  <2>1. parent \in DOMAIN parentOf
    BY <1>0, <1>1 DEF Indexed
  <2>. QED
    BY <1>0, <1>6, <2>1 DEF Inserted
<1>10. Indexed'
  <2>. DEFINE new(x) == IF x = 0 THEN 0 ELSE nodesIndices'[x]
  <2>1. ASSUME NEW r \in BlockRoots, nodesIndices'[r] # 0
        PROVE  nodesIndices'[r] \in 1 .. Len(nodes') /\ nodes'[nodesIndices'[r]].root = r
    <3>1. CASE r = root
      BY <1>2, <1>3, <1>7, <3>1
    <3>2. CASE r # root
      <4>1. nodesIndices'[r] = nodesIndices[r] /\ nodesIndices[r] \in 1 .. Len(nodes)
        BY <1>0, <1>7, <2>1, <3>2 DEF Indexed
      <4>. QED
        BY <1>0, <1>2, <1>3, <2>1, <4>1 DEF Indexed
    <3>. QED
      BY <3>1, <3>2
  <2>2. ASSUME NEW i \in 1 .. n
        PROVE  /\ nodesIndices'[nodes'[i].root] = i
               /\ nodes'[i].root \in DOMAIN parentOf'
               /\ nodes'[i].parent = new(parentOf'[nodes'[i].root])
    <3>1. CASE i = n
      BY <1>0, <1>1, <1>2, <1>6, <1>7, <1>8, <3>1
    <3>2. CASE i # n
      <4>1. i \in 1 .. Len(nodes)
        BY <1>3, <3>2
      <4>2. /\ nodes'[i].root = nodes[i].root /\ nodes'[i].parent = nodes[i].parent
            /\ nodes[i].root \in DOMAIN parentOf /\ nodes[i].root # root
            /\ nodes[i].root \in BlockRoots
        BY <1>2, <1>4, <4>1
      <4>3. /\ nodesIndices[nodes[i].root] = i
            /\ nodes[i].parent = IndexOf(parentOf[nodes[i].root])
        BY <1>0, <4>1 DEF Indexed
      <4>4. /\ parentOf'[nodes[i].root] = parentOf[nodes[i].root]
            /\ parentOf[nodes[i].root] \in DOMAIN parentOf \cup {ZeroHash}
            /\ parentOf[nodes[i].root] \in BlockRoots \cup {ZeroHash}
        BY <1>0, <1>6, <4>2 DEF Inserted
      <4>5. parentOf[nodes[i].root] # root
        BY <1>1, <4>4, RootsAssumption DEF ZeroHash
      <4>. QED
        BY <1>6, <1>7, <3>2, <4>2, <4>3, <4>4, <4>5 DEF IndexOf, ZeroHash, NonExistentNode
    <3>. QED
      BY <3>1, <3>2
  <2>. QED
    BY <1>2, <1>7, <2>1, <2>2 DEF Indexed, IndexOf, ZeroHash, NonExistentNode
<1>11. CanonicalInv'
  <2>1. ASSUME NEW i \in 1 .. n, nodes'[i].root \in canonicalNodes, nodes'[i].parent # 0
        PROVE  nodes'[nodes'[i].parent].root \in canonicalNodes
    <3>1. i \in 1 .. Len(nodes)
      BY <1>0, <1>1, <1>2, <1>3, <2>1 DEF CanonicalInv
    <3>2. nodes[i].parent \in 1 .. Len(nodes)
      BY <1>0, <1>2, <2>1, <3>1, TreeFacts
    <3>. QED
      BY <1>0, <1>2, <2>1, <3>1, <3>2 DEF CanonicalInv
  <2>2. result' \notin BlockRoots
    BY <1>1, RootsAssumption DEF NoResult
  <2>. QED
    BY <1>0, <1>1, <1>2, <1>6, <2>1, <2>2, Zenon DEF CanonicalInv
<1>12. CallerInv'
  BY <1>0, <1>1 DEF CallerInv
<1>. QED
  BY <1>2, <1>3, <1>9, <1>10, <1>11, <1>12 DEF StoreInv, ArrayInv

\* So does an attestation.
LEMMA StoreProcessAttestation ==
  ASSUME StoreInv, NEW v \in Validators, NEW root \in BlockRoots, NEW e \in TargetEpochs,
         ProcessAttestation(v, root, e)
  PROVE  StoreInv'
<1>1. /\ nodes' = nodes /\ nodesIndices' = nodesIndices /\ canonicalNodes' = canonicalNodes
      /\ justifiedEpoch' = justifiedEpoch /\ finalizedEpoch' = finalizedEpoch
      /\ justifiedRoot' = justifiedRoot /\ parentOf' = parentOf
      /\ balances' = balances /\ counted' = counted /\ result' = NoResult
      /\ votes' = [votes EXCEPT ![v].next = root, ![v].epoch = e]
  BY DEF ProcessAttestation, storeVars, epochVars
<1>2. result' \notin BlockRoots
  BY <1>1, RootsAssumption DEF NoResult
<1>3. ArrayInv'
  BY <1>1 DEF StoreInv, ArrayInv, Tree, Links, Indexed, Inserted, IndexOf
<1>4. CanonicalInv'
  BY <1>1, <1>2 DEF StoreInv, CanonicalInv
<1>5. CallerInv'
  BY <1>1, Zenon DEF StoreInv, CallerInv
<1>. QED
  BY <1>3, <1>4, <1>5 DEF StoreInv

\* prune in closed form.
LEMMA PruneArray ==
  ASSUME ArrayInv, NEW root \in BlockRoots, Prune(root), NEW f, f = IndexOf(root)
  PROVE  /\ f \in 1 .. Len(nodes) /\ nodes' = Kept(f)
         /\ nodesIndices' = [r \in BlockRoots |->
               IF nodesIndices[r] < f THEN 0 ELSE nodesIndices[r] - f + 1]
<1>. DEFINE n == Len(nodes) - f + 1
<1>0. Tree(nodes) /\ Len(nodes) \in Nat /\ DOMAIN nodes = 1 .. Len(nodes)
  BY TreeFacts DEF ArrayInv
<1>1. f \in 1 .. Len(nodes)
  BY <1>0, Zenon DEF Prune, Ancestors
<1>2. \A i \in Int : (IF i < f THEN 0 ELSE IF i = 0 THEN 0 ELSE i - f + 1)
                        = (IF i < f THEN 0 ELSE i - f + 1)
  BY <1>0, <1>1
<1>3. \A i \in 1 .. n : nodes[i + f - 1].parent \in Int
  <2>1. \A i \in 1 .. n : i + f - 1 \in 1 .. Len(nodes)
    BY <1>0, <1>1
  <2>. QED
    BY <1>0, <2>1, TreeFacts
<1>4. nodes' = [i \in 1 .. n |->
         [nodes[i + f - 1] EXCEPT
            !.parent = IF @ < f THEN 0 ELSE IF @ = 0 THEN 0 ELSE @ - f + 1,
            !.bestChild = IF @ = 0 THEN 0 ELSE @ - f + 1,
            !.bestDescendant = IF @ = 0 THEN 0 ELSE @ - f + 1]]
  BY Zenon DEF Prune, NonExistentNode
<1>5. nodes' = Kept(f)
  <2>1. ASSUME NEW nd, nd.parent \in Int
        PROVE  Moved(f, nd) = [nd EXCEPT
                  !.parent = IF @ < f THEN 0 ELSE IF @ = 0 THEN 0 ELSE @ - f + 1,
                  !.bestChild = IF @ = 0 THEN 0 ELSE @ - f + 1,
                  !.bestDescendant = IF @ = 0 THEN 0 ELSE @ - f + 1]
    <3>1. (IF nd.parent < f THEN 0 ELSE IF nd.parent = 0 THEN 0 ELSE nd.parent - f + 1)
             = (IF nd.parent < f THEN 0 ELSE nd.parent - f + 1)
      BY <1>2, <2>1
    <3>. QED
      BY <3>1, Zenon DEF Moved
  <2>. QED
    BY <1>3, <1>4, <2>1, Zenon DEF Kept
<1>6. nodesIndices' = [r \in BlockRoots |->
         IF nodesIndices[r] < f THEN 0 ELSE IF nodesIndices[r] = 0 THEN 0
                                            ELSE nodesIndices[r] - f + 1]
  BY Zenon DEF Prune, NonExistentNode
<1>7. \A r \in BlockRoots : nodesIndices[r] \in Int
  BY RootsAssumption, FS_CardinalityType DEF ArrayInv, Indexed, Positions
<1>. QED
  BY <1>1, <1>2, <1>5, <1>6, <1>7, Zenon

\* prune keeps it.
LEMMA StorePrune ==
  ASSUME StoreInv, NEW root \in BlockRoots, Prune(root)
  PROVE  StoreInv'
<1>. DEFINE f == IndexOf(root)
            n == Len(nodes) - f + 1
<1>0. /\ ArrayInv /\ Tree(nodes) /\ Indexed /\ Inserted /\ CanonicalInv /\ CallerInv
      /\ Len(nodes) \in Nat /\ DOMAIN nodes = 1 .. Len(nodes)
  BY TreeFacts DEF StoreInv, ArrayInv
<1>1. /\ f \in 1 .. Len(nodes) /\ nodes' = Kept(f)
      /\ nodesIndices' = [r \in BlockRoots |->
            IF nodesIndices[r] < f THEN 0 ELSE nodesIndices[r] - f + 1]
  BY <1>0, PruneArray
<1>2. /\ result' = NoResult
      /\ canonicalNodes' = canonicalNodes /\ justifiedEpoch' = justifiedEpoch
      /\ finalizedEpoch' = finalizedEpoch /\ justifiedRoot' = justifiedRoot
      /\ votes' = votes /\ balances' = balances /\ counted' = counted /\ parentOf' = parentOf
  BY Zenon DEF Prune, epochVars, voteVars
<1>. HIDE DEF f
<1>3. /\ Tree(nodes') /\ Links(nodes') /\ Len(nodes') = n /\ n \in 1 .. Len(nodes)
      /\ \A i \in 1 .. n :
            /\ i + f - 1 \in 1 .. Len(nodes)
            /\ nodes'[i].root = nodes[i + f - 1].root
            /\ nodes'[i].parent = IF nodes[i + f - 1].parent < f THEN 0
                                  ELSE nodes[i + f - 1].parent - f + 1
  <2>1. n = Len(nodes) - f + 1
    OBVIOUS
  <2>. HIDE DEF n
  <2>2. f \in 1 .. Len(nodes) /\ nodes' = Kept(f)
    BY <1>1
  <2>3. ArrayInv
    BY <1>0
  <2>4. /\ Tree(nodes') /\ Links(nodes') /\ Len(nodes') = n /\ n \in 1 .. Len(nodes)
        /\ CutBefore(nodes, nodes', f)
    BY <2>1, <2>2, <2>3, PruneFacts, Zenon
  <2>5. ASSUME NEW i \in 1 .. n
        PROVE  /\ i + f - 1 \in 1 .. Len(nodes)
               /\ nodes'[i].root = nodes[i + f - 1].root
               /\ nodes'[i].parent = IF nodes[i + f - 1].parent < f THEN 0
                                     ELSE nodes[i + f - 1].parent - f + 1
    <3>. DEFINE k == i + f - 1
    <3>1. k \in 1 .. Len(nodes)
      BY <1>0, <2>1, <2>2, <2>4
    <3>2. k = i + f - 1
      OBVIOUS
    <3>. HIDE DEF k
    <3>3. /\ nodes'[i].root = nodes[k].root
          /\ nodes'[i].parent = IF nodes[k].parent < f THEN 0 ELSE nodes[k].parent - f + 1
      BY <2>4, <3>1, <3>2 DEF CutBefore
    <3>. QED
      BY <3>1, <3>3 DEF k
  <2>. QED
    BY <2>4, <2>5
<1>. DEFINE shift(i) == IF i < f THEN 0 ELSE i - f + 1
<1>4. /\ f \in Nat /\ f # 0 /\ n \in Nat /\ n # 0
      /\ \A i \in 0 .. Len(nodes) : shift(i) \in 0 .. n
      /\ \A i \in 0 .. Len(nodes) : shift(i) # 0 => shift(i) + f - 1 = i
      /\ \A i \in 1 .. n : shift(i + f - 1) = i
      /\ shift(0) = 0 /\ 0 .. n \subseteq Positions
  <2>1. Len(nodes) <= Cardinality(BlockRoots) /\ Cardinality(BlockRoots) \in Nat
    BY <1>0, RootsAssumption, FS_CardinalityType DEF Tree
  <2>2. f \in Nat /\ f # 0 /\ n \in Nat /\ n # 0
    BY <1>0, <1>1, <1>3
  <2>. QED
    BY <1>0, <1>1, <1>3, <2>1, <2>2 DEF Positions
<1>5. \A r \in BlockRoots : /\ nodesIndices[r] \in 0 .. Len(nodes)
                            /\ nodesIndices'[r] = shift(nodesIndices[r])
  <2>1. \A r \in BlockRoots : nodesIndices[r] \in 0 .. Len(nodes)
    BY <1>0 DEF Indexed
  <2>. QED
    BY <1>1, <1>4, <2>1
<1>6. nodesIndices' \in [BlockRoots -> Positions]
  <2>1. \A r \in BlockRoots : nodesIndices'[r] \in Positions
    <3>. HIDE DEF shift, n
    <3>. QED
      BY <1>4, <1>5
  <2>2. nodesIndices' = [r \in BlockRoots |-> nodesIndices'[r]]
    BY <1>1
  <2>. QED
    BY <2>1, <2>2
<1>. HIDE DEF shift, n
<1>7. \A i \in 1 .. n : nodes'[i].parent = shift(nodes[i + f - 1].parent)
  BY <1>3 DEF shift
<1>8. Indexed'
  <2>. DEFINE new(x) == IF x = 0 THEN 0 ELSE nodesIndices'[x]
  <2>1. ASSUME NEW r \in BlockRoots, nodesIndices'[r] # 0
        PROVE  nodesIndices'[r] \in 1 .. n /\ nodes'[nodesIndices'[r]].root = r
    <3>1. /\ nodesIndices'[r] = shift(nodesIndices[r]) /\ shift(nodesIndices[r]) \in 0 .. n
          /\ shift(nodesIndices[r]) + f - 1 = nodesIndices[r] /\ nodesIndices[r] # 0
      BY <1>4, <1>5, <2>1
    <3>2. nodesIndices'[r] \in 1 .. n
      BY <1>4, <2>1, <3>1
    <3>3. nodes[nodesIndices[r]].root = r
      BY <1>0, <3>1 DEF Indexed
    <3>. QED
      BY <1>3, <3>1, <3>2, <3>3
  <2>2. ASSUME NEW i \in 1 .. n
        PROVE  /\ nodesIndices'[nodes'[i].root] = i
               /\ nodes'[i].root \in DOMAIN parentOf
               /\ nodes'[i].parent = new(parentOf[nodes'[i].root])
    <3>. DEFINE k == i + f - 1
                r == nodes[k].root
    <3>1. k \in 1 .. Len(nodes) /\ nodes'[i].root = r /\ nodes'[i].parent = shift(nodes[k].parent)
      BY <1>3, <1>7
    <3>2. shift(k) = i
      BY <1>4
    <3>. HIDE DEF k
    <3>3. /\ nodesIndices[r] = k /\ r \in DOMAIN parentOf
          /\ nodes[k].parent = IndexOf(parentOf[r])
      BY <1>0, <3>1 DEF Indexed
    <3>. HIDE DEF r
    <3>4. r \in BlockRoots /\ parentOf[r] \in BlockRoots \cup {ZeroHash}
      BY <1>0, <3>3 DEF Inserted
    <3>5. nodesIndices'[r] = i
      BY <1>5, <3>2, <3>3, <3>4
    <3>6. new(parentOf[r]) = shift(nodes[k].parent)
      <4>1. CASE parentOf[r] = 0
        BY <1>4, <3>3, <4>1 DEF IndexOf, NonExistentNode, ZeroHash
      <4>2. CASE parentOf[r] # 0
        BY <1>5, <3>3, <3>4, <4>2 DEF IndexOf, ZeroHash
      <4>. QED
        BY <4>1, <4>2
    <3>. QED
      BY <3>1, <3>3, <3>5, <3>6
  <2>. QED
    BY <1>2, <1>3, <1>6, <2>1, <2>2 DEF Indexed, IndexOf, ZeroHash, NonExistentNode
<1>9. CanonicalInv'
  <2>1. ASSUME NEW i \in 1 .. n, nodes'[i].root \in canonicalNodes, nodes'[i].parent # 0
        PROVE  nodes'[nodes'[i].parent].root \in canonicalNodes
    <3>. DEFINE k == i + f - 1
                q == nodes[k].parent
    <3>1. /\ k \in 1 .. Len(nodes) /\ nodes'[i].root = nodes[k].root
          /\ nodes'[i].parent = shift(q)
      BY <1>3, <1>7
    <3>. HIDE DEF k
    <3>2. q \in Nat /\ q < k
      BY <1>0, <3>1, TreeFacts
    <3>. HIDE DEF q
    <3>3. q \in 0 .. Len(nodes)
      BY <1>0, <3>1, <3>2
    <3>4. shift(q) + f - 1 = q /\ shift(q) \in 0 .. n
      BY <1>4, <2>1, <3>1, <3>3
    <3>5. shift(q) \in 1 .. n /\ q # 0
      BY <1>4, <2>1, <3>1, <3>4
    <3>6. nodes'[shift(q)].root = nodes[q].root
      BY <1>3, <3>4, <3>5
    <3>7. nodes[q].root \in canonicalNodes
      BY <1>0, <2>1, <3>1, <3>5 DEF CanonicalInv, q
    <3>. QED
      BY <3>1, <3>6, <3>7
  <2>2. result' \notin BlockRoots
    BY <1>2, RootsAssumption DEF NoResult
  <2>. QED
    BY <1>0, <1>2, <1>3, <2>1, <2>2 DEF CanonicalInv
<1>10. CallerInv' /\ Inserted'
  BY <1>0, <1>2 DEF CallerInv, Inserted
<1>. QED
  BY <1>3, <1>4, <1>8, <1>9, <1>10 DEF StoreInv, ArrayInv

\* computeDeltas returns a number for every node.
LEMMA DeltasType ==
  ASSUME StoreInv, NEW b \in BalanceVectors
  PROVE  /\ ComputeDeltas(b) \in [DOMAIN nodes -> Int]
         /\ b \in [Validators -> Nat] /\ b \in [Validators -> Int]
         /\ balances \in [Validators -> Nat] /\ balances \in [Validators -> Int]
         /\ Changed(b) \in SUBSET Validators /\ IsFiniteSet(Validators)
<1>1. /\ b \in [Validators -> Nat] /\ balances \in [Validators -> Nat]
      /\ Changed(b) \in SUBSET Validators /\ IsFiniteSet(Validators)
  BY BalanceAssumption DEF StoreInv, CallerInv, Changed
<1>2. b \in [Validators -> Int] /\ balances \in [Validators -> Int]
  BY <1>1
<1>3. ASSUME NEW S \in SUBSET Validators PROVE SumOver(b, S) \in Int /\ SumOver(balances, S) \in Int
  BY <1>1, <1>2, SumType, FS_Subset
<1>. DEFINE to(i) == {v \in Changed(b) : IndexOf(votes[v].next) = i}
            from(i) == {v \in Changed(b) : IndexOf(votes[v].current) = i}
<1>4. \A i : to(i) \in SUBSET Validators /\ from(i) \in SUBSET Validators
  BY <1>1
<1>5. ComputeDeltas(b) = [i \in DOMAIN nodes |-> SumOver(b, to(i)) - SumOver(balances, from(i))]
  BY DEF ComputeDeltas
<1>. HIDE DEF to, from
<1>6. \A i : SumOver(b, to(i)) - SumOver(balances, from(i)) \in Int
  BY <1>3, <1>4
<1>. QED
  BY <1>1, <1>2, <1>5, <1>6

\* What Head makes of the array.
LEMMA HeadArray ==
  ASSUME StoreInv, NEW b \in BalanceVectors, NEW je, NEW fe, NEW ms,
         ms = RefreshLinks(ApplyDeltas(ComputeDeltas(b)), je, fe)
  PROVE  /\ Tree(ms) /\ Links(ms) /\ SameBlocks(ms, nodes)
         /\ \A i \in 1 .. Len(nodes) :
               ms[i].weight = LET w == nodes[i].weight + SumOver(ComputeDeltas(b), Subtree(nodes, i))
                              IN  IF w < 0 THEN 0 ELSE w
<1>. DEFINE d == ComputeDeltas(b)
            ws == ApplyDeltas(d)
<1>1. d \in [DOMAIN nodes -> Int] /\ Tree(nodes) /\ Links(nodes)
  BY DeltasType DEF StoreInv, ArrayInv
<1>2. ms = RefreshLinks(ws, je, fe)
  OBVIOUS
<1>. HIDE DEF d
<1>3. /\ Tree(ws) /\ Links(ws) /\ SameBlocks(ws, nodes)
      /\ \A i \in 1 .. Len(nodes) :
            ws[i].weight = LET w == nodes[i].weight + SumOver(d, Subtree(nodes, i))
                           IN  IF w < 0 THEN 0 ELSE w
  BY <1>1, ApplyKeeps
<1>. HIDE DEF ws
<1>4. Tree(ms) /\ Links(ms) /\ SameBlocks(ms, ws) /\ SameWeights(ms, ws)
  BY <1>2, <1>3, RefreshKeeps
<1>5. SameBlocks(ms, nodes)
  BY <1>3, <1>4 DEF SameBlocks
<1>6. \A i \in 1 .. Len(nodes) : ms[i].weight = ws[i].weight
  BY <1>3, <1>4 DEF SameBlocks, SameWeights
<1>. QED
  BY <1>3, <1>4, <1>5, <1>6 DEF d

\* The node that head returns is in the array.
LEMMA HeadPosition ==
  ASSUME NEW ns, Tree(ns), Links(ns), NEW j \in 1 .. Len(ns), NEW je, NEW fe
  PROVE  HeadOf(ns, j, je, fe) = 0 \/ HeadOf(ns, j, je, fe) \in 1 .. Len(ns)
<1>. DEFINE best == IF ns[j].bestDescendant = 0 THEN j ELSE ns[j].bestDescendant
<1>1. best \in 1 .. Len(ns)
  BY SubtreeDef DEF Links
<1>2. HeadOf(ns, j, je, fe) = IF ViableForHead(ns[best], je, fe) THEN best ELSE 0
  BY DEF HeadOf, NonExistentNode
<1>. QED
  BY <1>1, <1>2

\* Head keeps the invariant.
LEMMA StoreFindHead ==
  ASSUME StoreInv, NEW je \in Epochs, NEW fe \in Epochs, NEW root \in BlockRoots,
         NEW b \in BalanceVectors, FindHead(je, fe, root, b)
  PROVE  StoreInv'
<1>. DEFINE j == IndexOf(root)
            head == HeadOf(nodes', j, je, fe)
            M == UpdateCanonicalNodes(nodes', head)
<1>0. /\ ArrayInv /\ Tree(nodes) /\ Indexed /\ Inserted /\ CanonicalInv /\ CallerInv
      /\ Len(nodes) \in Nat
  BY TreeFacts DEF StoreInv, ArrayInv
<1>1. nodes' = RefreshLinks(ApplyDeltas(ComputeDeltas(b)), je, fe)
  BY DEF FindHead
<1>2. /\ result' = IF head = 0 THEN HeadError ELSE nodes'[head].root
      /\ canonicalNodes' = canonicalNodes \cup IF head = 0 THEN {} ELSE M
  BY DEF FindHead, NonExistentNode
<1>3. /\ IndexOf(root) \in Subtree(nodes, 1)
      /\ votes' = [v \in Validators |-> [votes[v] EXCEPT !.current = votes[v].next]]
      /\ counted' \subseteq Validators
      /\ balances' = b /\ justifiedEpoch' = je /\ finalizedEpoch' = fe /\ justifiedRoot' = root
      /\ nodesIndices' = nodesIndices /\ parentOf' = parentOf
  BY DEF FindHead
<1>4. Tree(nodes') /\ Links(nodes') /\ SameBlocks(nodes', nodes)
  BY <1>1, HeadArray
<1>5. /\ Len(nodes') = Len(nodes)
      /\ \A i \in 1 .. Len(nodes) :
            nodes'[i].root = nodes[i].root /\ nodes'[i].parent = nodes[i].parent
  BY <1>4 DEF SameBlocks
<1>6. Indexed' /\ Inserted'
  <2>1. Inserted'
    BY <1>0, <1>3 DEF Inserted
  <2>2. ASSUME NEW r \in BlockRoots, nodesIndices'[r] # 0
        PROVE  nodesIndices'[r] \in 1 .. Len(nodes') /\ nodes'[nodesIndices'[r]].root = r
    BY <1>0, <1>3, <1>5, <2>2 DEF Indexed
  <2>3. ASSUME NEW i \in 1 .. Len(nodes')
        PROVE  /\ nodesIndices'[nodes'[i].root] = i
               /\ nodes'[i].root \in DOMAIN parentOf'
               /\ nodes'[i].parent = IF parentOf'[nodes'[i].root] = ZeroHash THEN NonExistentNode
                                     ELSE nodesIndices'[parentOf'[nodes'[i].root]]
    BY <1>0, <1>3, <1>5 DEF Indexed, IndexOf
  <2>4. nodesIndices' \in [BlockRoots -> Positions]
    BY <1>0, <1>3 DEF Indexed
  <2>. QED
    BY <2>1, <2>2, <2>3, <2>4 DEF Indexed, IndexOf
<1>7. head = 0 \/ head \in 1 .. Len(nodes)
  <2>1. j \in 1 .. Len(nodes')
    BY <1>0, <1>3, <1>5, SubtreeDef
  <2>. HIDE DEF j
  <2>. QED
    BY <1>4, <1>5, <2>1, HeadPosition
<1>. HIDE DEF head
<1>8. head # 0 => /\ nodes'[head].root \in M
                  /\ \A r \in M : \E i \in 1 .. Len(nodes') :
                        /\ nodes'[i].root = r
                        /\ nodes'[i].parent = 0 \/ nodes'[nodes'[i].parent].root \in canonicalNodes \cup M
  BY <1>4, <1>5, <1>7, CanonicalFacts
<1>. HIDE DEF M
<1>9. \A i \in 1 .. Len(nodes) : /\ nodes[i].root \in DOMAIN parentOf /\ nodes[i].root \in BlockRoots
                                 /\ nodesIndices[nodes[i].root] = i
  BY <1>0 DEF Indexed, Inserted
<1>10. CanonicalInv'
  <2>1. canonicalNodes' \subseteq DOMAIN parentOf'
    BY <1>0, <1>2, <1>3, <1>5, <1>8, <1>9 DEF CanonicalInv
  <2>2. ASSUME NEW i \in 1 .. Len(nodes'), nodes'[i].root \in canonicalNodes', nodes'[i].parent # 0
        PROVE  nodes'[nodes'[i].parent].root \in canonicalNodes'
    <3>1. CASE nodes'[i].root \in canonicalNodes
      <4>1. nodes[i].parent \in 1 .. Len(nodes)
        BY <1>0, <1>5, <2>2, TreeFacts
      <4>2. nodes[nodes[i].parent].root \in canonicalNodes
        BY <1>0, <1>5, <2>2, <3>1 DEF CanonicalInv
      <4>. QED
        BY <1>2, <1>5, <4>1, <4>2
    <3>2. CASE head # 0 /\ nodes'[i].root \in M
      <4>1. PICK l \in 1 .. Len(nodes') :
               /\ nodes'[l].root = nodes'[i].root
               /\ nodes'[l].parent = 0 \/ nodes'[nodes'[l].parent].root \in canonicalNodes \cup M
        BY <1>8, <3>2
      <4>2. l = i
        BY <1>5, <1>9, <4>1
      <4>. QED
        BY <1>2, <2>2, <3>2, <4>1, <4>2
    <3>. QED
      BY <1>2, <2>2, <3>1, <3>2
  <2>3. ASSUME result' \in BlockRoots
        PROVE  nodesIndices'[result'] # 0 /\ result' \in canonicalNodes'
    <3>1. head # 0
      BY <1>2, <2>3, RootsAssumption DEF HeadError
    <3>2. result' = nodes'[head].root /\ nodesIndices[nodes[head].root] = head
      BY <1>2, <1>7, <1>9, <3>1
    <3>. QED
      BY <1>2, <1>3, <1>5, <1>7, <1>8, <3>1, <3>2
  <2>. QED
    BY <2>1, <2>2, <2>3 DEF CanonicalInv
<1>11. CallerInv'
  <2>1. result' \in BlockRoots \cup {NoResult, HeadError}
    BY <1>2, <1>5, <1>7, <1>9
  <2>2. votes' \in [Validators -> [current : BlockRoots \cup {ZeroHash},
                                   next : BlockRoots \cup {ZeroHash}, epoch : TargetEpochs \cup {0}]]
    BY <1>0, <1>3, Zenon DEF CallerInv
  <2>3. balances' \in [Validators -> Nat]
    BY <1>3, DeltasType
  <2>. QED
    BY <1>3, <2>1, <2>2, <2>3 DEF CallerInv
<1>12. Len(nodes') # 0
  BY <1>0, <1>5 DEF ArrayInv
<1>. QED
  BY <1>4, <1>6, <1>10, <1>11, <1>12 DEF StoreInv, ArrayInv

\* The invariant implies what the runs check of the array.
LEMMA StoreFacts ==
  ASSUME StoreInv
  PROVE  TypeOK /\ LinksAreSound /\ HeadChainIsCanonical
<1>0. /\ ArrayInv /\ Tree(nodes) /\ Links(nodes) /\ Indexed /\ Inserted /\ CanonicalInv /\ CallerInv
      /\ Len(nodes) \in Nat /\ Len(nodes) # 0 /\ DOMAIN nodes = 1 .. Len(nodes)
      /\ \A i \in 1 .. Len(nodes) : nodes[i] \in Nodes /\ nodes[i].parent \in Nat /\ nodes[i].parent < i
  BY TreeFacts DEF StoreInv, ArrayInv
<1>1. TypeOK
  <2>1. Len(nodes) \in 1 .. Cardinality(BlockRoots)
    BY <1>0, RootsAssumption, FS_CardinalityType DEF Tree
  <2>2. canonicalNodes \subseteq BlockRoots
    BY <1>0 DEF CanonicalInv, Inserted
  <2>. QED
    BY <1>0, <2>1, <2>2 DEF TypeOK, CallerInv, Indexed
<1>2. LinksAreSound
  <2>1. \A r \in BlockRoots : nodesIndices[r] # NonExistentNode =>
           nodesIndices[r] \in DOMAIN nodes /\ nodes[nodesIndices[r]].root = r
    BY <1>0 DEF Indexed, NonExistentNode
  <2>2. ASSUME NEW i \in 1 .. Len(nodes)
        PROVE  /\ nodesIndices[nodes[i].root] = i /\ nodes[i].parent < i
               /\ nodes[i].parent = IndexOf(parentOf[nodes[i].root])
               /\ nodes[i].bestChild # 0 =>
                     nodes[i].bestChild \in DOMAIN nodes /\ nodes[nodes[i].bestChild].parent = i
               /\ nodes[i].bestDescendant # 0 => nodes[i].bestDescendant \in Subtree(nodes, i) \ {i}
    BY <1>0 DEF Indexed, Links
  <2>. QED
    BY <1>0, <2>1, <2>2 DEF LinksAreSound, NonExistentNode
<1>3. HeadChainIsCanonical
  <2>. SUFFICES ASSUME result \in BlockRoots, NEW i \in DOMAIN nodes,
                       IndexOf(result) \in Subtree(nodes, i)
                PROVE  nodes[i].root \in canonicalNodes
    BY DEF HeadChainIsCanonical, Ancestors
  <2>. DEFINE h == IndexOf(result)
              T == {k \in Nat : k \in Subtree(nodes, i) /\ nodes[k].root \in canonicalNodes =>
                                   nodes[i].root \in canonicalNodes}
  <2>1. h \in 1 .. Len(nodes) /\ nodes[h].root \in canonicalNodes
    <3>1. result # 0 /\ nodesIndices[result] # 0 /\ result \in canonicalNodes
      BY <1>0, RootsAssumption DEF CanonicalInv
    <3>. QED
      BY <1>0, <3>1 DEF Indexed, IndexOf, ZeroHash
  <2>2. ASSUME NEW m \in Nat, \A k \in Nat : k < m => k \in T PROVE m \in T
    <3>. SUFFICES ASSUME m \in Subtree(nodes, i), nodes[m].root \in canonicalNodes, m # i
                  PROVE  nodes[i].root \in canonicalNodes
      OBVIOUS
    <3>. DEFINE p == nodes[m].parent
    <3>1. m \in 1 .. Len(nodes) /\ p # 0 /\ p \in Subtree(nodes, i)
      BY <1>0, SubtreeDef
    <3>2. p \in Nat /\ p < m /\ nodes[p].root \in canonicalNodes
      BY <1>0, <3>1 DEF CanonicalInv
    <3>. HIDE DEF p
    <3>. QED
      BY <2>2, <3>1, <3>2
  <2>. HIDE DEF T
  <2>3. Nat \subseteq T
    BY <2>2, StrongInduction
  <2>. HIDE DEF h
  <2>4. h \in T
    BY <1>0, <2>1, <2>3
  <2>. QED
    BY <2>1, <2>4 DEF T, h
<1>. QED
  BY <1>1, <1>2, <1>3

\* Every step keeps the invariant.
LEMMA StoreStep ==
  ASSUME StoreInv, [Next]_vars
  PROVE  StoreInv'
<1>1. CASE UNCHANGED vars
  <2>1. /\ nodes' = nodes /\ nodesIndices' = nodesIndices /\ canonicalNodes' = canonicalNodes
        /\ justifiedEpoch' = justifiedEpoch /\ finalizedEpoch' = finalizedEpoch
        /\ justifiedRoot' = justifiedRoot /\ parentOf' = parentOf /\ votes' = votes
        /\ balances' = balances /\ counted' = counted /\ result' = result
    BY <1>1 DEF vars, storeVars, epochVars, voteVars
  <2>. QED
    BY <2>1 DEF StoreInv, ArrayInv, CanonicalInv, CallerInv, Tree, Links, Indexed, Inserted, IndexOf
<1>2. CASE \E r, p \in BlockRoots, je, fe \in Epochs : ProcessBlock(r, p, je, fe)
  BY <1>2, StoreProcessBlock, Zenon
<1>3. CASE \E v \in Validators, r \in BlockRoots, e \in TargetEpochs : ProcessAttestation(v, r, e)
  BY <1>3, StoreProcessAttestation, Zenon
<1>4. CASE \E je, fe \in Epochs, r \in BlockRoots, b \in BalanceVectors : FindHead(je, fe, r, b)
  BY <1>4, StoreFindHead, Zenon
<1>5. CASE \E r \in BlockRoots : Prune(r)
  BY <1>5, StorePrune, Zenon
<1>. QED
  BY <1>1, <1>2, <1>3, <1>4, <1>5, Zenon DEF Next

\* The array of the store stays well formed: whatever is inserted, attested,
\* asked for and pruned, in every tree of blocks and for every number of
\* validators.
THEOREM StoreTypeCorrect == Spec => []TypeOK
<1>1. Init => StoreInv
  BY StoreInit
<1>2. StoreInv /\ [Next]_vars => StoreInv'
  BY StoreStep
<1>3. StoreInv => TypeOK
  BY StoreFacts
<1>. QED
  BY <1>1, <1>2, <1>3, PTL DEF Spec

\* insert, prune and the refresh of the links leave no stale position behind:
\* the index map, the parents, the best children and the best descendants
\* always describe the tree of the blocks inserted.
THEOREM StoreLinksSound == Spec => []LinksAreSound
<1>1. Init => StoreInv
  BY StoreInit
<1>2. StoreInv /\ [Next]_vars => StoreInv'
  BY StoreStep
<1>3. StoreInv => LinksAreSound
  BY StoreFacts
<1>. QED
  BY <1>1, <1>2, <1>3, PTL DEF Spec

\* updateCanonicalNodes may stop at the first canonical ancestor: the head that
\* Head returned is canonical with all of its ancestors in the array.
THEOREM HeadChainCanonical == Spec => []HeadChainIsCanonical
<1>1. Init => StoreInv
  BY StoreInit
<1>2. StoreInv /\ [Next]_vars => StoreInv'
  BY StoreStep
<1>3. StoreInv => HeadChainIsCanonical
  BY StoreFacts
<1>. QED
  BY <1>1, <1>2, <1>3, PTL DEF Spec

-------------------------------------------------------------------------------
(* Weights *)

\* The validators whose vote was moved to a block of the subtree of i.
VotersBelow(i) == {v \in Validators : IndexOf(votes[v].current) \in Subtree(nodes, i)}

\* Votes are for blocks that were inserted, and a vote that was moved to a block
\* of the array is counted.
VoteInv ==
    \A v \in Validators :
        /\ votes[v].current \in DOMAIN parentOf \cup {ZeroHash}
        /\ votes[v].next \in DOMAIN parentOf \cup {ZeroHash}
        /\ IndexOf(votes[v].current) # 0 => v \in counted

WeightInv ==
    /\ StoreInv /\ VoteInv
    /\ \A i \in 1 .. Len(nodes) : nodes[i].weight = SumOver(balances, VotersBelow(i))

\* Positions of blocks.
LEMMA IndexFacts ==
  ASSUME StoreInv
  PROVE  /\ IndexOf(0) = 0 /\ \A r \in BlockRoots \cup {ZeroHash} : IndexOf(r) \in 0 .. Len(nodes)
         /\ \A r \in BlockRoots : IndexOf(r) = nodesIndices[r] /\ r # 0
         /\ \A r \in BlockRoots : IndexOf(r) # 0 => r \in DOMAIN parentOf
         /\ \A i : 0 \notin Subtree(nodes, i)
<1>0. Tree(nodes) /\ Indexed /\ Len(nodes) \in Nat
  BY TreeFacts DEF StoreInv, ArrayInv
<1>1. IndexOf(0) = 0 /\ \A r \in BlockRoots : IndexOf(r) = nodesIndices[r] /\ r # 0
  BY RootsAssumption DEF IndexOf, ZeroHash, NonExistentNode
<1>2. \A r \in BlockRoots : nodesIndices[r] # 0 =>
         nodesIndices[r] \in 1 .. Len(nodes) /\ r \in DOMAIN parentOf
  BY <1>0 DEF Indexed
<1>3. \A i : 0 \notin Subtree(nodes, i)
  BY <1>0, SubtreeDef
<1>4. 0 \in 0 .. Len(nodes) /\ 1 .. Len(nodes) \subseteq 0 .. Len(nodes)
  BY <1>0
<1>. QED
  BY <1>1, <1>2, <1>3, <1>4 DEF ZeroHash

\* The weights are those of the counted votes.
LEMMA WeightFacts ==
  ASSUME WeightInv
  PROVE  WeightIsCountedVotes
<1>1. DOMAIN nodes = 1 .. Len(nodes)
  BY TreeFacts DEF WeightInv, StoreInv, ArrayInv
<1>2. ASSUME NEW i \in 1 .. Len(nodes)
      PROVE  VotersBelow(i) = {v \in counted : IndexOf(votes[v].current) \in Subtree(nodes, i)}
  <2>1. counted \subseteq Validators /\ 0 \notin Subtree(nodes, i)
    BY IndexFacts DEF WeightInv, StoreInv, CallerInv
  <2>. QED
    BY <2>1 DEF VotersBelow, WeightInv, VoteInv
<1>. QED
  BY <1>1, <1>2 DEF WeightInv, WeightIsCountedVotes

\* No vote, no weight.
LEMMA WeightInit ==
  ASSUME Init
  PROVE  WeightInv
<1>1. StoreInv
  BY StoreInit
<1>2. \A v \in Validators : votes[v].current = 0 /\ votes[v].next = 0
  BY DEF Init, NewVote, ZeroHash
<1>3. IndexOf(0) = 0
  BY <1>1, IndexFacts
<1>4. VoteInv
  BY <1>2, <1>3 DEF VoteInv, ZeroHash
<1>5. ASSUME NEW i \in 1 .. Len(nodes) PROVE nodes[i].weight = SumOver(balances, VotersBelow(i))
  <2>1. nodes = <<NewNode(Genesis, 0, 0, 0)>>
    BY DEF Init, NonExistentNode
  <2>2. nodes[i] = NewNode(Genesis, 0, 0, 0)
    BY <2>1
  <2>3. nodes[i].weight = 0
    BY <2>2 DEF NewNode
  <2>4. VotersBelow(i) = {}
    BY <1>1, <1>2, <1>3, IndexFacts DEF VotersBelow
  <2>. QED
    BY <2>3, <2>4, SumEmpty
<1>. QED
  BY <1>1, <1>4, <1>5 DEF WeightInv

\* A new block has no votes, and adds nothing to its ancestors.
LEMMA WeightProcessBlock ==
  ASSUME WeightInv, NEW root \in BlockRoots, NEW parent \in BlockRoots,
         NEW je \in Epochs, NEW fe \in Epochs, ProcessBlock(root, parent, je, fe)
  PROVE  WeightInv'
<1>. DEFINE p == IndexOf(parent)
            n == Len(nodes) + 1
<1>0. /\ StoreInv /\ StoreInv' /\ VoteInv /\ ArrayInv /\ Tree(nodes) /\ Inserted
      /\ Len(nodes) \in Nat /\ n \in Nat
  BY StoreProcessBlock, TreeFacts DEF WeightInv, StoreInv, ArrayInv
<1>1. /\ root \notin DOMAIN parentOf /\ p \in 1 .. Len(nodes)
      /\ nodes' = UpdateBestChildAndDescendant(Append(nodes, NewNode(root, p, je, fe)), p, n,
                                               justifiedEpoch, finalizedEpoch)
      /\ nodesIndices' = [nodesIndices EXCEPT ![root] = n]
      /\ DOMAIN parentOf' = DOMAIN parentOf \cup {root}
      /\ votes' = votes /\ balances' = balances /\ counted' = counted
  BY <1>0, SubtreeDef DEF ProcessBlock, voteVars
<1>. HIDE DEF p
<1>2. /\ Tree(nodes') /\ Len(nodes') = n /\ nodes'[n].weight = 0
      /\ \A i \in 1 .. Len(nodes) : nodes'[i].weight = nodes[i].weight
      /\ \A i : \A j \in 1 .. Len(nodes) : j \in Subtree(nodes', i) <=> j \in Subtree(nodes, i)
  <2>1. Tree(nodes') /\ GrownBy(nodes, nodes', root, p)
    BY <1>0, <1>1, InsertFacts
  <2>. QED
    BY <2>1 DEF GrownBy
<1>3. \A r \in DOMAIN parentOf \cup {ZeroHash} :
         IndexOf(r)' = IndexOf(r) /\ IndexOf(r) \in 0 .. Len(nodes)
  <2>1. \A r \in BlockRoots : r # root => nodesIndices'[r] = nodesIndices[r]
    BY <1>0, <1>1, Zenon DEF StoreInv, ArrayInv, Indexed
  <2>2. \A r \in DOMAIN parentOf : r \in BlockRoots /\ r # root
    BY <1>0, <1>1, Zenon DEF Inserted
  <2>3. \A r \in DOMAIN parentOf \cup {ZeroHash} : IndexOf(r) \in 0 .. Len(nodes)
    BY <1>0, <2>2, IndexFacts
  <2>. QED
    BY <2>1, <2>2, <2>3 DEF IndexOf
<1>. DEFINE idx(v) == IndexOf(votes[v].current)
<1>4. \A v \in Validators : idx(v)' = idx(v) /\ idx(v) \in 0 .. Len(nodes)
  <2>1. \A v \in Validators : votes[v].current \in DOMAIN parentOf \cup {ZeroHash}
    BY <1>0 DEF VoteInv
  <2>2. ASSUME NEW v \in Validators, NEW r, r = votes[v].current
        PROVE  (IF r = ZeroHash THEN NonExistentNode ELSE nodesIndices'[r]) = IndexOf(r)
    BY <1>3, <2>1, <2>2 DEF IndexOf
  <2>3. ASSUME NEW v \in Validators PROVE idx(v)' = idx(v)
    BY <1>1, <2>2 DEF IndexOf
  <2>. QED
    BY <1>3, <2>1, <2>3
<1>5. VoteInv'
  <2>. SUFFICES ASSUME NEW v \in Validators
                PROVE  /\ votes'[v].current \in DOMAIN parentOf' \cup {ZeroHash}
                       /\ votes'[v].next \in DOMAIN parentOf' \cup {ZeroHash}
                       /\ idx(v)' # 0 => v \in counted'
    BY DEF VoteInv
  <2>1. idx(v)' = idx(v)
    BY <1>4
  <2>2. /\ votes[v].current \in DOMAIN parentOf \cup {ZeroHash}
        /\ votes[v].next \in DOMAIN parentOf \cup {ZeroHash}
        /\ idx(v) # 0 => v \in counted
    BY <1>0 DEF VoteInv
  <2>. HIDE DEF idx
  <2>. QED
    BY <1>1, <2>1, <2>2
<1>6. ASSUME NEW i \in 1 .. Len(nodes') PROVE nodes'[i].weight = SumOver(balances', VotersBelow(i)')
  <2>0. VotersBelow(i)' = {v \in Validators : idx(v) \in Subtree(nodes', i)}
    BY <1>4 DEF VotersBelow
  <2>1. CASE i \in 1 .. Len(nodes)
    <3>1. 0 \notin Subtree(nodes, i) /\ 0 \notin Subtree(nodes', i)
      BY <1>0, <1>2, SubtreeDef
    <3>2. \A v \in Validators : idx(v) \in Subtree(nodes', i) <=> idx(v) \in Subtree(nodes, i)
      <4>1. \A v \in Validators : idx(v) = 0 \/ idx(v) \in 1 .. Len(nodes)
        BY <1>0, <1>4
      <4>. HIDE DEF idx
      <4>. QED
        BY <1>2, <3>1, <4>1
    <3>3. VotersBelow(i)' = VotersBelow(i)
      BY <2>0, <3>2 DEF VotersBelow
    <3>4. nodes[i].weight = SumOver(balances, VotersBelow(i)) /\ nodes'[i].weight = nodes[i].weight
      BY <1>2, <2>1 DEF WeightInv
    <3>. QED
      BY <1>1, <3>3, <3>4
  <2>2. CASE i \notin 1 .. Len(nodes)
    <3>1. i = n
      BY <1>0, <1>2, <2>2
    <3>2. Subtree(nodes', n) \subseteq n .. n
      BY <1>2, <3>1, SubtreeFacts
    <3>3. \A v \in Validators : idx(v) \notin Subtree(nodes', n)
      <4>. HIDE DEF idx
      <4>. QED
        BY <1>0, <1>4, <3>2
    <3>4. VotersBelow(i)' = {}
      BY <2>0, <3>1, <3>3
    <3>5. SumOver(balances', VotersBelow(i)') = 0
      BY <3>4, SumEmpty
    <3>. QED
      BY <1>2, <3>1, <3>5
  <2>. QED
    BY <2>1, <2>2
<1>. QED
  BY <1>0, <1>5, <1>6 DEF WeightInv

\* An attestation counts at the next call of Head.
LEMMA WeightProcessAttestation ==
  ASSUME WeightInv, ~UnknownVotes, NEW v \in Validators, NEW root \in BlockRoots,
         NEW e \in TargetEpochs, ProcessAttestation(v, root, e)
  PROVE  WeightInv'
<1>0. StoreInv /\ VoteInv /\ StoreInv'
  BY StoreProcessAttestation DEF WeightInv
<1>1. /\ nodes' = nodes /\ nodesIndices' = nodesIndices /\ parentOf' = parentOf
      /\ balances' = balances /\ counted' = counted
      /\ votes' = [votes EXCEPT ![v].next = root, ![v].epoch = e]
      /\ IndexOf(root) # 0
  BY DEF ProcessAttestation, storeVars, NonExistentNode
<1>2. root \in DOMAIN parentOf
  BY <1>0, <1>1, IndexFacts
<1>3. \A u \in Validators : votes'[u].current = votes[u].current
                            /\ (votes'[u].next = votes[u].next \/ votes'[u].next = root)
  BY <1>0, <1>1 DEF StoreInv, CallerInv
<1>4. VoteInv'
  <2>1. ASSUME NEW u \in Validators
        PROVE  /\ votes'[u].current \in DOMAIN parentOf' \cup {ZeroHash}
               /\ votes'[u].next \in DOMAIN parentOf' \cup {ZeroHash}
               /\ IndexOf(votes[u].current)' = IndexOf(votes[u].current)
               /\ IndexOf(votes[u].current) # 0 => u \in counted'
    <3>1. /\ votes'[u].current = votes[u].current
          /\ votes'[u].next = votes[u].next \/ votes'[u].next = root
      BY <1>3
    <3>2. IndexOf(votes[u].current)' = IndexOf(votes[u].current)
      BY <1>1, <3>1 DEF IndexOf
    <3>. QED
      BY <1>0, <1>1, <1>2, <3>1, <3>2 DEF VoteInv
  <2>. QED
    BY <2>1 DEF VoteInv
<1>5. \A i : VotersBelow(i)' = VotersBelow(i)
  BY <1>1, <1>3 DEF VotersBelow, IndexOf
<1>. QED
  BY <1>0, <1>1, <1>4, <1>5 DEF WeightInv

\* Pruning moves the votes with their blocks.
LEMMA WeightPrune ==
  ASSUME WeightInv, NEW root \in BlockRoots, Prune(root)
  PROVE  WeightInv'
<1>. DEFINE f == IndexOf(root)
            idx(v) == IndexOf(votes[v].current)
            shift(i) == IF i < f THEN 0 ELSE i - f + 1
<1>0. /\ StoreInv /\ StoreInv' /\ VoteInv /\ ArrayInv /\ Tree(nodes) /\ Inserted
      /\ Len(nodes) \in Nat /\ DOMAIN nodes = 1 .. Len(nodes)
  BY StorePrune, TreeFacts DEF WeightInv, StoreInv, ArrayInv
<1>1. f \in 1 .. Len(nodes)
  BY <1>0, Zenon DEF Prune, Ancestors
<1>2. /\ nodes' = Kept(f)
      /\ votes' = votes /\ balances' = balances /\ counted' = counted /\ parentOf' = parentOf
      /\ nodesIndices' = [r \in BlockRoots |-> shift(nodesIndices[r])]
  BY <1>0, <1>1, PruneArray, Zenon DEF Prune, voteVars
<1>. HIDE DEF f
<1>3. /\ Tree(nodes') /\ Len(nodes') = Len(nodes) - f + 1 /\ Len(nodes') \in Nat
      /\ CutBefore(nodes, nodes', f)
  <2>. DEFINE n == Len(nodes) - f + 1
  <2>1. n = Len(nodes) - f + 1 /\ n \in Nat
    BY <1>0, <1>1
  <2>. HIDE DEF n
  <2>2. ArrayInv /\ nodes' = Kept(f)
    BY <1>0, <1>2
  <2>3. Tree(nodes') /\ Len(nodes') = n /\ CutBefore(nodes, nodes', f)
    BY <1>1, <2>1, <2>2, PruneFacts
  <2>. QED
    BY <2>1, <2>3
<1>4. \A v \in Validators : idx(v)' = shift(idx(v)) /\ idx(v) \in 0 .. Len(nodes)
  <2>1. ASSUME NEW v \in Validators
        PROVE  /\ votes[v].current \in BlockRoots \cup {ZeroHash} /\ votes'[v].current = votes[v].current
               /\ idx(v) \in 0 .. Len(nodes)
    BY <1>0, <1>2, IndexFacts DEF StoreInv, CallerInv
  <2>2. shift(0) = 0
    BY <1>1
  <2>3. \A r \in BlockRoots : nodesIndices'[r] = shift(nodesIndices[r])
    BY <1>2
  <2>. HIDE DEF shift
  <2>4. ASSUME NEW v \in Validators PROVE idx(v)' = shift(idx(v))
    BY <2>1, <2>2, <2>3 DEF IndexOf, ZeroHash, NonExistentNode
  <2>. QED
    BY <2>1, <2>4
<1>5. \A v \in Validators : idx(v)' # 0 => idx(v) # 0
  <2>1. shift(0) = 0
    BY <1>1
  <2>. HIDE DEF shift, idx
  <2>. QED
    BY <1>4, <2>1
<1>6. VoteInv'
  <2>. SUFFICES ASSUME NEW v \in Validators
                PROVE  /\ votes'[v].current \in DOMAIN parentOf' \cup {ZeroHash}
                       /\ votes'[v].next \in DOMAIN parentOf' \cup {ZeroHash}
                       /\ idx(v)' # 0 => v \in counted'
    BY DEF VoteInv
  <2>1. /\ votes[v].current \in DOMAIN parentOf \cup {ZeroHash}
        /\ votes[v].next \in DOMAIN parentOf \cup {ZeroHash}
        /\ idx(v) # 0 => v \in counted
    BY <1>0 DEF VoteInv
  <2>. HIDE DEF idx
  <2>. QED
    BY <1>2, <1>5, <2>1
<1>7. ASSUME NEW i \in 1 .. Len(nodes') PROVE nodes'[i].weight = SumOver(balances', VotersBelow(i)')
  <2>. DEFINE k == i + f - 1
  <2>1. k \in 1 .. Len(nodes) /\ k >= f
    BY <1>0, <1>1, <1>3
  <2>2. k = i + f - 1
    OBVIOUS
  <2>. HIDE DEF k
  <2>3. nodes'[i].weight = nodes[k].weight
    BY <1>3, <2>1, <2>2 DEF CutBefore
  <2>4. ASSUME NEW m \in 0 .. Len(nodes)
        PROVE  shift(m) \in Subtree(nodes', i) <=> m \in Subtree(nodes, k)
    <3>1. CASE m < f
      <4>1. Subtree(nodes, k) \subseteq k .. Len(nodes)
        BY <1>0, <2>1, SubtreeFacts
      <4>2. m \notin Subtree(nodes, k)
        BY <1>0, <1>1, <2>1, <3>1, <4>1
      <4>3. shift(m) = 0 /\ 0 \notin Subtree(nodes', i)
        BY <1>3, <3>1, SubtreeDef
      <4>. HIDE DEF shift
      <4>. QED
        BY <4>2, <4>3
    <3>2. CASE m >= f
      <4>. DEFINE l == m - f + 1
      <4>1. /\ shift(m) = l /\ l \in 1 .. Len(nodes') /\ m \in 1 .. Len(nodes)
            /\ m = l + f - 1
        BY <1>0, <1>1, <1>3, <3>2
      <4>. HIDE DEF l, shift
      <4>. QED
        BY <1>3, <2>1, <2>2, <4>1 DEF CutBefore
    <3>. QED
      BY <1>0, <1>1, <3>1, <3>2
  <2>. HIDE DEF shift
  <2>5. VotersBelow(i)' = {v \in Validators : idx(v)' \in Subtree(nodes', i)}
    BY DEF VotersBelow
  <2>6. VotersBelow(k) = {v \in Validators : idx(v) \in Subtree(nodes, k)}
    BY DEF VotersBelow
  <2>. HIDE DEF idx
  <2>7. VotersBelow(i)' = VotersBelow(k)
    BY <1>4, <2>4, <2>5, <2>6
  <2>8. nodes[k].weight = SumOver(balances, VotersBelow(k))
    BY <2>1 DEF WeightInv
  <2>. QED
    BY <1>2, <2>3, <2>7, <2>8
<1>. QED
  BY <1>0, <1>6, <1>7 DEF WeightInv

\* The deltas of computeDeltas turn the weight of the old votes and balances
\* into that of the new ones.
LEMMA DeltasBalance ==
  ASSUME WeightInv, NEW b \in BalanceVectors, NEW i \in 1 .. Len(nodes), NEW A,
         A = {v \in Validators : IndexOf(votes[v].next) \in Subtree(nodes, i)}
  PROVE  /\ nodes[i].weight + SumOver(ComputeDeltas(b), Subtree(nodes, i)) = SumOver(b, A)
         /\ SumOver(b, A) \in Nat
<1>. DEFINE T == Subtree(nodes, i)
            C == Changed(b)
            d == ComputeDeltas(b)
            to == [v \in Validators |-> IndexOf(votes[v].next)]
            from == [v \in Validators |-> IndexOf(votes[v].current)]
            B == VotersBelow(i)
<1>0. /\ StoreInv /\ Tree(nodes) /\ DOMAIN nodes = 1 .. Len(nodes) /\ Len(nodes) \in Nat
  BY TreeFacts DEF WeightInv, StoreInv, ArrayInv
<1>1. /\ d \in [DOMAIN nodes -> Int] /\ b \in [Validators -> Nat] /\ b \in [Validators -> Int]
      /\ balances \in [Validators -> Nat] /\ balances \in [Validators -> Int]
      /\ C \in SUBSET Validators /\ IsFiniteSet(Validators) /\ IsFiniteSet(C)
  BY <1>0, DeltasType, FS_Subset
<1>2. T \in SUBSET DOMAIN nodes /\ IsFiniteSet(T) /\ 0 \notin T
  <2>1. T \in SUBSET (1 .. Len(nodes)) /\ 0 \notin T
    BY <1>0, SubtreeDef
  <2>2. IsFiniteSet(1 .. Len(nodes))
    BY <1>0, FS_Interval
  <2>. HIDE DEF T
  <2>. QED
    BY <1>0, <2>1, <2>2, FS_Subset, Zenon
<1>3. IsDelta(d, T, C, b, to, balances, from)
  <2>1. ASSUME NEW j \in T
        PROVE  /\ At(C, to, {j}) = {v \in C : IndexOf(votes[v].next) = j}
               /\ At(C, from, {j}) = {v \in C : IndexOf(votes[v].current) = j}
    <3>. HIDE DEF C
    <3>. QED
      BY <1>1 DEF At
  <2>2. ASSUME NEW j \in T
        PROVE  d[j] = SumOver(b, {v \in C : IndexOf(votes[v].next) = j})
                         - SumOver(balances, {v \in C : IndexOf(votes[v].current) = j})
    BY <1>2 DEF ComputeDeltas
  <2>. HIDE DEF d, C, to, from, T
  <2>. QED
    BY <2>1, <2>2 DEF IsDelta
<1>4. \A v \in Validators : to[v] = IndexOf(votes[v].next) /\ from[v] = IndexOf(votes[v].current)
  OBVIOUS
<1>5. A = At(Validators, to, T) /\ B = At(Validators, from, T)
  BY DEF VotersBelow, At
<1>6. \A v \in Validators \ C : /\ votes[v].current = votes[v].next
                                /\ votes[v].current # 0 => balances[v] = b[v]
  BY DEF Changed, ZeroHash
<1>7. \A v \in Validators : from[v] \in T => votes[v].current # 0
  <2>1. IndexOf(0) = 0
    BY <1>0, IndexFacts
  <2>. HIDE DEF T
  <2>. QED
    BY <1>2, <1>4, <2>1
<1>. HIDE DEF T, C, d, to, from, B
<1>8. Unmoved(Validators \ C, T, b, to, balances, from)
  BY <1>4, <1>6, <1>7 DEF Unmoved
<1>9. nodes[i].weight = SumOver(balances, B)
  BY DEF WeightInv, B
<1>10. SumOver(balances, B) + SumOver(d, T) = SumOver(b, A) /\ SumOver(b, A) \in Nat
  <2>. DEFINE N == DOMAIN nodes
  <2>1. d \in [N -> Int] /\ T \in SUBSET N /\ IsFiniteSet(T)
    BY <1>1, <1>2
  <2>2. b \in [Validators -> Nat] /\ balances \in [Validators -> Nat]
    BY <1>1
  <2>3. C \in SUBSET Validators /\ IsFiniteSet(Validators)
    BY <1>1
  <2>. HIDE DEF N
  <2>4. /\ SumOver(balances, At(Validators, from, T)) + SumOver(d, T)
               = SumOver(b, At(Validators, to, T))
        /\ SumOver(b, At(Validators, to, T)) \in Nat
    BY <1>3, <1>8, <2>1, <2>2, <2>3, MovedBalance, Zenon
  <2>. QED
    BY <1>5, <2>4, Zenon
<1>. QED
  BY <1>9, <1>10 DEF d, T

\* Head brings every weight up to date.
LEMMA WeightFindHead ==
  ASSUME WeightInv, NEW je \in Epochs, NEW fe \in Epochs, NEW root \in BlockRoots,
         NEW b \in BalanceVectors, FindHead(je, fe, root, b)
  PROVE  WeightInv'
<1>0. StoreInv /\ StoreInv' /\ VoteInv /\ Tree(nodes)
  BY StoreFindHead DEF WeightInv, StoreInv, ArrayInv
<1>1. /\ nodes' = RefreshLinks(ApplyDeltas(ComputeDeltas(b)), je, fe)
      /\ votes' = [v \in Validators |-> [votes[v] EXCEPT !.current = votes[v].next]]
      /\ counted' = {v \in Validators : IF v \in Changed(b)
                                        THEN IndexOf(votes[v].next) # 0 ELSE v \in counted}
      /\ balances' = b /\ nodesIndices' = nodesIndices /\ parentOf' = parentOf
  BY DEF FindHead, NonExistentNode
<1>2. /\ Tree(nodes') /\ SameBlocks(nodes', nodes) /\ Len(nodes') = Len(nodes)
      /\ \A i \in 1 .. Len(nodes) :
            nodes'[i].weight = LET w == nodes[i].weight + SumOver(ComputeDeltas(b), Subtree(nodes, i))
                               IN  IF w < 0 THEN 0 ELSE w
  BY <1>0, <1>1, HeadArray DEF SameBlocks
<1>3. \A i : Subtree(nodes', i) = Subtree(nodes, i)
  BY <1>0, <1>2, SameBlocksTree
<1>4. \A v \in Validators : votes'[v].current = votes[v].next /\ votes'[v].next = votes[v].next
  BY <1>0, <1>1 DEF StoreInv, CallerInv
<1>5. \A v \in Validators : IndexOf(votes[v].current)' = IndexOf(votes[v].next)
  BY <1>1, <1>4 DEF IndexOf
<1>6. VoteInv'
  <2>. SUFFICES ASSUME NEW v \in Validators
                PROVE  /\ votes'[v].current \in DOMAIN parentOf' \cup {ZeroHash}
                       /\ votes'[v].next \in DOMAIN parentOf' \cup {ZeroHash}
                       /\ IndexOf(votes[v].current)' # 0 => v \in counted'
    BY DEF VoteInv
  <2>1. /\ votes[v].next \in DOMAIN parentOf \cup {ZeroHash}
        /\ IndexOf(votes[v].current) # 0 => v \in counted
    BY <1>0 DEF VoteInv
  <2>2. v \notin Changed(b) => votes[v].current = votes[v].next
    BY DEF Changed, ZeroHash
  <2>3. IndexOf(votes[v].next) # 0 => v \in counted'
    BY <1>1, <2>1, <2>2
  <2>. QED
    BY <1>1, <1>4, <1>5, <2>1, <2>3
<1>7. ASSUME NEW i \in 1 .. Len(nodes') PROVE nodes'[i].weight = SumOver(balances', VotersBelow(i)')
  <2>. DEFINE A == {v \in Validators : IndexOf(votes[v].next) \in Subtree(nodes, i)}
              w == nodes[i].weight + SumOver(ComputeDeltas(b), Subtree(nodes, i))
  <2>1. VotersBelow(i)' = A
    BY <1>3, <1>5 DEF VotersBelow
  <2>. HIDE DEF A
  <2>2. w = SumOver(b, A) /\ SumOver(b, A) \in Nat
    BY <1>2, DeltasBalance DEF A
  <2>3. nodes'[i].weight = IF w < 0 THEN 0 ELSE w
    BY <1>2
  <2>. HIDE DEF w
  <2>. QED
    BY <1>1, <2>1, <2>2, <2>3
<1>. QED
  BY <1>0, <1>6, <1>7 DEF WeightInv

\* Every step keeps the weights.
LEMMA WeightStep ==
  ASSUME WeightInv, ~UnknownVotes, [Next]_vars
  PROVE  WeightInv'
<1>1. CASE UNCHANGED vars
  <2>1. /\ nodes' = nodes /\ nodesIndices' = nodesIndices /\ parentOf' = parentOf /\ votes' = votes
        /\ balances' = balances /\ counted' = counted
    BY <1>1 DEF vars, storeVars, voteVars
  <2>2. StoreInv'
    BY StoreStep DEF WeightInv
  <2>. QED
    BY <2>1, <2>2 DEF WeightInv, VoteInv, VotersBelow, IndexOf
<1>2. CASE \E r, p \in BlockRoots, je, fe \in Epochs : ProcessBlock(r, p, je, fe)
  BY <1>2, WeightProcessBlock, Zenon
<1>3. CASE \E v \in Validators, r \in BlockRoots, e \in TargetEpochs : ProcessAttestation(v, r, e)
  BY <1>3, WeightProcessAttestation, Zenon
<1>4. CASE \E je, fe \in Epochs, r \in BlockRoots, b \in BalanceVectors : FindHead(je, fe, r, b)
  BY <1>4, WeightFindHead, Zenon
<1>5. CASE \E r \in BlockRoots : Prune(r)
  BY <1>5, WeightPrune, Zenon
<1>. QED
  BY <1>1, <1>2, <1>3, <1>4, <1>5, Zenon DEF Next

\* When attestations are for blocks of the store only, the weights that
\* computeDeltas and applyWeightChanges keep up to date are, after any run of
\* calls, the balances of the counted votes: no vote is lost, counted twice or
\* left behind by a prune, and no weight is ever cut off at zero.  (With votes
\* for blocks that come later this is false: see the run that violates it.)
THEOREM WeightsCounted ==
  ASSUME ~UnknownVotes
  PROVE  Spec => []WeightIsCountedVotes
<1>1. Init => WeightInv
  BY WeightInit
<1>2. WeightInv /\ [Next]_vars => WeightInv'
  BY WeightStep
<1>3. WeightInv => WeightIsCountedVotes
  BY WeightFacts
<1>. QED
  BY <1>1, <1>2, <1>3, PTL DEF Spec

===============================================================================
