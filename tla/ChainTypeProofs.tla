--------------------------- MODULE ChainTypeProofs ---------------------------
(* Facts about the operators of ChainService, the chains of the block tree and *)
(* the fork choice store when blocks are inserted and pruned, and the types of *)
(* its variables, for any number of receivers and any setting of the flags.    *)
EXTENDS ChainService, FiniteSetTheorems, TLAPS

-------------------------------------------------------------------------------
(* The block tree.  Induction is by the numbers of the blocks: a set with the  *)
(* genesis block and every block whose parent it has is the set of all blocks. *)

\* What is assumed of the tree.
LEMMA ParentFacts ==
  /\ Genesis \in Blocks /\ Blocks \subseteq Nat /\ Slot[Genesis] = 0
  /\ \A b \in Blocks : b \in Nat /\ Parent[b] \in Blocks /\ Parent[b] \in Nat /\ Slot[b] \in Nat
  /\ \A b \in Blocks \ {Genesis} : Parent[b] < b /\ Slot[Parent[b]] < Slot[b]
BY TreeAssumption, Zenon

\* The principle of induction.
LEMMA BlockInduction ==
  ASSUME NEW T, T \subseteq Blocks, Genesis \in T,
         \A b \in Blocks \ {Genesis} : Parent[b] \in T => b \in T
  PROVE  T = Blocks
<1>. SUFFICES ASSUME Blocks \ T # {} PROVE FALSE
  OBVIOUS
<1>. DEFINE S == Blocks \ T
            R == {ss \in Nat \X Nat : ss[1] < ss[2]}
<1>0. S \subseteq Nat /\ S # {}
  BY TreeAssumption
<1>1. IsWellFoundedOn(R, Nat)
  <2>1. OpToRel(<, Nat) = R
    BY Zenon DEF OpToRel
  <2>. QED
    BY <2>1, NatLessThanWellFounded
<1>2. PICK m \in S : \A y \in S : ~(<<y, m>> \in R)
  <2>. HIDE DEF R, S
  <2>. QED
    BY <1>0, <1>1, WFMin
<1>3. m # Genesis /\ m \in Blocks \ {Genesis} /\ Parent[m] \notin T
  OBVIOUS
<1>4. Parent[m] \in S /\ Parent[m] < m /\ Parent[m] \in Nat /\ m \in Nat
  BY <1>3, ParentFacts
<1>5. <<Parent[m], m>> \in R
  <2>1. <<Parent[m], m>> \in Nat \X Nat /\ (<<Parent[m], m>> \in R <=> Parent[m] < m)
    BY <1>4
  <2>. QED
    BY <2>1, <1>4
<1>. QED
  BY <1>2, <1>4, <1>5

\* The recursive definition of Ancestors has a solution: the least sets that are
\* closed under Parent.
LEMMA AncestorsUnfold ==
  \A b \in Blocks : Ancestors[b] = IF b = Genesis THEN {Genesis} ELSE {b} \cup Ancestors[Parent[b]]
<1>. DEFINE Closed == {S \in SUBSET Blocks : \A x \in S : Parent[x] \in S}
            A(b) == {a \in Blocks : \A S \in Closed : b \in S => a \in S}
            g == [b \in Blocks |-> A(b)]
            Def(f) == [b \in Blocks |-> IF b = Genesis THEN {Genesis} ELSE {b} \cup f[Parent[b]]]
<1>1. A(Genesis) = {Genesis}
  <2>1. {Genesis} \in Closed
    BY TreeAssumption
  <2>. QED
    BY <2>1, TreeAssumption
<1>2. ASSUME NEW b \in Blocks PROVE A(b) = {b} \cup A(Parent[b])
  <2>1. Parent[b] \in Blocks
    BY TreeAssumption
  <2>2. {b} \cup A(Parent[b]) \subseteq A(b)
    BY <2>1
  <2>3. {b} \cup A(Parent[b]) \in Closed
    BY <2>1, TreeAssumption
  <2>4. A(b) \subseteq {b} \cup A(Parent[b])
    <3>. HIDE DEF Closed
    <3>. QED
      BY <2>3
  <2>. QED
    BY <2>2, <2>4
<1>3. g = Def(g)
  <2>1. ASSUME NEW b \in Blocks
        PROVE  g[b] = IF b = Genesis THEN {Genesis} ELSE {b} \cup g[Parent[b]]
    <3>1. g[b] = A(b) /\ g[Parent[b]] = A(Parent[b])
      BY TreeAssumption
    <3>. HIDE DEF g, A
    <3>. QED
      BY <1>1, <1>2, <3>1
  <2>. HIDE DEF A
  <2>2. g = [b \in Blocks |-> g[b]]
    OBVIOUS
  <2>. HIDE DEF g
  <2>. QED
    BY <2>1, <2>2
<1>4. Ancestors = CHOOSE f : f = Def(f)
  BY DEF Ancestors
<1>5. Ancestors = Def(Ancestors)
  <2>. HIDE DEF g, Def
  <2>. QED
    BY <1>3, <1>4
<1>. QED
  BY <1>5

\* The chain of a block: it ends in the genesis block, its slots grow, it
\* contains the chains of its blocks, and of two of them the earlier is on the
\* chain of the later.
LEMMA ChainFacts ==
  \A b \in Blocks :
    /\ Ancestors[b] \subseteq Blocks /\ b \in Ancestors[b] /\ Genesis \in Ancestors[b]
    /\ \A a \in Ancestors[b] : a =< b /\ (a = b \/ Slot[a] < Slot[b])
    /\ \A a \in Ancestors[b] : Ancestors[a] \subseteq Ancestors[b]
    /\ \A a, c \in Ancestors[b] : Slot[a] =< Slot[c] => a \in Ancestors[c]
<1>. DEFINE P(b) ==
              /\ Ancestors[b] \subseteq Blocks /\ b \in Ancestors[b] /\ Genesis \in Ancestors[b]
              /\ \A a \in Ancestors[b] : a =< b /\ (a = b \/ Slot[a] < Slot[b])
              /\ \A a \in Ancestors[b] : Ancestors[a] \subseteq Ancestors[b]
              /\ \A a, c \in Ancestors[b] : Slot[a] =< Slot[c] => a \in Ancestors[c]
            T == {b \in Blocks : P(b)}
<1>1. Genesis \in T
  <2>1. Ancestors[Genesis] = {Genesis} /\ Genesis \in Nat
    BY AncestorsUnfold, ParentFacts, Zenon
  <2>. QED
    BY <2>1, ParentFacts
<1>2. ASSUME NEW b \in Blocks \ {Genesis}, Parent[b] \in T PROVE b \in T
  <2>. DEFINE q == Parent[b]
  <2>1. /\ Ancestors[b] = {b} \cup Ancestors[q] /\ q \in Blocks /\ q < b /\ Slot[q] < Slot[b]
        /\ q \in Nat /\ b \in Nat /\ Slot[q] \in Nat /\ Slot[b] \in Nat
    BY AncestorsUnfold, ParentFacts
  <2>2. P(q)
    BY <1>2
  <2>. HIDE DEF q
  <2>3. \A a \in Ancestors[q] : a \in Nat /\ Slot[a] \in Nat /\ Slot[a] =< Slot[q]
    <3>1. \A a \in Ancestors[q] : a \in Nat /\ Slot[a] \in Nat
      BY <2>2, ParentFacts
    <3>2. \A a \in Ancestors[q] : a = q \/ Slot[a] < Slot[q]
      BY <2>2
    <3>. QED
      BY <2>1, <3>1, <3>2
  <2>4. /\ Ancestors[b] \subseteq Blocks /\ b \in Ancestors[b] /\ Genesis \in Ancestors[b]
        /\ \A a \in Ancestors[b] : Ancestors[a] \subseteq Ancestors[b]
    BY <2>1, <2>2
  <2>5. \A a \in Ancestors[b] : a =< b /\ (a = b \/ Slot[a] < Slot[b])
    BY <2>1, <2>2, <2>3
  <2>6. \A a, c \in Ancestors[b] : Slot[a] =< Slot[c] => a \in Ancestors[c]
    <3>. SUFFICES ASSUME NEW a \in Ancestors[b], NEW c \in Ancestors[b], Slot[a] =< Slot[c]
                  PROVE  a \in Ancestors[c]
      OBVIOUS
    <3>1. CASE c = b
      BY <3>1
    <3>2. CASE c # b
      BY <3>2, <2>1, <2>2, <2>3
    <3>. QED
      BY <3>1, <3>2
  <2>. QED
    BY <2>4, <2>5, <2>6
<1>. HIDE DEF P
<1>3. T = Blocks
  <2>1. T \subseteq Blocks
    OBVIOUS
  <2>. HIDE DEF T
  <2>. QED
    BY <1>1, <1>2, <2>1, BlockInduction
<1>. QED
  BY <1>3 DEF P

\* The block of a chain at a slot, or the last one before it, exists.
LEMMA AncestorAtFacts ==
  ASSUME NEW b \in Blocks, NEW s \in Nat
  PROVE  /\ AncestorAt(b, s) \in Ancestors[b] /\ Slot[AncestorAt(b, s)] =< s
         /\ \A c \in Ancestors[b] : Slot[c] =< s => Slot[c] =< Slot[AncestorAt(b, s)]
<1>. DEFINE Last(x, a) == /\ Slot[a] =< s
                          /\ \A c \in Ancestors[x] : Slot[c] =< s => Slot[c] =< Slot[a]
            T == {x \in Blocks : \E a \in Ancestors[x] : Last(x, a)}
<1>1. Genesis \in T
  <2>1. Ancestors[Genesis] = {Genesis} /\ Slot[Genesis] = 0 /\ Genesis \in Blocks
    BY AncestorsUnfold, ParentFacts, Zenon
  <2>2. Last(Genesis, Genesis)
    BY <2>1
  <2>. QED
    BY <2>1, <2>2
<1>2. ASSUME NEW x \in Blocks \ {Genesis}, Parent[x] \in T PROVE x \in T
  <2>1. Ancestors[x] = {x} \cup Ancestors[Parent[x]]
    BY AncestorsUnfold
  <2>2. CASE Slot[x] =< s
    <3>1. x \in Ancestors[x] /\ \A c \in Ancestors[x] : Slot[c] =< Slot[x]
      <4>1. /\ x \in Ancestors[x]
            /\ \A c \in Ancestors[x] : c \in Blocks /\ (c = x \/ Slot[c] < Slot[x])
        BY ChainFacts
      <4>2. Slot[x] \in Nat /\ \A c \in Ancestors[x] : Slot[c] \in Nat
        BY <4>1, ParentFacts, Zenon
      <4>. QED
        BY <4>1, <4>2
    <3>. QED
      BY <2>2, <3>1
  <2>3. CASE ~(Slot[x] =< s)
    <3>1. PICK a \in Ancestors[Parent[x]] : Last(Parent[x], a)
      BY <1>2
    <3>2. Last(x, a)
      BY <2>1, <2>3, <3>1
    <3>. QED
      BY <2>1, <3>2
  <2>. QED
    BY <2>2, <2>3
<1>3. T = Blocks
  <2>1. T \subseteq Blocks
    OBVIOUS
  <2>. HIDE DEF T
  <2>. QED
    BY <1>1, <1>2, <2>1, BlockInduction
<1>4. \E a \in Ancestors[b] : Last(b, a)
  BY <1>3
<1>. QED
  BY <1>4 DEF AncestorAt

\* A finite set of blocks in order is a sequence of all of them.
LEMMA InOrderFacts ==
  ASSUME NEW S, S \subseteq Blocks, IsFiniteSet(S)
  PROVE  /\ InOrder(S) \in Seq(S) /\ Len(InOrder(S)) = Cardinality(S)
         /\ \A b \in S : \E i \in DOMAIN InOrder(S) : InOrder(S)[i] = b
<1>. DEFINE n == Cardinality(S)
            below(b) == {c \in S : c < b}
            rank == [b \in S |-> Cardinality(below(b))]
<1>0. n \in Nat /\ S \subseteq Nat
  BY FS_CardinalityType, ParentFacts
<1>1. ASSUME NEW b \in S
      PROVE  IsFiniteSet(below(b)) /\ Cardinality(below(b)) \in 0..n - 1
  <2>1. below(b) \in SUBSET S /\ below(b) # S
    BY <1>0
  <2>2. IsFiniteSet(below(b)) /\ Cardinality(below(b)) =< n /\ Cardinality(below(b)) # n
    <3>. HIDE DEF below
    <3>. QED
      BY <2>1, FS_Subset
  <2>3. Cardinality(below(b)) \in Nat
    BY <2>2, FS_CardinalityType
  <2>. QED
    BY <1>0, <2>2, <2>3
<1>2. ASSUME NEW a \in S, NEW b \in S, a < b
      PROVE  Cardinality(below(a)) # Cardinality(below(b))
  <2>1. below(a) \in SUBSET below(b) /\ below(a) # below(b)
    <3>1. \A c \in S : c < a => c < b
      BY <1>0, <1>2
    <3>2. ~(a < a)
      BY <1>0
    <3>. QED
      BY <1>2, <3>1, <3>2
  <2>. HIDE DEF below
  <2>. QED
    BY <1>1, <2>1, FS_Subset
<1>3. rank \in Injection(S, 0..n - 1)
  <2>1. rank \in [S -> 0..n - 1]
    BY <1>1, Zenon
  <2>2. \A a, b \in S : rank[a] = rank[b] => a = b
    <3>. SUFFICES ASSUME NEW a \in S, NEW b \in S, a # b PROVE rank[a] # rank[b]
      OBVIOUS
    <3>1. rank[a] = Cardinality(below(a)) /\ rank[b] = Cardinality(below(b))
      OBVIOUS
    <3>2. a < b \/ b < a
      BY <1>0
    <3>. HIDE DEF rank, below
    <3>. QED
      BY <1>2, <3>1, <3>2
  <2>. HIDE DEF rank
  <2>. QED
    BY <2>1, <2>2 DEF Injection, IsInjective
<1>4. rank \in Surjection(S, 0..n - 1)
  <2>1. IsFiniteSet(0..n - 1) /\ Cardinality(0..n - 1) = n
    <3>. DEFINE m == n - 1
    <3>0. 0 \in Int /\ m \in Int
      BY <1>0
    <3>. HIDE DEF m
    <3>1. /\ IsFiniteSet(0..m)
          /\ Cardinality(0..m) = IF 0 > m THEN 0 ELSE m - 0 + 1
      BY <3>0, FS_Interval, Zenon
    <3>. QED
      BY <1>0, <3>1 DEF m
  <2>. HIDE DEF rank
  <2>. QED
    BY <1>3, <2>1, FS_Injection
<1>. DEFINE at(i) == CHOOSE b \in S : Cardinality(below(b)) = i - 1
<1>5. ASSUME NEW i \in 1..n PROVE at(i) \in S /\ Cardinality(below(at(i))) = i - 1
  <2>1. \E b \in S : rank[b] = i - 1
    <3>1. i - 1 \in 0..n - 1
      BY <1>0
    <3>. HIDE DEF rank
    <3>. QED
      BY <1>4, <3>1 DEF Surjection
  <2>2. \E b \in S : Cardinality(below(b)) = i - 1
    BY <2>1
  <2>. HIDE DEF below
  <2>. QED
    BY <2>2
<1>6. InOrder(S) = [i \in 1..n |-> at(i)]
  BY DEF InOrder
<1>7. ASSUME NEW b \in S PROVE \E i \in 1..n : at(i) = b
  <2>. DEFINE i == Cardinality(below(b)) + 1
  <2>1. i \in 1..n /\ i - 1 = Cardinality(below(b))
    BY <1>0, <1>1
  <2>2. at(i) \in S /\ Cardinality(below(at(i))) = Cardinality(below(b))
    <3>. HIDE DEF i, at, below
    <3>. QED
      BY <2>1, <1>5
  <2>. HIDE DEF i, at
  <2>3. at(i) = b
    <3>0. at(i) \in Nat /\ b \in Nat
      BY <1>0, <2>2, Zenon
    <3>1. at(i) < b \/ b < at(i) \/ at(i) = b
      BY <3>0
    <3>. HIDE DEF below
    <3>. QED
      BY <3>1, <2>2, <1>2
  <2>. QED
    BY <2>1, <2>3
<1>. HIDE DEF at
<1>8. InOrder(S) \in [1..n -> S] /\ DOMAIN InOrder(S) = 1..n
  BY <1>5, <1>6
<1>9. InOrder(S) \in Seq(S) /\ Len(InOrder(S)) = n
  BY <1>0, <1>8
<1>. QED
  BY <1>6, <1>7, <1>8, <1>9

\* The blocks of a chain are finitely many.
LEMMA ChainsAreFinite == \A b \in Blocks : IsFiniteSet(Ancestors[b])
<1>. SUFFICES ASSUME NEW b \in Blocks PROVE IsFiniteSet(Ancestors[b])
  OBVIOUS
<1>1. Ancestors[b] \in SUBSET Nat /\ b \in Nat /\ \A a \in Ancestors[b] : a =< b
  BY ChainFacts, ParentFacts
<1>. QED
  BY <1>1, FS_BoundedSetOfNaturals

\* A batch is a sequence of one block or more.
LEMMA BatchFacts ==
  ASSUME NEW from \in Blocks, NEW to \in Blocks, from # to, from \in Ancestors[to]
  PROVE  Chain(from, to) \in Seq(Blocks) /\ Chain(from, to) # <<>>
<1>. DEFINE S == Ancestors[to] \ Ancestors[from]
<1>1. S \subseteq Ancestors[to] /\ S \subseteq Blocks /\ IsFiniteSet(S)
  BY ChainFacts, ChainsAreFinite, FS_Subset, S \in SUBSET Ancestors[to]
<1>2. to \in S
  <2>1. to \in Ancestors[to] /\ Slot[from] < Slot[to] /\ Slot[from] \in Nat /\ Slot[to] \in Nat
    BY ChainFacts, ParentFacts
  <2>2. to \notin Ancestors[from]
    BY <2>1, ChainFacts
  <2>. QED
    BY <2>1, <2>2
<1>. HIDE DEF S
<1>3. InOrder(S) \in Seq(S) /\ \E i \in DOMAIN InOrder(S) : InOrder(S)[i] = to
  BY <1>1, <1>2, InOrderFacts
<1>4. InOrder(S) \in Seq(Blocks) /\ InOrder(S) # <<>>
  BY <1>1, <1>3
<1>. QED
  BY <1>4 DEF Chain, S

-------------------------------------------------------------------------------
(* The fork choice store. *)

Node == [root : Blocks, j : Nat, f : Nat, linked : BOOLEAN]
RootsOf(nodes) == {nodes[i].root : i \in DOMAIN nodes}

\* ProcessBlock adds the blocks it is given and keeps the nodes there are.
LEMMA ProcessBlocksFacts ==
  ASSUME NEW nodes \in Seq(Node), NEW S, S \subseteq Blocks, IsFiniteSet(S),
         NEW j \in Checkpoints, NEW f \in Checkpoints
  PROVE  /\ ProcessBlocks(nodes, S, j, f) \in Seq(Node)
         /\ RootsOf(ProcessBlocks(nodes, S, j, f)) = RootsOf(nodes) \cup S
<1>. DEFINE roots == RootsOf(nodes)
            N == S \ roots
            new == InOrder(N)
            node(b) == [root |-> b, j |-> j.epoch, f |-> f.epoch,
                        linked |-> b # Genesis /\ Parent[b] \in roots \cup S]
            more == [i \in DOMAIN new |-> node(new[i])]
<1>1. N \subseteq Blocks /\ IsFiniteSet(N)
  BY FS_Subset, N \in SUBSET S
<1>2. /\ new \in Seq(N)
      /\ \A b \in N : \E i \in DOMAIN new : new[i] = b
  <2>. HIDE DEF N
  <2>. QED
    BY <1>1, InOrderFacts
<1>3. ProcessBlocks(nodes, S, j, f) = nodes \o more
  BY DEF ProcessBlocks, RootsOf
<1>4. \A b \in N : node(b) \in Node /\ node(b).root = b
  BY <1>1 DEF Node, Checkpoints
<1>. HIDE DEF node, new, N, roots
<1>5. /\ DOMAIN new = 1..Len(new) /\ Len(new) \in Nat
      /\ \A i \in DOMAIN new : new[i] \in N
  BY <1>2
<1>6. more \in Seq(Node) /\ DOMAIN more = DOMAIN new /\ Len(more) = Len(new)
  <2>1. more \in [1..Len(new) -> Node]
    BY <1>4, <1>5
  <2>. HIDE DEF more
  <2>. QED
    BY <1>5, <2>1
<1>7. \A i \in DOMAIN more : more[i].root = new[i]
  BY <1>4, <1>5
<1>. HIDE DEF more
<1>8. nodes \o more \in Seq(Node)
  BY <1>6
<1>9. /\ DOMAIN (nodes \o more) = 1..(Len(nodes) + Len(more))
      /\ \A i \in 1..Len(nodes) : (nodes \o more)[i] = nodes[i]
      /\ \A i \in 1..Len(more) : (nodes \o more)[Len(nodes) + i] = more[i]
      /\ \A i \in DOMAIN (nodes \o more) :
            i \in DOMAIN nodes \/ i - Len(nodes) \in DOMAIN more
      /\ DOMAIN nodes = 1..Len(nodes) /\ DOMAIN more = 1..Len(more)
      /\ Len(nodes) \in Nat /\ Len(more) \in Nat
  BY <1>6
<1>10. RootsOf(nodes \o more) \subseteq roots \cup N
  <2>. SUFFICES ASSUME NEW i \in DOMAIN (nodes \o more)
                PROVE  (nodes \o more)[i].root \in roots \cup N
    BY DEF RootsOf
  <2>1. CASE i \in DOMAIN nodes
    BY <2>1, <1>9 DEF roots, RootsOf
  <2>2. CASE i - Len(nodes) \in DOMAIN more
    <3>. DEFINE k == i - Len(nodes)
    <3>1. (nodes \o more)[i] = more[k]
      <4>1. Len(nodes) + k = i
        BY <1>9
      <4>. QED
        BY <2>2, <1>9, <4>1
    <3>. QED
      BY <2>2, <3>1, <1>5, <1>6, <1>7
  <2>. QED
    BY <2>1, <2>2, <1>9
<1>11. roots \subseteq RootsOf(nodes \o more)
  <2>. SUFFICES ASSUME NEW i \in DOMAIN nodes
                PROVE  nodes[i].root \in RootsOf(nodes \o more)
    BY DEF roots, RootsOf
  <2>1. i \in DOMAIN (nodes \o more) /\ (nodes \o more)[i] = nodes[i]
    BY <1>9
  <2>. QED
    BY <2>1 DEF RootsOf
<1>12. N \subseteq RootsOf(nodes \o more)
  <2>. SUFFICES ASSUME NEW b \in N PROVE b \in RootsOf(nodes \o more)
    OBVIOUS
  <2>1. PICK i \in DOMAIN new : new[i] = b
    BY <1>2
  <2>2. Len(nodes) + i \in DOMAIN (nodes \o more) /\ (nodes \o more)[Len(nodes) + i] = more[i]
    BY <1>6, <1>9
  <2>. QED
    BY <2>1, <2>2, <1>6, <1>7 DEF RootsOf
<1>13. roots \cup N = RootsOf(nodes) \cup S
  BY DEF roots, N
<1>. QED
  BY <1>3, <1>8, <1>10, <1>11, <1>12, <1>13

\* A block is inserted with ancestors of it that are in the database.
LEMMA InsertBlockFacts ==
  ASSUME NEW nodes \in Seq(Node), NEW b \in Blocks,
         NEW j \in Checkpoints, NEW f \in Checkpoints
  PROVE  /\ InsertBlock(nodes, b, j, f) \in Seq(Node)
         /\ RootsOf(InsertBlock(nodes, b, j, f)) \subseteq RootsOf(nodes) \cup dbBlocks \cup {b}
<1>. DEFINE M == MissingBlocks(nodes, b)
<1>1. M \subseteq Ancestors[b] /\ M \subseteq dbBlocks
  <2>1. \A a \in M : a \in Ancestors[b] \ {b} /\ \A c \in Ancestors[b] \ {b} :
                        Slot[c] >= Slot[a] => c \in dbBlocks
    BY DEF MissingBlocks
  <2>2. \A a \in Ancestors[b] : Slot[a] >= Slot[a]
    <3>1. \A a \in Ancestors[b] : Slot[a] \in Nat
      BY ChainFacts, ParentFacts
    <3>. QED
      BY <3>1
  <2>. HIDE DEF M
  <2>. QED
    BY <2>1, <2>2
<1>. HIDE DEF M
<1>2. M \cup {b} \subseteq Blocks /\ IsFiniteSet(M \cup {b})
  <2>1. M \cup {b} \in SUBSET Ancestors[b] /\ Ancestors[b] \subseteq Blocks
    BY <1>1, ChainFacts
  <2>. QED
    BY <2>1, ChainsAreFinite, FS_Subset
<1>. DEFINE S == M \cup {b}
<1>3. InsertBlock(nodes, b, j, f) = ProcessBlocks(nodes, S, j, f)
  BY DEF InsertBlock, M
<1>4. /\ ProcessBlocks(nodes, S, j, f) \in Seq(Node)
      /\ RootsOf(ProcessBlocks(nodes, S, j, f)) = RootsOf(nodes) \cup S
  <2>1. S \subseteq Blocks /\ IsFiniteSet(S)
    BY <1>2
  <2>. HIDE DEF S
  <2>. QED
    BY <2>1, ProcessBlocksFacts
<1>. QED
  BY <1>1, <1>3, <1>4, Zenon

\* Pruning keeps some of the nodes.
LEMMA PruneFacts ==
  ASSUME NEW nodes \in Seq(Node), NEW r \in RootsOf(nodes)
  PROVE  /\ PruneNodes(nodes, r) \in Seq(Node)
         /\ RootsOf(PruneNodes(nodes, r)) \subseteq RootsOf(nodes)
<1>. DEFINE at == CHOOSE i \in DOMAIN nodes : nodes[i].root = r
            kept == SubSeq(nodes, at, Len(nodes))
            roots == {kept[i].root : i \in DOMAIN kept}
            node(i) == [kept[i] EXCEPT !.linked = @ /\ Parent[kept[i].root] \in roots]
            new == [i \in DOMAIN kept |-> node(i)]
<1>1. at \in DOMAIN nodes
  BY DEF RootsOf
<1>. HIDE DEF at
<1>2. /\ kept \in Seq(Node) /\ DOMAIN kept = 1..Len(kept) /\ Len(kept) \in Nat
      /\ \A i \in DOMAIN kept : kept[i] \in Node /\ \E k \in DOMAIN nodes : kept[i] = nodes[k]
  <2>1. at \in 1..Len(nodes) /\ Len(nodes) \in Nat
    BY <1>1
  <2>2. /\ kept \in Seq(Node) /\ Len(kept) = Len(nodes) - at + 1
        /\ \A i \in 1..Len(kept) : kept[i] = nodes[at + i - 1]
    BY <2>1
  <2>. HIDE DEF kept
  <2>3. DOMAIN kept = 1..Len(kept) /\ Len(kept) \in Nat
    BY <2>2
  <2>4. \A i \in 1..Len(kept) : at + i - 1 \in DOMAIN nodes
    BY <2>1, <2>2
  <2>. QED
    BY <2>2, <2>3, <2>4
<1>. HIDE DEF kept
<1>3. \A i \in DOMAIN kept : node(i) \in Node /\ node(i).root = kept[i].root
  BY <1>2 DEF Node
<1>. HIDE DEF node
<1>4. new \in Seq(Node) /\ DOMAIN new = DOMAIN kept
  <2>1. new \in [1..Len(kept) -> Node]
    BY <1>2, <1>3
  <2>. HIDE DEF new
  <2>. QED
    BY <1>2, <2>1
<1>5. RootsOf(new) \subseteq RootsOf(nodes)
  BY <1>2, <1>3, <1>4 DEF RootsOf
<1>6. PruneNodes(nodes, r) \in {nodes, new}
  BY Zenon DEF PruneNodes, at, kept, node
<1>. QED
  BY <1>4, <1>5, <1>6

-------------------------------------------------------------------------------
(* Types, for any number of receivers and with or without the flags. *)

\* The checkpoints that some block justifies or finalizes.
Justs == {J[b] : b \in Blocks}
Finals == {F[b] : b \in Blocks}

Procedure == [pc : Steps, todo : Seq(Blocks), batch : BOOLEAN, newF : BOOLEAN,
              f : Checkpoints, then : Steps]

\* The attestation routine never takes part in finalization.
RoutineOK(s) ==
    /\ s.pc \in {"idle", "promote", "balances", "clear", "readFinalized", "head", "dead"}
    /\ s.pc \in {"balances", "clear"} => s.then = "readFinalized"

\* A receiver that is under way has a block, and the attestation routine runs
\* only updateHead.
ProcsInv ==
    /\ pr \in [Procs -> Procedure]
    /\ \A p \in Workers : pr[p].pc \notin {"idle", "dead"} => pr[p].todo # <<>>
    /\ RoutineOK(pr[Attester]) /\ pr[Attester].newF = FALSE

\* The checkpoints the node uses come from blocks.
DataInv ==
    /\ {justified, best, dbJustified} \subseteq Justs
    /\ {finalized, dbFinalized} \subseteq Finals
    /\ head \in Blocks
    /\ initSync \subseteq Blocks /\ hot \subseteq Blocks
    /\ dbBlocks \subseteq Blocks /\ dbSummaries \subseteq Blocks
    /\ fc \in Seq(Node)
    /\ fails \in Nat /\ crashes \in Nat /\ fails + crashes =< MaxFaults

\* The genesis checkpoint and the states of a goroutine that does nothing.
LEMMA TreeFacts ==
  /\ GenesisCheckpoint \in Finals /\ Finals \subseteq Checkpoints
  /\ IdleProc \in Procedure /\ IdleProc.pc = "idle" /\ IdleProc.batch = FALSE
  /\ [IdleProc EXCEPT !.pc = "dead"] \in Procedure
  /\ [IdleProc EXCEPT !.pc = "dead"].pc = "dead"
<1>1. GenesisCheckpoint \in Checkpoints /\ GenesisCheckpoint = F[Genesis] /\ Genesis \in Blocks
  BY TreeAssumption DEF Checkpoints, GenesisCheckpoint
<1>2. Finals \subseteq Checkpoints
  BY TreeAssumption DEF Finals
<1>3. <<>> \in Seq(Blocks)
  OBVIOUS
<1>. QED
  BY <1>1, <1>2, <1>3, Zenon DEF Finals, IdleProc, Procedure, Steps

\* A step of one goroutine keeps ProcsInv when it does so for itself.
LEMMA ProcMoves ==
  ASSUME ProcsInv, NEW p \in Procs, NEW s \in Procedure, pr' = [pr EXCEPT ![p] = s],
         p \in Workers /\ s.pc \notin {"idle", "dead"} => s.todo # <<>>,
         p = Attester => RoutineOK(s) /\ s.newF = FALSE
  PROVE  ProcsInv'
<1>1. /\ pr' \in [Procs -> Procedure] /\ pr'[p] = s
      /\ \A q \in Procs \ {p} : pr'[q] = pr[q]
  BY DEF ProcsInv
<1>. QED
  BY <1>1, TreeAssumption DEF ProcsInv, Procs

\* The ways on of a goroutine that is under way, but for ClearInitSyncBlocks.
LEMMA ProcReturns ==
  ASSUME ProcsInv, NEW p \in Procs, Return(p)
  PROVE  ProcsInv'
  BY TreeFacts, ProcMoves, Zenon DEF Return, RoutineOK, IdleProc

LEMMA ProcGoes ==
  ASSUME ProcsInv, NEW p \in Procs, NEW pc \in Steps, Goto(p, pc),
         pr[p].pc \notin {"idle", "dead"} \/ p = Attester,
         p = Attester => \/ pc \in {"idle", "promote", "readFinalized", "head", "dead"}
                         \/ pc = "clear" /\ pr[p].pc = "balances"
  PROVE  ProcsInv'
<1>. DEFINE s == [pr[p] EXCEPT !.pc = pc]
<1>1. pr[p] \in Procedure /\ pr' = [pr EXCEPT ![p] = s]
  BY DEF ProcsInv, Goto
<1>2. s \in Procedure /\ s.pc = pc /\ s.todo = pr[p].todo /\ s.newF = pr[p].newF
      /\ s.then = pr[p].then
  BY <1>1 DEF Procedure
<1>. HIDE DEF s
<1>3. p \in Workers => p # Attester
  BY TreeAssumption
<1>. QED
  BY <1>1, <1>2, <1>3, ProcMoves DEF ProcsInv, RoutineOK

LEMMA ProcCaches ==
  ASSUME ProcsInv, NEW p \in Procs, NEW pc \in {"balances", "flush"}, NEW then \in Steps,
         pr' = [pr EXCEPT ![p].pc = pc, ![p].then = then],
         pr[p].pc \notin {"idle", "dead"},
         p = Attester => pc = "balances" /\ then = "readFinalized"
  PROVE  ProcsInv'
<1>. DEFINE s == [pr[p] EXCEPT !.pc = pc, !.then = then]
<1>1. pr[p] \in Procedure /\ pr' = [pr EXCEPT ![p] = s]
  BY Zenon DEF ProcsInv
<1>2. s \in Procedure /\ s.pc = pc /\ s.todo = pr[p].todo /\ s.newF = pr[p].newF
      /\ s.then = then
  <2>1. pc \in Steps
    BY DEF Steps
  <2>. QED
    BY <1>1, <2>1, Zenon DEF Procedure
<1>. HIDE DEF s
<1>3. p = Attester => RoutineOK(s) /\ s.newF = FALSE
  BY <1>2 DEF ProcsInv, RoutineOK
<1>4. p \in Workers => s.todo # <<>>
  BY <1>2 DEF ProcsInv
<1>. QED
  BY <1>1, <1>2, <1>3, <1>4, ProcMoves, Zenon

LEMMA ProcBatches ==
  ASSUME ProcsInv, NEW p \in Workers, NextOfBatch(p), pr[p].pc \notin {"idle", "dead"}
  PROVE  ProcsInv'
<1>0. p \in Procs /\ p # Attester
  BY TreeAssumption DEF Procs
<1>1. pr[p] \in Procedure /\ pr[p].todo \in Seq(Blocks) /\ pr[p].todo # <<>>
  BY <1>0 DEF ProcsInv, Procedure
<1>2. CASE Len(pr[p].todo) = 1
  BY <1>0, <1>2, ProcReturns DEF NextOfBatch
<1>3. CASE Len(pr[p].todo) # 1
  <2>. DEFINE s == [pr[p] EXCEPT !.pc = "batchInsert", !.todo = Tail(@)]
  <2>1. pr' = [pr EXCEPT ![p] = s]
    BY <1>0, <1>1, <1>3, Zenon DEF NextOfBatch, ProcsInv
  <2>2. Tail(pr[p].todo) \in Seq(Blocks) /\ Tail(pr[p].todo) # <<>>
    <3>1. \A t \in Seq(Blocks) :
            t # <<>> /\ Len(t) # 1 => Len(Tail(t)) # 0 /\ Tail(t) \in Seq(Blocks)
      OBVIOUS
    <3>. QED
      BY <1>1, <1>3, <3>1, Zenon
  <2>3. s \in Procedure /\ s.todo = Tail(pr[p].todo)
    BY <1>1, <2>2 DEF Procedure, Steps
  <2>. HIDE DEF s
  <2>. QED
    BY <1>0, <2>1, <2>2, <2>3, ProcMoves, Zenon
<1>. QED
  BY <1>2, <1>3

\* A goroutine at one of these steps is a receiver and has a block.
LEMMA ProcReceiver ==
  ASSUME ProcsInv, NEW p \in Procs,
         pr[p].pc \notin {"idle", "promote", "balances", "clear", "readFinalized", "head", "dead"}
  PROVE  p \in Workers /\ p # Attester /\ Blk(p) \in Blocks
<1>1. p \in Workers /\ p # Attester
  BY TreeAssumption DEF ProcsInv, RoutineOK, Procs
<1>2. pr[p].todo \in Seq(Blocks) /\ pr[p].todo # <<>>
  BY <1>1 DEF ProcsInv, Procedure
<1>. QED
  BY <1>1, <1>2 DEF Blk

\* The caller of updateHead goes on.
LEMMA ProcHeads ==
  ASSUME ProcsInv, NEW p \in Procs, pr[p].pc \in {"head", "clear"}, AfterHead(p)
  PROVE  ProcsInv'
  BY ProcReturns, ProcCaches, Zenon DEF AfterHead, FlushThenSave, ProcsInv, Steps
\* Every step keeps ProcsInv ...
LEMMA ProcsNext == ProcsInv /\ DataInv /\ [Next]_vars => ProcsInv'
<1>. SUFFICES ASSUME ProcsInv, DataInv, [Next]_vars PROVE ProcsInv'
  OBVIOUS
<1>. USE DEF At
<1>0. Attester \in Procs /\ Attester \notin Workers /\ Workers \subseteq Procs
  BY TreeAssumption DEF Procs
<1>1. ASSUME NEW p \in Workers, NEW b \in Blocks, ReceiveBlock(p, b) PROVE ProcsInv'
  <2>. DEFINE s == [pr[p] EXCEPT !.pc = "saveBlock", !.todo = <<b>>]
  <2>1. pr[p] \in Procedure /\ pr' = [pr EXCEPT ![p] = s]
    BY <1>0, <1>1 DEF ProcsInv, ReceiveBlock
  <2>2. <<b>> \in Seq(Blocks) /\ <<b>> # <<>>
    OBVIOUS
  <2>3. s \in Procedure /\ s.todo # <<>>
    BY <2>1, <2>2, Zenon DEF Procedure, Steps
  <2>. HIDE DEF s
  <2>. QED
    BY <1>0, <2>1, <2>3, ProcMoves, Zenon
<1>2. ASSUME NEW p \in Workers, NEW from \in Blocks, NEW to \in Blocks,
             ReceiveBlockBatch(p, from, to)
      PROVE  ProcsInv'
  <2>. DEFINE chain == Chain(from, to)
              s == [pr[p] EXCEPT !.pc = "batchInsert", !.todo = chain, !.batch = TRUE]
  <2>1. pr[p] \in Procedure /\ pr' = [pr EXCEPT ![p] = s]
    BY <1>0, <1>2 DEF ProcsInv, ReceiveBlockBatch
  <2>2. chain \in Seq(Blocks) /\ chain # <<>>
    BY <1>2, BatchFacts DEF ReceiveBlockBatch
  <2>. HIDE DEF chain
  <2>3. s \in Procedure /\ s.todo # <<>>
    BY <2>1, <2>2, Zenon DEF Procedure, Steps
  <2>. HIDE DEF s
  <2>. QED
    BY <1>0, <2>1, <2>3, ProcMoves, Zenon
<1>3. ASSUME NEW p \in Procs,
             \/ SaveBlock(p) \/ SaveState(p) \/ InsertToForkChoice(p) \/ BatchInsert(p)
      PROVE  ProcsInv'
  BY <1>3, ProcReceiver, ProcGoes
  DEF SaveBlock, SaveState, InsertToForkChoice, BatchInsert, Steps
<1>4. ASSUME NEW p \in Procs,
             \/ UpdateJustified(p) \/ SaveJustifiedCheckpoint(p) \/ Prune(p)
             \/ FinalizedImpliesNewJustified(p) \/ BatchJustify(p)
      PROVE  ProcsInv'
  <2>1. pr[p].pc \in {"justify", "saveJustified", "prune", "newJustified", "batchSummary"}
    BY <1>4 DEF UpdateJustified, SaveJustifiedCheckpoint, Prune, FinalizedImpliesNewJustified,
                BatchJustify
  <2>2. \/ Return(p)
        \/ \E pc \in Steps : Goto(p, pc) \/ CacheBalancesThen(p, pc)
    BY <1>4 DEF UpdateJustified, SaveJustifiedCheckpoint, Prune, FinalizedImpliesNewJustified,
                BatchJustify, Steps
  <2>3. p \in Workers /\ p # Attester
    BY <2>1, ProcReceiver
  <2>. QED
    BY <2>1, <2>2, <2>3, ProcReturns, ProcGoes, ProcCaches DEF CacheBalancesThen
<1>5. ASSUME NEW p \in Procs, SaveInitSyncBlocks(p) PROVE ProcsInv'
  BY <1>5, ProcGoes, Zenon DEF SaveInitSyncBlocks, Steps, ProcsInv, RoutineOK
<1>6. ASSUME NEW p \in Procs, ClearInitSyncBlocks(p) PROVE ProcsInv'
  <2>. DEFINE s == [pr[p] EXCEPT !.pc = pr[p].then, !.then = "idle"]
  <2>1. pr[p] \in Procedure /\ pr[p].pc = "clear"
    BY <1>6 DEF ProcsInv, ClearInitSyncBlocks
  <2>2. Return(p) \/ AfterHead(p) \/ pr' = [pr EXCEPT ![p] = s]
    BY <1>6, <2>1 DEF ClearInitSyncBlocks, ProcsInv
  <2>3. CASE pr' = [pr EXCEPT ![p] = s]
    <3>1. s \in Procedure /\ s.pc = pr[p].then /\ s.todo = pr[p].todo /\ s.newF = pr[p].newF
      BY <2>1 DEF Procedure, Steps
    <3>. HIDE DEF s
    <3>. QED
      BY <2>1, <2>3, <3>1, ProcMoves DEF ProcsInv, RoutineOK
  <2>. QED
    BY <2>1, <2>2, <2>3, ProcReturns, ProcHeads
<1>7. ASSUME NEW p \in Procs, CheckFinalized(p) PROVE ProcsInv'
  <2>. DEFINE newF == F[Blk(p)].epoch > finalized.epoch
              s == [pr[p] EXCEPT !.newF = newF,
                                 !.pc = IF ~newF THEN "promote"
                                        ELSE IF Timely THEN "newJustified" ELSE "flush",
                                 !.then = IF newF /\ ~Timely THEN "saveFinalized" ELSE @]
  <2>1. pr[p] \in Procedure /\ pr[p].pc = "finalize"
    BY <1>7 DEF ProcsInv, CheckFinalized
  <2>2. p \in Workers /\ p # Attester
    BY <2>1, ProcReceiver
  <2>3. FlushThenSave(p) \/ NextOfBatch(p) \/ pr' = [pr EXCEPT ![p] = s]
    <3>1. CASE pr[p].batch
      BY <1>7, <3>1, Zenon DEF CheckFinalized
    <3>2. CASE ~pr[p].batch
      BY <1>7, <2>1, <3>2 DEF CheckFinalized, ProcsInv
    <3>. QED
      BY <3>1, <3>2
  <2>4. CASE FlushThenSave(p)
    BY <2>1, <2>2, <2>4, ProcCaches, Zenon DEF FlushThenSave, Steps
  <2>5. CASE pr' = [pr EXCEPT ![p] = s]
    <3>1. newF \in BOOLEAN /\ Timely \in BOOLEAN
      BY TreeAssumption
    <3>2. s \in Procedure /\ s.todo = pr[p].todo
      BY <2>1, <3>1 DEF Procedure, Steps
    <3>. HIDE DEF s
    <3>. QED
      BY <2>1, <2>2, <2>5, <3>2, ProcMoves DEF ProcsInv
  <2>. QED
    BY <2>1, <2>2, <2>3, <2>4, <2>5, ProcBatches
<1>8. ASSUME NEW p \in Procs, SaveFinalizedCheckpoint(p) \/ AdoptFinalized(p) PROVE ProcsInv'
  <2>1. pr[p].pc \in {"saveFinalized", "adopt"}
    BY <1>8 DEF SaveFinalizedCheckpoint, AdoptFinalized
  <2>2. p \in Workers /\ p # Attester
    BY <2>1, ProcReceiver
  <2>3. Return(p) \/ NextOfBatch(p) \/ \E pc \in Steps : Goto(p, pc)
    BY <1>8 DEF SaveFinalizedCheckpoint, AdoptFinalized, AfterSaveFinalized, Steps
  <2>. QED
    BY <2>1, <2>2, <2>3, ProcReturns, ProcGoes, ProcBatches
<1>9. ASSUME NEW p \in Procs, ProcessAttestations(p) \/ PromoteBestJustified(p) PROVE ProcsInv'
  BY <1>9, <1>0, ProcGoes, ProcCaches, Zenon
  DEF ProcessAttestations, PromoteBestJustified, CacheBalancesThen, Steps
<1>10. ASSUME NEW p \in Procs, ReadFinalized(p) PROVE ProcsInv'
  <2>. DEFINE s == [pr[p] EXCEPT !.pc = "head", !.f = finalized]
  <2>1. pr[p] \in Procedure /\ pr[p].pc = "readFinalized" /\ pr' = [pr EXCEPT ![p] = s]
    BY <1>10, Zenon DEF ReadFinalized, ProcsInv
  <2>2. s \in Procedure /\ s.pc = "head" /\ s.todo = pr[p].todo /\ s.newF = pr[p].newF
    BY <2>1, TreeFacts, Zenon DEF Procedure, Steps, DataInv
  <2>. HIDE DEF s
  <2>. QED
    BY <2>1, <2>2, ProcMoves DEF ProcsInv, RoutineOK
<1>11. ASSUME NEW p \in Procs, UpdateHead(p) PROVE ProcsInv'
  BY <1>11, ProcHeads DEF UpdateHead
<1>12. ASSUME NEW p \in Procs, Fail(p) PROVE ProcsInv'
  BY <1>12, ProcReturns DEF Fail
<1>13. ASSUME NEW p \in Procs, Panic(p) PROVE ProcsInv'
  <2>1. /\ pr' \in [Procs -> Procedure]
        /\ \A q \in Procs : pr'[q].pc = "dead" /\ pr'[q].newF = FALSE
    BY <1>13, TreeFacts DEF Panic, IdleProc
  <2>. QED
    BY <1>0, <2>1 DEF ProcsInv, RoutineOK
<1>14. CASE Restart
  <2>1. /\ pr' \in [Procs -> Procedure]
        /\ \A q \in Procs : pr'[q].pc = "idle" /\ pr'[q].newF = FALSE
    BY <1>14, TreeFacts DEF Restart, IdleProc
  <2>. QED
    BY <1>0, <2>1 DEF ProcsInv, RoutineOK
<1>15. CASE (\E r \in Blocks : Evict(r)) \/ UNCHANGED vars
  BY <1>15 DEF Evict, vars, ProcsInv
<1>. QED
  BY <1>1, <1>2, <1>3, <1>4, <1>5, <1>6, <1>7, <1>8, <1>9, <1>10, <1>11, <1>12, <1>13,
     <1>14, <1>15 DEF Next

\* Checkpoints have an epoch, and the root of a block once zeros are replaced.
LEMMA JustsFacts ==
  /\ Justs \subseteq Checkpoints /\ GenesisCheckpoint \in Justs
  /\ \A c \in Checkpoints : c.epoch \in Nat /\ EnsureRootNotZeros(c.root) \in Blocks
<1>1. GenesisCheckpoint = J[Genesis] /\ Genesis \in Blocks
  BY TreeAssumption
<1>. QED
  BY <1>1, TreeAssumption DEF Justs, Checkpoints, EnsureRootNotZeros

\* Nodes, by the definition of this module.
LEMMA NodesAreRoots == Nodes = RootsOf(fc)
  BY DEF Nodes, RootsOf

\* The head that updateHead finds is a node of the store.
LEMMA HeadsFacts ==
  ASSUME NEW nodes \in Seq(Node), NEW j, NEW f, NEW root
  PROVE  Heads(nodes, j, f, root) \subseteq RootsOf(nodes) /\ RootsOf(nodes) \subseteq Blocks
<1>1. Heads(nodes, j, f, root) \subseteq RootsOf(nodes)
  BY DEF Heads, RootsOf
<1>2. \A i \in DOMAIN nodes : nodes[i] \in Node
  OBVIOUS
<1>. QED
  BY <1>1, <1>2 DEF RootsOf, Node

\* ... and DataInv.
LEMMA DataNext == ProcsInv /\ DataInv /\ [Next]_vars => DataInv'
<1>. SUFFICES ASSUME ProcsInv, DataInv, [Next]_vars PROVE DataInv'
  OBVIOUS
<1>. USE DEF At, memory, database, Bounds
<1>1. ASSUME NEW p \in Workers, NEW b \in Blocks, ReceiveBlock(p, b) PROVE DataInv'
  BY <1>1, ParentFacts DEF ReceiveBlock, FlushForPreState, BlocksForPreState, DataInv
<1>2. ASSUME NEW p \in Workers, NEW from \in Blocks, NEW to \in Blocks,
             ReceiveBlockBatch(p, from, to)
      PROVE  DataInv'
  <2>1. PICK kept \in {{b \in Ancestors[to] \ Ancestors[from] : Slot[b] % SlotsPerEpoch = 0}
                       \cup {to}} :
              /\ hot' = (IF Slot[from] % SlotsPerEpoch = 0 THEN hot ELSE hot \ {from})
                        \cup kept
              /\ dbSummaries' = dbSummaries \cup kept
                                \cup (IF from \in hot THEN {} ELSE {from})
    BY <1>2 DEF ReceiveBlockBatch
  <2>2. kept \subseteq Blocks
    BY ChainFacts
  <2>3. hot' \subseteq Blocks /\ dbSummaries' \subseteq Blocks
    BY <2>1, <2>2 DEF DataInv
  <2>4. dbBlocks' \subseteq Blocks /\ initSync' \subseteq Blocks
    BY <1>2 DEF ReceiveBlockBatch, FlushForPreState, BlocksForPreState, DataInv
  <2>5. head' \in Blocks /\ UNCHANGED <<justified, best, finalized, fc, dbJustified, dbFinalized,
                                        fails, crashes>>
    BY <1>2 DEF ReceiveBlockBatch
  <2>. QED
    BY <2>3, <2>4, <2>5 DEF DataInv
<1>3. ASSUME NEW p \in Procs, SaveBlock(p) \/ SaveState(p) PROVE DataInv'
  BY <1>3, ProcReceiver DEF SaveBlock, SaveState, DataInv
<1>4. ASSUME NEW p \in Procs, InsertToForkChoice(p) \/ BatchInsert(p) PROVE DataInv'
  <2>1. Blk(p) \in Blocks
    BY <1>4, ProcReceiver DEF InsertToForkChoice, BatchInsert
  <2>2. fc \in Seq(Node) /\ J[Blk(p)] \in Checkpoints /\ F[Blk(p)] \in Checkpoints
    BY <2>1, TreeAssumption DEF DataInv
  <2>3. InsertBlock(fc, Blk(p), J[Blk(p)], F[Blk(p)]) \in Seq(Node)
    BY <2>1, <2>2, InsertBlockFacts
  <2>. QED
    BY <1>4, <2>1, <2>3 DEF InsertToForkChoice, BatchInsert, DataInv
<1>5. ASSUME NEW p \in Procs, UpdateJustified(p) PROVE DataInv'
  <2>1. J[Blk(p)] \in Justs
    BY <1>5, ProcReceiver DEF UpdateJustified, Justs
  <2>2. best' \in {best, J[Blk(p)]} /\ justified' \in {justified, J[Blk(p)]}
    BY <1>5 DEF UpdateJustified
  <2>3. UNCHANGED <<finalized, head, initSync, fc, hot, database, Bounds>>
    BY <1>5 DEF UpdateJustified
  <2>. QED
    BY <2>1, <2>2, <2>3 DEF DataInv
<1>6. ASSUME NEW p \in Procs, SaveInitSyncBlocks(p) \/ ClearInitSyncBlocks(p) PROVE DataInv'
  BY <1>6 DEF SaveInitSyncBlocks, ClearInitSyncBlocks, DataInv
<1>7. ASSUME NEW p \in Procs, SaveJustifiedCheckpoint(p) PROVE DataInv'
  BY <1>7, ProcReceiver DEF SaveJustifiedCheckpoint, Justs, DataInv
<1>8. ASSUME NEW p \in Procs, SaveFinalizedCheckpoint(p) \/ AdoptFinalized(p) PROVE DataInv'
  BY <1>8, ProcReceiver DEF SaveFinalizedCheckpoint, AdoptFinalized, Finals, DataInv
<1>9. ASSUME NEW p \in Procs, Prune(p) PROVE DataInv'
  <2>1. fc \in Seq(Node)
    BY DEF DataInv
  <2>2. fc' \in Seq(Node)
    BY <1>9, <2>1, PruneFacts, NodesAreRoots DEF Prune
  <2>. QED
    BY <1>9, <2>2 DEF Prune, DataInv
<1>10. ASSUME NEW p \in Procs, FinalizedImpliesNewJustified(p) \/ BatchJustify(p) PROVE DataInv'
  <2>1. J[Blk(p)] \in Justs /\ Blk(p) \in Blocks
    BY <1>10, ProcReceiver, Zenon DEF FinalizedImpliesNewJustified, BatchJustify, Justs
  <2>2. justified' \in {justified, J[Blk(p)]}
    BY <1>10, Zenon DEF FinalizedImpliesNewJustified, BatchJustify
  <2>. QED
    BY <1>10, <2>1, <2>2 DEF FinalizedImpliesNewJustified, BatchJustify, DataInv
<1>11. ASSUME NEW p \in Procs, PromoteBestJustified(p) PROVE DataInv'
  BY <1>11 DEF PromoteBestJustified, DataInv
<1>12. ASSUME NEW p \in Procs, UpdateHead(p) PROVE DataInv'
  <2>. DEFINE root == EnsureRootNotZeros(justified.root)
              nodes == StoreForHead(root, justified, pr[p].f)
  <2>1. fc \in Seq(Node) /\ justified \in Checkpoints /\ root \in Blocks
    BY JustsFacts DEF DataInv
  <2>2. pr[p].f \in Checkpoints /\ <<>> \in Seq(Node)
    BY DEF ProcsInv, Procedure
  <2>3. nodes \in Seq(Node)
    BY <2>1, <2>2, InsertBlockFacts, Zenon DEF StoreForHead
  <2>4. fc' = nodes /\ head' \in Heads(nodes, justified, pr[p].f, root) \cup {head}
    BY <1>12 DEF UpdateHead
  <2>5. UNCHANGED <<justified, best, finalized, initSync, hot, database, Bounds>>
    BY <1>12 DEF UpdateHead
  <2>. HIDE DEF nodes
  <2>6. head' \in Blocks
    BY <2>3, <2>4, HeadsFacts DEF DataInv
  <2>. QED
    BY <2>3, <2>4, <2>5, <2>6 DEF DataInv
<1>13. ASSUME NEW p \in Procs, Fail(p) PROVE DataInv'
  BY <1>13, TreeAssumption DEF Fail, DataInv
<1>14. ASSUME NEW r \in Blocks, Evict(r) PROVE DataInv'
  BY <1>14, TreeAssumption DEF Evict, DataInv
<1>15. CASE Restart
  <2>1. dbBlocks' \subseteq Blocks
    BY <1>15 DEF Restart, DataInv
  <2>2. /\ {justified', best', dbJustified'} \subseteq Justs
        /\ {finalized', dbFinalized'} \subseteq Finals
    BY <1>15 DEF Restart, DataInv
  <2>3. head' \in Blocks
    BY <1>15, JustsFacts, TreeFacts DEF Restart, DataInv
  <2>4. fails' \in Nat /\ crashes' \in Nat /\ fails' + crashes' =< MaxFaults
    BY <1>15, TreeAssumption DEF Restart, DataInv
  <2>5. initSync' = {} /\ hot' = {} /\ fc' \in Seq(Node) /\ dbSummaries' = dbSummaries
    BY <1>15 DEF Restart
  <2>. QED
    BY <2>1, <2>2, <2>3, <2>4, <2>5 DEF DataInv
<1>16. ASSUME NEW p \in Procs,
              CheckFinalized(p) \/ ProcessAttestations(p) \/ ReadFinalized(p) \/ Panic(p)
       PROVE  DataInv'
  BY <1>16 DEF CheckFinalized, ProcessAttestations, ReadFinalized, Panic, DataInv
<1>17. CASE UNCHANGED vars
  BY <1>17 DEF vars, DataInv
<1>. QED
  BY <1>1, <1>2, <1>3, <1>4, <1>5, <1>6, <1>7, <1>8, <1>9, <1>10, <1>11, <1>12, <1>13,
     <1>14, <1>15, <1>16, <1>17 DEF Next

\* Both hold when the node starts.
LEMMA TypesInit == Init => ProcsInv /\ DataInv
<1>. SUFFICES ASSUME Init PROVE ProcsInv /\ DataInv
  OBVIOUS
<1>1. ProcsInv
  BY TreeFacts, TreeAssumption DEF Init, ProcsInv, RoutineOK, Procs, IdleProc
<1>2. <<>> \in Seq(Node) /\ {Genesis} \subseteq Blocks
  BY ParentFacts
<1>. IsFiniteSet({Genesis})
  BY FS_Singleton, Zenon
<1>3. fc \in Seq(Node)
  BY <1>2, ProcessBlocksFacts, JustsFacts DEF Init
<1>. QED
  BY <1>1, <1>3, JustsFacts, TreeFacts, ParentFacts, TreeAssumption DEF Init, DataInv

\* Every variable keeps its type, and the roots the code puts together from
\* checkpoints are roots of blocks.
THEOREM ChainTypeCorrect == Spec => []TypeOK
<1>1. Spec => [](ProcsInv /\ DataInv)
  BY TypesInit, ProcsNext, DataNext, PTL DEF Spec
<1>2. ProcsInv /\ DataInv => TypeOK
  <2>. SUFFICES ASSUME ProcsInv, DataInv PROVE TypeOK
    OBVIOUS
  <2>1. {justified, best, finalized, dbJustified, dbFinalized} \subseteq Checkpoints
    BY JustsFacts, TreeFacts DEF DataInv
  <2>2. {fails, crashes, fails + crashes} \subseteq 0 .. MaxFaults
    BY TreeAssumption DEF DataInv
  <2>3. fc \in Seq([root : Blocks, j : Nat, f : Nat, linked : BOOLEAN])
    BY DEF DataInv, Node
  <2>4. pr \in [Procs -> [pc : Steps, todo : Seq(Blocks), batch : BOOLEAN, newF : BOOLEAN,
                          f : Checkpoints, then : Steps]]
    BY DEF ProcsInv, Procedure
  <2>. QED
    BY <2>1, <2>2, <2>3, <2>4 DEF DataInv, TypeOK
<1>. QED
  BY <1>1, <1>2, PTL

===============================================================================
