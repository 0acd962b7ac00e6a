---------------------------- MODULE ForkTreeProofs ----------------------------
(* Facts about the operators of ProtoArray: sums of balances over finite sets, *)
(* trees kept in an array, the links that updateBestChildAndDescendant keeps,  *)
(* and the canonical blocks.                                                   *)
EXTENDS ProtoArray, FiniteSetTheorems, TLAPS

-------------------------------------------------------------------------------
(* Induction *)

\* A set that has every number all of whose predecessors it has.
LEMMA StrongInduction ==
  ASSUME NEW T, \A m \in Nat : (\A k \in Nat : k < m => k \in T) => m \in T
  PROVE  Nat \subseteq T
<1>. SUFFICES ASSUME Nat \ T # {} PROVE FALSE
  OBVIOUS
<1>. DEFINE S == Nat \ T
            R == {ss \in Nat \X Nat : ss[1] < ss[2]}
<1>1. IsWellFoundedOn(R, Nat)
  <2>1. OpToRel(<, Nat) = R
    BY Zenon DEF OpToRel
  <2>. QED
    BY <2>1, NatLessThanWellFounded
<1>2. PICK m \in S : \A y \in S : ~(<<y, m>> \in R)
  <2>1. S \subseteq Nat /\ S # {}
    OBVIOUS
  <2>. HIDE DEF R, S
  <2>. QED
    BY <2>1, <1>1, WFMin, Zenon
<1>3. \A k \in Nat : k < m => k \in T
  BY <1>2
<1>. QED
  BY <1>3

\* What holds of every set whose subsets with one element less have it.
LEMMA FinInduction ==
  ASSUME NEW S, IsFiniteSet(S), NEW Q,
         \A A \in SUBSET S : (\A x \in A : A \ {x} \in Q) => A \in Q
  PROVE  S \in Q
<1>. DEFINE T == {n \in Nat : \A A \in SUBSET S : Cardinality(A) = n => A \in Q}
<1>1. ASSUME NEW m \in Nat, \A k \in Nat : k < m => k \in T PROVE m \in T
  <2>. SUFFICES ASSUME NEW A \in SUBSET S, Cardinality(A) = m PROVE A \in Q
    OBVIOUS
  <2>1. IsFiniteSet(A)
    BY FS_Subset
  <2>2. ASSUME NEW x \in A PROVE A \ {x} \in Q
    <3>1. Cardinality(A \ {x}) = m - 1 /\ IsFiniteSet(A \ {x})
      BY <2>1, FS_RemoveElement
    <3>2. m - 1 \in Nat
      BY <3>1, FS_CardinalityType
    <3>3. m - 1 \in T
      BY <1>1, <3>2
    <3>. QED
      BY <3>1, <3>3
  <2>. QED
    BY <2>2
<1>2. Nat \subseteq T
  <2>. HIDE DEF T
  <2>. QED
    BY <1>1, StrongInduction
<1>3. Cardinality(S) \in T
  BY <1>2, FS_CardinalityType
<1>. QED
  BY <1>3

-------------------------------------------------------------------------------
(* Sums *)

Pick(s) == CHOOSE x \in s : TRUE
SumStep(f, S, it) ==
    [s \in SUBSET S |-> IF s = {} THEN 0 ELSE f[Pick(s)] + it[s \ {Pick(s)}]]

\* SumOver unfolded to the recursive function behind the fold.
LEMMA SumDef ==
  ASSUME NEW f, NEW S
  PROVE  SumOver(f, S) = (CHOOSE it : it = SumStep(f, S, it))[S]
BY DEF SumOver, FoldFunctionOnSet, MapThenFoldSet, SumStep, Pick

\* Removing the chosen element.
LEMMA PickFacts ==
  ASSUME NEW s, IsFiniteSet(s), s # {}
  PROVE  /\ Pick(s) \in s /\ IsFiniteSet(s \ {Pick(s)})
         /\ Cardinality(s) \in Nat /\ Cardinality(s) # 0
         /\ Cardinality(s \ {Pick(s)}) = Cardinality(s) - 1
<1>1. Pick(s) \in s
  BY DEF Pick
<1>. QED
  BY <1>1, FS_RemoveElement, FS_CardinalityType, FS_EmptySet

\* The recursive function behind a sum has a solution.
LEMMA SumSolution ==
  ASSUME NEW f, NEW S, IsFiniteSet(S)
  PROVE  \E it : SumOver(f, S) = it[S] /\ it = SumStep(f, S, it)
<1>. DEFINE D(n) == {s \in SUBSET S : Cardinality(s) <= n}
            Def(n, g) == [s \in D(n) |-> IF s = {} THEN 0 ELSE f[Pick(s)] + g[s \ {Pick(s)}]]
            T == {n \in Nat : \E g : g = Def(n, g)}
<1>0. ASSUME NEW s \in SUBSET S
      PROVE  /\ Cardinality(s) \in Nat
             /\ s # {} => /\ s \ {Pick(s)} \in SUBSET S /\ Cardinality(s) # 0
                          /\ Cardinality(s \ {Pick(s)}) = Cardinality(s) - 1
  <2>1. IsFiniteSet(s)
    BY FS_Subset
  <2>. QED
    BY <2>1, PickFacts, FS_CardinalityType
<1>1. 0 \in T
  <2>1. ASSUME NEW s \in D(0) PROVE s = {}
    <3>1. s \in SUBSET S /\ Cardinality(s) <= 0
      OBVIOUS
    <3>. HIDE DEF D, Def, T
    <3>2. Cardinality(s) \in Nat /\ (s # {} => Cardinality(s) # 0)
      BY <1>0, <3>1, Zenon
    <3>. QED
      BY <3>1, <3>2
  <2>2. [s \in D(0) |-> 0] = Def(0, [s \in D(0) |-> 0])
    <3>. HIDE DEF D
    <3>. QED
      BY <2>1
  <2>. QED
    BY <2>2, Zenon
<1>2. ASSUME NEW n \in Nat, n \in T PROVE n + 1 \in T
  <2>1. PICK g : g = Def(n, g)
    BY <1>2
  <2>. DEFINE h == Def(n + 1, g)
  <2>2. ASSUME NEW s \in D(n) PROVE s \in D(n + 1)
    <3>1. Cardinality(s) \in Nat
      BY <1>0, Zenon
    <3>. QED
      BY <3>1
  <2>3. \A s \in D(n + 1) : s # {} => s \ {Pick(s)} \in D(n)
    BY <1>0
  <2>. HIDE DEF D
  <2>4. ASSUME NEW s \in D(n) PROVE h[s] = g[s]
    <3>1. h[s] = IF s = {} THEN 0 ELSE f[Pick(s)] + g[s \ {Pick(s)}]
      BY <2>2
    <3>2. g[s] = Def(n, g)[s]
      BY <2>1, Zenon
    <3>3. Def(n, g)[s] = IF s = {} THEN 0 ELSE f[Pick(s)] + g[s \ {Pick(s)}]
      OBVIOUS
    <3>. HIDE DEF h, Def
    <3>. QED
      BY <3>1, <3>2, <3>3
  <2>5. h = Def(n + 1, h)
    <3>1. \A s \in D(n + 1) : s # {} => h[s \ {Pick(s)}] = g[s \ {Pick(s)}]
      <4>. HIDE DEF h
      <4>. QED
        BY <2>3, <2>4
    <3>2. Def(n + 1, h) = Def(n + 1, g)
      <4>. HIDE DEF h
      <4>. QED
        BY <3>1
    <3>. QED
      BY <3>2, Zenon
  <2>6. \E k : k = Def(n + 1, k)
    <3>. HIDE DEF h, Def
    <3>. QED
      BY <2>5
  <2>. HIDE DEF Def
  <2>. QED
    BY <2>6
<1>3. \A n \in Nat : n \in T
  <2>. HIDE DEF T
  <2>1. ASSUME NEW m \in Nat, \A k \in Nat : k < m => k \in T PROVE m \in T
    <3>1. CASE m = 0
      BY <3>1, <1>1
    <3>2. CASE m # 0
      <4>1. m - 1 \in Nat /\ m - 1 < m /\ m = (m - 1) + 1
        BY <3>2
      <4>2. m - 1 \in T
        BY <4>1, <2>1
      <4>. QED
        BY <4>1, <4>2, <1>2
    <3>. QED
      BY <3>1, <3>2
  <2>. QED
    BY <2>1, StrongInduction
<1>4. D(Cardinality(S)) = SUBSET S /\ Cardinality(S) \in Nat
  BY FS_Subset, FS_CardinalityType
<1>5. \E g : g = Def(Cardinality(S), g)
  BY <1>3, <1>4
<1>6. \A g : Def(Cardinality(S), g) = SumStep(f, S, g)
  <2>. HIDE DEF D
  <2>. QED
    BY <1>4 DEF SumStep
<1>. DEFINE it == CHOOSE g : g = SumStep(f, S, g)
<1>7. it = SumStep(f, S, it)
  <2>. HIDE DEF T, Def
  <2>1. \E g : g = SumStep(f, S, g)
    BY <1>5, <1>6
  <2>. QED
    BY <2>1, Zenon
<1>8. SumOver(f, S) = it[S]
  BY SumDef
<1>. QED
  <2>. HIDE DEF it
  <2>. QED
    BY <1>7, <1>8

\* A value of the solution.
LEMMA SumValue ==
  ASSUME NEW f, NEW S, NEW it, it = SumStep(f, S, it), NEW s \in SUBSET S
  PROVE  it[s] = IF s = {} THEN 0 ELSE f[Pick(s)] + it[s \ {Pick(s)}]
<1>1. it[s] = SumStep(f, S, it)[s]
  BY Zenon
<1>2. SumStep(f, S, it)[s] = IF s = {} THEN 0 ELSE f[Pick(s)] + it[s \ {Pick(s)}]
  BY DEF SumStep
<1>. QED
  BY <1>1, <1>2

\* A sum is the value of a chosen element and the sum of the rest.
LEMMA SumPick ==
  ASSUME NEW f, NEW S, IsFiniteSet(S)
  PROVE  SumOver(f, S) = IF S = {} THEN 0 ELSE f[Pick(S)] + SumOver(f, S \ {Pick(S)})
<1>1. PICK g : SumOver(f, S) = g[S] /\ g = SumStep(f, S, g)
  BY SumSolution
<1>2. g[S] = IF S = {} THEN 0 ELSE f[Pick(S)] + g[S \ {Pick(S)}]
  BY <1>1, SumValue
<1>3. ASSUME S # {} PROVE g[S \ {Pick(S)}] = SumOver(f, S \ {Pick(S)})
  <2>. DEFINE A == S \ {Pick(S)}
  <2>1. IsFiniteSet(A) /\ SUBSET A \subseteq SUBSET S
    BY FS_Subset
  <2>. HIDE DEF A
  <2>2. PICK k : SumOver(f, A) = k[A] /\ k = SumStep(f, A, k)
    BY <2>1, SumSolution
  <2>. DEFINE R == {s \in SUBSET A : g[s] = k[s]}
  <2>3. ASSUME NEW s \in SUBSET A, \A x \in s : s \ {x} \in R PROVE s \in R
    <3>1. k[s] = IF s = {} THEN 0 ELSE f[Pick(s)] + k[s \ {Pick(s)}]
      BY <2>2, SumValue
    <3>2. g[s] = IF s = {} THEN 0 ELSE f[Pick(s)] + g[s \ {Pick(s)}]
      <4>1. s \in SUBSET S
        BY <2>1
      <4>. QED
        BY <1>1, <4>1, SumValue
    <3>3. s # {} => g[s \ {Pick(s)}] = k[s \ {Pick(s)}]
      <4>1. s # {} => Pick(s) \in s
        BY DEF Pick
      <4>. QED
        BY <2>3, <4>1
    <3>. QED
      BY <3>1, <3>2, <3>3
  <2>4. A \in R
    <3>. HIDE DEF R
    <3>. QED
      BY <2>1, <2>3, FinInduction, Zenon
  <2>. QED
    BY <2>2, <2>4 DEF A
<1>. QED
  BY <1>1, <1>2, <1>3

\* The empty sum.
LEMMA SumEmpty ==
  ASSUME NEW f
  PROVE  SumOver(f, {}) = 0
BY SumPick, FS_EmptySet

\* Sums of integers are integers.
LEMMA SumType ==
  ASSUME NEW D, NEW f \in [D -> Int], NEW S \in SUBSET D, IsFiniteSet(S)
  PROVE  SumOver(f, S) \in Int
<1>. DEFINE Q == {A \in SUBSET S : SumOver(f, A) \in Int}
<1>1. ASSUME NEW A \in SUBSET S, \A x \in A : A \ {x} \in Q PROVE A \in Q
  <2>1. IsFiniteSet(A)
    BY FS_Subset
  <2>2. SumOver(f, A) = IF A = {} THEN 0 ELSE f[Pick(A)] + SumOver(f, A \ {Pick(A)})
    BY <2>1, SumPick, Zenon
  <2>3. A # {} => f[Pick(A)] \in Int /\ SumOver(f, A \ {Pick(A)}) \in Int
    <3>1. A # {} => Pick(A) \in A
      BY DEF Pick
    <3>. QED
      BY <1>1, <3>1
  <2>. QED
    BY <2>2, <2>3
<1>. HIDE DEF Q
<1>2. S \in Q
  BY <1>1, FinInduction
<1>. QED
  BY <1>2 DEF Q

\* The chosen element may be any.
LEMMA SumRemove ==
  ASSUME NEW D, NEW f \in [D -> Int], NEW S \in SUBSET D, IsFiniteSet(S), NEW x \in S
  PROVE  SumOver(f, S) = f[x] + SumOver(f, S \ {x})
<1>. DEFINE Q == {A \in SUBSET S : \A z \in A : SumOver(f, A) = f[z] + SumOver(f, A \ {z})}
<1>1. ASSUME NEW A \in SUBSET S, \A z \in A : A \ {z} \in Q PROVE A \in Q
  <2>. SUFFICES ASSUME NEW z \in A PROVE SumOver(f, A) = f[z] + SumOver(f, A \ {z})
    OBVIOUS
  <2>. DEFINE y == Pick(A)
  <2>1. IsFiniteSet(A) /\ y \in A
    BY FS_Subset DEF Pick
  <2>2. SumOver(f, A) = f[y] + SumOver(f, A \ {y})
    BY <2>1, SumPick
  <2>. HIDE DEF y
  <2>3. CASE z = y
    BY <2>2, <2>3
  <2>4. CASE z # y
    <3>1. SumOver(f, A \ {y}) = f[z] + SumOver(f, (A \ {y}) \ {z})
      BY <1>1, <2>1, <2>4
    <3>2. SumOver(f, A \ {z}) = f[y] + SumOver(f, (A \ {z}) \ {y})
      BY <1>1, <2>1, <2>4
    <3>. DEFINE B == (A \ {y}) \ {z}
                r == SumOver(f, B)
    <3>3. (A \ {z}) \ {y} = B /\ B \in SUBSET D /\ B \in SUBSET S
      OBVIOUS
    <3>4. r \in Int
      <4>. HIDE DEF B
      <4>1. IsFiniteSet(B)
        BY <3>3, FS_Subset
      <4>. QED
        BY <3>3, <4>1, SumType
    <3>5. f[y] \in Int /\ f[z] \in Int
      BY <2>1
    <3>6. SumOver(f, A) = f[y] + (f[z] + r) /\ SumOver(f, A \ {z}) = f[y] + r
      <4>. HIDE DEF r
      <4>. QED
        BY <2>2, <3>1, <3>2, <3>3 DEF r
    <3>. HIDE DEF r
    <3>. QED
      BY <3>4, <3>5, <3>6
  <2>. QED
    BY <2>3, <2>4
<1>. HIDE DEF Q
<1>2. S \in Q
  BY <1>1, FinInduction, Zenon
<1>. QED
  BY <1>2 DEF Q

\* A sum over two disjoint sets.
LEMMA SumUnion ==
  ASSUME NEW D, NEW f \in [D -> Int], NEW A \in SUBSET D, NEW B \in SUBSET D,
         IsFiniteSet(A), IsFiniteSet(B), A \cap B = {}
  PROVE  SumOver(f, A \cup B) = SumOver(f, A) + SumOver(f, B)
<1>. DEFINE Q == {E \in SUBSET B : SumOver(f, A \cup E) = SumOver(f, A) + SumOver(f, E)}
<1>0. SumOver(f, A) \in Int
  BY SumType
<1>1. ASSUME NEW E \in SUBSET B, \A x \in E : E \ {x} \in Q PROVE E \in Q
  <2>0. IsFiniteSet(E) /\ IsFiniteSet(A \cup E) /\ E \in SUBSET D /\ A \cup E \in SUBSET D
    BY FS_Subset, FS_Union
  <2>1. CASE E = {}
    <3>1. A \cup E = A
      BY <2>1
    <3>. QED
      BY <1>0, <2>1, <3>1, SumEmpty
  <2>2. CASE E # {}
    <3>1. PICK x \in E : TRUE
      BY <2>2
    <3>2. (A \cup E) \ {x} = A \cup (E \ {x})
      OBVIOUS
    <3>3. SumOver(f, A \cup E) = f[x] + SumOver(f, A \cup (E \ {x}))
      BY <2>0, <3>2, SumRemove
    <3>4. SumOver(f, E) = f[x] + SumOver(f, E \ {x})
      BY <2>0, SumRemove
    <3>5. SumOver(f, A \cup (E \ {x})) = SumOver(f, A) + SumOver(f, E \ {x})
      BY <1>1
    <3>6. SumOver(f, E \ {x}) \in Int /\ f[x] \in Int
      <4>1. IsFiniteSet(E \ {x}) /\ E \ {x} \in SUBSET D
        BY <2>0, FS_Subset
      <4>. QED
        BY <2>0, <4>1, SumType
    <3>. QED
      BY <1>0, <3>3, <3>4, <3>5, <3>6
  <2>. QED
    BY <2>1, <2>2
<1>. HIDE DEF Q
<1>2. B \in Q
  BY <1>1, FinInduction, Zenon
<1>. QED
  BY <1>2 DEF Q

\* Functions that agree have the same sum; of naturals it is a natural.
LEMMA SumSame ==
  ASSUME NEW D, NEW f \in [D -> Int], NEW g \in [D -> Int], NEW S \in SUBSET D,
         IsFiniteSet(S), \A x \in S : f[x] = g[x]
  PROVE  SumOver(f, S) = SumOver(g, S)
<1>. DEFINE Q == {A \in SUBSET S : SumOver(f, A) = SumOver(g, A)}
<1>1. ASSUME NEW A \in SUBSET S, \A x \in A : A \ {x} \in Q PROVE A \in Q
  <2>0. IsFiniteSet(A)
    BY FS_Subset
  <2>1. CASE A = {}
    BY <2>1, SumEmpty
  <2>2. CASE A # {}
    <3>1. PICK x \in A : TRUE
      BY <2>2
    <3>2. SumOver(f, A) = f[x] + SumOver(f, A \ {x}) /\ SumOver(g, A) = g[x] + SumOver(g, A \ {x})
      <4>1. A \in SUBSET D
        OBVIOUS
      <4>. QED
        BY <2>0, <4>1, SumRemove
    <3>3. SumOver(f, A \ {x}) = SumOver(g, A \ {x}) /\ f[x] = g[x]
      BY <1>1
    <3>. QED
      BY <3>2, <3>3
  <2>. QED
    BY <2>1, <2>2
<1>. HIDE DEF Q
<1>2. S \in Q
  BY <1>1, FinInduction, Zenon
<1>. QED
  BY <1>2 DEF Q

\* Sums of balances are balances.
LEMMA SumNat ==
  ASSUME NEW D, NEW f \in [D -> Nat], NEW S \in SUBSET D, IsFiniteSet(S)
  PROVE  SumOver(f, S) \in Nat
<1>. DEFINE Q == {A \in SUBSET S : SumOver(f, A) \in Nat}
<1>1. ASSUME NEW A \in SUBSET S, \A x \in A : A \ {x} \in Q PROVE A \in Q
  <2>1. IsFiniteSet(A)
    BY FS_Subset
  <2>2. SumOver(f, A) = IF A = {} THEN 0 ELSE f[Pick(A)] + SumOver(f, A \ {Pick(A)})
    BY <2>1, SumPick
  <2>3. A # {} => f[Pick(A)] \in Nat /\ SumOver(f, A \ {Pick(A)}) \in Nat
    <3>1. A # {} => Pick(A) \in A
      BY DEF Pick
    <3>. QED
      BY <1>1, <3>1
  <2>. QED
    BY <2>2, <2>3
<1>. HIDE DEF Q
<1>2. S \in Q
  BY <1>1, FinInduction
<1>. QED
  BY <1>2 DEF Q

\* The elements of S that f takes into T.
At(S, f, T) == {v \in S : f[v] \in T}

\* What d has for the elements of T: the balances of C that go there, less those
\* that leave.
IsDelta(d, T, C, new, to, old, from) ==
    \A i \in T : d[i] = SumOver(new, At(C, to, {i})) - SumOver(old, At(C, from, {i}))

\* The sum over some positions of the balances that came less those that went.
LEMMA SumOfDeltas ==
  ASSUME NEW C, IsFiniteSet(C), NEW D, C \in SUBSET D,
         NEW new \in [D -> Int], NEW old \in [D -> Int], NEW to, NEW from,
         NEW N, NEW d \in [N -> Int], NEW T \in SUBSET N, IsFiniteSet(T),
         IsDelta(d, T, C, new, to, old, from)
  PROVE  SumOver(d, T) = SumOver(new, At(C, to, T)) - SumOver(old, At(C, from, T))
<1>. DEFINE To(A) == At(C, to, A)
            From(A) == At(C, from, A)
            Q == {A \in SUBSET T : SumOver(d, A) = SumOver(new, To(A)) - SumOver(old, From(A))}
<1>0. ASSUME NEW A \in SUBSET T
      PROVE  /\ To(A) \in SUBSET D /\ IsFiniteSet(To(A)) /\ SumOver(new, To(A)) \in Int
             /\ From(A) \in SUBSET D /\ IsFiniteSet(From(A)) /\ SumOver(old, From(A)) \in Int
  <2>1. To(A) \in SUBSET C /\ From(A) \in SUBSET C
    BY DEF At
  <2>. HIDE DEF To, From
  <2>2. /\ To(A) \in SUBSET D /\ IsFiniteSet(To(A))
        /\ From(A) \in SUBSET D /\ IsFiniteSet(From(A))
    BY <2>1, FS_Subset
  <2>. QED
    BY <2>2, SumType
<1>1. ASSUME NEW A \in SUBSET T, \A x \in A : A \ {x} \in Q PROVE A \in Q
  <2>0. IsFiniteSet(A) /\ A \in SUBSET N
    BY FS_Subset
  <2>1. CASE A = {}
    <3>1. To(A) = {} /\ From(A) = {}
      BY <2>1 DEF At
    <3>2. /\ SumOver(d, A) = 0 /\ SumOver(new, To(A)) = 0
          /\ SumOver(old, From(A)) = 0
      <4>. HIDE DEF To, From
      <4>. QED
        BY <2>1, <3>1, SumEmpty
    <3>. HIDE DEF To, From
    <3>. QED
      BY <3>2
  <2>2. CASE A # {}
    <3>1. PICK x \in A : TRUE
      BY <2>2
    <3>. DEFINE B == A \ {x}
                X == {x}
    <3>2. SumOver(d, A) = d[x] + SumOver(d, B)
      BY <2>0, SumRemove
    <3>3. SumOver(d, B) = SumOver(new, To(B)) - SumOver(old, From(B))
      BY <1>1
    <3>4. /\ To(A) = To(X) \cup To(B) /\ To(X) \cap To(B) = {}
          /\ From(A) = From(X) \cup From(B) /\ From(X) \cap From(B) = {}
          /\ B \in SUBSET T /\ X \in SUBSET T
      BY DEF At
    <3>5. d[x] = SumOver(new, To(X)) - SumOver(old, From(X))
      BY DEF IsDelta
    <3>. HIDE DEF To, From, B, X
    <3>6. SumOver(new, To(A)) = SumOver(new, To(X)) + SumOver(new, To(B))
      <4>1. /\ To(X) \in SUBSET D /\ IsFiniteSet(To(X))
            /\ To(B) \in SUBSET D /\ IsFiniteSet(To(B))
        BY <1>0, <3>4
      <4>. QED
        BY <4>1, <3>4, SumUnion
    <3>7. SumOver(old, From(A)) = SumOver(old, From(X)) + SumOver(old, From(B))
      <4>1. /\ From(X) \in SUBSET D /\ IsFiniteSet(From(X))
            /\ From(B) \in SUBSET D /\ IsFiniteSet(From(B))
        BY <1>0, <3>4
      <4>. QED
        BY <4>1, <3>4, SumUnion
    <3>8. /\ SumOver(new, To(X)) \in Int /\ SumOver(new, To(B)) \in Int
          /\ SumOver(old, From(X)) \in Int /\ SumOver(old, From(B)) \in Int
      BY <1>0, <3>4
    <3>9. SumOver(d, A) = SumOver(new, To(A)) - SumOver(old, From(A))
      BY <3>2, <3>3, <3>5, <3>6, <3>7, <3>8
    <3>. QED
      BY <3>9
  <2>. QED
    BY <2>1, <2>2
<1>2. T \in Q
  <2>. HIDE DEF Q, To, From
  <2>. QED
    BY <1>1, FinInduction
<1>. QED
  BY <1>2

\* The elements of S stay where they are, those in T with the balance they had.
Unmoved(S, T, new, to, old, from) ==
    \A v \in S : to[v] = from[v] /\ (from[v] \in T => old[v] = new[v])

\* A sum over validators whose weight moves: those outside C stay where they
\* are with the weight they had, the others are in the deltas.
LEMMA MovedBalance ==
  ASSUME NEW V, IsFiniteSet(V), NEW new \in [V -> Nat], NEW old \in [V -> Nat],
         NEW C \in SUBSET V, NEW to, NEW from,
         NEW N, NEW d \in [N -> Int], NEW T \in SUBSET N, IsFiniteSet(T),
         IsDelta(d, T, C, new, to, old, from),
         Unmoved(V \ C, T, new, to, old, from)
  PROVE  /\ SumOver(old, At(V, from, T)) + SumOver(d, T) = SumOver(new, At(V, to, T))
         /\ SumOver(new, At(V, to, T)) \in Nat
<1>. DEFINE A == At(V, to, T)
            B == At(V, from, T)
            X == At(C, to, T)
            Y == At(C, from, T)
            E == A \ C
<1>1. new \in [V -> Int] /\ old \in [V -> Int] /\ IsFiniteSet(C)
  BY FS_Subset
<1>2. SumOver(d, T) = SumOver(new, X) - SumOver(old, Y)
  <2>1. IsFiniteSet(C) /\ C \in SUBSET V
    BY <1>1
  <2>2. new \in [V -> Int] /\ old \in [V -> Int]
    BY <1>1
  <2>. QED
    BY <2>1, <2>2, SumOfDeltas
<1>3. /\ A \in SUBSET V /\ X \in SUBSET V /\ Y \in SUBSET V /\ E \in SUBSET V
      /\ A = X \cup E /\ X \cap E = {} /\ B = Y \cup E /\ Y \cap E = {}
      /\ \A v \in E : old[v] = new[v]
  BY DEF At, Unmoved
<1>. HIDE DEF A, B, X, Y, E
<1>4. IsFiniteSet(A) /\ IsFiniteSet(X) /\ IsFiniteSet(Y) /\ IsFiniteSet(E)
  BY <1>3, FS_Subset
<1>5. SumOver(new, X \cup E) = SumOver(new, X) + SumOver(new, E)
  BY <1>1, <1>3, <1>4, SumUnion
<1>6. SumOver(old, Y \cup E) = SumOver(old, Y) + SumOver(old, E)
  BY <1>1, <1>3, <1>4, SumUnion
<1>7. SumOver(old, E) = SumOver(new, E)
  BY <1>1, <1>3, <1>4, SumSame
<1>8. /\ SumOver(new, X) \in Int /\ SumOver(old, Y) \in Int /\ SumOver(new, E) \in Int
      /\ SumOver(new, A) \in Nat
  BY <1>1, <1>3, <1>4, SumType, SumNat
<1>9. SumOver(old, B) + SumOver(d, T) = SumOver(new, A)
  BY <1>2, <1>3, <1>5, <1>6, <1>7, <1>8
<1>. QED
  BY <1>8, <1>9 DEF A, B

-------------------------------------------------------------------------------
(* Trees in arrays *)

\* Parents come before their children.
Tree(ns) ==
    /\ ns \in Seq(Nodes) /\ Len(ns) <= Cardinality(BlockRoots)
    /\ \A j \in 1 .. Len(ns) : ns[j].parent < j

\* Types of the positions of a tree.
LEMMA TreeFacts ==
  ASSUME NEW ns, Tree(ns)
  PROVE  /\ Len(ns) \in Nat /\ DOMAIN ns = 1 .. Len(ns)
         /\ \A j \in 1 .. Len(ns) :
               ns[j] \in Nodes /\ ns[j].parent \in Nat /\ ns[j].parent < j
<1>1. Len(ns) \in Nat /\ DOMAIN ns = 1 .. Len(ns) /\ \A j \in 1 .. Len(ns) : ns[j] \in Nodes
  BY DEF Tree
<1>2. Cardinality(BlockRoots) \in Nat
  BY RootsAssumption, FS_CardinalityType
<1>3. \A n \in Nodes : n.parent \in Positions
  BY DEF Nodes
<1>4. Positions \subseteq Nat
  BY <1>2 DEF Positions
<1>. QED
  BY <1>1, <1>3, <1>4, Zenon DEF Tree

\* The recursive function behind Subtree has a solution: i is in every set that
\* has j and the parents of its elements.
LEMMA SubtreeDef ==
  ASSUME NEW ns, Tree(ns), NEW i
  PROVE  /\ Subtree(ns, i) \subseteq 1 .. Len(ns)
         /\ \A j \in 1 .. Len(ns) :
               j \in Subtree(ns, i) <=>
                  j = i \/ (ns[j].parent # 0 /\ ns[j].parent \in Subtree(ns, i))
<1>. DEFINE D == DOMAIN ns
            Closed == {S \in SUBSET D : \A x \in S : ns[x].parent # 0 => ns[x].parent \in S}
            A(j) == \A S \in Closed : j \in S => i \in S
            Def(g) == [j \in D |-> \/ j = i
                                   \/ ns[j].parent # NonExistentNode /\ g[ns[j].parent]]
            g0 == [j \in D |-> A(j)]
            b == CHOOSE g : g = Def(g)
<1>0. \A j \in D : ns[j].parent # 0 => ns[j].parent \in D
  BY TreeFacts
<1>1. ASSUME NEW j \in D
      PROVE  A(j) <=> j = i \/ (ns[j].parent # 0 /\ A(ns[j].parent))
  <2>1. j = i => A(j)
    OBVIOUS
  <2>2. ns[j].parent # 0 /\ A(ns[j].parent) => A(j)
    OBVIOUS
  <2>3. ASSUME j # i, ns[j].parent = 0 PROVE ~A(j)
    <3>1. {j} \in Closed
      BY <2>3
    <3>. QED
      BY <2>3, <3>1
  <2>4. ASSUME j # i, ns[j].parent # 0, ~A(ns[j].parent) PROVE ~A(j)
    <3>1. PICK S \in Closed : ns[j].parent \in S /\ i \notin S
      BY <2>4
    <3>2. S \cup {j} \in Closed
      BY <3>1
    <3>3. i \notin S \cup {j} /\ j \in S \cup {j}
      BY <2>4, <3>1
    <3>. HIDE DEF Closed
    <3>. QED
      BY <3>2, <3>3
  <2>. HIDE DEF A
  <2>. QED
    BY <2>1, <2>2, <2>3, <2>4
<1>. HIDE DEF A
<1>2. ASSUME NEW j \in D
      PROVE  A(j) = (j = i \/ (ns[j].parent # 0 /\ g0[ns[j].parent]))
  <2>1. ns[j].parent # 0 => g0[ns[j].parent] = A(ns[j].parent)
    BY <1>0, Zenon
  <2>2. A(j) \in BOOLEAN
    BY DEF A
  <2>. HIDE DEF g0
  <2>. QED
    BY <1>1, <2>1, <2>2
<1>3. g0 = Def(g0)
  BY <1>2 DEF NonExistentNode
<1>4. b = Def(b)
  <2>. HIDE DEF g0, Def
  <2>. QED
    BY <1>3, Zenon
<1>5. Subtree(ns, i) = {j \in D : b[j]}
  BY DEF Subtree
<1>6. ASSUME NEW j \in D
      PROVE  b[j] <=> j = i \/ (ns[j].parent # 0 /\ b[ns[j].parent])
  <2>1. b[j] = Def(b)[j]
    <3>. HIDE DEF b, Def
    <3>. QED
      BY <1>4, Zenon
  <2>2. Def(b)[j] = (j = i \/ (ns[j].parent # 0 /\ b[ns[j].parent]))
    <3>. HIDE DEF b
    <3>. QED
      BY Zenon DEF NonExistentNode
  <2>. HIDE DEF b, Def
  <2>. QED
    BY <2>1, <2>2, Zenon
<1>7. D = 1 .. Len(ns)
  BY TreeFacts
<1>. HIDE DEF b, D
<1>. QED
  BY <1>0, <1>5, <1>6, <1>7

\* A subtree comes after its root, and has the subtrees of its nodes.
LEMMA SubtreeFacts ==
  ASSUME NEW ns, Tree(ns), NEW i \in 1 .. Len(ns)
  PROVE  /\ i \in Subtree(ns, i) /\ Subtree(ns, i) \subseteq i .. Len(ns)
         /\ \A j \in Subtree(ns, i) : Subtree(ns, j) \subseteq Subtree(ns, i)
         /\ \A j \in 1 .. Len(ns) : ns[j].parent = i => j \in Subtree(ns, i)
<1>0. Len(ns) \in Nat /\ \A j \in 1 .. Len(ns) : ns[j].parent \in Nat /\ ns[j].parent < j
  BY TreeFacts
<1>1. i \in Subtree(ns, i) /\ \A j \in 1 .. Len(ns) : ns[j].parent = i => j \in Subtree(ns, i)
  <2>1. i \in Subtree(ns, i)
    BY SubtreeDef
  <2>2. ASSUME NEW j \in 1 .. Len(ns), ns[j].parent = i PROVE j \in Subtree(ns, i)
    BY <2>1, <2>2, SubtreeDef
  <2>. QED
    BY <2>1, <2>2
<1>2. Subtree(ns, i) \subseteq i .. Len(ns)
  <2>. DEFINE T == {j \in Nat : j \in Subtree(ns, i) => j >= i}
  <2>1. ASSUME NEW m \in Nat, \A k \in Nat : k < m => k \in T PROVE m \in T
    <3>. SUFFICES ASSUME m \in Subtree(ns, i), m # i PROVE m >= i
      OBVIOUS
    <3>1. m \in 1 .. Len(ns)
      BY SubtreeDef
    <3>2. ns[m].parent \in Subtree(ns, i) /\ ns[m].parent \in Nat /\ ns[m].parent < m
      BY <1>0, <3>1, SubtreeDef
    <3>3. ns[m].parent >= i
      BY <2>1, <3>2
    <3>. QED
      BY <3>2, <3>3
  <2>. HIDE DEF T
  <2>2. Nat \subseteq T
    BY <2>1, StrongInduction
  <2>. QED
    BY <1>0, <2>2, SubtreeDef DEF T
<1>3. ASSUME NEW j \in Subtree(ns, i) PROVE Subtree(ns, j) \subseteq Subtree(ns, i)
  <2>. DEFINE T == {k \in Nat : k \in Subtree(ns, j) => k \in Subtree(ns, i)}
  <2>1. ASSUME NEW m \in Nat, \A k \in Nat : k < m => k \in T PROVE m \in T
    <3>. SUFFICES ASSUME m \in Subtree(ns, j), m # j PROVE m \in Subtree(ns, i)
      OBVIOUS
    <3>1. m \in 1 .. Len(ns)
      BY SubtreeDef
    <3>2. /\ ns[m].parent # 0 /\ ns[m].parent \in Subtree(ns, j)
          /\ ns[m].parent \in Nat /\ ns[m].parent < m
      BY <1>0, <3>1, SubtreeDef
    <3>3. ns[m].parent \in Subtree(ns, i)
      BY <2>1, <3>2
    <3>. QED
      BY <3>1, <3>2, <3>3, SubtreeDef
  <2>. HIDE DEF T
  <2>2. Nat \subseteq T
    BY <2>1, StrongInduction
  <2>3. Subtree(ns, j) \subseteq Nat
    BY <1>0, SubtreeDef
  <2>. QED
    BY <2>2, <2>3 DEF T
<1>. QED
  BY <1>1, <1>2, <1>3

\* Subtrees depend on the parents only.
LEMMA SubtreeSame ==
  ASSUME NEW ns, NEW ms, Tree(ns), Tree(ms), Len(ns) <= Len(ms),
         \A j \in 1 .. Len(ns) : ms[j].parent = ns[j].parent
  PROVE  /\ \A i : \A j \in 1 .. Len(ns) : j \in Subtree(ms, i) <=> j \in Subtree(ns, i)
         /\ Len(ns) = Len(ms) => \A i : Subtree(ms, i) = Subtree(ns, i)
<1>0. /\ Len(ns) \in Nat /\ Len(ms) \in Nat
      /\ \A j \in 1 .. Len(ns) : ns[j].parent \in Nat /\ ns[j].parent < j
  BY TreeFacts
<1>1. ASSUME NEW i, NEW l \in 1 .. Len(ns) PROVE l \in Subtree(ms, i) <=> l \in Subtree(ns, i)
  <2>. DEFINE T == {j \in Nat : j \in 1 .. Len(ns) => (j \in Subtree(ms, i) <=> j \in Subtree(ns, i))}
  <2>1. ASSUME NEW m \in Nat, \A k \in Nat : k < m => k \in T PROVE m \in T
    <3>. SUFFICES ASSUME m \in 1 .. Len(ns)
                  PROVE  m \in Subtree(ms, i) <=> m \in Subtree(ns, i)
      OBVIOUS
    <3>. DEFINE p == ns[m].parent
    <3>1. p \in Nat /\ p < m /\ ms[m].parent = p /\ m \in 1 .. Len(ms)
      BY <1>0
    <3>2. /\ m \in Subtree(ns, i) <=> m = i \/ (p # 0 /\ p \in Subtree(ns, i))
          /\ m \in Subtree(ms, i) <=> m = i \/ (p # 0 /\ p \in Subtree(ms, i))
      BY <3>1, SubtreeDef
    <3>3. p # 0 => (p \in Subtree(ms, i) <=> p \in Subtree(ns, i))
      <4>1. p # 0 => p \in 1 .. Len(ns) /\ p \in T
        BY <1>0, <2>1, <3>1
      <4>. HIDE DEF p
      <4>. QED
        BY <4>1
    <3>. HIDE DEF p
    <3>. QED
      BY <3>2, <3>3
  <2>. HIDE DEF T
  <2>2. Nat \subseteq T
    BY <2>1, StrongInduction
  <2>3. l \in T
    BY <2>2, <1>0
  <2>. QED
    BY <2>3 DEF T
<1>2. ASSUME Len(ns) = Len(ms), NEW i PROVE Subtree(ms, i) = Subtree(ns, i)
  <2>1. Subtree(ms, i) \subseteq 1 .. Len(ns) /\ Subtree(ns, i) \subseteq 1 .. Len(ns)
    BY <1>2, SubtreeDef
  <2>. QED
    BY <1>1, <2>1
<1>. QED
  BY <1>1, <1>2

\* What is left of a subtree when the array is cut before position f.
LEMMA SubtreeShift ==
  ASSUME NEW ns, NEW ms, Tree(ns), Tree(ms), NEW f \in 1 .. Len(ns),
         Len(ms) = Len(ns) - f + 1,
         \A j \in 1 .. Len(ms) :
            ms[j].parent = IF ns[j + f - 1].parent < f THEN 0 ELSE ns[j + f - 1].parent - f + 1,
         NEW i \in 1 .. Len(ms), NEW l \in 1 .. Len(ms)
  PROVE  l \in Subtree(ms, i) <=> l + f - 1 \in Subtree(ns, i + f - 1)
<1>0. /\ Len(ns) \in Nat /\ Len(ms) \in Nat
      /\ \A j \in 1 .. Len(ns) : ns[j].parent \in Nat /\ ns[j].parent < j
  BY TreeFacts
<1>. DEFINE T == {j \in Nat : j \in 1 .. Len(ms) =>
                     (j \in Subtree(ms, i) <=> j + f - 1 \in Subtree(ns, i + f - 1))}
<1>1. ASSUME NEW m \in Nat, \A k \in Nat : k < m => k \in T PROVE m \in T
  <2>. SUFFICES ASSUME m \in 1 .. Len(ms)
                PROVE  m \in Subtree(ms, i) <=> m + f - 1 \in Subtree(ns, i + f - 1)
    OBVIOUS
  <2>. DEFINE q == ns[m + f - 1].parent
              r == ms[m].parent
  <2>1. m + f - 1 \in 1 .. Len(ns) /\ i + f - 1 \in 1 .. Len(ns)
    BY <1>0
  <2>2. q \in Nat /\ q < m + f - 1 /\ r = IF q < f THEN 0 ELSE q - f + 1
    BY <1>0, <2>1
  <2>3. /\ m \in Subtree(ms, i) <=> m = i \/ (r # 0 /\ r \in Subtree(ms, i))
        /\ m + f - 1 \in Subtree(ns, i + f - 1) <=>
              m + f - 1 = i + f - 1 \/ (q # 0 /\ q \in Subtree(ns, i + f - 1))
    BY <2>1, SubtreeDef
  <2>4. CASE q < f
    <3>1. q \notin Subtree(ns, i + f - 1)
      <4>1. Subtree(ns, i + f - 1) \subseteq (i + f - 1) .. Len(ns)
        BY <2>1, SubtreeFacts
      <4>. HIDE DEF q
      <4>. QED
        BY <1>0, <2>2, <2>4, <4>1
    <3>. HIDE DEF q, r
    <3>. QED
      BY <1>0, <2>2, <2>3, <2>4, <3>1
  <2>5. CASE q >= f
    <3>. HIDE DEF q, r
    <3>1. r \in Nat /\ r < m /\ r \in 1 .. Len(ms) /\ r # 0 /\ q # 0 /\ r + f - 1 = q
      BY <1>0, <2>2, <2>5
    <3>2. r \in Subtree(ms, i) <=> q \in Subtree(ns, i + f - 1)
      BY <1>1, <3>1
    <3>3. m + f - 1 = i + f - 1 <=> m = i
      BY <1>0
    <3>. QED
      BY <2>3, <3>1, <3>2, <3>3
  <2>. HIDE DEF q
  <2>. QED
    BY <2>2, <2>4, <2>5
<1>. HIDE DEF T
<1>2. Nat \subseteq T
  BY <1>1, StrongInduction
<1>3. l \in T
  BY <1>2, <1>0
<1>. QED
  BY <1>3 DEF T

-------------------------------------------------------------------------------
(* The links *)

\* A best child is a child, a best descendant is below.
Links(ns) ==
    \A i \in 1 .. Len(ns) :
        /\ ns[i].bestChild # 0 =>
              ns[i].bestChild \in 1 .. Len(ns) /\ ns[ns[i].bestChild].parent = i
        /\ ns[i].bestDescendant # 0 => ns[i].bestDescendant \in Subtree(ns, i) \ {i}

\* The same blocks, perhaps with other weights and links.
SameBlocks(ms, ns) ==
    /\ ms \in Seq(Nodes) /\ Len(ms) = Len(ns)
    /\ \A i \in 1 .. Len(ns) :
          /\ ms[i].root = ns[i].root /\ ms[i].parent = ns[i].parent
          /\ ms[i].je = ns[i].je /\ ms[i].fe = ns[i].fe

SameWeights(ms, ns) == \A i \in 1 .. Len(ns) : ms[i].weight = ns[i].weight

\* Subtrees are those of the blocks, whatever the weights and links.
LEMMA SameBlocksTree ==
  ASSUME NEW ns, Tree(ns), NEW ms, SameBlocks(ms, ns)
  PROVE  Tree(ms) /\ \A i : Subtree(ms, i) = Subtree(ns, i)
<1>1. Tree(ms)
  BY DEF Tree, SameBlocks
<1>2. Len(ns) <= Len(ms) /\ Len(ns) = Len(ms) /\ \A j \in 1 .. Len(ns) : ms[j].parent = ns[j].parent
  BY <1>1, TreeFacts DEF SameBlocks
<1>. QED
  BY <1>1, <1>2, SubtreeSame

\* One element of a sequence changes.
LEMMA SeqExcept ==
  ASSUME NEW S, NEW s \in Seq(S), NEW p \in 1 .. Len(s), NEW v \in S, NEW t, t = [s EXCEPT ![p] = v]
  PROVE  /\ t \in Seq(S) /\ Len(t) = Len(s) /\ t[p] = v
         /\ \A j \in 1 .. Len(s) : j # p => t[j] = s[j]
OBVIOUS

\* The links of node p.
Relink(ns, p, x, y) == [ns EXCEPT ![p] = [@ EXCEPT !.bestChild = x, !.bestDescendant = y]]

\* updateBestChildAndDescendant either changes nothing, clears the links of the
\* parent or links it to the child.
LEMMA UpdateCases ==
  ASSUME NEW ns, NEW p, NEW c, NEW je, NEW fe, NEW d,
         d = IF ns[c].bestDescendant = 0 THEN c ELSE ns[c].bestDescendant
  PROVE  UpdateBestChildAndDescendant(ns, p, c, je, fe) \in
            {ns, Relink(ns, p, 0, 0), Relink(ns, p, c, d)}
BY DEF UpdateBestChildAndDescendant, NonExistentNode, Relink

\* Relinking changes the two links of one node.
LEMMA RelinkFacts ==
  ASSUME NEW ns \in Seq(Nodes), NEW p \in 1 .. Len(ns), NEW x \in Positions, NEW y \in Positions,
         NEW ms, ms = Relink(ns, p, x, y)
  PROVE  /\ SameBlocks(ms, ns) /\ SameWeights(ms, ns)
         /\ ms[p].bestChild = x /\ ms[p].bestDescendant = y
         /\ \A j \in 1 .. Len(ns) : j # p => ms[j] = ns[j]
<1>. DEFINE v == [ns[p] EXCEPT !.bestChild = x, !.bestDescendant = y]
<1>1. /\ v \in Nodes /\ v.root = ns[p].root /\ v.parent = ns[p].parent
      /\ v.je = ns[p].je /\ v.fe = ns[p].fe /\ v.weight = ns[p].weight
      /\ v.bestChild = x /\ v.bestDescendant = y
  <2>1. ns[p] \in Nodes
    OBVIOUS
  <2>. QED
    BY <2>1, Zenon DEF Nodes
<1>2. ms = [ns EXCEPT ![p] = v]
  BY Zenon DEF Relink
<1>. HIDE DEF v
<1>3. /\ ms \in Seq(Nodes) /\ Len(ms) = Len(ns) /\ ms[p] = v
      /\ \A j \in 1 .. Len(ns) : j # p => ms[j] = ns[j]
  BY <1>1, <1>2, SeqExcept
<1>. QED
  BY <1>1, <1>3 DEF SameBlocks, SameWeights

\* updateBestChildAndDescendant for a node and its parent keeps the links sound.
LEMMA UpdateKeeps ==
  ASSUME NEW ns, Tree(ns), Links(ns), NEW c \in 1 .. Len(ns), NEW p, p = ns[c].parent, p # 0,
         NEW ms, NEW je, NEW fe, ms = UpdateBestChildAndDescendant(ns, p, c, je, fe)
  PROVE  Tree(ms) /\ Links(ms) /\ SameBlocks(ms, ns) /\ SameWeights(ms, ns)
<1>0. /\ Len(ns) \in Nat /\ p \in 1 .. Len(ns) /\ p < c /\ ns \in Seq(Nodes)
      /\ \A j \in 1 .. Len(ns) : ns[j] \in Nodes
  BY TreeFacts DEF Tree
<1>1. SameBlocks(ns, ns) /\ SameWeights(ns, ns)
  BY <1>0 DEF SameBlocks, SameWeights
<1>. DEFINE d == IF ns[c].bestDescendant = 0 THEN c ELSE ns[c].bestDescendant
<1>2. d \in Subtree(ns, p) \ {p} /\ d \in Positions /\ c \in Positions /\ 0 \in Positions
  <2>1. c \in Subtree(ns, p) /\ Subtree(ns, c) \subseteq Subtree(ns, p) /\ c \in Subtree(ns, c)
    BY <1>0, SubtreeFacts
  <2>2. d \in Subtree(ns, c)
    BY <2>1 DEF Links
  <2>3. Subtree(ns, c) \subseteq c .. Len(ns)
    BY SubtreeFacts
  <2>. HIDE DEF d
  <2>4. d # p
    BY <1>0, <2>2, <2>3
  <2>5. Len(ns) <= Cardinality(BlockRoots) /\ Cardinality(BlockRoots) \in Nat
    BY RootsAssumption, FS_CardinalityType DEF Tree
  <2>. QED
    BY <1>0, <2>1, <2>2, <2>3, <2>4, <2>5 DEF Positions
<1>3. ASSUME NEW x, NEW y, ms = Relink(ns, p, x, y), (x = 0 /\ y = 0) \/ (x = c /\ y = d)
      PROVE  Tree(ms) /\ Links(ms) /\ SameBlocks(ms, ns) /\ SameWeights(ms, ns)
  <2>. HIDE DEF d
  <2>0. x \in Positions /\ y \in Positions
    BY <1>2, <1>3
  <2>1. /\ SameBlocks(ms, ns) /\ SameWeights(ms, ns)
        /\ ms[p].bestChild = x /\ ms[p].bestDescendant = y
        /\ \A j \in 1 .. Len(ns) : j # p => ms[j] = ns[j]
    BY <1>0, <1>3, <2>0, RelinkFacts
  <2>2. Tree(ms) /\ \A i : Subtree(ms, i) = Subtree(ns, i)
    BY <2>1, SameBlocksTree
  <2>3. Links(ms)
    <3>. SUFFICES ASSUME NEW i \in 1 .. Len(ns)
                  PROVE  /\ ms[i].bestChild # 0 =>
                              ms[i].bestChild \in 1 .. Len(ns) /\ ms[ms[i].bestChild].parent = i
                         /\ ms[i].bestDescendant # 0 => ms[i].bestDescendant \in Subtree(ns, i) \ {i}
      BY <2>1, <2>2 DEF Links, SameBlocks
    <3>1. CASE i # p
      <4>1. ms[i] = ns[i]
        BY <2>1, <3>1
      <4>. QED
        BY <2>1, <4>1 DEF Links, SameBlocks
    <3>2. CASE i = p
      BY <1>2, <1>3, <2>1, <3>2 DEF SameBlocks
    <3>. QED
      BY <3>1, <3>2
  <2>. QED
    BY <2>1, <2>2, <2>3
<1>4. ms = ns \/ ms = Relink(ns, p, 0, 0) \/ ms = Relink(ns, p, c, d)
  BY UpdateCases
<1>. HIDE DEF d
<1>5. ms = ns \/ \E x, y : ms = Relink(ns, p, x, y) /\ ((x = 0 /\ y = 0) \/ (x = c /\ y = d))
  BY <1>4, Zenon
<1>. QED
  BY <1>1, <1>3, <1>5, Zenon

\* Links and subtrees do not depend on weights.
LEMMA LinksSame ==
  ASSUME NEW ns, Tree(ns), Links(ns), NEW ms, SameBlocks(ms, ns),
         \A i \in 1 .. Len(ns) : /\ ms[i].bestChild = ns[i].bestChild
                                /\ ms[i].bestDescendant = ns[i].bestDescendant
  PROVE  Tree(ms) /\ Links(ms)
<1>1. Tree(ms) /\ \A i : Subtree(ms, i) = Subtree(ns, i)
  BY SameBlocksTree
<1>. QED
  BY <1>1 DEF Links, SameBlocks

\* Two changes of weights and links are one.
LEMMA SameBlocksTransitive ==
  ASSUME NEW ns, NEW ms, NEW ls, SameBlocks(ms, ns), SameBlocks(ls, ms),
         SameWeights(ms, ns), SameWeights(ls, ms)
  PROVE  SameBlocks(ls, ns) /\ SameWeights(ls, ns)
BY DEF SameBlocks, SameWeights

\* One iteration of the loop of RefreshLinks, and the function of all.
RefreshStep(ns, ms, k, je, fe) ==
    LET i == Len(ns) + 1 - k
        p == ns[i].parent
    IN  IF p = NonExistentNode THEN ms
        ELSE UpdateBestChildAndDescendant(ms, p, i, je, fe)

\* The recursive function behind RefreshLinks has a solution.
LEMMA RefreshSolution ==
  ASSUME NEW ns, Len(ns) \in Nat, NEW je, NEW fe
  PROVE  \E g : /\ g = [k \in 0 .. Len(ns) |->
                          IF k = 0 THEN ns ELSE RefreshStep(ns, g[k - 1], k, je, fe)]
                /\ RefreshLinks(ns, je, fe) = g[Len(ns)]
<1>. DEFINE Def(n, g) == [k \in 0 .. n |->
                             IF k = 0 THEN ns ELSE RefreshStep(ns, g[k - 1], k, je, fe)]
            T == {n \in Nat : \E g : g = Def(n, g)}
<1>1. ASSUME NEW m \in Nat, \A k \in Nat : k < m => k \in T PROVE m \in T
  <2>1. CASE m = 0
    <3>. DEFINE h == [k \in 0 .. m |-> ns]
    <3>1. \A k \in 0 .. m : k = 0
      BY <2>1
    <3>2. h = Def(m, h)
      <4>. QED
        BY <3>1
    <3>3. \E g : g = Def(m, g)
      <4>. HIDE DEF h, Def
      <4>. QED
        BY <3>2
    <3>. HIDE DEF Def
    <3>. QED
      BY <3>3
  <2>2. CASE m # 0
    <3>1. m - 1 \in Nat /\ m - 1 < m
      BY <2>2
    <3>2. PICK g : g = Def(m - 1, g)
      <4>1. m - 1 \in T
        BY <1>1, <3>1
      <4>. HIDE DEF Def
      <4>. QED
        BY <4>1
    <3>. DEFINE h == Def(m, g)
    <3>3. ASSUME NEW k \in 0 .. m - 1 PROVE h[k] = g[k]
      <4>1. k \in 0 .. m
        BY <3>1
      <4>2. h[k] = IF k = 0 THEN ns ELSE RefreshStep(ns, g[k - 1], k, je, fe)
        BY <4>1
      <4>3. g[k] = Def(m - 1, g)[k]
        <5>. HIDE DEF Def
        <5>. QED
          BY <3>2, Zenon
      <4>4. Def(m - 1, g)[k] = IF k = 0 THEN ns ELSE RefreshStep(ns, g[k - 1], k, je, fe)
        OBVIOUS
      <4>. HIDE DEF h, Def
      <4>. QED
        BY <4>2, <4>3, <4>4
    <3>4. Def(m, h) = Def(m, g)
      <4>1. \A k \in 0 .. m : k # 0 => h[k - 1] = g[k - 1]
        <5>1. \A k \in 0 .. m : k # 0 => k - 1 \in 0 .. m - 1
          BY <3>1
        <5>. HIDE DEF h
        <5>. QED
          BY <3>3, <5>1
      <4>. HIDE DEF h
      <4>. QED
        BY <4>1
    <3>5. \E k : k = Def(m, k)
      <4>1. h = Def(m, h)
        BY <3>4
      <4>. HIDE DEF h, Def
      <4>. QED
        BY <4>1
    <3>. HIDE DEF Def
    <3>. QED
      BY <3>5
  <2>. QED
    BY <2>1, <2>2
<1>2. Nat \subseteq T
  <2>. HIDE DEF T
  <2>. QED
    BY <1>1, StrongInduction
<1>3. \E g : g = Def(Len(ns), g)
  <2>. HIDE DEF Def
  <2>. QED
    BY <1>2
<1>. DEFINE b == CHOOSE g : g = Def(Len(ns), g)
<1>4. b = Def(Len(ns), b)
  <2>. HIDE DEF Def
  <2>. QED
    BY <1>3, Zenon
<1>5. RefreshLinks(ns, je, fe) = b[Len(ns)]
  BY DEF RefreshLinks, RefreshStep
<1>. HIDE DEF b
<1>. QED
  BY <1>4, <1>5, Zenon

\* The loop keeps blocks, weights and sound links.
LEMMA RefreshKeeps ==
  ASSUME NEW ns, Tree(ns), Links(ns), NEW je, NEW fe, NEW ms, ms = RefreshLinks(ns, je, fe)
  PROVE  Tree(ms) /\ Links(ms) /\ SameBlocks(ms, ns) /\ SameWeights(ms, ns)
<1>0. Len(ns) \in Nat /\ ns \in Seq(Nodes)
  BY TreeFacts DEF Tree
<1>. DEFINE Def(g) == [k \in 0 .. Len(ns) |->
                          IF k = 0 THEN ns ELSE RefreshStep(ns, g[k - 1], k, je, fe)]
            Good(ls) == Tree(ls) /\ Links(ls) /\ SameBlocks(ls, ns) /\ SameWeights(ls, ns)
<1>1. PICK g : g = Def(g) /\ RefreshLinks(ns, je, fe) = g[Len(ns)]
  BY <1>0, RefreshSolution
<1>2. ASSUME NEW k \in 0 .. Len(ns)
      PROVE  g[k] = IF k = 0 THEN ns ELSE RefreshStep(ns, g[k - 1], k, je, fe)
  <2>1. g[k] = Def(g)[k]
    <3>. HIDE DEF Def
    <3>. QED
      BY <1>1, Zenon
  <2>2. Def(g)[k] = IF k = 0 THEN ns ELSE RefreshStep(ns, g[k - 1], k, je, fe)
    OBVIOUS
  <2>. HIDE DEF Def
  <2>. QED
    BY <2>1, <2>2
<1>. HIDE DEF Def
<1>3. Good(ns)
  BY <1>0 DEF SameBlocks, SameWeights
<1>4. ASSUME NEW ls, Good(ls), NEW k \in 1 .. Len(ns) PROVE Good(RefreshStep(ns, ls, k, je, fe))
  <2>. DEFINE i == Len(ns) + 1 - k
              p == ns[i].parent
  <2>1. i \in 1 .. Len(ns)
    BY <1>0
  <2>2. RefreshStep(ns, ls, k, je, fe) =
          IF p = 0 THEN ls ELSE UpdateBestChildAndDescendant(ls, p, i, je, fe)
    BY DEF RefreshStep, NonExistentNode
  <2>3. ls[i].parent = p /\ i \in 1 .. Len(ls)
    BY <1>4, <2>1 DEF SameBlocks
  <2>. HIDE DEF i, p
  <2>4. ASSUME p # 0, NEW us, us = UpdateBestChildAndDescendant(ls, p, i, je, fe) PROVE Good(us)
    <3>1. Tree(us) /\ Links(us) /\ SameBlocks(us, ls) /\ SameWeights(us, ls)
      BY <1>4, <2>3, <2>4, UpdateKeeps
    <3>. QED
      BY <1>4, <3>1, SameBlocksTransitive
  <2>. HIDE DEF Good
  <2>. QED
    BY <1>4, <2>2, <2>4
<1>. DEFINE T == {k \in Nat : k \in 0 .. Len(ns) => Good(g[k])}
<1>5. ASSUME NEW m \in Nat, \A k \in Nat : k < m => k \in T PROVE m \in T
  <2>. SUFFICES ASSUME m \in 0 .. Len(ns) PROVE Good(g[m])
    BY Zenon
  <2>. HIDE DEF Good
  <2>1. CASE m = 0
    BY <1>2, <1>3, <2>1
  <2>2. CASE m # 0
    <3>1. m - 1 \in Nat /\ m - 1 < m /\ m - 1 \in 0 .. Len(ns) /\ m \in 1 .. Len(ns)
      BY <1>0, <2>2
    <3>2. Good(g[m - 1])
      BY <1>5, <3>1
    <3>3. g[m] = RefreshStep(ns, g[m - 1], m, je, fe)
      BY <1>2, <2>2
    <3>. QED
      BY <1>4, <3>1, <3>2, <3>3
  <2>. QED
    BY <2>1, <2>2
<1>6. Nat \subseteq T
  <2>. HIDE DEF T
  <2>. QED
    BY <1>5, StrongInduction
<1>7. Good(g[Len(ns)])
  <2>. HIDE DEF Good
  <2>. QED
    BY <1>0, <1>6
<1>. QED
  BY <1>1, <1>7

-------------------------------------------------------------------------------
(* Weights and canonical blocks *)

\* Applying deltas changes nothing but weights.
LEMMA ApplyKeeps ==
  ASSUME Tree(nodes), Links(nodes), NEW d \in [DOMAIN nodes -> Int], NEW ms, ms = ApplyDeltas(d)
  PROVE  /\ Tree(ms) /\ Links(ms) /\ SameBlocks(ms, nodes)
         /\ \A i \in 1 .. Len(nodes) :
               /\ nodes[i].weight \in Nat /\ SumOver(d, Subtree(nodes, i)) \in Int
               /\ ms[i].weight = LET w == nodes[i].weight + SumOver(d, Subtree(nodes, i))
                                 IN  IF w < 0 THEN 0 ELSE w
<1>0. /\ Len(nodes) \in Nat /\ DOMAIN nodes = 1 .. Len(nodes)
      /\ \A i \in 1 .. Len(nodes) : nodes[i] \in Nodes
  BY TreeFacts
<1>1. ASSUME NEW i \in 1 .. Len(nodes) PROVE SumOver(d, Subtree(nodes, i)) \in Int
  <2>1. Subtree(nodes, i) \in SUBSET DOMAIN nodes /\ IsFiniteSet(1 .. Len(nodes))
    BY <1>0, SubtreeDef, FS_Interval
  <2>2. IsFiniteSet(Subtree(nodes, i))
    BY <1>0, <2>1, FS_Subset
  <2>. QED
    BY <2>1, <2>2, SumType
<1>. DEFINE w(i) == nodes[i].weight + SumOver(d, Subtree(nodes, i))
            x(i) == IF w(i) < 0 THEN 0 ELSE w(i)
            node(i) == [nodes[i] EXCEPT !.weight = x(i)]
<1>2. ms = [i \in 1 .. Len(nodes) |-> node(i)]
  BY <1>0 DEF ApplyDeltas
<1>3. ASSUME NEW i \in 1 .. Len(nodes)
      PROVE  /\ node(i) \in Nodes /\ node(i).weight = x(i) /\ nodes[i].weight \in Nat
             /\ node(i).root = nodes[i].root /\ node(i).parent = nodes[i].parent
             /\ node(i).je = nodes[i].je /\ node(i).fe = nodes[i].fe
             /\ node(i).bestChild = nodes[i].bestChild
             /\ node(i).bestDescendant = nodes[i].bestDescendant
  <2>1. nodes[i] \in Nodes
    BY <1>0
  <2>2. nodes[i].weight \in Nat
    BY <2>1 DEF Nodes
  <2>3. x(i) \in Nat
    BY <1>1, <2>2
  <2>. HIDE DEF x
  <2>. QED
    BY <2>1, <2>2, <2>3 DEF Nodes
<1>. HIDE DEF node
<1>4. ms \in Seq(Nodes) /\ Len(ms) = Len(nodes) /\ \A i \in 1 .. Len(nodes) : ms[i] = node(i)
  <2>1. ms \in [1 .. Len(nodes) -> Nodes]
    BY <1>2, <1>3
  <2>. QED
    BY <1>0, <1>2, <2>1
<1>5. SameBlocks(ms, nodes)
  BY <1>3, <1>4 DEF SameBlocks
<1>6. Tree(ms) /\ Links(ms)
  BY <1>3, <1>4, <1>5, LinksSame
<1>. QED
  BY <1>1, <1>3, <1>4, <1>5, <1>6

\* The loop of updateCanonicalNodes, from node i up.
LEMMA CanonicalSolution ==
  ASSUME NEW ns, Tree(ns), NEW i \in 1 .. Len(ns)
  PROVE  \E g : /\ UpdateCanonicalNodes(ns, i) = g[i]
                /\ \A j \in 1 .. Len(ns) :
                      LET p == ns[j].parent
                      IN  g[j] = {ns[j].root} \cup
                            IF p = 0 \/ ns[p].root \in canonicalNodes THEN {} ELSE g[p]
<1>0. /\ Len(ns) \in Nat /\ DOMAIN ns = 1 .. Len(ns)
      /\ \A j \in 1 .. Len(ns) : ns[j].parent \in Nat /\ ns[j].parent < j
  BY TreeFacts
<1>. DEFINE stop(j) == ns[j].parent = 0 \/ ns[ns[j].parent].root \in canonicalNodes
            Def(n, g) == [j \in 1 .. n |-> {ns[j].root} \cup IF stop(j) THEN {} ELSE g[ns[j].parent]]
            T == {n \in Nat : n <= Len(ns) => \E g : g = Def(n, g)}
<1>. HIDE DEF stop
<1>1. ASSUME NEW m \in Nat, \A k \in Nat : k < m => k \in T PROVE m \in T
  <2>. SUFFICES ASSUME m <= Len(ns) PROVE \E g : g = Def(m, g)
    <3>. HIDE DEF Def
    <3>. QED
      OBVIOUS
  <2>1. CASE m = 0
    <3>1. \A j \in 1 .. m : FALSE
      BY <2>1
    <3>. DEFINE h == [j \in 1 .. m |-> {}]
    <3>2. h = Def(m, h)
      BY <3>1
    <3>. HIDE DEF h, Def
    <3>. QED
      BY <3>2
  <2>2. CASE m # 0
    <3>1. m - 1 \in Nat /\ m - 1 < m /\ m - 1 <= Len(ns)
      BY <1>0, <2>2
    <3>2. PICK g : g = Def(m - 1, g)
      <4>1. m - 1 \in T
        BY <1>1, <3>1
      <4>. HIDE DEF Def
      <4>. QED
        BY <3>1, <4>1
    <3>. DEFINE h == Def(m, g)
    <3>3. ASSUME NEW k \in 1 .. m - 1 PROVE h[k] = g[k]
      <4>1. k \in 1 .. m
        BY <3>1
      <4>2. h[k] = {ns[k].root} \cup IF stop(k) THEN {} ELSE g[ns[k].parent]
        BY <4>1
      <4>3. g[k] = Def(m - 1, g)[k]
        <5>. HIDE DEF Def
        <5>. QED
          BY <3>2, Zenon
      <4>4. Def(m - 1, g)[k] = {ns[k].root} \cup IF stop(k) THEN {} ELSE g[ns[k].parent]
        OBVIOUS
      <4>. HIDE DEF h, Def
      <4>. QED
        BY <4>2, <4>3, <4>4
    <3>4. \A k \in 1 .. m : ~stop(k) => h[ns[k].parent] = g[ns[k].parent]
      <4>1. \A k \in 1 .. m : ~stop(k) => ns[k].parent \in 1 .. m - 1
        BY <1>0 DEF stop
      <4>. HIDE DEF h
      <4>. QED
        BY <3>3, <4>1
    <3>5. h = Def(m, h)
      <4>1. Def(m, h) = Def(m, g)
        <5>. HIDE DEF h
        <5>. QED
          BY <3>4
      <4>. QED
        BY <4>1
    <3>. HIDE DEF h, Def
    <3>. QED
      BY <3>5
  <2>. QED
    BY <2>1, <2>2
<1>2. Nat \subseteq T
  <2>. HIDE DEF T
  <2>. QED
    BY <1>1, StrongInduction
<1>3. \E g : g = Def(Len(ns), g)
  <2>. HIDE DEF Def
  <2>. QED
    BY <1>0, <1>2
<1>. DEFINE b == CHOOSE g : g = Def(Len(ns), g)
<1>4. b = Def(Len(ns), b)
  <2>. HIDE DEF Def
  <2>. QED
    BY <1>3, Zenon
<1>5. UpdateCanonicalNodes(ns, i) = b[i]
  BY <1>0 DEF UpdateCanonicalNodes, NonExistentNode, stop
<1>. HIDE DEF b
<1>6. ASSUME NEW j \in 1 .. Len(ns)
      PROVE  b[j] = {ns[j].root} \cup IF stop(j) THEN {} ELSE b[ns[j].parent]
  <2>1. b[j] = Def(Len(ns), b)[j]
    <3>. HIDE DEF Def
    <3>. QED
      BY <1>4, Zenon
  <2>2. Def(Len(ns), b)[j] = {ns[j].root} \cup IF stop(j) THEN {} ELSE b[ns[j].parent]
    OBVIOUS
  <2>. HIDE DEF Def
  <2>. QED
    BY <2>1, <2>2
<1>. QED
  BY <1>5, <1>6 DEF stop

\* updateCanonicalNodes marks the node, and of a marked node the parent is
\* marked or was canonical before.
LEMMA CanonicalFacts ==
  ASSUME NEW ns, Tree(ns), NEW i \in 1 .. Len(ns), NEW M, M = UpdateCanonicalNodes(ns, i)
  PROVE  /\ ns[i].root \in M
         /\ \A r \in M : \E j \in 1 .. Len(ns) :
               /\ ns[j].root = r
               /\ ns[j].parent = 0 \/ ns[ns[j].parent].root \in canonicalNodes \cup M
<1>0. /\ Len(ns) \in Nat
      /\ \A j \in 1 .. Len(ns) : ns[j].parent \in Nat /\ ns[j].parent < j
  BY TreeFacts
<1>1. PICK g : /\ M = g[i]
               /\ \A j \in 1 .. Len(ns) :
                     LET p == ns[j].parent
                     IN  g[j] = {ns[j].root} \cup
                           IF p = 0 \/ ns[p].root \in canonicalNodes THEN {} ELSE g[p]
  BY CanonicalSolution
<1>. DEFINE Good(m) ==
              /\ ns[m].root \in g[m]
              /\ \A r \in g[m] : \E j \in 1 .. Len(ns) :
                    /\ ns[j].root = r
                    /\ ns[j].parent = 0 \/ ns[ns[j].parent].root \in canonicalNodes \cup g[m]
            T == {m \in Nat : m \in 1 .. Len(ns) => Good(m)}
<1>2. ASSUME NEW m \in Nat, \A k \in Nat : k < m => k \in T PROVE m \in T
  <2>. SUFFICES ASSUME m \in 1 .. Len(ns) PROVE Good(m)
    BY Zenon
  <2>. DEFINE p == ns[m].parent
  <2>1. g[m] = {ns[m].root} \cup IF p = 0 \/ ns[p].root \in canonicalNodes THEN {} ELSE g[p]
    BY <1>1
  <2>2. CASE p = 0 \/ ns[p].root \in canonicalNodes
    BY <2>1, <2>2
  <2>3. CASE ~(p = 0 \/ ns[p].root \in canonicalNodes)
    <3>1. Good(p)
      <4>1. p \in Nat /\ p < m /\ p \in 1 .. Len(ns)
        BY <1>0, <2>3
      <4>. HIDE DEF Good, p
      <4>. QED
        BY <1>2, <4>1
    <3>2. g[m] = {ns[m].root} \cup g[p]
      BY <2>1, <2>3
    <3>3. ns[p].root \in g[m]
      BY <3>1, <3>2
    <3>4. ASSUME NEW r \in g[p]
          PROVE  \E j \in 1 .. Len(ns) :
                    /\ ns[j].root = r
                    /\ ns[j].parent = 0 \/ ns[ns[j].parent].root \in canonicalNodes \cup g[m]
      <4>1. PICK j \in 1 .. Len(ns) :
               /\ ns[j].root = r
               /\ ns[j].parent = 0 \/ ns[ns[j].parent].root \in canonicalNodes \cup g[p]
        BY <3>1, Zenon
      <4>2. canonicalNodes \cup g[p] \subseteq canonicalNodes \cup g[m]
        BY <3>2
      <4>. HIDE DEF p
      <4>. QED
        BY <4>1, <4>2
    <3>. QED
      BY <3>2, <3>3, <3>4
  <2>. QED
    BY <2>2, <2>3
<1>3. Nat \subseteq T
  <2>. HIDE DEF T
  <2>. QED
    BY <1>2, StrongInduction
<1>4. Good(i)
  <2>. HIDE DEF Good
  <2>. QED
    BY <1>0, <1>3
<1>. QED
  BY <1>1, <1>4

===============================================================================
