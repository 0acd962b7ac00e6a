--------------------------- MODULE MultilockProofs ---------------------------
(***************************************************************************)
(* Proofs about Multilock for any goroutines, any number of keys and any   *)
(* sets of keys the callers lock.                                          *)
(***************************************************************************)
EXTENDS Multilock, WellFoundedInduction, TLAPS

-------------------------------------------------------------------------------
(* The inductive invariant *)

\* What a goroutine holds at each point of Lock and Unlock; in Lock, every key
\* it holds is smaller than every key it still needs.
PcInv ==
    \A p \in Procs :
        /\ cur[p] # NoChan <=> pc[p] \in {"recv", "parked"}
        /\ pc[p] \in Locking =>
               /\ keys[p] \ Held(p) # {}
               /\ \A h \in Held(p), k \in keys[p] \ Held(p) : h < k
        /\ pc[p] \in Holding => Held(p) # {}
        /\ pc[p] \notin Locking \cup Holding => Held(p) = {}

\* A channel is listed under one key; the listed channels that are closed are
\* those that Clean is about to remove.
ListInv ==
    /\ \A j, k \in Keys : (list[j] # NoChan /\ list[j] = list[k]) => j = k
    /\ \A k \in Keys : k \in dels <=> list[k] # NoChan /\ token[list[k]] = "closed"
    /\ \A k \in todo : list[k] # NoChan
    /\ mutex = NoProc => dels = {} /\ todo = {}

\* The channel of a held key is the listed one, and its token is taken.
HoldInv ==
    \A p \in Procs : \A k \in Held(p) :
        chans[p][k] = list[k] /\ token[list[k]] = "empty"

\* A taken token is in somebody's hands.
TakenInv ==
    \A k \in Keys : (list[k] # NoChan /\ token[list[k]] = "empty")
        => \E q \in Procs : k \in Held(q)

\* A goroutine waits for the listed channel of its next key, or for one that is
\* closed and will send it back to getChan.
WaitInv ==
    \A p \in Procs :
        /\ pc[p] = "recv" => list[NextKey(p)] = cur[p] \/ token[cur[p]] = "closed"
        /\ pc[p] = "parked" => list[NextKey(p)] = cur[p] /\ token[cur[p]] = "empty"

\* A listed channel will be looked at by a Clean.
CleanInv ==
    \A k \in Keys : list[k] # NoChan =>
        \E p \in Procs : \/ pc[p] \in Locking \cup Holding \cup {"clean"}
                         \/ mutex = p /\ k \in todo \cup dels

IInv == /\ TypeOK /\ PcInv /\ ListInv /\ HoldInv /\ MutualExclusion
        /\ TakenInv /\ WaitInv /\ CleanInv

-------------------------------------------------------------------------------
(* Keys *)

LEMMA KeysAreNaturals == Keys \subseteq Nat
BY KeysAssumption DEF Keys

\* Every nonempty set of naturals has a least element.
LEMMA SmallestExists ==
    ASSUME NEW S \in SUBSET Nat, S # {}
    PROVE  Smallest(S) \in S /\ \A y \in S : Smallest(S) <= y
<1>. DEFINE R == {ss \in Nat \X Nat : ss[1] < ss[2]}
<1>1. IsWellFoundedOn(R, Nat)
  <2>1. OpToRel(<, Nat) = R
    BY Zenon DEF OpToRel
  <2>. QED  BY <2>1, NatLessThanWellFounded
<1>2. PICK m \in S : \A y \in S : ~(<<y, m>> \in R)
  <2>. HIDE DEF R
  <2>. QED  BY <1>1, WFMin
<1>3. ASSUME NEW y \in S  PROVE m <= y
  <2>1. <<y, m>> \in Nat \X Nat /\ (<<y, m>> \in R <=> y < m)
    OBVIOUS
  <2>. QED  BY <2>1, <1>2
<1>. QED  BY <1>3 DEF Smallest

\* Every nonempty set of keys has a greatest element.
LEMMA GreatestExists ==
    ASSUME NEW S \in SUBSET Keys, S # {}
    PROVE  \E m \in S : \A y \in S : y <= m
<1>. DEFINE T == {NumKeys - i : i \in S}
<1>. USE KeysAssumption DEF Keys
<1>1. T \in SUBSET Nat
  OBVIOUS
<1>2. PICK m \in T : \A y \in T : m <= y
  <2>1. T # {}
    OBVIOUS
  <2>. HIDE DEF T
  <2>. QED  BY <1>1, <2>1, SmallestExists
<1>3. PICK i \in S : m = NumKeys - i
  OBVIOUS
<1>4. \A y \in S : NumKeys - y \in T
  OBVIOUS
<1>5. ASSUME NEW y \in S  PROVE y <= i
  <2>1. NumKeys - i <= NumKeys - y
    BY <1>2, <1>3, <1>4
  <2>2. y \in Nat /\ i \in Nat
    BY KeysAreNaturals
  <2>. QED  BY <2>1, <2>2
<1>. QED  BY <1>5

\* The key a goroutine in Lock tries next.
LEMMA NextKeyFacts ==
    ASSUME TypeOK, NEW p \in Procs, keys[p] \ Held(p) # {}
    PROVE  /\ NextKey(p) \in keys[p] \ Held(p) /\ NextKey(p) \in Keys
           /\ \A k \in keys[p] \ Held(p) : NextKey(p) <= k
<1>1. keys[p] \ Held(p) \subseteq Keys
  BY DEF TypeOK
<1>2. keys[p] \ Held(p) \in SUBSET Nat
  BY <1>1, KeysAreNaturals
<1>. QED  BY <1>1, <1>2, SmallestExists DEF NextKey

\* It is a function of what the goroutine wants and holds.
LEMMA SameLock ==
    ASSUME NEW p \in Procs, keys'[p] = keys[p], chans'[p] = chans[p]
    PROVE  Held(p)' = Held(p) /\ NextKey(p)' = NextKey(p)
BY DEF Held, NextKey

-------------------------------------------------------------------------------
(* The steps *)

LEMMA InvInit == Init => IInv
<1>. SUFFICES ASSUME Init  PROVE IInv
  OBVIOUS
<1>1. \A p \in Procs : Held(p) = {}
  BY DEF Init, Held
<1>2. TypeOK
  BY NoneAssumption DEF Init, TypeOK
<1>. QED  BY <1>1, <1>2
          DEF Init, IInv, PcInv, ListInv, HoldInv, MutualExclusion, TakenInv,
              WaitInv, CleanInv, Locking, Holding

LEMMA NewMultilockStep ==
    ASSUME IInv, NEW p \in Procs, NEW K \in KeySets, NewMultilock(p, K)
    PROVE  IInv'
<1>1. /\ pc[p] = "idle" /\ K # {} /\ pc' = [pc EXCEPT ![p] = "get"]
      /\ keys' = [keys EXCEPT ![p] = K]
      /\ UNCHANGED <<chans, cur, list, mutex, todo, dels, token>>
  BY DEF NewMultilock, globals
<1>2. pc'[p] = "get" /\ keys'[p] = K
      /\ \A q \in Procs : q # p => pc'[q] = pc[q] /\ keys'[q] = keys[q]
  BY <1>1 DEF IInv, TypeOK
<1>3. TypeOK'
  BY <1>1, <1>2, KeySetsAssumption DEF IInv, TypeOK, Locking
<1>4. \A q \in Procs : Held(q)' = Held(q)
  BY <1>1 DEF Held
<1>5. \A q \in Procs : q # p => NextKey(q)' = NextKey(q)
  BY <1>1, <1>2, SameLock
<1>6. Held(p) = {}
  BY <1>1 DEF IInv, PcInv, Locking, Holding
<1>7. PcInv'
  BY <1>1, <1>2, <1>4, <1>6 DEF IInv, PcInv, Locking, Holding
<1>8. ListInv' /\ HoldInv' /\ MutualExclusion' /\ TakenInv'
  BY <1>1, <1>4 DEF IInv, ListInv, HoldInv, MutualExclusion, TakenInv
<1>9. WaitInv'
  BY <1>1, <1>2, <1>5 DEF IInv, WaitInv
<1>10. CleanInv'
  BY <1>1, <1>2 DEF IInv, CleanInv, Locking
<1>. QED  BY <1>3, <1>7, <1>8, <1>9, <1>10 DEF IInv

\* A new channel is garbage before: no invariant speaks of it.
LEMMA GetChanStep ==
    ASSUME IInv, NEW p \in Procs, GetChan(p)
    PROVE  IInv'
<1>. DEFINE k == NextKey(p)
            ch == MakeChan
<1>1. /\ pc[p] = "get" /\ mutex = NoProc /\ pc' = [pc EXCEPT ![p] = "recv"]
      /\ UNCHANGED <<keys, chans, mutex, todo, dels>>
  BY DEF GetChan
<1>2. pc'[p] = "recv" /\ \A q \in Procs : q # p => pc'[q] = pc[q]
  BY <1>1 DEF IInv, TypeOK
<1>3. \A q \in Procs : Held(q)' = Held(q) /\ NextKey(q)' = NextKey(q)
  BY <1>1, SameLock
<1>4. /\ keys[p] \ Held(p) # {}
      /\ \A h \in Held(p), j \in keys[p] \ Held(p) : h < j
  BY <1>1 DEF IInv, PcInv, Locking
<1>5. k \in Keys /\ k \in keys[p] \ Held(p)
  BY <1>4, NextKeyFacts DEF IInv
<1>6. dels = {} /\ todo = {}
  BY <1>1 DEF IInv, ListInv
<1>7. CASE list[k] # NoChan /\ cur' = [cur EXCEPT ![p] = list[k]]
           /\ UNCHANGED <<list, token>>
  <2>1. cur'[p] = list[k] /\ \A q \in Procs : q # p => cur'[q] = cur[q]
    BY <1>7 DEF IInv, TypeOK
  <2>2. TypeOK'
    BY <1>1, <1>2, <1>5, <1>7 DEF IInv, TypeOK, Locking
  <2>3. PcInv'
    BY <1>1, <1>2, <1>3, <1>4, <1>7, <2>1 DEF IInv, PcInv, Locking, Holding
  <2>4. ListInv' /\ HoldInv' /\ MutualExclusion' /\ TakenInv'
    BY <1>1, <1>3, <1>7 DEF IInv, ListInv, HoldInv, MutualExclusion, TakenInv
  <2>5. WaitInv'
    BY <1>2, <1>3, <1>7, <2>1 DEF IInv, WaitInv
  <2>6. CleanInv'
    BY <1>1, <1>2, <1>7 DEF IInv, CleanInv, Locking
  <2>. QED  BY <2>2, <2>3, <2>4, <2>5, <2>6 DEF IInv
<1>8. CASE /\ list[k] = NoChan /\ \E c \in Chans : Garbage(c)
           /\ list' = [list EXCEPT ![k] = ch]
           /\ token' = [token EXCEPT ![ch] = "full"]
           /\ cur' = [cur EXCEPT ![p] = ch]
  <2>1. ch \in Chans /\ Garbage(ch)
    BY <1>8 DEF MakeChan
  <2>. HIDE DEF ch, k
  <2>2. /\ ch \in Chans /\ ch # NoChan /\ token[ch] = "closed"
        /\ \A j \in Keys : list[j] # ch
        /\ \A q \in Procs : cur[q] # ch
    BY <2>1, NoneAssumption DEF Garbage
  <2>3. /\ cur'[p] = ch /\ \A q \in Procs : q # p => cur'[q] = cur[q]
        /\ list'[k] = ch /\ \A j \in Keys : j # k => list'[j] = list[j]
        /\ token'[ch] = "full" /\ \A c \in Chans : c # ch => token'[c] = token[c]
    BY <1>5, <1>8, <2>2 DEF IInv, TypeOK
  <2>4. TypeOK'
    BY <1>1, <1>2, <1>5, <1>8, <2>2 DEF IInv, TypeOK, Locking
  <2>5. PcInv'
    BY <1>1, <1>2, <1>3, <1>4, <2>2, <2>3 DEF IInv, PcInv, Locking, Holding
  <2>6. \A j \in Keys : list[j] # NoChan => list'[j] = list[j] /\ list[j] \in Chans
                                            /\ token'[list[j]] = token[list[j]]
    BY <1>8, <2>2, <2>3 DEF IInv, TypeOK
  <2>7. ListInv'
    BY <1>1, <1>6, <1>8, <2>2, <2>3, <2>6 DEF IInv, ListInv
  <2>8. \A q \in Procs : \A j \in Held(q) : list[j] # NoChan /\ j \in Keys
    BY DEF IInv, HoldInv, Held
  <2>9. HoldInv' /\ MutualExclusion'
    BY <1>1, <1>3, <2>6, <2>8 DEF IInv, HoldInv, MutualExclusion
  <2>10. TakenInv'
    BY <1>3, <2>2, <2>3, <2>6 DEF IInv, TakenInv
  <2>11. ASSUME NEW q \in Procs, q # p
         PROVE  /\ pc'[q] = "recv" => list'[NextKey(q)'] = cur'[q]
                                      \/ token'[cur'[q]] = "closed"
                /\ pc'[q] = "parked" => list'[NextKey(q)'] = cur'[q]
                                        /\ token'[cur'[q]] = "empty"
    <3>1. CASE pc[q] \in {"recv", "parked"}
      <4>1. cur[q] \in Chans /\ cur[q] # ch /\ token'[cur[q]] = token[cur[q]]
        BY <2>2, <2>3, <3>1 DEF IInv, PcInv, TypeOK
      <4>2. NextKey(q) \in Keys
        BY <3>1, NextKeyFacts DEF IInv, PcInv, Locking
      <4>3. list[NextKey(q)] = cur[q] => list'[NextKey(q)] = cur[q]
        BY <2>6, <4>1, <4>2, NoneAssumption
      <4>. QED  BY <1>2, <1>3, <2>3, <2>11, <4>1, <4>3 DEF IInv, WaitInv
    <3>2. CASE pc[q] \notin {"recv", "parked"}
      BY <1>2, <2>11, <3>2
    <3>. QED  BY <3>1, <3>2
  <2>12. WaitInv'
    BY <1>2, <1>3, <2>3, <2>11 DEF WaitInv, k
  <2>13. CleanInv'
    BY <1>2 DEF CleanInv, Locking
  <2>. QED  BY <2>4, <2>5, <2>7, <2>9, <2>10, <2>12, <2>13 DEF IInv
<1>. QED  BY <1>7, <1>8 DEF GetChan

LEMMA ReceiveClosedStep ==
    ASSUME IInv, NEW p \in Procs, ReceiveClosed(p)
    PROVE  IInv'
<1>1. /\ pc[p] = "recv" /\ pc' = [pc EXCEPT ![p] = "get"]
      /\ cur' = [cur EXCEPT ![p] = NoChan]
      /\ UNCHANGED <<keys, chans, list, mutex, todo, dels, token>>
  BY DEF ReceiveClosed, globals
<1>2. /\ pc'[p] = "get" /\ cur'[p] = NoChan
      /\ \A q \in Procs : q # p => pc'[q] = pc[q] /\ cur'[q] = cur[q]
  BY <1>1 DEF IInv, TypeOK
<1>3. \A q \in Procs : Held(q)' = Held(q) /\ NextKey(q)' = NextKey(q)
  BY <1>1, SameLock
<1>4. TypeOK'
  BY <1>1, <1>2 DEF IInv, TypeOK, Locking
<1>5. PcInv'
  BY <1>1, <1>2, <1>3 DEF IInv, PcInv, Locking, Holding
<1>6. ListInv' /\ HoldInv' /\ MutualExclusion' /\ TakenInv'
  BY <1>1, <1>3 DEF IInv, ListInv, HoldInv, MutualExclusion, TakenInv
<1>7. WaitInv'
  BY <1>1, <1>2, <1>3 DEF IInv, WaitInv
<1>8. CleanInv'
  BY <1>1, <1>2 DEF IInv, CleanInv, Locking
<1>. QED  BY <1>4, <1>5, <1>6, <1>7, <1>8 DEF IInv

LEMMA ParkStep ==
    ASSUME IInv, NEW p \in Procs, Park(p)
    PROVE  IInv'
<1>1. /\ pc[p] = "recv" /\ token[cur[p]] = "empty"
      /\ pc' = [pc EXCEPT ![p] = "parked"]
      /\ UNCHANGED <<keys, chans, cur, list, mutex, todo, dels, token>>
  BY DEF Park, globals
<1>2. pc'[p] = "parked" /\ \A q \in Procs : q # p => pc'[q] = pc[q]
  BY <1>1 DEF IInv, TypeOK
<1>3. \A q \in Procs : Held(q)' = Held(q) /\ NextKey(q)' = NextKey(q)
  BY <1>1, SameLock
<1>4. TypeOK'
  BY <1>1, <1>2 DEF IInv, TypeOK, Locking
<1>5. PcInv'
  BY <1>1, <1>2, <1>3 DEF IInv, PcInv, Locking, Holding
<1>6. ListInv' /\ HoldInv' /\ MutualExclusion' /\ TakenInv'
  BY <1>1, <1>3 DEF IInv, ListInv, HoldInv, MutualExclusion, TakenInv
<1>7. WaitInv'
  BY <1>1, <1>2, <1>3 DEF IInv, WaitInv
<1>8. CleanInv'
  BY <1>1, <1>2 DEF IInv, CleanInv, Locking
<1>. QED  BY <1>4, <1>5, <1>6, <1>7, <1>8 DEF IInv

LEMMA UnlockStep ==
    ASSUME IInv, NEW p \in Procs, Unlock(p)
    PROVE  IInv'
<1>1. /\ pc[p] = "held" /\ pc' = [pc EXCEPT ![p] = "unlock"]
      /\ UNCHANGED <<keys, chans, cur, list, mutex, todo, dels, token>>
  BY DEF Unlock, globals
<1>2. pc'[p] = "unlock" /\ \A q \in Procs : q # p => pc'[q] = pc[q]
  BY <1>1 DEF IInv, TypeOK
<1>3. \A q \in Procs : Held(q)' = Held(q) /\ NextKey(q)' = NextKey(q)
  BY <1>1, SameLock
<1>4. TypeOK'
  BY <1>1, <1>2 DEF IInv, TypeOK, Holding
<1>5. PcInv'
  BY <1>1, <1>2, <1>3 DEF IInv, PcInv, Locking, Holding
<1>6. ListInv' /\ HoldInv' /\ MutualExclusion' /\ TakenInv'
  BY <1>1, <1>3 DEF IInv, ListInv, HoldInv, MutualExclusion, TakenInv
<1>7. WaitInv'
  BY <1>1, <1>2, <1>3 DEF IInv, WaitInv
<1>8. CleanInv'
  BY <1>1, <1>2 DEF IInv, CleanInv, Holding
<1>. QED  BY <1>4, <1>5, <1>6, <1>7, <1>8 DEF IInv

LEMMA CleanStartStep ==
    ASSUME IInv, NEW p \in Procs, CleanStart(p)
    PROVE  IInv'
<1>1. /\ pc[p] = "clean" /\ mutex = NoProc /\ mutex' = p
      /\ todo' = {k \in Keys : list[k] # NoChan}
      /\ pc' = [pc EXCEPT ![p] = "cleaning"]
      /\ UNCHANGED <<keys, chans, cur, list, dels, token>>
  BY DEF CleanStart
<1>2. pc'[p] = "cleaning" /\ \A q \in Procs : q # p => pc'[q] = pc[q]
  BY <1>1 DEF IInv, TypeOK
<1>3. \A q \in Procs : Held(q)' = Held(q) /\ NextKey(q)' = NextKey(q)
  BY <1>1, SameLock
<1>4. TypeOK'
  BY <1>1, <1>2, NoneAssumption DEF IInv, TypeOK
<1>5. PcInv'
  BY <1>1, <1>2, <1>3 DEF IInv, PcInv, Locking, Holding
<1>6. ListInv' /\ HoldInv' /\ MutualExclusion' /\ TakenInv'
  BY <1>1, <1>3, NoneAssumption DEF IInv, ListInv, HoldInv, MutualExclusion, TakenInv
<1>7. WaitInv'
  BY <1>1, <1>2, <1>3 DEF IInv, WaitInv
<1>8. CleanInv'
  BY <1>1 DEF CleanInv
<1>. QED  BY <1>4, <1>5, <1>6, <1>7, <1>8 DEF IInv

\* Only a channel whose token nobody holds is closed; a taken token has a
\* holder, who will clean later.
LEMMA CleanKeyStep ==
    ASSUME IInv, NEW p \in Procs, NEW k \in Keys, CleanKey(p, k)
    PROVE  IInv'
<1>1. /\ mutex = p /\ k \in todo /\ todo' = todo \ {k}
      /\ UNCHANGED <<pc, keys, chans, cur, list, mutex>>
  BY DEF CleanKey
<1>2. \A q \in Procs : Held(q)' = Held(q) /\ NextKey(q)' = NextKey(q)
  BY <1>1, SameLock
<1>3. list[k] # NoChan /\ list[k] \in Chans /\ mutex # NoProc
  BY <1>1, NoneAssumption DEF IInv, ListInv, TypeOK
<1>4. CASE token[list[k]] # "full" /\ UNCHANGED <<token, dels>>
  <2>1. TypeOK' /\ PcInv' /\ WaitInv'
    <3>1. TypeOK'
      BY <1>1, <1>4 DEF IInv, TypeOK
    <3>2. PcInv'
      BY <1>1, <1>2 DEF IInv, PcInv
    <3>3. WaitInv'
      BY <1>1, <1>2, <1>4 DEF IInv, WaitInv
    <3>. QED  BY <3>1, <3>2, <3>3
  <2>2. ListInv' /\ HoldInv' /\ MutualExclusion' /\ TakenInv'
    <3>1. ListInv'
      BY <1>1, <1>3, <1>4 DEF IInv, ListInv
    <3>2. HoldInv'
      BY <1>1, <1>2, <1>4 DEF IInv, HoldInv
    <3>3. MutualExclusion'
      BY <1>2 DEF IInv, MutualExclusion
    <3>4. TakenInv'
      BY <1>1, <1>2, <1>4 DEF IInv, TakenInv
    <3>. QED  BY <3>1, <3>2, <3>3, <3>4
  <2>3. k \in dels \/ \E q \in Procs : k \in Held(q)
    BY <1>3, <1>4 DEF IInv, TypeOK, ListInv, TakenInv
  <2>4. k \in dels \/ \E q \in Procs : pc[q] \in Locking \cup Holding
    BY <2>3 DEF IInv, PcInv
  <2>5. CleanInv'
    BY <1>1, <1>4, <2>4 DEF IInv, CleanInv
  <2>. QED  BY <2>1, <2>2, <2>5 DEF IInv
<1>5. CASE /\ token[list[k]] = "full"
           /\ token' = [token EXCEPT ![list[k]] = "closed"]
           /\ dels' = dels \cup {k}
  <2>1. /\ token'[list[k]] = "closed"
        /\ \A c \in Chans : c # list[k] => token'[c] = token[c]
    BY <1>3, <1>5 DEF IInv, TypeOK
  <2>2. \A j \in Keys : (j # k /\ list[j] # NoChan) =>
            list[j] \in Chans /\ token'[list[j]] = token[list[j]]
    BY <1>3, <2>1 DEF IInv, TypeOK, ListInv
  <2>3. TypeOK' /\ PcInv'
    BY <1>1, <1>2, <1>3, <1>5 DEF IInv, TypeOK, PcInv
  <2>4. ListInv'
    BY <1>1, <1>3, <1>5, <2>1, <2>2 DEF IInv, ListInv
  <2>5. \A q \in Procs : \A j \in Held(q) : j \in Keys /\ j # k /\ list[j] # NoChan
    BY <1>5 DEF IInv, HoldInv, Held
  <2>6. HoldInv' /\ MutualExclusion'
    BY <1>1, <1>2, <2>2, <2>5 DEF IInv, HoldInv, MutualExclusion
  <2>7. TakenInv'
    BY <1>1, <1>2, <1>3, <2>1, <2>2 DEF IInv, TakenInv
  <2>8. \A q \in Procs : cur[q] \in Chans =>
            \/ token'[cur[q]] = token[cur[q]]
            \/ token[cur[q]] = "full" /\ token'[cur[q]] = "closed"
    BY <1>3, <1>5, <2>1
  <2>9. \A q \in Procs : pc[q] \in {"recv", "parked"} => cur[q] \in Chans
    BY DEF IInv, PcInv, TypeOK
  <2>10. WaitInv'
    BY <1>1, <1>2, <2>8, <2>9 DEF IInv, WaitInv
  <2>11. CleanInv'
    BY <1>1, <1>5 DEF IInv, CleanInv
  <2>. QED  BY <2>3, <2>4, <2>6, <2>7, <2>10, <2>11 DEF IInv
<1>. QED  BY <1>4, <1>5 DEF CleanKey

LEMMA CleanEndStep ==
    ASSUME IInv, NEW p \in Procs, CleanEnd(p)
    PROVE  IInv'
<1>1. /\ mutex = p /\ todo = {} /\ dels' = {} /\ mutex' = NoProc
      /\ list' = [k \in Keys |-> IF k \in dels THEN NoChan ELSE list[k]]
      /\ pc' = [pc EXCEPT ![p] = "idle"] /\ keys' = [keys EXCEPT ![p] = {}]
      /\ UNCHANGED <<chans, cur, todo, token>>
  BY DEF CleanEnd
<1>2. /\ pc[p] = "cleaning" /\ pc'[p] = "idle"
      /\ \A q \in Procs : q # p => pc'[q] = pc[q] /\ keys'[q] = keys[q]
      /\ \A q \in Procs : pc[q] = "cleaning" => q = p
  BY <1>1 DEF IInv, TypeOK
<1>3. \A q \in Procs : Held(q)' = Held(q)
  BY <1>1 DEF Held
<1>4. \A q \in Procs : q # p => NextKey(q)' = NextKey(q)
  BY <1>1, <1>2, SameLock
<1>5. TypeOK'
  BY <1>1, <1>2, NoneAssumption DEF IInv, TypeOK
<1>6. PcInv'
  BY <1>1, <1>2, <1>3 DEF IInv, PcInv, Locking, Holding
<1>7. \A k \in Keys : IF k \in dels
                      THEN list'[k] = NoChan /\ token[list[k]] = "closed"
                      ELSE list'[k] = list[k]
                           /\ (list[k] # NoChan => token[list[k]] # "closed")
  BY <1>1 DEF IInv, ListInv
<1>8. ListInv'
  BY <1>1, <1>7 DEF IInv, ListInv
<1>9. \A q \in Procs : \A k \in Held(q) : k \in Keys /\ list'[k] = list[k]
  BY <1>7 DEF IInv, HoldInv, Held
<1>10. HoldInv' /\ MutualExclusion'
  BY <1>1, <1>3, <1>9 DEF IInv, HoldInv, MutualExclusion
<1>11. TakenInv'
  BY <1>1, <1>3, <1>7 DEF IInv, TakenInv
<1>12. \A q \in Procs : pc[q] \in {"recv", "parked"} => NextKey(q) \in Keys
  BY NextKeyFacts DEF IInv, PcInv, Locking
<1>13. WaitInv'
  BY <1>1, <1>2, <1>4, <1>7, <1>12 DEF IInv, WaitInv
<1>14. CleanInv'
  <2>1. ASSUME NEW k \in Keys, list'[k] # NoChan
        PROVE  \E q \in Procs : pc'[q] \in Locking \cup Holding \cup {"clean"}
    <3>1. k \notin dels /\ list[k] # NoChan
      BY <1>7, <2>1
    <3>2. PICK q \in Procs : pc[q] \in Locking \cup Holding \cup {"clean"}
      BY <1>1, <3>1 DEF IInv, CleanInv
    <3>3. q # p
      BY <1>2, <3>2 DEF Locking, Holding
    <3>. QED  BY <1>2, <3>2, <3>3
  <2>. QED  BY <2>1 DEF CleanInv
<1>. QED  BY <1>5, <1>6, <1>8, <1>10, <1>11, <1>13, <1>14 DEF IInv

\* A goroutine that takes the token of its next key: its keys stay ordered.
LEMMA AcquireFacts ==
    ASSUME TypeOK, PcInv, NEW p \in Procs, pc[p] \in Locking, NEW c \in Chans,
           chans'[p] = [chans[p] EXCEPT ![NextKey(p)] = c],
           keys'[p] = keys[p]
    PROVE  /\ NextKey(p) \in Keys /\ NextKey(p) \notin Held(p)
           /\ chans'[p] \in [Keys -> Chans \cup {NoChan}]
           /\ chans'[p][NextKey(p)] = c
           /\ \A j \in Keys : j # NextKey(p) => chans'[p][j] = chans[p][j]
           /\ Held(p)' = Held(p) \cup {NextKey(p)}
           /\ AfterAcquire(p) \in {"held", "get"}
           /\ AfterAcquire(p) = "get" =>
                  /\ keys'[p] \ Held(p)' # {}
                  /\ \A h \in Held(p)', j \in keys'[p] \ Held(p)' : h < j
<1>. DEFINE k == NextKey(p)
            R == keys[p] \ Held(p)
<1>1. R # {} /\ \A h \in Held(p), j \in R : h < j
  BY DEF PcInv
<1>2. k \in R /\ k \in Keys /\ \A j \in R : k <= j
  BY <1>1, NextKeyFacts
<1>3. /\ chans'[p] \in [Keys -> Chans \cup {NoChan}]
      /\ chans'[p][k] = c
      /\ \A j \in Keys : j # k => chans'[p][j] = chans[p][j]
      /\ Held(p)' = Held(p) \cup {k}
  <2>1. chans'[p] = [chans[p] EXCEPT ![k] = c]
    OBVIOUS
  <2>2. c \in Chans \cup {NoChan} /\ c # NoChan
    BY NoneAssumption
  <2>3. k \in Keys
    BY <1>2
  <2>. HIDE DEF k
  <2>4. chans[p] \in [Keys -> Chans \cup {NoChan}]
    BY DEF TypeOK
  <2>. QED  BY <2>1, <2>2, <2>3, <2>4 DEF Held
<1>4. R \subseteq Nat
  BY KeysAreNaturals DEF TypeOK
<1>5. AfterAcquire(p) \in {"held", "get"} /\ (AfterAcquire(p) = "get" => R # {k})
  BY DEF AfterAcquire
<1>6. keys'[p] \ Held(p)' = R \ {k}
  BY <1>3
<1>7. ASSUME NEW j \in R, j # k  PROVE k < j
  <2>1. k \in Nat /\ j \in Nat /\ k <= j
    BY <1>2, <1>4
  <2>. HIDE DEF k, R
  <2>. QED  BY <1>7, <2>1
<1>8. \A h \in Held(p) \cup {k}, j \in R \ {k} : h < j
  BY <1>1, <1>7
<1>9. R # {k} => R \ {k} # {}
  BY <1>2
<1>. HIDE DEF k, R
<1>10. AfterAcquire(p) = "get" => keys'[p] \ Held(p)' # {}
  BY <1>5, <1>6, <1>9
<1>11. \A h \in Held(p)', j \in keys'[p] \ Held(p)' : h < j
  BY <1>3, <1>6, <1>8
<1>. QED  BY <1>2, <1>3, <1>5, <1>10, <1>11 DEF k, R

\* The token was there, so the channel is the listed one and nobody held it.
LEMMA ReceiveStep ==
    ASSUME IInv, NEW p \in Procs, Receive(p)
    PROVE  IInv'
<1>. DEFINE k == NextKey(p)
            ch == cur[p]
<1>1. /\ pc[p] = "recv" /\ token[ch] = "full"
      /\ chans' = [chans EXCEPT ![p] = [chans[p] EXCEPT ![k] = ch]]
      /\ cur' = [cur EXCEPT ![p] = NoChan]
      /\ pc' = [pc EXCEPT ![p] = AfterAcquire(p)]
      /\ token' = [token EXCEPT ![ch] = "empty"]
      /\ UNCHANGED <<keys, list, mutex, todo, dels>>
  BY DEF Receive, Acquire, globals
<1>2. ch \in Chans /\ ch # NoChan /\ list[k] = ch
  BY <1>1, NoneAssumption DEF IInv, PcInv, TypeOK, WaitInv
<1>3. /\ pc'[p] = AfterAcquire(p) /\ cur'[p] = NoChan
      /\ chans'[p] = [chans[p] EXCEPT ![k] = ch]
      /\ \A q \in Procs : q # p => /\ pc'[q] = pc[q] /\ cur'[q] = cur[q]
                                   /\ chans'[q] = chans[q]
  BY <1>1 DEF IInv, TypeOK
<1>4. \A q \in Procs : q # p => Held(q)' = Held(q) /\ NextKey(q)' = NextKey(q)
  BY <1>1, <1>3, SameLock
<1>5. /\ k \in Keys /\ k \notin Held(p)
      /\ chans'[p] \in [Keys -> Chans \cup {NoChan}]
      /\ chans'[p][k] = ch
      /\ \A j \in Keys : j # k => chans'[p][j] = chans[p][j]
      /\ Held(p)' = Held(p) \cup {k}
      /\ AfterAcquire(p) \in {"held", "get"}
      /\ AfterAcquire(p) = "get" =>
             /\ keys'[p] \ Held(p)' # {}
             /\ \A h \in Held(p)', j \in keys'[p] \ Held(p)' : h < j
  <2>1. chans'[p] = [chans[p] EXCEPT ![NextKey(p)] = ch]
    BY <1>3
  <2>2. keys'[p] = keys[p] /\ pc[p] \in Locking
    BY <1>1 DEF Locking
  <2>. QED  BY <1>2, <2>1, <2>2, AcquireFacts DEF IInv
<1>. HIDE DEF k, ch
<1>6. /\ token'[ch] = "empty" /\ token[ch] = "full"
      /\ \A c \in Chans : c # ch => token'[c] = token[c]
  BY <1>1, <1>2 DEF IInv, TypeOK
<1>7. TypeOK'
  <2>1. pc' \in [Procs -> Locking \cup Holding \cup {"idle", "clean", "cleaning"}]
    BY <1>1, <1>5 DEF IInv, TypeOK, Locking, Holding
  <2>2. chans' \in [Procs -> [Keys -> Chans \cup {NoChan}]]
    BY <1>1, <1>3, <1>5 DEF IInv, TypeOK
  <2>3. cur' \in [Procs -> Chans \cup {NoChan}]
    BY <1>1 DEF IInv, TypeOK
  <2>4. token' \in [Chans -> {"full", "empty", "closed"}]
    BY <1>1 DEF IInv, TypeOK
  <2>5. \A q \in Procs : pc'[q] = "cleaning" <=> mutex = q
    BY <1>1, <1>3, <1>5 DEF IInv, TypeOK
  <2>. QED  BY <1>1, <2>1, <2>2, <2>3, <2>4, <2>5 DEF IInv, TypeOK
<1>8. PcInv'
  <2>1. ASSUME NEW q \in Procs, q # p
        PROVE  /\ cur'[q] # NoChan <=> pc'[q] \in {"recv", "parked"}
               /\ pc'[q] \in Locking =>
                      /\ keys'[q] \ Held(q)' # {}
                      /\ \A h \in Held(q)', j \in keys'[q] \ Held(q)' : h < j
               /\ pc'[q] \in Holding => Held(q)' # {}
               /\ pc'[q] \notin Locking \cup Holding => Held(q)' = {}
    BY <1>1, <1>3, <1>4, <2>1 DEF IInv, PcInv
  <2>. QED  BY <1>3, <1>5, <2>1 DEF PcInv, Locking, Holding
<1>9. \A j \in Keys : (j # k /\ list[j] # NoChan) =>
          list[j] \in Chans /\ list[j] # ch /\ token'[list[j]] = token[list[j]]
  BY <1>2, <1>5, <1>6 DEF IInv, TypeOK, ListInv
<1>10. ListInv'
  BY <1>1, <1>2, <1>6, <1>9 DEF IInv, ListInv
<1>11. \A q \in Procs : \A j \in Held(q) : j \in Keys /\ j # k /\ list[j] # NoChan
  BY <1>2, <1>6 DEF IInv, HoldInv, Held
<1>12. HoldInv'
  <2>1. ASSUME NEW q \in Procs, q # p, NEW j \in Held(q)'
        PROVE  chans'[q][j] = list'[j] /\ token'[list'[j]] = "empty"
    BY <1>1, <1>3, <1>4, <1>9, <1>11, <2>1 DEF IInv, HoldInv
  <2>2. ASSUME NEW j \in Held(p)'
        PROVE  chans'[p][j] = list'[j] /\ token'[list'[j]] = "empty"
    <3>1. CASE j = k
      BY <1>1, <1>2, <1>5, <1>6, <3>1
    <3>2. CASE j \in Held(p)
      BY <1>1, <1>5, <1>9, <1>11, <3>2 DEF IInv, HoldInv
    <3>. QED  BY <1>5, <3>1, <3>2
  <2>. QED  BY <2>1, <2>2 DEF HoldInv
<1>13. MutualExclusion'
  BY <1>4, <1>5, <1>11 DEF IInv, MutualExclusion
<1>14. TakenInv'
  <2>1. \A q \in Procs : Held(q) \subseteq Held(q)'
    BY <1>4, <1>5
  <2>. QED  BY <1>1, <1>5, <1>9, <2>1 DEF IInv, TakenInv
<1>15. WaitInv'
  <2>1. ASSUME NEW q \in Procs, pc[q] \in {"recv", "parked"}
        PROVE  cur[q] \in Chans
    BY <2>1 DEF IInv, PcInv, TypeOK
  <2>2. \A q \in Procs : (pc[q] \in {"recv", "parked"} /\ token[cur[q]] # "full")
            => token'[cur[q]] = token[cur[q]]
    BY <1>6, <2>1
  <2>. QED  BY <1>1, <1>3, <1>4, <1>5, <2>2 DEF IInv, WaitInv
<1>16. CleanInv'
  BY <1>3, <1>5 DEF CleanInv, Locking, Holding
<1>. QED  BY <1>7, <1>8, <1>10, <1>12, <1>13, <1>14, <1>15, <1>16 DEF IInv

\* The token goes back to the listed channel, or to a goroutine that waits for
\* the same key.
LEMMA SendStep ==
    ASSUME IInv, NEW p \in Procs, Send(p)
    PROVE  IInv'
<1>. DEFINE k  == Smallest(Held(p))
            ch == chans[p][k]
            after == IF Held(p) = {k} THEN "clean" ELSE "unlock"
<1>1. /\ pc[p] = "unlock" /\ token[ch] = "empty"
      /\ UNCHANGED <<keys, list, mutex, todo, dels>>
  BY DEF Send, globals
<1>2. k \in Held(p) /\ k \in Keys
  <2>1. Held(p) \in SUBSET Nat
    BY KeysAreNaturals DEF Held
  <2>2. Held(p) # {}
    BY <1>1 DEF IInv, PcInv, Holding
  <2>. QED  BY <2>1, <2>2, SmallestExists DEF Held
<1>3. ch = list[k] /\ ch \in Chans /\ ch # NoChan
  BY <1>2 DEF IInv, HoldInv, Held, TypeOK
<1>4. after \in {"clean", "unlock"} /\ (after = "clean" <=> Held(p) = {k})
  OBVIOUS
<1>5. CASE /\ Waiters(ch) = {}
           /\ token' = [token EXCEPT ![ch] = "full"]
           /\ chans' = [chans EXCEPT ![p] = [chans[p] EXCEPT ![k] = NoChan]]
           /\ pc' = [pc EXCEPT ![p] = after]
           /\ UNCHANGED cur
  <2>. HIDE DEF k, ch, after
  <2>1. /\ pc'[p] = after /\ chans'[p] = [chans[p] EXCEPT ![k] = NoChan]
        /\ \A q \in Procs : q # p => pc'[q] = pc[q] /\ chans'[q] = chans[q]
    BY <1>5 DEF IInv, TypeOK
  <2>2. /\ chans'[p] \in [Keys -> Chans \cup {NoChan}]
        /\ \A j \in Keys : j # k => chans'[p][j] = chans[p][j]
        /\ Held(p)' = Held(p) \ {k}
    <3>1. chans[p] \in [Keys -> Chans \cup {NoChan}]
      BY DEF IInv, TypeOK
    <3>. QED  BY <1>2, <2>1, <3>1 DEF Held
  <2>3. \A q \in Procs : q # p => Held(q)' = Held(q) /\ NextKey(q)' = NextKey(q)
    BY <1>1, <2>1, SameLock
  <2>4. token'[ch] = "full" /\ \A c \in Chans : c # ch => token'[c] = token[c]
    BY <1>3, <1>5 DEF IInv, TypeOK
  <2>5. TypeOK'
    <3>1. pc' \in [Procs -> Locking \cup Holding \cup {"idle", "clean", "cleaning"}]
      BY <1>4, <1>5 DEF IInv, TypeOK, Holding
    <3>2. chans' \in [Procs -> [Keys -> Chans \cup {NoChan}]]
      BY <1>5, <2>1, <2>2 DEF IInv, TypeOK
    <3>3. token' \in [Chans -> {"full", "empty", "closed"}]
      BY <1>5 DEF IInv, TypeOK
    <3>4. \A q \in Procs : pc'[q] = "cleaning" <=> mutex = q
      BY <1>1, <1>4, <2>1 DEF IInv, TypeOK
    <3>. QED  BY <1>1, <1>5, <3>1, <3>2, <3>3, <3>4 DEF IInv, TypeOK
  <2>6. PcInv'
    <3>1. ASSUME NEW q \in Procs, q # p
          PROVE  /\ cur'[q] # NoChan <=> pc'[q] \in {"recv", "parked"}
                 /\ pc'[q] \in Locking =>
                        /\ keys'[q] \ Held(q)' # {}
                        /\ \A h \in Held(q)', j \in keys'[q] \ Held(q)' : h < j
                 /\ pc'[q] \in Holding => Held(q)' # {}
                 /\ pc'[q] \notin Locking \cup Holding => Held(q)' = {}
      BY <1>1, <1>5, <2>1, <2>3, <3>1 DEF IInv, PcInv
    <3>2. cur'[p] = NoChan
      BY <1>1, <1>5 DEF IInv, PcInv
    <3>3. after = "unlock" => Held(p)' # {}
      BY <1>2, <1>4, <2>2
    <3>4. after = "clean" => Held(p)' = {}
      BY <1>4, <2>2
    <3>. QED  BY <1>4, <2>1, <3>1, <3>2, <3>3, <3>4 DEF PcInv, Locking, Holding
  <2>7. \A j \in Keys : (j # k /\ list[j] # NoChan) =>
            list[j] \in Chans /\ token'[list[j]] = token[list[j]]
    BY <1>2, <1>3, <2>4 DEF IInv, TypeOK, ListInv
  <2>8. ListInv'
    BY <1>1, <1>2, <1>3, <2>4, <2>7 DEF IInv, ListInv
  <2>9. \A q \in Procs : \A j \in Held(q)' : j \in Held(q) /\ j \in Keys /\ j # k
    BY <1>2, <2>2, <2>3 DEF IInv, MutualExclusion, Held
  <2>10. \A q \in Procs : \A j \in Held(q)' : chans'[q][j] = chans[q][j]
    BY <2>1, <2>2, <2>9
  <2>11. HoldInv'
    <3>1. ASSUME NEW q \in Procs, NEW j \in Held(q)'
          PROVE  chans'[q][j] = list'[j] /\ token'[list'[j]] = "empty"
      <4>1. chans[q][j] = list[j] /\ token[list[j]] = "empty" /\ list[j] # NoChan
        BY <2>9 DEF IInv, HoldInv, Held
      <4>. QED  BY <1>1, <2>7, <2>9, <2>10, <4>1
    <3>. QED  BY <3>1 DEF HoldInv
  <2>12. MutualExclusion'
    BY <2>9 DEF IInv, MutualExclusion
  <2>13. TakenInv'
    <3>1. ASSUME NEW j \in Keys, list[j] # NoChan, token'[list[j]] = "empty"
          PROVE  \E q \in Procs : j \in Held(q)'
      <4>1. j # k
        BY <1>3, <2>4, <3>1
      <4>2. PICK q \in Procs : j \in Held(q)
        BY <2>7, <3>1, <4>1 DEF IInv, TakenInv
      <4>. QED  BY <2>2, <2>3, <4>1, <4>2
    <3>. QED  BY <1>1, <3>1 DEF TakenInv
  <2>14. WaitInv'
    <3>1. ASSUME NEW q \in Procs, pc[q] \in {"recv", "parked"}
          PROVE  cur[q] \in Chans /\ q # p
      BY <1>1, <3>1 DEF IInv, PcInv, TypeOK
    <3>2. \A q \in Procs : pc[q] = "parked" => cur[q] # ch
      BY <1>5 DEF Waiters
    <3>3. \A q \in Procs : pc[q] = "parked" => token'[cur[q]] = token[cur[q]]
      BY <2>4, <3>1, <3>2
    <3>4. \A q \in Procs : (pc[q] = "recv" /\ token[cur[q]] = "closed")
              => token'[cur[q]] = "closed"
      BY <1>1, <2>4, <3>1
    <3>. QED  BY <1>1, <1>4, <1>5, <2>1, <2>3, <3>3, <3>4 DEF IInv, WaitInv
  <2>15. CleanInv'
    BY <1>4, <2>1 DEF CleanInv, Holding
  <2>. QED  BY <2>5, <2>6, <2>8, <2>11, <2>12, <2>13, <2>14, <2>15 DEF IInv
<1>6. ASSUME NEW q \in Waiters(ch),
             chans' = [chans EXCEPT ![p] = [chans[p] EXCEPT ![k] = NoChan],
                                    ![q] = [@ EXCEPT ![NextKey(q)] = ch]],
             pc' = [pc EXCEPT ![p] = after, ![q] = AfterAcquire(q)],
             cur' = [cur EXCEPT ![q] = NoChan],
             UNCHANGED token
      PROVE  IInv'
  <2>. HIDE DEF k, ch, after
  <2>1. q \in Procs /\ pc[q] = "parked" /\ cur[q] = ch /\ q # p
    BY <1>1, <1>6 DEF Waiters
  <2>2. /\ pc'[p] = after /\ pc'[q] = AfterAcquire(q)
        /\ chans'[p] = [chans[p] EXCEPT ![k] = NoChan]
        /\ chans'[q] = [chans[q] EXCEPT ![NextKey(q)] = ch]
        /\ cur'[q] = NoChan /\ cur'[p] = cur[p]
        /\ \A o \in Procs : (o # p /\ o # q) =>
               pc'[o] = pc[o] /\ chans'[o] = chans[o] /\ cur'[o] = cur[o]
    BY <1>6, <2>1 DEF IInv, TypeOK
  <2>3. /\ chans'[p] \in [Keys -> Chans \cup {NoChan}]
        /\ \A j \in Keys : j # k => chans'[p][j] = chans[p][j]
        /\ Held(p)' = Held(p) \ {k}
    <3>1. chans[p] \in [Keys -> Chans \cup {NoChan}]
      BY DEF IInv, TypeOK
    <3>. QED  BY <1>2, <2>2, <3>1 DEF Held
  <2>4. /\ NextKey(q) \in Keys
        /\ chans'[q] \in [Keys -> Chans \cup {NoChan}]
        /\ chans'[q][NextKey(q)] = ch
        /\ \A j \in Keys : j # NextKey(q) => chans'[q][j] = chans[q][j]
        /\ Held(q)' = Held(q) \cup {NextKey(q)}
        /\ AfterAcquire(q) \in {"held", "get"}
        /\ AfterAcquire(q) = "get" =>
               /\ keys'[q] \ Held(q)' # {}
               /\ \A h \in Held(q)', j \in keys'[q] \ Held(q)' : h < j
    <3>1. keys'[q] = keys[q] /\ pc[q] \in Locking
      BY <1>1, <2>1 DEF Locking
    <3>2. chans'[q] = [chans[q] EXCEPT ![NextKey(q)] = ch]
      BY <2>2
    <3>3. TypeOK /\ PcInv /\ q \in Procs /\ ch \in Chans
      BY <1>3, <2>1 DEF IInv
    <3>. QED  BY <3>1, <3>2, <3>3, AcquireFacts
  <2>5. NextKey(q) = k
    <3>1. list[NextKey(q)] = ch
      BY <2>1 DEF IInv, WaitInv
    <3>. QED  BY <1>2, <1>3, <2>4, <3>1 DEF IInv, ListInv
  <2>6. \A o \in Procs : (o # p /\ o # q) => Held(o)' = Held(o) /\ NextKey(o)' = NextKey(o)
    BY <1>1, <2>2, SameLock
  <2>7. TypeOK'
    <3>1. pc' \in [Procs -> Locking \cup Holding \cup {"idle", "clean", "cleaning"}]
      BY <1>4, <1>6, <2>4 DEF IInv, TypeOK, Locking, Holding
    <3>2. chans' \in [Procs -> [Keys -> Chans \cup {NoChan}]]
      BY <1>6, <2>2, <2>3, <2>4 DEF IInv, TypeOK
    <3>3. cur' \in [Procs -> Chans \cup {NoChan}]
      BY <1>6 DEF IInv, TypeOK
    <3>5. /\ \A o \in Procs : pc[o] = "cleaning" <=> mutex = o
          /\ pc[p] # "cleaning" /\ pc[q] # "cleaning"
          /\ pc'[p] # "cleaning" /\ pc'[q] # "cleaning"
          /\ \A o \in Procs : (o # p /\ o # q) => pc'[o] = pc[o]
      BY <1>1, <1>4, <2>1, <2>2, <2>4 DEF IInv, TypeOK
    <3>4. \A o \in Procs : pc'[o] = "cleaning" <=> mutex = o
      BY <2>1, <3>5
    <3>. QED  BY <1>1, <1>6, <3>1, <3>2, <3>3, <3>4 DEF IInv, TypeOK
  <2>8. PcInv'
    <3>1. ASSUME NEW o \in Procs, o # p, o # q
          PROVE  /\ cur'[o] # NoChan <=> pc'[o] \in {"recv", "parked"}
                 /\ pc'[o] \in Locking =>
                        /\ keys'[o] \ Held(o)' # {}
                        /\ \A h \in Held(o)', j \in keys'[o] \ Held(o)' : h < j
                 /\ pc'[o] \in Holding => Held(o)' # {}
                 /\ pc'[o] \notin Locking \cup Holding => Held(o)' = {}
      <4>1. /\ pc'[o] = pc[o] /\ cur'[o] = cur[o] /\ keys'[o] = keys[o]
            /\ Held(o)' = Held(o)
        BY <1>1, <2>2, <2>6, <3>1
      <4>2. /\ cur[o] # NoChan <=> pc[o] \in {"recv", "parked"}
            /\ pc[o] \in Locking =>
                   /\ keys[o] \ Held(o) # {}
                   /\ \A h \in Held(o), j \in keys[o] \ Held(o) : h < j
            /\ pc[o] \in Holding => Held(o) # {}
            /\ pc[o] \notin Locking \cup Holding => Held(o) = {}
        BY DEF IInv, PcInv
      <4>. QED  BY <4>1, <4>2
    <3>2. cur'[p] = NoChan
      BY <1>1, <2>2 DEF IInv, PcInv
    <3>3. after = "unlock" => Held(p)' # {}
      BY <1>2, <1>4, <2>3
    <3>4. after = "clean" => Held(p)' = {}
      BY <1>4, <2>3
    <3>. QED  BY <1>4, <2>2, <2>4, <3>1, <3>2, <3>3, <3>4 DEF PcInv, Locking, Holding
  <2>9. ListInv'
    BY <1>1, <1>6 DEF IInv, ListInv
  <2>10. \A o \in Procs : k \in Held(o) => o = p
    BY <1>2 DEF IInv, MutualExclusion
  <2>11. HoldInv'
    <3>1. ASSUME NEW o \in Procs, NEW j \in Held(o)', j # k
          PROVE  j \in Held(o) /\ chans'[o][j] = chans[o][j]
      BY <2>2, <2>3, <2>4, <2>5, <2>6, <3>1 DEF Held
    <3>2. ASSUME NEW o \in Procs, k \in Held(o)'  PROVE o = q
      BY <2>3, <2>6, <2>10, <3>2
    <3>3. ASSUME NEW o \in Procs, NEW j \in Held(o)'
          PROVE  chans'[o][j] = list'[j] /\ token'[list'[j]] = "empty"
      <4>1. CASE j = k
        BY <1>1, <1>3, <1>6, <2>4, <2>5, <3>2, <3>3, <4>1
      <4>2. CASE j # k
        <5>1. j \in Held(o) /\ chans'[o][j] = chans[o][j]
          BY <3>1, <3>3, <4>2
        <5>2. chans[o][j] = list[j] /\ token[list[j]] = "empty"
          BY <5>1 DEF IInv, HoldInv
        <5>3. list' = list /\ token' = token
          BY <1>1, <1>6
        <5>. QED  BY <5>1, <5>2, <5>3
      <4>. QED  BY <4>1, <4>2
    <3>. QED  BY <3>3 DEF HoldInv
  <2>12. MutualExclusion'
    <3>1. \A o \in Procs : \A j \in Held(o)' : IF j = k THEN o = q ELSE j \in Held(o)
      BY <2>3, <2>4, <2>5, <2>6, <2>10
    <3>2. \A o, r \in Procs : o # r => Held(o) \cap Held(r) = {}
      BY DEF IInv, MutualExclusion
    <3>3. ASSUME NEW o \in Procs, NEW r \in Procs, o # r,
                 NEW j \in Held(o)', j \in Held(r)'
          PROVE  FALSE
      <4>1. CASE j = k
        BY <3>1, <3>3, <4>1
      <4>2. CASE j # k
        <5>1. j \in Held(o) /\ j \in Held(r)
          BY <3>1, <3>3, <4>2
        <5>. QED  BY <3>2, <3>3, <5>1
      <4>. QED  BY <4>1, <4>2
    <3>. QED  BY <3>3 DEF MutualExclusion
  <2>13. TakenInv'
    <3>1. \A o \in Procs : \A j \in Held(o) : \E r \in Procs : j \in Held(r)'
      BY <2>1, <2>3, <2>4, <2>5, <2>6
    <3>. QED  BY <1>1, <1>6, <3>1 DEF IInv, TakenInv
  <2>14. WaitInv'
    <3>1. \A o \in Procs : pc'[o] \in {"recv", "parked"} => o # p /\ o # q
      BY <1>4, <2>2, <2>4
    <3>2. \A o \in Procs : pc'[o] \in {"recv", "parked"} =>
              /\ pc'[o] = pc[o] /\ cur'[o] = cur[o] /\ NextKey(o)' = NextKey(o)
              /\ token'[cur'[o]] = token[cur[o]] /\ list'[NextKey(o)'] = list[NextKey(o)]
      <4>1. list' = list /\ token' = token
        BY <1>1, <1>6
      <4>. QED  BY <2>2, <2>6, <3>1, <4>1
    <3>3. \A o \in Procs :
              /\ pc[o] = "recv" => list[NextKey(o)] = cur[o] \/ token[cur[o]] = "closed"
              /\ pc[o] = "parked" => list[NextKey(o)] = cur[o] /\ token[cur[o]] = "empty"
      BY DEF IInv, WaitInv
    <3>. QED  BY <3>2, <3>3 DEF WaitInv
  <2>15. CleanInv'
    BY <1>4, <2>2 DEF CleanInv, Holding
  <2>. QED  BY <2>7, <2>8, <2>9, <2>11, <2>12, <2>13, <2>14, <2>15 DEF IInv
<1>. QED  BY <1>5, <1>6 DEF Send

-------------------------------------------------------------------------------
(* The theorems *)

LEMMA InvNext == IInv /\ [Next]_vars => IInv'
<1>. SUFFICES ASSUME IInv, [Next]_vars  PROVE IInv'
  OBVIOUS
<1>1. CASE UNCHANGED vars
  <2>1. \A p \in Procs : Held(p)' = Held(p) /\ NextKey(p)' = NextKey(p)
    BY <1>1, SameLock DEF vars
  <2>2. TypeOK' /\ PcInv' /\ ListInv'
    <3>1. /\ list' = list /\ token' = token /\ chans' = chans /\ keys' = keys
          /\ pc' = pc /\ cur' = cur /\ mutex' = mutex /\ todo' = todo /\ dels' = dels
      BY <1>1 DEF vars, globals
    <3>2. TypeOK'
      BY <3>1 DEF IInv, TypeOK
    <3>3. PcInv'
      BY <2>1, <3>1 DEF IInv, PcInv
    <3>4. ListInv'
      BY <3>1 DEF IInv, ListInv
    <3>. QED  BY <3>2, <3>3, <3>4
  <2>6. /\ list' = list /\ token' = token /\ chans' = chans
        /\ pc' = pc /\ cur' = cur
    BY <1>1 DEF vars, globals
  <2>7. HoldInv /\ MutualExclusion /\ TakenInv /\ WaitInv
    BY DEF IInv
  <2>3. HoldInv' /\ MutualExclusion' /\ TakenInv'
    <3>1. HoldInv'
      BY <2>1, <2>6, <2>7 DEF HoldInv
    <3>2. MutualExclusion'
      BY <2>1, <2>7 DEF MutualExclusion
    <3>3. TakenInv'
      BY <2>1, <2>6, <2>7 DEF TakenInv
    <3>. QED  BY <3>1, <3>2, <3>3
  <2>4. WaitInv'
    BY <2>1, <2>6, <2>7 DEF WaitInv
  <2>5. CleanInv'
    BY <1>1 DEF vars, globals, IInv, CleanInv
  <2>. QED  BY <2>2, <2>3, <2>4, <2>5 DEF IInv
<1>. QED  BY <1>1, NewMultilockStep, GetChanStep, ReceiveStep, ReceiveClosedStep,
             ParkStep, UnlockStep, SendStep, CleanStartStep, CleanKeyStep,
             CleanEndStep
          DEF Next, Step

\* Held channels are open and empty; a blocked goroutine has a holder to wait for.
LEMMA InvMeansNoLostWakeup == IInv => SendsNeverBlock /\ ParkedHasHolder
<1>. SUFFICES ASSUME IInv  PROVE SendsNeverBlock /\ ParkedHasHolder
  OBVIOUS
<1>1. SendsNeverBlock
  BY DEF IInv, HoldInv, SendsNeverBlock
<1>2. ASSUME NEW p \in Procs, pc[p] = "parked"
      PROVE  \E q \in Procs \ {p} : chans[q][NextKey(p)] = cur[p]
  <2>1. NextKey(p) \in Keys /\ NextKey(p) \notin Held(p)
    BY <1>2, NextKeyFacts DEF IInv, PcInv, Locking
  <2>2. list[NextKey(p)] = cur[p] /\ token[cur[p]] = "empty" /\ cur[p] # NoChan
    BY <1>2 DEF IInv, WaitInv, PcInv
  <2>3. PICK q \in Procs : NextKey(p) \in Held(q)
    BY <2>1, <2>2 DEF IInv, TakenInv
  <2>4. chans[q][NextKey(p)] = cur[p]
    BY <2>2, <2>3 DEF IInv, HoldInv
  <2>. QED  BY <2>1, <2>3, <2>4
<1>. QED  BY <1>1, <1>2 DEF ParkedHasHolder

\* In a set of goroutines that wait for each other, whoever waits for the
\* greatest key waits for one that waits for a greater key.
LEMMA InvMeansNoDeadlock == IInv => NoDeadlockedSet
<1>. SUFFICES ASSUME IInv, NEW S \in SUBSET Procs, S # {},
                     \A p \in S : pc[p] = "parked" /\ \E q \in S : NextKey(p) \in Held(q)
              PROVE  FALSE
  BY DEF NoDeadlockedSet
<1>. DEFINE T == {NextKey(p) : p \in S}
<1>1. ASSUME NEW p \in S
      PROVE  /\ NextKey(p) \in keys[p] \ Held(p) /\ NextKey(p) \in Keys
             /\ \A h \in Held(p) : h < NextKey(p)
  <2>1. pc[p] \in Locking /\ p \in Procs
    BY DEF Locking
  <2>2. keys[p] \ Held(p) # {} /\ \A h \in Held(p), k \in keys[p] \ Held(p) : h < k
    BY <2>1 DEF IInv, PcInv
  <2>. QED  BY <2>1, <2>2, NextKeyFacts DEF IInv
<1>2. T \subseteq Keys /\ T # {}
  BY <1>1
<1>3. PICK m \in T : \A y \in T : y <= m
  <2>. HIDE DEF T
  <2>. QED  BY <1>2, GreatestExists
<1>4. PICK p \in S : m = NextKey(p)
  OBVIOUS
<1>5. PICK q \in S : m \in Held(q)
  BY <1>4
<1>6. m < NextKey(q) /\ NextKey(q) <= m
  BY <1>1, <1>3, <1>5
<1>7. m \in Nat /\ NextKey(q) \in Nat
  BY <1>1, <1>2, KeysAreNaturals
<1>. HIDE DEF T
<1>. QED  BY <1>6, <1>7

\* When all goroutines are idle nobody is in Clean and nobody will clean.
LEMMA InvMeansNothingLeaks == IInv => NothingLeaks
BY DEF IInv, CleanInv, TypeOK, NothingLeaks, Locking, Holding

\* The invariant holds in every reachable state.
THEOREM Invariance == Spec => []IInv
BY InvInit, InvNext, PTL DEF Spec

\* All variables of Lock, Unlock and Clean keep their types, and the mutex is
\* held exactly by the goroutine that cleans.
THEOREM TypeCorrect == Spec => []TypeOK
<1>1. IInv => TypeOK
  BY DEF IInv
<1>. QED  BY <1>1, Invariance, PTL

\* A key is never locked by two goroutines at once.
THEOREM Exclusion == Spec => []MutualExclusion
<1>1. IInv => MutualExclusion
  BY DEF IInv
<1>. QED  BY <1>1, Invariance, PTL

\* Unlock never blocks in a send and never panics on a closed channel.
THEOREM SendsAreSafe == Spec => []SendsNeverBlock
BY InvMeansNoLostWakeup, Invariance, PTL

\* No goroutine waits for a channel that nobody will send to.
THEOREM NoLostWakeup == Spec => []ParkedHasHolder
BY InvMeansNoLostWakeup, Invariance, PTL

\* No goroutines wait for each other in a circle, whatever sets they lock.
THEOREM DeadlockFree == Spec => []NoDeadlockedSet
BY InvMeansNoDeadlock, Invariance, PTL

\* Every channel is removed from the map by the time all goroutines are done.
THEOREM MapIsCleaned == Spec => []NothingLeaks
BY InvMeansNothingLeaks, Invariance, PTL
===============================================================================
