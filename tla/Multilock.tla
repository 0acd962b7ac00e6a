------------------------------ MODULE Multilock ------------------------------
(***************************************************************************)
(* The process-wide lock on sets of strings of shared/mputil.              *)
(*                                                                         *)
(* A key is locked by taking the token out of the channel that a global    *)
(* map holds for it; channels are made when they are first asked for, and  *)
(* every Unlock closes and forgets those whose token nobody has taken.     *)
(* The map is guarded by a mutex, the channels are not: a goroutine may    *)
(* fetch a channel that is closed before it receives from it.              *)
(*                                                                         *)
(* Every Lock of the repository is used by the goroutine that made it, so  *)
(* its own two channels, lock and unlock, never block and are left out.    *)
(***************************************************************************)
EXTENDS Integers

CONSTANTS
    Procs,     \* goroutines
    NumKeys,   \* number of strings to lock
    KeySets,   \* sets of keys the callers lock
    Chans,     \* the memory for channels: a collected one may be used again
    NoChan,    \* nil
    NoProc

\* The strings, numbered in the order of sort.Strings.
Keys == 1 .. NumKeys

ASSUME KeysAssumption == NumKeys \in Nat
ASSUME KeySetsAssumption == KeySets \subseteq SUBSET Keys
ASSUME NoneAssumption == NoChan \notin Chans /\ NoProc \notin Procs

VARIABLES
    pc,        \* where each goroutine is in Lock and Unlock
    keys,      \* Lock.keys, deduplicated and sorted: a set, taken from below
    chans,     \* Lock.chans, by key
    cur,       \* the channel getChan returned
    list,      \* locks.list
    mutex,     \* who holds locks.lock across several steps: in Clean
    todo,      \* keys Clean has not looked at
    dels,      \* toDelete of Clean
    token      \* of each channel: "full", "empty" or "closed"

globals == <<list, mutex, todo, dels>>
vars == <<pc, keys, chans, cur, globals, token>>

-------------------------------------------------------------------------------

Locking == {"get", "recv", "parked"}
Holding == {"held", "unlock"}

Held(p) == {k \in Keys : chans[p][k] # NoChan}

Smallest(S) == CHOOSE k \in S : \A j \in S : k <= j

\* Mutant: the keys are locked in the order of the caller's arguments, here
\* descending for one of the goroutines.
NextUnsorted(p) ==
    LET S == keys[p] \ Held(p)
    IN  IF p = CHOOSE q \in Procs : TRUE
        THEN CHOOSE k \in S : \A j \in S : k >= j
        ELSE Smallest(S)

\* lk.keys[i]: the keys are locked in ascending order.
NextKey(p) == Smallest(keys[p] \ Held(p))

\* A channel nobody refers to is garbage, or was never made.
Garbage(ch) ==
    /\ token[ch] = "closed"
    /\ \A k \in Keys : list[k] # ch
    /\ \A p \in Procs : cur[p] # ch /\ \A k \in Keys : chans[p][k] # ch

MakeChan == CHOOSE ch \in Chans : Garbage(ch)

\* Goroutines blocked on a channel.  The runtime serves them in some order.
Waiters(ch) == {q \in Procs : pc[q] = "parked" /\ cur[q] = ch}

-------------------------------------------------------------------------------

Init ==
    /\ pc = [p \in Procs |-> "idle"]
    /\ keys = [p \in Procs |-> {}]
    /\ chans = [p \in Procs |-> [k \in Keys |-> NoChan]]
    /\ cur = [p \in Procs |-> NoChan]
    /\ list = [k \in Keys |-> NoChan]
    /\ mutex = NoProc
    /\ todo = {}
    /\ dels = {}
    /\ token = [ch \in Chans |-> "closed"]

\* NewMultilock returns nil for no keys.  Lock starts with an empty lk.chans.
NewMultilock(p, K) ==
    /\ pc[p] = "idle"
    /\ K # {}
    /\ pc' = [pc EXCEPT ![p] = "get"]
    /\ keys' = [keys EXCEPT ![p] = K]
    /\ UNCHANGED <<chans, cur, globals, token>>

\* Mutant: getChan makes a channel even if the key has one.
GetNewChan(p) ==
    /\ pc[p] = "get"
    /\ mutex = NoProc
    /\ \E ch \in Chans : Garbage(ch)
    /\ list' = [list EXCEPT ![NextKey(p)] = MakeChan]
    /\ token' = [token EXCEPT ![MakeChan] = "full"]
    /\ cur' = [cur EXCEPT ![p] = MakeChan]
    /\ pc' = [pc EXCEPT ![p] = "recv"]
    /\ UNCHANGED <<keys, chans, mutex, todo, dels>>

\* Under the mutex; a new channel gets its token at once.
GetChan(p) ==
    LET k == NextKey(p) IN
    /\ pc[p] = "get"
    /\ mutex = NoProc
    /\ \/ /\ list[k] # NoChan
          /\ cur' = [cur EXCEPT ![p] = list[k]]
          /\ UNCHANGED <<list, token>>
       \/ /\ list[k] = NoChan
          /\ \E ch \in Chans : Garbage(ch)
          /\ list' = [list EXCEPT ![k] = MakeChan]
          /\ token' = [token EXCEPT ![MakeChan] = "full"]
          /\ cur' = [cur EXCEPT ![p] = MakeChan]
    /\ pc' = [pc EXCEPT ![p] = "recv"]
    /\ UNCHANGED <<keys, chans, mutex, todo, dels>>

\* Goroutine p has taken the token of the channel it waited for.
Acquire(p) ==
    LET k == NextKey(p) IN
    /\ chans' = [chans EXCEPT ![p] = [@ EXCEPT ![k] = cur[p]]]
    /\ cur' = [cur EXCEPT ![p] = NoChan]

AfterAcquire(p) == IF keys[p] \ Held(p) = {NextKey(p)} THEN "held" ELSE "get"

Receive(p) ==
    /\ pc[p] = "recv"
    /\ token[cur[p]] = "full"
    /\ Acquire(p)
    /\ pc' = [pc EXCEPT ![p] = AfterAcquire(p)]
    /\ token' = [token EXCEPT ![cur[p]] = "empty"]
    /\ UNCHANGED <<keys, globals>>

\* Mutant: the closed channel is received from again.
ReceiveAgain(p) ==
    /\ pc[p] = "recv"
    /\ token[cur[p]] = "closed"
    /\ UNCHANGED vars

\* The channel was closed after getChan returned it: ask again.
ReceiveClosed(p) ==
    /\ pc[p] = "recv"
    /\ token[cur[p]] = "closed"
    /\ pc' = [pc EXCEPT ![p] = "get"]
    /\ cur' = [cur EXCEPT ![p] = NoChan]
    /\ UNCHANGED <<keys, chans, globals, token>>

Park(p) ==
    /\ pc[p] = "recv"
    /\ token[cur[p]] = "empty"
    /\ pc' = [pc EXCEPT ![p] = "parked"]
    /\ UNCHANGED <<keys, chans, cur, globals, token>>

Unlock(p) ==
    /\ pc[p] = "held"
    /\ pc' = [pc EXCEPT ![p] = "unlock"]
    /\ UNCHANGED <<keys, chans, cur, globals, token>>

\* Mutant: only the first channel gets its token back.
SendFirst(p) ==
    LET k  == Smallest(Held(p))
        ch == chans[p][k]
        none == [j \in Keys |-> NoChan]
    IN  /\ pc[p] = "unlock"
        /\ token[ch] = "empty"
        /\ \/ /\ Waiters(ch) = {}
              /\ token' = [token EXCEPT ![ch] = "full"]
              /\ chans' = [chans EXCEPT ![p] = none]
              /\ pc' = [pc EXCEPT ![p] = "clean"]
              /\ UNCHANGED cur
           \/ \E q \in Waiters(ch) :
              /\ chans' = [chans EXCEPT ![p] = none,
                                        ![q] = [@ EXCEPT ![NextKey(q)] = ch]]
              /\ pc' = [pc EXCEPT ![p] = "clean", ![q] = AfterAcquire(q)]
              /\ cur' = [cur EXCEPT ![q] = NoChan]
              /\ UNCHANGED token
        /\ UNCHANGED <<keys, globals>>

\* ch <- 1: the token goes into the buffer, or to a blocked goroutine.
\* A send blocks on a full channel.
Send(p) ==
    LET k  == Smallest(Held(p))
        ch == chans[p][k]
        pcAfter == IF Held(p) = {k} THEN "clean" ELSE "unlock"
    IN  /\ pc[p] = "unlock"
        /\ token[ch] = "empty"
        /\ \/ /\ Waiters(ch) = {}
              /\ token' = [token EXCEPT ![ch] = "full"]
              /\ chans' = [chans EXCEPT ![p] = [@ EXCEPT ![k] = NoChan]]
              /\ pc' = [pc EXCEPT ![p] = pcAfter]
              /\ UNCHANGED cur
           \/ \E q \in Waiters(ch) :
              /\ chans' = [chans EXCEPT ![p] = [@ EXCEPT ![k] = NoChan],
                                        ![q] = [@ EXCEPT ![NextKey(q)] = ch]]
              /\ pc' = [pc EXCEPT ![p] = pcAfter, ![q] = AfterAcquire(q)]
              /\ cur' = [cur EXCEPT ![q] = NoChan]
              /\ UNCHANGED token
        /\ UNCHANGED <<keys, globals>>

\* Clean takes the mutex and looks at the keys one by one, in any order, while
\* other goroutines send and receive.
CleanStart(p) ==
    /\ pc[p] = "clean"
    /\ mutex = NoProc
    /\ mutex' = p
    /\ todo' = {k \in Keys : list[k] # NoChan}
    /\ pc' = [pc EXCEPT ![p] = "cleaning"]
    /\ UNCHANGED <<keys, chans, cur, list, dels, token>>

\* Mutant: every channel is closed, its token taken or not.
CloseAny(p, k) ==
    /\ mutex = p
    /\ k \in todo
    /\ todo' = todo \ {k}
    /\ token' = [token EXCEPT ![list[k]] = "closed"]
    /\ dels' = dels \cup {k}
    /\ UNCHANGED <<pc, keys, chans, cur, list, mutex>>

\* The select: between <-ch and close(ch) nobody else can do anything with ch,
\* so the two are one step.
CleanKey(p, k) ==
    /\ mutex = p
    /\ k \in todo
    /\ todo' = todo \ {k}
    /\ \/ /\ token[list[k]] = "full"
          /\ token' = [token EXCEPT ![list[k]] = "closed"]
          /\ dels' = dels \cup {k}
       \/ /\ token[list[k]] # "full"
          /\ UNCHANGED <<token, dels>>
    /\ UNCHANGED <<pc, keys, chans, cur, list, mutex>>

\* Mutant: the closed channels stay in the map.
CleanKeep(p) ==
    /\ mutex = p
    /\ todo = {}
    /\ dels' = {}
    /\ mutex' = NoProc
    /\ pc' = [pc EXCEPT ![p] = "idle"]
    /\ keys' = [keys EXCEPT ![p] = {}]
    /\ UNCHANGED <<chans, cur, list, todo, token>>

\* Mutant: Clean returns without releasing the mutex.
CleanNoRelease(p) ==
    /\ mutex = p
    /\ todo = {}
    /\ list' = [k \in Keys |-> IF k \in dels THEN NoChan ELSE list[k]]
    /\ dels' = {}
    /\ pc' = [pc EXCEPT ![p] = "idle"]
    /\ keys' = [keys EXCEPT ![p] = {}]
    /\ UNCHANGED <<chans, cur, mutex, todo, token>>

\* The closed channels leave the map, then the mutex is released.
CleanEnd(p) ==
    /\ mutex = p
    /\ todo = {}
    /\ list' = [k \in Keys |-> IF k \in dels THEN NoChan ELSE list[k]]
    /\ dels' = {}
    /\ mutex' = NoProc
    /\ pc' = [pc EXCEPT ![p] = "idle"]
    /\ keys' = [keys EXCEPT ![p] = {}]
    /\ UNCHANGED <<chans, cur, todo, token>>

Step(p) ==
    \/ GetChan(p) \/ Receive(p) \/ ReceiveClosed(p) \/ Park(p)
    \/ Unlock(p) \/ Send(p)
    \/ CleanStart(p) \/ (\E k \in Keys : CleanKey(p, k)) \/ CleanEnd(p)

Next == \E p \in Procs : Step(p) \/ \E K \in KeySets : NewMultilock(p, K)

Spec == Init /\ [][Next]_vars

\* The scheduler runs every goroutine that can run, and callers unlock what
\* they locked; nobody has to call Lock.
FairSpec == Spec /\ \A p \in Procs : WF_vars(Step(p))

-------------------------------------------------------------------------------
(* Properties *)

\* Types; only the goroutine in Clean holds the mutex across steps.
TypeOK ==
    /\ pc \in [Procs -> Locking \cup Holding \cup {"idle", "clean", "cleaning"}]
    /\ keys \in [Procs -> SUBSET Keys]
    /\ chans \in [Procs -> [Keys -> Chans \cup {NoChan}]]
    /\ cur \in [Procs -> Chans \cup {NoChan}]
    /\ list \in [Keys -> Chans \cup {NoChan}]
    /\ mutex \in Procs \cup {NoProc}
    /\ \A p \in Procs : pc[p] = "cleaning" <=> mutex = p
    /\ todo \subseteq Keys
    /\ dels \subseteq Keys
    /\ token \in [Chans -> {"full", "empty", "closed"}]

\* No two goroutines hold one key, although channels of a key come and go.
MutualExclusion ==
    \A p, q \in Procs : p # q => Held(p) \cap Held(q) = {}

\* Unlock never blocks in a send and never panics on a closed channel: Clean
\* leaves the channels of a held key alone.
SendsNeverBlock ==
    \A p \in Procs : \A k \in Held(p) : token[chans[p][k]] = "empty"

\* No lost wakeup: a goroutine blocked in a receive waits for a channel whose
\* token another goroutine holds and will send back, not for a forgotten one.
ParkedHasHolder ==
    \A p \in Procs : pc[p] = "parked" =>
        \E q \in Procs \ {p} : chans[q][NextKey(p)] = cur[p]

\* No set of goroutines waits on itself: the order of the keys rules it out.
NoDeadlockedSet ==
    \A S \in (SUBSET Procs) \ {{}} :
        \E p \in S : ~(pc[p] = "parked" /\ \E q \in S : NextKey(p) \in Held(q))

\* When nobody locks or unlocks, the map is empty: every channel that was made
\* is removed by somebody's Clean.
NothingLeaks ==
    (\A p \in Procs : pc[p] = "idle") => \A k \in Keys : list[k] = NoChan

\* If a goroutine is in Lock, some goroutine gets all its keys: no livelock
\* between getChan and Clean.
LockProgress ==
    (\E p \in Procs : pc[p] \in Locking) ~> (\E p \in Procs : pc[p] = "held")
===============================================================================
