------------------------------- MODULE SkipSlots -------------------------------
(* ProcessSlots with the skip slot cache (beacon-chain/core/state/transition.go,*)
(* beacon-chain/cache/skip_slot_cache.go): goroutines that advance the same     *)
(* state to different slots, share the results through the cache and wait for   *)
(* each other by polling a mark.  One key of the cache: keys do not interact.   *)
(* A state is its slot; the start state is at slot 0.                           *)
EXTENDS Integers

CONSTANTS
    Requests,       \* goroutines that call ProcessSlots
    Targets,        \* slots they ask for
    MaxRequests,    \* bound on calls
    MaxCancels,     \* bound on cancelled contexts, failed slots and evictions
    MaxResyncs,     \* bound on the initial syncs that disable the cache
    SkipWatched     \* the goroutine that WaitsEnd is about; they are alike

ASSUME SkipAssumption == \A t \in Targets : t \in Nat \ {0}

VARIABLES
    cached,         \* slot of the state in the cache, or Nothing
    inProgress,     \* inProgress[r]
    disabled,       \* disabled
    req,            \* per goroutine: its step, slot asked, state, highestSlot
    requests, cancels, resyncs

skipVars == <<cached, inProgress, disabled, req, requests, cancels, resyncs>>

Nothing == 0        \* no state: the start state itself is never put
Returned == -1      \* the slot of an error

\* The steps of ProcessSlots: the two calls of Get (its test of disabled, the
\* polls, the look-up), the mark, the loop, Put and the deferred call.
SkipSteps == {"idle", "get", "wait", "read", "mark", "get2", "wait2", "read2",
              "run", "put", "unmark"}
Running == {"run", "put", "unmark"}

IdleRequest == [pc |-> "idle", target |-> 0, slot |-> 0, highest |-> 0]

SkipInit ==
    /\ cached = Nothing
    /\ inProgress = FALSE
    /\ disabled = FALSE
    /\ req = [r \in Requests |-> IdleRequest]
    /\ requests = 0 /\ cancels = 0 /\ resyncs = 0

SkipAt(r, pc) == req[r].pc = pc
SkipGoto(r, pc) == req' = [req EXCEPT ![r].pc = pc]

ProcessSlots(r, target) ==
    /\ SkipAt(r, "idle") /\ requests < MaxRequests
    /\ requests' = requests + 1
    /\ req' = [req EXCEPT ![r] = [pc |-> "get", target |-> target, slot |-> 0, highest |-> 0]]
    /\ UNCHANGED <<cached, inProgress, disabled, cancels, resyncs>>

\* Get: nothing when the cache is disabled.
Get(r) ==
    /\ SkipAt(r, "get") \/ SkipAt(r, "get2")
    /\ SkipGoto(r, CASE ~disabled /\ SkipAt(r, "get") -> "wait"
                     [] ~disabled /\ SkipAt(r, "get2") -> "wait2"
                     [] disabled /\ SkipAt(r, "get") -> "mark"
                     [] disabled /\ SkipAt(r, "get2") -> "run")
    /\ UNCHANGED <<cached, inProgress, disabled, requests, cancels, resyncs>>

\* The loop of Get polls until the mark is gone, disabled or not.
GetWait(r) ==
    /\ SkipAt(r, "wait") \/ SkipAt(r, "wait2")
    /\ ~inProgress
    /\ SkipGoto(r, IF SkipAt(r, "wait") THEN "read" ELSE "read2")
    /\ UNCHANGED <<cached, inProgress, disabled, requests, cancels, resyncs>>

\* The context is cancelled while Get waits.
GetCancelled(r) ==
    /\ SkipAt(r, "wait") \/ SkipAt(r, "wait2")
    /\ cancels < MaxCancels
    /\ cancels' = cancels + 1
    /\ req' = [req EXCEPT ![r] = IdleRequest]
    /\ UNCHANGED <<cached, inProgress, disabled, requests, resyncs>>

\* Mutant: any cached state is taken.
GetReadAny(r) ==
    /\ SkipAt(r, "read") \/ SkipAt(r, "read2")
    /\ LET slot == IF cached # Nothing THEN cached ELSE req[r].slot
       IN  req' = [req EXCEPT ![r].pc = IF SkipAt(r, "read") THEN "mark" ELSE "run",
                              ![r].slot = slot, ![r].highest = slot]
    /\ UNCHANGED <<cached, inProgress, disabled, requests, cancels, resyncs>>

\* The rest of Get; a state at or after the target is of no use.
GetRead(r) ==
    /\ SkipAt(r, "read") \/ SkipAt(r, "read2")
    /\ LET use == cached # Nothing /\ cached < req[r].target
           slot == IF use THEN cached ELSE req[r].slot
           highest == IF use THEN cached ELSE req[r].highest
           pc == IF SkipAt(r, "read") THEN "mark" ELSE "run"
       IN  req' = [req EXCEPT ![r] = [pc |-> pc, target |-> req[r].target,
                                      slot |-> slot, highest |-> highest]]
    /\ UNCHANGED <<cached, inProgress, disabled, requests, cancels, resyncs>>

\* MarkInProgress.  A goroutine that finds the mark calls Get again, and then
\* goes on without a mark of its own.
MarkInProgress(r) ==
    /\ SkipAt(r, "mark")
    /\ SkipGoto(r, IF ~disabled /\ inProgress THEN "get2" ELSE "run")
    /\ inProgress' = (inProgress \/ ~disabled)
    /\ UNCHANGED <<cached, disabled, requests, cancels, resyncs>>

\* Mutant: the slot of the state is not advanced.
SlotNotSet(r) ==
    /\ SkipAt(r, "run") /\ req[r].slot = req[r].target
    /\ SkipGoto(r, "put")
    /\ UNCHANGED <<cached, inProgress, disabled, requests, cancels, resyncs>>

\* ProcessSlot, ProcessEpochPrecompute and SetSlot, until the target is reached.
ProcessSlot(r) ==
    /\ SkipAt(r, "run")
    /\ IF req[r].slot < req[r].target
       THEN req' = [req EXCEPT ![r].slot = @ + 1]
       ELSE SkipGoto(r, "put")
    /\ UNCHANGED <<cached, inProgress, disabled, requests, cancels, resyncs>>

\* Mutant: the error is returned without the deferred call.
SlotFailsMarked(r) ==
    /\ SkipAt(r, "run") /\ cancels < MaxCancels
    /\ cancels' = cancels + 1
    /\ req' = [req EXCEPT ![r] = IdleRequest]
    /\ UNCHANGED <<cached, inProgress, disabled, requests, resyncs>>

\* Mutant: the state that failed is put into the cache.
FailedIsPut(r) ==
    /\ SkipAt(r, "run") /\ req[r].slot < req[r].target
    /\ cancels < MaxCancels
    /\ cancels' = cancels + 1
    /\ cached' = Returned
    /\ req' = [req EXCEPT ![r] = [pc |-> "unmark", target |-> req[r].target,
                                  slot |-> Returned, highest |-> req[r].highest]]
    /\ UNCHANGED <<inProgress, disabled, requests, resyncs>>

\* Processing a slot fails, or the context is cancelled between two slots: then
\* the best state so far is put into the cache.
SlotFails(r) ==
    /\ SkipAt(r, "run") /\ req[r].slot < req[r].target
    /\ cancels < MaxCancels
    /\ cancels' = cancels + 1
    /\ cached' \in {cached, IF req[r].highest < req[r].slot /\ ~disabled
                            THEN req[r].slot ELSE cached}
    /\ req' = [req EXCEPT ![r] = [pc |-> "unmark", target |-> req[r].target,
                                  slot |-> Returned, highest |-> req[r].highest]]
    /\ UNCHANGED <<inProgress, disabled, requests, resyncs>>

Put(r) ==
    /\ SkipAt(r, "put")
    /\ cached' = IF req[r].highest < req[r].slot /\ ~disabled THEN req[r].slot ELSE cached
    /\ SkipGoto(r, "unmark")
    /\ UNCHANGED <<inProgress, disabled, requests, cancels, resyncs>>

\* The deferred MarkNotInProgress, whoever made the mark, and the return.
MarkNotInProgress(r) ==
    /\ SkipAt(r, "unmark")
    /\ inProgress' = (inProgress /\ disabled)
    /\ req' = [req EXCEPT ![r] = IdleRequest]
    /\ UNCHANGED <<cached, disabled, requests, cancels, resyncs>>

\* The entry is the least recently used of eight.
EvictSlot ==
    /\ cached # Nothing /\ cancels < MaxCancels
    /\ cached' = Nothing
    /\ cancels' = cancels + 1
    /\ UNCHANGED <<inProgress, disabled, req, requests, resyncs>>

\* Initial sync disables the cache when it starts, and enables it at its end.
Disable ==
    /\ ~disabled /\ resyncs < MaxResyncs
    /\ disabled' = TRUE
    /\ resyncs' = resyncs + 1
    /\ UNCHANGED <<cached, inProgress, req, requests, cancels>>

Enable ==
    /\ disabled
    /\ disabled' = FALSE
    /\ UNCHANGED <<cached, inProgress, req, requests, cancels, resyncs>>

SkipStep(r) ==
    \/ Get(r) \/ GetWait(r) \/ GetRead(r) \/ MarkInProgress(r) \/ ProcessSlot(r)
    \/ Put(r) \/ MarkNotInProgress(r)

SkipNext ==
    \/ \E r \in Requests :
         \/ \E t \in Targets : ProcessSlots(r, t)
         \/ SkipStep(r) \/ GetCancelled(r) \/ SlotFails(r)
    \/ EvictSlot \/ Disable \/ Enable

SkipFairness == \A r \in Requests : WF_skipVars(SkipStep(r))
SkipSpec == SkipInit /\ [][SkipNext]_skipVars
SkipFairSpec == SkipSpec /\ SkipFairness /\ WF_skipVars(Enable)

-------------------------------------------------------------------------------
(* Properties. *)

SkipTypeOK ==
    /\ cached \in Nat
    /\ inProgress \in BOOLEAN /\ disabled \in BOOLEAN
    /\ req \in [Requests -> [pc : SkipSteps, target : Targets \cup {0},
                             slot : Nat \cup {Returned}, highest : Nat]]
    /\ requests \in Nat /\ cancels \in Nat /\ resyncs \in Nat

\* A call that returns a state returns it at the slot that was asked for, from
\* whatever state of the cache it went on.
AnswerAtTarget ==
    \A r \in Requests :
        SkipAt(r, "unmark") => req[r].slot \in {req[r].target, Returned}

\* As long as the cache is not disabled, a mark has a goroutine at work that
\* will remove it, although goroutines remove marks that are not theirs.
MarkHasOwner ==
    resyncs = 0 /\ inProgress => \E r \in Requests : req[r].pc \in Running

\* "Get waits for any in progress calculation to complete before returning a
\* cached response": a call returns, also on a node that has been through
\* initial sync, which toggles the cache.
SyncedCallReturns == ~SkipAt(SkipWatched, "idle") ~> SkipAt(SkipWatched, "idle")

===============================================================================
