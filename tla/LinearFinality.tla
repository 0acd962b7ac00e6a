---------------------------- MODULE LinearFinality ----------------------------
(* What a node promises about finality, whatever happens to it: the finalized  *)
(* checkpoint on disk moves only to a later epoch on a chain that contains the *)
(* one it had, the checkpoint in use is one the disk has had, and the two      *)
(* agree again after every restart.                                            *)
EXTENDS Naturals

CONSTANTS
    Checkpoints,    \* a set of records with a field epoch
    First,          \* the checkpoint of the genesis state
    Follows(_, _)   \* Follows(c, d): c is on a chain that contains d

VARIABLES
    stored,         \* the finalized checkpoint on disk
    used            \* the finalized checkpoint in memory

Init == stored = First /\ used = First

\* A later checkpoint of the same chain is finalized.
Finalize(c) ==
    /\ c.epoch > stored.epoch
    /\ Follows(c, stored)
    /\ stored' = c
    /\ UNCHANGED used

\* The checkpoint on disk is taken into use, at run time or by a restart.
Adopt ==
    /\ used' = stored
    /\ UNCHANGED stored

Next == (\E c \in Checkpoints : Finalize(c)) \/ Adopt

Spec == Init /\ [][Next]_<<stored, used>>

===============================================================================
