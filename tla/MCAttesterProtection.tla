------------------------- MODULE MCAttesterProtection -------------------------
(* Instances of AttesterProtection for TLC. *)
EXTENDS AttesterProtection, TLC

CONSTANTS x, y

D(s, t, b) == [source |-> s, target |-> t, block |-> b]

\* A double vote, and a vote that surrounds another.
ConflictData == {D(0, 3, x), D(1, 2, x), D(1, 2, y)}

\* The same, with epochs far enough apart for pruning to cut each bucket.
PruneData == {D(0, 1, x), D(2, 4, x), D(2, 4, y), D(1, 5, x)}

\* Two attestations that do not conflict.
PlainData == {D(0, 1, x), D(1, 2, x)}

\* A failed write or a crash, not both.
OneFault == fails' + crashes' <= 1

Symmetry == Permutations(Callers) \cup Permutations(Keys)
===============================================================================
