----------------------------- MODULE MCProtoArray -----------------------------
(* Instances of ProtoArray for TLC. *)
EXTENDS ProtoArray
CONSTANTS v1, v2
UnitBalances == [Validators -> {1}]
TwoBalances == {[v \in Validators |-> 1], [v \in Validators |-> IF v = v1 THEN 3 ELSE 1]}

\* Two instances that share their first states: blocks of any epochs with one
\* vote of one validator and equal balances, and two votes, of which one moves,
\* and balances that change with blocks of the first epoch only.
OneVote == votes[v1].epoch <= 1 /\ votes[v2] = NewVote /\ balances[v1] <= 1
FirstEpoch ==
    /\ justifiedEpoch = 0 /\ finalizedEpoch = 0
    /\ \A i \in DOMAIN nodes : nodes[i].je = 0 /\ nodes[i].fe = 0

AnyBlock ==
    \E r, p \in BlockRoots, je, fe \in IF OneVote THEN Epochs ELSE {0} : ProcessBlock(r, p, je, fe)
AnyVote ==
    \E v \in IF FirstEpoch THEN Validators ELSE {v1}, r \in BlockRoots :
       \E e \in IF FirstEpoch /\ v = v1 THEN TargetEpochs ELSE {1} : ProcessAttestation(v, r, e)
AnyHead ==
    \E je, fe \in IF OneVote THEN Epochs ELSE {0}, r \in BlockRoots,
       b \in IF FirstEpoch THEN BalanceVectors ELSE UnitBalances : FindHead(je, fe, r, b)
AnyPrune == \E r \in BlockRoots : Prune(r)

AnyCall == AnyBlock \/ AnyVote \/ AnyHead \/ AnyPrune
===============================================================================
