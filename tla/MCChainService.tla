---------------------------- MODULE MCChainService ----------------------------
(* A tree of six blocks with two slots to an epoch: the chain 1 - 2 that       *)
(* justifies epoch 2 and finalizes epoch 1, whose block is the genesis block,  *)
(* and the chain 3 - 4 - 5 that justifies epoch 3 without epoch 2 and          *)
(* finalizes it.                                                               *)
EXTENDS ChainService

CP(e, r) == [epoch |-> e, root |-> r]

MCBlocks == 0 .. 5
MCParent == [b \in MCBlocks |-> <<0, 0, 1, 0, 3, 4>>[b + 1]]
MCSlot == [b \in MCBlocks |-> <<0, 4, 6, 6, 8, 10>>[b + 1]]
MCJ == [b \in MCBlocks |-> <<CP(0, -1), CP(1, 0), CP(2, 1),
                             CP(1, 0), CP(3, 3), CP(4, 4)>>[b + 1]]
MCF == [b \in MCBlocks |-> <<CP(0, -1), CP(0, -1), CP(1, 0),
                             CP(0, -1), CP(0, -1), CP(3, 3)>>[b + 1]]

===============================================================================
