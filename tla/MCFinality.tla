----------------------------- MODULE MCFinality -----------------------------
(* Instance of Finality for TLC: blocks 1 and 2 on genesis, and              *)
(* in each set a validator with two thirds of the stake and one with a third.  *)
EXTENDS Finality, FiniteSetsExt

MCBlocks == 0..2
MCOrder == [b \in MCBlocks |-> IF b = 0 THEN <<0>> ELSE <<0, b>>]
MCScore == [b \in MCBlocks |-> Len(MCOrder[b]) - 1]
\* Block 2 ranks above block 1.
MCRank == [b \in MCBlocks |-> b]
MCSets == {"OVL", "DRC"}
MCValidators == [s \in MCSets |-> {"big", "small"}]
Stake == [big |-> 2, small |-> 1]
MCWeight == [s \in MCSets |-> [S \in SUBSET MCValidators[s] |-> MapThenSumSet(LAMBDA v : Stake[v], S)]]
\* The checkpoint of block 1 at the moment it is the tip and nothing is final: it
\* may come before the block does, or after the tip has moved on.
MCForeign ==
    {[block |-> 1, root |-> [tip |-> 1, out |-> [s \in MCSets |-> {}], frontier |-> 0]]}
=============================================================================
