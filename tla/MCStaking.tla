----------------------------- MODULE MCStaking -----------------------------
(* Instance of Staking for TLC: two operators and a delegator. *)
EXTENDS Staking

MCLiquid == [a |-> 200, b |-> 100, c |-> 200]

\* Half of the rewards are commission, and what is the operator's is paid to the
\* delegator.
MCTerms == {[commission |-> 5000, withdrawal |-> "c"]}
=============================================================================
