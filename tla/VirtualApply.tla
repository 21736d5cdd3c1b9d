---------------------------- MODULE VirtualApply ----------------------------
(***************************************************************************)
(* The TLT lane of a block under ApplyMode::Virtual (state-machine/src/    *)
(* apply.rs): which transfers of a block are accepted on top of a set of   *)
(* unspent outputs, the new set, and the journal that undoes the block.    *)
(*                                                                         *)
(* A set of unspent outputs is a function from outpoints to values.  The   *)
(* body of a block is [coinbase, claim, txs]: the outpoint and the value   *)
(* of its coinbase output and the sequence of its transfers.  The         *)
(* signature of every transfer is checked, so a block with a bad one fails *)
(* wherever it is applied; that a transfer is by the owner of its inputs   *)
(* is checked of the selected transfers only.  All transfers of the model  *)
(* are well signed, and by their owners.                                   *)
(***************************************************************************)
EXTENDS Integers, FiniteSets, Sequences, FiniteSetsExt, SequencesExt

CONSTANTS
    Transfers,       \* the transfers that occur in blocks
    Ins,             \* Ins[t]: the set of outpoints t spends
    Outs,            \* Outs[t]: the outputs of t, a function from outpoints to values
    MaxSupply,       \* meta/max_supply
    MaxAmount,       \* u64::MAX, the width of an amount
    InitialReward,   \* EmissionSchedule.initial_reward
    HalvingInterval  \* EmissionSchedule.halving_interval

ASSUME VirtualApplyAssumption ==
    /\ MaxSupply \in Nat /\ MaxAmount \in Nat /\ InitialReward \in Nat /\ HalvingInterval \in Nat \ {0}
    /\ \A t \in Transfers : Ins[t] # {}

\* The empty set of outputs.
NoOutputs == [o \in {} |-> 0]

\* f restricted to the outpoints in S.
Keep(f, S) == [o \in DOMAIN f \cap S |-> f[o]]

\* f with the entries of g added or overwritten (a WriteBatch of puts).
Put(f, g) == [o \in DOMAIN f \cup DOMAIN g |-> IF o \in DOMAIN g THEN g[o] ELSE f[o]]

\* Total value of a set of outputs.
Value(f) == MapThenSumSet(LAMBDA o : f[o], DOMAIN f)

MinOf(a, b) == IF a <= b THEN a ELSE b

\* EmissionSchedule::reward_at_blue_score.
RewardAt(score) ==
    LET halvings == score \div HalvingInterval
    IN  IF halvings >= 64 THEN 0 ELSE InitialReward \div (2 ^ halvings)

\* ChainState::clamp_emission: what is left under the cap.
ClampEmission(score, issued) == MinOf(RewardAt(score), MaxSupply - MinOf(issued, MaxSupply))

\* coinbase_outpoints_exist: an identical sibling coinbase was applied already.
CoinbaseExists(utxo, body) == body.coinbase \in DOMAIN utxo

\* One round of the loop of selectable_transfers.  A transfer is picked when
\* every input is unreserved and known; otherwise it is skipped and reserves
\* nothing.
SelectStep(utxo, st, t) ==
    LET known == Put(utxo, st.created)
        paid  == Value(Outs[t])
        inSum == Value(Keep(known, Ins[t]))
    IN  IF Ins[t] \cap st.reserved # {} \/ ~(Ins[t] \subseteq DOMAIN known)
        THEN st
        ELSE [ok       |-> st.ok /\ inSum >= paid,
              reserved |-> st.reserved \cup Ins[t],
              created  |-> Put(st.created, Outs[t]),
              picked   |-> st.picked \cup {t},
              fees     |-> st.fees + (inSum - paid)]

\* selectable_transfers in virtual mode.
SelectableTransfers(utxo, body) ==
    LET seed == [o \in IF CoinbaseExists(utxo, body) THEN {} ELSE {body.coinbase} |-> body.claim]
    IN  FoldLeft(LAMBDA st, t : SelectStep(utxo, st, t),
                 [ok |-> TRUE, reserved |-> {}, created |-> seed, picked |-> {}, fees |-> 0],
                 body.txs)

\* Mutant of SpendUtxo: spent outputs stay in the set.
SpendUtxoKeeps(utxo, spent) == utxo

\* spend_utxo of every reserved outpoint.
SpendUtxo(utxo, spent) == Keep(utxo, DOMAIN utxo \ spent)

\* Mutant of Subsidy: it does not stop at zero.
SubsidyUnsaturated(total, fees) == total - fees

\* The part of a coinbase that is not paid by fees (saturating).
Subsidy(total, fees) == total - MinOf(fees, total)

\* apply_block_batched_mode in virtual mode: coinbase budget, coinbase, picked
\* transfers, journal.  Outputs made and spent inside the block enter neither
\* list of the journal.  `accepted` stands for the BlockAcceptanceRecord.
ApplyVirtual(utxo, body, emission) ==
    LET sel     == SelectableTransfers(utxo, body)
        skipCb  == CoinbaseExists(utxo, body)
        total   == IF skipCb THEN 0 ELSE body.claim
        spent   == sel.reserved
        outs    == Keep(sel.created, DOMAIN sel.created \ spent)
    IN  [ok      |-> /\ sel.ok /\ sel.fees \in 0..MaxAmount
                     /\ total <= emission + sel.fees
                     /\ skipCb \/ body.coinbase \notin spent
                     /\ DOMAIN sel.created \cap DOMAIN utxo = {},
         utxo    |-> Put(SpendUtxo(utxo, spent), outs),
         journal |-> [spent    |-> Keep(utxo, spent),
                      created  |-> DOMAIN outs,
                      subsidy  |-> Subsidy(total, sel.fees),
                      accepted |-> sel.picked]]

\* Mutant of RevertJournal: what was spent is not put back.
RevertJournalNoRefund(utxo, j) == Keep(utxo, DOMAIN utxo \ j.created)

\* Mutant of RevertJournal: what was created is not deleted.
RevertJournalKeepsCreated(utxo, j) == Put(utxo, j.spent)

\* revert_journal_batched: delete what was created, then put back what was spent.
RevertJournal(utxo, j) == Put(Keep(utxo, DOMAIN utxo \ j.created), j.spent)
=============================================================================
