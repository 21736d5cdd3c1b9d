------------------------------ MODULE Staking ------------------------------
(***************************************************************************)
(* One validator set of the dual proof of stake                            *)
(* (crates/state-machine/src/staking/mod.rs); the OVL and the DRC set are  *)
(* two instances that share nothing.                                       *)
(*                                                                         *)
(* Signed stake operations come in blocks and leave a journal, so that a   *)
(* reorg can undo them.  Evidence against a validator and the turn of an   *)
(* epoch write the same records from outside any block.                    *)
(***************************************************************************)
EXTENDS Integers, Sequences, FiniteSets, FiniteSetsExt

CONSTANTS
    Accounts,
    Operators,        \* accounts that sign Bond
    Delegators,       \* accounts that sign Delegate
    Terms,            \* [commission, withdrawal] of a registration
    BondAmounts,
    DelegateAmounts,
    Fees,
    EvidenceKinds,    \* the kinds of evidence that are reported
    InitialLiquid,    \* balances at genesis
    InitialReserve,   \* stake/reserve_remaining at genesis
    MaxSupply,
    MaxValidators,
    MinSelfBond,
    UnbondingPeriod,
    MaxCommission,
    MaxConcentration,
    EpochDrip,
    MaxReorg,         \* bound on the operations a reorg undoes
    MaxOps,           \* bound on the operations that stand
    MaxReports,       \* bound on evidence
    MaxEpoch,         \* bound on epochs
    None              \* Option::None

Bps == 10000

\* EvidenceKind; the two kinds of equivocation are one.
Kinds == {"DoubleCheckpoint", "InvalidState", "Downtime", "KeyCompromise"}

ASSUME StakersAssumption ==
    /\ Operators \cup Delegators \subseteq Accounts /\ IsFiniteSet(Accounts)
    /\ EvidenceKinds \subseteq Kinds
    /\ InitialLiquid \in [Accounts -> Nat]
    /\ Terms \subseteq [commission : Nat, withdrawal : Accounts]
    /\ BondAmounts \subseteq Nat /\ DelegateAmounts \subseteq Nat /\ Fees \subseteq Nat

ValidatorRecords ==
    [self : Nat, delegated : Nat, jailedUntil : Nat, commission : Nat, withdrawal : Accounts,
     status : {"Bonded", "Unbonding", "Jailed", "Tombstoned"}]

UnbondingEntries == [amount : Nat, release : Nat]

ASSUME NoneAssumption ==
    None \notin ValidatorRecords /\ None \notin UnbondingEntries

ASSUME ParamsAssumption ==
    /\ {InitialReserve, MaxSupply, MaxValidators, MinSelfBond, UnbondingPeriod, EpochDrip,
        MaxReorg, MaxOps, MaxReports, MaxEpoch} \subseteq Nat
    /\ MaxCommission \in 0..Bps /\ MaxConcentration \in 1..Bps

VARIABLES
    liquid,     \* account balances
    nonce,      \* account nonces
    validator,  \* stake/val: ValidatorRecord or None
    delegation, \* stake/del: amount of the DelegationRecord of <<delegator, validator>>
    unbonding,  \* stake/unbond: UnbondingEntry or None
    pool,       \* stake/reward_pool
    reserve,    \* stake/reserve_remaining
    issued,     \* issued supply
    epoch,      \* stake/epoch
    journals,   \* journals of the applied stake operations, oldest first
    reports,    \* evidence so far
    breach,     \* ghost: the ways in which value may have been lost or made
    sentence,   \* ghost: the epoch to which the last jail sentence must last, 0 if none
    excused     \* ghost: operators whose last sentence a later write has overridden

accounts == <<liquid, nonce>>
records == <<validator, delegation, unbonding>>
supply == <<pool, reserve, issued>>
court == <<sentence, excused>>
vars == <<accounts, records, supply, epoch, journals, reports, breach, court>>

\* The validators that are to be out of the set.
Serving == {o \in Accounts : epoch < sentence[o]}

-----------------------------------------------------------------------------
(* Voting power *)

\* voting_power, as build_snapshot sees the record in epoch e.
Power(r, e) ==
    IF /\ r # None
       /\ \/ r.status = "Bonded"
          \/ r.status = "Jailed" /\ e >= r.jailedUntil
    THEN r.self + r.delegated ELSE 0

\* build_snapshot: the powers, and their total.
BuildSnapshot(e) == [o \in Accounts |-> Power(validator[o], e)]
TotalOf(f) == MapThenSumSet(LAMBDA a : f[a], DOMAIN f)
ActiveStake(e) == TotalOf(BuildSnapshot(e))

-----------------------------------------------------------------------------
(* Signed operations *)

\* account_before, and a snapshot of the stake keys that an operation may change:
\* the records of the operators in ops, the delegations in dels, and the pool.
JournalOf(a, ops, dels) ==
    [actor |-> a, liquid |-> liquid[a], nonce |-> nonce[a],
     vals |-> [o \in ops |-> validator[o]], dels |-> [p \in dels |-> delegation[p]],
     unbs |-> [o \in ops |-> unbonding[o]], pool |-> pool,
     outside |-> FALSE]   \* ghost: has evidence or an epoch written since?

\* The journals a reorg may still undo (the node keeps them all).
Recent(js) == SubSeq(js, Len(js) - Min({Len(js), MaxReorg}) + 1, Len(js))

\* apply_signed_stake_tx around the operation: the nonce is the account's, and is
\* used up.  stake_meta_keys_touched: the records of actor and validator (the
\* operations that need no validator name the actor).
Sign(a, v, paid) ==
    /\ TotalOf(nonce) < MaxOps
    /\ nonce' = [nonce EXCEPT ![a] = @ + 1]
    /\ liquid' = [liquid EXCEPT ![a] = @ - paid]
    /\ journals' = Recent(Append(journals, JournalOf(a, {a, v}, {<<a, v>>})))
    /\ UNCHANGED <<supply, epoch, reports, sentence>>

\* The record that bond_validator writes, whatever was there.
Registration(terms, amount) ==
    [self |-> amount, delegated |-> 0, status |-> "Bonded", jailedUntil |-> 0,
     commission |-> terms.commission, withdrawal |-> terms.withdrawal]

\* Mutant of MayBond: a tombstoned operator may come back.
MayBondAgain(o) == TRUE

MayBond(o) == validator[o] # None => validator[o].status # "Tombstoned"

\* bond_validator.
Bond(o, terms, amount) ==
    /\ amount >= MinSelfBond /\ terms.commission <= MaxCommission
    /\ MayBond(o)
    /\ validator[o] = None
         => Cardinality({v \in Accounts : Power(validator[v], epoch) > 0}) < MaxValidators
    /\ liquid[o] >= amount
    /\ Sign(o, o, amount)
    /\ validator' = [validator EXCEPT ![o] = Registration(terms, amount)]
    /\ breach' = breach \cup
         {x \in {"rebond"} : /\ validator[o] # None
                             /\ validator[o].self + validator[o].delegated > 0}
    /\ excused' = excused \cup ({o} \cap Serving)
    /\ UNCHANGED <<delegation, unbonding>>

\* Does a delegation of amount keep validator v within max_concentration_bps?
\* A sole validator may hold everything.
WithinConcentration(v, amount) ==
    LET active == ActiveStake(epoch)
        power  == Power(validator[v], epoch)
    IN  active - power > 0
          => ((power + amount) * Bps) \div (active + amount) <= MaxConcentration

\* Mutant of DelegatedTo: the record forgets earlier delegations.
DelegatedToReplaces(r, amount) == [r EXCEPT !.delegated = amount]

DelegatedTo(r, amount) == [r EXCEPT !.delegated = @ + amount]

\* delegate.
Delegate(d, v, amount) ==
    /\ amount > 0
    /\ validator[v] # None /\ validator[v].status = "Bonded"
    /\ WithinConcentration(v, amount)
    /\ liquid[d] >= amount
    /\ Sign(d, v, amount)
    /\ validator' = [validator EXCEPT ![v] = DelegatedTo(@, amount)]
    /\ delegation' = [delegation EXCEPT ![<<d, v>>] = @ + amount]
    /\ UNCHANGED <<unbonding, breach, excused>>

\* begin_unbond_self: one entry per operator, overwritten.
UnbondSelf(o) ==
    /\ validator[o] # None /\ validator[o].status # "Tombstoned"
    /\ Sign(o, o, 0)
    /\ validator' = [validator EXCEPT ![o].self = 0, ![o].status = "Unbonding"]
    /\ unbonding' = [unbonding EXCEPT ![o] =
                        [amount |-> validator[o].self, release |-> epoch + UnbondingPeriod]]
    /\ breach' = breach \cup {x \in {"unbond"} : unbonding[o] # None /\ unbonding[o].amount > 0}
    /\ UNCHANGED <<delegation, excused>>

\* withdraw_unbonded: without an entry, an accepted operation that pays nothing.
Withdraw(a) ==
    /\ unbonding[a] # None => epoch >= unbonding[a].release
    /\ Sign(a, a, IF unbonding[a] = None THEN 0 ELSE -unbonding[a].amount)
    /\ unbonding' = [unbonding EXCEPT ![a] = None]
    /\ UNCHANGED <<validator, delegation, breach, excused>>

\* apply_accepted_account_fee: the fee of an accepted OVL transaction of account a.
PayFee(a, fee) ==
    /\ liquid[a] >= fee
    /\ TotalOf(nonce) < MaxOps
    /\ nonce' = [nonce EXCEPT ![a] = @ + 1]
    /\ liquid' = [liquid EXCEPT ![a] = @ - fee]
    /\ pool' = pool + fee
    /\ journals' = Recent(Append(journals, JournalOf(a, {}, {})))
    /\ UNCHANGED <<records, reserve, issued, epoch, reports, breach, court>>

\* The keys of a snapshot get the values it has.
Restored(f, snap) == [k \in DOMAIN f |-> IF k \in DOMAIN snap THEN snap[k] ELSE f[k]]

\* revert_journal_batched of the newest journal: the values before the operation
\* come back, whoever wrote the keys since.
Unapply ==
    /\ journals # <<>>
    /\ LET j == journals[Len(journals)]
       IN  /\ liquid' = [liquid EXCEPT ![j.actor] = j.liquid]
           /\ nonce' = [nonce EXCEPT ![j.actor] = j.nonce]
           /\ validator' = Restored(validator, j.vals)
           /\ delegation' = Restored(delegation, j.dels)
           /\ unbonding' = Restored(unbonding, j.unbs)
           /\ pool' = j.pool
           /\ breach' = breach \cup {x \in {"reorg"} : j.outside}
           /\ excused' = excused \cup {o \in DOMAIN j.vals \cap Serving : j.outside}
    /\ journals' = SubSeq(journals, 1, Len(journals) - 1)
    /\ UNCHANGED <<reserve, issued, epoch, reports, sentence>>

-----------------------------------------------------------------------------
(* Writes from outside any block *)

\* SlashPolicy::penalty_for.
SlashBps(kind) == CASE kind = "DoubleCheckpoint" -> 500
                    [] kind = "InvalidState"     -> 100
                    [] OTHER                     -> 0
SlashAmount(kind, bonded) == (bonded * SlashBps(kind)) \div Bps
JailEpochs == 1   \* of every kind that jails

\* The self bond is slashed first, then the delegations.
Slashed(r, slash) ==
    LET fromSelf == Min({slash, r.self})
    IN  [r EXCEPT !.self = @ - fromSelf,
                  !.delegated = @ - Min({slash - fromSelf, r.delegated})]

\* Mutant of Punished: the term is over before the epoch is.
PunishedNoTerm(r, kind) ==
    IF kind = "DoubleCheckpoint" THEN [r EXCEPT !.status = "Tombstoned"]
    ELSE [r EXCEPT !.status = "Jailed", !.jailedUntil = epoch]

\* The sentence: tombstone for equivocation, else jail.
Punished(r, kind) ==
    IF kind = "DoubleCheckpoint" THEN [r EXCEPT !.status = "Tombstoned"]
    ELSE [r EXCEPT !.status = "Jailed", !.jailedUntil = epoch + JailEpochs]

\* apply_evidence.  admit_attestation reports double checkpoints, of bonded
\* validators only; the other kinds have no reporter yet and no condition.
ApplyEvidence(v, kind) ==
    /\ reports < MaxReports /\ reports' = reports + 1
    /\ validator[v] # None
    /\ kind = "DoubleCheckpoint" => validator[v].status = "Bonded"
    /\ LET slash == SlashAmount(kind, validator[v].self + validator[v].delegated)
       IN  /\ validator' = [validator EXCEPT ![v] = Punished(Slashed(@, slash), kind)]
           /\ pool' = pool + slash
    /\ journals' = [i \in DOMAIN journals |-> [journals[i] EXCEPT !.outside = TRUE]]
    /\ IF kind = "DoubleCheckpoint"
       THEN UNCHANGED court
       ELSE /\ sentence' = [sentence EXCEPT ![v] = epoch + 1]
            /\ excused' = excused \ {v}
    /\ UNCHANGED <<accounts, delegation, unbonding, reserve, issued, epoch, breach>>

\* distribute_reward_pool_amount for one validator of the snapshot.
Share(snap, total, amount, o) == (amount * snap[o]) \div total
Commission(share, r) == (share * r.commission) \div Bps
StakeOf(r) == Max({r.self + r.delegated, 1})
Piece(share, r, part) == ((share - Commission(share, r)) * part) \div StakeOf(r)

\* What an account receives as a delegator of o, and o's withdrawal address as
\* the operator: commission, its own piece, and what the pieces leave over.
ToDelegator(share, o, d) == Piece(share, validator[o], delegation[<<d, o>>])
ToOperator(share, o) ==
    LET r     == validator[o]
        own   == Piece(share, r, r.self)
        paid  == MapThenSumSet(LAMBDA d : ToDelegator(share, o, d), Accounts)
        after == share - Commission(share, r)
    IN  Commission(share, r) + own + Max({after - (own + paid), 0})

\* The credits of a distribution, by account.
Credit(snap, amount, a) ==
    LET total == TotalOf(snap)
        paying == {o \in Accounts : Share(snap, total, amount, o) > 0}
    IN  MapThenSumSet(LAMBDA o : ToDelegator(Share(snap, total, amount, o), o, a), paying)
      + MapThenSumSet(LAMBDA o : ToOperator(Share(snap, total, amount, o), o),
                      {o \in paying : validator[o].withdrawal = a})

\* What a distribution leaves in the pool: the rounding of the shares.
Remaining(snap, amount) ==
    amount - MapThenSumSet(LAMBDA o : Share(snap, TotalOf(snap), amount, o), Accounts)

\* Mutant of Drip: more than the reserve holds.
DripUnbounded == EpochDrip

\* drip_staking_reserve.
Drip == Min({EpochDrip, reserve})

\* The delegation records of a validator no longer add up to its `delegated`.
Skewed(o) ==
    /\ validator[o] # None
    /\ MapThenSumSet(LAMBDA d : delegation[<<d, o>>], Accounts) # validator[o].delegated

\* advance_epoch_with_params: drip, next epoch, distribution.
AdvanceEpoch ==
    /\ epoch < MaxEpoch
    /\ issued + Drip <= MaxSupply
    /\ epoch' = epoch + 1
    /\ reserve' = reserve - Drip /\ issued' = issued + Drip
    /\ LET snap == BuildSnapshot(epoch + 1)
           amount == pool + Drip
           pays == amount > 0 /\ TotalOf(snap) > 0
       IN  /\ liquid' = IF pays THEN [a \in Accounts |-> liquid[a] + Credit(snap, amount, a)]
                                ELSE liquid
           /\ pool' = IF pays THEN Remaining(snap, amount) ELSE amount
    /\ breach' = breach \cup {x \in {"skew"} : \E o \in Accounts : Skewed(o)}
    /\ journals' = [i \in DOMAIN journals |-> [journals[i] EXCEPT !.outside = TRUE]]
    /\ UNCHANGED <<nonce, records, reports, court>>

-----------------------------------------------------------------------------
Init ==
    /\ liquid = InitialLiquid /\ nonce = [a \in Accounts |-> 0]
    /\ validator = [a \in Accounts |-> None]
    /\ delegation = [p \in Accounts \X Accounts |-> 0]
    /\ unbonding = [a \in Accounts |-> None]
    /\ pool = 0 /\ reserve = InitialReserve /\ issued = TotalOf(InitialLiquid)
    /\ epoch = 0
    /\ journals = <<>> /\ reports = 0 /\ breach = {}
    /\ sentence = [a \in Accounts |-> 0] /\ excused = {}

Next ==
    \/ \E o \in Operators, t \in Terms, n \in BondAmounts : Bond(o, t, n)
    \/ \E d \in Delegators, v \in Operators, n \in DelegateAmounts : Delegate(d, v, n)
    \/ \E o \in Operators : UnbondSelf(o)
    \/ \E o \in Operators : Withdraw(o)
    \/ \E a \in Accounts \ Operators, n \in Fees : PayFee(a, n)
    \/ \E v \in Operators, k \in EvidenceKinds : ApplyEvidence(v, k)
    \/ AdvanceEpoch
    \/ Unapply

Spec == Init /\ [][Next]_vars

-----------------------------------------------------------------------------
(* Properties *)

\* That stakes are naturals says no u64 subtraction of a slash wraps.
RecordsOK ==
    /\ validator \in [Accounts -> ValidatorRecords \cup {None}]
    /\ unbonding \in [Accounts -> UnbondingEntries \cup {None}]
    /\ delegation \in [Accounts \X Accounts -> Nat]
    /\ epoch \in Nat
    /\ sentence \in [Accounts -> Nat] /\ excused \subseteq Accounts

\* Types.  That balances are naturals says nobody spends what they do not have.
TypeOK ==
    /\ RecordsOK
    /\ liquid \in [Accounts -> Nat] /\ nonce \in [Accounts -> Nat]
    /\ pool \in Nat /\ reserve \in Nat /\ issued \in Nat /\ epoch <= MaxEpoch
    /\ Len(journals) <= MaxReorg /\ reports \in 0..MaxReports
    /\ breach \subseteq {"rebond", "unbond", "skew", "reorg"}

\* Everything that was issued and not burned: balances, stake, unbonding entries
\* and the reward pool.
Holdings ==
    LET staked(a) == IF validator[a] = None THEN 0 ELSE validator[a].self + validator[a].delegated
        leaving(a) == IF unbonding[a] = None THEN 0 ELSE unbonding[a].amount
    IN  MapThenSumSet(LAMBDA a : liquid[a] + staked(a) + leaving(a), Accounts) + pool

\* docs/assets/MONETARY_POLICY.md, "Invariants (must be tested)": balances, staking
\* locks and unbonding add up to the expected supply.
StakeIsConserved == Holdings = issued

\* The invariant holds as long as no operator bonds over a record that holds
\* stake, none unbonds over an entry that is not withdrawn, no epoch is paid out
\* on delegation records that do not add up, and no reorg undoes an operation
\* from before an evidence or an epoch.
ConservedUnlessBreached == breach = {} => StakeIsConserved

\* docs/staking/OVL_STAKING.md and DRC_STAKING.md: "Jail >= 1 epoch".  A validator
\* that apply_evidence jailed has no power in build_snapshot until the epoch turns,
\* whatever it or others sign, with two exceptions.  bond_validator refuses
\* tombstoned operators only and writes a bonded record with no term over a jailed
\* one; and a reorg may restore a record from before the evidence.  (From the next
\* epoch on the jailed record has power again, but validator_key_matches accepts
\* attestations of bonded records only.)
JailedHasNoPower ==
    \A o \in Operators : o \in Serving \ excused => Power(validator[o], epoch) = 0

\* A validator that signed two checkpoints never votes again: bond_validator,
\* begin_unbond_self and delegate refuse it, no epoch frees it, and a block that is
\* undone leaves it as it is.  What changes its record is evidence of another kind,
\* or undoing a block from before the evidence.
TombstonedForever ==
    [][\A o \in Operators :
          /\ validator[o] # None /\ validator[o].status = "Tombstoned"
          /\ validator'[o] # validator[o]
          => \/ \E k \in EvidenceKinds : ApplyEvidence(o, k)
             \/ Unapply /\ journals[Len(journals)].outside]_vars
=============================================================================
