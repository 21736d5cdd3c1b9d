# Agora Network: a TLA+ verification project

Agora is a proof-of-work block DAG (GHOSTDAG) with three native assets. TLT lives in unspent
outputs, OVL and DRC in accounts. Blocks are ordered by proof of work; two proof-of-stake
validator sets, one staked in OVL and one in DRC, sign checkpoints that make blocks final.

This directory models the part of a node where these meet: how blocks are coloured and ordered,
how the durable state follows the virtual tip through reorgs, crashes and failing writes, how stake
moves, and how checkpoints become final. TLC checks the models on small instances; TLAPS proves the
central invariants of three of them for every instance.

`PROJECT.json` is the index: components, runs, the source lines behind each definition,
disagreements between code and documents, hazards and theorems.

## 1. Inventory of the system

| Part | State | Operations that change it | Interacts with |
|---|---|---|---|
| Block DAG and GHOSTDAG (`consensus/src/dag.rs`, `ghostdag.rs`) | parents, colouring, durable records | insert and colour, persist, roll back, rebuild at start | admission |
| Virtual application (`state-machine/src/apply.rs`) | none: computes outputs, journal, supply of one block | apply, revert | admission |
| Admission and virtual reorg (`node-bin/src/admit/mod.rs`) | virtual tip, pending marker, outputs, journals, issued supply | admit, unapply, apply, publish, restore, recover | all of the above, finality |
| Staking (`state-machine/src/staking/mod.rs`) | validators, delegations, unbonding, reward pool, epoch | bond, delegate, unbond, withdraw, evidence, epoch, fee, revert | application, finality |
| Finality (`admit/finality.rs`, `finality_store.rs`, `consensus/src/finality.rs`) | attestations, certificates, frontier | count attestation, apply evidence, note PoW | admission, staking |
| Account lanes, tickets, payments (`accounts/`, `payments/`, `drc_ticket.rs`) | balances, nonces, tickets | transfer, ticket create, revert | application |
| DRC objects (`drc_escrow.rs`, `drc_check.rs`, `drc_payment_channel.rs`, `drc_trust_line.rs`, `drc_offer.rs`) | live objects, receipts, indexes | create, settle, cancel, fill | account lanes |
| DRC authority (`drc_account_auth.rs` and others) | keys, signer lists, policies | set, clear | every DRC operation |
| Transaction pool (`p2p/src/mempool.rs`, `mempool_persist.rs`) | pending transactions, reservations, fees, snapshot file | admit, replace, evict, restore | admission |
| Block download (`p2p/src/ibd.rs`, `state-machine/src/orphans.rs`, `node-bin/src/main.rs`) | orphans, their durable copy, pending fetches | park, release, fetch, expire | admission |
| Historical layers (`ovolos-rollup`, `bridge-sdk`, `layers-runtime`) | batches, bridge messages | submit, challenge, finalise, lock, mint | none of the above |
| Governance, EVM, RPC, p2p plumbing, cryptography, tools, apps | see `PROJECT.json` | | |

What makes this code hard:

- **Crashes between write batches.** A reorg is one batch of unapplies, one batch per applied block
  and one that publishes the tip. The only trace a crash leaves is a marker that names the target, and
  the set of journals.
- **Orders that are not extensions of each other.** The blues of a new tip are sorted by blue score;
  a block can move in front of blocks that were applied before it.
- **Blues that conflict.** Two blues may carry the same transfer, spend the same output or have an
  identical coinbase; the first in blue order wins.
- **Writes outside blocks.** Evidence and epochs write the records that journals of blocks restore.
- **Validators that sign anything**, and attestations that arrive late, twice or never, for a state
  root that moves under them.
- **Writes that fail** while the node goes on serving.

## 2. Modules

| Module | Models | Used by |
|---|---|---|
| `GhostdagOps` | past, anticone, tips; choice of the selected parent, greedy colouring, blue order, snapshot and rebuild, as operators | `Ghostdag`, `MCChainState` |
| `Ghostdag` | the DAG in memory and its durable records as a state machine with restarts | `MCGhostdag` |
| `VirtualApply` | the TLT lane of one block in virtual mode and its journal, as operators | `ChainState` |
| `ChainState` | admission, reorg, restore, crash recovery, the finality guard | `MCChainState`, `ChainStateSafety`, `ChainStateProofs` |
| `Staking` | one validator set and its money | `MCStaking`, `StakingProofs` |
| `Finality` | checkpoints of one node | `MCFinality`, `FinalityProofs` |
| `WellOrdering` | a finite nonempty set of blocks has a highest-ranked one | `ChainStateSafety` |
| `MC*` | instances for TLC | the `.cfg` files |
| `ChainStateSafety`, `*Proofs` | theorems | |

Definitions whose comment begins with "Mutant of" are deliberately wrong variants of the definition
that follows them: each property has one that breaks it, which shows that the property depends on
the code it is about. No specification uses them.

### GhostdagOps and Ghostdag

A DAG is a function from hashes to sets of parents; hashes are numbers because they are only compared.
`parents`, `coloring` are the in-memory `Dag` and `Ghostdag`; `headers`, `records` the durable
columns; `candidate` the block that is coloured and not yet persisted. `Color(h)` is `admit_block` up
to `add_block_with_work`; `Persist` is the colouring part of `persist_block_atomic`; `Rollback` is
every error path in between that undoes the colouring. One does not: when `virtual_tip` cannot be
read, `admit_block` returns with the block in the DAG and coloured (`ReadFails`, variable `stray`). A
later block that names a stray one as a parent and leaves it red can be persisted; the store then holds
a block with a parent it does not have, and a node with such a store does not start (the guard of
`Restart`). `Restart` is a stop or crash followed by `rebuild_dag_from_store`, with a store that lacks
the records of an old part of the DAG, or the part of them that a rebuild cut short by a crash had not
yet written (`Lackable`). There is no pruning.

### VirtualApply and ChainState

An output set is a function from outpoints to values. `ApplyVirtual` is `apply_block_batched_mode` in
`ApplyMode::Virtual` for the TLT lane: coinbase, transfers in order, conflicting or unknown inputs
skip the transfer, journal. `RevertJournal` undoes it. Signatures, scripts, the other lanes and
sizes are left out. The signature of every transfer is checked wherever its block is applied; that a
transfer is by the owner of its inputs is checked of the selected transfers only, and the transfers of
the model all are.

`ChainState` has one variable for each durable key (`admitted`, `tip`, `pending`, `utxo`, `journal`,
`issued`, `final`, `frontier`) and `phase`, `job`, `batch` for the handler at work. Every write batch
of `reorg_utxo_to_virtual` and `try_restore_after_failed_reorg` is a step of its own, so a crash can
fall between any two. `Admit` is `admit_block` up to `persist_block_atomic` under one lock;
`PlanUnapply`, `CommitUnapply`, `ApplyTarget`, `FinishReorg`, `NotePow` are the rest of it;
`StartRestore`, `UndoTarget`, `StartRedo`, `RedoApplied`, `RestoreDone` the restore; `GiveUp` every
error after which the marker stays; `Crash` and `Recover` the restart. A failing write of the
certificate in `NotePow` is logged and ends the admission like a success. Reads do not fail here.

`world` holds the headers, bodies and colouring of all blocks that will be seen. That this may be
fixed beforehand is what `ColoringIgnoresArrivalOrder` and `DurableColoringNeverChanges` of `Ghostdag`
establish; the worlds of `MCChainState` are computed with `GhostdagOps`, so the two modules compose.

### Staking

One validator set; the OVL and DRC sets share no state. Operations signed in blocks (`Bond`,
`Delegate`, `UnbondSelf`, `Withdraw`) and the fee of any other accepted transaction (`PayFee`) leave
a journal with the keys `stake_meta_keys_touched` names; `Unapply` restores the newest. `ApplyEvidence`
and `AdvanceEpoch` write outside any journal. Integer division is that of the code. Three variables
are history. `breach` has the circumstances under which value can be lost or made (see findings).
`sentence` has, for each validator, the epoch to which its last jail must last by the documents,
the next one after the evidence; it is not read from the record, which later operations write.
`excused` has the validators whose sentence a later write has overridden: by bonding again during
the term, or by undoing a block from before the evidence.

### Finality

One node, validators and stakes of genesis. `AdmitBlock` moves the tip, checks
`guard_reorg_vs_finality` (the blues after the common prefix of the two orders) and notes PoW on the
tip's certificate, or fails to and goes on. An attestation carries the body the node expects now, or
one of `Foreign`: signed on another tip, for a block not yet known, or at an earlier moment. `ApplyEvidence` and
`CountAttestation` are the two branches of `admit_attestation` that write; the branches that only
return are no step. A certificate is kept as the sets its counters sum over, and `Weight` gives the
stake of a set. A checkpoint's state root is the record of what it commits to that can change under
a block: tip, tombstones, finality tip. `finals` is history.

## 3. Runs

| Run | Instance | Question | Result |
|---|---|---|---|
| `ghostdag` | every DAG of 4 mined blocks with up to 2 parents, hashes on both sides of genesis, two works for the lowest hash, k = 1, rollbacks, one block left behind by a failing read, restarts with an old part of the records missing or half rewritten | Does the colouring depend on the order of arrival or on a restart? Does work grow along parents, is the best tip the best block, is the selected chain blue and applied ancestor first? | holds |
| `ghostdag_last` | two branches, 7 blocks | Is a candidate the last block of its own blue order? | violated |
| `reorg` | every DAG of 3 mined blocks, two works, 8 bodies per block | Without failures: is the store the replay of the tip's blues, is supply capped, is value backed, is nothing spent twice, does the proof on the overlay cover the reorg? | holds |
| `reorg_crash` | worlds whose orders are disjoint after their common prefix; 2 crashes, 1 failing write | Do journals, tip and outputs agree after any crash, and is a restore exact? | holds |
| `reorg_live` | every DAG in which block 1 is on genesis, equal works, rival spends, 1 crash, one block that becomes final | Is every started reorg finished? Is a final block never abandoned? | holds |
| `reorg_overlap` | worlds with overlapping orders, 1 crash | Same as `reorg_crash` where a block moves within the order | violated |
| `reorg_frontier` | no transfers, two blocks that become final | Is a final block never abandoned? | violated |
| `reorg_merge` | all worlds, room under the cap | Is an empty merge of valid blocks valid? | violated |
| `staking` | 2 operators, 1 delegator, 4 operations, 2 pieces of evidence, 1 epoch turn, reorgs of 1 operation | Are balances naturals, is value conserved but for the named breaches, is a jailed validator without power to the end of its epoch unless it bonds again, does nothing but more evidence or a reorg past it touch a tombstone? | holds |
| `staking_rebond` | the same operators and amounts | Is value conserved? | violated |
| `finality` | genesis and two rivals, two validators of stake 2 and 1 in each set, one foreign body, certificates of the tip that may fail to be written | Is a validator counted for one block only? Do two final blocks cost half of each set's stake? | holds |
| `finality_terminal` | the same | Does a Finalized certificate stay Finalized? | violated |

### Bounds and why they are enough

- `Ghostdag`: four mined blocks are the fewest in which a merge set has two blocks and k = 1 makes one
  of them red while a fifth, genesis, is at neither end of the hash order. Works 1 and 3 make blue
  work and blue score disagree.
- `ChainState`: three mined blocks give a chain against a fork, a merge of two siblings and three
  rivals. `MaxSupply = 5` is two above the premine, so the cap bites with three coinbases; in the runs
  not about the cap it is 6. Two crashes cover a crash during recovery; one failing write covers each
  error path, and a failing write followed by crashes. `MaxAmount = 15` stands for `u64::MAX`: the
  fee of a transfer that pays out more than it takes would be above it.
  The liveness run has few worlds because deciding whether `Work` is enabled is slow in TLC.
- `Staking`: stakes of 100 and slashes of 1 and 5 per cent give amounts that divide unevenly from the
  second slash on, and two pieces of evidence let a jailed or tombstoned validator be judged again. One
  epoch turn ends every sentence and releases every unbonding entry. A drip of 13 out of 10 empties the
  reserve and `MaxSupply = 530` leaves room for it, so the bound on the drip is what keeps the reserve
  from running negative. `MaxReorg` bounds how far back `Unapply` goes, which the node does not bound.
  (With a second epoch turn the result is the same, in eight minutes.)
- `Finality`: with stakes 2 and 1 the larger validator is exactly two thirds, the boundary of the
  quorum. Two blocks are what the accountability property compares. `Checkpoints` keeps genesis, whose
  checkpoint nobody needs, out of what is signed. `Foreign` is the checkpoint of block 1 while it is the
  tip and nothing is final: it can arrive before the block, in time, after the tip has moved and
  after the finality tip has.

Deadlock is not checked where the system may stop: when all blocks of a small world are admitted,
or a bound on operations is reached, nothing is left to do. In `ghostdag` a node whose store lacks a
parent cannot be started again. `ghostdag_last`, without failing reads, checks it.

### Fairness

`PendingResolves` is checked under weak fairness of `Work`, the steps the node takes on its own once a
block is admitted or it is started. `admit_block` runs to its end under a lock without waiting for
anything, which justifies fairness of the handler; fairness of `Recover` says that an operator starts
a node that stopped. Nothing is assumed of peers: `Admit` and `Finalize` are not fair, and crashes
are bounded by `MaxCrashes`.

## 4. What the code does that a document does not say

Each of these is a run that TLC shows violated, with a finding in `PROJECT.json` that quotes the text.

1. **Candidate not last** (`ghostdag_last`). The blue order sorts by score while the selected parent is
   chosen by work. A heavy short branch merged with a light long one gives a block whose score is
   below that of a block it merges, so the candidate is applied before it.
2. **Recovery with overlapping orders** (`reorg_overlap`). `apply_block_to_virtual` skips a block that
   has a journal. When a crash falls between two applies of a reorg that moves a block within
   the order, the resumed reorg plans its unapplies from the old order and undoes applied blocks of
   the new one in the wrong order, or skips one whose inputs changed.
3. **Frontier moves back** (`reorg_frontier`). The finality frontier is one score, overwritten by
   whichever certificate is written last; one of a lower block lets a higher final block go.
4. **Merging a fee-paying duplicate** (`reorg_merge`). Two blues carry the same fee-paying transfer and
   both claim the fee. In the merge, the second has its transfer skipped, so its coinbase exceeds its
   budget, and a block that merges both is refused.
5. **Bond over a bond** (`staking_rebond`). `bond_validator` replaces an existing record, and the stake
   in it is neither returned nor counted.
6. **Finalized is left** (`finality_terminal`). Finalising moves the finality tip, to which the state
   root commits; the next attestation for the block has another body, and replaces the certificate by
   one that counts it alone.

`staking` shows that 5, with three more circumstances, is all there is: value is conserved unless an
operator bonds over stake, unbonds over an entry not yet withdrawn, an epoch pays out on delegation
records that no longer add up, or a reorg undoes an operation from before evidence or an epoch.

The same run bounds a gap that has no run of its own. `docs/staking/OVL_STAKING.md:32` and
`DRC_STAKING.md:25` say "Jail ≥ 1 epoch", but `bond_validator` refuses tombstoned operators only: a
jailed operator that bonds again gets a bonded record without a term and has power in the same
epoch. `JailedHasNoPower` excepts it, as it excepts a reorg past the evidence, and shows that there
is no third way.

## 5. Proofs

All are checked by TLAPS with its SMT, Zenon and LS4 backends, for every value of the constants that
satisfies the named assumptions.

**`ChainStateSafety`** and **`ChainStateProofs`**, which extends it (any finite set of blocks, any worlds, any bound on crashes and failing writes):

- `TypeOK`, and `SupplyNeverExceedsCap`: the issued supply never exceeds the cap.
- `JournalsMatchVirtual` and `TipFollowsBest`: as long as no apply or write fails, a settled node has
  journals for exactly the blues of its virtual tip, and that tip is the best of all blocks stored,
  wherever crashes fall.

`JournalsMatchVirtual` speaks of settled states only and is not inductive. `ReorgInv` says what the disk
holds in between (`DiskBetween`: either nothing of the reorg is done, or the journals are the common
prefix and some blues of the target), that the locals of the handler agree with the disk (`JobInv`),
and what the planned batch would leave (`CleanInv`). A crash forgets the locals and `DiskBetween`
is exactly what `Recover` can resume from. The argument needs that `common_prefix_len` is the
longest common prefix (`CommonPrefix`), that a blue order has no block twice (`WorldOK`), and that a
best tip exists, which `WellOrdering` proves from finite cardinality, as induction over the set
itself is not available. Note what the theorem does not say: outputs may still differ (finding 2),
because journals are a set and the order is lost.

**`StakingProofs`** (any accounts, amounts and parameters):

- `RecordsOK`: records stay well formed; in particular no slash takes a stake below zero.
- `JailedHasNoPower`, with its two exceptions.
- `TombstonedForever`: a step that changes a tombstoned record is further evidence, or undoes a block
  from before a write outside blocks.

Neither is inductive, since `Unapply` brings back what journals hold. The inductive invariant `RecordInv`
joins the types of records and of the snapshots in journals with four facts. A validator that serves
an unexcused sentence has, in the store, a record that is tombstoned, unbonding or jailed to the end of
the sentence (`StoreTermsServed`), and so it has in every journal that no write outside blocks has
overtaken (`JournalTermsServed`). Such a journal agrees with the store on the tombstoned validators
(`TombstonesKept`). And the overtaken journals are the older ones (`MarksInOrder`), which is why the
newest journal decides what an `Unapply` may bring back.

**`FinalityProofs`** (any blocks, any number of validator sets, any stakes):

- `TypeOK`, `CountedForOneBlock`.
- `TwoFinalsAreAccountable`: when two blocks were both Finalized, validators with at least half of the
  stake of each set are tombstoned.

The only assumption on stake is that it is additive over disjoint sets. The bound is half and not a
third because `active_stake` shrinks with tombstones: a later quorum is two thirds of what is left.
`FinalityInv` says that a counted signer has signed and is counted for one block (`SignersSigned`,
`SignersApart`: a second body tombstones before it counts); that what a certificate, or a final one
of the past, counted are signers in the index of its block, and that those it left out as powerless
are tombstoned, or everybody when nothing was counted yet (`CertsOK`, `FinalsOK`); and that the
sets left out by different counts are nested (`StagesNested`), since tombstones only grow. Two
quorums for different blocks have disjoint signers, so the later one must have left out enough.

**Only model-checked**: `PendingResolves` (liveness is outside TLAPS); everything about the colouring,
whose blue sets are folds over sorted merge sets, and about outputs and money (`LiveUtxoIsVirtualReplay`,
`ValueIsIssued`, `SpentOnce`, `RestoreIsExact`, `ConservedUnlessBreached`), which are sums and folds
over finite data and would need induction over it.

## 6. What is not modelled, and the plan

Not modelled by nature: hashing and signatures, wire formats, the EVM, RPC and HTTP, wallets and
services. The store is taken at its word: a batch is atomic and durable.

Planned, in this order:

1. **Mempool**: reservations of outpoints, accounts, tickets and objects; replacement by fee; eviction
   before validation; the snapshot and its restoration. Properties: every reservation belongs to a
   pending transaction and the reverse; a refused admission loses nothing. Prove the first.
2. **BlockSync**: orphan pool, its durable copy, pending fetches with expiry, several peers that lose
   answers, restart. Property: a block whose ancestors can be fetched is eventually admitted.
   Refines an abstract specification of a set of blocks closed under parents.
3. **Accounts**: transfers, nonces, tickets and journals under virtual application, composed with
   `VirtualApply` so that a reorg reverts all lanes. Property: replay equality for accounts and burnt
   supply.
4. **DRC objects**: one module for the common life cycle (created, settled once, receipt), with escrow,
   check and payment channel as refinements. Properties: locked DRC equals the live objects, one
   settlement, the deadline conditions exclude each other.
5. **Finality with Staking**: stakes that move between checkpoints, epochs, and several nodes that
   exchange attestations; what `TwoFinalsAreAccountable` becomes when stake unbonds.
6. **ChainState with Finality**: the frontier of both in one state, an abstract ledger (the replay of
   the best tip) that `ChainState` implements where orders do not overlap, and pruning of the hot
   window.
7. **Offers and trust lines**, **rollup batches** (challenge against the clock), **difficulty** as a
   function against a reference definition, **governance**.

Proofs planned: the reservation invariant of the pool; the refinement of 2 and 6; `SpentOnce` from a
strengthening over journals.
