----------------------------- MODULE ChainState -----------------------------
(***************************************************************************)
(* Block admission and the live UTXO set (node-bin/src/admit/mod.rs).      *)
(*                                                                         *)
(* A node keeps cf_utxo equal to the blues of its virtual tip, in blue     *)
(* order.  When the tip moves it undoes a suffix of the old order from     *)
(* durable journals, in one write batch, and applies a suffix of the new   *)
(* one, in one batch per block; meta/pending_virtual names the target from *)
(* before the first of these writes until after the last.  The process     *)
(* can stop between any two batches, and a write can fail.  Reads do not   *)
(* fail here: Ghostdag (ReadFails) has the one whose failure leaves a      *)
(* block behind in memory.                                                 *)
(*                                                                         *)
(* The colouring of a block is a function of its header (Ghostdag,         *)
(* ColoringIgnoresArrivalOrder), so the headers that will ever be seen and *)
(* their colouring are fixed in the initial state: `world`.                *)
(***************************************************************************)
EXTENDS VirtualApply

CONSTANTS
    Blocks,      \* block hashes, Genesis included
    Genesis,
    Worlds,      \* the worlds explored; see WorldOK
    Premine,     \* outputs of the genesis block
    Finalizable, \* blocks whose certificate may become Finalized
    MaxCrashes,  \* bound on crashes in a behaviour
    MaxFaults,   \* bound on failing writes in a behaviour
    NoBlock      \* Option::None where a hash is expected

\* A world gives every block its parents, its body, its rank in tip selection,
\* its blue score and its blue order (genesis first, no block twice).  A block
\* outranks its parents (Ghostdag, WorkGrowsAlongParents).
WorldOK(w) ==
    /\ w.parents \in [Blocks -> SUBSET Blocks]
    /\ w.rank \in [Blocks -> 0..Cardinality(Blocks)] /\ w.score \in [Blocks -> Nat]
    /\ \A b \in Blocks : \A p \in w.parents[b] : w.rank[p] < w.rank[b]
    /\ DOMAIN w.body = Blocks /\ DOMAIN w.order = Blocks
    /\ \A b \in Blocks :
          /\ w.body[b].claim \in Nat
          /\ w.order[b] \in Seq(Blocks)
          /\ Len(w.order[b]) > 0 /\ w.order[b][1] = Genesis
          /\ \A i, j \in 1..Len(w.order[b]) : i # j => w.order[b][i] # w.order[b][j]
    /\ w.parents[Genesis] = {} /\ w.order[Genesis] = <<Genesis>>

ASSUME BlocksAssumption ==
    /\ IsFiniteSet(Blocks) /\ Genesis \in Blocks /\ NoBlock \notin Blocks
    /\ Finalizable \subseteq Blocks

ASSUME BoundsAssumption ==
    MaxCrashes \in Nat /\ MaxFaults \in Nat /\ Value(Premine) \in 0..MaxSupply

ASSUME WorldsAssumption == \A w \in Worlds : WorldOK(w)

VARIABLES
    world,    \* headers, bodies and colouring; never changes
    admitted, \* blocks whose body, header and record are durable
    tip,      \* meta/virtual_tip
    pending,  \* meta/pending_virtual, or NoBlock
    utxo,     \* cf_utxo
    journal,  \* utxo_diff and acceptance record of each applied block
    issued,   \* meta/issued_supply
    final,    \* blocks with a Finalized certificate
    frontier, \* finality/tip_blue_score, or -1
    phase,    \* what the process is doing; "Down" after a stop
    job,      \* locals of reorg_utxo_to_virtual
    batch,    \* the write batch of unapplies, as the store it would leave
    crashes,
    faults,   \* failed writes
    failed    \* reorg_utxo_to_virtual has returned or met an error

store == <<utxo, journal, issued>>
durable == <<admitted, tip, pending, store, final, frontier>>
vars == <<world, durable, phase, job, batch, crashes, faults, failed>>

\* old and new tip, position in the loop at hand, called from bootstrap?
NoJob == [old |-> Genesis, new |-> Genesis, pos |-> 0, boot |-> FALSE]

NoBatch == [ok |-> TRUE, utxo |-> NoOutputs, issued |-> 0, journal |-> NoOutputs]

-----------------------------------------------------------------------------
(* Orders *)

\* The blocks of a sequence.
Elems(s) == {s[i] : i \in 1..Len(s)}

\* common_prefix_len.
CommonPrefixLen(a, b) ==
    CHOOSE n \in 0..Len(a) :
        /\ n <= Len(b)
        /\ \A i \in 1..n : a[i] = b[i]
        /\ n < Len(a) /\ n < Len(b) => a[n + 1] # b[n + 1]

\* select_virtual_tip among the tips of the admitted blocks.
BestTip(blocks) ==
    LET tips == {b \in blocks : \A c \in blocks : b \notin world.parents[c]}
    IN  CHOOSE b \in tips : \A c \in tips : world.rank[c] <= world.rank[b]

\* applied, target and prefix of the reorg at hand.
Applied == world.order[job.old]
Target  == world.order[job.new]
Prefix  == CommonPrefixLen(Applied, Target)

-----------------------------------------------------------------------------
(* The store: records [ok, utxo, journal, issued] *)

\* Mutant of DropJournal: the journal stays.
DropJournalKeeps(j, b) == j

\* The journal of a block is deleted in the batch that undoes the block.
DropJournal(j, b) == [c \in DOMAIN j \ {b} |-> j[c]]

\* plan_unapply_block: a block without a journal is taken to be undone already.
\* Genesis has no journal.
UnapplyBlock(st, b) ==
    IF b \notin DOMAIN st.journal THEN st
    ELSE [ok      |-> st.ok,
          utxo    |-> RevertJournal(st.utxo, st.journal[b]),
          issued  |-> st.issued - MinOf(st.journal[b].subsidy, st.issued),
          journal |-> DropJournal(st.journal, b)]

\* Mutant of ApplyBody: neither clamped nor capped.
ApplyBodyUncapped(st, b) ==
    LET r == ApplyVirtual(st.utxo, world.body[b], RewardAt(world.score[b]))
    IN  [ok      |-> r.ok,
         utxo    |-> r.utxo,
         issued  |-> st.issued + r.journal.subsidy,
         journal |-> [c \in DOMAIN st.journal \cup {b} |->
                        IF c = b THEN r.journal ELSE st.journal[c]]]

\* apply_block_to_virtual of a block without a journal.
ApplyBody(st, b) ==
    LET r == ApplyVirtual(st.utxo, world.body[b], ClampEmission(world.score[b], st.issued))
    IN  [ok      |-> r.ok /\ st.issued + r.journal.subsidy <= MaxSupply,
         utxo    |-> r.utxo,
         issued  |-> st.issued + r.journal.subsidy,
         journal |-> [c \in DOMAIN st.journal \cup {b} |->
                        IF c = b THEN r.journal ELSE st.journal[c]]]

\* A loop over a suffix of blues on an overlay, up to the first block that
\* fails: genesis is the baseline and never applied.
ApplySuffix(st, order, n) ==
    FoldLeft(LAMBDA s, b : IF b = Genesis \/ ~s.ok THEN s ELSE ApplyBody(s, b),
             st, SubSeq(order, n + 1, Len(order)))

Store == [ok |-> TRUE, utxo |-> utxo, issued |-> issued, journal |-> journal]

GenesisStore ==
    [ok |-> TRUE, utxo |-> Premine, issued |-> Value(Premine), journal |-> NoOutputs]

\* Mutant of ValidBlueOrder: the candidate alone, on the live store.
ValidBlueOrderCandidateOnly(b) == ApplyBody(Store, b).ok

\* validate_blue_order_utxo: from the blues of the current tip to the blues of
\* the candidate, on an overlay over the live store.
ValidBlueOrder(b) ==
    LET from == world.order[tip]
        to   == world.order[b]
        n    == CommonPrefixLen(from, to)
        base == FoldRight(LAMBDA c, s : UnapplyBlock(s, c),
                          SubSeq(from, n + 1, Len(from)), Store)
    IN  ApplySuffix(base, to, n).ok

\* Mutant of ReorgAllowed: a block at the frontier may be abandoned.
ReorgAllowedAtFrontier(new) ==
    LET from == world.order[tip]
        n    == CommonPrefixLen(from, world.order[new])
    IN  frontier # -1 /\ new # tip =>
            /\ \A i \in (n + 1)..Len(from) : world.score[from[i]] >= frontier
            /\ world.score[new] > frontier

\* guard_reorg_vs_finality, assert_reorg_allowed.
ReorgAllowed(new) ==
    LET from == world.order[tip]
        n    == CommonPrefixLen(from, world.order[new])
    IN  frontier # -1 /\ new # tip =>
            /\ \A i \in (n + 1)..Len(from) : world.score[from[i]] > frontier
            /\ world.score[new] > frontier

-----------------------------------------------------------------------------
(* Actions *)

Init ==
    /\ world \in Worlds
    /\ admitted = {Genesis} /\ tip = Genesis /\ pending = NoBlock
    /\ utxo = Premine /\ issued = Value(Premine) /\ journal = NoOutputs
    /\ final = {} /\ frontier = -1
    /\ phase = "Idle" /\ job = NoJob /\ batch = NoBatch
    /\ crashes = 0 /\ faults = 0 /\ failed = FALSE

SetStore(st) == utxo' = st.utxo /\ issued' = st.issued /\ journal' = st.journal

\* Enter reorg_utxo_to_virtual: the unapplies are planned last block first.
StartReorg(new, boot) ==
    /\ phase' = "Plan"
    /\ job' = [old |-> tip, new |-> new, pos |-> Len(world.order[tip]), boot |-> boot]
    /\ batch' = Store

\* reorg_utxo_to_virtual returns an error: the caller of admit_block goes on
\* serving, bootstrap gives up.
ReturnError ==
    /\ phase' = (IF job.boot THEN "Down" ELSE "Idle")
    /\ job' = NoJob /\ batch' = NoBatch
    /\ failed' = TRUE

\* Mutant of Admit: the marker is not part of the batch.
AdmitWithoutMarker(b) ==
    /\ phase = "Idle"
    /\ b \notin admitted /\ world.parents[b] \subseteq admitted
    /\ ValidBlueOrder(b)
    /\ LET new == BestTip(admitted \cup {b})
       IN  /\ ReorgAllowed(new)
           /\ admitted' = admitted \cup {b}
           /\ StartReorg(new, FALSE)
    /\ UNCHANGED <<world, tip, pending, store, final, frontier, crashes, faults, failed>>

\* admit_block up to and including persist_block_atomic.  A block that fails a
\* check changes nothing and is no step.
Admit(b) ==
    /\ phase = "Idle"
    /\ b \notin admitted /\ world.parents[b] \subseteq admitted
    /\ ValidBlueOrder(b)
    /\ LET new == BestTip(admitted \cup {b})
       IN  /\ ReorgAllowed(new)
           /\ admitted' = admitted \cup {b}
           /\ pending' = new
           /\ StartReorg(new, FALSE)
    /\ UNCHANGED <<world, tip, store, final, frontier, crashes, faults, failed>>

\* plan_unapply_block of one abandoned blue.
PlanUnapply ==
    /\ phase = "Plan" /\ job.old # job.new /\ job.pos > Prefix
    /\ batch' = UnapplyBlock(batch, Applied[job.pos])
    /\ job' = [job EXCEPT !.pos = @ - 1]
    /\ UNCHANGED <<world, durable, phase, crashes, faults, failed>>

\* The write of the unapply batch.
CommitUnapply ==
    /\ phase = "Plan" /\ job.old # job.new /\ job.pos = Prefix
    /\ SetStore(batch)
    /\ phase' = "Apply" /\ job' = [job EXCEPT !.pos = @ + 1] /\ batch' = NoBatch
    /\ UNCHANGED <<world, admitted, tip, pending, final, frontier, crashes, faults, failed>>

\* apply_block_to_virtual of genesis or of a block that has a journal.
SkipApplied(order, last) ==
    /\ job.pos <= last
    /\ order[job.pos] \in DOMAIN journal \cup {Genesis}
    /\ job' = [job EXCEPT !.pos = @ + 1]
    /\ UNCHANGED <<world, durable, phase, batch, crashes, faults, failed>>

\* apply_block_to_virtual: outputs, journal, acceptance record and issued supply
\* in one batch.
ApplyNext(order, last) ==
    /\ job.pos <= last
    /\ order[job.pos] \notin DOMAIN journal \cup {Genesis}
    /\ LET st == ApplyBody(Store, order[job.pos])
       IN  st.ok /\ SetStore(st)
    /\ job' = [job EXCEPT !.pos = @ + 1]
    /\ UNCHANGED <<world, admitted, tip, pending, final, frontier, phase, batch,
                   crashes, faults, failed>>

\* apply_block_to_virtual returns an error: the block does not apply, or the
\* write fails.
ApplyFails(order, last) ==
    /\ job.pos <= last
    /\ order[job.pos] \notin DOMAIN journal \cup {Genesis}
    /\ \/ ~ApplyBody(Store, order[job.pos]).ok /\ UNCHANGED faults
       \/ faults < MaxFaults /\ faults' = faults + 1

ApplyTarget == phase = "Apply" /\ (SkipApplied(Target, Len(Target)) \/ ApplyNext(Target, Len(Target)))

\* Mutant of FinishReorg: an unchanged tip leaves the marker.
FinishReorgLeavesMarker ==
    /\ \/ phase = "Plan" /\ job.old = job.new
       \/ phase = "Apply" /\ job.pos > Len(Target)
    /\ tip' = job.new /\ pending' = (IF job.old = job.new THEN pending ELSE NoBlock)
    /\ IF job.boot THEN phase' = "Idle" /\ job' = NoJob
                   ELSE phase' = "Note" /\ job' = [job EXCEPT !.pos = 0]
    /\ batch' = NoBatch
    /\ UNCHANGED <<world, admitted, store, final, frontier, crashes, faults, failed>>

\* The batch that publishes the new tip and clears the marker.
FinishReorg ==
    /\ \/ phase = "Plan" /\ job.old = job.new
       \/ phase = "Apply" /\ job.pos > Len(Target)
    /\ tip' = job.new /\ pending' = NoBlock
    /\ IF job.boot THEN phase' = "Idle" /\ job' = NoJob
                   ELSE phase' = "Note" /\ job' = [job EXCEPT !.pos = 0]
    /\ batch' = NoBatch
    /\ UNCHANGED <<world, admitted, store, final, frontier, crashes, faults, failed>>

\* note_pow_on_virtual_tip: a certificate that is Finalized is written again,
\* and with it the frontier.  A failing write is logged and admission goes on.
NotePow ==
    /\ phase = "Note"
    /\ \/ /\ frontier' = IF job.new \in final THEN world.score[job.new] ELSE frontier
          /\ UNCHANGED faults
       \/ faults < MaxFaults /\ faults' = faults + 1 /\ UNCHANGED frontier
    /\ phase' = "Idle" /\ job' = NoJob
    /\ UNCHANGED <<world, admitted, tip, pending, store, final, batch, crashes, failed>>

\* An apply fails: try_restore_after_failed_reorg starts with the blues of the
\* target suffix before the failing one.
StartRestore ==
    /\ phase = "Apply" /\ ApplyFails(Target, Len(Target))
    /\ phase' = "Undo" /\ job' = [job EXCEPT !.pos = @ - 1]
    /\ failed' = TRUE
    /\ UNCHANGED <<world, durable, batch, crashes>>

\* Mutant of UndoTarget: a blue of the target stays applied.
UndoTargetNothing ==
    /\ phase = "Undo" /\ job.pos > Prefix
    /\ job' = [job EXCEPT !.pos = @ - 1]
    /\ UNCHANGED <<world, durable, phase, batch,
                   crashes, faults, failed>>

\* Undo one blue of the target.
UndoTarget ==
    /\ phase = "Undo" /\ job.pos > Prefix
    /\ SetStore(UnapplyBlock(Store, Target[job.pos]))
    /\ job' = [job EXCEPT !.pos = @ - 1]
    /\ UNCHANGED <<world, admitted, tip, pending, final, frontier, phase, batch,
                   crashes, faults, failed>>

StartRedo ==
    /\ phase = "Undo" /\ job.pos = Prefix
    /\ phase' = "Redo" /\ job' = [job EXCEPT !.pos = @ + 1]
    /\ UNCHANGED <<world, durable, batch, crashes, faults, failed>>

RedoApplied == phase = "Redo" /\ (SkipApplied(Applied, Len(Applied)) \/ ApplyNext(Applied, Len(Applied)))

\* Restored: the marker is cleared, and the error of the apply is returned.
RestoreDone ==
    /\ phase = "Redo" /\ job.pos > Len(Applied)
    /\ tip' = job.old /\ pending' = NoBlock
    /\ ReturnError
    /\ UNCHANGED <<world, admitted, store, final, frontier, crashes, faults>>

\* A write other than an apply fails, or a block does not apply during the
\* restore: the marker stays.
GiveUp ==
    /\ \/ /\ faults < MaxFaults /\ faults' = faults + 1
          /\ \/ phase = "Plan" /\ (job.old # job.new => job.pos = Prefix)
             \/ phase = "Apply" /\ job.pos > Len(Target)
             \/ /\ phase = "Undo" /\ job.pos > Prefix
                /\ Target[job.pos] \in DOMAIN journal
             \/ phase = "Redo" /\ job.pos > Len(Applied)
       \/ phase = "Redo" /\ ApplyFails(Applied, Len(Applied))
    /\ ReturnError
    /\ UNCHANGED <<world, durable, crashes>>

\* A certificate becomes Finalized (admit_attestation): the frontier is
\* overwritten with the score of its block.
Finalize(b) ==
    /\ phase = "Idle" /\ b \in admitted \cap Finalizable
    /\ final' = final \cup {b}
    /\ frontier' = world.score[b]
    /\ UNCHANGED <<world, admitted, tip, pending, store, phase, job, batch,
                   crashes, faults, failed>>

\* The process stops, between any two batches.
Crash ==
    /\ phase # "Down" /\ crashes < MaxCrashes
    /\ crashes' = crashes + 1
    /\ phase' = "Down" /\ job' = NoJob /\ batch' = NoBatch
    /\ UNCHANGED <<world, durable, faults, failed>>

\* Mutant of Recover: the marker is ignored.
RecoverIgnoresMarker ==
    /\ phase = "Down"
    /\ phase' = "Idle" /\ pending' = NoBlock
    /\ UNCHANGED <<world, admitted, tip, store, final, frontier, job, batch, crashes, faults, failed>>

\* bootstrap_with, recover_pending_virtual: resume towards the marker.
Recover ==
    /\ phase = "Down"
    /\ IF pending = NoBlock
       THEN phase' = "Idle" /\ UNCHANGED <<job, batch>>
       ELSE StartReorg(pending, TRUE)
    /\ UNCHANGED <<world, durable, crashes, faults, failed>>

\* What the node does on its own once a block is admitted or it is started.
Work ==
    \/ PlanUnapply \/ CommitUnapply \/ ApplyTarget \/ FinishReorg \/ NotePow
    \/ StartRestore \/ UndoTarget \/ StartRedo \/ RedoApplied \/ RestoreDone \/ GiveUp
    \/ Recover

Next ==
    \/ \E b \in Blocks : Admit(b) \/ Finalize(b)
    \/ Work
    \/ Crash

Spec == Init /\ [][Next]_vars

\* The handler runs to its end, and an operator starts a node that stopped.
FairSpec == Spec /\ WF_vars(Work)

-----------------------------------------------------------------------------
(* Properties *)

StoreOK(st) ==
    /\ DOMAIN st.journal \subseteq Blocks /\ st.issued \in Nat
    /\ \A b \in DOMAIN st.journal : st.journal[b].subsidy \in Nat

TypeOK ==
    /\ WorldOK(world)
    /\ admitted \subseteq Blocks /\ Genesis \in admitted /\ tip \in admitted
    /\ pending \in admitted \cup {NoBlock}
    /\ StoreOK(Store) /\ StoreOK(batch)
    /\ final \subseteq Blocks /\ frontier \in Nat \cup {-1}
    /\ phase \in {"Idle", "Plan", "Apply", "Note", "Undo", "Redo", "Down"}
    /\ job \in [old : admitted, new : admitted, pos : Nat, boot : BOOLEAN]
    /\ crashes \in 0..MaxCrashes /\ faults \in 0..MaxFaults /\ failed \in BOOLEAN

\* The blues of an order that have a journal once the order is applied.
Journaled(order) == Elems(order) \ {Genesis}

\* The node serves, and no reorg is owed.
Settled == phase = "Idle" /\ pending = NoBlock

\* The module doc of admit/mod.rs: "Live `cf_utxo` follows blues of
\* order_past(virtual_tip)".  Whatever reorgs led here, the outputs, the issued
\* supply, the journals and the acceptance records are those of a node that
\* applied the blues of the virtual tip one after the other from genesis, unless
\* an apply or a write has failed.
LiveUtxoIsVirtualReplay ==
    Settled /\ ~failed => Store = ApplySuffix(GenesisStore, world.order[tip], 0)

\* apply_block_to_virtual and plan_unapply_block take the presence of a journal
\* for "applied".  Crashes at any point included, a settled node has journals
\* for exactly the blues of its tip, unless an apply or a write has failed.
JournalsMatchVirtual ==
    Settled /\ ~failed => DOMAIN journal = Journaled(world.order[tip])

\* admit_block, recover_pending_virtual: the virtual tip of a settled node is
\* the best tip of all the blocks it has stored, crashes included.
TipFollowsBest == Settled /\ ~failed => tip = BestTip(admitted)

\* clamp_emission and SupplyCapExceeded: no sequence of applies, unapplies,
\* crashes, failing writes and restores issues more than the cap.
SupplyNeverExceedsCap == issued <= MaxSupply

\* The outputs that exist never sum to more than the supply issued: applying in
\* another order, skipping a duplicate or undoing mints nothing.
ValueIsIssued == Value(utxo) <= issued

\* ApplyMode::Virtual: a transfer carried by several blues is accepted by one of
\* them only, and an output is spent by one of them only.
SpentOnce ==
    Settled => \A a, b \in DOMAIN journal : a # b =>
        /\ journal[a].accepted \cap journal[b].accepted = {}
        /\ DOMAIN journal[a].spent \cap DOMAIN journal[b].spent = {}

\* admit_block proves the candidate on an overlay before it writes: without
\* crashes and failing writes the reorg that follows never meets an error.
ReorgNeverFails == crashes = 0 /\ faults = 0 => ~failed

\* try_restore_after_failed_reorg: when the restore succeeds, the store is that of
\* a node that never started the reorg.
RestoreIsExact ==
    [][phase = "Redo" /\ pending' = NoBlock
          => Store' = ApplySuffix(GenesisStore, world.order[tip], 0)]_vars

\* recover_pending_virtual: a reorg that was started is finished, by this process
\* or by one started later.
PendingResolves == pending # NoBlock ~> pending = NoBlock

\* The module doc of admit/finality.rs: "Reorgs that abandon a finalized blue are
\* rejected before durable UTXO mutation".
FinalizedNeverAbandoned ==
    [][final \cap Elems(world.order[tip]) \subseteq Elems(world.order[tip'])]_vars

\* The module doc of admit/mod.rs: "The merge block itself is not rejected merely
\* because two otherwise-valid blues contain the same mempool tx or conflicting
\* spends".  A block that claims nothing and carries no transfer is valid on
\* any admitted parents.
EmptyMergeIsValid ==
    Settled => \A b \in Blocks \ admitted :
        world.parents[b] \subseteq admitted /\ world.body[b].claim = 0 /\ world.body[b].txs = <<>>
            => ValidBlueOrder(b)

-----------------------------------------------------------------------------
(* The inductive invariant behind JournalsMatchVirtual and TipFollowsBest *)

\* The first n blues of an order, genesis aside.
FirstBlues(order, n) == {order[i] : i \in 1..n} \ {Genesis}

\* What the disk may hold of a reorg from the tip to the marker: nothing of it is
\* done, or the common prefix and some blues of the target have journals.
DiskBetween ==
    \/ DOMAIN journal = Journaled(world.order[tip])
    \/ /\ FirstBlues(world.order[tip], CommonPrefixLen(world.order[tip], world.order[pending]))
            \subseteq DOMAIN journal
       /\ DOMAIN journal \subseteq Journaled(world.order[pending])

\* The locals of the handler agree with the disk.
JobInv ==
    /\ phase \in {"Plan", "Apply"} => job.old = tip /\ job.new = pending
    /\ phase = "Note" => pending = NoBlock
    /\ phase = "Plan" => job.pos <= Len(Applied)
    /\ phase = "Plan" /\ job.old # job.new => job.pos >= Prefix
    /\ phase \in {"Apply", "Redo"} => job.pos > Prefix

\* Until something fails.
CleanInv ==
    /\ phase \notin {"Undo", "Redo"}
    /\ phase = "Idle" => pending = NoBlock
    /\ pending = NoBlock => tip = BestTip(admitted)
                            /\ DOMAIN journal = Journaled(world.order[tip])
    /\ pending # NoBlock => pending = BestTip(admitted) /\ DiskBetween
    /\ phase = "Plan" => DOMAIN batch.journal =
                            DOMAIN journal \ {Applied[i] : i \in (job.pos + 1)..Len(Applied)}
    /\ phase = "Apply" => /\ FirstBlues(Target, job.pos - 1) \subseteq DOMAIN journal
                          /\ DOMAIN journal \subseteq Journaled(Target)

ReorgInv == JobInv /\ (~failed => CleanInv)
=============================================================================
