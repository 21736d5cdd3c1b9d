-------------------------- MODULE ChainStateSafety --------------------------
(***************************************************************************)
(* Types, the locals of the handler and the supply cap of ChainState, for  *)
(* every set of blocks, every world and every number of crashes and of     *)
(* failing writes.                                                         *)
(***************************************************************************)
EXTENDS ChainState, WellOrdering, FiniteSetTheorems, TLAPS

-----------------------------------------------------------------------------
(* Operators *)

\* common_prefix_len is the length of a common prefix, and of the longest one.
LEMMA CommonPrefix ==
    ASSUME NEW S, NEW a \in Seq(S), NEW b \in Seq(S)
    PROVE  LET n == CommonPrefixLen(a, b)
           IN  /\ n \in 0..Len(a) /\ n <= Len(b)
               /\ \A i \in 1..n : a[i] = b[i]
               /\ n < Len(a) /\ n < Len(b) => a[n + 1] # b[n + 1]
<1> DEFINE Differ == {m \in Nat : m >= Len(a) \/ m >= Len(b) \/ a[m + 1] # b[m + 1]}
           P(n) == /\ n <= Len(b)
                   /\ \A i \in 1..n : a[i] = b[i]
                   /\ n < Len(a) /\ n < Len(b) => a[n + 1] # b[n + 1]
<1>1. Len(a) \in Nat /\ Len(b) \in Nat
  OBVIOUS
<1>2. Len(a) \in Differ /\ Len(b) \in Differ
  BY <1>1
<1>3. PICK n \in Differ : \A m \in Differ : n <= m
  <2>1. Differ \in SUBSET Nat /\ Differ # {}
    BY <1>2
  <2> HIDE DEF Differ
  <2>2. QED BY <2>1, NatMin
<1>4. n \in 0..Len(a) /\ n <= Len(b)
  BY <1>1, <1>2, <1>3
<1>5. \A i \in 1..n : a[i] = b[i]
  <2> TAKE i \in 1..n
  <2>1. i \in Nat /\ i - 1 \in Nat /\ i - 1 < n /\ (i - 1) + 1 = i
    BY <1>3
  <2>2. i - 1 \notin Differ
    <3>1. n \in Nat /\ ~(n <= i - 1)
      BY <1>3, <2>1
    <3> HIDE DEF Differ
    <3>2. QED BY <1>3, <3>1
  <2>3. QED BY <2>1, <2>2
<1>6. P(n)
  BY <1>3, <1>4, <1>5, <1>1
<1>7. \E m \in 0..Len(a) : P(m)
  BY <1>4, <1>6
<1>8. CommonPrefixLen(a, b) \in 0..Len(a) /\ P(CommonPrefixLen(a, b))
  <2>1. CommonPrefixLen(a, b) = CHOOSE m \in 0..Len(a) : P(m)
    BY DEF CommonPrefixLen
  <2> HIDE DEF P
  <2>2. QED BY <1>7, <2>1
<1>9. QED BY <1>8

\* select_virtual_tip picks one of the blocks it is given.
LEMMA BestTipIsBlock ==
    ASSUME WorldOK(world), NEW S \in SUBSET Blocks, S # {}
    PROVE  BestTip(S) \in S
<1> DEFINE card == Cardinality(Blocks)
           ranks == {world.rank[b] : b \in S}
           tips == {b \in S : \A c \in S : b \notin world.parents[c]}
<1>1. card \in Nat
  <2>1. IsFiniteSet(Blocks)
    BY BlocksAssumption
  <2>2. QED BY <2>1, FS_CardinalityType, Zenon
<1>2. \A b \in Blocks : world.rank[b] \in Nat /\ world.rank[b] <= card
  <2>1. world.rank \in [Blocks -> 0..card]
    BY DEF WorldOK
  <2> HIDE DEF card
  <2>2. QED BY <1>1, <2>1
<1> HIDE DEF card
<1>3. \E n \in ranks : \A m \in ranks : m <= n
  <2>1. ranks \in SUBSET Nat /\ ranks # {} /\ \A n \in ranks : n <= card
    BY <1>2
  <2> HIDE DEF ranks
  <2>2. QED BY <1>1, <2>1, NatMax
<1>4. PICK b \in S : \A c \in S : world.rank[c] <= world.rank[b]
  BY <1>3
<1>5. b \in tips
  <2>1. ASSUME NEW c \in S, b \in world.parents[c] PROVE FALSE
    <3>1. world.rank[b] < world.rank[c]
      BY <2>1 DEF WorldOK
    <3>2. QED BY <3>1, <1>4, <1>2, <2>1
  <2>2. QED BY <2>1
<1>6. \E t \in tips : \A c \in tips : world.rank[c] <= world.rank[t]
  BY <1>4, <1>5
<1>7. (CHOOSE t \in tips : \A c \in tips : world.rank[c] <= world.rank[t]) \in tips
  <2> HIDE DEF tips
  <2>1. QED BY <1>6
<1>8. QED BY <1>7 DEF BestTip

\* plan_unapply_block removes one journal and never raises the issued supply.
LEMMA UnapplyFacts ==
    ASSUME NEW st, StoreOK(st), NEW b
    PROVE  LET u == UnapplyBlock(st, b)
           IN  /\ StoreOK(u)
               /\ DOMAIN u.journal = DOMAIN st.journal \ {b}
               /\ u.issued <= st.issued
<1>1. CASE b \notin DOMAIN st.journal
  BY <1>1 DEF UnapplyBlock, StoreOK
<1>2. CASE b \in DOMAIN st.journal
  <2>1. st.issued \in Nat /\ st.journal[b].subsidy \in Nat
    BY <1>2 DEF StoreOK
  <2>2. /\ st.issued - MinOf(st.journal[b].subsidy, st.issued) \in Nat
        /\ st.issued - MinOf(st.journal[b].subsidy, st.issued) <= st.issued
    BY <2>1 DEF MinOf
  <2> DEFINE j == [c \in DOMAIN st.journal \ {b} |-> st.journal[c]]
  <2>3. /\ DOMAIN j = DOMAIN st.journal \ {b}
        /\ \A c \in DOMAIN j : j[c] = st.journal[c]
    OBVIOUS
  <2>4. /\ UnapplyBlock(st, b).journal = j
        /\ UnapplyBlock(st, b).issued = st.issued - MinOf(st.journal[b].subsidy, st.issued)
    BY <1>2 DEF UnapplyBlock, DropJournal
  <2> HIDE DEF j
  <2>5. QED BY <2>2, <2>3, <2>4 DEF StoreOK
<1>3. QED BY <1>1, <1>2

\* apply_block_to_virtual adds one journal, and when it succeeds the issued supply
\* stays under the cap.
LEMMA ApplyFacts ==
    ASSUME WorldOK(world), NEW st, StoreOK(st), NEW b \in Blocks, ApplyBody(st, b).ok
    PROVE  LET a == ApplyBody(st, b)
           IN  /\ StoreOK(a)
               /\ DOMAIN a.journal = DOMAIN st.journal \cup {b}
               /\ a.issued <= MaxSupply
<1> DEFINE body == world.body[b]
           em == ClampEmission(world.score[b], st.issued)
           r == ApplyVirtual(st.utxo, body, em)
           sel == SelectableTransfers(st.utxo, body)
           total == IF CoinbaseExists(st.utxo, body) THEN 0 ELSE body.claim
           j == [c \in DOMAIN st.journal \cup {b} |-> IF c = b THEN r.journal ELSE st.journal[c]]
<1>1. /\ ApplyBody(st, b).ok = (r.ok /\ st.issued + r.journal.subsidy <= MaxSupply)
      /\ ApplyBody(st, b).issued = st.issued + r.journal.subsidy
      /\ ApplyBody(st, b).journal = j
  BY DEF ApplyBody
<1>2. r.journal.subsidy = total - MinOf(sel.fees, total) /\ (r.ok => sel.fees \in 0..MaxAmount)
  BY DEF ApplyVirtual, Subsidy
<1>3. total \in Nat
  BY DEF WorldOK
<1>4. r.ok /\ st.issued + r.journal.subsidy <= MaxSupply
  BY <1>1
<1>5. r.journal.subsidy \in Nat
  <2>1. sel.fees \in Nat
    BY <1>2, <1>4, VirtualApplyAssumption
  <2> HIDE DEF sel, total, r
  <2>2. QED BY <1>2, <1>3, <2>1 DEF MinOf
<1>6. /\ DOMAIN j = DOMAIN st.journal \cup {b}
      /\ \A c \in DOMAIN j : j[c].subsidy \in Nat
  <2> HIDE DEF r
  <2>1. QED BY <1>5 DEF StoreOK
<1>7. st.issued \in Nat
  BY DEF StoreOK
<1> DEFINE a == ApplyBody(st, b)
<1>8. a.issued \in Nat /\ a.issued <= MaxSupply
  <2> HIDE DEF r
  <2>1. QED BY <1>1, <1>4, <1>5, <1>7
<1>9. /\ DOMAIN a.journal = DOMAIN st.journal \cup {b}
      /\ \A c \in DOMAIN a.journal : a.journal[c].subsidy \in Nat
  <2> HIDE DEF r, j
  <2>1. QED BY <1>1, <1>6
<1>10. DOMAIN st.journal \subseteq Blocks
  BY DEF StoreOK
<1> HIDE DEF a
<1>11. StoreOK(a)
  BY <1>8, <1>9, <1>10 DEF StoreOK
<1>12. QED BY <1>8, <1>9, <1>11 DEF a

-----------------------------------------------------------------------------
(* Types, the locals of the handler and the supply cap *)

SafeInv ==
    /\ TypeOK /\ JobInv
    /\ issued <= MaxSupply /\ batch.issued <= MaxSupply

\* The blue orders of two blocks and their common prefix.
LEMMA OrderFacts ==
    ASSUME NEW w, WorldOK(w), NEW a \in Blocks, NEW b \in Blocks
    PROVE  LET n == CommonPrefixLen(w.order[a], w.order[b])
           IN  /\ w.order[a] \in Seq(Blocks) /\ w.order[b] \in Seq(Blocks)
               /\ n \in Nat /\ n <= Len(w.order[a]) /\ n <= Len(w.order[b])
               /\ \A i \in 1..n : w.order[a][i] = w.order[b][i]
               /\ n < Len(w.order[a]) /\ n < Len(w.order[b])
                    => w.order[a][n + 1] # w.order[b][n + 1]
<1>1. w.order[a] \in Seq(Blocks) /\ w.order[b] \in Seq(Blocks)
  BY DEF WorldOK
<1>2. Len(w.order[a]) \in Nat
  BY <1>1
<1>3. QED BY <1>1, <1>2, CommonPrefix

\* A step that leaves the disk and the locals alone.
LEMMA StutterSafe == SafeInv /\ UNCHANGED vars => SafeInv'
BY DEF SafeInv, TypeOK, JobInv, vars, durable, store, StoreOK, Store, Applied, Target, Prefix

\* What the steps of the handler leave alone.
LEMMA StoreStays == UNCHANGED store => Store' = Store
BY DEF store, Store

LEMMA StoreSet ==
    ASSUME NEW st, StoreOK(st), SetStore(st)
    PROVE  StoreOK(Store)' /\ issued' = st.issued /\ journal' = st.journal
BY DEF SetStore, StoreOK, Store

LEMMA InitSafe == Init => SafeInv
<1> SUFFICES ASSUME Init PROVE SafeInv
  OBVIOUS
<1>1. WorldOK(world)
  BY WorldsAssumption DEF Init
<1>2. Value(Premine) \in Nat /\ Value(Premine) <= MaxSupply /\ MaxSupply \in Nat
  BY BoundsAssumption, VirtualApplyAssumption
<1>3. StoreOK(Store) /\ StoreOK(batch) /\ batch.issued = 0
  <2>1. DOMAIN NoOutputs = {}
    BY DEF NoOutputs
  <2>2. /\ Store.journal = NoOutputs /\ Store.issued = Value(Premine)
        /\ batch.journal = NoOutputs /\ batch.issued = 0
    BY DEF Init, Store, NoBatch
  <2>3. QED BY <1>2, <2>1, <2>2 DEF StoreOK
<1>4. TypeOK
  <2>1. /\ crashes \in 0..MaxCrashes /\ faults \in 0..MaxFaults
    BY BoundsAssumption DEF Init
  <2>2. job \in [old : admitted, new : admitted, pos : Nat, boot : BOOLEAN]
    BY DEF Init, NoJob
  <2>3. failed \in BOOLEAN /\ phase = "Idle"
    BY DEF Init
  <2>4. /\ admitted \subseteq Blocks /\ Genesis \in admitted /\ tip \in admitted
        /\ pending \in admitted \cup {NoBlock}
        /\ final \subseteq Blocks /\ frontier \in Nat \cup {-1}
    BY BlocksAssumption DEF Init
  <2>5. QED BY <1>1, <1>3, <2>1, <2>2, <2>3, <2>4 DEF TypeOK
<1>5. JobInv
  BY DEF Init, JobInv
<1>6. QED BY <1>2, <1>3, <1>4, <1>5 DEF SafeInv, Init

\* StartReorg, with the tip, the target and the store it reads.
LEMMA StartReorgSafe ==
    ASSUME SafeInv, NEW new \in Blocks, new \in admitted', NEW boot \in BOOLEAN,
           StartReorg(new, boot), pending' = new,
           admitted \subseteq admitted', admitted' \subseteq Blocks,
           UNCHANGED <<world, tip, store, final, frontier, crashes, faults, failed>>
    PROVE  SafeInv'
<1>1. WorldOK(world) /\ tip \in admitted /\ tip \in Blocks /\ Genesis \in admitted
  BY DEF SafeInv, TypeOK
<1>2. Len(world.order[tip]) \in Nat
  BY <1>1, OrderFacts
<1>3. /\ job' = [old |-> tip, new |-> new, pos |-> Len(world.order[tip]), boot |-> boot]
      /\ phase' = "Plan" /\ batch' = Store
  BY DEF StartReorg
<1>4. Store' = Store /\ world' = world
  BY StoreStays
<1>5. TypeOK'
  <2>1. job' \in [old : admitted', new : admitted', pos : Nat, boot : BOOLEAN]
    BY <1>1, <1>2, <1>3
  <2>2. StoreOK(Store)' /\ StoreOK(batch)'
    BY <1>3, <1>4 DEF SafeInv, TypeOK
  <2>3. QED BY <1>1, <1>3, <2>1, <2>2 DEF SafeInv, TypeOK
<1>6. JobInv'
  <2>1. /\ job'.old = tip /\ job'.new = new /\ job'.pos = Len(world.order[tip])
        /\ Applied' = world.order[tip] /\ Target' = world.order[new]
        /\ Prefix' = CommonPrefixLen(world.order[tip], world.order[new])
    BY <1>3, <1>4 DEF Applied, Target, Prefix
  <2>2. Prefix' <= Len(Applied')
    BY <1>1, <2>1, OrderFacts
  <2>3. QED BY <1>2, <1>3, <2>1, <2>2 DEF JobInv
<1>7. issued' <= MaxSupply /\ batch'.issued <= MaxSupply
  BY <1>3, <1>4 DEF SafeInv, Store, store
<1>8. QED BY <1>5, <1>6, <1>7 DEF SafeInv

\* Steps that end the handler.
LEMMA EndSafe ==
    ASSUME SafeInv, phase' \in {"Idle", "Down"}, job' = NoJob, batch' = NoBatch,
           tip' \in admitted, pending' \in {pending, NoBlock},
           crashes' \in 0..MaxCrashes, faults' \in 0..MaxFaults, failed' \in BOOLEAN,
           UNCHANGED <<world, admitted, store, final, frontier>>
    PROVE  SafeInv'
<1>1. Store' = Store
  BY StoreStays
<1>2. StoreOK(NoBatch) /\ NoBatch.issued = 0
  <2>1. DOMAIN NoOutputs = {}
    BY DEF NoOutputs
  <2>2. QED BY <2>1 DEF NoBatch, StoreOK
<1>3. job' \in [old : admitted', new : admitted', pos : Nat, boot : BOOLEAN]
  BY DEF SafeInv, TypeOK, NoJob
<1>4. StoreOK(Store)' /\ StoreOK(batch)'
  BY <1>1, <1>2 DEF SafeInv, TypeOK
<1>5. TypeOK'
  BY <1>3, <1>4 DEF SafeInv, TypeOK
<1>6. JobInv'
  BY DEF JobInv
<1>7. issued' <= MaxSupply /\ batch'.issued <= MaxSupply
  BY <1>2, VirtualApplyAssumption DEF SafeInv, store
<1>8. QED BY <1>5, <1>6, <1>7 DEF SafeInv

\* What SafeInv says of the reorg at hand.
LEMMA JobFacts ==
    ASSUME SafeInv
    PROVE  /\ WorldOK(world) /\ StoreOK(Store) /\ StoreOK(batch)
           /\ job.old \in admitted /\ job.new \in admitted /\ admitted \subseteq Blocks
           /\ job.pos \in Nat /\ Len(Applied) \in Nat /\ Len(Target) \in Nat
           /\ Applied \in Seq(Blocks) /\ Target \in Seq(Blocks)
           /\ Prefix \in Nat /\ Prefix <= Len(Applied) /\ Prefix <= Len(Target)
           /\ \A i \in 1..Prefix : Applied[i] = Target[i]
<1>1. /\ WorldOK(world) /\ StoreOK(Store) /\ StoreOK(batch)
      /\ job.old \in admitted /\ job.new \in admitted /\ admitted \subseteq Blocks
      /\ job.pos \in Nat
  BY DEF SafeInv, TypeOK
<1>2. /\ Prefix \in Nat /\ Prefix <= Len(Applied) /\ Prefix <= Len(Target)
      /\ Applied \in Seq(Blocks) /\ Target \in Seq(Blocks)
  BY <1>1, OrderFacts DEF Prefix, Applied, Target
<1>3. Len(Applied) \in Nat /\ Len(Target) \in Nat
  BY <1>2
<1>4. \A i \in 1..CommonPrefixLen(Applied, Target) : Applied[i] = Target[i]
  BY <1>2, CommonPrefix
<1>5. QED BY <1>1, <1>2, <1>3, <1>4 DEF Prefix

\* Steps within the handler: only its position moves.
LEMMA MoveFacts ==
    ASSUME SafeInv, NEW p \in Nat, job' = [job EXCEPT !.pos = p], world' = world
    PROVE  /\ job'.old = job.old /\ job'.new = job.new /\ job'.pos = p /\ job'.boot = job.boot
           /\ job' \in [old : admitted, new : admitted, pos : Nat, boot : BOOLEAN]
           /\ Applied' = Applied /\ Target' = Target /\ Prefix' = Prefix
<1>1. /\ job'.old = job.old /\ job'.new = job.new /\ job'.pos = p /\ job'.boot = job.boot
      /\ job' \in [old : admitted, new : admitted, pos : Nat, boot : BOOLEAN]
  BY DEF SafeInv, TypeOK
<1>2. Applied' = Applied /\ Target' = Target
  BY <1>1 DEF Applied, Target
<1>3. QED BY <1>1, <1>2 DEF Prefix

LEMMA MoveSafe ==
    ASSUME SafeInv, NEW p \in Nat, job' = [job EXCEPT !.pos = p],
           StoreOK(Store)', StoreOK(batch)', issued' <= MaxSupply, batch'.issued <= MaxSupply,
           phase' \in {"Plan", "Apply", "Note", "Undo", "Redo"},
           tip' \in admitted, pending' \in admitted \cup {NoBlock},
           faults' \in 0..MaxFaults, failed' \in BOOLEAN,
           UNCHANGED <<world, admitted, final, frontier, crashes>>,
           JobInv'
    PROVE  SafeInv'
<1>1. job' \in [old : admitted, new : admitted, pos : Nat, boot : BOOLEAN]
  BY MoveFacts
<1>2. TypeOK'
  BY <1>1 DEF SafeInv, TypeOK
<1>3. QED BY <1>2 DEF SafeInv

LEMMA AdmitSafe == ASSUME SafeInv, NEW b \in Blocks, Admit(b) PROVE SafeInv'
<1> DEFINE new == BestTip(admitted \cup {b})
<1>1. admitted \cup {b} \in SUBSET Blocks /\ WorldOK(world)
  BY DEF SafeInv, TypeOK
<1>2. new \in admitted \cup {b}
  BY <1>1, BestTipIsBlock
<1>3. /\ admitted' = admitted \cup {b} /\ pending' = new /\ StartReorg(new, FALSE)
      /\ UNCHANGED <<world, tip, store, final, frontier, crashes, faults, failed>>
  BY DEF Admit
<1> HIDE DEF new
<1>4. QED BY <1>1, <1>2, <1>3, StartReorgSafe

LEMMA PlanUnapplySafe == ASSUME SafeInv, PlanUnapply PROVE SafeInv'
<1>1. /\ phase = "Plan" /\ phase' = "Plan" /\ job.old # job.new
      /\ batch' = UnapplyBlock(batch, Applied[job.pos])
      /\ job' = [job EXCEPT !.pos = job.pos - 1] /\ job.pos > Prefix
      /\ UNCHANGED <<world, admitted, tip, pending, store, final, frontier, crashes, faults, failed>>
  BY DEF PlanUnapply, durable
<1>2. Prefix \in Nat /\ job.pos \in Nat /\ job.pos <= Len(Applied) /\ Len(Applied) \in Nat
  BY <1>1, JobFacts DEF SafeInv, JobInv
<1>3. job.pos - 1 \in Nat
  BY <1>1, <1>2
<1>4. StoreOK(batch)' /\ batch'.issued <= batch.issued
  BY <1>1, UnapplyFacts DEF SafeInv, TypeOK
<1>5. batch'.issued <= MaxSupply
  BY <1>4, VirtualApplyAssumption DEF SafeInv, TypeOK, StoreOK
<1>6. StoreOK(Store)' /\ issued' <= MaxSupply
  BY <1>1, StoreStays DEF SafeInv, TypeOK, store
<1>7. JobInv'
  <2>1. /\ job'.old = job.old /\ job'.new = job.new /\ job'.pos = job.pos - 1
        /\ Applied' = Applied /\ Prefix' = Prefix
    BY <1>1, <1>3, MoveFacts
  <2>2. QED BY <1>1, <1>2, <2>1 DEF SafeInv, JobInv
<1>8. QED BY <1>1, <1>3, <1>4, <1>5, <1>6, <1>7, MoveSafe DEF SafeInv, TypeOK

LEMMA CommitUnapplySafe == ASSUME SafeInv, CommitUnapply PROVE SafeInv'
<1>1. /\ phase = "Plan" /\ phase' = "Apply" /\ batch' = NoBatch /\ SetStore(batch)
      /\ job' = [job EXCEPT !.pos = job.pos + 1] /\ job.pos = Prefix
      /\ UNCHANGED <<world, admitted, tip, pending, final, frontier, crashes, faults, failed>>
  BY DEF CommitUnapply
<1>2. StoreOK(Store)' /\ issued' <= MaxSupply
  BY <1>1, JobFacts, StoreSet DEF SafeInv
<1>3. StoreOK(NoBatch) /\ NoBatch.issued <= MaxSupply
  <2>1. DOMAIN NoOutputs = {}
    BY DEF NoOutputs
  <2>2. QED BY <2>1, VirtualApplyAssumption DEF NoBatch, StoreOK
<1>4. job.pos + 1 \in Nat
  BY JobFacts
<1>5. JobInv'
  <2>1. /\ job'.old = job.old /\ job'.new = job.new /\ job'.pos = job.pos + 1
        /\ Prefix' = Prefix
    BY <1>1, <1>4, MoveFacts
  <2>2. QED BY <1>1, <2>1, JobFacts DEF SafeInv, JobInv
<1>6. QED BY <1>1, <1>2, <1>3, <1>4, <1>5, MoveSafe DEF SafeInv, TypeOK

\* The applies of the target, and of the old suffix during a restore.
LEMMA ApplyStepSafe ==
    ASSUME SafeInv, NEW order \in Seq(Blocks), phase \in {"Apply", "Redo"},
           SkipApplied(order, Len(order)) \/ ApplyNext(order, Len(order)),
           job.pos > 0
    PROVE  SafeInv'
<1>1. /\ job' = [job EXCEPT !.pos = job.pos + 1] /\ job.pos <= Len(order)
      /\ UNCHANGED <<world, admitted, tip, pending, final, frontier, phase, batch,
                     crashes, faults, failed>>
  BY DEF SkipApplied, ApplyNext, durable
<1>2. job.pos + 1 \in Nat /\ order[job.pos] \in Blocks
  BY <1>1, JobFacts
<1>3. StoreOK(Store)' /\ issued' <= MaxSupply
  <2>1. CASE SkipApplied(order, Len(order))
    BY <2>1, StoreStays, JobFacts DEF SkipApplied, durable, SafeInv, store
  <2>2. CASE ApplyNext(order, Len(order))
    <3>1. ApplyBody(Store, order[job.pos]).ok /\ SetStore(ApplyBody(Store, order[job.pos]))
      BY <2>2 DEF ApplyNext
    <3>2. /\ StoreOK(ApplyBody(Store, order[job.pos]))
          /\ ApplyBody(Store, order[job.pos]).issued <= MaxSupply
      BY <1>2, <3>1, JobFacts, ApplyFacts
    <3>3. QED BY <3>1, <3>2, StoreSet
  <2>3. QED BY <2>1, <2>2
<1>4. JobInv'
  <2>1. /\ job'.old = job.old /\ job'.new = job.new /\ job'.pos = job.pos + 1
        /\ Prefix' = Prefix
    BY <1>1, <1>2, MoveFacts
  <2>2. QED BY <1>1, <2>1, JobFacts DEF SafeInv, JobInv
<1>5. QED BY <1>1, <1>2, <1>3, <1>4, JobFacts, MoveSafe DEF SafeInv, TypeOK

LEMMA FinishReorgSafe == ASSUME SafeInv, FinishReorg PROVE SafeInv'
<1>1. /\ phase \in {"Plan", "Apply"} /\ tip' = job.new /\ pending' = NoBlock /\ batch' = NoBatch
      /\ UNCHANGED <<world, admitted, store, final, frontier, crashes, faults, failed>>
  BY DEF FinishReorg
<1>2. CASE phase' = "Idle" /\ job' = NoJob
  BY <1>1, <1>2, JobFacts, EndSafe DEF SafeInv, TypeOK
<1>3. CASE phase' = "Note" /\ job' = [job EXCEPT !.pos = 0]
  <2>1. StoreOK(Store)' /\ issued' <= MaxSupply
    BY <1>1, StoreStays, JobFacts DEF SafeInv, store
  <2>2. StoreOK(NoBatch) /\ NoBatch.issued <= MaxSupply
    <3>1. DOMAIN NoOutputs = {}
      BY DEF NoOutputs
    <3>2. QED BY <3>1, VirtualApplyAssumption DEF NoBatch, StoreOK
  <2>3. JobInv'
    BY <1>1, <1>3 DEF JobInv
  <2>4. QED BY <1>1, <1>3, <2>1, <2>2, <2>3, JobFacts, MoveSafe DEF SafeInv, TypeOK
<1>4. QED BY <1>2, <1>3 DEF FinishReorg

LEMMA NotePowSafe == ASSUME SafeInv, NotePow PROVE SafeInv'
<1>1. /\ phase' = "Idle" /\ job' = NoJob
      /\ UNCHANGED <<world, admitted, tip, pending, store, final, batch, crashes, failed>>
  BY DEF NotePow
<1>2. frontier' \in Nat \cup {-1} /\ faults' \in 0..MaxFaults
  <2>1. frontier \in Nat \cup {-1} /\ faults \in 0..MaxFaults
    BY DEF SafeInv, TypeOK
  <2>2. CASE /\ frontier' = (IF job.new \in final THEN world.score[job.new] ELSE frontier)
             /\ faults' = faults
    <3>1. world.score[job.new] \in Nat
      BY JobFacts DEF WorldOK, SafeInv, TypeOK
    <3>2. QED BY <2>1, <2>2, <3>1
  <2>3. CASE faults < MaxFaults /\ faults' = faults + 1 /\ frontier' = frontier
    BY <2>1, <2>3, BoundsAssumption
  <2>4. QED BY <2>2, <2>3 DEF NotePow
<1>3. job' \in [old : admitted', new : admitted', pos : Nat, boot : BOOLEAN]
  BY <1>1 DEF SafeInv, TypeOK, NoJob
<1>4. Store' = Store
  BY <1>1, StoreStays
<1>5. TypeOK'
  BY <1>1, <1>2, <1>3, <1>4 DEF SafeInv, TypeOK
<1>6. QED BY <1>1, <1>5 DEF SafeInv, JobInv, store

LEMMA StartRestoreSafe == ASSUME SafeInv, StartRestore PROVE SafeInv'
<1>1. /\ phase = "Apply" /\ phase' = "Undo" /\ job' = [job EXCEPT !.pos = job.pos - 1]
      /\ failed' = TRUE
      /\ UNCHANGED <<world, admitted, tip, pending, store, final, frontier, batch, crashes>>
  BY DEF StartRestore, durable
<1>2. faults' \in 0..MaxFaults
  BY BoundsAssumption DEF StartRestore, ApplyFails, SafeInv, TypeOK
<1>3. job.pos - 1 \in Nat
  BY <1>1, JobFacts DEF SafeInv, JobInv
<1>4. StoreOK(Store)' /\ issued' <= MaxSupply
  BY <1>1, StoreStays, JobFacts DEF SafeInv, store
<1>5. JobInv'
  BY <1>1 DEF JobInv
<1>6. QED BY <1>1, <1>2, <1>3, <1>4, <1>5, JobFacts, MoveSafe DEF SafeInv, TypeOK

LEMMA UndoTargetSafe == ASSUME SafeInv, UndoTarget PROVE SafeInv'
<1>1. /\ phase = "Undo" /\ phase' = "Undo" /\ job.pos > Prefix
      /\ job' = [job EXCEPT !.pos = job.pos - 1]
      /\ SetStore(UnapplyBlock(Store, Target[job.pos]))
      /\ UNCHANGED <<world, admitted, tip, pending, final, frontier, batch, crashes, faults, failed>>
  BY DEF UndoTarget
<1>2. job.pos - 1 \in Nat
  BY <1>1, JobFacts
<1>3. /\ StoreOK(UnapplyBlock(Store, Target[job.pos]))
      /\ UnapplyBlock(Store, Target[job.pos]).issued <= Store.issued
  BY JobFacts, UnapplyFacts
<1>4. StoreOK(Store)' /\ issued' <= MaxSupply
  <2>1. Store.issued = issued /\ issued \in Nat /\ UnapplyBlock(Store, Target[job.pos]).issued \in Nat
    BY <1>3, JobFacts DEF Store, StoreOK
  <2>2. QED BY <1>1, <1>3, <2>1, StoreSet, VirtualApplyAssumption DEF SafeInv
<1>5. JobInv'
  BY <1>1 DEF JobInv
<1>6. QED BY <1>1, <1>2, <1>4, <1>5, JobFacts, MoveSafe DEF SafeInv, TypeOK

LEMMA StartRedoSafe == ASSUME SafeInv, StartRedo PROVE SafeInv'
<1>1. /\ phase' = "Redo" /\ job.pos = Prefix /\ job' = [job EXCEPT !.pos = job.pos + 1]
      /\ UNCHANGED <<world, admitted, tip, pending, store, final, frontier, batch, crashes,
                     faults, failed>>
  BY DEF StartRedo, durable
<1>2. job.pos + 1 \in Nat
  BY JobFacts
<1>3. StoreOK(Store)' /\ issued' <= MaxSupply
  BY <1>1, StoreStays, JobFacts DEF SafeInv, store
<1>4. JobInv'
  <2>1. job'.pos = job.pos + 1 /\ Prefix' = Prefix
    BY <1>1, <1>2, MoveFacts
  <2>2. QED BY <1>1, <2>1, JobFacts DEF JobInv
<1>5. QED BY <1>1, <1>2, <1>3, <1>4, JobFacts, MoveSafe DEF SafeInv, TypeOK

\* RestoreDone and GiveUp return the error.
LEMMA ReturnErrorSafe == ASSUME SafeInv, RestoreDone \/ GiveUp PROVE SafeInv'
<1>1. /\ phase' \in {"Idle", "Down"} /\ job' = NoJob /\ batch' = NoBatch /\ failed' = TRUE
      /\ UNCHANGED <<world, admitted, store, final, frontier, crashes>>
  BY DEF RestoreDone, GiveUp, ReturnError, durable
<1>2. tip' \in admitted /\ pending' \in {pending, NoBlock}
  BY JobFacts DEF RestoreDone, GiveUp, durable, SafeInv, TypeOK
<1>3. faults' \in 0..MaxFaults
  BY BoundsAssumption DEF RestoreDone, GiveUp, ApplyFails, SafeInv, TypeOK
<1>4. QED BY <1>1, <1>2, <1>3, EndSafe DEF SafeInv, TypeOK

LEMMA FinalizeSafe == ASSUME SafeInv, NEW b \in Blocks, Finalize(b) PROVE SafeInv'
<1>1. /\ phase = "Idle" /\ final' = final \cup {b} /\ frontier' = world.score[b]
      /\ UNCHANGED <<world, admitted, tip, pending, store, phase, job, batch,
                     crashes, faults, failed>>
  BY DEF Finalize
<1>2. final' \subseteq Blocks /\ frontier' \in Nat
  BY <1>1, JobFacts DEF WorldOK, SafeInv, TypeOK
<1>3. Store' = Store
  BY <1>1, StoreStays
<1>4. TypeOK'
  BY <1>1, <1>2, <1>3 DEF SafeInv, TypeOK
<1>5. QED BY <1>1, <1>4 DEF SafeInv, JobInv, store

LEMMA CrashSafe == ASSUME SafeInv, Crash PROVE SafeInv'
<1>1. /\ phase' = "Down" /\ job' = NoJob /\ batch' = NoBatch
      /\ UNCHANGED <<world, admitted, tip, pending, store, final, frontier, faults, failed>>
  BY DEF Crash, durable
<1>2. crashes' \in 0..MaxCrashes
  BY BoundsAssumption DEF Crash, SafeInv, TypeOK
<1>3. QED BY <1>1, <1>2, EndSafe DEF SafeInv, TypeOK

LEMMA RecoverSafe == ASSUME SafeInv, Recover PROVE SafeInv'
<1>1. UNCHANGED <<world, admitted, tip, pending, store, final, frontier, crashes, faults, failed>>
  BY DEF Recover, durable
<1>2. CASE pending = NoBlock
  <2>1. phase' = "Idle" /\ job' = job /\ batch' = batch
    BY <1>2 DEF Recover
  <2>2. Store' = Store
    BY <1>1, StoreStays
  <2>3. TypeOK'
    BY <1>1, <2>1, <2>2 DEF SafeInv, TypeOK
  <2>4. QED BY <1>1, <2>1, <2>3 DEF SafeInv, JobInv, store
<1>3. CASE pending # NoBlock
  <2>1. StartReorg(pending, TRUE)
    BY <1>3 DEF Recover
  <2>2. pending \in admitted /\ pending \in Blocks
    BY <1>3 DEF SafeInv, TypeOK
  <2>3. admitted \subseteq Blocks
    BY JobFacts
  <2>4. QED BY <1>1, <2>1, <2>2, <2>3, StartReorgSafe
<1>4. QED BY <1>2, <1>3

\* SafeInv is inductive.
LEMMA NextSafe == SafeInv /\ [Next]_vars => SafeInv'
<1> SUFFICES ASSUME SafeInv, [Next]_vars PROVE SafeInv'
  OBVIOUS
<1>1. CASE UNCHANGED vars
  BY <1>1, StutterSafe
<1>2. ASSUME NEW b \in Blocks, Admit(b) PROVE SafeInv'
  BY <1>2, AdmitSafe
<1>3. ASSUME NEW b \in Blocks, Finalize(b) PROVE SafeInv'
  BY <1>3, FinalizeSafe
<1>4. CASE PlanUnapply
  BY <1>4, PlanUnapplySafe
<1>5. CASE CommitUnapply
  BY <1>5, CommitUnapplySafe
<1>6. CASE ApplyTarget
  <2>1. Target \in Seq(Blocks) /\ job.pos > 0 /\ phase = "Apply"
    BY <1>6, JobFacts DEF ApplyTarget, SafeInv, JobInv
  <2>2. QED BY <1>6, <2>1, ApplyStepSafe DEF ApplyTarget
<1>7. CASE FinishReorg
  BY <1>7, FinishReorgSafe
<1>8. CASE NotePow
  BY <1>8, NotePowSafe
<1>9. CASE StartRestore
  BY <1>9, StartRestoreSafe
<1>10. CASE UndoTarget
  BY <1>10, UndoTargetSafe
<1>11. CASE StartRedo
  BY <1>11, StartRedoSafe
<1>12. CASE RedoApplied
  <2>1. Applied \in Seq(Blocks) /\ job.pos > 0 /\ phase = "Redo"
    BY <1>12, JobFacts DEF RedoApplied, SafeInv, JobInv
  <2>2. QED BY <1>12, <2>1, ApplyStepSafe DEF RedoApplied
<1>13. CASE RestoreDone \/ GiveUp
  BY <1>13, ReturnErrorSafe
<1>14. CASE Crash
  BY <1>14, CrashSafe
<1>15. CASE Recover
  BY <1>15, RecoverSafe
<1>16. QED BY <1>1, <1>2, <1>3, <1>4, <1>5, <1>6, <1>7, <1>8, <1>9, <1>10, <1>11, <1>12, <1>13,
              <1>14, <1>15 DEF Next, Work

LEMMA AlwaysSafe == Spec => []SafeInv
BY InitSafe, NextSafe, PTL DEF Spec

\* Every state of admit_block, reorg_utxo_to_virtual, the restore and the recovery is
\* well typed.
THEOREM Typing == Spec => []TypeOK
<1>1. SafeInv => TypeOK
  BY DEF SafeInv
<1>2. QED BY <1>1, AlwaysSafe, PTL

\* Whatever blocks arrive, and whatever crashes, write errors, restores and recoveries
\* happen, the issued supply never exceeds max_supply.
THEOREM SupplyCap == Spec => []SupplyNeverExceedsCap
<1>1. SafeInv => SupplyNeverExceedsCap
  BY DEF SafeInv, SupplyNeverExceedsCap
<1>2. QED BY <1>1, AlwaysSafe, PTL
=============================================================================
