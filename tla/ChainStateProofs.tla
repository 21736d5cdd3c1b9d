-------------------------- MODULE ChainStateProofs --------------------------
(***************************************************************************)
(* Journals and tip of ChainState until an apply or a write fails, for     *)
(* every set of blocks, every world and every number of crashes.  The      *)
(* store is typed throughout (ChainStateSafety).                           *)
(***************************************************************************)
EXTENDS ChainStateSafety

-----------------------------------------------------------------------------
(* Journals and tip, until an apply or a write fails *)

\* The blues of an order past its first n.
PastFirst(order, n) == {order[i] : i \in (n + 1)..Len(order)}

\* Undoing the old suffix leaves the common prefix and nothing outside the target,
\* whether the reorg is new or resumed.
LEMMA UnapplySets ==
    ASSUME NEW A \in Seq(Blocks), NEW B \in Seq(Blocks),
           \A i, j \in 1..Len(A) : i # j => A[i] # A[j],
           NEW n, n = CommonPrefixLen(A, B),
           NEW J, \/ J = Journaled(A)
                  \/ FirstBlues(A, n) \subseteq J /\ J \subseteq Journaled(B),
           NEW R, R = J \ PastFirst(A, n)
    PROVE  /\ FirstBlues(A, n) \subseteq R /\ FirstBlues(B, n) \subseteq R
           /\ R \subseteq Journaled(B)
<1>1. Len(A) \in Nat /\ Len(B) \in Nat
  OBVIOUS
<1>2. n \in Nat /\ n <= Len(A) /\ n <= Len(B)
  BY <1>1, CommonPrefix
<1>3. \A i \in 1..n : A[i] = B[i]
  BY <1>1, CommonPrefix
<1>4. FirstBlues(A, n) = FirstBlues(B, n)
  BY <1>3 DEF FirstBlues
<1>5. FirstBlues(A, n) \subseteq J
  <2>1. FirstBlues(A, n) \subseteq Journaled(A)
    BY <1>1, <1>2 DEF FirstBlues, Journaled, Elems
  <2>2. QED BY <2>1
<1>6. FirstBlues(A, n) \cap {A[i] : i \in (n + 1)..Len(A)} = {}
  BY <1>1, <1>2 DEF FirstBlues
<1>7. R = J \ {A[i] : i \in (n + 1)..Len(A)}
  BY DEF PastFirst
<1>8. R \subseteq Journaled(B)
  <2>1. CASE J = Journaled(A)
    <3>1. R \subseteq FirstBlues(A, n)
      <4> SUFFICES ASSUME NEW x \in R PROVE x \in FirstBlues(A, n)
        OBVIOUS
      <4>1. x \in Elems(A) /\ x # Genesis /\ x \notin {A[i] : i \in (n + 1)..Len(A)}
        BY <1>7, <2>1 DEF Journaled
      <4>2. PICK k \in 1..Len(A) : x = A[k]
        BY <4>1 DEF Elems
      <4>3. k \in 1..n
        BY <1>1, <1>2, <4>1, <4>2
      <4>4. QED BY <4>1, <4>2, <4>3 DEF FirstBlues
    <3>2. FirstBlues(B, n) \subseteq Journaled(B)
      BY <1>1, <1>2 DEF FirstBlues, Journaled, Elems
    <3>3. QED BY <1>4, <3>1, <3>2
  <2>2. CASE J \subseteq Journaled(B)
    BY <1>7, <2>2
  <2>3. QED BY <2>1, <2>2
<1>9. QED BY <1>4, <1>5, <1>6, <1>7, <1>8

\* A reorg to the same tip owes nothing.
LEMMA SameTip ==
    ASSUME SafeInv, DiskBetween, pending = tip
    PROVE  DOMAIN journal = Journaled(world.order[tip])
<1> DEFINE o == world.order[tip]
           n == CommonPrefixLen(o, o)
<1>1. o \in Seq(Blocks) /\ Len(o) \in Nat
  BY DEF SafeInv, TypeOK, WorldOK
<1>2. n = Len(o)
  <2>1. n \in 0..Len(o) /\ ~(n < Len(o))
    BY <1>1, CommonPrefix
  <2>2. QED BY <1>1, <2>1
<1>3. FirstBlues(o, Len(o)) = Journaled(o)
  BY DEF FirstBlues, Journaled, Elems
<1>4. \/ DOMAIN journal = Journaled(o)
      \/ FirstBlues(o, n) \subseteq DOMAIN journal /\ DOMAIN journal \subseteq Journaled(o)
  BY DEF DiskBetween
<1> HIDE DEF o, n
<1>5. DOMAIN journal = Journaled(o)
  BY <1>2, <1>3, <1>4
<1>6. QED BY <1>5 DEF o

\* The start of a reorg, from admit_block or from bootstrap.
LEMMA StartReorgClean ==
    ASSUME SafeInv, NEW new \in Blocks, NEW boot, StartReorg(new, boot), pending' = new,
           new = BestTip(admitted)',
           \/ DOMAIN journal = Journaled(world.order[tip])
           \/ pending = new /\ DiskBetween,
           UNCHANGED <<world, tip, store>>
    PROVE  CleanInv'
<1>1. /\ phase' = "Plan" /\ batch' = Store /\ journal' = journal
      /\ job' = [old |-> tip, new |-> new, pos |-> Len(world.order[tip]), boot |-> boot]
  BY DEF StartReorg, store
<1>2. DiskBetween'
  BY <1>1 DEF DiskBetween
<1>3. DOMAIN batch'.journal = DOMAIN journal
  BY <1>1 DEF Store
<1>4. {Applied'[i] : i \in (job'.pos + 1)..Len(Applied')} = {}
  <2>1. Applied' = world.order[tip] /\ job'.pos = Len(world.order[tip])
    BY <1>1 DEF Applied
  <2>2. Len(world.order[tip]) \in Nat
    <3>1. WorldOK(world) /\ tip \in Blocks
      BY DEF SafeInv, TypeOK
    <3>2. QED BY <3>1, OrderFacts
  <2>3. QED BY <2>1, <2>2
<1>5. pending' # NoBlock
  BY BlocksAssumption
<1>6. QED BY <1>1, <1>2, <1>3, <1>4, <1>5 DEF CleanInv

LEMMA AdmitClean ==
    ASSUME SafeInv, CleanInv, NEW b \in Blocks, Admit(b) PROVE CleanInv'
<1> DEFINE new == BestTip(admitted \cup {b})
<1>1. admitted \cup {b} \in SUBSET Blocks /\ WorldOK(world)
  BY DEF SafeInv, TypeOK
<1>2. new \in Blocks
  BY <1>1, BestTipIsBlock
<1>3. /\ phase = "Idle" /\ admitted' = admitted \cup {b} /\ pending' = new
      /\ StartReorg(new, FALSE) /\ UNCHANGED <<world, tip, store>>
  BY DEF Admit
<1>4. new = BestTip(admitted)'
  BY <1>3 DEF BestTip
<1>5. DOMAIN journal = Journaled(world.order[tip])
  BY <1>3 DEF CleanInv
<1> HIDE DEF new
<1>6. QED BY <1>2, <1>3, <1>4, <1>5, StartReorgClean

LEMMA RecoverClean == ASSUME SafeInv, CleanInv, Recover PROVE CleanInv'
<1>1. UNCHANGED <<world, admitted, tip, pending, store, final, frontier, crashes, faults, failed>>
  BY DEF Recover, durable
<1>2. BestTip(admitted)' = BestTip(admitted)
  BY <1>1 DEF BestTip
<1>3. CASE pending = NoBlock
  BY <1>1, <1>2, <1>3 DEF CleanInv, Recover, store
<1>4. CASE pending # NoBlock
  <2>1. StartReorg(pending, TRUE) /\ pending \in Blocks
    BY <1>4 DEF Recover, SafeInv, TypeOK
  <2>2. pending = BestTip(admitted)' /\ DiskBetween
    BY <1>2, <1>4 DEF CleanInv
  <2>3. QED BY <1>1, <2>1, <2>2, StartReorgClean
<1>5. QED BY <1>3, <1>4

LEMMA PlanUnapplyClean == ASSUME SafeInv, CleanInv, PlanUnapply PROVE CleanInv'
<1>1. /\ phase = "Plan" /\ phase' = "Plan" /\ job.pos > Prefix
      /\ batch' = UnapplyBlock(batch, Applied[job.pos])
      /\ job' = [job EXCEPT !.pos = job.pos - 1]
      /\ UNCHANGED <<world, admitted, tip, pending, utxo, journal, issued>>
  BY DEF PlanUnapply, durable, store
<1>2. job.pos - 1 \in Nat /\ job.pos \in Nat /\ job.pos <= Len(Applied) /\ Len(Applied) \in Nat
  BY <1>1, JobFacts DEF SafeInv, JobInv
<1>3. job'.pos = job.pos - 1 /\ Applied' = Applied
  BY <1>1, <1>2, MoveFacts
<1>4. DOMAIN batch'.journal = DOMAIN batch.journal \ {Applied[job.pos]}
  BY <1>1, JobFacts, UnapplyFacts
<1>5. {Applied[i] : i \in job.pos..Len(Applied)}
        = {Applied[i] : i \in (job.pos + 1)..Len(Applied)} \cup {Applied[job.pos]}
  BY <1>2
<1>6. DOMAIN batch.journal = DOMAIN journal \ {Applied[i] : i \in (job.pos + 1)..Len(Applied)}
  BY <1>1 DEF CleanInv
<1>7. (job.pos - 1) + 1 = job.pos
  BY <1>2
<1>8. DOMAIN batch'.journal
        = DOMAIN journal' \ {Applied'[i] : i \in (job'.pos + 1)..Len(Applied')}
  <2>1. {Applied'[i] : i \in (job'.pos + 1)..Len(Applied')}
          = {Applied[i] : i \in job.pos..Len(Applied)}
    BY <1>3, <1>7
  <2>2. journal' = journal
    BY <1>1
  <2>3. QED BY <1>4, <1>5, <1>6, <2>1, <2>2
<1>9. DiskBetween' <=> DiskBetween
  BY <1>1 DEF DiskBetween
<1>10. BestTip(admitted)' = BestTip(admitted)
  BY <1>1 DEF BestTip
<1>11. QED BY <1>1, <1>8, <1>9, <1>10 DEF CleanInv

LEMMA CommitUnapplyClean == ASSUME SafeInv, CleanInv, CommitUnapply PROVE CleanInv'
<1>1. /\ phase = "Plan" /\ phase' = "Apply" /\ SetStore(batch)
      /\ job' = [job EXCEPT !.pos = job.pos + 1] /\ job.pos = Prefix
      /\ UNCHANGED <<world, admitted, tip, pending>>
  BY DEF CommitUnapply
<1>2. /\ job.old = tip /\ job.new = pending /\ pending \in Blocks /\ pending # NoBlock
      /\ tip \in Blocks
  BY <1>1, JobFacts, BlocksAssumption DEF SafeInv, JobInv
<1>3. job.pos + 1 \in Nat /\ job.pos \in Nat
  BY JobFacts
<1>4. job'.pos = job.pos + 1 /\ Target' = Target /\ Applied' = Applied /\ Prefix' = Prefix
  BY <1>1, <1>3, MoveFacts
<1>5. Prefix = CommonPrefixLen(world.order[tip], world.order[pending])
  BY <1>2 DEF Prefix, Applied, Target
<1>6. DOMAIN journal' = DOMAIN journal \ {Applied[i] : i \in (Prefix + 1)..Len(Applied)}
  <2>1. journal' = batch.journal
    BY <1>1 DEF SetStore
  <2>2. QED BY <1>1, <2>1 DEF CleanInv
<1>7. \/ DOMAIN journal = Journaled(Applied)
      \/ /\ FirstBlues(Applied, Prefix) \subseteq DOMAIN journal
         /\ DOMAIN journal \subseteq Journaled(Target)
  BY <1>2, <1>5 DEF CleanInv, DiskBetween, Applied, Target
<1>8. /\ FirstBlues(Applied, Prefix) \subseteq DOMAIN journal'
      /\ FirstBlues(Target, Prefix) \subseteq DOMAIN journal'
      /\ DOMAIN journal' \subseteq Journaled(Target)
  <2> DEFINE J == DOMAIN journal
             R == DOMAIN journal'
             n == Prefix
  <2>1. /\ Applied \in Seq(Blocks) /\ Target \in Seq(Blocks)
        /\ \A i, j \in 1..Len(Applied) : i # j => Applied[i] # Applied[j]
    BY JobFacts DEF Applied, WorldOK
  <2>2. /\ n = CommonPrefixLen(Applied, Target)
        /\ R = J \ PastFirst(Applied, n)
        /\ \/ J = Journaled(Applied)
           \/ FirstBlues(Applied, n) \subseteq J /\ J \subseteq Journaled(Target)
    BY <1>6, <1>7 DEF Prefix, PastFirst
  <2> HIDE DEF J, R, n
  <2>3. /\ FirstBlues(Applied, n) \subseteq R /\ FirstBlues(Target, n) \subseteq R
        /\ R \subseteq Journaled(Target)
    BY <2>1, <2>2, UnapplySets
  <2>4. QED BY <2>3 DEF J, R, n
<1>9. DiskBetween'
  BY <1>1, <1>2, <1>5, <1>8 DEF DiskBetween, Applied, Target
<1>10. FirstBlues(Target', job'.pos - 1) \subseteq DOMAIN journal'
  <2>1. job'.pos - 1 = Prefix
    BY <1>1, <1>3, <1>4
  <2>2. QED BY <1>4, <1>8, <2>1
<1>11. BestTip(admitted)' = BestTip(admitted)
  BY <1>1 DEF BestTip
<1>12. QED BY <1>1, <1>2, <1>4, <1>8, <1>9, <1>10, <1>11 DEF CleanInv

\* A blue of the target is applied, or found applied.
LEMMA ApplyTargetClean == ASSUME SafeInv, CleanInv, ApplyTarget PROVE CleanInv'
<1>1. /\ phase = "Apply" /\ phase' = "Apply"
      /\ job' = [job EXCEPT !.pos = job.pos + 1] /\ job.pos <= Len(Target)
      /\ UNCHANGED <<world, admitted, tip, pending>>
  BY DEF ApplyTarget, SkipApplied, ApplyNext, durable
<1>2. /\ job.old = tip /\ job.new = pending /\ pending \in Blocks /\ pending # NoBlock
      /\ tip \in Blocks
  BY <1>1, JobFacts, BlocksAssumption DEF SafeInv, JobInv
<1>3. /\ job.pos + 1 \in Nat /\ job.pos \in Nat /\ Prefix \in Nat /\ Prefix < job.pos
      /\ job.pos \in 1..Len(Target) /\ Prefix <= Len(Applied) /\ Len(Target) \in Nat
  BY <1>1, JobFacts DEF SafeInv, JobInv
<1>4. job'.pos = job.pos + 1 /\ Target' = Target /\ Applied' = Applied /\ Prefix' = Prefix
  BY <1>1, <1>3, MoveFacts
<1>5. /\ Target[job.pos] \in DOMAIN journal' \cup {Genesis}
      /\ DOMAIN journal \subseteq DOMAIN journal'
      /\ DOMAIN journal' \subseteq DOMAIN journal \cup ({Target[job.pos]} \ {Genesis})
  <2>1. CASE SkipApplied(Target, Len(Target))
    BY <2>1 DEF SkipApplied, durable, store
  <2>2. CASE ApplyNext(Target, Len(Target))
    <3>1. /\ ApplyBody(Store, Target[job.pos]).ok /\ SetStore(ApplyBody(Store, Target[job.pos]))
          /\ Target[job.pos] # Genesis
      BY <2>2 DEF ApplyNext
    <3>2. Target[job.pos] \in Blocks
      BY <1>3, JobFacts
    <3>3. DOMAIN ApplyBody(Store, Target[job.pos]).journal = DOMAIN Store.journal \cup {Target[job.pos]}
      BY <3>1, <3>2, JobFacts, ApplyFacts
    <3>4. DOMAIN journal' = DOMAIN journal \cup {Target[job.pos]}
      BY <3>1, <3>3 DEF SetStore, Store
    <3>5. QED BY <3>1, <3>4
  <2>3. QED BY <2>1, <2>2 DEF ApplyTarget
<1>6. /\ FirstBlues(Target, job.pos - 1) \subseteq DOMAIN journal
      /\ DOMAIN journal \subseteq Journaled(Target)
  BY <1>1 DEF CleanInv
<1>7. FirstBlues(Target, job.pos) \subseteq DOMAIN journal'
  <2>1. FirstBlues(Target, job.pos)
          \subseteq FirstBlues(Target, job.pos - 1) \cup ({Target[job.pos]} \ {Genesis})
    BY <1>3 DEF FirstBlues
  <2>2. QED BY <1>5, <1>6, <2>1
<1>8. DOMAIN journal' \subseteq Journaled(Target)
  <2>1. {Target[job.pos]} \ {Genesis} \subseteq Journaled(Target)
    BY <1>3 DEF Journaled, Elems
  <2>2. QED BY <1>5, <1>6, <2>1
<1>9. FirstBlues(Applied, Prefix) \subseteq DOMAIN journal'
  <2>1. \A i \in 1..Prefix : Applied[i] = Target[i]
    BY JobFacts
  <2>2. FirstBlues(Applied, Prefix) \subseteq FirstBlues(Target, job.pos)
    <3> SUFFICES ASSUME NEW x \in FirstBlues(Applied, Prefix)
                 PROVE  x \in FirstBlues(Target, job.pos)
      OBVIOUS
    <3>1. PICK i \in 1..Prefix : x = Applied[i]
      BY DEF FirstBlues
    <3>2. i \in 1..job.pos /\ x = Target[i] /\ x # Genesis
      BY <1>3, <2>1, <3>1 DEF FirstBlues
    <3>3. QED BY <3>2 DEF FirstBlues
  <2>3. QED BY <1>7, <2>2
<1>10. DiskBetween'
  BY <1>1, <1>2, <1>8, <1>9 DEF DiskBetween, Prefix, Applied, Target
<1>11. job'.pos - 1 = job.pos
  BY <1>3, <1>4
<1>12. FirstBlues(Target', job'.pos - 1) \subseteq DOMAIN journal' /\ DOMAIN journal' \subseteq Journaled(Target')
  BY <1>4, <1>7, <1>8, <1>11
<1>13. BestTip(admitted)' = BestTip(admitted)
  BY <1>1 DEF BestTip
<1>14. pending' = BestTip(admitted)' /\ pending' # NoBlock
  BY <1>1, <1>2, <1>13 DEF CleanInv
<1>15. QED BY <1>1, <1>10, <1>12, <1>14 DEF CleanInv

\* The journals left when the marker is cleared are those of the new tip.
LEMMA FinishReorgClean == ASSUME SafeInv, CleanInv, FinishReorg PROVE CleanInv'
<1>1. /\ phase \in {"Plan", "Apply"} /\ phase' \in {"Idle", "Note"}
      /\ tip' = job.new /\ pending' = NoBlock
      /\ UNCHANGED <<world, admitted, utxo, journal, issued>>
  BY DEF FinishReorg, store
<1>2. /\ job.old = tip /\ job.new = pending /\ pending \in Blocks /\ pending # NoBlock
  BY <1>1, JobFacts, BlocksAssumption DEF SafeInv, JobInv
<1>3. DOMAIN journal = Journaled(world.order[pending])
  <2>1. CASE phase = "Plan" /\ job.old = job.new
    <3>1. pending = tip /\ DiskBetween
      BY <1>2, <2>1 DEF CleanInv
    <3>2. QED BY <3>1, SameTip
  <2>2. CASE phase = "Apply" /\ job.pos > Len(Target)
    <3>1. /\ FirstBlues(Target, job.pos - 1) \subseteq DOMAIN journal
          /\ DOMAIN journal \subseteq Journaled(Target)
      BY <2>2 DEF CleanInv
    <3>2. job.pos \in Nat /\ Len(Target) \in Nat
      BY JobFacts
    <3>3. Journaled(Target) \subseteq FirstBlues(Target, job.pos - 1)
      BY <2>2, <3>2 DEF FirstBlues, Journaled, Elems
    <3>4. QED BY <1>2, <3>1, <3>3 DEF Target
  <2>3. QED BY <2>1, <2>2 DEF FinishReorg
<1>4. BestTip(admitted)' = BestTip(admitted) /\ pending = BestTip(admitted)
  BY <1>1, <1>2 DEF BestTip, CleanInv
<1>5. tip' = BestTip(admitted)' /\ DOMAIN journal' = Journaled(world'.order[tip'])
  BY <1>1, <1>2, <1>3, <1>4
<1>6. QED BY <1>1, <1>5 DEF CleanInv

\* Steps that leave marker, tip and journals alone and leave the handler, or are not
\* part of it.
LEMMA EndClean ==
    ASSUME CleanInv, UNCHANGED <<world, admitted, tip, pending, journal>>,
           \/ phase' = "Down"
           \/ phase' = "Idle" /\ pending = NoBlock
    PROVE  CleanInv'
<1>1. BestTip(admitted)' = BestTip(admitted)
  BY DEF BestTip
<1>2. DiskBetween' <=> DiskBetween
  BY DEF DiskBetween
<1>3. QED BY <1>1, <1>2 DEF CleanInv

LEMMA StutterClean == CleanInv /\ UNCHANGED vars => CleanInv'
<1> SUFFICES ASSUME CleanInv, UNCHANGED vars PROVE CleanInv'
  OBVIOUS
<1>1. BestTip(admitted)' = BestTip(admitted)
  BY DEF BestTip, vars, durable
<1>2. DiskBetween' <=> DiskBetween
  BY DEF DiskBetween, vars, durable, store
<1>3. Applied' = Applied /\ Target' = Target
  BY DEF Applied, Target, vars
<1>4. UNCHANGED <<world, tip, pending, journal, phase, job, batch>>
  BY DEF vars, durable, store
<1>5. QED BY <1>1, <1>2, <1>3, <1>4 DEF CleanInv

\* What holds until an apply or a write fails.
CleanUntilFailure == SafeInv /\ (failed = FALSE => CleanInv)

LEMMA InitClean == Init => CleanUntilFailure
<1> SUFFICES ASSUME Init PROVE CleanInv
  BY InitSafe DEF CleanUntilFailure
<1>1. WorldOK(world) /\ Genesis \in Blocks
  BY WorldsAssumption, BlocksAssumption DEF Init
<1>2. BestTip({Genesis}) \in {Genesis}
  BY <1>1, BestTipIsBlock
<1>3. tip = BestTip(admitted)
  BY <1>2 DEF Init
<1>4. Journaled(<<Genesis>>) = {}
  BY DEF Journaled, Elems
<1>5. world.order[tip] = <<Genesis>>
  BY <1>1 DEF Init, WorldOK
<1>6. DOMAIN journal = {}
  BY DEF Init, NoOutputs
<1>7. QED BY <1>3, <1>4, <1>5, <1>6 DEF Init, CleanInv

LEMMA NextClean == CleanUntilFailure /\ [Next]_vars => CleanUntilFailure'
<1> SUFFICES ASSUME SafeInv, failed = FALSE => CleanInv, [Next]_vars, failed' = FALSE
             PROVE  CleanInv'
  BY NextSafe DEF CleanUntilFailure
<1>1. CASE UNCHANGED vars
  BY <1>1, StutterClean DEF vars
<1>2. ASSUME NEW b \in Blocks, Admit(b) PROVE CleanInv'
  BY <1>2, AdmitClean DEF Admit
<1>3. ASSUME NEW b \in Blocks, Finalize(b) PROVE CleanInv'
  <2>1. CleanInv /\ phase = "Idle"
    BY <1>3 DEF Finalize
  <2>2. QED BY <1>3, <2>1, EndClean DEF Finalize, store, CleanInv
<1>4. CASE PlanUnapply
  BY <1>4, PlanUnapplyClean DEF PlanUnapply
<1>5. CASE CommitUnapply
  BY <1>5, CommitUnapplyClean DEF CommitUnapply
<1>6. CASE ApplyTarget
  BY <1>6, ApplyTargetClean DEF ApplyTarget, SkipApplied, ApplyNext
<1>7. CASE FinishReorg
  BY <1>7, FinishReorgClean DEF FinishReorg
<1>8. CASE NotePow
  <2>1. CleanInv /\ pending = NoBlock
    BY <1>8 DEF NotePow, SafeInv, JobInv
  <2>2. QED BY <1>8, <2>1, EndClean DEF NotePow, store
<1>9. CASE StartRestore \/ RestoreDone \/ GiveUp
  BY <1>9 DEF StartRestore, RestoreDone, GiveUp, ReturnError
<1>10. CASE UndoTarget \/ StartRedo \/ RedoApplied
  <2>1. phase \in {"Undo", "Redo"} /\ failed' = failed
    BY <1>10 DEF UndoTarget, StartRedo, RedoApplied, SkipApplied, ApplyNext
  <2>2. QED BY <2>1 DEF CleanInv
<1>11. CASE Crash
  <2>1. CleanInv
    BY <1>11 DEF Crash
  <2>2. QED BY <1>11, <2>1, EndClean DEF Crash, durable, store
<1>12. CASE Recover
  BY <1>12, RecoverClean DEF Recover
<1>13. QED BY <1>1, <1>2, <1>3, <1>4, <1>5, <1>6, <1>7, <1>8, <1>9, <1>10, <1>11, <1>12
           DEF Next, Work

LEMMA AlwaysClean == Spec => []CleanUntilFailure
BY InitClean, NextClean, PTL DEF Spec

\* reorg_utxo_to_virtual and recover_pending_virtual: for any DAG, any order of arrival
\* and any number of crashes at any point, a settled node has journals for exactly the
\* blues of its tip, unless an apply or a write has failed.
THEOREM JournalsOfTip == Spec => []JournalsMatchVirtual
<1>1. CleanUntilFailure => JournalsMatchVirtual
  BY DEF CleanUntilFailure, SafeInv, TypeOK, CleanInv, JournalsMatchVirtual, Settled
<1>2. QED BY <1>1, AlwaysClean, PTL

\* admit_block and recover_pending_virtual: under the same conditions the virtual tip of
\* a settled node is the best tip of the blocks it has stored.
THEOREM TipIsBest == Spec => []TipFollowsBest
<1>1. CleanUntilFailure => TipFollowsBest
  BY DEF CleanUntilFailure, SafeInv, TypeOK, CleanInv, TipFollowsBest, Settled
<1>2. QED BY <1>1, AlwaysClean, PTL
=============================================================================
