---------------------------- MODULE GhostdagOps -----------------------------
(***************************************************************************)
(* The pure part of the block DAG and of GHOSTDAG: the operators of        *)
(* consensus/src/dag.rs and ghostdag.rs, and the reconstruction of the     *)
(* colouring from the store (node-bin/src/admit/mod.rs).                   *)
(*                                                                         *)
(* A DAG is a function from block hashes to sets of parents.  A block hash *)
(* is a natural number: hashes are only ever compared, byte by byte, so    *)
(* any total order will do.                                                *)
(***************************************************************************)
EXTENDS Integers, FiniteSets, Sequences, FiniteSetsExt, SequencesExt

CONSTANT K       \* GhostdagConfig.k

None == -1       \* Option::None where a hash is expected

\* The elements of a finite set, lowest first (SetToSortSeq enumerates functions).
InOrder(S, Below(_, _)) ==
    [i \in 1..Cardinality(S) |->
        CHOOSE x \in S : Cardinality({y \in S : Below(y, x)}) = i - 1]

-----------------------------------------------------------------------------
(* Dag *)

\* Dag::past_closure of every block of a DAG: the block and all its ancestors.
PastClosure(dag) ==
    LET past[b \in DOMAIN dag] == {b} \cup UNION {past[p] : p \in dag[b]}
    IN  [b \in DOMAIN dag |-> past[b]]

\* Dag::anticone: the blocks neither in the past nor in the future of b.  The
\* past closures are passed in, as every caller has them at hand.
Anticone(past, b) ==
    {c \in DOMAIN past \ {b} : c \notin past[b] /\ b \notin past[c]}

\* Dag::tips: the blocks no block names as a parent.
Tips(dag) == DOMAIN dag \ UNION {dag[b] : b \in DOMAIN dag}

-----------------------------------------------------------------------------
(* Ghostdag *)

\* Mutant of RankBelow: blue score decides before blue work.
RankBelowScoreFirst(col, a, b) ==
    \/ col[a].blueScore < col[b].blueScore
    \/ col[a].blueScore = col[b].blueScore /\ col[a].blueWork < col[b].blueWork
    \/ /\ col[a].blueScore = col[b].blueScore
       /\ col[a].blueWork = col[b].blueWork
       /\ a < b

\* Ghostdag::rank_key as a strict order: blue work, then blue score, then hash.
RankBelow(col, a, b) ==
    \/ col[a].blueWork < col[b].blueWork
    \/ /\ col[a].blueWork = col[b].blueWork
       /\ \/ col[a].blueScore < col[b].blueScore
          \/ col[a].blueScore = col[b].blueScore /\ a < b

\* Mutant of SelectAmong: min_by for max_by.
SelectAmongLowest(col, S) == CHOOSE b \in S : \A c \in S \ {b} : RankBelow(col, b, c)

\* Ghostdag::select_parent_among and select_virtual_tip: the block ranked highest.
SelectAmong(col, S) == CHOOSE b \in S : \A c \in S \ {b} : RankBelow(col, c, b)

\* Mutant of ScoreBelow: the hash alone decides.
ScoreBelowHashOnly(col, a, b) == a < b

\* The order by (blue score, hash), of a merge set while it is coloured and of
\* the blues of a tip when they are applied.
ScoreBelow(col, a, b) ==
    \/ col[a].blueScore < col[b].blueScore
    \/ col[a].blueScore = col[b].blueScore /\ a < b

\* Mutant of GreedyBlues: the anticone is not cut down to the blues so far.
GreedyBluesWholeAnticone(past, startBlues, sortedMergeSet) ==
    FoldLeft(LAMBDA blues, c :
               IF Cardinality(Anticone(past, c)) <= K THEN blues \cup {c} ELSE blues,
             startBlues, sortedMergeSet)

\* The greedy walk over the sorted merge set: a candidate turns blue when its
\* own anticone meets at most K of the blues so far.
GreedyBlues(past, startBlues, sortedMergeSet) ==
    FoldLeft(LAMBDA blues, c :
               IF Cardinality(Anticone(past, c) \cap blues) <= K
               THEN blues \cup {c} ELSE blues,
             startBlues, sortedMergeSet)

\* Ghostdag::add_block_with_work: the colouring of block b in a DAG that holds
\* it and in which all its parents are coloured.
AddBlockWithWork(dag, col, b, work) ==
    IF dag[b] = {}
    THEN [selectedParent |-> None, blues |-> {b}, mergesetBlues |-> {},
          blockWork |-> work, blueScore |-> 1, blueWork |-> work]
    ELSE LET past     == PastClosure(dag)
             sp       == SelectAmong(col, dag[b])
             base     == col[sp].blues \cup {sp}
             mergeSet == past[b] \ (past[sp] \cup {b})
             walk     == InOrder(mergeSet, LAMBDA x, y : ScoreBelow(col, x, y))
             blues    == GreedyBlues(past, base, walk)
             merged   == blues \cap mergeSet
         IN  [selectedParent |-> sp,
              blues          |-> blues \cup {b},
              mergesetBlues  |-> merged,
              blockWork      |-> work,
              blueScore      |-> Cardinality(blues \cup {b}),
              blueWork       |-> col[sp].blueWork + work
                                  + MapThenSumSet(LAMBDA m : col[m].blockWork, merged)]

\* Ghostdag::order_past_view and blue_order: the blues of a tip in apply order.
BlueOrder(col, tip) ==
    InOrder(col[tip].blues, LAMBDA x, y : ScoreBelow(col, x, y))

\* Ghostdag::snapshot: the durable form keeps the merge-set blues only.
Snapshot(c) == [selectedParent |-> c.selectedParent, blueScore |-> c.blueScore,
                blueWork |-> c.blueWork, blockWork |-> c.blockWork,
                mergesetBlues |-> c.mergesetBlues]

\* Mutant of ImportSnapshot: the selected parent's blues are not inherited.
ImportSnapshotMergesetOnly(col, b, snap) ==
    [selectedParent |-> snap.selectedParent,
     blues          |-> snap.mergesetBlues \cup {b},
     mergesetBlues  |-> snap.mergesetBlues,
     blockWork      |-> snap.blockWork,
     blueScore      |-> snap.blueScore,
     blueWork       |-> snap.blueWork]

\* Ghostdag::import_snapshot: the blue set is rebuilt from the selected parent's.
ImportSnapshot(col, b, snap) ==
    LET inherited == IF snap.selectedParent \in DOMAIN col
                     THEN col[snap.selectedParent].blues \cup {snap.selectedParent}
                     ELSE {}
    IN  [selectedParent |-> snap.selectedParent,
         blues          |-> inherited \cup snap.mergesetBlues \cup {b},
         mergesetBlues  |-> snap.mergesetBlues,
         blockWork      |-> snap.blockWork,
         blueScore      |-> snap.blueScore,
         blueWork       |-> snap.blueWork]

-----------------------------------------------------------------------------
(* Rebuilding from the store *)

\* The rounds of rebuild_dag_from_store: a block is ready in the round after the
\* last of its parents, so its round is the length of its longest path to genesis.
Round(dag) ==
    LET r[b \in DOMAIN dag] == IF dag[b] = {} THEN 0
                               ELSE 1 + Max({r[p] : p \in dag[b]})
    IN  [b \in DOMAIN dag |-> r[b]]

\* Blocks by round, each round sorted by hash.
RebuildOrder(dag) ==
    LET round == Round(dag)
    IN  InOrder(DOMAIN dag, LAMBDA x, y : \/ round[x] < round[y]
                                          \/ round[x] = round[y] /\ x < y)

\* hydrate_or_recolor: take the durable record, or colour the block anew in the
\* part of the DAG inserted so far.
HydrateOrRecolor(hdrs, recs, col, b) ==
    LET dag == [x \in DOMAIN col \cup {b} |-> hdrs[x].parents]
        c   == IF b \in DOMAIN recs THEN ImportSnapshot(col, b, recs[b])
               ELSE AddBlockWithWork(dag, col, b, hdrs[b].work)
    IN  [x \in DOMAIN col \cup {b} |-> IF x = b THEN c ELSE col[x]]

\* rebuild_dag_from_store: the colouring a restarted node works with.
RebuildColoring(hdrs, recs) ==
    FoldLeft(LAMBDA col, b : HydrateOrRecolor(hdrs, recs, col, b),
             [x \in {} |-> None],
             RebuildOrder([x \in DOMAIN hdrs |-> hdrs[x].parents]))
=============================================================================
