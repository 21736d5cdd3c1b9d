------------------------------ MODULE Ghostdag ------------------------------
(***************************************************************************)
(* The block DAG and its GHOSTDAG colouring, as kept in memory by the node *)
(* (consensus/src/dag.rs, ghostdag.rs), and their reconstruction from the  *)
(* durable store at start-up (node-bin/src/admit/mod.rs).                  *)
(*                                                                         *)
(* The order of hashes is independent of the order of arrival.             *)
(***************************************************************************)
EXTENDS GhostdagOps

CONSTANTS
    Genesis,     \* hash of block 0
    GenesisWork, \* PoW contribution of block 0
    Candidates,  \* headers that may arrive: [id, parents, work] records
    MaxParents,  \* ConsensusLimits.max_block_parents
    MaxStray     \* bound: candidates left behind by a failing read, at a time

\* A header is the part of a block the colouring depends on.  No two headers
\* share a hash, and the work of a header is at least 1 (`block_work.max(1)`).
ASSUME GhostdagAssumption ==
    /\ Genesis \in Nat /\ GenesisWork \in Nat \ {0}
    /\ K \in Nat /\ MaxParents \in Nat \ {0} /\ MaxStray \in Nat
    /\ \A h \in Candidates : /\ h.id \in Nat \ {Genesis}
                             /\ h.parents \subseteq Nat
                             /\ h.work \in Nat \ {0}

VARIABLES
    parents,   \* Dag::parents, a function from inserted blocks to sets of blocks
    coloring,  \* Ghostdag::coloring, one record per coloured block
    candidate, \* block coloured in memory and not yet durable, or None
    stray,     \* blocks in memory whose admission failed and which are not durable
    headers,   \* durable headers (survive pruning): hash -> [parents, work]
    records    \* durable GhostdagRecord per block (Warm column family)

vars == <<parents, coloring, candidate, stray, headers, records>>

-----------------------------------------------------------------------------
(* The state machine *)

Init ==
    LET dag == [b \in {Genesis} |-> {}]
        c   == AddBlockWithWork(dag, [x \in {} |-> None], Genesis, GenesisWork)
    IN  /\ parents = dag
        /\ coloring = [b \in {Genesis} |-> c]
        /\ candidate = None
        /\ stray = {}
        /\ headers = [b \in {Genesis} |-> [parents |-> {}, work |-> GenesisWork]]
        /\ records = [b \in {Genesis} |-> Snapshot(c)]

\* admit_block up to the in-memory colouring of the candidate.
Color(h) ==
    /\ candidate = None
    /\ h.id \notin DOMAIN parents
    /\ h.parents # {} /\ Cardinality(h.parents) <= MaxParents
    /\ h.parents \subseteq DOMAIN parents
    /\ parents' = [b \in DOMAIN parents \cup {h.id} |->
                     IF b = h.id THEN h.parents ELSE parents[b]]
    /\ coloring' = [b \in DOMAIN coloring \cup {h.id} |->
                     IF b = h.id THEN AddBlockWithWork(parents', coloring, b, h.work)
                     ELSE coloring[b]]
    /\ candidate' = h.id
    /\ UNCHANGED <<stray, headers, records>>

\* persist_block_atomic: header and colouring record in one batch.  A stray block
\* has no body in the store, so validate_blue_order_utxo refuses a candidate it is
\* blue for; a candidate that names it as a parent and leaves it red passes.
Persist ==
    /\ candidate # None
    /\ coloring[candidate].blues \cap stray = {}
    /\ headers' = [b \in DOMAIN headers \cup {candidate} |->
                     IF b = candidate
                     THEN [parents |-> parents[b], work |-> coloring[b].blockWork]
                     ELSE headers[b]]
    /\ records' = [b \in DOMAIN records \cup {candidate} |->
                     IF b = candidate THEN Snapshot(coloring[b]) ELSE records[b]]
    /\ candidate' = None
    /\ UNCHANGED <<parents, coloring, stray>>

\* Mutant of Rollback: the colouring of the rejected block stays behind.
RollbackDagOnly ==
    /\ candidate # None
    /\ parents' = [b \in DOMAIN parents \ {candidate} |-> parents[b]]
    /\ candidate' = None
    /\ UNCHANGED <<coloring, stray, headers, records>>

\* A rejection between colouring and persisting: Ghostdag::remove, then
\* Dag::remove_tip, which refuses a block that has dependents.
Rollback ==
    /\ candidate # None
    /\ coloring' = [b \in DOMAIN coloring \ {candidate} |-> coloring[b]]
    /\ parents' = IF candidate \in Tips(parents)
                  THEN [b \in DOMAIN parents \ {candidate} |-> parents[b]]
                  ELSE parents
    /\ candidate' = None
    /\ UNCHANGED <<stray, headers, records>>

\* The one rejection that undoes nothing: virtual_tip fails to read the store, and
\* `?` returns with the candidate still in the DAG and coloured.
ReadFails ==
    /\ candidate # None
    /\ Cardinality(stray) < MaxStray
    /\ stray' = stray \cup {candidate}
    /\ candidate' = None
    /\ UNCHANGED <<parents, coloring, headers, records>>

\* The sets of records that may be absent when a rebuild starts.  A data directory from
\* before records existed lacks those of its blocks, and with a block those of its
\* parents; a rebuild cut short by a crash has written the records of the first
\* blocks of its order.
Lackable ==
    LET order == RebuildOrder([b \in DOMAIN headers |-> headers[b].parents])
        prefixes == {ToSet(SubSeq(order, 1, n)) : n \in 0..Len(order)}
    IN  {lost \in SUBSET DOMAIN records :
            \E redone \in prefixes :
                /\ lost \cap redone = {}
                /\ \A b \in lost : headers[b].parents \subseteq lost \cup redone}

\* A restart, after a stop or a crash: memory is rebuilt from the store, and
\* hydrate_or_recolor writes the absent records anew.  A durable block with a
\* parent that never became durable stops the rebuild ("missing header/body"):
\* such a node does not start.
Restart ==
    /\ \A b \in DOMAIN headers : headers[b].parents \subseteq DOMAIN headers
    /\ \E lost \in Lackable :
          LET recs == [b \in DOMAIN records \ lost |-> records[b]]
          IN  /\ coloring' = RebuildColoring(headers, recs)
              /\ records' = [b \in DOMAIN headers |->
                               IF b \in DOMAIN recs THEN recs[b] ELSE Snapshot(coloring'[b])]
    /\ parents' = [b \in DOMAIN headers |-> headers[b].parents]
    /\ candidate' = None
    /\ stray' = {}
    /\ UNCHANGED headers

Next ==
    \/ \E h \in Candidates : Color(h)
    \/ Persist
    \/ Rollback
    \/ ReadFails
    \/ Restart

Spec == Init /\ [][Next]_vars

-----------------------------------------------------------------------------
(* Correctness *)

Hash == {Genesis} \cup {h.id : h \in Candidates}

\* The shape of the in-memory and durable state: memory holds the durable blocks,
\* the candidate and what a failing read left behind, nothing else, and exactly the
\* blocks of the DAG are coloured, so no rejection forgets one of the two.
TypeOK ==
    /\ DOMAIN parents \subseteq Hash
    /\ \A b \in DOMAIN parents : parents[b] \subseteq DOMAIN parents
    /\ DOMAIN coloring = DOMAIN parents
    /\ DOMAIN records = DOMAIN headers
    /\ DOMAIN parents = DOMAIN headers \cup stray \cup ({candidate} \ {None})
    /\ stray \cap DOMAIN headers = {} /\ Cardinality(stray) <= MaxStray
    /\ candidate \in (Hash \ (DOMAIN headers \cup stray)) \cup {None}
    /\ \A b \in DOMAIN coloring :
          /\ coloring[b].selectedParent \in parents[b] \cup {None}
          /\ coloring[b].blues \subseteq DOMAIN parents
          /\ coloring[b].blueScore = Cardinality(coloring[b].blues)

\* The colouring is arrival-order independent (the claim of
\* rebuild_dag_from_store): colouring a block again, now that the DAG has grown
\* around it, gives what it was given on arrival, although
\* add_block_with_work measures anticones in the whole DAG of the moment.
ColoringIgnoresArrivalOrder ==
    \A b \in DOMAIN parents :
        coloring[b] = AddBlockWithWork(parents, coloring, b, coloring[b].blockWork)

\* Blue work grows strictly along every parent edge, not only along the selected
\* one: what add_block_with_work's choice of selected parent guarantees.
WorkGrowsAlongParents ==
    \A b \in DOMAIN parents : \A p \in parents[b] :
        coloring[p].blueWork < coloring[b].blueWork

\* select_virtual_tip looks at the tips of the DAG only, yet no coloured block
\* ranks higher: neither one below the tips nor one a rejection forgot to uncolour.
VirtualTipRanksHighest ==
    SelectAmong(coloring, Tips(parents)) = SelectAmong(coloring, DOMAIN coloring)

\* The selected-parent chain of a tip is applied, ancestor first: a block takes over
\* all the blues of its selected parent, that parent included, and blue_order puts
\* the parent before the block.
SelectedChainAppliesInOrder ==
    \A b \in DOMAIN parents :
        LET sp == coloring[b].selectedParent
        IN  sp # None => /\ coloring[sp].blues \cup {sp} \subseteq coloring[b].blues
                         /\ ScoreBelow(coloring, sp, b)

\* Once a block is durable no step changes its colouring: not the arrival of
\* other blocks, not a rollback, and not a restart, whatever part of the records
\* hydrate_or_recolor finds in the store.
DurableColoringNeverChanges ==
    [][\A b \in DOMAIN headers : coloring'[b] = coloring[b]]_vars

\* The comment on validate_blue_order_utxo: every newly accepted blue is applied,
\* "then the candidate".
CandidateIsAppliedLast ==
    \A b \in DOMAIN parents : Last(BlueOrder(coloring, b)) = b
=============================================================================
