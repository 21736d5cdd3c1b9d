---------------------------- MODULE MCChainState ----------------------------
(* Instances of ChainState for TLC. *)
EXTENDS ChainState

G == INSTANCE GhostdagOps WITH K <- 1

\* p and q are premined.  t1 and t2 both spend p; t3 spends the output of t1 and
\* t4 spends q, each paying a fee of 1.
MCTransfers == {"t1", "t2", "t3", "t4"}
MCIns  == [t1 |-> {"p"}, t2 |-> {"p"}, t3 |-> {"o1"}, t4 |-> {"q"}]
MCOuts == [t1 |-> [o1 |-> 2], t2 |-> [o2 |-> 2], t3 |-> [o3 |-> 1], t4 |-> [o4 |-> 0]]
MCPremine == [p |-> 2, q |-> 1]

MCBlocks == 0..3
Mined == MCBlocks \ {0}

\* All DAGs over the mined blocks; a block without other parents is on genesis.
MCDags ==
    LET edges == {e \in Mined \X Mined : e[1] # e[2]}
        up(E) == [b \in MCBlocks |-> IF b = 0 THEN {}
                    ELSE IF \E e \in E : e[1] = b THEN {e[2] : e \in {x \in E : x[1] = b}} ELSE {0}]
        acyclic(E) == \E p \in {f \in [Mined -> Mined] : \A a, b \in Mined : a # b => f[a] # f[b]} :
                         \A e \in E : p[e[2]] < p[e[1]]
    IN  {up(E) : E \in {X \in SUBSET edges : acyclic(X)}}

\* The colouring of a DAG with given works.
Coloring(dag, work) ==
    G!RebuildColoring([b \in MCBlocks |-> [parents |-> dag[b], work |-> work[b]]],
                      [b \in {} |-> 0])

\* A DAG and its colouring, as the fields of a world.
Colored(dag, col) ==
    [parents |-> dag,
     order   |-> [b \in MCBlocks |-> G!BlueOrder(col, b)],
     score   |-> [b \in MCBlocks |-> col[b].blueScore],
     rank    |-> [b \in MCBlocks |-> Cardinality({c \in MCBlocks : G!RankBelow(col, c, b)})]]

Works == {[b \in MCBlocks |-> 1], [b \in MCBlocks |-> IF b = 1 THEN 3 ELSE 1]}

ColoredDags == {Colored(d, Coloring(d, w)) : d \in MCDags, w \in Works}

\* Every coloured DAG with every one of the bodies.
With(colored, bodies) ==
    {[parents |-> c.parents, order |-> c.order, score |-> c.score, rank |-> c.rank, body |-> bs] :
        c \in colored, bs \in bodies}

CoinbaseOf == <<"c0", "c1", "c2", "c3">>

\* The body of block b.
Body(b, claim, txs) == [coinbase |-> CoinbaseOf[b + 1], claim |-> claim, txs |-> txs]

BodyOf(shape) == [b \in MCBlocks |-> IF b = 0 THEN Body(0, 0, <<>>) ELSE shape[b]]

\* Bodies: with and without transfers, with fees claimed, claiming nothing, and
\* with a coinbase that other blocks may carry too.
Shapes(b) ==
    {Body(b, 1, <<>>), Body(b, 1, <<"t1">>), Body(b, 1, <<"t2">>), Body(b, 2, <<"t3">>),
     Body(b, 0, <<"t1", "t3">>), Body(b, 2, <<"t4">>), Body(b, 0, <<>>),
     [coinbase |-> "twin", claim |-> 1, txs |-> <<>>]}
AllBodies == {BodyOf(<<x, y, z>>) : x \in Shapes(1), y \in Shapes(2), z \in Shapes(3)}

AllWorlds == With(ColoredDags, AllBodies)

\* Bodies in which a block can spend what a sibling made.
SpendingBodies ==
    {BodyOf(<<x, y, z>>) : x \in {Body(1, 1, <<>>), Body(1, 1, <<"t2">>)},
                           y \in {Body(2, 1, <<"t1">>), Body(2, 1, <<"t4">>)},
                           z \in {Body(3, 2, <<"t3">>), Body(3, 1, <<"t1">>)}}

\* Bodies without transfers.
PlainWorlds ==
    With(ColoredDags, {BodyOf(<<Body(1, 1, <<>>), Body(2, 1, <<>>), Body(3, 1, <<>>)>>)})

\* Blocks of equal work, block 1 on genesis, and one spending body: blocks 1 and 2
\* spend the same output and block 3 pays a fee.
RivalWorlds ==
    With({Colored(d, Coloring(d, [b \in MCBlocks |-> 1])) : d \in {x \in MCDags : x[1] = {0}}},
         {BodyOf(<<Body(1, 1, <<"t1">>), Body(2, 1, <<"t2">>), Body(3, 2, <<"t4">>)>>)})

SpendingWorlds == With(ColoredDags, SpendingBodies)

\* Bodies with chained spends, double spends, fees and a shared coinbase.
Twin == [coinbase |-> "twin", claim |-> 1, txs |-> <<>>]
MixedBodies ==
    {BodyOf(<<x, y, z>>) : x \in {Body(1, 1, <<"t2">>), Body(1, 1, <<>>), Twin},
                           y \in {Body(2, 1, <<"t1">>), Body(2, 2, <<"t4">>), Twin},
                           z \in {Body(3, 2, <<"t3">>), Body(3, 0, <<"t1", "t3">>), Body(3, 2, <<"t4">>)}}

\* Worlds in which two orders share no block after their common prefix.
ForkWorlds ==
    {w \in With(ColoredDags, MixedBodies) : \A a, b \in MCBlocks :
        LET n == CommonPrefixLen(w.order[a], w.order[b])
        IN  {w.order[a][i] : i \in (n + 1)..Len(w.order[a])}
                \cap {w.order[b][i] : i \in (n + 1)..Len(w.order[b])} = {}}
=============================================================================
