----------------------------- MODULE MCGhostdag -----------------------------
(* Instances of Ghostdag for TLC. *)
EXTENDS Ghostdag

\* Every header over the hashes 1 and 3 to 5: any parents, light, and for the
\* lowest hash also heavy, so that work and hash rank blocks differently.  Hash 2 is
\* the genesis block, so hashes below and above it occur.
AllCandidates ==
    {h \in [id: {1, 3, 4, 5}, parents: (SUBSET (1..5)) \ {{}}, work: {1, 3}] :
        h.id # 1 => h.work = 1}

\* A light chain 1 to 3 and a heavy chain 4, 5 from genesis, merged by 7 and 6.
TwoBranches ==
    {[id |-> 1, parents |-> {0}, work |-> 1], [id |-> 2, parents |-> {1}, work |-> 1],
     [id |-> 3, parents |-> {2}, work |-> 1], [id |-> 4, parents |-> {0}, work |-> 1],
     [id |-> 5, parents |-> {4}, work |-> 9], [id |-> 7, parents |-> {3, 4}, work |-> 1],
     [id |-> 6, parents |-> {5, 7}, work |-> 1]}
=============================================================================
