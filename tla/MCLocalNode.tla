---------------------------- MODULE MCLocalNode -----------------------------
(* Small universes of quorum sets for the model checking of LocalNode. *)
EXTENDS LocalNode

CONSTANTS n1, n2, n3, n4

\* The algorithms only compare nodes for equality, so nodes may appear in this
\* order in the sets whose shape is of interest.
Nodes == <<n1, n2, n3, n4>>

Size(q) == Cardinality(forAllNodes(q))

\* Sets with the given validators and inner sets, at every threshold.
Build(v, i) ==
    {[threshold |-> t, validators |-> v, innerSets |-> i] : t \in 1..(Len(v) + Len(i))}

\* Sets over the nodes that follow the first k: without inner sets, and with one
\* or two, some of them singletons to be merged.
FlatAfter(k) == UNION {Build(SubSeq(Nodes, k + 1, j), <<>>) : j \in (k + 1)..4}

NestedAfter(k) ==
    UNION {UNION {Build(SubSeq(Nodes, k + 1, j), <<i>>)
                    \cup UNION {Build(SubSeq(Nodes, k + 1, j), <<i, l>>) :
                                    l \in FlatAfter(j + Size(i))} :
                    i \in FlatAfter(j)} :
           j \in k..4}

\* An inner set that has inner sets: the greatest depth that is sane.
DeepQSets ==
    UNION {UNION {Build(SubSeq(Nodes, 1, j), <<i>>) : i \in NestedAfter(j)} : j \in 0..1}

\* Flat sets of any of three nodes.
FlatQSets == UNION {Build(SetToSeq(S), <<>>) : S \in SUBSET {n1, n2, n3}}

AllQSets == FlatQSets \cup FlatAfter(0) \cup NestedAfter(0) \cup DeepQSets

\* Every local set without statements, and every view of three nodes with a flat
\* local set.
FlatViews ==
    \/ envQSet = <<>> /\ updateQuorumSet
    \/ /\ mQSet \in FlatQSets
       /\ \E n \in {n1, n2, n3}, q \in StmtQSets : recordStatement(n, q)

SmallSpec == Init /\ [][FlatViews]_vars
=============================================================================
