----------------------------- MODULE QuorumSets -----------------------------
(***************************************************************************)
(* Quorum sets and the set tests federated voting is built on              *)
(* (scp/LocalNode.cpp, scp/QuorumSetUtils.cpp).                            *)
(*                                                                         *)
(* A quorum set is a record [threshold, validators, innerSets] whose two   *)
(* lists are sequences, as in the XDR type: a validator may be repeated in *)
(* a set that is not sane, and the order matters to getNodeWeight.  The    *)
(* loops of the code that count down a threshold are written as a count    *)
(* compared with the threshold.                                            *)
(***************************************************************************)
EXTENDS Naturals, Sequences, FiniteSets, FiniteSetsExt, SequencesExt

\* The indices of a list whose element satisfies a test.
Hits(list, Test(_)) == {i \in DOMAIN list : Test(list[i])}

Entries(q) == Len(q.validators) + Len(q.innerSets)


RECURSIVE forAllNodes(_)
forAllNodes(q) ==
    ToSet(q.validators)
        \cup UNION {forAllNodes(q.innerSets[i]) : i \in DOMAIN q.innerSets}

\* threshold is unsigned: a threshold of 0 wraps on the first decrement and is
\* never reached, so such a set has no slice.
RECURSIVE isQuorumSlice(_, _)
isQuorumSlice(q, S) ==
    /\ q.threshold >= 1
    /\ q.threshold <= Cardinality(Hits(q.validators, LAMBDA n : n \in S))
                    + Cardinality(Hits(q.innerSets, LAMBDA i : isQuorumSlice(i, S)))

\* The countdown is tested only after a hit, so at least one hit is needed even
\* when the threshold exceeds the number of entries.
RECURSIVE isVBlocking(_, _)
isVBlocking_offByOne(q, S) ==     \* mutant: the 1 of leftTillBlock is lost
    LET blocked == Cardinality(Hits(q.validators, LAMBDA n : n \in S))
                 + Cardinality(Hits(q.innerSets, LAMBDA i : isVBlocking(i, S)))
    IN  q.threshold >= 1 /\ blocked >= 1 /\ blocked + q.threshold >= Entries(q)
isVBlocking(q, S) ==
    LET blocked == Cardinality(Hits(q.validators, LAMBDA n : n \in S))
                 + Cardinality(Hits(q.innerSets, LAMBDA i : isVBlocking(i, S)))
    IN  /\ q.threshold >= 1
        /\ blocked >= 1
        /\ blocked + q.threshold >= 1 + Entries(q)

\* The loop of isQuorum: drop the nodes whose own quorum set is not satisfied
\* by the remaining ones, until none is dropped.  qf maps a node to its quorum
\* set; a node that is not in its domain has no quorum set we know of.
RECURSIVE quorumFixpoint(_, _)
quorumFixpoint_onePass(P, qf) ==  \* mutant: nodes are dropped only once
    {n \in P : n \in DOMAIN qf /\ isQuorumSlice(qf[n], P)}
quorumFixpoint(P, qf) ==
    LET kept == {n \in P : n \in DOMAIN qf /\ isQuorumSlice(qf[n], P)}
    IN  IF kept = P THEN P ELSE quorumFixpoint(kept, qf)

isQuorum(q, P, qf) == isQuorumSlice(q, quorumFixpoint(P, qf))

\* excluded is the node left out: {}, or the one that asks.  It neither fails nor
\* counts as failed.  Entries that the other nodes outside "nodes" block already are
\* counted off; then validators are taken before inner sets, and inner sets by the
\* number of nodes it takes to block them.  Among equals the code follows list order.
RECURSIVE findClosestVBlocking(_, _, _)
findClosestVBlocking(q, nodes, excluded) ==
    LET others  == SelectSeq(q.validators, LAMBDA n : n \notin excluded)
        in      == SelectSeq(others, LAMBDA n : n \in nodes)
        inner   == [i \in DOMAIN q.innerSets |->
                       findClosestVBlocking(q.innerSets[i], nodes, excluded)]
        open    == SortSeq(SelectSeq(inner, LAMBDA v : v # <<>>),
                           LAMBDA v, w : Len(v) < Len(w))
        blocked == Len(others) - Len(in) + Len(q.innerSets) - Len(open)
        left    == (1 + Entries(q)) - q.threshold - blocked
        taken   == IF Len(in) > left THEN SubSeq(in, 1, left) ELSE in
        more    == IF Len(open) > left - Len(taken)
                   THEN SubSeq(open, 1, left - Len(taken)) ELSE open
    IN  IF blocked + q.threshold >= 1 + Entries(q)
        THEN <<>>
        ELSE taken \o FlattenSeq(more)

\* bigDivide with ROUND_UP.
DivideUp(a, b, d) == (a * b + d - 1) \div d

\* maxWeight stands for UINT64_MAX.  Rounding up keeps the weight of a node that
\* occurs in an inner set above 0, the value that means "not found".
RECURSIVE getNodeWeight(_, _, _)
getNodeWeight(n, q, maxWeight) ==
    LET leafW(i) == getNodeWeight(n, q.innerSets[i], maxWeight)
        found    == {i \in DOMAIN q.innerSets : leafW(i) # 0}
    IN  IF n \in ToSet(q.validators)
        THEN DivideUp(maxWeight, q.threshold, Entries(q))
        ELSE IF found # {}
        THEN DivideUp(leafW(Min(found)), q.threshold, Entries(q))
        ELSE 0

\* The search of isNodeInQuorum from the local node: known maps a node to the
\* sets of quorum sets its statements name, of which those that are available
\* are in "have".
RECURSIVE quorumSearch(_, _, _, _, _)
quorumSearch(node, backlog, visited, known, have) ==
    LET c     == CHOOSE n \in backlog : TRUE
        sets  == IF c \in DOMAIN known THEN known[c] ELSE {}
        next  == UNION {forAllNodes(q) : q \in sets \cap have}
        maybe == c \notin DOMAIN known \/ ~ (sets \subseteq have)
        rest  == quorumSearch(node, (backlog \ {c}) \cup (next \ (visited \cup {c})),
                              visited \cup {c}, known, have)
    IN  IF backlog = {} THEN "FALSE"
        ELSE IF c = node THEN "TRUE"
        ELSE IF maybe /\ rest = "FALSE" THEN "MAYBE"
        ELSE rest

isNodeInQuorum(local, node, known, have) ==
    quorumSearch(node, {local}, {}, known, have)

-----------------------------------------------------------------------------
(* QuorumSetUtils.cpp *)

\* The nodes of q in the order the checker visits them, repetitions included.
RECURSIVE knownNodes(_)
knownNodes(q) ==
    q.validators \o FlattenSeq([i \in DOMAIN q.innerSets |-> knownNodes(q.innerSets[i])])

RECURSIVE checkSanity(_, _, _)
checkSanity(q, extraChecks, depth) ==
    /\ depth <= 2
    /\ q.threshold >= 1
    /\ q.threshold <= Entries(q)
    /\ extraChecks => q.threshold >= Entries(q) - q.threshold + 1
    /\ \A i \in DOMAIN q.innerSets : checkSanity(q.innerSets[i], extraChecks, depth + 1)

isQuorumSetSane(q, extraChecks) ==
    /\ checkSanity(q, extraChecks, 0)
    /\ IsInjective(knownNodes(q))
    /\ Len(knownNodes(q)) \in 1..1000

IsSingleton(q) == q.threshold = 1 /\ Len(q.validators) = 1 /\ q.innerSets = <<>>

\* remove is the set of nodes to take out: {} or the local node alone.  The
\* threshold is unsigned and wraps below 0; a set is only ever normalised with
\* a removal when it is sane, and then the removed node occurs once.
RECURSIVE normalizeQSet(_, _)
normalizeQSet_dropsMerged(q, remove) ==  \* mutant: merged validators are lost
    LET kept  == SelectSeq(q.validators, LAMBDA n : n \notin remove)
        inner == [i \in DOMAIN q.innerSets |-> normalizeQSet(q.innerSets[i], remove)]
    IN  [threshold  |-> q.threshold - (Len(q.validators) - Len(kept)),
         validators |-> kept,
         innerSets  |-> SelectSeq(inner, LAMBDA i : ~ IsSingleton(i))]
normalizeQSet(q, remove) ==
    LET kept   == SelectSeq(q.validators, LAMBDA n : n \notin remove)
        t      == q.threshold - (Len(q.validators) - Len(kept))
        inner  == [i \in DOMAIN q.innerSets |-> normalizeQSet(q.innerSets[i], remove)]
        merged == SelectSeq(inner, IsSingleton)
        v      == kept \o [i \in DOMAIN merged |-> merged[i].validators[1]]
        i2     == SelectSeq(inner, LAMBDA i : ~ IsSingleton(i))
    IN  IF t = 1 /\ v = <<>> /\ Len(i2) = 1
        THEN i2[1]
        ELSE [threshold |-> t, validators |-> v, innerSets |-> i2]

=============================================================================
