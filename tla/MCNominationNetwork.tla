------------------------ MODULE MCNominationNetwork -------------------------
(* Small networks for the model checking of NominationNetwork. *)
EXTENDS NominationNetwork, QuorumSets, TLC

CONSTANT n1, n2, n3

KofN(k) ==
    [n \in Node |-> [threshold |-> k, validators |-> SetToSeq(Node), innerSets |-> <<>>]]

\* Two of three.
QSet == KofN(2)

SlicesOf   == [n \in Node |-> {S \in SUBSET Node : isQuorumSlice(QSet[n], S)}]
VBlockedBy == [n \in Node |-> {S \in SUBSET Node : isVBlocking(QSet[n], S)}]
WeightsOf  == [n \in Node |->
    LET q == normalizeQSet(QSet[n], {n})
    IN  [m \in forAllNodes(q) |-> getNodeWeight(m, q, UINT64_MAX)]]

ASSUME QuorumsBlockAssumption == QuorumsBlock

\* n2 proposes another value than the others; after a restart the value is new.
Proposals == [n \in Node |-> IF n = n2 THEN <<2, 3>> ELSE <<1, 3>>]

\* n2 finds value 3 invalid, and 2 a valid variation.
PickyValid == [n \in Node |-> IF n = n2 THEN Value \ {3} ELSE Value]
PickyVariants == [n \in Node |-> [v \in Value |-> IF n = n2 /\ v = 3 THEN 2 ELSE 0]]

\* Every node's weight is enough in every round; the leaders are n1 and n3 in
\* turn.
Hashes == [r \in 1..Rounds |-> [n \in Node |-> 0]]
LedBy(leaders) == [r \in 1..Rounds |-> [n \in Node |-> IF n = leaders[r] THEN 9 ELSE 1]]
Turns13 == LedBy(<<n1, n3>>)

ValueHashes == [r \in 0..Rounds |-> [v \in Value |-> v]]
=============================================================================
