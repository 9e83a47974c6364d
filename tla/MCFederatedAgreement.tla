------------------------ MODULE MCFederatedAgreement ------------------------
(* Model checking of FederatedAgreement: a step adds at most MaxNew claims. *)
EXTENDS FederatedAgreement, TLC

CONSTANTS MaxNew,       \* bound: claims added by a step
          Threshold     \* every node requires this many of all nodes

ThresholdSlices == [n \in Node |-> {S \in SUBSET Node : Cardinality(S) >= Threshold}]

Symm == Permutations(Intact)

AtMostOne(S) == {{}} \cup {{x} : x \in S}

Grow(n) ==
    \E vp \in AtMostOne(Ballot \ votedPrepare[n]),
       ap \in AtMostOne(Ballot \ acceptedPrepared[n]),
       vc \in AtMostOne(Ballot \ votedCommit[n]),
       ac \in AtMostOne(Ballot \ acceptedCommit[n]),
       d  \in AtMostOne(Value \ decided[n]) :
        /\ Cardinality(vp) + Cardinality(ap) + Cardinality(vc)
              + Cardinality(ac) + Cardinality(d) \in 1..MaxNew
        /\ votedPrepare' = [votedPrepare EXCEPT ![n] = @ \cup vp]
        /\ acceptedPrepared' = [acceptedPrepared EXCEPT ![n] = @ \cup ap]
        /\ votedCommit' = [votedCommit EXCEPT ![n] = @ \cup vc]
        /\ acceptedCommit' = [acceptedCommit EXCEPT ![n] = @ \cup ac]
        /\ decided' = [decided EXCEPT ![n] = @ \cup d]
        /\ Step(n)

MCNext == \E n \in Intact : Grow(n)

MCSpec == Init /\ [][MCNext]_vars
=============================================================================
