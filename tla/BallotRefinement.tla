-------------------------- MODULE BallotRefinement --------------------------
(***************************************************************************)
(* BallotNetwork implements FederatedAgreement.  The claims of a node are  *)
(* read off the own statements it ever counted (claims), with the meaning  *)
(* votesPrepare, hasPreparedBallot, votesCommit and commitPredicate give   *)
(* to a statement.                                                         *)
(***************************************************************************)
EXTENDS BallotNetwork

Of(n, types) == {st \in claims[n] : st.type \in types}

ballotsVoted == [n \in Honest |-> {st.ballot : st \in Of(n, {"PREPARE"})} \ {Null}]

ballotsPrepared ==
    [n \in Honest |->
        UNION {{st.prepared, st.preparedPrime} : st \in claims[n]} \ {Null}]

\* A PREPARE votes to commit nC..nH.
commitsVoted ==
    [n \in Honest |->
        UNION {{<<k, Val(st.ballot)>> : k \in (IF st.nC = 0 THEN {} ELSE st.nC..st.nH)} :
                  st \in Of(n, {"PREPARE"})}]

commitsAccepted ==
    [n \in Honest |->
        {<<st.nC, Val(st.ballot)>> : st \in Of(n, {"CONFIRM", "EXTERNALIZE"})}]

Abstract == INSTANCE FederatedAgreement WITH
    Intact <- Honest,
    Slices <- slicesOf,
    votedPrepare <- ballotsVoted,
    acceptedPrepared <- ballotsPrepared,
    votedCommit <- commitsVoted,
    acceptedCommit <- commitsAccepted,
    decided <- [n \in Honest |-> node[n].externalized]

\* Every handler of every node, whatever was delivered, lost or restored before
\* it, adds only claims that federated voting allows.
ImplementsFederatedAgreement == Abstract!Spec
=============================================================================
