------------------------- MODULE FederatedAgreement -------------------------
(***************************************************************************)
(* What the ballot protocol promises: agreement by federated voting.       *)
(*                                                                         *)
(* A node votes to prepare ballots, accepts ballots as prepared, votes to  *)
(* commit ballots, accepts commits, and decides a value.  Claims are only  *)
(* ever added.  A step is whatever one node adds while it handles one      *)
(* event, which may be several claims at once, each resting on claims of   *)
(* others and on what the node claimed before in the same step.            *)
(*                                                                         *)
(* Nodes outside Intact may claim anything; only the claims of intact      *)
(* nodes are state.  The module is the specification BallotNetwork is      *)
(* shown to implement, and the one agreement is proved of.                 *)
(***************************************************************************)
EXTENDS SCPBallots, FiniteSets

CONSTANTS Node,      \* all nodes
          Intact,    \* the nodes that follow the protocol
          Slices     \* [Node -> set of sets of nodes]: quorum slices

VBlocking(n, B) == \A S \in Slices[n] : S \cap B # {}

\* Q holds a slice of each intact member, except of those in D that stand on
\* their own because they decided.
Closed(Q, D) == \A m \in (Q \cap Intact) \ D : \E S \in Slices[m] : S \subseteq Q

QuorumFor(n, Q, D) == Closed(Q, D) /\ \E S \in Slices[n] : S \subseteq Q

ASSUME NodeAssumption ==
    /\ Intact \subseteq Node
    /\ Slices \in [Node -> SUBSET SUBSET Node]

\* Two quorums of intact nodes have an intact node in common.
ASSUME QuorumIntersection ==
    \A n1, n2 \in Intact : \A Q1, Q2 \in SUBSET Node :
        QuorumFor(n1, Q1, {}) /\ QuorumFor(n2, Q2, {}) => Q1 \cap Q2 \cap Intact # {}

\* The other nodes cannot block an intact one by themselves.
ASSUME IntactNotBlocked ==
    \A n \in Intact : \A B \in SUBSET Node : VBlocking(n, B) => B \cap Intact # {}

VARIABLES votedPrepare, acceptedPrepared, votedCommit, acceptedCommit,
          decided    \* [Intact -> set of values]

vars == <<votedPrepare, acceptedPrepared, votedCommit, acceptedCommit, decided>>

Init ==
    /\ votedPrepare = [n \in Intact |-> {}]
    /\ acceptedPrepared = [n \in Intact |-> {}]
    /\ votedCommit = [n \in Intact |-> {}]
    /\ acceptedCommit = [n \in Intact |-> {}]
    /\ decided = [n \in Intact |-> {}]

-----------------------------------------------------------------------------
(* The claims of a node. *)

\* Preparing a ballot aborts every lower ballot of another value.
Aborts(b, c) == Less(c, b) /\ ~ areBallotsCompatible(b, c)

\* A set of ballots stands for the lower ballots of the same values.
Covered(b, B) == \E a \in B : areBallotsLessAndCompatible(b, a)

\* A set of accepted commits stands for the higher ballots of the same values.
Committed(b, C) == \E c \in C : areBallotsLessAndCompatible(c, b)

SameValue(b, C) == \E c \in C : areBallotsCompatible(b, c)

VotesPrepare(m, b) == Covered(b, votedPrepare[m]) \/ SameValue(b, acceptedCommit[m])

AcceptsPrepared(m, b) == Covered(b, acceptedPrepared[m]) \/ Val(b) \in decided[m]

VotesCommit(m, b) == b \in votedCommit[m] \/ Committed(b, acceptedCommit[m])

AcceptsCommit(m, b) == Committed(b, acceptedCommit[m])

HasQuorum_noSlice(n, S, b) ==  \* mutant: the last test, of n's own quorum set, is missing
    \E Q \in SUBSET Node : \E D \in SUBSET Q :
        /\ Closed(Q, D)
        /\ (Q \cap Intact) \ D \subseteq S
        /\ \A d \in D \cap Intact : Val(b) \in decided[d]

\* S, with nodes that decided b's value, holds a quorum for n, as far as intact
\* nodes are concerned.
HasQuorum(n, S, b) ==
    \E Q \in SUBSET Node : \E D \in SUBSET Q :
        /\ QuorumFor(n, Q, D)
        /\ (Q \cap Intact) \ D \subseteq S
        /\ \A d \in D \cap Intact : Val(b) \in decided[d]

HasVBlocking(n, S) == \E B \in SUBSET Node : VBlocking(n, B) /\ B \cap Intact \subseteq S

Self(n, claims) == IF claims THEN {n} ELSE {}

-----------------------------------------------------------------------------
(* The claims node n may add in a step. *)

\* A new vote of n for b that n's commit votes leave it free to count for
\* itself: what they conflict with was aborted before this step.
FreeVote(n, b) ==
    \E v \in votedPrepare'[n] :
        /\ areBallotsLessAndCompatible(b, v)
        /\ \A c \in votedCommit'[n] :
              Aborts(v, c) => \E a \in acceptedPrepared[n] : Aborts(a, c)

MayAcceptPrepared(n, b) ==
    \/ HasVBlocking(n, {m \in Intact : AcceptsPrepared(m, b)})
    \/ HasQuorum(n, {m \in Intact : VotesPrepare(m, b) \/ AcceptsPrepared(m, b)}
                       \cup Self(n, FreeVote(n, b)), b)

\* Ballots n has accepted as prepared by the time it votes to commit.
PreparedFirst(n) ==
    {b \in acceptedPrepared'[n] : b \in acceptedPrepared[n] \/ MayAcceptPrepared(n, b)}

MayVoteCommit_anyVotes(n, c) ==  \* mutant: votes to prepare higher ballots are no obstacle
    HasQuorum(n, {m \in Intact : AcceptsPrepared(m, c)}
                    \cup Self(n, Covered(c, PreparedFirst(n))), c)

MayVoteCommit(n, c) ==
    /\ HasQuorum(n, {m \in Intact : AcceptsPrepared(m, c)}
                       \cup Self(n, Covered(c, PreparedFirst(n))), c)
    /\ \A b \in votedPrepare[n] : ~ Aborts(b, c)

MayAcceptCommit(n, c) ==
    \/ HasVBlocking(n, {m \in Intact : AcceptsCommit(m, c)})
    \/ HasQuorum(n, {m \in Intact : VotesCommit(m, c)} \cup Self(n, c \in votedCommit'[n]), c)

\* Commits accepted on the votes of others and of n; the range may then be
\* adjusted for the same value.
CommitFirst(n) ==
    {c \in acceptedCommit'[n] : c \in acceptedCommit[n] \/ MayAcceptCommit(n, c)}

MayDecide(n, x) ==
    \E c \in Ballot :
        /\ Val(c) = x
        /\ HasQuorum(n, {m \in Intact : AcceptsCommit(m, c)}
                           \cup Self(n, Committed(c, acceptedCommit'[n])), c)

Step(n) ==
    /\ votedPrepare' \in [Intact -> SUBSET Ballot]
    /\ acceptedPrepared' \in [Intact -> SUBSET Ballot]
    /\ votedCommit' \in [Intact -> SUBSET Ballot]
    /\ acceptedCommit' \in [Intact -> SUBSET Ballot]
    /\ decided' \in [Intact -> SUBSET Value]
    /\ \A m \in Intact :
          /\ votedPrepare[m] \subseteq votedPrepare'[m]
          /\ acceptedPrepared[m] \subseteq acceptedPrepared'[m]
          /\ votedCommit[m] \subseteq votedCommit'[m]
          /\ acceptedCommit[m] \subseteq acceptedCommit'[m]
          /\ decided[m] \subseteq decided'[m]
          /\ m # n => /\ votedPrepare'[m] = votedPrepare[m]
                      /\ acceptedPrepared'[m] = acceptedPrepared[m]
                      /\ votedCommit'[m] = votedCommit[m]
                      /\ acceptedCommit'[m] = acceptedCommit[m]
                      /\ decided'[m] = decided[m]
    \* a vote to prepare respects commit votes that are not aborted
    /\ \A b \in votedPrepare'[n], c \in votedCommit'[n] :
          Aborts(b, c) => \E a \in acceptedPrepared'[n] : Aborts(a, c)
    /\ \A b \in acceptedPrepared'[n] :
          b \in PreparedFirst(n) \/ SameValue(b, acceptedCommit'[n])
    /\ \A c \in votedCommit'[n] \ votedCommit[n] : MayVoteCommit(n, c)
    /\ \A c \in acceptedCommit'[n] : c \in CommitFirst(n) \/ SameValue(c, CommitFirst(n))
    /\ \A x \in decided'[n] \ decided[n] : MayDecide(n, x)

Next == \E n \in Intact : Step(n)

Spec == Init /\ [][Next]_vars

-----------------------------------------------------------------------------

\* Intact nodes decide at most one value between them
\* (BallotProtocol::setConfirmCommit's valueExternalized).
Agreement ==
    \A m, n \in Intact : \A x \in decided[m], y \in decided[n] : x = y

-----------------------------------------------------------------------------
(* The inductive invariant.  Its parts are stated of functions vp, vc and   *)
(* ap from intact nodes to votes to prepare, votes to commit and ballots    *)
(* accepted as prepared, so that they can be used in the middle of a step.  *)

\* A quorum voted to commit c.
QuorumVoted(vc, c) ==
    \E n \in Intact : \E Q \in SUBSET Node :
        QuorumFor(n, Q, {}) /\ \A m \in Q \cap Intact : c \in vc[m]

\* r is a reason for a value to be chosen: a quorum voted to commit it, and it
\* is accepted as prepared.
Root(vc, ap, r) == QuorumVoted(vc, r) /\ \E k \in Intact : Covered(r, ap[k])

HasRoot(vc, ap, x) == \E r \in Ballot : Val(r) = x /\ Root(vc, ap, r)

\* m did not and cannot vote to commit c.
Blocked(vp, vc, m, c) == c \notin vc[m] /\ \E b \in vp[m] : Aborts(b, c)

QuorumBlocked(vp, vc, c) ==
    \E n \in Intact : \E Q \in SUBSET Node :
        QuorumFor(n, Q, {}) /\ \A m \in Q \cap Intact : Blocked(vp, vc, m, c)

\* Nothing accepted as prepared aborts what a quorum voted to commit.
NothingAborts(vc, ap) ==
    \A c \in Ballot : QuorumVoted(vc, c) =>
        \A k \in Intact : \A b \in ap[k] : ~ Aborts(b, c)

\* What is voted for commit is accepted as prepared, or its value has a root.
Backed(vc, ap) ==
    \A m \in Intact : \A c \in vc[m] :
        (\E k \in Intact : Covered(c, ap[k])) \/ HasRoot(vc, ap, Val(c))

\* What a ballot accepted as prepared aborts can never be committed: a quorum
\* is blocked, or another value has a root below it.
AbortedForGood(vp, vc, ap) ==
    \A k \in Intact : \A b \in ap[k] : \A c \in Ballot : Aborts(b, c) =>
        \/ QuorumBlocked(vp, vc, c)
        \/ \E r \in Ballot : Root(vc, ap, r) /\ Less(r, c) /\ Val(r) # Val(c)

\* A vote to prepare conflicts with a vote to commit only after an abort.
VotesAgree ==
    \A n \in Intact : \A b \in votedPrepare[n], c \in votedCommit[n] :
        Aborts(b, c) => \E a \in acceptedPrepared[n] : Aborts(a, c)

CommitsHaveRoots ==
    \A n \in Intact : \A c \in acceptedCommit[n] :
        HasRoot(votedCommit, acceptedPrepared, Val(c))

DecisionsHaveRoots ==
    \A n \in Intact : \A x \in decided[n] : HasRoot(votedCommit, acceptedPrepared, x)

TypeOK ==
    /\ votedPrepare \in [Intact -> SUBSET Ballot]
    /\ acceptedPrepared \in [Intact -> SUBSET Ballot]
    /\ votedCommit \in [Intact -> SUBSET Ballot]
    /\ acceptedCommit \in [Intact -> SUBSET Ballot]
    /\ decided \in [Intact -> SUBSET Value]

\* The inductive invariant: claims of intact nodes that may still count rest on
\* quorums of votes that nothing can contradict any more.
IInv ==
    /\ TypeOK
    /\ NothingAborts(votedCommit, acceptedPrepared)
    /\ Backed(votedCommit, acceptedPrepared)
    /\ AbortedForGood(votedPrepare, votedCommit, acceptedPrepared)
    /\ VotesAgree
    /\ CommitsHaveRoots
    /\ DecisionsHaveRoots
=============================================================================
