---------------------- MODULE FederatedAgreementProofs ----------------------
(***************************************************************************)
(* Agreement of FederatedAgreement, for any nodes, slices, values and      *)
(* ballots that satisfy the assumptions of that module.                    *)
(***************************************************************************)
EXTENDS FederatedAgreement, TLAPS

-----------------------------------------------------------------------------
(* Ballots. *)

\* A ballot is a pair of natural numbers.
LEMMA BallotParts ==
    ASSUME NEW b \in Ballot
    PROVE  b = <<b[1], b[2]>> /\ b[1] \in Nat /\ b[2] \in Nat
<1>1. Value \subseteq Nat
  BY ValueAssumption DEF ValueAssumption
<1>2. 1..UINT32_MAX \subseteq Nat
  BY MaxAssumption DEF MaxAssumption
<1>3. b = <<b[1], b[2]>> /\ b[1] \in 1..UINT32_MAX /\ b[2] \in Value
  BY DEF Ballot
<1> QED BY <1>1, <1>2, <1>3

\* compareBallots is total: two ballots that are not ordered are the same.
LEMMA BallotsTotal ==
    ASSUME NEW a \in Ballot, NEW b \in Ballot
    PROVE  Less(a, b) \/ Less(b, a) \/ a = b
<1>1. a[1] < b[1] \/ b[1] < a[1] \/ a[1] = b[1]
  BY BallotParts
<1>2. a[2] < b[2] \/ b[2] < a[2] \/ a[2] = b[2]
  BY BallotParts
<1>3. (a[1] = b[1] /\ a[2] = b[2]) => a = b
  BY BallotParts
<1> QED BY <1>1, <1>2, <1>3 DEF Less

\* What a ballot aborts, higher ballots of its value abort too.
LEMMA AbortsUp ==
    ASSUME NEW a \in Ballot, NEW b \in Ballot, NEW c \in Ballot,
           Aborts(b, c), areBallotsLessAndCompatible(b, a)
    PROVE  Aborts(a, c)
<1>1. Less(c, a)
  BY BallotParts DEF Aborts, areBallotsLessAndCompatible, LessEq, Less
<1>2. ~ areBallotsCompatible(a, c)
  BY DEF Aborts, areBallotsLessAndCompatible, areBallotsCompatible
<1> QED BY <1>1, <1>2 DEF Aborts

\* Preparing the higher of two ballots of different values aborts the lower.
LEMMA AbortsLower ==
    ASSUME NEW a \in Ballot, NEW b \in Ballot, Less(a, b), Val(a) # Val(b)
    PROVE  Aborts(b, a)
BY DEF Aborts, areBallotsCompatible, Val

-----------------------------------------------------------------------------
(* Quorums. *)

\* A quorum of an intact node has an intact member.
LEMMA QuorumHasIntact ==
    ASSUME NEW n \in Intact, NEW Q \in SUBSET Node, QuorumFor(n, Q, {})
    PROVE  \E m \in Intact : m \in Q
BY QuorumIntersection

\* A quorum found among the claims is a quorum by itself, unless an intact node
\* decided the value and stands on its own.
LEMMA QuorumCases ==
    ASSUME NEW n \in Intact, NEW S, NEW b, HasQuorum(n, S, b)
    PROVE  \/ \E Q \in SUBSET Node : QuorumFor(n, Q, {}) /\ Q \cap Intact \subseteq S
           \/ \E d \in Intact : Val(b) \in decided[d]
<1>1. PICK Q \in SUBSET Node : \E D \in SUBSET Q :
          /\ QuorumFor(n, Q, D)
          /\ (Q \cap Intact) \ D \subseteq S
          /\ \A d \in D \cap Intact : Val(b) \in decided[d]
  BY DEF HasQuorum
<1>2. PICK D \in SUBSET Q :
          /\ QuorumFor(n, Q, D)
          /\ (Q \cap Intact) \ D \subseteq S
          /\ \A d \in D \cap Intact : Val(b) \in decided[d]
  BY <1>1
<1>3. CASE D \cap Intact = {}
  <2>1. (Q \cap Intact) \ D = Q \cap Intact /\ (Q \cap Intact) \ {} = Q \cap Intact
    BY <1>3
  <2>2. QuorumFor(n, Q, {})
    BY <1>2, <2>1 DEF QuorumFor, Closed
  <2> QED BY <1>2, <2>1, <2>2
<1>4. CASE D \cap Intact # {}
  BY <1>2, <1>4
<1> QED BY <1>3, <1>4

\* Nobody can be blocked for a ballot that a quorum voted to commit.
LEMMA VotedNotBlocked ==
    ASSUME NEW vp, NEW vc, NEW c, QuorumVoted(vc, c), QuorumBlocked(vp, vc, c)
    PROVE  FALSE
<1>1. PICK n1 \in Intact, Q1 \in SUBSET Node :
          QuorumFor(n1, Q1, {}) /\ \A m \in Q1 \cap Intact : c \in vc[m]
  BY DEF QuorumVoted
<1>2. PICK n2 \in Intact, Q2 \in SUBSET Node :
          QuorumFor(n2, Q2, {}) /\ \A m \in Q2 \cap Intact : Blocked(vp, vc, m, c)
  BY DEF QuorumBlocked
<1>3. PICK m \in Intact : m \in Q1 /\ m \in Q2
  BY <1>1, <1>2, QuorumIntersection
<1> QED BY <1>1, <1>2, <1>3 DEF Blocked

-----------------------------------------------------------------------------
(* Roots. *)

\* A root stays one when claims are added.
LEMMA RootMonotone ==
    ASSUME NEW vc, NEW ap, NEW vc2, NEW ap2, NEW r,
           \A m \in Intact : vc[m] \subseteq vc2[m] /\ ap[m] \subseteq ap2[m],
           Root(vc, ap, r)
    PROVE  Root(vc2, ap2, r)
<1>1. QuorumVoted(vc2, r)
  BY DEF Root, QuorumVoted
<1>2. \E k \in Intact : Covered(r, ap2[k])
  BY DEF Root, Covered
<1> QED BY <1>1, <1>2 DEF Root

\* A value that has a root keeps it when claims are added.
LEMMA HasRootMonotone ==
    ASSUME NEW vc, NEW ap, NEW vc2, NEW ap2, NEW x,
           \A m \in Intact : vc[m] \subseteq vc2[m] /\ ap[m] \subseteq ap2[m],
           HasRoot(vc, ap, x)
    PROVE  HasRoot(vc2, ap2, x)
<1>1. PICK r \in Ballot : Val(r) = x /\ Root(vc, ap, r)
  BY DEF HasRoot
<1>2. Root(vc2, ap2, r)
  BY <1>1, RootMonotone
<1> QED BY <1>1, <1>2 DEF HasRoot

\* Two roots have the same value.
LEMMA RootsAgree ==
    ASSUME NEW vc, NEW ap \in [Intact -> SUBSET Ballot], NothingAborts(vc, ap),
           NEW x, NEW y, HasRoot(vc, ap, x), HasRoot(vc, ap, y)
    PROVE  x = y
<1>1. ASSUME NEW r \in Ballot, NEW s \in Ballot, Root(vc, ap, r), Root(vc, ap, s),
             Less(r, s), Val(r) # Val(s)
      PROVE  FALSE
  <2>1. PICK k \in Intact : Covered(s, ap[k])
    BY <1>1 DEF Root
  <2>2. PICK a \in ap[k] : areBallotsLessAndCompatible(s, a)
    BY <2>1 DEF Covered
  <2>3. a \in Ballot
    BY <2>2
  <2>4. Aborts(a, r)
    BY <1>1, <2>2, <2>3, AbortsLower, AbortsUp
  <2> QED BY <1>1, <2>2, <2>4 DEF NothingAborts, Root
<1>2. PICK r \in Ballot : Val(r) = x /\ Root(vc, ap, r)
  BY DEF HasRoot
<1>3. PICK s \in Ballot : Val(s) = y /\ Root(vc, ap, s)
  BY DEF HasRoot
<1> QED BY <1>1, <1>2, <1>3, BallotsTotal

\* A ballot that a quorum voted to commit has the value of the roots.
LEMMA VotedHasRoot ==
    ASSUME NEW vc, NEW ap \in [Intact -> SUBSET Ballot], Backed(vc, ap),
           NEW c \in Ballot, QuorumVoted(vc, c)
    PROVE  HasRoot(vc, ap, Val(c))
<1>1. PICK n \in Intact, Q \in SUBSET Node :
          QuorumFor(n, Q, {}) /\ \A m \in Q \cap Intact : c \in vc[m]
  BY DEF QuorumVoted
<1>2. PICK m \in Intact : m \in Q
  BY <1>1, QuorumHasIntact
<1>3. (\E k \in Intact : Covered(c, ap[k])) \/ HasRoot(vc, ap, Val(c))
  BY <1>1, <1>2 DEF Backed
<1>4. CASE \E k \in Intact : Covered(c, ap[k])
  <2>1. Root(vc, ap, c)
    BY <1>4 DEF Root
  <2> QED BY <2>1 DEF HasRoot
<1> QED BY <1>3, <1>4

\* A value with a root aborts a ballot of another value, or is rooted below it.
LEMMA RootAborts ==
    ASSUME NEW vc, NEW ap \in [Intact -> SUBSET Ballot],
           NEW x, HasRoot(vc, ap, x), NEW c \in Ballot, x # Val(c)
    PROVE  \/ \E k \in Intact : \E a \in ap[k] : Aborts(a, c)
           \/ \E r \in Ballot : Root(vc, ap, r) /\ Less(r, c) /\ Val(r) # Val(c)
<1>1. PICK r \in Ballot : Val(r) = x /\ Root(vc, ap, r)
  BY DEF HasRoot
<1>2. CASE Less(r, c)
  BY <1>1, <1>2
<1>3. CASE Less(c, r)
  <2>1. PICK k \in Intact : Covered(r, ap[k])
    BY <1>1 DEF Root
  <2>2. PICK a \in ap[k] : areBallotsLessAndCompatible(r, a)
    BY <2>1 DEF Covered
  <2>3. a \in Ballot
    BY <2>2
  <2>4. Aborts(a, c)
    BY <1>1, <1>3, <2>2, <2>3, AbortsLower, AbortsUp
  <2> QED BY <2>2, <2>4
<1> QED BY <1>1, <1>2, <1>3, BallotsTotal

-----------------------------------------------------------------------------
(* A step of node n.  Mid(n) is what is accepted as prepared before n votes *)
(* to commit.                                                               *)

Mid(n) ==
    [k \in Intact |-> IF k = n THEN PreparedFirst(n) ELSE acceptedPrepared[k]]

\* Within a step claims are only added, and first those that rest on votes to
\* prepare.
LEMMA Growth ==
    ASSUME IInv, NEW n \in Intact, Step(n)
    PROVE  /\ Mid(n) \in [Intact -> SUBSET Ballot]
           /\ \A m \in Intact :
                 /\ votedPrepare[m] \subseteq votedPrepare'[m]
                 /\ acceptedPrepared[m] \subseteq Mid(n)[m]
                 /\ Mid(n)[m] \subseteq acceptedPrepared'[m]
                 /\ votedCommit[m] \subseteq votedCommit'[m]
           /\ \A m \in Intact : \A b \in Mid(n)[m] :
                 b \in acceptedPrepared[m] \/ MayAcceptPrepared(n, b)
<1>1. \A m \in Intact :
         /\ votedPrepare[m] \subseteq votedPrepare'[m]
         /\ acceptedPrepared[m] \subseteq acceptedPrepared'[m]
         /\ votedCommit[m] \subseteq votedCommit'[m]
         /\ acceptedPrepared'[m] \subseteq Ballot
  BY DEF Step
<1>2. \A m \in Intact : Mid(n)[m] = IF m = n THEN PreparedFirst(n) ELSE acceptedPrepared[m]
  BY DEF Mid
<1>3. acceptedPrepared[n] \subseteq PreparedFirst(n) /\ PreparedFirst(n) \subseteq acceptedPrepared'[n]
  BY <1>1 DEF PreparedFirst
<1>4. \A b \in PreparedFirst(n) : b \in acceptedPrepared[n] \/ MayAcceptPrepared(n, b)
  BY DEF PreparedFirst
<1>5. \A m \in Intact : acceptedPrepared[m] \subseteq Mid(n)[m] /\ Mid(n)[m] \subseteq acceptedPrepared'[m]
  BY <1>1, <1>2, <1>3
<1>6. Mid(n) \in [Intact -> SUBSET Ballot]
  BY <1>1, <1>5 DEF Mid
<1> QED BY <1>1, <1>2, <1>4, <1>5, <1>6

\* A node blocked for c stays so: a vote to commit needs votes that allow it.
LEMMA BlockedStays ==
    ASSUME IInv, NEW n \in Intact, Step(n), NEW c,
           QuorumBlocked(votedPrepare, votedCommit, c)
    PROVE  QuorumBlocked(votedPrepare', votedCommit', c)
<1>1. ASSUME NEW m \in Intact, Blocked(votedPrepare, votedCommit, m, c)
      PROVE  Blocked(votedPrepare', votedCommit', m, c)
  <2>1. PICK b \in votedPrepare[m] : Aborts(b, c)
    BY <1>1 DEF Blocked
  <2>2. b \in votedPrepare'[m]
    BY <2>1, Growth
  <2>3. m # n => votedCommit'[m] = votedCommit[m]
    BY DEF Step
  <2>4. c \in votedCommit'[n] \ votedCommit[n] => \A v \in votedPrepare[n] : ~ Aborts(v, c)
    BY DEF Step, MayVoteCommit
  <2>5. c \notin votedCommit'[m]
    BY <1>1, <2>1, <2>3, <2>4 DEF Blocked
  <2> QED BY <2>1, <2>2, <2>5 DEF Blocked
<1> QED BY <1>1 DEF QuorumBlocked

\* What a member of a quorum for b says about a ballot c that b aborts.
LEMMA ClaimCases ==
    ASSUME IInv, NEW m \in Intact, NEW b \in Ballot, NEW c \in Ballot, Aborts(b, c),
           VotesPrepare(m, b) \/ AcceptsPrepared(m, b)
    PROVE  \/ \E k \in Intact : \E a \in acceptedPrepared[k] : Aborts(a, c)
           \/ HasRoot(votedCommit, acceptedPrepared, Val(b))
           \/ Blocked(votedPrepare, votedCommit, m, c)
<1>1. CASE Covered(b, acceptedPrepared[m])
  BY <1>1, AbortsUp DEF Covered, IInv, TypeOK
<1>2. CASE Val(b) \in decided[m]
  BY <1>2 DEF IInv, DecisionsHaveRoots
<1>3. CASE SameValue(b, acceptedCommit[m])
  BY <1>3 DEF SameValue, areBallotsCompatible, Val, IInv, CommitsHaveRoots
<1>4. CASE Covered(b, votedPrepare[m])
  <2>1. PICK v \in votedPrepare[m] : Aborts(v, c)
    BY <1>4, AbortsUp DEF Covered, IInv, TypeOK
  <2>2. CASE c \in votedCommit[m]
    BY <2>1, <2>2 DEF IInv, VotesAgree
  <2>3. CASE c \notin votedCommit[m]
    BY <2>1, <2>3 DEF Blocked
  <2> QED BY <2>2, <2>3
<1> QED BY <1>1, <1>2, <1>3, <1>4 DEF VotesPrepare, AcceptsPrepared

\* A ballot n may accept as prepared aborts c only if c was aborted already,
\* another value has a root, or a quorum is blocked.
LEMMA AcceptCases ==
    ASSUME IInv, NEW n \in Intact, Step(n), NEW b \in Ballot, MayAcceptPrepared(n, b),
           NEW c \in Ballot, Aborts(b, c)
    PROVE  \/ \E k \in Intact : \E a \in acceptedPrepared[k] : Aborts(a, c)
           \/ HasRoot(votedCommit, acceptedPrepared, Val(b))
           \/ QuorumBlocked(votedPrepare', votedCommit', c)
<1> DEFINE Done == \/ \E k \in Intact : \E a \in acceptedPrepared[k] : Aborts(a, c)
                   \/ HasRoot(votedCommit, acceptedPrepared, Val(b))
<1>1. CASE HasVBlocking(n, {m \in Intact : AcceptsPrepared(m, b)})
  <2>1. PICK m \in Intact : AcceptsPrepared(m, b)
    BY <1>1, IntactNotBlocked DEF HasVBlocking
  <2>2. CASE Covered(b, acceptedPrepared[m])
    BY <2>2, AbortsUp DEF Covered, IInv, TypeOK
  <2>3. CASE Val(b) \in decided[m]
    BY <2>3 DEF IInv, DecisionsHaveRoots
  <2> QED BY <2>1, <2>2, <2>3 DEF AcceptsPrepared
<1>2. CASE HasQuorum(n, {m \in Intact : VotesPrepare(m, b) \/ AcceptsPrepared(m, b)}
                            \cup Self(n, FreeVote(n, b)), b)
  <2>1. CASE \E d \in Intact : Val(b) \in decided[d]
    BY <2>1 DEF IInv, DecisionsHaveRoots
  <2>2. ASSUME NEW Q \in SUBSET Node, QuorumFor(n, Q, {}),
               Q \cap Intact \subseteq
                  {m \in Intact : VotesPrepare(m, b) \/ AcceptsPrepared(m, b)}
                     \cup Self(n, FreeVote(n, b)),
               ~ Done
        PROVE  QuorumBlocked(votedPrepare', votedCommit', c)
    <3>1. ASSUME NEW m \in Q \cap Intact
          PROVE  Blocked(votedPrepare', votedCommit', m, c)
      <4>1. CASE VotesPrepare(m, b) \/ AcceptsPrepared(m, b)
        <5>1. Blocked(votedPrepare, votedCommit, m, c)
          BY <2>2, <3>1, <4>1, ClaimCases
        <5>2. m # n => votedCommit'[m] = votedCommit[m]
          BY <3>1 DEF Step
        <5>3. c \in votedCommit'[n] \ votedCommit[n] =>
                 \A v \in votedPrepare[n] : ~ Aborts(v, c)
          BY DEF Step, MayVoteCommit
        <5> QED BY <3>1, <5>1, <5>2, <5>3, Growth DEF Blocked
      <4>2. CASE m = n /\ FreeVote(n, b)
        <5>1. PICK v \in votedPrepare'[n] :
                 /\ areBallotsLessAndCompatible(b, v)
                 /\ \A d \in votedCommit'[n] :
                       Aborts(v, d) => \E a \in acceptedPrepared[n] : Aborts(a, d)
          BY <4>2 DEF FreeVote
        <5>2. v \in Ballot
          BY <5>1 DEF Step
        <5>3. Aborts(v, c)
          BY <5>1, <5>2, AbortsUp
        <5>4. c \notin votedCommit'[n]
          BY <2>2, <5>1, <5>3
        <5> QED BY <4>2, <5>1, <5>3, <5>4 DEF Blocked
      <4> QED BY <2>2, <3>1, <4>1, <4>2 DEF Self
    <3> QED BY <2>2, <3>1 DEF QuorumBlocked
  <2> QED BY <1>2, <2>1, <2>2, QuorumCases
<1> QED BY <1>1, <1>2 DEF MayAcceptPrepared

-----------------------------------------------------------------------------
(* The parts of the invariant along a step, in the order in which a handler *)
(* adds its claims.                                                         *)

\* n accepts nothing that aborts what a quorum had voted to commit.
LEMMA AcceptKeepsVoted ==
    ASSUME IInv, NEW n \in Intact, Step(n)
    PROVE  NothingAborts(votedCommit, Mid(n))
<1> SUFFICES ASSUME NEW c \in Ballot, QuorumVoted(votedCommit, c),
                    NEW k \in Intact, NEW b \in Mid(n)[k], Aborts(b, c)
             PROVE  FALSE
  BY DEF NothingAborts
<1>1. \A j \in Intact : \A a \in acceptedPrepared[j] : ~ Aborts(a, c)
  BY DEF IInv, NothingAborts
<1>2. b \in Ballot /\ MayAcceptPrepared(n, b)
  BY <1>1, Growth
<1>3. ~ HasRoot(votedCommit, acceptedPrepared, Val(b))
  <2>1. HasRoot(votedCommit, acceptedPrepared, Val(c))
    BY VotedHasRoot DEF IInv, TypeOK
  <2>2. Val(b) # Val(c)
    BY DEF Aborts, areBallotsCompatible, Val
  <2> QED BY <2>1, <2>2, RootsAgree DEF IInv, TypeOK
<1>4. QuorumBlocked(votedPrepare', votedCommit', c)
  BY <1>1, <1>2, <1>3, AcceptCases
<1>5. QuorumVoted(votedCommit', c)
  BY Growth DEF QuorumVoted
<1> QED BY <1>4, <1>5, VotedNotBlocked

\* What is accepted before n votes aborts only what cannot be committed.
LEMMA AcceptAbortsForGood ==
    ASSUME IInv, NEW n \in Intact, Step(n),
           NEW k \in Intact, NEW b \in Mid(n)[k], NEW c \in Ballot, Aborts(b, c)
    PROVE  \/ QuorumBlocked(votedPrepare', votedCommit', c)
           \/ \E r \in Ballot : /\ Root(votedCommit, acceptedPrepared, r)
                                /\ Less(r, c) /\ Val(r) # Val(c)
<1>1. CASE \E j \in Intact : \E a \in acceptedPrepared[j] : Aborts(a, c)
  <2>1. \/ QuorumBlocked(votedPrepare, votedCommit, c)
        \/ \E r \in Ballot : /\ Root(votedCommit, acceptedPrepared, r)
                             /\ Less(r, c) /\ Val(r) # Val(c)
    BY <1>1 DEF IInv, AbortedForGood
  <2> QED BY <2>1, BlockedStays
<1>2. CASE /\ ~ \E j \in Intact : \E a \in acceptedPrepared[j] : Aborts(a, c)
           /\ b \in Ballot /\ MayAcceptPrepared(n, b)
  <2>1. CASE HasRoot(votedCommit, acceptedPrepared, Val(b))
    <3>1. Val(b) # Val(c)
      BY DEF Aborts, areBallotsCompatible, Val
    <3> QED BY <1>2, <2>1, <3>1, RootAborts DEF IInv, TypeOK
  <2> QED BY <1>2, <2>1, AcceptCases
<1> QED BY <1>1, <1>2, Growth

\* A ballot n votes to commit is covered by what is accepted by then, or its
\* value has a root.
LEMMA NewVoteBacked ==
    ASSUME IInv, NEW n \in Intact, Step(n), NEW c \in votedCommit'[n] \ votedCommit[n]
    PROVE  \/ \E k \in Intact : Covered(c, Mid(n)[k])
           \/ HasRoot(votedCommit, acceptedPrepared, Val(c))
<1>1. HasQuorum(n, {m \in Intact : AcceptsPrepared(m, c)}
                      \cup Self(n, Covered(c, PreparedFirst(n))), c)
  BY DEF Step, MayVoteCommit
<1>2. CASE \E d \in Intact : Val(c) \in decided[d]
  BY <1>2 DEF IInv, DecisionsHaveRoots
<1>3. ASSUME NEW Q \in SUBSET Node, QuorumFor(n, Q, {}),
             Q \cap Intact \subseteq {m \in Intact : AcceptsPrepared(m, c)}
                                        \cup Self(n, Covered(c, PreparedFirst(n)))
      PROVE  \/ \E k \in Intact : Covered(c, Mid(n)[k])
             \/ HasRoot(votedCommit, acceptedPrepared, Val(c))
  <2>1. PICK m \in Intact : m \in Q
    BY <1>3, QuorumHasIntact
  <2>2. CASE m = n /\ Covered(c, PreparedFirst(n))
    BY <2>2 DEF Mid
  <2>3. CASE Covered(c, acceptedPrepared[m])
    BY <2>3, Growth DEF Covered
  <2>4. CASE Val(c) \in decided[m]
    BY <2>4 DEF IInv, DecisionsHaveRoots
  <2> QED BY <1>3, <2>1, <2>2, <2>3, <2>4 DEF Self, AcceptsPrepared
<1> QED BY <1>1, <1>2, <1>3, QuorumCases

\* The votes of n complete no quorum for a ballot that is aborted.
LEMMA VoteKeepsAborted ==
    ASSUME IInv, NEW n \in Intact, Step(n)
    PROVE  NothingAborts(votedCommit', Mid(n))
<1> SUFFICES ASSUME NEW c \in Ballot, QuorumVoted(votedCommit', c),
                    NEW k \in Intact, NEW b \in Mid(n)[k], Aborts(b, c)
             PROVE  FALSE
  BY DEF NothingAborts
<1>1. CASE QuorumVoted(votedCommit, c)
  BY <1>1, AcceptKeepsVoted DEF NothingAborts
<1>2. CASE ~ QuorumVoted(votedCommit, c)
  <2>1. c \in votedCommit'[n] \ votedCommit[n]
    <3>1. \A m \in Intact : m # n => votedCommit'[m] = votedCommit[m]
      BY DEF Step
    <3> QED BY <1>2, <3>1 DEF QuorumVoted
  <2>2. PICK r \in Ballot : /\ Root(votedCommit, acceptedPrepared, r)
                            /\ Less(r, c) /\ Val(r) # Val(c)
    BY AcceptAbortsForGood, VotedNotBlocked
  <2>3. CASE \E j \in Intact : Covered(c, Mid(n)[j])
    <3> PICK j \in Intact : Covered(c, Mid(n)[j])
      BY <2>3
    <3>1. PICK a \in Mid(n)[j] : areBallotsLessAndCompatible(c, a)
      BY DEF Covered
    <3>2. a \in Ballot
      BY <3>1, Growth
    <3>3. Aborts(a, r)
      BY <2>2, <3>1, <3>2, AbortsLower, AbortsUp
    <3> QED BY <2>2, <3>1, <3>3, AcceptKeepsVoted DEF NothingAborts, Root
  <2>4. CASE HasRoot(votedCommit, acceptedPrepared, Val(c))
    <3>1. HasRoot(votedCommit, acceptedPrepared, Val(r))
      BY <2>2 DEF HasRoot
    <3> QED BY <2>2, <2>4, <3>1, RootsAgree DEF IInv, TypeOK
  <2> QED BY <2>1, <2>3, <2>4, NewVoteBacked
<1> QED BY <1>1, <1>2

\* A root before the step is a root after n voted.
LEMMA OldRoot ==
    ASSUME IInv, NEW n \in Intact, Step(n), NEW x,
           HasRoot(votedCommit, acceptedPrepared, x)
    PROVE  HasRoot(votedCommit', Mid(n), x)
BY Growth, HasRootMonotone

\* Every commit vote after the step is backed as VotesAgree asks: the old ones
\* because roots and quorums stay, the new ones by NewVoteBacked.
LEMMA VotesBacked ==
    ASSUME IInv, NEW n \in Intact, Step(n)
    PROVE  Backed(votedCommit', Mid(n))
<1> SUFFICES ASSUME NEW m \in Intact, NEW c \in votedCommit'[m]
             PROVE  \/ \E k \in Intact : Covered(c, Mid(n)[k])
                    \/ HasRoot(votedCommit', Mid(n), Val(c))
  BY DEF Backed
<1>1. CASE c \in votedCommit[m]
  <2>1. \/ \E k \in Intact : Covered(c, acceptedPrepared[k])
        \/ HasRoot(votedCommit, acceptedPrepared, Val(c))
    BY <1>1 DEF IInv, Backed
  <2>2. ASSUME NEW k \in Intact, Covered(c, acceptedPrepared[k])
        PROVE  Covered(c, Mid(n)[k])
    BY <2>2, Growth DEF Covered
  <2> QED BY <2>1, <2>2, OldRoot
<1>2. CASE c \notin votedCommit[m]
  <2>1. m = n
    BY <1>2 DEF Step
  <2> QED BY <1>2, <2>1, NewVoteBacked, OldRoot
<1> QED BY <1>1, <1>2

\* Commits accepted on votes have a root, and so do the ones that only adjust
\* the range of counters.
LEMMA AcceptedCommitsRooted ==
    ASSUME IInv, NEW n \in Intact, Step(n), NEW m \in Intact, NEW c \in acceptedCommit'[m]
    PROVE  HasRoot(votedCommit', Mid(n), Val(c))
<1>1. ASSUME NEW k \in Intact, NEW d \in acceptedCommit[k]
      PROVE  HasRoot(votedCommit', Mid(n), Val(d))
  BY <1>1, OldRoot DEF IInv, CommitsHaveRoots
<1>2. ASSUME NEW k \in Intact, NEW d, AcceptsCommit(k, d)
      PROVE  HasRoot(votedCommit', Mid(n), Val(d))
  BY <1>1, <1>2 DEF AcceptsCommit, Committed, areBallotsLessAndCompatible,
                    areBallotsCompatible, Val
<1>3. ASSUME NEW d \in acceptedCommit'[n], MayAcceptCommit(n, d)
      PROVE  HasRoot(votedCommit', Mid(n), Val(d))
  <2>1. CASE HasVBlocking(n, {k \in Intact : AcceptsCommit(k, d)})
    BY <1>2, <2>1, IntactNotBlocked DEF HasVBlocking
  <2>2. CASE HasQuorum(n, {k \in Intact : VotesCommit(k, d)}
                             \cup Self(n, d \in votedCommit'[n]), d)
    <3>1. CASE \E j \in Intact : Val(d) \in decided[j]
      BY <3>1, OldRoot DEF IInv, DecisionsHaveRoots
    <3>2. ASSUME NEW Q \in SUBSET Node, QuorumFor(n, Q, {}),
                 Q \cap Intact \subseteq {k \in Intact : VotesCommit(k, d)}
                                            \cup Self(n, d \in votedCommit'[n])
          PROVE  HasRoot(votedCommit', Mid(n), Val(d))
      <4>1. CASE \E k \in Intact : Committed(d, acceptedCommit[k])
        BY <1>2, <4>1 DEF AcceptsCommit
      <4>2. CASE ~ \E k \in Intact : Committed(d, acceptedCommit[k])
        <5>1. \A k \in Q \cap Intact : d \in votedCommit'[k]
          BY <3>2, <4>2, Growth DEF VotesCommit, Self
        <5>2. QuorumVoted(votedCommit', d)
          BY <3>2, <5>1 DEF QuorumVoted
        <5>3. d \in Ballot
          BY <1>3 DEF Step
        <5> QED BY <5>2, <5>3, VotesBacked, VotedHasRoot, Growth
      <4> QED BY <4>1, <4>2
    <3> QED BY <2>2, <3>1, <3>2, QuorumCases
  <2> QED BY <1>3, <2>1, <2>2 DEF MayAcceptCommit
<1>4. ASSUME NEW d \in CommitFirst(n)
      PROVE  HasRoot(votedCommit', Mid(n), Val(d))
  BY <1>1, <1>3, <1>4 DEF CommitFirst
<1>5. CASE m = n
  BY <1>4, <1>5 DEF Step, SameValue, areBallotsCompatible, Val
<1>6. CASE m # n
  BY <1>1, <1>6 DEF Step
<1> QED BY <1>5, <1>6

\* What is accepted as prepared by the end of the step is accepted on votes, or
\* has the value of a root.
LEMMA PreparedCases ==
    ASSUME IInv, NEW n \in Intact, Step(n), NEW k \in Intact, NEW b \in acceptedPrepared'[k]
    PROVE  b \in Mid(n)[k] \/ HasRoot(votedCommit', Mid(n), Val(b))
<1>1. CASE k = n
  <2>1. b \in PreparedFirst(n) \/ SameValue(b, acceptedCommit'[n])
    BY <1>1 DEF Step
  <2>2. CASE b \in PreparedFirst(n)
    BY <1>1, <2>2 DEF Mid
  <2>3. CASE SameValue(b, acceptedCommit'[n])
    BY <2>3, AcceptedCommitsRooted DEF SameValue, areBallotsCompatible, Val
  <2> QED BY <2>1, <2>2, <2>3
<1>2. CASE k # n
  BY <1>2 DEF Step, Mid
<1> QED BY <1>1, <1>2

\* Nothing accepted as prepared in the step aborts a ballot that a quorum
\* voted to commit.
LEMMA NothingAbortsStep ==
    ASSUME IInv, NEW n \in Intact, Step(n)
    PROVE  NothingAborts(votedCommit', acceptedPrepared')
<1> SUFFICES ASSUME NEW c \in Ballot, QuorumVoted(votedCommit', c),
                    NEW k \in Intact, NEW b \in acceptedPrepared'[k], Aborts(b, c)
             PROVE  FALSE
  BY DEF NothingAborts
<1>1. CASE b \in Mid(n)[k]
  BY <1>1, VoteKeepsAborted DEF NothingAborts
<1>2. CASE HasRoot(votedCommit', Mid(n), Val(b))
  <2>1. HasRoot(votedCommit', Mid(n), Val(c))
    BY VotesBacked, VotedHasRoot, Growth
  <2>2. Val(b) = Val(c)
    BY <1>2, <2>1, RootsAgree, VoteKeepsAborted, Growth
  <2> QED BY <2>2 DEF Aborts, areBallotsCompatible, Val
<1> QED BY <1>1, <1>2, PreparedCases

\* What is accepted as prepared after the step aborts only ballots that can
\* never be committed.
LEMMA AbortedForGoodStep ==
    ASSUME IInv, NEW n \in Intact, Step(n)
    PROVE  AbortedForGood(votedPrepare', votedCommit', acceptedPrepared')
<1> DEFINE Good(c) ==
      \/ QuorumBlocked(votedPrepare', votedCommit', c)
      \/ \E r \in Ballot : /\ Root(votedCommit', acceptedPrepared', r)
                           /\ Less(r, c) /\ Val(r) # Val(c)
<1>1. ASSUME NEW k \in Intact, NEW b \in Mid(n)[k], NEW c \in Ballot, Aborts(b, c)
      PROVE  Good(c)
  <2>1. \A r : Root(votedCommit, acceptedPrepared, r) => Root(votedCommit', acceptedPrepared', r)
    BY Growth, RootMonotone
  <2> QED BY <1>1, <2>1, AcceptAbortsForGood
<1>2. ASSUME NEW b, HasRoot(votedCommit', Mid(n), Val(b)), NEW c \in Ballot, Aborts(b, c)
      PROVE  Good(c)
  <2>1. Val(b) # Val(c)
    BY <1>2 DEF Aborts, areBallotsCompatible, Val
  <2>2. \A r : Root(votedCommit', Mid(n), r) => Root(votedCommit', acceptedPrepared', r)
    BY Growth, RootMonotone
  <2>3. \/ \E j \in Intact : \E a \in Mid(n)[j] : Aborts(a, c)
        \/ \E r \in Ballot : /\ Root(votedCommit', Mid(n), r)
                             /\ Less(r, c) /\ Val(r) # Val(c)
    BY <1>2, <2>1, RootAborts, Growth
  <2> QED BY <1>1, <2>2, <2>3
<1>3. ASSUME NEW k \in Intact, NEW b \in acceptedPrepared'[k], NEW c \in Ballot, Aborts(b, c)
      PROVE  Good(c)
  BY <1>1, <1>2, <1>3, PreparedCases
<1> QED BY <1>3 DEF AbortedForGood

\* A value externalized in the step has a root.
LEMMA DecisionsRooted ==
    ASSUME IInv, NEW n \in Intact, Step(n), NEW m \in Intact, NEW x \in decided'[m]
    PROVE  HasRoot(votedCommit', Mid(n), x)
<1>1. CASE x \in decided[m]
  BY <1>1, OldRoot DEF IInv, DecisionsHaveRoots
<1>2. CASE x \notin decided[m]
  <2>1. m = n /\ MayDecide(n, x)
    BY <1>2 DEF Step
  <2>2. PICK c \in Ballot :
           /\ Val(c) = x
           /\ HasQuorum(n, {k \in Intact : AcceptsCommit(k, c)}
                              \cup Self(n, Committed(c, acceptedCommit'[n])), c)
    BY <2>1 DEF MayDecide
  <2>3. CASE \E d \in Intact : Val(c) \in decided[d]
    BY <2>2, <2>3, OldRoot DEF IInv, DecisionsHaveRoots
  <2>4. ASSUME NEW Q \in SUBSET Node, QuorumFor(n, Q, {}),
               Q \cap Intact \subseteq {k \in Intact : AcceptsCommit(k, c)}
                                          \cup Self(n, Committed(c, acceptedCommit'[n]))
        PROVE  HasRoot(votedCommit', Mid(n), x)
    <3>1. PICK k \in Intact : k \in Q
      BY <2>4, QuorumHasIntact
    <3>2. Committed(c, acceptedCommit'[k])
      <4>1. CASE AcceptsCommit(k, c)
        <5>1. acceptedCommit[k] \subseteq acceptedCommit'[k]
          BY DEF Step
        <5> QED BY <4>1, <5>1 DEF AcceptsCommit, Committed
      <4> QED BY <2>4, <3>1, <4>1 DEF Self
    <3> QED BY <2>2, <3>2, AcceptedCommitsRooted
            DEF Committed, areBallotsLessAndCompatible, areBallotsCompatible, Val
  <2> QED BY <2>2, <2>3, <2>4, QuorumCases
<1> QED BY <1>1, <1>2

-----------------------------------------------------------------------------
(* The theorems. *)

\* Every step of an intact node, with whatever claims it adds, preserves the
\* inductive invariant.
LEMMA StepPreserves ==
    ASSUME IInv, NEW n \in Intact, Step(n)
    PROVE  IInv'
<1>1. TypeOK'
  BY DEF Step, TypeOK
<1>2. NothingAborts(votedCommit', acceptedPrepared')
  BY NothingAbortsStep
<1>3. \A x : HasRoot(votedCommit', Mid(n), x) => HasRoot(votedCommit', acceptedPrepared', x)
  BY Growth, HasRootMonotone
<1>4. Backed(votedCommit', acceptedPrepared')
  BY <1>3, VotesBacked, Growth DEF Backed, Covered
<1>5. AbortedForGood(votedPrepare', votedCommit', acceptedPrepared')
  BY AbortedForGoodStep
<1>6. VotesAgree'
  BY DEF Step, VotesAgree, IInv
<1>7. CommitsHaveRoots'
  BY <1>3, AcceptedCommitsRooted DEF CommitsHaveRoots
<1>8. DecisionsHaveRoots'
  BY <1>3, DecisionsRooted DEF DecisionsHaveRoots
<1> QED BY <1>1, <1>2, <1>4, <1>5, <1>6, <1>7, <1>8 DEF IInv

\* IInv holds initially and is preserved by every step.
THEOREM Inductive == Spec => []IInv
<1>1. Init => IInv
  <2> SUFFICES ASSUME Init PROVE IInv
    OBVIOUS
  <2>1. \A m \in Intact : /\ votedPrepare[m] = {} /\ acceptedPrepared[m] = {}
                          /\ votedCommit[m] = {} /\ acceptedCommit[m] = {}
                          /\ decided[m] = {}
    BY DEF Init
  <2>2. TypeOK
    BY DEF Init, TypeOK
  <2>3. NothingAborts(votedCommit, acceptedPrepared)
    BY <2>1 DEF NothingAborts
  <2> QED BY <2>1, <2>2, <2>3 DEF IInv, Backed, AbortedForGood, VotesAgree,
                                  CommitsHaveRoots, DecisionsHaveRoots
<1>2. IInv /\ [Next]_vars => IInv'
  <2> SUFFICES ASSUME IInv, [Next]_vars PROVE IInv'
    OBVIOUS
  <2>1. CASE Next
    BY <2>1, StepPreserves DEF Next
  <2>2. CASE UNCHANGED vars
    BY <2>2 DEF vars, IInv, TypeOK, VotesAgree, CommitsHaveRoots, DecisionsHaveRoots
  <2> QED BY <2>1, <2>2
<1> QED BY <1>1, <1>2, PTL DEF Spec

\* Intact nodes never decide different values, whatever the slices are, as long
\* as quorums intersect in intact nodes and intact nodes are not blocked by
\* others: the values BallotProtocol passes to valueExternalized agree.
THEOREM AgreementHolds == Spec => []Agreement
<1>1. IInv => Agreement
  BY RootsAgree DEF IInv, TypeOK, DecisionsHaveRoots, Agreement
<1> QED BY <1>1, Inductive, PTL
=============================================================================
