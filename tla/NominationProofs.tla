--------------------------- MODULE NominationProofs ---------------------------
(***************************************************************************)
(* Proofs about nomination (NominationNetwork).  A handler ends, for the   *)
(* recursion through which a node processes its own statements makes the   *)
(* statement grow; when it has ended, the node's last statement says what  *)
(* it votes for and accepts.  From this the invariants of the network      *)
(* follow.                                                                 *)
(***************************************************************************)
EXTENDS NominationNetwork, NumberFacts

-----------------------------------------------------------------------------
(* isQuorum's loop. *)

ArePasses(F, n, P) ==
    F = [k \in 0..n |-> IF k = 0 THEN P ELSE {m \in F[k - 1] : F[k - 1] \in slicesOf[m]}]

LEMMA SatisfiedIs ==
    ASSUME NEW P
    PROVE  keepSatisfied(P)
               = (CHOOSE F : ArePasses(F, Cardinality(P), P))[Cardinality(P)]
BY Zenon DEF keepSatisfied, ArePasses

LEMMA PassesExist ==
    ASSUME NEW n \in Nat, NEW S
    PROVE  \E F : ArePasses(F, n, S)
<1> DEFINE Pass(Q) == {m \in Q : Q \in slicesOf[m]}
           P(k) == \E F : ArePasses(F, k, S)
           N == {k \in Nat : P(k)}
<1>1. P(0)
  <2> DEFINE F == [k \in 0..0 |-> S]
  <2>1. F = [k \in 0..0 |-> IF k = 0 THEN S ELSE Pass(F[k - 1])]
    <3> HIDE DEF Pass
    <3> QED OBVIOUS
  <2> QED BY <2>1, Zenon DEF ArePasses
<1>2. ASSUME NEW k \in Nat, P(k) PROVE P(k + 1)
  <2>1. PICK F : F = [j \in 0..k |-> IF j = 0 THEN S ELSE Pass(F[j - 1])]
    BY <1>2, Zenon DEF ArePasses
  <2> DEFINE G == [j \in 0..(k + 1) |-> IF j = k + 1 THEN Pass(F[k]) ELSE F[j]]
  <2> HIDE DEF Pass
  <2>2. ASSUME NEW j \in 0..(k + 1) PROVE G[j] = IF j = 0 THEN S ELSE Pass(G[j - 1])
    <3>1. CASE j = k + 1
      <4>1. G[j] = Pass(F[k]) /\ j - 1 = k /\ j # 0 /\ G[k] = F[k]
        BY <3>1
      <4> QED BY <4>1
    <3>2. CASE j # k + 1
      <4>1. j \in 0..k /\ G[j] = F[j]
        BY <3>2
      <4>2. F[j] = IF j = 0 THEN S ELSE Pass(F[j - 1])
        BY <2>1, <4>1
      <4>3. j # 0 => G[j - 1] = F[j - 1]
        BY <4>1
      <4> QED BY <4>1, <4>2, <4>3
    <3> QED BY <3>1, <3>2
  <2>3. G = [j \in 0..(k + 1) |-> G[j]]
    OBVIOUS
  <2> HIDE DEF G
  <2>4. G = [j \in 0..(k + 1) |-> IF j = 0 THEN S ELSE Pass(G[j - 1])]
    BY <2>2, <2>3
  <2> QED BY <2>4, Zenon DEF ArePasses, Pass
<1> HIDE DEF P
<1>3. Nat \subseteq N
  <2>1. 0 \in N /\ \A k \in Nat : k \in N => k + 1 \in N
    BY <1>1, <1>2
  <2> HIDE DEF N
  <2> QED BY <2>1, Induction
<1> QED BY <1>3 DEF P

\* What is left of a set of nodes is a part of it whose nodes satisfy each other: as
\* many passes as there are nodes are enough.
LEMMA SatisfiedQuorate ==
    ASSUME NEW P \in SUBSET Node
    PROVE  keepSatisfied(P) \in SUBSET P /\ Quorate(keepSatisfied(P))
<1> DEFINE n == Cardinality(P)
           F == CHOOSE F : ArePasses(F, n, P)
           Left(k) == /\ F[k] \in SUBSET P
                      /\ Quorate(F[k]) \/ Cardinality(F[k]) <= n - k
           N == {k \in Nat : k <= n => Left(k)}
<1>1. IsFiniteSet(P) /\ n \in Nat
  BY QuorumSetsAssumption, FS_Subset, FS_CardinalityType
<1>2. ArePasses(F, n, P)
  BY <1>1, PassesExist, Zenon
<1> HIDE DEF n, F
<1>3. \A k \in 0..n : F[k] = IF k = 0 THEN P ELSE {m \in F[k - 1] : F[k - 1] \in slicesOf[m]}
  BY <1>2 DEF ArePasses
<1>4. Left(0)
  <2>1. F[0] = P
    <3>1. 0 \in 0..n
      BY <1>1
    <3> QED BY <1>3, <3>1, Zenon
  <2>2. Cardinality(F[0]) = n
    BY <2>1 DEF n
  <2> QED BY <1>1, <2>1, <2>2
<1>5. ASSUME NEW k \in Nat, k + 1 <= n, Left(k) PROVE Left(k + 1)
  <2> DEFINE Q == F[k]
             R == F[k + 1]
  <2>1. R = {m \in Q : Q \in slicesOf[m]}
    <3>1. k + 1 \in 0..n /\ k + 1 # 0 /\ (k + 1) - 1 = k
      BY <1>1, <1>5
    <3> QED BY <1>3, <3>1
  <2>2. Q \in SUBSET P
    BY <1>5
  <2> HIDE DEF Q, R
  <2>3. R \in SUBSET P
    BY <2>1, <2>2
  <2>4. CASE Quorate(Q)
    <3>1. R = Q
      BY <2>1, <2>4 DEF Quorate
    <3> QED BY <2>3, <2>4, <3>1 DEF R
  <2>5. CASE ~ Quorate(Q)
    <3>1. PICK m \in Q : m \notin R
      BY <2>1, <2>5 DEF Quorate
    <3>2. IsFiniteSet(Q) /\ IsFiniteSet(R)
      BY <1>1, <2>2, <2>3, FS_Subset
    <3>3. R \subseteq Q /\ R # Q
      BY <2>1, <3>1
    <3>4. Cardinality(R) < Cardinality(Q)
      BY <3>2, <3>3, FS_Subset, FS_CardinalityType
    <3>5. Cardinality(Q) <= n - k
      BY <1>5, <2>5 DEF Q
    <3>6. Cardinality(R) \in Nat /\ Cardinality(Q) \in Nat
      BY <3>2, FS_CardinalityType
    <3>7. Cardinality(R) <= n - (k + 1)
      BY <1>1, <3>4, <3>5, <3>6
    <3> QED BY <2>3, <3>7 DEF R
  <2> QED BY <2>4, <2>5
<1>6. Left(n)
  <2> HIDE DEF Left
  <2>1. 0 \in N
    BY <1>4
  <2>2. \A k \in Nat : k \in N => k + 1 \in N
    BY <1>1, <1>5
  <2>3. Nat \subseteq N
    <3> HIDE DEF N
    <3> QED BY <2>1, <2>2, Induction
  <2> QED BY <1>1, <2>3
<1>7. keepSatisfied(P) = F[n]
  BY SatisfiedIs DEF F, n
<1>8. Quorate(F[n])
  <2>1. CASE Cardinality(F[n]) <= n - n
    <3>1. IsFiniteSet(F[n])
      BY <1>1, <1>6, FS_Subset
    <3>2. F[n] = {}
      BY <1>1, <2>1, <3>1, FS_EmptySet, FS_CardinalityType
    <3> QED BY <3>2 DEF Quorate
  <2> QED BY <1>6, <2>1
<1> QED BY <1>6, <1>7, <1>8

-----------------------------------------------------------------------------
(* What a statement does to the nomination. *)

\* The statement b says all that a says.
Covers(b, a) == a.votes \subseteq b.votes /\ a.accepted \subseteq b.accepted

\* The value is accepted by nodes that satisfy each other and the local node.
Ratified(s, v) == \E Q \in SUBSET Accepting(s, v) : Q \in slicesOf[s.id] /\ Quorate(Q)

\* What no handler changes once nomination runs, and what only sending a statement does.
SameProcess(s, t) ==
    /\ t.id = s.id /\ t.started = s.started /\ t.round = s.round /\ t.value = s.value
    /\ t.leaders = s.leaders /\ t.err = s.err
SameMessages(s, t) == t.last = s.last /\ t.out = s.out /\ t.composite = s.composite

\* t votes for and accepts more than s, and has more candidates.
Grows(s, t) ==
    /\ s.votes \subseteq t.votes /\ s.accepted \subseteq t.accepted
    /\ s.candidates \subseteq t.candidates
    /\ s.accepted \subseteq s.votes => t.accepted \subseteq t.votes
    /\ s.candidates \subseteq s.accepted => t.candidates \subseteq t.accepted

LEMMA Recorded ==
    ASSUME NEW s \in State, NEW from \in Node, NEW st \in Statement,
           NEW t, t = recordEnvelope(s, from, st)
    PROVE  /\ t \in State /\ SameProcess(s, t) /\ SameMessages(s, t) /\ Grows(s, t)
           /\ t.N = [s.N EXCEPT ![from] = st]
           /\ t.votes = s.votes /\ t.accepted = s.accepted /\ t.candidates = s.candidates
BY DEF recordEnvelope, State, SameProcess, SameMessages, Grows

LEMMA VotesPromoted ==
    ASSUME NEW s \in State, NEW st \in Statement, NEW t, t = promoteVotes(s, st)
    PROVE  /\ t \in State /\ SameProcess(s, t) /\ SameMessages(s, t) /\ Grows(s, t)
           /\ t.N = s.N /\ t.candidates = s.candidates
<1> DEFINE ok == {v \in st.votes \ s.accepted :
                     federatedAccept(s, Voting(s, v), Accepting(s, v))}
           other == {Extract[s.id][v] : v \in ok \ Valid[s.id]} \ {0}
<1>1. st.votes \in SUBSET Value /\ s.id \in Node
  BY DEF Statement, State
<1>2. ok \in SUBSET Value
  BY <1>1
<1>3. other \in SUBSET Value
  <2>1. \A v \in Value : Extract[s.id][v] \in Value \cup {0}
    BY <1>1, ValuesAssumption
  <2> HIDE DEF ok
  <2> QED BY <1>2, <2>1
<1>4. t = [s EXCEPT !.accepted = @ \cup (ok \cap Valid[s.id]),
                    !.votes = @ \cup (ok \cap Valid[s.id]) \cup other]
  BY DEF promoteVotes
<1> HIDE DEF ok, other
<1> QED BY <1>2, <1>3, <1>4 DEF State, SameProcess, SameMessages, Grows

LEMMA AcceptedPromoted ==
    ASSUME NEW s \in State, NEW st, NEW t, t = promoteAccepted(s, st)
    PROVE  /\ t \in State /\ SameProcess(s, t) /\ SameMessages(s, t) /\ Grows(s, t)
           /\ t.N = s.N /\ t.votes = s.votes /\ t.accepted = s.accepted
           /\ \A v \in t.candidates \ s.candidates : Ratified(s, v)
<1> DEFINE new == {a \in s.accepted : federatedRatify(s, Accepting(s, a))}
<1>1. t = [s EXCEPT !.candidates = @ \cup new]
  BY DEF promoteAccepted
<1>2. new \subseteq s.accepted
  OBVIOUS
<1>3. ASSUME NEW v \in new PROVE Ratified(s, v)
  <2>1. Accepting(s, v) \in SUBSET Node
    BY DEF Accepting
  <2>2. keepSatisfied(Accepting(s, v)) \in slicesOf[s.id]
    BY <1>3 DEF federatedRatify
  <2> QED BY <2>1, <2>2, SatisfiedQuorate DEF Ratified
<1> HIDE DEF new
<1>4. /\ t \in State /\ SameProcess(s, t) /\ SameMessages(s, t) /\ Grows(s, t)
      /\ t.N = s.N /\ t.votes = s.votes /\ t.accepted = s.accepted
      /\ t.candidates = s.candidates \cup new
  BY <1>1, <1>2 DEF State, SameProcess, SameMessages, Grows
<1> QED BY <1>3, <1>4

LEMMA VariationType ==
    ASSUME NEW n \in Node, NEW v \in Value
    PROVE  ToNominate(n, v) \in Value \cup {0}
BY ValuesAssumption DEF ToNominate

\* A new value that a statement suggests, if there is one.
LEMMA NewValueType ==
    ASSUME NEW s \in State, NEW st \in Statement
    PROVE  getNewValueFromNomination(s, st) \in Value \cup {0}
<1> DEFINE new == {ToNominate(s.id, v) : v \in st.votes \cup st.accepted} \ ({0} \cup s.votes)
           hash == HashValue[s.round]
           hashes == {hash[v] : v \in new}
<1>1. s.id \in Node /\ s.round \in 0..Rounds /\ st.votes \cup st.accepted \subseteq Value
  BY DEF State, Statement
<1>2. new \subseteq Value
  BY <1>1, VariationType
<1>3. getNewValueFromNomination(s, st)
          = IF new = {} THEN 0 ELSE CHOOSE v \in new : \A w \in new : hash[w] <= hash[v]
  BY DEF getNewValueFromNomination
<1>4. hash \in [Value -> Nat]
  BY <1>1, ValuesAssumption
<1> HIDE DEF new, hash
<1>5. ASSUME new # {} PROVE \E v \in new : \A w \in new : hash[w] <= hash[v]
  <2>1. IsFiniteSet(new)
    BY <1>2, ValuesAssumption, FS_Subset
  <2>2. IsFiniteSet(hashes)
    <3> DEFINE f == [v \in new |-> hash[v]]
    <3>1. f \in [new -> hashes] /\ \A h \in hashes : \E v \in new : f[v] = h
      OBVIOUS
    <3> HIDE DEF f, hashes
    <3>2. f \in Surjection(new, hashes)
      BY <3>1 DEF Surjection
    <3> QED BY <2>1, <3>2, FS_Surjection
  <2>3. hashes \subseteq Int /\ hashes # {}
    BY <1>2, <1>4, <1>5
  <2> HIDE DEF hashes
  <2>4. Max(hashes) \in hashes /\ \A x \in hashes : Max(hashes) >= x
    BY <2>2, <2>3, MaxExists
  <2>5. PICK v \in new : hash[v] = Max(hashes)
    BY <2>4 DEF hashes
  <2>6. \A w \in new : hash[w] \in hashes /\ hash[w] \in Nat
    BY <1>2, <1>4 DEF hashes
  <2>7. \A w \in new : hash[w] <= hash[v]
    BY <2>3, <2>4, <2>5, <2>6
  <2> QED BY <2>7
<1>6. new # {} => (CHOOSE v \in new : \A w \in new : hash[w] <= hash[v]) \in new
  BY <1>5
<1> QED BY <1>2, <1>3, <1>6

LEMMA LeaderFollowed ==
    ASSUME NEW s \in State, NEW from, NEW st \in Statement, NEW t, t = followLeader(s, from, st)
    PROVE  /\ t \in State /\ SameProcess(s, t) /\ SameMessages(s, t) /\ Grows(s, t)
           /\ t.N = s.N /\ t.candidates = s.candidates
<1>1. getNewValueFromNomination(s, st) \in Value \cup {0}
  BY NewValueType
<1> DEFINE new == {getNewValueFromNomination(s, st)} \ {0}
<1>2. new \subseteq Value
  BY <1>1
<1>3. t = s \/ t = [s EXCEPT !.votes = @ \cup new]
  BY DEF followLeader
<1> HIDE DEF new
<1> QED BY <1>2, <1>3 DEF State, SameProcess, SameMessages, Grows

\* The statement is recorded; it makes the nomination grow, and a new candidate is
\* accepted by a quorum of the node.
AppliedTo(s, t, from, st) ==
    /\ t \in State /\ SameProcess(s, t) /\ SameMessages(s, t) /\ Grows(s, t)
    /\ t.N = [s.N EXCEPT ![from] = st]
    /\ \A v \in t.candidates \ s.candidates : Ratified(t, v)

LEMMA Applied ==
    ASSUME NEW s \in State, NEW from \in Node, NEW st \in Statement,
           NEW t, t = applyStatement(s, from, st)
    PROVE  AppliedTo(s, t, from, st)
<1> DEFINE a == recordEnvelope(s, from, st)
           b == promoteVotes(a, st)
           c == promoteAccepted(b, st)
<1>1. t = followLeader(c, from, st)
  BY DEF applyStatement
<1>2. /\ a \in State /\ SameProcess(s, a) /\ SameMessages(s, a) /\ Grows(s, a)
      /\ a.N = [s.N EXCEPT ![from] = st] /\ a.candidates = s.candidates
  BY Recorded
<1> HIDE DEF a
<1>3. /\ b \in State /\ SameProcess(a, b) /\ SameMessages(a, b) /\ Grows(a, b)
      /\ b.N = a.N /\ b.candidates = a.candidates
  BY <1>2, VotesPromoted
<1> HIDE DEF b
<1>4. /\ c \in State /\ SameProcess(b, c) /\ SameMessages(b, c) /\ Grows(b, c)
      /\ c.N = b.N /\ c.votes = b.votes /\ c.accepted = b.accepted
      /\ \A v \in c.candidates \ b.candidates : Ratified(b, v)
  BY <1>3, AcceptedPromoted
<1> HIDE DEF c
<1>5. /\ t \in State /\ SameProcess(c, t) /\ SameMessages(c, t) /\ Grows(c, t)
      /\ t.N = c.N /\ t.candidates = c.candidates
  BY <1>1, <1>4, LeaderFollowed
<1>6. SameProcess(s, t) /\ SameMessages(s, t)
  BY <1>2, <1>3, <1>4, <1>5 DEF SameProcess, SameMessages
<1>7. Grows(s, t)
  BY <1>2, <1>3, <1>4, <1>5 DEF Grows
<1>8. t.N = [s.N EXCEPT ![from] = st]
  BY <1>2, <1>3, <1>4, <1>5
<1>9. ASSUME NEW v \in t.candidates \ s.candidates PROVE Ratified(t, v)
  <2>1. Ratified(b, v)
    BY <1>2, <1>3, <1>4, <1>5
  <2>2. t.N = b.N /\ t.id = b.id
    BY <1>4, <1>5 DEF SameProcess
  <2> QED BY <2>1, <2>2 DEF Ratified, Accepting
<1> QED BY <1>5, <1>6, <1>7, <1>8, <1>9 DEF AppliedTo

-----------------------------------------------------------------------------
(* The recursion: a node that emits a modified nomination processes it. *)

Invalid(c) == ~ isNewerStatement(c.state.N[c.from], c.st) \/ ~ isSane(c.st)

\* The call by which the node processes the statement it makes in s.
OwnCall(s) == [state |-> s, from |-> s.id, st |-> ownStatement(s)]

\* A call of processEnvelope, if F says what those it makes do.
Body(F, c) ==
    LET old == c.state
        s   == applyStatement(old, c.from, c.st)
        own == ownStatement(s)
        end == IF own = ownStatement(old) THEN s ELSE sendNomination(F[OwnCall(s)], own)
    IN  IF Invalid(c)
        THEN [old EXCEPT !.res = "INVALID"]
        ELSE IF ~ old.started
        THEN [recordEnvelope(old, c.from, c.st) EXCEPT !.res = "VALID"]
        ELSE combineCandidates(old, s, end)

IsProcessing(F) == F = [c \in Call |-> Body(F, c)]

LEMMA ProcessingIs == processed = CHOOSE F : IsProcessing(F)
BY Zenon DEF processed, IsProcessing, Body, Invalid, OwnCall

LEMMA OwnCallType ==
    ASSUME NEW s \in State
    PROVE  OwnCall(s) \in Call /\ ownStatement(s) \in Statement /\ s.id \in Node
BY DEF OwnCall, Call, State, ownStatement, Statement

\* How much the statement of the node can still grow.
Room(s) == Cardinality(Value \ s.votes) + Cardinality(Value \ s.accepted)

LEMMA RoomType ==
    ASSUME NEW s
    PROVE  Room(s) \in Nat
<1>1. IsFiniteSet(Value \ s.votes) /\ IsFiniteSet(Value \ s.accepted)
  BY ValuesAssumption, FS_Subset
<1>2. Cardinality(Value \ s.votes) \in Nat /\ Cardinality(Value \ s.accepted) \in Nat
  BY <1>1, FS_CardinalityType
<1> QED BY <1>2 DEF Room

LEMMA RoomShrinks ==
    ASSUME NEW s \in State, NEW t \in State, Grows(s, t), ownStatement(t) # ownStatement(s)
    PROVE  Room(t) < Room(s)
<1> DEFINE A == Value \ s.votes
           B == Value \ s.accepted
           C == Value \ t.votes
           D == Value \ t.accepted
<1>1. IsFiniteSet(A) /\ IsFiniteSet(B) /\ IsFiniteSet(C) /\ IsFiniteSet(D)
  BY ValuesAssumption, FS_Subset
<1>2. C \subseteq A /\ D \subseteq B
  BY DEF Grows
<1>3. C # A \/ D # B
  <2>1. t.votes # s.votes \/ t.accepted # s.accepted
    BY DEF ownStatement
  <2>2. t.votes \subseteq Value /\ t.accepted \subseteq Value /\ s.votes \subseteq Value
        /\ s.accepted \subseteq Value
    BY DEF State
  <2> QED BY <2>1, <2>2
<1> HIDE DEF A, B, C, D
<1>4. /\ Cardinality(A) \in Nat /\ Cardinality(B) \in Nat
      /\ Cardinality(C) \in Nat /\ Cardinality(D) \in Nat
  BY <1>1, FS_CardinalityType
<1>5. Cardinality(C) <= Cardinality(A) /\ (Cardinality(A) = Cardinality(C) => A = C)
  BY <1>1, <1>2, FS_Subset
<1>6. Cardinality(D) <= Cardinality(B) /\ (Cardinality(B) = Cardinality(D) => B = D)
  BY <1>1, <1>2, FS_Subset
<1>7. Room(s) = Cardinality(A) + Cardinality(B) /\ Room(t) = Cardinality(C) + Cardinality(D)
  BY DEF Room, A, B, C, D
<1> QED BY <1>3, <1>4, <1>5, <1>6, <1>7

\* A call depends on calls in states with less room only.
LEMMA BodyLocal ==
    ASSUME NEW c \in Call, NEW F, NEW G,
           \A d \in Call : Room(d.state) < Room(c.state) => F[d] = G[d]
    PROVE  Body(F, c) = Body(G, c)
<1> DEFINE old == c.state
           s == applyStatement(old, c.from, c.st)
<1>1. old \in State /\ c.from \in Node /\ c.st \in Statement
  BY DEF Call
<1>2. s \in State /\ Grows(old, s)
  BY <1>1, Applied DEF AppliedTo
<1> HIDE DEF s, old
<1>3. ownStatement(s) # ownStatement(old) => F[OwnCall(s)] = G[OwnCall(s)]
  <2> HAVE ownStatement(s) # ownStatement(old)
  <2>1. Room(s) < Room(old)
    BY <1>1, <1>2, RoomShrinks
  <2>2. OwnCall(s) \in Call /\ OwnCall(s).state = s
    BY <1>2, OwnCallType DEF OwnCall
  <2> QED BY <2>1, <2>2 DEF old
<1>4. \A e, f : (ownStatement(s) # ownStatement(old) => e = f) =>
          (IF ownStatement(s) = ownStatement(old) THEN s ELSE sendNomination(e, ownStatement(s)))
        = (IF ownStatement(s) = ownStatement(old) THEN s ELSE sendNomination(f, ownStatement(s)))
  OBVIOUS
<1> QED BY <1>3, <1>4, Zenon DEF Body, s, old

LEMMA ProcessingExists == \E F : IsProcessing(F)
<1> DEFINE Right(F, n) == \A c \in Call : Room(c.state) <= n => F[c] = Body(F, c)
           P(n) == \E F : Right(F, n)
           N == {n \in Nat : P(n)}
           most == Cardinality(Value) + Cardinality(Value)
<1>1. \A c \in Call : Room(c.state) \in Nat
  BY RoomType
<1>2. P(0)
  <2> DEFINE F == [c \in Call |-> Body(<<>>, c)]
  <2>1. ASSUME NEW c \in Call, Room(c.state) <= 0 PROVE F[c] = Body(F, c)
    <3>1. \A d \in Call : ~ (Room(d.state) < Room(c.state))
      BY <1>1, <2>1
    <3> HIDE DEF F
    <3>2. Body(<<>>, c) = Body(F, c)
      BY <3>1, BodyLocal, Zenon
    <3> QED BY <3>2 DEF F
  <2> HIDE DEF F
  <2> QED BY <2>1
<1>3. ASSUME NEW n \in Nat, P(n) PROVE P(n + 1)
  <2>1. PICK F : Right(F, n)
    BY <1>3
  <2> DEFINE G == [c \in Call |-> Body(F, c)]
  <2>2. \A c \in Call : Room(c.state) <= n => G[c] = F[c]
    BY <2>1
  <2>3. \A c \in Call : G[c] = Body(F, c)
    OBVIOUS
  <2> HIDE DEF G
  <2>4. ASSUME NEW c \in Call, Room(c.state) <= n + 1 PROVE G[c] = Body(G, c)
    <3>1. \A d \in Call : Room(d.state) < Room(c.state) => F[d] = G[d]
      <4> TAKE d \in Call
      <4> HAVE Room(d.state) < Room(c.state)
      <4>1. Room(d.state) <= n
        BY <1>1, <2>4
      <4> QED BY <2>2, <4>1
    <3>2. Body(F, c) = Body(G, c)
      BY <3>1, BodyLocal
    <3> QED BY <2>3, <3>2
  <2> QED BY <2>4
<1>4. Nat \subseteq N
  <2> HIDE DEF P
  <2>1. 0 \in N /\ \A n \in Nat : n \in N => n + 1 \in N
    BY <1>2, <1>3
  <2> HIDE DEF N
  <2> QED BY <2>1, Induction
<1>5. most \in Nat /\ \A c \in Call : Room(c.state) <= most
  <2>1. IsFiniteSet(Value) /\ Cardinality(Value) \in Nat
    BY ValuesAssumption, FS_CardinalityType
  <2>2. \A S : Cardinality(Value \ S) \in Nat /\ Cardinality(Value \ S) <= Cardinality(Value)
    BY <2>1, FS_Subset, FS_CardinalityType
  <2>3. \A v \in Nat, a \in Nat, n \in Nat : v <= n /\ a <= n => v + a <= n + n
    OBVIOUS
  <2>4. ASSUME NEW c \in Call PROVE Room(c.state) <= most
    BY <2>1, <2>2, <2>3 DEF Room
  <2>5. most \in Nat
    BY <2>1
  <2> HIDE DEF most
  <2> QED BY <2>4, <2>5
<1>6. P(most)
  <2> HIDE DEF P, most
  <2> QED BY <1>4, <1>5
<1>7. PICK F : Right(F, most)
  BY <1>6
<1> DEFINE G == [c \in Call |-> F[c]]
<1>8. \A c \in Call : F[c] = Body(F, c)
  <2> HIDE DEF most
  <2> QED BY <1>5, <1>7
<1>9. \A c \in Call : Body(F, c) = Body(G, c)
  <2>1. \A d \in Call : F[d] = G[d]
    OBVIOUS
  <2> HIDE DEF G
  <2> QED BY <2>1, BodyLocal
<1>10. G = [c \in Call |-> Body(G, c)]
  <2>1. G = [c \in Call |-> F[c]]
    OBVIOUS
  <2> HIDE DEF G
  <2> QED BY <1>8, <1>9, <2>1
<1> HIDE DEF G
<1> QED BY <1>10 DEF IsProcessing

LEMMA Processed ==
    ASSUME NEW c \in Call
    PROVE  processed[c] = Body(processed, c)
<1>1. IsProcessing(processed)
  BY ProcessingIs, ProcessingExists, Zenon
<1> QED BY <1>1 DEF IsProcessing

-----------------------------------------------------------------------------
(* Emission. *)

Fine(s) == s.err = ""

LEMMA ResultTypes == {"VALID", "INVALID"} \subseteq Result
BY Zenon DEF Result

SameVotes(s, t) ==
    /\ t.votes = s.votes /\ t.accepted = s.accepted /\ t.candidates = s.candidates
    /\ t.N = s.N

LEMMA Combined ==
    ASSUME NEW end \in State, NEW old, NEW s, NEW t, t = combineCandidates(old, s, end)
    PROVE  /\ t \in State /\ SameProcess(end, t) /\ SameVotes(end, t)
           /\ t.last = end.last /\ t.out = end.out /\ t.res = "VALID"
           /\ t.composite = IF s.candidates # old.candidates
                            THEN end.candidates ELSE end.composite
<1> DEFINE x == IF s.candidates # old.candidates THEN end.candidates ELSE end.composite
<1>1. t = [end EXCEPT !.res = "VALID", !.composite = x]
  BY DEF combineCandidates
<1>2. x \in SUBSET Value
  BY DEF State
<1> HIDE DEF x
<1>3. t \in State
  BY <1>1, <1>2, ResultTypes DEF State
<1>4. /\ SameProcess(end, t) /\ SameVotes(end, t)
      /\ t.last = end.last /\ t.out = end.out /\ t.res = "VALID" /\ t.composite = x
  BY <1>1 DEF State, SameProcess, SameVotes
<1> QED BY <1>3, <1>4 DEF x

LEMMA SentType ==
    ASSUME NEW s \in State, NEW st \in Statement,
           NEW t, t = [s EXCEPT !.last = st, !.out = @ \cup {st}]
    PROVE  t \in State
BY DEF State

LEMMA Sent ==
    ASSUME NEW s \in State, s.res = "VALID", NEW st \in Statement,
           NEW t, t = sendNomination(s, st)
    PROVE  /\ t \in State /\ SameProcess(s, t) /\ SameVotes(s, t)
           /\ t.composite = s.composite /\ t.res = "VALID"
           /\ IF isNewerStatement(s.last, st)
              THEN t.last = st /\ t.out = s.out \cup {st}
              ELSE t.last = s.last /\ t.out = s.out
<1>1. t = IF isNewerStatement(s.last, st)
          THEN [s EXCEPT !.last = st, !.out = @ \cup {st}] ELSE s
  BY DEF sendNomination
<1>2. CASE isNewerStatement(s.last, st)
  <2>1. t = [s EXCEPT !.last = st, !.out = @ \cup {st}]
    BY <1>1, <1>2
  <2>2. t \in State
    BY <2>1, SentType
  <2>3. /\ SameProcess(s, t) /\ SameVotes(s, t) /\ t.composite = s.composite
        /\ t.res = "VALID" /\ t.last = st /\ t.out = s.out \cup {st}
    BY <2>1 DEF State, SameProcess, SameVotes
  <2> QED BY <1>2, <2>2, <2>3
<1>3. CASE ~ isNewerStatement(s.last, st)
  BY <1>1, <1>3 DEF SameProcess, SameVotes
<1> QED BY <1>2, <1>3

\* A nomination that was modified since the node last processed its own statement.
Modified(s) ==
    /\ s \in State /\ s.started
    /\ Covers(ownStatement(s), s.N[s.id]) /\ s.N[s.id] # ownStatement(s)
    /\ Covers(s.N[s.id], s.last) /\ s.out = {}

\* The candidates were combined after the last one was added, or none was.
CombinedFrom(s, t) ==
    \/ t.composite = t.candidates
    \/ t.composite = s.composite /\ t.candidates = s.candidates

NewAreRatified(s, t) == \A v \in t.candidates \ s.candidates : Ratified(t, v)

\* What emitting the nomination s comes to.
Emitted(s, t) ==
    /\ t \in State /\ SameProcess(s, t) /\ Grows(s, t)
    /\ t.N = [s.N EXCEPT ![s.id] = ownStatement(t)]
    /\ t.last = ownStatement(t) /\ t.out = {ownStatement(t)} /\ t.res = "VALID"
    /\ CombinedFrom(s, t) /\ NewAreRatified(s, t)

LEMMA StatementEquality ==
    ASSUME NEW a \in Statement, NEW b \in Statement, Covers(a, b), Covers(b, a)
    PROVE  a = b
BY DEF Covers, Statement

LEMMA NewerIs ==
    ASSUME NEW a, NEW b
    PROVE  isNewerStatement(a, b) <=> Covers(b, a) /\ b # a
BY DEF isNewerStatement, Covers

\* The node never finds its own statement invalid.
LEMMA OwnCallValid ==
    ASSUME NEW s, Modified(s)
    PROVE  ~ Invalid(OwnCall(s))
<1> DEFINE own == ownStatement(s)
<1>1. s \in State /\ s.N[s.id] \in Statement /\ own \in Statement
  BY OwnCallType DEF Modified, State
<1>2. isNewerStatement(s.N[s.id], own)
  BY NewerIs DEF Modified
<1>3. isSane(own)
  <2> SUFFICES ASSUME ~ isSane(own) PROVE FALSE
    OBVIOUS
  <2>1. own.votes = {} /\ own.accepted = {}
    BY DEF isSane
  <2> HIDE DEF own
  <2>2. Covers(s.N[s.id], own)
    BY <2>1 DEF Covers
  <2>3. Covers(own, s.N[s.id]) /\ s.N[s.id] # own
    BY DEF Modified, own
  <2> QED BY <1>1, <2>2, <2>3, StatementEquality
<1> QED BY <1>2, <1>3 DEF Invalid, OwnCall

LEMMA RatifiedStays ==
    ASSUME NEW s, NEW t, NEW v, Ratified(s, v), t.id = s.id,
           \A m \in Node : v \in s.N[m].accepted => v \in t.N[m].accepted
    PROVE  Ratified(t, v)
<1>1. Accepting(s, v) \subseteq Accepting(t, v)
  BY DEF Accepting
<1> QED BY <1>1 DEF Ratified

\* The end of an emission, once the node has processed its own statement.
LEMMA EmittedOwn ==
    ASSUME NEW s, Modified(s), NEW t, AppliedTo(s, t, s.id, ownStatement(s)),
           ownStatement(t) = ownStatement(s),
           NEW u, u = sendNomination(combineCandidates(s, t, t), ownStatement(s))
    PROVE  Emitted(s, u)
<1> DEFINE own == ownStatement(s)
           r == combineCandidates(s, t, t)
<1>1. s \in State /\ t \in State /\ own \in Statement /\ s.id \in Node
  BY OwnCallType DEF AppliedTo, Modified
<1>2. /\ r \in State /\ SameProcess(t, r) /\ SameVotes(t, r)
      /\ r.last = t.last /\ r.out = t.out /\ r.res = "VALID"
      /\ r.composite = IF t.candidates # s.candidates THEN t.candidates ELSE t.composite
  BY <1>1, Combined
<1> HIDE DEF own, r
<1>3. isNewerStatement(r.last, own)
  <2>1. r.last = s.last
    BY <1>2 DEF AppliedTo, SameMessages
  <2>2. Covers(own, s.last)
    BY DEF Modified, Covers, own
  <2>3. own # s.last
    <3> SUFFICES ASSUME own = s.last PROVE FALSE
      OBVIOUS
    <3>1. Covers(s.N[s.id], own) /\ Covers(own, s.N[s.id]) /\ s.N[s.id] # own
      BY DEF Modified, own
    <3>2. s.N[s.id] \in Statement
      BY <1>1 DEF State
    <3> QED BY <1>1, <3>1, <3>2, StatementEquality
  <2> QED BY <2>1, <2>2, <2>3, NewerIs
<1>4. /\ u \in State /\ SameProcess(r, u) /\ SameVotes(r, u)
      /\ u.composite = r.composite /\ u.res = "VALID"
      /\ u.last = own /\ u.out = r.out \cup {own}
  BY <1>1, <1>2, <1>3, Sent DEF own, r
<1>5. ownStatement(u) = own
  BY <1>2, <1>4 DEF SameVotes, ownStatement, own
<1>6. SameProcess(s, u) /\ Grows(s, u)
  BY <1>2, <1>4 DEF SameProcess, SameVotes, AppliedTo, Grows
<1>7. u.N = [s.N EXCEPT ![s.id] = own]
  BY <1>2, <1>4 DEF SameVotes, AppliedTo, own
<1>8. u.out = {own}
  BY <1>2, <1>4 DEF AppliedTo, SameMessages, Modified
<1>9. CombinedFrom(s, u)
  BY <1>2, <1>4 DEF CombinedFrom, AppliedTo, SameMessages, SameVotes
<1>10. NewAreRatified(s, u)
  <2> SUFFICES ASSUME NEW v \in u.candidates \ s.candidates PROVE Ratified(u, v)
    BY DEF NewAreRatified
  <2>1. u.candidates = t.candidates /\ u.N = t.N /\ u.id = t.id
    BY <1>2, <1>4 DEF SameVotes, SameProcess
  <2>2. Ratified(t, v)
    BY <2>1 DEF AppliedTo
  <2> QED BY <2>1, <2>2, RatifiedStays
<1> QED BY <1>4, <1>5, <1>6, <1>7, <1>8, <1>9, <1>10 DEF Emitted

\* The same, if processing it made the nomination grow again: what the node says then
\* has been sent, and its first statement is not.
LEMMA EmittedNewer ==
    ASSUME NEW s, Modified(s), NEW t, AppliedTo(s, t, s.id, ownStatement(s)),
           ownStatement(t) # ownStatement(s), NEW e, Emitted(t, e),
           NEW u, u = sendNomination(combineCandidates(s, t, e), ownStatement(s))
    PROVE  Emitted(s, u)
<1> DEFINE own == ownStatement(s)
           r == combineCandidates(s, t, e)
<1>1. s \in State /\ t \in State /\ e \in State /\ own \in Statement /\ s.id \in Node
  BY OwnCallType DEF AppliedTo, Modified, Emitted
<1>2. /\ r \in State /\ SameProcess(e, r) /\ SameVotes(e, r)
      /\ r.last = e.last /\ r.out = e.out /\ r.res = "VALID"
      /\ r.composite = IF t.candidates # s.candidates THEN e.candidates ELSE e.composite
  BY <1>1, Combined
<1> HIDE DEF own, r
<1>3. ~ isNewerStatement(r.last, own)
  <2> SUFFICES ASSUME isNewerStatement(r.last, own) PROVE FALSE
    OBVIOUS
  <2>1. r.last = ownStatement(e)
    BY <1>2 DEF Emitted
  <2>2. Covers(own, ownStatement(e))
    BY <2>1, NewerIs
  <2>3. Covers(ownStatement(e), ownStatement(t)) /\ Covers(ownStatement(t), own)
    BY DEF Emitted, AppliedTo, Grows, Covers, ownStatement, own
  <2>4. Covers(own, ownStatement(t))
    BY <2>2, <2>3 DEF Covers
  <2>5. ownStatement(t) \in Statement
    BY <1>1, OwnCallType
  <2> QED BY <1>1, <2>3, <2>4, <2>5, StatementEquality DEF own
<1>4. /\ u \in State /\ SameProcess(r, u) /\ SameVotes(r, u)
      /\ u.composite = r.composite /\ u.res = "VALID"
      /\ u.last = r.last /\ u.out = r.out
  BY <1>1, <1>2, <1>3, Sent DEF own, r
<1>5. ownStatement(u) = ownStatement(e)
  BY <1>2, <1>4 DEF SameVotes, ownStatement
<1>6. SameProcess(s, u)
  BY <1>2, <1>4 DEF SameProcess, AppliedTo, Emitted
<1>7. Grows(s, u)
  <2>1. Grows(s, e)
    BY DEF AppliedTo, Emitted, Grows
  <2> QED BY <1>2, <1>4, <2>1 DEF SameVotes, Grows
<1>8. u.N = [s.N EXCEPT ![s.id] = ownStatement(u)]
  <2>1. t.N = [s.N EXCEPT ![s.id] = own] /\ t.id = s.id
    BY DEF AppliedTo, SameProcess, own
  <2>2. e.N = [t.N EXCEPT ![s.id] = ownStatement(e)]
    BY <2>1 DEF Emitted
  <2>3. u.N = e.N
    BY <1>2, <1>4 DEF SameVotes
  <2>4. e.N = [s.N EXCEPT ![s.id] = ownStatement(e)]
    BY <2>1, <2>2
  <2> QED BY <1>5, <2>3, <2>4
<1>9. u.last = ownStatement(u) /\ u.out = {ownStatement(u)}
  BY <1>2, <1>4, <1>5 DEF Emitted
<1>10. CombinedFrom(s, u)
  <2>1. u.candidates = e.candidates
    BY <1>2, <1>4 DEF SameVotes
  <2>2. s.candidates \subseteq t.candidates /\ t.candidates \subseteq e.candidates
    BY DEF AppliedTo, Emitted, Grows
  <2>3. t.composite = s.composite
    BY DEF AppliedTo, SameMessages
  <2>4. \/ e.composite = e.candidates
        \/ e.composite = t.composite /\ e.candidates = t.candidates
    BY DEF Emitted, CombinedFrom
  <2> QED BY <1>2, <1>4, <2>1, <2>2, <2>3, <2>4 DEF CombinedFrom
<1>11. NewAreRatified(s, u)
  <2> SUFFICES ASSUME NEW v \in u.candidates \ s.candidates PROVE Ratified(u, v)
    BY DEF NewAreRatified
  <2>1. u.candidates = e.candidates /\ u.N = e.N /\ u.id = e.id
    BY <1>2, <1>4 DEF SameVotes, SameProcess
  <2>2. Ratified(e, v)
    <3>1. CASE v \in t.candidates
      <4>1. Ratified(t, v)
        BY <3>1 DEF AppliedTo
      <4>2. \A m \in Node : v \in t.N[m].accepted => v \in e.N[m].accepted
        <5>1. t.id = s.id /\ t.N = [s.N EXCEPT ![s.id] = own] /\ t.N \in [Node -> Statement]
          BY <1>1 DEF AppliedTo, SameProcess, State, own
        <5>2. e.N = [t.N EXCEPT ![s.id] = ownStatement(e)]
          BY <5>1 DEF Emitted
        <5>3. t.N[s.id] = own /\ s.id \in Node
          BY <1>1, <5>1 DEF State
        <5>4. own.accepted \subseteq ownStatement(e).accepted
          BY DEF AppliedTo, Emitted, Grows, ownStatement, own
        <5> QED BY <5>1, <5>2, <5>3, <5>4
      <4>3. e.id = t.id
        BY DEF Emitted, SameProcess
      <4> QED BY <4>1, <4>2, <4>3, RatifiedStays
    <3>2. CASE v \notin t.candidates
      BY <2>1, <3>2 DEF Emitted, NewAreRatified
    <3> QED BY <3>1, <3>2
  <2> QED BY <2>1, <2>2, RatifiedStays
<1> QED BY <1>4, <1>5, <1>6, <1>7, <1>8, <1>9, <1>10, <1>11 DEF Emitted

LEMMA EmissionEnds ==
    ASSUME NEW s, Modified(s)
    PROVE  Emitted(s, emitNomination(s))
<1> DEFINE P(n) == \A r : Modified(r) /\ Room(r) <= n => Emitted(r, emitNomination(r))
           N == {n \in Nat : P(n)}
<1>1. ASSUME NEW r, Modified(r), \A q : Modified(q) /\ Room(q) < Room(r) => Emitted(q, emitNomination(q))
      PROVE  Emitted(r, emitNomination(r))
  <2> DEFINE own == ownStatement(r)
             t == applyStatement(r, r.id, own)
             end == IF ownStatement(t) = own THEN t ELSE emitNomination(t)
  <2>1. r \in State /\ OwnCall(r) \in Call /\ own \in Statement /\ r.id \in Node
    BY <1>1, OwnCallType DEF Modified
  <2>2. ~ Invalid(OwnCall(r)) /\ r.started
    BY <1>1, OwnCallValid DEF Modified
  <2>3. processEnvelope(r, r.id, own) = processed[OwnCall(r)]
    BY DEF processEnvelope, OwnCall
  <2>4. emitNomination(t) = sendNomination(processed[OwnCall(t)], ownStatement(t))
    BY DEF emitNomination, processEnvelope, OwnCall
  <2>5. processed[OwnCall(r)] = combineCandidates(r, t, end)
    <3>1. processed[OwnCall(r)] = Body(processed, OwnCall(r))
      BY <2>1, Processed
    <3>2. /\ OwnCall(r).state = r /\ OwnCall(r).from = r.id /\ OwnCall(r).st = own
      BY DEF OwnCall
    <3> HIDE DEF own
    <3>3. Body(processed, OwnCall(r)) = combineCandidates(r, t, end)
      BY <2>2, <2>4, <3>2, Zenon DEF Body, own
    <3> QED BY <3>1, <3>3
  <2>6. AppliedTo(r, t, r.id, own)
    BY <2>1, Applied
  <2> HIDE DEF t, own
  <2>7. emitNomination(r) = sendNomination(combineCandidates(r, t, end), own)
    BY <2>3, <2>5 DEF emitNomination, own
  <2>8. CASE ownStatement(t) = own
    BY <1>1, <2>6, <2>7, <2>8, EmittedOwn DEF own
  <2>9. CASE ownStatement(t) # own
    <3>1. Modified(t)
      <4>1. t.id = r.id /\ t.N = [r.N EXCEPT ![r.id] = own] /\ t.started = r.started
        BY <2>6 DEF AppliedTo, SameProcess
      <4>2. t.N[t.id] = own
        BY <2>1, <4>1 DEF State
      <4>3. Covers(ownStatement(t), own)
        BY <2>6 DEF AppliedTo, Grows, Covers, ownStatement, own
      <4>4. Covers(own, t.last) /\ t.out = {}
        <5>1. Covers(own, r.N[r.id]) /\ Covers(r.N[r.id], r.last) /\ r.out = {}
          BY <1>1 DEF Modified, own
        <5>2. t.last = r.last /\ t.out = r.out
          BY <2>6 DEF AppliedTo, SameMessages
        <5> QED BY <5>1, <5>2 DEF Covers
      <4>5. t \in State
        BY <2>6 DEF AppliedTo
      <4> QED BY <2>2, <2>9, <4>1, <4>2, <4>3, <4>4, <4>5 DEF Modified
    <3>2. Room(t) < Room(r)
      BY <2>1, <2>6, <2>9, RoomShrinks DEF AppliedTo, own
    <3>3. Emitted(t, emitNomination(t))
      BY <1>1, <3>1, <3>2
    <3>4. end = emitNomination(t)
      BY <2>9
    <3> HIDE DEF end
    <3> QED BY <1>1, <2>6, <2>7, <2>9, <3>3, <3>4, EmittedNewer DEF own
  <2> QED BY <2>8, <2>9
<1>2. P(0)
  <2> SUFFICES ASSUME NEW r, Modified(r), Room(r) <= 0 PROVE Emitted(r, emitNomination(r))
    OBVIOUS
  <2>1. \A q : ~ (Room(q) < Room(r))
    BY RoomType
  <2> QED BY <1>1, <2>1
<1>3. ASSUME NEW n \in Nat, P(n) PROVE P(n + 1)
  <2> SUFFICES ASSUME NEW r, Modified(r), Room(r) <= n + 1 PROVE Emitted(r, emitNomination(r))
    OBVIOUS
  <2>1. \A q : Room(q) < Room(r) => Room(q) <= n
    BY RoomType
  <2> QED BY <1>1, <1>3, <2>1
<1>4. Nat \subseteq N
  <2> HIDE DEF P
  <2>1. 0 \in N /\ \A n \in Nat : n \in N => n + 1 \in N
    BY <1>2, <1>3
  <2> HIDE DEF N
  <2> QED BY <2>1, Induction
<1>5. P(Room(s))
  <2> HIDE DEF P
  <2> QED BY <1>4, RoomType
<1>6. Room(s) <= Room(s)
  BY RoomType
<1> QED BY <1>5, <1>6

-----------------------------------------------------------------------------
(* Handlers. *)

\* Between two handlers the node's last statement says what it votes for and accepts,
\* it votes for what it accepts, and its candidates, which it accepts, are combined.
Settled(s) ==
    /\ s \in State
    /\ s.N[s.id] = ownStatement(s) /\ s.last = ownStatement(s)
    /\ s.accepted \subseteq s.votes /\ s.candidates \subseteq s.accepted
    /\ s.composite = s.candidates

\* What a handler does to a node.
Handled(s, t) ==
    /\ Settled(t) /\ t.id = s.id /\ t.err = s.err
    /\ s.votes \subseteq t.votes /\ s.accepted \subseteq t.accepted
    /\ \/ t.out = {} /\ ownStatement(t) = ownStatement(s)
       \/ t.out = {ownStatement(t)}
    /\ NewAreRatified(s, t)
    /\ \A m \in Node : Covers(t.N[m], s.N[m])

\* What the others said: only the statement that is delivered is recorded.
Recalls(s, t, from, st) ==
    \A m \in Node \ {s.id} : t.N[m] = s.N[m] \/ (m = from /\ t.N[m] = st)

\* A modified nomination has been emitted.
LEMMA SettledBy ==
    ASSUME NEW s, Settled(s), NEW t, t \in State, t.started, SameMessages(s, t), t.id = s.id,
           t.err = s.err, Grows(s, t), s.out = {}, t.N[t.id] = s.N[s.id],
           ownStatement(t) # ownStatement(s), NewAreRatified(s, t),
           \A m \in Node : Covers(t.N[m], s.N[m]),
           NEW u, u \in State, SameProcess(emitNomination(t), u), SameVotes(emitNomination(t), u),
           u.last = emitNomination(t).last, u.out = emitNomination(t).out,
           u.composite = IF t.candidates # s.candidates THEN emitNomination(t).candidates
                         ELSE emitNomination(t).composite
    PROVE  Handled(s, u) /\ \A m \in Node \ {s.id} : u.N[m] = t.N[m]
<1> DEFINE e == emitNomination(t)
<1>1. Modified(t)
  <2>1. Covers(ownStatement(t), ownStatement(s)) /\ Covers(ownStatement(s), ownStatement(s))
    BY DEF Grows, Covers, ownStatement
  <2>2. t.N[t.id] = ownStatement(s) /\ t.last = ownStatement(s) /\ t.out = {}
    BY DEF Settled, SameMessages
  <2> QED BY <2>1, <2>2 DEF Modified
<1>2. Emitted(t, e)
  BY <1>1, EmissionEnds
<1> HIDE DEF e
<1>3. SameProcess(e, u) /\ SameVotes(e, u) /\ u.last = e.last /\ u.out = e.out
      /\ u.composite = IF t.candidates # s.candidates THEN e.candidates ELSE e.composite
  BY DEF e
<1>4. ownStatement(u) = ownStatement(e)
  BY <1>3 DEF SameVotes, ownStatement
<1>5. u.id = s.id /\ u.err = s.err /\ s.id \in Node
  BY <1>2, <1>3 DEF Emitted, SameProcess, Settled, State
<1>6. t.N \in [Node -> Statement] /\ e.N = [t.N EXCEPT ![s.id] = ownStatement(e)] /\ u.N = e.N
  BY <1>2, <1>3 DEF State, Emitted, SameVotes
<1>7. Grows(s, e)
  BY <1>2 DEF Emitted, Grows
<1>8. Settled(u)
  <2>1. u.N[u.id] = ownStatement(u)
    BY <1>4, <1>5, <1>6
  <2>2. u.last = ownStatement(u)
    BY <1>2, <1>3, <1>4 DEF Emitted
  <2>3. u.accepted \subseteq u.votes /\ u.candidates \subseteq u.accepted
    BY <1>3, <1>7 DEF Settled, Grows, SameVotes
  <2>4. u.composite = u.candidates
    <3>1. t.candidates \subseteq e.candidates
      BY <1>2 DEF Emitted, Grows
    <3>2. t.composite = s.candidates
      BY DEF SameMessages, Settled
    <3>3. \/ e.composite = e.candidates
          \/ e.composite = t.composite /\ e.candidates = t.candidates
      BY <1>2 DEF Emitted, CombinedFrom
    <3> QED BY <1>3, <3>1, <3>2, <3>3 DEF SameVotes
  <2> QED BY <2>1, <2>2, <2>3, <2>4 DEF Settled
<1>9. u.out = {ownStatement(u)}
  BY <1>2, <1>3, <1>4 DEF Emitted
<1>10. s.votes \subseteq u.votes /\ s.accepted \subseteq u.accepted
  BY <1>3, <1>7 DEF Grows, SameVotes
<1>11. \A m \in Node : Covers(u.N[m], t.N[m])
  <2>1. Covers(ownStatement(e), t.N[t.id])
    BY <1>2, <1>1 DEF Emitted, Grows, Modified, Covers, ownStatement
  <2>2. \A m \in Node : u.N[m] = IF m = s.id THEN ownStatement(e) ELSE t.N[m]
    BY <1>6
  <2> QED BY <2>1, <2>2 DEF Covers
<1>12. \A m \in Node : Covers(u.N[m], s.N[m])
  BY <1>11 DEF Covers
<1>13. NewAreRatified(s, u)
  <2> SUFFICES ASSUME NEW v \in u.candidates \ s.candidates PROVE Ratified(u, v)
    BY DEF NewAreRatified
  <2>1. CASE v \in t.candidates
    <3>1. Ratified(t, v)
      BY <2>1 DEF NewAreRatified
    <3>2. \A m \in Node : v \in t.N[m].accepted => v \in u.N[m].accepted
      BY <1>11 DEF Covers
    <3> QED BY <1>5, <3>1, <3>2, RatifiedStays
  <2>2. CASE v \notin t.candidates
    <3>1. Ratified(e, v)
      BY <1>2, <1>3, <2>2 DEF Emitted, NewAreRatified, SameVotes
    <3> QED BY <1>3, <3>1, RatifiedStays DEF SameVotes, SameProcess
  <2> QED BY <2>1, <2>2
<1>14. \A m \in Node \ {s.id} : u.N[m] = t.N[m]
  BY <1>6
<1> QED BY <1>5, <1>8, <1>9, <1>10, <1>12, <1>13, <1>14 DEF Handled

\* Only the result of the call changes.
LEMMA ResultChanged ==
    ASSUME NEW s \in State, NEW x \in Result, NEW t, t = [s EXCEPT !.res = x]
    PROVE  t \in State /\ SameProcess(s, t) /\ SameVotes(s, t) /\ SameMessages(s, t)
<1>1. t \in State
  BY DEF State
<1>2. SameProcess(s, t) /\ SameVotes(s, t) /\ SameMessages(s, t)
  BY DEF State, SameProcess, SameVotes, SameMessages
<1> QED BY <1>1, <1>2

\* Only what others said changes.
LEMMA HandledQuietly ==
    ASSUME NEW s, Settled(s), s.out = {}, NEW t, t \in State, SameMessages(s, t),
           t.id = s.id, t.err = s.err, ownStatement(t) = ownStatement(s),
           t.composite = t.candidates, s.candidates \subseteq t.candidates,
           t.candidates \subseteq t.accepted, NewAreRatified(s, t),
           t.N[s.id] = s.N[s.id], \A m \in Node : Covers(t.N[m], s.N[m])
    PROVE  Handled(s, t)
<1>1. t.votes = s.votes /\ t.accepted = s.accepted
  BY DEF ownStatement
<1>2. Settled(t)
  BY <1>1 DEF Settled, SameMessages
<1>3. t.out = {}
  BY DEF SameMessages
<1> QED BY <1>1, <1>2, <1>3 DEF Handled

\* Combining the candidates after every new one leaves no candidate out.
LEMMA HandledCombined ==
    ASSUME NEW s, Settled(s), s.out = {}, NEW t, t \in State, SameMessages(s, t),
           t.id = s.id, t.err = s.err, ownStatement(t) = ownStatement(s), Grows(s, t),
           NewAreRatified(s, t), t.N[s.id] = s.N[s.id], \A m \in Node : Covers(t.N[m], s.N[m]),
           NEW u, u = combineCandidates(s, t, t)
    PROVE  Handled(s, u) /\ u.N = t.N
<1>1. /\ u \in State /\ SameProcess(t, u) /\ SameVotes(t, u)
      /\ u.last = t.last /\ u.out = t.out
      /\ u.composite = IF t.candidates # s.candidates THEN t.candidates ELSE t.composite
  BY Combined
<1>2. u.composite = u.candidates
  BY <1>1 DEF SameVotes, SameMessages, Settled
<1>3. ownStatement(u) = ownStatement(s) /\ u.N = t.N /\ u.candidates = t.candidates
  BY <1>1 DEF SameVotes, ownStatement
<1>4. u.id = s.id /\ u.err = s.err
  BY <1>1 DEF SameProcess
<1>5. s.votes \subseteq u.votes /\ s.accepted \subseteq u.accepted /\ u.candidates \subseteq u.accepted
      /\ u.accepted \subseteq u.votes /\ s.candidates \subseteq u.candidates
  BY <1>1 DEF SameVotes, Grows, Settled
<1>6. Settled(u) /\ u.out = {}
  BY <1>1, <1>2, <1>3, <1>4, <1>5 DEF Settled, SameMessages
<1>7. NewAreRatified(s, u)
  <2> SUFFICES ASSUME NEW v \in u.candidates \ s.candidates PROVE Ratified(u, v)
    BY DEF NewAreRatified
  <2>1. Ratified(t, v)
    BY <1>3 DEF NewAreRatified
  <2> QED BY <1>3, <1>4, <2>1, RatifiedStays
<1> QED BY <1>3, <1>4, <1>5, <1>6, <1>7 DEF Handled

LEMMA NothingChanges ==
    ASSUME NEW s, NEW t, SameVotes(s, t), SameProcess(s, t)
    PROVE  /\ ownStatement(t) = ownStatement(s) /\ t.candidates = s.candidates
           /\ NewAreRatified(s, t) /\ Grows(s, t)
BY DEF SameVotes, SameProcess, ownStatement, NewAreRatified, Grows

\* The node processes a statement of another one.
LEMMA Received ==
    ASSUME NEW s, Settled(s), s.out = {}, NEW from \in Node, from # s.id, NEW st \in Statement,
           NEW u, u = processEnvelope(s, from, st)
    PROVE  Handled(s, u) /\ Recalls(s, u, from, st)
<1> DEFINE c == [state |-> s, from |-> from, st |-> st]
           t == applyStatement(s, from, st)
           end == IF ownStatement(t) = ownStatement(s) THEN t ELSE emitNomination(t)
<1>1. s \in State /\ s.N \in [Node -> Statement] /\ s.id \in Node /\ c \in Call
  BY DEF Settled, State, Call
<1>2. u = IF Invalid(c) THEN [s EXCEPT !.res = "INVALID"]
          ELSE IF ~ s.started THEN [recordEnvelope(s, from, st) EXCEPT !.res = "VALID"]
          ELSE combineCandidates(s, t, end)
  <2>1. u = Body(processed, c)
    BY <1>1, Processed DEF processEnvelope
  <2>2. emitNomination(t) = sendNomination(processed[OwnCall(t)], ownStatement(t))
    BY DEF emitNomination, processEnvelope, OwnCall
  <2>3. c.state = s /\ c.from = from /\ c.st = st
    OBVIOUS
  <2> HIDE DEF c
  <2> QED BY <2>1, <2>2, <2>3, Zenon DEF Body
<1>3. ~ Invalid(c) => Covers(st, s.N[from])
  BY NewerIs DEF Invalid
<1>4. \A m \in Node : Covers(s.N[m], s.N[m])
  BY DEF Covers
<1> HIDE DEF c
<1>5. CASE Invalid(c)
  <2>1. u \in State /\ SameProcess(s, u) /\ SameVotes(s, u) /\ SameMessages(s, u)
    BY <1>1, <1>2, <1>5, ResultTypes, ResultChanged
  <2>2. u.N = s.N /\ u.id = s.id /\ u.err = s.err
    BY <2>1 DEF SameVotes, SameProcess
  <2>3. Handled(s, u)
    <3>1. u.composite = u.candidates /\ u.candidates \subseteq u.accepted
      BY <2>1 DEF Settled, SameMessages, SameVotes
    <3> QED BY <1>4, <2>1, <2>2, <3>1, NothingChanges, HandledQuietly
  <2> QED BY <2>2, <2>3 DEF Recalls
<1> DEFINE recorded == [s.N EXCEPT ![from] = st]
<1>6. ASSUME NEW N, N = [s.N EXCEPT ![from] = st], ~ Invalid(c)
      PROVE  /\ \A m \in Node : Covers(N[m], s.N[m])
             /\ \A m \in Node : N[m] = s.N[m] \/ (m = from /\ N[m] = st)
             /\ N[s.id] = s.N[s.id]
  BY <1>1, <1>3, <1>4, <1>6
<1>7. CASE ~ Invalid(c) /\ ~ s.started
  <2> DEFINE r == recordEnvelope(s, from, st)
  <2>1. /\ r \in State /\ SameProcess(s, r) /\ SameMessages(s, r)
        /\ r.N = [s.N EXCEPT ![from] = st]
        /\ r.votes = s.votes /\ r.accepted = s.accepted /\ r.candidates = s.candidates
    BY <1>1, Recorded
  <2> HIDE DEF r
  <2>2. u \in State /\ SameProcess(r, u) /\ SameVotes(r, u) /\ SameMessages(r, u)
    BY <1>2, <1>7, <2>1, ResultTypes, ResultChanged DEF r
  <2>3. u.N = [s.N EXCEPT ![from] = st] /\ u.id = s.id /\ u.err = s.err
    BY <2>1, <2>2 DEF SameVotes, SameProcess
  <2>4. /\ \A m \in Node : Covers(u.N[m], s.N[m])
        /\ \A m \in Node : u.N[m] = s.N[m] \/ (m = from /\ u.N[m] = st)
        /\ u.N[s.id] = s.N[s.id]
    BY <1>6, <1>7, <2>3
  <2>5. u.votes = s.votes /\ u.accepted = s.accepted /\ u.candidates = s.candidates
    BY <2>1, <2>2 DEF SameVotes
  <2>6. SameMessages(s, u)
    BY <2>1, <2>2 DEF SameMessages
  <2>7. ownStatement(u) = ownStatement(s) /\ NewAreRatified(s, u)
    BY <2>5 DEF ownStatement, NewAreRatified
  <2>8. u.composite = u.candidates /\ u.candidates \subseteq u.accepted
    BY <2>5, <2>6 DEF Settled, SameMessages
  <2>9. Handled(s, u)
    BY <2>2, <2>3, <2>4, <2>5, <2>6, <2>7, <2>8, HandledQuietly
  <2> QED BY <2>4, <2>9 DEF Recalls
<1>8. CASE ~ Invalid(c) /\ s.started
  <2>1. AppliedTo(s, t, from, st)
    BY <1>1, Applied
  <2>2. u = combineCandidates(s, t, end)
    BY <1>2, <1>8
  <2> HIDE DEF t
  <2>3. /\ t \in State /\ SameMessages(s, t) /\ t.id = s.id /\ t.err = s.err /\ t.started
        /\ Grows(s, t) /\ NewAreRatified(s, t)
    BY <1>8, <2>1 DEF AppliedTo, SameProcess, NewAreRatified
  <2>4. /\ \A m \in Node : Covers(t.N[m], s.N[m])
        /\ \A m \in Node : t.N[m] = s.N[m] \/ (m = from /\ t.N[m] = st)
        /\ t.N[s.id] = s.N[s.id]
    BY <1>6, <1>8, <2>1 DEF AppliedTo
  <2>5. CASE ownStatement(t) = ownStatement(s)
    <3>1. Handled(s, u) /\ u.N = t.N
      BY <2>2, <2>3, <2>4, <2>5, HandledCombined
    <3> QED BY <2>4, <3>1 DEF Recalls
  <2>6. CASE ownStatement(t) # ownStatement(s)
    <3>1. emitNomination(t) \in State
      <4>1. Modified(t)
        <5>1. Covers(ownStatement(t), ownStatement(s)) /\ Covers(ownStatement(s), ownStatement(s))
          BY <2>3 DEF Grows, Covers, ownStatement
        <5>2. t.N[t.id] = ownStatement(s) /\ t.last = ownStatement(s) /\ t.out = {}
          BY <2>3, <2>4 DEF Settled, SameMessages
        <5> QED BY <2>3, <2>6, <5>1, <5>2 DEF Modified
      <4> QED BY <4>1, EmissionEnds DEF Emitted
    <3>2. u = combineCandidates(s, t, emitNomination(t))
      BY <2>2, <2>6
    <3> DEFINE e == emitNomination(t)
    <3>3. /\ u \in State /\ SameProcess(e, u) /\ SameVotes(e, u)
          /\ u.last = e.last /\ u.out = e.out
          /\ u.composite = IF t.candidates # s.candidates THEN e.candidates ELSE e.composite
      BY <3>1, <3>2, Combined
    <3>4. Handled(s, u) /\ \A m \in Node \ {s.id} : u.N[m] = t.N[m]
      BY <2>3, <2>4, <2>6, <3>3, SettledBy
    <3> QED BY <2>4, <3>4 DEF Recalls
  <2> QED BY <2>5, <2>6
<1> QED BY <1>5, <1>7, <1>8

-----------------------------------------------------------------------------
(* What a node votes for in a new round. *)

\* One more leader is followed.
Following(s, leader, votes) ==
    votes \cup ({getNewValueFromNomination([s EXCEPT !.votes = votes], s.N[leader])} \ {0})

\* F follows every set of leaders, one after the other.
IsFollowed(F, s, S) ==
    F = [T \in SUBSET S |-> IF T = {} THEN s.votes
                            ELSE Following(s, AnyOf(T), F[T \ {AnyOf(T)}])]

LEMMA FollowedIs ==
    ASSUME NEW s, s.id \notin s.leaders
    PROVE  roundVotes(s) = (CHOOSE F : IsFollowed(F, s, s.leaders))[s.leaders]
BY Zenon DEF roundVotes, FoldSet, MapThenFoldSet, IsFollowed, Following, AnyOf

LEMMA FollowedExists ==
    ASSUME NEW s, NEW S, IsFiniteSet(S)
    PROVE  \E F : IsFollowed(F, s, S)
<1> DEFINE Step(F, T) == IF T = {} THEN s.votes ELSE Following(s, AnyOf(T), F[T \ {AnyOf(T)}])
           Right(F, n) == \A T \in SUBSET S : Cardinality(T) <= n => F[T] = Step(F, T)
           P(n) == \E F : F = [T \in SUBSET S |-> F[T]] /\ Right(F, n)
           N == {n \in Nat : P(n)}
<1>1. \A T \in SUBSET S : IsFiniteSet(T) /\ Cardinality(T) \in Nat /\ Cardinality(T) <= Cardinality(S)
  BY FS_Subset, FS_CardinalityType
<1>2. \A T \in SUBSET S : T # {} => /\ T \ {AnyOf(T)} \in SUBSET S
                                    /\ Cardinality(T \ {AnyOf(T)}) = Cardinality(T) - 1
  <2> TAKE T \in SUBSET S
  <2> HAVE T # {}
  <2>1. AnyOf(T) \in T
    BY DEF AnyOf
  <2> QED BY <2>1, <1>1, FS_RemoveElement
<1>3. ASSUME NEW F, NEW G, NEW T \in SUBSET S, T # {} => F[T \ {AnyOf(T)}] = G[T \ {AnyOf(T)}]
      PROVE  Step(F, T) = Step(G, T)
  BY <1>3, Zenon
<1> HIDE DEF Step
<1>4. P(0)
  <2> DEFINE F == [T \in SUBSET S |-> Step(<<>>, T)]
  <2>1. ASSUME NEW T \in SUBSET S, Cardinality(T) <= 0 PROVE F[T] = Step(F, T)
    <3>1. T = {}
      BY <1>1, <2>1, FS_EmptySet
    <3>2. Step(<<>>, T) = Step(F, T)
      <4> HIDE DEF F
      <4> QED BY <1>3, <3>1
    <3> QED BY <3>2
  <2>2. F = [T \in SUBSET S |-> F[T]]
    OBVIOUS
  <2> HIDE DEF F
  <2> QED BY <2>1, <2>2
<1>5. ASSUME NEW n \in Nat, P(n) PROVE P(n + 1)
  <2>1. PICK F : Right(F, n)
    BY <1>5
  <2> DEFINE G == [T \in SUBSET S |-> Step(F, T)]
  <2>2. \A T \in SUBSET S : Cardinality(T) <= n => G[T] = F[T]
    BY <2>1
  <2>3. G = [T \in SUBSET S |-> G[T]] /\ \A T \in SUBSET S : G[T] = Step(F, T)
    OBVIOUS
  <2> HIDE DEF G
  <2>4. ASSUME NEW T \in SUBSET S, Cardinality(T) <= n + 1 PROVE G[T] = Step(G, T)
    <3>1. T # {} => F[T \ {AnyOf(T)}] = G[T \ {AnyOf(T)}]
      <4> HAVE T # {}
      <4> DEFINE R == T \ {AnyOf(T)}
      <4>1. R \in SUBSET S /\ Cardinality(R) <= n
        BY <1>1, <1>2, <2>4
      <4> HIDE DEF R
      <4>2. F[R] = G[R]
        BY <2>2, <4>1
      <4> QED BY <4>2 DEF R
    <3>2. Step(F, T) = Step(G, T)
      BY <1>3, <3>1
    <3> QED BY <2>3, <3>2
  <2> QED BY <2>3, <2>4
<1>6. Nat \subseteq N
  <2> HIDE DEF P
  <2>1. 0 \in N /\ \A n \in Nat : n \in N => n + 1 \in N
    BY <1>4, <1>5
  <2> HIDE DEF N
  <2> QED BY <2>1, Induction
<1>7. P(Cardinality(S))
  <2> HIDE DEF P
  <2>1. Cardinality(S) \in Nat
    BY <1>1
  <2> QED BY <1>6, <2>1
<1>8. PICK F : F = [T \in SUBSET S |-> F[T]] /\ \A T \in SUBSET S : F[T] = Step(F, T)
  BY <1>1, <1>7
<1>9. F = [T \in SUBSET S |-> Step(F, T)]
  BY <1>8
<1> QED BY <1>9, Zenon DEF IsFollowed, Step

LEMMA VotesAreState ==
    ASSUME NEW s \in State, NEW V \in SUBSET Value, NEW t, t = [s EXCEPT !.votes = V]
    PROVE  t \in State
BY DEF State

\* A node keeps its votes, and what it adds are values.
LEMMA RoundVotesType ==
    ASSUME NEW s \in State, s.value \in Value
    PROVE  s.votes \subseteq roundVotes(s) /\ roundVotes(s) \subseteq Value
<1>1. s.votes \in SUBSET Value /\ s.leaders \in SUBSET Node /\ s.N \in [Node -> Statement]
  BY DEF State
<1>2. CASE s.id \in s.leaders
  BY <1>1, <1>2 DEF roundVotes
<1>3. CASE s.id \notin s.leaders
  <2> DEFINE S == s.leaders
             F == CHOOSE F : IsFollowed(F, s, S)
             H == {T \in SUBSET S : s.votes \subseteq F[T] /\ F[T] \subseteq Value}
  <2>1. IsFiniteSet(S)
    BY <1>1, QuorumSetsAssumption, FS_Subset
  <2>2. IsFollowed(F, s, S)
    BY <2>1, FollowedExists, Zenon
  <2>3. roundVotes(s) = F[S]
    BY <1>3, FollowedIs
  <2> HIDE DEF F
  <2>4. ASSUME NEW T \in SUBSET S, \A R \in SUBSET T : R # T => R \in H PROVE T \in H
    <3>1. F[T] = IF T = {} THEN s.votes ELSE Following(s, AnyOf(T), F[T \ {AnyOf(T)}])
      BY <2>2 DEF IsFollowed
    <3>2. CASE T = {}
      BY <1>1, <3>1, <3>2
    <3>3. CASE T # {}
      <4> DEFINE R == T \ {AnyOf(T)}
                 new == {getNewValueFromNomination([s EXCEPT !.votes = F[R]], s.N[AnyOf(T)])} \ {0}
      <4>1. AnyOf(T) \in T
        BY <3>3 DEF AnyOf
      <4>2. R \in H
        BY <2>4, <4>1
      <4>3. s.N[AnyOf(T)] \in Statement
        BY <1>1, <4>1
      <4>4. [s EXCEPT !.votes = F[R]] \in State
        BY <4>2, VotesAreState
      <4>5. new \subseteq Value
        <5> HIDE DEF R
        <5> QED BY <4>3, <4>4, NewValueType
      <4>6. F[T] = F[R] \cup new
        BY <3>1, <3>3 DEF Following
      <4> HIDE DEF new, R
      <4> QED BY <4>2, <4>5, <4>6
    <3> QED BY <3>2, <3>3
  <2>5. SUBSET S \subseteq H
    <3> HIDE DEF H
    <3> QED BY <2>1, <2>4, SubsetInduction
  <2> QED BY <2>3, <2>5
<1> QED BY <1>2, <1>3

LEMMA RoundStarted ==
    ASSUME NEW s \in State, NEW value \in Value, NEW t, t = startRound(s, value)
    PROVE  /\ t \in State /\ t.id = s.id /\ t.err = s.err /\ t.started /\ t.value = value
           /\ SameVotes(s, t) /\ SameMessages(s, t)
<1> DEFINE r == (s.round % Rounds) + 1
           u == [s EXCEPT !.started = TRUE, !.value = value, !.round = r]
           pri == [n \in DOMAIN weightsOf[u.id] \cup {u.id} |-> getNodePriority(u, n)]
           top == Max({pri[n] : n \in DOMAIN pri})
           equal == {n \in DOMAIN pri : pri[n] = top /\ (top > 0 \/ n = u.id)}
<1>1. t = [u EXCEPT !.leaders = equal]
  BY DEF startRound, updateRoundLeaders
<1>2. s.round \in Nat /\ s.id \in Node /\ Rounds \in Nat \ {0}
  BY ValuesAssumption DEF State
<1>3. r \in 0..Rounds
  <2>1. \A a \in Nat, b \in Nat \ {0} : a % b \in 0..(b - 1)
    OBVIOUS
  <2>2. \A b \in Nat \ {0} : \A x \in 0..(b - 1) : x + 1 \in 0..b
    OBVIOUS
  <2>3. s.round % Rounds \in 0..(Rounds - 1)
    BY <1>2, <2>1
  <2> QED BY <1>2, <2>2, <2>3
<1>4. u.id = s.id
  BY DEF State
<1>5. equal \subseteq Node
  <2>1. DOMAIN pri = DOMAIN weightsOf[s.id] \cup {s.id}
    BY <1>4
  <2>2. DOMAIN weightsOf[s.id] \subseteq Node
    BY <1>2, QuorumSetsAssumption
  <2> HIDE DEF pri, u
  <2> QED BY <1>2, <2>1, <2>2
<1> HIDE DEF equal, pri, top
<1>6. u \in State /\ u.started /\ u.value = value /\ u.err = s.err
      /\ SameVotes(s, u) /\ SameMessages(s, u)
  <2> HIDE DEF r
  <2> QED BY <1>3 DEF State, SameVotes, SameMessages
<1> HIDE DEF u
<1>7. /\ t \in State /\ t.id = u.id /\ t.err = u.err /\ t.started = u.started
      /\ t.value = u.value /\ SameVotes(u, t) /\ SameMessages(u, t)
  BY <1>1, <1>5, <1>6 DEF State, SameVotes, SameMessages
<1> QED BY <1>4, <1>6, <1>7 DEF SameVotes, SameMessages

\* Only the value that the timer nominates changes.
LEMMA ValueDropped ==
    ASSUME NEW s, Settled(s), s.out = {}, NEW t, t = [s EXCEPT !.value = 0]
    PROVE  Handled(s, t) /\ t.N = s.N
<1>1. s \in State
  BY DEF Settled
<1>2. t \in State /\ SameVotes(s, t) /\ SameMessages(s, t) /\ t.id = s.id /\ t.err = s.err
  BY <1>1 DEF State, SameVotes, SameMessages
<1>3. Settled(t) /\ ownStatement(t) = ownStatement(s) /\ NewAreRatified(s, t)
  BY <1>2 DEF Settled, SameVotes, SameMessages, ownStatement, NewAreRatified
<1>4. \A m \in Node : Covers(t.N[m], s.N[m])
  BY <1>2 DEF SameVotes, Covers
<1> QED BY <1>2, <1>3, <1>4 DEF Handled, SameVotes, SameMessages

LEMMA VotesSet ==
    ASSUME NEW s \in State, NEW V \in SUBSET Value, s.votes \subseteq V,
           NEW t, t = [s EXCEPT !.votes = V]
    PROVE  /\ t \in State /\ SameProcess(s, t) /\ SameMessages(s, t) /\ Grows(s, t)
           /\ t.N = s.N /\ t.candidates = s.candidates /\ t.votes = V
<1>1. t \in State
  BY DEF State
<1> QED BY <1>1 DEF State, SameProcess, SameMessages, Grows

\* The node starts a round.
LEMMA Nominated ==
    ASSUME NEW s, Settled(s), s.out = {}, NEW value \in Value, NEW timedout \in BOOLEAN,
           NEW u, u = nominate(s, value, timedout)
    PROVE  Handled(s, u) /\ \A m \in Node \ {s.id} : u.N[m] = s.N[m]
<1>1. CASE timedout /\ ~ s.started
  <2>1. u = [s EXCEPT !.value = 0]
    BY <1>1 DEF nominate
  <2> QED BY <2>1, ValueDropped
<1>2. CASE ~ (timedout /\ ~ s.started)
  <2> DEFINE r == startRound(s, value)
             V == roundVotes(r)
             t == [r EXCEPT !.votes = V]
  <2>1. u = IF V # r.votes THEN emitNomination(t) ELSE r
    BY <1>2 DEF nominate, emitIfVoted
  <2>2. s \in State /\ s.id \in Node
    BY DEF Settled, State
  <2>3. /\ r \in State /\ r.id = s.id /\ r.err = s.err /\ r.started /\ r.value = value
        /\ SameVotes(s, r) /\ SameMessages(s, r)
    BY <2>2, RoundStarted
  <2> HIDE DEF r
  <2>4. r.votes \subseteq V /\ V \in SUBSET Value
    BY <2>3, RoundVotesType
  <2> HIDE DEF V
  <2>5. /\ t \in State /\ SameProcess(r, t) /\ SameMessages(r, t) /\ Grows(r, t)
        /\ t.N = r.N /\ t.candidates = r.candidates /\ t.votes = V
    BY <2>3, <2>4, VotesSet
  <2> HIDE DEF t
  <2>6. \A m \in Node : Covers(s.N[m], s.N[m])
    BY DEF Covers
  <2>7. CASE V = r.votes
    <3>1. u = r
      BY <2>1, <2>7
    <3>2. Settled(r) /\ ownStatement(r) = ownStatement(s) /\ NewAreRatified(s, r)
      BY <2>3 DEF Settled, SameVotes, SameMessages, ownStatement, NewAreRatified
    <3>3. r.out = {} /\ s.votes \subseteq r.votes /\ s.accepted \subseteq r.accepted /\ r.N = s.N
      BY <2>3 DEF SameVotes, SameMessages
    <3> QED BY <2>3, <2>6, <3>1, <3>2, <3>3 DEF Handled
  <2>8. CASE V # r.votes
    <3> DEFINE e == emitNomination(t)
    <3>1. u = e
      BY <2>1, <2>8
    <3>2. /\ t.started /\ SameMessages(s, t) /\ t.id = s.id /\ t.err = s.err /\ Grows(s, t)
          /\ t.N[t.id] = s.N[s.id] /\ t.candidates = s.candidates /\ t.N = s.N
      BY <2>3, <2>5 DEF SameProcess, SameMessages, SameVotes, Grows
    <3>3. ownStatement(t) # ownStatement(s)
      BY <2>3, <2>5, <2>8 DEF SameVotes, ownStatement
    <3>4. NewAreRatified(s, t)
      BY <3>2 DEF NewAreRatified
    <3>5. Emitted(t, e)
      <4>1. Modified(t)
        <5>1. Covers(ownStatement(t), ownStatement(s)) /\ Covers(ownStatement(s), ownStatement(s))
          BY <3>2 DEF Grows, Covers, ownStatement
        <5>2. t.N[t.id] = ownStatement(s) /\ t.last = ownStatement(s) /\ t.out = {}
          BY <3>2 DEF Settled, SameMessages
        <5> QED BY <2>5, <3>2, <3>3, <5>1, <5>2 DEF Modified
      <4> QED BY <4>1, EmissionEnds
    <3> HIDE DEF e
    <3>6. /\ e \in State /\ SameProcess(e, e) /\ SameVotes(e, e)
          /\ e.composite = IF t.candidates # s.candidates THEN e.candidates ELSE e.composite
      BY <3>2, <3>5 DEF Emitted, SameProcess, SameVotes
    <3>7. Handled(s, e) /\ \A m \in Node \ {s.id} : e.N[m] = t.N[m]
      BY <2>5, <2>6, <3>2, <3>3, <3>4, <3>6, SettledBy DEF e
    <3> QED BY <3>1, <3>2, <3>7
  <2> QED BY <2>7, <2>8
<1> QED BY <1>1, <1>2

-----------------------------------------------------------------------------
(* A new process. *)

LEMMA NoStatementType == NoStatement \in Statement /\ \A st \in Statement : Covers(st, NoStatement)
BY DEF NoStatement, Statement, Covers

\* What does not depend on the exception and on the result of the last call.
Boots(n, s) ==
    /\ s \in State /\ s.id = n /\ s.votes = {} /\ s.accepted = {} /\ s.candidates = {}
    /\ s.N = [m \in Node |-> NoStatement] /\ s.last = NoStatement
    /\ s.composite = {} /\ s.out = {}

LEMMA BootsWith ==
    ASSUME NEW n \in Node, NEW e \in Exception, NEW r \in Result
    PROVE  Boots(n, [id |-> n, started |-> FALSE, round |-> 0, votes |-> {}, accepted |-> {},
                     candidates |-> {}, N |-> [m \in Node |-> NoStatement], last |-> NoStatement,
                     leaders |-> {}, composite |-> {}, value |-> 0, err |-> e, res |-> r,
                     out |-> {}])
<1>1. 0 \in 0..Rounds
  BY ValuesAssumption
<1> QED BY <1>1, NoStatementType DEF Boots, State

LEMMA NoExceptionType == "" \in Exception /\ "" \in Result
BY Zenon DEF Exception, Result

LEMMA InitStateIs ==
    ASSUME NEW n \in Node
    PROVE  Boots(n, InitState(n)) /\ Fine(InitState(n))
<1>1. Boots(n, InitState(n))
  BY BootsWith, NoExceptionType, Zenon DEF InitState
<1>2. Fine(InitState(n))
  BY Zenon DEF InitState, Fine
<1> QED BY <1>1, <1>2

LEMMA InitSettled ==
    ASSUME NEW n \in Node
    PROVE  LET s == InitState(n)
           IN  Settled(s) /\ Fine(s) /\ s.id = n /\ s.out = {} /\ s.last = NoStatement
<1> DEFINE s == InitState(n)
<1>1. Boots(n, s) /\ Fine(s)
  BY InitStateIs
<1> HIDE DEF s
<1>2. s.N[s.id] = NoStatement /\ ownStatement(s) = NoStatement
  BY <1>1 DEF Boots, ownStatement, NoStatement
<1>3. Settled(s)
  BY <1>1, <1>2 DEF Boots, Settled
<1> QED BY <1>1, <1>3 DEF Boots, s

LEMMA Restored ==
    ASSUME NEW n \in Node, NEW st \in Statement, st.accepted \subseteq st.votes,
           NEW t, t = setStateFromEnvelope(n, st)
    PROVE  /\ Settled(t) /\ Fine(t) /\ t.id = n /\ t.out = {} /\ t.candidates = {}
           /\ t.last = st /\ t.accepted = st.accepted
           /\ \A m \in Node : t.N[m] = IF m = n THEN st ELSE NoStatement
<1> DEFINE s == InitState(n)
           r == recordEnvelope(s, n, st)
<1>1. Boots(n, s) /\ Fine(s)
  BY InitStateIs
<1>2. t = [r EXCEPT !.votes = st.votes, !.accepted = st.accepted, !.last = st]
  BY DEF setStateFromEnvelope
<1> HIDE DEF s
<1>3. s \in State
  BY <1>1 DEF Boots
<1>4. /\ r \in State /\ SameProcess(s, r) /\ SameMessages(s, r)
      /\ r.N = [s.N EXCEPT ![n] = st] /\ r.candidates = s.candidates
  BY <1>3, Recorded
<1> HIDE DEF r
<1>5. st.votes \in SUBSET Value /\ st.accepted \in SUBSET Value
  BY DEF Statement
<1>6. t \in State
  BY <1>2, <1>4, <1>5 DEF State
<1>7. /\ t.id = r.id /\ t.err = r.err /\ t.out = r.out /\ t.candidates = r.candidates
      /\ t.last = st /\ t.votes = st.votes /\ t.accepted = st.accepted /\ t.N = r.N
      /\ t.composite = r.composite
  BY <1>2, <1>4 DEF State
<1>8. t.id = n /\ t.out = {} /\ t.candidates = {} /\ t.composite = {} /\ t.err = s.err
  BY <1>1, <1>4, <1>7 DEF Boots, SameProcess, SameMessages
<1>9. \A m \in Node : t.N[m] = IF m = n THEN st ELSE NoStatement
  BY <1>1, <1>4, <1>7 DEF Boots
<1>10. ownStatement(t) = st
  BY <1>7 DEF ownStatement, Statement
<1>11. Settled(t)
  BY <1>6, <1>7, <1>8, <1>9, <1>10 DEF Settled
<1>12. Fine(t)
  BY <1>1, <1>8, Zenon DEF Fine
<1> QED BY <1>7, <1>8, <1>9, <1>11, <1>12

\* The node between two handlers: what the last one emitted has been taken away.
Rests(s, t) ==
    /\ Settled(t) /\ SameProcess(s, t) /\ SameVotes(s, t) /\ t.last = s.last /\ t.out = {}

LEMMA RestsWith ==
    ASSUME NEW s, Settled(s), NEW x \in Result
    PROVE  Rests(s, [s EXCEPT !.out = {}, !.res = x])
<1> DEFINE t == [s EXCEPT !.out = {}, !.res = x]
<1>1. s \in State
  BY DEF Settled
<1>2. t \in State
  BY <1>1 DEF State
<1>3. SameProcess(s, t) /\ SameVotes(s, t)
      /\ t.last = s.last /\ t.out = {} /\ t.composite = s.composite
  BY <1>1 DEF State, SameProcess, SameVotes, SameMessages
<1> HIDE DEF t
<1>4. ownStatement(t) = ownStatement(s) /\ t.id = s.id
  BY <1>3 DEF SameVotes, SameProcess, ownStatement
<1>5. Settled(t)
  BY <1>2, <1>3, <1>4 DEF Settled, SameVotes
<1> QED BY <1>3, <1>5 DEF Rests, t

LEMMA Stopped ==
    ASSUME NEW s, Settled(s), NEW t, t = stopNomination(s)
    PROVE  /\ Settled(t) /\ SameVotes(s, t) /\ t.id = s.id /\ t.err = s.err
           /\ t.last = s.last /\ t.out = s.out
<1>1. s \in State /\ t = [s EXCEPT !.started = FALSE]
  BY DEF Settled, stopNomination
<1>2. t \in State
  BY <1>1 DEF State
<1>3. SameVotes(s, t) /\ SameMessages(s, t) /\ t.id = s.id /\ t.err = s.err
  BY <1>1 DEF State, SameVotes, SameMessages
<1>4. Settled(t)
  BY <1>2, <1>3 DEF Settled, SameVotes, SameMessages, ownStatement
<1> QED BY <1>3, <1>4 DEF SameMessages

-----------------------------------------------------------------------------
(* The network.  A node restores what it says; nobody has heard it say     *)
(* more; a candidate is accepted by a quorum of the nodes.                 *)

TypeOK ==
    /\ node \in [Node -> State]
    /\ sent \in [Node -> SUBSET Statement]
    /\ persisted \in [Node -> Statement]
    /\ stopped \in [Node -> BOOLEAN]
    /\ boots \in [Node -> Nat]
    /\ \A n \in Node : boots[n] \in 1..Len(Proposal[n])

NodesRest ==
    \A n \in Node :
        /\ node[n].id = n /\ Settled(node[n]) /\ Fine(node[n]) /\ node[n].out = {}
        /\ persisted[n] = node[n].last

SentIsPersisted == \A n \in Node : \A st \in sent[n] : Covers(persisted[n], st)

HeardIsPersisted == \A n, m \in Node : Covers(persisted[m], node[n].N[m])

\* A quorum of n accepts v.
QuorumAccepts(n, v) ==
    \E Q \in SUBSET {k \in Node : v \in node[k].accepted} : Q \in slicesOf[n] /\ Quorate(Q)

CandidatesAccepted == \A n \in Node : \A v \in node[n].candidates : QuorumAccepts(n, v)

IInv == TypeOK /\ NodesRest /\ SentIsPersisted /\ HeardIsPersisted /\ CandidatesAccepted

\* A step of n after which it is in state t, has persisted st, and has sent what says
\* no more than st.
Moves(n, t, st) ==
    /\ node' = [node EXCEPT ![n] = t]
    /\ persisted' = [persisted EXCEPT ![n] = st]
    /\ sent' \in [Node -> SUBSET Statement]
    /\ \A m \in Node \ {n} : sent'[m] = sent[m]
    /\ \A x \in sent'[n] : Covers(st, x)
    /\ stopped' \in [Node -> BOOLEAN]
    /\ boots' \in [Node -> Nat] /\ \A m \in Node : boots'[m] \in 1..Len(Proposal[m])

LEMMA SettledLast ==
    ASSUME NEW s, Settled(s)
    PROVE  s.last.votes = s.votes /\ s.last.accepted = s.accepted
<1>1. s.last = [votes |-> s.votes, accepted |-> s.accepted]
  BY DEF Settled, ownStatement
<1> QED BY <1>1

\* A step in which a node says no less than before keeps the invariant.
LEMMA MovesKeeps ==
    ASSUME IInv, NEW n \in Node, NEW t, NEW st, Moves(n, t, st),
           t.id = n, Settled(t), Fine(t), t.out = {}, st = t.last,
           Covers(st, persisted[n]),
           \A m \in Node \ {n} : Covers(persisted[m], t.N[m]),
           \A v \in t.candidates \ node[n].candidates : Ratified(t, v)
    PROVE  IInv'
<1>1. t \in State /\ st \in Statement
  BY DEF Settled, State
<1>2. /\ node' \in [Node -> State] /\ node'[n] = t
      /\ \A m \in Node : m # n => node'[m] = node[m]
  BY <1>1 DEF IInv, TypeOK, Moves
<1>3. /\ persisted' \in [Node -> Statement] /\ persisted'[n] = st
      /\ \A m \in Node : m # n => persisted'[m] = persisted[m]
  BY <1>1 DEF IInv, TypeOK, Moves
<1>4. TypeOK'
  BY <1>2, <1>3 DEF Moves, TypeOK
<1>5. NodesRest'
  <2> SUFFICES ASSUME NEW m \in Node
               PROVE  /\ node'[m].id = m /\ Settled(node'[m]) /\ Fine(node'[m])
                      /\ node'[m].out = {} /\ persisted'[m] = node'[m].last
    BY DEF NodesRest
  <2>1. CASE m = n
    BY <1>2, <1>3, <2>1
  <2>2. CASE m # n
    BY <1>2, <1>3, <2>2 DEF IInv, NodesRest
  <2> QED BY <2>1, <2>2
<1>6. SentIsPersisted'
  <2> SUFFICES ASSUME NEW m \in Node, NEW x \in sent'[m] PROVE Covers(persisted'[m], x)
    BY DEF SentIsPersisted
  <2>1. CASE m = n
    BY <1>3, <2>1 DEF Moves
  <2>2. CASE m # n
    BY <1>3, <2>2 DEF IInv, SentIsPersisted, Moves
  <2> QED BY <2>1, <2>2
<1>7. \A m \in Node : Covers(persisted'[m], persisted[m])
  <2>1. \A m \in Node : Covers(persisted[m], persisted[m])
    BY DEF Covers
  <2> QED BY <1>3, <2>1
<1>8. HeardIsPersisted'
  <2> SUFFICES ASSUME NEW k \in Node, NEW m \in Node PROVE Covers(persisted'[m], node'[k].N[m])
    BY DEF HeardIsPersisted
  <2>1. CASE k # n
    <3>1. Covers(persisted[m], node[k].N[m])
      BY DEF IInv, HeardIsPersisted
    <3> QED BY <1>2, <1>7, <2>1, <3>1 DEF Covers
  <2>2. CASE k = n /\ m # n
    BY <1>2, <1>3, <2>2
  <2>3. CASE k = n /\ m = n
    <3>1. node'[k].N[m] = ownStatement(t) /\ persisted'[m] = ownStatement(t)
      BY <1>2, <1>3, <2>3 DEF Settled
    <3> QED BY <3>1 DEF Covers
  <2> QED BY <2>1, <2>2, <2>3
<1>9. \A m \in Node : node[m].accepted \subseteq node'[m].accepted
  <2>1. \A m \in Node : persisted[m].accepted = node[m].accepted
    BY SettledLast DEF IInv, NodesRest
  <2>2. st.accepted = t.accepted
    BY SettledLast
  <2> QED BY <1>2, <2>1, <2>2 DEF Covers
<1>10. CandidatesAccepted'
  <2> SUFFICES ASSUME NEW m \in Node, NEW v \in node'[m].candidates
               PROVE  QuorumAccepts(m, v)'
    BY DEF CandidatesAccepted
  <2>1. CASE v \in node[m].candidates
    <3>1. PICK Q \in SUBSET {k \in Node : v \in node[k].accepted} : Q \in slicesOf[m] /\ Quorate(Q)
      BY <2>1 DEF IInv, CandidatesAccepted, QuorumAccepts
    <3>2. Q \in SUBSET {k \in Node : v \in node'[k].accepted}
      BY <1>9
    <3> QED BY <3>1, <3>2 DEF QuorumAccepts
  <2>2. CASE v \notin node[m].candidates
    <3>1. m = n /\ Ratified(t, v)
      BY <1>2, <2>2
    <3>2. PICK Q \in SUBSET Accepting(t, v) : Q \in slicesOf[n] /\ Quorate(Q)
      BY <3>1 DEF Ratified
    <3>3. ASSUME NEW k \in Q PROVE k \in Node /\ v \in node'[k].accepted
      <4>1. k \in Node /\ v \in t.N[k].accepted
        BY DEF Accepting
      <4>2. Covers(persisted'[k], t.N[k])
        BY <1>2, <1>8, <4>1 DEF HeardIsPersisted
      <4>3. persisted'[k].accepted = node'[k].accepted
        BY <1>5, <4>1, SettledLast DEF NodesRest
      <4> QED BY <4>1, <4>2, <4>3 DEF Covers
    <3>4. Q \in SUBSET {k \in Node : v \in node'[k].accepted}
      BY <3>3
    <3> QED BY <3>1, <3>2, <3>4 DEF QuorumAccepts
  <2> QED BY <2>1, <2>2
<1> QED BY <1>4, <1>5, <1>6, <1>8, <1>10 DEF IInv

LEMMA FinishIs ==
    ASSUME NEW n \in Node, NEW s, Settled(s), Finish(n, s)
    PROVE  \E t : /\ Rests(s, t) /\ node' = [node EXCEPT ![n] = t]
                  /\ sent' = [sent EXCEPT ![n] = IF KeepOld \/ s.out = {}
                                                 THEN @ \cup s.out ELSE {s.last}]
                  /\ persisted' = [persisted EXCEPT ![n] = s.last]
<1> DEFINE t == [s EXCEPT !.out = {}, !.res = ""]
<1>1. Rests(s, t)
  BY NoExceptionType, RestsWith, Zenon
<1>2. /\ node' = [node EXCEPT ![n] = t]
      /\ sent' = [sent EXCEPT ![n] = IF KeepOld \/ s.out = {}
                                     THEN @ \cup s.out ELSE {s.last}]
      /\ persisted' = [persisted EXCEPT ![n] = s.last]
  BY Zenon DEF Finish
<1> HIDE DEF t
<1> QED BY <1>1, <1>2

LEMMA FinishKeeps ==
    ASSUME IInv, NEW n \in Node, NEW s, Handled(node[n], s), Finish(n, s),
           \A m \in Node \ {n} : Covers(persisted[m], s.N[m]),
           UNCHANGED <<boots, stopped>>
    PROVE  IInv'
<1>1. Settled(s) /\ s.id = n /\ Fine(node[n]) /\ Settled(node[n]) /\ persisted[n] = node[n].last
  BY DEF Handled, IInv, NodesRest
<1>2. PICK t : /\ Rests(s, t) /\ node' = [node EXCEPT ![n] = t]
               /\ sent' = [sent EXCEPT ![n] = IF KeepOld \/ s.out = {}
                                              THEN @ \cup s.out ELSE {s.last}]
               /\ persisted' = [persisted EXCEPT ![n] = s.last]
  BY <1>1, FinishIs
<1>3. /\ Settled(t) /\ t.id = n /\ t.err = s.err /\ t.out = {} /\ t.last = s.last
      /\ t.N = s.N /\ t.candidates = s.candidates
  BY <1>1, <1>2 DEF Rests, SameProcess, SameVotes
<1>4. Fine(t)
  <2>1. t.err = node[n].err
    BY <1>3 DEF Handled
  <2> QED BY <1>1, <2>1, Zenon DEF Fine
<1>5. Covers(s.last, persisted[n])
  <2>1. s.last.votes = s.votes /\ s.last.accepted = s.accepted
    BY <1>1, SettledLast
  <2>2. persisted[n].votes = node[n].votes /\ persisted[n].accepted = node[n].accepted
    BY <1>1, SettledLast
  <2> QED BY <2>1, <2>2 DEF Handled, Covers
<1>6. s.last \in Statement /\ s.last = ownStatement(s)
  BY <1>1 DEF Settled, State
<1>7. \A x \in s.out : x = s.last
  BY <1>6 DEF Handled
<1>8. s.out \in SUBSET Statement
  BY <1>6, <1>7
<1>9. /\ sent' \in [Node -> SUBSET Statement]
      /\ \A m \in Node \ {n} : sent'[m] = sent[m]
      /\ \A x \in sent'[n] : x \in sent[n] \/ x = s.last
  <2> DEFINE Z == IF KeepOld \/ s.out = {} THEN sent[n] \cup s.out ELSE {s.last}
  <2>1. sent \in [Node -> SUBSET Statement]
    BY DEF IInv, TypeOK
  <2>2. Z \in SUBSET Statement /\ \A x \in Z : x \in sent[n] \/ x = s.last
    BY <1>6, <1>7, <1>8, <2>1
  <2>3. sent' = [sent EXCEPT ![n] = Z]
    BY <1>2
  <2> HIDE DEF Z
  <2> QED BY <2>1, <2>2, <2>3
<1>10. \A x \in sent'[n] : Covers(s.last, x)
  <2> TAKE x \in sent'[n]
  <2>1. CASE x = s.last
    BY <2>1 DEF Covers
  <2>2. CASE x \in sent[n]
    <3>1. Covers(persisted[n], x)
      BY <2>2 DEF IInv, SentIsPersisted
    <3> QED BY <1>5, <3>1 DEF Covers
  <2> QED BY <1>9, <2>1, <2>2
<1>11. Moves(n, t, s.last)
  BY <1>2, <1>9, <1>10 DEF Moves, IInv, TypeOK
<1>12. \A v \in t.candidates \ node[n].candidates : Ratified(t, v)
  <2> TAKE v \in t.candidates \ node[n].candidates
  <2>1. Ratified(s, v)
    BY <1>3 DEF Handled, NewAreRatified
  <2> QED BY <1>1, <1>3, <2>1, RatifiedStays
<1>13. \A m \in Node \ {n} : Covers(persisted[m], t.N[m])
  BY <1>3
<1> QED BY <1>3, <1>4, <1>5, <1>11, <1>12, <1>13, MovesKeeps

LEMMA NominateKeeps ==
    ASSUME IInv, NEW n \in Node, NEW value \in Value, NEW timedout \in BOOLEAN,
           Finish(n, nominate(node[n], value, timedout)), UNCHANGED <<boots, stopped>>
    PROVE  IInv'
<1> DEFINE s == nominate(node[n], value, timedout)
<1>1. Settled(node[n]) /\ node[n].out = {} /\ node[n].id = n
  BY DEF IInv, NodesRest
<1>2. Handled(node[n], s) /\ \A m \in Node \ {n} : s.N[m] = node[n].N[m]
  BY <1>1, Nominated
<1> HIDE DEF s
<1>3. \A m \in Node \ {n} : Covers(persisted[m], s.N[m])
  BY <1>2 DEF IInv, HeardIsPersisted
<1>4. Finish(n, s)
  BY DEF s
<1> QED BY <1>2, <1>3, <1>4, FinishKeeps

LEMMA DeliverKeeps ==
    ASSUME IInv, NEW n \in Node, NEW m \in Node, m # n, NEW st \in sent[m], Deliver(n, m, st)
    PROVE  IInv'
<1> DEFINE s == processEnvelope(node[n], m, st)
<1>1. Settled(node[n]) /\ node[n].out = {} /\ node[n].id = n
  BY DEF IInv, NodesRest
<1>2. st \in Statement /\ Covers(persisted[m], st)
  BY DEF IInv, TypeOK, SentIsPersisted
<1>3. Finish(n, s) /\ UNCHANGED <<boots, stopped>>
  BY DEF Deliver
<1>4. Handled(node[n], s) /\ Recalls(node[n], s, m, st)
  BY <1>1, <1>2, Received
<1> HIDE DEF s
<1>5. \A k \in Node \ {n} : Covers(persisted[k], s.N[k])
  BY <1>1, <1>2, <1>4 DEF Recalls, IInv, HeardIsPersisted
<1> QED BY <1>3, <1>4, <1>5, FinishKeeps

LEMMA StopKeeps ==
    ASSUME IInv, NEW n \in Node, StopNomination(n)
    PROVE  IInv'
<1> DEFINE t == stopNomination(node[n])
<1>1. Settled(node[n]) /\ Fine(node[n]) /\ node[n].out = {} /\ node[n].id = n
      /\ persisted[n] = node[n].last
  BY DEF IInv, NodesRest
<1>2. /\ Settled(t) /\ SameVotes(node[n], t) /\ t.id = n /\ t.err = node[n].err
      /\ t.last = persisted[n] /\ t.out = {}
  BY <1>1, Stopped
<1>3. node' = [node EXCEPT ![n] = t] /\ stopped' = [stopped EXCEPT ![n] = TRUE]
      /\ UNCHANGED <<sent, persisted, boots>>
  BY DEF StopNomination
<1> HIDE DEF t
<1>4. Fine(t)
  BY <1>1, <1>2, Zenon DEF Fine
<1>5. Moves(n, t, persisted[n])
  <2>1. persisted' = [persisted EXCEPT ![n] = persisted[n]]
    BY <1>3 DEF IInv, TypeOK
  <2>2. stopped' \in [Node -> BOOLEAN]
    BY <1>3 DEF IInv, TypeOK
  <2> QED BY <1>3, <2>1, <2>2 DEF Moves, IInv, TypeOK, SentIsPersisted
<1>6. Covers(persisted[n], persisted[n])
  BY DEF Covers
<1>7. \A m \in Node \ {n} : Covers(persisted[m], t.N[m])
  BY <1>2 DEF SameVotes, IInv, HeardIsPersisted
<1>8. \A v \in t.candidates \ node[n].candidates : Ratified(t, v)
  BY <1>2 DEF SameVotes
<1> QED BY <1>2, <1>4, <1>5, <1>6, <1>7, <1>8, MovesKeeps

LEMMA CrashKeeps ==
    ASSUME IInv, NEW n \in Node, CrashRestart(n)
    PROVE  IInv'
<1> DEFINE t == setStateFromEnvelope(n, persisted[n])
<1>1. Settled(node[n]) /\ persisted[n] = node[n].last /\ persisted[n] \in Statement
  BY DEF IInv, NodesRest, TypeOK
<1>2. persisted[n].accepted \subseteq persisted[n].votes
  BY <1>1, SettledLast DEF Settled
<1>3. /\ Settled(t) /\ Fine(t) /\ t.id = n /\ t.out = {} /\ t.candidates = {}
      /\ t.last = persisted[n]
      /\ \A m \in Node : t.N[m] = IF m = n THEN persisted[n] ELSE NoStatement
  BY <1>1, <1>2, Restored
<1>4. /\ node' = [node EXCEPT ![n] = t] /\ boots' = [boots EXCEPT ![n] = @ + 1]
      /\ boots[n] < Len(Proposal[n]) /\ UNCHANGED <<sent, persisted, stopped>>
  BY DEF CrashRestart
<1> HIDE DEF t
<1>5. boots' \in [Node -> Nat] /\ \A m \in Node : boots'[m] \in 1..Len(Proposal[m])
  <2>1. boots \in [Node -> Nat] /\ \A m \in Node : boots[m] \in 1..Len(Proposal[m])
    BY DEF IInv, TypeOK
  <2>2. \A m \in Node : Len(Proposal[m]) \in Nat
    BY ProposalAssumption
  <2>3. boots'[n] = boots[n] + 1 /\ \A m \in Node : m # n => boots'[m] = boots[m]
    BY <1>4, <2>1
  <2>4. boots[n] + 1 \in 1..Len(Proposal[n])
    BY <1>4, <2>1, <2>2
  <2> QED BY <1>4, <2>1, <2>3, <2>4
<1>6. Moves(n, t, persisted[n])
  <2>1. persisted' = [persisted EXCEPT ![n] = persisted[n]]
    BY <1>4 DEF IInv, TypeOK
  <2> QED BY <1>4, <1>5, <2>1 DEF Moves, IInv, TypeOK, SentIsPersisted
<1>7. Covers(persisted[n], persisted[n])
  BY DEF Covers
<1>8. \A m \in Node \ {n} : Covers(persisted[m], t.N[m])
  BY <1>3, NoStatementType DEF IInv, TypeOK
<1> QED BY <1>3, <1>6, <1>7, <1>8, MovesKeeps

LEMMA InitInv == Init => IInv
<1> SUFFICES ASSUME Init PROVE IInv
  OBVIOUS
<1>1. \A n \in Node : /\ node[n] = InitState(n) /\ sent[n] = {} /\ persisted[n] = NoStatement
                      /\ boots[n] = 1 /\ stopped[n] = FALSE
  BY DEF Init
<1>2. \A n \in Node : /\ Settled(node[n]) /\ Fine(node[n]) /\ node[n].id = n
                      /\ node[n].out = {} /\ node[n].last = NoStatement
                      /\ Boots(n, node[n])
  BY <1>1, InitSettled, InitStateIs
<1>3. NodesRest
  BY <1>1, <1>2 DEF NodesRest
<1>4. TypeOK
  <2>1. \A n \in Node : Len(Proposal[n]) \in Nat /\ Len(Proposal[n]) >= 1
    BY ProposalAssumption
  <2>2. \A n \in Node : node[n] \in State
    BY <1>2 DEF Settled
  <2>3. \A n \in Node : boots[n] \in Nat /\ boots[n] \in 1..Len(Proposal[n])
    BY <1>1, <2>1
  <2>4. node = [n \in Node |-> node[n]]
    BY DEF Init
  <2>5. /\ sent = [n \in Node |-> sent[n]] /\ persisted = [n \in Node |-> persisted[n]]
        /\ boots = [n \in Node |-> boots[n]] /\ stopped = [n \in Node |-> stopped[n]]
    BY DEF Init
  <2>6. /\ node \in [Node -> State] /\ sent \in [Node -> SUBSET Statement]
        /\ persisted \in [Node -> Statement] /\ stopped \in [Node -> BOOLEAN]
        /\ boots \in [Node -> Nat]
    BY <1>1, <2>2, <2>3, <2>4, <2>5, NoStatementType
  <2> QED BY <2>3, <2>6 DEF TypeOK
<1>5. SentIsPersisted
  BY <1>1 DEF SentIsPersisted
<1>6. HeardIsPersisted
  <2> SUFFICES ASSUME NEW n \in Node, NEW m \in Node PROVE Covers(persisted[m], node[n].N[m])
    BY DEF HeardIsPersisted
  <2>1. node[n].N[m] = NoStatement
    BY <1>2 DEF Boots
  <2> QED BY <1>1, <2>1, NoStatementType
<1>7. CandidatesAccepted
  <2>1. \A n \in Node : node[n].candidates = {}
    BY <1>2 DEF Boots
  <2> QED BY <2>1 DEF CandidatesAccepted
<1> QED BY <1>3, <1>4, <1>5, <1>6, <1>7 DEF IInv

LEMMA StepInv == IInv /\ [Next]_vars => IInv'
<1> SUFFICES ASSUME IInv, [Next]_vars PROVE IInv'
  OBVIOUS
<1>1. CASE UNCHANGED vars
  BY <1>1 DEF vars, IInv, TypeOK, NodesRest, SentIsPersisted, HeardIsPersisted,
              CandidatesAccepted, QuorumAccepts
<1>2. ASSUME NEW n \in Node, Nominate(n) PROVE IInv'
  <2>1. /\ Finish(n, nominate(node[n], Proposal[n][boots[n]], FALSE))
        /\ UNCHANGED <<boots, stopped>>
    BY <1>2 DEF Nominate
  <2>2. Proposal[n][boots[n]] \in Value
    <3>1. Proposal[n] \in Seq(Value) /\ boots[n] \in 1..Len(Proposal[n])
      BY ProposalAssumption DEF IInv, TypeOK
    <3> QED BY <3>1
  <2> QED BY <2>1, <2>2, NominateKeeps
<1>3. ASSUME NEW n \in Node, TimerExpired(n) PROVE IInv'
  <2>1. /\ Finish(n, nominate(node[n], node[n].value, TRUE)) /\ node[n].value # 0
        /\ UNCHANGED <<boots, stopped>>
    BY <1>3 DEF TimerExpired, CanTimeOut
  <2>2. node[n].value \in Value
    <3>1. node[n] \in State
      BY DEF IInv, TypeOK
    <3> QED BY <2>1, <3>1 DEF State
  <2> QED BY <2>1, <2>2, NominateKeeps
<1>4. ASSUME NEW n \in Node, Receive(n) PROVE IInv'
  BY <1>4, DeliverKeeps DEF Receive
<1>5. ASSUME NEW n \in Node, StopNomination(n) PROVE IInv'
  BY <1>5, StopKeeps
<1>6. ASSUME NEW n \in Node, CrashRestart(n) PROVE IInv'
  BY <1>6, CrashKeeps
<1> QED BY <1>1, <1>2, <1>3, <1>4, <1>5, <1>6 DEF Next

\* Nomination keeps the invariant, through crashes.
THEOREM NominationInvariant == Spec => []IInv
<1>1. Init => IInv
  BY InitInv
<1>2. IInv /\ [Next]_vars => IInv'
  BY StepInv
<1> QED BY <1>1, <1>2, PTL DEF Spec

\* emitNomination never throws "moved to a bad state (nomination)"; a node votes for what
\* it accepts, accepts its candidates and has combined them all.
THEOREM NominationStaysSane == Spec => []NoBadState
<1>1. IInv => NoBadState
  <2> SUFFICES ASSUME IInv, NEW n \in Node
               PROVE  /\ node[n].err = "" /\ node[n].accepted \subseteq node[n].votes
                      /\ node[n].candidates \subseteq node[n].accepted
                      /\ node[n].composite = node[n].candidates
    BY Zenon DEF NoBadState
  <2>1. Settled(node[n]) /\ Fine(node[n])
    BY DEF IInv, NodesRest
  <2>2. /\ node[n].accepted \subseteq node[n].votes
        /\ node[n].candidates \subseteq node[n].accepted
        /\ node[n].composite = node[n].candidates
    BY <2>1 DEF Settled
  <2> QED BY <2>1, <2>2, Zenon DEF Fine
<1> QED BY <1>1, NominationInvariant, PTL

\* Through crashes and restarts a node stands by every statement it has sent: the one it
\* restores and its present votes say as much.
THEOREM SentNominationsStand == Spec => []NominationsStand
<1>1. IInv => NominationsStand
  <2> SUFFICES ASSUME IInv, NEW n \in Node, NEW st \in sent[n]
               PROVE  /\ st = persisted[n] \/ isNewerStatement(st, persisted[n])
                      /\ st.votes \subseteq node[n].votes
                      /\ st.accepted \subseteq node[n].accepted
    BY DEF NominationsStand
  <2>1. Covers(persisted[n], st)
    BY DEF IInv, SentIsPersisted
  <2>2. persisted[n].votes = node[n].votes /\ persisted[n].accepted = node[n].accepted
    BY SettledLast DEF IInv, NodesRest
  <2> QED BY <2>1, <2>2, NewerIs DEF Covers
<1> QED BY <1>1, NominationInvariant, PTL

\* A candidate of one node is accepted by nodes that block every node.
THEOREM CandidatesAreAccepted == QuorumsBlock => (Spec => []CandidatesBlockEveryone)
<1> SUFFICES ASSUME QuorumsBlock PROVE Spec => []CandidatesBlockEveryone
  OBVIOUS
<1>1. IInv => CandidatesBlockEveryone
  <2> SUFFICES ASSUME IInv, NEW n \in Node, NEW v \in node[n].candidates,
                      NEW m \in Node
               PROVE  {k \in Node : v \in node[k].accepted} \in vblockedBy[m]
    BY DEF CandidatesBlockEveryone
  <2> DEFINE A == {k \in Node : v \in node[k].accepted}
  <2>1. PICK Q \in SUBSET A : Q \in slicesOf[n] /\ Quorate(Q)
    BY DEF IInv, CandidatesAccepted, QuorumAccepts
  <2>2. A \in SUBSET Node
    OBVIOUS
  <2> HIDE DEF A
  <2>3. Q \in SUBSET Node /\ Q \in vblockedBy[m]
    BY <2>1, <2>2 DEF QuorumsBlock
  <2>4. A \in vblockedBy[m]
    BY <2>1, <2>2, <2>3, QuorumSetsAssumption
  <2> QED BY <2>4 DEF A
<1> QED BY <1>1, NominationInvariant, PTL
=============================================================================
