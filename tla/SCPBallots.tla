----------------------------- MODULE SCPBallots -----------------------------
(***************************************************************************)
(* Ballots and ballot statements (scp/BallotProtocol.cpp): their orders,   *)
(* what makes a statement sane, and the claims a statement stands for.     *)
(*                                                                         *)
(* A ballot is a pair <<counter, value>>.  Values are positive naturals    *)
(* ordered as the opaque byte strings are; 0 is the empty value.  Null is  *)
(* both an unset ballot pointer and SCPBallot(), counter 0 and no value.   *)
(*                                                                         *)
(* The three statement types share one record: in a CONFIRM "prepared" is  *)
(* <<nPrepared, value>> and nC is nCommit; in an EXTERNALIZE "ballot" is   *)
(* the commit ballot and nC its counter.                                   *)
(***************************************************************************)
EXTENDS Naturals

CONSTANTS Value,        \* the values that can be nominated: positive naturals
          UINT32_MAX    \* greatest ballot counter

ASSUME ValueAssumption == Value \subseteq Nat \ {0}
ASSUME MaxAssumption   == UINT32_MAX \in Nat \ {0}

Null == <<0, 0>>

Counter(b) == b[1]
Val(b) == b[2]

Ballot == (1..UINT32_MAX) \X Value

\* compareBallots(b1, b2) < 0: by counter, then by value.
Less(b1, b2) ==
    \/ b1[1] < b2[1]
    \/ b1[1] = b2[1] /\ b1[2] < b2[2]

LessEq(b1, b2) == Less(b1, b2) \/ b1 = b2

areBallotsCompatible(b1, b2) == b1[2] = b2[2]

areBallotsLessAndCompatible(b1, b2) ==
    LessEq(b1, b2) /\ areBallotsCompatible(b1, b2)

areBallotsLessAndIncompatible(b1, b2) ==
    LessEq(b1, b2) /\ ~ areBallotsCompatible(b1, b2)

-----------------------------------------------------------------------------

StatementType == {"PREPARE", "CONFIRM", "EXTERNALIZE"}

Statement == [type          : StatementType,
              ballot        : Ballot \cup {Null},
              prepared      : ((0..UINT32_MAX) \X Value) \cup {Null},
              preparedPrime : Ballot \cup {Null},
              nC            : 0..UINT32_MAX,
              nH            : 0..UINT32_MAX]

\* No statement is known of a node.
NoStatement == [type |-> "NONE"]

PrepareStatement(b, p, pp, nC, nH) ==
    [type |-> "PREPARE", ballot |-> b, prepared |-> p, preparedPrime |-> pp,
     nC |-> nC, nH |-> nH]

ConfirmStatement(b, nPrepared, nCommit, nH) ==
    [type |-> "CONFIRM", ballot |-> b, prepared |-> <<nPrepared, Val(b)>>,
     preparedPrime |-> Null, nC |-> nCommit, nH |-> nH]

ExternalizeStatement(commit, nH) ==
    [type |-> "EXTERNALIZE", ballot |-> commit, prepared |-> Null,
     preparedPrime |-> Null, nC |-> Counter(commit), nH |-> nH]

Rank(type) == CASE type = "PREPARE" -> 0 [] type = "CONFIRM" -> 1 [] OTHER -> 2

\* isNewerStatement(oldst, st): by type, then (b, p, p', h) lexicographically.
\* In a CONFIRM p' is absent and p has b's value, so the same order compares
\* (b, nPrepared, nH).  There is one EXTERNALIZE.
isNewerStatement(oldst, st) ==
    \/ Rank(oldst.type) < Rank(st.type)
    \/ /\ oldst.type = st.type
       /\ st.type # "EXTERNALIZE"
       /\ \/ Less(oldst.ballot, st.ballot)
          \/ /\ oldst.ballot = st.ballot
             /\ \/ Less(oldst.prepared, st.prepared)
                \/ /\ oldst.prepared = st.prepared
                   /\ \/ Less(oldst.preparedPrime, st.preparedPrime)
                      \/ /\ oldst.preparedPrime = st.preparedPrime
                         /\ oldst.nH < st.nH

\* isStatementSane, for a sender whose quorum set is known and sane.
isStatementSane(st, self) ==
    \/ /\ st.type = "PREPARE"
       /\ self \/ Counter(st.ballot) > 0
       /\ \/ st.prepared = Null \/ st.preparedPrime = Null
          \/ areBallotsLessAndIncompatible(st.preparedPrime, st.prepared)
       /\ st.nH = 0 \/ (st.prepared # Null /\ st.nH <= Counter(st.prepared))
       /\ st.nC = 0 \/ (st.nH # 0 /\ Counter(st.ballot) >= st.nH /\ st.nH >= st.nC)
    \/ /\ st.type = "CONFIRM"
       /\ Counter(st.ballot) > 0
       /\ st.nH <= Counter(st.ballot)
       /\ st.nC <= st.nH
    \/ /\ st.type = "EXTERNALIZE"
       /\ Counter(st.ballot) > 0
       /\ st.nH >= st.nC

\* getWorkingBallot; only its value is used.
workingValue(st) == Val(st.ballot)

\* The values validateValues asks the driver about.
statementValues(st) ==
    ({Val(st.ballot)} \cup
        IF st.type = "PREPARE" THEN {Val(st.prepared)} ELSE {}) \ {0}

-----------------------------------------------------------------------------
(* What a statement claims. *)

\* st votes to prepare ballot (the first argument of federatedAccept in
\* attemptPreparedAccept).
votesPrepare(ballot, st) ==
    IF st.type = "PREPARE"
    THEN areBallotsLessAndCompatible(ballot, st.ballot)
    ELSE areBallotsCompatible(ballot, st.ballot)

\* st claims that ballot is accepted as prepared.
hasPreparedBallot(ballot, st) ==
    CASE st.type = "PREPARE" ->
            \/ st.prepared # Null /\ areBallotsLessAndCompatible(ballot, st.prepared)
            \/ st.preparedPrime # Null /\ areBallotsLessAndCompatible(ballot, st.preparedPrime)
      [] st.type = "CONFIRM" -> areBallotsLessAndCompatible(ballot, st.prepared)
      [] OTHER -> areBallotsCompatible(ballot, st.ballot)

\* st votes to commit value v at the counters lo..hi (attemptAcceptCommit).
votesCommit(v, lo, hi, st) ==
    /\ v = Val(st.ballot)
    /\ IF st.type = "PREPARE"
       THEN st.nC # 0 /\ st.nC <= lo /\ hi <= st.nH
       ELSE st.nC <= lo

\* st claims that commit of v at lo..hi is accepted.
commitPredicate(v, lo, hi, st) ==
    /\ v = Val(st.ballot)
    /\ \/ st.type = "CONFIRM" /\ st.nC <= lo /\ hi <= st.nH
       \/ st.type = "EXTERNALIZE" /\ st.nC <= lo

\* The counters getCommitBoundariesFromStatements takes from st for value v.
commitBoundaries(v, st) ==
    IF v # Val(st.ballot) THEN {}
    ELSE CASE st.type = "PREPARE" -> IF st.nC # 0 THEN {st.nC, st.nH} ELSE {}
           [] st.type = "CONFIRM" -> {st.nC, st.nH}
           [] OTHER -> {st.nC, st.nH, UINT32_MAX}

\* The counter attemptBump and checkHeardFromQuorum go by.
statementCounter(st) ==
    IF st.type = "EXTERNALIZE" THEN UINT32_MAX ELSE Counter(st.ballot)
=============================================================================
