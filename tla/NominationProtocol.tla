------------------------- MODULE NominationProtocol -------------------------
(***************************************************************************)
(* Nomination of values for one slot on one node                           *)
(* (scp/NominationProtocol.cpp).  The class is a record s and each method  *)
(* an operator from records to records: a handler, with the recursion      *)
(* through which a node processes its own statements, is one step.         *)
(*                                                                         *)
(*   id                the local node                                      *)
(*   started round     mNominationStarted mRoundNumber                     *)
(*   votes accepted    mVotes mAccepted                                    *)
(*   candidates        mCandidates                                         *)
(*   N                 mLatestNominations                                  *)
(*   last              mLastEnvelope                                       *)
(*   leaders           mRoundLeaders                                       *)
(*   composite         the candidates mLatestCompositeCandidate was last   *)
(*                     combined from: combineCandidates is a function of   *)
(*                     that set                                            *)
(*   value             the value the NOMINATION_TIMER nominates again      *)
(*                     (0: the timer is not armed)                         *)
(*   err res out       first exception, result of processEnvelope, and     *)
(*                     statements emitted by the handler that is running   *)
(*                                                                         *)
(* The node is a validator, so Slot::mFullyValidated holds.  What          *)
(* scp/LocalNode.cpp computes from the quorum sets (module QuorumSets) is  *)
(* given by constants.                                                     *)
(***************************************************************************)
EXTENDS Naturals, FiniteSets, FiniteSetsExt

CONSTANTS Node,        \* node identifiers
          slicesOf,    \* [Node -> SUBSET SUBSET Node]: the sets that pass
                       \* isQuorumSlice for the node's quorum set
          vblockedBy,  \* [Node -> SUBSET SUBSET Node]: those that pass isVBlocking
          weightsOf,   \* [Node -> [set of nodes -> Nat]]: getNodeWeight for each node
                       \* that the quorum set, normalised without its owner, names
          Value,       \* values, positive numbers
          Valid,       \* [Node -> SUBSET Value]: what validateValue fully validates
          Extract,     \* [Node -> [Value -> Value \cup {0}]]: extractValidValue,
                       \* 0 for the empty value
          Rounds,      \* bound: the hashes repeat after this many rounds
          HashNode,    \* [1..Rounds -> [Node -> Nat]]: hashNode(false, _)
          HashPriority,\* [1..Rounds -> [Node -> Nat]]: hashNode(true, _)
          HashValue,   \* [0..Rounds -> [Value -> Nat]]: hashValue (round 0 is
                       \* that of a nomination that has not started)
          UINT64_MAX

\* A set that contains a slice is one, and a set that contains a v-blocking set is one.
ASSUME QuorumSetsAssumption ==
    /\ IsFiniteSet(Node)
    /\ \A n \in Node :
          /\ weightsOf[n] \in [DOMAIN weightsOf[n] -> Nat] /\ DOMAIN weightsOf[n] \subseteq Node
          /\ \A S, T \in SUBSET Node :
                /\ S \in slicesOf[n] /\ S \subseteq T => T \in slicesOf[n]
                /\ S \in vblockedBy[n] /\ S \subseteq T => T \in vblockedBy[n]

ASSUME ValuesAssumption ==
    /\ IsFiniteSet(Value) /\ Value \subseteq Nat \ {0}
    /\ Valid \in [Node -> SUBSET Value]
    /\ Extract \in [Node -> [Value -> Value \cup {0}]]
    /\ Rounds \in Nat \ {0}
    /\ HashValue \in [0..Rounds -> [Value -> Nat]]

Statement == [votes : SUBSET Value, accepted : SUBSET Value]

NoStatement == [votes |-> {}, accepted |-> {}]

InitState(n) ==
    [id |-> n, started |-> FALSE, round |-> 0, votes |-> {}, accepted |-> {},
     candidates |-> {}, N |-> [m \in Node |-> NoStatement], last |-> NoStatement,
     leaders |-> {}, composite |-> {}, value |-> 0, err |-> "", res |-> "", out |-> {}]

\* Both sets include the old ones and one of them grew.
isNewerStatement(old, st) ==
    /\ old.votes \subseteq st.votes
    /\ old.accepted \subseteq st.accepted
    /\ st # old

isSane(st) == st.votes \cup st.accepted # {}

Result == {"", "VALID", "INVALID"}

Exception == {"", "moved to a bad state (nomination)"}

State ==
    [id : Node, started : BOOLEAN, round : 0..Rounds, votes : SUBSET Value,
     accepted : SUBSET Value, candidates : SUBSET Value, N : [Node -> Statement],
     last : Statement, leaders : SUBSET Node, composite : SUBSET Value,
     value : Value \cup {0}, err : Exception, res : Result, out : SUBSET Statement]

\* A call of processEnvelope.
Call == [state : State, from : Node, st : Statement]

-----------------------------------------------------------------------------
(* Federated voting on the latest nominations (Slot.cpp). *)

\* isQuorum's loop: the nodes that the others do not satisfy are dropped until there
\* are none.  Every pass but the last drops a node.
keepSatisfied(P) ==
    LET kept[k \in 0..Cardinality(P)] ==
            IF k = 0 THEN P ELSE {m \in kept[k - 1] : kept[k - 1] \in slicesOf[m]}
    IN  kept[Cardinality(P)]

federatedRatify_someVote(s, voted) == voted # {}   \* mutant: one node suffices

federatedRatify(s, voted) == keepSatisfied(voted) \in slicesOf[s.id]

federatedAccept(s, voted, accepted) ==
    \/ accepted \in vblockedBy[s.id]
    \/ federatedRatify(s, accepted \cup voted)

Accepting(s, v) == {m \in Node : v \in s.N[m].accepted}

Voting(s, v) == {m \in Node : v \in s.N[m].votes}

-----------------------------------------------------------------------------
(* Leaders of a round. *)

getNodePriority(s, n) ==
    LET w == IF n = s.id THEN UINT64_MAX ELSE weightsOf[s.id][n]
    IN  IF HashNode[s.round][n] < w THEN HashPriority[s.round][n] ELSE 0

\* The local node leads unless another one has a higher priority; nodes of the
\* same, positive priority lead together.
updateRoundLeaders(s) ==
    LET pri   == [n \in DOMAIN weightsOf[s.id] \cup {s.id} |-> getNodePriority(s, n)]
        top   == Max({pri[n] : n \in DOMAIN pri})
        equal == {n \in DOMAIN pri : pri[n] = top /\ (top > 0 \/ n = s.id)}
    IN  [s EXCEPT !.leaders = equal]

\* What the local node would vote for in place of v: v, a variation of it that
\* it considers valid, or nothing.
ToNominate(n, v) == IF v \in Valid[n] THEN v ELSE Extract[n][v]

\* The value of the statement with the highest hash that we do not vote for yet.
getNewValueFromNomination(s, st) ==
    LET new == {ToNominate(s.id, v) : v \in st.votes \cup st.accepted} \ ({0} \cup s.votes)
    IN  IF new = {} THEN 0
        ELSE CHOOSE v \in new : \A w \in new : HashValue[s.round][w] <= HashValue[s.round][v]

-----------------------------------------------------------------------------
(* Handlers. *)

recordEnvelope(s, from, st) == [s EXCEPT !.N[from] = st]

\* Votes of the statement that federated voting accepts: valid ones are
\* accepted, of the others we vote for a valid variation.
promoteVotes(s, st) ==
    LET ok == {v \in st.votes \ s.accepted :
                  federatedAccept(s, Voting(s, v), Accepting(s, v))}
        other == {Extract[s.id][v] : v \in ok \ Valid[s.id]} \ {0}
    IN  [s EXCEPT !.accepted = @ \cup (ok \cap Valid[s.id]),
                  !.votes = @ \cup (ok \cap Valid[s.id]) \cup other]

promoteAccepted(s, st) ==
    [s EXCEPT !.candidates =
        @ \cup {a \in s.accepted : federatedRatify(s, Accepting(s, a))}]

\* A vote for a new value of a round leader, while there are no candidates.
followLeader(s, from, st) ==
    IF s.candidates = {} /\ from \in s.leaders
    THEN [s EXCEPT !.votes = @ \cup ({getNewValueFromNomination(s, st)} \ {0})]
    ELSE s

\* The end of emitNomination, in the state s that processing the node's own
\* statement st left: unless that emitted a newer one, st is sent.
sendNomination(s, st) ==
    IF s.res # "VALID" THEN [s EXCEPT !.err = "moved to a bad state (nomination)"]
    ELSE IF isNewerStatement(s.last, st)
    THEN [s EXCEPT !.last = st, !.out = @ \cup {st}]
    ELSE s

ownStatement(s) == [votes |-> s.votes, accepted |-> s.accepted]

\* The end of processEnvelope, if the statement changed old to s and s became end
\* when the modified nomination was emitted: new candidates are combined.
combineCandidates(old, s, end) ==
    [end EXCEPT !.res = "VALID",
                !.composite = IF s.candidates # old.candidates THEN end.candidates ELSE @]

\* What a statement does to the nomination.
applyStatement(s, from, st) ==
    followLeader(promoteAccepted(promoteVotes(recordEnvelope(s, from, st), st), st), from, st)

\* Before nomination is started, and once it is stopped, statements are only
\* recorded.  A nomination that is modified is emitted, for which the node
\* processes its own statement.
processed[c \in Call] ==
    LET old == c.state
        s   == applyStatement(old, c.from, c.st)
        own == ownStatement(s)
        end == IF own = ownStatement(old) THEN s
               ELSE sendNomination(processed[[state |-> s, from |-> s.id, st |-> own]], own)
    IN  IF ~ isNewerStatement(old.N[c.from], c.st) \/ ~ isSane(c.st)
        THEN [old EXCEPT !.res = "INVALID"]
        ELSE IF ~ old.started
        THEN [recordEnvelope(old, c.from, c.st) EXCEPT !.res = "VALID"]
        ELSE combineCandidates(old, s, end)

processEnvelope(s, from, st) == processed[[state |-> s, from |-> from, st |-> st]]

emitNomination(s) ==
    sendNomination(processEnvelope(s, s.id, ownStatement(s)), ownStatement(s))

\* A new round: its leaders, and a vote for our value if we lead, or else for
\* one new value of each leader; the timer starts the next one.
startRound(s, value) ==
    updateRoundLeaders([s EXCEPT !.started = TRUE, !.value = value,
                                 !.round = (@ % Rounds) + 1])

roundVotes(s) ==
    IF s.id \in s.leaders THEN s.votes \cup {s.value}
    ELSE LET follow(leader, votes) ==
                 votes \cup ({getNewValueFromNomination([s EXCEPT !.votes = votes],
                                                        s.N[leader])} \ {0})
         IN  FoldSet(follow, s.votes, s.leaders)

emitIfVoted(s, votes) ==
    IF votes # s.votes THEN emitNomination([s EXCEPT !.votes = votes]) ELSE s

nominate_onlyOnce(s, value, timedout) ==  \* mutant: the timer starts no new round
    LET vote(s1) == emitIfVoted(s1, roundVotes(s1))
    IN  IF timedout THEN [s EXCEPT !.value = 0] ELSE vote(startRound(s, value))

nominate(s, value, timedout) ==
    LET vote(s1) == emitIfVoted(s1, roundVotes(s1))
    IN  IF timedout /\ ~ s.started THEN [s EXCEPT !.value = 0]
        ELSE vote(startRound(s, value))

stopNomination(s) == [s EXCEPT !.started = FALSE]

setStateFromEnvelope_votesOnly(n, st) ==  \* mutant: accepted values are lost
    [recordEnvelope(InitState(n), n, st) EXCEPT !.votes = st.votes, !.last = st]

\* A new process restores its last statement; st is NoStatement if there is none.
setStateFromEnvelope(n, st) ==
    [recordEnvelope(InitState(n), n, st) EXCEPT
        !.votes = st.votes, !.accepted = st.accepted, !.last = st]
=============================================================================
