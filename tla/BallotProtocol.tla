--------------------------- MODULE BallotProtocol ---------------------------
(***************************************************************************)
(* The ballot protocol of one slot on one node (scp/BallotProtocol.cpp).   *)
(*                                                                         *)
(* The class is a record s, and each method an operator from records to    *)
(* records, so that a whole handler, with the recursion through which a    *)
(* node processes its own statements, is one atomic step as it is on the   *)
(* program's main thread.                                                  *)
(*                                                                         *)
(*   id                the local node                                      *)
(*   b p pp h c        mCurrentBallot mPrepared mPreparedPrime             *)
(*                     mHighBallot mCommit (Null: not set)                 *)
(*   phase             mPhase                                              *)
(*   z                 mValueOverride (0: not set)                         *)
(*   heard             mHeardFromQuorum                                    *)
(*   timer             the BALLOT_PROTOCOL_TIMER is armed                  *)
(*   M                 mLatestEnvelopes                                    *)
(*   last lastEmit     mLastEnvelope mLastEnvelopeEmit                     *)
(*   full              Slot::mFullyValidated                               *)
(*   composite         Slot::getLatestCompositeCandidate (0: none)         *)
(*   level             mCurrentMessageLevel                                *)
(*   externalized      the values passed to valueExternalized              *)
(*   err               first assertion, null dereference or exception met  *)
(*   res work          EnvelopeState of the last processEnvelope; didWork  *)
(*   out own           statements emitted, and own statements recorded,    *)
(*                     by the handler that is running                      *)
(***************************************************************************)
EXTENDS QuorumSets, SCPBallots

CONSTANTS Node,       \* node identifiers
          QSet,       \* [Node -> quorum set]
          Validity,   \* [Node -> [Value -> {"fully", "maybe", "invalid"}]]:
                      \* the driver's validateValue
          MAX_ADVANCE_SLOT_RECURSION

InitState(n) ==
    [id |-> n, b |-> Null, p |-> Null, pp |-> Null, h |-> Null, c |-> Null,
     phase |-> "PREPARE", z |-> 0, heard |-> FALSE, timer |-> FALSE,
     M |-> [m \in Node |-> NoStatement], last |-> NoStatement,
     lastEmit |-> NoStatement, full |-> TRUE, composite |-> 0, level |-> 0,
     externalized |-> {}, err |-> "", res |-> "", work |-> FALSE, out |-> {}, own |-> {}]

Fail(s, what) == IF s.err = "" THEN [s EXCEPT !.err = what] ELSE s

Check(s, ok, what) == IF ok THEN s ELSE Fail(s, what)

-----------------------------------------------------------------------------
(* Federated voting on the latest statements (Slot.cpp). *)

Heard(s) == {m \in Node : s.M[m] # NoStatement}

Senders(s, Test(_)) == {m \in Heard(s) : \E st \in {s.M[m]} : Test(st)}

\* The sets of nodes that pass isQuorumSlice, and isVBlocking, for each node's
\* quorum set.
slicesOf   == [n \in Node |-> {S \in SUBSET Node : isQuorumSlice(QSet[n], S)}]
vblockedBy == [n \in Node |-> {S \in SUBSET Node : isVBlocking(QSet[n], S)}]

\* isQuorum's loop over the statements recorded.  A node that externalized is
\* on its own: getQuorumSetFromStatement gives it the quorum set {itself}.
RECURSIVE keepSatisfied(_, _)
keepSatisfied(s, P) ==
    LET kept == {m \in P : s.M[m].type = "EXTERNALIZE" \/ P \in slicesOf[m]}
    IN  IF kept = P THEN P ELSE keepSatisfied(s, kept)

federatedRatify_someVote(s, voted) ==  \* mutant: one vote of another node suffices
    voted \ {s.id} # {}

\* voted and accepted are the nodes whose latest statement passes the predicate.
federatedRatify(s, voted) == keepSatisfied(s, voted) \in slicesOf[s.id]

federatedAccept(s, voted, accepted) ==
    \/ accepted \in vblockedBy[s.id]
    \/ federatedRatify(s, accepted \cup voted)

-----------------------------------------------------------------------------
(* Local helpers. *)

checkInvariants(s) ==
    /\ (s.p # Null /\ s.pp # Null) => areBallotsLessAndIncompatible(s.pp, s.p)
    /\ s.h # Null => s.b # Null /\ areBallotsLessAndCompatible(s.h, s.b)
    /\ s.c # Null => /\ s.b # Null /\ s.h # Null
                     /\ areBallotsLessAndCompatible(s.c, s.h)
                     /\ areBallotsLessAndCompatible(s.h, s.b)
    /\ s.phase # "PREPARE" => s.c # Null
    /\ s.phase = "EXTERNALIZE" => s.h # Null
    /\ s.b # Null => Counter(s.b) # 0

bumpToBallot_keepsHeard(s, ballot, check) ==  \* mutant: heard is not reset
    [Check(s, ~ check \/ LessEq(s.b, ballot), "assert: ballot moves back")
        EXCEPT !.b = ballot,
               !.h = IF areBallotsCompatible(ballot, @) THEN @ ELSE Null]

bumpToBallot(s, ballot, check) ==
    [Check(Check(s, s.phase # "EXTERNALIZE", "assert: bump after externalize"),
           ~ check \/ LessEq(s.b, ballot), "assert: ballot moves back")
        EXCEPT !.b = ballot,
               !.h = IF areBallotsCompatible(ballot, @) THEN @ ELSE Null,
               !.heard = @ /\ s.b # Null /\ Counter(s.b) = Counter(ballot)]

updateCurrentIfNeeded(s, h) ==
    IF Less(s.b, h) THEN bumpToBallot(s, h, TRUE) ELSE s

\* Heard from a quorum at our counter or above, or past PREPARE.  The timer is
\* started when that becomes true and stopped when it is not, or when it no
\* longer matters.
checkHeardFromQuorum(s) ==
    LET quorum == federatedRatify(s, Senders(s, LAMBDA st :
                      st.type = "PREPARE" => Counter(s.b) <= Counter(st.ballot)))
    IN  IF s.b = Null THEN s
        ELSE [s EXCEPT !.heard = quorum,
                       !.timer = /\ quorum
                                 /\ s.phase # "EXTERNALIZE"
                                 /\ ~ s.heard \/ s.timer]

sendLatestEnvelope_once(s) ==  \* mutant: only the first statement is sent
    IF s.level = 0 /\ s.full /\ s.last # NoStatement /\ s.lastEmit = NoStatement
    THEN [s EXCEPT !.lastEmit = s.last, !.out = @ \cup {s.last}]
    ELSE s

\* Sends mLastEnvelope, once, outside of advanceSlot.
sendLatestEnvelope(s) ==
    IF /\ s.level = 0 /\ s.full
       /\ s.last # NoStatement /\ s.last # s.lastEmit
    THEN [s EXCEPT !.lastEmit = s.last, !.out = @ \cup {s.last}]
    ELSE s

createStatement(s) ==
    CASE s.phase = "PREPARE" ->
            PrepareStatement(s.b, s.p, s.pp, Counter(s.c), Counter(s.h))
      [] s.phase = "CONFIRM" ->
            ConfirmStatement(s.b, Counter(s.p), Counter(s.c), Counter(s.h))
      [] OTHER -> ExternalizeStatement(s.c, Counter(s.h))

recordEnvelope(s, from, st) ==
    [s EXCEPT !.M[from] = st,
              !.own = IF from = s.id THEN @ \cup {st} ELSE @]

\* The values are validated in their order; of those that are not fully valid the
\* last one decides.
validateValues(s, st) ==
    LET doubtful == {v \in statementValues(st) : Validity[s.id][v] # "fully"}
    IN  IF doubtful = {} THEN "fully" ELSE Validity[s.id][Max(doubtful)]

RECURSIVE processEnvelope(_, _, _, _)

\* r is the state once the node processed its own statement st: the recursion
\* may have moved it on, and then only the newest statement is kept for sending.
queueStatement(r, st) ==
    CASE r.res # "VALID" -> Fail(r, "exception: moved to a bad state")
      [] /\ r.b # Null
         /\ r.last = NoStatement \/ isNewerStatement(r.last, st) ->
            sendLatestEnvelope([r EXCEPT !.last = st])
      [] OTHER -> r

processOwn(s, st) ==
    IF s.M[s.id] = st \/ s.err # "" THEN s
    ELSE queueStatement(processEnvelope(s, s.id, st, TRUE), st)

emitCurrentStateStatement(s) ==
    processOwn(Check(Check(s, checkInvariants(s), "assert: checkInvariants"),
                     s.phase = "PREPARE" \/ s.p # Null, "null: mPrepared"),
               createStatement(s))

-----------------------------------------------------------------------------
(* Moving to another ballot. *)

Worked(s) == [s EXCEPT !.work = TRUE]

\* Ballots the local state may move to: never away from a commit vote, never
\* back.
updateCurrentValue(s, ballot) ==
    LET checked(up) == Check(up, checkInvariants(up), "assert: checkInvariants")
    IN  CASE s.phase = "EXTERNALIZE" -> s
          [] s.b # Null /\ Less(ballot, s.b) -> Fail(s, "assert: bump to a smaller value")
          [] s.b # Null /\ s.c # Null /\ ~ areBallotsCompatible(s.c, ballot) -> s
          [] s.b = ballot -> s
          [] OTHER -> Worked(checked(bumpToBallot(s, ballot, TRUE)))

emitIfMoved(s) ==
    IF s.work THEN Worked(checkHeardFromQuorum(emitCurrentStateStatement(s))) ELSE s

bumpStateTo(s, value, n) ==
    emitIfMoved(updateCurrentValue([s EXCEPT !.work = FALSE],
                                   <<n, IF s.z # 0 THEN s.z ELSE value>>))

nextCounter_same(s) ==  \* mutant: no increment
    IF s.b = Null THEN 1 ELSE Counter(s.b)

\* The counter is a uint32: the increment wraps.
nextCounter(s) ==
    IF s.b = Null THEN 1 ELSE (Counter(s.b) + 1) % (UINT32_MAX + 1)

bumpState(s, value, force) ==
    IF ~ force /\ s.b # Null THEN s ELSE bumpStateTo(s, value, nextCounter(s))

\* n = 0 stands for the next counter: bumpState with force.
abandonBallot(s, n) ==
    LET v == IF s.composite # 0 THEN s.composite ELSE Val(s.b)
    IN  IF v = 0 THEN s ELSE bumpStateTo(s, v, IF n = 0 THEN nextCounter(s) ELSE n)

-----------------------------------------------------------------------------
(* attempt* and set*: the transitions of the protocol. *)

hintBallots(hint) ==
    CASE hint.type = "PREPARE" ->
            {hint.ballot} \cup ({hint.prepared, hint.preparedPrime} \ {Null})
      [] hint.type = "CONFIRM" ->
            {hint.prepared, <<UINT32_MAX, Val(hint.ballot)>>}
      [] OTHER -> {<<UINT32_MAX, Val(hint.ballot)>>}

getPrepareCandidates(s, hint) ==
    LET of(top, st) ==
            IF st.type = "PREPARE"
            THEN {x \in {st.ballot} \cup ({st.prepared, st.preparedPrime} \ {Null}) :
                     areBallotsLessAndCompatible(x, top)}
            ELSE IF ~ areBallotsCompatible(top, st.ballot) THEN {}
            ELSE IF st.type = "CONFIRM" /\ Counter(st.prepared) < Counter(top)
            THEN {top, st.prepared}
            ELSE {top}
    IN  UNION {of(top, s.M[m]) : top \in hintBallots(hint), m \in Heard(s)}

Highest(B) == CHOOSE x \in B : \A y \in B : LessEq(y, x)
Lowest(B)  == CHOOSE x \in B : \A y \in B : LessEq(x, y)

\* p and p' are the two highest incompatible ballots accepted as prepared.
setPrepared(s, ballot) ==
    CASE s.p = Null -> [s EXCEPT !.p = ballot]
      [] Less(s.p, ballot) ->
            [s EXCEPT !.p = ballot,
                      !.pp = IF areBallotsCompatible(s.p, ballot) THEN @ ELSE s.p]
      [] Less(ballot, s.p) /\ Less(s.pp, ballot) -> [s EXCEPT !.pp = ballot]
      [] OTHER -> s

\* A commit vote that p or p' aborts is withdrawn; a change is announced.
announcePrepared(old, s) ==
    LET aborted == /\ s.c # Null /\ s.h # Null
                   /\ \/ areBallotsLessAndIncompatible(s.h, s.p)
                      \/ s.pp # Null /\ areBallotsLessAndIncompatible(s.h, s.pp)
    IN  IF s = old /\ ~ aborted THEN s
        ELSE Worked(emitCurrentStateStatement(
                 [Check(s, aborted => s.phase = "PREPARE", "assert: commit aborted")
                     EXCEPT !.c = IF aborted THEN Null ELSE @]))

setPreparedAccept(s, ballot) == announcePrepared(s, setPrepared(s, ballot))

\* The highest candidate that raises p or p' and that we can accept.
attemptPreparedAccept(s, hint) ==
    LET useful(x) ==
            /\ s.phase = "CONFIRM" => areBallotsLessAndCompatible(s.p, x)
            /\ s.pp # Null => Less(s.pp, x)
            /\ s.p # Null => ~ areBallotsLessAndCompatible(x, s.p)
        cand == getPrepareCandidates(s, hint)
        ok == {x \in cand :
                  /\ useful(x)
                  /\ federatedAccept(s, Senders(s, LAMBDA st : votesPrepare(x, st)),
                                        Senders(s, LAMBDA st : hasPreparedBallot(x, st)))}
        s1 == Check(Check(s, s.phase = "PREPARE" \/ s.p # Null, "null: mPrepared"),
                    s.phase = "CONFIRM" =>
                       \A x \in cand : useful(x) => areBallotsCompatible(s.c, x),
                    "assert: candidate against the commit")
    IN  IF s.phase = "EXTERNALIZE" \/ ok = {}
        THEN s1
        ELSE setPreparedAccept(s1, Highest(ok))

setPreparedConfirmed_anyBallot(s, newC, newH) ==  \* mutant: h and c next to any b
    LET s1 == [s EXCEPT !.z = Val(newH),
                        !.h = IF Less(@, newH) THEN newH ELSE @,
                        !.c = IF newC # Null THEN newC ELSE @]
    IN  Worked(emitCurrentStateStatement(updateCurrentIfNeeded(s1, newH)))

\* z remembers the value; h and c are taken only on a compatible ballot.
setPreparedConfirmed(s, newC, newH) ==
    LET fits  == s.b = Null \/ areBallotsCompatible(s.b, newH)
        newh  == fits /\ Less(s.h, newH)
        newc  == fits /\ newC # Null
        s1    == [Check(s, newc => s.c = Null, "assert: commit set twice")
                     EXCEPT !.z = Val(newH),
                            !.h = IF newh THEN newH ELSE @,
                            !.c = IF newc THEN newC ELSE @]
    IN  IF newh \/ newc \/ Less(s.b, newH)
        THEN Worked(emitCurrentStateStatement(updateCurrentIfNeeded(s1, newH)))
        ELSE s1

\* newH is the highest candidate confirmed prepared, newC the lowest one from
\* the current ballot on.
attemptPreparedConfirmed(s, hint) ==
    LET ratified(x) == federatedRatify(s, Senders(s, LAMBDA st : hasPreparedBallot(x, st)))
        cand == getPrepareCandidates(s, hint)
        high == {x \in cand : (s.h # Null => Less(s.h, x)) /\ ratified(x)}
        newH == Highest(high)
        mayCommit ==
            /\ s.c = Null
            /\ ~ areBallotsLessAndIncompatible(newH, s.p)
            /\ s.pp # Null => ~ areBallotsLessAndIncompatible(newH, s.pp)
        below(x) == {y \in cand : LessEq(x, y) /\ areBallotsLessAndCompatible(y, newH)}
        low  == {x \in cand : /\ areBallotsLessAndCompatible(x, newH)
                              /\ LessEq(s.b, x)
                              /\ \A y \in below(x) : ratified(y)}
        newC == IF mayCommit /\ low # {} THEN Lowest(low) ELSE Null
    IN  IF s.phase # "PREPARE" \/ s.p = Null \/ high = {}
        THEN s
        ELSE setPreparedConfirmed(s, newC, newH)

\* The counters at which some statement starts or ends a commit range.
getCommitBoundariesFromStatements(s, v) ==
    UNION {commitBoundaries(v, s.M[m]) : m \in Heard(s)}

\* The highest boundary that satisfies pred on its own, extended down as far as
\* pred holds.  <<0, 0>> when there is none; a lower end of 0 counts as none.
findExtendedInterval(boundaries, pred) ==
    LET tops == {n \in boundaries \ {0} : pred[n, n]}
        hi   == Max(tops)
        lo   == Min({n \in boundaries :
                        /\ n <= hi
                        /\ \A m \in boundaries : m \in n..hi => pred[m, hi]})
    IN  IF tops = {} THEN <<0, 0>> ELSE <<lo, hi>>

setAcceptCommit(s, c, h) ==
    LET change == s.h # h \/ s.c # c
        enter  == s.phase = "PREPARE"
        s1 == [s EXCEPT !.z = Val(h), !.c = c, !.h = h]
        s2 == IF ~ enter THEN s1
              ELSE [IF s1.b # Null /\ ~ areBallotsLessAndCompatible(h, s1.b)
                    THEN bumpToBallot(s1, h, FALSE) ELSE s1
                       EXCEPT !.phase = "CONFIRM", !.pp = Null]
    IN  IF change \/ enter
        THEN Worked(emitCurrentStateStatement(updateCurrentIfNeeded(s2, h)))
        ELSE s1

attemptAcceptCommit(s, hint) ==
    LET v          == Val(hint.ballot)
        boundaries == getCommitBoundariesFromStatements(s, v)
        pred       == [l, u \in boundaries |->
                          federatedAccept(s, Senders(s, LAMBDA st : votesCommit(v, l, u, st)),
                                             Senders(s, LAMBDA st : commitPredicate(v, l, u, st)))]
        i          == findExtendedInterval(boundaries, pred)
    IN  IF \/ s.phase = "EXTERNALIZE"
           \/ hint.type = "PREPARE" /\ hint.nC = 0
           \/ s.phase = "CONFIRM" /\ v # Val(s.h)
           \/ i[1] = 0
           \/ s.phase = "CONFIRM" /\ i[2] <= Counter(s.h)
        THEN s
        ELSE setAcceptCommit(s, <<i[1], v>>, <<i[2], v>>)

\* The timer and nomination stop mattering; the driver is told the value before
\* the EXTERNALIZE statement leaves the node.
setConfirmCommit(s, c, h) ==
    LET s1 == updateCurrentIfNeeded([s EXCEPT !.c = c, !.h = h], h)
        s2 == emitCurrentStateStatement([s1 EXCEPT !.phase = "EXTERNALIZE"])
    IN  Worked([s2 EXCEPT !.externalized = @ \cup {Val(c)}])

attemptConfirmCommit(s, hint) ==
    LET v          == Val(hint.ballot)
        boundaries == getCommitBoundariesFromStatements(s, v)
        pred       == [l, u \in boundaries |->
                          federatedRatify(s, Senders(s, LAMBDA st : commitPredicate(v, l, u, st)))]
        i          == findExtendedInterval(boundaries, pred)
    IN  IF \/ s.phase # "CONFIRM"
           \/ hint.type = "PREPARE"
           \/ v # Val(s.c)
           \/ i[1] = 0
        THEN s
        ELSE setConfirmCommit(s, <<i[1], v>>, <<i[2], v>>)

attemptBump_confirmOnly(s) ==  \* mutant: only past PREPARE
    LET target   == Counter(s.b)
        counters == {statementCounter(s.M[m]) : m \in Heard(s)} \cup {target}
        ahead(n) == Senders(s, LAMBDA st : statementCounter(st) > n) \in vblockedBy[s.id]
    IN  IF s.phase # "CONFIRM" \/ ~ ahead(target)
        THEN s
        ELSE abandonBallot(s, Min({n \in counters : n > target /\ ~ ahead(n)}))

\* Moves to the smallest counter that no v-blocking set is above.  The scan of
\* the counters, in increasing order, ends at the first one below ours.
attemptBump(s) ==
    LET target   == Counter(s.b)
        counters == {statementCounter(s.M[m]) : m \in Heard(s)} \cup {target}
        ahead(n) == Senders(s, LAMBDA st : statementCounter(st) > n) \in vblockedBy[s.id]
        goals    == {n \in counters : n > target /\ ~ ahead(n)}
    IN  IF \/ s.phase = "EXTERNALIZE"
           \/ \E n \in counters : n < target
           \/ ~ ahead(target)
        THEN s
        ELSE abandonBallot(s, Min(goals))

-----------------------------------------------------------------------------
(* advanceSlot and processEnvelope. *)

\* attemptBump until it has nothing to do; work tells whether there was work
\* before or in an earlier round.
RECURSIVE bumpWhilePossible(_, _)
bumpAgain(s, work) ==
    IF s.work THEN bumpWhilePossible(s, TRUE) ELSE [s EXCEPT !.work = work]
bumpWhilePossible(s, work) == bumpAgain(attemptBump([s EXCEPT !.work = FALSE]), work)

\* Only the outermost call bumps, and looks for a quorum at the counter.
bumpAtTop(s) ==
    IF s.level = 1 THEN checkHeardFromQuorum(bumpWhilePossible(s, s.work)) ELSE s

leaveAdvanceSlot(s) ==
    IF s.work THEN sendLatestEnvelope([s EXCEPT !.level = @ - 1])
    ELSE [s EXCEPT !.level = @ - 1]

\* The attempts, in the order of the white paper.
advanceSlot(s, hint) ==
    LET accepted(t)  == attemptPreparedAccept(t, hint)
        confirmed(t) == attemptPreparedConfirmed(t, hint)
        committed(t) == attemptAcceptCommit(t, hint)
        decided(t)   == attemptConfirmCommit(t, hint)
        s1           == [s EXCEPT !.level = @ + 1, !.work = FALSE]
    IN  IF s.level + 1 >= MAX_ADVANCE_SLOT_RECURSION
        THEN Fail(s1, "exception: maximum number of transitions")
        ELSE leaveAdvanceSlot(bumpAtTop(decided(committed(confirmed(accepted(s1))))))

\* A statement older than the one recorded is ignored; once externalized only
\* statements for the same value are recorded.
processEnvelope(s, from, st, self) ==
    LET valid    == validateValues(s, st)
        accepted == recordEnvelope([s EXCEPT !.full = @ /\ valid # "maybe"], from, st)
    IN  CASE \/ ~ isStatementSane(st, self)
             \/ s.M[from] # NoStatement /\ ~ isNewerStatement(s.M[from], st)
             \/ valid = "invalid" -> [s EXCEPT !.res = "INVALID"]
          [] s.phase # "EXTERNALIZE" ->
                [advanceSlot(accepted, st) EXCEPT !.res = "VALID"]
          [] workingValue(st) = Val(s.c) ->
                [recordEnvelope(s, from, st) EXCEPT !.res = "VALID"]
          [] OTHER -> [s EXCEPT !.res = "INVALID"]

ballotProtocolTimerExpired(s) ==
    abandonBallot([s EXCEPT !.timer = FALSE], 0)

\* Slot::bumpState when nomination has a composite candidate.
nominationUpdate(s, value) ==
    bumpState([s EXCEPT !.composite = value], value, FALSE)

setStateFromEnvelope_inPrepare(n, st) ==  \* mutant: the phase is not restored
    LET s == [recordEnvelope(InitState(n), n, st) EXCEPT !.last = st, !.lastEmit = st]
        v == Val(st.ballot)
        at(k) == IF k = 0 THEN Null ELSE <<k, v>>
    IN  IF st.type = "NONE" THEN InitState(n)
        ELSE [s EXCEPT !.b = st.ballot, !.p = st.prepared, !.pp = st.preparedPrime,
                       !.h = at(st.nH), !.c = at(st.nC)]

\* A new process restores its slot from the last envelope it emitted.
setStateFromEnvelope(n, st) ==
    LET s == [recordEnvelope(InitState(n), n, st) EXCEPT
                 !.last = st, !.lastEmit = st, !.phase = st.type]
        v == Val(st.ballot)
        at(k) == IF k = 0 THEN Null ELSE <<k, v>>
    IN  CASE st.type = "NONE" -> InitState(n)
          [] st.type = "PREPARE" ->
                [s EXCEPT !.b = st.ballot, !.p = st.prepared, !.pp = st.preparedPrime,
                          !.h = at(st.nH), !.c = at(st.nC)]
          [] st.type = "CONFIRM" ->
                [s EXCEPT !.b = st.ballot, !.p = st.prepared,
                          !.h = <<st.nH, v>>, !.c = <<st.nC, v>>]
          [] OTHER ->
                [s EXCEPT !.b = <<UINT32_MAX, v>>, !.p = <<UINT32_MAX, v>>,
                          !.h = <<st.nH, v>>, !.c = st.ballot]
=============================================================================
