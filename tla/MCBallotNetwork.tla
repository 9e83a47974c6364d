--------------------------- MODULE MCBallotNetwork --------------------------
(* Small networks for the model checking of BallotNetwork. *)
EXTENDS BallotRefinement, TLC

CONSTANTS Chosen,   \* the node that is treated differently from the others
          High      \* nodes whose nomination ends with value 2

\* Quorum sets: every node requires k of all nodes, itself included.
KofN(k) ==
    [n \in Node |-> [threshold |-> k, validators |-> SetToSeq(Node), innerSets |-> <<>>]]

TwoOf == KofN(2)
ThreeOf == KofN(3)

\* The driver fully validates every value.
AllValid == [n \in Node |-> [v \in Value |-> "fully"]]

\* The composite candidate nomination gives a node, and gives it again after a
\* restart.
Fixed == [n \in Node |-> IF n \in High THEN {2} ELSE {1}]

\* What a node that does not follow the protocol may tell some nodes and not
\* others: that it accepted to commit one value, or externalized another; or that it
\* is still in its first ballot.
Lies == {ConfirmStatement(<<1, 1>>, 1, 1, 1), ExternalizeStatement(<<1, 2>>, 1)}
Slow == {PrepareStatement(<<1, 2>>, Null, Null, 0, 0)}

\* Bounds: the counters at which the timer of Chosen, and those of the others, may
\* expire; the nodes of which one may crash; nodes whose old statements may arrive;
\* what Byzantine nodes say; whether nodes start after a timeout, see second.
Bound(chosen, others, crash, old, lies, late) ==
    [timer |-> [n \in Node |-> IF n = Chosen THEN chosen ELSE others],
     crashes |-> 1, crash |-> crash, keepOld |-> old, lies |-> lies, late |-> late]

OneTimer == {Bound({1}, {}, {}, {}, {}, FALSE)}

\* Lies in the first ballot; or the nodes time out while one seems to lag.
Faults == {Bound({}, {}, {}, {}, Lies, FALSE), Bound({2}, {2, 3}, {}, {}, Slow, TRUE)}

\* Two nodes time out, or old statements arrive at any time, or one node crashes, or
\* two nodes have timed out and the third times out and crashes.
Schedules ==
    {Bound({}, {1}, {}, {}, {}, FALSE), Bound({}, {}, {}, Node, {}, FALSE),
     Bound({}, {}, Node, {}, {}, FALSE), Bound({2}, {}, {Chosen}, {}, {}, TRUE)}

\* Sound when High is {Chosen}, its complement, or empty.
Symm == Permutations(Honest \ {Chosen})

settled(s) == [s EXCEPT !.out = {}, !.own = {}, !.res = "", !.work = FALSE]

\* Every node has a composite candidate, and started its first ballot, before
\* anything is delivered.
first == [n \in Honest |->
             settled(nominationUpdate(InitState(n), IF n \in High THEN 2 ELSE 1))]

\* A round among the nodes of S: they hear each other, or their timers expire.
round(nodes, S, what) ==
    [n \in Honest |->
        IF n \notin S THEN nodes[n]
        ELSE IF what = "timeout" THEN settled(ballotProtocolTimerExpired(nodes[n]))
        ELSE FoldSet(LAMBDA m, s : settled(processEnvelope(s, m, nodes[m].lastEmit, FALSE)),
                     nodes[n], S \ {n})]

\* The nodes of S went on alone.
alone(S) ==
    FoldLeft(LAMBDA nodes, what : round(nodes, S, what), first, <<"hear", "timeout", "hear">>)

Started ==
    /\ limits \in Limits
    /\ node = IF limits.late THEN alone(IF Byzantine = {} THEN Honest \ {Chosen} ELSE Honest)
                           ELSE first
    /\ sent = [n \in Honest |-> {node[n].lastEmit}]
    /\ persisted = [n \in Honest |-> node[n].lastEmit]
    /\ claims = [n \in Honest |-> {}]
    /\ crashes = 0

StartedSpec == Started /\ [][Next]_vars

StartedFairSpec == StartedSpec /\ Fairness
=============================================================================
