------------------------- MODULE NominationNetwork --------------------------
(***************************************************************************)
(* Nomination for one slot by a network of nodes.  The herder starts it    *)
(* (triggerNextLedger) and its timer repeats it; statements are persisted  *)
(* and broadcast; the ballot protocol stops it; nodes crash and restart.   *)
(***************************************************************************)
EXTENDS NominationProtocol, Sequences

CONSTANTS Proposal,      \* [Node -> Seq(Value)]: the value the herder proposes the
                         \* first time, and after each restart (bound: a node
                         \* crashes as long as it has another one)
          MayCrash,      \* bound: nodes that crash
          Timers,        \* bound: nodes whose timer expires
          KeepOld,       \* TRUE: a statement may arrive after a newer one was sent
          MayStop        \* nodes whose slot may externalize

ASSUME ProposalAssumption ==
    \A n \in Node : Proposal[n] \in Seq(Value) /\ Proposal[n] # <<>>

VARIABLES
    node,        \* [Node -> state of the node's nomination protocol]
    sent,        \* [Node -> set of statements broadcast]
    persisted,   \* [Node -> last statement in the database]
    boots,       \* [Node -> number of times the process started]
    stopped      \* [Node -> BOOLEAN]: the slot has externalized

vars == <<node, sent, persisted, boots, stopped>>

Init ==
    /\ node = [n \in Node |-> InitState(n)]
    /\ sent = [n \in Node |-> {}]
    /\ persisted = [n \in Node |-> NoStatement]
    /\ boots = [n \in Node |-> 1]
    /\ stopped = [n \in Node |-> FALSE]

Finish_noPersist(n, s) ==  \* mutant: broadcast without persisting first
    /\ node' = [node EXCEPT ![n] = [s EXCEPT !.out = {}, !.res = ""]]
    /\ sent' = [sent EXCEPT ![n] = IF KeepOld \/ s.out = {} THEN @ \cup s.out ELSE {s.last}]
    /\ UNCHANGED persisted

\* The end of a handler of n that leaves nomination in state s.  emitEnvelope
\* persists, then broadcasts; of the statements a handler emits, the last one
\* emitted is the newest.
Finish(n, s) ==
    /\ node' = [node EXCEPT ![n] = [s EXCEPT !.out = {}, !.res = ""]]
    /\ sent' = [sent EXCEPT ![n] = IF KeepOld \/ s.out = {} THEN @ \cup s.out ELSE {s.last}]
    /\ persisted' = [persisted EXCEPT ![n] = s.last]

\* triggerNextLedger: a value for the next slot, once for each process.
CanNominate(n) == node[n].round = 0 /\ ~ stopped[n]

Nominate(n) ==
    /\ CanNominate(n)
    /\ \E s \in {nominate(node[n], Proposal[n][boots[n]], FALSE)} : Finish(n, s)
    /\ UNCHANGED <<boots, stopped>>

CanTimeOut(n) == n \in Timers /\ node[n].value # 0

TimerExpired(n) ==
    /\ CanTimeOut(n)
    /\ \E s \in {nominate(node[n], node[n].value, TRUE)} : Finish(n, s)
    /\ UNCHANGED <<boots, stopped>>

\* A statement that is not newer than the one recorded is ignored.
CanReceive(n, m, st) == isNewerStatement(node[n].N[m], st)

Deliver(n, m, st) ==
    /\ CanReceive(n, m, st)
    /\ \E s \in {processEnvelope(node[n], m, st)} : Finish(n, s)
    /\ UNCHANGED <<boots, stopped>>

Receive(n) ==
    \E m \in Node \ {n} :
        \E st \in sent[m] : Deliver(n, m, st)

\* The ballot protocol, which some node has started, confirms a commit
\* (setConfirmCommit).
StopNomination(n) ==
    /\ n \in MayStop
    /\ ~ stopped[n]
    /\ \E m \in Node : node[m].composite # {}
    /\ node' = [node EXCEPT ![n] = stopNomination(@)]
    /\ stopped' = [stopped EXCEPT ![n] = TRUE]
    /\ UNCHANGED <<sent, persisted, boots>>

CrashRestart(n) ==
    /\ n \in MayCrash
    /\ boots[n] < Len(Proposal[n])
    /\ boots' = [boots EXCEPT ![n] = @ + 1]
    /\ node' = [node EXCEPT ![n] = setStateFromEnvelope(n, persisted[n])]
    /\ UNCHANGED <<sent, persisted, stopped>>

Next == \E n \in Node :
    \/ Nominate(n) \/ TimerExpired(n) \/ Receive(n)
    \/ StopNomination(n) \/ CrashRestart(n)

Spec == Init /\ [][Next]_vars

\* Weak fairness of Nominate, of the delivery of a node's last statement (it is
\* rebroadcast) and of the timers.  The first two steps can happen finitely
\* often only, so for them it says that they are disabled again and again; a
\* timer that expires starts the next round.
Fairness ==
    /\ []<>(\A n \in Node : ~ CanNominate(n))
    /\ []<>(\A n, m \in Node : n # m => ~ CanReceive(n, m, persisted[m]))
    /\ \A n \in Timers :
          []<>(~ CanTimeOut(n)) \/ []<><<node'[n].round # node[n].round>>_vars

FairSpec == Spec /\ Fairness

-----------------------------------------------------------------------------
(* Safety. *)

\* emitNomination never finds its own statement invalid ("moved to a bad state
\* (nomination)"), and what it accepts it votes for, its candidates it accepts and
\* has told the ballot protocol of, through invalid values and restarts.
NoBadState ==
    \A n \in Node :
        LET s == node[n] IN
        /\ s.err = ""
        /\ s.accepted \subseteq s.votes
        /\ s.candidates \subseteq s.accepted
        /\ s.composite = s.candidates

\* A node stands by what it sent, through restarts: every statement it sent is
\* covered by the one it restores and by its present votes.
NominationsStand ==
    \A n \in Node : \A st \in sent[n] :
        /\ st = persisted[n] \/ isNewerStatement(st, persisted[n])
        /\ st.votes \subseteq node[n].votes /\ st.accepted \subseteq node[n].accepted

\* The nodes of Q satisfy each other.
Quorate(Q) == \A m \in Q : Q \in slicesOf[m]

\* The quorum sets are such that a quorum of one node blocks every node.
QuorumsBlock ==
    \A Q \in SUBSET Node :
        Quorate(Q) /\ (\E n \in Node : Q \in slicesOf[n]) => \A m \in Node : Q \in vblockedBy[m]

\* What makes the candidates of all nodes converge: a value that is a candidate
\* of one node is accepted by enough honest nodes to block every other node,
\* and stays so when nodes restart.
CandidatesBlockEveryone ==
    \A n \in Node : \A v \in node[n].candidates : \A m \in Node :
        {k \in Node : v \in node[k].accepted} \in vblockedBy[m]

-----------------------------------------------------------------------------
(* Liveness. *)

\* Every node gets a candidate, so that the ballot protocol starts.
EveryNodeHasCandidates == \A n \in Node : <>(stopped[n] \/ node[n].candidates # {})

\* The candidates converge: those of one node become candidates of all nodes
\* that still nominate and find them valid.
CandidatesConverge ==
    \A v \in Value : (\E n \in Node : v \in node[n].candidates)
        ~> \A n \in Node : stopped[n] \/ v \notin Valid[n] \/ v \in node[n].candidates

\* Nomination does its work: every node gets candidates, and they converge.
NominationSucceeds == EveryNodeHasCandidates /\ CandidatesConverge
=============================================================================
