---------------------------- MODULE BallotNetwork ---------------------------
(***************************************************************************)
(* The ballot protocol of one slot run by a network of nodes: every node   *)
(* has a BallotProtocol, statements it emits are persisted and broadcast   *)
(* (HerderImpl::emitEnvelope), the network may lose, delay, reorder and    *)
(* duplicate them, timers expire, and nodes crash and restart from what    *)
(* they persisted.  Nodes in Byzantine may send statements of their        *)
(* choice to anybody at any time.                                          *)
(***************************************************************************)
EXTENDS BallotProtocol

CONSTANTS Byzantine,     \* nodes that do not run the protocol
          Composite,     \* [Node -> SUBSET Value]: composite candidates nomination
                         \* may give a node
          Limits,        \* bounds on what the environment does, see limits
          TrackClaims    \* TRUE: claims records every own statement

Honest == Node \ Byzantine

VARIABLES
    node,        \* [Honest -> state of the node's ballot protocol]
    sent,        \* [Honest -> set of statements broadcast]
    persisted,   \* [Honest -> last statement in the database]
    claims,      \* history: own statements each node ever counted
    crashes,     \* number of crashes
    limits       \* the bounds of this behaviour, a member of Limits:
                 \*   timer    [Node -> SUBSET Nat], the counters at which a
                 \*            node's timer may expire
                 \*   crashes  crashes of all nodes together
                 \*   crash    nodes that may crash
                 \*   lies     what nodes in Byzantine may send
                 \*   keepOld  nodes whose statements may arrive after they have
                 \*            sent a newer one; those of others are lost then

vars == <<node, sent, persisted, claims, crashes, limits>>

Init ==
    /\ node = [n \in Honest |-> InitState(n)]
    /\ sent = [n \in Honest |-> {}]
    /\ persisted = [n \in Honest |-> NoStatement]
    /\ claims = [n \in Honest |-> {}]
    /\ crashes = 0
    /\ limits \in Limits

Broadcast(n, s) ==
    IF n \in limits.keepOld \/ s.out = {} THEN sent[n] \cup s.out ELSE {s.lastEmit}

\* The end of a handler of node n that leaves the ballot protocol in state s:
\* emitEnvelope persists the last statement emitted, then broadcasts.
Finish_noPersist(n, s) ==  \* mutant: broadcast without persisting first
    /\ node' = [node EXCEPT ![n] = [s EXCEPT !.out = {}, !.own = {}, !.res = "", !.work = FALSE]]
    /\ sent' = [sent EXCEPT ![n] = Broadcast(n, s)]
    /\ UNCHANGED persisted
    /\ claims' = IF TrackClaims THEN [claims EXCEPT ![n] = @ \cup s.own] ELSE claims

Finish(n, s) ==
    /\ node' = [node EXCEPT ![n] = [s EXCEPT !.out = {}, !.own = {}, !.res = "", !.work = FALSE]]
    /\ sent' = [sent EXCEPT ![n] = Broadcast(n, s)]
    /\ persisted' = [persisted EXCEPT ![n] = s.lastEmit]
    /\ claims' = IF TrackClaims THEN [claims EXCEPT ![n] = @ \cup s.own] ELSE claims

\* Nomination has a (new) composite candidate: it starts the first ballot, and
\* is the value of later ones until a value is confirmed prepared.
BumpState(n) ==
    \E v \in Composite[n] :
        /\ node[n].phase # "EXTERNALIZE"     \* nomination is stopped
        /\ node[n].composite # v
        /\ \E s \in {nominationUpdate(node[n], v)} : Finish(n, s)
        /\ UNCHANGED <<crashes, limits>>

\* A statement, new or a duplicate, reaches node n.  One that is not newer than
\* the statement recorded is ignored (processEnvelope returns INVALID).
Deliver(n, from, st) ==
    /\ node[n].M[from] = NoStatement \/ isNewerStatement(node[n].M[from], st)
    /\ \E s \in {processEnvelope(node[n], from, st, FALSE)} : Finish(n, s)
    /\ UNCHANGED <<crashes, limits>>

ReceiveFrom(n, from) ==
    \E st \in (IF from \in Byzantine THEN limits.lies ELSE sent[from]) : Deliver(n, from, st)

Receive(n) == \E from \in Node : ReceiveFrom(n, from)

TimerExpired(n) ==
    /\ node[n].timer
    /\ Counter(node[n].b) \in limits.timer[n]
    /\ \E s \in {ballotProtocolTimerExpired(node[n])} : Finish(n, s)
    /\ UNCHANGED <<crashes, limits>>

\* The process dies and a new one restores the slot (HerderImpl::restoreSCPState).
CrashRestart(n) ==
    /\ crashes < limits.crashes /\ n \in limits.crash
    /\ crashes' = crashes + 1
    /\ node' = [node EXCEPT ![n] =
                  [setStateFromEnvelope(n, persisted[n]) EXCEPT
                      !.own = {}, !.externalized = node[n].externalized]]
    /\ UNCHANGED <<sent, persisted, claims, limits>>

Next == \E n \in Honest : BumpState(n) \/ Receive(n) \/ TimerExpired(n) \/ CrashRestart(n)

Spec == Init /\ [][Next]_vars

\* What node n can still do: the enabling conditions of BumpState, ReceiveFrom
\* an honest node, and TimerExpired.
CanAct(n) ==
    /\ node[n].phase # "EXTERNALIZE"
    /\ \/ Composite[n] \ {node[n].composite} # {}
       \/ \E m \in Honest : \E st \in sent[m] :
             node[n].M[m] = NoStatement \/ isNewerStatement(node[n].M[m], st)
       \/ node[n].timer /\ Counter(node[n].b) \in limits.timer[n]

\* A step of node n that is no crash.
Acts(n) == node[n].phase # "EXTERNALIZE" /\ node'[n] # node[n] /\ crashes' = crashes

\* Weak fairness of what the nodes can do, with the enabling condition spelt out.
\* It is weaker than what the program provides, where nomination reaches a composite
\* candidate, an armed timer expires, and HerderImpl::rebroadcast repeats a node's
\* last statement until it arrives: here some node goes on as long as one can.
\* Nobody is obliged to crash.
Fairness ==
    \/ []<>~ \E n \in Honest : CanAct(n)
    \/ []<><<\E n \in Honest : Acts(n)>>_vars

FairSpec == Spec /\ Fairness

-----------------------------------------------------------------------------
(* Safety. *)

\* No handler meets a failed assertion, a null dereference or an exception: the
\* dbgAsserts of checkInvariants, bumpToBallot and updateCurrentValue, the
\* "moved to a bad state" and "maximum number of transitions" exceptions.  The nesting
\* of handlers is undone when one returns, or statements would not be sent.
NoBadState == \A n \in Honest : node[n].err = "" /\ node[n].level = 0

\* Two nodes never externalize different values, and no node externalizes
\* twice.
Agreement ==
    \A m, n \in Honest : \A x \in node[m].externalized, y \in node[n].externalized : x = y

\* A node never contradicts what it sent: the statements it broadcast, before
\* or after a restart, are no newer than the one it stands by now, and what is
\* in the database is the newest of them.
NoEquivocation ==
    \A n \in Honest : \A st \in sent[n] :
        LET own == node[n].M[n]
        IN  /\ st = own \/ isNewerStatement(st, own)
            /\ st = persisted[n] \/ isNewerStatement(st, persisted[n])

\* Once a node accepted a commit (left PREPARE) the value of its ballots is
\* settled, and until it externalizes the highest commit it accepted never
\* decreases, through timeouts, crashes and restarts.
CommitIsStable ==
    [][\A n \in Honest :
          node[n].phase # "PREPARE" =>
             /\ node[n]'.phase # "PREPARE"
             /\ \A x \in {"b", "p", "h", "c"} : Val(node[n][x]) = Val(node[n]'[x])
             /\ node[n]'.phase = "CONFIRM" => Counter(node[n].h) <= Counter(node[n]'.h)]_vars

\* A node that voted to commit a value, restarted and now has another composite
\* candidate: setStateFromEnvelope does not restore mValueOverride (:1709), so
\* bumpState proposes the candidate, which updateCurrentValue refuses (:416).
Forgot(s) == s.z = 0 /\ s.c # Null /\ s.composite \notin {0, Val(s.c)}

\* The ballot timer runs only while a quorum is at our counter, and a node that
\* heard from a quorum and is not done has a timer to leave the ballot.  The only
\* way to lose it is a timeout of a node that forgot its value: the node then stays
\* without a timer for as long as it stays in that ballot with that quorum.
TimerFollowsQuorum ==
    [][\A n \in Honest :
          LET s == node[n]
              r == node[n]'
          IN  /\ r.timer => r.heard /\ r.phase # "EXTERNALIZE"
              /\ (r.heard /\ r.phase # "EXTERNALIZE" /\ ~ r.timer) =>
                    /\ r.b = s.b /\ s.heard
                    /\ s.timer => TimerExpired(n) /\ Forgot(s)]_vars

\* BallotProtocol.h on abandonBallot, which the timer calls with n = 0: "move to
\* a new ballot at counter `n` (or, if n == 0, increment current counter)".  It
\* does, unless the node forgot its value.
TimeoutMovesOn ==
    [][\A n \in Honest :
          TimerExpired(n) =>
             Counter(node[n]'.b) > Counter(node[n].b) \/ Forgot(node[n])]_vars

\* attemptBump: "if a v-blocking set is at a higher counter ... we move to that
\* smallest counter".  Once a handler is done a node is behind a v-blocking set only
\* if it knows a node that is behind itself (the scan ends there, :1380).  Where a
\* v-blocking set and the node make a quorum, as in the runs, it then has a timer to
\* catch up by itself.
CatchesUpWithVBlocking ==
    \A n \in Honest :
        LET s        == node[n]
            ahead    == Senders(s, LAMBDA st : statementCounter(st) > Counter(s.b))
            slower   == Senders(s, LAMBDA st : statementCounter(st) < Counter(s.b))
        IN  (s.b # Null /\ s.phase # "EXTERNALIZE" /\ ahead \in vblockedBy[n]) =>
               slower # {} /\ s.timer

-----------------------------------------------------------------------------
(* Liveness. *)

\* Every node externalizes: whatever the order of statements, and through a
\* crash, nobody waits for ever for a statement that was sent and overtaken.
EveryNodeExternalizes == <>(\A n \in Honest : node[n].phase = "EXTERNALIZE")
=============================================================================
