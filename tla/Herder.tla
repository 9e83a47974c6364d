------------------------------- MODULE Herder -------------------------------
(***************************************************************************)
(* A node's herder between the overlay, SCP and the ledger manager: which  *)
(* slot the node tracks, which envelopes reach SCP and when, when the node *)
(* proposes, and what happens when it loses track of the network.          *)
(*                                                                         *)
(* The state is one record h, as handlers call each other several times in *)
(* one step of the event loop.  SCP stands behind receiveEnvelope: a slot  *)
(* externalizes when the envelopes of a quorum name one transaction set.   *)
(* The ledger manager is the one of module LedgerManager, with a catchup   *)
(* as one step.                                                            *)
(***************************************************************************)
EXTENDS PendingEnvelopes

CONSTANTS
    Node,
    Traffics,                 \* sets of envelopes that others may send, in any order and
                              \* number; a behaviour has one of them
    QuorumNodes,              \* sets of nodes that make a slot externalize
    Proposals,                \* Proposals[s]: what the node may propose for slot s
    OwnQSets,                 \* the node's own quorum set, known from the start
    InsaneQSets,              \* quorum sets that isQuorumSetSane refuses
    SavedTxSets,              \* of the SCP state in the database
    Has,                      \* Has[p]: the items that peer p has
    StablePeers,              \* peers that stay connected
    LEDGER_VALIDITY_BRACKET,  \* 100
    MaxRestarts               \* bound: restarts of the process

Envelope == UNION Traffics

ASSUME HerderAssumption ==
    /\ Envelope \subseteq [slot : Slot, node : Node, txs : SUBSET TxSet, q : QSet]
    /\ MAX_SLOTS_TO_REMEMBER \in Nat \ {0} /\ LEDGER_VALIDITY_BRACKET \in Nat
    /\ InsaneQSets \subseteq QSet /\ Has \in [Peer -> SUBSET Item]

VARIABLES
    traffic,
    h,
    restarts

vars == <<traffic, h, restarts>>

\* A process that starts with a last closed ledger: the herder tracks that ledger,
\* of the quorum sets it has its own, of the transaction sets those it saved.
\* With FORCE_SCP it is in sync and about to propose (bootstrap).
Started(lcl, saved, force, up) ==
    [trackers |-> [i \in Item |-> NoTracker], requests |-> {}, peers |-> up,
     fetching |-> {}, processed |-> {}, discarded |-> {}, ready |-> [s \in Slot |-> <<>>],
     txsets |-> [t \in TxSet |-> IF t \in saved THEN 0 ELSE ABSENT], qsets |-> OwnQSets,
     posted |-> {}, on |-> TRUE, tracking |-> lcl, lastTracking |-> 0, lcl |-> lcl,
     lm |-> IF force THEN "synced" ELSE "booting", scp |-> {}, done |-> {},
     trigger |-> IF force THEN lcl + 1 ELSE 0, nominating |-> 0,
     persisted |-> saved, err |-> ""]

Init ==
    /\ \E force \in BOOLEAN : h = Started(1, SavedTxSets, force, Peer)
    /\ restarts = 0
    /\ traffic \in Traffics

-----------------------------------------------------------------------------
(* Tracking *)

nextConsensusLedgerIndex(g) == g.tracking + 1

getCurrentLedgerSeq(g) ==
    LargerOf(LargerOf(g.lcl, IF g.on THEN g.tracking ELSE 0), g.lastTracking)

\* LedgerManagerImpl::valueExternalized; a catchup waits for CatchupDone.
closeOrCatchup(g, slot) ==
    IF g.lm = "catchup" THEN g
    ELSE IF slot = g.lcl + 1 THEN [g EXCEPT !.lcl = slot, !.lm = "synced"]
    ELSE IF slot <= g.lcl THEN g
    ELSE [g EXCEPT !.lm = "catchup"]

purgeSlots(g, below) ==
    [g EXCEPT !.scp = {e \in @ : e.slot >= below}, !.done = {s \in @ : s >= below}]

\* HerderSCPDriver::valueExternalized, HerderImpl::valueExternalized and ledgerClosed
\* up to the processing of the queue.
valueExternalized(g, slot, t) ==
    LET known == g.txsets[t] # ABSENT
        on == [g EXCEPT !.nominating = 0, !.on = TRUE, !.tracking = slot,
                        !.lastTracking = IF @ = 0 THEN slot ELSE @, !.trigger = 0,
                        !.err = IF known THEN @ ELSE "externalized set is missing"]
        closed == closeOrCatchup(on, slot)
        purged == IF slot > MAX_SLOTS_TO_REMEMBER
                  THEN purgeSlots(closed, slot - MAX_SLOTS_TO_REMEMBER) ELSE closed
    IN  IF slot <= getCurrentLedgerSeq(g) THEN g ELSE slotClosed(purged, slot)

\* validateValueHelper's errors: what reaches SCP should be complete and not ahead.
validationError(g, e) ==
    LET compat == g.lm = "synced" /\ e.slot = g.lcl + 1 IN
    IF compat /\ \E t \in e.txs : g.txsets[t] = ABSENT THEN "txSet not found"
    ELSE IF ~ compat /\ g.on /\ nextConsensusLedgerIndex(g) < e.slot
         THEN "processing a future message while tracking"
    ELSE g.err

\* SCP::receiveEnvelope and the slot it belongs to.
Agreed(g, slot) ==
    {t \in TxSet : \E Q \in QuorumNodes : \A n \in Q :
        \E e \in g.scp : e.slot = slot /\ e.node = n /\ e.txs = {t}}

receiveEnvelope(g, e) ==
    LET got == [g EXCEPT !.scp = @ \cup {e}, !.err = validationError(g, e)] IN
    IF e.slot \in g.done \/ Agreed(got, e.slot) = {} THEN got
    ELSE valueExternalized([got EXCEPT !.done = @ \cup {e.slot}], e.slot,
                           CHOOSE t \in Agreed(got, e.slot) : TRUE)

-----------------------------------------------------------------------------
(* The queue of envelopes for SCP *)

\* The smallest slot with an envelope for SCP, the envelope queued last.
PopFrom(g, upTo) == {s \in readySlots(g) : s <= upTo /\ \A r \in readySlots(g) : s <= r}

\* An externalized slot lets its caller go on to the slot after it (ledgerClosed).
popOne(g, upTo) ==
    LET s == CHOOSE x \in PopFrom(g, upTo) : TRUE
        e == Last(g.ready[s])
    IN  receiveEnvelope([g EXCEPT !.ready[s] = Front(@)], e)

UpTo(g, was, upTo) ==
    IF g.tracking # was.tracking THEN LargerOf(upTo, nextConsensusLedgerIndex(g)) ELSE upTo

\* Until nothing is left; the trigger is armed by the innermost ledgerClosed.
processSCPQueueUpToIndex(g, slotIndex) ==
    LET Step(st, i) ==
            IF PopFrom(st.g, st.upTo) = {} THEN st
            ELSE LET n == popOne(st.g, st.upTo) IN [g |-> n, upTo |-> UpTo(n, st.g, st.upTo)]
        end == FoldLeft(Step, [g |-> g, upTo |-> slotIndex],
                        [i \in 1..Cardinality(Envelope) |-> i]).g
    IN  IF end.tracking # g.tracking /\ end.lm = "synced"
        THEN [end EXCEPT !.trigger = nextConsensusLedgerIndex(end)] ELSE end

processSCPQueue(g) ==
    LET oldest == nextConsensusLedgerIndex(g) - MAX_SLOTS_TO_REMEMBER IN
    IF g.on
    THEN processSCPQueueUpToIndex(IF oldest > 0 THEN eraseBelow(g, oldest) ELSE g,
                                  nextConsensusLedgerIndex(g))
    ELSE FoldLeft(LAMBDA x, s : IF s \in readySlots(g) /\ ~ x.on
                                THEN processSCPQueueUpToIndex(x, s) ELSE x,
                  g, [s \in Slot |-> s])

InWindow(g, slot) ==
    LET current == getCurrentLedgerSeq(g) IN
    /\ slot >= IF current > MAX_SLOTS_TO_REMEMBER THEN current - MAX_SLOTS_TO_REMEMBER ELSE current
    /\ g.on => slot <= nextConsensusLedgerIndex(g) + LEDGER_VALIDITY_BRACKET

recvSCPEnvelope(g, e, pick) ==
    LET n == enterEnvelope(g, e, pick) IN
    IF ~ InWindow(g, e.slot) THEN g
    ELSE IF e \in n.processed \ g.processed THEN processSCPQueue(n)
    ELSE n

-----------------------------------------------------------------------------
(* Items *)

\* ItemFetcher::recv: the envelopes that waited are received again, the last one first.
recv(g, item, pick) ==
    LET waiting == g.trackers[item].waiting
        popped  == [g EXCEPT !.trackers[item].waiting = <<>>]
    IN  IF ~ g.trackers[item].tracked
        THEN g
        ELSE cancel(FoldLeft(LAMBDA x, e : recvSCPEnvelope(x, e, pick), popped, Reverse(waiting)), item)

addTxSet_quiet(g, t, slotIndex, pick) ==  \* mutant: the fetcher is not told
    [g EXCEPT !.txsets[t] = slotIndex]

addTxSet(g, t, slotIndex, pick) ==
    recv([g EXCEPT !.txsets[t] = slotIndex], t, pick)

recvTxSet(g, t, pick) ==
    IF getLastSeenSlotIndex(g, t) = 0 THEN g
    ELSE addTxSet(g, t, getLastSeenSlotIndex(g, t), pick)

addSCPQuorumSet(g, q, pick) ==
    recv([g EXCEPT !.qsets = @ \cup {q}], q, pick)

recvSCPQuorumSet(g, q, pick) ==
    IF getLastSeenSlotIndex(g, q) = 0 THEN g
    ELSE IF q \in InsaneQSets THEN discardSCPEnvelopesWithQSet(g, q)
    ELSE addSCPQuorumSet(g, q, pick)

-----------------------------------------------------------------------------
(* Steps of the event loop.  Nothing happens after an error. *)

Running == h.err = ""

RecvSCPEnvelope(e, pick) ==
    /\ Running
    /\ h' = recvSCPEnvelope(h, e, pick)
    /\ UNCHANGED <<traffic, restarts>>

\* A peer sends the item it was asked for, or that it does not have it.
PeerAnswers(p, item, pick) ==
    /\ Running
    /\ <<p, item>> \in h.requests
    /\ LET g == [h EXCEPT !.requests = @ \ {<<p, item>>}] IN
       h' = IF item \notin Has[p] THEN doesntHave(g, item, p, pick)
            ELSE IF item \in TxSet THEN recvTxSet(g, item, pick)
            ELSE recvSCPQuorumSet(g, item, pick)
    /\ UNCHANGED <<traffic, restarts>>

TrackerTimer(item, pick) ==
    /\ Running
    /\ h.trackers[item].timer
    /\ h' = tryNextPeer(h, item, pick)
    /\ UNCHANGED <<traffic, restarts>>

StopFetchingBelow(s) ==
    /\ Running
    /\ s \in h.posted
    /\ h' = [stopFetchingBelow(h, s) EXCEPT !.posted = @ \ {s}]
    /\ UNCHANGED <<traffic, restarts>>

\* The slot to nominate is taken before the set is added, which may make SCP
\* externalize it.  What is nominated is saved (emitEnvelope, persistSCPState).
triggerNextLedger(t, pick) ==
    /\ Running
    /\ h.trigger # 0
    /\ IF ~ h.on \/ h.lm # "synced"
       THEN h' = [h EXCEPT !.trigger = 0]
       ELSE /\ h.lcl + 1 \in Slot /\ t \in Proposals[h.lcl + 1]
            /\ LET slotIndex == h.lcl + 1
                   added == addTxSet([h EXCEPT !.trigger = 0], t, slotIndex, pick)
               IN  h' = IF h.trigger # slotIndex THEN added
                        ELSE [added EXCEPT !.nominating = slotIndex, !.persisted = {t}]
    /\ UNCHANGED <<traffic, restarts>>

\* The tracking timer expires.
herderOutOfSync ==
    /\ Running
    /\ h.on
    /\ h' = processSCPQueue([h EXCEPT !.on = FALSE, !.lastTracking = h.tracking])
    /\ UNCHANGED <<traffic, restarts>>

\* A catchup ends with the ledger that consensus is at; the next one is closed.
CatchupDone ==
    /\ Running
    /\ h.lm = "catchup"
    /\ h' = [h EXCEPT !.lcl = LargerOf(@, h.tracking), !.lm = "waiting"]
    /\ UNCHANGED <<traffic, restarts>>

DropPeer(p) ==
    /\ Running
    /\ p \in h.peers \ StablePeers
    /\ h' = [h EXCEPT !.peers = @ \ {p}, !.requests = {r \in @ : r[1] # p}]
    /\ UNCHANGED <<traffic, restarts>>

\* restoreSCPState; bound: the peers that stay are the ones that connect again.
Restart ==
    /\ restarts < MaxRestarts
    /\ restarts' = restarts + 1
    /\ \E force \in BOOLEAN : h' = Started(h.lcl, h.persisted, force, StablePeers)
    /\ UNCHANGED traffic

Next ==
    \/ \E pick \in Peer :
          \/ \E e \in traffic : RecvSCPEnvelope(e, pick)
          \/ \E p \in Peer, i \in Item : PeerAnswers(p, i, pick)
          \/ \E i \in Item : TrackerTimer(i, pick)
          \/ \E t \in TxSet : triggerNextLedger(t, pick)
    \/ \E s \in h.posted : StopFetchingBelow(s)
    \/ herderOutOfSync
    \/ CatchupDone
    \/ \E p \in Peer : DropPeer(p)
    \/ Restart

Spec == Init /\ [][Next]_vars

\* Weak fairness of timers, posted calls and the answers of peers that stay, said by
\* what these steps end: waiting for one peer, a posted call, a request.
FairSpec ==
    /\ Spec
    /\ \A i \in Item, p \in Peer \cup {NoPeer} :
          []<>(~ h.trackers[i].timer \/ h.trackers[i].asked # p)
    /\ \A s \in Slot : []<>(s \notin h.posted)
    /\ \A i \in Item, p \in StablePeers : []<>(<<p, i>> \notin h.requests)

-----------------------------------------------------------------------------

\* What reaches SCP is complete and not ahead of what is tracked, and what it
\* externalizes is there: the errors that validateValueHelper logs ("txSet not
\* found?", "processing a future message while tracking") and the null pointer in
\* HerderImpl::valueExternalized never happen, whatever was evicted from the caches.
NothingIncompleteReachesSCP == h.err = ""

Obsolete(e) == e.slot + MAX_SLOTS_TO_REMEMBER <= getCurrentLedgerSeq(h)

\* stopFetch of an envelope that was discarded for its quorum set cancels a tracker
\* that nobody else waits for and leaves it in mTrackers, where fetch finds it and
\* does not start it again.
Abandoned(item) == \E e \in h.discarded : item \in e.txs \cup {e.q}

\* An envelope that waits is waited for: every item it misses, unless it is abandoned,
\* has a tracker with a running timer that will receive it again (ItemFetcher: "Fetch
\* data identified by @p hash and needed by @p envelope").
EveryMissingItemIsFetched ==
    \A e \in h.fetching : ~ Obsolete(e) =>
        \A i \in Missing(h, e) : \/ Abandoned(i)
                                 \/ /\ h.trackers[i].timer
                                    /\ e \in ToSet(h.trackers[i].waiting)

\* An envelope in the window does not wait for ever, when a peer that stays has what
\* it misses and it is not abandoned.
EnvelopesGetThrough ==
    \A e \in Envelope : e \in h.fetching ~>
        \/ e \notin h.fetching
        \/ Obsolete(e)
        \/ \E i \in Missing(h, e) : Abandoned(i)
=============================================================================
