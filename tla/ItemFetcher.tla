---------------------------- MODULE ItemFetcher ----------------------------
(***************************************************************************)
(* Asking peers for the transaction sets and quorum sets that envelopes    *)
(* refer to: a Tracker per item with the envelopes that wait for it, a     *)
(* timer, the peer asked last and the peers left to ask.                   *)
(*                                                                         *)
(* Operators take the state h of a node and return the state after the     *)
(* call; h.trackers, h.requests (sent and not answered) and h.peers (the   *)
(* authenticated peers) are the fields used here.  A list of peers is in   *)
(* random order, so it is a set, and `pick' says which of them comes next  *)
(* for the items asked for in one step.                                    *)
(***************************************************************************)
EXTENDS Integers, Sequences, SequencesExt

CONSTANT Peer

NoPeer == "none"

LargerOf(a, b) == IF a > b THEN a ELSE b

\* An item that ItemFetcher::mTrackers does not have, and one it has.
NoTracker == [tracked |-> FALSE, waiting |-> <<>>, lastSeen |-> 0, timer |-> FALSE,
              asked |-> NoPeer, toAsk |-> {}]

Tracker == [NoTracker EXCEPT !.tracked = TRUE]

-----------------------------------------------------------------------------
(* Tracker *)

listen(h, item, e) ==
    [h EXCEPT !.trackers[item].waiting = Append(@, e),
              !.trackers[item].lastSeen = LargerOf(@, e.slot)]

tryNextPeer_noTimer(h, item, pick) ==  \* mutant: nobody to ask, and no timer
    LET tr    == h.trackers[item]
        toAsk == (IF tr.toAsk = {} /\ tr.asked = NoPeer THEN h.peers ELSE tr.toAsk)
                    \cap h.peers
        p     == IF pick \in toAsk THEN pick ELSE CHOOSE q \in toAsk : TRUE
    IN  IF toAsk = {}
        THEN [h EXCEPT !.trackers[item] = [@ EXCEPT !.asked = NoPeer, !.toAsk = {}, !.timer = FALSE]]
        ELSE [h EXCEPT !.trackers[item] = [@ EXCEPT !.asked = p, !.toAsk = toAsk \ {p},
                                                    !.timer = TRUE],
                       !.requests = @ \cup {<<p, item>>}]

\* Peers that were dropped are skipped.  With nobody left, a new list is made when
\* the timer expires.
tryNextPeer(h, item, pick) ==
    LET tr    == h.trackers[item]
        toAsk == (IF tr.toAsk = {} /\ tr.asked = NoPeer THEN h.peers ELSE tr.toAsk)
                    \cap h.peers
        p     == IF pick \in toAsk THEN pick ELSE CHOOSE q \in toAsk : TRUE
    IN  IF toAsk = {}
        THEN [h EXCEPT !.trackers[item] = [@ EXCEPT !.asked = NoPeer, !.toAsk = {}, !.timer = TRUE]]
        ELSE [h EXCEPT !.trackers[item] = [@ EXCEPT !.asked = p, !.toAsk = toAsk \ {p},
                                                    !.timer = TRUE],
                       !.requests = @ \cup {<<p, item>>}]

\* The peer asked last is kept.
cancel(h, item) ==
    [h EXCEPT !.trackers[item].timer = FALSE, !.trackers[item].lastSeen = 0]

discard(h, item, e) ==
    [h EXCEPT !.trackers[item].waiting = SelectSeq(@, LAMBDA x : x # e)]

\* Afterwards a tracker that nobody waits for is erased.
clearEnvelopesBelow(tr, slotIndex) ==
    LET left == SelectSeq(tr.waiting, LAMBDA e : e.slot >= slotIndex)
    IN  IF left = <<>> THEN NoTracker ELSE [tr EXCEPT !.waiting = left]

-----------------------------------------------------------------------------
(* ItemFetcher *)

fetch(h, item, e, pick) ==
    IF h.trackers[item].tracked
    THEN listen(h, item, e)
    ELSE tryNextPeer(listen([h EXCEPT !.trackers[item] = Tracker], item, e), item, pick)

stopFetch(h, item, e) ==
    LET g == discard(h, item, e) IN
    IF ~ h.trackers[item].tracked THEN h
    ELSE IF g.trackers[item].waiting = <<>> THEN cancel(g, item) ELSE g

getLastSeenSlotIndex(h, item) == h.trackers[item].lastSeen

fetchingFor(h, item) == h.trackers[item].waiting

stopFetchingBelow(h, slotIndex) ==
    [h EXCEPT !.trackers = [i \in DOMAIN h.trackers |->
                               clearEnvelopesBelow(h.trackers[i], slotIndex)]]

doesntHave(h, item, p, pick) ==
    IF h.trackers[item].tracked /\ h.trackers[item].asked = p
    THEN tryNextPeer(h, item, pick)
    ELSE h
=============================================================================
