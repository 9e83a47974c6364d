-------------------------- MODULE PendingEnvelopes --------------------------
(***************************************************************************)
(* Envelopes between the network and SCP.  An envelope waits until its     *)
(* quorum set and its transaction sets are there (fetching), is then       *)
(* queued for SCP (ready), and remembered until its slot leaves the window *)
(* (processed, discarded).  Envelopes are records of a slot, a node, a set *)
(* of transaction sets and a quorum set.                                   *)
(***************************************************************************)
EXTENDS ItemFetcher, FiniteSets

CONSTANTS TxSet, QSet,
          MaxSlot,                  \* bound: the last slot of the network
          MAX_SLOTS_TO_REMEMBER     \* 12

Item == TxSet \cup QSet
Slot == 1..MaxSlot

ABSENT == -1      \* not in mTxSetCache; otherwise the slot it was last seen for

isDiscarded(h, e) == e \in h.discarded

isFullyFetched_qset(h, e) == e.q \in h.qsets  \* mutant: transaction sets may be missing

isFullyFetched(h, e) == e.q \in h.qsets /\ \A t \in e.txs : h.txsets[t] # ABSENT

Missing(h, e) == ({e.q} \ h.qsets) \cup {t \in e.txs : h.txsets[t] = ABSENT}

startFetch(h, e, pick) ==
    FoldSet(LAMBDA i, g : fetch(g, i, e, pick), h, Missing(h, e))

stopFetchAll(h, e) == FoldSet(LAMBDA i, g : stopFetch(g, i, e), h, {e.q} \cup e.txs)

touchFetchCache(h, e) ==
    [h EXCEPT !.txsets = [t \in TxSet |->
        IF t \in e.txs /\ @[t] # ABSENT THEN LargerOf(@[t], e.slot) ELSE @[t]]]

envelopeReady(h, e) == [h EXCEPT !.ready[e.slot] = Append(@, e)]

\* Leaves e where it belongs; it was made ready if it was not processed and is now.
enterEnvelope(h, e, pick) ==
    LET touched == touchFetchCache(h, e)
        g == IF e \in touched.fetching THEN touched
             ELSE startFetch([touched EXCEPT !.fetching = @ \cup {e}], e, pick)
    IN  IF isDiscarded(h, e) THEN h
        ELSE IF e \in h.processed \ h.fetching THEN touched
        ELSE IF isFullyFetched(g, e)
        THEN envelopeReady([g EXCEPT !.fetching = @ \ {e}, !.processed = @ \cup {e}], e)
        ELSE g

discardSCPEnvelope(h, e) ==
    IF isDiscarded(h, e) THEN h
    ELSE stopFetchAll([h EXCEPT !.discarded = @ \cup {e}, !.fetching = @ \ {e}], e)

discardSCPEnvelopesWithQSet(h, q) == FoldLeft(discardSCPEnvelope, h, fetchingFor(h, q))

readySlots(h) == {s \in Slot : h.ready[s] # <<>>}

eraseSlots(h, gone) ==
    [h EXCEPT !.fetching  = {e \in @ : e.slot \notin gone},
              !.processed = {e \in @ : e.slot \notin gone},
              !.discarded = {e \in @ : e.slot \notin gone},
              !.ready     = [s \in Slot |-> IF s \in gone THEN <<>> ELSE @[s]]]

\* Zero marks a transaction set of unknown slot, loaded from the database.
eraseBelow(h, slotIndex) ==
    [eraseSlots(h, {s \in Slot : s < slotIndex}) EXCEPT
        !.txsets = [t \in TxSet |-> IF @[t] # 0 /\ @[t] < slotIndex THEN ABSENT ELSE @[t]]]

\* Fetching is stopped later, by a posted call.
slotClosed(h, slotIndex) ==
    LET s == slotIndex - MAX_SLOTS_TO_REMEMBER IN
    IF s <= 0 THEN h
    ELSE [eraseSlots(h, {s}) EXCEPT
            !.posted = @ \cup {s + 1},
            !.txsets = [t \in TxSet |-> IF @[t] = s THEN ABSENT ELSE @[t]]]
=============================================================================
