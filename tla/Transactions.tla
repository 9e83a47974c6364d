---------------------------- MODULE Transactions ----------------------------
(***************************************************************************)
(* Ledgers that close, each with one transaction or with an upgrade of the *)
(* base reserve: fees, sequence numbers, the operations of the transaction *)
(* one after the other and all or nothing, and what the upgrade does to    *)
(* the offers on the book (Upgrades.cpp).                                  *)
(***************************************************************************)
EXTENDS Operations

CONSTANTS
    Menus,          \* sets of transactions by name; the clients submit those of one menu
    Genesis,        \* the ledger before the first transaction
    BaseFee,
    NewReserves,    \* base reserves that an upgrade may set
    MaxLedger       \* bound: the last ledger

(* Transactions that are not well formed never get into a set. *)
ASSUME MenusAssumption ==
    \A m \in DOMAIN Menus : \A tx \in Menus[m] :
        /\ Len(tx.ops) \in Nat
        /\ \A k \in 1..Len(tx.ops) : doCheckValid(tx.ops[k])

ASSUME GenesisAssumption ==
    /\ IsLedger(Genesis) /\ Genesis.err = ""
    /\ Genesis.totalCoins = Genesis.feePool + Lumens(Genesis)
    /\ \A a \in DOMAIN Genesis.acc : Genesis.acc[a].numSubEntries = Entries(Genesis, a)
    /\ Owners(Genesis) \subseteq DOMAIN Genesis.acc
    /\ \A i \in DOMAIN Genesis.offers : i <= Genesis.idPool

ASSUME ParametersAssumption ==
    /\ {SeqPerLedger, InflationRate, InflationWinMin, BaseFee} \subseteq Nat
    /\ NewReserves \subseteq Nat

VARIABLES
    menu,
    ledger,
    spent,          \* per account, the highest sequence number it ever had
    raised,         \* an upgrade raised the reserve
    thrown          \* the runtime_error of the last transaction, or ""

vars == <<menu, ledger, spent, raised, thrown>>

Init ==
    /\ menu \in DOMAIN Menus
    /\ ledger = Genesis
    /\ spent = [a \in DOMAIN Genesis.acc |-> Genesis.acc[a].seqNum]
    /\ raised = FALSE
    /\ thrown = ""

(* The sequence numbers that accounts are past after the ledgers Ls. *)
Spend(Ls) ==
    LET seen == [a \in DOMAIN spent \cup UNION {DOMAIN L.acc : L \in Ls} |->
                    {spent[b] : b \in DOMAIN spent \cap {a}}
                    \cup {L.acc[a].seqNum : L \in {M \in Ls : exists(M, a)}}]
    IN  [a \in DOMAIN seen |-> Max(seen[a])]

-----------------------------------------------------------------------------
(* The set of transactions was validated against the last closed ledger. *)
checkValid(L, tx) ==
    /\ exists(L, tx.src)
    /\ getAvailableBalance(L, tx.src, Native) >= BaseFee * Len(tx.ops)

processFeeSeqNum(L, tx) ==
    LET fee == Min({L.acc[tx.src].balance, BaseFee * Len(tx.ops)}) IN
    [L EXCEPT !.acc[tx.src].balance = @ - fee, !.feePool = @ + fee]

processSeqNum(L, tx) == [L EXCEPT !.acc[tx.src].seqNum = @ + 1]

(* The operations see each other's changes; one that fails does not stop the *)
(* ones after it, and all of them are rolled back. So they are when one      *)
(* throws, which applyTransactions catches.                                  *)

apply(s, op) ==
    LET Applied(r) == [ok |-> s.ok /\ r.code = "ok", L |-> r.L] IN
    IF s.L.err # "" THEN s ELSE Applied(doApply(s.L, op))

applyOperations(L, tx) ==
    LET after[k \in 0..Len(tx.ops)] ==
            IF k = 0 THEN [ok |-> TRUE, L |-> L] ELSE apply(after[k - 1], tx.ops[k])
        Kept(end) == [err |-> end.L.err, L |-> IF end.ok /\ end.L.err = "" THEN end.L ELSE L]
    IN  Kept(after[Len(tx.ops)])

closeLedger(tx) ==
    /\ ledger.ledgerSeq < MaxLedger
    /\ checkValid(ledger, tx)
    /\ LET new == [ledger EXCEPT !.ledgerSeq = @ + 1]
           base == processSeqNum(processFeeSeqNum(new, tx), tx)
       IN  \E r \in {applyOperations(base, tx)} :
               /\ ledger' = r.L
               /\ thrown' = r.err
               /\ spent' = Spend({base, r.L})
    /\ UNCHANGED <<menu, raised>>

-----------------------------------------------------------------------------
(* prepareLiabilities: the offers of one account when the reserve rises. *)

Promises(L, ids, asset, side) ==
    SumFunction([i \in ids |->
        LET o == L.offers[i] IN
        IF side = "buying" /\ o.buying = asset
        THEN OfferLiabilities(o.price, o.amount).numSheepSend
        ELSE IF side = "selling" /\ o.selling = asset
        THEN OfferLiabilities(o.price, o.amount).numWheatReceived ELSE 0])

getAvailableBalanceExcludingLiabilities(L, a, asset) ==
    IF isIssuer(a, asset) THEN INT64_MAX
    ELSE IF asset = Native THEN L.acc[a].balance - getMinBalance(L, L.acc[a].numSubEntries)
    ELSE IF hasTrustLine(L, a, asset) /\ isAuthorized(L, a, asset)
    THEN Holding(L, a, asset).balance ELSE 0

getAvailableLimitExcludingLiabilities(L, a, asset) ==
    IF isIssuer(a, asset) THEN INT64_MAX
    ELSE IF asset = Native THEN INT64_MAX - L.acc[a].balance
    ELSE IF hasTrustLine(L, a, asset) /\ isAuthorized(L, a, asset)
    THEN Holding(L, a, asset).limit - Holding(L, a, asset).balance ELSE 0

(* updateOffer: the offer goes if what is promised of one of its assets  *)
(* exceeds what the account has or may hold.                             *)
Excess(L, o) ==
    LET a == o.seller
        Promised(asset, side) ==
            IF isIssuer(a, asset) THEN 0 ELSE Promises(L, Owned(L, a), asset, side)
    IN  \/ Promised(o.selling, "selling")
               > getAvailableBalanceExcludingLiabilities(L, a, o.selling)
        \/ Promised(o.buying, "buying")
               > getAvailableLimitExcludingLiabilities(L, a, o.buying)
        \/ adjustOffer(o.price, o.amount, INT64_MAX).numWheatReceived = 0

(* The liabilities of an asset are brought in line with the offers that stay, *)
(* if there are offers of that asset that stay.                               *)
realign(L, a, asset) ==
    LET h == Holding(L, a, asset)
        sold == addSellingLiabilities(L, a, asset,
                    Promises(L, Owned(L, a), asset, "selling") - h.selling)
        bought == addBuyingLiabilities(sold.L, a, asset,
                    Promises(L, Owned(L, a), asset, "buying") - h.buying)
    IN  IF isIssuer(a, asset) THEN L
        ELSE IF ~sold.ok THEN throw(L, "invalid selling liabilities during upgrade")
        ELSE IF ~bought.ok THEN throw(L, "invalid buying liabilities during upgrade")
        ELSE bought.L

realignAll(L, lines) ==
    LET aligned[done \in SUBSET lines] ==
            LET line == CHOOSE l \in done : TRUE IN
            IF done = {} THEN L ELSE realign(aligned[done \ {line}], line[1], line[2])
    IN  aligned[lines]

eraseOffers(L, gone) ==
    LET erased[ids \in SUBSET gone] ==
            IF ids = {} THEN L ELSE eraseOffer(erased[ids \ {Max(ids)}], Max(ids))
    IN  erased[gone]

adjustOffers(L) ==
    [L EXCEPT !.offers = [i \in DOMAIN L.offers |->
        [L.offers[i] EXCEPT !.amount = adjustOffer(L.offers[i].price, @, INT64_MAX).numWheatReceived]]]

linesOf(L) ==
    {<<L.offers[i].seller, L.offers[i].buying>> : i \in DOMAIN L.offers}
    \cup {<<L.offers[i].seller, L.offers[i].selling>> : i \in DOMAIN L.offers}

prepareLiabilities(L) ==
    LET gone == {i \in DOMAIN L.offers : Excess(L, L.offers[i])}
        kept == adjustOffers(eraseOffers(L, gone))
    IN  realignAll(kept, linesOf(kept))

(* The ledger closes without the upgrade if that throws. *)
applyReserveUpgrade(newReserve) ==
    /\ ledger.ledgerSeq < MaxLedger
    /\ newReserve # ledger.baseReserve
    /\ LET new == [ledger EXCEPT !.ledgerSeq = @ + 1]
           set == [new EXCEPT !.baseReserve = newReserve]
           L == IF newReserve > ledger.baseReserve THEN prepareLiabilities(set) ELSE set
       IN  /\ ledger' = IF L.err = "" THEN L ELSE new
           /\ thrown' = L.err
           /\ raised' = (raised \/ (newReserve > ledger.baseReserve /\ L.err = ""))
    /\ UNCHANGED <<menu, spent>>

Next ==
    \/ \E tx \in Menus[menu] : closeLedger(tx)
    \/ \E r \in NewReserves : applyReserveUpgrade(r)

Spec == Init /\ [][Next]_vars

-----------------------------------------------------------------------------
(* What the operations must keep true of every ledger. *)

(* No lumens are made or lost: what the accounts hold and the fee pool add up *)
(* to totalCoins, through trades, merges, fees and the rounding of inflation  *)
(* (the ConservationOfLumens invariant of the code).                          *)
ConservationOfLumens ==
    ledger.totalCoins = ledger.feePool + Lumens(ledger)

Lines(L) == {<<a, Native>> : a \in DOMAIN L.acc} \cup DOMAIN L.tl

Buys(L, line) == Promises(L, Owned(L, line[1]), line[2], "buying")
Sells(L, line) == Promises(L, Owned(L, line[1]), line[2], "selling")

Backed(L, line) ==
    LET h == Holding(L, line[1], line[2])
        limit == IF line[2] = Native THEN INT64_MAX ELSE h.limit
    IN  /\ h.buying >= Buys(L, line) /\ h.selling >= Sells(L, line)
        /\ h.selling <= h.balance /\ h.balance + h.buying <= limit

BackedExactly(L, line) ==
    LET h == Holding(L, line[1], line[2])
    IN  /\ h.buying = Buys(L, line) /\ h.selling = Sells(L, line)
        /\ line[2] = Native \/ h.authorized \/ (h.buying = 0 /\ h.selling = 0)

(* Nobody has a line of an asset of his own, sellers have the lines that back *)
(* their offers, adjustOffer was applied to these, and whoever sells lumens   *)
(* has his reserve.                                                           *)
ASSUME OffersAssumption ==
    /\ \A l \in DOMAIN Genesis.tl : l = <<l[1], l[2]>> /\ ~isIssuer(l[1], l[2])
    /\ \A line \in Lines(Genesis) : BackedExactly(Genesis, line)
    /\ \A i \in DOMAIN Genesis.offers :
          LET o == Genesis.offers[i] IN
          /\ canHold(Genesis, o.seller, o.buying) /\ canHold(Genesis, o.seller, o.selling)
          /\ o.amount \in 1..INT64_MAX
          /\ adjustOffer(o.price, o.amount, INT64_MAX).numWheatReceived = o.amount
          /\ o.selling = Native => getAvailableBalance(Genesis, o.seller, Native) >= 0

(* Every promise of an offer on the book is covered: the liabilities of an   *)
(* account or a line are at least what its offers promise, and fit into its  *)
(* balance and its limit. As long as no upgrade raised the reserve they are  *)
(* exactly that, and a line that is not authorized has none.                 *)
OffersAreBacked ==
    \A line \in Lines(ledger) :
        Backed(ledger, line) /\ (raised \/ BackedExactly(ledger, line))

(* The liabilities of every account and line are what its offers promise, *)
(* after an upgrade too.                                                  *)
LiabilitiesMatchOffers ==
    \A line \in Lines(ledger) :
        LET h == Holding(ledger, line[1], line[2]) IN
        h.buying = Buys(ledger, line) /\ h.selling = Sells(ledger, line)

(* An offer on the book can be honoured in full: with its liabilities        *)
(* released, its seller has what it sells and room for what it is promised.  *)
(* adjustOffer then has no effect on it, as crossOfferV10 counts on, unless  *)
(* the room is just that and the price is above one: what the price makes of *)
(* such a room may be less than the offer sells.                             *)
Honourable(L, o) ==
    LET free == releaseLiabilities(L, o)
        promised == OfferLiabilities(o.price, o.amount).numSheepSend
        room == canBuyAtMost(free, o.seller, o.buying)
    IN  /\ free.err = ""
        /\ canSellAtMost(free, o.seller, o.selling) >= o.amount
        /\ room >= promised
        /\ \/ AdjustedAmount(free, o).numWheatReceived = o.amount
           \/ o.price.n > o.price.d /\ room = promised

OffersCanBeHonoured ==
    \A i \in DOMAIN ledger.offers : Honourable(ledger, ledger.offers[i])

(* numSubEntries counts the signers, lines, offers and data of an account,  *)
(* and none of these is left behind by an account that was merged.          *)
SubEntriesAreCounted ==
    /\ \A a \in DOMAIN ledger.acc : ledger.acc[a].numSubEntries = Entries(ledger, a)
    /\ Owners(ledger) \subseteq DOMAIN ledger.acc

(* None of the errors that "should never happen" or "would indicate a bug in  *)
(* OfferExchange" is thrown. The two exceptions are a payment of lumens that  *)
(* its destination cannot hold, and an upgrade that takes the offers of an    *)
(* account below the new reserve.                                             *)
NothingThrows ==
    thrown \in {"", "Unexpected error code from pathPayment",
               "invalid selling liabilities during upgrade"}

(* An account that exists is past every sequence number it ever had, also    *)
(* when it was merged and created again: no transaction can be replayed.     *)
SequencesNeverRewind ==
    \A a \in DOMAIN ledger.acc : ledger.acc[a].seqNum >= spent[a]
=============================================================================
