---------------------------- MODULE LedgerEntries ----------------------------
(***************************************************************************)
(* The entries of a ledger and the rules under which their balances,       *)
(* liabilities and sub-entry counts may change (TransactionUtils and       *)
(* TrustLineWrapper), since protocol 10.                                   *)
(*                                                                         *)
(* A ledger L is a record:                                                 *)
(*   acc     the accounts that exist, by identifier                        *)
(*   tl      the trust lines, by <<account, asset>>                        *)
(*   offers  the offers, by identifier                                     *)
(*   data    the data entries, as <<account, name>>                        *)
(*   ledgerSeq, idPool, feePool, totalCoins, inflationSeq, baseReserve     *)
(*           fields of the header                                          *)
(*   err     the runtime_error that was thrown, or ""                      *)
(* Operators that the code lets fail return [ok, L].                       *)
(***************************************************************************)
EXTENDS OfferExchange, FiniteSets, Functions

CONSTANTS
    Native,       \* the native asset
    Issuer        \* the issuer of every other asset

(* The liabilities of an account or a line fit into its balance and its limit. *)
IsAccount(h) ==
    /\ h = [balance |-> h.balance, seqNum |-> h.seqNum, numSubEntries |-> h.numSubEntries,
            buying |-> h.buying, selling |-> h.selling, signers |-> h.signers,
            flags |-> h.flags, inflationDest |-> h.inflationDest]
    /\ {h.balance, h.seqNum, h.numSubEntries, h.buying, h.selling} \subseteq Nat
    /\ IsFiniteSet(h.signers)
    /\ h.selling <= h.balance /\ h.balance + h.buying <= INT64_MAX

IsLine(h) ==
    /\ h \in [balance : Nat, limit : Nat, buying : Nat, selling : Nat, authorized : BOOLEAN]
    /\ h.selling <= h.balance /\ h.balance + h.buying <= h.limit /\ h.limit <= INT64_MAX

IsOffer(o) ==
    /\ o = [seller |-> o.seller, selling |-> o.selling, buying |-> o.buying,
            amount |-> o.amount, price |-> o.price, passive |-> o.passive]
    /\ o.amount \in Nat /\ o.price \in Price /\ o.passive \in BOOLEAN

AreAccounts(f) ==
    /\ f = [a \in DOMAIN f |-> f[a]] /\ IsFiniteSet(DOMAIN f)
    /\ \A a \in DOMAIN f : IsAccount(f[a])

AreLines(f) ==
    /\ f = [l \in DOMAIN f |-> f[l]] /\ IsFiniteSet(DOMAIN f)
    /\ \A l \in DOMAIN f : IsLine(f[l])

AreOffers(f) ==
    /\ f = [i \in DOMAIN f |-> f[i]] /\ IsFiniteSet(DOMAIN f) /\ DOMAIN f \subseteq Nat
    /\ \A i \in DOMAIN f : IsOffer(f[i])

IsHeader(L) ==
    /\ {L.ledgerSeq, L.idPool, L.feePool, L.totalCoins, L.inflationSeq, L.baseReserve} \subseteq Nat
    /\ L.totalCoins # 0

LedgerFields(L) ==
    L = [acc |-> L.acc, tl |-> L.tl, offers |-> L.offers, data |-> L.data, err |-> L.err,
         ledgerSeq |-> L.ledgerSeq, idPool |-> L.idPool, feePool |-> L.feePool,
         totalCoins |-> L.totalCoins, inflationSeq |-> L.inflationSeq,
         baseReserve |-> L.baseReserve]

IsLedger(L) ==
    /\ LedgerFields(L) /\ IsHeader(L)
    /\ AreAccounts(L.acc) /\ AreLines(L.tl) /\ AreOffers(L.offers) /\ IsFiniteSet(L.data)

Result(ok, L) == [ok |-> ok, L |-> L]

throw(L, what) == IF L.err = "" THEN [L EXCEPT !.err = what] ELSE L

Without(f, k) == Restrict(f, DOMAIN f \ {k})
With(f, k, v) == [x \in DOMAIN f \cup {k} |-> IF x = k THEN v ELSE f[x]]

exists(L, a) == a \in DOMAIN L.acc
isIssuer(a, asset) == asset # Native /\ Issuer[asset] = a

(* A wrapper of a trust line stands for the line, or for the issuer, who *)
(* needs none.                                                           *)
hasTrustLine(L, a, asset) == isIssuer(a, asset) \/ <<a, asset>> \in DOMAIN L.tl
isAuthorized(L, a, asset) == isIssuer(a, asset) \/ L.tl[<<a, asset>>].authorized
canHold(L, a, asset) == asset = Native \/ hasTrustLine(L, a, asset)

Holding(L, a, asset) == IF asset = Native THEN L.acc[a] ELSE L.tl[<<a, asset>>]

SetHolding(L, a, asset, h) ==
    IF asset = Native THEN [L EXCEPT !.acc[a] = h] ELSE [L EXCEPT !.tl[<<a, asset>>] = h]

getMinBalance(L, ownerCount) == (2 + ownerCount) * L.baseReserve

getAvailableBalance(L, a, asset) ==
    LET h == Holding(L, a, asset) IN
    IF isIssuer(a, asset) THEN INT64_MAX
    ELSE IF asset = Native
    THEN h.balance - getMinBalance(L, h.numSubEntries) - h.selling
    ELSE h.balance - h.selling

getMaxAmountReceive(L, a, asset) ==
    LET h == Holding(L, a, asset) IN
    IF isIssuer(a, asset) THEN INT64_MAX
    ELSE IF asset = Native THEN INT64_MAX - (h.balance + h.buying)
    ELSE IF h.authorized THEN h.limit - h.balance - h.buying ELSE 0

canSellAtMost(L, a, asset) ==
    IF asset = Native \/ (hasTrustLine(L, a, asset) /\ isAuthorized(L, a, asset))
    THEN Max({getAvailableBalance(L, a, asset), 0}) ELSE 0

canBuyAtMost(L, a, asset) ==
    IF canHold(L, a, asset) THEN Max({getMaxAmountReceive(L, a, asset), 0}) ELSE 0

(* addBalance of util/types: the number it yields, or -1. *)
Added(balance, delta, maxBalance) ==
    IF delta < -balance \/ maxBalance - balance < delta THEN -1 ELSE balance + delta

addBalance(L, a, asset, delta) ==
    LET h == Holding(L, a, asset)
        limit == IF asset = Native THEN INT64_MAX ELSE h.limit
        new == Added(h.balance, delta, limit)
        ok == /\ new >= 0
              /\ asset # Native => h.authorized /\ new >= h.selling
              /\ asset = Native /\ delta < 0 =>
                     new - getMinBalance(L, h.numSubEntries) >= h.selling
              /\ new <= limit - h.buying
    IN  IF isIssuer(a, asset) \/ delta = 0 THEN Result(TRUE, L)
        ELSE IF ok THEN Result(TRUE, SetHolding(L, a, asset, [h EXCEPT !.balance = new]))
        ELSE Result(FALSE, L)

(* A change of a balance that the code takes for granted. *)
mustAddBalance(L, a, asset, delta, what) ==
    LET Checked(r) == IF r.ok THEN r.L ELSE throw(L, what) IN
    Checked(addBalance(L, a, asset, delta))

addBuyingLiabilities(L, a, asset, delta) ==
    LET h == Holding(L, a, asset)
        limit == IF asset = Native THEN INT64_MAX ELSE h.limit
        new == Added(h.buying, delta, limit - h.balance)
    IN  IF isIssuer(a, asset) \/ delta = 0 THEN Result(TRUE, L)
        ELSE IF new >= 0 /\ (asset # Native => h.authorized)
        THEN Result(TRUE, SetHolding(L, a, asset, [h EXCEPT !.buying = new]))
        ELSE Result(FALSE, L)

addSellingLiabilities(L, a, asset, delta) ==
    LET h == Holding(L, a, asset)
        limit == IF asset = Native THEN h.balance - getMinBalance(L, h.numSubEntries)
                 ELSE h.balance
        new == Added(h.selling, delta, limit)
    IN  IF isIssuer(a, asset) \/ delta = 0 THEN Result(TRUE, L)
        ELSE IF limit >= 0 /\ new >= 0 /\ (asset # Native => h.authorized)
        THEN Result(TRUE, SetHolding(L, a, asset, [h EXCEPT !.selling = new]))
        ELSE Result(FALSE, L)

acquireOrReleaseLiabilities(L, o, sign) ==
    LET Add(promised) ==
            LET bought == addBuyingLiabilities(L, o.seller, o.buying, sign * promised.numSheepSend)
                sold == addSellingLiabilities(bought.L, o.seller, o.selling,
                                              sign * promised.numWheatReceived)
            IN  IF promised.err # "" THEN throw(L, promised.err)
                ELSE IF ~exists(L, o.seller) THEN throw(L, "account does not exist")
                ELSE IF ~(canHold(L, o.seller, o.buying) /\ canHold(L, o.seller, o.selling))
                THEN throw(L, "trustline does not exist")
                ELSE IF ~bought.ok THEN throw(L, "could not add buying liabilities")
                ELSE IF ~sold.ok THEN throw(L, "could not add selling liabilities")
                ELSE sold.L
    IN  Add(OfferLiabilities(o.price, o.amount))

acquireLiabilities(L, o) == acquireOrReleaseLiabilities(L, o, 1)
releaseLiabilities(L, o) == acquireOrReleaseLiabilities(L, o, -1)

addNumEntries(L, a, count) ==
    LET h == L.acc[a]
        new == h.numSubEntries + count
    IN  IF new < 0 THEN Result(FALSE, throw(L, "invalid account state"))
        ELSE IF count > 0 /\ h.balance < getMinBalance(L, new) + h.selling
        THEN Result(FALSE, L)
        ELSE Result(TRUE, [L EXCEPT !.acc[a].numSubEntries = new])

eraseOffer_uncounted(L, id) ==   \* mutant: the entry is still counted
    [L EXCEPT !.offers = Without(L.offers, id)]

(* An offer leaves the book; its liabilities were released before. *)
eraseOffer(L, id) ==
    addNumEntries([L EXCEPT !.offers = Without(L.offers, id)], L.offers[id].seller, -1).L

(* adjustOffer of an offer whose liabilities are released. *)
AdjustedAmount(L, o) ==
    adjustOffer(o.price, Min({o.amount, canSellAtMost(L, o.seller, o.selling)}),
                canBuyAtMost(L, o.seller, o.buying))

getStartingSequenceNumber(L, perLedger) == L.ledgerSeq * perLedger

-----------------------------------------------------------------------------
(* What a ledger adds up to. *)

(* What the accounts hold of the native asset. *)
Lumens(L) == SumFunction([a \in DOMAIN L.acc |-> L.acc[a].balance])

Owned(L, a) == {i \in DOMAIN L.offers : L.offers[i].seller = a}

(* The entries that an account is charged a reserve for. *)
Entries(L, a) ==
    Cardinality(L.acc[a].signers)
    + Cardinality({line \in DOMAIN L.tl : line[1] = a})
    + Cardinality(Owned(L, a))
    + Cardinality({d \in L.data : d[1] = a})

Owners(L) ==
    {L.offers[i].seller : i \in DOMAIN L.offers}
    \cup {line[1] : line \in DOMAIN L.tl} \cup {d[1] : d \in L.data}
=============================================================================
