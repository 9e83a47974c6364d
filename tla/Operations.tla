----------------------------- MODULE Operations -----------------------------
(***************************************************************************)
(* What each operation of a transaction does to the ledger, since protocol *)
(* 10. Every operator takes the ledger L and the operation op, a record    *)
(* with its source account in op.src, and returns [code, L]: "ok" or the   *)
(* reason for which it failed, and the ledger it leaves, which for some    *)
(* operations is changed although they failed.                             *)
(***************************************************************************)
EXTENDS LedgerEntries, Sequences, SequencesExt

CONSTANTS
    None,
    SeqPerLedger,        \* 2^32 in the code
    InflationRate,       \* parts of a hundred of the total that an inflation adds
    InflationWinMin,     \* parts of a hundred of the total that a winner needs
    InflationFrequency,  \* in ledgers, which stand for close times
    MinVotes             \* MIN_VOTES_TO_INCLUDE

Done(L) == [code |-> "ok", L |-> L]
Fail(code, L) == [code |-> code, L |-> L]

-----------------------------------------------------------------------------
(* Crossing offers. *)

(* LedgerTxn::loadBestOffer: the lowest price, the oldest of them first. *)
bestOffer(L, sheep, wheat) ==
    LET book == {i \in DOMAIN L.offers :
                    L.offers[i].buying = sheep /\ L.offers[i].selling = wheat}
    IN  {i \in book : \A j \in book :
            \/ Above(L.offers[j].price, L.offers[i].price)
            \/ Same(L.offers[j].price, L.offers[i].price) /\ i <= j}

(* The offer that was crossed leaves the book, or stays with what is left. *)
bookRest(L, id, left) ==
    LET rest == [L.offers[id] EXCEPT !.amount = left] IN
    IF L.err # "" THEN L
    ELSE IF left = 0 THEN eraseOffer(L, id)
    ELSE acquireLiabilities([L EXCEPT !.offers[id] = rest], rest)

crossed(id, trade, sold, kept) ==
    LET left == IF trade.wheatStays THEN kept.numWheatReceived ELSE 0 IN
    [wheat |-> trade.numWheatReceived, sheep |-> trade.numSheepSend,
     wheatStays |-> trade.wheatStays, taken |-> left = 0,
     L |-> bookRest(IF trade.wheatStays THEN throw(sold, kept.err) ELSE sold, id, left)]

settleCross(free, id, adjusted, trade) ==
    LET o == free.offers[id]
        paid == mustAddBalance(throw(throw(free, adjusted.err), trade.err),
                    o.seller, o.buying, trade.numSheepSend, "overflowed sheep balance")
        sold == mustAddBalance(paid, o.seller, o.selling, -trade.numWheatReceived,
                    "overflowed wheat balance")
    IN  crossed(id, trade, sold, AdjustedAmount(sold, [o EXCEPT !.amount =
                                     adjusted.numWheatReceived - trade.numWheatReceived]))

(* The offer id, with its liabilities released in "free", is adjusted and crossed. *)
crossReleased(free, id, maxWheatReceived, maxSheepSend, isPathPayment) ==
    LET o == free.offers[id]
        adjusted == AdjustedAmount(free, o)
    IN  IF free.err # ""
        THEN [wheat |-> 0, sheep |-> 0, wheatStays |-> TRUE, taken |-> FALSE, L |-> free]
        ELSE settleCross(free, id, adjusted,
            exchangeV10(o.price,
                Min({adjusted.numWheatReceived, canSellAtMost(free, o.seller, o.selling)}),
                maxWheatReceived, maxSheepSend,
                canBuyAtMost(free, o.seller, o.buying), isPathPayment))

crossOfferV10(L, id, maxWheatReceived, maxSheepSend, isPathPayment) ==
    crossReleased(releaseLiabilities(L, L.offers[id]), id,
                  maxWheatReceived, maxSheepSend, isPathPayment)

(* The best offer is crossed until there is enough, there are no offers      *)
(* left, one of them stays, or the filter stops. Every round but the last    *)
(* takes an offer off the book. In the state s of the loop "sheep" and       *)
(* "wheat" are what was sent and received, "result" is "" as long as more is *)
(* needed. filter[i] is what the filter says of offer i.                     *)

countCross(s, cross, maxSheepSend, maxWheatReceive) ==
    LET needMore == /\ ~cross.wheatStays
                    /\ maxWheatReceive > s.wheat + cross.wheat
                    /\ maxSheepSend > s.sheep + cross.sheep
    IN  [L |-> cross.L, sheep |-> s.sheep + cross.sheep, wheat |-> s.wheat + cross.wheat,
         result |-> IF cross.L.err # "" THEN "throw"
                    ELSE IF ~needMore THEN "ok"
                    ELSE IF ~cross.taken THEN "partial" ELSE ""]

crossBest(s, sheep, maxSheepSend, wheat, maxWheatReceive, isPathPayment, filter) ==
    LET best == bestOffer(s.L, sheep, wheat)
        id == CHOOSE i \in best : TRUE
    IN  IF s.result # "" THEN s
        ELSE IF best = {} THEN [s EXCEPT !.result = "partial"]
        ELSE IF filter[id] # "keep" THEN [s EXCEPT !.result = filter[id]]
        ELSE countCross(s, crossOfferV10(s.L, id, maxWheatReceive - s.wheat,
                                         maxSheepSend - s.sheep, isPathPayment),
                        maxSheepSend, maxWheatReceive)

convertWithOffers(L, sheep, maxSheepSend, wheat, maxWheatReceive, isPathPayment, filter) ==
    LET needed == maxWheatReceive > 0 /\ maxSheepSend > 0
        last == Cardinality(DOMAIN L.offers) + 1
        rounds[k \in 0..last] ==
            IF k = 0 THEN [L |-> L, sheep |-> 0, wheat |-> 0,
                           result |-> IF needed THEN "" ELSE "ok"]
            ELSE crossBest(rounds[k - 1], sheep, maxSheepSend, wheat, maxWheatReceive,
                           isPathPayment, filter)
    IN  rounds[last]

-----------------------------------------------------------------------------
(* Payments. *)

(* One hop of a path payment: curA is traded for what is needed of curB. *)
Hop(st, curA, src) ==
    LET filter == [i \in DOMAIN st.L.offers |->
                      IF st.L.offers[i].seller = src THEN "cross self" ELSE "keep"]
        Converted(r) ==
            [code |-> IF r.result = "cross self" THEN "cross self"
                      ELSE IF r.result = "ok" /\ r.wheat = st.amount THEN "ok"
                      ELSE "too few offers",
             L |-> r.L, asset |-> curA, amount |-> r.sheep]
    IN  IF st.code # "ok" \/ curA = st.asset THEN st
        ELSE IF curA # Native /\ ~exists(st.L, Issuer[curA])
        THEN [st EXCEPT !.code = "no issuer"]
        ELSE Converted(convertWithOffers(st.L, curA, INT64_MAX, st.asset, st.amount, TRUE, filter))

(* The hops from the destination back to the source: path has the assets in *)
(* the order in which they are sent.                                        *)
Hops(start, path, src) ==
    LET hop[k \in 0..Len(path)] ==
            IF k = 0 THEN start ELSE Hop(hop[k - 1], path[Len(path) + 1 - k], src)
    IN  hop[Len(path)]

(* The source pays what the last hop needs. *)
Debit(end, op, bypassIssuerCheck) ==
    LET from == end.asset
        debited == addBalance(end.L, op.src, from, -end.amount)
    IN  IF end.code # "ok" THEN Fail(end.code, end.L)
        ELSE IF end.amount > op.sendMax THEN Fail("over sendmax", end.L)
        ELSE IF from = Native /\ end.amount > getAvailableBalance(end.L, op.src, Native) THEN
                Fail("underfunded", end.L)
        ELSE IF from # Native /\ ~bypassIssuerCheck /\ ~exists(end.L, Issuer[from]) THEN
                Fail("no issuer", end.L)
        ELSE IF ~canHold(end.L, op.src, from) THEN Fail("src no trust", end.L)
        ELSE IF from # Native /\ ~isAuthorized(end.L, op.src, from) THEN
                Fail("src not authorized", end.L)
        ELSE IF ~debited.ok THEN Fail("underfunded", end.L)
        ELSE Done(debited.L)

PathPayment(L, op) ==
    LET to == op.destAsset
        bypassIssuerCheck == /\ to # Native /\ op.path = <<>> /\ op.sendAsset = to
                             /\ Issuer[to] = op.dest
        credited == addBalance(L, op.dest, to, op.destAmount)
        start == [code |-> "ok", L |-> credited.L, asset |-> to, amount |-> op.destAmount]
    IN  IF ~bypassIssuerCheck /\ ~exists(L, op.dest) THEN Fail("no destination", L)
        ELSE IF to # Native /\ ~bypassIssuerCheck /\ ~exists(L, Issuer[to]) THEN Fail("no issuer", L)
        ELSE IF ~canHold(L, op.dest, to) THEN Fail("no trust", L)
        ELSE IF to # Native /\ ~isAuthorized(L, op.dest, to) THEN Fail("not authorized", L)
        ELSE IF ~credited.ok THEN Fail(IF to = Native THEN "malformed" ELSE "line full", L)
        ELSE Debit(Hops(start, <<op.sendAsset>> \o op.path, op.src), op, bypassIssuerCheck)

(* A payment is a path payment of one asset, and has no name for a           *)
(* destination that cannot take more lumens.                                 *)
Payment(L, op) ==
    LET Renamed(r) ==
            IF r.code = "malformed"
            THEN Fail("internal error", throw(r.L, "Unexpected error code from pathPayment"))
            ELSE r
    IN  IF op.dest = op.src /\ op.asset = Native THEN Done(L)
        ELSE Renamed(PathPayment(L, [src |-> op.src, dest |-> op.dest, path |-> <<>>,
                                     sendAsset |-> op.asset, destAsset |-> op.asset,
                                     sendMax |-> op.amount, destAmount |-> op.amount]))

-----------------------------------------------------------------------------
(* Offers. *)

checkOfferValid(L, op) ==
    LET sheep == op.selling
        wheat == op.buying
    IN  IF op.amount = 0 THEN "ok"
        ELSE IF sheep # Native /\ ~exists(L, Issuer[sheep]) THEN "sell no issuer"
        ELSE IF ~canHold(L, op.src, sheep) THEN "sell no trust"
        ELSE IF sheep # Native /\ ~isIssuer(op.src, sheep) /\ Holding(L, op.src, sheep).balance = 0 THEN
                "underfunded"
        ELSE IF sheep # Native /\ ~isAuthorized(L, op.src, sheep) THEN "sell not authorized"
        ELSE IF wheat # Native /\ ~exists(L, Issuer[wheat]) THEN "buy no issuer"
        ELSE IF ~canHold(L, op.src, wheat) THEN "buy no trust"
        ELSE IF wheat # Native /\ ~isAuthorized(L, op.src, wheat) THEN "buy not authorized"
        ELSE "ok"

computeOfferExchangeParameters_bare(L, o, creating) ==
    \* mutant: no room is left for the reserve of the new entry
    LET maxWheat == canBuyAtMost(L, o.seller, o.buying) IN
    [maxWheatReceive |-> maxWheat,
     maxSheepSend |-> Min({o.amount, canSellAtMost(L, o.seller, o.selling)}),
     code |-> IF maxWheat = 0 THEN "line full" ELSE "ok"]

(* The limits within which the offer may trade; a new one must leave room  *)
(* for the reserve of its entry.                                           *)
computeOfferExchangeParameters(L, o, creating) ==
    LET entry == IF creating THEN addNumEntries(L, o.seller, 1) ELSE Result(TRUE, L)
        promised == OfferLiabilities(o.price, o.amount)
        maxWheat == canBuyAtMost(entry.L, o.seller, o.buying)
    IN  [maxWheatReceive |-> maxWheat,
         maxSheepSend |-> Min({o.amount, canSellAtMost(entry.L, o.seller, o.selling)}),
         code |-> IF ~entry.ok THEN "low reserve"
                  ELSE IF getMaxAmountReceive(entry.L, o.seller, o.buying)
                           < promised.numSheepSend THEN "line full"
                  ELSE IF getAvailableBalance(entry.L, o.seller, o.selling)
                           < promised.numWheatReceived THEN "underfunded"
                  ELSE IF maxWheat = 0 THEN "line full"
                  ELSE "ok"]

(* The source receives and sends what it traded, r. What it did not sell is *)
(* adjusted to what it can still honour.                                    *)
settleTrade(o, limits, r) ==
    LET traded == IF r.wheat = 0 THEN r.L
                  ELSE mustAddBalance(
                           mustAddBalance(r.L, o.seller, o.buying, r.wheat,
                                          "offer claimed over limit"),
                           o.seller, o.selling, -r.sheep, "offer sold more than balance")
        Kept(L, kept) ==
            [code |-> IF r.result = "cross self" THEN "cross self" ELSE "ok",
             amount |-> IF r.result = "ok" THEN 0 ELSE kept.numWheatReceived,
             L |-> IF r.result = "ok" THEN L ELSE throw(L, kept.err)]
        Keep(L) == Kept(L, AdjustedAmount(L, [o EXCEPT !.amount = limits.maxSheepSend - r.sheep]))
    IN  IF r.L.err # "" THEN [code |-> "throw", amount |-> 0, L |-> r.L] ELSE Keep(traded)

tradeOffer_raw(L, o, limits) ==   \* mutant: what is left is not adjusted
    LET Raw(r) == [settleTrade(o, limits, r) EXCEPT !.amount =
                      IF r.result = "ok" THEN 0 ELSE limits.maxSheepSend - r.sheep]
    IN  Raw(convertWithOffers(L, o.selling, limits.maxSheepSend, o.buying,
                limits.maxWheatReceive, FALSE,
                [i \in DOMAIN L.offers |->
                    IF Above(L.offers[i].price, [n |-> o.price.d, d |-> o.price.n])
                       \/ L.offers[i].seller = o.seller THEN "stop" ELSE "keep"]))

(* What is left of the new offer after it crossed the book, and the ledger. *)
tradeOffer(L, o, limits) ==
    LET Filter(book) ==
            IF \/ Above(book.price, [n |-> o.price.d, d |-> o.price.n])
               \/ o.passive /\ Same(book.price, [n |-> o.price.d, d |-> o.price.n])
            THEN "stop"
            ELSE IF book.seller = o.seller THEN "cross self" ELSE "keep"
    IN  settleTrade(o, limits,
            convertWithOffers(L, o.selling, limits.maxSheepSend, o.buying,
                              limits.maxWheatReceive, FALSE,
                              [i \in DOMAIN L.offers |-> Filter(L.offers[i])]))

(* What was not traded stays on the book, with the identifier it had or a *)
(* new one; an offer of which nothing is left is gone.                    *)
leaveOffer(trade, o, id, creating) ==
    LET L == trade.L
        rest == [o EXCEPT !.amount = trade.amount]
        entry == addNumEntries(L, o.seller, 1)
        booked == IF creating THEN [entry.L EXCEPT !.idPool = id] ELSE L
    IN  IF trade.code # "ok" THEN Fail(trade.code, L)
        ELSE IF trade.amount = 0
        THEN Done(IF creating THEN L ELSE addNumEntries(L, o.seller, -1).L)
        ELSE IF creating /\ ~entry.ok THEN Fail("low reserve", L)
        ELSE Done(acquireLiabilities([booked EXCEPT !.offers = With(L.offers, id, rest)], rest))

(* The offer o, whose old form is off the book in L, trades within its limits. *)
placeOffer(L, o, id, creating, limits) ==
    IF o.amount = 0 THEN leaveOffer([code |-> "ok", amount |-> 0, L |-> L], o, id, creating)
    ELSE IF limits.code # "ok" THEN Fail(limits.code, L)
    ELSE leaveOffer(tradeOffer(L, o, limits), o, id, creating)

ManageOffer(L, op) ==
    LET creating == op.offerID = 0
        id == IF creating THEN L.idPool + 1 ELSE op.offerID
        found == op.offerID \in DOMAIN L.offers /\ L.offers[op.offerID].seller = op.src
        base == IF creating THEN L
                ELSE [releaseLiabilities(L, L.offers[id]) EXCEPT !.offers = Without(L.offers, id)]
        o == [seller |-> op.src, selling |-> op.selling, buying |-> op.buying,
              amount |-> op.amount, price |-> op.price,
              passive |-> IF creating THEN op.passive ELSE L.offers[id].passive]
        valid == checkOfferValid(L, op)
        Undone(r) == IF r.code = "ok" THEN r ELSE Fail(r.code, [L EXCEPT !.err = r.L.err])
    IN  IF valid # "ok" THEN Fail(valid, L)
        ELSE IF ~creating /\ ~found THEN Fail("not found", L)
        ELSE IF base.err # "" THEN Fail("throw", [L EXCEPT !.err = base.err])
        ELSE Undone(placeOffer(base, o, id, creating,
                               computeOfferExchangeParameters(base, o, creating)))

-----------------------------------------------------------------------------
(* Trust lines. *)

ChangeTrust(L, op) ==
    LET line == <<op.src, op.asset>>
        old == line \in DOMAIN L.tl
        entry == addNumEntries(L, op.src, 1)
        new == [balance |-> 0, limit |-> op.limit, buying |-> 0, selling |-> 0,
                authorized |-> "required" \notin L.acc[Issuer[op.asset]].flags]
    IN  IF Issuer[op.asset] = op.src THEN Fail("self not allowed", L)
        ELSE IF old /\ op.limit < L.tl[line].balance + L.tl[line].buying THEN
                Fail("invalid limit", L)
        ELSE IF old /\ op.limit = 0 THEN
                Done(addNumEntries([L EXCEPT !.tl = Without(L.tl, line)], op.src, -1).L)
        ELSE IF ~old /\ op.limit = 0 THEN Fail("invalid limit", L)
        ELSE IF ~exists(L, Issuer[op.asset]) THEN Fail("no issuer", L)
        ELSE IF old THEN Done([L EXCEPT !.tl[line].limit = op.limit])
        ELSE IF ~entry.ok THEN Fail("low reserve", L)
        ELSE Done([entry.L EXCEPT !.tl = With(L.tl, line, new)])

AllowTrust_keep(L, op) ==   \* mutant: the offers of a revoked line stay
    IF <<op.trustor, op.asset>> \notin DOMAIN L.tl THEN Fail("no trust line", L)
    ELSE Done([L EXCEPT !.tl[<<op.trustor, op.asset>>].authorized = op.authorize])

clearOffer(L, id) == eraseOffer(releaseLiabilities(L, L.offers[id]), id)

clearOffers(L, drop) ==
    LET cleared[ids \in SUBSET drop] ==
            IF ids = {} THEN L ELSE clearOffer(cleared[ids \ {Max(ids)}], Max(ids))
    IN  cleared[drop]

(* A line that is revoked takes the offers of its asset with it. *)
AllowTrust(L, op) ==
    LET line == <<op.trustor, op.asset>>
        flags == L.acc[op.src].flags
        revoked == L.tl[line].authorized /\ ~op.authorize
        drop == {i \in DOMAIN L.offers : /\ revoked
                                         /\ L.offers[i].seller = op.trustor
                                         /\ op.asset \in {L.offers[i].buying, L.offers[i].selling}}
    IN  IF op.trustor = op.src THEN Fail("self not allowed", L)
        ELSE IF "required" \notin flags THEN Fail("trust not required", L)
        ELSE IF "revocable" \notin flags /\ ~op.authorize THEN Fail("cant revoke", L)
        ELSE IF line \notin DOMAIN L.tl THEN Fail("no trust line", L)
        ELSE Done([clearOffers(L, drop) EXCEPT !.tl[line].authorized = op.authorize])

-----------------------------------------------------------------------------
(* Accounts. *)

CreateAccount(L, op) ==
    LET new == [balance |-> op.amount, seqNum |-> getStartingSequenceNumber(L, SeqPerLedger),
                numSubEntries |-> 0, buying |-> 0, selling |-> 0, signers |-> {},
                flags |-> {}, inflationDest |-> None]
        paid == addBalance(L, op.src, Native, -op.amount)
    IN  IF exists(L, op.dest) THEN Fail("already exist", L)
        ELSE IF op.amount < getMinBalance(L, 0) THEN Fail("low reserve", L)
        ELSE IF getAvailableBalance(L, op.src, Native) < op.amount THEN Fail("underfunded", L)
        ELSE Done([paid.L EXCEPT !.acc = With(paid.L.acc, op.dest, new)])

Merge_rewind(L, op) ==   \* mutant: the sequence number is not compared
    LET src == L.acc[op.src]
        paid == addBalance(L, op.dest, Native, src.balance)
    IN  IF ~exists(L, op.dest) THEN Fail("no account", L)
        ELSE IF src.numSubEntries # Cardinality(src.signers) THEN Fail("has sub entries", L)
        ELSE IF ~paid.ok THEN Fail("dest full", L)
        ELSE Done([paid.L EXCEPT !.acc = Without(paid.L.acc, op.src)])

Merge(L, op) ==
    LET src == L.acc[op.src]
        paid == addBalance(L, op.dest, Native, src.balance)
    IN  IF ~exists(L, op.dest) THEN Fail("no account", L)
        ELSE IF "immutable" \in src.flags THEN Fail("immutable set", L)
        ELSE IF src.numSubEntries # Cardinality(src.signers) THEN Fail("has sub entries", L)
        ELSE IF src.seqNum >= getStartingSequenceNumber(L, SeqPerLedger)
        THEN Fail("seqnum too far", L)
        ELSE IF ~paid.ok THEN Fail("dest full", L)
        ELSE Done([paid.L EXCEPT !.acc = Without(paid.L.acc, op.src)])

(* The part of the options that the ledger's rules look at: the inflation   *)
(* destination, the flags of an issuer and one signer, whose weight 0       *)
(* removes it. Weights and thresholds matter to signatures only.            *)
SetOptions(L, op) ==
    LET dest == IF op.inflationDest = None THEN L
                ELSE [L EXCEPT !.acc[op.src].inflationDest = op.inflationDest]
        frozen == "immutable" \in L.acc[op.src].flags
        flagged == [dest EXCEPT !.acc[op.src].flags = (@ \ op.clearFlags) \cup op.setFlags]
        has == op.signer \in L.acc[op.src].signers
        entry == addNumEntries(flagged, op.src, IF op.weight > 0 THEN 1 ELSE -1)
    IN  IF op.inflationDest \notin {None, op.src} /\ ~exists(L, op.inflationDest)
        THEN Fail("invalid inflation", L)
        ELSE IF frozen /\ op.clearFlags \cup op.setFlags # {} THEN Fail("cant change", dest)
        ELSE IF op.signer = None \/ (has <=> op.weight > 0) THEN Done(flagged)
        ELSE IF ~entry.ok THEN Fail("low reserve", flagged)
        ELSE Done([entry.L EXCEPT !.acc[op.src].signers =
                       IF op.weight > 0 THEN @ \cup {op.signer} ELSE @ \ {op.signer}])

BumpSequence(L, op) ==
    Done([L EXCEPT !.acc[op.src].seqNum = Max({@, op.bumpTo})])

ManageData(L, op) ==
    LET entry == addNumEntries(L, op.src, IF op.set THEN 1 ELSE -1)
        has == <<op.src, op.name>> \in L.data
    IN  IF op.set /\ has THEN Done(L)
        ELSE IF ~op.set /\ ~has THEN Fail("name not found", L)
        ELSE IF ~entry.ok THEN Fail("low reserve", L)
        ELSE Done([entry.L EXCEPT !.data = IF op.set THEN @ \cup {<<op.src, op.name>>}
                                           ELSE @ \ {<<op.src, op.name>>}])

(* The operation only talks to the Bitcoin node beside this one, which may  *)
(* refuse the marker when it is checked; the ledger stays as it is.         *)
MarkAccount(L, op) == IF op.refused THEN Fail("bad marker", L) ELSE Done(L)

-----------------------------------------------------------------------------
(* Inflation. *)

(* The accounts that others chose and the balances behind each of them. *)
queryInflationWinners(L) ==
    LET voters == {a \in DOMAIN L.acc : /\ L.acc[a].inflationDest # None
                                        /\ L.acc[a].balance >= MinVotes}
        votes == [w \in {L.acc[a].inflationDest : a \in voters} |->
                    SumFunction([a \in {b \in voters : L.acc[b].inflationDest = w} |->
                                    L.acc[a].balance])]
    IN  Restrict(votes, {w \in DOMAIN votes :
                            votes[w] >= (L.totalCoins * InflationWinMin) \div 100})

Inflation_mint(L, op) ==   \* mutant: what nobody claims is not put back
    LET added == (L.totalCoins * InflationRate) \div 100 IN
    IF L.ledgerSeq < L.inflationSeq * InflationFrequency THEN Fail("not time", L)
    ELSE Done([L EXCEPT !.feePool = 0, !.inflationSeq = @ + 1, !.totalCoins = @ + added])

(* What each winner gets; the share of one that is gone is not paid. *)
Shares(L, amountToDole, winners) ==
    [w \in DOMAIN winners |->
        IF exists(L, w)
        THEN Min({getMaxAmountReceive(L, w, Native),
                  (amountToDole * winners[w]) \div L.totalCoins})
        ELSE 0]

payOut(L, added, shares) ==
    [L EXCEPT
        !.acc = [a \in DOMAIN L.acc |->
                    IF a \in DOMAIN shares
                    THEN [L.acc[a] EXCEPT !.balance = @ + shares[a]] ELSE L.acc[a]],
        !.feePool = added + @ - SumFunction(shares),
        !.inflationSeq = @ + 1,
        !.totalCoins = @ + added]

Inflation(L, op) ==
    LET added == (L.totalCoins * InflationRate) \div 100 IN
    IF L.ledgerSeq < L.inflationSeq * InflationFrequency THEN Fail("not time", L)
    ELSE Done(payOut(L, added, Shares(L, added + L.feePool, queryInflationWinners(L))))

-----------------------------------------------------------------------------
(* The operations that are well formed; amounts are int64 in the code. *)

Amount == 0..INT64_MAX
Asset == {Native} \cup DOMAIN Issuer

CreateAccount_doCheckValid(op) == op.amount \in Amount \ {0} /\ op.dest # op.src

PathPayment_doCheckValid(op) ==
    /\ {op.destAmount, op.sendMax} \subseteq Amount \ {0}
    /\ {op.sendAsset, op.destAsset} \subseteq Asset /\ op.path \in Seq(Asset)

Payment_doCheckValid(op) == op.amount \in Amount \ {0} /\ op.asset \in Asset

ManageOffer_doCheckValid(op) ==
    /\ {op.selling, op.buying} \subseteq Asset /\ op.selling # op.buying
    /\ op.amount \in Amount /\ op.price \in Price
    /\ op.offerID \in Nat /\ op.passive \in BOOLEAN
    /\ op.offerID # 0 \/ op.amount # 0

ChangeTrust_doCheckValid(op) == op.limit \in Amount /\ op.asset \in DOMAIN Issuer

(* The asset is one of the source's. *)
AllowTrust_doCheckValid(op) ==
    op.asset \in DOMAIN Issuer /\ Issuer[op.asset] = op.src /\ op.authorize \in BOOLEAN

Merge_doCheckValid(op) == op.dest # op.src

(* No flag is set and cleared at once, and the source is not its own signer. *)
SetOptions_doCheckValid(op) ==
    op.weight \in Nat /\ op.setFlags \cap op.clearFlags = {} /\ op.signer # op.src

BumpSequence_doCheckValid(op) == op.bumpTo \in Nat

doCheckValid(op) ==
    CASE op.type = "createAccount" -> CreateAccount_doCheckValid(op)
      [] op.type = "payment" -> Payment_doCheckValid(op)
      [] op.type = "pathPayment" -> PathPayment_doCheckValid(op)
      [] op.type = "manageOffer" -> ManageOffer_doCheckValid(op)
      [] op.type = "setOptions" -> SetOptions_doCheckValid(op)
      [] op.type = "changeTrust" -> ChangeTrust_doCheckValid(op)
      [] op.type = "allowTrust" -> AllowTrust_doCheckValid(op)
      [] op.type = "accountMerge" -> Merge_doCheckValid(op)
      [] op.type = "bumpSequence" -> BumpSequence_doCheckValid(op)
      [] op.type = "manageData" -> op.set \in BOOLEAN
      [] op.type = "markAccount" -> op.refused \in BOOLEAN
      [] op.type = "inflation" -> TRUE
      [] OTHER -> FALSE

(* OperationFrame::apply of an operation that is well formed. *)
doApply(L, op) ==
    IF ~exists(L, op.src) THEN Fail("no account", L)
    ELSE CASE op.type = "createAccount" -> CreateAccount(L, op)
           [] op.type = "payment" -> Payment(L, op)
           [] op.type = "pathPayment" -> PathPayment(L, op)
           [] op.type = "manageOffer" -> ManageOffer(L, op)
           [] op.type = "setOptions" -> SetOptions(L, op)
           [] op.type = "changeTrust" -> ChangeTrust(L, op)
           [] op.type = "allowTrust" -> AllowTrust(L, op)
           [] op.type = "accountMerge" -> Merge(L, op)
           [] op.type = "inflation" -> Inflation(L, op)
           [] op.type = "manageData" -> ManageData(L, op)
           [] op.type = "bumpSequence" -> BumpSequence(L, op)
           [] op.type = "markAccount" -> MarkAccount(L, op)
=============================================================================
