-------------------------- MODULE OperationsProofs --------------------------
(***************************************************************************)
(* What the exchange of two offers promises, for every price and every     *)
(* limit, and what the operators of LedgerEntries and the operations       *)
(* change of a ledger and leave alone.                                     *)
(*                                                                         *)
(* In an exchange no amount is out of bounds, rounding favours the side    *)
(* that stays on the book, and none of the errors that the code calls a    *)
(* bug is thrown. TLC would have to enumerate prices and amounts; the      *)
(* proofs rest on the rounding of quotients alone. Every operation that    *)
(* succeeds keeps a ledger sound, its lumens conserved and its sub-entries *)
(* counted, and the liabilities of an account follow its offers.           *)
(***************************************************************************)
EXTENDS Operations, NumberFacts

-----------------------------------------------------------------------------
(* Rounding. *)

LEMMA DivDownBounds ==
    ASSUME NEW a \in Nat, NEW b \in Nat \ {0}
    PROVE  /\ divDown(a, b) \in Nat
           /\ divDown(a, b) * b <= a
           /\ a < divDown(a, b) * b + b
           /\ \A m \in Nat : a <= m * b => divDown(a, b) <= m
<1> DEFINE q == divDown(a, b)
<1>1. q \in Nat /\ q * b <= a /\ a < (q + 1) * b
  BY Quotient DEF divDown
<1> HIDE DEF q
<1>2. (q + 1) * b = q * b + b
  BY <1>1
<1>3. ASSUME NEW m \in Nat, a <= m * b PROVE q <= m
  <2>1. q * b <= m * b
    BY <1>1, <1>3
  <2> QED BY <1>1, <2>1, ProductOrder
<1> QED BY <1>1, <1>2, <1>3 DEF q

LEMMA DivUpBounds ==
    ASSUME NEW a \in Nat, NEW b \in Nat \ {0}
    PROVE  /\ divUp(a, b) \in Nat
           /\ a <= divUp(a, b) * b
           /\ divUp(a, b) * b < a + b
           /\ \A m \in Nat : a <= m * b => divUp(a, b) <= m
<1> DEFINE q == divUp(a, b)
<1>1. a + b - 1 \in Nat
  OBVIOUS
<1>2. q \in Nat /\ q * b <= a + b - 1 /\ a + b - 1 < (q + 1) * b
  BY <1>1, Quotient DEF divUp
<1> HIDE DEF q
<1>3. (q + 1) * b = q * b + b /\ q * b \in Nat
  BY <1>2
<1>4. a <= q * b /\ q * b < a + b
  BY <1>2, <1>3
<1>5. ASSUME NEW m \in Nat, a <= m * b PROVE q <= m
  <2>1. q * b < m * b + b /\ m * b + b = (m + 1) * b
    BY <1>4, <1>3, <1>5
  <2>2. q < m + 1
    BY <1>2, <2>1, ProductOrder
  <2> QED BY <1>2, <2>2
<1> QED BY <1>2, <1>4, <1>5 DEF q

LEMMA OfferValue ==
    ASSUME NEW n \in Nat, NEW d \in Nat, NEW send \in Nat, NEW receive \in Nat
    PROVE  /\ calculateOfferValue(n, d, send, receive) \in Nat
           /\ calculateOfferValue(n, d, send, receive) <= send * n
           /\ calculateOfferValue(n, d, send, receive) <= receive * d
           /\ calculateOfferValue(n, d, send, receive) \in {send * n, receive * d}
<1>1. send * n \in Nat /\ receive * d \in Nat
  OBVIOUS
<1>2. calculateOfferValue(n, d, send, receive)
          = IF send * n <= receive * d THEN send * n ELSE receive * d
  BY <1>1, MinOfTwo DEF calculateOfferValue
<1> QED BY <1>1, <1>2

-----------------------------------------------------------------------------
(* The amounts of an exchange. *)

\* What both sides can afford, in units of both assets.
Value(price, maxWheatSend, maxWheatReceive, maxSheepSend, maxSheepReceive) ==
    LET w == calculateOfferValue(price.n, price.d, maxWheatSend, maxSheepReceive)
        s == calculateOfferValue(price.d, price.n, maxSheepSend, maxWheatReceive)
    IN  IF w > s THEN s ELSE w

LEMMA ValueBounds ==
    ASSUME NEW p \in Price, NEW ws \in Nat, NEW wr \in Nat, NEW ss \in Nat, NEW sr \in Nat
    PROVE  LET v == Value(p, ws, wr, ss, sr)
           IN  /\ v \in Nat
               /\ v <= ws * p.n /\ v <= wr * p.n
               /\ v <= ss * p.d /\ v <= sr * p.d
<1> DEFINE w == calculateOfferValue(p.n, p.d, ws, sr)
           s == calculateOfferValue(p.d, p.n, ss, wr)
<1>1. p.n \in Nat /\ p.d \in Nat
  BY DEF Price
<1>2. w \in Nat /\ w <= ws * p.n /\ w <= sr * p.d
  BY <1>1, OfferValue, Zenon
<1>3. s \in Nat /\ s <= ss * p.d /\ s <= wr * p.n
  BY <1>1, OfferValue, Zenon
<1>4. Value(p, ws, wr, ss, sr) = IF w > s THEN s ELSE w
  BY DEF Value
<1>5. ws * p.n \in Nat /\ sr * p.d \in Nat /\ ss * p.d \in Nat /\ wr * p.n \in Nat
  BY <1>1
<1> HIDE DEF w, s
<1> QED BY <1>2, <1>3, <1>4, <1>5

\* The four ways in which the amounts are rounded, for a value v.
Rounded(price, v, wheatStays, isPathPayment, wheat, sheep) ==
    IF price.n > price.d \/ (wheatStays /\ isPathPayment)
    THEN /\ wheat = divDown(v, price.n)
         /\ sheep = IF wheatStays THEN divUp(wheat * price.n, price.d)
                    ELSE divDown(wheat * price.n, price.d)
    ELSE /\ sheep = divDown(v, price.d)
         /\ wheat = IF wheatStays THEN divDown(sheep * price.d, price.n)
                    ELSE divUp(sheep * price.d, price.n)

\* The amounts are worth at most v, and rounding favours the side that stays.
LEMMA RoundedBounds ==
    ASSUME NEW p \in Price, NEW v \in Nat, NEW stays \in BOOLEAN, NEW path \in BOOLEAN,
           NEW wheat, NEW sheep, Rounded(p, v, stays, path, wheat, sheep)
    PROVE  /\ wheat \in Nat /\ sheep \in Nat
           /\ \A m \in Nat : v <= m * p.n => wheat <= m
           /\ \A m \in Nat : v <= m * p.d => sheep <= m
           /\ stays => wheat * p.n <= sheep * p.d
           /\ ~stays => sheep * p.d <= wheat * p.n
<1>1. p.n \in Nat \ {0} /\ p.d \in Nat \ {0} /\ p.n \in Nat /\ p.d \in Nat
  BY DEF Price
<1>2. CASE p.n > p.d \/ (stays /\ path)
  <2>1. wheat = divDown(v, p.n)
    BY <1>2 DEF Rounded
  <2>2. /\ wheat \in Nat /\ wheat * p.n <= v
        /\ \A m \in Nat : v <= m * p.n => wheat <= m
    BY <1>1, <2>1, DivDownBounds
  <2> DEFINE x == wheat * p.n
  <2>3. x \in Nat /\ \A m \in Nat : v <= m * p.d => x <= m * p.d
    BY <1>1, <2>2
  <2>4. sheep = IF stays THEN divUp(x, p.d) ELSE divDown(x, p.d)
    BY <1>2 DEF Rounded
  <2> HIDE DEF x
  <2>5. CASE stays
    <3>1. sheep \in Nat /\ x <= sheep * p.d /\ \A m \in Nat : x <= m * p.d => sheep <= m
      BY <1>1, <2>3, <2>4, <2>5, DivUpBounds
    <3> QED BY <2>2, <2>3, <2>5, <3>1 DEF x
  <2>6. CASE ~stays
    <3>1. sheep \in Nat /\ sheep * p.d <= x /\ \A m \in Nat : x <= m * p.d => sheep <= m
      BY <1>1, <2>3, <2>4, <2>6, DivDownBounds
    <3> QED BY <2>2, <2>3, <2>6, <3>1 DEF x
  <2> QED BY <2>5, <2>6
<1>3. CASE ~ (p.n > p.d \/ (stays /\ path))
  <2>1. sheep = divDown(v, p.d)
    BY <1>3 DEF Rounded
  <2>2. /\ sheep \in Nat /\ sheep * p.d <= v
        /\ \A m \in Nat : v <= m * p.d => sheep <= m
    BY <1>1, <2>1, DivDownBounds
  <2> DEFINE x == sheep * p.d
  <2>3. x \in Nat /\ \A m \in Nat : v <= m * p.n => x <= m * p.n
    BY <1>1, <2>2
  <2>4. wheat = IF stays THEN divDown(x, p.n) ELSE divUp(x, p.n)
    BY <1>3 DEF Rounded
  <2> HIDE DEF x
  <2>5. CASE stays
    <3>1. wheat \in Nat /\ wheat * p.n <= x /\ \A m \in Nat : x <= m * p.n => wheat <= m
      BY <1>1, <2>3, <2>4, <2>5, DivDownBounds
    <3> QED BY <2>2, <2>3, <2>5, <3>1 DEF x
  <2>6. CASE ~stays
    <3>1. wheat \in Nat /\ x <= wheat * p.n /\ \A m \in Nat : x <= m * p.n => wheat <= m
      BY <1>1, <2>3, <2>4, <2>6, DivUpBounds
    <3> QED BY <2>2, <2>3, <2>6, <3>1 DEF x
  <2> QED BY <2>5, <2>6
<1> QED BY <1>2, <1>3

\* The result r of an exchange.
IsExchange(r, p, ws, wr, ss, sr, path) ==
    /\ r.wheatStays \in BOOLEAN
    /\ r.wheatStays <=> calculateOfferValue(p.n, p.d, ws, sr) > calculateOfferValue(p.d, p.n, ss, wr)
    /\ Rounded(p, Value(p, ws, wr, ss, sr), r.wheatStays, path, r.numWheatReceived, r.numSheepSend)
    /\ r.err = IF r.numWheatReceived > Min({wr, ws}) THEN "wheatReceive out of bounds"
               ELSE IF r.numSheepSend > Min({sr, ss}) THEN "sheepSend out of bounds" ELSE ""
    /\ r = [numWheatReceived |-> r.numWheatReceived, numSheepSend |-> r.numSheepSend,
            wheatStays |-> r.wheatStays, err |-> r.err]

LEMMA ExchangeUnfolded ==
    ASSUME NEW p, NEW ws, NEW wr, NEW ss, NEW sr, NEW path
    PROVE  IsExchange(exchangeV10WithoutPriceErrorThresholds(p, ws, wr, ss, sr, path),
                      p, ws, wr, ss, sr, path)
<1> DEFINE r == exchangeV10WithoutPriceErrorThresholds(p, ws, wr, ss, sr, path)
           w == calculateOfferValue(p.n, p.d, ws, sr)
           s == calculateOfferValue(p.d, p.n, ss, wr)
           stays == w > s
           v == IF stays THEN s ELSE w
           byWheat == p.n > p.d \/ (stays /\ path)
           wheat == IF byWheat THEN divDown(v, p.n)
                    ELSE IF stays THEN divDown(divDown(v, p.d) * p.d, p.n)
                    ELSE divUp(divDown(v, p.d) * p.d, p.n)
           sheep == IF ~byWheat THEN divDown(v, p.d)
                    ELSE IF stays THEN divUp(wheat * p.n, p.d)
                    ELSE divDown(wheat * p.n, p.d)
           err == IF wheat > Min({wr, ws}) THEN "wheatReceive out of bounds"
                  ELSE IF sheep > Min({sr, ss}) THEN "sheepSend out of bounds" ELSE ""
<1>1. r = [numWheatReceived |-> wheat, numSheepSend |-> sheep, wheatStays |-> stays, err |-> err]
  BY DEF exchangeV10WithoutPriceErrorThresholds
<1>2. stays \in BOOLEAN /\ (stays <=> w > s)
  OBVIOUS
<1>3. v = Value(p, ws, wr, ss, sr)
  BY DEF Value
<1>4. Rounded(p, v, stays, path, wheat, sheep)
  <2> HIDE DEF v, stays
  <2> QED BY DEF Rounded
<1>5. err = IF wheat > Min({wr, ws}) THEN "wheatReceive out of bounds"
            ELSE IF sheep > Min({sr, ss}) THEN "sheepSend out of bounds" ELSE ""
  OBVIOUS
<1> HIDE DEF r, w, s, stays, v, byWheat, wheat, sheep, err
<1>6. /\ r.numWheatReceived = wheat /\ r.numSheepSend = sheep
      /\ r.wheatStays = stays /\ r.err = err
  BY <1>1
<1>7. r.wheatStays \in BOOLEAN /\ (r.wheatStays <=> w > s)
  BY <1>2, <1>6
<1>8. Rounded(p, Value(p, ws, wr, ss, sr), r.wheatStays, path, r.numWheatReceived, r.numSheepSend)
  BY <1>3, <1>4, <1>6
<1>9. r.err = IF r.numWheatReceived > Min({wr, ws}) THEN "wheatReceive out of bounds"
              ELSE IF r.numSheepSend > Min({sr, ss}) THEN "sheepSend out of bounds" ELSE ""
  BY <1>5, <1>6
<1>10. r = [numWheatReceived |-> r.numWheatReceived, numSheepSend |-> r.numSheepSend,
            wheatStays |-> r.wheatStays, err |-> r.err]
  BY <1>1, <1>6
<1> QED BY <1>7, <1>8, <1>9, <1>10, Zenon DEF IsExchange, r, w, s

Exchanged == [numWheatReceived : Nat, numSheepSend : Nat, wheatStays : BOOLEAN, err : {""}]

LEMMA ExchangedEqual ==
    ASSUME NEW q \in Exchanged, NEW r \in Exchanged, q.numWheatReceived = r.numWheatReceived,
           q.numSheepSend = r.numSheepSend, q.wheatStays = r.wheatStays
    PROVE  q = r
<1>1. q = [numWheatReceived |-> q.numWheatReceived, numSheepSend |-> q.numSheepSend,
           wheatStays |-> q.wheatStays, err |-> q.err]
  BY DEF Exchanged
<1>2. r = [numWheatReceived |-> r.numWheatReceived, numSheepSend |-> r.numSheepSend,
           wheatStays |-> r.wheatStays, err |-> r.err]
  BY DEF Exchanged
<1>3. q.err = r.err
  BY DEF Exchanged
<1> QED BY <1>1, <1>2, <1>3, Zenon

KeepsLimits(r, ws, wr, ss, sr) ==
    /\ r.numWheatReceived <= ws /\ r.numWheatReceived <= wr
    /\ r.numSheepSend <= ss /\ r.numSheepSend <= sr

FavoursWhoStays(r, p) ==
    /\ r.wheatStays => r.numWheatReceived * p.n <= r.numSheepSend * p.d
    /\ ~r.wheatStays => r.numSheepSend * p.d <= r.numWheatReceived * p.n

\* exchangeV10WithoutPriceErrorThresholds: for every price and all limits, the amounts
\* keep within the four limits, so that "wheatReceive out of bounds" and "sheepSend
\* out of bounds" are never thrown, and whoever stays on the book is not worse off than
\* by the price.
THEOREM ExchangeWithinLimits ==
    ASSUME NEW p \in Price, NEW ws \in Nat, NEW wr \in Nat, NEW ss \in Nat, NEW sr \in Nat,
           NEW path \in BOOLEAN
    PROVE  LET r == exchangeV10WithoutPriceErrorThresholds(p, ws, wr, ss, sr, path)
           IN  r \in Exchanged /\ KeepsLimits(r, ws, wr, ss, sr) /\ FavoursWhoStays(r, p)
<1> DEFINE r == exchangeV10WithoutPriceErrorThresholds(p, ws, wr, ss, sr, path)
           v == Value(p, ws, wr, ss, sr)
<1>1. IsExchange(r, p, ws, wr, ss, sr, path)
  BY ExchangeUnfolded
<1>2. r.wheatStays \in BOOLEAN /\ Rounded(p, v, r.wheatStays, path, r.numWheatReceived, r.numSheepSend)
  BY <1>1, Zenon DEF IsExchange
<1>3. v \in Nat /\ v <= ws * p.n /\ v <= wr * p.n /\ v <= ss * p.d /\ v <= sr * p.d
  BY ValueBounds
<1> HIDE DEF r, v
<1>4. /\ r.numWheatReceived \in Nat /\ r.numSheepSend \in Nat
      /\ \A m \in Nat : v <= m * p.n => r.numWheatReceived <= m
      /\ \A m \in Nat : v <= m * p.d => r.numSheepSend <= m
      /\ r.wheatStays => r.numWheatReceived * p.n <= r.numSheepSend * p.d
      /\ ~r.wheatStays => r.numSheepSend * p.d <= r.numWheatReceived * p.n
  BY <1>2, <1>3, RoundedBounds
<1>5. KeepsLimits(r, ws, wr, ss, sr)
  BY <1>3, <1>4 DEF KeepsLimits
<1>6. Min({wr, ws}) \in {wr, ws} /\ Min({sr, ss}) \in {sr, ss}
  BY MinOfTwo
<1>7. r.err = ""
  <2>1. ~ (r.numWheatReceived > Min({wr, ws})) /\ ~ (r.numSheepSend > Min({sr, ss}))
    BY <1>4, <1>5, <1>6 DEF KeepsLimits
  <2>2. r.err = IF r.numWheatReceived > Min({wr, ws}) THEN "wheatReceive out of bounds"
                ELSE IF r.numSheepSend > Min({sr, ss}) THEN "sheepSend out of bounds" ELSE ""
    BY <1>1, Zenon DEF IsExchange
  <2> QED BY <2>1, <2>2, Zenon
<1>8. r \in Exchanged
  BY <1>1, <1>2, <1>4, <1>7 DEF Exchanged, IsExchange
<1>9. FavoursWhoStays(r, p)
  BY <1>4, Zenon DEF FavoursWhoStays
<1> QED BY <1>5, <1>8, <1>9, Zenon DEF r

\* What is left of an exchange once the price error is looked at: the errors that
\* one side was favoured are not thrown, and only a path payment can still fail.
NothingOf(r) == [r EXCEPT !.numWheatReceived = 0, !.numSheepSend = 0]

LEMMA Thresholds ==
    ASSUME NEW p \in Price, NEW r \in Exchanged, NEW path \in BOOLEAN, FavoursWhoStays(r, p),
           NEW out, out = applyPriceErrorThresholds(p, r, path)
    PROVE  IF r.numWheatReceived = 0 \/ r.numSheepSend = 0 THEN out = NothingOf(r)
           ELSE IF checkPriceErrorBound(p, r.numWheatReceived, r.numSheepSend, path) THEN out = r
           ELSE IF path THEN out = [r EXCEPT !.err = "exceeded price error bound"]
           ELSE out = NothingOf(r)
<1> DEFINE x == r.numWheatReceived * p.n
           y == r.numSheepSend * p.d
<1>1. /\ r.numWheatReceived \in Nat /\ r.numSheepSend \in Nat
      /\ r.err = "" /\ r.wheatStays \in BOOLEAN
  BY DEF Exchanged
<1>2. p.n \in Nat /\ p.d \in Nat
  BY DEF Price
<1>3. x \in Nat /\ y \in Nat
  BY <1>1, <1>2, ProductType, Zenon
<1>4. (r.wheatStays => x <= y) /\ (~r.wheatStays => y <= x)
  BY Zenon DEF FavoursWhoStays
<1> HIDE DEF x, y
<1>5. (x <= y => ~ (y < x)) /\ (y <= x => ~ (y > x))
  BY <1>3
<1>6. ~ (r.wheatStays /\ y < x) /\ ~ (~r.wheatStays /\ y > x)
  BY <1>4, <1>5, Zenon
<1> QED BY <1>1, <1>6, Zenon DEF applyPriceErrorThresholds, NothingOf, x, y

LEMMA NothingIsExchanged ==
    ASSUME NEW p \in Price, NEW r \in Exchanged,
           NEW ws \in Nat, NEW wr \in Nat, NEW ss \in Nat, NEW sr \in Nat
    PROVE  LET o == NothingOf(r)
           IN  /\ o \in Exchanged /\ o.numWheatReceived = 0 /\ o.numSheepSend = 0
               /\ o.wheatStays = r.wheatStays
               /\ KeepsLimits(o, ws, wr, ss, sr) /\ FavoursWhoStays(o, p)
<1> DEFINE o == NothingOf(r)
<1>1. /\ o \in Exchanged /\ o.numWheatReceived = 0 /\ o.numSheepSend = 0
      /\ o.wheatStays = r.wheatStays
  BY DEF NothingOf, Exchanged
<1>2. 0 * p.n = 0 /\ 0 * p.d = 0 /\ 0 <= 0
  BY DEF Price
<1> HIDE DEF o
<1>3. KeepsLimits(o, ws, wr, ss, sr)
  BY <1>1 DEF KeepsLimits
<1>4. FavoursWhoStays(o, p)
  BY <1>1, <1>2, Zenon DEF FavoursWhoStays
<1> QED BY <1>1, <1>3, <1>4, Zenon DEF o

\* exchangeV10 of two offers (not a path payment) never throws, whatever the price
\* and the limits; either both sides get something or nobody does.
THEOREM OffersExchange ==
    ASSUME NEW p \in Price, NEW ws \in Nat, NEW wr \in Nat, NEW ss \in Nat, NEW sr \in Nat
    PROVE  LET out == exchangeV10(p, ws, wr, ss, sr, FALSE)
           IN  /\ out \in Exchanged /\ KeepsLimits(out, ws, wr, ss, sr) /\ FavoursWhoStays(out, p)
               /\ (out.numWheatReceived = 0) <=> (out.numSheepSend = 0)
<1> DEFINE r == exchangeV10WithoutPriceErrorThresholds(p, ws, wr, ss, sr, FALSE)
           out == exchangeV10(p, ws, wr, ss, sr, FALSE)
<1>1. r \in Exchanged /\ KeepsLimits(r, ws, wr, ss, sr) /\ FavoursWhoStays(r, p)
  BY ExchangeWithinLimits
<1>2. out = applyPriceErrorThresholds(p, r, FALSE)
  BY DEF exchangeV10
<1> HIDE DEF r, out
<1>3. (out = r /\ r.numWheatReceived # 0 /\ r.numSheepSend # 0) \/ out = NothingOf(r)
  BY <1>1, <1>2, Thresholds
<1>4. CASE out = r /\ r.numWheatReceived # 0 /\ r.numSheepSend # 0
  BY <1>1, <1>4, Zenon DEF out
<1>5. CASE out = NothingOf(r)
  BY <1>1, <1>5, NothingIsExchanged, Zenon DEF out
<1> QED BY <1>3, <1>4, <1>5

-----------------------------------------------------------------------------
(* Offers that are adjusted to what their owners can honour. *)

\* Nothing stays of an offer that a buyer without limits crosses.
LEMMA UnlimitedBuyer ==
    ASSUME NEW p \in Price, NEW ws \in 0..INT64_MAX, NEW sr \in 0..INT64_MAX
    PROVE  LET w == calculateOfferValue(p.n, p.d, ws, sr)
               s == calculateOfferValue(p.d, p.n, INT64_MAX, INT64_MAX)
           IN  /\ ~ (w > s)
               /\ Value(p, ws, INT64_MAX, INT64_MAX, sr) = w
<1> DEFINE w == calculateOfferValue(p.n, p.d, ws, sr)
           s == calculateOfferValue(p.d, p.n, INT64_MAX, INT64_MAX)
<1>1. /\ p.n \in Nat \ {0} /\ p.d \in Nat \ {0} /\ p.n \in Nat /\ p.d \in Nat
      /\ ws \in Nat /\ sr \in Nat /\ INT64_MAX \in Nat
  BY Int64Assumption DEF Price
<1>2. w \in Nat /\ w <= ws * p.n /\ w <= sr * p.d
  BY <1>1, OfferValue, Zenon
<1>3. s \in Nat /\ s \in {INT64_MAX * p.d, INT64_MAX * p.n}
  BY <1>1, OfferValue, Zenon
<1>4. ws * p.n <= INT64_MAX * p.n /\ sr * p.d <= INT64_MAX * p.d
  BY <1>1, ProductOrder
<1>5. Value(p, ws, INT64_MAX, INT64_MAX, sr) = IF w > s THEN s ELSE w
  BY DEF Value
<1>6. /\ ws * p.n \in Nat /\ sr * p.d \in Nat
      /\ INT64_MAX * p.n \in Nat /\ INT64_MAX * p.d \in Nat
  BY <1>1, ProductType
<1> HIDE DEF w, s
<1>7. ~ (w > s)
  BY <1>2, <1>3, <1>4, <1>6
<1> QED BY <1>5, <1>7 DEF w, s

\* The rounding when the offer on the book does not stay.
RoundedOut(price, v, wheat, sheep) ==
    IF price.n > price.d
    THEN wheat = divDown(v, price.n) /\ sheep = divDown(wheat * price.n, price.d)
    ELSE sheep = divDown(v, price.d) /\ wheat = divUp(sheep * price.d, price.n)

LEMMA RoundedWhenOut ==
    ASSUME NEW p, NEW v, NEW stays \in BOOLEAN, ~stays, NEW path, NEW wheat, NEW sheep
    PROVE  Rounded(p, v, stays, path, wheat, sheep) <=> RoundedOut(p, v, wheat, sheep)
BY DEF Rounded, RoundedOut

\* An offer of which the amount is what an exchange came to is taken for the same
\* amounts again.
LEMMA TakenAgain ==
    ASSUME NEW p \in Price, NEW sr \in Nat, NEW v \in Nat, v <= sr * p.d,
           NEW wheat, NEW sheep, RoundedOut(p, v, wheat, sheep),
           NEW wheat2, NEW sheep2,
           RoundedOut(p, calculateOfferValue(p.n, p.d, wheat, sr), wheat2, sheep2)
    PROVE  wheat2 = wheat /\ sheep2 = sheep
<1> DEFINE u == calculateOfferValue(p.n, p.d, wheat, sr)
           x == wheat * p.n
           y == sr * p.d
<1>1. p.n \in Nat \ {0} /\ p.d \in Nat \ {0} /\ p.n \in Nat /\ p.d \in Nat
  BY DEF Price
<1>2. wheat \in Nat /\ sheep \in Nat /\ sheep * p.d <= wheat * p.n /\ sheep <= sr
  <2>1. PICK stays \in BOOLEAN : ~stays
    OBVIOUS
  <2>2. Rounded(p, v, stays, stays, wheat, sheep)
    BY <2>1, RoundedWhenOut
  <2> QED BY <2>1, <2>2, RoundedBounds
<1>3. x \in Nat /\ y \in Nat
  BY <1>1, <1>2, ProductType
<1>4. u \in Nat /\ u <= x /\ u <= y /\ u \in {x, y}
  BY <1>1, <1>2, OfferValue, Zenon
<1>5. CASE p.n > p.d
  <2>1. wheat = divDown(v, p.n) /\ wheat2 = divDown(u, p.n)
    BY <1>5 DEF RoundedOut
  <2>2. sheep = divDown(wheat * p.n, p.d) /\ sheep2 = divDown(wheat2 * p.n, p.d)
    BY <1>5 DEF RoundedOut
  <2>3. x <= v
    BY <1>1, <2>1, DivDownBounds
  <2> HIDE DEF u, x, y
  <2>4. u = x
    BY <1>3, <1>4, <2>3 DEF y
  <2>5. wheat2 \in Nat /\ wheat2 * p.n <= x /\ x < wheat2 * p.n + p.n
    BY <1>1, <1>3, <2>1, <2>4, DivDownBounds
  <2>6. wheat2 <= wheat
    BY <1>1, <1>2, <2>5, ProductOrder DEF x
  <2>7. wheat < wheat2 + 1
    <3>1. \A a \in Nat, b \in Nat : a * b + b = (a + 1) * b
      OBVIOUS
    <3>2. wheat * p.n < (wheat2 + 1) * p.n
      BY <1>1, <2>5, <3>1 DEF x
    <3>3. wheat2 + 1 \in Int /\ wheat \in Int
      BY <1>2, <2>5
    <3> QED BY <1>1, <3>2, <3>3, ProductOrder
  <2>8. wheat2 = wheat
    BY <1>2, <2>5, <2>6, <2>7
  <2> QED BY <2>2, <2>8
<1>6. CASE ~ (p.n > p.d)
  <2>1. sheep = divDown(v, p.d) /\ sheep2 = divDown(u, p.d)
    BY <1>6 DEF RoundedOut
  <2>2. wheat = divUp(sheep * p.d, p.n) /\ wheat2 = divUp(sheep2 * p.d, p.n)
    BY <1>6 DEF RoundedOut
  <2> DEFINE z == sheep * p.d
  <2>3. z \in Nat
    BY <1>1, <1>2, ProductType
  <2>4. x < z + p.n
    BY <1>1, <2>2, <2>3, DivUpBounds
  <2>5. z <= x /\ z <= y
    BY <1>1, <1>2, ProductOrder
  <2>6. sheep2 \in Nat /\ sheep2 * p.d <= u /\ u < sheep2 * p.d + p.d
    BY <1>1, <1>4, <2>1, DivDownBounds
  <2> HIDE DEF u, x, y, z
  <2>7. u < z + p.d /\ z <= u
    BY <1>1, <1>3, <1>4, <1>6, <2>3, <2>4, <2>5
  <2>8. sheep2 * p.d < (sheep + 1) * p.d /\ sheep * p.d < (sheep2 + 1) * p.d
    <3>1. (sheep + 1) * p.d = z + p.d /\ (sheep2 + 1) * p.d = sheep2 * p.d + p.d
      BY <1>1, <1>2, <2>6 DEF z
    <3>2. sheep2 * p.d \in Nat /\ sheep * p.d = z
      BY <1>1, <2>6, ProductType DEF z
    <3> QED BY <1>1, <1>4, <2>3, <2>6, <2>7, <3>1, <3>2
  <2>9. sheep2 < sheep + 1 /\ sheep < sheep2 + 1
    <3>1. sheep \in Int /\ sheep2 \in Int /\ sheep + 1 \in Int /\ sheep2 + 1 \in Int
      BY <1>2, <2>6
    <3> QED BY <1>1, <2>8, <3>1, ProductOrder
  <2>10. sheep2 = sheep
    BY <1>2, <2>6, <2>9
  <2> QED BY <2>2, <2>10
<1> QED BY <1>5, <1>6

\* Before the price error is looked at, what an offer comes to that may send ws and
\* receive sr.
Taken(p, ws, sr) ==
    exchangeV10WithoutPriceErrorThresholds(p, ws, INT64_MAX, INT64_MAX, sr, FALSE)

LEMMA TakenIs ==
    ASSUME NEW p \in Price, NEW ws \in 0..INT64_MAX, NEW sr \in 0..INT64_MAX
    PROVE  LET r == Taken(p, ws, sr)
           IN  /\ r \in Exchanged /\ FavoursWhoStays(r, p) /\ ~r.wheatStays
               /\ KeepsLimits(r, ws, INT64_MAX, INT64_MAX, sr)
               /\ RoundedOut(p, calculateOfferValue(p.n, p.d, ws, sr),
                             r.numWheatReceived, r.numSheepSend)
<1> DEFINE r == Taken(p, ws, sr)
           v == Value(p, ws, INT64_MAX, INT64_MAX, sr)
           w == calculateOfferValue(p.n, p.d, ws, sr)
<1>1. ws \in Nat /\ sr \in Nat /\ INT64_MAX \in Nat /\ FALSE \in BOOLEAN
  BY Int64Assumption
<1>2. r \in Exchanged /\ KeepsLimits(r, ws, INT64_MAX, INT64_MAX, sr) /\ FavoursWhoStays(r, p)
  BY <1>1, ExchangeWithinLimits, Zenon DEF Taken
<1>3. IsExchange(r, p, ws, INT64_MAX, INT64_MAX, sr, FALSE)
  BY ExchangeUnfolded, Zenon DEF Taken
<1>4. /\ r.wheatStays <=> w > calculateOfferValue(p.d, p.n, INT64_MAX, INT64_MAX)
      /\ Rounded(p, v, r.wheatStays, FALSE, r.numWheatReceived, r.numSheepSend)
  BY <1>3, Zenon DEF IsExchange
<1>5. /\ ~ (w > calculateOfferValue(p.d, p.n, INT64_MAX, INT64_MAX))
      /\ v = w
  BY UnlimitedBuyer
<1> HIDE DEF r, v, w
<1>6. r.wheatStays \in BOOLEAN /\ ~r.wheatStays
  BY <1>3, <1>4, <1>5, Zenon DEF IsExchange
<1>7. RoundedOut(p, w, r.numWheatReceived, r.numSheepSend)
  BY <1>4, <1>5, <1>6, RoundedWhenOut, Zenon
<1> QED BY <1>2, <1>6, <1>7, Zenon DEF r, w

\* adjustOffer keeps all of that, or nothing.
LEMMA AdjustedIs ==
    ASSUME NEW p \in Price, NEW ws \in 0..INT64_MAX, NEW sr \in 0..INT64_MAX
    PROVE  LET r == Taken(p, ws, sr)
           IN  adjustOffer(p, ws, sr) =
                   IF /\ r.numWheatReceived # 0 /\ r.numSheepSend # 0
                      /\ checkPriceErrorBound(p, r.numWheatReceived, r.numSheepSend, FALSE)
                   THEN r ELSE NothingOf(r)
<1> DEFINE r == Taken(p, ws, sr)
<1>1. r \in Exchanged /\ FavoursWhoStays(r, p)
  BY TakenIs
<1>2. adjustOffer(p, ws, sr) = applyPriceErrorThresholds(p, r, FALSE)
  BY DEF adjustOffer, exchangeV10, Taken
<1> HIDE DEF r
<1>3. FALSE \in BOOLEAN
  OBVIOUS
<1>4. IF r.numWheatReceived = 0 \/ r.numSheepSend = 0 THEN adjustOffer(p, ws, sr) = NothingOf(r)
      ELSE IF checkPriceErrorBound(p, r.numWheatReceived, r.numSheepSend, FALSE)
      THEN adjustOffer(p, ws, sr) = r
      ELSE IF FALSE THEN adjustOffer(p, ws, sr) = [r EXCEPT !.err = "exceeded price error bound"]
      ELSE adjustOffer(p, ws, sr) = NothingOf(r)
  BY <1>1, <1>2, <1>3, Thresholds, Zenon
<1> QED BY <1>4, Zenon DEF r

\* What is taken is taken again, when it is all there is.
LEMMA TakenOfTaken ==
    ASSUME NEW p \in Price, NEW ws \in 0..INT64_MAX, NEW sr \in 0..INT64_MAX
    PROVE  Taken(p, Taken(p, ws, sr).numWheatReceived, sr) = Taken(p, ws, sr)
<1> DEFINE r == Taken(p, ws, sr)
           a == r.numWheatReceived
           q == Taken(p, a, sr)
           v == calculateOfferValue(p.n, p.d, ws, sr)
<1>1. /\ r \in Exchanged /\ ~r.wheatStays /\ KeepsLimits(r, ws, INT64_MAX, INT64_MAX, sr)
      /\ RoundedOut(p, v, a, r.numSheepSend)
  BY TakenIs
<1> HIDE DEF r
<1>2. ws \in Nat /\ sr \in Nat /\ INT64_MAX \in Nat /\ p.n \in Nat /\ p.d \in Nat
  BY Int64Assumption DEF Price
<1>3. a \in 0..INT64_MAX
  <2>1. a \in Nat
    BY <1>1 DEF Exchanged
  <2>2. a <= INT64_MAX
    BY <1>1, Zenon DEF KeepsLimits
  <2> QED BY <1>2, <2>1, <2>2
<1>4. /\ q \in Exchanged /\ ~q.wheatStays
      /\ RoundedOut(p, calculateOfferValue(p.n, p.d, a, sr), q.numWheatReceived, q.numSheepSend)
  BY <1>3, TakenIs
<1>5. v \in Nat /\ v <= sr * p.d
  BY <1>2, OfferValue
<1> HIDE DEF q, v, a
<1>6. q.numWheatReceived = a /\ q.numSheepSend = r.numSheepSend
  <2>1. RoundedOut(p, v, a, r.numSheepSend)
    BY <1>1
  <2>2. RoundedOut(p, calculateOfferValue(p.n, p.d, a, sr), q.numWheatReceived, q.numSheepSend)
    BY <1>4
  <2>3. sr \in Nat
    BY <1>2
  <2>4. \A x, y, x2, y2 :
            RoundedOut(p, v, x, y) /\ RoundedOut(p, calculateOfferValue(p.n, p.d, x, sr), x2, y2)
                => x2 = x /\ y2 = y
    BY <1>5, <2>3, TakenAgain
  <2> QED BY <2>1, <2>2, <2>4
<1>7. r.wheatStays = FALSE /\ q.wheatStays = FALSE
  BY <1>1, <1>4 DEF Exchanged
<1>8. q = r
  BY <1>1, <1>4, <1>6, <1>7, ExchangedEqual, Zenon DEF a
<1> QED BY <1>8 DEF q, r, a

\* Nothing is taken of nothing.
LEMMA TakenOfNothing ==
    ASSUME NEW p \in Price, NEW sr \in 0..INT64_MAX
    PROVE  Taken(p, 0, sr).numWheatReceived = 0
<1> DEFINE r == Taken(p, 0, sr)
<1>1. 0 \in 0..INT64_MAX
  BY Int64Assumption
<1>2. r \in Exchanged /\ KeepsLimits(r, 0, INT64_MAX, INT64_MAX, sr)
  BY <1>1, TakenIs
<1> HIDE DEF r
<1>3. r.numWheatReceived \in Nat /\ r.numWheatReceived <= 0
  BY <1>2 DEF Exchanged, KeepsLimits
<1> QED BY <1>3 DEF r

\* adjustOffer: adjusting an offer a second time has no effect, for every price and
\* whatever its owner may send and receive.  crossOfferV10 relies on this when it
\* adjusts an offer again that was adjusted as it entered the book.
THEOREM AdjustIsIdempotent ==
    ASSUME NEW p \in Price, NEW ws \in 0..INT64_MAX, NEW sr \in 0..INT64_MAX
    PROVE  LET out == adjustOffer(p, ws, sr)
           IN  /\ out.numWheatReceived \in 0..ws
               /\ adjustOffer(p, out.numWheatReceived, sr) = out
<1> DEFINE r == Taken(p, ws, sr)
           out == adjustOffer(p, ws, sr)
           a == out.numWheatReceived
           r2 == Taken(p, a, sr)
           out2 == adjustOffer(p, a, sr)
<1>1. /\ r \in Exchanged /\ FavoursWhoStays(r, p) /\ ~r.wheatStays
      /\ KeepsLimits(r, ws, INT64_MAX, INT64_MAX, sr)
      /\ RoundedOut(p, calculateOfferValue(p.n, p.d, ws, sr),
                    r.numWheatReceived, r.numSheepSend)
  BY TakenIs
<1> DEFINE Kept == /\ r.numWheatReceived # 0 /\ r.numSheepSend # 0
                   /\ checkPriceErrorBound(p, r.numWheatReceived, r.numSheepSend, FALSE)
<1>2. out = IF Kept THEN r ELSE NothingOf(r)
  BY AdjustedIs
<1> HIDE DEF r, out
<1>3. r.numWheatReceived \in 0..ws /\ NothingOf(r).numWheatReceived = 0 /\ 0 \in 0..ws
  <2>1. r.numWheatReceived \in Nat /\ NothingOf(r).numWheatReceived = 0
    BY <1>1 DEF Exchanged, NothingOf
  <2>2. r.numWheatReceived <= ws
    BY <1>1, Zenon DEF KeepsLimits
  <2> QED BY <2>1, <2>2
<1>4. a \in 0..ws
  BY <1>2, <1>3
<1>5. a \in 0..INT64_MAX /\ ws \in Nat /\ sr \in Nat
  BY <1>4, Int64Assumption
<1> DEFINE Kept2 == /\ r2.numWheatReceived # 0 /\ r2.numSheepSend # 0
                    /\ checkPriceErrorBound(p, r2.numWheatReceived, r2.numSheepSend, FALSE)
<1>6. out2 = IF Kept2 THEN r2 ELSE NothingOf(r2)
  BY <1>5, AdjustedIs
<1>7. /\ r2 \in Exchanged /\ ~r2.wheatStays
      /\ RoundedOut(p, calculateOfferValue(p.n, p.d, a, sr), r2.numWheatReceived, r2.numSheepSend)
  BY <1>5, TakenIs
<1>8. r.wheatStays = FALSE /\ r2.wheatStays = FALSE
  BY <1>1, <1>7 DEF Exchanged
<1>9. CASE Kept
  <2>1. a = r.numWheatReceived
    BY <1>2, <1>9
  <2>5. r2 = r
    BY <2>1, TakenOfTaken, Zenon DEF r
  <2> HIDE DEF r2
  <2> HIDE DEF Kept, Kept2, out2, a
  <2>6. Kept2
    BY <1>9, <2>5 DEF Kept, Kept2
  <2>7. out2 = out
    BY <1>2, <1>6, <1>9, <2>5, <2>6
  <2> QED BY <1>4, <2>7 DEF a, out, out2
<1>10. CASE ~Kept
  <2>1. a = 0 /\ out = NothingOf(r)
    BY <1>2, <1>3, <1>10
  <2>2. r2.numWheatReceived = 0
    BY <2>1, TakenOfNothing, Zenon
  <2> HIDE DEF r2, Kept, a, out2
  <2>3. out2 = NothingOf(r2)
    BY <1>6, <2>2 DEF Kept2
  <2>4. NothingOf(r2) = NothingOf(r)
    BY <1>1, <1>7, <1>8 DEF NothingOf, Exchanged
  <2>5. out2 = out
    BY <2>1, <2>3, <2>4
  <2> QED BY <1>4, <2>5 DEF a, out, out2
<1> QED BY <1>9, <1>10

\* A path payment tolerates what favours the offer on the book.
LEMMA BoundWhenWheatStays ==
    ASSUME NEW p \in Price, NEW wheat \in Nat, NEW sheep \in Nat, wheat * p.n <= sheep * p.d
    PROVE  checkPriceErrorBound(p, wheat, sheep, TRUE)
<1> DEFINE x == wheat * p.n
           y == sheep * p.d
<1>1. p.n \in Nat /\ p.d \in Nat
  BY DEF Price
<1>2. x \in Nat /\ y \in Nat
  BY <1>1, ProductType
<1>3. 100 * p.n * wheat = 100 * x /\ 100 * p.d * sheep = 100 * y /\ p.n * wheat = x
  BY <1>1
<1> HIDE DEF x, y
<1>4. CASE x < y
  <2>1. 100 * y > 100 * x
    BY <1>2, <1>4
  <2> QED BY <1>3, <2>1 DEF checkPriceErrorBound
<1>5. CASE x = y
  <2>1. ~ (100 * x > 100 * y) /\ 100 * y - 100 * x <= x
    BY <1>2, <1>5
  <2> QED BY <1>3, <2>1 DEF checkPriceErrorBound
<1>6. x < y \/ x = y
  BY <1>2 DEF x, y
<1> QED BY <1>4, <1>5, <1>6

LEMMA BoundOfPath ==
    ASSUME NEW p, NEW wheat, NEW sheep, checkPriceErrorBound(p, wheat, sheep, FALSE)
    PROVE  checkPriceErrorBound(p, wheat, sheep, TRUE)
BY DEF checkPriceErrorBound

\* When an offer does not stay it is taken for what it was adjusted to.
LEMMA AdjustedIsTaken ==
    ASSUME NEW p \in Price, NEW ws \in 0..INT64_MAX, NEW sr \in 0..INT64_MAX,
           NEW wr \in Nat, NEW ss \in Nat,
           NEW a, a = adjustOffer(p, ws, sr).numWheatReceived,
           NEW r, r = exchangeV10WithoutPriceErrorThresholds(p, a, wr, ss, sr, TRUE),
           r \in Exchanged, ~r.wheatStays, r.numWheatReceived # 0
    PROVE  checkPriceErrorBound(p, r.numWheatReceived, r.numSheepSend, TRUE)
<1> DEFINE t == Taken(p, ws, sr)
           q == Taken(p, a, sr)
           v == calculateOfferValue(p.n, p.d, a, sr)
           Kept == /\ t.numWheatReceived # 0 /\ t.numSheepSend # 0
                   /\ checkPriceErrorBound(p, t.numWheatReceived, t.numSheepSend, FALSE)
<1>1. a \in 0..ws
  BY AdjustIsIdempotent
<1>2. a \in Nat /\ a \in 0..INT64_MAX /\ sr \in Nat /\ INT64_MAX \in Nat
  BY <1>1, Int64Assumption
<1>3. IsExchange(r, p, a, wr, ss, sr, TRUE)
  BY ExchangeUnfolded, Zenon
<1>4. r.wheatStays \in BOOLEAN /\ ~ (v > calculateOfferValue(p.d, p.n, ss, wr))
  BY <1>3, Zenon DEF IsExchange
<1>5. Value(p, a, wr, ss, sr) = v
  BY <1>4, Zenon DEF Value
<1>6. RoundedOut(p, v, r.numWheatReceived, r.numSheepSend)
  BY <1>3, <1>4, <1>5, RoundedWhenOut, Zenon DEF IsExchange
<1>7. RoundedOut(p, v, q.numWheatReceived, q.numSheepSend)
  BY <1>2, TakenIs
<1>8. r.numWheatReceived = q.numWheatReceived /\ r.numSheepSend = q.numSheepSend
  <2> HIDE DEF q, v
  <2> QED BY <1>6, <1>7 DEF RoundedOut
<1>9. a = IF Kept THEN t.numWheatReceived ELSE NothingOf(t).numWheatReceived
  BY AdjustedIs
<1>10. t \in Exchanged
  BY TakenIs
<1>11. NothingOf(t).numWheatReceived = 0
  <2> HIDE DEF t
  <2> QED BY <1>10 DEF NothingOf, Exchanged
<1>12. CASE Kept
  <2>1. q = t
    BY <1>9, <1>12, TakenOfTaken, Zenon
  <2> HIDE DEF q, t
  <2> QED BY <1>8, <1>12, <2>1, BoundOfPath, Zenon
<1>13. CASE ~Kept
  <2>1. a = 0
    BY <1>9, <1>11, <1>13, Zenon
  <2>2. q.numWheatReceived = 0
    BY <2>1, TakenOfNothing, Zenon
  <2> QED BY <1>8, <2>2
<1> QED BY <1>12, <1>13

\* crossOfferV10 for a path payment: an offer is crossed with the amount it was
\* adjusted to, and then none of the errors of exchangeV10 is thrown, "exceeded price
\* error bound" included, whatever the payment needs and may spend.
THEOREM PathPaymentsExchange ==
    ASSUME NEW p \in Price, NEW ws \in 0..INT64_MAX, NEW sr \in 0..INT64_MAX,
           NEW wr \in Nat, NEW ss \in Nat
    PROVE  LET a == adjustOffer(p, ws, sr).numWheatReceived
               out == exchangeV10(p, a, wr, ss, sr, TRUE)
           IN  out \in Exchanged /\ KeepsLimits(out, a, wr, ss, sr) /\ FavoursWhoStays(out, p)
<1> DEFINE a == adjustOffer(p, ws, sr).numWheatReceived
           r == exchangeV10WithoutPriceErrorThresholds(p, a, wr, ss, sr, TRUE)
           out == exchangeV10(p, a, wr, ss, sr, TRUE)
<1>1. a \in 0..ws
  BY AdjustIsIdempotent
<1>2. a \in Nat /\ sr \in Nat /\ TRUE \in BOOLEAN
  BY <1>1, Int64Assumption
<1> HIDE DEF a
<1>3. r \in Exchanged /\ KeepsLimits(r, a, wr, ss, sr) /\ FavoursWhoStays(r, p)
  BY <1>2, ExchangeWithinLimits, Zenon
<1>4. out = applyPriceErrorThresholds(p, r, TRUE)
  BY DEF exchangeV10
<1>5. r.numWheatReceived # 0 => checkPriceErrorBound(p, r.numWheatReceived, r.numSheepSend, TRUE)
  <2>1. CASE r.wheatStays
    <3> HIDE DEF r
    <3>1. r.numWheatReceived \in Nat /\ r.numSheepSend \in Nat
      BY <1>3 DEF Exchanged
    <3>2. r.numWheatReceived * p.n <= r.numSheepSend * p.d
      BY <1>3, <2>1, Zenon DEF FavoursWhoStays
    <3> QED BY <3>1, <3>2, BoundWhenWheatStays
  <2>2. CASE ~r.wheatStays
    BY <1>3, <2>2, AdjustedIsTaken, Zenon DEF a
  <2> QED BY <2>1, <2>2
<1> HIDE DEF r, out
<1>6. IF r.numWheatReceived = 0 \/ r.numSheepSend = 0 THEN out = NothingOf(r)
      ELSE IF checkPriceErrorBound(p, r.numWheatReceived, r.numSheepSend, TRUE) THEN out = r
      ELSE IF TRUE THEN out = [r EXCEPT !.err = "exceeded price error bound"]
      ELSE out = NothingOf(r)
  BY <1>2, <1>3, <1>4, Thresholds, Zenon
<1>7. out = r \/ out = NothingOf(r)
  BY <1>5, <1>6, Zenon
<1>8. CASE out = r
  BY <1>3, <1>8, Zenon DEF out, a
<1>9. CASE out = NothingOf(r)
  <2>1. out \in Exchanged /\ KeepsLimits(out, a, wr, ss, sr) /\ FavoursWhoStays(out, p)
    BY <1>2, <1>3, <1>9, NothingIsExchanged
  <2> QED BY <2>1, Zenon DEF out, a
<1> QED BY <1>7, <1>8, <1>9

\* An exchange that comes to all there is comes to the same within other limits on
\* what may be received, if these leave room for it.
LEMMA RoundedAlike ==
    ASSUME NEW p \in Price, NEW room \in Nat, NEW v \in Nat,
           NEW wheat, NEW sheep, RoundedOut(p, v, wheat, sheep),
           sheep <= room, ~ (p.n > p.d) \/ wheat * p.n <= room * p.d,
           NEW wheat2, NEW sheep2,
           RoundedOut(p, calculateOfferValue(p.n, p.d, wheat, room), wheat2, sheep2)
    PROVE  wheat2 = wheat /\ sheep2 = sheep
<1> DEFINE u == calculateOfferValue(p.n, p.d, wheat, room)
           x == wheat * p.n
           y == room * p.d
<1>1. p.n \in Nat \ {0} /\ p.d \in Nat \ {0} /\ p.n \in Nat /\ p.d \in Nat
  BY DEF Price
<1>2. wheat \in Nat /\ sheep \in Nat
  <2>1. PICK stays \in BOOLEAN : ~stays
    OBVIOUS
  <2>2. Rounded(p, v, stays, stays, wheat, sheep)
    BY <2>1, RoundedWhenOut
  <2> QED BY <2>1, <2>2, RoundedBounds
<1>3. x \in Nat /\ y \in Nat
  BY <1>1, <1>2, ProductType
<1>4. u \in Nat /\ u <= x /\ u <= y /\ u \in {x, y}
  BY <1>1, <1>2, OfferValue, Zenon
<1>5. CASE p.n > p.d
  <2>1. wheat2 = divDown(u, p.n)
    BY <1>5 DEF RoundedOut
  <2>2. sheep = divDown(wheat * p.n, p.d) /\ sheep2 = divDown(wheat2 * p.n, p.d)
    BY <1>5 DEF RoundedOut
  <2>3. x <= y
    BY <1>5
  <2> HIDE DEF u, x, y
  <2>4. u = x
    BY <1>3, <1>4, <2>3
  <2>5. wheat2 \in Nat /\ wheat2 * p.n <= x /\ x < wheat2 * p.n + p.n
    BY <1>1, <1>3, <2>1, <2>4, DivDownBounds
  <2>6. wheat2 <= wheat
    BY <1>1, <1>2, <2>5, ProductOrder DEF x
  <2>7. wheat < wheat2 + 1
    <3>1. \A a \in Nat, b \in Nat : a * b + b = (a + 1) * b
      OBVIOUS
    <3>2. wheat * p.n < (wheat2 + 1) * p.n
      BY <1>1, <2>5, <3>1 DEF x
    <3>3. wheat2 + 1 \in Int /\ wheat \in Int
      BY <1>2, <2>5
    <3> QED BY <1>1, <3>2, <3>3, ProductOrder
  <2>8. wheat2 = wheat
    BY <1>2, <2>5, <2>6, <2>7
  <2> QED BY <2>2, <2>8
<1>6. CASE ~ (p.n > p.d)
  <2>1. sheep2 = divDown(u, p.d)
    BY <1>6 DEF RoundedOut
  <2>2. wheat = divUp(sheep * p.d, p.n) /\ wheat2 = divUp(sheep2 * p.d, p.n)
    BY <1>6 DEF RoundedOut
  <2> DEFINE z == sheep * p.d
  <2>3. z \in Nat
    BY <1>1, <1>2, ProductType
  <2>4. x < z + p.n /\ z <= x
    BY <1>1, <2>2, <2>3, DivUpBounds
  <2>5. z <= y
    BY <1>1, <1>2, ProductOrder
  <2>6. sheep2 \in Nat /\ sheep2 * p.d <= u /\ u < sheep2 * p.d + p.d
    BY <1>1, <1>4, <2>1, DivDownBounds
  <2> HIDE DEF u, x, y, z
  <2>7. u < z + p.d /\ z <= u
    BY <1>1, <1>3, <1>4, <1>6, <2>3, <2>4, <2>5
  <2>8. sheep2 * p.d < (sheep + 1) * p.d /\ sheep * p.d < (sheep2 + 1) * p.d
    <3>1. (sheep + 1) * p.d = z + p.d /\ (sheep2 + 1) * p.d = sheep2 * p.d + p.d
      BY <1>1, <1>2, <2>6 DEF z
    <3>2. sheep2 * p.d \in Nat /\ sheep * p.d = z
      BY <1>1, <2>6, ProductType DEF z
    <3> QED BY <1>1, <1>4, <2>3, <2>6, <2>7, <3>1, <3>2
  <2>9. sheep2 < sheep + 1 /\ sheep < sheep2 + 1
    <3>1. sheep \in Int /\ sheep2 \in Int /\ sheep + 1 \in Int /\ sheep2 + 1 \in Int
      BY <1>2, <2>6
    <3> QED BY <1>1, <2>8, <3>1, ProductOrder
  <2>10. sheep2 = sheep
    BY <1>2, <2>6, <2>9
  <2> QED BY <2>2, <2>10
<1> QED BY <1>5, <1>6

\* The same of exchanges.
LEMMA TakenAlike ==
    ASSUME NEW p \in Price, NEW ws \in 0..INT64_MAX, NEW sr \in 0..INT64_MAX,
           NEW r, r = Taken(p, ws, sr),
           NEW room \in 0..INT64_MAX, r.numSheepSend <= room,
           ~ (p.n > p.d) \/ r.numWheatReceived * p.n <= room * p.d
    PROVE  Taken(p, r.numWheatReceived, room) = r
<1> DEFINE a == r.numWheatReceived
           q == Taken(p, a, room)
           v == calculateOfferValue(p.n, p.d, ws, sr)
<1>1. /\ r \in Exchanged /\ ~r.wheatStays /\ KeepsLimits(r, ws, INT64_MAX, INT64_MAX, sr)
      /\ RoundedOut(p, v, a, r.numSheepSend)
  BY TakenIs
<1>2. ws \in Nat /\ sr \in Nat /\ INT64_MAX \in Nat /\ p.n \in Nat /\ p.d \in Nat
  BY Int64Assumption DEF Price
<1>3. a \in 0..INT64_MAX
  <2>1. a \in Nat
    BY <1>1 DEF Exchanged
  <2>2. a <= INT64_MAX
    BY <1>1, Zenon DEF KeepsLimits
  <2> QED BY <1>2, <2>1, <2>2
<1>4. /\ q \in Exchanged /\ ~q.wheatStays
      /\ RoundedOut(p, calculateOfferValue(p.n, p.d, a, room), q.numWheatReceived, q.numSheepSend)
  BY <1>3, TakenIs
<1>5. v \in Nat
  BY <1>2, OfferValue
<1> HIDE DEF q, v, a
<1>6. q.numWheatReceived = a /\ q.numSheepSend = r.numSheepSend
  <2>1. RoundedOut(p, v, a, r.numSheepSend)
    BY <1>1
  <2>2. RoundedOut(p, calculateOfferValue(p.n, p.d, a, room), q.numWheatReceived, q.numSheepSend)
    BY <1>4
  <2>3. room \in Nat
    BY <1>2
  <2>4. ~ (p.n > p.d) \/ a * p.n <= room * p.d
    BY DEF a
  <2>5. \A x, y, x2, y2 :
            RoundedOut(p, v, x, y) /\ RoundedOut(p, calculateOfferValue(p.n, p.d, x, room), x2, y2)
            /\ y <= room /\ (~ (p.n > p.d) \/ x * p.n <= room * p.d)
                => x2 = x /\ y2 = y
    BY <1>5, <2>3, RoundedAlike
  <2> QED BY <2>1, <2>2, <2>4, <2>5
<1>7. r.wheatStays = FALSE /\ q.wheatStays = FALSE
  BY <1>1, <1>4 DEF Exchanged
<1>8. q = r
  BY <1>1, <1>4, <1>6, <1>7, ExchangedEqual, Zenon DEF a
<1> QED BY <1>8 DEF q, a

\* The amounts that adjustOffer leaves on the book: a buyer without limits takes
\* all of it.
WellAdjusted(p, x) == x \in 1..INT64_MAX /\ adjustOffer(p, x, INT64_MAX).numWheatReceived = x

Bounded(p, r) == checkPriceErrorBound(p, r.numWheatReceived, r.numSheepSend, FALSE)

LEMMA LiabilitiesAreTaken ==
    ASSUME NEW p, NEW x
    PROVE  OfferLiabilities(p, x) = Taken(p, x, INT64_MAX)
BY DEF OfferLiabilities, Taken

\* What the liabilities of such an amount are.
LEMMA WellAdjustedIs ==
    ASSUME NEW p \in Price, NEW x, WellAdjusted(p, x), NEW r, r = OfferLiabilities(p, x)
    PROVE  /\ x \in 1..INT64_MAX /\ r = Taken(p, x, INT64_MAX) /\ r \in Exchanged
           /\ r.numWheatReceived = x /\ r.numSheepSend \in 1..INT64_MAX
           /\ Bounded(p, r)
           /\ p.n > p.d => x * p.n < r.numSheepSend * p.d + p.d
<1>1. x \in 1..INT64_MAX /\ x # 0 /\ INT64_MAX \in 0..INT64_MAX /\ x \in 0..INT64_MAX
  BY Int64Assumption DEF WellAdjusted
<1>2. r = Taken(p, x, INT64_MAX)
  BY LiabilitiesAreTaken, Zenon
<1>3. /\ r \in Exchanged /\ KeepsLimits(r, x, INT64_MAX, INT64_MAX, INT64_MAX)
      /\ RoundedOut(p, calculateOfferValue(p.n, p.d, x, INT64_MAX),
                    r.numWheatReceived, r.numSheepSend)
  BY <1>1, <1>2, TakenIs, Zenon
<1>4. adjustOffer(p, x, INT64_MAX) =
          IF r.numWheatReceived # 0 /\ r.numSheepSend # 0 /\ Bounded(p, r)
          THEN r ELSE NothingOf(r)
  BY <1>1, <1>2, AdjustedIs, Zenon DEF Bounded
<1>5. NothingOf(r).numWheatReceived = 0
  BY <1>3 DEF Exchanged, NothingOf
<1>6. adjustOffer(p, x, INT64_MAX).numWheatReceived = x
  BY DEF WellAdjusted
<1>7. r.numWheatReceived = x /\ r.numSheepSend # 0 /\ Bounded(p, r)
  BY <1>1, <1>4, <1>5, <1>6, Zenon
<1>8. r.numSheepSend \in 1..INT64_MAX
  <2>1. r.numSheepSend \in Nat
    BY <1>3 DEF Exchanged
  <2>2. r.numSheepSend <= INT64_MAX
    BY <1>3, Zenon DEF KeepsLimits
  <2> QED BY <1>7, <2>1, <2>2, Int64Assumption
<1>9. ASSUME p.n > p.d PROVE x * p.n < r.numSheepSend * p.d + p.d
  <2>1. r.numSheepSend = divDown(x * p.n, p.d)
    BY <1>3, <1>7, <1>9 DEF RoundedOut
  <2>2. p.n \in Nat /\ p.d \in Nat \ {0} /\ x \in Nat
    BY <1>1 DEF Price
  <2>3. x * p.n \in Nat
    BY <2>2, ProductType
  <2> QED BY <2>1, <2>2, <2>3, DivDownBounds
<1> QED BY <1>1, <1>2, <1>3, <1>7, <1>8, <1>9

\* Whatever adjustOffer leaves is well adjusted, and promises what it did.
LEMMA LeftIsWell ==
    ASSUME NEW p \in Price, NEW ws \in 0..INT64_MAX, NEW sr \in 0..INT64_MAX,
           NEW out, out = adjustOffer(p, ws, sr), out.numWheatReceived # 0
    PROVE  /\ WellAdjusted(p, out.numWheatReceived) /\ out.numWheatReceived <= ws
           /\ OfferLiabilities(p, out.numWheatReceived) = out
           /\ out.numSheepSend <= sr
<1> DEFINE r == Taken(p, ws, sr)
<1>1. /\ r \in Exchanged /\ ~r.wheatStays /\ KeepsLimits(r, ws, INT64_MAX, INT64_MAX, sr)
      /\ RoundedOut(p, calculateOfferValue(p.n, p.d, ws, sr), r.numWheatReceived, r.numSheepSend)
  BY TakenIs
<1>2. out = IF r.numWheatReceived # 0 /\ r.numSheepSend # 0 /\ Bounded(p, r)
            THEN r ELSE NothingOf(r)
  BY AdjustedIs, Zenon DEF Bounded
<1> HIDE DEF r
<1>3. NothingOf(r).numWheatReceived = 0
  BY <1>1 DEF Exchanged, NothingOf
<1>4. out = r /\ r.numWheatReceived # 0 /\ r.numSheepSend # 0 /\ Bounded(p, r)
  BY <1>2, <1>3, Zenon
<1>5. /\ r.numWheatReceived \in Nat /\ r.numSheepSend \in Nat
      /\ r.numWheatReceived <= ws /\ r.numSheepSend <= sr
  BY <1>1 DEF Exchanged, KeepsLimits
<1>6. r.numWheatReceived \in 1..INT64_MAX /\ r.numWheatReceived \in 0..INT64_MAX
      /\ INT64_MAX \in 0..INT64_MAX /\ r.numSheepSend <= INT64_MAX
  BY <1>4, <1>5, Int64Assumption
<1>7. ~ (p.n > p.d) \/ r.numWheatReceived * p.n <= INT64_MAX * p.d
  <2>1. SUFFICES ASSUME p.n > p.d PROVE r.numWheatReceived * p.n <= INT64_MAX * p.d
    OBVIOUS
  <2>2. ws \in Nat /\ sr \in Nat /\ INT64_MAX \in Nat /\ p.n \in Nat /\ p.d \in Nat
        /\ p.n \in Nat \ {0}
    BY Int64Assumption DEF Price
  <2> DEFINE v == calculateOfferValue(p.n, p.d, ws, sr)
  <2>3. v \in Nat /\ v <= sr * p.d
    BY <2>2, OfferValue
  <2>4. r.numWheatReceived = divDown(v, p.n)
    BY <1>1, <2>1 DEF RoundedOut
  <2> HIDE DEF v
  <2>5. r.numWheatReceived * p.n <= v
    BY <2>2, <2>3, <2>4, DivDownBounds
  <2>6. sr * p.d <= INT64_MAX * p.d
    BY <2>2, ProductOrder
  <2>7. r.numWheatReceived * p.n \in Nat /\ sr * p.d \in Nat /\ INT64_MAX * p.d \in Nat
    BY <1>5, <2>2, ProductType
  <2> QED BY <2>3, <2>5, <2>6, <2>7
<1>8. Taken(p, r.numWheatReceived, INT64_MAX) = r
  BY <1>6, <1>7, TakenAlike DEF r
<1>9. adjustOffer(p, r.numWheatReceived, INT64_MAX) = r
  <2>1. LET q == Taken(p, r.numWheatReceived, INT64_MAX)
        IN  adjustOffer(p, r.numWheatReceived, INT64_MAX)
              = IF q.numWheatReceived # 0 /\ q.numSheepSend # 0 /\ Bounded(p, q)
                THEN q ELSE NothingOf(q)
    BY <1>6, AdjustedIs, Zenon DEF Bounded
  <2> QED BY <1>4, <1>8, <2>1, Zenon
<1>10. WellAdjusted(p, r.numWheatReceived)
  BY <1>6, <1>9 DEF WellAdjusted
<1>11. OfferLiabilities(p, r.numWheatReceived) = r
  BY <1>8, LiabilitiesAreTaken, Zenon
<1> QED BY <1>4, <1>5, <1>10, <1>11

\* adjustOffer: an offer that is well adjusted is left alone wherever there is room
\* for what it promises, with one exception: a price above one, and no more room
\* than that.
THEOREM AdjustHasNoEffect ==
    ASSUME NEW p \in Price, NEW x, WellAdjusted(p, x), NEW room \in 0..INT64_MAX,
           OfferLiabilities(p, x).numSheepSend <= room,
           ~ (p.n > p.d) \/ room # OfferLiabilities(p, x).numSheepSend
    PROVE  adjustOffer(p, x, room) = OfferLiabilities(p, x)
<1> DEFINE r == OfferLiabilities(p, x)
<1>1. /\ x \in 1..INT64_MAX /\ r = Taken(p, x, INT64_MAX) /\ r \in Exchanged
      /\ r.numWheatReceived = x /\ r.numSheepSend \in 1..INT64_MAX
      /\ Bounded(p, r)
      /\ p.n > p.d => x * p.n < r.numSheepSend * p.d + p.d
  BY WellAdjustedIs
<1> HIDE DEF r
<1>2. x \in 0..INT64_MAX /\ INT64_MAX \in 0..INT64_MAX /\ x # 0 /\ r.numSheepSend # 0
  BY <1>1, Int64Assumption
<1>3. ~ (p.n > p.d) \/ r.numWheatReceived * p.n <= room * p.d
  <2>1. SUFFICES ASSUME p.n > p.d PROVE x * p.n <= room * p.d
    BY <1>1
  <2>2. p.n \in Nat /\ p.d \in Nat /\ x \in Nat /\ room \in Nat /\ r.numSheepSend \in Nat
    BY <1>1, <1>2 DEF Price
  <2>3. r.numSheepSend + 1 <= room
    BY <2>1, <2>2 DEF r
  <2>4. (r.numSheepSend + 1) * p.d <= room * p.d
    BY <2>2, <2>3, ProductOrder
  <2>5. (r.numSheepSend + 1) * p.d = r.numSheepSend * p.d + p.d
    <3>1. \A a \in Nat, b \in Nat : (a + 1) * b = a * b + b
      OBVIOUS
    <3> QED BY <2>2, <3>1
  <2>6. x * p.n \in Nat /\ room * p.d \in Nat /\ r.numSheepSend * p.d \in Nat
    BY <2>2, ProductType
  <2> QED BY <1>1, <2>1, <2>2, <2>4, <2>5, <2>6
<1>4. r.numSheepSend <= room
  BY DEF r
<1>5. Taken(p, x, room) = r
  BY <1>1, <1>2, <1>3, <1>4, TakenAlike
<1>6. LET q == Taken(p, x, room)
      IN  adjustOffer(p, x, room)
              = IF q.numWheatReceived # 0 /\ q.numSheepSend # 0 /\ Bounded(p, q)
                THEN q ELSE NothingOf(q)
  BY <1>2, AdjustedIs, Zenon DEF Bounded
<1> QED BY <1>1, <1>2, <1>5, <1>6, Zenon DEF r

\* The exception is real: adjustOffer takes one off an offer of ten at a price of
\* 10/9, which promises eleven, when there is room for eleven.
THEOREM AdjustMayHaveAnEffect ==
    ASSUME INT64_MAX > 11, NEW p, p = [n |-> 10, d |-> 9]
    PROVE  /\ p \in Price /\ WellAdjusted(p, 10)
           /\ OfferLiabilities(p, 10).numSheepSend = 11
           /\ adjustOffer(p, 10, 11).numWheatReceived = 9
<1>1. p \in Price /\ p.n = 10 /\ p.d = 9 /\ p.n > p.d
  BY DEF Price
<1>2. /\ 10 \in 0..INT64_MAX /\ 10 \in 1..INT64_MAX /\ 11 \in 0..INT64_MAX
      /\ INT64_MAX \in 0..INT64_MAX /\ INT64_MAX \in Nat
  BY Int64Assumption
<1> DEFINE r == Taken(p, 10, INT64_MAX)
           q == Taken(p, 10, 11)
           v == calculateOfferValue(10, 9, 10, INT64_MAX)
           u == calculateOfferValue(10, 9, 10, 11)
<1>3. v = 100 /\ u = 99
  <2>1. v \in {100, INT64_MAX * 9} /\ v <= 100 /\ v <= INT64_MAX * 9
    <3>1. v = IF 10 * 10 <= INT64_MAX * 9 THEN 10 * 10 ELSE INT64_MAX * 9
      <4>1. INT64_MAX * 9 \in Nat /\ 10 * 10 \in Nat
        BY <1>2
      <4> QED BY <4>1, MinOfTwo DEF calculateOfferValue
    <3> QED BY <1>2, <3>1
  <2>2. u \in {100, 99} /\ u <= 100 /\ u <= 99
    BY OfferValue
  <2> HIDE DEF v, u
  <2> QED BY <1>2, <2>1, <2>2
<1>4. r \in Exchanged /\ RoundedOut(p, v, r.numWheatReceived, r.numSheepSend)
  BY <1>1, <1>2, TakenIs
<1>5. q \in Exchanged /\ RoundedOut(p, u, q.numWheatReceived, q.numSheepSend)
  BY <1>1, <1>2, TakenIs
<1> HIDE DEF r, q, v, u
<1>6. r.numWheatReceived = 10 /\ r.numSheepSend = 11
  <2>1. r.numWheatReceived = 100 \div 10 /\ r.numSheepSend = (r.numWheatReceived * 10) \div 9
    BY <1>1, <1>3, <1>4 DEF RoundedOut, divDown
  <2>2. 100 \div 10 = 10 /\ 100 \div 9 = 11 /\ 10 * 10 = 100
    OBVIOUS
  <2> QED BY <2>1, <2>2
<1>7. q.numWheatReceived = 9 /\ q.numSheepSend = 10
  <2>1. q.numWheatReceived = 99 \div 10 /\ q.numSheepSend = (q.numWheatReceived * 10) \div 9
    BY <1>1, <1>3, <1>5 DEF RoundedOut, divDown
  <2>2. 99 \div 10 = 9 /\ 90 \div 9 = 10 /\ 9 * 10 = 90
    OBVIOUS
  <2> QED BY <2>1, <2>2
<1>8. checkPriceErrorBound(p, 10, 11, FALSE) /\ checkPriceErrorBound(p, 9, 10, FALSE)
  BY <1>1 DEF checkPriceErrorBound
<1>9. adjustOffer(p, 10, INT64_MAX) = r
  <2>1. adjustOffer(p, 10, INT64_MAX)
            = IF r.numWheatReceived # 0 /\ r.numSheepSend # 0
                 /\ checkPriceErrorBound(p, r.numWheatReceived, r.numSheepSend, FALSE)
              THEN r ELSE NothingOf(r)
    BY <1>1, <1>2, AdjustedIs, Zenon DEF r
  <2>2. r.numWheatReceived # 0 /\ r.numSheepSend # 0
    BY <1>6
  <2> QED BY <1>6, <1>8, <2>1, <2>2, Zenon
<1>10. adjustOffer(p, 10, 11) = q
  <2>1. adjustOffer(p, 10, 11)
            = IF q.numWheatReceived # 0 /\ q.numSheepSend # 0
                 /\ checkPriceErrorBound(p, q.numWheatReceived, q.numSheepSend, FALSE)
              THEN q ELSE NothingOf(q)
    BY <1>1, <1>2, AdjustedIs, Zenon DEF q
  <2>2. q.numWheatReceived # 0 /\ q.numSheepSend # 0
    BY <1>7
  <2> QED BY <1>7, <1>8, <2>1, <2>2, Zenon
<1>11. WellAdjusted(p, 10)
  BY <1>2, <1>6, <1>9 DEF WellAdjusted
<1>12. OfferLiabilities(p, 10).numSheepSend = 11
  BY <1>6, LiabilitiesAreTaken, Zenon DEF r
<1> QED BY <1>1, <1>7, <1>10, <1>11, <1>12

-----------------------------------------------------------------------------
(* Fields of ledgers. *)

SameHeader(L, M) ==
    /\ M.ledgerSeq = L.ledgerSeq /\ M.idPool = L.idPool /\ M.feePool = L.feePool
    /\ M.totalCoins = L.totalCoins /\ M.inflationSeq = L.inflationSeq
    /\ M.baseReserve = L.baseReserve

LEMMA FieldAcc ==
    ASSUME NEW L, LedgerFields(L), NEW x, NEW M, M = [L EXCEPT !.acc = x]
    PROVE  /\ LedgerFields(M) /\ SameHeader(L, M)
           /\ M.acc = x /\ M.tl = L.tl /\ M.offers = L.offers /\ M.data = L.data /\ M.err = L.err
BY DEF LedgerFields, SameHeader

LEMMA FieldAccAt ==
    ASSUME NEW L, LedgerFields(L), NEW a, NEW h
    PROVE  [L EXCEPT !.acc[a] = h] = [L EXCEPT !.acc = [L.acc EXCEPT ![a] = h]]
BY DEF LedgerFields

LEMMA FieldTl ==
    ASSUME NEW L, LedgerFields(L), NEW x, NEW M, M = [L EXCEPT !.tl = x]
    PROVE  /\ LedgerFields(M) /\ SameHeader(L, M)
           /\ M.acc = L.acc /\ M.tl = x /\ M.offers = L.offers /\ M.data = L.data /\ M.err = L.err
BY DEF LedgerFields, SameHeader

LEMMA FieldTlAt ==
    ASSUME NEW L, LedgerFields(L), NEW l, NEW h
    PROVE  [L EXCEPT !.tl[l] = h] = [L EXCEPT !.tl = [L.tl EXCEPT ![l] = h]]
BY DEF LedgerFields

LEMMA FieldOffers ==
    ASSUME NEW L, LedgerFields(L), NEW x, NEW M, M = [L EXCEPT !.offers = x]
    PROVE  /\ LedgerFields(M) /\ SameHeader(L, M)
           /\ M.acc = L.acc /\ M.tl = L.tl /\ M.offers = x /\ M.data = L.data /\ M.err = L.err
BY DEF LedgerFields, SameHeader

LEMMA FieldData ==
    ASSUME NEW L, LedgerFields(L), NEW x, NEW M, M = [L EXCEPT !.data = x]
    PROVE  /\ LedgerFields(M) /\ SameHeader(L, M)
           /\ M.acc = L.acc /\ M.tl = L.tl /\ M.offers = L.offers /\ M.data = x /\ M.err = L.err
BY DEF LedgerFields, SameHeader

LEMMA FieldErr ==
    ASSUME NEW L, LedgerFields(L), NEW x, NEW M, M = [L EXCEPT !.err = x]
    PROVE  /\ LedgerFields(M) /\ SameHeader(L, M)
           /\ M.acc = L.acc /\ M.tl = L.tl /\ M.offers = L.offers /\ M.data = L.data /\ M.err = x
BY DEF LedgerFields, SameHeader

-----------------------------------------------------------------------------
(* Steps that change balances and liabilities only. *)

SameOwner(g, h) ==
    /\ h.seqNum = g.seqNum /\ h.numSubEntries = g.numSubEntries /\ h.signers = g.signers
    /\ h.flags = g.flags /\ h.inflationDest = g.inflationDest

\* No runtime_error was thrown; what can be the text of one.
Fine(L) == L.err = ""
Named(what) == what # ""

\* M is L with other balances and liabilities, and d lumens more.
Moved(L, M, d) ==
    /\ IsLedger(M) /\ SameHeader(L, M)
    /\ DOMAIN M.acc = DOMAIN L.acc /\ DOMAIN M.tl = DOMAIN L.tl
    /\ M.offers = L.offers /\ M.data = L.data
    /\ \A a \in DOMAIN L.acc : SameOwner(L.acc[a], M.acc[a])
    /\ Fine(M) => Fine(L)
    /\ Lumens(M) = Lumens(L) + d

Balances(f) == [a \in DOMAIN f |-> f[a].balance]

LEMMA LumensAre ==
    ASSUME NEW L
    PROVE  Lumens(L) = SumFunctionOnSet(Balances(L.acc), DOMAIN L.acc)
BY DEF Lumens, Balances, SumFunction

LEMMA AccountFields ==
    ASSUME NEW h, IsAccount(h)
    PROVE  /\ h.balance \in Nat /\ h.seqNum \in Nat /\ h.numSubEntries \in Nat
           /\ h.buying \in Nat /\ h.selling \in Nat
           /\ h.selling <= h.balance /\ h.balance + h.buying <= INT64_MAX
BY DEF IsAccount

LEMMA LumensType ==
    ASSUME NEW L, AreAccounts(L.acc)
    PROVE  Lumens(L) \in Nat
<1>1. \A a \in DOMAIN L.acc : Balances(L.acc)[a] \in Nat
  BY AccountFields DEF AreAccounts, Balances
<1>2. \A a \in DOMAIN L.acc : Balances(L.acc)[a] \in Int /\ Balances(L.acc)[a] >= 0
  BY <1>1
<1>3. SumFunctionOnSet(Balances(L.acc), DOMAIN L.acc) \in Int
      /\ SumFunctionOnSet(Balances(L.acc), DOMAIN L.acc) >= 0
  BY <1>2, SumType DEF AreAccounts
<1> QED BY <1>3, LumensAre

LEMMA MovedNot ==
    ASSUME NEW L, IsLedger(L)
    PROVE  Moved(L, L, 0)
<1>1. Lumens(L) = Lumens(L) + 0
  BY LumensType DEF IsLedger
<1> QED BY <1>1 DEF Moved, SameHeader, SameOwner

LEMMA MovedOn ==
    ASSUME NEW L, NEW M, NEW N, NEW d \in Int, NEW e \in Int, IsLedger(L),
           Moved(L, M, d), Moved(M, N, e)
    PROVE  Moved(L, N, d + e)
<1>1. SameHeader(L, N)
  BY DEF Moved, SameHeader
<1>2. \A a \in DOMAIN L.acc : SameOwner(L.acc[a], N.acc[a])
  BY DEF Moved, SameOwner
<1>3. Lumens(N) = Lumens(L) + (d + e)
  <2>1. Lumens(L) \in Int
    BY LumensType DEF IsLedger
  <2>2. Lumens(M) = Lumens(L) + d /\ Lumens(N) = Lumens(M) + e
    BY DEF Moved
  <2> QED BY <2>1, <2>2
<1> QED BY <1>1, <1>2, <1>3 DEF Moved

\* M is L with f for its accounts.
WithAccounts(L, M, f) ==
    /\ IsLedger(M) /\ SameHeader(L, M) /\ M.acc = f
    /\ M.tl = L.tl /\ M.offers = L.offers /\ M.data = L.data
    /\ Fine(M) <=> Fine(L)

LEMMA PutAccounts ==
    ASSUME NEW L, IsLedger(L), NEW f, AreAccounts(f)
    PROVE  WithAccounts(L, [L EXCEPT !.acc = f], f)
<1> DEFINE M == [L EXCEPT !.acc = f]
<1>1. /\ LedgerFields(M) /\ SameHeader(L, M)
      /\ M.acc = f /\ M.tl = L.tl /\ M.offers = L.offers /\ M.data = L.data /\ M.err = L.err
  BY FieldAcc DEF IsLedger
<1> HIDE DEF M
<1>2. Fine(M) <=> Fine(L)
  BY <1>1, Zenon DEF Fine
<1>3. IsHeader(M)
  BY <1>1 DEF IsHeader, SameHeader, IsLedger
<1>4. IsLedger(M)
  BY <1>1, <1>3 DEF IsLedger
<1>5. WithAccounts(L, M, f)
  BY <1>1, <1>2, <1>4 DEF WithAccounts
<1> QED BY <1>5 DEF M

\* One account changes.
LEMMA PutAccount ==
    ASSUME NEW L, IsLedger(L), NEW a \in DOMAIN L.acc, NEW h, IsAccount(h), NEW M,
           M = [L EXCEPT !.acc[a] = h]
    PROVE  /\ WithAccounts(L, M, [L.acc EXCEPT ![a] = h])
           /\ DOMAIN M.acc = DOMAIN L.acc /\ M.acc[a] = h
           /\ \A b \in DOMAIN L.acc : b # a => M.acc[b] = L.acc[b]
           /\ Lumens(M) = Lumens(L) + (h.balance - L.acc[a].balance)
<1> DEFINE f == [L.acc EXCEPT ![a] = h]
<1>1. M = [L EXCEPT !.acc = f]
  BY FieldAccAt DEF IsLedger
<1>2. AreAccounts(f) /\ DOMAIN f = DOMAIN L.acc
  BY DEF IsLedger, AreAccounts
<1>3. WithAccounts(L, M, f)
  BY <1>1, <1>2, PutAccounts
<1>4. M.acc = f
  BY <1>3 DEF WithAccounts
<1>5. f[a] = h /\ \A b \in DOMAIN L.acc : b # a => f[b] = L.acc[b]
  BY DEF IsLedger, AreAccounts
<1>8. Lumens(M) = Lumens(L) + (h.balance - L.acc[a].balance)
  <2> DEFINE u == Balances(L.acc)
             v == Balances(f)
  <2>1. \A b \in DOMAIN L.acc : u[b] = L.acc[b].balance /\ v[b] = f[b].balance
    BY <1>2 DEF Balances
  <2>2. \A b \in DOMAIN L.acc : L.acc[b].balance \in Int /\ f[b].balance \in Int
    BY <1>2, AccountFields DEF IsLedger, AreAccounts
  <2>5. Lumens(L) = SumFunctionOnSet(u, DOMAIN L.acc) /\ Lumens(M) = SumFunctionOnSet(v, DOMAIN L.acc)
    BY <1>2, <1>4, LumensAre
  <2>6. IsFiniteSet(DOMAIN L.acc)
    BY DEF IsLedger, AreAccounts
  <2>9. Lumens(L) \in Int /\ h.balance \in Int /\ L.acc[a].balance \in Int
    BY <2>2, <1>5, LumensType DEF IsLedger
  <2> HIDE DEF u, v, f
  <2>7. \A b \in DOMAIN L.acc : u[b] \in Int /\ v[b] \in Int /\ (b # a => v[b] = u[b])
    BY <2>1, <2>2, <1>5
  <2>8. SumFunctionOnSet(v, DOMAIN L.acc) = SumFunctionOnSet(u, DOMAIN L.acc) + v[a] - u[a]
    BY <2>6, <2>7, SumUpdate
  <2> QED BY <2>1, <1>5, <2>5, <2>8, <2>9
<1> HIDE DEF f
<1>9. DOMAIN M.acc = DOMAIN L.acc /\ M.acc[a] = h
      /\ \A b \in DOMAIN L.acc : b # a => M.acc[b] = L.acc[b]
  BY <1>2, <1>4, <1>5
<1> QED BY <1>3, <1>8, <1>9 DEF f

LEMMA SetAccount ==
    ASSUME NEW L, IsLedger(L), NEW a \in DOMAIN L.acc, NEW h, IsAccount(h),
           SameOwner(L.acc[a], h)
    PROVE  Moved(L, [L EXCEPT !.acc[a] = h], h.balance - L.acc[a].balance)
<1> DEFINE M == [L EXCEPT !.acc[a] = h]
<1>1. /\ WithAccounts(L, M, [L.acc EXCEPT ![a] = h])
      /\ DOMAIN M.acc = DOMAIN L.acc /\ M.acc[a] = h
      /\ \A b \in DOMAIN L.acc : b # a => M.acc[b] = L.acc[b]
      /\ Lumens(M) = Lumens(L) + (h.balance - L.acc[a].balance)
  BY PutAccount
<1> HIDE DEF M
<1>2. \A b \in DOMAIN L.acc : SameOwner(L.acc[b], M.acc[b])
  BY <1>1 DEF SameOwner
<1>3. Moved(L, M, h.balance - L.acc[a].balance)
  BY <1>1, <1>2 DEF Moved, WithAccounts
<1> QED BY <1>3 DEF M

LEMMA SetNoAccount ==
    ASSUME NEW L, IsLedger(L), NEW a, a \notin DOMAIN L.acc, NEW h
    PROVE  [L EXCEPT !.acc[a] = h] = L
<1>1. LedgerFields(L) /\ L.acc = [x \in DOMAIN L.acc |-> L.acc[x]]
  BY DEF IsLedger, AreAccounts
<1>2. [L.acc EXCEPT ![a] = h] = L.acc
  BY <1>1
<1>3. [L EXCEPT !.acc = L.acc] = L
  BY <1>1 DEF LedgerFields
<1> QED BY <1>1, <1>2, <1>3, FieldAccAt

LEMMA SetLine ==
    ASSUME NEW L, IsLedger(L), NEW l \in DOMAIN L.tl, NEW h, IsLine(h)
    PROVE  Moved(L, [L EXCEPT !.tl[l] = h], 0)
<1> DEFINE f == [L.tl EXCEPT ![l] = h]
           M == [L EXCEPT !.tl = f]
<1>1. LedgerFields(L)
  BY DEF IsLedger
<1>2. [L EXCEPT !.tl[l] = h] = M
  BY <1>1, FieldTlAt
<1>3. /\ LedgerFields(M) /\ SameHeader(L, M)
      /\ M.acc = L.acc /\ M.tl = f /\ M.offers = L.offers /\ M.data = L.data /\ M.err = L.err
  BY <1>1, FieldTl
<1> HIDE DEF M
<1>4. AreLines(f) /\ DOMAIN f = DOMAIN L.tl
  BY DEF IsLedger, AreLines
<1>10. Fine(M) <=> Fine(L)
  BY <1>3, Zenon DEF Fine
<1>5. \A b \in DOMAIN L.acc : SameOwner(L.acc[b], M.acc[b])
  BY <1>3 DEF SameOwner
<1>6. IsHeader(M)
  BY <1>3 DEF IsHeader, SameHeader, IsLedger
<1> HIDE DEF f
<1>7. IsLedger(M)
  BY <1>3, <1>4, <1>6 DEF IsLedger
<1>8. Lumens(M) = Lumens(L) + 0
  <2>1. Lumens(M) = Lumens(L)
    BY <1>3 DEF Lumens
  <2> QED BY <2>1, LumensType DEF IsLedger
<1>9. Moved(L, M, 0)
  BY <1>3, <1>4, <1>5, <1>7, <1>8, <1>10 DEF Moved
<1> QED BY <1>2, <1>9

LEMMA SetNoLine ==
    ASSUME NEW L, IsLedger(L), NEW l, l \notin DOMAIN L.tl, NEW h
    PROVE  [L EXCEPT !.tl[l] = h] = L
<1>1. LedgerFields(L) /\ L.tl = [x \in DOMAIN L.tl |-> L.tl[x]]
  BY DEF IsLedger, AreLines
<1>2. [L.tl EXCEPT ![l] = h] = L.tl
  BY <1>1
<1>3. [L EXCEPT !.tl = L.tl] = L
  BY <1>1 DEF LedgerFields
<1> QED BY <1>1, <1>2, <1>3, FieldTlAt

LEMMA MovedThrow ==
    ASSUME NEW L, IsLedger(L), NEW what
    PROVE  /\ Moved(L, throw(L, what), 0)
           /\ Fine(throw(L, what)) <=> Fine(L) /\ ~Named(what)
<1>1. CASE ~Fine(L)
  <2>1. throw(L, what) = L
    BY <1>1, Zenon DEF throw, Fine
  <2> QED BY <1>1, <2>1, MovedNot
<1>2. CASE Fine(L)
  <2> DEFINE M == [L EXCEPT !.err = what]
  <2>1. throw(L, what) = M
    BY <1>2, Zenon DEF throw, Fine
  <2>2. /\ LedgerFields(M) /\ SameHeader(L, M) /\ M.acc = L.acc /\ M.tl = L.tl
        /\ M.offers = L.offers /\ M.data = L.data /\ M.err = what
    BY FieldErr DEF IsLedger
  <2> HIDE DEF M
  <2>3. IsLedger(M)
    BY <2>2 DEF IsLedger, IsHeader, SameHeader
  <2>4. Lumens(M) = Lumens(L) + 0
    <3>1. Lumens(M) = Lumens(L)
      BY <2>2 DEF Lumens
    <3> QED BY <3>1, LumensType DEF IsLedger
  <2>5. Moved(L, M, 0)
    BY <1>2, <2>2, <2>3, <2>4 DEF Moved, SameOwner
  <2>6. Fine(M) <=> ~Named(what)
    BY <2>2, Zenon DEF Fine, Named
  <2> QED BY <1>2, <2>1, <2>5, <2>6
<1> QED BY <1>1, <1>2

-----------------------------------------------------------------------------
(* Balances and liabilities of one account or line. *)

\* x as an amount of lumens.
OfNative(asset, x) == IF asset = Native THEN x ELSE 0

LEMMA OfNativeType ==
    ASSUME NEW asset, NEW x \in Int
    PROVE  OfNative(asset, x) \in Int
<1>1. CASE asset = Native
  BY <1>1 DEF OfNative
<1>2. CASE asset # Native
  BY <1>2 DEF OfNative
<1> QED BY <1>1, <1>2

Rebalanced(h, balance, buying, selling) ==
    [h EXCEPT !.balance = balance, !.buying = buying, !.selling = selling]

LEMMA AccountUpdate ==
    ASSUME NEW h, IsAccount(h), NEW balance \in Nat, NEW buying \in Nat, NEW selling \in Nat,
           selling <= balance, balance + buying <= INT64_MAX, NEW k,
           k = Rebalanced(h, balance, buying, selling)
    PROVE  IsAccount(k) /\ SameOwner(h, k) /\ k.balance = balance
BY DEF IsAccount, SameOwner, Rebalanced

LEMMA LineFields ==
    ASSUME NEW h, IsLine(h)
    PROVE  /\ h.balance \in Nat /\ h.limit \in Nat /\ h.buying \in Nat /\ h.selling \in Nat
           /\ h.authorized \in BOOLEAN /\ h.limit <= INT64_MAX
           /\ h.selling <= h.balance /\ h.balance + h.buying <= h.limit
BY DEF IsLine

LEMMA LineUpdate ==
    ASSUME NEW h, IsLine(h), NEW balance \in Nat, NEW buying \in Nat, NEW selling \in Nat,
           selling <= balance, balance + buying <= h.limit, NEW k,
           k = Rebalanced(h, balance, buying, selling)
    PROVE  IsLine(k)
BY DEF IsLine, Rebalanced

\* The forms in which one of the three is set.
LEMMA SetOne ==
    ASSUME NEW h, IsAccount(h) \/ IsLine(h), NEW x
    PROVE  /\ [h EXCEPT !.balance = x] = Rebalanced(h, x, h.buying, h.selling)
           /\ [h EXCEPT !.buying = x] = Rebalanced(h, h.balance, x, h.selling)
           /\ [h EXCEPT !.selling = x] = Rebalanced(h, h.balance, h.buying, x)
<1>1. CASE IsAccount(h)
  BY <1>1 DEF IsAccount, Rebalanced
<1>2. CASE IsLine(h)
  BY <1>2 DEF IsLine, Rebalanced
<1> QED BY <1>1, <1>2

\* An account or a line that exists gets another balance or other liabilities that fit.
LEMMA SetHoldingMoves ==
    ASSUME NEW L, IsLedger(L), NEW a, NEW asset, NEW h, h = Holding(L, a, asset),
           NEW balance, NEW buying, NEW selling, NEW k,
           k = Rebalanced(h, balance, buying, selling),
           IF asset = Native THEN a \in DOMAIN L.acc ELSE <<a, asset>> \in DOMAIN L.tl,
           balance \in Nat, buying \in Nat, selling \in Nat, selling <= balance,
           balance + buying <= IF asset = Native THEN INT64_MAX ELSE h.limit
    PROVE  Moved(L, SetHolding(L, a, asset, k), OfNative(asset, balance - h.balance))
<1>1. CASE asset = Native
  <2>1. h = L.acc[a] /\ SetHolding(L, a, asset, k) = [L EXCEPT !.acc[a] = k]
    BY <1>1 DEF Holding, SetHolding
  <2>2. IsAccount(h)
    BY <1>1, <2>1 DEF IsLedger, AreAccounts
  <2>5. balance + buying <= INT64_MAX
    BY <1>1
  <2>3. IsAccount(k) /\ SameOwner(h, k) /\ k.balance = balance
    BY <2>2, <2>5, AccountUpdate
  <2>4. Moved(L, [L EXCEPT !.acc[a] = k], k.balance - L.acc[a].balance)
    BY <1>1, <2>1, <2>3, SetAccount
  <2> QED BY <1>1, <2>1, <2>3, <2>4 DEF OfNative
<1>2. CASE asset # Native
  <2>1. h = L.tl[<<a, asset>>] /\ SetHolding(L, a, asset, k) = [L EXCEPT !.tl[<<a, asset>>] = k]
    BY <1>2 DEF Holding, SetHolding
  <2>2. IsLine(h)
    BY <1>2, <2>1 DEF IsLedger, AreLines
  <2>3. IsLine(k)
    BY <1>2, <2>2, LineUpdate
  <2>4. Moved(L, [L EXCEPT !.tl[<<a, asset>>] = k], 0)
    BY <1>2, <2>3, SetLine
  <2> QED BY <1>2, <2>1, <2>4 DEF OfNative
<1> QED BY <1>1, <1>2

\* One that does not exist stays away.
LEMMA SetHoldingOfNobody ==
    ASSUME NEW L, IsLedger(L), NEW a, NEW asset, NEW k,
           ~ IF asset = Native THEN a \in DOMAIN L.acc ELSE <<a, asset>> \in DOMAIN L.tl
    PROVE  SetHolding(L, a, asset, k) = L
<1>1. CASE asset = Native
  BY <1>1, SetNoAccount DEF SetHolding
<1>2. CASE asset # Native
  BY <1>2, SetNoLine DEF SetHolding
<1> QED BY <1>1, <1>2

LEMMA MinBalanceType ==
    ASSUME NEW L, IsLedger(L), NEW n \in Nat
    PROVE  getMinBalance(L, n) \in Nat
<1>1. L.baseReserve \in Nat /\ 2 + n \in Nat
  BY DEF IsLedger, IsHeader
<1> QED BY <1>1, ProductType DEF getMinBalance

LEMMA AddedIs ==
    ASSUME NEW balance \in Int, NEW delta \in Int, NEW maxBalance \in Int,
           Added(balance, delta, maxBalance) >= 0
    PROVE  /\ Added(balance, delta, maxBalance) = balance + delta
           /\ balance + delta >= 0 /\ balance + delta <= maxBalance
BY DEF Added

Exists(L, a, asset) == IF asset = Native THEN a \in DOMAIN L.acc ELSE <<a, asset>> \in DOMAIN L.tl

LEMMA HoldingFields ==
    ASSUME NEW L, IsLedger(L), NEW a, NEW asset, Exists(L, a, asset), NEW h, h = Holding(L, a, asset)
    PROVE  /\ h.balance \in Nat /\ h.buying \in Nat /\ h.selling \in Nat
           /\ IsAccount(h) \/ IsLine(h)
           /\ h.selling <= h.balance
           /\ h.balance + h.buying <= IF asset = Native THEN INT64_MAX ELSE h.limit
           /\ asset = Native => h.numSubEntries \in Nat /\ h = L.acc[a]
           /\ asset # Native => h.limit \in Nat /\ h.authorized \in BOOLEAN
<1>1. CASE asset = Native
  BY <1>1, AccountFields DEF Exists, Holding, IsLedger, AreAccounts
<1>2. CASE asset # Native
  BY <1>2, LineFields DEF Exists, Holding, IsLedger, AreLines
<1> QED BY <1>1, <1>2

\* addBalance of an account or a line that exists: it fails and changes nothing, or
\* that many lumens more are in the ledger.
LEMMA AddBalance ==
    ASSUME NEW L, IsLedger(L), NEW a, NEW asset, asset = Native => a \in DOMAIN L.acc,
           NEW delta \in Int, NEW r, r = addBalance(L, a, asset, delta)
    PROVE  /\ r.ok \in BOOLEAN
           /\ ~r.ok => r.L = L
           /\ Moved(L, r.L, IF r.ok THEN OfNative(asset, delta) ELSE 0)
<1> DEFINE h == Holding(L, a, asset)
           limit == IF asset = Native THEN INT64_MAX ELSE h.limit
           new == Added(h.balance, delta, limit)
           k == [h EXCEPT !.balance = new]
           ok == /\ new >= 0
                 /\ asset # Native => h.authorized /\ new >= h.selling
                 /\ asset = Native /\ delta < 0 =>
                        new - getMinBalance(L, h.numSubEntries) >= h.selling
                 /\ new <= limit - h.buying
<1>1. r = IF isIssuer(a, asset) \/ delta = 0 THEN Result(TRUE, L)
          ELSE IF ok THEN Result(TRUE, SetHolding(L, a, asset, k)) ELSE Result(FALSE, L)
  BY DEF addBalance
<1> HIDE DEF ok
<1>2. CASE isIssuer(a, asset) \/ delta = 0
  <2>1. r.ok = TRUE /\ r.L = L
    BY <1>1, <1>2 DEF Result
  <2>2. OfNative(asset, delta) = 0
    BY <1>2 DEF OfNative, isIssuer
  <2> QED BY <2>1, <2>2, MovedNot
<1>3. CASE ~ (isIssuer(a, asset) \/ delta = 0) /\ ~ok
  <2>1. r.ok = FALSE /\ r.L = L
    BY <1>1, <1>3 DEF Result
  <2> QED BY <2>1, MovedNot
<1>4. CASE ~ (isIssuer(a, asset) \/ delta = 0) /\ ok
  <2>1. r.ok = TRUE /\ r.L = SetHolding(L, a, asset, k)
    BY <1>1, <1>4 DEF Result
  <2>2. CASE ~Exists(L, a, asset)
    <3>1. r.L = L /\ asset # Native
      BY <2>1, <2>2, SetHoldingOfNobody DEF Exists
    <3> QED BY <2>1, <3>1, MovedNot DEF OfNative
  <2>3. CASE Exists(L, a, asset)
    <3>1. /\ h.balance \in Nat /\ h.buying \in Nat /\ h.selling \in Nat
          /\ IsAccount(h) \/ IsLine(h)
          /\ h.selling <= h.balance
          /\ h.balance + h.buying <= limit
          /\ asset = Native => h.numSubEntries \in Nat
          /\ asset # Native => h.limit \in Nat
      BY <2>3, HoldingFields, Zenon
    <3>2. limit \in Int
      BY <3>1, Int64Assumption
    <3>3. asset = Native => getMinBalance(L, h.numSubEntries) \in Nat
      BY <3>1, MinBalanceType
    <3> DEFINE min == getMinBalance(L, h.numSubEntries)
    <3>4. /\ new >= 0 /\ (asset # Native => new >= h.selling) /\ new <= limit - h.buying
          /\ asset = Native /\ delta < 0 => new - min >= h.selling
      BY <1>4 DEF ok
    <3>5. new = h.balance + delta
      BY <3>1, <3>2, <3>4, AddedIs
    <3>9. k = Rebalanced(h, new, h.buying, h.selling)
      BY <3>1, SetOne
    <3> HIDE DEF new, limit, h, min, k
    <3>6. new \in Nat /\ new + h.buying <= limit
      BY <3>1, <3>2, <3>4, <3>5
    <3>7. h.selling <= new
      <4>1. CASE asset = Native /\ delta < 0
        BY <3>1, <3>3, <3>4, <3>6, <4>1 DEF min
      <4>2. CASE asset = Native /\ ~ (delta < 0)
        BY <3>1, <3>5, <4>2
      <4>3. CASE asset # Native
        BY <3>1, <3>4, <3>6, <4>3
      <4> QED BY <4>1, <4>2, <4>3
    <3>8. Moved(L, SetHolding(L, a, asset, k), OfNative(asset, new - h.balance))
      BY <2>3, <3>1, <3>6, <3>7, <3>9, SetHoldingMoves DEF h, limit, Exists
    <3>10. new - h.balance = delta
      BY <3>1, <3>5
    <3> QED BY <2>1, <3>8, <3>10
  <2> QED BY <2>2, <2>3
<1> QED BY <1>2, <1>3, <1>4

LEMMA MustAddBalance ==
    ASSUME NEW L, IsLedger(L), NEW a, NEW asset, asset = Native => a \in DOMAIN L.acc,
           NEW delta \in Int, NEW what, Named(what), NEW M,
           M = mustAddBalance(L, a, asset, delta, what)
    PROVE  /\ Fine(M) => Moved(L, M, OfNative(asset, delta))
           /\ \E d \in Int : Moved(L, M, d)
<1> DEFINE r == addBalance(L, a, asset, delta)
<1>1. M = IF r.ok THEN r.L ELSE throw(L, what)
  BY DEF mustAddBalance
<1>2. r.ok \in BOOLEAN /\ Moved(L, r.L, IF r.ok THEN OfNative(asset, delta) ELSE 0)
  BY AddBalance
<1>3. OfNative(asset, delta) \in Int
  BY OfNativeType
<1> HIDE DEF r
<1>4. CASE r.ok
  BY <1>1, <1>2, <1>3, <1>4
<1>5. CASE ~r.ok
  <2>1. M = throw(L, what)
    BY <1>1, <1>5
  <2>2. Moved(L, M, 0) /\ ~Fine(M)
    BY <2>1, MovedThrow
  <2>3. 0 \in Int
    OBVIOUS
  <2> QED BY <2>2, <2>3
<1> QED BY <1>2, <1>4, <1>5

\* The liabilities of a holding change within its limits, or nothing does.
LEMMA AddBuyingLiabilities ==
    ASSUME NEW L, IsLedger(L), NEW a, NEW asset, NEW delta,
           Exists(L, a, asset) => delta \in Int,
           NEW r, r = addBuyingLiabilities(L, a, asset, delta)
    PROVE  Moved(L, r.L, 0)
<1> DEFINE h == Holding(L, a, asset)
           limit == IF asset = Native THEN INT64_MAX ELSE h.limit
           new == Added(h.buying, delta, limit - h.balance)
           k == [h EXCEPT !.buying = new]
<1>1. \/ r.L = L
      \/ new >= 0 /\ r.L = SetHolding(L, a, asset, k)
  BY DEF addBuyingLiabilities, Result
<1>2. CASE r.L = L
  BY <1>2, MovedNot
<1>3. CASE ~Exists(L, a, asset)
  <2>1. SetHolding(L, a, asset, k) = L
    BY <1>3, SetHoldingOfNobody DEF Exists
  <2> HIDE DEF k, new
  <2> QED BY <1>1, <2>1, MovedNot
<1>4. CASE Exists(L, a, asset) /\ new >= 0 /\ r.L = SetHolding(L, a, asset, k)
  <2>1. /\ h.balance \in Nat /\ h.buying \in Nat /\ h.selling \in Nat
        /\ IsAccount(h) \/ IsLine(h)
        /\ h.selling <= h.balance
        /\ h.balance + h.buying <= limit
        /\ asset # Native => h.limit \in Nat
    BY <1>4, HoldingFields, Zenon
  <2>2. limit \in Int
    BY <2>1, Int64Assumption
  <2>3. k = Rebalanced(h, h.balance, new, h.selling)
    BY <2>1, SetOne
  <2> HIDE DEF h, limit, k
  <2>4. limit - h.balance \in Int /\ delta \in Int /\ h.buying \in Int
    BY <1>4, <2>1, <2>2
  <2>5. new = h.buying + delta /\ new <= limit - h.balance
    BY <1>4, <2>4, AddedIs
  <2> HIDE DEF new
  <2>6. new \in Nat /\ h.balance + new <= limit
    BY <1>4, <2>1, <2>2, <2>4, <2>5
  <2>7. Moved(L, SetHolding(L, a, asset, k), OfNative(asset, h.balance - h.balance))
    BY <1>4, <2>1, <2>3, <2>6, SetHoldingMoves DEF h, limit, Exists
  <2>8. OfNative(asset, h.balance - h.balance) = 0
    BY <2>1 DEF OfNative
  <2> QED BY <1>4, <2>7, <2>8
<1> QED BY <1>1, <1>2, <1>3, <1>4

LEMMA AddSellingLiabilities ==
    ASSUME NEW L, IsLedger(L), NEW a, NEW asset, NEW delta,
           Exists(L, a, asset) => delta \in Int,
           NEW r, r = addSellingLiabilities(L, a, asset, delta)
    PROVE  Moved(L, r.L, 0)
<1> DEFINE h == Holding(L, a, asset)
           min == getMinBalance(L, h.numSubEntries)
           limit == IF asset = Native THEN h.balance - min ELSE h.balance
           new == Added(h.selling, delta, limit)
           k == [h EXCEPT !.selling = new]
<1>1. \/ r.L = L
      \/ new >= 0 /\ r.L = SetHolding(L, a, asset, k)
  BY DEF addSellingLiabilities, Result
<1>2. CASE r.L = L
  BY <1>2, MovedNot
<1>3. CASE ~Exists(L, a, asset)
  <2>1. SetHolding(L, a, asset, k) = L
    BY <1>3, SetHoldingOfNobody DEF Exists
  <2> HIDE DEF k, new
  <2> QED BY <1>1, <2>1, MovedNot
<1>4. CASE Exists(L, a, asset) /\ new >= 0 /\ r.L = SetHolding(L, a, asset, k)
  <2>1. /\ h.balance \in Nat /\ h.buying \in Nat /\ h.selling \in Nat
        /\ IsAccount(h) \/ IsLine(h)
        /\ h.selling <= h.balance
        /\ h.balance + h.buying <= IF asset = Native THEN INT64_MAX ELSE h.limit
        /\ asset = Native => h.numSubEntries \in Nat
    BY <1>4, HoldingFields, Zenon
  <2>2. asset = Native => min \in Nat
    BY <2>1, MinBalanceType
  <2> HIDE DEF h, min
  <2>3. k = Rebalanced(h, h.balance, h.buying, new)
    <3> HIDE DEF new
    <3> QED BY <2>1, SetOne
  <2> HIDE DEF k
  <2>4. limit \in Int /\ limit <= h.balance /\ delta \in Int /\ h.selling \in Int
    BY <1>4, <2>1, <2>2
  <2> HIDE DEF limit
  <2>5. new = h.selling + delta /\ new <= limit
    BY <1>4, <2>4, AddedIs
  <2> HIDE DEF new
  <2>6. new \in Nat /\ new <= h.balance
    BY <1>4, <2>1, <2>4, <2>5
  <2>7. Moved(L, SetHolding(L, a, asset, k), OfNative(asset, h.balance - h.balance))
    BY <1>4, <2>1, <2>3, <2>6, SetHoldingMoves DEF h, Exists
  <2>8. OfNative(asset, h.balance - h.balance) = 0
    BY <2>1 DEF OfNative
  <2> QED BY <1>4, <2>7, <2>8
<1> QED BY <1>1, <1>2, <1>3, <1>4

\* What can be sold and bought at most is an amount.
LEMMA CanSellType ==
    ASSUME NEW L, IsLedger(L), NEW a \in DOMAIN L.acc, NEW asset
    PROVE  canSellAtMost(L, a, asset) \in Nat
<1> DEFINE available == getAvailableBalance(L, a, asset)
           may == asset = Native \/ (hasTrustLine(L, a, asset) /\ isAuthorized(L, a, asset))
<1>1. canSellAtMost(L, a, asset) = IF may THEN Max({available, 0}) ELSE 0
  BY DEF canSellAtMost
<1>2. ASSUME may PROVE available \in Int
  <2>1. CASE isIssuer(a, asset)
    BY <2>1, Int64Assumption DEF getAvailableBalance
  <2>2. CASE ~isIssuer(a, asset)
    <3> DEFINE h == Holding(L, a, asset)
    <3>1. Exists(L, a, asset)
      BY <1>2, <2>2 DEF hasTrustLine, Exists
    <3>2. h.balance \in Nat /\ h.selling \in Nat /\ (asset = Native => h.numSubEntries \in Nat)
      BY <3>1, HoldingFields, Zenon
    <3>3. asset = Native => getMinBalance(L, h.numSubEntries) \in Nat
      BY <3>2, MinBalanceType
    <3>4. available = IF asset = Native
                      THEN h.balance - getMinBalance(L, h.numSubEntries) - h.selling
                      ELSE h.balance - h.selling
      BY <2>2, Zenon DEF getAvailableBalance
    <3> HIDE DEF h
    <3> QED BY <3>2, <3>3, <3>4
  <2> QED BY <2>1, <2>2
<1> HIDE DEF may, available
<1>3. CASE may
  <2>1. Max({available, 0}) = IF available >= 0 THEN available ELSE 0
    BY <1>2, <1>3, MaxOfTwo
  <2> QED BY <1>1, <1>2, <1>3, <2>1
<1>4. CASE ~may
  BY <1>1, <1>4
<1> QED BY <1>3, <1>4

LEMMA CanBuyType ==
    ASSUME NEW L, IsLedger(L), NEW a \in DOMAIN L.acc, NEW asset
    PROVE  canBuyAtMost(L, a, asset) \in Nat
<1> DEFINE room == getMaxAmountReceive(L, a, asset)
           may == canHold(L, a, asset)
<1>1. canBuyAtMost(L, a, asset) = IF may THEN Max({room, 0}) ELSE 0
  BY DEF canBuyAtMost
<1>2. ASSUME may PROVE room \in Int
  <2>1. CASE isIssuer(a, asset)
    BY <2>1, Int64Assumption DEF getMaxAmountReceive
  <2>2. CASE ~isIssuer(a, asset)
    <3> DEFINE h == Holding(L, a, asset)
    <3>1. Exists(L, a, asset)
      BY <1>2, <2>2 DEF hasTrustLine, canHold, Exists
    <3>2. h.balance \in Nat /\ h.buying \in Nat /\ (asset # Native => h.limit \in Nat)
      BY <3>1, HoldingFields, Zenon
    <3>3. room = IF asset = Native THEN INT64_MAX - (h.balance + h.buying)
                 ELSE IF h.authorized THEN h.limit - h.balance - h.buying ELSE 0
      BY <2>2, Zenon DEF getMaxAmountReceive
    <3> HIDE DEF h
    <3> QED BY <3>2, <3>3, Int64Assumption
  <2> QED BY <2>1, <2>2
<1> HIDE DEF may, room
<1>3. CASE may
  <2>1. Max({room, 0}) = IF room >= 0 THEN room ELSE 0
    BY <1>2, <1>3, MaxOfTwo
  <2> QED BY <1>1, <1>2, <1>3, <2>1
<1>4. CASE ~may
  BY <1>1, <1>4
<1> QED BY <1>3, <1>4

\* The liabilities of an offer are acquired or released, or an error is thrown.
LEMMA AcquireOrRelease ==
    ASSUME NEW L, IsLedger(L), NEW o, IsOffer(o), NEW sign \in {-1, 1}, NEW M,
           M = acquireOrReleaseLiabilities(L, o, sign)
    PROVE  /\ Moved(L, M, 0)
           /\ Fine(M) => o.seller \in DOMAIN L.acc
<1> DEFINE promised == OfferLiabilities(o.price, o.amount)
           bought == addBuyingLiabilities(L, o.seller, o.buying, sign * promised.numSheepSend)
           sold == addSellingLiabilities(bought.L, o.seller, o.selling,
                                         sign * promised.numWheatReceived)
           can == canHold(L, o.seller, o.buying) /\ canHold(L, o.seller, o.selling)
<1>1. M = IF promised.err # "" THEN throw(L, promised.err)
          ELSE IF ~ (o.seller \in DOMAIN L.acc) THEN throw(L, "account does not exist")
          ELSE IF ~can THEN throw(L, "trustline does not exist")
          ELSE IF ~bought.ok THEN throw(L, "could not add buying liabilities")
          ELSE IF ~sold.ok THEN throw(L, "could not add selling liabilities")
          ELSE sold.L
  BY DEF acquireOrReleaseLiabilities, exists
<1>2. promised.numSheepSend \in Nat /\ promised.numWheatReceived \in Nat
  <2>1. o.price \in Price /\ o.amount \in Nat /\ INT64_MAX \in Nat /\ FALSE \in BOOLEAN
    BY Int64Assumption DEF IsOffer
  <2>2. promised \in Exchanged
    BY <2>1, ExchangeWithinLimits, Zenon DEF OfferLiabilities
  <2> QED BY <2>2 DEF Exchanged
<1>3. \A x \in Nat : sign * x \in Int
  OBVIOUS
<1>4. Moved(L, bought.L, 0)
  BY <1>2, <1>3, AddBuyingLiabilities
<1>5. IsLedger(bought.L)
  BY <1>4 DEF Moved
<1>6. Moved(bought.L, sold.L, 0)
  BY <1>2, <1>3, <1>5, AddSellingLiabilities
<1> HIDE DEF bought, sold
<1>7. Moved(L, sold.L, 0)
  <2>1. Moved(L, sold.L, 0 + 0)
    BY <1>4, <1>6, MovedOn
  <2> QED BY <2>1
<1>8. /\ Named("account does not exist") /\ Named("trustline does not exist")
      /\ Named("could not add buying liabilities") /\ Named("could not add selling liabilities")
  BY DEF Named
<1>9. \A w : Moved(L, throw(L, w), 0) /\ (Named(w) => ~Fine(throw(L, w)))
  BY MovedThrow
<1> HIDE DEF can
<1>10. \/ \E w : Named(w) /\ M = throw(L, w)
       \/ M = sold.L /\ o.seller \in DOMAIN L.acc
  BY <1>1, <1>8, Zenon DEF Named
<1> QED BY <1>7, <1>9, <1>10

LEMMA Release ==
    ASSUME NEW L, IsLedger(L), NEW o, IsOffer(o)
    PROVE  /\ Moved(L, releaseLiabilities(L, o), 0)
           /\ Fine(releaseLiabilities(L, o)) => o.seller \in DOMAIN L.acc
BY AcquireOrRelease DEF releaseLiabilities

LEMMA Acquire ==
    ASSUME NEW L, IsLedger(L), NEW o, IsOffer(o)
    PROVE  /\ Moved(L, acquireLiabilities(L, o), 0)
           /\ Fine(acquireLiabilities(L, o)) => o.seller \in DOMAIN L.acc
BY AcquireOrRelease DEF acquireLiabilities

\* What an offer is adjusted to is no more than what it was.
LEMMA Adjusted ==
    ASSUME NEW L, IsLedger(L), NEW o, IsOffer(o), o.seller \in DOMAIN L.acc
    PROVE  /\ AdjustedAmount(L, o) \in Exchanged
           /\ AdjustedAmount(L, o).numWheatReceived <= o.amount
           /\ AdjustedAmount(L, o).numWheatReceived <= canSellAtMost(L, o.seller, o.selling)
<1> DEFINE c == canSellAtMost(L, o.seller, o.selling)
           b == canBuyAtMost(L, o.seller, o.buying)
           m == Min({o.amount, c})
           r == exchangeV10(o.price, m, INT64_MAX, INT64_MAX, b, FALSE)
<1>1. AdjustedAmount(L, o) = r
  BY DEF AdjustedAmount, adjustOffer
<1>2. c \in Nat /\ b \in Nat
  BY CanSellType, CanBuyType
<1>3. o.price \in Price /\ o.amount \in Nat /\ INT64_MAX \in Nat
  BY Int64Assumption DEF IsOffer
<1> HIDE DEF c, b
<1>4. m \in Nat /\ m <= o.amount /\ m <= c
  BY <1>2, <1>3, MinOfTwo
<1> HIDE DEF m
<1>5. r \in Exchanged /\ KeepsLimits(r, m, INT64_MAX, INT64_MAX, b)
  BY <1>2, <1>3, <1>4, OffersExchange
<1> HIDE DEF r
<1>6. r.numWheatReceived \in Nat /\ r.numWheatReceived <= m
  BY <1>5 DEF Exchanged, KeepsLimits
<1> QED BY <1>1, <1>3, <1>2, <1>4, <1>5, <1>6 DEF c

-----------------------------------------------------------------------------
(* Steps that charge an account for an entry. *)

\* M is L with n more entries counted for the account a.
Charged(L, M, a, n) ==
    /\ IsLedger(M) /\ SameHeader(L, M)
    /\ DOMAIN M.acc = DOMAIN L.acc /\ M.tl = L.tl /\ M.offers = L.offers /\ M.data = L.data
    /\ \A b \in DOMAIN L.acc :
          /\ M.acc[b] = [L.acc[b] EXCEPT !.numSubEntries = M.acc[b].numSubEntries]
          /\ M.acc[b].numSubEntries = L.acc[b].numSubEntries + (IF b = a THEN n ELSE 0)
    /\ Fine(M) <=> Fine(L)
    /\ Lumens(M) = Lumens(L)

LEMMA FieldEntries ==
    ASSUME NEW L, LedgerFields(L), NEW a, NEW x
    PROVE  [L EXCEPT !.acc[a].numSubEntries = x]
               = [L EXCEPT !.acc[a] = [L.acc[a] EXCEPT !.numSubEntries = x]]
BY DEF LedgerFields

LEMMA AccountEntries ==
    ASSUME NEW h, IsAccount(h), NEW n \in Nat
    PROVE  LET k == [h EXCEPT !.numSubEntries = n]
           IN  /\ IsAccount(k) /\ k.balance = h.balance /\ k.numSubEntries = n
               /\ h = [h EXCEPT !.numSubEntries = h.numSubEntries]
BY DEF IsAccount

LEMMA ChargedNobody ==
    ASSUME NEW L, IsLedger(L), NEW a, a \notin DOMAIN L.acc, NEW n
    PROVE  Charged(L, L, a, n)
<1>1. \A b \in DOMAIN L.acc :
          /\ L.acc[b] = [L.acc[b] EXCEPT !.numSubEntries = L.acc[b].numSubEntries]
          /\ L.acc[b].numSubEntries = L.acc[b].numSubEntries + (IF b = a THEN n ELSE 0)
  <2> TAKE b \in DOMAIN L.acc
  <2>1. IsAccount(L.acc[b]) /\ b # a
    BY DEF IsLedger, AreAccounts
  <2>2. L.acc[b].numSubEntries \in Nat
    BY <2>1, AccountFields
  <2>3. L.acc[b] = [L.acc[b] EXCEPT !.numSubEntries = L.acc[b].numSubEntries]
    BY <2>1, <2>2, AccountEntries
  <2> QED BY <2>1, <2>2, <2>3
<1> QED BY <1>1 DEF Charged, SameHeader

LEMMA SetEntries ==
    ASSUME NEW L, IsLedger(L), NEW a \in DOMAIN L.acc, NEW n \in Int,
           L.acc[a].numSubEntries + n \in Nat
    PROVE  Charged(L, [L EXCEPT !.acc[a].numSubEntries = L.acc[a].numSubEntries + n], a, n)
<1> DEFINE h == L.acc[a]
           new == h.numSubEntries + n
           k == [h EXCEPT !.numSubEntries = new]
           M == [L EXCEPT !.acc[a] = k]
<1>1. IsAccount(h) /\ M = [L EXCEPT !.acc[a].numSubEntries = new]
  BY FieldEntries DEF IsLedger, AreAccounts
<1>2. IsAccount(k) /\ k.balance = h.balance /\ k.numSubEntries = new
  BY <1>1, AccountEntries
<1> HIDE DEF k
<1>3. /\ WithAccounts(L, M, [L.acc EXCEPT ![a] = k])
      /\ DOMAIN M.acc = DOMAIN L.acc /\ M.acc[a] = k
      /\ \A b \in DOMAIN L.acc : b # a => M.acc[b] = L.acc[b]
      /\ Lumens(M) = Lumens(L) + (k.balance - h.balance)
  BY <1>1, <1>2, PutAccount
<1> HIDE DEF M
<1>4. Lumens(M) = Lumens(L)
  <2>1. h.balance \in Int /\ Lumens(L) \in Int
    BY <1>1, AccountFields, LumensType DEF IsLedger
  <2> QED BY <2>1, <1>2, <1>3
<1>5. ASSUME NEW b \in DOMAIN L.acc
      PROVE  /\ M.acc[b] = [L.acc[b] EXCEPT !.numSubEntries = M.acc[b].numSubEntries]
             /\ M.acc[b].numSubEntries = L.acc[b].numSubEntries + (IF b = a THEN n ELSE 0)
  <2>1. CASE b = a
    <3>1. k = [h EXCEPT !.numSubEntries = k.numSubEntries]
      BY <1>2 DEF k
    <3> QED BY <2>1, <3>1, <1>2, <1>3
  <2>2. CASE b # a
    <3>1. IsAccount(L.acc[b]) /\ M.acc[b] = L.acc[b]
      BY <2>2, <1>3 DEF IsLedger, AreAccounts
    <3>2. L.acc[b].numSubEntries \in Nat
      BY <3>1, AccountFields
    <3>3. L.acc[b] = [L.acc[b] EXCEPT !.numSubEntries = L.acc[b].numSubEntries]
      BY <3>1, <3>2, AccountEntries
    <3> QED BY <2>2, <3>1, <3>2, <3>3
  <2> QED BY <2>1, <2>2
<1>6. Charged(L, M, a, n)
  BY <1>3, <1>4, <1>5 DEF Charged, WithAccounts
<1> QED BY <1>1, <1>6

LEMMA SetNoEntries ==
    ASSUME NEW L, IsLedger(L), NEW a, a \notin DOMAIN L.acc, NEW x
    PROVE  [L EXCEPT !.acc[a].numSubEntries = x] = L
BY FieldEntries, SetNoAccount DEF IsLedger

\* addNumEntries charges the account or changes nothing. Only one that adds an entry
\* can fail without an error.
LEMMA AddNumEntries ==
    ASSUME NEW L, IsLedger(L), NEW a, NEW count \in Int, NEW r, r = addNumEntries(L, a, count)
    PROVE  /\ IsLedger(r.L) /\ SameHeader(L, r.L)
           /\ Fine(r.L) => Fine(L)
           /\ DOMAIN r.L.acc = DOMAIN L.acc
           /\ r.ok \/ (count < 0 /\ Fine(r.L)) => Charged(L, r.L, a, count)
<1> DEFINE h == L.acc[a]
           new == h.numSubEntries + count
           M == [L EXCEPT !.acc[a].numSubEntries = new]
           poor == count > 0 /\ h.balance < getMinBalance(L, new) + h.selling
<1>1. r = IF new < 0 THEN Result(FALSE, throw(L, "invalid account state"))
          ELSE IF poor THEN Result(FALSE, L) ELSE Result(TRUE, M)
  BY DEF addNumEntries
<1> HIDE DEF M, poor
<1>2. CASE new < 0
  <2>4. r = Result(FALSE, throw(L, "invalid account state"))
    BY <1>1, <1>2
  <2>1. r.ok = FALSE /\ r.L = throw(L, "invalid account state")
    <3>1. \A M2 : Result(FALSE, M2).ok = FALSE /\ Result(FALSE, M2).L = M2
      BY DEF Result
    <3> QED BY <2>4, <3>1, Zenon
  <2>2. Named("invalid account state")
    BY DEF Named
  <2>3. Moved(L, r.L, 0) /\ ~Fine(r.L)
    BY <2>1, <2>2, MovedThrow
  <2> QED BY <2>1, <2>3 DEF Moved
<1>3. CASE ~ (new < 0) /\ poor
  <2>1. r.ok = FALSE /\ r.L = L /\ ~ (count < 0)
    BY <1>1, <1>3 DEF Result, poor
  <2> QED BY <2>1 DEF SameHeader
<1>4. CASE ~ (new < 0) /\ ~poor
  <2>1. r.ok = TRUE /\ r.L = M
    BY <1>1, <1>4 DEF Result
  <2>2. Charged(L, M, a, count)
    <3>1. CASE a \in DOMAIN L.acc
      <4>1. h.numSubEntries \in Nat
        BY <3>1, AccountFields DEF IsLedger, AreAccounts
      <4>2. new \in Nat
        BY <4>1, <1>4
      <4> QED BY <3>1, <4>2, SetEntries DEF M
    <3>2. CASE a \notin DOMAIN L.acc
      <4>1. M = L
        BY <3>2, SetNoEntries DEF M
      <4> QED BY <3>2, <4>1, ChargedNobody
    <3> QED BY <3>1, <3>2
  <2> HIDE DEF M
  <2> QED BY <2>1, <2>2 DEF Charged
<1> QED BY <1>2, <1>3, <1>4

-----------------------------------------------------------------------------
(* Offers that leave the book or change. *)

LEMMA PutOffers ==
    ASSUME NEW L, IsLedger(L), NEW x, AreOffers(x), NEW M, M = [L EXCEPT !.offers = x]
    PROVE  /\ IsLedger(M) /\ SameHeader(L, M) /\ M.offers = x
           /\ M.acc = L.acc /\ M.tl = L.tl /\ M.data = L.data
           /\ (Fine(M) <=> Fine(L)) /\ Lumens(M) = Lumens(L)
<1>1. /\ LedgerFields(M) /\ SameHeader(L, M) /\ M.acc = L.acc
      /\ M.tl = L.tl /\ M.offers = x /\ M.data = L.data /\ M.err = L.err
  BY FieldOffers DEF IsLedger
<1>2. Fine(M) <=> Fine(L)
  BY <1>1, Zenon DEF Fine
<1>3. IsHeader(M)
  BY <1>1 DEF IsHeader, SameHeader, IsLedger
<1>4. IsLedger(M)
  BY <1>1, <1>3 DEF IsLedger
<1>5. Lumens(M) = Lumens(L)
  BY <1>1 DEF Lumens
<1> QED BY <1>1, <1>2, <1>4, <1>5

\* The entries of an account that its count leaves out.
Uncounted(L, a) == L.acc[a].numSubEntries - Entries(L, a)

LEMMA EntriesType ==
    ASSUME NEW L, IsLedger(L), NEW a \in DOMAIN L.acc
    PROVE  /\ Entries(L, a) \in Nat
           /\ Cardinality(L.acc[a].signers) \in Nat
           /\ Cardinality({line \in DOMAIN L.tl : line[1] = a}) \in Nat
           /\ Cardinality(Owned(L, a)) \in Nat
           /\ Cardinality({d \in L.data : d[1] = a}) \in Nat
<1>1. IsFiniteSet(L.acc[a].signers)
  BY DEF IsLedger, AreAccounts, IsAccount
<1>2. IsFiniteSet({line \in DOMAIN L.tl : line[1] = a})
  <2>1. IsFiniteSet(DOMAIN L.tl) /\ {line \in DOMAIN L.tl : line[1] = a} \subseteq DOMAIN L.tl
    BY DEF IsLedger, AreLines
  <2> QED BY <2>1, FS_Subset
<1>3. IsFiniteSet(Owned(L, a))
  <2>1. IsFiniteSet(DOMAIN L.offers) /\ Owned(L, a) \subseteq DOMAIN L.offers
    BY DEF IsLedger, AreOffers, Owned
  <2> QED BY <2>1, FS_Subset
<1>4. IsFiniteSet({d \in L.data : d[1] = a})
  <2>1. IsFiniteSet(L.data) /\ {d \in L.data : d[1] = a} \subseteq L.data
    BY DEF IsLedger
  <2> QED BY <2>1, FS_Subset
<1>5. /\ Cardinality(L.acc[a].signers) \in Nat
      /\ Cardinality({line \in DOMAIN L.tl : line[1] = a}) \in Nat
      /\ Cardinality(Owned(L, a)) \in Nat
      /\ Cardinality({d \in L.data : d[1] = a}) \in Nat
  BY <1>1, <1>2, <1>3, <1>4, FS_CardinalityType
<1>6. Entries(L, a) \in Nat
  BY <1>5 DEF Entries
<1> QED BY <1>5, <1>6

\* What an account keeps when it trades.
SameHolder(g, h) ==
    /\ h.seqNum = g.seqNum /\ h.signers = g.signers
    /\ h.flags = g.flags /\ h.inflationDest = g.inflationDest

\* M is L after trades that brought d lumens: offers leave the book or change, and
\* accounts are charged for the entries they have.
Traded(L, M, d) ==
    /\ IsLedger(M) /\ SameHeader(L, M)
    /\ DOMAIN M.acc = DOMAIN L.acc /\ DOMAIN M.tl = DOMAIN L.tl /\ M.data = L.data
    /\ DOMAIN M.offers \subseteq DOMAIN L.offers /\ Owners(M) \subseteq Owners(L)
    /\ \A a \in DOMAIN L.acc :
          SameHolder(L.acc[a], M.acc[a]) /\ Uncounted(M, a) = Uncounted(L, a)
    /\ Fine(M) => Fine(L)
    /\ Lumens(M) = Lumens(L) + d

LEMMA MovedIsTraded ==
    ASSUME NEW L, NEW M, NEW d, IsLedger(L), Moved(L, M, d)
    PROVE  Traded(L, M, d)
<1>1. Owners(M) \subseteq Owners(L) /\ DOMAIN M.offers \subseteq DOMAIN L.offers
  BY DEF Moved, Owners
<1>2. ASSUME NEW a \in DOMAIN L.acc
      PROVE  SameHolder(L.acc[a], M.acc[a]) /\ Uncounted(M, a) = Uncounted(L, a)
  <2>1. SameOwner(L.acc[a], M.acc[a])
    BY DEF Moved
  <2>2. Entries(M, a) = Entries(L, a)
    BY <2>1 DEF Entries, Owned, SameOwner, Moved
  <2> QED BY <2>1, <2>2 DEF SameOwner, SameHolder, Uncounted
<1> QED BY <1>1, <1>2 DEF Moved, Traded

LEMMA TradedOn ==
    ASSUME NEW L, NEW M, NEW N, NEW d \in Int, NEW e \in Int, IsLedger(L),
           Traded(L, M, d), Traded(M, N, e)
    PROVE  Traded(L, N, d + e)
<1>1. SameHeader(L, N)
  BY DEF Traded, SameHeader
<1>2. \A a \in DOMAIN L.acc :
          SameHolder(L.acc[a], N.acc[a]) /\ Uncounted(N, a) = Uncounted(L, a)
  BY DEF Traded, SameHolder
<1>3. Lumens(N) = Lumens(L) + (d + e)
  <2>1. Lumens(L) \in Int
    BY LumensType DEF IsLedger
  <2>2. Lumens(M) = Lumens(L) + d /\ Lumens(N) = Lumens(M) + e
    BY DEF Traded
  <2> QED BY <2>1, <2>2
<1> QED BY <1>1, <1>2, <1>3 DEF Traded

\* The amounts of two steps, one of which moves nothing.
LEMMA TradedAfter ==
    ASSUME NEW L, NEW M, NEW N, NEW d \in Int, IsLedger(L),
           \/ Traded(L, M, d) /\ Traded(M, N, 0)
           \/ Traded(L, M, 0) /\ Traded(M, N, d)
    PROVE  Traded(L, N, d)
<1>1. d + 0 = d /\ 0 + d = d
  OBVIOUS
<1>2. CASE Traded(L, M, d) /\ Traded(M, N, 0)
  <2>1. Traded(L, N, d + 0)
    BY <1>2, TradedOn
  <2> QED BY <1>1, <2>1
<1>3. CASE Traded(L, M, 0) /\ Traded(M, N, d)
  <2>1. Traded(L, N, 0 + d)
    BY <1>3, TradedOn
  <2> QED BY <1>1, <2>1
<1> QED BY <1>2, <1>3

LEMMA WithoutOffer ==
    ASSUME NEW f, AreOffers(f), NEW id
    PROVE  /\ AreOffers(Without(f, id)) /\ DOMAIN Without(f, id) = DOMAIN f \ {id}
           /\ \A i \in DOMAIN f \ {id} : Without(f, id)[i] = f[i]
<1> DEFINE g == Without(f, id)
<1>1. g = [i \in DOMAIN f \ {id} |-> f[i]]
  BY DEF Without, Restrict
<1>2. IsFiniteSet(DOMAIN f \ {id})
  BY FS_Subset DEF AreOffers
<1> QED BY <1>1, <1>2 DEF AreOffers

\* An offer is erased, and its seller is charged for one entry less.
LEMMA EraseOffer ==
    ASSUME NEW L, IsLedger(L), NEW id \in DOMAIN L.offers, NEW M, M = eraseOffer(L, id)
    PROVE  /\ IsLedger(M) /\ SameHeader(L, M) /\ (Fine(M) => Fine(L))
           /\ DOMAIN M.acc = DOMAIN L.acc
           /\ Fine(M) => Traded(L, M, 0) /\ DOMAIN M.offers = DOMAIN L.offers \ {id}
                         /\ \A i \in DOMAIN M.offers : M.offers[i] = L.offers[i]
<1> DEFINE seller == L.offers[id].seller
           f == Without(L.offers, id)
           N == [L EXCEPT !.offers = f]
           r == addNumEntries(N, seller, -1)
<1>1. M = r.L
  BY DEF eraseOffer
<1>2. /\ AreOffers(f) /\ DOMAIN f = DOMAIN L.offers \ {id}
      /\ \A i \in DOMAIN L.offers \ {id} : f[i] = L.offers[i]
  BY WithoutOffer DEF IsLedger
<1>3. /\ IsLedger(N) /\ SameHeader(L, N) /\ N.offers = f
      /\ N.acc = L.acc /\ N.tl = L.tl /\ N.data = L.data
      /\ (Fine(N) <=> Fine(L)) /\ Lumens(N) = Lumens(L)
  BY <1>2, PutOffers
<1> HIDE DEF N, f
<1>4. /\ IsLedger(M) /\ SameHeader(N, M)
      /\ Fine(M) => Fine(N)
      /\ DOMAIN M.acc = DOMAIN N.acc
      /\ Fine(M) => Charged(N, M, seller, -1)
  <2>1. -1 \in Int /\ -1 < 0
    OBVIOUS
  <2> QED BY <1>1, <1>3, <2>1, AddNumEntries
<1>5. SameHeader(L, M)
  BY <1>3, <1>4 DEF SameHeader
<1>6. ASSUME Fine(M)
      PROVE  Traded(L, M, 0) /\ DOMAIN M.offers = DOMAIN L.offers \ {id}
             /\ \A i \in DOMAIN M.offers : M.offers[i] = L.offers[i]
  <2>1. Charged(N, M, seller, -1)
    BY <1>4, <1>6
  <2>2. M.offers = f /\ M.tl = L.tl /\ M.data = L.data /\ Lumens(M) = Lumens(L)
    BY <1>3, <2>1 DEF Charged
  <2>3. Owners(M) \subseteq Owners(L)
    BY <1>2, <2>2 DEF Owners
  <2>4. ASSUME NEW a \in DOMAIN L.acc
        PROVE  SameHolder(L.acc[a], M.acc[a]) /\ Uncounted(M, a) = Uncounted(L, a)
    <3> DEFINE g == L.acc[a]
               h == M.acc[a]
    <3>1. /\ h = [g EXCEPT !.numSubEntries = h.numSubEntries]
          /\ h.numSubEntries = g.numSubEntries + (IF a = seller THEN -1 ELSE 0)
      BY <1>3, <2>1 DEF Charged
    <3>2. IsAccount(g)
      BY DEF IsLedger, AreAccounts
    <3>3. SameHolder(g, h) /\ g.numSubEntries \in Nat
      BY <3>1, <3>2 DEF IsAccount, SameHolder
    <3> HIDE DEF g, h
    <3>4. Owned(M, a) = IF a = seller THEN Owned(L, a) \ {id} ELSE Owned(L, a)
      BY <1>2, <2>2 DEF Owned
    <3>5. Cardinality(Owned(M, a)) = Cardinality(Owned(L, a)) + (IF a = seller THEN -1 ELSE 0)
      <4>1. IsFiniteSet(Owned(L, a))
        <5>1. IsFiniteSet(DOMAIN L.offers) /\ Owned(L, a) \subseteq DOMAIN L.offers
          BY DEF IsLedger, AreOffers, Owned
        <5> QED BY <5>1, FS_Subset
      <4>2. Cardinality(Owned(L, a)) \in Nat
        BY <4>1, FS_CardinalityType
      <4>3. CASE a = seller
        <5>1. id \in Owned(L, a)
          BY <4>3 DEF Owned
        <5> QED BY <3>4, <4>1, <4>2, <4>3, <5>1, FS_RemoveElement
      <4>4. CASE a # seller
        BY <3>4, <4>2, <4>4
      <4> QED BY <4>3, <4>4
    <3>6. Uncounted(M, a) = Uncounted(L, a)
      <4> DEFINE s == Cardinality(g.signers)
                 t == Cardinality({line \in DOMAIN L.tl : line[1] = a})
                 o == Cardinality(Owned(L, a))
                 p == Cardinality(Owned(M, a))
                 d == Cardinality({e \in L.data : e[1] = a})
      <4>1. Uncounted(L, a) = g.numSubEntries - (s + t + o + d)
        BY DEF Uncounted, Entries, g
      <4>2. h.signers = g.signers
        BY <3>3 DEF SameHolder
      <4>3. Uncounted(M, a) = h.numSubEntries - (s + t + p + d)
        BY <2>2, <4>2 DEF Uncounted, Entries, h
      <4>4. s \in Nat /\ t \in Nat /\ o \in Nat /\ d \in Nat
        BY EntriesType DEF g
      <4>5. p = o + (IF a = seller THEN -1 ELSE 0)
        BY <3>5
      <4> HIDE DEF s, t, o, p, d, seller
      <4>6. CASE a = seller
        BY <3>1, <3>3, <4>1, <4>3, <4>4, <4>5, <4>6
      <4>7. CASE a # seller
        BY <3>1, <3>3, <4>1, <4>3, <4>4, <4>5, <4>7
      <4> QED BY <4>6, <4>7
    <3> QED BY <3>3, <3>6 DEF g, h
  <2>5. Lumens(M) = Lumens(L) + 0
    BY <2>2, LumensType DEF IsLedger
  <2> QED BY <1>2, <1>3, <1>4, <1>5, <2>2, <2>3, <2>4, <2>5 DEF Traded
<1> QED BY <1>3, <1>4, <1>5, <1>6

-----------------------------------------------------------------------------
(* One offer is crossed. *)

LEMMA ReplaceOffer ==
    ASSUME NEW L, IsLedger(L), NEW id \in DOMAIN L.offers, NEW o, IsOffer(o),
           o.seller = L.offers[id].seller
    PROVE  /\ IsLedger([L EXCEPT !.offers[id] = o])
           /\ Traded(L, [L EXCEPT !.offers[id] = o], 0)
<1> DEFINE f == [L.offers EXCEPT ![id] = o]
           M == [L EXCEPT !.offers = f]
<1>1. [L EXCEPT !.offers[id] = o] = M
  BY DEF IsLedger, LedgerFields
<1>2. AreOffers(f) /\ DOMAIN f = DOMAIN L.offers
      /\ \A i \in DOMAIN L.offers : f[i].seller = L.offers[i].seller
  BY DEF IsLedger, AreOffers
<1>3. /\ IsLedger(M) /\ SameHeader(L, M) /\ M.offers = f
      /\ M.acc = L.acc /\ M.tl = L.tl /\ M.data = L.data
      /\ (Fine(M) <=> Fine(L)) /\ Lumens(M) = Lumens(L)
  BY <1>2, PutOffers
<1> HIDE DEF M, f
<1>4. Owners(M) \subseteq Owners(L)
  BY <1>2, <1>3 DEF Owners
<1>5. \A a : Owned(M, a) = Owned(L, a)
  BY <1>2, <1>3 DEF Owned
<1>6. \A a \in DOMAIN L.acc :
          SameHolder(L.acc[a], M.acc[a]) /\ Uncounted(M, a) = Uncounted(L, a)
  BY <1>3, <1>5 DEF Uncounted, Entries, SameHolder
<1>7. Lumens(M) = Lumens(L) + 0
  BY <1>3, LumensType DEF IsLedger
<1>8. Traded(L, M, 0)
  BY <1>2, <1>3, <1>4, <1>6, <1>7 DEF Traded
<1> QED BY <1>1, <1>3, <1>8

LEMMA OfferAmount ==
    ASSUME NEW o, IsOffer(o), NEW left \in Nat
    PROVE  LET r == [o EXCEPT !.amount = left]
           IN  /\ IsOffer(r) /\ r.seller = o.seller /\ r.selling = o.selling
               /\ r.buying = o.buying /\ r.price = o.price /\ r.amount = left
BY DEF IsOffer

LEMMA BookRest ==
    ASSUME NEW L, IsLedger(L), NEW id \in DOMAIN L.offers, NEW left \in Nat,
           NEW M, M = bookRest(L, id, left)
    PROVE  /\ IsLedger(M)
           /\ Fine(M) => Fine(L) /\ Traded(L, M, 0)
<1> DEFINE o == L.offers[id]
           rest == [o EXCEPT !.amount = left]
           N == [L EXCEPT !.offers[id] = rest]
<1>1. M = IF ~Fine(L) THEN L ELSE IF left = 0 THEN eraseOffer(L, id) ELSE acquireLiabilities(N, rest)
  BY Zenon DEF bookRest, Fine
<1>7. IsOffer(o)
  BY DEF IsLedger, AreOffers
<1>2. IsOffer(rest) /\ rest.seller = o.seller
  BY <1>7, OfferAmount, Zenon
<1>3. IsLedger(N) /\ Traded(L, N, 0)
  BY <1>2, ReplaceOffer
<1> HIDE DEF rest, N
<1>4. CASE ~Fine(L)
  BY <1>1, <1>4
<1>5. CASE Fine(L) /\ left = 0
  <2>1. M = eraseOffer(L, id)
    BY <1>1, <1>5
  <2> QED BY <2>1, EraseOffer
<1>6. CASE Fine(L) /\ left # 0
  <2>1. M = acquireLiabilities(N, rest)
    BY <1>1, <1>6
  <2>2. Moved(N, M, 0)
    BY <1>2, <1>3, <2>1, Acquire
  <2>3. Traded(N, M, 0)
    BY <1>3, <2>2, MovedIsTraded
  <2>4. Traded(L, M, 0)
    BY <1>3, <2>3, TradedAfter
  <2> QED BY <1>6, <2>2, <2>4 DEF Moved
<1> QED BY <1>4, <1>5, <1>6

TradesWithin(out, ws, wr, ss) ==
    /\ out.numWheatReceived \in Nat /\ out.numSheepSend \in Nat
    /\ out.numWheatReceived <= ws /\ out.numWheatReceived <= wr
    /\ out.numSheepSend <= ss
    /\ (out.numWheatReceived = 0) <=> (out.numSheepSend = 0)

LEMMA TradeExchange ==
    ASSUME NEW p \in Price, NEW ws \in Nat, NEW wr \in Nat, NEW ss \in Nat, NEW sr \in Nat,
           NEW path \in BOOLEAN
    PROVE  TradesWithin(exchangeV10(p, ws, wr, ss, sr, path), ws, wr, ss)
<1> DEFINE out == exchangeV10(p, ws, wr, ss, sr, path)
           r == exchangeV10WithoutPriceErrorThresholds(p, ws, wr, ss, sr, path)
           n == NothingOf(r)
           e == [r EXCEPT !.err = "exceeded price error bound"]
<1>1. r \in Exchanged /\ KeepsLimits(r, ws, wr, ss, sr) /\ FavoursWhoStays(r, p)
  BY ExchangeWithinLimits
<1>2. out = applyPriceErrorThresholds(p, r, path)
  BY DEF exchangeV10
<1> HIDE DEF r, out
<1>3. \/ out = n
      \/ r.numWheatReceived # 0 /\ r.numSheepSend # 0 /\ (out = r \/ out = e)
  BY <1>1, <1>2, Thresholds, Zenon
<1>4. /\ r.numWheatReceived \in Nat /\ r.numSheepSend \in Nat
      /\ r.numWheatReceived <= ws /\ r.numWheatReceived <= wr /\ r.numSheepSend <= ss
  BY <1>1 DEF Exchanged, KeepsLimits
<1>5. n.numWheatReceived = 0 /\ n.numSheepSend = 0
  BY <1>1 DEF NothingOf, Exchanged
<1>6. e.numWheatReceived = r.numWheatReceived /\ e.numSheepSend = r.numSheepSend
  BY <1>1 DEF Exchanged
<1> HIDE DEF n, e
<1>7. ASSUME out = n PROVE TradesWithin(out, ws, wr, ss)
  BY <1>5, <1>7 DEF TradesWithin
<1>8. ASSUME r.numWheatReceived # 0 /\ r.numSheepSend # 0 /\ (out = r \/ out = e)
      PROVE  TradesWithin(out, ws, wr, ss)
  BY <1>4, <1>6, <1>8 DEF TradesWithin
<1> QED BY <1>3, <1>7, <1>8 DEF out

LEMMA TradeOf ==
    ASSUME NEW L, IsLedger(L), NEW o, IsOffer(o), o.seller \in DOMAIN L.acc, NEW most \in Nat,
           NEW mw \in Nat, NEW ms \in Nat, NEW path \in BOOLEAN
    PROVE  TradesWithin(exchangeV10(o.price,
                            Min({most, canSellAtMost(L, o.seller, o.selling)}),
                            mw, ms, canBuyAtMost(L, o.seller, o.buying), path), most, mw, ms)
<1> DEFINE s == canSellAtMost(L, o.seller, o.selling)
           b == canBuyAtMost(L, o.seller, o.buying)
           m == Min({most, s})
           trade == exchangeV10(o.price, m, mw, ms, b, path)
<1>1. s \in Nat /\ b \in Nat /\ o.price \in Price
  BY CanSellType, CanBuyType DEF IsOffer
<1>2. m \in Nat /\ m <= most
  <2> HIDE DEF s
  <2> QED BY <1>1, MinOfTwo
<1> HIDE DEF s, b, m
<1>3. TradesWithin(trade, m, mw, ms)
  BY <1>1, <1>2, TradeExchange
<1> HIDE DEF trade
<1>4. TradesWithin(trade, most, mw, ms)
  BY <1>2, <1>3 DEF TradesWithin
<1> QED BY <1>4 DEF trade, s, b, m

\* What one side of a trade brings to the accounts, sheep for wheat.
Brought(sheep, wheat, sent, received) == OfNative(sheep, sent) - OfNative(wheat, received)

LEMMA BroughtType ==
    ASSUME NEW sheep, NEW wheat, NEW sent \in Int, NEW received \in Int
    PROVE  /\ Brought(sheep, wheat, sent, received) \in Int
           /\ OfNative(sheep, sent) \in Int /\ OfNative(wheat, -received) \in Int
           /\ OfNative(sheep, sent) + OfNative(wheat, -received)
                  = Brought(sheep, wheat, sent, received)
<1>1. OfNative(sheep, sent) \in Int /\ OfNative(wheat, received) \in Int
      /\ OfNative(wheat, -received) \in Int
  BY OfNativeType
<1>2. OfNative(wheat, -received) = -OfNative(wheat, received)
  BY DEF OfNative
<1> QED BY <1>1, <1>2 DEF Brought

\* The seller of an offer is paid and pays.
PaidBoth(L, a, sheep, wheat, sent, received, w1, w2) ==
    mustAddBalance(mustAddBalance(L, a, sheep, sent, w1), a, wheat, -received, w2)

LEMMA PayBoth ==
    ASSUME NEW L, IsLedger(L), NEW a \in DOMAIN L.acc, NEW sheep, NEW wheat,
           NEW sent \in Nat, NEW received \in Nat, NEW w1, Named(w1), NEW w2, Named(w2),
           NEW N, N = PaidBoth(L, a, sheep, wheat, sent, received, w1, w2)
    PROVE  /\ \E d \in Int : Moved(L, N, d)
           /\ Fine(N) => Moved(L, N, Brought(sheep, wheat, sent, received))
<1> DEFINE M == mustAddBalance(L, a, sheep, sent, w1)
<1>1. sent \in Int /\ -received \in Int
  OBVIOUS
<1>9. N = mustAddBalance(M, a, wheat, -received, w2)
  BY DEF PaidBoth
<1>2. (Fine(M) => Moved(L, M, OfNative(sheep, sent))) /\ \E d \in Int : Moved(L, M, d)
  BY <1>1, MustAddBalance
<1> HIDE DEF M
<1>3. PICK d \in Int : Moved(L, M, d)
  BY <1>2
<1>4. IsLedger(M) /\ a \in DOMAIN M.acc
  BY <1>3 DEF Moved
<1>5. (Fine(N) => Moved(M, N, OfNative(wheat, -received))) /\ \E e \in Int : Moved(M, N, e)
  BY <1>1, <1>4, <1>9, MustAddBalance
<1>6. PICK e \in Int : Moved(M, N, e)
  BY <1>5
<1>7. Moved(L, N, d + e) /\ d + e \in Int
  BY <1>3, <1>6, MovedOn
<1>8. ASSUME Fine(N) PROVE Moved(L, N, Brought(sheep, wheat, sent, received))
  <2>1. Fine(M)
    BY <1>6, <1>8 DEF Moved
  <2>2. Moved(L, M, OfNative(sheep, sent)) /\ Moved(M, N, OfNative(wheat, -received))
    BY <1>2, <1>5, <1>8, <2>1
  <2>3. /\ OfNative(sheep, sent) \in Int /\ OfNative(wheat, -received) \in Int
        /\ OfNative(sheep, sent) + OfNative(wheat, -received)
               = Brought(sheep, wheat, sent, received)
    BY <1>1, BroughtType
  <2>4. Moved(L, N, OfNative(sheep, sent) + OfNative(wheat, -received))
    BY <2>2, <2>3, MovedOn, Zenon
  <2> QED BY <2>3, <2>4
<1> QED BY <1>7, <1>8

\* An offer that sells wheat for sheep was crossed in L, within the limits of the taker.
Crossed(L, c, sheep, wheat, maxWheatReceived, maxSheepSend) ==
    /\ IsLedger(c.L)
    /\ Fine(c.L) => /\ Fine(L)
                    /\ c.wheat \in Nat /\ c.wheat <= maxWheatReceived
                    /\ c.sheep \in Nat /\ c.sheep <= maxSheepSend
                    /\ (c.wheat = 0) <=> (c.sheep = 0)
                    /\ Traded(L, c.L, Brought(sheep, wheat, c.sheep, c.wheat))

LEMMA CrossedIs ==
    ASSUME NEW id, NEW trade, NEW sold, NEW kept, NEW c, c = crossed(id, trade, sold, kept)
    PROVE  /\ c.wheat = trade.numWheatReceived /\ c.sheep = trade.numSheepSend
           /\ c.L = bookRest(IF trade.wheatStays THEN throw(sold, kept.err) ELSE sold, id,
                             IF trade.wheatStays THEN kept.numWheatReceived ELSE 0)
BY DEF crossed

LEMMA SettleCross ==
    ASSUME NEW L, IsLedger(L), Fine(L), NEW id \in DOMAIN L.offers, NEW o, o = L.offers[id],
           o.seller \in DOMAIN L.acc, NEW adjusted, adjusted.numWheatReceived \in Nat,
           NEW mw \in Nat, NEW ms \in Nat, NEW trade,
           TradesWithin(trade, adjusted.numWheatReceived, mw, ms),
           NEW c, c = settleCross(L, id, adjusted, trade)
    PROVE  Crossed(L, c, o.buying, o.selling, mw, ms)
<1> DEFINE T1 == throw(L, adjusted.err)
           T == throw(T1, trade.err)
           paid == mustAddBalance(T, o.seller, o.buying, trade.numSheepSend, "overflowed sheep balance")
           sold == mustAddBalance(paid, o.seller, o.selling, -trade.numWheatReceived,
                                  "overflowed wheat balance")
           rest == [o EXCEPT !.amount = adjusted.numWheatReceived - trade.numWheatReceived]
           kept == AdjustedAmount(sold, rest)
           D == Brought(o.buying, o.selling, trade.numSheepSend, trade.numWheatReceived)
<1>1. c = crossed(id, trade, sold, kept)
  BY DEF settleCross
<1>2. IsOffer(o)
  BY DEF IsLedger, AreOffers
<1>3. adjusted.numWheatReceived \in Nat
  OBVIOUS
<1>4. /\ trade.numWheatReceived \in Nat /\ trade.numSheepSend \in Nat
      /\ trade.numWheatReceived <= adjusted.numWheatReceived
      /\ trade.numWheatReceived <= mw /\ trade.numSheepSend <= ms
      /\ (trade.numWheatReceived = 0) <=> (trade.numSheepSend = 0)
  BY DEF TradesWithin
<1>5. Moved(L, T, 0)
  <2>1. Moved(L, T1, 0)
    BY MovedThrow
  <2>2. Moved(T1, T, 0)
    <3>1. IsLedger(T1)
      BY <2>1 DEF Moved
    <3> HIDE DEF T1
    <3> QED BY <3>1, MovedThrow
  <2>3. Moved(L, T, 0 + 0)
    BY <2>1, <2>2, MovedOn
  <2> QED BY <2>3
<1>6. IsLedger(T) /\ o.seller \in DOMAIN T.acc
  BY <1>5 DEF Moved
<1> HIDE DEF T1, T
<1>7. /\ \E d \in Int : Moved(T, sold, d)
      /\ Fine(sold) => Moved(T, sold, D)
  <2> DEFINE w1 == "overflowed sheep balance"
             w2 == "overflowed wheat balance"
  <2>1. Named(w1) /\ Named(w2)
    BY DEF Named
  <2>2. sold = PaidBoth(T, o.seller, o.buying, o.selling, trade.numSheepSend,
                        trade.numWheatReceived, w1, w2)
    BY DEF PaidBoth
  <2> HIDE DEF sold, paid, w1, w2, kept, rest
  <2>3. trade.numSheepSend \in Nat /\ trade.numWheatReceived \in Nat
    BY <1>4
  <2> QED BY <1>6, <2>1, <2>2, <2>3, PayBoth
<1>8. D \in Int
  BY <1>4, BroughtType
<1> HIDE DEF paid, sold, D
<1>9. PICK d \in Int : Moved(T, sold, d)
  BY <1>7
<1>10. /\ IsLedger(sold) /\ o.seller \in DOMAIN sold.acc /\ sold.offers = L.offers
       /\ Fine(sold) => Fine(T)
  BY <1>5, <1>6, <1>9 DEF Moved
<1>11. Fine(sold) => Traded(L, sold, D)
  <2> HAVE Fine(sold)
  <2>1. Moved(L, sold, 0 + D)
    BY <1>5, <1>7, <1>8, MovedOn
  <2>2. 0 + D = D
    BY <1>8
  <2> QED BY <2>1, <2>2, MovedIsTraded
<1>12. kept.numWheatReceived \in Nat
  <2>1. IsOffer(rest) /\ rest.seller = o.seller
    BY <1>2, <1>3, <1>4 DEF IsOffer
  <2> HIDE DEF rest
  <2> QED BY <1>10, <2>1, Adjusted DEF Exchanged
<1> HIDE DEF kept
<1> DEFINE S == IF trade.wheatStays THEN throw(sold, kept.err) ELSE sold
           left == IF trade.wheatStays THEN kept.numWheatReceived ELSE 0
<1>13. Moved(sold, S, 0)
  BY <1>10, MovedThrow, MovedNot
<1>14. /\ c.wheat = trade.numWheatReceived /\ c.sheep = trade.numSheepSend
       /\ c.L = bookRest(S, id, left)
  BY <1>1, CrossedIs
<1>15. left \in Nat
  BY <1>12
<1> HIDE DEF S, left
<1>16. IsLedger(S) /\ id \in DOMAIN S.offers /\ (Fine(S) => Fine(sold))
  BY <1>10, <1>13 DEF Moved
<1>17. IsLedger(c.L) /\ (Fine(c.L) => Fine(S) /\ Traded(S, c.L, 0))
  BY <1>14, <1>15, <1>16, BookRest
<1>18. ASSUME Fine(c.L) PROVE Traded(L, c.L, D)
  <2>1. Traded(L, sold, D) /\ Traded(sold, S, 0) /\ Traded(S, c.L, 0)
    BY <1>10, <1>11, <1>13, <1>16, <1>17, <1>18, MovedIsTraded
  <2>2. Traded(sold, c.L, 0)
    BY <1>10, <2>1, TradedAfter
  <2> QED BY <1>8, <2>1, <2>2, TradedAfter
<1> QED BY <1>4, <1>14, <1>17, <1>18 DEF Crossed, D

LEMMA CrossOffer ==
    ASSUME NEW L, IsLedger(L), Fine(L), NEW id \in DOMAIN L.offers, NEW o, o = L.offers[id],
           NEW mw \in Nat, NEW ms \in Nat, NEW path \in BOOLEAN, NEW c,
           c = crossOfferV10(L, id, mw, ms, path)
    PROVE  Crossed(L, c, o.buying, o.selling, mw, ms)
<1> DEFINE free == releaseLiabilities(L, o)
           p == free.offers[id]
           adjusted == AdjustedAmount(free, p)
           trade == exchangeV10(p.price,
                       Min({adjusted.numWheatReceived, canSellAtMost(free, p.seller, p.selling)}),
                       mw, ms, canBuyAtMost(free, p.seller, p.buying), path)
           none == [wheat |-> 0, sheep |-> 0, wheatStays |-> TRUE, taken |-> FALSE, L |-> free]
<1>1. c = IF ~Fine(free) THEN none ELSE settleCross(free, id, adjusted, trade)
  BY Zenon DEF crossOfferV10, crossReleased, Fine
<1>2. Moved(L, free, 0) /\ (Fine(free) => o.seller \in DOMAIN L.acc)
  BY Release DEF IsLedger, AreOffers
<1>3. IsLedger(free) /\ p = o /\ id \in DOMAIN free.offers /\ DOMAIN free.acc = DOMAIN L.acc
  BY <1>2 DEF Moved
<1> HIDE DEF free
<1>4. CASE ~Fine(free)
  <2>1. c.L = free
    BY <1>1, <1>4
  <2> QED BY <1>3, <1>4, <2>1 DEF Crossed
<1>5. CASE Fine(free)
  <2>1. c = settleCross(free, id, adjusted, trade)
    BY <1>1, <1>5
  <2>2. p.seller \in DOMAIN free.acc
    BY <1>2, <1>3, <1>5
  <2>5. IsOffer(p)
    BY <1>3 DEF IsLedger, AreOffers
  <2>6. adjusted.numWheatReceived \in Nat
    BY <1>3, <2>2, <2>5, Adjusted DEF Exchanged
  <2> HIDE DEF none, adjusted, p
  <2>7. TradesWithin(trade, adjusted.numWheatReceived, mw, ms)
    BY <1>3, <2>2, <2>5, <2>6, TradeOf
  <2> HIDE DEF trade
  <2>3. Crossed(free, c, p.buying, p.selling, mw, ms)
    BY <1>3, <1>5, <2>1, <2>2, <2>6, <2>7, SettleCross DEF p
  <2>4. ASSUME Fine(c.L) PROVE Traded(L, c.L, Brought(o.buying, o.selling, c.sheep, c.wheat))
    <3>1. /\ Traded(free, c.L, Brought(o.buying, o.selling, c.sheep, c.wheat))
          /\ c.sheep \in Nat /\ c.wheat \in Nat
      BY <1>3, <2>3, <2>4 DEF Crossed
    <3>2. Traded(L, free, 0)
      BY <1>2, MovedIsTraded
    <3>3. Brought(o.buying, o.selling, c.sheep, c.wheat) \in Int
      BY <3>1, BroughtType
    <3> QED BY <3>1, <3>2, <3>3, TradedAfter
  <2> QED BY <1>3, <2>3, <2>4 DEF Crossed
<1> QED BY <1>4, <1>5

-----------------------------------------------------------------------------
(* Conversions. *)

\* What a round of a conversion may have come to from the ledger L.
RoundOf(L, s, sheep, wheat, maxWheatReceive, maxSheepSend) ==
    /\ s = [L |-> s.L, sheep |-> s.sheep, wheat |-> s.wheat, result |-> s.result]
    /\ IsLedger(s.L)
    /\ Fine(s.L) => /\ s.wheat \in Nat /\ s.wheat <= maxWheatReceive
                    /\ s.sheep \in Nat /\ s.sheep <= maxSheepSend
                    /\ (s.wheat = 0) <=> (s.sheep = 0)
                    /\ Traded(L, s.L, Brought(sheep, wheat, s.sheep, s.wheat))
    /\ ~Fine(s.L) => s.result = "throw"

FirstRound(L, maxSheepSend, maxWheatReceive) ==
    [L |-> L, sheep |-> 0, wheat |-> 0,
     result |-> IF maxWheatReceive > 0 /\ maxSheepSend > 0 THEN "" ELSE "ok"]

Rounds(L) == Cardinality(DOMAIN L.offers) + 1

AreRounds(F, n, L, sheep, maxSheepSend, wheat, maxWheatReceive, path, filter) ==
    F = [k \in 0..n |->
            IF k = 0 THEN FirstRound(L, maxSheepSend, maxWheatReceive)
            ELSE crossBest(F[k - 1], sheep, maxSheepSend, wheat, maxWheatReceive, path, filter)]

LEMMA ConversionIs ==
    ASSUME NEW L, NEW sheep, NEW ms, NEW wheat, NEW mw, NEW path, NEW filter
    PROVE  convertWithOffers(L, sheep, ms, wheat, mw, path, filter)
               = (CHOOSE F : AreRounds(F, Rounds(L), L, sheep, ms, wheat, mw, path, filter))[Rounds(L)]
BY Zenon DEF convertWithOffers, AreRounds, Rounds, FirstRound

LEMMA RoundsExist ==
    ASSUME NEW n \in Nat, NEW L, NEW sheep, NEW ms, NEW wheat, NEW mw, NEW path, NEW filter
    PROVE  \E F : AreRounds(F, n, L, sheep, ms, wheat, mw, path, filter)
<1> DEFINE Step(s) == crossBest(s, sheep, ms, wheat, mw, path, filter)
           P(k) == \E F : AreRounds(F, k, L, sheep, ms, wheat, mw, path, filter)
           N == {k \in Nat : P(k)}
<1>1. P(0)
  <2> DEFINE F == [k \in 0..0 |-> FirstRound(L, ms, mw)]
  <2>1. F = [k \in 0..0 |-> IF k = 0 THEN FirstRound(L, ms, mw) ELSE Step(F[k - 1])]
    <3> HIDE DEF Step
    <3> QED OBVIOUS
  <2> QED BY <2>1, Zenon DEF AreRounds
<1>2. ASSUME NEW k \in Nat, P(k) PROVE P(k + 1)
  <2>1. PICK F : F = [j \in 0..k |-> IF j = 0 THEN FirstRound(L, ms, mw) ELSE Step(F[j - 1])]
    BY <1>2, Zenon DEF AreRounds
  <2> DEFINE G == [j \in 0..(k + 1) |-> IF j = k + 1 THEN Step(F[k]) ELSE F[j]]
  <2> HIDE DEF Step
  <2>2. ASSUME NEW j \in 0..(k + 1)
        PROVE  G[j] = IF j = 0 THEN FirstRound(L, ms, mw) ELSE Step(G[j - 1])
    <3>1. CASE j = k + 1
      <4>1. G[j] = Step(F[k]) /\ j - 1 = k /\ j # 0 /\ G[k] = F[k]
        BY <3>1
      <4> QED BY <4>1
    <3>2. CASE j # k + 1
      <4>1. j \in 0..k /\ G[j] = F[j]
        BY <3>2
      <4>2. F[j] = IF j = 0 THEN FirstRound(L, ms, mw) ELSE Step(F[j - 1])
        BY <2>1, <4>1
      <4>3. j # 0 => G[j - 1] = F[j - 1]
        BY <4>1
      <4> QED BY <4>1, <4>2, <4>3
    <3> QED BY <3>1, <3>2
  <2>3. G = [j \in 0..(k + 1) |-> G[j]]
    OBVIOUS
  <2> HIDE DEF G
  <2>4. G = [j \in 0..(k + 1) |-> IF j = 0 THEN FirstRound(L, ms, mw) ELSE Step(G[j - 1])]
    BY <2>2, <2>3
  <2> QED BY <2>4, Zenon DEF AreRounds, Step
<1> HIDE DEF P
<1>3. Nat \subseteq N
  <2>1. 0 \in N /\ \A k \in Nat : k \in N => k + 1 \in N
    BY <1>1, <1>2
  <2> HIDE DEF N
  <2> QED BY <2>1, Induction
<1> QED BY <1>3 DEF P

LEMMA BestOffer ==
    ASSUME NEW L, NEW sheep, NEW wheat, NEW id \in bestOffer(L, sheep, wheat)
    PROVE  id \in DOMAIN L.offers /\ L.offers[id].buying = sheep /\ L.offers[id].selling = wheat
BY DEF bestOffer

\* A round stops with a result, or crosses the best offer.
Crosses(s, t, id, sheep, maxSheepSend, wheat, maxWheatReceive, path) ==
    /\ ~Named(s.result) /\ id \in bestOffer(s.L, sheep, wheat)
    /\ t = countCross(s, crossOfferV10(s.L, id, maxWheatReceive - s.wheat,
                                       maxSheepSend - s.sheep, path),
                      maxSheepSend, maxWheatReceive)

LEMMA RoundIs ==
    ASSUME NEW s, NEW sheep, NEW ms, NEW wheat, NEW mw, NEW path, NEW filter, NEW t,
           t = crossBest(s, sheep, ms, wheat, mw, path, filter)
    PROVE  \/ t = s
           \/ ~Named(s.result) /\ \E x : t = [s EXCEPT !.result = x]
           \/ \E id : Crosses(s, t, id, sheep, ms, wheat, mw, path)
<1> DEFINE best == bestOffer(s.L, sheep, wheat)
           id == CHOOSE i \in best : TRUE
<1>1. CASE Named(s.result)
  BY <1>1, Zenon DEF crossBest, Named
<1>2. CASE ~Named(s.result) /\ best = {}
  <2>1. t = [s EXCEPT !.result = "partial"]
    BY <1>2, Zenon DEF crossBest, Named
  <2> QED BY <1>2, <2>1, Zenon
<1>3. CASE ~Named(s.result) /\ best # {} /\ filter[id] # "keep"
  <2>1. t = [s EXCEPT !.result = filter[id]]
    BY <1>3, Zenon DEF crossBest, Named
  <2> QED BY <1>3, <2>1, Zenon
<1>4. CASE ~Named(s.result) /\ best # {} /\ filter[id] = "keep"
  <2>1. t = countCross(s, crossOfferV10(s.L, id, mw - s.wheat, ms - s.sheep, path), ms, mw)
    BY <1>4, Zenon DEF crossBest, Named
  <2>2. id \in best
    BY <1>4, Zenon
  <2>3. Crosses(s, t, id, sheep, ms, wheat, mw, path)
    BY <1>4, <2>1, <2>2, Zenon DEF Crosses
  <2> QED BY <2>3
<1> QED BY <1>1, <1>2, <1>3, <1>4, Zenon

LEMMA CountIs ==
    ASSUME NEW s, NEW c, NEW ms, NEW mw, NEW t, t = countCross(s, c, ms, mw)
    PROVE  /\ t = [L |-> t.L, sheep |-> t.sheep, wheat |-> t.wheat, result |-> t.result]
           /\ t.L = c.L /\ t.sheep = s.sheep + c.sheep /\ t.wheat = s.wheat + c.wheat
           /\ ~Fine(c.L) => t.result = "throw"
<1>1. ~Fine(c.L) => t.result = "throw"
  BY DEF countCross, Fine
<1> QED BY <1>1 DEF countCross

LEMMA BroughtPlus ==
    ASSUME NEW sheep, NEW wheat, NEW s \in Int, NEW w \in Int, NEW s2 \in Int, NEW w2 \in Int
    PROVE  Brought(sheep, wheat, s, w) + Brought(sheep, wheat, s2, w2)
               = Brought(sheep, wheat, s + s2, w + w2)
BY DEF Brought, OfNative

LEMMA RoundKeeps ==
    ASSUME NEW L, IsLedger(L), NEW sheep, NEW ms \in Nat, NEW wheat, NEW mw \in Nat,
           NEW path \in BOOLEAN, NEW filter,
           NEW s, RoundOf(L, s, sheep, wheat, mw, ms),
           NEW t, t = crossBest(s, sheep, ms, wheat, mw, path, filter)
    PROVE  RoundOf(L, t, sheep, wheat, mw, ms)
<1>1. CASE t = s
  BY <1>1
<1>2. ASSUME ~Named(s.result), NEW x, t = [s EXCEPT !.result = x]
      PROVE  RoundOf(L, t, sheep, wheat, mw, ms)
  <2>1. Fine(s.L)
    <3>1. Named("throw")
      BY DEF Named
    <3> QED BY <1>2, <3>1 DEF RoundOf
  <2>2. /\ t = [L |-> t.L, sheep |-> t.sheep, wheat |-> t.wheat, result |-> t.result]
        /\ t.L = s.L /\ t.sheep = s.sheep /\ t.wheat = s.wheat
    BY <1>2 DEF RoundOf
  <2> QED BY <2>1, <2>2 DEF RoundOf
<1>3. ASSUME NEW id, Crosses(s, t, id, sheep, ms, wheat, mw, path)
      PROVE  RoundOf(L, t, sheep, wheat, mw, ms)
  <2> DEFINE w == mw - s.wheat
             h == ms - s.sheep
             c == crossOfferV10(s.L, id, w, h, path)
  <2>1. Fine(s.L)
    <3>1. Named("throw")
      BY DEF Named
    <3> QED BY <1>3, <3>1 DEF RoundOf, Crosses
  <2>2. /\ IsLedger(s.L) /\ s.wheat \in Nat /\ s.wheat <= mw
        /\ s.sheep \in Nat /\ s.sheep <= ms /\ ((s.wheat = 0) <=> (s.sheep = 0))
        /\ Traded(L, s.L, Brought(sheep, wheat, s.sheep, s.wheat))
    BY <2>1 DEF RoundOf
  <2>3. w \in Nat /\ h \in Nat /\ mw = w + s.wheat /\ ms = h + s.sheep
    BY <2>2
  <2>4. id \in DOMAIN s.L.offers /\ s.L.offers[id].buying = sheep /\ s.L.offers[id].selling = wheat
    BY <1>3, BestOffer DEF Crosses
  <2>5. t = countCross(s, c, ms, mw)
    BY <1>3 DEF Crosses
  <2> HIDE DEF w, h
  <2>6. Crossed(s.L, c, sheep, wheat, w, h)
    BY <2>1, <2>2, <2>3, <2>4, CrossOffer
  <2> HIDE DEF c
  <2>7. /\ t = [L |-> t.L, sheep |-> t.sheep, wheat |-> t.wheat, result |-> t.result]
        /\ t.L = c.L /\ t.sheep = s.sheep + c.sheep /\ t.wheat = s.wheat + c.wheat
        /\ ~Fine(c.L) => t.result = "throw"
    BY <2>5, CountIs
  <2>8. ASSUME Fine(t.L)
        PROVE  /\ t.wheat \in Nat /\ t.wheat <= mw /\ t.sheep \in Nat /\ t.sheep <= ms
               /\ (t.wheat = 0) <=> (t.sheep = 0)
               /\ Traded(L, t.L, Brought(sheep, wheat, t.sheep, t.wheat))
    <3>1. /\ c.wheat \in Nat /\ c.wheat <= w /\ c.sheep \in Nat /\ c.sheep <= h
          /\ ((c.wheat = 0) <=> (c.sheep = 0))
          /\ Traded(s.L, c.L, Brought(sheep, wheat, c.sheep, c.wheat))
      BY <2>6, <2>7, <2>8 DEF Crossed
    <3>2. /\ t.wheat \in Nat /\ t.wheat <= mw /\ t.sheep \in Nat /\ t.sheep <= ms
          /\ (t.wheat = 0) <=> (t.sheep = 0)
      BY <3>1, <2>2, <2>3, <2>7
    <3>3. /\ Brought(sheep, wheat, s.sheep, s.wheat) \in Int
          /\ Brought(sheep, wheat, c.sheep, c.wheat) \in Int
      BY <3>1, <2>2, BroughtType
    <3>4. Brought(sheep, wheat, s.sheep, s.wheat) + Brought(sheep, wheat, c.sheep, c.wheat)
              = Brought(sheep, wheat, t.sheep, t.wheat)
      BY <3>1, <2>2, <2>7, BroughtPlus
    <3>5. Traded(L, c.L, Brought(sheep, wheat, t.sheep, t.wheat))
      BY <2>2, <3>1, <3>3, <3>4, TradedOn
    <3> QED BY <3>2, <3>5, <2>7
  <2>9. IsLedger(t.L)
    BY <2>6, <2>7 DEF Crossed
  <2> QED BY <2>7, <2>8, <2>9 DEF RoundOf
<1> QED BY <1>1, <1>2, <1>3, RoundIs, Zenon

LEMMA FirstRoundIs ==
    ASSUME NEW L, IsLedger(L), Fine(L), NEW sheep, NEW ms \in Nat, NEW wheat, NEW mw \in Nat
    PROVE  RoundOf(L, FirstRound(L, ms, mw), sheep, wheat, mw, ms)
<1> DEFINE s == FirstRound(L, ms, mw)
<1>1. /\ s = [L |-> s.L, sheep |-> s.sheep, wheat |-> s.wheat, result |-> s.result]
      /\ s.L = L /\ s.sheep = 0 /\ s.wheat = 0
  BY DEF FirstRound
<1>2. Brought(sheep, wheat, 0, 0) = 0
  BY DEF Brought, OfNative
<1>3. Traded(L, L, 0)
  BY MovedNot, MovedIsTraded
<1> HIDE DEF s
<1> QED BY <1>1, <1>2, <1>3 DEF RoundOf, s

LEMMA Convert ==
    ASSUME NEW L, IsLedger(L), Fine(L), NEW sheep, NEW ms \in Nat, NEW wheat, NEW mw \in Nat,
           NEW path \in BOOLEAN, NEW filter
    PROVE  RoundOf(L, convertWithOffers(L, sheep, ms, wheat, mw, path, filter), sheep, wheat, mw, ms)
<1> DEFINE n == Rounds(L)
           R(s) == RoundOf(L, s, sheep, wheat, mw, ms)
           F == CHOOSE F : AreRounds(F, n, L, sheep, ms, wheat, mw, path, filter)
           N == {k \in Nat : k <= n => R(F[k])}
<1>1. n \in Nat
  BY FS_CardinalityType DEF Rounds, IsLedger, AreOffers
<1>2. AreRounds(F, n, L, sheep, ms, wheat, mw, path, filter)
  <2> HIDE DEF n
  <2> QED BY <1>1, RoundsExist, Zenon
<1>3. convertWithOffers(L, sheep, ms, wheat, mw, path, filter) = F[n]
  BY ConversionIs
<1> HIDE DEF F, n
<1>4. \A k \in 0..n : F[k] = IF k = 0 THEN FirstRound(L, ms, mw)
                             ELSE crossBest(F[k - 1], sheep, ms, wheat, mw, path, filter)
  BY <1>2 DEF AreRounds
<1>5. R(F[0])
  <2>1. F[0] = FirstRound(L, ms, mw)
    BY <1>1, <1>4
  <2> QED BY <2>1, FirstRoundIs
<1>6. ASSUME NEW k \in Nat, k + 1 <= n, R(F[k]) PROVE R(F[k + 1])
  <2>1. F[k + 1] = crossBest(F[k], sheep, ms, wheat, mw, path, filter)
    <3>1. k + 1 \in 0..n /\ k + 1 # 0 /\ (k + 1) - 1 = k
      BY <1>1, <1>6
    <3> QED BY <3>1, <1>4
  <2> QED BY <2>1, <1>6, RoundKeeps
<1> HIDE DEF R
<1>7. Nat \subseteq N
  <2>1. 0 \in N
    BY <1>5
  <2>2. \A k \in Nat : k \in N => k + 1 \in N
    BY <1>1, <1>6
  <2> HIDE DEF N
  <2> QED BY <2>1, <2>2, Induction
<1>8. R(F[n])
  BY <1>1, <1>7
<1> QED BY <1>3, <1>8 DEF R

-----------------------------------------------------------------------------
(* Path payments. *)

\* So much of an asset is still to be sent, for what has been received since L.
HopOf(L, st) ==
    /\ st = [code |-> st.code, L |-> st.L, asset |-> st.asset, amount |-> st.amount]
    /\ st.code = "ok" => /\ IsLedger(st.L) /\ Fine(st.L) /\ st.amount \in Nat
                         /\ Traded(L, st.L, OfNative(st.asset, st.amount))

\* The code of a hop that converted r, for the need of so much.
HopCode(r, amount) ==
    IF r.result = "cross self" THEN "cross self"
    ELSE IF r.result = "ok" /\ r.wheat = amount THEN "ok" ELSE "too few offers"

HopFilter(st, src) ==
    [i \in DOMAIN st.L.offers |-> IF st.L.offers[i].seller = src THEN "cross self" ELSE "keep"]

HopTo(st, t, curA, r) ==
    \/ t = st
    \/ t = [st EXCEPT !.code = "no issuer"]
    \/ /\ st.code = "ok"
       /\ t = [code |-> HopCode(r, st.amount), L |-> r.L, asset |-> curA, amount |-> r.sheep]

LEMMA HopIs ==
    ASSUME NEW st, NEW curA, NEW src
    PROVE  HopTo(st, Hop(st, curA, src), curA,
                 convertWithOffers(st.L, curA, INT64_MAX, st.asset, st.amount, TRUE,
                                   HopFilter(st, src)))
BY Zenon DEF Hop, HopFilter, HopCode, HopTo

LEMMA HopCodeOk ==
    ASSUME NEW r, NEW amount, HopCode(r, amount) = "ok"
    PROVE  r.result = "ok" /\ r.wheat = amount
BY DEF HopCode

LEMMA HopKeeps ==
    ASSUME NEW L, IsLedger(L), NEW st, HopOf(L, st), NEW curA, NEW src, NEW t,
           t = Hop(st, curA, src)
    PROVE  HopOf(L, t)
<1> DEFINE r == convertWithOffers(st.L, curA, INT64_MAX, st.asset, st.amount, TRUE, HopFilter(st, src))
           code == HopCode(r, st.amount)
<1>1. CASE t = [st EXCEPT !.code = "no issuer"]
  <2>1. /\ t = [code |-> t.code, L |-> t.L, asset |-> t.asset, amount |-> t.amount]
        /\ t.code # "ok"
    BY <1>1 DEF HopOf
  <2> QED BY <2>1 DEF HopOf
<1>2. CASE /\ st.code = "ok"
           /\ t = [code |-> code, L |-> r.L, asset |-> curA, amount |-> r.sheep]
  <2>1. /\ t = [code |-> t.code, L |-> t.L, asset |-> t.asset, amount |-> t.amount]
        /\ t.code = code /\ t.L = r.L /\ t.asset = curA /\ t.amount = r.sheep
    <3> HIDE DEF code, r
    <3> QED BY <1>2
  <2>2. /\ IsLedger(st.L) /\ Fine(st.L) /\ st.amount \in Nat
        /\ Traded(L, st.L, OfNative(st.asset, st.amount))
    BY <1>2 DEF HopOf
  <2>3. RoundOf(st.L, r, curA, st.asset, st.amount, INT64_MAX)
    BY <2>2, Convert, Int64Assumption
  <2>4. ASSUME t.code = "ok"
        PROVE  /\ IsLedger(t.L) /\ Fine(t.L) /\ t.amount \in Nat
               /\ Traded(L, t.L, OfNative(t.asset, t.amount))
    <3>1. r.result = "ok" /\ r.wheat = st.amount
      BY <2>1, <2>4, HopCodeOk
    <3> HIDE DEF r, code
    <3>2. Fine(r.L)
      BY <2>3, <3>1 DEF RoundOf
    <3>3. /\ IsLedger(r.L) /\ r.sheep \in Nat /\ r.wheat \in Nat
          /\ Traded(st.L, r.L, Brought(curA, st.asset, r.sheep, st.amount))
      BY <2>3, <3>1, <3>2 DEF RoundOf
    <3>4. /\ OfNative(st.asset, st.amount) \in Int
          /\ Brought(curA, st.asset, r.sheep, st.amount) \in Int
          /\ OfNative(st.asset, st.amount) + Brought(curA, st.asset, r.sheep, st.amount)
                 = OfNative(curA, r.sheep)
      BY <2>2, <3>3 DEF Brought, OfNative
    <3>5. Traded(L, r.L, OfNative(curA, r.sheep))
      BY <2>2, <3>3, <3>4, TradedOn
    <3> QED BY <2>1, <3>2, <3>3, <3>5
  <2> QED BY <2>1, <2>4 DEF HopOf
<1>3. CASE t = st
  BY <1>3
<1>4. HopTo(st, t, curA, r)
  BY HopIs
<1> HIDE DEF r
<1> QED BY <1>1, <1>2, <1>3, <1>4, Zenon DEF HopTo

AreHops(F, n, start, path, src) ==
    F = [k \in 0..n |-> IF k = 0 THEN start ELSE Hop(F[k - 1], path[n + 1 - k], src)]

\* The first m of n hops.
AreFirstHops(F, m, n, start, path, src) ==
    F = [k \in 0..m |-> IF k = 0 THEN start ELSE Hop(F[k - 1], path[n + 1 - k], src)]

LEMMA HopsAre ==
    ASSUME NEW start, NEW path, NEW src
    PROVE  Hops(start, path, src) = (CHOOSE F : AreHops(F, Len(path), start, path, src))[Len(path)]
BY Zenon DEF Hops, AreHops

LEMMA HopsExist ==
    ASSUME NEW n \in Nat, NEW start, NEW path, NEW src
    PROVE  \E F : AreHops(F, n, start, path, src)
<1> DEFINE Step(s, k) == Hop(s, path[n + 1 - k], src)
           P(k) == \E F : AreFirstHops(F, k, n, start, path, src)
           N == {k \in Nat : P(k)}
<1>1. P(0)
  <2> DEFINE F == [k \in 0..0 |-> start]
  <2>1. F = [k \in 0..0 |-> IF k = 0 THEN start ELSE Step(F[k - 1], k)]
    <3> HIDE DEF Step
    <3> QED OBVIOUS
  <2> QED BY <2>1, Zenon DEF AreFirstHops
<1>2. ASSUME NEW k \in Nat, P(k) PROVE P(k + 1)
  <2>1. PICK F : F = [j \in 0..k |-> IF j = 0 THEN start ELSE Step(F[j - 1], j)]
    BY <1>2, Zenon DEF AreFirstHops
  <2> DEFINE G == [j \in 0..(k + 1) |-> IF j = k + 1 THEN Step(F[k], j) ELSE F[j]]
  <2> HIDE DEF Step
  <2>2. ASSUME NEW j \in 0..(k + 1)
        PROVE  G[j] = IF j = 0 THEN start ELSE Step(G[j - 1], j)
    <3>1. CASE j = k + 1
      <4>1. G[j] = Step(F[k], j) /\ j - 1 = k /\ j # 0 /\ G[k] = F[k]
        BY <3>1
      <4> QED BY <4>1
    <3>2. CASE j # k + 1
      <4>1. j \in 0..k /\ G[j] = F[j]
        BY <3>2
      <4>2. F[j] = IF j = 0 THEN start ELSE Step(F[j - 1], j)
        BY <2>1, <4>1
      <4>3. j # 0 => G[j - 1] = F[j - 1]
        BY <4>1
      <4> QED BY <4>1, <4>2, <4>3
    <3> QED BY <3>1, <3>2
  <2>3. G = [j \in 0..(k + 1) |-> G[j]]
    OBVIOUS
  <2> HIDE DEF G
  <2>4. G = [j \in 0..(k + 1) |-> IF j = 0 THEN start ELSE Step(G[j - 1], j)]
    BY <2>2, <2>3
  <2> QED BY <2>4, Zenon DEF AreFirstHops, Step
<1> HIDE DEF P
<1>3. Nat \subseteq N
  <2>1. 0 \in N /\ \A k \in Nat : k \in N => k + 1 \in N
    BY <1>1, <1>2
  <2> HIDE DEF N
  <2> QED BY <2>1, Induction
<1>4. P(n)
  BY <1>3
<1> QED BY <1>4, Zenon DEF P, AreFirstHops, AreHops

LEMMA HopsKeep ==
    ASSUME NEW L, IsLedger(L), NEW start, HopOf(L, start), NEW path, Len(path) \in Nat, NEW src
    PROVE  HopOf(L, Hops(start, path, src))
<1> DEFINE n == Len(path)
           F == CHOOSE F : AreHops(F, n, start, path, src)
           N == {k \in Nat : k <= n => HopOf(L, F[k])}
<1>1. AreHops(F, n, start, path, src)
  BY HopsExist, Zenon
<1>2. Hops(start, path, src) = F[n]
  BY HopsAre
<1> HIDE DEF F
<1>3. \A k \in 0..n : F[k] = IF k = 0 THEN start ELSE Hop(F[k - 1], path[n + 1 - k], src)
  BY <1>1 DEF AreHops
<1>4. F[0] = start
  BY <1>3
<1>5. ASSUME NEW k \in Nat, k + 1 <= n, HopOf(L, F[k]) PROVE HopOf(L, F[k + 1])
  <2>1. F[k + 1] = Hop(F[k], path[n + 1 - (k + 1)], src)
    <3>1. k + 1 \in 0..n /\ k + 1 # 0 /\ (k + 1) - 1 = k
      BY <1>5
    <3> QED BY <3>1, <1>3
  <2> HIDE DEF n
  <2> QED BY <2>1, <1>5, HopKeeps
<1>6. Nat \subseteq N
  <2>1. 0 \in N
    BY <1>4
  <2>2. \A k \in Nat : k \in N => k + 1 \in N
    BY <1>5
  <2> HIDE DEF N
  <2> QED BY <2>1, <2>2, Induction
<1>7. HopOf(L, F[n])
  BY <1>6
<1> QED BY <1>2, <1>7

LEMMA DebitPays ==
    ASSUME NEW L, IsLedger(L), NEW end, HopOf(L, end), NEW op, op.src \in DOMAIN L.acc,
           NEW bypass, NEW r, r = Debit(end, op, bypass), r.code = "ok"
    PROVE  Traded(L, r.L, 0)
<1> DEFINE debited == addBalance(end.L, op.src, end.asset, -end.amount)
<1>1. end.code = "ok" /\ debited.ok /\ r.L = debited.L
  BY DEF Debit, Fail, Done
<1>2. /\ IsLedger(end.L) /\ end.amount \in Nat /\ -end.amount \in Int
      /\ Traded(L, end.L, OfNative(end.asset, end.amount))
  BY <1>1 DEF HopOf
<1>3. op.src \in DOMAIN end.L.acc
  BY <1>2 DEF Traded
<1>4. Moved(end.L, r.L, OfNative(end.asset, -end.amount))
  <2>1. Moved(end.L, debited.L, IF debited.ok THEN OfNative(end.asset, -end.amount) ELSE 0)
    BY <1>2, <1>3, AddBalance
  <2> QED BY <1>1, <2>1
<1>5. Traded(end.L, r.L, OfNative(end.asset, -end.amount))
  BY <1>2, <1>4, MovedIsTraded
<1>6. /\ OfNative(end.asset, end.amount) \in Int /\ OfNative(end.asset, -end.amount) \in Int
      /\ OfNative(end.asset, end.amount) + OfNative(end.asset, -end.amount) = 0
  BY <1>2 DEF OfNative
<1> QED BY <1>2, <1>5, <1>6, TradedOn

LEMMA SetHoldingFine ==
    ASSUME NEW L, LedgerFields(L), NEW a, NEW asset, NEW h
    PROVE  Fine(SetHolding(L, a, asset, h)) <=> Fine(L)
BY DEF LedgerFields, SetHolding, Fine

LEMMA AddBalanceFine ==
    ASSUME NEW L, IsLedger(L), NEW a, NEW asset, NEW delta
    PROVE  Fine(addBalance(L, a, asset, delta).L) <=> Fine(L)
<1>1. \/ addBalance(L, a, asset, delta).L = L
      \/ \E h : addBalance(L, a, asset, delta).L = SetHolding(L, a, asset, h)
  <2>1. \A ok, M : Result(ok, M).L = M
    BY DEF Result
  <2> QED BY <2>1, Zenon DEF addBalance
<1>2. LedgerFields(L)
  BY DEF IsLedger
<1> QED BY <1>1, <1>2, SetHoldingFine, Zenon

\* Where the payment starts.
Credited(L, op) ==
    [code |-> "ok", L |-> addBalance(L, op.dest, op.destAsset, op.destAmount).L,
     asset |-> op.destAsset, amount |-> op.destAmount]

LEMMA PathPaymentIs ==
    ASSUME NEW L, NEW op, NEW r, r = PathPayment(L, op), r.code = "ok"
    PROVE  /\ op.destAsset = Native => op.dest \in DOMAIN L.acc
           /\ addBalance(L, op.dest, op.destAsset, op.destAmount).ok
           /\ \E bypass :
                r = Debit(Hops(Credited(L, op), <<op.sendAsset>> \o op.path, op.src), op, bypass)
<1> DEFINE to == op.destAsset
           bypass == /\ to # Native /\ op.path = <<>> /\ op.sendAsset = to
                     /\ Issuer[to] = op.dest
<1>1. \A code, M : Fail(code, M).code = code
  BY DEF Fail
<1>2. bypass \/ exists(L, op.dest)
  BY <1>1 DEF PathPayment
<1>3. to = Native => op.dest \in DOMAIN L.acc
  BY <1>2 DEF exists
<1>4. addBalance(L, op.dest, to, op.destAmount).ok
  <2> DEFINE full == IF to = Native THEN "malformed" ELSE "line full"
  <2>1. full # "ok"
    OBVIOUS
  <2>2. ASSUME ~addBalance(L, op.dest, to, op.destAmount).ok
        PROVE  \/ r = Fail("no destination", L) \/ r = Fail("no issuer", L)
               \/ r = Fail("no trust", L) \/ r = Fail("not authorized", L) \/ r = Fail(full, L)
    BY <2>2, Zenon DEF PathPayment
  <2> HIDE DEF full
  <2>3. \A code : r = Fail(code, L) => code = "ok"
    BY <1>1
  <2>4. /\ r # Fail("no destination", L) /\ r # Fail("no issuer", L)
        /\ r # Fail("no trust", L) /\ r # Fail("not authorized", L) /\ r # Fail(full, L)
    BY <2>1, <2>3
  <2> QED BY <2>2, <2>4, Zenon
<1>5. r = Debit(Hops(Credited(L, op), <<op.sendAsset>> \o op.path, op.src), op, bypass)
  BY <1>1 DEF PathPayment, Credited
<1> QED BY <1>3, <1>4, <1>5

LEMMA PathLength ==
    ASSUME NEW S, NEW x \in S, NEW path \in Seq(S)
    PROVE  Len(<<x>> \o path) \in Nat
OBVIOUS

LEMMA PathPaymentKeeps ==
    ASSUME NEW L, IsLedger(L), Fine(L), NEW op, op.src \in DOMAIN L.acc,
           op.destAmount \in Nat, NEW S, op.sendAsset \in S, op.path \in Seq(S),
           NEW r, r = PathPayment(L, op), r.code = "ok"
    PROVE  Traded(L, r.L, 0)
<1> DEFINE credited == addBalance(L, op.dest, op.destAsset, op.destAmount)
           start == Credited(L, op)
           path == <<op.sendAsset>> \o op.path
<1>1. /\ op.destAsset = Native => op.dest \in DOMAIN L.acc
      /\ credited.ok
      /\ \E bypass : r = Debit(Hops(start, path, op.src), op, bypass)
  BY PathPaymentIs
<1>2. op.destAmount \in Int
  OBVIOUS
<1>3. Moved(L, credited.L, OfNative(op.destAsset, op.destAmount))
  <2>1. Moved(L, credited.L, IF credited.ok THEN OfNative(op.destAsset, op.destAmount) ELSE 0)
    BY <1>1, <1>2, AddBalance
  <2> QED BY <1>1, <2>1
<1>4. /\ start = [code |-> start.code, L |-> start.L, asset |-> start.asset, amount |-> start.amount]
      /\ start.L = credited.L /\ start.asset = op.destAsset /\ start.amount = op.destAmount
  BY DEF Credited
<1>5. IsLedger(credited.L) /\ Traded(L, credited.L, OfNative(op.destAsset, op.destAmount))
  BY <1>3, MovedIsTraded DEF Moved
<1>6. Fine(credited.L)
  BY AddBalanceFine
<1>7. Len(path) \in Nat
  BY PathLength
<1> HIDE DEF credited, start, path
<1>8. HopOf(L, start)
  BY <1>4, <1>5, <1>6 DEF HopOf
<1>9. HopOf(L, Hops(start, path, op.src))
  BY <1>7, <1>8, HopsKeep
<1> QED BY <1>1, <1>9, DebitPays

LEMMA PaymentKeeps ==
    ASSUME NEW L, IsLedger(L), Fine(L), NEW op, op.src \in DOMAIN L.acc, op.amount \in Nat,
           NEW r, r = Payment(L, op), r.code = "ok"
    PROVE  Traded(L, r.L, 0)
<1> DEFINE o == [src |-> op.src, dest |-> op.dest, path |-> <<>>,
                 sendAsset |-> op.asset, destAsset |-> op.asset,
                 sendMax |-> op.amount, destAmount |-> op.amount]
           p == PathPayment(L, o)
<1>1. r = Done(L) \/ r = p
  <2>1. \A M : Fail("internal error", M).code # "ok"
    BY DEF Fail
  <2> QED BY <2>1 DEF Payment
<1>2. CASE r = Done(L)
  <2>1. r.L = L
    BY <1>2 DEF Done
  <2> QED BY <2>1, MovedNot, MovedIsTraded
<1>3. CASE r = p
  <2>1. /\ o.src = op.src /\ o.destAmount = op.amount
        /\ o.sendAsset \in {op.asset} /\ o.path = <<>> /\ <<>> \in Seq({op.asset})
    OBVIOUS
  <2> HIDE DEF o
  <2> QED BY <1>3, <2>1, PathPaymentKeeps
<1> QED BY <1>1, <1>2, <1>3

-----------------------------------------------------------------------------
(* Ledgers that add up, and the steps between them. *)

Conserved(L) == L.totalCoins = L.feePool + Lumens(L)

Counted(L) ==
    /\ \A a \in DOMAIN L.acc : L.acc[a].numSubEntries = Entries(L, a)
    /\ Owners(L) \subseteq DOMAIN L.acc

\* The identifiers of offers have been handed out.
Numbered(L) == \A i \in DOMAIN L.offers : i <= L.idPool

Sound(L) == IsLedger(L) /\ Conserved(L) /\ Counted(L) /\ Numbered(L)

\* Sequence numbers grow, and an account that goes or comes is below or above those
\* that accounts start with in this ledger.
Advances(L, M) ==
    /\ M.ledgerSeq = L.ledgerSeq
    /\ \A a \in DOMAIN L.acc \cap DOMAIN M.acc : M.acc[a].seqNum >= L.acc[a].seqNum
    /\ \A a \in DOMAIN M.acc \ DOMAIN L.acc :
          M.acc[a].seqNum >= getStartingSequenceNumber(L, SeqPerLedger)
    /\ \A a \in DOMAIN L.acc \ DOMAIN M.acc :
          L.acc[a].seqNum < getStartingSequenceNumber(L, SeqPerLedger)

\* M is L after steps that keep the accounts and the lumens; n more entries of the
\* account a are not counted.
Settled(L, M, a, n) ==
    /\ IsLedger(M)
    /\ M.ledgerSeq = L.ledgerSeq /\ M.feePool = L.feePool /\ M.totalCoins = L.totalCoins
    /\ DOMAIN M.acc = DOMAIN L.acc
    /\ \A b \in DOMAIN L.acc :
          /\ M.acc[b].seqNum >= L.acc[b].seqNum
          /\ Uncounted(M, b) = Uncounted(L, b) + (IF b = a THEN n ELSE 0)
    /\ Owners(M) \subseteq Owners(L) \cup DOMAIN L.acc
    /\ Numbered(L) => Numbered(M)
    /\ Fine(M) => Fine(L)
    /\ Lumens(M) = Lumens(L)

LEMMA UncountedType ==
    ASSUME NEW L, IsLedger(L), NEW a \in DOMAIN L.acc
    PROVE  /\ L.acc[a].numSubEntries \in Nat /\ L.acc[a].seqNum \in Nat /\ L.acc[a].balance \in Nat
           /\ Entries(L, a) \in Nat /\ Uncounted(L, a) \in Int
<1>1. /\ L.acc[a].numSubEntries \in Nat /\ L.acc[a].seqNum \in Nat /\ L.acc[a].balance \in Nat
  BY AccountFields DEF IsLedger, AreAccounts
<1>2. Entries(L, a) \in Nat
  BY EntriesType
<1> QED BY <1>1, <1>2 DEF Uncounted

LEMMA SettledOn ==
    ASSUME NEW L, IsLedger(L), NEW M, NEW N, NEW a, NEW n \in Int, NEW m \in Int,
           Settled(L, M, a, n), Settled(M, N, a, m)
    PROVE  Settled(L, N, a, n + m)
<1>1. ASSUME NEW b \in DOMAIN L.acc
      PROVE  /\ N.acc[b].seqNum >= L.acc[b].seqNum
             /\ Uncounted(N, b) = Uncounted(L, b) + (IF b = a THEN n + m ELSE 0)
  <2>1. b \in DOMAIN M.acc /\ b \in DOMAIN N.acc /\ IsLedger(M) /\ IsLedger(N)
    BY DEF Settled
  <2>2. /\ L.acc[b].seqNum \in Nat /\ M.acc[b].seqNum \in Nat /\ N.acc[b].seqNum \in Nat
        /\ Uncounted(L, b) \in Int /\ Uncounted(M, b) \in Int /\ Uncounted(N, b) \in Int
    BY <2>1, UncountedType
  <2>3. /\ M.acc[b].seqNum >= L.acc[b].seqNum /\ N.acc[b].seqNum >= M.acc[b].seqNum
        /\ Uncounted(M, b) = Uncounted(L, b) + (IF b = a THEN n ELSE 0)
        /\ Uncounted(N, b) = Uncounted(M, b) + (IF b = a THEN m ELSE 0)
    BY <2>1 DEF Settled
  <2>4. N.acc[b].seqNum >= L.acc[b].seqNum
    BY <2>2, <2>3
  <2>5. CASE b = a
    BY <2>2, <2>3, <2>4, <2>5
  <2>6. CASE b # a
    BY <2>2, <2>3, <2>4, <2>6
  <2> QED BY <2>5, <2>6
<1>2. Owners(N) \subseteq Owners(L) \cup DOMAIN L.acc
  BY DEF Settled
<1> QED BY <1>1, <1>2 DEF Settled

LEMMA SettledNot ==
    ASSUME NEW L, IsLedger(L), NEW a
    PROVE  Settled(L, L, a, 0)
<1>1. \A b \in DOMAIN L.acc : L.acc[b].seqNum \in Nat /\ Uncounted(L, b) \in Int
  BY UncountedType
<1> QED BY <1>1 DEF Settled

\* A step after which as many entries are counted can be of any account.
LEMMA SettledAny ==
    ASSUME NEW L, IsLedger(L), NEW M, NEW a, NEW b, Settled(L, M, a, 0)
    PROVE  Settled(L, M, b, 0)
BY DEF Settled

LEMMA TradedIsSettled ==
    ASSUME NEW L, IsLedger(L), NEW M, Traded(L, M, 0), NEW a
    PROVE  Settled(L, M, a, 0)
<1>1. Lumens(M) = Lumens(L)
  BY LumensType DEF Traded, IsLedger
<1>2. ASSUME NEW b \in DOMAIN L.acc
      PROVE  /\ M.acc[b].seqNum >= L.acc[b].seqNum
             /\ Uncounted(M, b) = Uncounted(L, b) + (IF b = a THEN 0 ELSE 0)
  <2>1. L.acc[b].seqNum \in Nat /\ Uncounted(L, b) \in Int
    BY UncountedType
  <2>2. M.acc[b].seqNum = L.acc[b].seqNum /\ Uncounted(M, b) = Uncounted(L, b)
    BY DEF Traded, SameHolder
  <2> QED BY <2>1, <2>2
<1>3. Numbered(L) => Numbered(M)
  BY DEF Traded, Numbered, SameHeader
<1> QED BY <1>1, <1>2, <1>3 DEF Traded, Settled, SameHeader

LEMMA MovedIsSettled ==
    ASSUME NEW L, IsLedger(L), NEW M, Moved(L, M, 0), NEW a
    PROVE  Settled(L, M, a, 0)
BY MovedIsTraded, TradedIsSettled

\* How many entries of each kind an account has.
Signs(L, a) == Cardinality(L.acc[a].signers)
Pairs(S, a) == Cardinality({p \in S : p[1] = a})
Trusts(L, a) == Pairs(DOMAIN L.tl, a)
Offers(L, a) == Cardinality(Owned(L, a))
Names(L, a) == Pairs(L.data, a)

LEMMA UncountedIs ==
    ASSUME NEW L, IsLedger(L), NEW a \in DOMAIN L.acc
    PROVE  /\ Signs(L, a) \in Nat /\ Trusts(L, a) \in Nat
           /\ Offers(L, a) \in Nat /\ Names(L, a) \in Nat /\ L.acc[a].numSubEntries \in Nat
           /\ Uncounted(L, a) = L.acc[a].numSubEntries
                 - (((Signs(L, a) + Trusts(L, a)) + Offers(L, a)) + Names(L, a))
<1>1. L.acc[a].numSubEntries \in Nat
  BY UncountedType
<1>2. Signs(L, a) \in Nat /\ Trusts(L, a) \in Nat /\ Offers(L, a) \in Nat /\ Names(L, a) \in Nat
  BY EntriesType DEF Signs, Trusts, Offers, Names, Pairs
<1> QED BY <1>1, <1>2 DEF Uncounted, Entries, Signs, Trusts, Offers, Names, Pairs

LEMMA ChargedIsSettled ==
    ASSUME NEW L, IsLedger(L), NEW M, NEW a, NEW n \in Int, Charged(L, M, a, n)
    PROVE  Settled(L, M, a, n)
<1>1. ASSUME NEW b \in DOMAIN L.acc
      PROVE  /\ M.acc[b].seqNum >= L.acc[b].seqNum
             /\ Uncounted(M, b) = Uncounted(L, b) + (IF b = a THEN n ELSE 0)
  <2> DEFINE g == L.acc[b]
             h == M.acc[b]
             k == IF b = a THEN n ELSE 0
  <2>1. /\ h = [g EXCEPT !.numSubEntries = h.numSubEntries]
        /\ h.numSubEntries = g.numSubEntries + k
    BY DEF Charged
  <2>2. IsAccount(g)
    BY DEF IsLedger, AreAccounts
  <2>3. h.seqNum = g.seqNum /\ h.signers = g.signers /\ g.seqNum \in Nat
    BY <2>1, <2>2 DEF IsAccount
  <2>4. IsLedger(M) /\ b \in DOMAIN M.acc /\ k \in Int /\ M.tl = L.tl /\ M.data = L.data
        /\ Owned(M, b) = Owned(L, b)
    BY DEF Charged, Owned
  <2>5. /\ Signs(M, b) = Signs(L, b) /\ Trusts(M, b) = Trusts(L, b)
        /\ Offers(M, b) = Offers(L, b) /\ Names(M, b) = Names(L, b)
    BY <2>3, <2>4 DEF Signs, Trusts, Offers, Names
  <2>6. Uncounted(M, b) = Uncounted(L, b) + k
    <3> HIDE DEF k
    <3> QED BY <2>1, <2>4, <2>5, UncountedIs
  <2> QED BY <2>3, <2>6
<1>2. Owners(M) \subseteq Owners(L)
  BY DEF Charged, Owners
<1>3. Numbered(L) => Numbered(M)
  BY DEF Charged, Numbered, SameHeader
<1> QED BY <1>1, <1>2, <1>3 DEF Charged, Settled, SameHeader

LEMMA SettledKeeps ==
    ASSUME NEW L, Sound(L), NEW M, NEW a, Settled(L, M, a, 0)
    PROVE  Sound(M) /\ Advances(L, M)
<1>1. IsLedger(L) /\ IsLedger(M) /\ Conserved(M) /\ Numbered(M)
  BY DEF Sound, Conserved, Settled
<1>2. Counted(M)
  <2>1. ASSUME NEW b \in DOMAIN M.acc PROVE M.acc[b].numSubEntries = Entries(M, b)
    <3>1. b \in DOMAIN L.acc /\ Uncounted(M, b) = Uncounted(L, b) + (IF b = a THEN 0 ELSE 0)
          /\ L.acc[b].numSubEntries = Entries(L, b)
      BY DEF Settled, Sound, Counted
    <3>2. /\ L.acc[b].numSubEntries \in Nat /\ Entries(L, b) \in Nat
          /\ M.acc[b].numSubEntries \in Nat /\ Entries(M, b) \in Nat
      BY <1>1, <3>1, UncountedType
    <3> QED BY <3>1, <3>2 DEF Uncounted
  <2>2. Owners(M) \subseteq DOMAIN M.acc
    BY DEF Settled, Sound, Counted
  <2> QED BY <2>1, <2>2 DEF Counted
<1>3. Advances(L, M)
  BY DEF Advances, Settled
<1> QED BY <1>1, <1>2, <1>3 DEF Sound

-----------------------------------------------------------------------------
(* Offers come and go. *)

LEMMA OneMore ==
    ASSUME NEW S, IsFiniteSet(S), NEW x, x \notin S, NEW T, T = S \cup {x}
    PROVE  Cardinality(T) = Cardinality(S) + 1
<1>1. Cardinality(S) \in Nat
  BY FS_CardinalityType
<1> QED BY <1>1, FS_AddElement

LEMMA OneLess ==
    ASSUME NEW S, IsFiniteSet(S), NEW x \in S, NEW T, T = S \ {x}
    PROVE  Cardinality(T) = Cardinality(S) - 1
<1>1. Cardinality(S) \in Nat
  BY FS_CardinalityType
<1> QED BY <1>1, FS_RemoveElement

LEMMA OwnedFinite ==
    ASSUME NEW L, IsLedger(L), NEW a
    PROVE  IsFiniteSet(Owned(L, a))
<1>1. IsFiniteSet(DOMAIN L.offers) /\ Owned(L, a) \subseteq DOMAIN L.offers
  BY DEF IsLedger, AreOffers, Owned
<1> QED BY <1>1, FS_Subset

LEMMA WithOffer ==
    ASSUME NEW f, AreOffers(f), NEW id \in Nat, NEW o, IsOffer(o)
    PROVE  /\ AreOffers(With(f, id, o)) /\ DOMAIN With(f, id, o) = DOMAIN f \cup {id}
           /\ With(f, id, o)[id] = o
           /\ \A i \in DOMAIN f : i # id => With(f, id, o)[i] = f[i]
<1> DEFINE g == With(f, id, o)
<1>1. g = [i \in DOMAIN f \cup {id} |-> IF i = id THEN o ELSE f[i]]
  BY DEF With
<1>2. IsFiniteSet(DOMAIN f \cup {id})
  BY FS_AddElement DEF AreOffers
<1> QED BY <1>1, <1>2 DEF AreOffers

LEMMA AddOffer ==
    ASSUME NEW L, IsLedger(L), NEW id \in Nat, id \notin DOMAIN L.offers, id <= L.idPool,
           NEW o, IsOffer(o), o.seller \in DOMAIN L.acc, NEW M,
           M = [L EXCEPT !.offers = With(L.offers, id, o)]
    PROVE  Settled(L, M, o.seller, -1)
<1> DEFINE f == With(L.offers, id, o)
<1>1. /\ AreOffers(f) /\ DOMAIN f = DOMAIN L.offers \cup {id} /\ f[id] = o
      /\ \A i \in DOMAIN L.offers : f[i] = L.offers[i]
  BY WithOffer DEF IsLedger
<1>2. /\ IsLedger(M) /\ SameHeader(L, M) /\ M.offers = f
      /\ M.acc = L.acc /\ M.tl = L.tl /\ M.data = L.data
      /\ (Fine(M) <=> Fine(L)) /\ Lumens(M) = Lumens(L)
  BY <1>1, PutOffers
<1> HIDE DEF f
<1>3. ASSUME NEW b \in DOMAIN L.acc
      PROVE  /\ M.acc[b].seqNum >= L.acc[b].seqNum
             /\ Uncounted(M, b) = Uncounted(L, b) + (IF b = o.seller THEN -1 ELSE 0)
  <2>1. Owned(M, b) = IF b = o.seller THEN Owned(L, b) \cup {id} ELSE Owned(L, b)
    BY <1>1, <1>2 DEF Owned
  <2>2. id \notin Owned(L, b) /\ IsFiniteSet(Owned(L, b))
    BY OwnedFinite DEF Owned
  <2> DEFINE k == IF b = o.seller THEN 1 ELSE 0
  <2>3. Offers(M, b) = Offers(L, b) + k
    <3>1. Offers(L, b) \in Nat
      BY UncountedIs
    <3>2. CASE b = o.seller
      BY <2>1, <2>2, <3>2, OneMore DEF Offers
    <3>3. CASE b # o.seller
      BY <2>1, <3>1, <3>3 DEF Offers
    <3> QED BY <3>2, <3>3
  <2>4. Signs(M, b) = Signs(L, b) /\ Trusts(M, b) = Trusts(L, b) /\ Names(M, b) = Names(L, b)
    BY <1>2 DEF Signs, Trusts, Names
  <2>5. M.acc[b] = L.acc[b] /\ b \in DOMAIN M.acc /\ L.acc[b].seqNum \in Nat
    BY <1>2, UncountedType
  <2>6. k \in Nat
    OBVIOUS
  <2>7. Uncounted(M, b) = Uncounted(L, b) - k /\ Uncounted(L, b) \in Int
    <3> HIDE DEF k
    <3>1. /\ Signs(L, b) \in Nat /\ Trusts(L, b) \in Nat
          /\ Offers(L, b) \in Nat /\ Names(L, b) \in Nat /\ L.acc[b].numSubEntries \in Nat
          /\ Uncounted(L, b) = L.acc[b].numSubEntries
                - (((Signs(L, b) + Trusts(L, b)) + Offers(L, b)) + Names(L, b))
      BY UncountedIs
    <3>2. Uncounted(M, b) = M.acc[b].numSubEntries
                - (((Signs(M, b) + Trusts(M, b)) + Offers(M, b)) + Names(M, b))
      BY <1>2, <2>5, UncountedIs
    <3> QED BY <2>3, <2>4, <2>5, <2>6, <3>1, <3>2
  <2> QED BY <2>5, <2>7
<1>4. Owners(M) \subseteq Owners(L) \cup DOMAIN L.acc
  BY <1>1, <1>2 DEF Owners
<1>5. Numbered(L) => Numbered(M)
  BY <1>1, <1>2 DEF Numbered, SameHeader
<1> QED BY <1>2, <1>3, <1>4, <1>5 DEF Settled, SameHeader

LEMMA DropOffer ==
    ASSUME NEW L, IsLedger(L), NEW id \in DOMAIN L.offers, NEW M,
           M = [L EXCEPT !.offers = Without(L.offers, id)]
    PROVE  /\ Settled(L, M, L.offers[id].seller, 1)
           /\ DOMAIN M.offers = DOMAIN L.offers \ {id} /\ M.idPool = L.idPool
<1> DEFINE f == Without(L.offers, id)
           seller == L.offers[id].seller
<1>1. /\ AreOffers(f) /\ DOMAIN f = DOMAIN L.offers \ {id}
      /\ \A i \in DOMAIN L.offers \ {id} : f[i] = L.offers[i]
  BY WithoutOffer DEF IsLedger
<1>2. /\ IsLedger(M) /\ SameHeader(L, M) /\ M.offers = f
      /\ M.acc = L.acc /\ M.tl = L.tl /\ M.data = L.data
      /\ (Fine(M) <=> Fine(L)) /\ Lumens(M) = Lumens(L)
  BY <1>1, PutOffers
<1> HIDE DEF f
<1>3. ASSUME NEW b \in DOMAIN L.acc
      PROVE  /\ M.acc[b].seqNum >= L.acc[b].seqNum
             /\ Uncounted(M, b) = Uncounted(L, b) + (IF b = seller THEN 1 ELSE 0)
  <2>1. Owned(M, b) = IF b = seller THEN Owned(L, b) \ {id} ELSE Owned(L, b)
    BY <1>1, <1>2 DEF Owned
  <2>2. IsFiniteSet(Owned(L, b)) /\ (b = seller => id \in Owned(L, b))
    BY OwnedFinite DEF Owned
  <2> HIDE DEF seller
  <2> DEFINE k == IF b = seller THEN 1 ELSE 0
  <2>3. Offers(M, b) = Offers(L, b) - k
    <3>1. Offers(L, b) \in Nat
      BY UncountedIs
    <3>2. CASE b = seller
      BY <2>1, <2>2, <3>2, OneLess DEF Offers
    <3>3. CASE b # seller
      BY <2>1, <3>1, <3>3 DEF Offers
    <3> QED BY <3>2, <3>3
  <2>4. Signs(M, b) = Signs(L, b) /\ Trusts(M, b) = Trusts(L, b) /\ Names(M, b) = Names(L, b)
    BY <1>2 DEF Signs, Trusts, Names
  <2>5. M.acc[b] = L.acc[b] /\ b \in DOMAIN M.acc /\ L.acc[b].seqNum \in Nat
    BY <1>2, UncountedType
  <2>6. k \in Nat
    OBVIOUS
  <2>7. Uncounted(M, b) = Uncounted(L, b) + k
    <3> HIDE DEF k
    <3>1. /\ Signs(L, b) \in Nat /\ Trusts(L, b) \in Nat
          /\ Offers(L, b) \in Nat /\ Names(L, b) \in Nat /\ L.acc[b].numSubEntries \in Nat
          /\ Uncounted(L, b) = L.acc[b].numSubEntries
                - (((Signs(L, b) + Trusts(L, b)) + Offers(L, b)) + Names(L, b))
      BY UncountedIs
    <3>2. Uncounted(M, b) = M.acc[b].numSubEntries
                - (((Signs(M, b) + Trusts(M, b)) + Offers(M, b)) + Names(M, b))
      BY <1>2, <2>5, UncountedIs
    <3> QED BY <2>3, <2>4, <2>5, <2>6, <3>1, <3>2
  <2> QED BY <2>5, <2>7
<1>4. Owners(M) \subseteq Owners(L)
  BY <1>1, <1>2 DEF Owners
<1>5. Numbered(L) => Numbered(M)
  BY <1>1, <1>2 DEF Numbered, SameHeader
<1>6. Settled(L, M, seller, 1)
  <2> HIDE DEF seller
  <2> QED BY <1>2, <1>3, <1>4, <1>5 DEF Settled, SameHeader
<1> QED BY <1>1, <1>2, <1>6 DEF SameHeader

LEMMA FieldIdPool ==
    ASSUME NEW L, IsLedger(L), NEW id \in Nat, NEW M, M = [L EXCEPT !.idPool = id]
    PROVE  /\ LedgerFields(M) /\ M.acc = L.acc /\ M.tl = L.tl /\ M.offers = L.offers
           /\ M.data = L.data /\ M.err = L.err /\ M.ledgerSeq = L.ledgerSeq /\ M.idPool = id
           /\ M.feePool = L.feePool /\ M.totalCoins = L.totalCoins
           /\ M.inflationSeq = L.inflationSeq /\ M.baseReserve = L.baseReserve
BY DEF LedgerFields, IsLedger

LEMMA HandOut ==
    ASSUME NEW L, IsLedger(L), NEW id \in Nat, NEW M, M = [L EXCEPT !.idPool = id], NEW a
    PROVE  /\ IsLedger(M) /\ (Fine(M) <=> Fine(L)) /\ M.idPool = id
           /\ M.offers = L.offers /\ M.acc = L.acc
           /\ L.idPool <= id => Settled(L, M, a, 0)
<1>1. /\ LedgerFields(M) /\ M.acc = L.acc /\ M.tl = L.tl /\ M.offers = L.offers
      /\ M.data = L.data /\ M.err = L.err /\ M.ledgerSeq = L.ledgerSeq /\ M.idPool = id
      /\ M.feePool = L.feePool /\ M.totalCoins = L.totalCoins
      /\ M.inflationSeq = L.inflationSeq /\ M.baseReserve = L.baseReserve
  BY FieldIdPool
<1>2. IsLedger(M)
  <2>1. {M.ledgerSeq, M.idPool, M.feePool, M.totalCoins, M.inflationSeq, M.baseReserve} \subseteq Nat
        /\ M.totalCoins # 0
    BY <1>1 DEF IsLedger, IsHeader
  <2>2. AreAccounts(M.acc) /\ AreLines(M.tl) /\ AreOffers(M.offers) /\ IsFiniteSet(M.data)
    BY <1>1 DEF IsLedger
  <2> QED BY <1>1, <2>1, <2>2 DEF IsLedger, IsHeader
<1>3. Lumens(M) = Lumens(L) /\ Owners(M) = Owners(L) /\ (Fine(M) <=> Fine(L))
  BY <1>1 DEF Lumens, Owners, Fine
<1>4. \A b \in DOMAIN L.acc : L.acc[b].seqNum \in Nat /\ Uncounted(L, b) \in Int
  BY UncountedType
<1>5. \A b \in DOMAIN L.acc : Uncounted(M, b) = Uncounted(L, b)
  BY <1>1 DEF Uncounted, Entries, Owned
<1>6. L.idPool <= id /\ Numbered(L) => Numbered(M)
  <2>1. L.idPool \in Nat /\ DOMAIN L.offers \subseteq Nat
    BY DEF IsLedger, IsHeader, AreOffers
  <2> QED BY <1>1, <2>1 DEF Numbered
<1>7. ASSUME L.idPool <= id PROVE Settled(L, M, a, 0)
  <2>1. \A b \in DOMAIN L.acc : /\ M.acc[b].seqNum >= L.acc[b].seqNum
                                /\ Uncounted(M, b) = Uncounted(L, b) + (IF b = a THEN 0 ELSE 0)
    BY <1>1, <1>4, <1>5
  <2> QED BY <1>1, <1>2, <1>3, <1>6, <1>7, <2>1 DEF Settled
<1> QED BY <1>1, <1>2, <1>3, <1>7

\* The offer o goes on the book of L and promises its amounts.
LEMMA Book ==
    ASSUME NEW L, IsLedger(L), NEW id \in Nat, NEW o, IsOffer(o), NEW N,
           N = acquireLiabilities([L EXCEPT !.offers = With(L.offers, id, o)], o)
    PROVE  /\ Fine(N) => Fine(L)
           /\ /\ id \notin DOMAIN L.offers /\ id <= L.idPool /\ o.seller \in DOMAIN L.acc
              => Settled(L, N, o.seller, -1)
<1> DEFINE M == [L EXCEPT !.offers = With(L.offers, id, o)]
<1>1. IsLedger(M) /\ (Fine(M) <=> Fine(L))
  <2>1. AreOffers(With(L.offers, id, o))
    BY WithOffer DEF IsLedger
  <2> QED BY <2>1, PutOffers
<1>2. /\ id \notin DOMAIN L.offers /\ id <= L.idPool /\ o.seller \in DOMAIN L.acc
      => Settled(L, M, o.seller, -1)
  BY AddOffer
<1> HIDE DEF M
<1>3. Moved(M, N, 0)
  BY <1>1, Acquire DEF M
<1>4. Settled(M, N, o.seller, 0) /\ (Fine(N) => Fine(M))
  BY <1>1, <1>3, MovedIsSettled DEF Moved
<1>5. ASSUME Settled(L, M, o.seller, -1) PROVE Settled(L, N, o.seller, -1)
  <2>1. -1 \in Int /\ 0 \in Int /\ -1 + 0 = -1
    OBVIOUS
  <2>2. Settled(L, N, o.seller, -1 + 0)
    BY <1>4, <1>5, <2>1, SettledOn
  <2> QED BY <2>1, <2>2
<1> QED BY <1>1, <1>2, <1>4, <1>5

LEMMA Limits ==
    ASSUME NEW L, IsLedger(L), NEW o, IsOffer(o), o.seller \in DOMAIN L.acc, NEW creating,
           NEW limits, limits = computeOfferExchangeParameters(L, o, creating)
    PROVE  limits.maxWheatReceive \in Nat /\ limits.maxSheepSend \in Nat
<1> DEFINE entry == IF creating THEN addNumEntries(L, o.seller, 1) ELSE Result(TRUE, L)
           buy == canBuyAtMost(entry.L, o.seller, o.buying)
           sell == canSellAtMost(entry.L, o.seller, o.selling)
<1>1. limits.maxWheatReceive = buy /\ limits.maxSheepSend = Min({o.amount, sell})
  BY DEF computeOfferExchangeParameters
<1>2. IsLedger(entry.L) /\ o.seller \in DOMAIN entry.L.acc
  <2>1. entry.L = addNumEntries(L, o.seller, 1).L \/ entry.L = L
    BY DEF Result
  <2>2. LET r == addNumEntries(L, o.seller, 1)
        IN  IsLedger(r.L) /\ DOMAIN r.L.acc = DOMAIN L.acc
    BY AddNumEntries
  <2> HIDE DEF entry
  <2> QED BY <2>1, <2>2
<1> HIDE DEF entry
<1>3. buy \in Nat /\ sell \in Nat
  BY <1>2, CanBuyType, CanSellType
<1>4. o.amount \in Nat
  BY DEF IsOffer
<1> HIDE DEF buy, sell
<1>5. Min({o.amount, sell}) \in Nat
  BY <1>3, <1>4, MinOfTwo
<1> QED BY <1>1, <1>3, <1>5

\* What the source has after it received and sent what it traded.
Paid(o, r) ==
    IF r.wheat = 0 THEN r.L
    ELSE PaidBoth(r.L, o.seller, o.buying, o.selling, r.wheat, r.sheep,
                  "offer claimed over limit", "offer sold more than balance")

\* What the trade of the offer o leaves.
TradeLeaves(t, o, left, traded) ==
    \/ t.amount = 0 /\ t.L = traded
    \/ /\ t.amount = AdjustedAmount(traded, [o EXCEPT !.amount = left]).numWheatReceived
       /\ t.L = throw(traded, AdjustedAmount(traded, [o EXCEPT !.amount = left]).err)

LEMMA SettleTradeIs ==
    ASSUME NEW o, NEW limits, NEW r, NEW t, t = settleTrade(o, limits, r), t.code = "ok"
    PROVE  Fine(r.L) /\ TradeLeaves(t, o, limits.maxSheepSend - r.sheep, Paid(o, r))
<1> DEFINE traded == Paid(o, r)
           kept == AdjustedAmount(traded, [o EXCEPT !.amount = limits.maxSheepSend - r.sheep])
           x == [code |-> IF r.result = "cross self" THEN "cross self" ELSE "ok",
                 amount |-> IF r.result = "ok" THEN 0 ELSE kept.numWheatReceived,
                 L |-> IF r.result = "ok" THEN traded ELSE throw(traded, kept.err)]
           y == [code |-> "throw", amount |-> 0, L |-> r.L]
<1>1. t = IF ~Fine(r.L) THEN y ELSE x
  BY Zenon DEF settleTrade, Paid, PaidBoth, Fine
<1>2. y.code # "ok"
  OBVIOUS
<1>3. Fine(r.L) /\ t = x
  <2> HIDE DEF x, y
  <2> QED BY <1>1, <1>2
<1> HIDE DEF traded, kept
<1>4. (t.amount = 0 /\ t.L = traded)
      \/ (t.amount = kept.numWheatReceived /\ t.L = throw(traded, kept.err))
  <2> DEFINE w == kept.numWheatReceived
             K == throw(traded, kept.err)
  <2>1. \/ t.amount = 0 /\ t.L = traded
        \/ t.amount = w /\ t.L = K
    <3> HIDE DEF w, K
    <3>1. /\ x.amount = IF r.result = "ok" THEN 0 ELSE w
          /\ x.L = IF r.result = "ok" THEN traded ELSE K
      BY Zenon DEF w, K
    <3> HIDE DEF x
    <3> QED BY <1>3, <3>1, Zenon
  <2> QED BY <2>1, Zenon
<1> QED BY <1>3, <1>4, Zenon DEF traded, kept, TradeLeaves

LEMMA SettleTrade ==
    ASSUME NEW L, IsLedger(L), NEW o, IsOffer(o), o.seller \in DOMAIN L.acc, NEW limits,
           limits.maxSheepSend \in Nat, limits.maxWheatReceive \in Nat,
           NEW r, RoundOf(L, r, o.selling, o.buying, limits.maxWheatReceive, limits.maxSheepSend),
           NEW t, t = settleTrade(o, limits, r), t.code = "ok"
    PROVE  /\ t.amount \in Nat /\ IsLedger(t.L)
           /\ Fine(t.L) => Traded(L, t.L, 0)
<1> DEFINE left == limits.maxSheepSend - r.sheep
           traded == Paid(o, r)
           rest == [o EXCEPT !.amount = left]
           kept == AdjustedAmount(traded, rest)
<1>1. Fine(r.L) /\ TradeLeaves(t, o, left, traded)
  BY SettleTradeIs
<1>2. /\ IsLedger(r.L) /\ r.wheat \in Nat /\ r.sheep \in Nat /\ r.sheep <= limits.maxSheepSend
      /\ (r.wheat = 0) <=> (r.sheep = 0)
      /\ Traded(L, r.L, Brought(o.selling, o.buying, r.sheep, r.wheat))
  BY <1>1 DEF RoundOf
<1>3. o.seller \in DOMAIN r.L.acc
  BY <1>2 DEF Traded
<1>4. left \in Nat
  BY <1>2
<1>5. /\ Brought(o.selling, o.buying, r.sheep, r.wheat) \in Int
      /\ Brought(o.buying, o.selling, r.wheat, r.sheep) \in Int
      /\ Brought(o.selling, o.buying, r.sheep, r.wheat)
         + Brought(o.buying, o.selling, r.wheat, r.sheep) = 0
  BY <1>2 DEF Brought, OfNative
<1>6. /\ \E d \in Int : Moved(r.L, traded, d)
      /\ Fine(traded) => Moved(r.L, traded, Brought(o.buying, o.selling, r.wheat, r.sheep))
  <2>1. CASE r.wheat = 0
    <3>1. traded = r.L
      BY <2>1 DEF Paid
    <3>2. Brought(o.buying, o.selling, r.wheat, r.sheep) = 0
      BY <1>2, <2>1 DEF Brought, OfNative
    <3> HIDE DEF traded
    <3> QED BY <1>2, <3>1, <3>2, MovedNot
  <2>2. CASE r.wheat # 0
    <3> DEFINE w1 == "offer claimed over limit"
               w2 == "offer sold more than balance"
    <3>1. Named(w1) /\ Named(w2)
      BY DEF Named
    <3>2. traded = PaidBoth(r.L, o.seller, o.buying, o.selling, r.wheat, r.sheep, w1, w2)
      BY <2>2, Zenon DEF Paid
    <3> HIDE DEF traded, w1, w2
    <3> QED BY <1>2, <1>3, <3>1, <3>2, PayBoth
  <2> QED BY <2>1, <2>2
<1> HIDE DEF traded, left
<1>7. IsLedger(traded) /\ o.seller \in DOMAIN traded.acc
  BY <1>3, <1>6 DEF Moved
<1>8. Fine(traded) => Traded(L, traded, 0)
  <2> HAVE Fine(traded)
  <2>1. Traded(r.L, traded, Brought(o.buying, o.selling, r.wheat, r.sheep))
    BY <1>2, <1>6, MovedIsTraded
  <2> QED BY <1>2, <1>5, <2>1, TradedOn
<1>9. CASE t.amount = 0 /\ t.L = traded
  BY <1>7, <1>8, <1>9
<1>10. CASE t.amount = kept.numWheatReceived /\ t.L = throw(traded, kept.err)
  <2>1. IsOffer(rest) /\ rest.seller = o.seller
    BY <1>4, OfferAmount
  <2>2. kept.numWheatReceived \in Nat
    <3> HIDE DEF rest
    <3> QED BY <1>7, <2>1, Adjusted DEF Exchanged
  <2> HIDE DEF kept
  <2>3. Moved(traded, t.L, 0)
    BY <1>7, <1>10, MovedThrow
  <2>4. IsLedger(t.L) /\ (Fine(t.L) => Fine(traded))
    BY <2>3 DEF Moved
  <2>5. Traded(traded, t.L, 0)
    BY <1>7, <2>3, MovedIsTraded
  <2>6. Fine(t.L) => Traded(L, t.L, 0)
    <3> HAVE Fine(t.L)
    <3>1. Traded(L, traded, 0) /\ 0 \in Int
      BY <1>8, <2>4
    <3> QED BY <2>5, <3>1, TradedAfter
  <2> QED BY <1>10, <2>2, <2>4, <2>6
<1> QED BY <1>1, <1>9, <1>10, Zenon DEF TradeLeaves

LEMMA TradeOffer ==
    ASSUME NEW L, IsLedger(L), Fine(L), NEW o, IsOffer(o), o.seller \in DOMAIN L.acc, NEW limits,
           limits.maxSheepSend \in Nat, limits.maxWheatReceive \in Nat,
           NEW t, t = tradeOffer(L, o, limits), t.code = "ok"
    PROVE  /\ t.amount \in Nat /\ IsLedger(t.L)
           /\ Fine(t.L) => Traded(L, t.L, 0)
<1>1. \E filter : t = settleTrade(o, limits,
                          convertWithOffers(L, o.selling, limits.maxSheepSend, o.buying,
                                            limits.maxWheatReceive, FALSE, filter))
  BY Zenon DEF tradeOffer
<1>2. PICK filter : t = settleTrade(o, limits,
                            convertWithOffers(L, o.selling, limits.maxSheepSend, o.buying,
                                              limits.maxWheatReceive, FALSE, filter))
  BY <1>1
<1> DEFINE r == convertWithOffers(L, o.selling, limits.maxSheepSend, o.buying,
                                  limits.maxWheatReceive, FALSE, filter)
<1>3. RoundOf(L, r, o.selling, o.buying, limits.maxWheatReceive, limits.maxSheepSend)
  BY Convert
<1> HIDE DEF r
<1>4. t = settleTrade(o, limits, r)
  BY <1>2 DEF r
<1> QED BY <1>3, <1>4, SettleTrade

\* Before the rest of the offer id is booked: the entry of an offer that changes is counted.
Pending(K, L, a, id, creating) ==
    /\ Settled(K, L, a, IF creating THEN 0 ELSE 1)
    /\ id \notin DOMAIN L.offers
    /\ IF creating THEN L.idPool <= id ELSE id <= L.idPool

LEMMA LeaveNothing ==
    ASSUME NEW K, IsLedger(K), NEW L, IsLedger(L), NEW a \in DOMAIN K.acc, NEW id,
           NEW creating \in BOOLEAN, Fine(L) => Pending(K, L, a, id, creating),
           NEW N, N = IF creating THEN L ELSE addNumEntries(L, a, -1).L, Fine(N)
    PROVE  Settled(K, N, a, 0)
<1>1. CASE creating
  BY <1>1 DEF Pending
<1>2. CASE ~creating
  <2> DEFINE r == addNumEntries(L, a, -1)
  <2>1. -1 \in Int /\ 1 \in Int /\ -1 < 0 /\ 1 + (-1) = 0
    OBVIOUS
  <2>2. (Fine(N) => Fine(L)) /\ Charged(L, N, a, -1)
    BY <1>2, <2>1, AddNumEntries
  <2>3. Settled(L, N, a, -1) /\ Settled(K, L, a, 1)
    BY <1>2, <2>1, <2>2, ChargedIsSettled DEF Pending
  <2>4. Settled(K, N, a, 1 + (-1))
    BY <2>1, <2>3, SettledOn
  <2> QED BY <2>1, <2>4
<1> QED BY <1>1, <1>2

LEMMA LeaveRest ==
    ASSUME NEW K, IsLedger(K), NEW L, IsLedger(L), NEW o, IsOffer(o), NEW id \in Nat,
           o.seller \in DOMAIN K.acc, Fine(L) => Pending(K, L, o.seller, id, FALSE),
           NEW N, N = acquireLiabilities([L EXCEPT !.offers = With(L.offers, id, o)], o), Fine(N)
    PROVE  Settled(K, N, o.seller, 0)
<1>1. Fine(L)
  BY Book
<1>2. Settled(K, L, o.seller, 1) /\ id \notin DOMAIN L.offers /\ id <= L.idPool
  BY <1>1 DEF Pending
<1>3. o.seller \in DOMAIN L.acc
  BY <1>2 DEF Settled
<1>4. Settled(L, N, o.seller, -1)
  BY <1>2, <1>3, Book
<1>5. -1 \in Int /\ 1 \in Int /\ 1 + (-1) = 0
  OBVIOUS
<1>6. Settled(K, N, o.seller, 1 + (-1))
  BY <1>2, <1>4, <1>5, SettledOn
<1> QED BY <1>5, <1>6

LEMMA LeaveNew ==
    ASSUME NEW K, IsLedger(K), NEW L, IsLedger(L), NEW o, IsOffer(o), NEW id \in Nat,
           o.seller \in DOMAIN K.acc, Fine(L) => Pending(K, L, o.seller, id, TRUE),
           NEW entry, entry = addNumEntries(L, o.seller, 1), entry.ok,
           NEW B, B = [entry.L EXCEPT !.idPool = id],
           NEW N, N = acquireLiabilities([B EXCEPT !.offers = With(L.offers, id, o)], o), Fine(N)
    PROVE  Settled(K, N, o.seller, 0)
<1> DEFINE E == entry.L
           a == o.seller
<1>1. 0 \in Int /\ 1 \in Int /\ -1 \in Int /\ 0 + 1 = 1 /\ 1 + (-1) = 0 /\ 1 + 0 = 1
  OBVIOUS
<1>2. IsLedger(E) /\ (Fine(E) => Fine(L)) /\ Charged(L, E, a, 1)
  BY <1>1, AddNumEntries
<1> HIDE DEF E
<1>3. B = [E EXCEPT !.idPool = id]
  BY DEF E
<1>4. /\ IsLedger(B) /\ (Fine(B) <=> Fine(E)) /\ B.idPool = id
      /\ B.offers = E.offers /\ B.acc = E.acc
      /\ E.idPool <= id => Settled(E, B, a, 0)
  BY <1>2, <1>3, HandOut
<1>5. B.offers = L.offers /\ E.idPool = L.idPool /\ DOMAIN B.acc = DOMAIN L.acc
  BY <1>2, <1>4 DEF Charged, SameHeader
<1>5a. N = acquireLiabilities([B EXCEPT !.offers = With(B.offers, id, o)], o)
  BY <1>5
<1>6. Fine(B)
  BY <1>4, <1>5a, Book
<1>7. Settled(K, L, a, 0) /\ id \notin DOMAIN L.offers /\ L.idPool <= id
  BY <1>2, <1>4, <1>6 DEF Pending
<1>8. a \in DOMAIN B.acc /\ id <= B.idPool
  BY <1>4, <1>5, <1>7 DEF Settled
<1>9. Settled(B, N, a, -1)
  BY <1>4, <1>5, <1>7, <1>8, <1>5a, Book
<1>10. Settled(L, E, a, 1)
  BY <1>1, <1>2, ChargedIsSettled
<1>11. Settled(E, B, a, 0)
  BY <1>4, <1>5, <1>7
<1>12. Settled(K, E, a, 1)
  <2>1. Settled(K, E, a, 0 + 1)
    BY <1>1, <1>7, <1>10, SettledOn
  <2> QED BY <1>1, <2>1
<1>13. Settled(K, B, a, 1)
  <2>1. Settled(K, B, a, 1 + 0)
    BY <1>1, <1>2, <1>11, <1>12, SettledOn
  <2> QED BY <1>1, <2>1
<1>14. Settled(K, N, a, 1 + (-1))
  BY <1>1, <1>4, <1>9, <1>13, SettledOn
<1> QED BY <1>1, <1>14

\* The ledgers that a trade may leave.
LeaveOutcome(r, trade, o, id, creating) ==
    LET L == trade.L
        rest == [o EXCEPT !.amount = trade.amount]
        entry == addNumEntries(L, o.seller, 1)
    IN  \/ r.L = IF creating THEN L ELSE addNumEntries(L, o.seller, -1).L
        \/ ~creating /\ r.L = acquireLiabilities([L EXCEPT !.offers = With(L.offers, id, rest)], rest)
        \/ /\ creating /\ entry.ok
           /\ r.L = acquireLiabilities([[entry.L EXCEPT !.idPool = id]
                                            EXCEPT !.offers = With(L.offers, id, rest)], rest)

LEMMA LeaveOfferIs ==
    ASSUME NEW trade, NEW o, NEW id, NEW creating \in BOOLEAN, NEW r,
           r = leaveOffer(trade, o, id, creating), r.code = "ok"
    PROVE  trade.code = "ok" /\ LeaveOutcome(r, trade, o, id, creating)
<1> DEFINE L == trade.L
           rest == [o EXCEPT !.amount = trade.amount]
           entry == addNumEntries(L, o.seller, 1)
           none == IF creating THEN L ELSE addNumEntries(L, o.seller, -1).L
           some == acquireLiabilities([L EXCEPT !.offers = With(L.offers, id, rest)], rest)
           new == acquireLiabilities([[entry.L EXCEPT !.idPool = id]
                                          EXCEPT !.offers = With(L.offers, id, rest)], rest)
<1>1. \/ trade.code # "ok" /\ r = Fail(trade.code, L)
      \/ trade.code = "ok" /\ r = Done(none)
      \/ r = Fail("low reserve", L)
      \/ trade.code = "ok" /\ ~creating /\ r = Done(some)
      \/ trade.code = "ok" /\ creating /\ entry.ok /\ r = Done(new)
  <2>1. CASE creating
    BY <2>1, Zenon DEF leaveOffer
  <2>2. CASE ~creating
    BY <2>2, Zenon DEF leaveOffer
  <2> QED BY <2>1, <2>2
<1>2. \A code, M : Fail(code, M).code = code
  BY DEF Fail
<1>3. \A M : Done(M).L = M
  BY DEF Done
<1>4. r # Fail("low reserve", L) /\ (trade.code # "ok" => r # Fail(trade.code, L))
  <2>1. \A code : r = Fail(code, L) => code = "ok"
    BY <1>2
  <2>2. "low reserve" # "ok"
    OBVIOUS
  <2> QED BY <2>1, <2>2, Zenon
<1> HIDE DEF none, some, new, entry, L
<1>5. /\ trade.code = "ok"
      /\ r.L = none \/ (~creating /\ r.L = some) \/ (creating /\ entry.ok /\ r.L = new)
  BY <1>1, <1>3, <1>4, Zenon
<1> QED BY <1>5, Zenon DEF LeaveOutcome, none, some, new, entry, L

LEMMA LeaveOffer ==
    ASSUME NEW K, IsLedger(K), NEW trade, NEW o, IsOffer(o), o.seller \in DOMAIN K.acc,
           NEW id \in Nat, NEW creating \in BOOLEAN,
           trade.code = "ok" => /\ IsLedger(trade.L) /\ trade.amount \in Nat
                                /\ Fine(trade.L) => Pending(K, trade.L, o.seller, id, creating),
           NEW r, r = leaveOffer(trade, o, id, creating), r.code = "ok", Fine(r.L)
    PROVE  Settled(K, r.L, o.seller, 0)
<1> DEFINE L == trade.L
           rest == [o EXCEPT !.amount = trade.amount]
           entry == addNumEntries(L, o.seller, 1)
           B == [entry.L EXCEPT !.idPool = id]
<1>1. trade.code = "ok" /\ LeaveOutcome(r, trade, o, id, creating)
  BY LeaveOfferIs
<1>2. IsLedger(L) /\ (Fine(L) => Pending(K, L, o.seller, id, creating))
  BY <1>1
<1>3. IsOffer(rest) /\ rest.seller = o.seller
  BY <1>1, OfferAmount
<1>4. \/ r.L = IF creating THEN L ELSE addNumEntries(L, o.seller, -1).L
      \/ ~creating /\ r.L = acquireLiabilities([L EXCEPT !.offers = With(L.offers, id, rest)], rest)
      \/ /\ creating /\ entry.ok
         /\ r.L = acquireLiabilities([B EXCEPT !.offers = With(L.offers, id, rest)], rest)
  BY <1>1, Zenon DEF LeaveOutcome
<1> HIDE DEF L, rest
<1>5. CASE r.L = IF creating THEN L ELSE addNumEntries(L, o.seller, -1).L
  BY <1>2, <1>5, LeaveNothing
<1>6. CASE ~creating /\ r.L = acquireLiabilities([L EXCEPT !.offers = With(L.offers, id, rest)], rest)
  <2>1. Fine(L) => Pending(K, L, rest.seller, id, FALSE)
    BY <1>2, <1>3, <1>6
  <2> QED BY <1>2, <1>3, <1>6, <2>1, LeaveRest
<1>7. CASE /\ creating /\ entry.ok
           /\ r.L = acquireLiabilities([B EXCEPT !.offers = With(L.offers, id, rest)], rest)
  <2>1. Fine(L) => Pending(K, L, rest.seller, id, TRUE)
    BY <1>2, <1>3, <1>7
  <2>2. entry = addNumEntries(L, rest.seller, 1) /\ B = [entry.L EXCEPT !.idPool = id]
    BY <1>3
  <2> HIDE DEF entry, B
  <2> QED BY <1>2, <1>3, <1>7, <2>1, <2>2, LeaveNew
<1> HIDE DEF entry, B
<1> QED BY <1>4, <1>5, <1>6, <1>7, Zenon

LEMMA PlaceOffer ==
    ASSUME NEW K, IsLedger(K), NEW L, IsLedger(L), Fine(L), NEW o, IsOffer(o),
           o.seller \in DOMAIN K.acc, NEW id \in Nat, NEW creating \in BOOLEAN,
           Pending(K, L, o.seller, id, creating),
           NEW limits, limits = computeOfferExchangeParameters(L, o, creating),
           NEW r, r = placeOffer(L, o, id, creating, limits), r.code = "ok", Fine(r.L)
    PROVE  Settled(K, r.L, o.seller, 0)
<1> DEFINE whole == [code |-> "ok", amount |-> 0, L |-> L]
           t == tradeOffer(L, o, limits)
           n == IF creating THEN 0 ELSE 1
<1>1. r = leaveOffer(whole, o, id, creating) \/ r = leaveOffer(t, o, id, creating)
  <2>1. ASSUME limits.code # "ok" PROVE r # Fail(limits.code, L)
    BY <2>1 DEF Fail
  <2> QED BY <2>1, Zenon DEF placeOffer
<1>2. CASE r = leaveOffer(whole, o, id, creating)
  <2>1. whole.L = L /\ whole.amount \in Nat
    OBVIOUS
  <2> HIDE DEF whole
  <2> QED BY <1>2, <2>1, LeaveOffer
<1>3. CASE r = leaveOffer(t, o, id, creating)
  <2>1. DOMAIN L.acc = DOMAIN K.acc /\ Settled(K, L, o.seller, n) /\ n \in Int
    BY DEF Pending, Settled
  <2>2. limits.maxSheepSend \in Nat /\ limits.maxWheatReceive \in Nat
    BY <2>1, Limits
  <2>3. ASSUME t.code = "ok"
        PROVE  /\ t.amount \in Nat /\ IsLedger(t.L)
               /\ Fine(t.L) => Traded(L, t.L, 0)
    BY <2>1, <2>2, <2>3, TradeOffer
  <2> HIDE DEF t
  <2>4. ASSUME t.code = "ok", Fine(t.L) PROVE Pending(K, t.L, o.seller, id, creating)
    <3>1. Traded(L, t.L, 0)
      BY <2>3, <2>4
    <3>2. Settled(L, t.L, o.seller, 0)
      BY <3>1, TradedIsSettled
    <3>3. Settled(K, t.L, o.seller, n + 0)
      <4> HIDE DEF n
      <4> QED BY <2>1, <3>2, SettledOn
    <3>4. id \notin DOMAIN t.L.offers /\ t.L.idPool = L.idPool
      BY <3>1 DEF Pending, Traded, SameHeader
    <3> QED BY <3>3, <3>4 DEF Pending
  <2> QED BY <1>3, <2>3, <2>4, LeaveOffer
<1> HIDE DEF whole, t
<1> QED BY <1>1, <1>2, <1>3

OfferOf(L, op, creating) ==
    [seller |-> op.src, selling |-> op.selling, buying |-> op.buying,
     amount |-> op.amount, price |-> op.price,
     passive |-> IF creating THEN op.passive ELSE L.offers[op.offerID].passive]

\* The ledger without the old form of an offer.
Off(L, id) == [releaseLiabilities(L, L.offers[id]) EXCEPT !.offers = Without(L.offers, id)]

LEMMA OffIs ==
    ASSUME NEW L, IsLedger(L), NEW id \in DOMAIN L.offers, NEW B, B = Off(L, id)
    PROVE  /\ IsLedger(B) /\ Settled(L, B, L.offers[id].seller, 1)
           /\ id \notin DOMAIN B.offers /\ B.idPool = L.idPool
<1> DEFINE R == releaseLiabilities(L, L.offers[id])
           a == L.offers[id].seller
<1>1. Moved(L, R, 0)
  BY Release DEF IsLedger, AreOffers
<1> HIDE DEF R
<1>2. IsLedger(R) /\ R.offers = L.offers /\ R.idPool = L.idPool
  BY <1>1 DEF Moved, SameHeader
<1>3. B = [R EXCEPT !.offers = Without(R.offers, id)]
  BY <1>2 DEF Off, R
<1>4. Settled(R, B, a, 1) /\ DOMAIN B.offers = DOMAIN R.offers \ {id} /\ B.idPool = R.idPool
  <2>1. id \in DOMAIN R.offers /\ R.offers[id].seller = a
    BY <1>2
  <2>2. /\ Settled(R, B, R.offers[id].seller, 1)
        /\ DOMAIN B.offers = DOMAIN R.offers \ {id} /\ B.idPool = R.idPool
    <3>1. PICK e \in DOMAIN R.offers : e = id
      BY <2>1
    <3>2. IsLedger(R) /\ B = [R EXCEPT !.offers = Without(R.offers, e)]
      BY <1>2, <1>3, <3>1
    <3>3. /\ Settled(R, B, R.offers[e].seller, 1)
          /\ DOMAIN B.offers = DOMAIN R.offers \ {e} /\ B.idPool = R.idPool
      BY <3>2, DropOffer, Zenon
    <3> QED BY <3>1, <3>3
  <2> QED BY <2>1, <2>2
<1>5. Settled(L, R, a, 0)
  BY <1>1, MovedIsSettled
<1>6. 0 \in Int /\ 1 \in Int /\ 0 + 1 = 1
  OBVIOUS
<1>7. Settled(L, B, a, 0 + 1)
  BY <1>4, <1>5, <1>6, SettledOn
<1> QED BY <1>2, <1>4, <1>6, <1>7 DEF Settled

LEMMA ManageOfferIs ==
    ASSUME NEW L, Fine(L), NEW op, NEW r, r = ManageOffer(L, op), r.code = "ok"
    PROVE  LET creating == op.offerID = 0
               id == IF creating THEN L.idPool + 1 ELSE op.offerID
               base == IF creating THEN L ELSE Off(L, id)
               o == OfferOf(L, op, creating)
           IN  /\ creating \/ (id \in DOMAIN L.offers /\ L.offers[id].seller = op.src)
               /\ Fine(base)
               /\ r = placeOffer(base, o, id, creating,
                                 computeOfferExchangeParameters(base, o, creating))
<1> DEFINE creating == op.offerID = 0
           id == IF creating THEN L.idPool + 1 ELSE op.offerID
           base == IF creating THEN L ELSE Off(L, id)
           o == OfferOf(L, op, creating)
           p == placeOffer(base, o, id, creating, computeOfferExchangeParameters(base, o, creating))
           valid == checkOfferValid(L, op)
           found == op.offerID \in DOMAIN L.offers /\ L.offers[op.offerID].seller = op.src
<1>1. \/ valid # "ok" /\ r = Fail(valid, L)
      \/ r = Fail("not found", L)
      \/ r = Fail("throw", [L EXCEPT !.err = base.err])
      \/ (creating \/ found) /\ Fine(base) /\ p.code = "ok" /\ r = p
      \/ p.code # "ok" /\ r = Fail(p.code, [L EXCEPT !.err = p.L.err])
  <2>1. CASE creating
    BY <2>1, Zenon DEF ManageOffer, OfferOf, Fine
  <2>2. CASE ~creating
    BY <2>2, Zenon DEF ManageOffer, OfferOf, Off, Fine
  <2> QED BY <2>1, <2>2, Zenon
<1>2. \A code, M : r = Fail(code, M) => code = "ok"
  BY DEF Fail
<1>3. "not found" # "ok" /\ "throw" # "ok"
  OBVIOUS
<1>4. (creating \/ found) /\ Fine(base) /\ r = p
  <2> HIDE DEF p, valid, base, o, creating, id, found
  <2> QED BY <1>1, <1>2, <1>3, Zenon
<1>5. creating \/ (id \in DOMAIN L.offers /\ L.offers[id].seller = op.src)
  BY <1>4
<1> QED BY <1>4, <1>5, Zenon

LEMMA ManageOfferKeeps ==
    ASSUME NEW L, Sound(L), Fine(L), NEW op, op.src \in DOMAIN L.acc,
           ManageOffer_doCheckValid(op),
           NEW r, r = ManageOffer(L, op), r.code = "ok", Fine(r.L)
    PROVE  Settled(L, r.L, op.src, 0)
<1> DEFINE creating == op.offerID = 0
           id == IF creating THEN L.idPool + 1 ELSE op.offerID
           base == IF creating THEN L ELSE Off(L, id)
           o == OfferOf(L, op, creating)
<1>1. /\ creating \/ (id \in DOMAIN L.offers /\ L.offers[id].seller = op.src)
      /\ Fine(base)
      /\ r = placeOffer(base, o, id, creating, computeOfferExchangeParameters(base, o, creating))
  BY ManageOfferIs
<1>2. IsLedger(L) /\ Numbered(L) /\ L.idPool \in Nat /\ AreOffers(L.offers)
  BY DEF Sound, IsLedger, IsHeader
<1>3. /\ op.amount \in Nat /\ op.price \in Price /\ op.passive \in BOOLEAN /\ op.offerID \in Nat
  BY Int64Assumption DEF ManageOffer_doCheckValid, Amount
<1>4. IsOffer(o) /\ o.seller = op.src
  <2>1. IF creating THEN op.passive \in BOOLEAN ELSE L.offers[op.offerID].passive \in BOOLEAN
    BY <1>1, <1>2, <1>3 DEF AreOffers, IsOffer
  <2> DEFINE p == IF creating THEN op.passive ELSE L.offers[op.offerID].passive
  <2>2. p \in BOOLEAN
    BY <2>1
  <2>3. o = [seller |-> op.src, selling |-> op.selling, buying |-> op.buying,
             amount |-> op.amount, price |-> op.price, passive |-> p]
    BY DEF OfferOf
  <2> HIDE DEF o, p
  <2> QED BY <1>3, <2>2, <2>3 DEF IsOffer
<1>5. id \in Nat /\ creating \in BOOLEAN
  BY <1>2, <1>3
<1>6. IsLedger(base) /\ Pending(L, base, op.src, id, creating)
  <2>1. CASE creating
    <3>1. id = L.idPool + 1 /\ base = L
      BY <2>1
    <3>2. id \notin DOMAIN L.offers /\ L.idPool <= id
      BY <1>2, <3>1 DEF Numbered
    <3>3. Settled(L, L, op.src, 0)
      BY <1>2, SettledNot
    <3> HIDE DEF base, id
    <3> QED BY <1>2, <2>1, <3>1, <3>2, <3>3 DEF Pending
  <2>2. CASE ~creating
    <3>1. id \in DOMAIN L.offers /\ L.offers[id].seller = op.src /\ base = Off(L, id)
      BY <1>1, <2>2
    <3>2. id <= L.idPool
      BY <1>2, <3>1 DEF Numbered
    <3> HIDE DEF base, id
    <3>3. /\ IsLedger(base) /\ Settled(L, base, op.src, 1)
          /\ id \notin DOMAIN base.offers /\ base.idPool = L.idPool
      BY <1>2, <3>1, OffIs
    <3> QED BY <2>2, <3>2, <3>3 DEF Pending
  <2> QED BY <2>1, <2>2
<1> HIDE DEF base, id, o, creating
<1> QED BY <1>1, <1>2, <1>4, <1>5, <1>6, PlaceOffer

-----------------------------------------------------------------------------
(* Lines and data come and go. *)

\* The account a has n entries less in M.
HeldLess(L, M, a, n) ==
    \A b \in DOMAIN L.acc : Trusts(M, b) + Names(M, b)
        = (Trusts(L, b) + Names(L, b)) - (IF b = a THEN n ELSE 0)

LEMMA HeldIsSettled ==
    ASSUME NEW L, IsLedger(L), NEW M, IsLedger(M), SameHeader(L, M), M.acc = L.acc,
           M.offers = L.offers, Owners(M) \subseteq Owners(L) \cup DOMAIN L.acc, Fine(M) <=> Fine(L),
           NEW a, NEW n \in Int, HeldLess(L, M, a, n)
    PROVE  Settled(L, M, a, n)
<1>1. ASSUME NEW b \in DOMAIN L.acc
      PROVE  /\ M.acc[b].seqNum >= L.acc[b].seqNum
             /\ Uncounted(M, b) = Uncounted(L, b) + (IF b = a THEN n ELSE 0)
  <2> DEFINE k == IF b = a THEN n ELSE 0
  <2>1. k \in Int
    OBVIOUS
  <2>2. Trusts(M, b) + Names(M, b) = (Trusts(L, b) + Names(L, b)) - k
    BY DEF HeldLess
  <2> HIDE DEF k
  <2>3. b \in DOMAIN M.acc /\ M.acc[b] = L.acc[b] /\ L.acc[b].seqNum \in Nat
    BY UncountedType
  <2>4. Signs(M, b) = Signs(L, b) /\ Offers(M, b) = Offers(L, b)
    BY <2>3 DEF Signs, Offers, Owned
  <2>5. /\ Signs(L, b) \in Nat /\ Trusts(L, b) \in Nat
        /\ Offers(L, b) \in Nat /\ Names(L, b) \in Nat /\ L.acc[b].numSubEntries \in Nat
        /\ Uncounted(L, b) = L.acc[b].numSubEntries
              - (((Signs(L, b) + Trusts(L, b)) + Offers(L, b)) + Names(L, b))
    BY UncountedIs
  <2>6. /\ Trusts(M, b) \in Nat /\ Names(M, b) \in Nat
        /\ Uncounted(M, b) = M.acc[b].numSubEntries
              - (((Signs(M, b) + Trusts(M, b)) + Offers(M, b)) + Names(M, b))
    BY <2>3, UncountedIs
  <2>7. Uncounted(M, b) = Uncounted(L, b) + k
    BY <2>1, <2>2, <2>3, <2>4, <2>5, <2>6
  <2> QED BY <2>3, <2>7 DEF k
<1>2. Numbered(L) => Numbered(M)
  BY DEF Numbered, SameHeader
<1>3. Lumens(M) = Lumens(L)
  BY DEF Lumens
<1> QED BY <1>1, <1>2, <1>3 DEF Settled, SameHeader

LEMMA PutLines ==
    ASSUME NEW L, IsLedger(L), NEW x, AreLines(x), NEW M, M = [L EXCEPT !.tl = x]
    PROVE  /\ IsLedger(M) /\ SameHeader(L, M) /\ M.tl = x
           /\ M.acc = L.acc /\ M.offers = L.offers /\ M.data = L.data
           /\ Fine(M) <=> Fine(L)
<1>1. /\ LedgerFields(M) /\ SameHeader(L, M)
      /\ M.acc = L.acc /\ M.tl = x /\ M.offers = L.offers /\ M.data = L.data /\ M.err = L.err
  BY FieldTl DEF IsLedger
<1>2. IsHeader(M)
  BY <1>1 DEF IsLedger, IsHeader, SameHeader
<1>3. IsLedger(M)
  BY <1>1, <1>2 DEF IsLedger
<1> QED BY <1>1, <1>3 DEF Fine

LEMMA PutData ==
    ASSUME NEW L, IsLedger(L), NEW x, IsFiniteSet(x), NEW M, M = [L EXCEPT !.data = x]
    PROVE  /\ IsLedger(M) /\ SameHeader(L, M) /\ M.data = x
           /\ M.acc = L.acc /\ M.offers = L.offers /\ M.tl = L.tl
           /\ Fine(M) <=> Fine(L)
<1>1. /\ LedgerFields(M) /\ SameHeader(L, M)
      /\ M.acc = L.acc /\ M.tl = L.tl /\ M.offers = L.offers /\ M.data = x /\ M.err = L.err
  BY FieldData DEF IsLedger
<1>2. IsHeader(M)
  BY <1>1 DEF IsLedger, IsHeader, SameHeader
<1>3. IsLedger(M)
  BY <1>1, <1>2 DEF IsLedger
<1> QED BY <1>1, <1>3 DEF Fine

\* The pairs <<a, x>> of an account a, with one more and with one less.
LEMMA PairsMore ==
    ASSUME NEW S, IsFiniteSet(S), NEW a, NEW x, <<a, x>> \notin S, NEW b
    PROVE  /\ Pairs(S, b) \in Nat
           /\ Pairs(S \cup {<<a, x>>}, b) = Pairs(S, b) + (IF b = a THEN 1 ELSE 0)
<1> DEFINE e == <<a, x>>
           T == S \cup {e}
           P == {p \in S : p[1] = b}
           Q == {p \in T : p[1] = b}
<1>1. IsFiniteSet(P) /\ Cardinality(P) \in Nat
  BY FS_Subset, FS_CardinalityType
<1>2. e[1] = a /\ e \notin S
  OBVIOUS
<1> HIDE DEF e
<1>3. Cardinality(Q) = Cardinality(P) + (IF b = a THEN 1 ELSE 0)
  <2>1. CASE b = a
    <3>1. Q = P \cup {e} /\ e \notin P
      BY <1>2, <2>1, Zenon
    <3> HIDE DEF P, Q
    <3> QED BY <1>1, <2>1, <3>1, OneMore
  <2>2. CASE b # a
    <3>1. Q = P
      BY <1>2, <2>2, Zenon
    <3> HIDE DEF P, Q
    <3> QED BY <1>1, <2>2, <3>1
  <2> QED BY <2>1, <2>2
<1> QED BY <1>1, <1>3 DEF e, Pairs

LEMMA PairsLess ==
    ASSUME NEW S, IsFiniteSet(S), NEW a, NEW x, <<a, x>> \in S, NEW b
    PROVE  /\ Pairs(S, b) \in Nat
           /\ Pairs(S \ {<<a, x>>}, b) = Pairs(S, b) - (IF b = a THEN 1 ELSE 0)
<1> DEFINE e == <<a, x>>
           T == S \ {e}
           P == {p \in S : p[1] = b}
           Q == {p \in T : p[1] = b}
<1>1. IsFiniteSet(P) /\ Cardinality(P) \in Nat
  BY FS_Subset, FS_CardinalityType
<1>2. e[1] = a /\ e \in S
  OBVIOUS
<1> HIDE DEF e
<1>3. Cardinality(Q) = Cardinality(P) - (IF b = a THEN 1 ELSE 0)
  <2>1. CASE b = a
    <3>1. Q = P \ {e} /\ e \in P
      BY <1>2, <2>1, Zenon
    <3> HIDE DEF P, Q
    <3> QED BY <1>1, <2>1, <3>1, OneLess
  <2>2. CASE b # a
    <3>1. Q = P
      BY <1>2, <2>2, Zenon
    <3> HIDE DEF P, Q
    <3> QED BY <1>1, <2>2, <3>1
  <2> QED BY <2>1, <2>2
<1> QED BY <1>1, <1>3 DEF e, Pairs

LEMMA WithLine ==
    ASSUME NEW f, AreLines(f), NEW l, NEW h, IsLine(h)
    PROVE  AreLines(With(f, l, h)) /\ DOMAIN With(f, l, h) = DOMAIN f \cup {l}
<1> DEFINE g == With(f, l, h)
<1>1. g = [k \in DOMAIN f \cup {l} |-> IF k = l THEN h ELSE f[k]]
  BY DEF With
<1>2. IsFiniteSet(DOMAIN f \cup {l})
  BY FS_AddElement DEF AreLines
<1> QED BY <1>1, <1>2 DEF AreLines

LEMMA WithoutLine ==
    ASSUME NEW f, AreLines(f), NEW l
    PROVE  AreLines(Without(f, l)) /\ DOMAIN Without(f, l) = DOMAIN f \ {l}
<1>1. Without(f, l) = [k \in DOMAIN f \ {l} |-> f[k]]
  BY DEF Without, Restrict
<1>2. IsFiniteSet(DOMAIN f \ {l})
  BY FS_Subset DEF AreLines
<1> QED BY <1>1, <1>2 DEF AreLines

LEMMA AddLine ==
    ASSUME NEW L, IsLedger(L), NEW a \in DOMAIN L.acc, NEW asset, <<a, asset>> \notin DOMAIN L.tl,
           NEW h, IsLine(h), NEW M, M = [L EXCEPT !.tl = With(L.tl, <<a, asset>>, h)]
    PROVE  Settled(L, M, a, -1)
<1> DEFINE f == With(L.tl, <<a, asset>>, h)
<1>1. AreLines(f) /\ DOMAIN f = DOMAIN L.tl \cup {<<a, asset>>}
  BY WithLine DEF IsLedger
<1>2. /\ IsLedger(M) /\ SameHeader(L, M) /\ M.tl = f
      /\ M.acc = L.acc /\ M.offers = L.offers /\ M.data = L.data
      /\ Fine(M) <=> Fine(L)
  BY <1>1, PutLines
<1> HIDE DEF f
<1>3. DOMAIN M.tl = DOMAIN L.tl \cup {<<a, asset>>} /\ <<a, asset>>[1] = a
  BY <1>1, <1>2
<1>4. Owners(M) \subseteq Owners(L) \cup DOMAIN L.acc
  BY <1>2, <1>3 DEF Owners
<1>5. IsFiniteSet(DOMAIN L.tl)
  BY DEF IsLedger, AreLines
<1>6. ASSUME NEW b \in DOMAIN L.acc
      PROVE  Trusts(M, b) + Names(M, b) = (Trusts(L, b) + Names(L, b)) - (IF b = a THEN -1 ELSE 0)
  <2>1. /\ Trusts(L, b) \in Nat
        /\ Trusts(M, b) = Trusts(L, b) + (IF b = a THEN 1 ELSE 0)
    BY <1>3, <1>5, PairsMore DEF Trusts
  <2>2. Names(M, b) = Names(L, b) /\ Names(L, b) \in Nat
    BY <1>2, UncountedIs DEF Names
  <2>3. CASE b = a
    BY <2>1, <2>2, <2>3
  <2>4. CASE b # a
    BY <2>1, <2>2, <2>4
  <2> QED BY <2>3, <2>4
<1>7. HeldLess(L, M, a, -1)
  BY <1>6 DEF HeldLess
<1>8. -1 \in Int
  OBVIOUS
<1> QED BY <1>2, <1>4, <1>7, <1>8, HeldIsSettled

LEMMA DropLine ==
    ASSUME NEW L, IsLedger(L), NEW a \in DOMAIN L.acc, NEW asset, <<a, asset>> \in DOMAIN L.tl,
           NEW M, M = [L EXCEPT !.tl = Without(L.tl, <<a, asset>>)]
    PROVE  Settled(L, M, a, 1)
<1> DEFINE f == Without(L.tl, <<a, asset>>)
<1>1. AreLines(f) /\ DOMAIN f = DOMAIN L.tl \ {<<a, asset>>}
  BY WithoutLine DEF IsLedger
<1>2. /\ IsLedger(M) /\ SameHeader(L, M) /\ M.tl = f
      /\ M.acc = L.acc /\ M.offers = L.offers /\ M.data = L.data
      /\ Fine(M) <=> Fine(L)
  BY <1>1, PutLines
<1> HIDE DEF f
<1>3. DOMAIN M.tl = DOMAIN L.tl \ {<<a, asset>>}
  BY <1>1, <1>2
<1>4. Owners(M) \subseteq Owners(L) \cup DOMAIN L.acc
  BY <1>2, <1>3 DEF Owners
<1>5. IsFiniteSet(DOMAIN L.tl)
  BY DEF IsLedger, AreLines
<1>6. ASSUME NEW b \in DOMAIN L.acc
      PROVE  Trusts(M, b) + Names(M, b) = (Trusts(L, b) + Names(L, b)) - (IF b = a THEN 1 ELSE 0)
  <2>1. /\ Trusts(L, b) \in Nat
        /\ Trusts(M, b) = Trusts(L, b) - (IF b = a THEN 1 ELSE 0)
    BY <1>3, <1>5, PairsLess DEF Trusts
  <2>2. Names(M, b) = Names(L, b) /\ Names(L, b) \in Nat
    BY <1>2, UncountedIs DEF Names
  <2>3. CASE b = a
    BY <2>1, <2>2, <2>3
  <2>4. CASE b # a
    BY <2>1, <2>2, <2>4
  <2> QED BY <2>3, <2>4
<1>7. HeldLess(L, M, a, 1)
  BY <1>6 DEF HeldLess
<1>8. 1 \in Int
  OBVIOUS
<1> QED BY <1>2, <1>4, <1>7, <1>8, HeldIsSettled

LEMMA AddData ==
    ASSUME NEW L, IsLedger(L), NEW a \in DOMAIN L.acc, NEW name, <<a, name>> \notin L.data,
           NEW M, M = [L EXCEPT !.data = L.data \cup {<<a, name>>}]
    PROVE  Settled(L, M, a, -1)
<1>1. IsFiniteSet(L.data \cup {<<a, name>>}) /\ IsFiniteSet(L.data)
  BY FS_AddElement DEF IsLedger
<1>2. /\ IsLedger(M) /\ SameHeader(L, M) /\ M.data = L.data \cup {<<a, name>>}
      /\ M.acc = L.acc /\ M.offers = L.offers /\ M.tl = L.tl
      /\ Fine(M) <=> Fine(L)
  BY <1>1, PutData
<1>3. <<a, name>>[1] = a
  OBVIOUS
<1>4. Owners(M) \subseteq Owners(L) \cup DOMAIN L.acc
  BY <1>2, <1>3 DEF Owners
<1>6. ASSUME NEW b \in DOMAIN L.acc
      PROVE  Trusts(M, b) + Names(M, b) = (Trusts(L, b) + Names(L, b)) - (IF b = a THEN -1 ELSE 0)
  <2>1. /\ Names(L, b) \in Nat
        /\ Names(M, b) = Names(L, b) + (IF b = a THEN 1 ELSE 0)
    BY <1>1, <1>2, PairsMore DEF Names
  <2>2. Trusts(M, b) = Trusts(L, b) /\ Trusts(L, b) \in Nat
    BY <1>2, UncountedIs DEF Trusts
  <2>3. CASE b = a
    BY <2>1, <2>2, <2>3
  <2>4. CASE b # a
    BY <2>1, <2>2, <2>4
  <2> QED BY <2>3, <2>4
<1>7. HeldLess(L, M, a, -1)
  BY <1>6 DEF HeldLess
<1>8. -1 \in Int
  OBVIOUS
<1> QED BY <1>2, <1>4, <1>7, <1>8, HeldIsSettled

LEMMA DropData ==
    ASSUME NEW L, IsLedger(L), NEW a \in DOMAIN L.acc, NEW name, <<a, name>> \in L.data,
           NEW M, M = [L EXCEPT !.data = L.data \ {<<a, name>>}]
    PROVE  Settled(L, M, a, 1)
<1>1. IsFiniteSet(L.data \ {<<a, name>>}) /\ IsFiniteSet(L.data)
  BY FS_Subset DEF IsLedger
<1>2. /\ IsLedger(M) /\ SameHeader(L, M) /\ M.data = L.data \ {<<a, name>>}
      /\ M.acc = L.acc /\ M.offers = L.offers /\ M.tl = L.tl
      /\ Fine(M) <=> Fine(L)
  BY <1>1, PutData
<1>4. Owners(M) \subseteq Owners(L) \cup DOMAIN L.acc
  BY <1>2 DEF Owners
<1>6. ASSUME NEW b \in DOMAIN L.acc
      PROVE  Trusts(M, b) + Names(M, b) = (Trusts(L, b) + Names(L, b)) - (IF b = a THEN 1 ELSE 0)
  <2>1. /\ Names(L, b) \in Nat
        /\ Names(M, b) = Names(L, b) - (IF b = a THEN 1 ELSE 0)
    BY <1>1, <1>2, PairsLess DEF Names
  <2>2. Trusts(M, b) = Trusts(L, b) /\ Trusts(L, b) \in Nat
    BY <1>2, UncountedIs DEF Trusts
  <2>3. CASE b = a
    BY <2>1, <2>2, <2>3
  <2>4. CASE b # a
    BY <2>1, <2>2, <2>4
  <2> QED BY <2>3, <2>4
<1>7. HeldLess(L, M, a, 1)
  BY <1>6 DEF HeldLess
<1>8. 1 \in Int
  OBVIOUS
<1> QED BY <1>2, <1>4, <1>7, <1>8, HeldIsSettled

LEMMA CountUp ==
    ASSUME NEW L, IsLedger(L), NEW a, NEW r, r = addNumEntries(L, a, 1), r.ok
    PROVE  /\ IsLedger(r.L) /\ Settled(L, r.L, a, 1)
           /\ r.L.tl = L.tl /\ r.L.data = L.data /\ DOMAIN r.L.acc = DOMAIN L.acc
<1>1. 1 \in Int
  OBVIOUS
<1>2. Charged(L, r.L, a, 1)
  BY <1>1, AddNumEntries
<1> QED BY <1>1, <1>2, ChargedIsSettled DEF Charged

LEMMA CountDown ==
    ASSUME NEW L, IsLedger(L), NEW a, NEW r, r = addNumEntries(L, a, -1), r.ok \/ Fine(r.L)
    PROVE  /\ IsLedger(r.L) /\ Settled(L, r.L, a, -1)
           /\ r.L.tl = L.tl /\ r.L.data = L.data /\ DOMAIN r.L.acc = DOMAIN L.acc
<1>1. -1 \in Int /\ -1 < 0
  OBVIOUS
<1>2. Charged(L, r.L, a, -1)
  BY <1>1, AddNumEntries
<1> QED BY <1>1, <1>2, ChargedIsSettled DEF Charged

\* An entry that is counted and then comes, or that goes and is no longer counted.
LEMMA Balanced ==
    ASSUME NEW L, IsLedger(L), NEW M, NEW N, NEW a,
           \/ Settled(L, M, a, 1) /\ Settled(M, N, a, -1)
           \/ Settled(L, M, a, -1) /\ Settled(M, N, a, 1)
    PROVE  Settled(L, N, a, 0)
<1>1. 1 \in Int /\ -1 \in Int /\ 1 + (-1) = 0 /\ -1 + 1 = 0
  OBVIOUS
<1>2. Settled(L, N, a, 1 + (-1)) \/ Settled(L, N, a, -1 + 1)
  BY <1>1, SettledOn
<1> QED BY <1>1, <1>2

ManageDataOutcome(L, op, r) ==
    LET entry == addNumEntries(L, op.src, IF op.set THEN 1 ELSE -1)
        e == <<op.src, op.name>>
    IN  \/ r.L = L
        \/ /\ op.set /\ e \notin L.data /\ entry.ok
           /\ r.L = [entry.L EXCEPT !.data = entry.L.data \cup {e}]
        \/ /\ ~op.set /\ e \in L.data /\ entry.ok
           /\ r.L = [entry.L EXCEPT !.data = entry.L.data \ {e}]

LEMMA ManageDataIs ==
    ASSUME NEW L, NEW op, op.set \in BOOLEAN, NEW r, r = ManageData(L, op), r.code = "ok"
    PROVE  ManageDataOutcome(L, op, r)
<1> DEFINE entry == addNumEntries(L, op.src, IF op.set THEN 1 ELSE -1)
           E == entry.L
           e == <<op.src, op.name>>
<1>1. \/ r = Done(L) \/ r = Fail("name not found", L) \/ r = Fail("low reserve", L)
      \/ /\ op.set /\ e \notin L.data /\ entry.ok
         /\ r = Done([E EXCEPT !.data = E.data \cup {e}])
      \/ /\ ~op.set /\ e \in L.data /\ entry.ok
         /\ r = Done([E EXCEPT !.data = E.data \ {e}])
  <2>1. CASE op.set
    BY <2>1, Zenon DEF ManageData
  <2>2. CASE ~op.set
    BY <2>2, Zenon DEF ManageData
  <2> QED BY <2>1, <2>2
<1>2. \A code, M : r = Fail(code, M) => code = "ok"
  BY DEF Fail
<1>3. r # Fail("name not found", L) /\ r # Fail("low reserve", L)
  <2>1. "name not found" # "ok" /\ "low reserve" # "ok"
    OBVIOUS
  <2> QED BY <1>2, <2>1, Zenon
<1>4. \A M : Done(M).L = M
  BY DEF Done
<1> HIDE DEF entry, E
<1>5. \/ r.L = L
      \/ op.set /\ e \notin L.data /\ entry.ok /\ r.L = [E EXCEPT !.data = E.data \cup {e}]
      \/ ~op.set /\ e \in L.data /\ entry.ok /\ r.L = [E EXCEPT !.data = E.data \ {e}]
  BY <1>1, <1>3, <1>4, Zenon
<1> QED BY <1>5, Zenon DEF ManageDataOutcome, entry, E

LEMMA ManageDataKeeps ==
    ASSUME NEW L, IsLedger(L), NEW op, op.src \in DOMAIN L.acc, op.set \in BOOLEAN,
           NEW r, r = ManageData(L, op), r.code = "ok"
    PROVE  Settled(L, r.L, op.src, 0)
<1> DEFINE a == op.src
           e == <<op.src, op.name>>
           entry == addNumEntries(L, op.src, IF op.set THEN 1 ELSE -1)
           E == entry.L
<1>1. \/ r.L = L
      \/ op.set /\ e \notin L.data /\ entry.ok /\ r.L = [E EXCEPT !.data = E.data \cup {e}]
      \/ ~op.set /\ e \in L.data /\ entry.ok /\ r.L = [E EXCEPT !.data = E.data \ {e}]
  <2>1. ManageDataOutcome(L, op, r)
    BY ManageDataIs
  <2> QED BY <2>1, Zenon DEF ManageDataOutcome
<1>2. CASE r.L = L
  BY <1>2, SettledNot
<1>3. CASE op.set /\ e \notin L.data /\ entry.ok /\ r.L = [E EXCEPT !.data = E.data \cup {e}]
  <2>1. entry = addNumEntries(L, a, 1)
    BY <1>3
  <2> HIDE DEF entry
  <2>2. IsLedger(E) /\ Settled(L, E, a, 1) /\ E.data = L.data /\ a \in DOMAIN E.acc
    BY <1>3, <2>1, CountUp
  <2> HIDE DEF E
  <2>3. Settled(E, r.L, a, -1)
    BY <1>3, <2>2, AddData
  <2> QED BY <2>2, <2>3, Balanced
<1>4. CASE ~op.set /\ e \in L.data /\ entry.ok /\ r.L = [E EXCEPT !.data = E.data \ {e}]
  <2>1. entry = addNumEntries(L, a, -1)
    BY <1>4
  <2> HIDE DEF entry
  <2>2. IsLedger(E) /\ Settled(L, E, a, -1) /\ E.data = L.data /\ a \in DOMAIN E.acc
    BY <1>4, <2>1, CountDown
  <2> HIDE DEF E
  <2>3. Settled(E, r.L, a, 1)
    BY <1>4, <2>2, DropData
  <2> QED BY <2>2, <2>3, Balanced
<1> HIDE DEF entry, E
<1> QED BY <1>1, <1>2, <1>3, <1>4, Zenon

-----------------------------------------------------------------------------
(* Trust lines change. *)

LEMMA FieldLimit ==
    ASSUME NEW L, LedgerFields(L), NEW l, NEW x
    PROVE  [L EXCEPT !.tl[l].limit = x] = [L EXCEPT !.tl[l] = [L.tl[l] EXCEPT !.limit = x]]
BY DEF LedgerFields

LEMMA FieldAuthorized ==
    ASSUME NEW L, LedgerFields(L), NEW l, NEW x
    PROVE  [L EXCEPT !.tl[l].authorized = x]
               = [L EXCEPT !.tl[l] = [L.tl[l] EXCEPT !.authorized = x]]
BY DEF LedgerFields

LEMMA SetLimit ==
    ASSUME NEW L, IsLedger(L), NEW l \in DOMAIN L.tl, NEW x \in 0..INT64_MAX,
           ~ (x < L.tl[l].balance + L.tl[l].buying), NEW M, M = [L EXCEPT !.tl[l].limit = x]
    PROVE  Moved(L, M, 0)
<1> DEFINE h == L.tl[l]
           k == [h EXCEPT !.limit = x]
<1>1. IsLine(h)
  BY DEF IsLedger, AreLines
<1>2. IsLine(k)
  BY <1>1, Int64Assumption DEF IsLine
<1>3. [L EXCEPT !.tl[l].limit = x] = [L EXCEPT !.tl[l] = k]
  BY FieldLimit DEF IsLedger
<1> HIDE DEF k
<1> QED BY <1>2, <1>3, SetLine

LEMMA SetAuthorized ==
    ASSUME NEW L, IsLedger(L), NEW l, NEW x \in BOOLEAN
    PROVE  Moved(L, [L EXCEPT !.tl[l].authorized = x], 0)
<1> DEFINE h == L.tl[l]
           k == [h EXCEPT !.authorized = x]
<1>3. [L EXCEPT !.tl[l].authorized = x] = [L EXCEPT !.tl[l] = k]
  BY FieldAuthorized DEF IsLedger
<1>4. CASE l \in DOMAIN L.tl
  <2>1. IsLine(h)
    BY <1>4 DEF IsLedger, AreLines
  <2>2. IsLine(k)
    BY <2>1 DEF IsLine
  <2> HIDE DEF k
  <2> QED BY <1>3, <1>4, <2>2, SetLine
<1>5. CASE l \notin DOMAIN L.tl
  <2>1. [L EXCEPT !.tl[l] = k] = L
    BY <1>5, SetNoLine
  <2> HIDE DEF k
  <2> QED BY <1>3, <2>1, MovedNot
<1> QED BY <1>4, <1>5

NewLine(L, op) ==
    [balance |-> 0, limit |-> op.limit, buying |-> 0, selling |-> 0,
     authorized |-> "required" \notin L.acc[Issuer[op.asset]].flags]

ChangeTrustOutcome(L, op, M) ==
    LET line == <<op.src, op.asset>>
        entry == addNumEntries(L, op.src, 1)
    IN  \/ /\ line \in DOMAIN L.tl /\ ~ (op.limit < L.tl[line].balance + L.tl[line].buying)
           /\ op.limit = 0
           /\ M = addNumEntries([L EXCEPT !.tl = Without(L.tl, line)], op.src, -1).L
        \/ /\ line \in DOMAIN L.tl /\ ~ (op.limit < L.tl[line].balance + L.tl[line].buying)
           /\ M = [L EXCEPT !.tl[line].limit = op.limit]
        \/ /\ line \notin DOMAIN L.tl /\ entry.ok /\ Issuer[op.asset] # op.src
           /\ M = [entry.L EXCEPT !.tl = With(L.tl, line, NewLine(L, op))]

LEMMA ChangeTrustIs ==
    ASSUME NEW L, NEW op, NEW r, r = ChangeTrust(L, op), r.code = "ok"
    PROVE  ChangeTrustOutcome(L, op, r.L)
<1> DEFINE line == <<op.src, op.asset>>
           entry == addNumEntries(L, op.src, 1)
           low == op.limit < L.tl[line].balance + L.tl[line].buying
           own == Issuer[op.asset] = op.src
           none == op.limit = 0
           D == addNumEntries([L EXCEPT !.tl = Without(L.tl, line)], op.src, -1).L
           C == [L EXCEPT !.tl[line].limit = op.limit]
           A == [entry.L EXCEPT !.tl = With(L.tl, line, NewLine(L, op))]
<1>1. \/ r = Fail("self not allowed", L) \/ r = Fail("invalid limit", L)
      \/ r = Fail("no issuer", L) \/ r = Fail("low reserve", L)
      \/ line \in DOMAIN L.tl /\ ~low /\ none /\ r = Done(D)
      \/ line \in DOMAIN L.tl /\ ~low /\ r = Done(C)
      \/ line \notin DOMAIN L.tl /\ entry.ok /\ ~own /\ r = Done(A)
  <2>1. CASE line \in DOMAIN L.tl
    BY <2>1, Zenon DEF ChangeTrust
  <2>2. CASE line \notin DOMAIN L.tl
    BY <2>2, Zenon DEF ChangeTrust, NewLine
  <2> QED BY <2>1, <2>2
<1>2. \A code, M : r = Fail(code, M) => code = "ok"
  BY DEF Fail
<1> HIDE DEF A, C, D, low, own, none, entry
<1>3. \/ line \in DOMAIN L.tl /\ ~low /\ none /\ r = Done(D)
      \/ line \in DOMAIN L.tl /\ ~low /\ r = Done(C)
      \/ line \notin DOMAIN L.tl /\ entry.ok /\ ~own /\ r = Done(A)
  <2>1. /\ "self not allowed" # "ok" /\ "invalid limit" # "ok" /\ "no issuer" # "ok"
        /\ "low reserve" # "ok"
    OBVIOUS
  <2>2. r # Fail("self not allowed", L)
    BY <1>2, <2>1, Zenon
  <2>3. r # Fail("invalid limit", L)
    BY <1>2, <2>1, Zenon
  <2>4. r # Fail("no issuer", L)
    BY <1>2, <2>1, Zenon
  <2>5. r # Fail("low reserve", L)
    BY <1>2, <2>1, Zenon
  <2> QED BY <1>1, <2>2, <2>3, <2>4, <2>5, Zenon
<1>4. \A M : Done(M).L = M
  BY DEF Done
<1>5. \/ line \in DOMAIN L.tl /\ ~low /\ none /\ r.L = D
      \/ line \in DOMAIN L.tl /\ ~low /\ r.L = C
      \/ line \notin DOMAIN L.tl /\ entry.ok /\ ~own /\ r.L = A
  BY <1>3, <1>4, Zenon
<1> QED BY <1>5, Zenon DEF ChangeTrustOutcome, A, C, D, low, own, none, entry

LEMMA ChangeTrustKeeps ==
    ASSUME NEW L, IsLedger(L), NEW op, op.src \in DOMAIN L.acc, op.limit \in Amount,
           NEW r, r = ChangeTrust(L, op), r.code = "ok", Fine(r.L)
    PROVE  Settled(L, r.L, op.src, 0)
<1> DEFINE a == op.src
           line == <<op.src, op.asset>>
           entry == addNumEntries(L, a, 1)
           E == entry.L
           W == [L EXCEPT !.tl = Without(L.tl, line)]
           down == addNumEntries(W, a, -1)
<1>1. \/ line \in DOMAIN L.tl /\ r.L = down.L
      \/ /\ line \in DOMAIN L.tl /\ ~ (op.limit < L.tl[line].balance + L.tl[line].buying)
         /\ r.L = [L EXCEPT !.tl[line].limit = op.limit]
      \/ /\ line \notin DOMAIN L.tl /\ entry.ok
         /\ r.L = [E EXCEPT !.tl = With(L.tl, line, NewLine(L, op))]
  <2>1. ChangeTrustOutcome(L, op, r.L)
    BY ChangeTrustIs
  <2> QED BY <2>1, Zenon DEF ChangeTrustOutcome
<1>2. CASE line \in DOMAIN L.tl /\ r.L = down.L
  <2>1. Settled(L, W, a, 1)
    BY <1>2, DropLine
  <2>2. IsLedger(W)
    BY <2>1 DEF Settled
  <2> HIDE DEF W
  <2>3. Settled(W, down.L, a, -1)
    BY <1>2, <2>2, CountDown
  <2> HIDE DEF down
  <2> QED BY <1>2, <2>1, <2>3, Balanced
<1>3. CASE /\ line \in DOMAIN L.tl /\ ~ (op.limit < L.tl[line].balance + L.tl[line].buying)
           /\ r.L = [L EXCEPT !.tl[line].limit = op.limit]
  <2>1. Moved(L, r.L, 0)
    <3> HIDE DEF line
    <3>1. PICK l \in DOMAIN L.tl : l = line
      BY <1>3
    <3>2. ~ (op.limit < L.tl[l].balance + L.tl[l].buying) /\ r.L = [L EXCEPT !.tl[l].limit = op.limit]
      BY <1>3, <3>1
    <3>3. op.limit \in 0..INT64_MAX
      BY DEF Amount
    <3> QED BY <3>2, <3>3, SetLimit, Zenon
  <2> QED BY <2>1, MovedIsSettled
<1>4. CASE /\ line \notin DOMAIN L.tl /\ entry.ok
           /\ r.L = [E EXCEPT !.tl = With(L.tl, line, NewLine(L, op))]
  <2>1. IsLedger(E) /\ Settled(L, E, a, 1) /\ E.tl = L.tl /\ a \in DOMAIN E.acc
    BY <1>4, CountUp
  <2>2. IsLine(NewLine(L, op))
    BY Int64Assumption DEF IsLine, NewLine, Amount
  <2> HIDE DEF entry, E
  <2>3. line \notin DOMAIN E.tl /\ r.L = [E EXCEPT !.tl = With(E.tl, line, NewLine(L, op))]
    BY <1>4, <2>1
  <2>4. Settled(E, r.L, a, -1)
    BY <2>1, <2>2, <2>3, AddLine
  <2> QED BY <2>1, <2>4, Balanced
<1> HIDE DEF line, entry, E, W, down
<1> QED BY <1>1, <1>2, <1>3, <1>4, Zenon

-----------------------------------------------------------------------------
(* The options and the sequence number of an account change. *)

\* The account a becomes h, with n signers less.
LEMMA PutOwner ==
    ASSUME NEW L, IsLedger(L), NEW a \in DOMAIN L.acc, NEW g, g = L.acc[a],
           NEW h, IsAccount(h), h.balance = g.balance, h.numSubEntries = g.numSubEntries,
           h.seqNum >= g.seqNum, NEW n \in Int,
           Cardinality(h.signers) = Cardinality(g.signers) - n,
           NEW M, M = [L EXCEPT !.acc[a] = h]
    PROVE  IsLedger(M) /\ Settled(L, M, a, n) /\ DOMAIN M.acc = DOMAIN L.acc /\ M.acc[a] = h
<1>1. /\ WithAccounts(L, M, [L.acc EXCEPT ![a] = h])
      /\ DOMAIN M.acc = DOMAIN L.acc /\ M.acc[a] = h
      /\ \A b \in DOMAIN L.acc : b # a => M.acc[b] = L.acc[b]
      /\ Lumens(M) = Lumens(L) + (h.balance - L.acc[a].balance)
  BY PutAccount
<1>2. /\ IsLedger(M) /\ SameHeader(L, M) /\ (Fine(M) <=> Fine(L))
      /\ M.tl = L.tl /\ M.offers = L.offers /\ M.data = L.data
  BY <1>1 DEF WithAccounts
<1>3. Lumens(M) = Lumens(L)
  <2>1. L.acc[a].balance \in Int /\ Lumens(L) \in Int
    BY UncountedType, LumensType DEF IsLedger
  <2> QED BY <1>1, <2>1
<1>4. ASSUME NEW b \in DOMAIN L.acc
      PROVE  /\ M.acc[b].seqNum >= L.acc[b].seqNum
             /\ Uncounted(M, b) = Uncounted(L, b) + (IF b = a THEN n ELSE 0)
  <2>1. Offers(M, b) = Offers(L, b) /\ Trusts(M, b) = Trusts(L, b) /\ Names(M, b) = Names(L, b)
    BY <1>2 DEF Offers, Trusts, Names, Owned
  <2> DEFINE k == IF b = a THEN n ELSE 0
  <2>2. L.acc[b].seqNum \in Nat
    BY UncountedType
  <2>3. /\ M.acc[b].seqNum >= L.acc[b].seqNum /\ M.acc[b].numSubEntries = L.acc[b].numSubEntries
        /\ k \in Int /\ Signs(M, b) = Signs(L, b) - k
    <3>1. Signs(L, b) \in Nat
      BY UncountedIs
    <3>2. CASE b = a
      BY <1>1, <3>2 DEF Signs
    <3>3. CASE b # a
      BY <1>1, <2>2, <3>1, <3>3 DEF Signs
    <3> QED BY <3>2, <3>3
  <2> HIDE DEF k
  <2>4. /\ Signs(L, b) \in Nat /\ Trusts(L, b) \in Nat
        /\ Offers(L, b) \in Nat /\ Names(L, b) \in Nat /\ L.acc[b].numSubEntries \in Nat
        /\ Uncounted(L, b) = L.acc[b].numSubEntries
              - (((Signs(L, b) + Trusts(L, b)) + Offers(L, b)) + Names(L, b))
    BY UncountedIs
  <2>5. Uncounted(M, b) = M.acc[b].numSubEntries
              - (((Signs(M, b) + Trusts(M, b)) + Offers(M, b)) + Names(M, b))
    BY <1>1, <1>2, UncountedIs
  <2>6. Uncounted(M, b) = Uncounted(L, b) + k
    BY <2>1, <2>3, <2>4, <2>5
  <2> QED BY <2>3, <2>6 DEF k
<1>5. Owners(M) = Owners(L) /\ (Numbered(L) => Numbered(M))
  BY <1>2 DEF Owners, Numbered, SameHeader
<1> QED BY <1>1, <1>2, <1>3, <1>4, <1>5 DEF Settled, SameHeader

LEMMA FieldOptions ==
    ASSUME NEW L, LedgerFields(L), NEW a, NEW x
    PROVE  /\ [L EXCEPT !.acc[a].seqNum = x]
                  = [L EXCEPT !.acc[a] = [L.acc[a] EXCEPT !.seqNum = x]]
           /\ [L EXCEPT !.acc[a].inflationDest = x]
                  = [L EXCEPT !.acc[a] = [L.acc[a] EXCEPT !.inflationDest = x]]
           /\ [L EXCEPT !.acc[a].flags = x]
                  = [L EXCEPT !.acc[a] = [L.acc[a] EXCEPT !.flags = x]]
           /\ [L EXCEPT !.acc[a].signers = x]
                  = [L EXCEPT !.acc[a] = [L.acc[a] EXCEPT !.signers = x]]
BY DEF LedgerFields

LEMMA AccountOptions ==
    ASSUME NEW h, IsAccount(h), NEW x, NEW k,
           \/ k = [h EXCEPT !.inflationDest = x]
           \/ k = [h EXCEPT !.flags = x]
           \/ k = [h EXCEPT !.seqNum = x] /\ x \in Nat /\ x >= h.seqNum
           \/ k = [h EXCEPT !.signers = x] /\ IsFiniteSet(x)
    PROVE  /\ IsAccount(k) /\ k.balance = h.balance /\ k.numSubEntries = h.numSubEntries
           /\ k.seqNum >= h.seqNum
           /\ k.signers = h.signers \/ (k.signers = x /\ k = [h EXCEPT !.signers = x])
<1>1. CASE k = [h EXCEPT !.inflationDest = x]
  BY <1>1 DEF IsAccount
<1>2. CASE k = [h EXCEPT !.flags = x]
  BY <1>2 DEF IsAccount
<1>3. CASE k = [h EXCEPT !.seqNum = x] /\ x \in Nat /\ x >= h.seqNum
  BY <1>3 DEF IsAccount
<1>4. CASE k = [h EXCEPT !.signers = x] /\ IsFiniteSet(x)
  BY <1>4 DEF IsAccount
<1> QED BY <1>1, <1>2, <1>3, <1>4

OptionSet(L, M, a, x) ==
    \/ M = [L EXCEPT !.acc[a].inflationDest = x]
    \/ M = [L EXCEPT !.acc[a].flags = x]
    \/ M = [L EXCEPT !.acc[a].seqNum = x] /\ x \in Nat /\ x >= L.acc[a].seqNum

\* One option or the sequence number is set; the signers stay.
LEMMA SetOption ==
    ASSUME NEW L, IsLedger(L), NEW a \in DOMAIN L.acc, NEW x, NEW M, OptionSet(L, M, a, x)
    PROVE  /\ IsLedger(M) /\ Settled(L, M, a, 0) /\ DOMAIN M.acc = DOMAIN L.acc
           /\ M.acc[a].signers = L.acc[a].signers
<1> DEFINE g == L.acc[a]
<1>1. IsAccount(g)
  BY DEF IsLedger, AreAccounts
<1>2. \E k : /\ M = [L EXCEPT !.acc[a] = k]
             /\ \/ k = [g EXCEPT !.inflationDest = x]
                \/ k = [g EXCEPT !.flags = x]
                \/ k = [g EXCEPT !.seqNum = x] /\ x \in Nat /\ x >= g.seqNum
  BY FieldOptions DEF IsLedger, OptionSet
<1>3. PICK k : /\ M = [L EXCEPT !.acc[a] = k]
               /\ \/ k = [g EXCEPT !.inflationDest = x]
                  \/ k = [g EXCEPT !.flags = x]
                  \/ k = [g EXCEPT !.seqNum = x] /\ x \in Nat /\ x >= g.seqNum
  BY <1>2
<1>4. /\ IsAccount(k) /\ k.balance = g.balance /\ k.numSubEntries = g.numSubEntries
      /\ k.seqNum >= g.seqNum
  BY <1>1, <1>3, AccountOptions
<1>5. k.signers = g.signers
  BY <1>1, <1>3 DEF IsAccount
<1>6. Cardinality(k.signers) = Cardinality(g.signers) - 0 /\ 0 \in Int
  <2>1. Cardinality(g.signers) \in Nat
    BY <1>1, FS_CardinalityType DEF IsAccount
  <2> QED BY <1>5, <2>1
<1>7. IsLedger(M) /\ Settled(L, M, a, 0) /\ DOMAIN M.acc = DOMAIN L.acc /\ M.acc[a] = k
  BY <1>3, <1>4, <1>6, PutOwner
<1> QED BY <1>5, <1>7

\* A signer comes or goes.
LEMMA SetSigners ==
    ASSUME NEW L, IsLedger(L), NEW a \in DOMAIN L.acc, NEW s, NEW S, NEW M, NEW n,
           \/ s \notin L.acc[a].signers /\ S = L.acc[a].signers \cup {s} /\ n = -1
           \/ s \in L.acc[a].signers /\ S = L.acc[a].signers \ {s} /\ n = 1,
           M = [L EXCEPT !.acc[a].signers = S]
    PROVE  Settled(L, M, a, n)
<1> DEFINE g == L.acc[a]
           k == [g EXCEPT !.signers = S]
<1>1. IsAccount(g) /\ IsFiniteSet(g.signers) /\ Cardinality(g.signers) \in Nat
  BY FS_CardinalityType DEF IsLedger, AreAccounts, IsAccount
<1>2. IsFiniteSet(S) /\ n \in Int /\ Cardinality(S) = Cardinality(g.signers) - n
  <2>1. CASE s \notin g.signers /\ S = g.signers \cup {s} /\ n = -1
    BY <1>1, <2>1, OneMore, FS_AddElement
  <2>2. CASE s \in g.signers /\ S = g.signers \ {s} /\ n = 1
    BY <1>1, <2>2, OneLess, FS_Subset
  <2> QED BY <2>1, <2>2
<1>3. /\ IsAccount(k) /\ k.balance = g.balance /\ k.numSubEntries = g.numSubEntries
      /\ k.seqNum >= g.seqNum /\ k.signers = S
  <2> HIDE DEF g
  <2> QED BY <1>1, <1>2, AccountOptions DEF IsAccount
<1>4. M = [L EXCEPT !.acc[a] = k]
  BY FieldOptions DEF IsLedger
<1> HIDE DEF k
<1> QED BY <1>2, <1>3, <1>4, PutOwner

\* The ledger with the inflation destination and the flags of op.
Flagged(L, op) ==
    LET dest == IF op.inflationDest = None THEN L
                ELSE [L EXCEPT !.acc[op.src].inflationDest = op.inflationDest]
    IN  [dest EXCEPT !.acc[op.src].flags = (@ \ op.clearFlags) \cup op.setFlags]

SetOptionsOutcome(L, op, M) ==
    LET F == Flagged(L, op)
        entry == addNumEntries(F, op.src, IF op.weight > 0 THEN 1 ELSE -1)
        signers == entry.L.acc[op.src].signers
    IN  \/ M = F
        \/ /\ op.weight > 0 /\ op.signer \notin L.acc[op.src].signers /\ entry.ok
           /\ M = [entry.L EXCEPT !.acc[op.src].signers = signers \cup {op.signer}]
        \/ /\ ~ (op.weight > 0) /\ op.signer \in L.acc[op.src].signers /\ entry.ok
           /\ M = [entry.L EXCEPT !.acc[op.src].signers = signers \ {op.signer}]

LEMMA SetOptionsIs ==
    ASSUME NEW L, NEW op, NEW r, r = SetOptions(L, op), r.code = "ok"
    PROVE  SetOptionsOutcome(L, op, r.L)
<1> DEFINE dest == IF op.inflationDest = None THEN L
                   ELSE [L EXCEPT !.acc[op.src].inflationDest = op.inflationDest]
           F == Flagged(L, op)
           more == op.weight > 0
           has == op.signer \in L.acc[op.src].signers
           entry == addNumEntries(F, op.src, IF op.weight > 0 THEN 1 ELSE -1)
           E == entry.L
           A == [E EXCEPT !.acc[op.src].signers = E.acc[op.src].signers \cup {op.signer}]
           D == [E EXCEPT !.acc[op.src].signers = E.acc[op.src].signers \ {op.signer}]
<1>1. \/ r = Fail("invalid inflation", L) \/ r = Fail("cant change", dest)
      \/ r = Fail("low reserve", F) \/ r = Done(F)
      \/ more /\ ~has /\ entry.ok /\ r = Done(A)
      \/ ~more /\ has /\ entry.ok /\ r = Done(D)
  <2>1. CASE more
    <3>1. CASE has
      BY <2>1, <3>1, Zenon DEF SetOptions, Flagged
    <3>2. CASE ~has
      BY <2>1, <3>2, Zenon DEF SetOptions, Flagged
    <3> QED BY <3>1, <3>2
  <2>2. CASE ~more
    <3>1. CASE has
      BY <2>2, <3>1, Zenon DEF SetOptions, Flagged
    <3>2. CASE ~has
      BY <2>2, <3>2, Zenon DEF SetOptions, Flagged
    <3> QED BY <3>1, <3>2
  <2> QED BY <2>1, <2>2
<1>2. \A code, M : r = Fail(code, M) => code = "ok"
  BY DEF Fail
<1>3. /\ r # Fail("invalid inflation", L) /\ r # Fail("cant change", dest)
      /\ r # Fail("low reserve", F)
  <2> HIDE DEF dest, F
  <2>1. "invalid inflation" # "ok" /\ "cant change" # "ok" /\ "low reserve" # "ok"
    OBVIOUS
  <2> QED BY <1>2, <2>1, Zenon
<1>4. \A M : Done(M).L = M
  BY DEF Done
<1> HIDE DEF F, entry, A, D, dest
<1>5. \/ r.L = F
      \/ more /\ ~has /\ entry.ok /\ r.L = A
      \/ ~more /\ has /\ entry.ok /\ r.L = D
  BY <1>1, <1>3, <1>4, Zenon
<1> QED BY <1>5, Zenon DEF SetOptionsOutcome, F, entry, A, D

LEMMA FlaggedIs ==
    ASSUME NEW L, IsLedger(L), NEW op, op.src \in DOMAIN L.acc, NEW F, F = Flagged(L, op)
    PROVE  /\ IsLedger(F) /\ Settled(L, F, op.src, 0) /\ DOMAIN F.acc = DOMAIN L.acc
           /\ F.acc[op.src].signers = L.acc[op.src].signers
<1> DEFINE a == op.src
           dest == IF op.inflationDest = None THEN L
                   ELSE [L EXCEPT !.acc[a].inflationDest = op.inflationDest]
<1>1. /\ IsLedger(dest) /\ Settled(L, dest, a, 0) /\ DOMAIN dest.acc = DOMAIN L.acc
      /\ dest.acc[a].signers = L.acc[a].signers
  <2>1. CASE op.inflationDest = None
    <3>1. dest = L
      BY <2>1
    <3> HIDE DEF dest
    <3> QED BY <3>1, SettledNot
  <2>2. CASE op.inflationDest # None
    <3>1. dest = [L EXCEPT !.acc[a].inflationDest = op.inflationDest]
      BY <2>2
    <3> HIDE DEF dest
    <3>2. OptionSet(L, dest, a, op.inflationDest)
      BY <3>1, Zenon DEF OptionSet
    <3> QED BY <3>2, SetOption
  <2> QED BY <2>1, <2>2
<1>2. F = [dest EXCEPT !.acc[a].flags = (dest.acc[a].flags \ op.clearFlags) \cup op.setFlags]
  BY DEF Flagged
<1> HIDE DEF dest
<1>3. /\ IsLedger(F) /\ Settled(dest, F, a, 0) /\ DOMAIN F.acc = DOMAIN dest.acc
      /\ F.acc[a].signers = dest.acc[a].signers
  <2> DEFINE x == (dest.acc[a].flags \ op.clearFlags) \cup op.setFlags
  <2>1. OptionSet(dest, F, a, x)
    BY <1>2, Zenon DEF OptionSet
  <2> HIDE DEF x
  <2> QED BY <1>1, <2>1, SetOption
<1>4. 0 \in Int /\ 0 + 0 = 0
  OBVIOUS
<1>5. Settled(L, F, a, 0 + 0)
  BY <1>1, <1>3, <1>4, SettledOn
<1> QED BY <1>1, <1>3, <1>4, <1>5

LEMMA EntrySigners ==
    ASSUME NEW L, IsLedger(L), NEW a \in DOMAIN L.acc, NEW n \in {1, -1},
           NEW r, r = addNumEntries(L, a, n), r.ok
    PROVE  r.L.acc[a].signers = L.acc[a].signers
<1>1. Charged(L, r.L, a, n)
  BY AddNumEntries
<1>2. IsAccount(L.acc[a])
  BY DEF IsLedger, AreAccounts
<1> QED BY <1>1, <1>2 DEF Charged, IsAccount

LEMMA SetOptionsKeeps ==
    ASSUME NEW L, IsLedger(L), NEW op, op.src \in DOMAIN L.acc,
           NEW r, r = SetOptions(L, op), r.code = "ok"
    PROVE  Settled(L, r.L, op.src, 0)
<1> DEFINE a == op.src
           F == Flagged(L, op)
           more == op.weight > 0
           has == op.signer \in L.acc[a].signers
           entry == addNumEntries(F, a, IF more THEN 1 ELSE -1)
           E == entry.L
           A == [E EXCEPT !.acc[a].signers = E.acc[a].signers \cup {op.signer}]
           D == [E EXCEPT !.acc[a].signers = E.acc[a].signers \ {op.signer}]
<1>1. \/ r.L = F
      \/ more /\ ~has /\ entry.ok /\ r.L = A
      \/ ~more /\ has /\ entry.ok /\ r.L = D
  <2>1. SetOptionsOutcome(L, op, r.L)
    BY SetOptionsIs
  <2> QED BY <2>1, Zenon DEF SetOptionsOutcome
<1>2. /\ IsLedger(F) /\ Settled(L, F, a, 0) /\ DOMAIN F.acc = DOMAIN L.acc
      /\ F.acc[a].signers = L.acc[a].signers
  BY FlaggedIs
<1> HIDE DEF F
<1>3. ASSUME NEW n, \/ n = 1 /\ more /\ ~has /\ entry.ok /\ r.L = A
                    \/ n = -1 /\ ~more /\ has /\ entry.ok /\ r.L = D
      PROVE  Settled(F, r.L, a, 0)
  <2>1. entry = addNumEntries(F, a, n) /\ n \in {1, -1} /\ entry.ok
    BY <1>3
  <2> HIDE DEF entry
  <2>2. E.acc[a].signers = L.acc[a].signers
    BY <1>2, <2>1, EntrySigners
  <2>3. IsLedger(E) /\ Settled(F, E, a, n) /\ DOMAIN E.acc = DOMAIN F.acc
    BY <1>2, <2>1, CountUp, CountDown
  <2> HIDE DEF E
  <2>4. CASE n = 1
    <3>1. ~has /\ r.L = A
      BY <1>3, <2>4
    <3>2. Settled(E, r.L, a, -1)
      <4> DEFINE S == E.acc[a].signers \cup {op.signer}
      <4>1. op.signer \notin E.acc[a].signers /\ r.L = [E EXCEPT !.acc[a].signers = S]
        BY <2>2, <3>1
      <4> HIDE DEF A
      <4> QED BY <1>2, <2>3, <4>1, SetSigners
    <3> QED BY <2>3, <2>4, <3>2, <1>2, Balanced
  <2>5. CASE n = -1
    <3>1. has /\ r.L = D
      BY <1>3, <2>5
    <3>2. Settled(E, r.L, a, 1)
      <4> DEFINE S == E.acc[a].signers \ {op.signer}
      <4>1. op.signer \in E.acc[a].signers /\ r.L = [E EXCEPT !.acc[a].signers = S]
        BY <2>2, <3>1
      <4> HIDE DEF D
      <4> QED BY <1>2, <2>3, <4>1, SetSigners
    <3> QED BY <2>3, <2>5, <3>2, <1>2, Balanced
  <2> QED BY <2>1, <2>4, <2>5
<1>4. Settled(F, r.L, a, 0)
  <2>1. CASE r.L = F
    BY <1>2, <2>1, SettledNot
  <2>2. CASE r.L # F
    <3> HIDE DEF A, D, entry, more, has
    <3> QED BY <1>1, <1>3, <2>2, Zenon
  <2> QED BY <2>1, <2>2
<1>5. 0 \in Int /\ 0 + 0 = 0
  OBVIOUS
<1>6. Settled(L, r.L, a, 0 + 0)
  BY <1>2, <1>4, <1>5, SettledOn
<1> QED BY <1>5, <1>6

LEMMA BumpSequenceKeeps ==
    ASSUME NEW L, IsLedger(L), NEW op, op.src \in DOMAIN L.acc, op.bumpTo \in Nat,
           NEW r, r = BumpSequence(L, op)
    PROVE  Settled(L, r.L, op.src, 0)
<1> DEFINE a == op.src
           old == L.acc[a].seqNum
           to == op.bumpTo
           x == Max({old, to})
<1>1. old \in Nat /\ to \in Nat
  BY UncountedType
<1>2. x \in Nat /\ x >= old
  <2> HIDE DEF old, to
  <2> QED BY <1>1, MaxOfTwo
<1>3. r.L = [L EXCEPT !.acc[a].seqNum = x]
  BY DEF BumpSequence, Done
<1>4. OptionSet(L, r.L, a, x)
  BY <1>2, <1>3, Zenon DEF OptionSet
<1> HIDE DEF x
<1> QED BY <1>4, SetOption

-----------------------------------------------------------------------------
(* Accounts come and go. *)

\* What is left of a sound ledger L when d lumens are added to its accounts.
Lacks(L, M, d) ==
    /\ IsLedger(M) /\ Counted(M) /\ Numbered(M) /\ SameHeader(L, M)
    /\ DOMAIN M.acc = DOMAIN L.acc
    /\ \A a \in DOMAIN L.acc : SameHolder(L.acc[a], M.acc[a])
    /\ M.totalCoins + d = M.feePool + Lumens(M)

LEMMA MovedLacks ==
    ASSUME NEW L, Sound(L), NEW d \in Int, NEW M, Moved(L, M, d)
    PROVE  Lacks(L, M, d)
<1>1. Traded(L, M, d) /\ IsLedger(L)
  BY MovedIsTraded DEF Sound
<1>2. Counted(M)
  <2>1. ASSUME NEW b \in DOMAIN M.acc PROVE M.acc[b].numSubEntries = Entries(M, b)
    <3>1. b \in DOMAIN L.acc /\ Uncounted(M, b) = Uncounted(L, b)
          /\ L.acc[b].numSubEntries = Entries(L, b) /\ IsLedger(M)
      BY <1>1 DEF Traded, Sound, Counted
    <3>2. /\ L.acc[b].numSubEntries \in Nat /\ Entries(L, b) \in Nat
          /\ M.acc[b].numSubEntries \in Nat /\ Entries(M, b) \in Nat
      BY <1>1, <3>1, UncountedType
    <3> QED BY <3>1, <3>2 DEF Uncounted
  <2>2. Owners(M) \subseteq DOMAIN M.acc
    BY <1>1 DEF Traded, Sound, Counted
  <2> QED BY <2>1, <2>2 DEF Counted
<1>3. Numbered(M)
  BY <1>1 DEF Traded, Sound, Numbered, SameHeader
<1>4. M.totalCoins + d = M.feePool + Lumens(M)
  <2>1. /\ M.totalCoins = L.totalCoins /\ M.feePool = L.feePool /\ Lumens(M) = Lumens(L) + d
        /\ L.totalCoins = L.feePool + Lumens(L)
    BY <1>1 DEF Traded, SameHeader, Sound, Conserved
  <2>2. L.totalCoins \in Nat /\ L.feePool \in Nat /\ Lumens(L) \in Nat
    BY <1>1, LumensType DEF IsLedger, IsHeader
  <2> QED BY <2>1, <2>2
<1> QED BY <1>1, <1>2, <1>3, <1>4 DEF Traded, Lacks

\* g is f with h for a.
Puts(f, g, a, h) ==
    /\ DOMAIN g = DOMAIN f \cup {a} /\ g[a] = h
    /\ \A b \in DOMAIN f : b # a => g[b] = f[b]

LEMMA WithAccount ==
    ASSUME NEW f, AreAccounts(f), NEW a, NEW h, IsAccount(h)
    PROVE  AreAccounts(With(f, a, h)) /\ Puts(f, With(f, a, h), a, h)
<1> DEFINE g == With(f, a, h)
<1>1. g = [b \in DOMAIN f \cup {a} |-> IF b = a THEN h ELSE f[b]]
  BY DEF With
<1>2. IsFiniteSet(DOMAIN f \cup {a})
  BY FS_AddElement DEF AreAccounts
<1> HIDE DEF g
<1>3. Puts(f, g, a, h)
  BY <1>1 DEF Puts
<1>4. AreAccounts(g)
  BY <1>1, <1>2 DEF AreAccounts
<1> QED BY <1>3, <1>4 DEF g

LEMMA WithoutAccount ==
    ASSUME NEW f, AreAccounts(f), NEW a
    PROVE  /\ AreAccounts(Without(f, a)) /\ DOMAIN Without(f, a) = DOMAIN f \ {a}
           /\ \A b \in DOMAIN f \ {a} : Without(f, a)[b] = f[b]
<1> DEFINE g == Without(f, a)
<1>1. g = [b \in DOMAIN f \ {a} |-> f[b]]
  BY DEF Without, Restrict
<1>2. IsFiniteSet(DOMAIN f \ {a})
  BY FS_Subset DEF AreAccounts
<1> QED BY <1>1, <1>2 DEF AreAccounts

\* M has the accounts of L and the account a.
OneAccountMore(L, M, a) ==
    /\ a \in DOMAIN M.acc /\ DOMAIN L.acc = DOMAIN M.acc \ {a}
    /\ \A b \in DOMAIN L.acc : M.acc[b] = L.acc[b]

LEMMA LumensOfOneMore ==
    ASSUME NEW L, AreAccounts(L.acc), NEW M, AreAccounts(M.acc), NEW a, OneAccountMore(L, M, a)
    PROVE  Lumens(M) = Lumens(L) + M.acc[a].balance
<1> DEFINE u == Balances(L.acc)
           v == Balances(M.acc)
           S == DOMAIN L.acc
           T == DOMAIN M.acc
<1>1. \A b \in T : v[b] = M.acc[b].balance /\ v[b] \in Int
  BY AccountFields DEF Balances, AreAccounts
<1>2. \A b \in S : u[b] = v[b]
  BY <1>1 DEF Balances, OneAccountMore
<1>3. IsFiniteSet(S) /\ IsFiniteSet(T) /\ S = T \ {a} /\ a \in T
  BY DEF AreAccounts, OneAccountMore
<1>4. SumFunctionOnSet(v, T) \in Int /\ SumFunctionOnSet(v, S) \in Int
  BY <1>1, <1>3, SumType
<1>5. SumFunctionOnSet(v, T) = v[a] + SumFunctionOnSet(v, S)
  BY <1>1, <1>3, SumRemove
<1>6. SumFunctionOnSet(u, S) = SumFunctionOnSet(v, S)
  BY <1>2, <1>3, SumCong
<1>7. Lumens(M) = SumFunctionOnSet(v, T) /\ Lumens(L) = SumFunctionOnSet(u, S)
  BY LumensAre
<1>8. v[a] = M.acc[a].balance /\ v[a] \in Int
  BY <1>1, <1>3
<1> HIDE DEF u, v, S, T
<1> QED BY <1>4, <1>5, <1>6, <1>7, <1>8

\* M is L with the account a, which is h, or without it.
Joins(L, M, a, h) ==
    /\ IsLedger(M) /\ Counted(M) /\ Numbered(M) /\ SameHeader(L, M)
    /\ DOMAIN M.acc = DOMAIN L.acc \cup {a} /\ M.acc[a] = h
    /\ \A b \in DOMAIN L.acc : M.acc[b] = L.acc[b]
    /\ Lumens(M) = Lumens(L) + h.balance

Leaves(L, M, a) ==
    /\ IsLedger(M) /\ Counted(M) /\ Numbered(M) /\ SameHeader(L, M)
    /\ DOMAIN M.acc = DOMAIN L.acc \ {a}
    /\ \A b \in DOMAIN M.acc : M.acc[b] = L.acc[b]
    /\ Lumens(L) = Lumens(M) + L.acc[a].balance

LEMMA AddAccount ==
    ASSUME NEW L, IsLedger(L), Counted(L), Numbered(L), NEW a, a \notin DOMAIN L.acc,
           NEW h, IsAccount(h), h.numSubEntries = 0, h.signers = {},
           NEW M, M = [L EXCEPT !.acc = With(L.acc, a, h)]
    PROVE  Joins(L, M, a, h)
<1> DEFINE f == With(L.acc, a, h)
<1>1. /\ AreAccounts(f) /\ DOMAIN f = DOMAIN L.acc \cup {a} /\ f[a] = h
      /\ \A b \in DOMAIN L.acc : f[b] = L.acc[b]
  <2>1. AreAccounts(L.acc)
    BY DEF IsLedger
  <2>2. AreAccounts(f) /\ Puts(L.acc, f, a, h)
    BY <2>1, WithAccount, Zenon
  <2> HIDE DEF f
  <2> QED BY <2>2 DEF Puts
<1>2. WithAccounts(L, M, f)
  BY <1>1, PutAccounts
<1> HIDE DEF f
<1>3. /\ IsLedger(M) /\ SameHeader(L, M) /\ M.acc = f
      /\ M.tl = L.tl /\ M.offers = L.offers /\ M.data = L.data
  BY <1>2 DEF WithAccounts
<1>4. Lumens(M) = Lumens(L) + h.balance
  <2>1. AreAccounts(L.acc) /\ AreAccounts(M.acc) /\ OneAccountMore(L, M, a)
    BY <1>1, <1>3 DEF IsLedger, OneAccountMore
  <2>2. Lumens(M) = Lumens(L) + M.acc[a].balance
    BY <2>1, LumensOfOneMore
  <2> QED BY <1>1, <1>3, <2>2
<1>5. \A b : Owned(M, b) = Owned(L, b)
  BY <1>3 DEF Owned
<1>6. Counted(M)
  <2>1. Owners(M) = Owners(L) /\ Owners(L) \subseteq DOMAIN L.acc
    BY <1>3 DEF Owners, Counted
  <2>2. ASSUME NEW b \in DOMAIN L.acc PROVE M.acc[b].numSubEntries = Entries(M, b)
    BY <1>1, <1>3, <1>5 DEF Counted, Entries
  <2>3. M.acc[a].numSubEntries = Entries(M, a)
    <3>1. /\ {line \in DOMAIN M.tl : line[1] = a} = {} /\ Owned(M, a) = {}
          /\ {d \in M.data : d[1] = a} = {}
      BY <2>1 DEF Owners, Owned
    <3>2. Cardinality({}) = 0
      BY FS_EmptySet
    <3>3. M.acc[a].numSubEntries = 0 /\ M.acc[a].signers = {}
      BY <1>1, <1>3
    <3>4. Entries(M, a) = ((0 + 0) + 0) + 0
      BY <3>1, <3>2, <3>3, Zenon DEF Entries
    <3> QED BY <3>3, <3>4
  <2> QED BY <1>1, <1>3, <2>1, <2>2, <2>3 DEF Counted
<1>7. Numbered(M)
  BY <1>3 DEF Numbered, SameHeader
<1> QED BY <1>1, <1>3, <1>4, <1>6, <1>7 DEF Joins

LEMMA NoneOf ==
    ASSUME NEW S, IsFiniteSet(S), Cardinality(S) = 0
    PROVE  S = {}
BY FS_EmptySet

LEMMA DropAccount ==
    ASSUME NEW L, IsLedger(L), Counted(L), Numbered(L), NEW a \in DOMAIN L.acc,
           L.acc[a].numSubEntries = Cardinality(L.acc[a].signers),
           NEW M, M = [L EXCEPT !.acc = Without(L.acc, a)]
    PROVE  Leaves(L, M, a)
<1> DEFINE f == Without(L.acc, a)
<1>1. /\ AreAccounts(f) /\ DOMAIN f = DOMAIN L.acc \ {a}
      /\ \A b \in DOMAIN L.acc \ {a} : f[b] = L.acc[b]
  BY WithoutAccount DEF IsLedger
<1>2. WithAccounts(L, M, f)
  BY <1>1, PutAccounts
<1> HIDE DEF f
<1>3. /\ IsLedger(M) /\ SameHeader(L, M) /\ M.acc = f
      /\ M.tl = L.tl /\ M.offers = L.offers /\ M.data = L.data
  BY <1>2 DEF WithAccounts
<1>4. Lumens(L) = Lumens(M) + L.acc[a].balance
  <2>1. AreAccounts(L.acc) /\ AreAccounts(M.acc) /\ OneAccountMore(M, L, a)
    BY <1>1, <1>3 DEF IsLedger, OneAccountMore
  <2> QED BY <2>1, LumensOfOneMore
<1>5. \A b : Owned(M, b) = Owned(L, b)
  BY <1>3 DEF Owned
<1>6. Counted(M)
  <2>1. Owners(M) = Owners(L) /\ Owners(L) \subseteq DOMAIN L.acc
    BY <1>3 DEF Owners, Counted
  <2>2. ASSUME NEW b \in DOMAIN M.acc PROVE M.acc[b].numSubEntries = Entries(M, b)
    BY <1>1, <1>3, <1>5 DEF Counted, Entries
  <2>3. {line \in DOMAIN L.tl : line[1] = a} = {} /\ Owned(L, a) = {} /\ {d \in L.data : d[1] = a} = {}
    <3>1. L.acc[a].numSubEntries = Entries(L, a)
      BY DEF Counted
    <3>2. /\ Cardinality(L.acc[a].signers) \in Nat
          /\ Cardinality({line \in DOMAIN L.tl : line[1] = a}) \in Nat
          /\ Cardinality(Owned(L, a)) \in Nat
          /\ Cardinality({d \in L.data : d[1] = a}) \in Nat
      BY EntriesType
    <3>3. /\ Cardinality({line \in DOMAIN L.tl : line[1] = a}) = 0
          /\ Cardinality(Owned(L, a)) = 0
          /\ Cardinality({d \in L.data : d[1] = a}) = 0
      BY <3>1, <3>2 DEF Entries
    <3>4. /\ IsFiniteSet({line \in DOMAIN L.tl : line[1] = a}) /\ IsFiniteSet(Owned(L, a))
          /\ IsFiniteSet({d \in L.data : d[1] = a})
      BY OwnedFinite, FS_Subset DEF IsLedger, AreLines
    <3> QED BY <3>3, <3>4, NoneOf
  <2>4. a \notin Owners(L)
    BY <2>3 DEF Owners, Owned
  <2> QED BY <1>1, <1>3, <2>1, <2>2, <2>4 DEF Counted
<1>7. Numbered(M)
  BY <1>3 DEF Numbered, SameHeader
<1> QED BY <1>1, <1>3, <1>4, <1>6, <1>7 DEF Leaves

\* A payment of available lumens succeeds.
LEMMA PayAvailable ==
    ASSUME NEW L, IsLedger(L), NEW a \in DOMAIN L.acc, NEW x \in Nat,
           x <= getAvailableBalance(L, a, Native)
    PROVE  addBalance(L, a, Native, -x).ok
<1> DEFINE h == L.acc[a]
           m == getMinBalance(L, h.numSubEntries)
           new == Added(h.balance, -x, INT64_MAX)
<1>1. /\ h.balance \in Nat /\ h.buying \in Nat /\ h.selling \in Nat /\ h.numSubEntries \in Nat
      /\ h.balance + h.buying <= INT64_MAX
  BY AccountFields DEF IsLedger, AreAccounts
<1>2. m \in Nat
  BY <1>1, MinBalanceType
<1> HIDE DEF m
<1>3. Holding(L, a, Native) = h /\ ~isIssuer(a, Native)
  BY DEF Holding, isIssuer
<1>4. getAvailableBalance(L, a, Native) = h.balance - m - h.selling
  BY <1>3 DEF getAvailableBalance, m
<1>5. new = h.balance - x /\ new >= 0 /\ new - m >= h.selling /\ new <= INT64_MAX - h.buying
  <2>1. x <= h.balance - m - h.selling
    BY <1>4
  <2> HIDE DEF h
  <2>2. -x >= -h.balance /\ INT64_MAX - h.balance >= -x
    BY <1>1, <1>2, <2>1, Int64Assumption
  <2> QED BY <1>1, <1>2, <2>1, <2>2, Int64Assumption DEF Added
<1>6. \A M : Result(TRUE, M).ok
  BY DEF Result
<1> HIDE DEF h, new
<1> QED BY <1>3, <1>5, <1>6 DEF addBalance, new, m, h

NewAccount(L, op) ==
    [balance |-> op.amount, seqNum |-> getStartingSequenceNumber(L, SeqPerLedger),
     numSubEntries |-> 0, buying |-> 0, selling |-> 0, signers |-> {},
     flags |-> {}, inflationDest |-> None]

LEMMA CreateAccountIs ==
    ASSUME NEW L, NEW op, NEW r, r = CreateAccount(L, op), r.code = "ok"
    PROVE  LET paid == addBalance(L, op.src, Native, -op.amount)
           IN  /\ op.dest \notin DOMAIN L.acc
               /\ ~ (getAvailableBalance(L, op.src, Native) < op.amount)
               /\ r.L = [paid.L EXCEPT !.acc = With(paid.L.acc, op.dest, NewAccount(L, op))]
<1> DEFINE paid == addBalance(L, op.src, Native, -op.amount)
           M == [paid.L EXCEPT !.acc = With(paid.L.acc, op.dest, NewAccount(L, op))]
           low == getAvailableBalance(L, op.src, Native) < op.amount
<1>1. \/ r = Fail("already exist", L) \/ r = Fail("low reserve", L) \/ r = Fail("underfunded", L)
      \/ op.dest \notin DOMAIN L.acc /\ ~low /\ r = Done(M)
  BY Zenon DEF CreateAccount, NewAccount, exists
<1>2. \A code, N : r = Fail(code, N) => code = "ok"
  BY DEF Fail
<1>3. "already exist" # "ok" /\ "low reserve" # "ok" /\ "underfunded" # "ok"
  OBVIOUS
<1>4. \A N : Done(N).L = N
  BY DEF Done
<1> HIDE DEF M, low
<1>5. op.dest \notin DOMAIN L.acc /\ ~low /\ r = Done(M)
  BY <1>1, <1>2, <1>3, Zenon
<1>6. op.dest \notin DOMAIN L.acc /\ ~low /\ r.L = M
  BY <1>4, <1>5, Zenon
<1> QED BY <1>6, Zenon DEF M, low

LEMMA StartType ==
    ASSUME NEW L, IsLedger(L), SeqPerLedger \in Nat
    PROVE  getStartingSequenceNumber(L, SeqPerLedger) \in Nat
<1>1. L.ledgerSeq \in Nat
  BY DEF IsLedger, IsHeader
<1> QED BY <1>1, ProductType DEF getStartingSequenceNumber

LEMMA CreateAccountKeeps ==
    ASSUME NEW L, Sound(L), SeqPerLedger \in Nat, NEW op, op.src \in DOMAIN L.acc,
           CreateAccount_doCheckValid(op), NEW r, r = CreateAccount(L, op), r.code = "ok"
    PROVE  Sound(r.L) /\ Advances(L, r.L)
<1> DEFINE a == op.dest
           x == op.amount
           h == NewAccount(L, op)
           start == getStartingSequenceNumber(L, SeqPerLedger)
           paid == addBalance(L, op.src, Native, -x)
           P == paid.L
           M == r.L
<1>1. /\ a \notin DOMAIN L.acc /\ ~ (getAvailableBalance(L, op.src, Native) < x)
      /\ M = [P EXCEPT !.acc = With(P.acc, a, h)]
  BY CreateAccountIs
<1>2. IsLedger(L) /\ x \in Nat /\ x <= INT64_MAX /\ -x \in Int
  BY Int64Assumption DEF Sound, CreateAccount_doCheckValid, Amount
<1>3. getAvailableBalance(L, op.src, Native) \in Int
  <2> DEFINE g == L.acc[op.src]
             m == getMinBalance(L, g.numSubEntries)
  <2>1. g.balance \in Nat /\ g.selling \in Nat /\ g.numSubEntries \in Nat
    BY <1>2, AccountFields DEF IsLedger, AreAccounts
  <2>2. m \in Nat
    BY <1>2, <2>1, MinBalanceType
  <2>3. getAvailableBalance(L, op.src, Native) = g.balance - m - g.selling
    BY DEF getAvailableBalance, Holding, isIssuer
  <2> HIDE DEF m, g
  <2> QED BY <2>1, <2>2, <2>3
<1>4. paid.ok
  <2>1. x <= getAvailableBalance(L, op.src, Native)
    BY <1>1, <1>2, <1>3
  <2> QED BY <1>2, <2>1, PayAvailable
<1>5. Moved(L, P, -x)
  <2>1. Moved(L, P, IF paid.ok THEN OfNative(Native, -x) ELSE 0)
    BY <1>2, AddBalance
  <2> QED BY <1>4, <2>1 DEF OfNative
<1> HIDE DEF paid, P
<1>6. /\ IsLedger(P) /\ Counted(P) /\ Numbered(P) /\ SameHeader(L, P) /\ DOMAIN P.acc = DOMAIN L.acc
      /\ \A b \in DOMAIN L.acc : SameHolder(L.acc[b], P.acc[b])
      /\ P.totalCoins + (-x) = P.feePool + Lumens(P)
  BY <1>2, <1>5, MovedLacks DEF Lacks
<1>7. start \in Nat
  BY <1>2, StartType
<1>8. IsAccount(h) /\ h.numSubEntries = 0 /\ h.signers = {} /\ h.balance = x /\ h.seqNum = start
  <2>1. IsFiniteSet({})
    BY FS_EmptySet
  <2> HIDE DEF start
  <2>2. h = [balance |-> x, seqNum |-> start, numSubEntries |-> 0, buying |-> 0, selling |-> 0,
             signers |-> {}, flags |-> {}, inflationDest |-> None]
    BY DEF NewAccount, start
  <2> HIDE DEF h
  <2> QED BY <1>2, <1>7, <2>1, <2>2 DEF IsAccount
<1> HIDE DEF h, start
<1>9. /\ IsLedger(M) /\ Counted(M) /\ Numbered(M) /\ SameHeader(P, M)
      /\ DOMAIN M.acc = DOMAIN P.acc \cup {a} /\ M.acc[a] = h
      /\ \A b \in DOMAIN P.acc : M.acc[b] = P.acc[b]
      /\ Lumens(M) = Lumens(P) + h.balance
  <2>1. a \notin DOMAIN P.acc
    BY <1>1, <1>6
  <2>2. Joins(P, M, a, h)
    BY <1>1, <1>6, <1>8, <2>1, AddAccount, Zenon
  <2> QED BY <2>2 DEF Joins
<1>10. Conserved(M)
  <2>1. P.totalCoins \in Nat /\ P.feePool \in Nat /\ Lumens(P) \in Nat
    BY <1>6, LumensType DEF IsLedger, IsHeader
  <2>2. M.totalCoins = P.totalCoins /\ M.feePool = P.feePool
    BY <1>9 DEF SameHeader
  <2> QED BY <1>2, <1>6, <1>8, <1>9, <2>1, <2>2 DEF Conserved
<1>11. Advances(L, M)
  <2>1. M.ledgerSeq = L.ledgerSeq
    BY <1>6, <1>9 DEF SameHeader
  <2>2. \A b \in DOMAIN L.acc : M.acc[b].seqNum = L.acc[b].seqNum /\ L.acc[b].seqNum \in Nat
    BY <1>2, <1>6, <1>9, UncountedType DEF SameHolder
  <2>3. \A b \in DOMAIN M.acc \ DOMAIN L.acc : M.acc[b].seqNum = start
    BY <1>6, <1>8, <1>9
  <2>4. DOMAIN L.acc \subseteq DOMAIN M.acc
    BY <1>6, <1>9
  <2> QED BY <1>7, <2>1, <2>2, <2>3, <2>4 DEF Advances, start
<1> QED BY <1>9, <1>10, <1>11 DEF Sound

LEMMA MergeIs ==
    ASSUME NEW L, NEW op, NEW r, r = Merge(L, op), r.code = "ok"
    PROVE  LET src == L.acc[op.src]
               paid == addBalance(L, op.dest, Native, src.balance)
           IN  /\ op.dest \in DOMAIN L.acc
               /\ src.numSubEntries = Cardinality(src.signers)
               /\ ~ (src.seqNum >= getStartingSequenceNumber(L, SeqPerLedger))
               /\ paid.ok /\ r.L = [paid.L EXCEPT !.acc = Without(paid.L.acc, op.src)]
<1> DEFINE src == L.acc[op.src]
           paid == addBalance(L, op.dest, Native, src.balance)
           M == [paid.L EXCEPT !.acc = Without(paid.L.acc, op.src)]
           far == src.seqNum >= getStartingSequenceNumber(L, SeqPerLedger)
           bare == src.numSubEntries = Cardinality(src.signers)
<1>1. \/ r = Fail("no account", L) \/ r = Fail("immutable set", L) \/ r = Fail("has sub entries", L)
      \/ r = Fail("seqnum too far", L) \/ r = Fail("dest full", L)
      \/ op.dest \in DOMAIN L.acc /\ bare /\ ~far /\ paid.ok /\ r = Done(M)
  BY Zenon DEF Merge, exists
<1>2. \A code, N : r = Fail(code, N) => code = "ok"
  BY DEF Fail
<1>3. /\ "no account" # "ok" /\ "immutable set" # "ok" /\ "has sub entries" # "ok"
      /\ "seqnum too far" # "ok" /\ "dest full" # "ok"
  OBVIOUS
<1>4. \A N : Done(N).L = N
  BY DEF Done
<1> HIDE DEF M, far, bare, paid
<1>5. /\ r # Fail("no account", L) /\ r # Fail("immutable set", L) /\ r # Fail("has sub entries", L)
  BY <1>2, <1>3, Zenon
<1>6. r # Fail("seqnum too far", L) /\ r # Fail("dest full", L)
  BY <1>2, <1>3, Zenon
<1>7. op.dest \in DOMAIN L.acc /\ bare /\ ~far /\ paid.ok /\ r.L = M
  BY <1>1, <1>4, <1>5, <1>6, Zenon
<1> QED BY <1>7, Zenon DEF M, far, bare, paid

LEMMA MergeKeeps ==
    ASSUME NEW L, Sound(L), SeqPerLedger \in Nat, NEW op, op.src \in DOMAIN L.acc,
           Merge_doCheckValid(op), NEW r, r = Merge(L, op), r.code = "ok"
    PROVE  Sound(r.L) /\ Advances(L, r.L)
<1> DEFINE a == op.src
           g == L.acc[a]
           x == g.balance
           start == getStartingSequenceNumber(L, SeqPerLedger)
           paid == addBalance(L, op.dest, Native, x)
           P == paid.L
           M == r.L
<1>1. /\ op.dest \in DOMAIN L.acc /\ g.numSubEntries = Cardinality(g.signers) /\ ~ (g.seqNum >= start)
      /\ paid.ok /\ M = [P EXCEPT !.acc = Without(P.acc, a)]
  BY MergeIs
<1>2. IsLedger(L) /\ op.dest # a
  BY DEF Sound, Merge_doCheckValid
<1>3. x \in Nat /\ g.seqNum \in Nat /\ start \in Nat
  BY <1>2, UncountedType, StartType
<1>4. Moved(L, P, x)
  <2>1. Moved(L, P, IF paid.ok THEN OfNative(Native, x) ELSE 0)
    BY <1>1, <1>2, <1>3, AddBalance
  <2> QED BY <1>1, <2>1 DEF OfNative
<1>5. P.acc[a].balance = x
  <2>1. P = L \/ \E h : P = [L EXCEPT !.acc[op.dest] = h]
    <3>1. \A ok, N : Result(ok, N).L = N
      BY DEF Result
    <3>2. P = L \/ \E h : P = SetHolding(L, op.dest, Native, h)
      BY <3>1, Zenon DEF addBalance
    <3>3. \A h : SetHolding(L, op.dest, Native, h) = [L EXCEPT !.acc[op.dest] = h]
      BY DEF SetHolding
    <3> HIDE DEF P
    <3> QED BY <3>2, <3>3, Zenon
  <2>2. CASE P = L
    BY <2>2
  <2>3. CASE \E h : P = [L EXCEPT !.acc[op.dest] = h]
    <3>1. PICK h : P = [L EXCEPT !.acc[op.dest] = h]
      BY <2>3
    <3>2. P.acc = [L.acc EXCEPT ![op.dest] = h]
      BY <1>2, <3>1 DEF IsLedger, LedgerFields
    <3>3. L.acc = [b \in DOMAIN L.acc |-> L.acc[b]]
      BY <1>2 DEF IsLedger, AreAccounts
    <3> QED BY <1>2, <3>2, <3>3
  <2> QED BY <2>1, <2>2, <2>3
<1> HIDE DEF paid, P, start
<1>6. /\ IsLedger(P) /\ Counted(P) /\ Numbered(P) /\ SameHeader(L, P) /\ DOMAIN P.acc = DOMAIN L.acc
      /\ \A b \in DOMAIN L.acc : SameHolder(L.acc[b], P.acc[b])
      /\ P.totalCoins + x = P.feePool + Lumens(P)
  BY <1>3, <1>4, MovedLacks DEF Lacks
<1>7. P.acc[a].numSubEntries = Cardinality(P.acc[a].signers)
  <2>1. SameOwner(g, P.acc[a])
    BY <1>4 DEF Moved
  <2> QED BY <1>1, <2>1 DEF SameOwner
<1>9. /\ IsLedger(M) /\ Counted(M) /\ Numbered(M) /\ SameHeader(P, M)
      /\ DOMAIN M.acc = DOMAIN P.acc \ {a}
      /\ \A b \in DOMAIN M.acc : M.acc[b] = P.acc[b]
      /\ Lumens(P) = Lumens(M) + P.acc[a].balance
  <2>1. PICK e \in DOMAIN P.acc : e = a
    BY <1>6
  <2>2. P.acc[e].numSubEntries = Cardinality(P.acc[e].signers)
        /\ M = [P EXCEPT !.acc = Without(P.acc, e)]
    BY <1>1, <1>7, <2>1
  <2>3. Leaves(P, M, e)
    BY <1>6, <2>2, DropAccount, Zenon
  <2> QED BY <2>1, <2>3 DEF Leaves
<1>10. Conserved(M)
  <2>1. P.totalCoins \in Nat /\ P.feePool \in Nat /\ Lumens(P) \in Nat /\ Lumens(M) \in Nat
    BY <1>6, <1>9, LumensType DEF IsLedger, IsHeader
  <2>2. M.totalCoins = P.totalCoins /\ M.feePool = P.feePool
    BY <1>9 DEF SameHeader
  <2>3. Lumens(P) = Lumens(M) + x /\ P.totalCoins + x = P.feePool + Lumens(P)
    BY <1>5, <1>6, <1>9
  <2> HIDE DEF x
  <2> QED BY <1>3, <2>1, <2>2, <2>3 DEF Conserved
<1>11. Advances(L, M)
  <2>1. M.ledgerSeq = L.ledgerSeq
    BY <1>6, <1>9 DEF SameHeader
  <2>2. \A b \in DOMAIN M.acc : M.acc[b].seqNum = L.acc[b].seqNum /\ L.acc[b].seqNum \in Nat
    BY <1>2, <1>6, <1>9, UncountedType DEF SameHolder
  <2>3. DOMAIN M.acc = DOMAIN L.acc \ {a}
    BY <1>6, <1>9
  <2>4. L.acc[a].seqNum < start
    BY <1>1, <1>3
  <2> QED BY <2>1, <2>2, <2>3, <2>4 DEF Advances, start
<1> QED BY <1>9, <1>10, <1>11 DEF Sound

-----------------------------------------------------------------------------
(* Inflation. *)

Voters(L) == {a \in DOMAIN L.acc : /\ L.acc[a].inflationDest # None
                                   /\ L.acc[a].balance >= MinVotes}

Destinations(L) == [a \in DOMAIN L.acc |-> L.acc[a].inflationDest]

\* The winners together have no more votes than there are lumens.
LEMMA Winners ==
    ASSUME NEW L, IsLedger(L), NEW q, q = queryInflationWinners(L)
    PROVE  /\ IsFiniteSet(DOMAIN q) /\ \A w \in DOMAIN q : q[w] \in Nat
           /\ SumFunctionOnSet(q, DOMAIN q) <= Lumens(L)
<1> DEFINE V == Voters(L)
           d == Destinations(L)
           u == Balances(L.acc)
           D == {L.acc[a].inflationDest : a \in V}
           G(w) == {b \in V : L.acc[b].inflationDest = w}
           votes == [w \in D |-> SumFunction([a \in G(w) |-> L.acc[a].balance])]
           W == {w \in DOMAIN votes : votes[w] >= (L.totalCoins * InflationWinMin) \div 100}
<1>1. q = Restrict(votes, W)
  BY DEF queryInflationWinners, Voters
<1>2. DOMAIN q = W /\ W \subseteq D /\ \A w \in W : q[w] = votes[w]
  <2> HIDE DEF votes
  <2>1. DOMAIN q = W /\ \A w \in W : q[w] = votes[w]
    BY <1>1 DEF Restrict
  <2>2. DOMAIN votes = D
    BY DEF votes
  <2> QED BY <2>1, <2>2
<1>3. IsFiniteSet(DOMAIN L.acc) /\ V \subseteq DOMAIN L.acc
  BY DEF IsLedger, AreAccounts, Voters
<1>4. IsFiniteSet(V)
  BY <1>3, FS_Subset
<1>5. \A a \in DOMAIN L.acc : u[a] = L.acc[a].balance /\ u[a] \in Int /\ u[a] >= 0
  BY AccountFields DEF IsLedger, AreAccounts, Balances
<1>6. IsFiniteSet(W)
  <2>1. IsFiniteSet(D)
    <3> DEFINE f == [a \in V |-> L.acc[a].inflationDest]
    <3>1. f \in Surjection(V, D)
      BY DEF Surjection
    <3> HIDE DEF V, f, D
    <3> QED BY <1>4, <3>1, FS_Surjection
  <2> HIDE DEF W, D
  <2> QED BY <1>2, <2>1, FS_Subset
<1>7. ASSUME NEW w \in W
      PROVE  q[w] = SumFunctionOnSet(u, Group(V, d, w)) /\ q[w] \in Nat
  <2>1. G(w) = Group(V, d, w)
    BY <1>3 DEF Group, Destinations
  <2> DEFINE F == [a \in G(w) |-> L.acc[a].balance]
  <2>2. q[w] = SumFunctionOnSet(F, G(w))
    BY <1>2 DEF SumFunction
  <2>3. IsFiniteSet(G(w)) /\ G(w) \subseteq DOMAIN L.acc
    BY <1>3, <1>4, FS_Subset
  <2>4. \A a \in G(w) : F[a] = u[a]
    BY <1>5, <2>3
  <2>5. \A a \in G(w) : u[a] \in Int /\ u[a] >= 0
    BY <1>5, <2>3
  <2> HIDE DEF F, u, G, V, d
  <2>6. SumFunctionOnSet(F, G(w)) = SumFunctionOnSet(u, G(w))
    BY <2>3, <2>4, SumCong
  <2>7. SumFunctionOnSet(u, G(w)) \in Int /\ SumFunctionOnSet(u, G(w)) >= 0
    BY <2>3, <2>5, SumType
  <2> QED BY <2>1, <2>2, <2>6, <2>7
<1>8. SumFunctionOnSet(q, W) <= Lumens(L)
  <2> DEFINE T == {x \in V : d[x] \in W}
  <2>1. \A w \in W : q[w] = SumFunctionOnSet(u, Group(V, d, w))
    BY <1>7
  <2>2. \A x \in V : u[x] \in Int
    BY <1>3, <1>5
  <2> HIDE DEF V, d, u, W
  <2>3. SumFunctionOnSet(q, W) = SumFunctionOnSet(u, T)
    BY <1>4, <1>6, <2>1, <2>2, SumGroups
  <2>4. T \in SUBSET DOMAIN L.acc
    BY <1>3
  <2> HIDE DEF T
  <2>5. SumFunctionOnSet(u, T) <= SumFunctionOnSet(u, DOMAIN L.acc)
    BY <1>3, <1>5, <2>4, SumSubset
  <2>6. Lumens(L) = SumFunctionOnSet(u, DOMAIN L.acc)
    BY LumensAre DEF u
  <2> QED BY <2>3, <2>5, <2>6
<1> QED BY <1>2, <1>6, <1>7, <1>8

\* What is to be paid, within the limits of those who get it and of the dole.
Fit(L, dole, sh) ==
    /\ IsFiniteSet(DOMAIN sh) /\ \A w \in DOMAIN sh : sh[w] \in Nat
    /\ \A w \in DOMAIN sh \cap DOMAIN L.acc :
          (L.acc[w].balance + sh[w]) + L.acc[w].buying <= INT64_MAX
    /\ \A w \in DOMAIN sh \ DOMAIN L.acc : sh[w] = 0
    /\ SumFunctionOnSet(sh, DOMAIN sh) \in Nat /\ SumFunctionOnSet(sh, DOMAIN sh) <= dole

LEMMA ShareFits ==
    ASSUME NEW L, IsLedger(L), NEW dole \in Nat, NEW v \in Nat, NEW w, w \in DOMAIN L.acc, NEW s,
           s = Min({getMaxAmountReceive(L, w, Native), (dole * v) \div L.totalCoins})
    PROVE  /\ s \in Nat /\ s * L.totalCoins <= dole * v
           /\ (L.acc[w].balance + s) + L.acc[w].buying <= INT64_MAX
<1> DEFINE h == L.acc[w]
           t == L.totalCoins
           m == getMaxAmountReceive(L, w, Native)
           p == dole * v
           q == p \div t
<1>1. h.balance \in Nat /\ h.buying \in Nat /\ h.balance + h.buying <= INT64_MAX
  BY AccountFields DEF IsLedger, AreAccounts
<1>2. m = INT64_MAX - (h.balance + h.buying)
  BY DEF getMaxAmountReceive, Holding, isIssuer
<1>3. t \in Nat \ {0} /\ p \in Nat
  BY ProductType DEF IsLedger, IsHeader
<1> HIDE DEF p, t, h
<1>4. q \in Nat /\ q * t <= p
  BY <1>3, Quotient
<1> HIDE DEF m, q
<1>5. m \in Nat
  BY <1>1, <1>2, Int64Assumption
<1>6. s = IF m <= q THEN m ELSE q
  <2>1. s = Min({m, q})
    BY DEF m, q, p, t
  <2> QED BY <1>4, <1>5, <2>1, MinOfTwo
<1>7. s \in Nat /\ s <= q /\ s <= m
  BY <1>4, <1>5, <1>6
<1>8. s * t <= q * t /\ s * t \in Nat /\ q * t \in Nat
  BY <1>3, <1>4, <1>7, ProductOrder, ProductType
<1>9. s * t <= p
  BY <1>3, <1>4, <1>8
<1>10. (h.balance + s) + h.buying <= INT64_MAX
  BY <1>1, <1>2, <1>7, Int64Assumption
<1> QED BY <1>7, <1>9, <1>10 DEF h, t, p

LEMMA SharesFit ==
    ASSUME NEW L, IsLedger(L), Conserved(L), NEW dole \in Nat, NEW q, q = queryInflationWinners(L)
    PROVE  Fit(L, dole, Shares(L, dole, q))
<1> DEFINE sh == Shares(L, dole, q)
           W == DOMAIN q
           t == L.totalCoins
           s == SumFunctionOnSet(sh, W)
           v == SumFunctionOnSet(q, W)
<1>1. IsFiniteSet(W) /\ (\A w \in W : q[w] \in Nat) /\ v <= Lumens(L)
  BY Winners
<1>2. t \in Nat \ {0} /\ Lumens(L) \in Nat /\ Lumens(L) <= t
  <2>1. L.totalCoins \in Nat /\ L.totalCoins # 0 /\ L.feePool \in Nat /\ Lumens(L) \in Nat
    BY LumensType DEF IsLedger, IsHeader
  <2> QED BY <2>1 DEF Conserved
<1>3. DOMAIN sh = W
  BY DEF Shares
<1>4. ASSUME NEW w \in W
      PROVE  /\ sh[w] \in Nat /\ sh[w] * t <= dole * q[w]
             /\ w \in DOMAIN L.acc => (L.acc[w].balance + sh[w]) + L.acc[w].buying <= INT64_MAX
             /\ w \notin DOMAIN L.acc => sh[w] = 0
  <2>1. q[w] \in Nat
    BY <1>1
  <2>2. CASE w \in DOMAIN L.acc
    <3>1. sh[w] = Min({getMaxAmountReceive(L, w, Native), (dole * q[w]) \div L.totalCoins})
      BY <2>2 DEF Shares, exists
    <3> HIDE DEF sh, W
    <3>2. PICK x \in Nat : x = q[w]
      BY <2>1
    <3>3. sh[w] = Min({getMaxAmountReceive(L, w, Native), (dole * x) \div L.totalCoins})
      BY <3>1, <3>2
    <3>4. /\ sh[w] \in Nat /\ sh[w] * L.totalCoins <= dole * x
          /\ (L.acc[w].balance + sh[w]) + L.acc[w].buying <= INT64_MAX
      BY <2>2, <3>3, ShareFits, Zenon
    <3> QED BY <2>2, <3>2, <3>4
  <2>3. CASE w \notin DOMAIN L.acc
    <3>1. sh[w] = 0
      BY <2>3 DEF Shares, exists
    <3> HIDE DEF sh, t
    <3>2. 0 * t = 0 /\ dole * q[w] \in Nat
      BY <1>2, <2>1, ProductType
    <3> QED BY <2>3, <3>1, <3>2
  <2> QED BY <2>2, <2>3
<1> HIDE DEF sh, W, t
<1>5. /\ s \in Nat /\ v \in Nat /\ s * t <= dole * v
  BY <1>1, <1>2, <1>4, SumScaled
<1> HIDE DEF s, v
<1>6. s <= dole
  <2>1. v <= t
    BY <1>1, <1>2, <1>5
  <2>2. dole * v <= dole * t
    <3>1. CASE dole = 0
      BY <1>2, <1>5, <3>1
    <3>2. CASE dole # 0
      <4>1. v * dole <= t * dole
        BY <1>2, <1>5, <2>1, <3>2, ProductOrder
      <4>2. v * dole = dole * v /\ t * dole = dole * t
        BY <1>2, <1>5
      <4> QED BY <4>1, <4>2
    <3> QED BY <3>1, <3>2
  <2>3. s * t \in Nat /\ dole * v \in Nat /\ dole * t \in Nat
    BY <1>2, <1>5, ProductType
  <2>4. s * t <= dole * t
    BY <1>5, <2>2, <2>3
  <2> QED BY <1>2, <1>5, <2>4, ProductOrder
<1>7. IsFiniteSet(DOMAIN sh) /\ \A w \in DOMAIN sh : sh[w] \in Nat
  BY <1>1, <1>3, <1>4
<1>8. /\ \A w \in DOMAIN sh \cap DOMAIN L.acc :
             (L.acc[w].balance + sh[w]) + L.acc[w].buying <= INT64_MAX
      /\ \A w \in DOMAIN sh \ DOMAIN L.acc : sh[w] = 0
  BY <1>3, <1>4
<1>9. SumFunctionOnSet(sh, DOMAIN sh) \in Nat /\ SumFunctionOnSet(sh, DOMAIN sh) <= dole
  BY <1>3, <1>5, <1>6 DEF s
<1>10. Fit(L, dole, sh)
  BY <1>7, <1>8, <1>9 DEF Fit
<1> QED BY <1>10 DEF sh

PaidAccounts(f, sh) ==
    [a \in DOMAIN f |-> IF a \in DOMAIN sh THEN [f[a] EXCEPT !.balance = f[a].balance + sh[a]]
                        ELSE f[a]]

LEMMA FieldsPaid ==
    ASSUME NEW L, LedgerFields(L), NEW added, NEW sh, NEW M, M = payOut(L, added, sh)
    PROVE  /\ LedgerFields(M) /\ M.acc = PaidAccounts(L.acc, sh)
           /\ M.feePool = added + L.feePool - SumFunction(sh)
           /\ M.totalCoins = L.totalCoins + added /\ M.inflationSeq = L.inflationSeq + 1
           /\ M.tl = L.tl /\ M.offers = L.offers /\ M.data = L.data /\ M.ledgerSeq = L.ledgerSeq
           /\ M.idPool = L.idPool /\ M.baseReserve = L.baseReserve
<1> DEFINE f == PaidAccounts(L.acc, sh)
           x == added + L.feePool - SumFunction(sh)
           y == L.inflationSeq + 1
           z == L.totalCoins + added
<1>1. M = [L EXCEPT !.acc = f, !.feePool = x, !.inflationSeq = y, !.totalCoins = z]
  BY DEF payOut, PaidAccounts
<1> HIDE DEF f, x, y, z
<1>2. /\ LedgerFields(M) /\ M.acc = f /\ M.feePool = x /\ M.totalCoins = z /\ M.inflationSeq = y
      /\ M.tl = L.tl /\ M.offers = L.offers /\ M.data = L.data /\ M.ledgerSeq = L.ledgerSeq
      /\ M.idPool = L.idPool /\ M.baseReserve = L.baseReserve
  BY <1>1 DEF LedgerFields
<1> QED BY <1>2 DEF f, x, y, z

LEMMA AccountPaid ==
    ASSUME NEW h, IsAccount(h), NEW x \in Nat, (h.balance + x) + h.buying <= INT64_MAX,
           NEW k, k = [h EXCEPT !.balance = h.balance + x]
    PROVE  IsAccount(k) /\ SameOwner(h, k) /\ k.balance = h.balance + x
<1>1. k = Rebalanced(h, h.balance + x, h.buying, h.selling)
  BY SetOne
<1>2. /\ h.balance \in Nat /\ h.buying \in Nat /\ h.selling \in Nat /\ h.selling <= h.balance
  BY AccountFields
<1>3. h.balance + x \in Nat /\ h.selling <= h.balance + x
  BY <1>2
<1> QED BY <1>1, <1>2, <1>3, AccountUpdate

LEMMA PayOut ==
    ASSUME NEW L, Sound(L), NEW added \in Nat, NEW sh, Fit(L, added + L.feePool, sh),
           NEW M, M = payOut(L, added, sh)
    PROVE  Sound(M) /\ Advances(L, M)
<1> DEFINE f == L.acc
           g == PaidAccounts(f, sh)
           S == DOMAIN f
           e == [a \in S |-> IF a \in DOMAIN sh THEN sh[a] ELSE 0]
           total == SumFunctionOnSet(sh, DOMAIN sh)
<1>1. /\ LedgerFields(M) /\ M.acc = g
      /\ M.feePool = added + L.feePool - total
      /\ M.totalCoins = L.totalCoins + added /\ M.inflationSeq = L.inflationSeq + 1
      /\ M.tl = L.tl /\ M.offers = L.offers /\ M.data = L.data /\ M.ledgerSeq = L.ledgerSeq
      /\ M.idPool = L.idPool /\ M.baseReserve = L.baseReserve
  <2>1. LedgerFields(L) /\ SumFunction(sh) = total
    BY DEF Sound, IsLedger, SumFunction
  <2> HIDE DEF total, g
  <2> QED BY <2>1, FieldsPaid DEF g
<1>2. /\ IsLedger(L) /\ AreAccounts(f) /\ IsFiniteSet(S) /\ Counted(L) /\ Numbered(L)
  BY DEF Sound, IsLedger, AreAccounts
<1>3. /\ L.ledgerSeq \in Nat /\ L.idPool \in Nat /\ L.feePool \in Nat /\ L.totalCoins \in Nat
      /\ L.inflationSeq \in Nat /\ L.baseReserve \in Nat /\ L.totalCoins # 0
      /\ Lumens(L) \in Nat
  BY <1>2, LumensType DEF IsLedger, IsHeader
<1>4. total \in Nat /\ total <= added + L.feePool
  BY DEF Fit
<1>5. ASSUME NEW a \in S
      PROVE  /\ IsAccount(g[a]) /\ SameOwner(f[a], g[a]) /\ g[a].balance = f[a].balance + e[a]
             /\ e[a] \in Int /\ f[a].balance \in Int
  <2>1. IsAccount(f[a])
    BY <1>2 DEF AreAccounts
  <2>2. f[a].balance \in Nat
    BY <2>1, AccountFields
  <2>3. CASE a \in DOMAIN sh
    <3>1. g[a] = [f[a] EXCEPT !.balance = f[a].balance + sh[a]] /\ e[a] = sh[a]
      BY <2>3 DEF PaidAccounts
    <3>2. sh[a] \in Nat /\ (f[a].balance + sh[a]) + f[a].buying <= INT64_MAX
      BY <2>3 DEF Fit
    <3> HIDE DEF g, e, f
    <3>3. IsAccount(g[a]) /\ SameOwner(f[a], g[a]) /\ g[a].balance = f[a].balance + sh[a]
      BY <2>1, <3>1, <3>2, AccountPaid
    <3> QED BY <2>2, <3>1, <3>2, <3>3
  <2>4. CASE a \notin DOMAIN sh
    <3>1. g[a] = f[a] /\ e[a] = 0
      BY <2>4 DEF PaidAccounts
    <3> HIDE DEF g, e, f
    <3> QED BY <2>1, <2>2, <3>1 DEF SameOwner
  <2> QED BY <2>3, <2>4
<1>6. DOMAIN g = S /\ AreAccounts(g)
  <2>1. g = [a \in S |-> g[a]]
    BY DEF PaidAccounts
  <2> HIDE DEF g, e
  <2> QED BY <1>2, <1>5, <2>1 DEF AreAccounts
<1>7. Lumens(M) = Lumens(L) + total
  <2> DEFINE u == Balances(f)
             v == Balances(g)
             K == S \cap DOMAIN sh
  <2>1. Lumens(L) = SumFunctionOnSet(u, S) /\ Lumens(M) = SumFunctionOnSet(v, S)
    BY <1>1, <1>6, LumensAre
  <2>2. \A a \in S : u[a] = f[a].balance /\ v[a] = g[a].balance
    BY <1>6 DEF Balances
  <2>3. K \in SUBSET S /\ K \in SUBSET DOMAIN sh
    OBVIOUS
  <2>4. /\ \A a \in K : e[a] = sh[a]
        /\ \A a \in S \ K : e[a] = 0
    OBVIOUS
  <2>5. /\ IsFiniteSet(DOMAIN sh) /\ \A a \in DOMAIN sh : sh[a] \in Int
        /\ \A a \in DOMAIN sh \ K : sh[a] = 0
    BY DEF Fit
  <2> HIDE DEF u, v, g, e
  <2>6. SumFunctionOnSet(v, S) = SumFunctionOnSet(u, S) + SumFunctionOnSet(e, S)
    <3>1. \A a \in S : u[a] \in Int /\ e[a] \in Int /\ v[a] = u[a] + e[a]
      BY <1>5, <2>2
    <3> HIDE DEF S
    <3> QED BY <1>2, <3>1, SumPlus
  <2>7. SumFunctionOnSet(e, S) = SumFunctionOnSet(sh, K)
    <3>1. \A a \in S : e[a] \in Int
      BY <1>5
    <3> HIDE DEF S, K
    <3>2. IsFiniteSet(S) /\ K \in SUBSET S
      BY <1>2, <2>3
    <3>3. /\ \A a \in K : e[a] = sh[a]
          /\ \A a \in S \ K : e[a] = 0
      BY <2>4, Zenon
    <3> HIDE DEF f, total
    <3>4. \A x \in S : e[x] \in Int
      BY <3>1, Zenon
    <3> QED BY <3>2, <3>3, <3>4, SumExtend
  <2>8. SumFunctionOnSet(sh, DOMAIN sh) = SumFunctionOnSet(sh, K)
    <3> HIDE DEF S, K
    <3> QED BY <2>3, <2>5, SumExtend
  <2> QED BY <2>1, <2>6, <2>7, <2>8
<1> HIDE DEF g, e, total, f
<1>8. IsLedger(M)
  <2>1. M.feePool \in Nat /\ M.totalCoins \in Nat /\ M.totalCoins # 0 /\ M.inflationSeq \in Nat
    BY <1>1, <1>3, <1>4
  <2>2. IsHeader(M)
    BY <1>1, <1>3, <2>1 DEF IsHeader
  <2>3. AreLines(M.tl) /\ AreOffers(M.offers) /\ IsFiniteSet(M.data)
    BY <1>1, <1>2 DEF IsLedger
  <2> QED BY <1>1, <1>6, <2>2, <2>3 DEF IsLedger
<1>9. Conserved(M)
  <2>1. L.totalCoins = L.feePool + Lumens(L)
    BY DEF Sound, Conserved
  <2> QED BY <1>1, <1>3, <1>4, <1>7, <2>1 DEF Conserved
<1>10. Counted(M)
  <2>1. \A a \in S : g[a].numSubEntries = f[a].numSubEntries /\ g[a].signers = f[a].signers
    BY <1>5 DEF SameOwner
  <2>2. \A a : Owned(M, a) = Owned(L, a)
    BY <1>1 DEF Owned
  <2>3. \A a \in S : Entries(M, a) = Entries(L, a)
    BY <1>1, <2>1, <2>2 DEF Entries, f
  <2>4. Owners(M) = Owners(L)
    BY <1>1 DEF Owners
  <2> QED BY <1>1, <1>2, <1>6, <2>1, <2>3, <2>4 DEF Counted, f
<1>11. Numbered(M)
  BY <1>1, <1>2 DEF Numbered
<1>12. Advances(L, M)
  <2>1. \A a \in S : g[a].seqNum = f[a].seqNum /\ f[a].seqNum \in Nat
    BY <1>2, <1>5, UncountedType DEF SameOwner, f
  <2>2. DOMAIN M.acc = DOMAIN L.acc
    BY <1>1, <1>6 DEF f
  <2> QED BY <1>1, <2>1, <2>2 DEF Advances, f
<1> QED BY <1>8, <1>9, <1>10, <1>11, <1>12 DEF Sound

LEMMA InflationKeeps ==
    ASSUME NEW L, Sound(L), InflationRate \in Nat, NEW op, NEW r, r = Inflation(L, op),
           r.code = "ok"
    PROVE  Sound(r.L) /\ Advances(L, r.L)
<1> DEFINE added == (L.totalCoins * InflationRate) \div 100
           q == queryInflationWinners(L)
           sh == Shares(L, added + L.feePool, q)
<1>1. r.L = payOut(L, added, sh)
  <2>1. r = Fail("not time", L) \/ r = Done(payOut(L, added, sh))
    BY Zenon DEF Inflation
  <2>2. \A code, M : r = Fail(code, M) => code = "ok"
    BY DEF Fail
  <2>3. "not time" # "ok"
    OBVIOUS
  <2>4. \A M : Done(M).L = M
    BY DEF Done
  <2> HIDE DEF added, sh
  <2> QED BY <2>1, <2>2, <2>3, <2>4, Zenon
<1>2. IsLedger(L) /\ Conserved(L)
  BY DEF Sound
<1>3. added \in Nat /\ L.feePool \in Nat
  <2>1. L.totalCoins \in Nat /\ L.feePool \in Nat
    BY <1>2 DEF IsLedger, IsHeader
  <2> DEFINE p == L.totalCoins * InflationRate
  <2>2. p \in Nat
    BY <2>1, ProductType
  <2> HIDE DEF p
  <2>3. p \div 100 \in Nat
    BY <2>2, Quotient
  <2> QED BY <2>1, <2>3 DEF p
<1> HIDE DEF added
<1>4. Fit(L, added + L.feePool, sh)
  <2>1. added + L.feePool \in Nat
    BY <1>3
  <2> QED BY <1>2, <2>1, SharesFit
<1> HIDE DEF sh
<1> QED BY <1>1, <1>3, <1>4, PayOut

-----------------------------------------------------------------------------
(* Liabilities.                                                              *)
(*                                                                           *)
(* The liabilities of an account or a line follow the offers of its owner    *)
(* through every operation, for all accounts, lines, offers and prices.      *)
(*                                                                           *)
(* All is said of one account a, one asset and one side of its offers,       *)
(* "buying" or "selling".                                                    *)

Sides == {"buying", "selling"}

\* What an offer promises of an asset on behalf of an account.
Share(o, a, asset, side) ==
    IF o.seller # a \/ isIssuer(a, asset) THEN 0
    ELSE IF side = "buying"
    THEN IF o.buying = asset THEN OfferLiabilities(o.price, o.amount).numSheepSend ELSE 0
    ELSE IF o.selling = asset THEN OfferLiabilities(o.price, o.amount).numWheatReceived ELSE 0

SharesOf(L, a, asset, side) == [i \in DOMAIN L.offers |-> Share(L.offers[i], a, asset, side)]

Pledged(L, a, asset, side) == SumFunctionOnSet(SharesOf(L, a, asset, side), DOMAIN L.offers)

\* The liabilities; an issuer and one who cannot hold the asset have none.
LiabilityOf(h, side) == IF side = "buying" THEN h.buying ELSE h.selling

Liable(L, a, asset, side) ==
    IF isIssuer(a, asset) \/ ~Exists(L, a, asset) THEN 0
    ELSE LiabilityOf(Holding(L, a, asset), side)

Slack(L, a, asset, side) == Liable(L, a, asset, side) - Pledged(L, a, asset, side)

\* A line that is not authorized; nobody may change its liabilities.
Frozen(L, a, asset) ==
    asset # Native /\ <<a, asset>> \in DOMAIN L.tl /\ ~L.tl[<<a, asset>>].authorized

LEMMA LiabilitiesType ==
    ASSUME NEW o, IsOffer(o)
    PROVE  OfferLiabilities(o.price, o.amount) \in Exchanged
<1>1. o.price \in Price /\ o.amount \in Nat /\ INT64_MAX \in Nat /\ FALSE \in BOOLEAN
  BY Int64Assumption DEF IsOffer
<1> QED BY <1>1, ExchangeWithinLimits, Zenon DEF OfferLiabilities

LEMMA ShareType ==
    ASSUME NEW o, IsOffer(o), NEW a, NEW asset, NEW side
    PROVE  Share(o, a, asset, side) \in Nat
<1> DEFINE p == OfferLiabilities(o.price, o.amount)
<1>1. p.numSheepSend \in Nat /\ p.numWheatReceived \in Nat
  BY LiabilitiesType DEF Exchanged
<1> HIDE DEF p
<1>2. Share(o, a, asset, side) \in {0, p.numSheepSend, p.numWheatReceived}
  BY DEF Share, p
<1> QED BY <1>1, <1>2

LEMMA SharesType ==
    ASSUME NEW L, IsLedger(L), NEW a, NEW asset, NEW side
    PROVE  /\ IsFiniteSet(DOMAIN L.offers)
           /\ \A i \in DOMAIN L.offers : Share(L.offers[i], a, asset, side) \in Nat
           /\ Pledged(L, a, asset, side) \in Nat
<1>1. IsFiniteSet(DOMAIN L.offers) /\ \A i \in DOMAIN L.offers : IsOffer(L.offers[i])
  BY DEF IsLedger, AreOffers
<1>2. \A i \in DOMAIN L.offers : Share(L.offers[i], a, asset, side) \in Nat
  BY <1>1, ShareType
<1> DEFINE f == SharesOf(L, a, asset, side)
<1>3. \A i \in DOMAIN L.offers : f[i] \in Int /\ f[i] >= 0
  BY <1>2 DEF SharesOf
<1> HIDE DEF f
<1>4. SumFunctionOnSet(f, DOMAIN L.offers) \in Int /\ SumFunctionOnSet(f, DOMAIN L.offers) >= 0
  BY <1>1, <1>3, SumType
<1> QED BY <1>1, <1>2, <1>4 DEF Pledged, f

LEMMA LiableType ==
    ASSUME NEW L, IsLedger(L), NEW a, NEW asset, NEW side
    PROVE  Liable(L, a, asset, side) \in Nat
<1>1. CASE isIssuer(a, asset) \/ ~Exists(L, a, asset)
  BY <1>1 DEF Liable
<1>2. CASE ~ (isIssuer(a, asset) \/ ~Exists(L, a, asset))
  <2>1. Holding(L, a, asset).buying \in Nat /\ Holding(L, a, asset).selling \in Nat
    BY <1>2, HoldingFields, Zenon
  <2> QED BY <1>2, <2>1 DEF Liable, LiabilityOf
<1> QED BY <1>1, <1>2

-----------------------------------------------------------------------------
(* Steps that keep the offers and change liabilities. *)

\* M is L with x more of these liabilities; those of a frozen line stay.
Shifts(L, M, a, asset, side, x) ==
    /\ DOMAIN M.tl = DOMAIN L.tl
    /\ Liable(M, a, asset, side) = Liable(L, a, asset, side) + x
    /\ Frozen(M, a, asset) <=> Frozen(L, a, asset)
    /\ Frozen(L, a, asset) => x = 0

LEMMA ShiftsNot ==
    ASSUME NEW L, IsLedger(L), NEW a, NEW asset, NEW side
    PROVE  Shifts(L, L, a, asset, side, 0)
BY LiableType DEF Shifts

LEMMA ShiftsOn ==
    ASSUME NEW L, IsLedger(L), NEW M, NEW N, NEW a, NEW asset, NEW side, NEW x \in Int, NEW y \in Int,
           Shifts(L, M, a, asset, side, x), Shifts(M, N, a, asset, side, y)
    PROVE  Shifts(L, N, a, asset, side, x + y)
<1>1. Liable(L, a, asset, side) \in Int
  BY LiableType
<1> QED BY <1>1 DEF Shifts

\* Only accounts and lines count.
LEMMA ShiftsSame ==
    ASSUME NEW L, IsLedger(L), NEW M, M.acc = L.acc, M.tl = L.tl, NEW a, NEW asset, NEW side
    PROVE  Shifts(L, M, a, asset, side, 0)
<1>1. Liable(M, a, asset, side) = Liable(L, a, asset, side)
  BY DEF Liable, Exists, Holding
<1> QED BY <1>1, LiableType DEF Shifts, Frozen

LEMMA HoldingSet ==
    ASSUME NEW L, IsLedger(L), NEW b, NEW other, Exists(L, b, other), NEW k, NEW M,
           M = SetHolding(L, b, other, k), NEW a, NEW asset
    PROVE  /\ DOMAIN M.tl = DOMAIN L.tl
           /\ Exists(M, a, asset) <=> Exists(L, a, asset)
           /\ Exists(L, a, asset) =>
                 Holding(M, a, asset) = IF a = b /\ asset = other THEN k ELSE Holding(L, a, asset)
<1>1. LedgerFields(L)
  BY DEF IsLedger
<1>2. CASE other = Native
  <2> DEFINE f == [L.acc EXCEPT ![b] = k]
  <2>1. M = [L EXCEPT !.acc = f]
    BY <1>1, <1>2, FieldAccAt DEF SetHolding
  <2>2. M.acc = f /\ M.tl = L.tl
    BY <1>1, <2>1, FieldAcc
  <2> QED BY <1>2, <2>2 DEF Exists, Holding
<1>3. CASE other # Native
  <2> DEFINE f == [L.tl EXCEPT ![<<b, other>>] = k]
  <2>1. M = [L EXCEPT !.tl = f]
    BY <1>1, <1>3, FieldTlAt DEF SetHolding
  <2>2. M.tl = f /\ M.acc = L.acc
    BY <1>1, <2>1, FieldTl
  <2> QED BY <1>3, <2>2 DEF Exists, Holding
<1> QED BY <1>2, <1>3

LEMMA RebalancedFields ==
    ASSUME NEW h, IsAccount(h) \/ IsLine(h), NEW x, NEW y, NEW z, NEW k, k = Rebalanced(h, x, y, z)
    PROVE  /\ k.buying = y /\ k.selling = z
           /\ IsLine(h) => k.authorized = h.authorized
<1>1. CASE IsAccount(h)
  <2>1. k.buying = y /\ k.selling = z
    BY <1>1 DEF IsAccount, Rebalanced
  <2>2. IsLine(h) => k.authorized = h.authorized
    BY DEF IsLine, Rebalanced
  <2> QED BY <2>1, <2>2
<1>2. CASE IsLine(h)
  BY <1>2 DEF IsLine, Rebalanced
<1> QED BY <1>1, <1>2

\* The liabilities of a holding that was set.
LEMMA LiableSet ==
    ASSUME NEW L, IsLedger(L), NEW b, NEW other, Exists(L, b, other),
           NEW h, h = Holding(L, b, other), NEW x, NEW y, NEW z, NEW k, k = Rebalanced(h, x, y, z),
           NEW M, M = SetHolding(L, b, other, k), NEW a, NEW asset, NEW side
    PROVE  /\ DOMAIN M.tl = DOMAIN L.tl
           /\ Liable(M, a, asset, side) =
                 IF a = b /\ asset = other /\ ~isIssuer(a, asset)
                 THEN LiabilityOf([buying |-> y, selling |-> z], side)
                 ELSE Liable(L, a, asset, side)
           /\ Frozen(M, a, asset) <=> Frozen(L, a, asset)
<1>1. /\ DOMAIN M.tl = DOMAIN L.tl
      /\ Exists(M, a, asset) <=> Exists(L, a, asset)
      /\ Exists(L, a, asset) =>
            Holding(M, a, asset) = IF a = b /\ asset = other THEN k ELSE Holding(L, a, asset)
  BY HoldingSet
<1>2. IsAccount(h) \/ IsLine(h)
  BY HoldingFields, Zenon
<1>3. k.buying = y /\ k.selling = z /\ (IsLine(h) => k.authorized = h.authorized)
  BY <1>2, RebalancedFields
<1>4. LiabilityOf(k, side) = LiabilityOf([buying |-> y, selling |-> z], side)
  BY <1>3 DEF LiabilityOf
<1>5. Liable(M, a, asset, side) =
          IF a = b /\ asset = other /\ ~isIssuer(a, asset)
          THEN LiabilityOf([buying |-> y, selling |-> z], side) ELSE Liable(L, a, asset, side)
  BY <1>1, <1>4 DEF Liable
<1>6. Frozen(M, a, asset) <=> Frozen(L, a, asset)
  <2>1. other # Native => IsLine(h)
    BY DEF Exists, Holding, IsLedger, AreLines
  <2>2. CASE asset = Native
    BY <2>2 DEF Frozen
  <2>3. CASE asset # Native
    <3>1. <<a, asset>> \in DOMAIN M.tl <=> <<a, asset>> \in DOMAIN L.tl
      BY <1>1, <2>3 DEF Exists
    <3>2. <<a, asset>> \in DOMAIN L.tl => M.tl[<<a, asset>>].authorized = L.tl[<<a, asset>>].authorized
      BY <1>1, <1>3, <2>1, <2>3 DEF Exists, Holding
    <3> QED BY <2>3, <3>1, <3>2 DEF Frozen
  <2> QED BY <2>2, <2>3
<1> QED BY <1>1, <1>5, <1>6

-----------------------------------------------------------------------------
(* Balances and liabilities. *)

LEMMA AddBalanceShifts ==
    ASSUME NEW L, IsLedger(L), NEW b, NEW other, NEW delta,
           NEW a, NEW asset, NEW side
    PROVE  Shifts(L, addBalance(L, b, other, delta).L, a, asset, side, 0)
<1> DEFINE r == addBalance(L, b, other, delta)
           h == Holding(L, b, other)
<1>1. r.L = L \/ \E new : r.L = SetHolding(L, b, other, [h EXCEPT !.balance = new])
  BY DEF addBalance, Result
<1>2. CASE r.L = L
  BY <1>2, ShiftsNot
<1>3. ASSUME NEW new, r.L = SetHolding(L, b, other, [h EXCEPT !.balance = new])
      PROVE  Shifts(L, r.L, a, asset, side, 0)
  <2> DEFINE k == [h EXCEPT !.balance = new]
             M == SetHolding(L, b, other, k)
  <2>1. CASE ~Exists(L, b, other)
    <3>1. SetHolding(L, b, other, k) = L
      BY <2>1, SetHoldingOfNobody DEF Exists
    <3> QED BY <1>3, <3>1, ShiftsNot
  <2>2. CASE Exists(L, b, other)
    <3>1. IsAccount(h) \/ IsLine(h)
      BY <2>2, HoldingFields, Zenon
    <3>2. k = Rebalanced(h, new, h.buying, h.selling)
      BY <3>1, SetOne
    <3> HIDE DEF h, k
    <3>3. /\ DOMAIN M.tl = DOMAIN L.tl
          /\ Liable(M, a, asset, side) =
                IF a = b /\ asset = other /\ ~isIssuer(a, asset)
                THEN LiabilityOf([buying |-> h.buying, selling |-> h.selling], side)
                ELSE Liable(L, a, asset, side)
          /\ Frozen(M, a, asset) <=> Frozen(L, a, asset)
      BY <2>2, <3>2, LiableSet DEF h
    <3>4. LiabilityOf([buying |-> h.buying, selling |-> h.selling], side) = LiabilityOf(h, side)
      BY DEF LiabilityOf
    <3>5. Liable(M, a, asset, side) = Liable(L, a, asset, side)
      BY <2>2, <3>3, <3>4 DEF Liable, h
    <3> QED BY <1>3, <3>3, <3>5, LiableType DEF Shifts, k
  <2> QED BY <2>1, <2>2
<1> HIDE DEF r
<1> QED BY <1>1, <1>2, <1>3 DEF r

LEMMA ThrowShifts ==
    ASSUME NEW L, IsLedger(L), NEW what, NEW a, NEW asset, NEW side
    PROVE  Shifts(L, throw(L, what), a, asset, side, 0)
<1>1. CASE throw(L, what) = L
  BY <1>1, ShiftsNot
<1>2. CASE throw(L, what) = [L EXCEPT !.err = what]
  <2>1. throw(L, what).acc = L.acc /\ throw(L, what).tl = L.tl
    BY <1>2, FieldErr DEF IsLedger
  <2> QED BY <2>1, ShiftsSame
<1> QED BY <1>1, <1>2 DEF throw

LEMMA MustAddBalanceShifts ==
    ASSUME NEW L, IsLedger(L), NEW b, NEW other, NEW delta, NEW what,
           NEW a, NEW asset, NEW side
    PROVE  Shifts(L, mustAddBalance(L, b, other, delta, what), a, asset, side, 0)
<1> DEFINE r == addBalance(L, b, other, delta)
<1>1. mustAddBalance(L, b, other, delta, what) = IF r.ok THEN r.L ELSE throw(L, what)
  BY DEF mustAddBalance
<1> HIDE DEF r
<1> QED BY <1>1, AddBalanceShifts, ThrowShifts DEF r

\* What one side of a holding is changed by.
OnSide(b, other, which, a, asset, side, delta) ==
    IF a = b /\ asset = other /\ side = which /\ ~isIssuer(a, asset) THEN delta ELSE 0

LEMMA BuyingShifts ==
    ASSUME NEW L, IsLedger(L), NEW b, NEW other, Exists(L, b, other) \/ isIssuer(b, other),
           NEW delta \in Int, NEW r, r = addBuyingLiabilities(L, b, other, delta), r.ok,
           NEW a, NEW asset, NEW side \in Sides
    PROVE  Shifts(L, r.L, a, asset, side, OnSide(b, other, "buying", a, asset, side, delta))
<1> DEFINE h == Holding(L, b, other)
           limit == IF other = Native THEN INT64_MAX ELSE h.limit
           new == Added(h.buying, delta, limit - h.balance)
           k == [h EXCEPT !.buying = new]
           M == SetHolding(L, b, other, k)
           x == OnSide(b, other, "buying", a, asset, side, delta)
<1>1. \/ (isIssuer(b, other) \/ delta = 0) /\ r.L = L
      \/ /\ ~isIssuer(b, other) /\ new >= 0 /\ (other # Native => h.authorized)
         /\ r.L = M
  BY DEF addBuyingLiabilities, Result
<1>2. CASE (isIssuer(b, other) \/ delta = 0) /\ r.L = L
  <2>1. x = 0
    BY <1>2 DEF OnSide
  <2> QED BY <1>2, <2>1, ShiftsNot
<1>3. CASE /\ ~isIssuer(b, other) /\ new >= 0 /\ (other # Native => h.authorized)
           /\ r.L = M
  <2>1. Exists(L, b, other)
    BY <1>3
  <2>2. /\ h.balance \in Nat /\ h.buying \in Nat /\ h.selling \in Nat
        /\ IsAccount(h) \/ IsLine(h)
        /\ other # Native => h.limit \in Nat
    BY <2>1, HoldingFields, Zenon
  <2>3. limit - h.balance \in Int
    BY <2>2, Int64Assumption
  <2>4. k = Rebalanced(h, h.balance, new, h.selling)
    BY <2>2, SetOne
  <2>5. other # Native => h = L.tl[<<b, other>>]
    BY DEF Holding
  <2> HIDE DEF h, limit, k
  <2>6. new = h.buying + delta
    BY <1>3, <2>2, <2>3, AddedIs DEF new
  <2> HIDE DEF new
  <2>7. /\ DOMAIN M.tl = DOMAIN L.tl
        /\ Liable(M, a, asset, side) =
              IF a = b /\ asset = other /\ ~isIssuer(a, asset)
              THEN LiabilityOf([buying |-> new, selling |-> h.selling], side)
              ELSE Liable(L, a, asset, side)
        /\ Frozen(M, a, asset) <=> Frozen(L, a, asset)
    BY <2>1, <2>4, LiableSet DEF h
  <2>8. a = b /\ asset = other /\ ~isIssuer(a, asset)
            => Liable(L, a, asset, side) = IF side = "buying" THEN h.buying ELSE h.selling
    BY <2>1 DEF Liable, LiabilityOf, h
  <2>9. Liable(M, a, asset, side) = Liable(L, a, asset, side) + x
    <3>1. LiabilityOf([buying |-> new, selling |-> h.selling], side)
              = IF side = "buying" THEN new ELSE h.selling
      BY DEF LiabilityOf
    <3>2. Liable(L, a, asset, side) \in Nat
      BY LiableType
    <3> QED BY <2>2, <2>6, <2>7, <2>8, <3>1, <3>2 DEF OnSide
  <2>10. Frozen(L, a, asset) => x = 0
    BY <1>3, <2>5 DEF Frozen, OnSide
  <2> QED BY <1>3, <2>7, <2>9, <2>10 DEF Shifts
<1> QED BY <1>1, <1>2, <1>3

LEMMA SellingShifts ==
    ASSUME NEW L, IsLedger(L), NEW b, NEW other, Exists(L, b, other) \/ isIssuer(b, other),
           NEW delta \in Int, NEW r, r = addSellingLiabilities(L, b, other, delta), r.ok,
           NEW a, NEW asset, NEW side \in Sides
    PROVE  Shifts(L, r.L, a, asset, side, OnSide(b, other, "selling", a, asset, side, delta))
<1> DEFINE h == Holding(L, b, other)
           limit == IF other = Native THEN h.balance - getMinBalance(L, h.numSubEntries)
                    ELSE h.balance
           new == Added(h.selling, delta, limit)
           k == [h EXCEPT !.selling = new]
           M == SetHolding(L, b, other, k)
           x == OnSide(b, other, "selling", a, asset, side, delta)
<1>1. \/ (isIssuer(b, other) \/ delta = 0) /\ r.L = L
      \/ /\ ~isIssuer(b, other) /\ new >= 0 /\ (other # Native => h.authorized)
         /\ r.L = M
  BY DEF addSellingLiabilities, Result
<1>2. CASE (isIssuer(b, other) \/ delta = 0) /\ r.L = L
  <2>1. x = 0
    BY <1>2 DEF OnSide
  <2> QED BY <1>2, <2>1, ShiftsNot
<1>3. CASE /\ ~isIssuer(b, other) /\ new >= 0 /\ (other # Native => h.authorized)
           /\ r.L = M
  <2>1. Exists(L, b, other)
    BY <1>3
  <2>2. /\ h.balance \in Nat /\ h.buying \in Nat /\ h.selling \in Nat
        /\ IsAccount(h) \/ IsLine(h)
        /\ other = Native => h.numSubEntries \in Nat
    BY <2>1, HoldingFields, Zenon
  <2>3. limit \in Int
    BY <2>2, MinBalanceType
  <2>5. other # Native => h = L.tl[<<b, other>>]
    BY DEF Holding
  <2> HIDE DEF h, limit, new
  <2>4. k = Rebalanced(h, h.balance, h.buying, new)
    BY <2>2, SetOne
  <2> HIDE DEF k
  <2>6. new = h.selling + delta
    BY <1>3, <2>2, <2>3, AddedIs DEF new
  <2> HIDE DEF new
  <2>7. /\ DOMAIN M.tl = DOMAIN L.tl
        /\ Liable(M, a, asset, side) =
              IF a = b /\ asset = other /\ ~isIssuer(a, asset)
              THEN LiabilityOf([buying |-> h.buying, selling |-> new], side)
              ELSE Liable(L, a, asset, side)
        /\ Frozen(M, a, asset) <=> Frozen(L, a, asset)
    BY <2>1, <2>4, LiableSet DEF h
  <2>8. a = b /\ asset = other /\ ~isIssuer(a, asset)
            => Liable(L, a, asset, side) = IF side = "buying" THEN h.buying ELSE h.selling
    BY <2>1 DEF Liable, LiabilityOf, h
  <2>9. Liable(M, a, asset, side) = Liable(L, a, asset, side) + x
    <3>1. LiabilityOf([buying |-> h.buying, selling |-> new], side)
              = IF side = "buying" THEN h.buying ELSE new
      BY DEF LiabilityOf
    <3>2. Liable(L, a, asset, side) \in Nat
      BY LiableType
    <3>3. side = "buying" \/ side = "selling"
      BY DEF Sides
    <3> QED BY <2>2, <2>6, <2>7, <2>8, <3>1, <3>2, <3>3 DEF OnSide
  <2>10. Frozen(L, a, asset) => x = 0
    BY <1>3, <2>5 DEF Frozen, OnSide
  <2> QED BY <1>3, <2>7, <2>9, <2>10 DEF Shifts
<1> QED BY <1>1, <1>2, <1>3

-----------------------------------------------------------------------------
(* Liabilities follow the offers. *)

\* With an offer's liabilities acquired there is as much more as it promises; with
\* them released, as much less.
LEMMA AcquireOrReleaseShifts ==
    ASSUME NEW L, IsLedger(L), NEW o, IsOffer(o), NEW sign \in {-1, 1}, NEW M,
           M = acquireOrReleaseLiabilities(L, o, sign), Fine(M),
           NEW a, NEW asset, NEW side \in Sides
    PROVE  Shifts(L, M, a, asset, side, sign * Share(o, a, asset, side))
<1> DEFINE promised == OfferLiabilities(o.price, o.amount)
           y == sign * promised.numSheepSend
           z == sign * promised.numWheatReceived
           bought == addBuyingLiabilities(L, o.seller, o.buying, y)
           B == bought.L
           sold == addSellingLiabilities(B, o.seller, o.selling, z)
           can == canHold(L, o.seller, o.buying) /\ canHold(L, o.seller, o.selling)
<1>1. M = IF promised.err # "" THEN throw(L, promised.err)
          ELSE IF ~ (o.seller \in DOMAIN L.acc) THEN throw(L, "account does not exist")
          ELSE IF ~can THEN throw(L, "trustline does not exist")
          ELSE IF ~bought.ok THEN throw(L, "could not add buying liabilities")
          ELSE IF ~sold.ok THEN throw(L, "could not add selling liabilities")
          ELSE sold.L
  BY DEF acquireOrReleaseLiabilities, exists
<1>2. promised.numSheepSend \in Nat /\ promised.numWheatReceived \in Nat
  BY LiabilitiesType DEF Exchanged
<1>3. y \in Int /\ z \in Int
  BY <1>2
<1>4. \A w : Named(w) => ~Fine(throw(L, w))
  BY MovedThrow
<1>5. /\ Named("account does not exist") /\ Named("trustline does not exist")
      /\ Named("could not add buying liabilities") /\ Named("could not add selling liabilities")
  BY DEF Named
<1> HIDE DEF bought, sold, can
<1>6. M = sold.L /\ o.seller \in DOMAIN L.acc /\ can /\ bought.ok /\ sold.ok
  BY <1>1, <1>4, <1>5, Zenon DEF Named
<1>7. \A s \in {o.buying, o.selling} : Exists(L, o.seller, s) \/ isIssuer(o.seller, s)
  BY <1>6 DEF can, canHold, hasTrustLine, Exists
<1>8. Moved(L, B, 0)
  BY <1>3, AddBuyingLiabilities DEF bought
<1>9. IsLedger(B) /\ DOMAIN B.acc = DOMAIN L.acc /\ DOMAIN B.tl = DOMAIN L.tl
  BY <1>8 DEF Moved
<1>10. Exists(B, o.seller, o.selling) \/ isIssuer(o.seller, o.selling)
  BY <1>7, <1>9 DEF Exists
<1> DEFINE u == OnSide(o.seller, o.buying, "buying", a, asset, side, y)
           v == OnSide(o.seller, o.selling, "selling", a, asset, side, z)
<1>11. Shifts(L, B, a, asset, side, u)
  BY <1>3, <1>6, <1>7, BuyingShifts DEF bought
<1>12. Shifts(B, sold.L, a, asset, side, v)
  BY <1>3, <1>6, <1>9, <1>10, SellingShifts DEF sold
<1>13. u \in Int /\ v \in Int
  BY <1>3 DEF OnSide
<1>14. u + v = sign * Share(o, a, asset, side)
  <2> HIDE DEF promised
  <2>1. side = "buying" \/ side = "selling"
    BY DEF Sides
  <2>2. sign * 0 = 0
    OBVIOUS
  <2>3. CASE o.seller # a \/ isIssuer(a, asset)
    BY <2>2, <2>3 DEF OnSide, Share
  <2>4. CASE ~ (o.seller # a \/ isIssuer(a, asset)) /\ side = "buying"
    <3>1. Share(o, a, asset, side) = IF o.buying = asset THEN promised.numSheepSend ELSE 0
      BY <2>4 DEF Share, promised
    <3>2. u = (IF o.buying = asset THEN y ELSE 0) /\ v = 0
      BY <2>4 DEF OnSide
    <3> QED BY <1>3, <2>2, <3>1, <3>2
  <2>5. CASE ~ (o.seller # a \/ isIssuer(a, asset)) /\ side = "selling"
    <3>1. Share(o, a, asset, side) = IF o.selling = asset THEN promised.numWheatReceived ELSE 0
      BY <2>5 DEF Share, promised
    <3>2. v = (IF o.selling = asset THEN z ELSE 0) /\ u = 0
      BY <2>5 DEF OnSide
    <3> QED BY <1>3, <2>2, <3>1, <3>2
  <2> QED BY <2>1, <2>3, <2>4, <2>5
<1> HIDE DEF u, v
<1> QED BY <1>6, <1>11, <1>12, <1>13, <1>14, ShiftsOn

-----------------------------------------------------------------------------
(* The offers on the book. *)

\* M has the accounts and lines of L, and its offers promise x more.
Pledges(L, M, a, asset, side, x) == Pledged(M, a, asset, side) = Pledged(L, a, asset, side) + x

LEMMA PledgesSame ==
    ASSUME NEW L, IsLedger(L), NEW M, M.offers = L.offers, NEW a, NEW asset, NEW side
    PROVE  Pledges(L, M, a, asset, side, 0)
BY SharesType DEF Pledges, Pledged, SharesOf

LEMMA PledgesWithout ==
    ASSUME NEW L, IsLedger(L), NEW M, NEW id \in DOMAIN L.offers,
           M.offers = Without(L.offers, id), NEW a, NEW asset, NEW side
    PROVE  Pledges(L, M, a, asset, side, -Share(L.offers[id], a, asset, side))
<1> DEFINE f == SharesOf(L, a, asset, side)
           g == SharesOf(M, a, asset, side)
           D == DOMAIN L.offers
<1>1. IsFiniteSet(D) /\ \A i \in D : Share(L.offers[i], a, asset, side) \in Nat
  BY SharesType
<1>2. DOMAIN M.offers = D \ {id} /\ \A i \in D \ {id} : M.offers[i] = L.offers[i]
  <2>1. AreOffers(L.offers)
    BY DEF IsLedger
  <2>2. LET w == Without(L.offers, id)
        IN  DOMAIN w = DOMAIN L.offers \ {id} /\ \A i \in DOMAIN L.offers \ {id} : w[i] = L.offers[i]
    BY <2>1, WithoutOffer
  <2> QED BY <2>2
<1>3. \A i \in D : f[i] = Share(L.offers[i], a, asset, side)
  BY DEF SharesOf
<1>4. \A i \in D \ {id} : g[i] = f[i]
  BY <1>2, <1>3 DEF SharesOf
<1> HIDE DEF f, g, D
<1>5. SumFunctionOnSet(f, D) = f[id] + SumFunctionOnSet(f, D \ {id})
  BY <1>1, <1>3, SumRemove DEF D
<1>6. IsFiniteSet(D \ {id})
  BY <1>1, FS_Subset
<1>7. SumFunctionOnSet(g, D \ {id}) = SumFunctionOnSet(f, D \ {id})
  BY <1>4, <1>6, SumCong
<1>8. SumFunctionOnSet(f, D \ {id}) \in Int /\ f[id] \in Int
  BY <1>1, <1>3, <1>6, SumType DEF D
<1> QED BY <1>2, <1>3, <1>5, <1>7, <1>8 DEF Pledges, Pledged, f, g, D

LEMMA PledgesWith ==
    ASSUME NEW L, IsLedger(L), NEW M, NEW id \in Nat, id \notin DOMAIN L.offers,
           NEW o, IsOffer(o), M.offers = With(L.offers, id, o), NEW a, NEW asset, NEW side
    PROVE  Pledges(L, M, a, asset, side, Share(o, a, asset, side))
<1> DEFINE f == SharesOf(L, a, asset, side)
           g == SharesOf(M, a, asset, side)
           D == DOMAIN L.offers
<1>1. IsFiniteSet(D) /\ \A i \in D : Share(L.offers[i], a, asset, side) \in Nat
  BY SharesType
<1>2. /\ DOMAIN M.offers = D \cup {id} /\ M.offers[id] = o
      /\ \A i \in D : M.offers[i] = L.offers[i]
  <2>1. AreOffers(L.offers)
    BY DEF IsLedger
  <2>2. /\ DOMAIN With(L.offers, id, o) = DOMAIN L.offers \cup {id}
        /\ With(L.offers, id, o)[id] = o
        /\ \A i \in DOMAIN L.offers : i # id => With(L.offers, id, o)[i] = L.offers[i]
    BY DEF With
  <2>3. \A i \in D : i # id
    OBVIOUS
  <2> HIDE DEF D
  <2>4. D = DOMAIN L.offers
    BY DEF D
  <2> QED BY <2>2, <2>3, <2>4
<1>3. \A i \in D : g[i] = f[i] /\ g[i] \in Int
  BY <1>1, <1>2 DEF SharesOf
<1>4. g[id] = Share(o, a, asset, side) /\ g[id] \in Int
  BY <1>2, ShareType DEF SharesOf
<1> HIDE DEF f, g, D
<1>5. SumFunctionOnSet(g, D \cup {id}) = g[id] + SumFunctionOnSet(g, D)
  BY <1>1, <1>3, <1>4, SumAdd DEF D
<1>6. SumFunctionOnSet(g, D) = SumFunctionOnSet(f, D) /\ SumFunctionOnSet(g, D) \in Int
  BY <1>1, <1>3, SumCong, SumType
<1> QED BY <1>2, <1>4, <1>5, <1>6 DEF Pledges, Pledged, f, g, D

LEMMA PledgesReplaced ==
    ASSUME NEW L, IsLedger(L), NEW M, NEW id \in DOMAIN L.offers, NEW o, IsOffer(o),
           M.offers = [L.offers EXCEPT ![id] = o], NEW a, NEW asset, NEW side
    PROVE  Pledges(L, M, a, asset, side,
                   Share(o, a, asset, side) - Share(L.offers[id], a, asset, side))
<1> DEFINE f == SharesOf(L, a, asset, side)
           g == SharesOf(M, a, asset, side)
           D == DOMAIN L.offers
<1>1. IsFiniteSet(D) /\ \A i \in D : Share(L.offers[i], a, asset, side) \in Nat
  BY SharesType
<1>2. /\ DOMAIN M.offers = D /\ M.offers[id] = o
      /\ \A i \in D : i # id => M.offers[i] = L.offers[i]
  BY DEF IsLedger, AreOffers
<1>3. /\ \A i \in D : f[i] \in Int /\ (i # id => g[i] = f[i])
      /\ f[id] = Share(L.offers[id], a, asset, side)
  BY <1>1, <1>2 DEF SharesOf
<1>4. g[id] = Share(o, a, asset, side) /\ g[id] \in Int
  BY <1>2, ShareType DEF SharesOf
<1> HIDE DEF f, g, D
<1>5. \A i \in D : f[i] \in Int /\ g[i] \in Int /\ (i # id => g[i] = f[i])
  BY <1>3, <1>4
<1>6. SumFunctionOnSet(g, D) = SumFunctionOnSet(f, D) + g[id] - f[id]
  BY <1>1, <1>5, SumUpdate DEF D
<1>7. SumFunctionOnSet(f, D) \in Int /\ f[id] \in Int
  BY <1>1, <1>5, SumType DEF D
<1> QED BY <1>2, <1>3, <1>4, <1>6, <1>7 DEF Pledges, Pledged, f, g, D

-----------------------------------------------------------------------------
(* Trades. *)

\* M is L with x more of liabilities than of promises.
Follows(L, M, a, asset, side, x) ==
    /\ DOMAIN M.tl = DOMAIN L.tl
    /\ Slack(M, a, asset, side) = Slack(L, a, asset, side) + x
    /\ Frozen(M, a, asset) <=> Frozen(L, a, asset)
    /\ Frozen(L, a, asset) => Liable(M, a, asset, side) = Liable(L, a, asset, side)

LEMMA SlackType ==
    ASSUME NEW L, IsLedger(L), NEW a, NEW asset, NEW side
    PROVE  Slack(L, a, asset, side) \in Int
BY LiableType, SharesType DEF Slack

LEMMA FollowsNot ==
    ASSUME NEW L, IsLedger(L), NEW a, NEW asset, NEW side
    PROVE  Follows(L, L, a, asset, side, 0)
BY SlackType DEF Follows

LEMMA FollowsOn ==
    ASSUME NEW L, IsLedger(L), NEW M, NEW N, NEW a, NEW asset, NEW side, NEW x \in Int, NEW y \in Int,
           Follows(L, M, a, asset, side, x), Follows(M, N, a, asset, side, y), NEW z, z = x + y
    PROVE  Follows(L, N, a, asset, side, z)
<1>1. Slack(L, a, asset, side) \in Int
  BY SlackType
<1> QED BY <1>1 DEF Follows

LEMMA FollowsStill ==
    ASSUME NEW L, IsLedger(L), NEW M, NEW N, NEW a, NEW asset, NEW side,
           Follows(L, M, a, asset, side, 0), Follows(M, N, a, asset, side, 0)
    PROVE  Follows(L, N, a, asset, side, 0)
BY FollowsOn

\* Liabilities change and the offers stay, or the other way round.
LEMMA ShiftsFollows ==
    ASSUME NEW L, IsLedger(L), NEW M, M.offers = L.offers, NEW a, NEW asset, NEW side,
           NEW x \in Int, Shifts(L, M, a, asset, side, x)
    PROVE  Follows(L, M, a, asset, side, x)
<1>1. Liable(L, a, asset, side) \in Int /\ Pledged(L, a, asset, side) \in Int
  BY LiableType, SharesType
<1>2. Pledged(M, a, asset, side) = Pledged(L, a, asset, side)
  BY DEF Pledged, SharesOf
<1> QED BY <1>1, <1>2 DEF Shifts, Follows, Slack

LEMMA PledgesFollows ==
    ASSUME NEW L, IsLedger(L), NEW M, M.acc = L.acc, M.tl = L.tl, NEW a, NEW asset, NEW side,
           NEW x \in Int, Pledges(L, M, a, asset, side, x)
    PROVE  Follows(L, M, a, asset, side, -x)
<1>1. Liable(L, a, asset, side) \in Int /\ Pledged(L, a, asset, side) \in Int
  BY LiableType, SharesType
<1>2. Shifts(L, M, a, asset, side, 0)
  BY ShiftsSame
<1> QED BY <1>1, <1>2 DEF Shifts, Pledges, Follows, Slack

LEMMA AcquireFollows ==
    ASSUME NEW L, IsLedger(L), NEW o, IsOffer(o), NEW M, M = acquireLiabilities(L, o), Fine(M),
           NEW a, NEW asset, NEW side \in Sides
    PROVE  Follows(L, M, a, asset, side, Share(o, a, asset, side))
<1> DEFINE s == Share(o, a, asset, side)
<1>1. s \in Nat
  BY ShareType
<1> HIDE DEF s
<1>2. Shifts(L, M, a, asset, side, 1 * s)
  BY AcquireOrReleaseShifts DEF acquireLiabilities, s
<1>3. M.offers = L.offers
  BY Acquire DEF Moved
<1>4. 1 * s = s
  BY <1>1
<1> QED BY <1>1, <1>2, <1>3, <1>4, ShiftsFollows DEF s

LEMMA ReleaseFollows ==
    ASSUME NEW L, IsLedger(L), NEW o, IsOffer(o), NEW M, M = releaseLiabilities(L, o), Fine(M),
           NEW a, NEW asset, NEW side \in Sides
    PROVE  Follows(L, M, a, asset, side, -Share(o, a, asset, side))
<1> DEFINE s == Share(o, a, asset, side)
<1>1. s \in Nat
  BY ShareType
<1> HIDE DEF s
<1>2. Shifts(L, M, a, asset, side, (-1) * s)
  BY AcquireOrReleaseShifts DEF releaseLiabilities, s
<1>3. M.offers = L.offers
  BY Release DEF Moved
<1>4. (-1) * s = -s /\ -s \in Int
  BY <1>1
<1> QED BY <1>2, <1>3, <1>4, ShiftsFollows DEF s

LEMMA ThrowFollows ==
    ASSUME NEW L, IsLedger(L), NEW what, NEW a, NEW asset, NEW side
    PROVE  Follows(L, throw(L, what), a, asset, side, 0)
<1>1. throw(L, what).offers = L.offers
  BY MovedThrow DEF Moved
<1> QED BY <1>1, ThrowShifts, ShiftsFollows

\* A balance that is added.
LEMMA AddBalanceFollows ==
    ASSUME NEW L, IsLedger(L), NEW b, NEW other, other = Native => b \in DOMAIN L.acc,
           NEW delta \in Int, NEW a, NEW asset, NEW side
    PROVE  Follows(L, addBalance(L, b, other, delta).L, a, asset, side, 0)
<1> DEFINE M == addBalance(L, b, other, delta).L
<1>1. \E d : Moved(L, M, d)
  BY AddBalance
<1>2. M.offers = L.offers
  BY <1>1 DEF Moved
<1>3. Shifts(L, M, a, asset, side, 0)
  BY AddBalanceShifts
<1> HIDE DEF M
<1> QED BY <1>2, <1>3, ShiftsFollows DEF M

LEMMA PaidBothFollows ==
    ASSUME NEW L, IsLedger(L), NEW b \in DOMAIN L.acc, NEW sheep, NEW wheat,
           NEW sent \in Nat, NEW received \in Nat, NEW w1, Named(w1), NEW w2, Named(w2),
           NEW N, N = PaidBoth(L, b, sheep, wheat, sent, received, w1, w2),
           NEW a, NEW asset, NEW side
    PROVE  Follows(L, N, a, asset, side, 0)
<1> DEFINE M == mustAddBalance(L, b, sheep, sent, w1)
<1>1. \E d \in Int : Moved(L, M, d)
  BY MustAddBalance
<1>2. IsLedger(M) /\ M.offers = L.offers
  BY <1>1 DEF Moved
<1>3. Shifts(L, M, a, asset, side, 0)
  BY MustAddBalanceShifts
<1>4. N = mustAddBalance(M, b, wheat, -received, w2)
  BY DEF PaidBoth
<1> HIDE DEF M
<1>5. Shifts(M, N, a, asset, side, 0)
  BY <1>2, <1>4, MustAddBalanceShifts
<1>6. \E d \in Int : Moved(L, N, d)
  BY PayBoth
<1>7. N.offers = L.offers
  BY <1>6 DEF Moved
<1>8. Follows(L, M, a, asset, side, 0)
  BY <1>2, <1>3, ShiftsFollows
<1>9. Follows(M, N, a, asset, side, 0)
  BY <1>2, <1>5, <1>7, ShiftsFollows
<1> QED BY <1>8, <1>9, FollowsStill

\* Counting an entry has nothing to do with liabilities.
LEMMA AddNumEntriesShifts ==
    ASSUME NEW L, IsLedger(L), NEW b, NEW count \in Int, NEW M, M = addNumEntries(L, b, count).L,
           NEW a, NEW asset, NEW side
    PROVE  Shifts(L, M, a, asset, side, 0) /\ M.offers = L.offers
<1> DEFINE h == L.acc[b]
           new == h.numSubEntries + count
           k == [h EXCEPT !.numSubEntries = new]
           N == [L EXCEPT !.acc[b].numSubEntries = new]
<1>1. M = L \/ (\E w : M = throw(L, w)) \/ (~ (new < 0) /\ M = N)
  BY DEF addNumEntries, Result
<1>2. CASE M = L
  BY <1>2, ShiftsNot
<1>3. CASE \E w : M = throw(L, w)
  <2>1. PICK w : M = throw(L, w)
    BY <1>3
  <2>2. M.offers = L.offers
    BY <2>1, MovedThrow DEF Moved
  <2> QED BY <2>1, <2>2, ThrowShifts
<1>4. CASE ~ (new < 0) /\ M = N
  <2>1. N = [L EXCEPT !.acc[b] = k]
    BY FieldEntries DEF IsLedger
  <2>2. CASE b \notin DOMAIN L.acc
    <3>1. N = L
      BY <2>1, <2>2, SetNoAccount
    <3> QED BY <1>4, <3>1, ShiftsNot
  <2>3. CASE b \in DOMAIN L.acc
    <3>1. IsAccount(h)
      BY <2>3 DEF IsLedger, AreAccounts
    <3>2. new \in Nat
      BY <1>4, <3>1, AccountFields
    <3>3. IsAccount(k)
      BY <3>1, <3>2, AccountEntries
    <3>4. k.buying = h.buying /\ k.selling = h.selling
      BY <3>1 DEF IsAccount
    <3> HIDE DEF k, new
    <3>5. WithAccounts(L, M, [L.acc EXCEPT ![b] = k])
      BY <1>4, <2>1, <2>3, <3>3, PutAccount
    <3>6. M.acc = [L.acc EXCEPT ![b] = k] /\ M.tl = L.tl /\ M.offers = L.offers
      BY <3>5 DEF WithAccounts
    <3>7. Liable(M, a, asset, side) = Liable(L, a, asset, side)
      BY <3>4, <3>6 DEF Liable, LiabilityOf, Exists, Holding
    <3> QED BY <3>6, <3>7, LiableType DEF Shifts, Frozen
  <2> QED BY <2>2, <2>3
<1> QED BY <1>1, <1>2, <1>3, <1>4

LEMMA AddNumEntriesFollows ==
    ASSUME NEW L, IsLedger(L), NEW b, NEW count \in Int, NEW M, M = addNumEntries(L, b, count).L,
           NEW a, NEW asset, NEW side
    PROVE  Follows(L, M, a, asset, side, 0)
BY AddNumEntriesShifts, ShiftsFollows

LEMMA EraseFollows ==
    ASSUME NEW L, IsLedger(L), NEW id \in DOMAIN L.offers, NEW M, M = eraseOffer(L, id),
           NEW a, NEW asset, NEW side
    PROVE  Follows(L, M, a, asset, side, Share(L.offers[id], a, asset, side))
<1> DEFINE f == Without(L.offers, id)
           N == [L EXCEPT !.offers = f]
           s == Share(L.offers[id], a, asset, side)
<1>1. M = addNumEntries(N, L.offers[id].seller, -1).L
  BY DEF eraseOffer
<1>2. AreOffers(f)
  BY WithoutOffer DEF IsLedger
<1>3. IsLedger(N) /\ N.offers = f /\ N.acc = L.acc /\ N.tl = L.tl
  BY <1>2, PutOffers
<1> HIDE DEF N
<1>4. Pledges(L, N, a, asset, side, -s)
  BY <1>3, PledgesWithout
<1>5. s \in Nat
  BY SharesType
<1> HIDE DEF f, s
<1>6. -s \in Int /\ s \in Int /\ -(-s) = s /\ s = s + 0 /\ 0 \in Int /\ -1 \in Int
  BY <1>5
<1>7. Follows(L, N, a, asset, side, -(-s))
  BY <1>3, <1>4, <1>6, PledgesFollows
<1>8. Follows(N, M, a, asset, side, 0)
  BY <1>1, <1>3, <1>6, AddNumEntriesFollows
<1> QED BY <1>6, <1>7, <1>8, FollowsOn DEF s

\* A crossed offer, released before, is gone or promises what is left of it.
LEMMA BookRestFollows ==
    ASSUME NEW L, IsLedger(L), NEW id \in DOMAIN L.offers, NEW left \in Nat,
           NEW M, M = bookRest(L, id, left), Fine(M), NEW a, NEW asset, NEW side \in Sides
    PROVE  Follows(L, M, a, asset, side, Share(L.offers[id], a, asset, side))
<1> DEFINE o == L.offers[id]
           rest == [o EXCEPT !.amount = left]
           N == [L EXCEPT !.offers[id] = rest]
           f == [L.offers EXCEPT ![id] = rest]
<1>1. M = IF ~Fine(L) THEN L ELSE IF left = 0 THEN eraseOffer(L, id) ELSE acquireLiabilities(N, rest)
  BY Zenon DEF bookRest, Fine
<1>2. IsOffer(o)
  BY DEF IsLedger, AreOffers
<1>3. IsOffer(rest)
  BY <1>2, OfferAmount, Zenon
<1>4. N = [L EXCEPT !.offers = f]
  BY DEF IsLedger, LedgerFields
<1>5. AreOffers(f)
  BY <1>3 DEF IsLedger, AreOffers
<1>6. IsLedger(N) /\ N.offers = f /\ N.acc = L.acc /\ N.tl = L.tl
  BY <1>4, <1>5, PutOffers
<1> HIDE DEF N
<1>7. CASE left = 0
  BY <1>1, <1>7, EraseFollows
<1>8. CASE left # 0
  <2> DEFINE s == Share(o, a, asset, side)
             t == Share(rest, a, asset, side)
  <2>1. M = acquireLiabilities(N, rest)
    BY <1>1, <1>8
  <2>2. s \in Nat /\ t \in Nat
    BY <1>2, <1>3, ShareType
  <2> HIDE DEF rest
  <2>3. Pledges(L, N, a, asset, side, t - s)
    BY <1>3, <1>6, PledgesReplaced
  <2>4. Follows(N, M, a, asset, side, t)
    BY <1>3, <1>6, <2>1, AcquireFollows
  <2> HIDE DEF s, t, f, o
  <2>5. t - s \in Int /\ -(t - s) \in Int /\ t \in Int /\ s = -(t - s) + t
    BY <2>2
  <2>6. Follows(L, N, a, asset, side, -(t - s))
    BY <1>6, <2>3, <2>5, PledgesFollows
  <2>7. Follows(L, M, a, asset, side, s)
    BY <2>4, <2>5, <2>6, FollowsOn
  <2> QED BY <2>7 DEF s, o
<1> QED BY <1>7, <1>8

LEMMA SettleCrossFollows ==
    ASSUME NEW L, IsLedger(L), Fine(L), NEW id \in DOMAIN L.offers, NEW o, o = L.offers[id],
           o.seller \in DOMAIN L.acc, NEW adjusted, adjusted.numWheatReceived \in Nat,
           NEW mw \in Nat, NEW ms \in Nat, NEW trade,
           TradesWithin(trade, adjusted.numWheatReceived, mw, ms),
           NEW c, c = settleCross(L, id, adjusted, trade), Fine(c.L),
           NEW a, NEW asset, NEW side \in Sides
    PROVE  Follows(L, c.L, a, asset, side, Share(o, a, asset, side))
<1> DEFINE T1 == throw(L, adjusted.err)
           T == throw(T1, trade.err)
           w1 == "overflowed sheep balance"
           w2 == "overflowed wheat balance"
           sold == PaidBoth(T, o.seller, o.buying, o.selling, trade.numSheepSend,
                            trade.numWheatReceived, w1, w2)
           rest == [o EXCEPT !.amount = adjusted.numWheatReceived - trade.numWheatReceived]
           kept == AdjustedAmount(sold, rest)
           S == IF trade.wheatStays THEN throw(sold, kept.err) ELSE sold
           left == IF trade.wheatStays THEN kept.numWheatReceived ELSE 0
<1>1. c = crossed(id, trade, sold, kept)
  BY DEF settleCross, PaidBoth
<1>2. IsOffer(o)
  BY DEF IsLedger, AreOffers
<1>3. /\ trade.numWheatReceived \in Nat /\ trade.numSheepSend \in Nat
      /\ trade.numWheatReceived <= adjusted.numWheatReceived
  BY DEF TradesWithin
<1>4. IsLedger(T1) /\ DOMAIN T1.acc = DOMAIN L.acc /\ T1.offers = L.offers
  BY MovedThrow DEF Moved
<1>5. Follows(L, T1, a, asset, side, 0)
  BY ThrowFollows
<1> HIDE DEF T1
<1>6. IsLedger(T) /\ DOMAIN T.acc = DOMAIN T1.acc /\ T.offers = T1.offers
  BY <1>4, MovedThrow DEF Moved
<1>7. Follows(T1, T, a, asset, side, 0)
  BY <1>4, ThrowFollows
<1>8. Follows(L, T, a, asset, side, 0)
  BY <1>5, <1>7, FollowsStill
<1> HIDE DEF T
<1>9. Named(w1) /\ Named(w2)
  BY DEF Named
<1> HIDE DEF w1, w2
<1>10. o.seller \in DOMAIN T.acc
  BY <1>4, <1>6
<1>11. Follows(T, sold, a, asset, side, 0)
  BY <1>3, <1>6, <1>9, <1>10, PaidBothFollows
<1>12. \E d \in Int : Moved(T, sold, d)
  BY <1>3, <1>6, <1>9, <1>10, PayBoth
<1> HIDE DEF sold
<1>13. IsLedger(sold) /\ o.seller \in DOMAIN sold.acc /\ sold.offers = L.offers
  BY <1>4, <1>6, <1>10, <1>12 DEF Moved
<1>14. kept.numWheatReceived \in Nat
  <2>1. IsOffer(rest) /\ rest.seller = o.seller
    BY <1>2, <1>3 DEF IsOffer
  <2> HIDE DEF rest
  <2> QED BY <1>13, <2>1, Adjusted DEF Exchanged
<1> HIDE DEF kept
<1>15. Follows(sold, S, a, asset, side, 0)
  BY <1>13, ThrowFollows, FollowsNot
<1>16. IsLedger(S) /\ S.offers = L.offers
  BY <1>13, MovedThrow DEF Moved
<1>17. c.L = bookRest(S, id, left)
  BY <1>1, CrossedIs
<1>18. left \in Nat
  BY <1>14
<1> HIDE DEF S, left
<1>19. Follows(S, c.L, a, asset, side, Share(o, a, asset, side))
  BY <1>16, <1>17, <1>18, BookRestFollows
<1>20. Follows(L, sold, a, asset, side, 0)
  BY <1>8, <1>11, FollowsStill
<1>21. Follows(L, S, a, asset, side, 0)
  BY <1>15, <1>20, FollowsStill
<1> DEFINE s == Share(o, a, asset, side)
<1>22. s \in Nat
  BY <1>2, ShareType
<1> HIDE DEF s
<1>23. s \in Int /\ 0 \in Int /\ s = 0 + s
  BY <1>22
<1> QED BY <1>19, <1>21, <1>23, FollowsOn DEF s

LEMMA CrossOfferFollows ==
    ASSUME NEW L, IsLedger(L), Fine(L), NEW id \in DOMAIN L.offers,
           NEW mw \in Nat, NEW ms \in Nat, NEW path \in BOOLEAN, NEW c,
           c = crossOfferV10(L, id, mw, ms, path), Fine(c.L),
           NEW a, NEW asset, NEW side \in Sides
    PROVE  Follows(L, c.L, a, asset, side, 0)
<1> DEFINE o == L.offers[id]
           free == releaseLiabilities(L, o)
           p == free.offers[id]
           adjusted == AdjustedAmount(free, p)
           trade == exchangeV10(p.price,
                       Min({adjusted.numWheatReceived, canSellAtMost(free, p.seller, p.selling)}),
                       mw, ms, canBuyAtMost(free, p.seller, p.buying), path)
           none == [wheat |-> 0, sheep |-> 0, wheatStays |-> TRUE, taken |-> FALSE, L |-> free]
<1>1. c = IF ~Fine(free) THEN none ELSE settleCross(free, id, adjusted, trade)
  BY Zenon DEF crossOfferV10, crossReleased, Fine
<1>2. IsOffer(o)
  BY DEF IsLedger, AreOffers
<1>3. Moved(L, free, 0) /\ (Fine(free) => o.seller \in DOMAIN L.acc)
  BY <1>2, Release
<1>4. IsLedger(free) /\ p = o /\ id \in DOMAIN free.offers /\ DOMAIN free.acc = DOMAIN L.acc
  BY <1>3 DEF Moved
<1>5. none.L = free
  OBVIOUS
<1>6. Fine(free) => Follows(L, free, a, asset, side, -Share(o, a, asset, side))
  BY <1>2, ReleaseFollows
<1> HIDE DEF free, none, o
<1>7. Fine(free)
  BY <1>1, <1>5
<1>8. c = settleCross(free, id, adjusted, trade)
  BY <1>1, <1>7
<1>9. p.seller \in DOMAIN free.acc /\ IsOffer(p)
  BY <1>2, <1>3, <1>4, <1>7
<1>10. adjusted.numWheatReceived \in Nat
  BY <1>4, <1>9, Adjusted DEF Exchanged
<1> HIDE DEF adjusted, p
<1>11. TradesWithin(trade, adjusted.numWheatReceived, mw, ms)
  BY <1>4, <1>9, <1>10, TradeOf
<1> HIDE DEF trade
<1>12. Follows(free, c.L, a, asset, side, Share(p, a, asset, side))
  BY <1>4, <1>7, <1>8, <1>9, <1>10, <1>11, SettleCrossFollows DEF p
<1> DEFINE s == Share(o, a, asset, side)
<1>13. s \in Nat
  BY <1>2, ShareType
<1> HIDE DEF s
<1>14. s \in Int /\ -s \in Int /\ 0 = -s + s
  BY <1>13
<1>15. Follows(L, free, a, asset, side, -s) /\ Follows(free, c.L, a, asset, side, s)
  BY <1>4, <1>6, <1>7, <1>12 DEF s
<1> QED BY <1>14, <1>15, FollowsOn

\* What the rounds of a conversion keep.
RoundFollows(L, s, a, asset, side) == Fine(s.L) => Follows(L, s.L, a, asset, side, 0)

LEMMA RoundStays ==
    ASSUME NEW L, IsLedger(L), NEW sheep, NEW ms \in Nat, NEW wheat, NEW mw \in Nat,
           NEW path \in BOOLEAN, NEW filter, NEW a, NEW asset, NEW side \in Sides,
           NEW s, RoundOf(L, s, sheep, wheat, mw, ms), RoundFollows(L, s, a, asset, side),
           NEW t, t = crossBest(s, sheep, ms, wheat, mw, path, filter)
    PROVE  RoundFollows(L, t, a, asset, side)
<1>1. CASE t = s
  BY <1>1
<1>2. ASSUME ~Named(s.result), NEW x, t = [s EXCEPT !.result = x]
      PROVE  RoundFollows(L, t, a, asset, side)
  <2>1. t.L = s.L
    BY <1>2 DEF RoundOf
  <2> QED BY <2>1 DEF RoundFollows
<1>3. ASSUME NEW id, Crosses(s, t, id, sheep, ms, wheat, mw, path)
      PROVE  RoundFollows(L, t, a, asset, side)
  <2> DEFINE w == mw - s.wheat
             h == ms - s.sheep
             c == crossOfferV10(s.L, id, w, h, path)
  <2>1. Fine(s.L)
    <3>1. Named("throw")
      BY DEF Named
    <3> QED BY <1>3, <3>1 DEF RoundOf, Crosses
  <2>2. /\ IsLedger(s.L) /\ s.wheat \in Nat /\ s.wheat <= mw /\ s.sheep \in Nat /\ s.sheep <= ms
    BY <2>1 DEF RoundOf
  <2>3. w \in Nat /\ h \in Nat
    BY <2>2
  <2>4. id \in DOMAIN s.L.offers
    BY <1>3, BestOffer DEF Crosses
  <2>5. t = countCross(s, c, ms, mw)
    BY <1>3 DEF Crosses
  <2> HIDE DEF w, h
  <2>6. Fine(c.L) => Follows(s.L, c.L, a, asset, side, 0)
    BY <2>1, <2>2, <2>3, <2>4, CrossOfferFollows
  <2> HIDE DEF c
  <2>7. t.L = c.L
    BY <2>5, CountIs
  <2>8. Follows(L, s.L, a, asset, side, 0)
    BY <2>1 DEF RoundFollows
  <2>9. Fine(c.L) => Follows(L, c.L, a, asset, side, 0)
    BY <2>6, <2>8, FollowsStill
  <2> QED BY <2>7, <2>9 DEF RoundFollows
<1> QED BY <1>1, <1>2, <1>3, RoundIs, Zenon

LEMMA ConvertFollows ==
    ASSUME NEW L, IsLedger(L), Fine(L), NEW sheep, NEW ms \in Nat, NEW wheat, NEW mw \in Nat,
           NEW path \in BOOLEAN, NEW filter, NEW a, NEW asset, NEW side \in Sides,
           NEW r, r = convertWithOffers(L, sheep, ms, wheat, mw, path, filter)
    PROVE  RoundFollows(L, r, a, asset, side)
<1> DEFINE n == Rounds(L)
           R(s) == RoundOf(L, s, sheep, wheat, mw, ms) /\ RoundFollows(L, s, a, asset, side)
           F == CHOOSE F : AreRounds(F, n, L, sheep, ms, wheat, mw, path, filter)
           N == {k \in Nat : k <= n => R(F[k])}
<1>1. n \in Nat
  BY FS_CardinalityType DEF Rounds, IsLedger, AreOffers
<1>2. AreRounds(F, n, L, sheep, ms, wheat, mw, path, filter)
  <2> HIDE DEF n
  <2> QED BY <1>1, RoundsExist, Zenon
<1>3. r = F[n]
  BY ConversionIs
<1> HIDE DEF F, n
<1>4. \A k \in 0..n : F[k] = IF k = 0 THEN FirstRound(L, ms, mw)
                             ELSE crossBest(F[k - 1], sheep, ms, wheat, mw, path, filter)
  BY <1>2 DEF AreRounds
<1>5. R(F[0])
  <2>1. F[0] = FirstRound(L, ms, mw)
    BY <1>1, <1>4
  <2>2. F[0].L = L
    <3>1. FirstRound(L, ms, mw).L = L
      BY DEF FirstRound
    <3> QED BY <2>1, <3>1
  <2>3. RoundFollows(L, F[0], a, asset, side)
    BY <2>2, FollowsNot DEF RoundFollows
  <2> QED BY <2>1, <2>3, FirstRoundIs
<1>6. ASSUME NEW k \in Nat, k + 1 <= n, R(F[k]) PROVE R(F[k + 1])
  <2>1. F[k + 1] = crossBest(F[k], sheep, ms, wheat, mw, path, filter)
    <3>1. k + 1 \in 0..n /\ k + 1 # 0 /\ (k + 1) - 1 = k
      BY <1>1, <1>6
    <3> QED BY <3>1, <1>4
  <2> QED BY <2>1, <1>6, RoundKeeps, RoundStays
<1> HIDE DEF R
<1>7. Nat \subseteq N
  <2>1. 0 \in N
    BY <1>5
  <2>2. \A k \in Nat : k \in N => k + 1 \in N
    BY <1>1, <1>6
  <2> HIDE DEF N
  <2> QED BY <2>1, <2>2, Induction
<1>8. R(F[n])
  BY <1>1, <1>7
<1> QED BY <1>3, <1>8 DEF R

-----------------------------------------------------------------------------
(* Payments. *)

HopFollows(L, st, a, asset, side) == st.code = "ok" => Follows(L, st.L, a, asset, side, 0)

LEMMA HopStays ==
    ASSUME NEW L, IsLedger(L), NEW a, NEW asset, NEW side \in Sides,
           NEW st, HopOf(L, st), HopFollows(L, st, a, asset, side), NEW curA, NEW src, NEW t,
           t = Hop(st, curA, src)
    PROVE  HopFollows(L, t, a, asset, side)
<1> DEFINE r == convertWithOffers(st.L, curA, INT64_MAX, st.asset, st.amount, TRUE, HopFilter(st, src))
           code == HopCode(r, st.amount)
<1>1. CASE t = [st EXCEPT !.code = "no issuer"]
  <2>1. t.code # "ok"
    BY <1>1 DEF HopOf
  <2> QED BY <2>1 DEF HopFollows
<1>2. CASE /\ st.code = "ok"
           /\ t = [code |-> code, L |-> r.L, asset |-> curA, amount |-> r.sheep]
  <2>1. t.code = code /\ t.L = r.L
    <3> HIDE DEF code, r
    <3> QED BY <1>2
  <2>2. IsLedger(st.L) /\ Fine(st.L) /\ st.amount \in Nat
    BY <1>2 DEF HopOf
  <2>3. INT64_MAX \in Nat /\ TRUE \in BOOLEAN
    BY Int64Assumption
  <2>4. RoundOf(st.L, r, curA, st.asset, st.amount, INT64_MAX)
    BY <2>2, <2>3, Convert
  <2>5. RoundFollows(st.L, r, a, asset, side)
    BY <2>2, <2>3, ConvertFollows
  <2>6. ASSUME t.code = "ok" PROVE Follows(L, t.L, a, asset, side, 0)
    <3>1. r.result = "ok"
      BY <2>1, <2>6, HopCodeOk
    <3> HIDE DEF r, code
    <3>2. Fine(r.L)
      BY <2>4, <3>1 DEF RoundOf
    <3>3. Follows(st.L, r.L, a, asset, side, 0) /\ Follows(L, st.L, a, asset, side, 0)
      BY <1>2, <2>5, <3>2 DEF RoundFollows, HopFollows
    <3> QED BY <2>1, <3>3, FollowsStill
  <2> QED BY <2>6 DEF HopFollows
<1>3. CASE t = st
  BY <1>3
<1>4. HopTo(st, t, curA, r)
  BY HopIs
<1> HIDE DEF r
<1> QED BY <1>1, <1>2, <1>3, <1>4, Zenon DEF HopTo

LEMMA HopsStay ==
    ASSUME NEW L, IsLedger(L), NEW a, NEW asset, NEW side \in Sides,
           NEW start, HopOf(L, start), HopFollows(L, start, a, asset, side),
           NEW path, Len(path) \in Nat, NEW src
    PROVE  HopFollows(L, Hops(start, path, src), a, asset, side)
<1> DEFINE n == Len(path)
           F == CHOOSE F : AreHops(F, n, start, path, src)
           R(st) == HopOf(L, st) /\ HopFollows(L, st, a, asset, side)
           N == {k \in Nat : k <= n => R(F[k])}
<1>1. AreHops(F, n, start, path, src)
  BY HopsExist, Zenon
<1>2. Hops(start, path, src) = F[n]
  BY HopsAre
<1> HIDE DEF F
<1>3. \A k \in 0..n : F[k] = IF k = 0 THEN start ELSE Hop(F[k - 1], path[n + 1 - k], src)
  BY <1>1 DEF AreHops
<1>4. F[0] = start
  BY <1>3
<1>5. ASSUME NEW k \in Nat, k + 1 <= n, R(F[k]) PROVE R(F[k + 1])
  <2>1. F[k + 1] = Hop(F[k], path[n + 1 - (k + 1)], src)
    <3>1. k + 1 \in 0..n /\ k + 1 # 0 /\ (k + 1) - 1 = k
      BY <1>5
    <3> QED BY <3>1, <1>3
  <2> HIDE DEF n
  <2> QED BY <2>1, <1>5, HopKeeps, HopStays
<1>6. R(F[0])
  BY <1>4
<1> HIDE DEF R
<1>7. Nat \subseteq N
  <2>1. 0 \in N
    BY <1>6
  <2>2. \A k \in Nat : k \in N => k + 1 \in N
    BY <1>5
  <2> HIDE DEF N
  <2> QED BY <2>1, <2>2, Induction
<1>8. R(F[n])
  BY <1>7
<1> QED BY <1>2, <1>8 DEF R

LEMMA DebitIs ==
    ASSUME NEW end, NEW op, NEW bypass, NEW r, r = Debit(end, op, bypass), r.code = "ok"
    PROVE  end.code = "ok" /\ r.L = addBalance(end.L, op.src, end.asset, -end.amount).L
BY DEF Debit, Fail, Done

LEMMA PathPaymentFollows ==
    ASSUME NEW L, IsLedger(L), Fine(L), NEW op, op.src \in DOMAIN L.acc,
           op.destAmount \in Nat, NEW S, op.sendAsset \in S, op.path \in Seq(S),
           NEW r, r = PathPayment(L, op), r.code = "ok", NEW a, NEW asset, NEW side \in Sides
    PROVE  Follows(L, r.L, a, asset, side, 0)
<1> DEFINE credited == addBalance(L, op.dest, op.destAsset, op.destAmount)
           start == Credited(L, op)
           path == <<op.sendAsset>> \o op.path
           end == Hops(start, path, op.src)
           debited == addBalance(end.L, op.src, end.asset, -end.amount)
<1>1. /\ op.destAsset = Native => op.dest \in DOMAIN L.acc
      /\ credited.ok
      /\ \E bypass : r = Debit(end, op, bypass)
  BY PathPaymentIs
<1>2. op.destAmount \in Int
  OBVIOUS
<1>3. Moved(L, credited.L, OfNative(op.destAsset, op.destAmount))
  <2>1. Moved(L, credited.L, IF credited.ok THEN OfNative(op.destAsset, op.destAmount) ELSE 0)
    BY <1>1, <1>2, AddBalance
  <2> QED BY <1>1, <2>1
<1>4. /\ start = [code |-> start.code, L |-> start.L, asset |-> start.asset, amount |-> start.amount]
      /\ start.L = credited.L /\ start.asset = op.destAsset /\ start.amount = op.destAmount
  BY DEF Credited
<1>5. IsLedger(credited.L) /\ Traded(L, credited.L, OfNative(op.destAsset, op.destAmount))
  BY <1>3, MovedIsTraded DEF Moved
<1>6. Fine(credited.L)
  BY AddBalanceFine
<1>7. Len(path) \in Nat
  BY PathLength
<1>8. Follows(L, credited.L, a, asset, side, 0)
  BY <1>1, <1>2, AddBalanceFollows
<1> HIDE DEF credited, start, path
<1>9. HopOf(L, start) /\ HopFollows(L, start, a, asset, side)
  BY <1>4, <1>5, <1>6, <1>8 DEF HopOf, HopFollows
<1>10. HopOf(L, end) /\ HopFollows(L, end, a, asset, side)
  BY <1>7, <1>9, HopsKeep, HopsStay
<1> HIDE DEF end
<1>11. end.code = "ok" /\ r.L = debited.L
  <2>1. PICK bypass : r = Debit(end, op, bypass)
    BY <1>1
  <2> QED BY <2>1, DebitIs
<1>12. /\ IsLedger(end.L) /\ end.amount \in Nat /\ -end.amount \in Int
       /\ op.src \in DOMAIN end.L.acc
  BY <1>10, <1>11 DEF HopOf, Traded
<1>13. Follows(end.L, debited.L, a, asset, side, 0)
  BY <1>12, AddBalanceFollows
<1>14. Follows(L, end.L, a, asset, side, 0)
  BY <1>10, <1>11 DEF HopFollows
<1> QED BY <1>11, <1>13, <1>14, FollowsStill

LEMMA PaymentFollows ==
    ASSUME NEW L, IsLedger(L), Fine(L), NEW op, op.src \in DOMAIN L.acc, op.amount \in Nat,
           NEW r, r = Payment(L, op), r.code = "ok", NEW a, NEW asset, NEW side \in Sides
    PROVE  Follows(L, r.L, a, asset, side, 0)
<1> DEFINE o == [src |-> op.src, dest |-> op.dest, path |-> <<>>,
                 sendAsset |-> op.asset, destAsset |-> op.asset,
                 sendMax |-> op.amount, destAmount |-> op.amount]
           p == PathPayment(L, o)
<1>1. r = Done(L) \/ r = p
  <2>1. \A M : Fail("internal error", M).code # "ok"
    BY DEF Fail
  <2> QED BY <2>1 DEF Payment
<1>2. CASE r = Done(L)
  <2>1. r.L = L
    BY <1>2 DEF Done
  <2> QED BY <2>1, FollowsNot
<1>3. CASE r = p
  <2>1. /\ o.src = op.src /\ o.destAmount = op.amount
        /\ o.sendAsset \in {op.asset} /\ o.path = <<>> /\ <<>> \in Seq({op.asset})
    OBVIOUS
  <2> HIDE DEF o
  <2> QED BY <1>3, <2>1, PathPaymentFollows
<1> QED BY <1>1, <1>2, <1>3

-----------------------------------------------------------------------------
(* Offers that are made, changed and taken back. *)

LEMMA SettleTradeFollows ==
    ASSUME NEW L, IsLedger(L), NEW o, IsOffer(o), o.seller \in DOMAIN L.acc, NEW limits,
           limits.maxSheepSend \in Nat, limits.maxWheatReceive \in Nat,
           NEW a, NEW asset, NEW side \in Sides,
           NEW r, RoundOf(L, r, o.selling, o.buying, limits.maxWheatReceive, limits.maxSheepSend),
           RoundFollows(L, r, a, asset, side),
           NEW t, t = settleTrade(o, limits, r), t.code = "ok"
    PROVE  Follows(L, t.L, a, asset, side, 0)
<1> DEFINE left == limits.maxSheepSend - r.sheep
           traded == Paid(o, r)
           rest == [o EXCEPT !.amount = left]
           kept == AdjustedAmount(traded, rest)
<1>1. Fine(r.L) /\ TradeLeaves(t, o, left, traded)
  BY SettleTradeIs
<1>2. /\ IsLedger(r.L) /\ r.wheat \in Nat /\ r.sheep \in Nat
      /\ Traded(L, r.L, Brought(o.selling, o.buying, r.sheep, r.wheat))
  BY <1>1 DEF RoundOf
<1>3. o.seller \in DOMAIN r.L.acc
  BY <1>2 DEF Traded
<1>4. Follows(L, r.L, a, asset, side, 0)
  BY <1>1 DEF RoundFollows
<1>5. IsLedger(traded) /\ Follows(r.L, traded, a, asset, side, 0)
  <2>1. CASE r.wheat = 0
    <3>1. traded = r.L
      BY <2>1 DEF Paid
    <3> HIDE DEF traded
    <3> QED BY <1>2, <3>1, FollowsNot
  <2>2. CASE r.wheat # 0
    <3> DEFINE w1 == "offer claimed over limit"
               w2 == "offer sold more than balance"
    <3>1. Named(w1) /\ Named(w2)
      BY DEF Named
    <3>2. traded = PaidBoth(r.L, o.seller, o.buying, o.selling, r.wheat, r.sheep, w1, w2)
      BY <2>2, Zenon DEF Paid
    <3> HIDE DEF traded, w1, w2
    <3>3. \E d \in Int : Moved(r.L, traded, d)
      BY <1>2, <1>3, <3>1, <3>2, PayBoth
    <3>4. Follows(r.L, traded, a, asset, side, 0)
      BY <1>2, <1>3, <3>1, <3>2, PaidBothFollows
    <3> QED BY <3>3, <3>4 DEF Moved
  <2> QED BY <2>1, <2>2
<1> HIDE DEF traded, left
<1>6. Follows(L, traded, a, asset, side, 0)
  BY <1>4, <1>5, FollowsStill
<1>7. t.L = traded \/ t.L = throw(traded, kept.err)
  BY <1>1, Zenon DEF TradeLeaves
<1> HIDE DEF kept
<1>8. Follows(traded, t.L, a, asset, side, 0)
  BY <1>5, <1>7, FollowsNot, ThrowFollows
<1> QED BY <1>6, <1>8, FollowsStill

LEMMA TradeOfferFollows ==
    ASSUME NEW L, IsLedger(L), Fine(L), NEW o, IsOffer(o), o.seller \in DOMAIN L.acc, NEW limits,
           limits.maxSheepSend \in Nat, limits.maxWheatReceive \in Nat,
           NEW a, NEW asset, NEW side \in Sides,
           NEW t, t = tradeOffer(L, o, limits), t.code = "ok"
    PROVE  Follows(L, t.L, a, asset, side, 0)
<1>1. \E filter : t = settleTrade(o, limits,
                          convertWithOffers(L, o.selling, limits.maxSheepSend, o.buying,
                                            limits.maxWheatReceive, FALSE, filter))
  BY Zenon DEF tradeOffer
<1>2. PICK filter : t = settleTrade(o, limits,
                            convertWithOffers(L, o.selling, limits.maxSheepSend, o.buying,
                                              limits.maxWheatReceive, FALSE, filter))
  BY <1>1
<1> DEFINE r == convertWithOffers(L, o.selling, limits.maxSheepSend, o.buying,
                                  limits.maxWheatReceive, FALSE, filter)
<1>3. RoundOf(L, r, o.selling, o.buying, limits.maxWheatReceive, limits.maxSheepSend)
  BY Convert
<1>4. RoundFollows(L, r, a, asset, side)
  BY ConvertFollows
<1> HIDE DEF r
<1>5. t = settleTrade(o, limits, r)
  BY <1>2 DEF r
<1> QED BY <1>3, <1>4, <1>5, SettleTradeFollows

\* An offer is put on the book and its liabilities are acquired.
LEMMA BookFollows ==
    ASSUME NEW L, IsLedger(L), NEW id \in Nat, id \notin DOMAIN L.offers, NEW o, IsOffer(o), NEW N,
           N = acquireLiabilities([L EXCEPT !.offers = With(L.offers, id, o)], o), Fine(N),
           NEW a, NEW asset, NEW side \in Sides
    PROVE  Follows(L, N, a, asset, side, 0)
<1> DEFINE f == With(L.offers, id, o)
           B == [L EXCEPT !.offers = f]
           s == Share(o, a, asset, side)
<1>1. AreOffers(f)
  BY WithOffer DEF IsLedger
<1>2. IsLedger(B) /\ B.offers = f /\ B.acc = L.acc /\ B.tl = L.tl
  BY <1>1, PutOffers
<1>3. N = acquireLiabilities(B, o)
  OBVIOUS
<1> HIDE DEF B
<1>4. Pledges(L, B, a, asset, side, s)
  BY <1>2, PledgesWith
<1>5. Follows(B, N, a, asset, side, s)
  BY <1>2, <1>3, AcquireFollows
<1>6. s \in Nat
  BY ShareType
<1> HIDE DEF s, f
<1>7. s \in Int /\ -s \in Int /\ 0 = -s + s
  BY <1>6
<1>8. Follows(L, B, a, asset, side, -s)
  BY <1>2, <1>4, <1>7, PledgesFollows
<1> QED BY <1>5, <1>7, <1>8, FollowsOn

\* An offer's liabilities are released and it is taken off the book.
LEMMA OffFollows ==
    ASSUME NEW L, IsLedger(L), NEW id \in DOMAIN L.offers, NEW B, B = Off(L, id), Fine(B),
           NEW a, NEW asset, NEW side \in Sides
    PROVE  Follows(L, B, a, asset, side, 0)
<1> DEFINE o == L.offers[id]
           R == releaseLiabilities(L, o)
           s == Share(o, a, asset, side)
           f == Without(R.offers, id)
<1>1. IsOffer(o)
  BY DEF IsLedger, AreOffers
<1>2. Moved(L, R, 0)
  BY <1>1, Release
<1>3. IsLedger(R) /\ R.offers = L.offers
  BY <1>2 DEF Moved
<1>4. B = [R EXCEPT !.offers = f]
  BY <1>3 DEF Off
<1>5. Fine(R) => Follows(L, R, a, asset, side, -s)
  BY <1>1, ReleaseFollows
<1>6. s \in Nat
  BY <1>1, ShareType
<1> HIDE DEF R
<1>7. AreOffers(f)
  BY <1>3, WithoutOffer DEF IsLedger
<1>8. /\ B.offers = f /\ B.acc = R.acc /\ B.tl = R.tl
      /\ Fine(B) <=> Fine(R)
  BY <1>3, <1>4, <1>7, PutOffers
<1>9. Pledges(R, B, a, asset, side, -Share(R.offers[id], a, asset, side))
  BY <1>3, <1>8, PledgesWithout
<1> HIDE DEF o, f
<1>10. Pledges(R, B, a, asset, side, -s)
  BY <1>3, <1>9 DEF o
<1> HIDE DEF s
<1>11. s \in Int /\ -s \in Int /\ 0 = -s + s /\ -(-s) = s
  BY <1>6
<1>12. Follows(R, B, a, asset, side, s)
  BY <1>3, <1>8, <1>10, <1>11, PledgesFollows
<1> QED BY <1>3, <1>5, <1>8, <1>11, <1>12, FollowsOn

LEMMA HandOutFollows ==
    ASSUME NEW L, IsLedger(L), NEW id \in Nat, NEW M, M = [L EXCEPT !.idPool = id],
           NEW a, NEW asset, NEW side
    PROVE  IsLedger(M) /\ M.offers = L.offers /\ Follows(L, M, a, asset, side, 0)
<1>1. IsLedger(M) /\ M.offers = L.offers /\ M.acc = L.acc
  BY HandOut, Zenon
<1>2. M.tl = L.tl
  BY FieldIdPool
<1>3. Shifts(L, M, a, asset, side, 0)
  BY <1>1, <1>2, ShiftsSame
<1>4. Follows(L, M, a, asset, side, 0)
  <2>1. 0 \in Int
    OBVIOUS
  <2> QED BY <1>1, <1>3, <2>1, ShiftsFollows, Zenon
<1> QED BY <1>1, <1>4

LEMMA LeaveNewFollows ==
    ASSUME NEW L, IsLedger(L), NEW o, IsOffer(o), NEW id \in Nat, id \notin DOMAIN L.offers,
           NEW b, NEW entry, entry = addNumEntries(L, b, 1),
           NEW B, B = [entry.L EXCEPT !.idPool = id],
           NEW N, N = acquireLiabilities([B EXCEPT !.offers = With(L.offers, id, o)], o), Fine(N),
           NEW a, NEW asset, NEW side \in Sides
    PROVE  Follows(L, N, a, asset, side, 0)
<1> DEFINE E == entry.L
<1>1. 1 \in Int
  OBVIOUS
<1>2. IsLedger(E)
  BY <1>1, AddNumEntries
<1>3. Follows(L, E, a, asset, side, 0) /\ E.offers = L.offers
  BY <1>1, AddNumEntriesFollows, AddNumEntriesShifts
<1>4. B = [E EXCEPT !.idPool = id]
  OBVIOUS
<1> HIDE DEF E
<1>5. IsLedger(B) /\ B.offers = E.offers /\ Follows(E, B, a, asset, side, 0)
  BY <1>2, <1>4, HandOutFollows, Zenon
<1>9. N = acquireLiabilities([B EXCEPT !.offers = With(B.offers, id, o)], o)
  BY <1>3, <1>5
<1>10. Follows(B, N, a, asset, side, 0)
  BY <1>3, <1>5, <1>9, BookFollows
<1>11. Follows(L, B, a, asset, side, 0)
  BY <1>3, <1>5, FollowsStill
<1> QED BY <1>10, <1>11, FollowsStill

LEMMA LeaveOfferFollows ==
    ASSUME NEW K, IsLedger(K), NEW trade, NEW o, IsOffer(o), NEW id \in Nat,
           NEW creating \in BOOLEAN, NEW a, NEW asset, NEW side \in Sides,
           trade.code = "ok" => /\ IsLedger(trade.L) /\ trade.amount \in Nat
                                /\ Fine(trade.L) => id \notin DOMAIN trade.L.offers
                                /\ Follows(K, trade.L, a, asset, side, 0),
           NEW r, r = leaveOffer(trade, o, id, creating), r.code = "ok", Fine(r.L)
    PROVE  Follows(K, r.L, a, asset, side, 0)
<1> DEFINE L == trade.L
           rest == [o EXCEPT !.amount = trade.amount]
           entry == addNumEntries(L, o.seller, 1)
           B == [entry.L EXCEPT !.idPool = id]
<1>1. trade.code = "ok" /\ LeaveOutcome(r, trade, o, id, creating)
  BY LeaveOfferIs
<1>2. IsLedger(L) /\ (Fine(L) => id \notin DOMAIN L.offers) /\ Follows(K, L, a, asset, side, 0)
  BY <1>1
<1>3. IsOffer(rest)
  BY <1>1, OfferAmount
<1>4. \/ r.L = L
      \/ r.L = addNumEntries(L, o.seller, -1).L
      \/ r.L = acquireLiabilities([L EXCEPT !.offers = With(L.offers, id, rest)], rest)
      \/ r.L = acquireLiabilities([B EXCEPT !.offers = With(L.offers, id, rest)], rest)
  BY <1>1, Zenon DEF LeaveOutcome
<1> HIDE DEF L, rest
<1>5. CASE r.L = L
  BY <1>2, <1>5
<1>6. CASE r.L = addNumEntries(L, o.seller, -1).L
  <2>1. -1 \in Int
    OBVIOUS
  <2>2. Follows(L, r.L, a, asset, side, 0)
    BY <1>2, <1>6, <2>1, AddNumEntriesFollows
  <2> QED BY <1>2, <2>2, FollowsStill
<1>7. CASE r.L = acquireLiabilities([L EXCEPT !.offers = With(L.offers, id, rest)], rest)
  <2>1. Fine(L)
    BY <1>2, <1>3, <1>7, Book
  <2>2. Follows(L, r.L, a, asset, side, 0)
    BY <1>2, <1>3, <1>7, <2>1, BookFollows
  <2> QED BY <1>2, <2>2, FollowsStill
<1>8. CASE r.L = acquireLiabilities([B EXCEPT !.offers = With(L.offers, id, rest)], rest)
  <2>1. 1 \in Int
    OBVIOUS
  <2>2. IsLedger(entry.L) /\ (Fine(entry.L) => Fine(L)) /\ entry.L.offers = L.offers
    BY <1>2, <2>1, AddNumEntries, AddNumEntriesShifts
  <2> HIDE DEF entry
  <2>3. IsLedger(B) /\ (Fine(B) <=> Fine(entry.L)) /\ B.offers = entry.L.offers
    BY <2>2, HandOut
  <2>4. r.L = acquireLiabilities([B EXCEPT !.offers = With(B.offers, id, rest)], rest)
    BY <1>8, <2>2, <2>3
  <2>5. Fine(L)
    BY <1>3, <2>2, <2>3, <2>4, Book
  <2>6. entry = addNumEntries(L, o.seller, 1) /\ B = [entry.L EXCEPT !.idPool = id]
    BY DEF entry
  <2> HIDE DEF B
  <2>7. Follows(L, r.L, a, asset, side, 0)
    BY <1>2, <1>3, <1>8, <2>5, <2>6, LeaveNewFollows
  <2> QED BY <1>2, <2>7, FollowsStill
<1> HIDE DEF entry, B
<1> QED BY <1>4, <1>5, <1>6, <1>7, <1>8, Zenon

LEMMA PlaceOfferFollows ==
    ASSUME NEW K, IsLedger(K), NEW L, IsLedger(L), Fine(L), NEW o, IsOffer(o),
           o.seller \in DOMAIN L.acc, NEW id \in Nat, id \notin DOMAIN L.offers,
           NEW creating \in BOOLEAN, NEW a, NEW asset, NEW side \in Sides,
           Follows(K, L, a, asset, side, 0),
           NEW limits, limits = computeOfferExchangeParameters(L, o, creating),
           NEW r, r = placeOffer(L, o, id, creating, limits), r.code = "ok", Fine(r.L)
    PROVE  Follows(K, r.L, a, asset, side, 0)
<1> DEFINE whole == [code |-> "ok", amount |-> 0, L |-> L]
           t == tradeOffer(L, o, limits)
<1>1. r = leaveOffer(whole, o, id, creating) \/ r = leaveOffer(t, o, id, creating)
  <2>1. ASSUME limits.code # "ok" PROVE r # Fail(limits.code, L)
    BY <2>1 DEF Fail
  <2> QED BY <2>1, Zenon DEF placeOffer
<1>2. CASE r = leaveOffer(whole, o, id, creating)
  <2>1. whole.L = L /\ whole.amount \in Nat
    OBVIOUS
  <2> HIDE DEF whole
  <2> QED BY <1>2, <2>1, LeaveOfferFollows
<1>3. CASE r = leaveOffer(t, o, id, creating)
  <2>1. limits.maxSheepSend \in Nat /\ limits.maxWheatReceive \in Nat
    BY Limits
  <2>2. ASSUME t.code = "ok"
        PROVE  /\ t.amount \in Nat /\ IsLedger(t.L)
               /\ Fine(t.L) => Traded(L, t.L, 0)
               /\ Follows(L, t.L, a, asset, side, 0)
    BY <2>1, <2>2, TradeOffer, TradeOfferFollows
  <2> HIDE DEF t
  <2>3. ASSUME t.code = "ok"
        PROVE  /\ IsLedger(t.L) /\ t.amount \in Nat
               /\ Fine(t.L) => id \notin DOMAIN t.L.offers
               /\ Follows(K, t.L, a, asset, side, 0)
    BY <2>2, <2>3, FollowsStill DEF Traded
  <2> QED BY <1>3, <2>3, LeaveOfferFollows
<1> HIDE DEF whole, t
<1> QED BY <1>1, <1>2, <1>3

LEMMA ManageOfferFollows ==
    ASSUME NEW L, Sound(L), Fine(L), NEW op, op.src \in DOMAIN L.acc,
           ManageOffer_doCheckValid(op),
           NEW r, r = ManageOffer(L, op), r.code = "ok", Fine(r.L),
           NEW a, NEW asset, NEW side \in Sides
    PROVE  Follows(L, r.L, a, asset, side, 0)
<1> DEFINE creating == op.offerID = 0
           id == IF creating THEN L.idPool + 1 ELSE op.offerID
           base == IF creating THEN L ELSE Off(L, id)
           o == OfferOf(L, op, creating)
<1>1. /\ creating \/ (id \in DOMAIN L.offers /\ L.offers[id].seller = op.src)
      /\ Fine(base)
      /\ r = placeOffer(base, o, id, creating, computeOfferExchangeParameters(base, o, creating))
  BY ManageOfferIs
<1>2. IsLedger(L) /\ Numbered(L) /\ L.idPool \in Nat /\ AreOffers(L.offers)
  BY DEF Sound, IsLedger, IsHeader
<1>3. /\ op.amount \in Nat /\ op.price \in Price /\ op.passive \in BOOLEAN /\ op.offerID \in Nat
  BY Int64Assumption DEF ManageOffer_doCheckValid, Amount
<1>4. IsOffer(o) /\ o.seller = op.src
  <2>1. IF creating THEN op.passive \in BOOLEAN ELSE L.offers[op.offerID].passive \in BOOLEAN
    BY <1>1, <1>2, <1>3 DEF AreOffers, IsOffer
  <2> DEFINE p == IF creating THEN op.passive ELSE L.offers[op.offerID].passive
  <2>2. p \in BOOLEAN
    BY <2>1
  <2>3. o = [seller |-> op.src, selling |-> op.selling, buying |-> op.buying,
             amount |-> op.amount, price |-> op.price, passive |-> p]
    BY DEF OfferOf
  <2> HIDE DEF o, p
  <2> QED BY <1>3, <2>2, <2>3 DEF IsOffer
<1>5. id \in Nat /\ creating \in BOOLEAN
  BY <1>2, <1>3
<1>6. /\ IsLedger(base) /\ id \notin DOMAIN base.offers
      /\ op.src \in DOMAIN base.acc /\ Follows(L, base, a, asset, side, 0)
  <2>1. CASE creating
    <3>1. id = L.idPool + 1 /\ base = L
      BY <2>1
    <3>2. id \notin DOMAIN L.offers
      BY <1>2, <3>1 DEF Numbered
    <3> HIDE DEF base, id
    <3> QED BY <1>2, <3>1, <3>2, FollowsNot
  <2>2. CASE ~creating
    <3>1. id \in DOMAIN L.offers /\ base = Off(L, id)
      BY <1>1, <2>2
    <3> HIDE DEF base, id
    <3>2. /\ IsLedger(base) /\ Settled(L, base, L.offers[id].seller, 1)
          /\ id \notin DOMAIN base.offers
      BY <1>2, <3>1, OffIs
    <3>3. Follows(L, base, a, asset, side, 0)
      BY <1>1, <1>2, <3>1, OffFollows
    <3> QED BY <3>2, <3>3 DEF Settled
  <2> QED BY <2>1, <2>2
<1> HIDE DEF base, id, o, creating
<1> QED BY <1>1, <1>2, <1>4, <1>5, <1>6, PlaceOfferFollows

-----------------------------------------------------------------------------
(* Operations that have nothing to do with liabilities. *)

\* M has the lines and offers of L, and accounts of the same liabilities.
Alike(L, M) ==
    /\ M.tl = L.tl /\ M.offers = L.offers /\ DOMAIN M.acc = DOMAIN L.acc
    /\ \A b \in DOMAIN L.acc :
          M.acc[b].buying = L.acc[b].buying /\ M.acc[b].selling = L.acc[b].selling

LEMMA AlikeFollows ==
    ASSUME NEW L, IsLedger(L), NEW M, Alike(L, M), NEW a, NEW asset, NEW side
    PROVE  Follows(L, M, a, asset, side, 0)
<1>1. Liable(M, a, asset, side) = Liable(L, a, asset, side)
  BY DEF Alike, Liable, LiabilityOf, Exists, Holding
<1>2. Shifts(L, M, a, asset, side, 0) /\ M.offers = L.offers
  BY <1>1, LiableType DEF Shifts, Frozen, Alike
<1> QED BY <1>2, ShiftsFollows

LEMMA OwnerAlike ==
    ASSUME NEW L, IsLedger(L), NEW b \in DOMAIN L.acc, NEW k, k.buying = L.acc[b].buying,
           k.selling = L.acc[b].selling, NEW M, M = [L EXCEPT !.acc[b] = k]
    PROVE  Alike(L, M)
<1> DEFINE f == [L.acc EXCEPT ![b] = k]
<1>1. LedgerFields(L)
  BY DEF IsLedger
<1>2. M = [L EXCEPT !.acc = f]
  BY <1>1, FieldAccAt
<1>3. M.acc = f /\ M.tl = L.tl /\ M.offers = L.offers
  BY <1>1, <1>2, FieldAcc
<1> QED BY <1>3 DEF Alike

SignersSet(L, M, b, x) == M = [L EXCEPT !.acc[b].signers = x]

LEMMA OptionAlike ==
    ASSUME NEW L, IsLedger(L), NEW b \in DOMAIN L.acc, NEW x, NEW M,
           OptionSet(L, M, b, x) \/ SignersSet(L, M, b, x)
    PROVE  Alike(L, M)
<1> DEFINE g == L.acc[b]
<1>1. \E k : /\ M = [L EXCEPT !.acc[b] = k]
             /\ \/ k = [g EXCEPT !.inflationDest = x]
                \/ k = [g EXCEPT !.flags = x]
                \/ k = [g EXCEPT !.seqNum = x]
                \/ k = [g EXCEPT !.signers = x]
  BY FieldOptions DEF IsLedger, OptionSet, SignersSet
<1>2. PICK k : /\ M = [L EXCEPT !.acc[b] = k]
               /\ \/ k = [g EXCEPT !.inflationDest = x]
                  \/ k = [g EXCEPT !.flags = x]
                  \/ k = [g EXCEPT !.seqNum = x]
                  \/ k = [g EXCEPT !.signers = x]
  BY <1>1
<1>3. IsAccount(g)
  BY DEF IsLedger, AreAccounts
<1>4. k.buying = g.buying /\ k.selling = g.selling
  BY <1>2, <1>3 DEF IsAccount
<1> QED BY <1>2, <1>4, OwnerAlike

LEMMA BumpSequenceFollows ==
    ASSUME NEW L, IsLedger(L), NEW op, op.src \in DOMAIN L.acc, op.bumpTo \in Nat,
           NEW r, r = BumpSequence(L, op), NEW a, NEW asset, NEW side
    PROVE  Follows(L, r.L, a, asset, side, 0)
<1> DEFINE b == op.src
           old == L.acc[b].seqNum
           to == op.bumpTo
           x == Max({old, to})
<1>1. old \in Nat /\ to \in Nat
  BY UncountedType
<1>2. x \in Nat /\ x >= old
  <2> HIDE DEF old, to
  <2> QED BY <1>1, MaxOfTwo
<1>3. r.L = [L EXCEPT !.acc[b].seqNum = x]
  BY DEF BumpSequence, Done
<1>4. OptionSet(L, r.L, b, x)
  BY <1>2, <1>3, Zenon DEF OptionSet
<1> HIDE DEF x
<1>5. Alike(L, r.L)
  BY <1>4, OptionAlike
<1> QED BY <1>5, AlikeFollows

LEMMA FlaggedFollows ==
    ASSUME NEW L, IsLedger(L), NEW op, op.src \in DOMAIN L.acc, NEW F, F = Flagged(L, op),
           NEW a, NEW asset, NEW side
    PROVE  Follows(L, F, a, asset, side, 0)
<1> DEFINE b == op.src
           dest == IF op.inflationDest = None THEN L
                   ELSE [L EXCEPT !.acc[b].inflationDest = op.inflationDest]
<1>1. /\ IsLedger(dest) /\ DOMAIN dest.acc = DOMAIN L.acc
      /\ Follows(L, dest, a, asset, side, 0)
  <2>1. CASE op.inflationDest = None
    <3>1. dest = L
      BY <2>1
    <3> HIDE DEF dest
    <3> QED BY <3>1, FollowsNot
  <2>2. CASE op.inflationDest # None
    <3>1. dest = [L EXCEPT !.acc[b].inflationDest = op.inflationDest]
      BY <2>2
    <3> HIDE DEF dest
    <3>2. OptionSet(L, dest, b, op.inflationDest)
      BY <3>1, Zenon DEF OptionSet
    <3> QED BY <3>2, SetOption, OptionAlike, AlikeFollows
  <2> QED BY <2>1, <2>2
<1>2. F = [dest EXCEPT !.acc[b].flags = (dest.acc[b].flags \ op.clearFlags) \cup op.setFlags]
  BY DEF Flagged
<1> HIDE DEF dest
<1>3. Follows(dest, F, a, asset, side, 0)
  <2> DEFINE x == (dest.acc[b].flags \ op.clearFlags) \cup op.setFlags
  <2>1. OptionSet(dest, F, b, x)
    BY <1>2, Zenon DEF OptionSet
  <2> HIDE DEF x
  <2> QED BY <1>1, <2>1, OptionAlike, AlikeFollows
<1> QED BY <1>1, <1>3, FollowsStill

LEMMA SetOptionsFollows ==
    ASSUME NEW L, IsLedger(L), NEW op, op.src \in DOMAIN L.acc,
           NEW r, r = SetOptions(L, op), r.code = "ok", NEW a, NEW asset, NEW side
    PROVE  Follows(L, r.L, a, asset, side, 0)
<1> DEFINE b == op.src
           F == Flagged(L, op)
           count == IF op.weight > 0 THEN 1 ELSE -1
           E == addNumEntries(F, b, count).L
<1>1. r.L = F \/ \E x : SignersSet(E, r.L, b, x)
  <2>1. SetOptionsOutcome(L, op, r.L)
    BY SetOptionsIs
  <2> QED BY <2>1, Zenon DEF SetOptionsOutcome, SignersSet
<1>2. IsLedger(F) /\ DOMAIN F.acc = DOMAIN L.acc /\ Follows(L, F, a, asset, side, 0)
  BY FlaggedIs, FlaggedFollows
<1> HIDE DEF F
<1>3. count \in Int
  OBVIOUS
<1> HIDE DEF count
<1>4. IsLedger(E) /\ DOMAIN E.acc = DOMAIN F.acc /\ Follows(F, E, a, asset, side, 0)
  BY <1>2, <1>3, AddNumEntries, AddNumEntriesFollows
<1> HIDE DEF E
<1>5. CASE r.L = F
  BY <1>2, <1>5
<1>6. ASSUME NEW x, SignersSet(E, r.L, b, x)
      PROVE  Follows(L, r.L, a, asset, side, 0)
  <2>1. Alike(E, r.L)
    BY <1>2, <1>4, <1>6, OptionAlike
  <2>2. Follows(E, r.L, a, asset, side, 0)
    BY <1>4, <2>1, AlikeFollows
  <2>3. Follows(F, r.L, a, asset, side, 0)
    BY <1>2, <1>4, <2>2, FollowsStill
  <2> QED BY <1>2, <2>3, FollowsStill
<1> QED BY <1>1, <1>5, <1>6, Zenon

LEMMA ManageDataFollows ==
    ASSUME NEW L, IsLedger(L), NEW op, op.set \in BOOLEAN,
           NEW r, r = ManageData(L, op), r.code = "ok", NEW a, NEW asset, NEW side
    PROVE  Follows(L, r.L, a, asset, side, 0)
<1> DEFINE count == IF op.set THEN 1 ELSE -1
           E == addNumEntries(L, op.src, count).L
<1>1. r.L = L \/ \E x : r.L = [E EXCEPT !.data = x]
  <2>1. ManageDataOutcome(L, op, r)
    BY ManageDataIs
  <2> QED BY <2>1, Zenon DEF ManageDataOutcome
<1>2. count \in Int
  OBVIOUS
<1> HIDE DEF count
<1>3. IsLedger(E) /\ Follows(L, E, a, asset, side, 0)
  BY <1>2, AddNumEntries, AddNumEntriesFollows
<1> HIDE DEF E
<1>4. CASE r.L = L
  BY <1>4, FollowsNot
<1>5. ASSUME NEW x, r.L = [E EXCEPT !.data = x]
      PROVE  Follows(L, r.L, a, asset, side, 0)
  <2>1. r.L.acc = E.acc /\ r.L.tl = E.tl /\ r.L.offers = E.offers
    BY <1>3, <1>5, FieldData DEF IsLedger
  <2>2. Follows(E, r.L, a, asset, side, 0)
    BY <1>3, <2>1, AlikeFollows DEF Alike
  <2> QED BY <1>3, <2>2, FollowsStill
<1> QED BY <1>1, <1>4, <1>5, Zenon

LEMMA InflationFollows ==
    ASSUME NEW L, IsLedger(L), NEW op, NEW r, r = Inflation(L, op), r.code = "ok",
           NEW a, NEW asset, NEW side
    PROVE  Follows(L, r.L, a, asset, side, 0)
<1>1. \E added, sh : r.L = payOut(L, added, sh)
  BY Zenon DEF Inflation, Fail, Done
<1>2. PICK added, sh : r.L = payOut(L, added, sh)
  BY <1>1
<1>3. r.L.acc = PaidAccounts(L.acc, sh) /\ r.L.tl = L.tl /\ r.L.offers = L.offers
  BY <1>2, FieldsPaid DEF IsLedger
<1>4. \A b \in DOMAIN L.acc : IsAccount(L.acc[b])
  BY DEF IsLedger, AreAccounts
<1>5. ASSUME NEW b \in DOMAIN L.acc
      PROVE  r.L.acc[b].buying = L.acc[b].buying /\ r.L.acc[b].selling = L.acc[b].selling
  <2>1. r.L.acc[b] = IF b \in DOMAIN sh
                     THEN [L.acc[b] EXCEPT !.balance = L.acc[b].balance + sh[b]] ELSE L.acc[b]
    <3>1. r.L.acc = PaidAccounts(L.acc, sh)
      BY <1>3
    <3> QED BY <3>1 DEF PaidAccounts
  <2>2. IsAccount(L.acc[b])
    BY <1>4
  <2>3. CASE b \in DOMAIN sh
    <3>1. r.L.acc[b] = [L.acc[b] EXCEPT !.balance = L.acc[b].balance + sh[b]]
      BY <2>1, <2>3
    <3> QED BY <2>2, <3>1 DEF IsAccount
  <2>4. CASE b \notin DOMAIN sh
    BY <2>1, <2>4
  <2> QED BY <2>3, <2>4
<1>6. DOMAIN r.L.acc = DOMAIN L.acc
  BY <1>3 DEF PaidAccounts
<1> QED BY <1>3, <1>5, <1>6, AlikeFollows DEF Alike

-----------------------------------------------------------------------------
(* What every operation preserves. *)

\* The trust lines are pairs, and an issuer has none for its own asset.
NoOwnLines(L) ==
    \A l \in DOMAIN L.tl : l = <<l[1], l[2]>> /\ ~isIssuer(l[1], l[2])

CoveredAt(L, a, asset, side) == Slack(L, a, asset, side) >= 0

ExactAt(L, a, asset, side) ==
    /\ Slack(L, a, asset, side) = 0
    /\ Frozen(L, a, asset) => Liable(L, a, asset, side) = 0

\* Nothing is promised on a line that is not authorized.
ThawedAt(L, a, asset, side) ==
    Frozen(L, a, asset) => Slack(L, a, asset, side) = Liable(L, a, asset, side)

Secures(L, M, a, asset, side) ==
    /\ NoOwnLines(L) => NoOwnLines(M)
    /\ CoveredAt(L, a, asset, side) => CoveredAt(M, a, asset, side)
    /\ ExactAt(L, a, asset, side) => ExactAt(M, a, asset, side)
    /\ CoveredAt(L, a, asset, side) /\ ThawedAt(L, a, asset, side) => ThawedAt(M, a, asset, side)

LEMMA FollowsSecures ==
    ASSUME NEW L, IsLedger(L), NEW M, NEW a, NEW asset, NEW side,
           Follows(L, M, a, asset, side, 0)
    PROVE  Secures(L, M, a, asset, side)
<1>1. Slack(L, a, asset, side) \in Int
  BY SlackType
<1>2. Slack(M, a, asset, side) = Slack(L, a, asset, side)
  BY <1>1 DEF Follows
<1> QED BY <1>2 DEF Secures, NoOwnLines, CoveredAt, ExactAt, ThawedAt, Follows

LEMMA SecuresNot ==
    ASSUME NEW L, NEW a, NEW asset, NEW side
    PROVE  Secures(L, L, a, asset, side)
BY DEF Secures

LEMMA SecuresOn ==
    ASSUME NEW L, NEW M, NEW N, NEW a, NEW asset, NEW side,
           Secures(L, M, a, asset, side), Secures(M, N, a, asset, side)
    PROVE  Secures(L, N, a, asset, side)
BY DEF Secures

-----------------------------------------------------------------------------
(* Accounts. *)

LEMMA CreateAccountFollows ==
    ASSUME NEW L, IsLedger(L), NEW op, op.src \in DOMAIN L.acc, op.amount \in Nat,
           NEW r, r = CreateAccount(L, op), r.code = "ok", NEW a, NEW asset, NEW side
    PROVE  Follows(L, r.L, a, asset, side, 0)
<1> DEFINE b == op.dest
           P == addBalance(L, op.src, Native, -op.amount).L
           h == NewAccount(L, op)
           f == With(P.acc, b, h)
<1>1. b \notin DOMAIN L.acc /\ r.L = [P EXCEPT !.acc = f]
  BY CreateAccountIs
<1>2. -op.amount \in Int
  OBVIOUS
<1>3. \E d : Moved(L, P, d)
  BY <1>2, AddBalance
<1>4. Follows(L, P, a, asset, side, 0)
  BY <1>2, AddBalanceFollows
<1> HIDE DEF P
<1>5. IsLedger(P) /\ DOMAIN P.acc = DOMAIN L.acc
  BY <1>3 DEF Moved
<1>6. r.L.acc = f /\ r.L.tl = P.tl /\ r.L.offers = P.offers
  BY <1>1, <1>5, FieldAcc DEF IsLedger
<1>7. h.buying = 0 /\ h.selling = 0
  BY DEF NewAccount
<1> HIDE DEF h
<1>8. Liable(r.L, a, asset, side) = Liable(P, a, asset, side)
  <2>1. CASE asset = Native /\ a = b
    <3>1. Liable(P, a, asset, side) = 0
      BY <1>1, <1>5, <2>1 DEF Liable, Exists
    <3>2. Liable(r.L, a, asset, side) = 0
      BY <1>6, <1>7, <2>1 DEF Liable, Exists, Holding, LiabilityOf, With
    <3> QED BY <3>1, <3>2
  <2>2. CASE asset = Native /\ a # b
    BY <1>6, <2>2 DEF Liable, Exists, Holding, LiabilityOf, With
  <2>3. CASE asset # Native
    BY <1>6, <2>3 DEF Liable, Exists, Holding
  <2> QED BY <2>1, <2>2, <2>3
<1>9. Shifts(P, r.L, a, asset, side, 0)
  BY <1>5, <1>6, <1>8, LiableType DEF Shifts, Frozen
<1>10. Follows(P, r.L, a, asset, side, 0)
  BY <1>5, <1>6, <1>9, ShiftsFollows
<1> QED BY <1>4, <1>10, FollowsStill

\* One who owns no offers promises nothing.
LEMMA PledgedByNone ==
    ASSUME NEW L, IsLedger(L), NEW a, NEW asset, NEW side,
           \A i \in DOMAIN L.offers : Share(L.offers[i], a, asset, side) = 0
    PROVE  Pledged(L, a, asset, side) = 0
<1>1. IsFiniteSet(DOMAIN L.offers)
  BY SharesType
<1> DEFINE f == SharesOf(L, a, asset, side)
<1>2. \A i \in DOMAIN L.offers : f[i] = 0
  BY DEF SharesOf
<1> HIDE DEF f
<1>3. SumFunctionOnSet(f, DOMAIN L.offers) = 0
  BY <1>1, <1>2, SumOfZeros
<1> QED BY <1>3 DEF Pledged, f

LEMMA MergeSecures ==
    ASSUME NEW L, Sound(L), SeqPerLedger \in Nat, NEW op, op.src \in DOMAIN L.acc,
           Merge_doCheckValid(op), NEW r, r = Merge(L, op), r.code = "ok",
           NEW a, NEW asset, NEW side
    PROVE  Secures(L, r.L, a, asset, side)
<1> DEFINE b == op.src
           P == addBalance(L, op.dest, Native, L.acc[b].balance).L
           f == Without(P.acc, b)
           M == r.L
<1>1. op.dest \in DOMAIN L.acc /\ M = [P EXCEPT !.acc = f]
  BY MergeIs
<1>2. IsLedger(L) /\ L.acc[b].balance \in Int
  <2>1. IsLedger(L)
    BY DEF Sound
  <2>2. L.acc[b].balance \in Nat
    BY <2>1, UncountedType
  <2> QED BY <2>1, <2>2
<1>3. \E d : Moved(L, P, d)
  BY <1>1, <1>2, AddBalance
<1>4. Follows(L, P, a, asset, side, 0)
  BY <1>1, <1>2, AddBalanceFollows
<1> HIDE DEF P
<1>5. IsLedger(P) /\ DOMAIN P.acc = DOMAIN L.acc
  BY <1>3 DEF Moved
<1>6. M.acc = f /\ M.tl = P.tl /\ M.offers = P.offers
  BY <1>1, <1>5, FieldAcc DEF IsLedger
<1>7. DOMAIN f = DOMAIN P.acc \ {b} /\ \A c \in DOMAIN P.acc \ {b} : f[c] = P.acc[c]
  BY <1>5, WithoutAccount DEF IsLedger
<1>8. Sound(M)
  BY MergeKeeps
<1> HIDE DEF f
<1>9. Secures(P, M, a, asset, side)
  <2>1. CASE ~ (asset = Native /\ a = b)
    <3>1. Liable(M, a, asset, side) = Liable(P, a, asset, side)
      BY <1>6, <1>7, <2>1 DEF Liable, Exists, Holding
    <3>2. Shifts(P, M, a, asset, side, 0)
      BY <1>5, <1>6, <3>1, LiableType DEF Shifts, Frozen
    <3>3. Follows(P, M, a, asset, side, 0)
      BY <1>5, <1>6, <3>2, ShiftsFollows
    <3> QED BY <1>5, <3>3, FollowsSecures
  <2>2. CASE asset = Native /\ a = b
    <3>1. IsLedger(M) /\ Owners(M) \subseteq DOMAIN M.acc
      BY <1>8 DEF Sound, Counted
    <3>2. \A i \in DOMAIN M.offers : M.offers[i].seller # a
      BY <1>6, <1>7, <2>2, <3>1 DEF Owners
    <3>3. Pledged(M, a, asset, side) = 0
      BY <3>1, <3>2, PledgedByNone DEF Share
    <3>4. Liable(M, a, asset, side) = 0
      BY <1>6, <1>7, <2>2 DEF Liable, Exists
    <3>5. Slack(M, a, asset, side) = 0 /\ ~Frozen(M, a, asset)
      BY <2>2, <3>3, <3>4 DEF Slack, Frozen
    <3> QED BY <1>6, <3>5 DEF Secures, NoOwnLines, CoveredAt, ExactAt, ThawedAt
  <2> QED BY <2>1, <2>2
<1>10. Secures(L, P, a, asset, side)
  BY <1>2, <1>4, FollowsSecures
<1> QED BY <1>9, <1>10, SecuresOn

-----------------------------------------------------------------------------
(* Trust lines. *)

\* Lines change, and the liabilities stay.
LEMMA LinesSecure ==
    ASSUME NEW L, IsLedger(L), NEW M, M.offers = L.offers, NEW a, NEW asset, NEW side,
           NoOwnLines(L) => NoOwnLines(M),
           Liable(M, a, asset, side) = Liable(L, a, asset, side),
           Frozen(M, a, asset) => Frozen(L, a, asset) \/ Liable(M, a, asset, side) = 0
    PROVE  Secures(L, M, a, asset, side)
<1>1. Pledged(M, a, asset, side) = Pledged(L, a, asset, side)
  BY DEF Pledged, SharesOf
<1>2. Liable(L, a, asset, side) \in Nat /\ Pledged(L, a, asset, side) \in Nat
  BY LiableType, SharesType
<1>3. Slack(M, a, asset, side) = Slack(L, a, asset, side)
  BY <1>1 DEF Slack
<1>4. CoveredAt(L, a, asset, side) /\ ThawedAt(L, a, asset, side) => ThawedAt(M, a, asset, side)
  BY <1>2, <1>3 DEF CoveredAt, ThawedAt, Slack
<1> QED BY <1>3, <1>4 DEF Secures, CoveredAt, ExactAt

\* A line that is not below its limit of 0 has no liabilities.
LEMMA EmptyLine ==
    ASSUME NEW h, IsLine(h), ~ (0 < h.balance + h.buying), NEW side
    PROVE  LiabilityOf(h, side) = 0
<1>1. /\ h.balance \in Nat /\ h.buying \in Nat /\ h.selling \in Nat /\ h.selling <= h.balance
  BY LineFields
<1>2. h.buying = 0 /\ h.selling = 0
  BY <1>1
<1> QED BY <1>2 DEF LiabilityOf

LEMMA DropLineSecures ==
    ASSUME NEW L, IsLedger(L), NEW b, NEW other, NEW line, line = <<b, other>>, line \in DOMAIN L.tl,
           ~ (0 < L.tl[line].balance + L.tl[line].buying),
           NEW M, M = [L EXCEPT !.tl = Without(L.tl, line)], NEW a, NEW asset, NEW side
    PROVE  IsLedger(M) /\ Secures(L, M, a, asset, side)
<1> DEFINE f == Without(L.tl, line)
<1>1. AreLines(L.tl) /\ IsLine(L.tl[line])
  BY DEF IsLedger, AreLines
<1>2. AreLines(f) /\ DOMAIN f = DOMAIN L.tl \ {line}
  BY <1>1, WithoutLine
<1>3. \A l \in DOMAIN L.tl \ {line} : f[l] = L.tl[l]
  BY DEF Without, Restrict
<1>4. IsLedger(M) /\ M.tl = f /\ M.acc = L.acc /\ M.offers = L.offers
  BY <1>2, PutLines
<1> HIDE DEF f
<1>5. LiabilityOf(L.tl[line], side) = 0
  BY <1>1, EmptyLine
<1>6. Liable(M, a, asset, side) = Liable(L, a, asset, side)
  <2>1. CASE asset = Native
    BY <1>4, <2>1 DEF Liable, Exists, Holding
  <2>2. CASE asset # Native /\ <<a, asset>> = line
    BY <1>2, <1>4, <1>5, <2>2 DEF Liable, Exists, Holding
  <2>3. CASE asset # Native /\ <<a, asset>> # line
    BY <1>2, <1>3, <1>4, <2>3 DEF Liable, Exists, Holding
  <2> QED BY <2>1, <2>2, <2>3
<1>7. Frozen(M, a, asset) => Frozen(L, a, asset)
  <2>1. ASSUME <<a, asset>> \in DOMAIN f
        PROVE  <<a, asset>> \in DOMAIN L.tl /\ f[<<a, asset>>] = L.tl[<<a, asset>>]
    BY <1>2, <1>3, <2>1
  <2> QED BY <1>4, <2>1 DEF Frozen
<1>8. NoOwnLines(L) => NoOwnLines(M)
  BY <1>2, <1>4 DEF NoOwnLines
<1> QED BY <1>4, <1>6, <1>7, <1>8, LinesSecure

LEMMA AddLineSecures ==
    ASSUME NEW L, IsLedger(L), NEW b, NEW other, NEW line, line = <<b, other>>,
           line \notin DOMAIN L.tl, Issuer[other] # b, NEW h, h.buying = 0, h.selling = 0,
           NEW M, M = [L EXCEPT !.tl = With(L.tl, line, h)], NEW a, NEW asset, NEW side
    PROVE  Secures(L, M, a, asset, side)
<1> DEFINE f == With(L.tl, line, h)
<1>1. /\ DOMAIN f = DOMAIN L.tl \cup {line} /\ f[line] = h
      /\ \A l \in DOMAIN L.tl : f[l] = L.tl[l]
  BY DEF With
<1>2. M.tl = f /\ M.acc = L.acc /\ M.offers = L.offers
  BY FieldTl DEF IsLedger
<1> HIDE DEF f
<1>3. LiabilityOf(h, side) = 0
  BY DEF LiabilityOf
<1>4. asset # Native /\ <<a, asset>> = line => Liable(M, a, asset, side) = 0
  BY <1>1, <1>2, <1>3 DEF Liable, Exists, Holding
<1>5. Liable(M, a, asset, side) = Liable(L, a, asset, side)
  <2>1. CASE asset = Native
    BY <1>2, <2>1 DEF Liable, Exists, Holding
  <2>2. CASE asset # Native /\ <<a, asset>> = line
    BY <1>4, <2>2 DEF Liable, Exists
  <2>3. CASE asset # Native /\ <<a, asset>> # line
    BY <1>1, <1>2, <2>3 DEF Liable, Exists, Holding
  <2> QED BY <2>1, <2>2, <2>3
<1>6. Frozen(M, a, asset) => Frozen(L, a, asset) \/ Liable(M, a, asset, side) = 0
  <2>1. CASE <<a, asset>> = line
    BY <1>4, <2>1 DEF Frozen
  <2>2. CASE <<a, asset>> # line
    BY <1>1, <1>2, <2>2 DEF Frozen
  <2> QED BY <2>1, <2>2
<1>7. NoOwnLines(L) => NoOwnLines(M)
  <2>1. line = <<line[1], line[2]>> /\ ~isIssuer(line[1], line[2])
    BY DEF isIssuer
  <2> QED BY <1>1, <1>2, <2>1 DEF NoOwnLines
<1> QED BY <1>2, <1>5, <1>6, <1>7, LinesSecure

LineSet(L, M, line, k) == M = [L EXCEPT !.tl[line] = k]
LimitSet(L, M, line, x) == M = [L EXCEPT !.tl[line].limit = x]
AuthorizedSet(L, M, line, x) == M = [L EXCEPT !.tl[line].authorized = x]

\* Another limit, or a line that is authorized or not.
LEMMA LineAlike ==
    ASSUME NEW L, IsLedger(L), NEW line \in DOMAIN L.tl, NEW k, k.buying = L.tl[line].buying,
           k.selling = L.tl[line].selling, NEW M, LineSet(L, M, line, k),
           NEW a, NEW asset, NEW side
    PROVE  /\ M.offers = L.offers /\ DOMAIN M.tl = DOMAIN L.tl
           /\ M.tl[line] = k /\ \A l \in DOMAIN L.tl : l # line => M.tl[l] = L.tl[l]
           /\ Liable(M, a, asset, side) = Liable(L, a, asset, side)
<1> DEFINE f == [L.tl EXCEPT ![line] = k]
<1>1. LedgerFields(L)
  BY DEF IsLedger
<1>2. M = [L EXCEPT !.tl = f]
  BY <1>1, FieldTlAt DEF LineSet
<1>3. M.tl = f /\ M.acc = L.acc /\ M.offers = L.offers
  BY <1>1, <1>2, FieldTl
<1>4. Liable(M, a, asset, side) = Liable(L, a, asset, side)
  BY <1>3 DEF Liable, Exists, Holding, LiabilityOf
<1> QED BY <1>3, <1>4

LEMMA SetLimitSecures ==
    ASSUME NEW L, IsLedger(L), NEW line \in DOMAIN L.tl, NEW x,
           NEW M, LimitSet(L, M, line, x), NEW a, NEW asset, NEW side
    PROVE  Secures(L, M, a, asset, side)
<1> DEFINE h == L.tl[line]
           k == [h EXCEPT !.limit = x]
<1>1. LineSet(L, M, line, k)
  BY FieldLimit DEF IsLedger, LineSet, LimitSet
<1>2. IsLine(h)
  BY DEF IsLedger, AreLines
<1>3. k.buying = h.buying /\ k.selling = h.selling /\ k.authorized = h.authorized
  BY <1>2 DEF IsLine
<1> HIDE DEF k
<1>4. /\ M.offers = L.offers /\ DOMAIN M.tl = DOMAIN L.tl
      /\ M.tl[line] = k /\ \A l \in DOMAIN L.tl : l # line => M.tl[l] = L.tl[l]
      /\ Liable(M, a, asset, side) = Liable(L, a, asset, side)
  BY <1>1, <1>3, LineAlike
<1>5. Frozen(M, a, asset) => Frozen(L, a, asset)
  BY <1>3, <1>4 DEF Frozen
<1> QED BY <1>4, <1>5, LinesSecure DEF NoOwnLines

LEMMA ChangeTrustSecures ==
    ASSUME NEW L, IsLedger(L), NEW op, op.src \in DOMAIN L.acc,
           NEW r, r = ChangeTrust(L, op), r.code = "ok", NEW a, NEW asset, NEW side
    PROVE  Secures(L, r.L, a, asset, side)
<1> DEFINE b == op.src
           line == <<op.src, op.asset>>
           E == addNumEntries(L, b, 1).L
           W == [L EXCEPT !.tl = Without(L.tl, line)]
           D == addNumEntries(W, b, -1).L
           h == NewLine(L, op)
           low == op.limit < L.tl[line].balance + L.tl[line].buying
<1>1. \/ line \in DOMAIN L.tl /\ ~low /\ op.limit = 0 /\ r.L = D
      \/ line \in DOMAIN L.tl /\ r.L = [L EXCEPT !.tl[line].limit = op.limit]
      \/ /\ line \notin DOMAIN L.tl /\ Issuer[op.asset] # op.src /\ addNumEntries(L, b, 1).ok
         /\ r.L = [E EXCEPT !.tl = With(L.tl, line, h)]
  <2>1. ChangeTrustOutcome(L, op, r.L)
    BY ChangeTrustIs
  <2> QED BY <2>1, Zenon DEF ChangeTrustOutcome
<1>2. 1 \in Int /\ -1 \in Int
  OBVIOUS
<1>3. CASE line \in DOMAIN L.tl /\ ~low /\ op.limit = 0 /\ r.L = D
  <2>1. IsLedger(W) /\ Secures(L, W, a, asset, side)
    BY <1>3, DropLineSecures
  <2> HIDE DEF W
  <2>2. Follows(W, D, a, asset, side, 0)
    BY <1>2, <2>1, AddNumEntriesFollows
  <2>3. Secures(W, D, a, asset, side)
    BY <2>1, <2>2, FollowsSecures
  <2> QED BY <1>3, <2>1, <2>3, SecuresOn
<1>4. CASE line \in DOMAIN L.tl /\ r.L = [L EXCEPT !.tl[line].limit = op.limit]
  <2>1. line \in DOMAIN L.tl /\ LimitSet(L, r.L, line, op.limit)
    BY <1>4 DEF LimitSet
  <2> HIDE DEF line
  <2> QED BY <2>1, SetLimitSecures
<1>5. CASE /\ line \notin DOMAIN L.tl /\ Issuer[op.asset] # op.src /\ addNumEntries(L, b, 1).ok
           /\ r.L = [E EXCEPT !.tl = With(L.tl, line, h)]
  <2>1. IsLedger(E) /\ E.tl = L.tl
    BY <1>5, CountUp
  <2>2. Follows(L, E, a, asset, side, 0)
    BY <1>2, AddNumEntriesFollows
  <2>3. h.buying = 0 /\ h.selling = 0
    BY DEF NewLine
  <2> HIDE DEF E, h
  <2>4. Secures(E, r.L, a, asset, side)
    BY <1>5, <2>1, <2>3, AddLineSecures
  <2>5. Secures(L, E, a, asset, side)
    BY <2>2, FollowsSecures
  <2> QED BY <2>4, <2>5, SecuresOn
<1> HIDE DEF line, E, W, D, h, low
<1> QED BY <1>1, <1>3, <1>4, <1>5, Zenon
=============================================================================
