---------------------------- MODULE OfferExchange ----------------------------
(***************************************************************************)
(* How two offers trade since protocol 10: the amounts that change hands   *)
(* when an offer that sells wheat for sheep is crossed, with every         *)
(* rounding, and the amount of an offer that can still be honoured.        *)
(*                                                                         *)
(* A result carries "err", the runtime_error that the code throws, or "".  *)
(***************************************************************************)
EXTENDS Integers, FiniteSetsExt

CONSTANT INT64_MAX    \* scaled down; the products are computed exactly, as in uint128_t

ASSUME Int64Assumption == INT64_MAX \in Nat \ {0}

(* The price of an offer, as checked by ManageOfferOpFrame::doCheckValid. *)
Price == [n : Nat \ {0}, d : Nat \ {0}]

divDown(a, b) == a \div b
divUp(a, b) == (a + b - 1) \div b

calculateOfferValue(priceN, priceD, maxSend, maxReceive) ==
    Min({maxSend * priceN, maxReceive * priceD})

exchangeV10WithoutPriceErrorThresholds(price, maxWheatSend, maxWheatReceive, maxSheepSend, maxSheepReceive, isPathPayment) ==
    LET wheatValue == calculateOfferValue(price.n, price.d, maxWheatSend, maxSheepReceive)
        sheepValue == calculateOfferValue(price.d, price.n, maxSheepSend, maxWheatReceive)
        wheatStays == wheatValue > sheepValue
        value == IF wheatStays THEN sheepValue ELSE wheatValue
        byWheat == price.n > price.d \/ (wheatStays /\ isPathPayment)
        wheat == IF byWheat THEN divDown(value, price.n)
                 ELSE IF wheatStays THEN divDown(divDown(value, price.d) * price.d, price.n)
                 ELSE divUp(divDown(value, price.d) * price.d, price.n)
        sheep == IF ~byWheat THEN divDown(value, price.d)
                 ELSE IF wheatStays THEN divUp(wheat * price.n, price.d)
                 ELSE divDown(wheat * price.n, price.d)
    IN  [numWheatReceived |-> wheat, numSheepSend |-> sheep, wheatStays |-> wheatStays,
         err |-> IF wheat > Min({maxWheatReceive, maxWheatSend})
                 THEN "wheatReceive out of bounds"
                 ELSE IF sheep > Min({maxSheepReceive, maxSheepSend})
                 THEN "sheepSend out of bounds" ELSE ""]

checkPriceErrorBound(price, wheatReceive, sheepSend, canFavorWheat) ==
    LET lhs == 100 * price.n * wheatReceive
        rhs == 100 * price.d * sheepSend
    IN  \/ canFavorWheat /\ rhs > lhs
        \/ (IF lhs > rhs THEN lhs - rhs ELSE rhs - lhs) <= price.n * wheatReceive

applyPriceErrorThresholds(price, res, isPathPayment) ==
    LET wheat == res.numWheatReceived
        sheep == res.numSheepSend
        bound == checkPriceErrorBound(price, wheat, sheep, isPathPayment)
        nothing == [res EXCEPT !.numWheatReceived = 0, !.numSheepSend = 0]
    IN  IF res.err # "" THEN res
        ELSE IF wheat = 0 \/ sheep = 0 THEN nothing
        ELSE IF res.wheatStays /\ sheep * price.d < wheat * price.n
        THEN [res EXCEPT !.err = "favored sheep when wheat stays"]
        ELSE IF ~res.wheatStays /\ sheep * price.d > wheat * price.n
        THEN [res EXCEPT !.err = "favored wheat when sheep stays"]
        ELSE IF bound THEN res
        ELSE IF isPathPayment THEN [res EXCEPT !.err = "exceeded price error bound"]
        ELSE nothing

exchangeV10(price, maxWheatSend, maxWheatReceive, maxSheepSend, maxSheepReceive, isPathPayment) ==
    applyPriceErrorThresholds(price,
        exchangeV10WithoutPriceErrorThresholds(price, maxWheatSend, maxWheatReceive,
            maxSheepSend, maxSheepReceive, isPathPayment),
        isPathPayment)

(* What is left of an offer that may send and receive so much: a buyer with *)
(* no limits crosses it.                                                    *)
adjustOffer(price, maxWheatSend, maxSheepReceive) ==
    exchangeV10(price, maxWheatSend, INT64_MAX, INT64_MAX, maxSheepReceive, FALSE)

(* The amounts that an offer promises to buy and to sell. *)
OfferLiabilities(price, amount) ==
    exchangeV10WithoutPriceErrorThresholds(price, amount, INT64_MAX, INT64_MAX, INT64_MAX, FALSE)

(* The order of prices. isBetterOffer compares quotients of doubles, which  *)
(* is this order for prices as small as a model's.                          *)
Above(p, q) == p.n * q.d > q.n * p.d
Same(p, q) == p.n * q.d = q.n * p.d
=============================================================================
