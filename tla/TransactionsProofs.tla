------------------------- MODULE TransactionsProofs -------------------------
(***************************************************************************)
(* Lumens are conserved, sub-entries are counted and sequence numbers      *)
(* never rewind, whatever the transactions, the accounts, the offers and   *)
(* the upgrades: each operation keeps a ledger Sound (OperationsProofs),   *)
(* and so do the operations of a transaction one after the other, fees and *)
(* sequence numbers, and what an upgrade of the reserve does to offers.    *)
(* Then the offers on the book: liabilities cover what they promise, and   *)
(* each can be honoured in full.                                           *)
(***************************************************************************)
EXTENDS Transactions, OperationsProofs

-----------------------------------------------------------------------------
(* Offers and lines that are taken one after the other. *)

\* The element of s that is taken last, and the ledger after it is.
LastOf(mode, s) == IF mode = "realign" THEN AnyOf(s) ELSE Max(s)

Taking(mode, K, x) ==
    IF mode = "clear" THEN clearOffer(K, x)
    ELSE IF mode = "erase" THEN eraseOffer(K, x) ELSE realign(K, x[1], x[2])

\* F has the ledger after every subset of S.
IsChain(F, mode, L, S) ==
    F = [s \in SUBSET S |->
            IF s = {} THEN L ELSE Taking(mode, F[s \ {LastOf(mode, s)}], LastOf(mode, s))]

LEMMA ChainExists ==
    ASSUME NEW mode, NEW L, NEW S, IsFiniteSet(S),
           \A s \in SUBSET S : s # {} => LastOf(mode, s) \in s
    PROVE  \E F : IsChain(F, mode, L, S)
<1> DEFINE Step(F, s) ==
               IF s = {} THEN L ELSE Taking(mode, F[s \ {LastOf(mode, s)}], LastOf(mode, s))
           P(n) == \E F : /\ F = [s \in SUBSET S |-> F[s]]
                          /\ \A s \in SUBSET S : Cardinality(s) <= n => F[s] = Step(F, s)
           N == {n \in Nat : P(n)}
<1>1. \A s \in SUBSET S : IsFiniteSet(s) /\ Cardinality(s) \in Nat /\ Cardinality(s) <= Cardinality(S)
  BY FS_Subset, FS_CardinalityType
<1>2. \A s \in SUBSET S : s # {} => Cardinality(s \ {LastOf(mode, s)}) = Cardinality(s) - 1
  BY <1>1, FS_RemoveElement
<1>3. \A s \in SUBSET S : Cardinality(s) <= 0 => s = {}
  BY <1>1, FS_EmptySet
<1>4. P(0)
  <2> DEFINE F == [s \in SUBSET S |-> L]
  <2>1. \A s \in SUBSET S : Cardinality(s) <= 0 => F[s] = Step(F, s)
    BY <1>3
  <2>2. F = [s \in SUBSET S |-> F[s]]
    OBVIOUS
  <2> HIDE DEF F
  <2> QED BY <2>1, <2>2
<1>5. ASSUME NEW n \in Nat, P(n) PROVE P(n + 1)
  <2>1. PICK F : \A s \in SUBSET S : Cardinality(s) <= n => F[s] = Step(F, s)
    BY <1>5
  <2> DEFINE G == [s \in SUBSET S |-> IF Cardinality(s) <= n THEN F[s] ELSE Step(F, s)]
  <2>2. ASSUME NEW s \in SUBSET S, Cardinality(s) <= n + 1 PROVE G[s] = Step(G, s)
    <3>1. G[s] = Step(F, s)
      BY <2>1
    <3>2. CASE s = {}
      BY <3>1, <3>2
    <3>3. CASE s # {}
      <4> DEFINE r == s \ {LastOf(mode, s)}
      <4>1. r \in SUBSET S /\ Cardinality(r) <= n
        BY <1>1, <1>2, <2>2, <3>3
      <4>2. G[r] = F[r]
        BY <4>1
      <4> QED BY <3>1, <3>3, <4>2
    <3> QED BY <3>2, <3>3
  <2>3. G = [s \in SUBSET S |-> G[s]]
    OBVIOUS
  <2> HIDE DEF G
  <2> QED BY <2>2, <2>3
<1>6. Nat \subseteq N
  <2> HIDE DEF P
  <2>1. 0 \in N /\ \A n \in Nat : n \in N => n + 1 \in N
    BY <1>4, <1>5
  <2> HIDE DEF N
  <2> QED BY <2>1, Induction
<1>7. P(Cardinality(S))
  <2>1. Cardinality(S) \in N
    BY <1>1, <1>6
  <2> QED BY <2>1
<1>8. PICK F : /\ F = [s \in SUBSET S |-> F[s]]
               /\ \A s \in SUBSET S : Cardinality(s) <= Cardinality(S) => F[s] = Step(F, s)
  BY <1>7
<1>9. \A s \in SUBSET S : F[s] = Step(F, s)
  BY <1>1, <1>8
<1>10. F = [s \in SUBSET S |-> Step(F, s)]
  BY <1>8, <1>9
<1> QED BY <1>10 DEF IsChain

LEMMA ChainStart ==
    ASSUME NEW mode, NEW L, NEW S, NEW F, IsChain(F, mode, L, S)
    PROVE  F[{}] = L
BY DEF IsChain

LEMMA ChainStep ==
    ASSUME NEW mode, NEW L, NEW S, NEW F, IsChain(F, mode, L, S)
    PROVE  \A s \in SUBSET S : s # {} =>
               F[s] = Taking(mode, F[s \ {LastOf(mode, s)}], LastOf(mode, s))
BY DEF IsChain

\* The highest of a set of offers is one of them.
LEMMA LastOffer ==
    ASSUME NEW mode, mode # "realign", NEW S, IsFiniteSet(S), S \subseteq Nat,
           NEW s \in SUBSET S, s # {}
    PROVE  LastOf(mode, s) \in s
<1>1. IsFiniteSet(s) /\ s \subseteq Int
  <2>1. IsFiniteSet(s)
    BY FS_Subset
  <2>2. s \subseteq Int
    OBVIOUS
  <2> QED BY <2>1, <2>2
<1>2. Max(s) \in s
  BY <1>1, MaxExists
<1> QED BY <1>2 DEF LastOf

LEMMA LastLine ==
    ASSUME NEW s, s # {}
    PROVE  LastOf("realign", s) \in s
BY DEF LastOf, AnyOf

LEMMA ClearOffersIs ==
    ASSUME NEW L, NEW S, IsFiniteSet(S), S \subseteq Nat
    PROVE  \E F : IsChain(F, "clear", L, S) /\ clearOffers(L, S) = F[S]
<1> DEFINE Q(F) == F = [ids \in SUBSET S |->
                         IF ids = {} THEN L ELSE clearOffer(F[ids \ {Max(ids)}], Max(ids))]
<1>1. clearOffers(L, S) = (CHOOSE F : Q(F))[S]
  BY Zenon DEF clearOffers
<1>2. \A F : Q(F) <=> IsChain(F, "clear", L, S)
  <2>1. \A K, x : Taking("clear", K, x) = clearOffer(K, x)
    BY DEF Taking
  <2>2. \A s : LastOf("clear", s) = Max(s)
    BY DEF LastOf
  <2> QED BY <2>1, <2>2, Zenon DEF IsChain
<1>3. \E F : Q(F)
  <2>1. "clear" # "realign"
    OBVIOUS
  <2>2. \E F : IsChain(F, "clear", L, S)
    BY <2>1, ChainExists, LastOffer
  <2> QED BY <1>2, <2>2
<1> HIDE DEF Q
<1>4. Q(CHOOSE F : Q(F))
  BY <1>3, Zenon
<1> QED BY <1>1, <1>2, <1>4, Zenon

LEMMA EraseOffersIs ==
    ASSUME NEW L, NEW S, IsFiniteSet(S), S \subseteq Nat
    PROVE  \E F : IsChain(F, "erase", L, S) /\ eraseOffers(L, S) = F[S]
<1> DEFINE Q(F) == F = [ids \in SUBSET S |->
                         IF ids = {} THEN L ELSE eraseOffer(F[ids \ {Max(ids)}], Max(ids))]
<1>1. eraseOffers(L, S) = (CHOOSE F : Q(F))[S]
  BY Zenon DEF eraseOffers
<1>2. \A F : Q(F) <=> IsChain(F, "erase", L, S)
  <2>1. \A K, x : Taking("erase", K, x) = eraseOffer(K, x)
    BY DEF Taking
  <2>2. \A s : LastOf("erase", s) = Max(s)
    BY DEF LastOf
  <2> QED BY <2>1, <2>2, Zenon DEF IsChain
<1>3. \E F : Q(F)
  <2>1. "erase" # "realign"
    OBVIOUS
  <2>2. \E F : IsChain(F, "erase", L, S)
    BY <2>1, ChainExists, LastOffer
  <2> QED BY <1>2, <2>2
<1> HIDE DEF Q
<1>4. Q(CHOOSE F : Q(F))
  BY <1>3, Zenon
<1> QED BY <1>1, <1>2, <1>4, Zenon

LEMMA RealignAllIs ==
    ASSUME NEW L, NEW S, IsFiniteSet(S)
    PROVE  \E F : IsChain(F, "realign", L, S) /\ realignAll(L, S) = F[S]
<1> DEFINE Q(F) == F = [done \in SUBSET S |->
                         IF done = {} THEN L
                         ELSE realign(F[done \ {AnyOf(done)}], AnyOf(done)[1], AnyOf(done)[2])]
<1>1. realignAll(L, S) = (CHOOSE F : Q(F))[S]
  BY Zenon DEF realignAll, AnyOf
<1>2. \A F : Q(F) <=> IsChain(F, "realign", L, S)
  <2>1. \A K, x : Taking("realign", K, x) = realign(K, x[1], x[2])
    BY DEF Taking
  <2>2. \A s : LastOf("realign", s) = AnyOf(s)
    BY DEF LastOf
  <2> TAKE F
  <2>3. \A s : (IF s = {} THEN L ELSE realign(F[s \ {AnyOf(s)}], AnyOf(s)[1], AnyOf(s)[2]))
                  = IF s = {} THEN L
                    ELSE Taking("realign", F[s \ {LastOf("realign", s)}], LastOf("realign", s))
    BY <2>1, <2>2
  <2> QED BY <2>3, Zenon DEF IsChain
<1>3. \E F : Q(F)
  <2>2. \E F : IsChain(F, "realign", L, S)
    BY ChainExists, LastLine
  <2> QED BY <1>2, <2>2
<1> HIDE DEF Q
<1>4. Q(CHOOSE F : Q(F))
  BY <1>3, Zenon
<1> QED BY <1>1, <1>2, <1>4, Zenon

-----------------------------------------------------------------------------
(* Offers that are cleared or erased, and lines that are brought in line. *)

LEMMA EraseLeaves ==
    ASSUME NEW L, IsLedger(L), NEW id \in DOMAIN L.offers
    PROVE  DOMAIN eraseOffer(L, id).offers = DOMAIN L.offers \ {id}
<1> DEFINE seller == L.offers[id].seller
           f == Without(L.offers, id)
           N == [L EXCEPT !.offers = f]
           r == addNumEntries(N, seller, -1)
<1>1. eraseOffer(L, id) = r.L
  BY DEF eraseOffer
<1>2. AreOffers(f) /\ DOMAIN f = DOMAIN L.offers \ {id}
  BY WithoutOffer DEF IsLedger
<1>3. IsLedger(N) /\ N.offers = f
  BY <1>2, PutOffers
<1> HIDE DEF N, f
<1>4. r.L.offers = N.offers
  <2> DEFINE h == N.acc[seller]
             new == h.numSubEntries + (-1)
             M == [N EXCEPT !.acc[seller].numSubEntries = new]
  <2>1. \/ r = Result(FALSE, throw(N, "invalid account state"))
        \/ r = Result(FALSE, N)
        \/ r = Result(TRUE, M)
    BY Zenon DEF addNumEntries
  <2>2. throw(N, "invalid account state").offers = N.offers
    BY <1>3, MovedThrow DEF Moved
  <2>3. M.offers = N.offers
    <3>1. M = [N EXCEPT !.acc[seller] = [h EXCEPT !.numSubEntries = new]]
      BY <1>3, FieldEntries DEF IsLedger
    <3> HIDE DEF h, new, M
    <3> QED BY <1>3, <3>1 DEF IsLedger, LedgerFields
  <2>4. \A K : Result(TRUE, K).L = K /\ Result(FALSE, K).L = K
    BY DEF Result
  <2> HIDE DEF M, r
  <2>5. r.L = throw(N, "invalid account state") \/ r.L = N \/ r.L = M
    BY <2>1, <2>4, Zenon
  <2> QED BY <2>2, <2>3, <2>5
<1> QED BY <1>1, <1>2, <1>3, <1>4

\* M is L without the offers of ids.
Cleared(L, M, ids) ==
    /\ IsLedger(M) /\ DOMAIN M.offers = DOMAIN L.offers \ ids
    /\ Fine(M) => Traded(L, M, 0)

LEMMA TakeOffer ==
    ASSUME NEW mode \in {"clear", "erase"}, NEW L, IsLedger(L), NEW id \in DOMAIN L.offers,
           NEW M, M = Taking(mode, L, id)
    PROVE  Cleared(L, M, {id})
<1> DEFINE o == L.offers[id]
           N == IF mode = "clear" THEN releaseLiabilities(L, o) ELSE L
<1>1. M = eraseOffer(N, id)
  <2>1. "clear" # "erase" /\ "erase" # "clear"
    OBVIOUS
  <2>2. CASE mode = "clear"
    BY <2>2, Zenon DEF Taking, clearOffer
  <2>3. CASE mode = "erase"
    <3>1. N = L
      BY <2>1, <2>3
    <3> HIDE DEF N
    <3> QED BY <2>1, <2>3, <3>1, Zenon DEF Taking
  <2> QED BY <2>2, <2>3
<1>2. Moved(L, N, 0)
  <2>1. IsOffer(o)
    BY DEF IsLedger, AreOffers
  <2>2. Moved(L, releaseLiabilities(L, o), 0) /\ Moved(L, L, 0)
    BY <2>1, Release, MovedNot
  <2> QED BY <2>2
<1> HIDE DEF N
<1>3. IsLedger(N) /\ N.offers = L.offers
  BY <1>2 DEF Moved
<1>4. /\ IsLedger(M) /\ DOMAIN M.offers = DOMAIN L.offers \ {id}
      /\ Fine(M) => Traded(N, M, 0)
  BY <1>1, <1>3, EraseOffer, EraseLeaves
<1>5. Traded(L, N, 0)
  BY <1>2, MovedIsTraded
<1>6. Fine(M) => Traded(L, M, 0)
  <2> HAVE Fine(M)
  <2>1. 0 \in Int /\ Traded(N, M, 0)
    BY <1>4
  <2> QED BY <1>5, <2>1, TradedAfter
<1> QED BY <1>4, <1>6 DEF Cleared

\* Taking one offer after the other.
LEMMA TakeOffers ==
    ASSUME NEW mode \in {"clear", "erase"}, NEW L, IsLedger(L), NEW S \in SUBSET DOMAIN L.offers,
           NEW F, IsChain(F, mode, L, S)
    PROVE  Cleared(L, F[S], S)
<1>1. IsFiniteSet(S) /\ S \subseteq Nat
  <2>1. IsFiniteSet(DOMAIN L.offers) /\ DOMAIN L.offers \subseteq Nat
    BY DEF IsLedger, AreOffers
  <2> QED BY <2>1, FS_Subset
<1>2. mode # "realign"
  OBVIOUS
<1> DEFINE H == {s \in SUBSET S : Cleared(L, F[s], s)}
<1>3. ASSUME NEW s \in SUBSET S, \A t \in SUBSET s : t # s => t \in H
      PROVE  s \in H
  <2>1. CASE s = {}
    <3>1. F[s] = L
      <4>1. F[{}] = L
        BY ChainStart
      <4> QED BY <2>1, <4>1
    <3>2. Traded(L, L, 0)
      BY MovedNot, MovedIsTraded
    <3> QED BY <2>1, <3>1, <3>2 DEF Cleared
  <2>2. CASE s # {}
    <3> DEFINE m == LastOf(mode, s)
               r == s \ {m}
               K == F[r]
    <3>1. m \in s
      BY <1>1, <1>2, <2>2, LastOffer
    <3>2. F[s] = Taking(mode, K, m)
      <4>1. \A t \in SUBSET S : t # {} =>
                F[t] = Taking(mode, F[t \ {LastOf(mode, t)}], LastOf(mode, t))
        BY ChainStep
      <4> QED BY <2>2, <4>1
    <3>3. r \in SUBSET s /\ r # s
      BY <3>1
    <3> HIDE DEF m
    <3>4. Cleared(L, K, r)
      BY <1>3, <3>3
    <3> HIDE DEF K
    <3>5. IsLedger(K) /\ DOMAIN K.offers = DOMAIN L.offers \ r
      BY <3>4 DEF Cleared
    <3>6. m \in DOMAIN K.offers
      BY <3>1, <3>5
    <3>7. Cleared(K, F[s], {m})
      BY <3>2, <3>5, <3>6, TakeOffer
    <3>8. IsLedger(F[s]) /\ DOMAIN F[s].offers = DOMAIN L.offers \ s
      BY <3>1, <3>5, <3>7 DEF Cleared
    <3>9. Fine(F[s]) => Traded(L, F[s], 0)
      <4> HAVE Fine(F[s])
      <4>1. Traded(K, F[s], 0)
        BY <3>7 DEF Cleared
      <4>2. Traded(L, K, 0)
        BY <3>4, <4>1 DEF Cleared, Traded
      <4>3. 0 \in Int
        OBVIOUS
      <4> QED BY <4>1, <4>2, <4>3, TradedAfter
    <3> QED BY <3>8, <3>9 DEF Cleared
  <2> QED BY <2>1, <2>2
<1>4. SUBSET S \subseteq H
  <2> HIDE DEF H
  <2> QED BY <1>1, <1>3, SubsetInduction
<1> QED BY <1>4

LEMMA ClearOffers ==
    ASSUME NEW L, IsLedger(L), NEW S \in SUBSET DOMAIN L.offers
    PROVE  Cleared(L, clearOffers(L, S), S) /\ Cleared(L, eraseOffers(L, S), S)
<1>1. IsFiniteSet(S) /\ S \subseteq Nat
  <2>1. IsFiniteSet(DOMAIN L.offers) /\ DOMAIN L.offers \subseteq Nat
    BY DEF IsLedger, AreOffers
  <2> QED BY <2>1, FS_Subset
<1>2. Cleared(L, clearOffers(L, S), S)
  BY <1>1, ClearOffersIs, TakeOffers
<1>3. Cleared(L, eraseOffers(L, S), S)
  BY <1>1, EraseOffersIs, TakeOffers
<1> QED BY <1>2, <1>3

LEMMA PromisesType ==
    ASSUME NEW L, IsLedger(L), NEW ids \in SUBSET DOMAIN L.offers, NEW asset, NEW side
    PROVE  Promises(L, ids, asset, side) \in Int
<1> DEFINE v(i) == LET o == L.offers[i] IN
                   IF side = "buying" /\ o.buying = asset
                   THEN OfferLiabilities(o.price, o.amount).numSheepSend
                   ELSE IF side = "selling" /\ o.selling = asset
                   THEN OfferLiabilities(o.price, o.amount).numWheatReceived ELSE 0
           f == [i \in ids |-> v(i)]
<1>1. IsFiniteSet(ids)
  BY FS_Subset DEF IsLedger, AreOffers
<1>2. ASSUME NEW i \in ids PROVE v(i) \in Int
  <2> DEFINE o == L.offers[i]
             p == OfferLiabilities(o.price, o.amount)
  <2>1. IsOffer(o)
    BY DEF IsLedger, AreOffers
  <2>2. p \in Exchanged
    <3>1. o.price \in Price /\ o.amount \in Nat /\ INT64_MAX \in Nat /\ FALSE \in BOOLEAN
      BY <2>1, Int64Assumption DEF IsOffer
    <3> QED BY <3>1, ExchangeWithinLimits, Zenon DEF OfferLiabilities
  <2> HIDE DEF p
  <2>3. p.numSheepSend \in Int /\ p.numWheatReceived \in Int /\ 0 \in Int
    <3>1. p.numSheepSend \in Nat /\ p.numWheatReceived \in Nat
      BY <2>2 DEF Exchanged
    <3> QED BY <3>1
  <2>4. v(i) = p.numSheepSend \/ v(i) = p.numWheatReceived \/ v(i) = 0
    BY Zenon DEF p
  <2> HIDE DEF v
  <2> QED BY <2>3, <2>4
<1>3. Promises(L, ids, asset, side) = SumFunctionOnSet(f, ids)
  <2>1. Promises(L, ids, asset, side) = SumFunction(f)
    BY Zenon DEF Promises
  <2> HIDE DEF v
  <2>2. DOMAIN f = ids
    OBVIOUS
  <2> HIDE DEF f
  <2> QED BY <2>1, <2>2 DEF SumFunction
<1> HIDE DEF v
<1>4. \A i \in ids : f[i] \in Int
  BY <1>2
<1> HIDE DEF f
<1> QED BY <1>1, <1>3, <1>4, SumType

LEMMA RealignMoves ==
    ASSUME NEW L, IsLedger(L), NEW a, NEW asset
    PROVE  Moved(L, realign(L, a, asset), 0)
<1> DEFINE h == Holding(L, a, asset)
           x == Promises(L, Owned(L, a), asset, "selling") - h.selling
           y == Promises(L, Owned(L, a), asset, "buying") - h.buying
           sold == addSellingLiabilities(L, a, asset, x)
           bought == addBuyingLiabilities(sold.L, a, asset, y)
           M == realign(L, a, asset)
<1>1. \/ M = L
      \/ \E what : M = throw(L, what)
      \/ M = bought.L
  BY Zenon DEF realign
<1>2. Exists(L, a, asset) => x \in Int /\ y \in Int
  <2> HAVE Exists(L, a, asset)
  <2>1. h.buying \in Int /\ h.selling \in Int
    <3>1. h.buying \in Nat /\ h.selling \in Nat
      BY HoldingFields, Zenon
    <3> QED BY <3>1
  <2>2. Owned(L, a) \in SUBSET DOMAIN L.offers
    BY DEF Owned
  <2>3. /\ Promises(L, Owned(L, a), asset, "selling") \in Int
        /\ Promises(L, Owned(L, a), asset, "buying") \in Int
    BY <2>2, PromisesType
  <2> HIDE DEF h
  <2> QED BY <2>1, <2>3
<1> HIDE DEF x, y
<1>3. Moved(L, sold.L, 0)
  BY <1>2, AddSellingLiabilities, Zenon
<1>4. IsLedger(sold.L) /\ (Exists(sold.L, a, asset) <=> Exists(L, a, asset))
  BY <1>3 DEF Moved, Exists
<1> HIDE DEF sold
<1>5. Moved(sold.L, bought.L, 0)
  BY <1>2, <1>4, AddBuyingLiabilities, Zenon
<1> HIDE DEF bought
<1>6. Moved(L, bought.L, 0)
  <2>1. Moved(L, bought.L, 0 + 0)
    BY <1>3, <1>5, MovedOn
  <2> QED BY <2>1
<1>7. Moved(L, L, 0) /\ \A what : Moved(L, throw(L, what), 0)
  BY MovedNot, MovedThrow
<1> HIDE DEF M
<1>8. Moved(L, M, 0)
  BY <1>1, <1>6, <1>7
<1> QED BY <1>8 DEF M

LEMMA RealignAllMoves ==
    ASSUME NEW L, IsLedger(L), NEW S, IsFiniteSet(S)
    PROVE  Moved(L, realignAll(L, S), 0)
<1>1. PICK F : IsChain(F, "realign", L, S) /\ realignAll(L, S) = F[S]
  BY RealignAllIs
<1> DEFINE H == {s \in SUBSET S : Moved(L, F[s], 0)}
<1>2. \A t \in SUBSET S : t # {} =>
          F[t] = Taking("realign", F[t \ {LastOf("realign", t)}], LastOf("realign", t))
  <2>1. IsChain(F, "realign", L, S)
    BY <1>1
  <2> QED BY <2>1 DEF IsChain
<1>3. F[{}] = L
  BY <1>1, ChainStart
<1>4. ASSUME NEW s \in SUBSET S, \A t \in SUBSET s : t # s => t \in H
      PROVE  s \in H
  <2>1. CASE s = {}
    <3>1. Moved(L, F[s], 0)
      BY <1>3, <2>1, MovedNot
    <3> QED BY <3>1
  <2>2. CASE s # {}
    <3> DEFINE m == LastOf("realign", s)
               r == s \ {m}
               K == F[r]
    <3>1. m \in s
      BY <2>2, LastLine
    <3>2. F[s] = Taking("realign", K, m)
      BY <1>2, <2>2
    <3>3. r \in SUBSET s /\ r # s
      BY <3>1
    <3> HIDE DEF m
    <3>4. Moved(L, K, 0)
      BY <1>4, <3>3
    <3> HIDE DEF K
    <3>5. IsLedger(K)
      BY <3>4 DEF Moved
    <3>6. F[s] = realign(K, m[1], m[2])
      BY <3>2 DEF Taking
    <3>7. Moved(K, F[s], 0)
      BY <3>5, <3>6, RealignMoves
    <3>8. Moved(L, F[s], 0 + 0)
      BY <3>4, <3>7, MovedOn
    <3>9. 0 + 0 = 0
      OBVIOUS
    <3> QED BY <3>8, <3>9
  <2> QED BY <2>1, <2>2
<1>5. SUBSET S \subseteq H
  <2> HIDE DEF H
  <2> QED BY <1>4, SubsetInduction
<1> QED BY <1>1, <1>5

\* The amounts of offers can be adjusted without counting anything anew.
LEMMA AdjustOffersTrades ==
    ASSUME NEW L, IsLedger(L)
    PROVE  Traded(L, adjustOffers(L), 0)
<1> DEFINE amount(i) == adjustOffer(L.offers[i].price, L.offers[i].amount, INT64_MAX).numWheatReceived
           f == [i \in DOMAIN L.offers |-> [L.offers[i] EXCEPT !.amount = amount(i)]]
           M == adjustOffers(L)
<1>1. M = [L EXCEPT !.offers = f]
  BY DEF adjustOffers
<1>2. AreOffers(L.offers)
  BY DEF IsLedger
<1>3. ASSUME NEW i \in DOMAIN L.offers PROVE amount(i) \in Nat
  <2> DEFINE o == L.offers[i]
             r == exchangeV10(o.price, o.amount, INT64_MAX, INT64_MAX, INT64_MAX, FALSE)
  <2>1. o.price \in Price /\ o.amount \in Nat /\ INT64_MAX \in Nat
    BY <1>2, Int64Assumption DEF AreOffers, IsOffer
  <2>2. r \in Exchanged
    BY <2>1, OffersExchange
  <2>3. amount(i) = r.numWheatReceived
    BY DEF adjustOffer
  <2> HIDE DEF r
  <2> QED BY <2>2, <2>3 DEF Exchanged
<1> HIDE DEF amount
<1>4. ASSUME NEW i \in DOMAIN L.offers PROVE IsOffer(f[i]) /\ f[i].seller = L.offers[i].seller
  <2>1. IsOffer(L.offers[i]) /\ amount(i) \in Nat
    BY <1>2, <1>3 DEF AreOffers
  <2>2. f[i] = [L.offers[i] EXCEPT !.amount = amount(i)]
    OBVIOUS
  <2> HIDE DEF f
  <2> QED BY <2>1, <2>2, OfferAmount
<1>5. DOMAIN f = DOMAIN L.offers /\ f = [i \in DOMAIN f |-> f[i]]
  OBVIOUS
<1> HIDE DEF f, M
<1>6. AreOffers(f)
  BY <1>2, <1>4, <1>5 DEF AreOffers
<1>7. /\ IsLedger(M) /\ SameHeader(L, M) /\ M.offers = f
      /\ M.acc = L.acc /\ M.tl = L.tl /\ M.data = L.data
      /\ (Fine(M) <=> Fine(L)) /\ Lumens(M) = Lumens(L)
  BY <1>1, <1>6, PutOffers
<1>8. Owners(M) = Owners(L) /\ \A a : Owned(M, a) = Owned(L, a)
  BY <1>4, <1>5, <1>7 DEF Owners, Owned
<1>9. \A a \in DOMAIN L.acc : SameHolder(L.acc[a], M.acc[a]) /\ Uncounted(M, a) = Uncounted(L, a)
  BY <1>7, <1>8 DEF SameHolder, Uncounted, Entries
<1>10. Lumens(L) + 0 = Lumens(L)
  <2>1. Lumens(L) \in Nat
    BY LumensType DEF IsLedger
  <2> QED BY <2>1
<1>11. Traded(L, M, 0)
  BY <1>5, <1>7, <1>8, <1>9, <1>10 DEF Traded
<1> QED BY <1>11 DEF M

LEMMA LinesFinite ==
    ASSUME NEW L, IsLedger(L)
    PROVE  IsFiniteSet(linesOf(L))
<1> DEFINE D == DOMAIN L.offers
           f == [i \in D |-> <<L.offers[i].seller, L.offers[i].buying>>]
           g == [i \in D |-> <<L.offers[i].seller, L.offers[i].selling>>]
           S == {<<L.offers[i].seller, L.offers[i].buying>> : i \in D}
           T == {<<L.offers[i].seller, L.offers[i].selling>> : i \in D}
<1>1. IsFiniteSet(D)
  BY DEF IsLedger, AreOffers
<1>2. f \in Surjection(D, S) /\ g \in Surjection(D, T)
  BY DEF Surjection
<1> HIDE DEF f, g, S, T
<1>3. IsFiniteSet(S) /\ IsFiniteSet(T)
  BY <1>1, <1>2, FS_Surjection
<1>4. linesOf(L) = S \cup T
  BY DEF linesOf, S, T
<1> QED BY <1>3, <1>4, FS_Union

\* What the upgrade of the reserve does to the offers.
LEMMA PrepareLiabilities ==
    ASSUME NEW L, IsLedger(L), NEW M, M = prepareLiabilities(L), Fine(M)
    PROVE  Traded(L, M, 0)
<1> DEFINE gone == {i \in DOMAIN L.offers : Excess(L, L.offers[i])}
           E == eraseOffers(L, gone)
           K == adjustOffers(E)
<1>1. M = realignAll(K, linesOf(K))
  BY Zenon DEF prepareLiabilities
<1>2. Cleared(L, E, gone)
  <2>1. gone \in SUBSET DOMAIN L.offers
    OBVIOUS
  <2> HIDE DEF gone
  <2> QED BY <2>1, ClearOffers
<1> HIDE DEF gone, E
<1>3. Traded(E, K, 0)
  BY <1>2, AdjustOffersTrades DEF Cleared
<1> HIDE DEF K
<1>4. Traded(K, M, 0)
  <2>1. IsLedger(K)
    BY <1>3 DEF Traded
  <2> QED BY <1>1, <2>1, LinesFinite, RealignAllMoves, MovedIsTraded
<1>5. Traded(L, E, 0)
  BY <1>2, <1>3, <1>4 DEF Cleared, Traded
<1>6. 0 \in Int
  OBVIOUS
<1>7. Traded(L, K, 0)
  BY <1>3, <1>5, <1>6, TradedAfter
<1> QED BY <1>4, <1>6, <1>7, TradedAfter

-----------------------------------------------------------------------------
(* The operations of a transaction. *)

LEMMA AllowTrustKeeps ==
    ASSUME NEW L, IsLedger(L), NEW op, op.authorize \in BOOLEAN, NEW r, r = AllowTrust(L, op),
           r.code = "ok", Fine(r.L)
    PROVE  Traded(L, r.L, 0)
<1> DEFINE line == <<op.trustor, op.asset>>
           revoked == L.tl[line].authorized /\ ~op.authorize
           drop == {i \in DOMAIN L.offers :
                       /\ revoked
                       /\ L.offers[i].seller = op.trustor
                       /\ op.asset \in {L.offers[i].buying, L.offers[i].selling}}
           C == clearOffers(L, drop)
           M == [C EXCEPT !.tl[line].authorized = op.authorize]
<1>1. r.L = M
  <2>1. \/ r = Fail("self not allowed", L)
        \/ r = Fail("trust not required", L)
        \/ r = Fail("cant revoke", L)
        \/ r = Fail("no trust line", L)
        \/ r = Done(M)
    BY Zenon DEF AllowTrust
  <2>2. \A code, K : r = Fail(code, K) => code = "ok"
    BY DEF Fail
  <2>3. /\ "self not allowed" # "ok" /\ "trust not required" # "ok"
        /\ "cant revoke" # "ok" /\ "no trust line" # "ok"
    OBVIOUS
  <2>4. \A K : Done(K).L = K
    BY DEF Done
  <2> HIDE DEF M
  <2>5. r = Done(M)
    BY <2>1, <2>2, <2>3, Zenon
  <2> QED BY <2>4, <2>5
<1>2. Cleared(L, C, drop)
  <2>1. drop \in SUBSET DOMAIN L.offers
    OBVIOUS
  <2> HIDE DEF drop
  <2> QED BY <2>1, ClearOffers
<1> HIDE DEF drop, C
<1>3. Traded(C, M, 0)
  <2>1. IsLedger(C)
    BY <1>2 DEF Cleared
  <2>2. Moved(C, M, 0)
    BY <2>1, SetAuthorized
  <2> QED BY <2>1, <2>2, MovedIsTraded
<1> HIDE DEF M
<1>4. Traded(L, C, 0)
  BY <1>1, <1>2, <1>3 DEF Cleared, Traded
<1>5. 0 \in Int
  OBVIOUS
<1> QED BY <1>1, <1>3, <1>4, <1>5, TradedAfter

LEMMA MarkAccountKeeps ==
    ASSUME NEW L, NEW op, NEW r, r = MarkAccount(L, op)
    PROVE  r.L = L
BY DEF MarkAccount, Fail, Done

\* The operation that is applied, and what is known of it.
Applies(op, r, L) ==
    \/ CreateAccount_doCheckValid(op) /\ r = CreateAccount(L, op)
    \/ Payment_doCheckValid(op) /\ r = Payment(L, op)
    \/ PathPayment_doCheckValid(op) /\ r = PathPayment(L, op)
    \/ ManageOffer_doCheckValid(op) /\ r = ManageOffer(L, op)
    \/ SetOptions_doCheckValid(op) /\ r = SetOptions(L, op)
    \/ ChangeTrust_doCheckValid(op) /\ r = ChangeTrust(L, op)
    \/ AllowTrust_doCheckValid(op) /\ r = AllowTrust(L, op)
    \/ Merge_doCheckValid(op) /\ r = Merge(L, op)
    \/ r = Inflation(L, op)
    \/ op.set \in BOOLEAN /\ r = ManageData(L, op)
    \/ BumpSequence_doCheckValid(op) /\ r = BumpSequence(L, op)
    \/ r = MarkAccount(L, op)

LEMMA DoApplyIs ==
    ASSUME NEW L, NEW op, doCheckValid(op), NEW r, r = doApply(L, op), r.code = "ok"
    PROVE  op.src \in DOMAIN L.acc /\ Applies(op, r, L)
<1>1. op.src \in DOMAIN L.acc
  <2> SUFFICES ASSUME op.src \notin DOMAIN L.acc PROVE FALSE
    OBVIOUS
  <2>1. r = Fail("no account", L)
    BY Zenon DEF doApply, exists
  <2>2. Fail("no account", L).code = "no account" /\ "no account" # "ok"
    BY DEF Fail
  <2> QED BY <2>1, <2>2, Zenon
<1>2. op.type \in {"createAccount", "payment", "pathPayment", "manageOffer",
                  "setOptions", "changeTrust", "allowTrust", "accountMerge",
                  "bumpSequence", "manageData", "markAccount", "inflation"}
  BY DEF doCheckValid
<1>3. CASE op.type = "createAccount"
  <2>1. CreateAccount_doCheckValid(op) /\ r = CreateAccount(L, op)
    BY <1>1, <1>3 DEF doApply, doCheckValid, exists
  <2> QED BY <1>1, <2>1 DEF Applies
<1>4. CASE op.type = "payment"
  <2>1. Payment_doCheckValid(op) /\ r = Payment(L, op)
    BY <1>1, <1>4 DEF doApply, doCheckValid, exists
  <2> QED BY <1>1, <2>1 DEF Applies
<1>5. CASE op.type = "pathPayment"
  <2>1. PathPayment_doCheckValid(op) /\ r = PathPayment(L, op)
    BY <1>1, <1>5 DEF doApply, doCheckValid, exists
  <2> QED BY <1>1, <2>1 DEF Applies
<1>6. CASE op.type = "manageOffer"
  <2>1. ManageOffer_doCheckValid(op) /\ r = ManageOffer(L, op)
    BY <1>1, <1>6 DEF doApply, doCheckValid, exists
  <2> QED BY <1>1, <2>1 DEF Applies
<1>7. CASE op.type = "setOptions"
  <2>1. SetOptions_doCheckValid(op) /\ r = SetOptions(L, op)
    BY <1>1, <1>7 DEF doApply, doCheckValid, exists
  <2> QED BY <1>1, <2>1 DEF Applies
<1>8. CASE op.type = "changeTrust"
  <2>1. ChangeTrust_doCheckValid(op) /\ r = ChangeTrust(L, op)
    BY <1>1, <1>8 DEF doApply, doCheckValid, exists
  <2> QED BY <1>1, <2>1 DEF Applies
<1>9. CASE op.type = "allowTrust"
  <2>1. AllowTrust_doCheckValid(op) /\ r = AllowTrust(L, op)
    BY <1>1, <1>9 DEF doApply, doCheckValid, exists
  <2> QED BY <1>1, <2>1 DEF Applies
<1>10. CASE op.type = "accountMerge"
  <2>1. Merge_doCheckValid(op) /\ r = Merge(L, op)
    BY <1>1, <1>10 DEF doApply, doCheckValid, exists
  <2> QED BY <1>1, <2>1 DEF Applies
<1>11. CASE op.type = "bumpSequence"
  <2>1. BumpSequence_doCheckValid(op) /\ r = BumpSequence(L, op)
    BY <1>1, <1>11 DEF doApply, doCheckValid, exists
  <2> QED BY <1>1, <2>1 DEF Applies
<1>12. CASE op.type = "manageData"
  <2>1. op.set \in BOOLEAN /\ r = ManageData(L, op)
    BY <1>1, <1>12 DEF doApply, doCheckValid, exists
  <2> QED BY <1>1, <2>1 DEF Applies
<1>13. CASE op.type = "markAccount"
  <2>1. r = MarkAccount(L, op)
    BY <1>1, <1>13 DEF doApply, doCheckValid, exists
  <2> QED BY <1>1, <2>1 DEF Applies
<1>14. CASE op.type = "inflation"
  <2>1. r = Inflation(L, op)
    BY <1>1, <1>14 DEF doApply, doCheckValid, exists
  <2> QED BY <1>1, <2>1 DEF Applies
<1> QED BY <1>2, <1>3, <1>4, <1>5, <1>6, <1>7, <1>8, <1>9, <1>10, <1>11, <1>12, <1>13, <1>14

LEMMA DoApplyKeeps ==
    ASSUME NEW L, Sound(L), Fine(L), NEW op, doCheckValid(op), NEW r, r = doApply(L, op),
           r.code = "ok", Fine(r.L)
    PROVE  Sound(r.L) /\ Advances(L, r.L)
<1>1. op.src \in DOMAIN L.acc /\ Applies(op, r, L)
  BY DoApplyIs
<1>2. IsLedger(L)
  BY DEF Sound
<1>3. SeqPerLedger \in Nat /\ InflationRate \in Nat
  BY ParametersAssumption
<1>4. Traded(L, r.L, 0) => Sound(r.L) /\ Advances(L, r.L)
  BY <1>2, TradedIsSettled, SettledKeeps
<1>5. Settled(L, r.L, op.src, 0) => Sound(r.L) /\ Advances(L, r.L)
  BY SettledKeeps
<1>6. \A x \in Amount : x \in Nat
  BY Int64Assumption DEF Amount
<1>7. CASE CreateAccount_doCheckValid(op) /\ r = CreateAccount(L, op)
  BY <1>1, <1>3, <1>7, CreateAccountKeeps
<1>8. CASE Payment_doCheckValid(op) /\ r = Payment(L, op)
  <2>1. op.amount \in Nat
    BY <1>6, <1>8 DEF Payment_doCheckValid
  <2> QED BY <1>1, <1>2, <1>4, <1>8, <2>1, PaymentKeeps
<1>9. CASE PathPayment_doCheckValid(op) /\ r = PathPayment(L, op)
  <2>1. op.destAmount \in Nat /\ op.sendAsset \in Asset /\ op.path \in Seq(Asset)
    BY <1>6, <1>9 DEF PathPayment_doCheckValid
  <2> QED BY <1>1, <1>2, <1>4, <1>9, <2>1, PathPaymentKeeps
<1>10. CASE ManageOffer_doCheckValid(op) /\ r = ManageOffer(L, op)
  BY <1>1, <1>5, <1>10, ManageOfferKeeps
<1>11. CASE SetOptions_doCheckValid(op) /\ r = SetOptions(L, op)
  BY <1>1, <1>2, <1>5, <1>11, SetOptionsKeeps
<1>12. CASE ChangeTrust_doCheckValid(op) /\ r = ChangeTrust(L, op)
  <2>1. op.limit \in Amount
    BY <1>12 DEF ChangeTrust_doCheckValid
  <2> QED BY <1>1, <1>2, <1>5, <1>12, <2>1, ChangeTrustKeeps
<1>13. CASE AllowTrust_doCheckValid(op) /\ r = AllowTrust(L, op)
  <2>1. op.authorize \in BOOLEAN
    BY <1>13 DEF AllowTrust_doCheckValid
  <2> QED BY <1>2, <1>4, <1>13, <2>1, AllowTrustKeeps
<1>14. CASE Merge_doCheckValid(op) /\ r = Merge(L, op)
  BY <1>1, <1>3, <1>14, MergeKeeps
<1>15. CASE r = Inflation(L, op)
  BY <1>3, <1>15, InflationKeeps
<1>16. CASE op.set \in BOOLEAN /\ r = ManageData(L, op)
  BY <1>1, <1>2, <1>5, <1>16, ManageDataKeeps
<1>17. CASE BumpSequence_doCheckValid(op) /\ r = BumpSequence(L, op)
  <2>1. op.bumpTo \in Nat
    BY <1>17 DEF BumpSequence_doCheckValid
  <2> QED BY <1>1, <1>2, <1>5, <1>17, <2>1, BumpSequenceKeeps
<1>18. CASE r = MarkAccount(L, op)
  BY <1>2, <1>5, <1>18, MarkAccountKeeps, SettledNot
<1> QED BY <1>1, <1>7, <1>8, <1>9, <1>10, <1>11, <1>12, <1>13, <1>14, <1>15, <1>16, <1>17, <1>18
        DEF Applies

\* Also over several operations: an account that goes and comes back is above where it was.
LEMMA AdvancesOn ==
    ASSUME NEW L, IsLedger(L), NEW M, IsLedger(M), NEW N, IsLedger(N),
           Advances(L, M), Advances(M, N)
    PROVE  Advances(L, N)
<1> DEFINE start == getStartingSequenceNumber(L, SeqPerLedger)
<1>1. M.ledgerSeq = L.ledgerSeq /\ N.ledgerSeq = L.ledgerSeq
  BY DEF Advances
<1>2. getStartingSequenceNumber(M, SeqPerLedger) = start
  BY <1>1 DEF getStartingSequenceNumber
<1>3. start \in Nat
  BY StartType, ParametersAssumption
<1> HIDE DEF start
<1>4. /\ \A a \in DOMAIN L.acc : L.acc[a].seqNum \in Nat
      /\ \A a \in DOMAIN M.acc : M.acc[a].seqNum \in Nat
      /\ \A a \in DOMAIN N.acc : N.acc[a].seqNum \in Nat
  BY UncountedType
<1>5. /\ \A a \in DOMAIN L.acc \cap DOMAIN M.acc : M.acc[a].seqNum >= L.acc[a].seqNum
      /\ \A a \in DOMAIN M.acc \ DOMAIN L.acc : M.acc[a].seqNum >= start
      /\ \A a \in DOMAIN L.acc \ DOMAIN M.acc : L.acc[a].seqNum < start
  BY DEF Advances, start
<1>6. /\ \A a \in DOMAIN M.acc \cap DOMAIN N.acc : N.acc[a].seqNum >= M.acc[a].seqNum
      /\ \A a \in DOMAIN N.acc \ DOMAIN M.acc : N.acc[a].seqNum >= start
      /\ \A a \in DOMAIN M.acc \ DOMAIN N.acc : M.acc[a].seqNum < start
  BY <1>2 DEF Advances
<1>7. \A a \in DOMAIN L.acc \cap DOMAIN N.acc : N.acc[a].seqNum >= L.acc[a].seqNum
  BY <1>3, <1>4, <1>5, <1>6
<1>8. \A a \in DOMAIN N.acc \ DOMAIN L.acc : N.acc[a].seqNum >= start
  BY <1>3, <1>4, <1>5, <1>6
<1>9. \A a \in DOMAIN L.acc \ DOMAIN N.acc : L.acc[a].seqNum < start
  BY <1>3, <1>4, <1>5, <1>6
<1> QED BY <1>1, <1>7, <1>8, <1>9 DEF Advances, start

\* F has the state after each of the first n operations.
FirstState(L) == [ok |-> TRUE, L |-> L]

AreStates(F, n, L, ops) ==
    F = [k \in 0..n |-> IF k = 0 THEN FirstState(L) ELSE apply(F[k - 1], ops[k])]

Kept(end, L) == [err |-> end.L.err, L |-> IF end.ok /\ Fine(end.L) THEN end.L ELSE L]

LEMMA StatesAre ==
    ASSUME NEW L, NEW tx
    PROVE  applyOperations(L, tx)
               = Kept((CHOOSE F : AreStates(F, Len(tx.ops), L, tx.ops))[Len(tx.ops)], L)
BY Zenon DEF applyOperations, AreStates, FirstState, Kept, Fine

LEMMA StatesExist ==
    ASSUME NEW n \in Nat, NEW L, NEW ops
    PROVE  \E F : AreStates(F, n, L, ops)
<1> DEFINE Step(s, k) == apply(s, ops[k])
           P(k) == \E F : AreStates(F, k, L, ops)
           N == {k \in Nat : P(k)}
<1>1. P(0)
  <2> DEFINE F == [k \in 0..0 |-> FirstState(L)]
  <2>1. F = [k \in 0..0 |-> IF k = 0 THEN FirstState(L) ELSE Step(F[k - 1], k)]
    <3> HIDE DEF Step
    <3> QED OBVIOUS
  <2> QED BY <2>1, Zenon DEF AreStates
<1>2. ASSUME NEW k \in Nat, P(k) PROVE P(k + 1)
  <2>1. PICK F : F = [j \in 0..k |-> IF j = 0 THEN FirstState(L) ELSE Step(F[j - 1], j)]
    BY <1>2, Zenon DEF AreStates
  <2> DEFINE G == [j \in 0..(k + 1) |-> IF j = k + 1 THEN Step(F[k], k + 1) ELSE F[j]]
  <2> HIDE DEF Step
  <2>2. ASSUME NEW j \in 0..(k + 1)
        PROVE  G[j] = IF j = 0 THEN FirstState(L) ELSE Step(G[j - 1], j)
    <3>1. CASE j = k + 1
      <4>1. G[j] = Step(F[k], k + 1) /\ j - 1 = k /\ j # 0 /\ G[k] = F[k]
        BY <3>1
      <4> QED BY <3>1, <4>1
    <3>2. CASE j # k + 1
      <4>1. j \in 0..k /\ G[j] = F[j]
        BY <3>2
      <4>2. F[j] = IF j = 0 THEN FirstState(L) ELSE Step(F[j - 1], j)
        BY <2>1, <4>1
      <4>3. j # 0 => G[j - 1] = F[j - 1]
        BY <4>1
      <4> QED BY <4>1, <4>2, <4>3
    <3> QED BY <3>1, <3>2
  <2>3. G = [j \in 0..(k + 1) |-> G[j]]
    OBVIOUS
  <2> HIDE DEF G
  <2>4. G = [j \in 0..(k + 1) |-> IF j = 0 THEN FirstState(L) ELSE Step(G[j - 1], j)]
    BY <2>2, <2>3
  <2> QED BY <2>4, Zenon DEF AreStates, Step
<1> HIDE DEF P
<1>3. Nat \subseteq N
  <2>1. 0 \in N /\ \A k \in Nat : k \in N => k + 1 \in N
    BY <1>1, <1>2
  <2> HIDE DEF N
  <2> QED BY <2>1, Induction
<1> QED BY <1>3 DEF P

\* As long as no operation failed or threw, the ledger is sound.
SoundAfter(L, s) == s.ok /\ Fine(s.L) => Sound(s.L) /\ Advances(L, s.L)

LEMMA AdvancesNot ==
    ASSUME NEW L, IsLedger(L)
    PROVE  Advances(L, L)
<1>1. \A a \in DOMAIN L.acc : L.acc[a].seqNum \in Nat
  BY UncountedType
<1> QED BY <1>1 DEF Advances

LEMMA FirstStateIs ==
    ASSUME NEW L, Sound(L)
    PROVE  SoundAfter(L, FirstState(L))
<1>1. FirstState(L).L = L
  BY DEF FirstState
<1>2. Advances(L, L)
  BY AdvancesNot DEF Sound
<1> QED BY <1>1, <1>2 DEF SoundAfter

LEMMA ApplyKeeps ==
    ASSUME NEW L, Sound(L), NEW s, SoundAfter(L, s), NEW op, doCheckValid(op), NEW t,
           t = apply(s, op)
    PROVE  SoundAfter(L, t)
<1> DEFINE r == doApply(s.L, op)
<1>1. SUFFICES ASSUME t.ok, Fine(t.L) PROVE Sound(t.L) /\ Advances(L, t.L)
  BY DEF SoundAfter
<1>2. CASE ~Fine(s.L)
  <2>1. t = s
    BY <1>2, Zenon DEF apply, Fine
  <2> QED BY <1>1, <1>2, <2>1
<1>3. CASE Fine(s.L)
  <2>1. t = [ok |-> s.ok /\ r.code = "ok", L |-> r.L]
    BY <1>3, Zenon DEF apply, Fine
  <2> HIDE DEF r
  <2>2. s.ok /\ r.code = "ok" /\ t.L = r.L
    <3> DEFINE x == s.ok /\ r.code = "ok"
    <3>1. t = [ok |-> x, L |-> r.L]
      BY <2>1
    <3> HIDE DEF x
    <3>2. t.ok = x /\ t.L = r.L
      BY <3>1
    <3>3. x
      BY <1>1, <3>2, Zenon
    <3> QED BY <3>2, <3>3, Zenon DEF x
  <2>3. Sound(s.L) /\ Advances(L, s.L)
    BY <1>3, <2>2 DEF SoundAfter
  <2>4. Fine(r.L)
    BY <1>1, <2>2
  <2>5. Sound(r.L) /\ Advances(s.L, r.L)
    BY <1>3, <2>2, <2>3, <2>4, DoApplyKeeps DEF r
  <2>6. Advances(L, r.L)
    BY <2>3, <2>5, AdvancesOn DEF Sound
  <2> QED BY <2>2, <2>5, <2>6
<1> QED BY <1>2, <1>3

\* Whatever the operations do, the ledger that is kept is sound.
LEMMA ApplyOperations ==
    ASSUME NEW L, Sound(L), Fine(L), NEW tx, Len(tx.ops) \in Nat,
           \A k \in 1..Len(tx.ops) : doCheckValid(tx.ops[k]),
           NEW r, r = applyOperations(L, tx)
    PROVE  Sound(r.L) /\ Fine(r.L) /\ Advances(L, r.L)
<1> DEFINE n == Len(tx.ops)
           ops == tx.ops
           F == CHOOSE G : AreStates(G, n, L, ops)
           N == {k \in Nat : k <= n => SoundAfter(L, F[k])}
<1>1. r = Kept(F[n], L)
  BY StatesAre
<1>2. AreStates(F, n, L, ops)
  <2>1. \E G : AreStates(G, n, L, ops)
    BY StatesExist
  <2> QED BY <2>1, Zenon
<1> HIDE DEF F
<1>3. F[0] = FirstState(L) /\ \A k \in 1..n : F[k] = apply(F[k - 1], ops[k])
  BY <1>2 DEF AreStates
<1> HIDE DEF n, ops
<1>4. n \in Nat /\ \A k \in 1..n : doCheckValid(ops[k])
  BY DEF n, ops
<1>5. 0 \in N
  BY <1>3, FirstStateIs
<1>6. ASSUME NEW k \in Nat, k \in N PROVE k + 1 \in N
  <2> SUFFICES ASSUME k + 1 <= n PROVE SoundAfter(L, F[k + 1])
    OBVIOUS
  <2>1. k + 1 \in 1..n /\ k <= n /\ (k + 1) - 1 = k
    BY <1>4
  <2>2. SoundAfter(L, F[k]) /\ F[k + 1] = apply(F[k], ops[k + 1]) /\ doCheckValid(ops[k + 1])
    BY <1>3, <1>4, <1>6, <2>1
  <2> QED BY <2>2, ApplyKeeps
<1>7. Nat \subseteq N
  <2> HIDE DEF N
  <2> QED BY <1>5, <1>6, Induction
<1>8. SoundAfter(L, F[n])
  <2>1. n \in N
    BY <1>4, <1>7
  <2> QED BY <1>4, <2>1
<1> DEFINE end == F[n]
<1> HIDE DEF end
<1>9. r.L = IF end.ok /\ Fine(end.L) THEN end.L ELSE L
  BY <1>1 DEF Kept, end
<1>10. SoundAfter(L, end)
  BY <1>8 DEF end
<1>11. CASE end.ok /\ Fine(end.L)
  <2>1. r.L = end.L
    BY <1>9, <1>11
  <2> QED BY <1>10, <1>11, <2>1 DEF SoundAfter
<1>12. CASE ~ (end.ok /\ Fine(end.L))
  <2>1. r.L = L
    BY <1>9, <1>12
  <2>2. Advances(L, L)
    BY AdvancesNot DEF Sound
  <2> QED BY <2>1, <2>2
<1> QED BY <1>11, <1>12

-----------------------------------------------------------------------------
(* The header, the fee and the sequence number. *)

\* M is L with another ledgerSeq, baseReserve or feePool.
SameEntries(L, M) ==
    /\ LedgerFields(M) /\ M.acc = L.acc /\ M.tl = L.tl /\ M.offers = L.offers
    /\ M.data = L.data /\ M.err = L.err /\ M.idPool = L.idPool
    /\ M.totalCoins = L.totalCoins /\ M.inflationSeq = L.inflationSeq

LEMMA HeaderKeeps ==
    ASSUME NEW L, IsLedger(L), Counted(L), Numbered(L), NEW M, SameEntries(L, M),
           M.ledgerSeq \in Nat, M.baseReserve \in Nat, M.feePool \in Nat
    PROVE  /\ IsLedger(M) /\ Counted(M) /\ Numbered(M) /\ Lumens(M) = Lumens(L)
           /\ Fine(M) <=> Fine(L)
<1>1. IsHeader(M)
  BY DEF SameEntries, IsLedger, IsHeader
<1>2. IsLedger(M)
  BY <1>1 DEF SameEntries, IsLedger
<1>3. Lumens(M) = Lumens(L)
  BY DEF SameEntries, Lumens
<1>4. Counted(M)
  <2>1. Owners(M) = Owners(L) /\ \A a : Owned(M, a) = Owned(L, a)
    BY DEF SameEntries, Owners, Owned
  <2>2. \A a : Entries(M, a) = Entries(L, a)
    BY <2>1 DEF SameEntries, Entries
  <2> QED BY <2>1, <2>2 DEF Counted, SameEntries
<1>5. Numbered(M)
  BY DEF SameEntries, Numbered
<1>6. Fine(M) <=> Fine(L)
  BY Zenon DEF SameEntries, Fine
<1> QED BY <1>2, <1>3, <1>4, <1>5, <1>6

Opened(L, M) == M = [L EXCEPT !.ledgerSeq = L.ledgerSeq + 1]
WithReserve(L, x, M) == M = [L EXCEPT !.baseReserve = x]
WithFeePool(L, x, M) == M = [L EXCEPT !.feePool = x]
WithFee(L, a, fee, M) ==
    M = [L EXCEPT !.acc[a].balance = L.acc[a].balance - fee, !.feePool = L.feePool + fee]

LEMMA FieldLedgerSeq ==
    ASSUME NEW L, LedgerFields(L), NEW x, NEW M, M = [L EXCEPT !.ledgerSeq = x]
    PROVE  /\ SameEntries(L, M) /\ M.ledgerSeq = x
           /\ M.baseReserve = L.baseReserve /\ M.feePool = L.feePool
BY DEF LedgerFields, SameEntries

LEMMA FieldReserve ==
    ASSUME NEW L, LedgerFields(L), NEW x, NEW M, WithReserve(L, x, M)
    PROVE  /\ SameEntries(L, M) /\ M.baseReserve = x
           /\ M.ledgerSeq = L.ledgerSeq /\ M.feePool = L.feePool
BY DEF LedgerFields, SameEntries, WithReserve

LEMMA FieldFeePool ==
    ASSUME NEW L, LedgerFields(L), NEW x, NEW M, WithFeePool(L, x, M)
    PROVE  /\ SameEntries(L, M) /\ M.feePool = x
           /\ M.ledgerSeq = L.ledgerSeq /\ M.baseReserve = L.baseReserve
BY DEF LedgerFields, SameEntries, WithFeePool

LEMMA NextLedger ==
    ASSUME NEW L, Sound(L), Fine(L), NEW M, Opened(L, M)
    PROVE  Sound(M) /\ Fine(M) /\ M.acc = L.acc /\ M.ledgerSeq = L.ledgerSeq + 1
           /\ M.feePool = L.feePool /\ M.baseReserve = L.baseReserve
<1>1. /\ SameEntries(L, M) /\ M.ledgerSeq = L.ledgerSeq + 1
      /\ M.feePool = L.feePool /\ M.baseReserve = L.baseReserve
  <2>1. LedgerFields(L)
    BY DEF Sound, IsLedger
  <2> DEFINE x == L.ledgerSeq + 1
  <2>2. M = [L EXCEPT !.ledgerSeq = x]
    BY DEF Opened
  <2>3. x = L.ledgerSeq + 1
    OBVIOUS
  <2> HIDE DEF x
  <2>4. /\ SameEntries(L, M) /\ M.ledgerSeq = x
        /\ M.baseReserve = L.baseReserve /\ M.feePool = L.feePool
    BY <2>1, <2>2, FieldLedgerSeq
  <2> QED BY <2>3, <2>4
<1>2. L.ledgerSeq \in Nat /\ L.baseReserve \in Nat /\ L.feePool \in Nat
  BY DEF Sound, IsLedger, IsHeader
<1>3. M.ledgerSeq \in Nat /\ M.baseReserve \in Nat /\ M.feePool \in Nat
  BY <1>1, <1>2
<1>4. /\ IsLedger(M) /\ Counted(M) /\ Numbered(M) /\ Lumens(M) = Lumens(L)
      /\ Fine(M) <=> Fine(L)
  BY <1>1, <1>3, HeaderKeeps DEF Sound
<1>5. Conserved(M)
  BY <1>1, <1>4 DEF Sound, Conserved, SameEntries
<1> QED BY <1>1, <1>4, <1>5 DEF Sound, SameEntries

LEMMA NewReserve ==
    ASSUME NEW L, Sound(L), Fine(L), NEW x \in Nat, NEW M, WithReserve(L, x, M)
    PROVE  Sound(M) /\ Fine(M) /\ M.acc = L.acc /\ M.ledgerSeq = L.ledgerSeq
<1>1. /\ SameEntries(L, M) /\ M.baseReserve = x
      /\ M.feePool = L.feePool /\ M.ledgerSeq = L.ledgerSeq
  <2>1. LedgerFields(L)
    BY DEF Sound, IsLedger
  <2> QED BY <2>1, FieldReserve
<1>2. L.ledgerSeq \in Nat /\ L.feePool \in Nat
  BY DEF Sound, IsLedger, IsHeader
<1>3. M.ledgerSeq \in Nat /\ M.baseReserve \in Nat /\ M.feePool \in Nat
  BY <1>1, <1>2
<1>4. /\ IsLedger(M) /\ Counted(M) /\ Numbered(M) /\ Lumens(M) = Lumens(L)
      /\ Fine(M) <=> Fine(L)
  BY <1>1, <1>3, HeaderKeeps DEF Sound
<1>5. Conserved(M)
  BY <1>1, <1>4 DEF Sound, Conserved, SameEntries
<1> QED BY <1>1, <1>4, <1>5 DEF Sound, SameEntries

LEMMA FieldFee ==
    ASSUME NEW L, LedgerFields(L), NEW a, NEW x, NEW y
    PROVE  [L EXCEPT !.acc[a].balance = x, !.feePool = y]
               = [[L EXCEPT !.acc[a] = [L.acc[a] EXCEPT !.balance = x]] EXCEPT !.feePool = y]
BY DEF LedgerFields

\* The fee moves from the account to the fee pool.
LEMMA FeePaid ==
    ASSUME NEW L, Sound(L), Fine(L), NEW a \in DOMAIN L.acc, NEW fee \in Nat,
           fee <= L.acc[a].balance - L.acc[a].selling, NEW M,
           WithFee(L, a, fee, M)
    PROVE  /\ Sound(M) /\ Fine(M) /\ M.ledgerSeq = L.ledgerSeq /\ DOMAIN M.acc = DOMAIN L.acc
           /\ \A b \in DOMAIN L.acc : M.acc[b].seqNum = L.acc[b].seqNum
<1> DEFINE h == L.acc[a]
           x == h.balance - fee
           y == L.feePool + fee
           k == [h EXCEPT !.balance = x]
           N == [L EXCEPT !.acc[a] = k]
<1>1. IsLedger(L) /\ IsAccount(h) /\ L.feePool \in Nat
  BY DEF Sound, IsLedger, AreAccounts, IsHeader
<1>2. WithFeePool(N, y, M)
  BY <1>1, FieldFee DEF IsLedger, WithFee, WithFeePool
<1>3. /\ h.balance \in Nat /\ h.buying \in Nat /\ h.selling \in Nat
      /\ h.balance + h.buying <= INT64_MAX /\ INT64_MAX \in Nat
      /\ fee <= h.balance - h.selling
  BY <1>1, AccountFields, Int64Assumption
<1>4. x \in Nat /\ h.selling <= x /\ x + h.buying <= INT64_MAX /\ x - h.balance = 0 - fee
      /\ y \in Nat
  <2> HIDE DEF h
  <2> QED BY <1>1, <1>3
<1>5. IsAccount(k) /\ SameOwner(h, k) /\ k.balance = x
  <2>1. k = Rebalanced(h, x, h.buying, h.selling)
    BY <1>1, SetOne
  <2>2. IsAccount(h) /\ x \in Nat /\ h.buying \in Nat /\ h.selling \in Nat
        /\ h.selling <= x /\ x + h.buying <= INT64_MAX
    BY <1>1, <1>3, <1>4
  <2> HIDE DEF h, k, x, y, N
  <2> QED BY <2>1, <2>2, AccountUpdate
<1>13. Fine(N)
  <2>1. WithAccounts(L, N, [L.acc EXCEPT ![a] = k])
    <3> HIDE DEF k
    <3> QED BY <1>1, <1>5, PutAccount
  <2> QED BY <2>1 DEF WithAccounts
<1>6. Moved(L, N, 0 - fee)
  <2>1. Moved(L, N, k.balance - h.balance)
    <3> HIDE DEF k
    <3> QED BY <1>1, <1>5, SetAccount
  <2> QED BY <1>4, <1>5, <2>1
<1> HIDE DEF k, N, x, y, h
<1>7. Lacks(L, N, 0 - fee)
  <2>1. 0 - fee \in Int
    OBVIOUS
  <2> QED BY <1>6, <2>1, MovedLacks
<1>8. /\ IsLedger(N) /\ Counted(N) /\ Numbered(N) /\ SameHeader(L, N)
      /\ DOMAIN N.acc = DOMAIN L.acc
      /\ \A b \in DOMAIN L.acc : N.acc[b].seqNum = L.acc[b].seqNum
      /\ N.totalCoins + (0 - fee) = N.feePool + Lumens(N)
  BY <1>7 DEF Lacks, SameHolder
<1>9. /\ SameEntries(N, M) /\ M.feePool = y
      /\ M.ledgerSeq = N.ledgerSeq /\ M.baseReserve = N.baseReserve
  <2>1. LedgerFields(N)
    BY <1>8 DEF IsLedger
  <2> QED BY <1>2, <2>1, FieldFeePool
<1>10. M.ledgerSeq \in Nat /\ M.baseReserve \in Nat /\ M.feePool \in Nat
  BY <1>4, <1>8, <1>9 DEF IsLedger, IsHeader
<1>11. /\ IsLedger(M) /\ Counted(M) /\ Numbered(M) /\ Lumens(M) = Lumens(N)
       /\ Fine(M) <=> Fine(N)
  BY <1>8, <1>9, <1>10, HeaderKeeps
<1>12. Conserved(M)
  <2>1. M.totalCoins = N.totalCoins /\ N.feePool = L.feePool
    BY <1>8, <1>9 DEF SameEntries, SameHeader
  <2>2. N.totalCoins \in Nat /\ Lumens(N) \in Nat
    BY <1>8, LumensType DEF IsLedger, IsHeader
  <2>3. M.feePool = N.feePool + fee /\ Lumens(M) = Lumens(N)
    BY <1>9, <1>11, <2>1 DEF y
  <2>4. N.feePool \in Nat /\ N.totalCoins + (0 - fee) = N.feePool + Lumens(N)
    BY <1>1, <1>8, <2>1
  <2>5. M.totalCoins = M.feePool + Lumens(M)
    BY <2>1, <2>2, <2>3, <2>4
  <2> QED BY <2>5 DEF Conserved
<1> QED BY <1>8, <1>9, <1>11, <1>12, <1>13 DEF Sound, SameEntries, SameHeader

LEMMA FieldSeqNum ==
    ASSUME NEW L, LedgerFields(L), NEW a, NEW x, NEW M, M = [L EXCEPT !.acc[a].seqNum = x]
    PROVE  Fine(M) <=> Fine(L)
BY DEF LedgerFields, Fine

\* The ledger that the operations of a transaction start from.
Based(L, B) ==
    /\ Sound(B) /\ Fine(B) /\ B.ledgerSeq = L.ledgerSeq + 1 /\ DOMAIN B.acc = DOMAIN L.acc
    /\ \A a \in DOMAIN L.acc : B.acc[a].seqNum >= L.acc[a].seqNum

LEMMA FeeFits ==
    ASSUME NEW L, Sound(L), NEW tx, Len(tx.ops) \in Nat, checkValid(L, tx)
    PROVE  /\ tx.src \in DOMAIN L.acc
           /\ LET fee == Min({L.acc[tx.src].balance, BaseFee * Len(tx.ops)})
              IN  fee \in Nat /\ fee <= L.acc[tx.src].balance - L.acc[tx.src].selling
<1> DEFINE h == L.acc[tx.src]
           n == BaseFee * Len(tx.ops)
           m == getMinBalance(L, h.numSubEntries)
<1>1. tx.src \in DOMAIN L.acc
  BY DEF checkValid, exists
<1>2. IsLedger(L) /\ IsAccount(h)
  BY <1>1 DEF Sound, IsLedger, AreAccounts
<1>3. h.balance \in Nat /\ h.selling \in Nat /\ h.numSubEntries \in Nat
  BY <1>2, AccountFields
<1>4. n \in Nat
  BY ParametersAssumption, ProductType
<1>5. m \in Nat
  BY <1>2, <1>3, MinBalanceType
<1>6. h.balance - m - h.selling >= n
  <2>1. getAvailableBalance(L, tx.src, Native) = h.balance - m - h.selling
    BY DEF getAvailableBalance, isIssuer, Holding
  <2>2. getAvailableBalance(L, tx.src, Native) >= n
    BY DEF checkValid
  <2> QED BY <2>1, <2>2
<1> HIDE DEF h, n, m
<1>7. n <= h.balance - h.selling /\ n <= h.balance
  BY <1>3, <1>4, <1>5, <1>6
<1>8. Min({h.balance, n}) = n
  BY <1>3, <1>4, <1>7, MinOfTwo
<1>9. tx.src \in DOMAIN L.acc /\ Min({h.balance, n}) \in Nat
      /\ Min({h.balance, n}) <= h.balance - h.selling
  BY <1>1, <1>4, <1>7, <1>8
<1> QED BY <1>9 DEF h, n

LEMMA BaseIs ==
    ASSUME NEW L, Sound(L), Fine(L), NEW tx, Len(tx.ops) \in Nat, checkValid(L, tx),
           NEW new, Opened(L, new),
           NEW B, B = processSeqNum(processFeeSeqNum(new, tx), tx)
    PROVE  Based(L, B)
<1> DEFINE a == tx.src
           fee == Min({new.acc[a].balance, BaseFee * Len(tx.ops)})
           M == [new EXCEPT !.acc[a].balance = new.acc[a].balance - fee,
                            !.feePool = new.feePool + fee]
<1>1. Sound(new) /\ Fine(new) /\ new.acc = L.acc /\ new.ledgerSeq = L.ledgerSeq + 1
  BY NextLedger
<1>2. /\ a \in DOMAIN L.acc /\ fee \in Nat
      /\ fee <= new.acc[a].balance - new.acc[a].selling
  BY <1>1, FeeFits
<1>3. processFeeSeqNum(new, tx) = M
  BY DEF processFeeSeqNum
<1> HIDE DEF fee
<1>4. /\ Sound(M) /\ Fine(M) /\ M.ledgerSeq = new.ledgerSeq
      /\ DOMAIN M.acc = DOMAIN new.acc
      /\ \A b \in DOMAIN new.acc : M.acc[b].seqNum = new.acc[b].seqNum
  <2>1. a \in DOMAIN new.acc /\ fee \in Nat
    BY <1>1, <1>2
  <2>2. fee <= new.acc[a].balance - new.acc[a].selling
    BY <1>2
  <2>3. WithFee(new, a, fee, M)
    BY DEF WithFee
  <2> HIDE DEF M, a
  <2> QED BY <1>1, <2>1, <2>2, <2>3, FeePaid
<1> HIDE DEF M
<1> DEFINE x == M.acc[a].seqNum + 1
<1>5. B = [M EXCEPT !.acc[a].seqNum = x]
  BY <1>3 DEF processSeqNum
<1>6. IsLedger(M) /\ a \in DOMAIN M.acc
  BY <1>1, <1>2, <1>4 DEF Sound
<1>7. M.acc[a].seqNum \in Nat
  BY <1>6, UncountedType
<1>8. x \in Nat /\ x >= M.acc[a].seqNum
  BY <1>7
<1> HIDE DEF x
<1>9. OptionSet(M, B, a, x)
  BY <1>5, <1>8 DEF OptionSet
<1>10. Settled(M, B, a, 0) /\ DOMAIN B.acc = DOMAIN M.acc
  BY <1>6, <1>9, SetOption
<1>11. Sound(B) /\ Advances(M, B)
  BY <1>4, <1>10, SettledKeeps
<1>12. Fine(B)
  <2>1. LedgerFields(M)
    BY <1>6 DEF IsLedger
  <2>2. Fine(B) <=> Fine(M)
    BY <1>5, <2>1, FieldSeqNum
  <2> QED BY <1>4, <2>2, Zenon
<1>13. B.ledgerSeq = L.ledgerSeq + 1 /\ DOMAIN B.acc = DOMAIN L.acc
  BY <1>1, <1>4, <1>10, <1>11 DEF Advances
<1>14. \A b \in DOMAIN L.acc : B.acc[b].seqNum >= L.acc[b].seqNum
  BY <1>1, <1>4, <1>10, <1>11 DEF Advances
<1> QED BY <1>11, <1>12, <1>13, <1>14 DEF Based

\* The upgrade leaves accounts as they are.
LEMMA UpgradeIs ==
    ASSUME NEW L, Sound(L), Fine(L), NEW x \in Nat,
           NEW new, Opened(L, new),
           NEW set, WithReserve(new, x, set),
           NEW N, N = prepareLiabilities(set) \/ N = set,
           NEW M, M = IF Fine(N) THEN N ELSE new
    PROVE  Based(L, M)
<1>1. Sound(new) /\ Fine(new) /\ new.acc = L.acc /\ new.ledgerSeq = L.ledgerSeq + 1
  BY NextLedger
<1>2. Sound(set) /\ Fine(set) /\ set.acc = L.acc /\ set.ledgerSeq = L.ledgerSeq + 1
  <2>1. Sound(set) /\ Fine(set) /\ set.acc = new.acc /\ set.ledgerSeq = new.ledgerSeq
    BY <1>1, NewReserve
  <2> QED BY <1>1, <2>1
<1>3. \A a \in DOMAIN L.acc : L.acc[a].seqNum >= L.acc[a].seqNum
  <2>1. \A a \in DOMAIN L.acc : L.acc[a].seqNum \in Nat
    BY UncountedType DEF Sound
  <2> QED BY <2>1
<1>4. CASE Fine(N) /\ N = prepareLiabilities(set)
  <2>1. M = N
    BY <1>4
  <2>2. Traded(set, N, 0)
    BY <1>2, <1>4, PrepareLiabilities DEF Sound
  <2>3. Settled(set, N, {}, 0)
    BY <1>2, <2>2, TradedIsSettled DEF Sound
  <2>4. Sound(N) /\ Advances(set, N)
    BY <1>2, <2>3, SettledKeeps
  <2>5. DOMAIN N.acc = DOMAIN L.acc
    BY <1>2, <2>2 DEF Traded
  <2> QED BY <1>2, <1>4, <2>1, <2>4, <2>5 DEF Based, Advances
<1>5. CASE Fine(N) /\ N = set
  <2>1. M = set
    BY <1>5
  <2> QED BY <1>2, <1>3, <2>1, Zenon DEF Based
<1>6. CASE ~Fine(N)
  <2>1. M = new
    BY <1>6
  <2> QED BY <1>1, <1>3, <2>1, Zenon DEF Based
<1> QED BY <1>4, <1>5, <1>6

-----------------------------------------------------------------------------
(* The sequence numbers that accounts are past. *)

LEMMA StartMonotone ==
    ASSUME NEW L, IsLedger(L), NEW M, M.ledgerSeq = L.ledgerSeq + 1
    PROVE  /\ getStartingSequenceNumber(L, SeqPerLedger) \in Nat
           /\ getStartingSequenceNumber(M, SeqPerLedger) \in Nat
           /\ getStartingSequenceNumber(L, SeqPerLedger)
                  <= getStartingSequenceNumber(M, SeqPerLedger)
<1> DEFINE n == L.ledgerSeq
           m == SeqPerLedger
<1>1. n \in Nat /\ m \in Nat
  BY ParametersAssumption DEF IsLedger, IsHeader
<1> HIDE DEF n, m
<1>2. n * m \in Nat /\ (n + 1) * m = n * m + 1 * m /\ 1 * m = m
  BY <1>1, ProductType, Distribute
<1>3. n * m \in Nat /\ (n + 1) * m \in Nat /\ n * m <= (n + 1) * m
  BY <1>1, <1>2
<1> QED BY <1>3 DEF n, m, getStartingSequenceNumber

\* What s says of an account is what one of the ledgers or spent said of it.
SaidOf(B, R, s) ==
    /\ DOMAIN s = DOMAIN spent \cup DOMAIN B.acc \cup DOMAIN R.acc
    /\ \A a \in DOMAIN s :
         \/ a \in DOMAIN spent /\ s[a] = spent[a]
         \/ a \in DOMAIN B.acc /\ s[a] = B.acc[a].seqNum
         \/ a \in DOMAIN R.acc /\ s[a] = R.acc[a].seqNum

AreNaturals(sp) == \A a \in DOMAIN sp : sp[a] \in Nat

LEMMA SpendIs ==
    ASSUME NEW B, IsLedger(B), NEW R, IsLedger(R), AreNaturals(spent),
           NEW s, s = Spend({B, R})
    PROVE  SaidOf(B, R, s)
<1> DEFINE D == DOMAIN spent \cup UNION {DOMAIN L.acc : L \in {B, R}}
           Seen(a) == {spent[b] : b \in DOMAIN spent \cap {a}}
                          \cup {L.acc[a].seqNum : L \in {M \in {B, R} : exists(M, a)}}
           seen == [a \in D |-> Seen(a)]
<1>1. s = [a \in DOMAIN seen |-> Max(seen[a])]
  BY Zenon DEF Spend
<1>2. D = DOMAIN spent \cup DOMAIN B.acc \cup DOMAIN R.acc
  OBVIOUS
<1>3. DOMAIN s = D /\ \A a \in D : s[a] = Max(Seen(a))
  <2>1. DOMAIN seen = D /\ \A a \in D : seen[a] = Seen(a)
    BY Zenon
  <2> HIDE DEF D, Seen, seen
  <2> QED BY <1>1, <2>1
<1>4. ASSUME NEW a \in D
      PROVE  \/ a \in DOMAIN spent /\ s[a] = spent[a]
             \/ a \in DOMAIN B.acc /\ s[a] = B.acc[a].seqNum
             \/ a \in DOMAIN R.acc /\ s[a] = R.acc[a].seqNum
  <2>1. \A x : x \in Seen(a) <=>
             \/ a \in DOMAIN spent /\ x = spent[a]
             \/ a \in DOMAIN B.acc /\ x = B.acc[a].seqNum
             \/ a \in DOMAIN R.acc /\ x = R.acc[a].seqNum
    BY Zenon DEF exists
  <2>2. a \in DOMAIN spent \/ a \in DOMAIN B.acc \/ a \in DOMAIN R.acc
    BY <1>2
  <2>3. s[a] = Max(Seen(a))
    BY <1>3
  <2> HIDE DEF D, Seen, seen
  <2>4. Seen(a) # {}
    BY <2>1, <2>2
  <2>5. Seen(a) \subseteq Int
    <3>1. /\ a \in DOMAIN B.acc => B.acc[a].seqNum \in Nat
          /\ a \in DOMAIN R.acc => R.acc[a].seqNum \in Nat
      BY UncountedType
    <3> QED BY <2>1, <3>1 DEF AreNaturals
  <2>6. IsFiniteSet(Seen(a))
    <3> DEFINE u == spent[a]
               v == B.acc[a].seqNum
               w == R.acc[a].seqNum
    <3>1. Seen(a) \subseteq ({u} \cup {v}) \cup {w}
      BY <2>1
    <3> HIDE DEF u, v, w
    <3>2. IsFiniteSet(({u} \cup {v}) \cup {w})
      BY FS_Singleton, FS_Union
    <3> QED BY <3>1, <3>2, FS_Subset
  <2>7. s[a] \in Seen(a)
    BY <2>3, <2>4, <2>5, <2>6, MaxExists
  <2> QED BY <2>1, <2>7
<1> HIDE DEF D
<1> QED BY <1>2, <1>3, <1>4 DEF SaidOf

\* Accounts of L are past what spent says of them, and so is the number that an
\* account that is created would start with for those that are gone.
SpentBelow(L, sp) ==
    /\ \A a \in DOMAIN sp : sp[a] \in Nat
    /\ \A a \in DOMAIN L.acc : a \in DOMAIN sp /\ sp[a] <= L.acc[a].seqNum
    /\ \A a \in DOMAIN sp \ DOMAIN L.acc : sp[a] < getStartingSequenceNumber(L, SeqPerLedger)

LEMMA SpentAtBase ==
    ASSUME NEW L, IsLedger(L), NEW B, Based(L, B), NEW sp, SpentBelow(L, sp)
    PROVE  SpentBelow(B, sp)
<1> DEFINE low == getStartingSequenceNumber(L, SeqPerLedger)
           high == getStartingSequenceNumber(B, SeqPerLedger)
<1>1. low \in Nat /\ high \in Nat /\ low <= high
  BY StartMonotone DEF Based
<1> HIDE DEF low, high
<1>2. ASSUME NEW a \in DOMAIN B.acc PROVE a \in DOMAIN sp /\ sp[a] <= B.acc[a].seqNum
  <2>1. a \in DOMAIN L.acc /\ B.acc[a].seqNum >= L.acc[a].seqNum
    BY DEF Based
  <2>2. a \in DOMAIN sp /\ sp[a] \in Nat /\ sp[a] <= L.acc[a].seqNum
    BY <2>1 DEF SpentBelow
  <2>3. L.acc[a].seqNum \in Nat /\ B.acc[a].seqNum \in Nat
    BY <2>1, UncountedType DEF Based, Sound
  <2> QED BY <2>1, <2>2, <2>3
<1>3. ASSUME NEW a \in DOMAIN sp \ DOMAIN B.acc PROVE sp[a] < high
  <2>1. sp[a] \in Nat /\ sp[a] < low
    BY DEF SpentBelow, Based, low
  <2> QED BY <1>1, <2>1
<1> QED BY <1>2, <1>3 DEF SpentBelow, high

LEMMA SpentAfter ==
    ASSUME NEW B, IsLedger(B), NEW R, IsLedger(R), Advances(B, R), SpentBelow(B, spent),
           NEW s, s = Spend({B, R})
    PROVE  SpentBelow(R, s)
<1> DEFINE start == getStartingSequenceNumber(B, SeqPerLedger)
<1>1. start = getStartingSequenceNumber(R, SeqPerLedger)
  BY DEF Advances, getStartingSequenceNumber
<1>2. start \in Nat
  BY ProductType, ParametersAssumption DEF IsLedger, IsHeader, getStartingSequenceNumber
<1>3. /\ DOMAIN s = DOMAIN spent \cup DOMAIN B.acc \cup DOMAIN R.acc
      /\ \A a \in DOMAIN s :
           \/ a \in DOMAIN spent /\ s[a] = spent[a]
           \/ a \in DOMAIN B.acc /\ s[a] = B.acc[a].seqNum
           \/ a \in DOMAIN R.acc /\ s[a] = R.acc[a].seqNum
  <2>1. AreNaturals(spent)
    BY DEF SpentBelow, AreNaturals
  <2>2. SaidOf(B, R, s)
    BY <2>1, SpendIs
  <2> QED BY <2>2 DEF SaidOf
<1>4. /\ \A a \in DOMAIN B.acc : B.acc[a].seqNum \in Nat
      /\ \A a \in DOMAIN R.acc : R.acc[a].seqNum \in Nat
  BY UncountedType
<1>5. \A a \in DOMAIN s : s[a] \in Nat
  BY <1>3, <1>4 DEF SpentBelow
<1>6. ASSUME NEW a \in DOMAIN R.acc PROVE a \in DOMAIN s /\ s[a] <= R.acc[a].seqNum
  <2>1. a \in DOMAIN s
    BY <1>3
  <2>2. CASE a \in DOMAIN B.acc
    <3>1. R.acc[a].seqNum >= B.acc[a].seqNum
      BY <2>2 DEF Advances
    <3>2. a \in DOMAIN spent /\ spent[a] \in Nat /\ spent[a] <= B.acc[a].seqNum
      BY <2>2 DEF SpentBelow
    <3>3. B.acc[a].seqNum \in Nat /\ R.acc[a].seqNum \in Nat
      BY <1>4, <2>2
    <3>4. s[a] \in {spent[a], B.acc[a].seqNum, R.acc[a].seqNum}
      BY <1>3, <2>1
    <3> QED BY <2>1, <3>1, <3>2, <3>3, <3>4
  <2>3. CASE a \notin DOMAIN B.acc
    <3>1. R.acc[a].seqNum >= start
      BY <2>3 DEF Advances
    <3>2. a \in DOMAIN spent => spent[a] \in Nat /\ spent[a] < start
      BY <2>3 DEF SpentBelow
    <3>3. R.acc[a].seqNum \in Nat
      BY <1>4
    <3>4. \/ a \in DOMAIN spent /\ s[a] = spent[a]
          \/ s[a] = R.acc[a].seqNum
      BY <1>3, <2>1, <2>3
    <3> HIDE DEF start
    <3> QED BY <1>2, <2>1, <3>1, <3>2, <3>3, <3>4
  <2> QED BY <2>2, <2>3
<1>7. ASSUME NEW a \in DOMAIN s \ DOMAIN R.acc PROVE s[a] < start
  <2>1. a \in DOMAIN spent => a \in DOMAIN B.acc \/ spent[a] < start
    BY DEF SpentBelow
  <2>2. a \in DOMAIN B.acc => /\ B.acc[a].seqNum < start /\ B.acc[a].seqNum \in Nat
                              /\ a \in DOMAIN spent /\ spent[a] <= B.acc[a].seqNum
                              /\ spent[a] \in Nat
    BY <1>4 DEF Advances, SpentBelow
  <2>3. \/ a \in DOMAIN spent /\ s[a] = spent[a]
        \/ a \in DOMAIN B.acc /\ s[a] = B.acc[a].seqNum
    BY <1>3
  <2> HIDE DEF start
  <2> QED BY <1>2, <2>1, <2>2, <2>3
<1> HIDE DEF start
<1> QED BY <1>1, <1>5, <1>6, <1>7 DEF SpentBelow

-----------------------------------------------------------------------------
(* The theorems. *)

\* Between two ledgers nothing is thrown: what threw was rolled back. The parts of
\* Sound other than the three properties are what the operations count on: entries of
\* the right form whose liabilities fit into their balances and limits, and identifiers
\* of offers that were handed out.
IInv ==
    /\ menu \in DOMAIN Menus
    /\ Sound(ledger) /\ Fine(ledger)
    /\ SpentBelow(ledger, spent)

LEMMA InitIInv == Init => IInv
<1> SUFFICES ASSUME Init PROVE IInv
  OBVIOUS
<1>1. IsLedger(Genesis)
  BY GenesisAssumption
<1>2. Sound(Genesis)
  BY GenesisAssumption DEF Sound, Conserved, Counted, Numbered
<1>3. Fine(Genesis)
  BY Zenon, GenesisAssumption DEF Fine
<1>4. \A a \in DOMAIN Genesis.acc : Genesis.acc[a].seqNum \in Nat
  BY <1>1, UncountedType
<1>5. menu \in DOMAIN Menus /\ ledger = Genesis
      /\ spent = [a \in DOMAIN Genesis.acc |-> Genesis.acc[a].seqNum]
  BY Zenon DEF Init
<1>6. SpentBelow(Genesis, spent)
  BY <1>4, <1>5 DEF SpentBelow
<1> QED BY <1>2, <1>3, <1>5, <1>6, Zenon DEF IInv

\* A ledger that closes with a transaction.
LEMMA CloseLedger ==
    ASSUME IInv, NEW tx \in Menus[menu], closeLedger(tx)
    PROVE  IInv'
<1> DEFINE new == [ledger EXCEPT !.ledgerSeq = ledger.ledgerSeq + 1]
           base == processSeqNum(processFeeSeqNum(new, tx), tx)
           r == applyOperations(base, tx)
<1>1. menu \in DOMAIN Menus /\ Sound(ledger) /\ Fine(ledger) /\ SpentBelow(ledger, spent)
  BY DEF IInv
<1>2. Len(tx.ops) \in Nat /\ \A k \in 1..Len(tx.ops) : doCheckValid(tx.ops[k])
  BY <1>1, MenusAssumption
<1>3. checkValid(ledger, tx) /\ ledger' = r.L /\ spent' = Spend({base, r.L}) /\ menu' = menu
  BY Zenon DEF closeLedger
<1>4. Opened(ledger, new)
  BY DEF Opened
<1> HIDE DEF new
<1>5. Based(ledger, base)
  BY <1>1, <1>2, <1>3, <1>4, BaseIs
<1> HIDE DEF base
<1>6. Sound(base) /\ Fine(base)
  BY <1>5 DEF Based
<1>7. Sound(r.L) /\ Fine(r.L) /\ Advances(base, r.L)
  BY <1>2, <1>6, ApplyOperations
<1>8. SpentBelow(base, spent)
  BY <1>1, <1>5, SpentAtBase DEF Sound
<1> HIDE DEF r
<1>9. SpentBelow(r.L, spent')
  BY <1>3, <1>6, <1>7, <1>8, SpentAfter DEF Sound
<1> QED BY <1>1, <1>3, <1>7, <1>9, Zenon DEF IInv, Sound, Fine, SpentBelow

\* A ledger that closes with an upgrade of the base reserve.
LEMMA ApplyReserveUpgrade ==
    ASSUME IInv, NEW x \in NewReserves, applyReserveUpgrade(x)
    PROVE  IInv'
<1> DEFINE new == [ledger EXCEPT !.ledgerSeq = ledger.ledgerSeq + 1]
           set == [new EXCEPT !.baseReserve = x]
           N == IF x > ledger.baseReserve THEN prepareLiabilities(set) ELSE set
           M == IF N.err = "" THEN N ELSE new
<1>1. menu \in DOMAIN Menus /\ Sound(ledger) /\ Fine(ledger) /\ SpentBelow(ledger, spent)
  BY DEF IInv
<1>2. ledger' = M /\ menu' = menu /\ spent' = spent
  BY Zenon DEF applyReserveUpgrade
<1>3. Opened(ledger, new) /\ WithReserve(new, x, set) /\ x \in Nat
  BY ParametersAssumption DEF Opened, WithReserve
<1> HIDE DEF new, set
<1>4. N = prepareLiabilities(set) \/ N = set
  OBVIOUS
<1> HIDE DEF N
<1>5. M = IF Fine(N) THEN N ELSE new
  BY Zenon DEF Fine
<1> HIDE DEF M
<1>6. Based(ledger, M)
  BY <1>1, <1>3, <1>4, <1>5, UpgradeIs
<1>7. SpentBelow(M, spent)
  BY <1>1, <1>6, SpentAtBase DEF Sound
<1>8. Sound(M) /\ Fine(M)
  BY <1>6 DEF Based
<1> QED BY <1>1, <1>2, <1>7, <1>8, Zenon DEF IInv

LEMMA NextIInv == IInv /\ [Next]_vars => IInv'
<1> SUFFICES ASSUME IInv, [Next]_vars PROVE IInv'
  OBVIOUS
<1>1. CASE \E tx \in Menus[menu] : closeLedger(tx)
  BY <1>1, CloseLedger
<1>2. CASE \E x \in NewReserves : applyReserveUpgrade(x)
  BY <1>2, ApplyReserveUpgrade
<1>3. CASE UNCHANGED vars
  BY <1>3, Zenon DEF vars, IInv
<1> QED BY <1>1, <1>2, <1>3 DEF Next

LEMMA Inductive == Spec => []IInv
<1> QED BY InitIInv, NextIInv, PTL DEF Spec

\* No lumens are made or lost. Whatever the accounts, transactions, offers and
\* parameters, each closed ledger holds totalCoins between its accounts and the fee
\* pool: trades, paths, merges, inflation with its rounding, fees, failed transactions
\* that are rolled back, and upgrades that take offers off the book (the
\* ConservationOfLumens invariant of src/src/invariant).
THEOREM LumensAreConserved == Spec => []ConservationOfLumens
<1>1. IInv => ConservationOfLumens
  BY DEF IInv, Sound, Conserved, ConservationOfLumens
<1> QED BY <1>1, Inductive, PTL

\* numSubEntries counts the signers, lines, offers and data of each account, so the
\* reserve that is asked of it is the right one, and an account that was merged leaves
\* no entry behind without an owner.
THEOREM SubEntriesCounted == Spec => []SubEntriesAreCounted
<1>1. IInv => SubEntriesAreCounted
  BY DEF IInv, Sound, Counted, SubEntriesAreCounted
<1> QED BY <1>1, Inductive, PTL

\* No account is ever given a sequence number it had before, so no transaction can be
\* applied twice: not by a merge and a creation under the same identifier, for which
\* mergeAccount refuses an account that is past getStartingSequenceNumber, and not by a
\* bump or a rollback.
THEOREM SequencesStandFirm == Spec => []SequencesNeverRewind
<1>1. IInv => SequencesNeverRewind
  <2> SUFFICES ASSUME IInv, NEW a \in DOMAIN ledger.acc PROVE ledger.acc[a].seqNum >= spent[a]
    BY DEF SequencesNeverRewind
  <2>1. IsLedger(ledger) /\ SpentBelow(ledger, spent)
    BY DEF IInv, Sound
  <2>2. ledger.acc[a].seqNum \in Nat
    BY <2>1, UncountedType
  <2>3. a \in DOMAIN spent /\ spent[a] \in Nat /\ spent[a] <= ledger.acc[a].seqNum
    BY <2>1 DEF SpentBelow
  <2> QED BY <2>2, <2>3
<1> QED BY <1>1, Inductive, PTL

-----------------------------------------------------------------------------
(* The offers on the book.  An upgrade of the reserve, too, leaves           *)
(* liabilities no lower than what is promised: offers are taken off the book *)
(* one after the other.                                                      *)

\* The offers that are left are as they were, and clearing one frees what it pledged.
Thinned(mode, L, M, a, asset, side) ==
    Fine(M) => /\ \A i \in DOMAIN M.offers : M.offers[i] = L.offers[i]
               /\ mode = "clear" => Follows(L, M, a, asset, side, 0)

LEMMA TakeThins ==
    ASSUME NEW mode \in {"clear", "erase"}, NEW L, IsLedger(L), NEW id \in DOMAIN L.offers,
           NEW M, M = Taking(mode, L, id), NEW a, NEW asset, NEW side \in Sides
    PROVE  Thinned(mode, L, M, a, asset, side)
<1> DEFINE o == L.offers[id]
           N == IF mode = "clear" THEN releaseLiabilities(L, o) ELSE L
           s == Share(o, a, asset, side)
<1>1. M = eraseOffer(N, id)
  <2>1. "clear" # "erase" /\ "erase" # "clear"
    OBVIOUS
  <2>2. CASE mode = "clear"
    BY <2>2, Zenon DEF Taking, clearOffer
  <2>3. CASE mode = "erase"
    <3>1. N = L
      BY <2>1, <2>3
    <3> HIDE DEF N
    <3> QED BY <2>1, <2>3, <3>1, Zenon DEF Taking
  <2> QED BY <2>2, <2>3
<1>2. IsOffer(o)
  BY DEF IsLedger, AreOffers
<1>3. Moved(L, N, 0)
  <2>1. Moved(L, releaseLiabilities(L, o), 0) /\ Moved(L, L, 0)
    BY <1>2, Release, MovedNot
  <2> QED BY <2>1
<1>4. mode = "clear" /\ Fine(N) => Follows(L, N, a, asset, side, -s)
  <2> SUFFICES ASSUME mode = "clear", Fine(N) PROVE Follows(L, N, a, asset, side, -s)
    OBVIOUS
  <2>1. N = releaseLiabilities(L, o)
    OBVIOUS
  <2> HIDE DEF N
  <2> QED BY <1>2, <2>1, ReleaseFollows
<1>5. s \in Nat
  BY <1>2, ShareType
<1> HIDE DEF N
<1>6. IsLedger(N) /\ N.offers = L.offers
  BY <1>3 DEF Moved
<1>7. Fine(M) => Fine(N) /\ \A i \in DOMAIN M.offers : M.offers[i] = N.offers[i]
  BY <1>1, <1>6, EraseOffer
<1>8. Follows(N, M, a, asset, side, s)
  BY <1>1, <1>6, EraseFollows
<1> HIDE DEF s
<1>9. s \in Int /\ -s \in Int /\ 0 = -s + s
  BY <1>5
<1>10. Fine(M) /\ mode = "clear" => Follows(L, M, a, asset, side, 0)
  BY <1>4, <1>7, <1>8, <1>9, FollowsOn
<1> QED BY <1>6, <1>7, <1>10 DEF Thinned

LEMMA ThinnedOn ==
    ASSUME NEW mode, NEW L, IsLedger(L), NEW M, NEW N, NEW a, NEW asset, NEW side,
           Thinned(mode, L, M, a, asset, side), Thinned(mode, M, N, a, asset, side),
           Fine(N) => Fine(M), DOMAIN N.offers \subseteq DOMAIN M.offers
    PROVE  Thinned(mode, L, N, a, asset, side)
<1> SUFFICES ASSUME Fine(N)
             PROVE  /\ \A i \in DOMAIN N.offers : N.offers[i] = L.offers[i]
                    /\ mode = "clear" => Follows(L, N, a, asset, side, 0)
  BY DEF Thinned
<1>1. /\ \A i \in DOMAIN M.offers : M.offers[i] = L.offers[i]
      /\ mode = "clear" => Follows(L, M, a, asset, side, 0)
  BY DEF Thinned
<1>2. /\ \A i \in DOMAIN N.offers : N.offers[i] = M.offers[i]
      /\ mode = "clear" => Follows(M, N, a, asset, side, 0)
  BY DEF Thinned
<1> QED BY <1>1, <1>2, FollowsStill

LEMMA TakeAllThins ==
    ASSUME NEW mode \in {"clear", "erase"}, NEW L, IsLedger(L), NEW S \in SUBSET DOMAIN L.offers,
           NEW F, IsChain(F, mode, L, S), NEW a, NEW asset, NEW side \in Sides
    PROVE  Thinned(mode, L, F[S], a, asset, side)
<1>1. IsFiniteSet(S) /\ S \subseteq Nat
  <2>1. IsFiniteSet(DOMAIN L.offers) /\ DOMAIN L.offers \subseteq Nat
    BY DEF IsLedger, AreOffers
  <2> QED BY <2>1, FS_Subset
<1>2. mode # "realign"
  OBVIOUS
<1> DEFINE H == {s \in SUBSET S : Cleared(L, F[s], s) /\ Thinned(mode, L, F[s], a, asset, side)}
<1>3. ASSUME NEW s \in SUBSET S, \A t \in SUBSET s : t # s => t \in H
      PROVE  s \in H
  <2>1. CASE s = {}
    <3>1. F[s] = L
      <4>1. F[{}] = L
        BY ChainStart
      <4> QED BY <2>1, <4>1
    <3>2. Traded(L, L, 0)
      BY MovedNot, MovedIsTraded
    <3>3. Cleared(L, F[s], s)
      BY <2>1, <3>1, <3>2 DEF Cleared
    <3>4. Thinned(mode, L, F[s], a, asset, side)
      BY <3>1, FollowsNot DEF Thinned
    <3> QED BY <3>3, <3>4
  <2>2. CASE s # {}
    <3> DEFINE m == LastOf(mode, s)
               r == s \ {m}
               K == F[r]
    <3>1. m \in s
      BY <1>1, <1>2, <2>2, LastOffer
    <3>2. F[s] = Taking(mode, K, m)
      <4>1. \A t \in SUBSET S : t # {} =>
                F[t] = Taking(mode, F[t \ {LastOf(mode, t)}], LastOf(mode, t))
        BY ChainStep
      <4> QED BY <2>2, <4>1
    <3>3. r \in SUBSET s /\ r # s
      BY <3>1
    <3> HIDE DEF m
    <3>4. Cleared(L, K, r) /\ Thinned(mode, L, K, a, asset, side)
      BY <1>3, <3>3
    <3> HIDE DEF K
    <3>5. IsLedger(K) /\ DOMAIN K.offers = DOMAIN L.offers \ r
      BY <3>4 DEF Cleared
    <3>6. m \in DOMAIN K.offers
      BY <3>1, <3>5
    <3>7. Cleared(K, F[s], {m})
      BY <3>2, <3>5, <3>6, TakeOffer
    <3>8. IsLedger(F[s]) /\ DOMAIN F[s].offers = DOMAIN L.offers \ s
      BY <3>1, <3>5, <3>7 DEF Cleared
    <3>9. Fine(F[s]) => Fine(K) /\ Traded(L, F[s], 0)
      <4> HAVE Fine(F[s])
      <4>1. Traded(K, F[s], 0) /\ Fine(K)
        BY <3>7 DEF Cleared, Traded
      <4>2. Traded(L, K, 0)
        BY <3>4, <4>1 DEF Cleared
      <4>3. 0 \in Int
        OBVIOUS
      <4> QED BY <4>1, <4>2, <4>3, TradedAfter
    <3>10. Cleared(L, F[s], s)
      BY <3>8, <3>9 DEF Cleared
    <3>11. Thinned(mode, K, F[s], a, asset, side)
      BY <3>2, <3>5, <3>6, TakeThins
    <3>12. DOMAIN F[s].offers \subseteq DOMAIN K.offers
      BY <3>5, <3>8, <3>3
    <3>13. Thinned(mode, L, F[s], a, asset, side)
      BY <3>4, <3>9, <3>11, <3>12, ThinnedOn
    <3> QED BY <3>10, <3>13
  <2> QED BY <2>1, <2>2
<1>4. SUBSET S \subseteq H
  <2> HIDE DEF H
  <2> QED BY <1>1, <1>3, SubsetInduction
<1> QED BY <1>4

LEMMA TakenThins ==
    ASSUME NEW L, IsLedger(L), NEW S \in SUBSET DOMAIN L.offers, NEW a, NEW asset, NEW side \in Sides
    PROVE  /\ Thinned("clear", L, clearOffers(L, S), a, asset, side)
           /\ Thinned("erase", L, eraseOffers(L, S), a, asset, side)
<1>1. IsFiniteSet(S) /\ S \subseteq Nat
  <2>1. IsFiniteSet(DOMAIN L.offers) /\ DOMAIN L.offers \subseteq Nat
    BY DEF IsLedger, AreOffers
  <2> QED BY <2>1, FS_Subset
<1>2. Thinned("clear", L, clearOffers(L, S), a, asset, side)
  BY <1>1, ClearOffersIs, TakeAllThins
<1>3. Thinned("erase", L, eraseOffers(L, S), a, asset, side)
  BY <1>1, EraseOffersIs, TakeAllThins
<1> QED BY <1>2, <1>3

\* A line is revoked after its offers are gone.
LEMMA SetAuthorizedSecures ==
    ASSUME NEW L, IsLedger(L), NEW b, NEW other, NEW line, line = <<b, other>>,
           line \in DOMAIN L.tl, NEW x, NEW M, AuthorizedSet(L, M, line, x),
           NEW a, NEW asset, NEW side,
           \/ x \/ other = Native \/ ~L.tl[line].authorized
           \/ \A i \in DOMAIN L.offers : Share(L.offers[i], b, other, side) = 0
    PROVE  Secures(L, M, a, asset, side)
<1> DEFINE h == L.tl[line]
           k == [h EXCEPT !.authorized = x]
<1>1. LineSet(L, M, line, k)
  BY FieldAuthorized DEF IsLedger, LineSet, AuthorizedSet
<1>2. IsLine(h)
  BY DEF IsLedger, AreLines
<1>3. k.buying = h.buying /\ k.selling = h.selling /\ k.authorized = x
  BY <1>2 DEF IsLine
<1> HIDE DEF k
<1>4. /\ M.offers = L.offers /\ DOMAIN M.tl = DOMAIN L.tl
      /\ M.tl[line] = k /\ \A l \in DOMAIN L.tl : l # line => M.tl[l] = L.tl[l]
      /\ Liable(M, a, asset, side) = Liable(L, a, asset, side)
  BY <1>1, <1>3, LineAlike
<1>5. Pledged(M, a, asset, side) = Pledged(L, a, asset, side)
  BY <1>4 DEF Pledged, SharesOf
<1>6. NoOwnLines(L) => NoOwnLines(M)
  BY <1>4 DEF NoOwnLines
<1>7. CoveredAt(L, a, asset, side) => CoveredAt(M, a, asset, side)
  BY <1>4, <1>5 DEF CoveredAt, Slack
<1>8. ASSUME Frozen(M, a, asset), ~Frozen(L, a, asset)
      PROVE  Pledged(L, a, asset, side) = 0
  <2>1. a = b /\ asset = other /\ asset # Native /\ ~x /\ h.authorized
    <3>1. asset # Native /\ <<a, asset>> \in DOMAIN M.tl /\ ~M.tl[<<a, asset>>].authorized
      BY <1>8, Zenon DEF Frozen
    <3>2. <<a, asset>> \in DOMAIN L.tl /\ L.tl[<<a, asset>>].authorized
      BY <1>4, <1>8, <3>1 DEF Frozen
    <3>3. <<a, asset>> = line
      BY <1>4, <3>1, <3>2
    <3>4. ~x /\ h.authorized
      BY <1>3, <1>4, <3>1, <3>2, <3>3
    <3> QED BY <3>1, <3>3, <3>4
  <2>2. \A i \in DOMAIN L.offers : Share(L.offers[i], a, asset, side) = 0
    BY <2>1
  <2> QED BY <2>2, PledgedByNone
<1>9. Liable(L, a, asset, side) \in Nat
  BY LiableType
<1>10. Slack(M, a, asset, side) = Slack(L, a, asset, side)
  BY <1>4, <1>5 DEF Slack
<1>11. ExactAt(L, a, asset, side) => ExactAt(M, a, asset, side)
  BY <1>4, <1>8, <1>9, <1>10 DEF ExactAt, Slack
<1>12. ThawedAt(L, a, asset, side) => ThawedAt(M, a, asset, side)
  BY <1>4, <1>8, <1>9, <1>10 DEF ThawedAt, Slack
<1> QED BY <1>6, <1>7, <1>11, <1>12 DEF Secures

Revoked(L, op) == L.tl[<<op.trustor, op.asset>>].authorized /\ ~op.authorize

Dropped(L, op) ==
    {i \in DOMAIN L.offers : /\ Revoked(L, op)
                             /\ L.offers[i].seller = op.trustor
                             /\ op.asset \in {L.offers[i].buying, L.offers[i].selling}}

LEMMA AllowTrustIs ==
    ASSUME NEW L, NEW op, NEW r, r = AllowTrust(L, op), r.code = "ok"
    PROVE  /\ <<op.trustor, op.asset>> \in DOMAIN L.tl
           /\ AuthorizedSet(clearOffers(L, Dropped(L, op)), r.L, <<op.trustor, op.asset>>,
                            op.authorize)
<1> DEFINE line == <<op.trustor, op.asset>>
           revoked == L.tl[line].authorized /\ ~op.authorize
           drop == {i \in DOMAIN L.offers :
                       /\ revoked
                       /\ L.offers[i].seller = op.trustor
                       /\ op.asset \in {L.offers[i].buying, L.offers[i].selling}}
           M == [clearOffers(L, drop) EXCEPT !.tl[line].authorized = op.authorize]
<1>1. \/ r = Fail("self not allowed", L)
      \/ r = Fail("trust not required", L)
      \/ r = Fail("cant revoke", L)
      \/ r = Fail("no trust line", L)
      \/ line \in DOMAIN L.tl /\ r = Done(M)
  BY Zenon DEF AllowTrust
<1>2. \A code, K : r = Fail(code, K) => code = "ok"
  BY DEF Fail
<1>3. /\ "self not allowed" # "ok" /\ "trust not required" # "ok"
      /\ "cant revoke" # "ok" /\ "no trust line" # "ok"
  OBVIOUS
<1>4. \A K : Done(K).L = K
  BY DEF Done
<1>5. drop = Dropped(L, op)
  BY DEF Dropped, Revoked
<1>6. M = [clearOffers(L, Dropped(L, op)) EXCEPT !.tl[line].authorized = op.authorize]
  BY <1>5, Zenon
<1> HIDE DEF M, drop
<1>7. line \in DOMAIN L.tl /\ r = Done(M)
  BY <1>1, <1>2, <1>3, Zenon
<1>8. r.L = M
  BY <1>4, <1>7, Zenon
<1> QED BY <1>6, <1>7, <1>8, Zenon DEF AuthorizedSet

LEMMA AllowTrustSecures ==
    ASSUME NEW L, IsLedger(L), NEW op, op.authorize \in BOOLEAN, NEW r, r = AllowTrust(L, op),
           r.code = "ok", Fine(r.L), NEW a, NEW asset, NEW side \in Sides
    PROVE  Secures(L, r.L, a, asset, side)
<1> DEFINE b == op.trustor
           other == op.asset
           line == <<b, other>>
           drop == Dropped(L, op)
           C == clearOffers(L, drop)
<1>1. line \in DOMAIN L.tl /\ AuthorizedSet(C, r.L, line, op.authorize)
  BY AllowTrustIs
<1>2. drop \in SUBSET DOMAIN L.offers
  BY DEF Dropped
<1>3. \A i \in DOMAIN L.offers \ drop :
          Revoked(L, op) => \/ L.offers[i].seller # b
                            \/ L.offers[i].buying # other /\ L.offers[i].selling # other
  BY DEF Dropped
<1> HIDE DEF drop
<1>4. Cleared(L, C, drop)
  BY <1>2, ClearOffers
<1>5. Thinned("clear", L, C, a, asset, side) /\ Thinned("clear", L, C, b, other, side)
  BY <1>2, TakenThins
<1> HIDE DEF C
<1>6. IsLedger(C) /\ DOMAIN C.offers = DOMAIN L.offers \ drop
  BY <1>4 DEF Cleared
<1>7. Fine(C)
  <2> DEFINE N == [C EXCEPT !.tl[line].authorized = op.authorize]
  <2>1. Moved(C, N, 0)
    <3> HIDE DEF line
    <3> QED BY <1>6, SetAuthorized
  <2>2. r.L = N
    BY <1>1, Zenon DEF AuthorizedSet
  <2> HIDE DEF N
  <2> QED BY <2>1, <2>2 DEF Moved
<1>8. /\ \A i \in DOMAIN C.offers : C.offers[i] = L.offers[i]
      /\ Follows(L, C, a, asset, side, 0) /\ Follows(L, C, b, other, side, 0)
  BY <1>5, <1>7 DEF Thinned
<1>9. Secures(L, C, a, asset, side)
  BY <1>8, FollowsSecures
<1>10. line \in DOMAIN C.tl
  BY <1>1, <1>8 DEF Follows
<1>11. Revoked(L, op) => \A i \in DOMAIN C.offers : Share(C.offers[i], b, other, side) = 0
  <2> SUFFICES ASSUME Revoked(L, op), NEW i \in DOMAIN C.offers
               PROVE  Share(C.offers[i], b, other, side) = 0
    OBVIOUS
  <2> DEFINE o == L.offers[i]
  <2>1. C.offers[i] = o
    BY <1>8
  <2>2. o.seller # b \/ (o.buying # other /\ o.selling # other)
    BY <1>3, <1>6
  <2> HIDE DEF o
  <2>3. Share(o, b, other, side) = 0
    BY <2>2 DEF Share
  <2> QED BY <2>1, <2>3
<1>12. op.authorize \/ other = Native \/ ~C.tl[line].authorized \/ Revoked(L, op)
  <2>1. Frozen(L, b, other) <=> Frozen(C, b, other)
    BY <1>8 DEF Follows
  <2>2. ~Revoked(L, op) /\ ~op.authorize => ~L.tl[line].authorized
    BY DEF Revoked
  <2> QED BY <1>1, <2>1, <2>2 DEF Frozen
<1>13. Secures(C, r.L, a, asset, side)
  BY <1>1, <1>6, <1>10, <1>11, <1>12, SetAuthorizedSecures
<1> HIDE DEF line
<1> QED BY <1>9, <1>13, SecuresOn

-----------------------------------------------------------------------------
(* The operations of a transaction. *)

LEMMA DoApplySecures ==
    ASSUME NEW L, Sound(L), Fine(L), NEW op, doCheckValid(op), NEW r, r = doApply(L, op),
           r.code = "ok", Fine(r.L), NEW a, NEW asset, NEW side \in Sides
    PROVE  Secures(L, r.L, a, asset, side)
<1>1. op.src \in DOMAIN L.acc /\ Applies(op, r, L)
  BY DoApplyIs
<1>2. IsLedger(L)
  BY DEF Sound
<1>3. SeqPerLedger \in Nat
  BY ParametersAssumption
<1>4. Follows(L, r.L, a, asset, side, 0) => Secures(L, r.L, a, asset, side)
  BY <1>2, FollowsSecures
<1>5. \A x \in Amount : x \in Nat
  BY Int64Assumption DEF Amount
<1>6. CASE CreateAccount_doCheckValid(op) /\ r = CreateAccount(L, op)
  <2>1. op.amount \in Nat
    BY <1>5, <1>6 DEF CreateAccount_doCheckValid
  <2> QED BY <1>1, <1>2, <1>4, <1>6, <2>1, CreateAccountFollows
<1>7. CASE Payment_doCheckValid(op) /\ r = Payment(L, op)
  <2>1. op.amount \in Nat
    BY <1>5, <1>7 DEF Payment_doCheckValid
  <2> QED BY <1>1, <1>2, <1>4, <1>7, <2>1, PaymentFollows
<1>8. CASE PathPayment_doCheckValid(op) /\ r = PathPayment(L, op)
  <2>1. op.destAmount \in Nat /\ op.sendAsset \in Asset /\ op.path \in Seq(Asset)
    BY <1>5, <1>8 DEF PathPayment_doCheckValid
  <2> QED BY <1>1, <1>2, <1>4, <1>8, <2>1, PathPaymentFollows
<1>9. CASE ManageOffer_doCheckValid(op) /\ r = ManageOffer(L, op)
  BY <1>1, <1>4, <1>9, ManageOfferFollows
<1>10. CASE SetOptions_doCheckValid(op) /\ r = SetOptions(L, op)
  BY <1>1, <1>2, <1>4, <1>10, SetOptionsFollows
<1>11. CASE ChangeTrust_doCheckValid(op) /\ r = ChangeTrust(L, op)
  BY <1>1, <1>2, <1>11, ChangeTrustSecures
<1>12. CASE AllowTrust_doCheckValid(op) /\ r = AllowTrust(L, op)
  <2>1. op.authorize \in BOOLEAN
    BY <1>12 DEF AllowTrust_doCheckValid
  <2> QED BY <1>2, <1>12, <2>1, AllowTrustSecures
<1>13. CASE Merge_doCheckValid(op) /\ r = Merge(L, op)
  BY <1>1, <1>3, <1>13, MergeSecures
<1>14. CASE r = Inflation(L, op)
  BY <1>2, <1>4, <1>14, InflationFollows
<1>15. CASE op.set \in BOOLEAN /\ r = ManageData(L, op)
  BY <1>2, <1>4, <1>15, ManageDataFollows
<1>16. CASE BumpSequence_doCheckValid(op) /\ r = BumpSequence(L, op)
  <2>1. op.bumpTo \in Nat
    BY <1>16 DEF BumpSequence_doCheckValid
  <2> QED BY <1>1, <1>2, <1>4, <1>16, <2>1, BumpSequenceFollows
<1>17. CASE r = MarkAccount(L, op)
  BY <1>17, MarkAccountKeeps, SecuresNot
<1> QED BY <1>1, <1>6, <1>7, <1>8, <1>9, <1>10, <1>11, <1>12, <1>13, <1>14, <1>15, <1>16, <1>17
        DEF Applies

\* As long as no operation failed or threw, the promises are secured.
SecureAfter(L, s, a, asset, side) ==
    /\ SoundAfter(L, s)
    /\ s.ok /\ Fine(s.L) => Secures(L, s.L, a, asset, side)

LEMMA ApplySecures ==
    ASSUME NEW L, Sound(L), NEW a, NEW asset, NEW side \in Sides,
           NEW s, SecureAfter(L, s, a, asset, side), NEW op, doCheckValid(op), NEW t,
           t = apply(s, op)
    PROVE  SecureAfter(L, t, a, asset, side)
<1> DEFINE r == doApply(s.L, op)
<1>1. SoundAfter(L, s) /\ SoundAfter(L, t)
  BY ApplyKeeps DEF SecureAfter
<1>2. SUFFICES ASSUME t.ok, Fine(t.L) PROVE Secures(L, t.L, a, asset, side)
  BY <1>1 DEF SecureAfter
<1>3. CASE ~Fine(s.L)
  <2>1. t = s
    BY <1>3, Zenon DEF apply, Fine
  <2> QED BY <1>2, <1>3, <2>1
<1>4. CASE Fine(s.L)
  <2>1. t = [ok |-> s.ok /\ r.code = "ok", L |-> r.L]
    BY <1>4, Zenon DEF apply, Fine
  <2> HIDE DEF r
  <2>2. s.ok /\ r.code = "ok" /\ t.L = r.L
    <3> DEFINE x == s.ok /\ r.code = "ok"
    <3>1. t = [ok |-> x, L |-> r.L]
      BY <2>1
    <3> HIDE DEF x
    <3>2. t.ok = x /\ t.L = r.L
      BY <3>1
    <3>3. x
      BY <1>2, <3>2, Zenon
    <3> QED BY <3>2, <3>3, Zenon DEF x
  <2>3. Sound(s.L) /\ Secures(L, s.L, a, asset, side)
    BY <1>1, <1>4, <2>2 DEF SecureAfter, SoundAfter
  <2>4. Fine(r.L)
    BY <1>2, <2>2
  <2>5. Secures(s.L, r.L, a, asset, side)
    BY <1>4, <2>2, <2>3, <2>4, DoApplySecures DEF r
  <2> QED BY <2>2, <2>3, <2>5, SecuresOn
<1> QED BY <1>3, <1>4

LEMMA ApplyOperationsSecures ==
    ASSUME NEW L, Sound(L), Fine(L), NEW tx, Len(tx.ops) \in Nat,
           \A k \in 1..Len(tx.ops) : doCheckValid(tx.ops[k]),
           NEW r, r = applyOperations(L, tx), NEW a, NEW asset, NEW side \in Sides
    PROVE  Secures(L, r.L, a, asset, side)
<1> DEFINE n == Len(tx.ops)
           ops == tx.ops
           F == CHOOSE G : AreStates(G, n, L, ops)
           N == {k \in Nat : k <= n => SecureAfter(L, F[k], a, asset, side)}
<1>1. r = Kept(F[n], L)
  BY StatesAre
<1>2. AreStates(F, n, L, ops)
  <2>1. \E G : AreStates(G, n, L, ops)
    BY StatesExist
  <2> QED BY <2>1, Zenon
<1> HIDE DEF F
<1>3. F[0] = FirstState(L) /\ \A k \in 1..n : F[k] = apply(F[k - 1], ops[k])
  BY <1>2 DEF AreStates
<1> HIDE DEF n, ops
<1>4. n \in Nat /\ \A k \in 1..n : doCheckValid(ops[k])
  BY DEF n, ops
<1>5. 0 \in N
  <2>1. FirstState(L).L = L
    BY DEF FirstState
  <2>2. SecureAfter(L, FirstState(L), a, asset, side)
    BY <2>1, FirstStateIs, SecuresNot DEF SecureAfter
  <2> QED BY <1>3, <2>2
<1>6. ASSUME NEW k \in Nat, k \in N PROVE k + 1 \in N
  <2> SUFFICES ASSUME k + 1 <= n PROVE SecureAfter(L, F[k + 1], a, asset, side)
    OBVIOUS
  <2>1. k + 1 \in 1..n /\ k <= n /\ (k + 1) - 1 = k
    BY <1>4
  <2>2. /\ SecureAfter(L, F[k], a, asset, side) /\ F[k + 1] = apply(F[k], ops[k + 1])
        /\ doCheckValid(ops[k + 1])
    BY <1>3, <1>4, <1>6, <2>1
  <2> QED BY <2>2, ApplySecures
<1>7. Nat \subseteq N
  <2> HIDE DEF N
  <2> QED BY <1>5, <1>6, Induction
<1>8. SecureAfter(L, F[n], a, asset, side)
  <2>1. n \in N
    BY <1>4, <1>7
  <2> QED BY <1>4, <2>1
<1> DEFINE end == F[n]
<1> HIDE DEF end
<1>9. r.L = IF end.ok /\ Fine(end.L) THEN end.L ELSE L
  BY <1>1 DEF Kept, end
<1>10. end.ok /\ Fine(end.L) => Secures(L, end.L, a, asset, side)
  BY <1>8 DEF end, SecureAfter
<1> QED BY <1>9, <1>10, SecuresNot

LEMMA AlikeOn ==
    ASSUME NEW L, NEW M, NEW N, Alike(L, M), Alike(M, N)
    PROVE  Alike(L, N)
BY DEF Alike

LEMMA HeaderAlike ==
    ASSUME NEW L, NEW M, SameEntries(L, M)
    PROVE  Alike(L, M)
BY DEF SameEntries, Alike

LEMMA FeeAlike ==
    ASSUME NEW L, IsLedger(L), NEW b \in DOMAIN L.acc, NEW fee, NEW M, WithFee(L, b, fee, M)
    PROVE  Alike(L, M)
<1> DEFINE h == L.acc[b]
           x == h.balance - fee
           y == L.feePool + fee
           k == [h EXCEPT !.balance = x]
           N == [L EXCEPT !.acc[b] = k]
<1>1. LedgerFields(L) /\ IsAccount(h)
  BY DEF IsLedger, AreAccounts
<1>2. WithFeePool(N, y, M)
  BY <1>1, FieldFee DEF WithFee, WithFeePool
<1>3. k.buying = h.buying /\ k.selling = h.selling
  BY <1>1 DEF IsAccount
<1>4. LedgerFields(N)
  BY <1>1 DEF LedgerFields
<1> HIDE DEF k, y
<1>5. Alike(L, N)
  BY <1>3, OwnerAlike
<1> HIDE DEF N
<1>6. SameEntries(N, M)
  BY <1>2, <1>4, FieldFeePool
<1> QED BY <1>5, <1>6, HeaderAlike, AlikeOn

LEMMA BaseSecures ==
    ASSUME NEW L, Sound(L), Fine(L), NEW tx, Len(tx.ops) \in Nat, checkValid(L, tx),
           NEW new, Opened(L, new),
           NEW B, B = processSeqNum(processFeeSeqNum(new, tx), tx),
           NEW a, NEW asset, NEW side
    PROVE  Secures(L, B, a, asset, side)
<1> DEFINE b == tx.src
           fee == Min({new.acc[b].balance, BaseFee * Len(tx.ops)})
           M == [new EXCEPT !.acc[b].balance = new.acc[b].balance - fee,
                            !.feePool = new.feePool + fee]
<1>1. Sound(new) /\ Fine(new) /\ new.acc = L.acc
  BY NextLedger
<1>2. /\ b \in DOMAIN new.acc /\ fee \in Nat
      /\ fee <= new.acc[b].balance - new.acc[b].selling
  BY <1>1, FeeFits
<1>3. processFeeSeqNum(new, tx) = M
  BY DEF processFeeSeqNum
<1> HIDE DEF fee
<1>4. WithFee(new, b, fee, M)
  BY DEF WithFee
<1> HIDE DEF M
<1>5. Sound(M) /\ DOMAIN M.acc = DOMAIN new.acc
  <2> HIDE DEF b
  <2> QED BY <1>1, <1>2, <1>4, FeePaid
<1>6. Alike(new, M)
  <2> HIDE DEF b
  <2> QED BY <1>1, <1>2, <1>4, FeeAlike DEF Sound
<1>7. Alike(L, new)
  <2> DEFINE x == L.ledgerSeq + 1
  <2>1. LedgerFields(L) /\ new = [L EXCEPT !.ledgerSeq = x]
    BY DEF Sound, IsLedger, Opened
  <2> HIDE DEF x
  <2>2. SameEntries(L, new)
    BY <2>1, FieldLedgerSeq
  <2> QED BY <2>2, HeaderAlike
<1> DEFINE x == M.acc[b].seqNum + 1
<1>8. B = [M EXCEPT !.acc[b].seqNum = x]
  BY <1>3 DEF processSeqNum
<1>9. IsLedger(M) /\ b \in DOMAIN M.acc
  BY <1>2, <1>5 DEF Sound
<1>10. M.acc[b].seqNum \in Nat
  BY <1>9, UncountedType
<1>11. x \in Nat /\ x >= M.acc[b].seqNum
  BY <1>10
<1> HIDE DEF x
<1>12. OptionSet(M, B, b, x)
  BY <1>8, <1>11 DEF OptionSet
<1> HIDE DEF b
<1>13. Alike(M, B)
  BY <1>9, <1>12, OptionAlike
<1>14. Alike(L, B)
  BY <1>6, <1>7, <1>13, AlikeOn
<1>15. Follows(L, B, a, asset, side, 0)
  BY <1>14, AlikeFollows DEF Sound
<1> QED BY <1>15, FollowsSecures DEF Sound

-----------------------------------------------------------------------------
(* An upgrade that raises the reserve. *)

\* An offer that promises nothing on one side is adjusted away.
LEMMA AdjustedAway ==
    ASSUME NEW o, IsOffer(o), NEW p, p = OfferLiabilities(o.price, o.amount),
           p.numWheatReceived = 0 \/ p.numSheepSend = 0
    PROVE  adjustOffer(o.price, o.amount, INT64_MAX).numWheatReceived = 0
<1> DEFINE m == INT64_MAX
           x == o.price
           w == o.amount
           out == adjustOffer(x, w, m)
<1>1. x \in Price /\ w \in Nat /\ m \in Nat /\ FALSE \in BOOLEAN
  BY Int64Assumption DEF IsOffer
<1>2. p = exchangeV10WithoutPriceErrorThresholds(x, w, m, m, m, FALSE)
  BY DEF OfferLiabilities
<1>3. out = applyPriceErrorThresholds(x, p, FALSE)
  BY <1>2, Zenon DEF adjustOffer, exchangeV10
<1> HIDE DEF x, w, m, out
<1>4. p \in Exchanged /\ FavoursWhoStays(p, x)
  BY <1>1, <1>2, ExchangeWithinLimits
<1>5. out = NothingOf(p)
  BY <1>1, <1>3, <1>4, Thresholds
<1>6. out.numWheatReceived = 0
  BY <1>1, <1>4, <1>5, NothingIsExchanged
<1> QED BY <1>6 DEF out, x, w, m

\* What the offers of an account promise of an asset that others issue.
LEMMA PromisesArePledged ==
    ASSUME NEW L, IsLedger(L), NEW a, NEW asset, ~isIssuer(a, asset), NEW side \in Sides
    PROVE  Promises(L, Owned(L, a), asset, side) = Pledged(L, a, asset, side)
<1> DEFINE ids == Owned(L, a)
           D == DOMAIN L.offers
           g == SharesOf(L, a, asset, side)
           v(i) == LET o == L.offers[i] IN
                   IF side = "buying" /\ o.buying = asset
                   THEN OfferLiabilities(o.price, o.amount).numSheepSend
                   ELSE IF side = "selling" /\ o.selling = asset
                   THEN OfferLiabilities(o.price, o.amount).numWheatReceived ELSE 0
           f == [i \in ids |-> v(i)]
<1>1. ids \in SUBSET D /\ IsFiniteSet(D)
  BY DEF Owned, IsLedger, AreOffers
<1>2. Promises(L, ids, asset, side) = SumFunctionOnSet(f, ids)
  <2>1. Promises(L, ids, asset, side) = SumFunction(f)
    BY Zenon DEF Promises
  <2> HIDE DEF v
  <2>2. DOMAIN f = ids
    OBVIOUS
  <2> HIDE DEF f
  <2> QED BY <2>1, <2>2 DEF SumFunction
<1>3. \A i \in D : g[i] \in Int
  <2>1. \A i \in D : Share(L.offers[i], a, asset, side) \in Nat
    BY SharesType
  <2> QED BY <2>1 DEF SharesOf
<1>4. \A i \in ids : g[i] = f[i]
  <2> SUFFICES ASSUME NEW i \in ids PROVE g[i] = f[i]
    OBVIOUS
  <2> DEFINE o == L.offers[i]
  <2>1. o.seller = a /\ i \in D
    BY DEF Owned
  <2>2. g[i] = Share(o, a, asset, side)
    BY <2>1 DEF SharesOf
  <2>3. f[i] = v(i)
    OBVIOUS
  <2>4. Share(o, a, asset, side) = v(i)
    BY <2>1 DEF Share, Sides
  <2> QED BY <2>2, <2>3, <2>4
<1>5. \A i \in D \ ids : g[i] = 0
  <2> SUFFICES ASSUME NEW i \in D \ ids PROVE g[i] = 0
    OBVIOUS
  <2>1. L.offers[i].seller # a
    BY DEF Owned
  <2>2. Share(L.offers[i], a, asset, side) = 0
    BY <2>1 DEF Share
  <2> QED BY <2>2 DEF SharesOf
<1> HIDE DEF f, g, ids, D
<1>6. SumFunctionOnSet(g, D) = SumFunctionOnSet(f, ids)
  BY <1>1, <1>3, <1>4, <1>5, SumExtend
<1> QED BY <1>2, <1>6 DEF Pledged, g, ids, D

LEMMA RealignIs ==
    ASSUME NEW L, IsLedger(L), NEW b, NEW other, NEW M, M = realign(L, b, other), Fine(M),
           NEW h, h = Holding(L, b, other),
           NEW x, x = Promises(L, Owned(L, b), other, "selling") - h.selling,
           NEW y, y = Promises(L, Owned(L, b), other, "buying") - h.buying,
           NEW sold, sold = addSellingLiabilities(L, b, other, x),
           NEW bought, bought = addBuyingLiabilities(sold.L, b, other, y)
    PROVE  IF isIssuer(b, other) THEN M = L ELSE sold.ok /\ bought.ok /\ M = bought.L
<1>1. \/ isIssuer(b, other) /\ M = L
      \/ M = throw(L, "invalid selling liabilities during upgrade")
      \/ M = throw(L, "invalid buying liabilities during upgrade")
      \/ ~isIssuer(b, other) /\ sold.ok /\ bought.ok /\ M = bought.L
  BY Zenon DEF realign
<1>2. /\ Named("invalid selling liabilities during upgrade")
      /\ Named("invalid buying liabilities during upgrade")
  BY Zenon DEF Named
<1>3. /\ ~Fine(throw(L, "invalid selling liabilities during upgrade"))
      /\ ~Fine(throw(L, "invalid buying liabilities during upgrade"))
  BY <1>2, MovedThrow
<1> QED BY <1>1, <1>3, Zenon

LEMMA NobodyIsSet ==
    ASSUME NEW L, IsLedger(L), NEW b, NEW other, ~Exists(L, b, other), NEW delta
    PROVE  /\ addBuyingLiabilities(L, b, other, delta).L = L
           /\ addSellingLiabilities(L, b, other, delta).L = L
<1>1. \A k : SetHolding(L, b, other, k) = L
  BY SetHoldingOfNobody DEF Exists
<1>2. \A ok, K : Result(ok, K).L = K
  BY DEF Result
<1>3. addBuyingLiabilities(L, b, other, delta).L = L
  <2>1. \/ addBuyingLiabilities(L, b, other, delta) = Result(TRUE, L)
        \/ \E k : addBuyingLiabilities(L, b, other, delta)
                      = Result(TRUE, SetHolding(L, b, other, k))
        \/ addBuyingLiabilities(L, b, other, delta) = Result(FALSE, L)
    BY Zenon DEF addBuyingLiabilities
  <2> QED BY <1>1, <1>2, <2>1
<1>4. addSellingLiabilities(L, b, other, delta).L = L
  <2>1. \/ addSellingLiabilities(L, b, other, delta) = Result(TRUE, L)
        \/ \E k : addSellingLiabilities(L, b, other, delta)
                      = Result(TRUE, SetHolding(L, b, other, k))
        \/ addSellingLiabilities(L, b, other, delta) = Result(FALSE, L)
    BY Zenon DEF addSellingLiabilities
  <2> QED BY <1>1, <1>2, <2>1
<1> QED BY <1>3, <1>4

\* The line b, other of L is brought in line in M.
Aligns(L, M, b, other, a, asset, side) ==
    Liable(M, a, asset, side) =
        IF a = b /\ asset = other /\ ~isIssuer(a, asset) /\ Exists(L, a, asset)
        THEN Pledged(L, a, asset, side) ELSE Liable(L, a, asset, side)

LEMMA RealignAligns ==
    ASSUME NEW L, IsLedger(L), NEW b, NEW other, NEW M, M = realign(L, b, other), Fine(M),
           NEW a, NEW asset, NEW side \in Sides
    PROVE  Aligns(L, M, b, other, a, asset, side)
<1> DEFINE h == Holding(L, b, other)
           sells == Promises(L, Owned(L, b), other, "selling")
           buys == Promises(L, Owned(L, b), other, "buying")
           x == sells - h.selling
           y == buys - h.buying
           sold == addSellingLiabilities(L, b, other, x)
           bought == addBuyingLiabilities(sold.L, b, other, y)
<1>1. IF isIssuer(b, other) THEN M = L ELSE sold.ok /\ bought.ok /\ M = bought.L
  BY RealignIs
<1>2. "buying" \in Sides /\ "selling" \in Sides /\ "buying" # "selling"
  BY DEF Sides
<1>3. CASE isIssuer(b, other)
  BY <1>1, <1>3 DEF Aligns
<1>4. CASE ~isIssuer(b, other) /\ ~Exists(L, b, other)
  <2>1. M = bought.L
    BY <1>1, <1>4
  <2> HIDE DEF x, y
  <2>2. sold.L = L
    BY <1>4, NobodyIsSet
  <2> HIDE DEF sold
  <2>3. bought.L = L
    BY <1>4, <2>2, NobodyIsSet
  <2> HIDE DEF bought
  <2> QED BY <1>4, <2>1, <2>3 DEF Aligns
<1>5. CASE ~isIssuer(b, other) /\ Exists(L, b, other)
  <2>1. sold.ok /\ bought.ok /\ M = bought.L
    BY <1>1, <1>5
  <2>2. sells = Pledged(L, b, other, "selling") /\ buys = Pledged(L, b, other, "buying")
    BY <1>2, <1>5, PromisesArePledged
  <2>3. sells \in Nat /\ buys \in Nat
    BY <2>2, SharesType
  <2>4. h.buying \in Nat /\ h.selling \in Nat
    BY <1>5, HoldingFields, Zenon
  <2>5. /\ Liable(L, b, other, "selling") = h.selling
        /\ Liable(L, b, other, "buying") = h.buying
    BY <1>2, <1>5 DEF Liable, LiabilityOf
  <2> HIDE DEF h, sells, buys
  <2>6. x \in Int /\ y \in Int
    BY <2>3, <2>4
  <2>7. x = sells - h.selling /\ y = buys - h.buying
    OBVIOUS
  <2> HIDE DEF x, y
  <2>8. Shifts(L, sold.L, a, asset, side, OnSide(b, other, "selling", a, asset, side, x))
    BY <1>5, <2>1, <2>6, SellingShifts
  <2>9. Moved(L, sold.L, 0)
    BY <2>6, AddSellingLiabilities
  <2> HIDE DEF sold
  <2>10. IsLedger(sold.L) /\ (Exists(sold.L, b, other) <=> Exists(L, b, other))
    BY <2>9 DEF Moved, Exists
  <2>11. Shifts(sold.L, M, a, asset, side, OnSide(b, other, "buying", a, asset, side, y))
    BY <1>5, <2>1, <2>6, <2>10, BuyingShifts
  <2> HIDE DEF bought
  <2>12. Liable(M, a, asset, side) = (Liable(L, a, asset, side)
             + OnSide(b, other, "selling", a, asset, side, x))
             + OnSide(b, other, "buying", a, asset, side, y)
    BY <2>8, <2>11 DEF Shifts
  <2>13. Liable(L, a, asset, side) \in Nat
    BY LiableType
  <2>14. CASE a = b /\ asset = other
    <3>1. CASE side = "selling"
      <4>1. OnSide(b, other, "selling", a, asset, side, x) = x
        BY <1>5, <2>14, <3>1 DEF OnSide
      <4>2. OnSide(b, other, "buying", a, asset, side, y) = 0
        BY <1>2, <3>1 DEF OnSide
      <4>3. Liable(M, a, asset, side) = sells
        BY <2>3, <2>4, <2>5, <2>7, <2>12, <2>14, <3>1, <4>1, <4>2
      <4> QED BY <1>5, <2>2, <2>14, <3>1, <4>3 DEF Aligns
    <3>2. CASE side = "buying"
      <4>1. OnSide(b, other, "buying", a, asset, side, y) = y
        BY <1>5, <2>14, <3>2 DEF OnSide
      <4>2. OnSide(b, other, "selling", a, asset, side, x) = 0
        BY <1>2, <3>2 DEF OnSide
      <4>3. Liable(M, a, asset, side) = buys
        BY <2>3, <2>4, <2>5, <2>7, <2>12, <2>14, <3>2, <4>1, <4>2
      <4> QED BY <1>5, <2>2, <2>14, <3>2, <4>3 DEF Aligns
    <3> QED BY <3>1, <3>2 DEF Sides
  <2>15. CASE ~ (a = b /\ asset = other)
    <3>1. /\ OnSide(b, other, "selling", a, asset, side, x) = 0
          /\ OnSide(b, other, "buying", a, asset, side, y) = 0
      BY <2>15 DEF OnSide
    <3>2. Liable(M, a, asset, side) = Liable(L, a, asset, side)
      BY <2>12, <2>13, <3>1
    <3> QED BY <2>15, <3>2 DEF Aligns
  <2> QED BY <2>14, <2>15
<1> QED BY <1>3, <1>4, <1>5

\* All lines of s are brought in line in M.
AlignsAll(L, M, s, a, asset, side) ==
    Fine(M) => Liable(M, a, asset, side) =
                   IF <<a, asset>> \in s /\ ~isIssuer(a, asset) /\ Exists(L, a, asset)
                   THEN Pledged(L, a, asset, side) ELSE Liable(L, a, asset, side)

LEMMA RealignAllAligns ==
    ASSUME NEW L, IsLedger(L), NEW S, IsFiniteSet(S), \A l \in S : l = <<l[1], l[2]>>,
           NEW a, NEW asset, NEW side \in Sides
    PROVE  AlignsAll(L, realignAll(L, S), S, a, asset, side)
<1>1. PICK F : IsChain(F, "realign", L, S) /\ realignAll(L, S) = F[S]
  BY RealignAllIs
<1> DEFINE H == {s \in SUBSET S : Moved(L, F[s], 0) /\ AlignsAll(L, F[s], s, a, asset, side)}
<1>2. \A t \in SUBSET S : t # {} =>
          F[t] = Taking("realign", F[t \ {LastOf("realign", t)}], LastOf("realign", t))
  <2>1. IsChain(F, "realign", L, S)
    BY <1>1
  <2> QED BY <2>1 DEF IsChain
<1>3. F[{}] = L
  BY <1>1, ChainStart
<1>4. ASSUME NEW s \in SUBSET S, \A t \in SUBSET s : t # s => t \in H
      PROVE  s \in H
  <2>1. CASE s = {}
    <3>1. F[s] = L
      BY <1>3, <2>1
    <3>2. Moved(L, F[s], 0)
      BY <3>1, MovedNot
    <3>3. AlignsAll(L, F[s], s, a, asset, side)
      BY <2>1, <3>1 DEF AlignsAll
    <3> QED BY <3>2, <3>3
  <2>2. CASE s # {}
    <3> DEFINE m == LastOf("realign", s)
               r == s \ {m}
               K == F[r]
    <3>1. m \in s
      BY <2>2, LastLine
    <3>2. F[s] = Taking("realign", K, m)
      BY <1>2, <2>2
    <3>3. r \in SUBSET s /\ r # s /\ \A l : l \in s <=> l \in r \/ l = m
      BY <3>1
    <3>4. m = <<m[1], m[2]>>
      <4>1. m \in S
        BY <3>1
      <4> HIDE DEF m
      <4> QED BY <4>1
    <3> HIDE DEF m
    <3>5. Moved(L, K, 0) /\ AlignsAll(L, K, r, a, asset, side)
      BY <1>4, <3>3
    <3> HIDE DEF K
    <3>6. IsLedger(K) /\ (Exists(K, a, asset) <=> Exists(L, a, asset))
      BY <3>5 DEF Moved, Exists
    <3>7. Pledged(K, a, asset, side) = Pledged(L, a, asset, side)
      BY <3>5 DEF Moved, Pledged, SharesOf
    <3>8. F[s] = realign(K, m[1], m[2])
      BY <3>2 DEF Taking
    <3>9. Moved(K, F[s], 0)
      BY <3>6, <3>8, RealignMoves
    <3>10. Moved(L, F[s], 0)
      <4>1. Moved(L, F[s], 0 + 0)
        BY <3>5, <3>9, MovedOn
      <4>2. 0 + 0 = 0
        OBVIOUS
      <4> QED BY <4>1, <4>2
    <3>11. ASSUME Fine(F[s])
           PROVE  Liable(F[s], a, asset, side) =
                      IF <<a, asset>> \in s /\ ~isIssuer(a, asset) /\ Exists(L, a, asset)
                      THEN Pledged(L, a, asset, side) ELSE Liable(L, a, asset, side)
      <4>1. Fine(K)
        BY <3>9, <3>11 DEF Moved
      <4>2. Liable(K, a, asset, side) =
                IF <<a, asset>> \in r /\ ~isIssuer(a, asset) /\ Exists(L, a, asset)
                THEN Pledged(L, a, asset, side) ELSE Liable(L, a, asset, side)
        BY <3>5, <4>1 DEF AlignsAll
      <4>3. Aligns(K, F[s], m[1], m[2], a, asset, side)
        BY <3>6, <3>8, <3>11, RealignAligns
      <4>4. Liable(F[s], a, asset, side) =
                IF a = m[1] /\ asset = m[2] /\ ~isIssuer(a, asset) /\ Exists(L, a, asset)
                THEN Pledged(L, a, asset, side) ELSE Liable(K, a, asset, side)
        BY <3>6, <3>7, <4>3 DEF Aligns
      <4>5. <<a, asset>> \in s <=> <<a, asset>> \in r \/ (a = m[1] /\ asset = m[2])
        BY <3>3, <3>4
      <4> QED BY <4>2, <4>4, <4>5
    <3>12. AlignsAll(L, F[s], s, a, asset, side)
      BY <3>11 DEF AlignsAll
    <3> QED BY <3>10, <3>12
  <2> QED BY <2>1, <2>2
<1>5. SUBSET S \subseteq H
  <2> HIDE DEF H
  <2> QED BY <1>4, SubsetInduction
<1> QED BY <1>1, <1>5

-----------------------------------------------------------------------------
(* Offers that are erased and lines that are brought in line. *)

\* M has the accounts and lines of L, with liabilities changed and some sub-entries less.
Eased(L, M) ==
    /\ IsLedger(M) /\ M.baseReserve = L.baseReserve
    /\ DOMAIN M.acc = DOMAIN L.acc /\ DOMAIN M.tl = DOMAIN L.tl
    /\ \A a \in DOMAIN L.acc : /\ M.acc[a].balance = L.acc[a].balance
                               /\ M.acc[a].numSubEntries <= L.acc[a].numSubEntries
    /\ \A l \in DOMAIN L.tl : M.tl[l].authorized = L.tl[l].authorized

LEMMA EasedNot ==
    ASSUME NEW L, IsLedger(L), NEW M, IsLedger(M), M.acc = L.acc, M.tl = L.tl,
           M.baseReserve = L.baseReserve
    PROVE  Eased(L, M)
<1>1. \A a \in DOMAIN L.acc : L.acc[a].numSubEntries \in Nat
  BY UncountedType
<1> QED BY <1>1 DEF Eased

LEMMA EasedOn ==
    ASSUME NEW L, IsLedger(L), NEW M, NEW N, Eased(L, M), Eased(M, N)
    PROVE  Eased(L, N)
<1>1. \A a \in DOMAIN L.acc : L.acc[a].numSubEntries \in Nat
  BY UncountedType
<1>2. IsLedger(M) /\ IsLedger(N)
  BY DEF Eased
<1>3. /\ \A a \in DOMAIN M.acc : M.acc[a].numSubEntries \in Nat
      /\ \A a \in DOMAIN N.acc : N.acc[a].numSubEntries \in Nat
  BY <1>2, UncountedType
<1> QED BY <1>1, <1>3 DEF Eased

LEMMA ThrowEases ==
    ASSUME NEW L, IsLedger(L), NEW what, NEW M, M = throw(L, what)
    PROVE  Eased(L, M)
<1>1. IsLedger(M) /\ M.baseReserve = L.baseReserve
  BY MovedThrow DEF Moved, SameHeader
<1>2. M.acc = L.acc /\ M.tl = L.tl
  <2>1. M = L \/ M = [L EXCEPT !.err = what]
    BY DEF throw
  <2> QED BY <2>1, FieldErr DEF IsLedger
<1> QED BY <1>1, <1>2, EasedNot

LEMMA CountDownEases ==
    ASSUME NEW L, IsLedger(L), NEW b, NEW M, M = addNumEntries(L, b, -1).L
    PROVE  Eased(L, M)
<1>1. -1 \in Int
  OBVIOUS
<1>2. CASE M = L
  BY <1>2, EasedNot
<1>3. CASE \E w : M = throw(L, w)
  BY <1>3, ThrowEases
<1>4. CASE addNumEntries(L, b, -1).ok
  <2>1. Charged(L, M, b, -1)
    BY <1>1, <1>4, AddNumEntries
  <2>2. /\ IsLedger(M) /\ SameHeader(L, M) /\ DOMAIN M.acc = DOMAIN L.acc /\ M.tl = L.tl
        /\ \A c \in DOMAIN L.acc :
              /\ M.acc[c] = [L.acc[c] EXCEPT !.numSubEntries = M.acc[c].numSubEntries]
              /\ M.acc[c].numSubEntries = L.acc[c].numSubEntries + (IF c = b THEN -1 ELSE 0)
    BY <2>1 DEF Charged
  <2>3. ASSUME NEW c \in DOMAIN L.acc
        PROVE  /\ M.acc[c].balance = L.acc[c].balance
               /\ M.acc[c].numSubEntries <= L.acc[c].numSubEntries
    <3>1. IsAccount(L.acc[c]) /\ L.acc[c].numSubEntries \in Nat
      BY UncountedType DEF IsLedger, AreAccounts
    <3>2. M.acc[c].balance = L.acc[c].balance
      BY <2>2, <3>1 DEF IsAccount
    <3>3. M.acc[c].numSubEntries = L.acc[c].numSubEntries + (IF c = b THEN -1 ELSE 0)
      BY <2>2
    <3> QED BY <3>1, <3>2, <3>3
  <2> QED BY <2>2, <2>3 DEF Eased, SameHeader
<1>5. M = L \/ (\E w : M = throw(L, w)) \/ addNumEntries(L, b, -1).ok
  BY DEF addNumEntries, Result
<1> QED BY <1>2, <1>3, <1>4, <1>5

LEMMA EraseEases ==
    ASSUME NEW L, IsLedger(L), NEW id, NEW M, M = eraseOffer(L, id)
    PROVE  Eased(L, M)
<1> DEFINE f == Without(L.offers, id)
           N == [L EXCEPT !.offers = f]
<1>1. M = addNumEntries(N, L.offers[id].seller, -1).L
  BY DEF eraseOffer
<1>2. AreOffers(f)
  BY WithoutOffer DEF IsLedger
<1>3. IsLedger(N) /\ N.acc = L.acc /\ N.tl = L.tl /\ N.baseReserve = L.baseReserve
  BY <1>2, PutOffers DEF SameHeader
<1> HIDE DEF N
<1>4. Eased(L, N)
  BY <1>3, EasedNot
<1>5. Eased(N, M)
  BY <1>1, <1>3, CountDownEases
<1> QED BY <1>4, <1>5, EasedOn

\* A holding whose liabilities are set keeps the rest.
LEMMA HoldingEases ==
    ASSUME NEW L, IsLedger(L), NEW b, NEW other, NEW h, h = Holding(L, b, other), NEW x, NEW k,
           k = [h EXCEPT !.buying = x] \/ k = [h EXCEPT !.selling = x],
           NEW M, M = SetHolding(L, b, other, k), IsLedger(M), M.baseReserve = L.baseReserve
    PROVE  Eased(L, M)
<1>1. CASE ~Exists(L, b, other)
  <2>1. M = L
    BY <1>1, SetHoldingOfNobody DEF Exists
  <2> QED BY <2>1, EasedNot
<1>2. CASE Exists(L, b, other)
  <2>1. LedgerFields(L)
    BY DEF IsLedger
  <2>2. CASE other = Native
    <3> DEFINE f == [L.acc EXCEPT ![b] = k]
    <3>1. M = [L EXCEPT !.acc = f]
      BY <2>1, <2>2, FieldAccAt DEF SetHolding
    <3>2. M.acc = f /\ M.tl = L.tl
      BY <2>1, <3>1, FieldAcc
    <3>3. IsAccount(h) /\ h = L.acc[b]
      BY <1>2, <2>2 DEF Exists, Holding, IsLedger, AreAccounts
    <3>4. k.balance = h.balance /\ k.numSubEntries = h.numSubEntries
      BY <3>3 DEF IsAccount
    <3>5. \A a \in DOMAIN L.acc : L.acc[a].numSubEntries \in Nat
      BY UncountedType
    <3> QED BY <3>2, <3>3, <3>4, <3>5 DEF Eased
  <2>3. CASE other # Native
    <3> DEFINE f == [L.tl EXCEPT ![<<b, other>>] = k]
    <3>1. M = [L EXCEPT !.tl = f]
      BY <2>1, <2>3, FieldTlAt DEF SetHolding
    <3>2. M.tl = f /\ M.acc = L.acc
      BY <2>1, <3>1, FieldTl
    <3>3. IsLine(h) /\ h = L.tl[<<b, other>>]
      BY <1>2, <2>3 DEF Exists, Holding, IsLedger, AreLines
    <3>4. k.authorized = h.authorized
      BY <3>3 DEF IsLine
    <3>5. \A a \in DOMAIN L.acc : L.acc[a].numSubEntries \in Nat
      BY UncountedType
    <3> QED BY <3>2, <3>3, <3>4, <3>5 DEF Eased
  <2> QED BY <2>2, <2>3
<1> QED BY <1>1, <1>2

LEMMA LiabilitiesEase ==
    ASSUME NEW L, IsLedger(L), NEW b, NEW other, NEW delta, Exists(L, b, other) => delta \in Int,
           NEW M, \/ M = addBuyingLiabilities(L, b, other, delta).L
                  \/ M = addSellingLiabilities(L, b, other, delta).L
    PROVE  Eased(L, M)
<1> DEFINE h == Holding(L, b, other)
<1>1. IsLedger(M) /\ M.baseReserve = L.baseReserve
  BY AddBuyingLiabilities, AddSellingLiabilities DEF Moved, SameHeader
<1>2. \/ M = L
      \/ \E x : M = SetHolding(L, b, other, [h EXCEPT !.buying = x])
      \/ \E x : M = SetHolding(L, b, other, [h EXCEPT !.selling = x])
  BY DEF addBuyingLiabilities, addSellingLiabilities, Result
<1> HIDE DEF h
<1>3. CASE M = L
  BY <1>3, EasedNot
<1>4. CASE \E x : M = SetHolding(L, b, other, [h EXCEPT !.buying = x])
  BY <1>1, <1>4, HoldingEases DEF h
<1>5. CASE \E x : M = SetHolding(L, b, other, [h EXCEPT !.selling = x])
  BY <1>1, <1>5, HoldingEases DEF h
<1> QED BY <1>2, <1>3, <1>4, <1>5

LEMMA RealignEases ==
    ASSUME NEW L, IsLedger(L), NEW b, NEW other, NEW M, M = realign(L, b, other)
    PROVE  Eased(L, M)
<1> DEFINE h == Holding(L, b, other)
           x == Promises(L, Owned(L, b), other, "selling") - h.selling
           y == Promises(L, Owned(L, b), other, "buying") - h.buying
           sold == addSellingLiabilities(L, b, other, x)
           bought == addBuyingLiabilities(sold.L, b, other, y)
<1>1. \/ M = L
      \/ \E what : M = throw(L, what)
      \/ M = bought.L
  BY Zenon DEF realign
<1>2. Exists(L, b, other) => x \in Int /\ y \in Int
  <2> HAVE Exists(L, b, other)
  <2>1. h.buying \in Int /\ h.selling \in Int
    <3>1. h.buying \in Nat /\ h.selling \in Nat
      BY HoldingFields, Zenon
    <3> QED BY <3>1
  <2>2. Owned(L, b) \in SUBSET DOMAIN L.offers
    BY DEF Owned
  <2>3. /\ Promises(L, Owned(L, b), other, "selling") \in Int
        /\ Promises(L, Owned(L, b), other, "buying") \in Int
    BY <2>2, PromisesType
  <2> HIDE DEF h
  <2> QED BY <2>1, <2>3
<1> HIDE DEF x, y
<1>3. Eased(L, sold.L)
  BY <1>2, LiabilitiesEase
<1>4. IsLedger(sold.L) /\ (Exists(sold.L, b, other) <=> Exists(L, b, other))
  BY <1>3 DEF Eased, Exists
<1> HIDE DEF sold
<1>5. Eased(sold.L, bought.L)
  BY <1>2, <1>4, LiabilitiesEase
<1> HIDE DEF bought
<1>6. Eased(L, bought.L)
  BY <1>3, <1>5, EasedOn
<1> QED BY <1>1, <1>6, EasedNot, ThrowEases

LEMMA ChainEases ==
    ASSUME NEW mode \in {"erase", "realign"}, NEW L, IsLedger(L), NEW S, IsFiniteSet(S),
           \A s \in SUBSET S : s # {} => LastOf(mode, s) \in s,
           NEW F, IsChain(F, mode, L, S)
    PROVE  Eased(L, F[S])
<1> DEFINE H == {s \in SUBSET S : Eased(L, F[s])}
<1>1. F[{}] = L
  BY ChainStart
<1>2. \A s \in SUBSET S : s # {} =>
          F[s] = Taking(mode, F[s \ {LastOf(mode, s)}], LastOf(mode, s))
  BY ChainStep
<1>3. \A K, x : Taking(mode, K, x) = eraseOffer(K, x) \/ Taking(mode, K, x) = realign(K, x[1], x[2])
  <2>1. mode # "clear"
    OBVIOUS
  <2> QED BY <2>1, Zenon DEF Taking
<1>4. ASSUME NEW s \in SUBSET S, \A t \in SUBSET s : t # s => t \in H
      PROVE  s \in H
  <2>1. CASE s = {}
    BY <1>1, <2>1, EasedNot
  <2>2. CASE s # {}
    <3> DEFINE m == LastOf(mode, s)
               r == s \ {m}
               K == F[r]
    <3>1. m \in s
      BY <2>2
    <3>2. F[s] = Taking(mode, K, m)
      BY <1>2, <2>2
    <3>3. r \in SUBSET s /\ r # s
      BY <3>1
    <3> HIDE DEF m
    <3>4. Eased(L, K)
      BY <1>4, <3>3
    <3> HIDE DEF K
    <3>5. IsLedger(K)
      BY <3>4 DEF Eased
    <3>6. F[s] = eraseOffer(K, m) \/ F[s] = realign(K, m[1], m[2])
      BY <1>3, <3>2
    <3>7. Eased(K, F[s])
      BY <3>5, <3>6, EraseEases, RealignEases
    <3> QED BY <3>4, <3>7, EasedOn
  <2> QED BY <2>1, <2>2
<1>5. SUBSET S \subseteq H
  <2> HIDE DEF H
  <2> QED BY <1>4, SubsetInduction
<1> QED BY <1>5

LEMMA EraseOffersEases ==
    ASSUME NEW L, IsLedger(L), NEW S \in SUBSET DOMAIN L.offers
    PROVE  Eased(L, eraseOffers(L, S))
<1>1. IsFiniteSet(S) /\ S \subseteq Nat
  <2>1. IsFiniteSet(DOMAIN L.offers) /\ DOMAIN L.offers \subseteq Nat
    BY DEF IsLedger, AreOffers
  <2> QED BY <2>1, FS_Subset
<1>2. PICK F : IsChain(F, "erase", L, S) /\ eraseOffers(L, S) = F[S]
  BY <1>1, EraseOffersIs
<1>3. "erase" # "realign"
  OBVIOUS
<1>4. \A s \in SUBSET S : s # {} => LastOf("erase", s) \in s
  BY <1>1, <1>3, LastOffer
<1> QED BY <1>1, <1>2, <1>4, ChainEases

LEMMA RealignAllEases ==
    ASSUME NEW L, IsLedger(L), NEW S, IsFiniteSet(S)
    PROVE  Eased(L, realignAll(L, S))
<1>1. PICK F : IsChain(F, "realign", L, S) /\ realignAll(L, S) = F[S]
  BY RealignAllIs
<1>2. \A s \in SUBSET S : s # {} => LastOf("realign", s) \in s
  BY LastLine
<1> QED BY <1>1, <1>2, ChainEases

LEMMA EasedFrozen ==
    ASSUME NEW L, NEW M, Eased(L, M), NEW a, NEW asset
    PROVE  Frozen(M, a, asset) <=> Frozen(L, a, asset)
BY DEF Eased, Frozen

LEMMA NonePledged ==
    ASSUME NEW L, IsLedger(L), NEW a, NEW asset, NEW side, Pledged(L, a, asset, side) = 0,
           NEW i \in DOMAIN L.offers
    PROVE  Share(L.offers[i], a, asset, side) = 0
<1> DEFINE D == DOMAIN L.offers
           f == SharesOf(L, a, asset, side)
<1>1. IsFiniteSet(D) /\ \A j \in D : Share(L.offers[j], a, asset, side) \in Nat
  BY SharesType
<1>2. \A j \in D : f[j] = Share(L.offers[j], a, asset, side)
  BY DEF SharesOf
<1>3. \A j \in D : f[j] \in Nat /\ f[j] \in Int
  <2> HIDE DEF f, D
  <2> QED BY <1>1, <1>2
<1>4. SumFunctionOnSet(f, D) = 0
  BY DEF Pledged
<1>5. i \in D
  OBVIOUS
<1> HIDE DEF f, D
<1>6. SumFunctionOnSet(f, D) = f[i] + SumFunctionOnSet(f, D \ {i})
  BY <1>1, <1>3, <1>5, SumRemove
<1>7. IsFiniteSet(D \ {i})
  BY <1>1, FS_Subset
<1>8. SumFunctionOnSet(f, D \ {i}) \in Int /\ SumFunctionOnSet(f, D \ {i}) >= 0
  BY <1>3, <1>7, SumType
<1>9. f[i] = 0
  BY <1>3, <1>4, <1>5, <1>6, <1>8
<1> QED BY <1>2, <1>5, <1>9

\* The offers of M are those of L with other amounts.
Reamounted(L, M) ==
    /\ M.acc = L.acc /\ M.tl = L.tl /\ DOMAIN M.offers = DOMAIN L.offers
    /\ \A i \in DOMAIN L.offers : /\ M.offers[i].seller = L.offers[i].seller
                                  /\ M.offers[i].buying = L.offers[i].buying
                                  /\ M.offers[i].selling = L.offers[i].selling

LEMMA AdjustOffersIs ==
    ASSUME NEW L, IsLedger(L), NEW M, M = adjustOffers(L)
    PROVE  Reamounted(L, M)
<1> DEFINE amount(i) == adjustOffer(L.offers[i].price, L.offers[i].amount, INT64_MAX).numWheatReceived
           f == [i \in DOMAIN L.offers |-> [L.offers[i] EXCEPT !.amount = amount(i)]]
<1>1. M = [L EXCEPT !.offers = f]
  BY DEF adjustOffers
<1> HIDE DEF amount
<1>2. ASSUME NEW i \in DOMAIN L.offers
      PROVE  /\ f[i].seller = L.offers[i].seller /\ f[i].buying = L.offers[i].buying
             /\ f[i].selling = L.offers[i].selling
  <2> DEFINE o == L.offers[i]
             k == [o EXCEPT !.amount = amount(i)]
  <2>1. IsOffer(o)
    BY DEF IsLedger, AreOffers
  <2>2. f[i] = k
    OBVIOUS
  <2>3. k.seller = o.seller /\ k.buying = o.buying /\ k.selling = o.selling
    <3> HIDE DEF o
    <3> QED BY <2>1 DEF IsOffer
  <2> QED BY <2>2, <2>3
<1>3. DOMAIN f = DOMAIN L.offers
  OBVIOUS
<1> HIDE DEF f
<1>4. M.acc = L.acc /\ M.tl = L.tl /\ M.offers = f
  <2>1. LedgerFields(L)
    BY DEF IsLedger
  <2> QED BY <1>1, <2>1, FieldOffers
<1> QED BY <1>2, <1>3, <1>4 DEF Reamounted

Gone(L) == {i \in DOMAIN L.offers : Excess(L, L.offers[i])}

\* The offers that stay, before the lines are brought in line.
LEMMA KeptOffers ==
    ASSUME NEW L, IsLedger(L), NEW E, E = eraseOffers(L, Gone(L)),
           NEW K, K = adjustOffers(E), Fine(K)
    PROVE  /\ IsLedger(K) /\ DOMAIN K.tl = DOMAIN L.tl /\ DOMAIN K.acc = DOMAIN L.acc
           /\ DOMAIN K.offers \subseteq DOMAIN L.offers
           /\ \A i \in DOMAIN K.offers : /\ K.offers[i].seller = L.offers[i].seller
                                         /\ K.offers[i].buying = L.offers[i].buying
                                         /\ K.offers[i].selling = L.offers[i].selling
                                         /\ ~Excess(L, L.offers[i])
<1> DEFINE a == CHOOSE x : TRUE
           gone == Gone(L)
<1>1. "buying" \in Sides
  BY DEF Sides
<1>2. gone \in SUBSET DOMAIN L.offers /\ \A i \in DOMAIN L.offers \ gone : ~Excess(L, L.offers[i])
  BY DEF Gone
<1> HIDE DEF gone
<1>3. Cleared(L, E, gone)
  BY <1>2, ClearOffers DEF gone
<1>4. Thinned("erase", L, E, a, a, "buying")
  BY <1>1, <1>2, TakenThins DEF gone
<1>5. IsLedger(E) /\ DOMAIN E.offers = DOMAIN L.offers \ gone
  BY <1>3 DEF Cleared
<1>6. Traded(E, K, 0) /\ Reamounted(E, K)
  BY <1>5, AdjustOffersTrades, AdjustOffersIs
<1>7. IsLedger(K) /\ Fine(E)
  BY <1>6 DEF Traded
<1>8. DOMAIN E.tl = DOMAIN L.tl /\ DOMAIN E.acc = DOMAIN L.acc
  BY <1>3, <1>7 DEF Cleared, Traded
<1>9. \A i \in DOMAIN E.offers : E.offers[i] = L.offers[i]
  BY <1>4, <1>7 DEF Thinned
<1> QED BY <1>2, <1>5, <1>6, <1>7, <1>8, <1>9 DEF Reamounted

\* An account that lacks the line has no offers of the asset that stay.
LEMMA KeptShares ==
    ASSUME NEW L, IsLedger(L), NEW a, NEW asset, NEW side \in Sides,
           Pledged(L, a, asset, side) = 0, NEW i \in DOMAIN L.offers, ~Excess(L, L.offers[i]),
           NEW o, o.seller = L.offers[i].seller, o.buying = L.offers[i].buying,
           o.selling = L.offers[i].selling
    PROVE  Share(o, a, asset, side) = 0
<1> DEFINE q == L.offers[i]
           p == OfferLiabilities(q.price, q.amount)
<1>1. Share(q, a, asset, side) = 0
  BY NonePledged
<1>2. IsOffer(q)
  BY DEF IsLedger, AreOffers
<1>3. adjustOffer(q.price, q.amount, INT64_MAX).numWheatReceived # 0
  BY Zenon DEF Excess
<1>4. p.numWheatReceived # 0 /\ p.numSheepSend # 0
  BY <1>2, <1>3, AdjustedAway
<1>5. o.seller = q.seller /\ o.buying = q.buying /\ o.selling = q.selling
  OBVIOUS
<1> HIDE DEF q
<1>6. \/ q.seller # a \/ isIssuer(a, asset)
      \/ side = "buying" /\ q.buying # asset
      \/ side # "buying" /\ q.selling # asset
  BY <1>1, <1>4 DEF Share
<1> QED BY <1>5, <1>6 DEF Share

LEMMA LinesOfPairs ==
    ASSUME NEW L
    PROVE  /\ \A l \in linesOf(L) : l = <<l[1], l[2]>>
           /\ \A i \in DOMAIN L.offers : /\ <<L.offers[i].seller, L.offers[i].buying>> \in linesOf(L)
                                         /\ <<L.offers[i].seller, L.offers[i].selling>> \in linesOf(L)
BY DEF linesOf

LEMMA PrepareCovers ==
    ASSUME NEW L, IsLedger(L), NEW M, M = prepareLiabilities(L), Fine(M),
           NEW a, NEW asset, NEW side \in Sides,
           CoveredAt(L, a, asset, side), ThawedAt(L, a, asset, side)
    PROVE  /\ CoveredAt(M, a, asset, side) /\ ThawedAt(M, a, asset, side)
           /\ DOMAIN M.tl = DOMAIN L.tl
<1> DEFINE E == eraseOffers(L, Gone(L))
           K == adjustOffers(E)
           S == linesOf(K)
<1>1. M = realignAll(K, S)
  BY Zenon DEF prepareLiabilities, Gone
<1>2. Cleared(L, E, Gone(L)) /\ IsLedger(E)
  <2>1. Gone(L) \in SUBSET DOMAIN L.offers
    BY DEF Gone
  <2>2. Cleared(L, E, Gone(L))
    BY <2>1, ClearOffers
  <2> QED BY <2>2 DEF Cleared
<1>19. Frozen(E, a, asset) <=> Frozen(L, a, asset)
  <2>1. Gone(L) \in SUBSET DOMAIN L.offers
    BY DEF Gone
  <2> QED BY <2>1, EraseOffersEases, EasedFrozen
<1> HIDE DEF E
<1>3. IsLedger(K)
  BY <1>2, AdjustOffersTrades DEF Traded
<1>20. Frozen(K, a, asset) <=> Frozen(L, a, asset)
  BY <1>2, <1>19, AdjustOffersIs DEF Reamounted, Frozen
<1> HIDE DEF K
<1>4. IsFiniteSet(S) /\ \A l \in S : l = <<l[1], l[2]>>
  BY <1>3, LinesFinite, LinesOfPairs
<1>5. \A i \in DOMAIN K.offers : /\ <<K.offers[i].seller, K.offers[i].buying>> \in S
                                 /\ <<K.offers[i].seller, K.offers[i].selling>> \in S
  BY LinesOfPairs
<1> HIDE DEF S
<1>6. Moved(K, M, 0) /\ AlignsAll(K, M, S, a, asset, side)
  BY <1>1, <1>3, <1>4, RealignAllMoves, RealignAllAligns
<1>7. /\ IsLedger(M) /\ Fine(K) /\ M.offers = K.offers /\ DOMAIN M.tl = DOMAIN K.tl
      /\ DOMAIN M.acc = DOMAIN K.acc
  BY <1>6 DEF Moved
<1>8. /\ DOMAIN K.tl = DOMAIN L.tl /\ DOMAIN K.acc = DOMAIN L.acc
      /\ DOMAIN K.offers \subseteq DOMAIN L.offers
      /\ \A i \in DOMAIN K.offers : /\ K.offers[i].seller = L.offers[i].seller
                                    /\ K.offers[i].buying = L.offers[i].buying
                                    /\ K.offers[i].selling = L.offers[i].selling
                                    /\ ~Excess(L, L.offers[i])
  BY <1>7, KeptOffers DEF E, K
<1>9. Exists(K, a, asset) <=> Exists(L, a, asset)
  BY <1>8 DEF Exists
<1>10. Pledged(M, a, asset, side) = Pledged(K, a, asset, side)
  BY <1>7 DEF Pledged, SharesOf
<1>11. Liable(M, a, asset, side) \in Nat /\ Pledged(K, a, asset, side) \in Nat
  BY <1>3, <1>7, LiableType, SharesType
<1>12. Pledged(K, a, asset, side) = 0 => CoveredAt(M, a, asset, side)
  BY <1>10, <1>11 DEF CoveredAt, Slack
<1>13. (\A i \in DOMAIN K.offers : Share(K.offers[i], a, asset, side) = 0)
          => CoveredAt(M, a, asset, side)
  BY <1>3, <1>12, PledgedByNone
<1>14. ASSUME isIssuer(a, asset)
      PROVE  CoveredAt(M, a, asset, side)
  BY <1>13, <1>14 DEF Share
<1>15. ASSUME ~isIssuer(a, asset) /\ Exists(K, a, asset) /\ <<a, asset>> \in S
      PROVE  CoveredAt(M, a, asset, side)
  <2>1. Liable(M, a, asset, side) = Pledged(K, a, asset, side)
    BY <1>6, <1>15 DEF AlignsAll
  <2> QED BY <1>10, <1>11, <2>1 DEF CoveredAt, Slack
<1>16. ASSUME <<a, asset>> \notin S
      PROVE  CoveredAt(M, a, asset, side)
  <2>1. \A i \in DOMAIN K.offers : Share(K.offers[i], a, asset, side) = 0
    BY <1>5, <1>16 DEF Share
  <2> QED BY <1>13, <2>1
<1>17. ASSUME ~isIssuer(a, asset) /\ ~Exists(K, a, asset)
      PROVE  CoveredAt(M, a, asset, side)
  <2>1. Liable(L, a, asset, side) = 0
    BY <1>9, <1>17 DEF Liable
  <2>2. Pledged(L, a, asset, side) = 0
    <3>1. Pledged(L, a, asset, side) \in Nat
      BY SharesType
    <3> QED BY <2>1, <3>1 DEF CoveredAt, Slack
  <2>3. \A i \in DOMAIN K.offers : Share(K.offers[i], a, asset, side) = 0
    BY <1>8, <2>2, KeptShares
  <2> QED BY <1>13, <2>3
<1>18. CoveredAt(M, a, asset, side)
  BY <1>14, <1>15, <1>16, <1>17
<1>21. Frozen(M, a, asset) <=> Frozen(L, a, asset)
  BY <1>1, <1>3, <1>4, <1>20, RealignAllEases, EasedFrozen
<1>22. ASSUME Frozen(L, a, asset)
       PROVE  Slack(M, a, asset, side) = Liable(M, a, asset, side)
  <2>1. Pledged(L, a, asset, side) = 0
    <3>1. Liable(L, a, asset, side) \in Nat /\ Pledged(L, a, asset, side) \in Nat
      BY LiableType, SharesType
    <3> QED BY <1>22, <3>1 DEF ThawedAt, Slack
  <2>2. \A i \in DOMAIN K.offers : Share(K.offers[i], a, asset, side) = 0
    BY <1>8, <2>1, KeptShares
  <2>3. Pledged(K, a, asset, side) = 0
    BY <1>3, <2>2, PledgedByNone
  <2> QED BY <1>10, <1>11, <2>3 DEF Slack
<1> QED BY <1>7, <1>8, <1>18, <1>21, <1>22 DEF ThawedAt

-----------------------------------------------------------------------------
(* The invariant. *)

\* No one's liabilities are below what his offers promise, and unless an upgrade raised
\* the reserve (r) they are exactly that, and those of a line that is not authorized 0.
HoldsFor(L, r) ==
    /\ NoOwnLines(L)
    /\ \A a, asset : \A side \in Sides :
          /\ CoveredAt(L, a, asset, side) /\ ThawedAt(L, a, asset, side)
          /\ r \/ ExactAt(L, a, asset, side)

BInv == raised \in BOOLEAN /\ HoldsFor(ledger, raised)

LEMMA SecuresHold ==
    ASSUME NEW L, NEW M, NEW r \in BOOLEAN, HoldsFor(L, r),
           \A a, asset : \A side \in Sides : Secures(L, M, a, asset, side)
    PROVE  HoldsFor(M, r)
<1>1. NoOwnLines(M)
  <2>1. NoOwnLines(L) /\ "buying" \in Sides
    BY DEF HoldsFor, Sides
  <2> QED BY <2>1, Zenon DEF Secures
<1>2. ASSUME NEW a, NEW asset, NEW side \in Sides
      PROVE  /\ CoveredAt(M, a, asset, side) /\ ThawedAt(M, a, asset, side)
             /\ r \/ ExactAt(M, a, asset, side)
  <2>1. /\ CoveredAt(L, a, asset, side) /\ ThawedAt(L, a, asset, side)
        /\ r \/ ExactAt(L, a, asset, side)
    BY Zenon DEF HoldsFor
  <2> QED BY <2>1, Zenon DEF Secures
<1> QED BY <1>1, <1>2, Zenon DEF HoldsFor

LEMMA GenesisHolds == HoldsFor(Genesis, FALSE)
<1>1. IsLedger(Genesis) /\ Owners(Genesis) \subseteq DOMAIN Genesis.acc
  BY GenesisAssumption
<1>2. NoOwnLines(Genesis)
  BY OffersAssumption DEF NoOwnLines
<1>3. ASSUME NEW a, NEW asset, NEW side \in Sides
      PROVE  ExactAt(Genesis, a, asset, side)
  <2>1. Liable(Genesis, a, asset, side) \in Nat /\ Pledged(Genesis, a, asset, side) \in Nat
    BY <1>1, LiableType, SharesType
  <2>2. ASSUME isIssuer(a, asset)
        PROVE  ExactAt(Genesis, a, asset, side)
    <3>1. Pledged(Genesis, a, asset, side) = 0
      <4>1. \A i \in DOMAIN Genesis.offers : Share(Genesis.offers[i], a, asset, side) = 0
        BY <2>2 DEF Share
      <4> QED BY <1>1, <4>1, PledgedByNone
    <3>2. Liable(Genesis, a, asset, side) = 0
      BY <2>2 DEF Liable
    <3> QED BY <3>1, <3>2 DEF ExactAt, Slack
  <2>3. ASSUME ~isIssuer(a, asset), ~Exists(Genesis, a, asset)
        PROVE  ExactAt(Genesis, a, asset, side)
    <3>1. ASSUME NEW i \in DOMAIN Genesis.offers
          PROVE  Share(Genesis.offers[i], a, asset, side) = 0
      <4> DEFINE o == Genesis.offers[i]
      <4>1. canHold(Genesis, o.seller, o.buying) /\ canHold(Genesis, o.seller, o.selling)
        BY OffersAssumption
      <4>2. o.seller \in DOMAIN Genesis.acc
        BY <1>1 DEF Owners
      <4> HIDE DEF o
      <4>3. o.seller # a \/ (o.buying # asset /\ o.selling # asset)
        BY <2>3, <4>1, <4>2 DEF canHold, hasTrustLine, Exists
      <4> QED BY <4>3 DEF Share, o
    <3>2. Pledged(Genesis, a, asset, side) = 0
      BY <1>1, <3>1, PledgedByNone
    <3>3. Liable(Genesis, a, asset, side) = 0
      BY <2>3 DEF Liable
    <3> QED BY <3>2, <3>3 DEF ExactAt, Slack
  <2>4. ASSUME ~isIssuer(a, asset), Exists(Genesis, a, asset)
        PROVE  ExactAt(Genesis, a, asset, side)
    <3> DEFINE line == <<a, asset>>
               h == Holding(Genesis, a, asset)
    <3>1. line \in Lines(Genesis) /\ line[1] = a /\ line[2] = asset
      BY <2>4 DEF Exists, Lines
    <3>2. BackedExactly(Genesis, line)
      BY <3>1, OffersAssumption
    <3> HIDE DEF line
    <3>3. /\ h.buying = Promises(Genesis, Owned(Genesis, a), asset, "buying")
          /\ h.selling = Promises(Genesis, Owned(Genesis, a), asset, "selling")
          /\ asset = Native \/ h.authorized \/ (h.buying = 0 /\ h.selling = 0)
      BY <3>1, <3>2 DEF BackedExactly, Buys, Sells
    <3>4. Promises(Genesis, Owned(Genesis, a), asset, side) = Pledged(Genesis, a, asset, side)
      BY <1>1, <2>4, PromisesArePledged
    <3>5. Liable(Genesis, a, asset, side) = LiabilityOf(h, side)
      BY <2>4 DEF Liable
    <3>6. side = "buying" \/ side = "selling"
      BY DEF Sides
    <3>7. Liable(Genesis, a, asset, side) = Pledged(Genesis, a, asset, side)
      BY <3>3, <3>4, <3>5, <3>6 DEF LiabilityOf
    <3>8. Frozen(Genesis, a, asset) => ~h.authorized /\ asset # Native
      BY DEF Frozen, Holding
    <3> HIDE DEF h
    <3>9. Frozen(Genesis, a, asset) => Liable(Genesis, a, asset, side) = 0
      BY <3>3, <3>5, <3>6, <3>8 DEF LiabilityOf
    <3> QED BY <2>1, <3>7, <3>9 DEF ExactAt, Slack
  <2> QED BY <2>2, <2>3, <2>4
<1>4. ASSUME NEW a, NEW asset, NEW side \in Sides
      PROVE  CoveredAt(Genesis, a, asset, side) /\ ThawedAt(Genesis, a, asset, side)
  BY <1>3 DEF CoveredAt, ThawedAt, ExactAt
<1> QED BY <1>2, <1>3, <1>4, Zenon DEF HoldsFor

LEMMA InitBInv == Init => BInv
<1> SUFFICES ASSUME Init PROVE BInv
  OBVIOUS
<1>1. ledger = Genesis /\ raised = FALSE
  BY Zenon DEF Init
<1> QED BY <1>1, GenesisHolds, Zenon DEF BInv

LEMMA CloseLedgerHolds ==
    ASSUME IInv, BInv, NEW tx \in Menus[menu], closeLedger(tx)
    PROVE  BInv'
<1> DEFINE new == [ledger EXCEPT !.ledgerSeq = ledger.ledgerSeq + 1]
           base == processSeqNum(processFeeSeqNum(new, tx), tx)
           r == applyOperations(base, tx)
<1>1. menu \in DOMAIN Menus /\ Sound(ledger) /\ Fine(ledger)
  BY DEF IInv
<1>2. Len(tx.ops) \in Nat /\ \A k \in 1..Len(tx.ops) : doCheckValid(tx.ops[k])
  BY <1>1, MenusAssumption
<1>3. checkValid(ledger, tx) /\ ledger' = r.L /\ raised' = raised
  BY Zenon DEF closeLedger
<1>4. Opened(ledger, new)
  BY DEF Opened
<1> HIDE DEF new
<1>5. Sound(base) /\ Fine(base)
  <2>1. Based(ledger, base)
    BY <1>1, <1>2, <1>3, <1>4, BaseIs
  <2> QED BY <2>1 DEF Based
<1>6. ASSUME NEW a, NEW asset, NEW side \in Sides
      PROVE  Secures(ledger, base, a, asset, side)
  BY <1>1, <1>2, <1>3, <1>4, BaseSecures
<1> HIDE DEF base
<1>7. ASSUME NEW a, NEW asset, NEW side \in Sides
      PROVE  Secures(base, r.L, a, asset, side)
  BY <1>2, <1>5, ApplyOperationsSecures
<1> HIDE DEF r
<1>8. raised \in BOOLEAN /\ HoldsFor(ledger, raised)
  BY DEF BInv
<1>9. HoldsFor(base, raised)
  BY <1>6, <1>8, SecuresHold
<1>10. HoldsFor(r.L, raised)
  BY <1>7, <1>8, <1>9, SecuresHold
<1>11. HoldsFor(ledger', raised')
  BY <1>3, <1>10, Zenon
<1>12. raised' \in BOOLEAN
  BY <1>3, <1>8
<1> QED BY <1>11, <1>12, Zenon DEF BInv, HoldsFor

LEMMA HeaderSecures ==
    ASSUME NEW L, IsLedger(L), NEW M, SameEntries(L, M), NEW a, NEW asset, NEW side
    PROVE  Secures(L, M, a, asset, side)
BY HeaderAlike, AlikeFollows, FollowsSecures

LEMMA ApplyReserveUpgradeHolds ==
    ASSUME IInv, BInv, NEW x \in NewReserves, applyReserveUpgrade(x)
    PROVE  BInv'
<1> DEFINE new == [ledger EXCEPT !.ledgerSeq = ledger.ledgerSeq + 1]
           set == [new EXCEPT !.baseReserve = x]
           up == x > ledger.baseReserve
           N == IF up THEN prepareLiabilities(set) ELSE set
           M == IF N.err = "" THEN N ELSE new
<1>1. Sound(ledger) /\ Fine(ledger)
  BY DEF IInv
<1>2. ledger' = M /\ raised' = (raised \/ (up /\ N.err = ""))
  BY Zenon DEF applyReserveUpgrade
<1>3. Opened(ledger, new) /\ WithReserve(new, x, set) /\ x \in Nat
  BY ParametersAssumption DEF Opened, WithReserve
<1> HIDE DEF new, set
<1>4. Sound(new) /\ Fine(new) /\ Sound(set) /\ Fine(set)
  <2>1. Sound(new) /\ Fine(new)
    BY <1>1, <1>3, NextLedger
  <2> QED BY <1>3, <2>1, NewReserve
<1>5. IsLedger(ledger) /\ IsLedger(new) /\ IsLedger(set)
  BY <1>1, <1>4 DEF Sound
<1>6. SameEntries(ledger, new)
  BY <1>3, <1>5, FieldLedgerSeq DEF Opened, IsLedger
<1>7. SameEntries(new, set)
  BY <1>3, <1>5, FieldReserve DEF IsLedger
<1>8. raised \in BOOLEAN /\ HoldsFor(ledger, raised)
  BY DEF BInv
<1>9. HoldsFor(new, raised)
  <2>1. \A a, asset : \A side \in Sides : Secures(ledger, new, a, asset, side)
    BY <1>5, <1>6, HeaderSecures
  <2> QED BY <1>8, <2>1, SecuresHold
<1>10. HoldsFor(set, raised)
  <2>1. \A a, asset : \A side \in Sides : Secures(new, set, a, asset, side)
    BY <1>5, <1>7, HeaderSecures
  <2> QED BY <1>8, <1>9, <2>1, SecuresHold
<1> HIDE DEF up
<1>11. CASE up /\ Fine(N)
  <2>1. N = prepareLiabilities(set) /\ M = N /\ raised' = TRUE
    <3>1. raised' = (raised \/ (up /\ N.err = "")) /\ N.err = "" /\ up
      BY <1>2, <1>11, Zenon DEF Fine
    <3>2. raised' = TRUE
      BY <3>1
    <3> QED BY <3>1, <3>2, Zenon
  <2>2. ASSUME NEW a, NEW asset, NEW side \in Sides
        PROVE  /\ CoveredAt(N, a, asset, side) /\ ThawedAt(N, a, asset, side)
               /\ DOMAIN N.tl = DOMAIN set.tl
    <3>1. CoveredAt(set, a, asset, side) /\ ThawedAt(set, a, asset, side)
      BY <1>10, Zenon DEF HoldsFor
    <3> QED BY <1>5, <1>11, <2>1, <3>1, PrepareCovers
  <2>3. DOMAIN N.tl = DOMAIN set.tl /\ NoOwnLines(set)
    <3>1. "buying" \in Sides
      BY DEF Sides
    <3> QED BY <1>10, <2>2, <3>1, Zenon DEF HoldsFor
  <2>4. NoOwnLines(N)
    BY <2>3 DEF NoOwnLines
  <2>5. HoldsFor(N, TRUE)
    BY <2>2, <2>4, Zenon DEF HoldsFor
  <2>6. HoldsFor(ledger', raised') /\ raised' \in BOOLEAN
    BY <1>2, <2>1, <2>5
  <2> QED BY <2>6, Zenon DEF BInv, HoldsFor
<1>12. CASE ~up \/ ~Fine(N)
  <2>1. M = set \/ M = new
    <3>1. ~up => N = set
      BY Zenon
    <3> HIDE DEF N
    <3> QED BY <1>12, <3>1, Zenon DEF Fine
  <2>2. raised' = raised
    <3>1. raised' = (raised \/ (up /\ Fine(N)))
      BY <1>2, Zenon DEF Fine
    <3> HIDE DEF N
    <3> QED BY <1>8, <1>12, <3>1
  <2> HIDE DEF M
  <2>3. HoldsFor(M, raised)
    BY <1>9, <1>10, <2>1, Zenon
  <2>4. HoldsFor(ledger', raised')
    BY <1>2, <2>2, <2>3, Zenon
  <2>5. raised' \in BOOLEAN
    BY <1>8, <2>2
  <2> QED BY <2>4, <2>5, Zenon DEF BInv, HoldsFor
<1> QED BY <1>11, <1>12

LEMMA NextBInv == IInv /\ BInv /\ [Next]_vars => BInv'
<1> SUFFICES ASSUME IInv, BInv, [Next]_vars PROVE BInv'
  OBVIOUS
<1>1. CASE \E tx \in Menus[menu] : closeLedger(tx)
  BY <1>1, CloseLedgerHolds
<1>2. CASE \E x \in NewReserves : applyReserveUpgrade(x)
  BY <1>2, ApplyReserveUpgradeHolds
<1>3. CASE UNCHANGED vars
  <2>1. ledger' = ledger /\ raised' = raised
    BY <1>3 DEF vars
  <2>2. HoldsFor(ledger, raised) /\ raised \in BOOLEAN
    BY DEF BInv
  <2>3. HoldsFor(ledger', raised') /\ raised' \in BOOLEAN
    BY <2>1, <2>2, Zenon
  <2> QED BY <2>3, Zenon DEF BInv, HoldsFor
<1> QED BY <1>1, <1>2, <1>3, Zenon DEF Next

\* What the invariant says of a line that exists and is not the issuer's.
LEMMA HoldsBacks ==
    ASSUME NEW L, IsLedger(L), NEW r \in BOOLEAN, HoldsFor(L, r),
           NEW a, NEW asset, ~isIssuer(a, asset), Exists(L, a, asset),
           NEW line, line[1] = a, line[2] = asset
    PROVE  Backed(L, line) /\ (r \/ BackedExactly(L, line))
<1> DEFINE h == Holding(L, a, asset)
           b == Promises(L, Owned(L, a), asset, "buying")
           s == Promises(L, Owned(L, a), asset, "selling")
<1>1. "buying" \in Sides /\ "selling" \in Sides
  BY DEF Sides
<1>2. b = Pledged(L, a, asset, "buying") /\ s = Pledged(L, a, asset, "selling")
  BY <1>1, PromisesArePledged
<1>3. b \in Nat /\ s \in Nat
  BY <1>2, SharesType
<1>4. h.buying = Liable(L, a, asset, "buying") /\ h.selling = Liable(L, a, asset, "selling")
  BY DEF Liable, LiabilityOf
<1>5. /\ h.buying \in Nat /\ h.selling \in Nat /\ h.selling <= h.balance
      /\ h.balance + h.buying <= IF asset = Native THEN INT64_MAX ELSE h.limit
      /\ asset # Native => h.authorized \in BOOLEAN
  BY HoldingFields
<1>6. /\ CoveredAt(L, a, asset, "buying") /\ CoveredAt(L, a, asset, "selling")
      /\ r \/ (ExactAt(L, a, asset, "buying") /\ ExactAt(L, a, asset, "selling"))
  BY <1>1, Zenon DEF HoldsFor
<1>7. h.buying >= b /\ h.selling >= s
  BY <1>2, <1>3, <1>4, <1>5, <1>6 DEF CoveredAt, Slack
<1>8. ASSUME ExactAt(L, a, asset, "buying"), ExactAt(L, a, asset, "selling")
      PROVE  /\ h.buying = b /\ h.selling = s
             /\ asset = Native \/ h.authorized \/ (h.buying = 0 /\ h.selling = 0)
  <2>1. h.buying = b /\ h.selling = s
    BY <1>2, <1>3, <1>4, <1>5, <1>8 DEF ExactAt, Slack
  <2>2. asset # Native /\ ~h.authorized => Frozen(L, a, asset)
    BY DEF Frozen, Holding, Exists
  <2>3. Frozen(L, a, asset) => h.buying = 0 /\ h.selling = 0
    BY <1>4, <1>8 DEF ExactAt
  <2> QED BY <2>1, <2>2, <2>3
<1> HIDE DEF h, b, s
<1>9. Backed(L, line)
  <2>1. Holding(L, line[1], line[2]) = h /\ Buys(L, line) = b /\ Sells(L, line) = s
    BY DEF h, b, s, Buys, Sells
  <2> QED BY <1>5, <1>7, <2>1 DEF Backed
<1>10. r \/ BackedExactly(L, line)
  <2>1. Holding(L, line[1], line[2]) = h /\ Buys(L, line) = b /\ Sells(L, line) = s
    BY DEF h, b, s, Buys, Sells
  <2>2. ASSUME ~r
        PROVE  BackedExactly(L, line)
    <3>1. /\ h.buying = b /\ h.selling = s
          /\ asset = Native \/ h.authorized \/ (h.buying = 0 /\ h.selling = 0)
      BY <1>6, <1>8, <2>2
    <3> QED BY <2>1, <3>1 DEF BackedExactly
  <2> QED BY <2>2
<1> QED BY <1>9, <1>10

LEMMA HoldsOnLines ==
    ASSUME NEW L, IsLedger(L), Counted(L), NEW r \in BOOLEAN, HoldsFor(L, r), NEW line \in Lines(L)
    PROVE  Backed(L, line) /\ (r \/ BackedExactly(L, line))
<1>1. CASE line \in DOMAIN L.tl
  <2>1. line = <<line[1], line[2]>> /\ ~isIssuer(line[1], line[2])
    BY <1>1, Zenon DEF HoldsFor, NoOwnLines
  <2>2. line[1] \in DOMAIN L.acc
    BY <1>1 DEF Counted, Owners
  <2>3. Exists(L, line[1], line[2])
    BY <1>1, <2>1, <2>2, Zenon DEF Exists
  <2> QED BY <2>1, <2>3, HoldsBacks
<1>2. CASE \E a \in DOMAIN L.acc : line = <<a, Native>>
  <2>1. PICK a \in DOMAIN L.acc : line = <<a, Native>>
    BY <1>2
  <2>2. line[1] = a /\ line[2] = Native
    BY <2>1
  <2>3. Exists(L, a, Native) /\ ~isIssuer(a, Native)
    BY DEF Exists, isIssuer
  <2> QED BY <2>2, <2>3, HoldsBacks
<1> QED BY <1>1, <1>2 DEF Lines

\* Every offer on the book can be paid for. Whatever the accounts, lines, prices and
\* transactions, the liabilities of an account or a line are at least what the offers of
\* its owner promise and fit into its balance and its limit, after trades that leave a
\* rounded rest on the book, offers changed or taken off it, paths that take offers of
\* others, authorizations revoked, rollbacks, and upgrades that only adjust the offers
\* of an account. As long as no upgrade raised the reserve they are exactly that, so
\* offers that go leave nothing locked, and a line that is not authorized has none.
THEOREM OffersStayBacked == Spec => []OffersAreBacked
<1>1. IInv /\ BInv => OffersAreBacked
  <2> SUFFICES ASSUME IInv, BInv, NEW line \in Lines(ledger)
               PROVE  Backed(ledger, line) /\ (raised \/ BackedExactly(ledger, line))
    BY Zenon DEF OffersAreBacked
  <2>1. IsLedger(ledger) /\ Counted(ledger)
    BY DEF IInv, Sound
  <2>2. raised \in BOOLEAN /\ HoldsFor(ledger, raised)
    BY DEF BInv
  <2> QED BY <2>1, <2>2, HoldsOnLines
<1> QED BY <1>1, InitBInv, NextBInv, Inductive, PTL DEF Spec

-----------------------------------------------------------------------------
(* Every offer on the book can be honoured in full.  Two facts join the      *)
(* invariant: every offer has an amount that adjustOffer leaves alone        *)
(* (AllWell), and whoever sells lumens has his reserve (Solvent).  Both are  *)
(* followed through the operations.                                          *)

Well(o) == WellAdjusted(o.price, o.amount)

AllWell(L) == \A i \in DOMAIN L.offers : Well(L.offers[i])

Avail(L, a) == getAvailableBalance(L, a, Native)

SellsLumens(L, a) ==
    \E i \in DOMAIN L.offers : L.offers[i].seller = a /\ L.offers[i].selling = Native

Solvent(L) == \A a \in DOMAIN L.acc : SellsLumens(L, a) => Avail(L, a) >= 0

\* What a step keeps of one account, in a form that adds up over steps.
Tends(L, M, a) ==
    /\ AllWell(L) => AllWell(M)
    /\ Avail(L, a) >= 0 => Avail(M, a) >= 0
    /\ SellsLumens(M, a) => SellsLumens(L, a) \/ Avail(M, a) >= 0

LEMMA TendsNot ==
    ASSUME NEW L, NEW a
    PROVE  Tends(L, L, a)
BY DEF Tends

LEMMA TendsOn ==
    ASSUME NEW L, NEW M, NEW N, NEW a, Tends(L, M, a), Tends(M, N, a)
    PROVE  Tends(L, N, a)
BY DEF Tends

LEMMA AvailIs ==
    ASSUME NEW L, NEW a
    PROVE  Avail(L, a) = L.acc[a].balance - getMinBalance(L, L.acc[a].numSubEntries) - L.acc[a].selling
BY DEF Avail, getAvailableBalance, isIssuer, Holding

LEMMA AvailType ==
    ASSUME NEW L, IsLedger(L), NEW a \in DOMAIN L.acc
    PROVE  /\ L.acc[a].balance \in Nat /\ L.acc[a].numSubEntries \in Nat /\ L.acc[a].selling \in Nat
           /\ L.baseReserve \in Nat
           /\ getMinBalance(L, L.acc[a].numSubEntries) \in Nat /\ Avail(L, a) \in Int
<1>1. IsAccount(L.acc[a])
  BY DEF IsLedger, AreAccounts
<1>2. L.acc[a].balance \in Nat /\ L.acc[a].numSubEntries \in Nat /\ L.acc[a].selling \in Nat
  BY <1>1, AccountFields
<1>3. L.baseReserve \in Nat
  BY DEF IsLedger, IsHeader
<1>4. getMinBalance(L, L.acc[a].numSubEntries) \in Nat
  BY <1>2, MinBalanceType
<1> QED BY <1>2, <1>3, <1>4, AvailIs

LEMMA ReserveGrows ==
    ASSUME NEW n \in Nat, NEW m \in Nat, m <= n, NEW r \in Nat, NEW s \in Nat, s <= r
    PROVE  (2 + m) * s <= (2 + n) * r
<1>1. (2 + m) * s <= (2 + m) * r
  <2> DEFINE k == 2 + m
             d == r - s
  <2>1. k \in Nat /\ d \in Nat /\ r = s + d
    OBVIOUS
  <2> HIDE DEF k, d
  <2>2. k * d \in Nat /\ k * (s + d) = k * s + k * d /\ k * s \in Nat
    BY <2>1
  <2>3. k * s <= k * r
    BY <2>1, <2>2
  <2> QED BY <2>3 DEF k
<1>2. (2 + m) * r <= (2 + n) * r
  <2> DEFINE k == 2 + m
             d == n - m
  <2>1. k \in Nat /\ d \in Nat /\ 2 + n = k + d
    OBVIOUS
  <2> HIDE DEF k, d
  <2>2. d * r \in Nat /\ (k + d) * r = k * r + d * r /\ k * r \in Nat
    BY <2>1
  <2>3. k * r <= (2 + n) * r
    BY <2>1, <2>2
  <2> QED BY <2>3 DEF k
<1>3. (2 + m) * s \in Nat /\ (2 + m) * r \in Nat /\ (2 + n) * r \in Nat
  OBVIOUS
<1> QED BY <1>1, <1>2, <1>3

\* Nothing that the available balance counts got worse.
LEMMA AvailGrows ==
    ASSUME NEW L, IsLedger(L), NEW M, IsLedger(M), NEW a \in DOMAIN L.acc, a \in DOMAIN M.acc,
           M.baseReserve <= L.baseReserve, M.acc[a].numSubEntries <= L.acc[a].numSubEntries,
           L.acc[a].balance - L.acc[a].selling <= M.acc[a].balance - M.acc[a].selling
    PROVE  Avail(L, a) <= Avail(M, a)
<1> DEFINE n == L.acc[a].numSubEntries
           m == M.acc[a].numSubEntries
<1>1. /\ L.acc[a].balance \in Nat /\ n \in Nat /\ L.acc[a].selling \in Nat
      /\ L.baseReserve \in Nat /\ getMinBalance(L, n) \in Nat
      /\ M.acc[a].balance \in Nat /\ m \in Nat /\ M.acc[a].selling \in Nat
      /\ M.baseReserve \in Nat /\ getMinBalance(M, m) \in Nat
  BY AvailType
<1>2. getMinBalance(M, m) <= getMinBalance(L, n)
  <2>1. m <= n
    OBVIOUS
  <2> HIDE DEF m, n
  <2> QED BY <1>1, <2>1, ReserveGrows DEF getMinBalance
<1>3. /\ Avail(L, a) = L.acc[a].balance - getMinBalance(L, n) - L.acc[a].selling
      /\ Avail(M, a) = M.acc[a].balance - getMinBalance(M, m) - M.acc[a].selling
  BY AvailIs
<1> HIDE DEF m, n
<1> QED BY <1>1, <1>2, <1>3

\* The accounts stay, and so do the offers, or some are gone.
LEMMA TendsStill ==
    ASSUME NEW L, NEW M, NEW a, M.acc[a] = L.acc[a], M.baseReserve = L.baseReserve,
           DOMAIN M.offers \subseteq DOMAIN L.offers,
           \A i \in DOMAIN M.offers : M.offers[i] = L.offers[i]
    PROVE  Tends(L, M, a)
<1>1. Avail(M, a) = Avail(L, a)
  BY AvailIs DEF getMinBalance
<1> QED BY <1>1 DEF Tends, AllWell, SellsLumens

LEMMA TendsUp ==
    ASSUME NEW L, IsLedger(L), NEW M, IsLedger(M), NEW a \in DOMAIN L.acc, a \in DOMAIN M.acc,
           M.offers = L.offers, Avail(L, a) <= Avail(M, a) \/ Avail(M, a) >= 0
    PROVE  Tends(L, M, a)
<1>1. Avail(L, a) \in Int /\ Avail(M, a) \in Int
  BY AvailType
<1> QED BY <1>1 DEF Tends, AllWell, SellsLumens

LEMMA ThrowTends ==
    ASSUME NEW L, IsLedger(L), NEW what, NEW M, M = throw(L, what), NEW a
    PROVE  Tends(L, M, a)
<1>1. M.baseReserve = L.baseReserve /\ M.offers = L.offers
  BY MovedThrow DEF Moved, SameHeader
<1>2. M.acc = L.acc
  <2>1. M = L \/ M = [L EXCEPT !.err = what]
    BY DEF throw
  <2> QED BY <2>1, FieldErr DEF IsLedger
<1> QED BY <1>1, <1>2, TendsStill

LEMMA RebalancedAccount ==
    ASSUME NEW h, IsAccount(h), NEW x, NEW y, NEW z, NEW k, k = Rebalanced(h, x, y, z)
    PROVE  k.balance = x /\ k.selling = z /\ k.numSubEntries = h.numSubEntries
BY DEF IsAccount, Rebalanced

\* A holding was set: of lumens, less may be free only when there is no debt.
LEMMA HoldingTends ==
    ASSUME NEW L, IsLedger(L), NEW b, NEW other, Exists(L, b, other),
           NEW h, h = Holding(L, b, other), NEW x, NEW y, NEW z, NEW k, k = Rebalanced(h, x, y, z),
           NEW M, M = SetHolding(L, b, other, k), IsLedger(M),
           M.offers = L.offers, M.baseReserve = L.baseReserve,
           other = Native => \/ h.balance - h.selling <= x - z
                             \/ x - getMinBalance(L, h.numSubEntries) - z >= 0,
           NEW a \in DOMAIN L.acc
    PROVE  Tends(L, M, a)
<1>1. Exists(L, a, Native) /\ Holding(L, a, Native) = L.acc[a] /\ Holding(M, a, Native) = M.acc[a]
  BY DEF Exists, Holding
<1>2. /\ Exists(M, a, Native)
      /\ M.acc[a] = IF a = b /\ Native = other THEN k ELSE L.acc[a]
  <2>1. /\ Exists(M, a, Native) <=> Exists(L, a, Native)
        /\ Exists(L, a, Native) =>
              Holding(M, a, Native) = IF a = b /\ Native = other THEN k ELSE Holding(L, a, Native)
    BY HoldingSet
  <2> QED BY <1>1, <2>1
<1>3. a \in DOMAIN M.acc
  BY <1>2 DEF Exists
<1>4. CASE ~(a = b /\ Native = other)
  <2>1. M.acc[a] = L.acc[a]
    BY <1>2, <1>4
  <2> QED BY <2>1, TendsStill
<1>5. CASE a = b /\ Native = other
  <2>1. h = L.acc[a] /\ M.acc[a] = k
    BY <1>1, <1>2, <1>5
  <2>2. IsAccount(h)
    BY <2>1 DEF IsLedger, AreAccounts
  <2>3. k.balance = x /\ k.selling = z /\ k.numSubEntries = h.numSubEntries
    BY <2>2, RebalancedAccount
  <2>4. CASE h.balance - h.selling <= x - z
    <3>1. M.acc[a].numSubEntries <= L.acc[a].numSubEntries
      BY <2>1, <2>2, <2>3, AccountFields
    <3>2. M.baseReserve <= L.baseReserve
      BY AvailType
    <3>3. L.acc[a].balance - L.acc[a].selling <= M.acc[a].balance - M.acc[a].selling
      BY <2>1, <2>3, <2>4
    <3> HIDE DEF Exists
    <3>4. Avail(L, a) <= Avail(M, a)
      BY <1>3, <3>1, <3>2, <3>3, AvailGrows
    <3> QED BY <1>3, <3>4, TendsUp
  <2>5. CASE x - getMinBalance(L, h.numSubEntries) - z >= 0
    <3>1. Avail(M, a) = x - getMinBalance(M, h.numSubEntries) - z
      BY <2>1, <2>3, AvailIs
    <3>2. getMinBalance(M, h.numSubEntries) = getMinBalance(L, h.numSubEntries)
      BY DEF getMinBalance
    <3> QED BY <1>3, <2>5, <3>1, <3>2, TendsUp
  <2> QED BY <1>5, <2>4, <2>5
<1> QED BY <1>4, <1>5

LEMMA AddBalanceTends ==
    ASSUME NEW L, IsLedger(L), NEW b, NEW other, other = Native => b \in DOMAIN L.acc,
           NEW delta \in Int, NEW M, M = addBalance(L, b, other, delta).L, NEW a \in DOMAIN L.acc
    PROVE  Tends(L, M, a)
<1> DEFINE r == addBalance(L, b, other, delta)
           h == Holding(L, b, other)
           limit == IF other = Native THEN INT64_MAX ELSE h.limit
           new == Added(h.balance, delta, limit)
<1>1. \/ M = L
      \/ /\ M = SetHolding(L, b, other, [h EXCEPT !.balance = new])
         /\ new >= 0
         /\ other = Native /\ delta < 0 => new - getMinBalance(L, h.numSubEntries) >= h.selling
  BY DEF addBalance, Result
<1>2. IsLedger(M) /\ M.offers = L.offers /\ M.baseReserve = L.baseReserve
  <2>1. Moved(L, r.L, IF r.ok THEN OfNative(other, delta) ELSE 0)
    BY AddBalance
  <2> QED BY <2>1 DEF Moved, SameHeader
<1>3. CASE M = L
  BY <1>3, TendsNot
<1>4. CASE /\ M = SetHolding(L, b, other, [h EXCEPT !.balance = new])
           /\ new >= 0
           /\ other = Native /\ delta < 0 => new - getMinBalance(L, h.numSubEntries) >= h.selling
  <2>1. CASE ~Exists(L, b, other)
    <3>1. M = L
      BY <1>4, <2>1, SetHoldingOfNobody DEF Exists
    <3> QED BY <3>1, TendsNot
  <2>2. CASE Exists(L, b, other)
    <3>1. /\ h.balance \in Nat /\ h.buying \in Nat /\ h.selling \in Nat
          /\ IsAccount(h) \/ IsLine(h)
          /\ other = Native => h.numSubEntries \in Nat
          /\ other # Native => h.limit \in Nat
      BY <2>2, HoldingFields, Zenon
    <3>2. [h EXCEPT !.balance = new] = Rebalanced(h, new, h.buying, h.selling)
      BY <3>1, SetOne
    <3>3. limit \in Int
      BY <3>1, Int64Assumption
    <3>4. new = h.balance + delta
      <4> HIDE DEF h, limit
      <4> QED BY <1>4, <3>1, <3>3, AddedIs
    <3>5. other = Native => \/ h.balance - h.selling <= new - h.selling
                            \/ new - getMinBalance(L, h.numSubEntries) - h.selling >= 0
      <4>1. other = Native => getMinBalance(L, h.numSubEntries) \in Nat
        BY <3>1, MinBalanceType
      <4> HIDE DEF h, new
      <4> QED BY <1>4, <3>1, <3>4, <4>1
    <3> HIDE DEF new, r
    <3> QED BY <1>2, <1>4, <2>2, <3>2, <3>5, HoldingTends
  <2> QED BY <2>1, <2>2
<1> HIDE DEF new, r, h
<1> QED BY <1>1, <1>3, <1>4

LEMMA MustAddBalanceTends ==
    ASSUME NEW L, IsLedger(L), NEW b, NEW other, other = Native => b \in DOMAIN L.acc,
           NEW delta \in Int, NEW what, NEW M, M = mustAddBalance(L, b, other, delta, what),
           NEW a \in DOMAIN L.acc
    PROVE  Tends(L, M, a)
<1> DEFINE r == addBalance(L, b, other, delta)
<1>1. M = IF r.ok THEN r.L ELSE throw(L, what)
  BY DEF mustAddBalance
<1>2. Tends(L, r.L, a)
  BY AddBalanceTends
<1> HIDE DEF r
<1> QED BY <1>1, <1>2, ThrowTends

LEMMA PaidBothTends ==
    ASSUME NEW L, IsLedger(L), NEW b \in DOMAIN L.acc, NEW sheep, NEW wheat,
           NEW sent \in Nat, NEW received \in Nat, NEW w1, Named(w1), NEW w2, Named(w2),
           NEW N, N = PaidBoth(L, b, sheep, wheat, sent, received, w1, w2),
           NEW a \in DOMAIN L.acc
    PROVE  Tends(L, N, a)
<1> DEFINE M == mustAddBalance(L, b, sheep, sent, w1)
<1>1. \E d \in Int : Moved(L, M, d)
  BY MustAddBalance
<1>2. IsLedger(M) /\ DOMAIN M.acc = DOMAIN L.acc
  BY <1>1 DEF Moved
<1>3. Tends(L, M, a)
  BY MustAddBalanceTends
<1>4. N = mustAddBalance(M, b, wheat, -received, w2)
  BY DEF PaidBoth
<1> HIDE DEF M
<1>5. -received \in Int
  OBVIOUS
<1>6. Tends(M, N, a)
  BY <1>2, <1>4, <1>5, MustAddBalanceTends
<1> QED BY <1>3, <1>6, TendsOn

LEMMA AccountSet ==
    ASSUME NEW L, IsLedger(L), NEW b \in DOMAIN L.acc, NEW x, NEW y, NEW z,
           NEW M, M = SetHolding(L, b, Native, Rebalanced(L.acc[b], x, y, z))
    PROVE  /\ M.acc[b].balance = x /\ M.acc[b].selling = z
           /\ M.acc[b].numSubEntries = L.acc[b].numSubEntries
<1> DEFINE k == Rebalanced(L.acc[b], x, y, z)
<1>1. Exists(L, b, Native) /\ Holding(L, b, Native) = L.acc[b] /\ Holding(M, b, Native) = M.acc[b]
  BY DEF Exists, Holding
<1>2. M.acc[b] = k
  BY <1>1, HoldingSet
<1>3. IsAccount(L.acc[b])
  BY DEF IsLedger, AreAccounts
<1>4. k.balance = x /\ k.selling = z /\ k.numSubEntries = L.acc[b].numSubEntries
  BY <1>3, RebalancedAccount
<1> QED BY <1>2, <1>4

LEMMA BuyingTends ==
    ASSUME NEW L, IsLedger(L), NEW b, NEW other, NEW delta, Exists(L, b, other) => delta \in Int,
           NEW M, M = addBuyingLiabilities(L, b, other, delta).L, NEW a \in DOMAIN L.acc
    PROVE  Tends(L, M, a)
<1> DEFINE h == Holding(L, b, other)
           limit == IF other = Native THEN INT64_MAX ELSE h.limit
           new == Added(h.buying, delta, limit - h.balance)
           k == [h EXCEPT !.buying = new]
<1>1. M = L \/ M = SetHolding(L, b, other, k)
  BY DEF addBuyingLiabilities, Result
<1>2. Moved(L, M, 0)
  BY AddBuyingLiabilities
<1>3. IsLedger(M) /\ M.offers = L.offers /\ M.baseReserve = L.baseReserve
  BY <1>2 DEF Moved, SameHeader
<1>4. CASE M = L
  BY <1>4, TendsNot
<1>5. CASE M = SetHolding(L, b, other, k)
  <2>1. CASE ~Exists(L, b, other)
    <3>1. M = L
      BY <1>5, <2>1, SetHoldingOfNobody DEF Exists
    <3> QED BY <3>1, TendsNot
  <2>2. CASE Exists(L, b, other)
    <3>1. /\ h.balance \in Nat /\ h.selling \in Nat
          /\ IsAccount(h) \/ IsLine(h)
      BY <2>2, HoldingFields, Zenon
    <3>2. k = Rebalanced(h, h.balance, new, h.selling)
      BY <3>1, SetOne
    <3>3. h.balance - h.selling <= h.balance - h.selling
      BY <3>1
    <3> HIDE DEF k, new
    <3> QED BY <1>3, <1>5, <2>2, <3>2, <3>3, HoldingTends
  <2> QED BY <2>1, <2>2
<1> HIDE DEF k
<1> QED BY <1>1, <1>4, <1>5

\* Selling liabilities change within what is above the reserve.
LEMMA SellingTends ==
    ASSUME NEW L, IsLedger(L), NEW b, NEW other, NEW delta, Exists(L, b, other) => delta \in Int,
           NEW r, r = addSellingLiabilities(L, b, other, delta), NEW a \in DOMAIN L.acc
    PROVE  /\ Tends(L, r.L, a)
           /\ other = Native /\ r.ok /\ delta # 0 /\ b \in DOMAIN L.acc => Avail(r.L, b) >= 0
<1> DEFINE h == Holding(L, b, other)
           limit == IF other = Native THEN h.balance - getMinBalance(L, h.numSubEntries)
                    ELSE h.balance
           new == Added(h.selling, delta, limit)
           k == [h EXCEPT !.selling = new]
           M == r.L
<1>1. \/ M = L /\ (isIssuer(b, other) \/ delta = 0 \/ ~r.ok)
      \/ M = SetHolding(L, b, other, k) /\ limit >= 0 /\ new >= 0
  BY DEF addSellingLiabilities, Result
<1>2. Moved(L, M, 0)
  BY AddSellingLiabilities
<1>3. IsLedger(M) /\ M.offers = L.offers /\ M.baseReserve = L.baseReserve
  BY <1>2 DEF Moved, SameHeader
<1>4. CASE M = L /\ (isIssuer(b, other) \/ delta = 0 \/ ~r.ok)
  <2>1. other = Native => ~isIssuer(b, other)
    BY DEF isIssuer
  <2> QED BY <1>4, <2>1, TendsNot
<1>5. CASE M = SetHolding(L, b, other, k) /\ limit >= 0 /\ new >= 0
  <2>1. CASE ~Exists(L, b, other)
    <3>1. M = L
      BY <1>5, <2>1, SetHoldingOfNobody DEF Exists
    <3>2. other = Native => b \notin DOMAIN L.acc
      BY <2>1 DEF Exists
    <3> QED BY <3>1, <3>2, TendsNot
  <2>2. CASE Exists(L, b, other)
    <3>1. /\ h.balance \in Nat /\ h.selling \in Nat
          /\ IsAccount(h) \/ IsLine(h)
          /\ other = Native => h.numSubEntries \in Nat /\ h = L.acc[b]
      BY <2>2, HoldingFields, Zenon
    <3>2. k = Rebalanced(h, h.balance, h.buying, new)
      <4> HIDE DEF new, limit, h
      <4> QED BY <3>1, SetOne
    <3>3. other = Native => getMinBalance(L, h.numSubEntries) \in Nat
      BY <3>1, MinBalanceType
    <3>4. limit \in Int
      <4> HIDE DEF h
      <4> QED BY <3>1, <3>3
    <3>5. new = h.selling + delta /\ new <= limit
      <4> HIDE DEF h, limit
      <4> QED BY <1>5, <2>2, <3>1, <3>4, AddedIs
    <3>6. other = Native => h.balance - getMinBalance(L, h.numSubEntries) - new >= 0
      <4> HIDE DEF h, new
      <4>1. new \in Int
        BY <2>2, <3>1, <3>5
      <4> QED BY <3>1, <3>3, <3>5, <4>1
    <3> HIDE DEF k, new
    <3>7. Tends(L, M, a)
      BY <1>3, <1>5, <2>2, <3>2, <3>6, HoldingTends
    <3>8. other = Native => Avail(M, b) >= 0
      <4>1. SUFFICES ASSUME other = Native PROVE Avail(M, b) >= 0
        OBVIOUS
      <4>2. b \in DOMAIN L.acc
        BY <2>2, <4>1 DEF Exists
      <4>3. M = SetHolding(L, b, Native, Rebalanced(L.acc[b], h.balance, h.buying, new))
        BY <1>5, <3>1, <3>2, <4>1
      <4>4. /\ M.acc[b].balance = h.balance /\ M.acc[b].selling = new
            /\ M.acc[b].numSubEntries = h.numSubEntries
        <5> HIDE DEF M
        <5> QED BY <3>1, <4>1, <4>2, <4>3, AccountSet
      <4>5. Avail(M, b) = h.balance - getMinBalance(M, h.numSubEntries) - new
        BY <4>4, AvailIs
      <4>6. getMinBalance(M, h.numSubEntries) = getMinBalance(L, h.numSubEntries)
        BY <1>3 DEF getMinBalance
      <4> QED BY <3>6, <4>1, <4>5, <4>6
    <3> QED BY <3>7, <3>8
  <2> QED BY <2>1, <2>2
<1> HIDE DEF k, new, limit
<1> QED BY <1>1, <1>4, <1>5

\* Who promises lumens, or no longer does, has his reserve.
LEMMA AcquireOrReleaseTends ==
    ASSUME NEW L, IsLedger(L), NEW o, IsOffer(o), NEW sign \in {-1, 1}, NEW M,
           M = acquireOrReleaseLiabilities(L, o, sign), NEW a \in DOMAIN L.acc
    PROVE  /\ Tends(L, M, a)
           /\ /\ Fine(M) /\ o.selling = Native
              /\ OfferLiabilities(o.price, o.amount).numWheatReceived # 0
              => Avail(M, o.seller) >= 0
<1> DEFINE promised == OfferLiabilities(o.price, o.amount)
           y == sign * promised.numSheepSend
           z == sign * promised.numWheatReceived
           bought == addBuyingLiabilities(L, o.seller, o.buying, y)
           B == bought.L
           sold == addSellingLiabilities(B, o.seller, o.selling, z)
           can == canHold(L, o.seller, o.buying) /\ canHold(L, o.seller, o.selling)
<1>1. M = IF promised.err # "" THEN throw(L, promised.err)
          ELSE IF ~ (o.seller \in DOMAIN L.acc) THEN throw(L, "account does not exist")
          ELSE IF ~can THEN throw(L, "trustline does not exist")
          ELSE IF ~bought.ok THEN throw(L, "could not add buying liabilities")
          ELSE IF ~sold.ok THEN throw(L, "could not add selling liabilities")
          ELSE sold.L
  BY DEF acquireOrReleaseLiabilities, exists
<1>2. promised.numSheepSend \in Nat /\ promised.numWheatReceived \in Nat
  BY LiabilitiesType DEF Exchanged
<1>3. y \in Int /\ z \in Int
  BY <1>2
<1>4. \A w : Named(w) => ~Fine(throw(L, w))
  BY MovedThrow
<1>5. /\ Named("account does not exist") /\ Named("trustline does not exist")
      /\ Named("could not add buying liabilities") /\ Named("could not add selling liabilities")
  BY DEF Named
<1>6. promised.numWheatReceived # 0 => z # 0
  <2> HIDE DEF promised
  <2> QED BY <1>2
<1> HIDE DEF bought, sold, can, y, z, promised
<1>7. \/ M = sold.L /\ o.seller \in DOMAIN L.acc /\ sold.ok
      \/ ~Fine(M) /\ \E w : M = throw(L, w)
  BY <1>1, <1>4, <1>5, Zenon DEF Named
<1>8. CASE ~Fine(M) /\ \E w : M = throw(L, w)
  <2>1. Tends(L, M, a)
    BY <1>8, ThrowTends
  <2> QED BY <1>8, <2>1
<1>9. CASE M = sold.L /\ o.seller \in DOMAIN L.acc /\ sold.ok
  <2>1. Moved(L, B, 0)
    BY <1>3, AddBuyingLiabilities DEF bought
  <2>2. IsLedger(B) /\ DOMAIN B.acc = DOMAIN L.acc
    BY <2>1 DEF Moved
  <2>3. Tends(L, B, a)
    BY <1>3, BuyingTends DEF bought
  <2>4. /\ Tends(B, sold.L, a)
        /\ o.selling = Native /\ sold.ok /\ z # 0 /\ o.seller \in DOMAIN B.acc
           => Avail(sold.L, o.seller) >= 0
    BY <1>3, <2>2, SellingTends DEF sold
  <2>5. Tends(L, M, a)
    BY <1>9, <2>3, <2>4, TendsOn
  <2> QED BY <1>6, <1>9, <2>2, <2>4, <2>5 DEF promised
<1> QED BY <1>7, <1>8, <1>9

\* Entries are taken away, or added within the reserve.
LEMMA AddNumEntriesTends ==
    ASSUME NEW L, IsLedger(L), NEW b, NEW count \in Int, NEW r, r = addNumEntries(L, b, count),
           NEW a \in DOMAIN L.acc
    PROVE  /\ Tends(L, r.L, a)
           /\ r.ok /\ count > 0 /\ a = b => Avail(r.L, a) >= 0
<1> DEFINE h == L.acc[b]
           new == h.numSubEntries + count
           M == r.L
<1>1. \/ ~r.ok /\ (M = L \/ \E w : M = throw(L, w))
      \/ r.ok /\ (count > 0 => ~ (h.balance < getMinBalance(L, new) + h.selling))
  BY DEF addNumEntries, Result
<1>2. CASE ~r.ok /\ (M = L \/ \E w : M = throw(L, w))
  <2>1. Tends(L, M, a)
    BY <1>2, TendsNot, ThrowTends
  <2> QED BY <1>2, <2>1
<1>3. CASE r.ok /\ (count > 0 => ~ (h.balance < getMinBalance(L, new) + h.selling))
  <2>1. Charged(L, M, b, count)
    BY <1>3, AddNumEntries
  <2>2. /\ IsLedger(M) /\ M.baseReserve = L.baseReserve /\ M.offers = L.offers
        /\ DOMAIN M.acc = DOMAIN L.acc
    BY <2>1 DEF Charged, SameHeader
  <2>3. /\ M.acc[a] = [L.acc[a] EXCEPT !.numSubEntries = M.acc[a].numSubEntries]
        /\ M.acc[a].numSubEntries = L.acc[a].numSubEntries + (IF a = b THEN count ELSE 0)
    BY <2>1 DEF Charged
  <2>4. IsAccount(L.acc[a])
    BY DEF IsLedger, AreAccounts
  <2>5. M.acc[a].balance = L.acc[a].balance /\ M.acc[a].selling = L.acc[a].selling
    BY <2>3, <2>4 DEF IsAccount
  <2>6. /\ L.acc[a].balance \in Nat /\ L.acc[a].selling \in Nat /\ L.acc[a].numSubEntries \in Nat
        /\ L.baseReserve \in Nat
    BY AvailType
  <2>7. CASE count > 0 /\ a = b
    <3>1. ~ (h.balance < getMinBalance(L, new) + h.selling) /\ h = L.acc[a]
      BY <1>3, <2>7
    <3>2. new \in Nat
      BY <2>6, <2>7
    <3>3. getMinBalance(L, new) \in Nat /\ getMinBalance(M, new) = getMinBalance(L, new)
      BY <2>2, <3>2, MinBalanceType DEF getMinBalance
    <3>4. Avail(M, a) = M.acc[a].balance - getMinBalance(M, M.acc[a].numSubEntries) - M.acc[a].selling
      BY AvailIs
    <3>5. M.acc[a].numSubEntries = new
      BY <2>3, <2>7
    <3>6. Avail(M, a) = h.balance - getMinBalance(L, new) - h.selling
      BY <2>5, <3>1, <3>3, <3>4, <3>5
    <3>7. Avail(M, a) >= 0
      <4> HIDE DEF h, new
      <4> QED BY <2>6, <3>1, <3>3, <3>6
    <3>8. Tends(L, M, a)
      BY <2>2, <3>7, TendsUp
    <3> QED BY <2>7, <3>7, <3>8
  <2>8. CASE ~ (count > 0 /\ a = b)
    <3>1. M.acc[a].numSubEntries <= L.acc[a].numSubEntries
      BY <2>3, <2>6, <2>8
    <3>2. L.acc[a].balance - L.acc[a].selling <= M.acc[a].balance - M.acc[a].selling
      BY <2>5, <2>6
    <3>3. M.baseReserve <= L.baseReserve
      BY <2>2, <2>6
    <3>4. Avail(L, a) <= Avail(M, a)
      BY <2>2, <3>1, <3>2, <3>3, AvailGrows
    <3>5. Tends(L, M, a)
      BY <2>2, <3>4, TendsUp
    <3> HIDE DEF M
    <3> QED BY <2>8, <3>5 DEF M
  <2> QED BY <2>7, <2>8
<1> HIDE DEF M
<1> QED BY <1>1, <1>2, <1>3 DEF M

LEMMA EraseTends ==
    ASSUME NEW L, IsLedger(L), NEW id, NEW M, M = eraseOffer(L, id), NEW a \in DOMAIN L.acc
    PROVE  Tends(L, M, a)
<1> DEFINE f == Without(L.offers, id)
           N == [L EXCEPT !.offers = f]
           r == addNumEntries(N, L.offers[id].seller, -1)
<1>1. M = r.L
  BY DEF eraseOffer
<1>2. /\ AreOffers(f) /\ DOMAIN f = DOMAIN L.offers \ {id}
      /\ \A i \in DOMAIN L.offers \ {id} : f[i] = L.offers[i]
  BY WithoutOffer DEF IsLedger
<1>3. IsLedger(N) /\ N.offers = f /\ N.acc = L.acc /\ N.baseReserve = L.baseReserve
  BY <1>2, PutOffers DEF SameHeader
<1> HIDE DEF N, f
<1>4. Tends(L, N, a)
  BY <1>2, <1>3, TendsStill
<1>5. -1 \in Int
  OBVIOUS
<1>6. Tends(N, r.L, a)
  BY <1>3, <1>5, AddNumEntriesTends
<1> QED BY <1>1, <1>4, <1>6, TendsOn

\* What is left of a crossed offer is well adjusted, or nothing.
LEMMA BookRestTends ==
    ASSUME NEW L, IsLedger(L), NEW id \in DOMAIN L.offers, NEW left \in Nat,
           left # 0 => WellAdjusted(L.offers[id].price, left),
           NEW M, M = bookRest(L, id, left), NEW a \in DOMAIN L.acc
    PROVE  Tends(L, M, a)
<1> DEFINE o == L.offers[id]
           rest == [o EXCEPT !.amount = left]
           N == [L EXCEPT !.offers[id] = rest]
           f == [L.offers EXCEPT ![id] = rest]
<1>1. M = IF ~Fine(L) THEN L ELSE IF left = 0 THEN eraseOffer(L, id) ELSE acquireLiabilities(N, rest)
  BY Zenon DEF bookRest, Fine
<1>2. IsOffer(o)
  BY DEF IsLedger, AreOffers
<1>3. /\ IsOffer(rest) /\ rest.seller = o.seller /\ rest.selling = o.selling
      /\ rest.price = o.price /\ rest.amount = left
  BY <1>2, OfferAmount, Zenon
<1>4. N = [L EXCEPT !.offers = f]
  BY DEF IsLedger, LedgerFields
<1>5. AreOffers(f)
  BY <1>3 DEF IsLedger, AreOffers
<1>6. IsLedger(N) /\ N.offers = f /\ N.acc = L.acc /\ N.baseReserve = L.baseReserve
  BY <1>4, <1>5, PutOffers DEF SameHeader
<1>7. CASE ~Fine(L)
  BY <1>1, <1>7, TendsNot
<1>8. CASE left = 0
  BY <1>1, <1>8, EraseTends, TendsNot
<1>9. CASE Fine(L) /\ left # 0
  <2>1. M = acquireLiabilities(N, rest)
    BY <1>1, <1>9
  <2>2. /\ DOMAIN f = DOMAIN L.offers /\ f[id] = rest
        /\ \A i \in DOMAIN f : i # id => f[i] = L.offers[i]
    OBVIOUS
  <2> HIDE DEF N, f, rest
  <2>3. AllWell(L) => AllWell(N)
    BY <1>3, <1>6, <1>9, <2>2 DEF AllWell, Well
  <2>4. SellsLumens(N, a) => SellsLumens(L, a)
    BY <1>3, <1>6, <2>2 DEF SellsLumens
  <2>5. Avail(N, a) = Avail(L, a)
    BY <1>6, AvailIs DEF getMinBalance
  <2>6. Tends(L, N, a)
    BY <2>3, <2>4, <2>5 DEF Tends
  <2>7. 1 \in {-1, 1}
    OBVIOUS
  <2>8. Tends(N, M, a)
    BY <1>3, <1>6, <2>1, <2>7, AcquireOrReleaseTends DEF acquireLiabilities
  <2> QED BY <2>6, <2>8, TendsOn
<1> QED BY <1>7, <1>8, <1>9

-----------------------------------------------------------------------------
(* What adjustOffer leaves is well adjusted. *)

LEMMA CanSellBound ==
    ASSUME NEW L, IsLedger(L), NEW a \in DOMAIN L.acc, NEW asset
    PROVE  canSellAtMost(L, a, asset) \in 0..INT64_MAX
<1>1. canSellAtMost(L, a, asset) \in Nat
  BY CanSellType
<1>2. INT64_MAX \in Nat
  BY Int64Assumption
<1> DEFINE v == getAvailableBalance(L, a, asset)
<1>3. CASE isIssuer(a, asset)
  <2>1. v = INT64_MAX
    BY <1>3 DEF getAvailableBalance
  <2>2. canSellAtMost(L, a, asset) \in {Max({INT64_MAX, 0}), 0}
    BY <2>1 DEF canSellAtMost
  <2>3. Max({INT64_MAX, 0}) = INT64_MAX
    BY <1>2, MaxOfTwo
  <2> QED BY <1>2, <2>2, <2>3
<1>4. CASE ~isIssuer(a, asset) /\ ~Exists(L, a, asset)
  <2>1. canSellAtMost(L, a, asset) = 0
    BY <1>4 DEF canSellAtMost, hasTrustLine, Exists
  <2> QED BY <1>2, <2>1
<1>5. CASE ~isIssuer(a, asset) /\ Exists(L, a, asset)
  <2> DEFINE h == Holding(L, a, asset)
  <2>1. /\ h.balance \in Nat /\ h.buying \in Nat /\ h.selling \in Nat
        /\ h.balance + h.buying <= IF asset = Native THEN INT64_MAX ELSE h.limit
        /\ asset = Native => h.numSubEntries \in Nat
    BY <1>5, HoldingFields, Zenon
  <2>2. asset # Native => h.limit <= INT64_MAX /\ h.limit \in Nat
    <3>1. asset # Native => IsLine(h)
      BY <1>5 DEF Exists, Holding, IsLedger, AreLines
    <3> QED BY <3>1, LineFields
  <2>3. asset = Native => getMinBalance(L, h.numSubEntries) \in Nat
    BY <2>1, MinBalanceType
  <2>4. v = IF asset = Native THEN h.balance - getMinBalance(L, h.numSubEntries) - h.selling
            ELSE h.balance - h.selling
    BY <1>5 DEF getAvailableBalance
  <2>5. v \in Int /\ v <= INT64_MAX
    <3> HIDE DEF h, v
    <3> QED BY <1>2, <2>1, <2>2, <2>3, <2>4
  <2>6. canSellAtMost(L, a, asset) \in {Max({v, 0}), 0}
    BY DEF canSellAtMost
  <2> HIDE DEF v, h
  <2>7. Max({v, 0}) \in {v, 0}
    BY <2>5, MaxOfTwo
  <2> QED BY <1>1, <1>2, <2>5, <2>6, <2>7
<1> QED BY <1>3, <1>4, <1>5

LEMMA CanBuyBound ==
    ASSUME NEW L, IsLedger(L), NEW a \in DOMAIN L.acc, NEW asset
    PROVE  canBuyAtMost(L, a, asset) \in 0..INT64_MAX
<1>1. canBuyAtMost(L, a, asset) \in Nat
  BY CanBuyType
<1>2. INT64_MAX \in Nat
  BY Int64Assumption
<1> DEFINE v == getMaxAmountReceive(L, a, asset)
<1>3. CASE isIssuer(a, asset)
  <2>1. v = INT64_MAX
    BY <1>3 DEF getMaxAmountReceive
  <2>2. canBuyAtMost(L, a, asset) \in {Max({INT64_MAX, 0}), 0}
    BY <2>1 DEF canBuyAtMost
  <2>3. Max({INT64_MAX, 0}) = INT64_MAX
    BY <1>2, MaxOfTwo
  <2> QED BY <1>2, <2>2, <2>3
<1>4. CASE ~isIssuer(a, asset) /\ ~Exists(L, a, asset)
  <2>1. canBuyAtMost(L, a, asset) = 0
    BY <1>4 DEF canBuyAtMost, canHold, hasTrustLine, Exists
  <2> QED BY <1>2, <2>1
<1>5. CASE ~isIssuer(a, asset) /\ Exists(L, a, asset)
  <2> DEFINE h == Holding(L, a, asset)
  <2>1. /\ h.balance \in Nat /\ h.buying \in Nat
        /\ h.balance + h.buying <= IF asset = Native THEN INT64_MAX ELSE h.limit
    BY <1>5, HoldingFields, Zenon
  <2>2. asset # Native => h.limit <= INT64_MAX /\ h.limit \in Nat
    <3>1. asset # Native => IsLine(h)
      BY <1>5 DEF Exists, Holding, IsLedger, AreLines
    <3> QED BY <3>1, LineFields
  <2>4. v = IF asset = Native THEN INT64_MAX - (h.balance + h.buying)
            ELSE IF h.authorized THEN h.limit - h.balance - h.buying ELSE 0
    BY <1>5 DEF getMaxAmountReceive
  <2>5. v \in Int /\ v <= INT64_MAX
    <3> HIDE DEF h, v
    <3> QED BY <1>2, <2>1, <2>2, <2>4
  <2>6. canBuyAtMost(L, a, asset) \in {Max({v, 0}), 0}
    BY DEF canBuyAtMost
  <2> HIDE DEF v, h
  <2>7. Max({v, 0}) \in {v, 0}
    BY <2>5, MaxOfTwo
  <2> QED BY <1>1, <1>2, <2>5, <2>6, <2>7
<1> QED BY <1>3, <1>4, <1>5

LEMMA AdjustedIsWell ==
    ASSUME NEW L, IsLedger(L), NEW o, IsOffer(o), o.seller \in DOMAIN L.acc,
           NEW left, left = AdjustedAmount(L, o).numWheatReceived
    PROVE  left \in Nat /\ (left # 0 => WellAdjusted(o.price, left))
<1> DEFINE most == canSellAtMost(L, o.seller, o.selling)
           room == canBuyAtMost(L, o.seller, o.buying)
           ws == Min({o.amount, most})
           out == adjustOffer(o.price, ws, room)
<1>1. most \in 0..INT64_MAX /\ room \in 0..INT64_MAX
  BY CanSellBound, CanBuyBound
<1>2. o.amount \in Nat /\ o.price \in Price
  BY DEF IsOffer
<1>3. INT64_MAX \in Nat
  BY Int64Assumption
<1> HIDE DEF most, room
<1>4. ws \in 0..INT64_MAX
  BY <1>1, <1>2, <1>3, MinOfTwo
<1>5. left = out.numWheatReceived /\ AdjustedAmount(L, o) = out
  BY DEF AdjustedAmount, most, room
<1>6. left \in Nat
  <2>1. AdjustedAmount(L, o) \in Exchanged
    BY Adjusted
  <2> HIDE DEF out
  <2> QED BY <2>1 DEF Exchanged
<1> HIDE DEF ws
<1>7. out.numWheatReceived # 0 => WellAdjusted(o.price, out.numWheatReceived)
  BY <1>1, <1>2, <1>4, LeftIsWell
<1> QED BY <1>5, <1>6, <1>7

-----------------------------------------------------------------------------
(* Crossing offers. *)

LEMMA SettleCrossTends ==
    ASSUME NEW L, IsLedger(L), NEW id \in DOMAIN L.offers, NEW o, o = L.offers[id],
           o.seller \in DOMAIN L.acc, NEW adjusted, adjusted.numWheatReceived \in Nat,
           NEW mw \in Nat, NEW ms \in Nat, NEW trade,
           TradesWithin(trade, adjusted.numWheatReceived, mw, ms),
           NEW c, c = settleCross(L, id, adjusted, trade), NEW a \in DOMAIN L.acc
    PROVE  Tends(L, c.L, a)
<1> DEFINE T1 == throw(L, adjusted.err)
           T == throw(T1, trade.err)
           w1 == "overflowed sheep balance"
           w2 == "overflowed wheat balance"
           sold == PaidBoth(T, o.seller, o.buying, o.selling, trade.numSheepSend,
                            trade.numWheatReceived, w1, w2)
           rest == [o EXCEPT !.amount = adjusted.numWheatReceived - trade.numWheatReceived]
           kept == AdjustedAmount(sold, rest)
           S == IF trade.wheatStays THEN throw(sold, kept.err) ELSE sold
           left == IF trade.wheatStays THEN kept.numWheatReceived ELSE 0
<1>1. c = crossed(id, trade, sold, kept)
  BY DEF settleCross, PaidBoth
<1>2. IsOffer(o)
  BY DEF IsLedger, AreOffers
<1>3. /\ trade.numWheatReceived \in Nat /\ trade.numSheepSend \in Nat
      /\ trade.numWheatReceived <= adjusted.numWheatReceived
  BY DEF TradesWithin
<1>4. IsLedger(T1) /\ DOMAIN T1.acc = DOMAIN L.acc /\ T1.offers = L.offers
  BY MovedThrow DEF Moved
<1>5. Tends(L, T1, a)
  BY ThrowTends
<1> HIDE DEF T1
<1>6. IsLedger(T) /\ DOMAIN T.acc = DOMAIN T1.acc /\ T.offers = T1.offers
  BY <1>4, MovedThrow DEF Moved
<1>7. Tends(T1, T, a)
  BY <1>4, ThrowTends
<1>8. Tends(L, T, a)
  BY <1>5, <1>7, TendsOn
<1> HIDE DEF T
<1>9. Named(w1) /\ Named(w2)
  BY DEF Named
<1> HIDE DEF w1, w2
<1>10. o.seller \in DOMAIN T.acc /\ a \in DOMAIN T.acc
  BY <1>4, <1>6
<1>11. Tends(T, sold, a)
  BY <1>3, <1>6, <1>9, <1>10, PaidBothTends
<1>12. \E d \in Int : Moved(T, sold, d)
  BY <1>3, <1>6, <1>9, <1>10, PayBoth
<1> HIDE DEF sold
<1>13. /\ IsLedger(sold) /\ o.seller \in DOMAIN sold.acc /\ sold.offers = L.offers
       /\ a \in DOMAIN sold.acc
  BY <1>4, <1>6, <1>10, <1>12 DEF Moved
<1>14. /\ kept.numWheatReceived \in Nat
       /\ kept.numWheatReceived # 0 => WellAdjusted(o.price, kept.numWheatReceived)
  <2>1. IsOffer(rest) /\ rest.seller = o.seller /\ rest.price = o.price
    BY <1>2, <1>3 DEF IsOffer
  <2> HIDE DEF rest
  <2> QED BY <1>13, <2>1, AdjustedIsWell
<1> HIDE DEF kept
<1>15. Tends(sold, S, a)
  BY <1>13, ThrowTends, TendsNot
<1>16. IsLedger(S) /\ S.offers = L.offers /\ a \in DOMAIN S.acc
  BY <1>13, MovedThrow DEF Moved
<1>17. c.L = bookRest(S, id, left)
  BY <1>1, CrossedIs
<1>18. left \in Nat /\ (left # 0 => WellAdjusted(o.price, left))
  BY <1>14
<1> HIDE DEF S, left
<1>19. Tends(S, c.L, a)
  BY <1>16, <1>17, <1>18, BookRestTends
<1>20. Tends(L, sold, a)
  BY <1>8, <1>11, TendsOn
<1>21. Tends(L, S, a)
  BY <1>15, <1>20, TendsOn
<1> QED BY <1>19, <1>21, TendsOn

LEMMA CrossOfferTends ==
    ASSUME NEW L, IsLedger(L), Fine(L), NEW id \in DOMAIN L.offers,
           NEW mw \in Nat, NEW ms \in Nat, NEW path \in BOOLEAN, NEW c,
           c = crossOfferV10(L, id, mw, ms, path), Fine(c.L), NEW a \in DOMAIN L.acc
    PROVE  Tends(L, c.L, a)
<1> DEFINE o == L.offers[id]
           free == releaseLiabilities(L, o)
           p == free.offers[id]
           adjusted == AdjustedAmount(free, p)
           trade == exchangeV10(p.price,
                       Min({adjusted.numWheatReceived, canSellAtMost(free, p.seller, p.selling)}),
                       mw, ms, canBuyAtMost(free, p.seller, p.buying), path)
           none == [wheat |-> 0, sheep |-> 0, wheatStays |-> TRUE, taken |-> FALSE, L |-> free]
<1>1. c = IF ~Fine(free) THEN none ELSE settleCross(free, id, adjusted, trade)
  BY Zenon DEF crossOfferV10, crossReleased, Fine
<1>2. IsOffer(o)
  BY DEF IsLedger, AreOffers
<1>3. Moved(L, free, 0) /\ (Fine(free) => o.seller \in DOMAIN L.acc)
  BY <1>2, Release
<1>4. IsLedger(free) /\ p = o /\ id \in DOMAIN free.offers /\ DOMAIN free.acc = DOMAIN L.acc
  BY <1>3 DEF Moved
<1>5. none.L = free
  OBVIOUS
<1>6. Tends(L, free, a)
  BY <1>2, AcquireOrReleaseTends DEF releaseLiabilities
<1> HIDE DEF free, none, o
<1>7. Fine(free)
  BY <1>1, <1>5
<1>8. c = settleCross(free, id, adjusted, trade)
  BY <1>1, <1>7
<1>9. p.seller \in DOMAIN free.acc /\ IsOffer(p)
  BY <1>2, <1>3, <1>4, <1>7
<1>10. adjusted.numWheatReceived \in Nat
  BY <1>4, <1>9, Adjusted DEF Exchanged
<1> HIDE DEF adjusted, p
<1>11. TradesWithin(trade, adjusted.numWheatReceived, mw, ms)
  BY <1>4, <1>9, <1>10, TradeOf
<1> HIDE DEF trade
<1>12. Tends(free, c.L, a)
  BY <1>4, <1>8, <1>9, <1>10, <1>11, SettleCrossTends DEF p
<1> QED BY <1>6, <1>12, TendsOn

RoundTends(L, s, a) == Fine(s.L) => Tends(L, s.L, a)

LEMMA RoundStaysTending ==
    ASSUME NEW L, IsLedger(L), NEW sheep, NEW ms \in Nat, NEW wheat, NEW mw \in Nat,
           NEW path \in BOOLEAN, NEW filter, NEW a \in DOMAIN L.acc,
           NEW s, RoundOf(L, s, sheep, wheat, mw, ms), RoundTends(L, s, a),
           NEW t, t = crossBest(s, sheep, ms, wheat, mw, path, filter)
    PROVE  RoundTends(L, t, a)
<1>1. CASE t = s
  BY <1>1
<1>2. ASSUME ~Named(s.result), NEW x, t = [s EXCEPT !.result = x]
      PROVE  RoundTends(L, t, a)
  <2>1. t.L = s.L
    BY <1>2 DEF RoundOf
  <2> QED BY <2>1 DEF RoundTends
<1>3. ASSUME NEW id, Crosses(s, t, id, sheep, ms, wheat, mw, path)
      PROVE  RoundTends(L, t, a)
  <2> DEFINE w == mw - s.wheat
             h == ms - s.sheep
             c == crossOfferV10(s.L, id, w, h, path)
  <2>1. Fine(s.L)
    <3>1. Named("throw")
      BY DEF Named
    <3> QED BY <1>3, <3>1 DEF RoundOf, Crosses
  <2>2. /\ IsLedger(s.L) /\ s.wheat \in Nat /\ s.wheat <= mw /\ s.sheep \in Nat /\ s.sheep <= ms
        /\ a \in DOMAIN s.L.acc
    BY <2>1 DEF RoundOf, Traded
  <2>3. w \in Nat /\ h \in Nat
    BY <2>2
  <2>4. id \in DOMAIN s.L.offers
    BY <1>3, BestOffer DEF Crosses
  <2>5. t = countCross(s, c, ms, mw)
    BY <1>3 DEF Crosses
  <2> HIDE DEF w, h
  <2>6. Fine(c.L) => Tends(s.L, c.L, a)
    BY <2>1, <2>2, <2>3, <2>4, CrossOfferTends
  <2> HIDE DEF c
  <2>7. t.L = c.L
    BY <2>5, CountIs
  <2>8. Tends(L, s.L, a)
    BY <2>1 DEF RoundTends
  <2>9. Fine(c.L) => Tends(L, c.L, a)
    BY <2>6, <2>8, TendsOn
  <2> QED BY <2>7, <2>9 DEF RoundTends
<1> QED BY <1>1, <1>2, <1>3, RoundIs, Zenon

LEMMA ConvertTends ==
    ASSUME NEW L, IsLedger(L), Fine(L), NEW sheep, NEW ms \in Nat, NEW wheat, NEW mw \in Nat,
           NEW path \in BOOLEAN, NEW filter, NEW a \in DOMAIN L.acc,
           NEW r, r = convertWithOffers(L, sheep, ms, wheat, mw, path, filter)
    PROVE  RoundTends(L, r, a)
<1> DEFINE n == Rounds(L)
           R(s) == RoundOf(L, s, sheep, wheat, mw, ms) /\ RoundTends(L, s, a)
           F == CHOOSE F : AreRounds(F, n, L, sheep, ms, wheat, mw, path, filter)
           N == {k \in Nat : k <= n => R(F[k])}
<1>1. n \in Nat
  BY FS_CardinalityType DEF Rounds, IsLedger, AreOffers
<1>2. AreRounds(F, n, L, sheep, ms, wheat, mw, path, filter)
  <2> HIDE DEF n
  <2> QED BY <1>1, RoundsExist, Zenon
<1>3. r = F[n]
  BY ConversionIs
<1> HIDE DEF F, n
<1>4. \A k \in 0..n : F[k] = IF k = 0 THEN FirstRound(L, ms, mw)
                             ELSE crossBest(F[k - 1], sheep, ms, wheat, mw, path, filter)
  BY <1>2 DEF AreRounds
<1>5. R(F[0])
  <2>1. F[0] = FirstRound(L, ms, mw)
    BY <1>1, <1>4
  <2>2. F[0].L = L
    <3>1. FirstRound(L, ms, mw).L = L
      BY DEF FirstRound
    <3> QED BY <2>1, <3>1
  <2>3. RoundTends(L, F[0], a)
    BY <2>2, TendsNot DEF RoundTends
  <2> QED BY <2>1, <2>3, FirstRoundIs
<1>6. ASSUME NEW k \in Nat, k + 1 <= n, R(F[k]) PROVE R(F[k + 1])
  <2>1. F[k + 1] = crossBest(F[k], sheep, ms, wheat, mw, path, filter)
    <3>1. k + 1 \in 0..n /\ k + 1 # 0 /\ (k + 1) - 1 = k
      BY <1>1, <1>6
    <3> QED BY <3>1, <1>4
  <2> QED BY <2>1, <1>6, RoundKeeps, RoundStaysTending
<1> HIDE DEF R
<1>7. Nat \subseteq N
  <2>1. 0 \in N
    BY <1>5
  <2>2. \A k \in Nat : k \in N => k + 1 \in N
    BY <1>1, <1>6
  <2> HIDE DEF N
  <2> QED BY <2>1, <2>2, Induction
<1>8. R(F[n])
  BY <1>1, <1>7
<1> QED BY <1>3, <1>8 DEF R

-----------------------------------------------------------------------------
(* Payments. *)

HopTends(L, st, a) == st.code = "ok" => Tends(L, st.L, a)

LEMMA HopStaysTending ==
    ASSUME NEW L, IsLedger(L), NEW a \in DOMAIN L.acc,
           NEW st, HopOf(L, st), HopTends(L, st, a), NEW curA, NEW src, NEW t,
           t = Hop(st, curA, src)
    PROVE  HopTends(L, t, a)
<1> DEFINE r == convertWithOffers(st.L, curA, INT64_MAX, st.asset, st.amount, TRUE, HopFilter(st, src))
           code == HopCode(r, st.amount)
<1>1. CASE t = [st EXCEPT !.code = "no issuer"]
  <2>1. t.code # "ok"
    BY <1>1 DEF HopOf
  <2> QED BY <2>1 DEF HopTends
<1>2. CASE /\ st.code = "ok"
           /\ t = [code |-> code, L |-> r.L, asset |-> curA, amount |-> r.sheep]
  <2>1. t.code = code /\ t.L = r.L
    <3> HIDE DEF code, r
    <3> QED BY <1>2
  <2>2. IsLedger(st.L) /\ Fine(st.L) /\ st.amount \in Nat /\ a \in DOMAIN st.L.acc
    BY <1>2 DEF HopOf, Traded
  <2>3. INT64_MAX \in Nat /\ TRUE \in BOOLEAN
    BY Int64Assumption
  <2>4. RoundOf(st.L, r, curA, st.asset, st.amount, INT64_MAX)
    BY <2>2, <2>3, Convert
  <2>5. RoundTends(st.L, r, a)
    BY <2>2, <2>3, ConvertTends
  <2>6. ASSUME t.code = "ok" PROVE Tends(L, t.L, a)
    <3>1. r.result = "ok"
      BY <2>1, <2>6, HopCodeOk
    <3> HIDE DEF r, code
    <3>2. Fine(r.L)
      BY <2>4, <3>1 DEF RoundOf
    <3>3. Tends(st.L, r.L, a) /\ Tends(L, st.L, a)
      BY <1>2, <2>5, <3>2 DEF RoundTends, HopTends
    <3> QED BY <2>1, <3>3, TendsOn
  <2> QED BY <2>6 DEF HopTends
<1>3. CASE t = st
  BY <1>3
<1>4. HopTo(st, t, curA, r)
  BY HopIs
<1> HIDE DEF r
<1> QED BY <1>1, <1>2, <1>3, <1>4, Zenon DEF HopTo

LEMMA HopsStayTending ==
    ASSUME NEW L, IsLedger(L), NEW a \in DOMAIN L.acc,
           NEW start, HopOf(L, start), HopTends(L, start, a),
           NEW path, Len(path) \in Nat, NEW src
    PROVE  HopTends(L, Hops(start, path, src), a)
<1> DEFINE n == Len(path)
           F == CHOOSE F : AreHops(F, n, start, path, src)
           R(st) == HopOf(L, st) /\ HopTends(L, st, a)
           N == {k \in Nat : k <= n => R(F[k])}
<1>1. AreHops(F, n, start, path, src)
  BY HopsExist, Zenon
<1>2. Hops(start, path, src) = F[n]
  BY HopsAre
<1> HIDE DEF F
<1>3. \A k \in 0..n : F[k] = IF k = 0 THEN start ELSE Hop(F[k - 1], path[n + 1 - k], src)
  BY <1>1 DEF AreHops
<1>4. F[0] = start
  BY <1>3
<1>5. ASSUME NEW k \in Nat, k + 1 <= n, R(F[k]) PROVE R(F[k + 1])
  <2>1. F[k + 1] = Hop(F[k], path[n + 1 - (k + 1)], src)
    <3>1. k + 1 \in 0..n /\ k + 1 # 0 /\ (k + 1) - 1 = k
      BY <1>5
    <3> QED BY <3>1, <1>3
  <2> HIDE DEF n
  <2> QED BY <2>1, <1>5, HopKeeps, HopStaysTending
<1>6. R(F[0])
  BY <1>4
<1> HIDE DEF R
<1>7. Nat \subseteq N
  <2>1. 0 \in N
    BY <1>6
  <2>2. \A k \in Nat : k \in N => k + 1 \in N
    BY <1>5
  <2> HIDE DEF N
  <2> QED BY <2>1, <2>2, Induction
<1>8. R(F[n])
  BY <1>7
<1> QED BY <1>2, <1>8 DEF R

LEMMA PathPaymentTends ==
    ASSUME NEW L, IsLedger(L), Fine(L), NEW op, op.src \in DOMAIN L.acc,
           op.destAmount \in Nat, NEW S, op.sendAsset \in S, op.path \in Seq(S),
           NEW r, r = PathPayment(L, op), r.code = "ok", NEW a \in DOMAIN L.acc
    PROVE  Tends(L, r.L, a)
<1> DEFINE credited == addBalance(L, op.dest, op.destAsset, op.destAmount)
           start == Credited(L, op)
           path == <<op.sendAsset>> \o op.path
           end == Hops(start, path, op.src)
           debited == addBalance(end.L, op.src, end.asset, -end.amount)
<1>1. /\ op.destAsset = Native => op.dest \in DOMAIN L.acc
      /\ credited.ok
      /\ \E bypass : r = Debit(end, op, bypass)
  BY PathPaymentIs
<1>2. op.destAmount \in Int
  OBVIOUS
<1>3. Moved(L, credited.L, OfNative(op.destAsset, op.destAmount))
  <2>1. Moved(L, credited.L, IF credited.ok THEN OfNative(op.destAsset, op.destAmount) ELSE 0)
    BY <1>1, <1>2, AddBalance
  <2> QED BY <1>1, <2>1
<1>4. /\ start = [code |-> start.code, L |-> start.L, asset |-> start.asset, amount |-> start.amount]
      /\ start.L = credited.L /\ start.asset = op.destAsset /\ start.amount = op.destAmount
  BY DEF Credited
<1>5. IsLedger(credited.L) /\ Traded(L, credited.L, OfNative(op.destAsset, op.destAmount))
  BY <1>3, MovedIsTraded DEF Moved
<1>6. Fine(credited.L)
  BY AddBalanceFine
<1>7. Len(path) \in Nat
  BY PathLength
<1>8. Tends(L, credited.L, a)
  BY <1>1, <1>2, AddBalanceTends
<1> HIDE DEF credited, start, path
<1>9. HopOf(L, start) /\ HopTends(L, start, a)
  BY <1>4, <1>5, <1>6, <1>8 DEF HopOf, HopTends
<1>10. HopOf(L, end) /\ HopTends(L, end, a)
  BY <1>7, <1>9, HopsKeep, HopsStayTending
<1> HIDE DEF end
<1>11. end.code = "ok" /\ r.L = debited.L
  <2>1. PICK bypass : r = Debit(end, op, bypass)
    BY <1>1
  <2> QED BY <2>1, DebitIs
<1>12. /\ IsLedger(end.L) /\ end.amount \in Nat /\ -end.amount \in Int
       /\ op.src \in DOMAIN end.L.acc /\ a \in DOMAIN end.L.acc
  BY <1>10, <1>11 DEF HopOf, Traded
<1>13. Tends(end.L, debited.L, a)
  BY <1>12, AddBalanceTends
<1>14. Tends(L, end.L, a)
  BY <1>10, <1>11 DEF HopTends
<1> QED BY <1>11, <1>13, <1>14, TendsOn

LEMMA PaymentTends ==
    ASSUME NEW L, IsLedger(L), Fine(L), NEW op, op.src \in DOMAIN L.acc, op.amount \in Nat,
           NEW r, r = Payment(L, op), r.code = "ok", NEW a \in DOMAIN L.acc
    PROVE  Tends(L, r.L, a)
<1> DEFINE o == [src |-> op.src, dest |-> op.dest, path |-> <<>>,
                 sendAsset |-> op.asset, destAsset |-> op.asset,
                 sendMax |-> op.amount, destAmount |-> op.amount]
           p == PathPayment(L, o)
<1>1. r = Done(L) \/ r = p
  <2>1. \A M : Fail("internal error", M).code # "ok"
    BY DEF Fail
  <2> QED BY <2>1 DEF Payment
<1>2. CASE r = Done(L)
  <2>1. r.L = L
    BY <1>2 DEF Done
  <2> QED BY <2>1, TendsNot
<1>3. CASE r = p
  <2>1. /\ o.src = op.src /\ o.destAmount = op.amount
        /\ o.sendAsset \in {op.asset} /\ o.path = <<>> /\ <<>> \in Seq({op.asset})
    OBVIOUS
  <2> HIDE DEF o
  <2> QED BY <1>3, <2>1, PathPaymentTends
<1> QED BY <1>1, <1>2, <1>3

-----------------------------------------------------------------------------
(* Offers that are made, changed and taken back. *)

\* The rest of an offer that may go on the book.
Bookable(o, left) == left \in Nat /\ (left # 0 => WellAdjusted(o.price, left))

LEMMA SettleTradeTends ==
    ASSUME NEW L, IsLedger(L), NEW o, IsOffer(o), o.seller \in DOMAIN L.acc, NEW limits,
           limits.maxSheepSend \in Nat, limits.maxWheatReceive \in Nat, NEW a \in DOMAIN L.acc,
           NEW r, RoundOf(L, r, o.selling, o.buying, limits.maxWheatReceive, limits.maxSheepSend),
           RoundTends(L, r, a),
           NEW t, t = settleTrade(o, limits, r), t.code = "ok"
    PROVE  Tends(L, t.L, a) /\ Bookable(o, t.amount)
<1> DEFINE left == limits.maxSheepSend - r.sheep
           traded == Paid(o, r)
           rest == [o EXCEPT !.amount = left]
           kept == AdjustedAmount(traded, rest)
<1>1. Fine(r.L) /\ TradeLeaves(t, o, left, traded)
  BY SettleTradeIs
<1>2. /\ IsLedger(r.L) /\ r.wheat \in Nat /\ r.sheep \in Nat /\ r.sheep <= limits.maxSheepSend
      /\ Traded(L, r.L, Brought(o.selling, o.buying, r.sheep, r.wheat))
  BY <1>1 DEF RoundOf
<1>3. o.seller \in DOMAIN r.L.acc /\ a \in DOMAIN r.L.acc
  BY <1>2 DEF Traded
<1>4. Tends(L, r.L, a)
  BY <1>1 DEF RoundTends
<1>5. IsLedger(traded) /\ Tends(r.L, traded, a) /\ DOMAIN traded.acc = DOMAIN r.L.acc
  <2>1. CASE r.wheat = 0
    <3>1. traded = r.L
      BY <2>1 DEF Paid
    <3> HIDE DEF traded
    <3> QED BY <1>2, <3>1, TendsNot
  <2>2. CASE r.wheat # 0
    <3> DEFINE w1 == "offer claimed over limit"
               w2 == "offer sold more than balance"
    <3>1. Named(w1) /\ Named(w2)
      BY DEF Named
    <3>2. traded = PaidBoth(r.L, o.seller, o.buying, o.selling, r.wheat, r.sheep, w1, w2)
      BY <2>2, Zenon DEF Paid
    <3> HIDE DEF traded, w1, w2
    <3>3. \E d \in Int : Moved(r.L, traded, d)
      BY <1>2, <1>3, <3>1, <3>2, PayBoth
    <3>4. Tends(r.L, traded, a)
      BY <1>2, <1>3, <3>1, <3>2, PaidBothTends
    <3> QED BY <3>3, <3>4 DEF Moved
  <2> QED BY <2>1, <2>2
<1>6. left \in Nat
  BY <1>2
<1> HIDE DEF traded, left
<1>7. Tends(L, traded, a)
  BY <1>4, <1>5, TendsOn
<1>8. Bookable(o, kept.numWheatReceived)
  <2>1. IsOffer(rest) /\ rest.seller = o.seller /\ rest.price = o.price
    BY <1>6, OfferAmount
  <2> HIDE DEF rest
  <2>2. o.seller \in DOMAIN traded.acc
    BY <1>3, <1>5
  <2> QED BY <1>5, <2>1, <2>2, AdjustedIsWell DEF Bookable
<1>9. \/ t.amount = 0 /\ t.L = traded
      \/ t.amount = kept.numWheatReceived /\ t.L = throw(traded, kept.err)
  BY <1>1, Zenon DEF TradeLeaves
<1> HIDE DEF kept
<1>10. Tends(traded, t.L, a)
  BY <1>5, <1>9, TendsNot, ThrowTends
<1>11. Bookable(o, t.amount)
  BY <1>8, <1>9 DEF Bookable
<1> QED BY <1>7, <1>10, <1>11, TendsOn

LEMMA TradeOfferTends ==
    ASSUME NEW L, IsLedger(L), Fine(L), NEW o, IsOffer(o), o.seller \in DOMAIN L.acc, NEW limits,
           limits.maxSheepSend \in Nat, limits.maxWheatReceive \in Nat, NEW a \in DOMAIN L.acc,
           NEW t, t = tradeOffer(L, o, limits), t.code = "ok"
    PROVE  Tends(L, t.L, a) /\ Bookable(o, t.amount)
<1>1. \E filter : t = settleTrade(o, limits,
                          convertWithOffers(L, o.selling, limits.maxSheepSend, o.buying,
                                            limits.maxWheatReceive, FALSE, filter))
  BY Zenon DEF tradeOffer
<1>2. PICK filter : t = settleTrade(o, limits,
                            convertWithOffers(L, o.selling, limits.maxSheepSend, o.buying,
                                              limits.maxWheatReceive, FALSE, filter))
  BY <1>1
<1> DEFINE r == convertWithOffers(L, o.selling, limits.maxSheepSend, o.buying,
                                  limits.maxWheatReceive, FALSE, filter)
<1>3. RoundOf(L, r, o.selling, o.buying, limits.maxWheatReceive, limits.maxSheepSend)
  BY Convert
<1>4. RoundTends(L, r, a)
  BY ConvertTends
<1> HIDE DEF r
<1>5. t = settleTrade(o, limits, r)
  BY <1>2 DEF r
<1> QED BY <1>3, <1>4, <1>5, SettleTradeTends

\* An offer goes on the book, and its seller has what it promises.
LEMMA BookTends ==
    ASSUME NEW L, IsLedger(L), NEW id \in Nat, id \notin DOMAIN L.offers, NEW o, IsOffer(o), Well(o),
           NEW N, N = acquireLiabilities([L EXCEPT !.offers = With(L.offers, id, o)], o), Fine(N),
           NEW a \in DOMAIN L.acc
    PROVE  Tends(L, N, a)
<1> DEFINE f == With(L.offers, id, o)
           B == [L EXCEPT !.offers = f]
<1>1. /\ DOMAIN f = DOMAIN L.offers \cup {id} /\ f[id] = o
      /\ \A i \in DOMAIN L.offers : i # id => f[i] = L.offers[i]
  BY DEF With
<1>12. AreOffers(f)
  BY WithOffer DEF IsLedger
<1>2. IsLedger(B) /\ B.offers = f /\ B.acc = L.acc /\ B.baseReserve = L.baseReserve
  BY <1>12, PutOffers DEF SameHeader
<1>3. N = acquireLiabilities(B, o)
  OBVIOUS
<1> HIDE DEF B, f
<1>4. Avail(B, a) = Avail(L, a)
  BY <1>2, AvailIs DEF getMinBalance
<1>5. AllWell(L) => AllWell(B)
  BY <1>1, <1>2 DEF AllWell
<1>6. SellsLumens(B, a) => SellsLumens(L, a) \/ (o.seller = a /\ o.selling = Native)
  BY <1>1, <1>2 DEF SellsLumens
<1>7. /\ Tends(B, N, a)
      /\ o.selling = Native /\ OfferLiabilities(o.price, o.amount).numWheatReceived # 0
         => Avail(N, o.seller) >= 0
  <2>1. N = acquireOrReleaseLiabilities(B, o, 1)
    BY <1>3 DEF acquireLiabilities
  <2>2. 1 \in {-1, 1}
    OBVIOUS
  <2> QED BY <1>2, <2>1, <2>2, AcquireOrReleaseTends
<1>8. OfferLiabilities(o.price, o.amount).numWheatReceived # 0
  <2>1. o.price \in Price /\ WellAdjusted(o.price, o.amount)
    BY DEF IsOffer, Well
  <2>2. OfferLiabilities(o.price, o.amount).numWheatReceived = o.amount /\ o.amount \in 1..INT64_MAX
    BY <2>1, WellAdjustedIs
  <2> QED BY <2>2
<1>9. AllWell(L) => AllWell(N)
  BY <1>5, <1>7 DEF Tends
<1>10. Avail(L, a) >= 0 => Avail(N, a) >= 0
  BY <1>4, <1>7 DEF Tends
<1>11. SellsLumens(N, a) => SellsLumens(L, a) \/ Avail(N, a) >= 0
  BY <1>6, <1>7, <1>8 DEF Tends
<1> QED BY <1>9, <1>10, <1>11 DEF Tends

\* An offer is taken off the book.
LEMMA OffTends ==
    ASSUME NEW L, IsLedger(L), NEW id \in DOMAIN L.offers, NEW B, B = Off(L, id),
           NEW a \in DOMAIN L.acc
    PROVE  Tends(L, B, a)
<1> DEFINE o == L.offers[id]
           R == releaseLiabilities(L, o)
           f == Without(R.offers, id)
<1>1. IsOffer(o)
  BY DEF IsLedger, AreOffers
<1>2. Moved(L, R, 0)
  BY <1>1, Release
<1>3. IsLedger(R) /\ R.offers = L.offers
  BY <1>2 DEF Moved
<1>4. B = [R EXCEPT !.offers = f]
  BY <1>3 DEF Off
<1>5. Tends(L, R, a)
  BY <1>1, AcquireOrReleaseTends DEF releaseLiabilities
<1> HIDE DEF R
<1>6. AreOffers(f) /\ DOMAIN f \subseteq DOMAIN R.offers /\ \A i \in DOMAIN f : f[i] = R.offers[i]
  <2> DEFINE g == R.offers
  <2>1. AreOffers(g)
    BY <1>3 DEF IsLedger
  <2> HIDE DEF g
  <2>2. /\ AreOffers(Without(g, id)) /\ DOMAIN Without(g, id) = DOMAIN g \ {id}
        /\ \A i \in DOMAIN g \ {id} : Without(g, id)[i] = g[i]
    BY <2>1, WithoutOffer
  <2>3. f = Without(g, id)
    BY DEF g
  <2> HIDE DEF f
  <2> QED BY <2>2, <2>3 DEF g
<1>7. B.offers = f /\ B.acc = R.acc /\ B.baseReserve = R.baseReserve
  BY <1>3, <1>4, <1>6, PutOffers DEF SameHeader
<1> HIDE DEF f
<1>8. Tends(R, B, a)
  BY <1>6, <1>7, TendsStill
<1> QED BY <1>5, <1>8, TendsOn

LEMMA HandOutTends ==
    ASSUME NEW L, IsLedger(L), NEW id \in Nat, NEW M, M = [L EXCEPT !.idPool = id], NEW a
    PROVE  IsLedger(M) /\ M.offers = L.offers /\ M.acc = L.acc /\ Tends(L, M, a)
<1>1. IsLedger(M) /\ M.offers = L.offers /\ M.acc = L.acc
  BY HandOut, Zenon
<1>2. M.baseReserve = L.baseReserve
  BY FieldIdPool
<1> QED BY <1>1, <1>2, TendsStill

LEMMA LeaveNewTends ==
    ASSUME NEW L, IsLedger(L), NEW o, IsOffer(o), Well(o), NEW id \in Nat, id \notin DOMAIN L.offers,
           NEW b, NEW entry, entry = addNumEntries(L, b, 1),
           NEW B, B = [entry.L EXCEPT !.idPool = id],
           NEW N, N = acquireLiabilities([B EXCEPT !.offers = With(L.offers, id, o)], o), Fine(N),
           NEW a \in DOMAIN L.acc
    PROVE  Tends(L, N, a)
<1> DEFINE E == entry.L
<1>1. 1 \in Int
  OBVIOUS
<1>2. IsLedger(E) /\ DOMAIN E.acc = DOMAIN L.acc
  BY <1>1, AddNumEntries
<1>3. Tends(L, E, a) /\ E.offers = L.offers
  BY <1>1, AddNumEntriesTends, AddNumEntriesShifts
<1>4. B = [E EXCEPT !.idPool = id]
  OBVIOUS
<1> HIDE DEF E
<1>5. IsLedger(B) /\ B.offers = E.offers /\ B.acc = E.acc /\ Tends(E, B, a)
  BY <1>2, <1>4, HandOutTends, Zenon
<1>6. N = acquireLiabilities([B EXCEPT !.offers = With(B.offers, id, o)], o)
  BY <1>3, <1>5
<1>7. id \notin DOMAIN B.offers /\ a \in DOMAIN B.acc
  BY <1>2, <1>3, <1>5
<1>8. Tends(B, N, a)
  BY <1>5, <1>6, <1>7, BookTends
<1>9. Tends(L, B, a)
  BY <1>3, <1>5, TendsOn
<1> QED BY <1>8, <1>9, TendsOn

LEMMA LeavesNone ==
    ASSUME NEW trade, NEW o, NEW id, NEW creating, NEW r,
           r = leaveOffer(trade, o, id, creating), r.code = "ok", trade.amount = 0
    PROVE  r.L = trade.L \/ r.L = addNumEntries(trade.L, o.seller, -1).L
<1>1. trade.code = "ok"
  <2>1. trade.code # "ok" => r.code = trade.code
    BY DEF leaveOffer, Fail
  <2> QED BY <2>1
<1>2. r = Done(IF creating THEN trade.L ELSE addNumEntries(trade.L, o.seller, -1).L)
  BY <1>1 DEF leaveOffer
<1> QED BY <1>2 DEF Done

LEMMA LeaveOfferTends ==
    ASSUME NEW K, IsLedger(K), NEW trade, NEW o, IsOffer(o), NEW id \in Nat,
           NEW creating \in BOOLEAN, NEW a,
           trade.code = "ok" => /\ IsLedger(trade.L) /\ Bookable(o, trade.amount)
                                /\ Fine(trade.L) => id \notin DOMAIN trade.L.offers
                                /\ Fine(trade.L) => a \in DOMAIN trade.L.acc
                                /\ Tends(K, trade.L, a),
           NEW r, r = leaveOffer(trade, o, id, creating), r.code = "ok", Fine(r.L)
    PROVE  Tends(K, r.L, a)
<1> DEFINE L == trade.L
           rest == [o EXCEPT !.amount = trade.amount]
           entry == addNumEntries(L, o.seller, 1)
           B == [entry.L EXCEPT !.idPool = id]
<1>1. trade.code = "ok" /\ LeaveOutcome(r, trade, o, id, creating)
  BY LeaveOfferIs
<1>2. IsLedger(L) /\ Tends(K, L, a) /\ trade.amount \in Nat
  BY <1>1 DEF Bookable
<1>3. Fine(L) => id \notin DOMAIN L.offers /\ a \in DOMAIN L.acc
  BY <1>1
<1>4. IsOffer(rest) /\ (trade.amount # 0 => Well(rest))
  BY <1>1, <1>2, OfferAmount DEF Bookable, Well
<1>5. trade.amount = 0 => r.L = L \/ r.L = addNumEntries(L, o.seller, -1).L
  BY LeavesNone
<1>6. \/ r.L = L
      \/ r.L = addNumEntries(L, o.seller, -1).L
      \/ r.L = acquireLiabilities([L EXCEPT !.offers = With(L.offers, id, rest)], rest)
      \/ r.L = acquireLiabilities([B EXCEPT !.offers = With(L.offers, id, rest)], rest)
  BY <1>1, Zenon DEF LeaveOutcome
<1> HIDE DEF L, rest
<1>7. CASE r.L = L
  BY <1>2, <1>7
<1>8. CASE r.L = addNumEntries(L, o.seller, -1).L
  <2>1. -1 \in Int
    OBVIOUS
  <2>2. Fine(L)
    BY <1>2, <1>8, <2>1, AddNumEntries
  <2>3. Tends(L, r.L, a)
    BY <1>2, <1>3, <1>8, <2>1, <2>2, AddNumEntriesTends
  <2> QED BY <1>2, <2>3, TendsOn
<1>9. CASE r.L = acquireLiabilities([L EXCEPT !.offers = With(L.offers, id, rest)], rest) /\ trade.amount # 0
  <2>1. Fine(L)
    BY <1>2, <1>4, <1>9, Book
  <2>2. Tends(L, r.L, a)
    BY <1>2, <1>3, <1>4, <1>9, <2>1, BookTends
  <2> QED BY <1>2, <2>2, TendsOn
<1>10. CASE r.L = acquireLiabilities([B EXCEPT !.offers = With(L.offers, id, rest)], rest) /\ trade.amount # 0
  <2>1. 1 \in Int
    OBVIOUS
  <2>2. IsLedger(entry.L) /\ (Fine(entry.L) => Fine(L)) /\ entry.L.offers = L.offers
    BY <1>2, <2>1, AddNumEntries, AddNumEntriesShifts
  <2> HIDE DEF entry
  <2>3. IsLedger(B) /\ (Fine(B) <=> Fine(entry.L)) /\ B.offers = entry.L.offers
    BY <2>2, HandOut
  <2>4. r.L = acquireLiabilities([B EXCEPT !.offers = With(B.offers, id, rest)], rest)
    BY <1>10, <2>2, <2>3
  <2>5. Fine(L)
    BY <1>4, <2>2, <2>3, <2>4, Book
  <2>6. entry = addNumEntries(L, o.seller, 1) /\ B = [entry.L EXCEPT !.idPool = id]
    BY DEF entry
  <2> HIDE DEF B
  <2>7. Tends(L, r.L, a)
    BY <1>2, <1>3, <1>4, <1>10, <2>5, <2>6, LeaveNewTends
  <2> QED BY <1>2, <2>7, TendsOn
<1> HIDE DEF entry, B
<1> QED BY <1>5, <1>6, <1>7, <1>8, <1>9, <1>10, Zenon

LEMMA PlaceOfferTends ==
    ASSUME NEW K, IsLedger(K), NEW L, IsLedger(L), Fine(L), NEW o, IsOffer(o),
           o.seller \in DOMAIN L.acc, NEW id \in Nat, id \notin DOMAIN L.offers,
           NEW creating \in BOOLEAN, NEW a \in DOMAIN L.acc, Tends(K, L, a),
           NEW limits, limits = computeOfferExchangeParameters(L, o, creating),
           NEW r, r = placeOffer(L, o, id, creating, limits), r.code = "ok", Fine(r.L)
    PROVE  Tends(K, r.L, a)
<1> DEFINE whole == [code |-> "ok", amount |-> 0, L |-> L]
           t == tradeOffer(L, o, limits)
<1>1. r = leaveOffer(whole, o, id, creating) \/ r = leaveOffer(t, o, id, creating)
  <2>1. ASSUME limits.code # "ok" PROVE r # Fail(limits.code, L)
    BY <2>1 DEF Fail
  <2> QED BY <2>1, Zenon DEF placeOffer
<1>2. CASE r = leaveOffer(whole, o, id, creating)
  <2>1. whole.L = L /\ Bookable(o, whole.amount)
    BY DEF Bookable
  <2> HIDE DEF whole
  <2> QED BY <1>2, <2>1, LeaveOfferTends
<1>3. CASE r = leaveOffer(t, o, id, creating)
  <2>1. limits.maxSheepSend \in Nat /\ limits.maxWheatReceive \in Nat
    BY Limits
  <2>2. ASSUME t.code = "ok"
        PROVE  /\ IsLedger(t.L) /\ Bookable(o, t.amount)
               /\ Fine(t.L) => Traded(L, t.L, 0)
               /\ Tends(L, t.L, a)
    BY <2>1, <2>2, TradeOffer, TradeOfferTends
  <2> HIDE DEF t
  <2>3. ASSUME t.code = "ok"
        PROVE  /\ IsLedger(t.L) /\ Bookable(o, t.amount)
               /\ Fine(t.L) => id \notin DOMAIN t.L.offers
               /\ Fine(t.L) => a \in DOMAIN t.L.acc
               /\ Tends(K, t.L, a)
    BY <2>2, <2>3, TendsOn DEF Traded
  <2> QED BY <1>3, <2>3, LeaveOfferTends
<1> HIDE DEF whole, t
<1> QED BY <1>1, <1>2, <1>3

LEMMA ManageOfferTends ==
    ASSUME NEW L, Sound(L), Fine(L), NEW op, op.src \in DOMAIN L.acc,
           ManageOffer_doCheckValid(op),
           NEW r, r = ManageOffer(L, op), r.code = "ok", Fine(r.L), NEW a \in DOMAIN L.acc
    PROVE  Tends(L, r.L, a)
<1> DEFINE creating == op.offerID = 0
           id == IF creating THEN L.idPool + 1 ELSE op.offerID
           base == IF creating THEN L ELSE Off(L, id)
           o == OfferOf(L, op, creating)
<1>1. /\ creating \/ (id \in DOMAIN L.offers /\ L.offers[id].seller = op.src)
      /\ Fine(base)
      /\ r = placeOffer(base, o, id, creating, computeOfferExchangeParameters(base, o, creating))
  BY ManageOfferIs
<1>2. IsLedger(L) /\ Numbered(L) /\ L.idPool \in Nat /\ AreOffers(L.offers)
  BY DEF Sound, IsLedger, IsHeader
<1>3. /\ op.amount \in Nat /\ op.price \in Price /\ op.passive \in BOOLEAN /\ op.offerID \in Nat
  BY Int64Assumption DEF ManageOffer_doCheckValid, Amount
<1>4. IsOffer(o) /\ o.seller = op.src
  <2>1. IF creating THEN op.passive \in BOOLEAN ELSE L.offers[op.offerID].passive \in BOOLEAN
    BY <1>1, <1>2, <1>3 DEF AreOffers, IsOffer
  <2> DEFINE p == IF creating THEN op.passive ELSE L.offers[op.offerID].passive
  <2>2. p \in BOOLEAN
    BY <2>1
  <2>3. o = [seller |-> op.src, selling |-> op.selling, buying |-> op.buying,
             amount |-> op.amount, price |-> op.price, passive |-> p]
    BY DEF OfferOf
  <2> HIDE DEF o, p
  <2> QED BY <1>3, <2>2, <2>3 DEF IsOffer
<1>5. id \in Nat /\ creating \in BOOLEAN
  BY <1>2, <1>3
<1>6. /\ IsLedger(base) /\ id \notin DOMAIN base.offers
      /\ op.src \in DOMAIN base.acc /\ a \in DOMAIN base.acc /\ Tends(L, base, a)
  <2>1. CASE creating
    <3>1. id = L.idPool + 1 /\ base = L
      BY <2>1
    <3>2. id \notin DOMAIN L.offers
      BY <1>2, <3>1 DEF Numbered
    <3> HIDE DEF base, id
    <3> QED BY <1>2, <3>1, <3>2, TendsNot
  <2>2. CASE ~creating
    <3>1. id \in DOMAIN L.offers /\ base = Off(L, id)
      BY <1>1, <2>2
    <3> HIDE DEF base, id
    <3>2. /\ IsLedger(base) /\ Settled(L, base, L.offers[id].seller, 1)
          /\ id \notin DOMAIN base.offers
      BY <1>2, <3>1, OffIs
    <3>3. Tends(L, base, a)
      BY <1>2, <3>1, OffTends
    <3> QED BY <3>2, <3>3 DEF Settled
  <2> QED BY <2>1, <2>2
<1> HIDE DEF base, id, o, creating
<1> QED BY <1>1, <1>2, <1>4, <1>5, <1>6, PlaceOfferTends

-----------------------------------------------------------------------------
(* Operations that have nothing to do with offers. *)

\* What counts of an account stays, and so do the offers.
SameFunds(L, M, a) ==
    /\ M.offers = L.offers /\ M.baseReserve = L.baseReserve
    /\ M.acc[a].balance = L.acc[a].balance /\ M.acc[a].selling = L.acc[a].selling
    /\ M.acc[a].numSubEntries = L.acc[a].numSubEntries

LEMMA SameFundsTend ==
    ASSUME NEW L, NEW M, NEW a, SameFunds(L, M, a)
    PROVE  Tends(L, M, a)
<1>1. Avail(M, a) = Avail(L, a)
  BY AvailIs DEF getMinBalance, SameFunds
<1> QED BY <1>1 DEF Tends, AllWell, SellsLumens, SameFunds

LEMMA OptionTends ==
    ASSUME NEW L, IsLedger(L), NEW b \in DOMAIN L.acc, NEW x, NEW M,
           OptionSet(L, M, b, x) \/ SignersSet(L, M, b, x), NEW a \in DOMAIN L.acc
    PROVE  Tends(L, M, a)
<1> DEFINE g == L.acc[b]
<1>1. \E k : /\ M = [L EXCEPT !.acc[b] = k]
             /\ \/ k = [g EXCEPT !.inflationDest = x]
                \/ k = [g EXCEPT !.flags = x]
                \/ k = [g EXCEPT !.seqNum = x]
                \/ k = [g EXCEPT !.signers = x]
  BY FieldOptions DEF IsLedger, OptionSet, SignersSet
<1>2. PICK k : /\ M = [L EXCEPT !.acc[b] = k]
               /\ \/ k = [g EXCEPT !.inflationDest = x]
                  \/ k = [g EXCEPT !.flags = x]
                  \/ k = [g EXCEPT !.seqNum = x]
                  \/ k = [g EXCEPT !.signers = x]
  BY <1>1
<1>3. IsAccount(g)
  BY DEF IsLedger, AreAccounts
<1>4. k.balance = g.balance /\ k.selling = g.selling /\ k.numSubEntries = g.numSubEntries
  BY <1>2, <1>3 DEF IsAccount
<1> DEFINE f == [L.acc EXCEPT ![b] = k]
<1>5. LedgerFields(L)
  BY DEF IsLedger
<1>6. M = [L EXCEPT !.acc = f]
  BY <1>2, <1>5, FieldAccAt
<1>7. M.acc = f /\ M.offers = L.offers /\ M.baseReserve = L.baseReserve
  BY <1>5, <1>6, FieldAcc DEF SameHeader
<1>8. SameFunds(L, M, a)
  BY <1>4, <1>7 DEF SameFunds
<1> QED BY <1>8, SameFundsTend

LEMMA BumpSequenceTends ==
    ASSUME NEW L, IsLedger(L), NEW op, op.src \in DOMAIN L.acc, op.bumpTo \in Nat,
           NEW r, r = BumpSequence(L, op), NEW a \in DOMAIN L.acc
    PROVE  Tends(L, r.L, a)
<1> DEFINE b == op.src
           old == L.acc[b].seqNum
           to == op.bumpTo
           x == Max({old, to})
<1>1. old \in Nat /\ to \in Nat
  BY UncountedType
<1>2. x \in Nat /\ x >= old
  <2> HIDE DEF old, to
  <2> QED BY <1>1, MaxOfTwo
<1>3. r.L = [L EXCEPT !.acc[b].seqNum = x]
  BY DEF BumpSequence, Done
<1>4. OptionSet(L, r.L, b, x)
  BY <1>2, <1>3, Zenon DEF OptionSet
<1> HIDE DEF x
<1> QED BY <1>4, OptionTends

LEMMA FlaggedTends ==
    ASSUME NEW L, IsLedger(L), NEW op, op.src \in DOMAIN L.acc, NEW F, F = Flagged(L, op),
           NEW a \in DOMAIN L.acc
    PROVE  Tends(L, F, a)
<1> DEFINE b == op.src
           dest == IF op.inflationDest = None THEN L
                   ELSE [L EXCEPT !.acc[b].inflationDest = op.inflationDest]
<1>1. /\ IsLedger(dest) /\ DOMAIN dest.acc = DOMAIN L.acc /\ Tends(L, dest, a)
  <2>1. CASE op.inflationDest = None
    <3>1. dest = L
      BY <2>1
    <3> HIDE DEF dest
    <3> QED BY <3>1, TendsNot
  <2>2. CASE op.inflationDest # None
    <3>1. dest = [L EXCEPT !.acc[b].inflationDest = op.inflationDest]
      BY <2>2
    <3> HIDE DEF dest
    <3>2. OptionSet(L, dest, b, op.inflationDest)
      BY <3>1, Zenon DEF OptionSet
    <3> QED BY <3>2, SetOption, OptionTends
  <2> QED BY <2>1, <2>2
<1>2. F = [dest EXCEPT !.acc[b].flags = (dest.acc[b].flags \ op.clearFlags) \cup op.setFlags]
  BY DEF Flagged
<1> HIDE DEF dest
<1>3. Tends(dest, F, a)
  <2> DEFINE x == (dest.acc[b].flags \ op.clearFlags) \cup op.setFlags
  <2>1. OptionSet(dest, F, b, x)
    BY <1>2, Zenon DEF OptionSet
  <2> HIDE DEF x
  <2> QED BY <1>1, <2>1, OptionTends
<1> QED BY <1>1, <1>3, TendsOn

LEMMA SetOptionsTends ==
    ASSUME NEW L, IsLedger(L), NEW op, op.src \in DOMAIN L.acc,
           NEW r, r = SetOptions(L, op), r.code = "ok", NEW a \in DOMAIN L.acc
    PROVE  Tends(L, r.L, a)
<1> DEFINE b == op.src
           F == Flagged(L, op)
           count == IF op.weight > 0 THEN 1 ELSE -1
           E == addNumEntries(F, b, count).L
<1>1. r.L = F \/ \E x : SignersSet(E, r.L, b, x)
  <2>1. SetOptionsOutcome(L, op, r.L)
    BY SetOptionsIs
  <2> QED BY <2>1, Zenon DEF SetOptionsOutcome, SignersSet
<1>2. IsLedger(F) /\ DOMAIN F.acc = DOMAIN L.acc /\ Tends(L, F, a)
  BY FlaggedIs, FlaggedTends
<1> HIDE DEF F
<1>3. count \in Int
  OBVIOUS
<1> HIDE DEF count
<1>7. a \in DOMAIN F.acc
  BY <1>2
<1>4. IsLedger(E) /\ DOMAIN E.acc = DOMAIN F.acc
  BY <1>2, <1>3, AddNumEntries
<1>8. Tends(F, E, a)
  BY <1>2, <1>3, <1>7, AddNumEntriesTends
<1> HIDE DEF E
<1>5. CASE r.L = F
  BY <1>2, <1>5
<1>6. ASSUME NEW x, SignersSet(E, r.L, b, x)
      PROVE  Tends(L, r.L, a)
  <2>1. Tends(E, r.L, a)
    BY <1>2, <1>4, <1>6, OptionTends
  <2>2. Tends(F, r.L, a)
    BY <1>8, <2>1, TendsOn
  <2> QED BY <1>2, <2>2, TendsOn
<1> QED BY <1>1, <1>5, <1>6, Zenon

LEMMA ManageDataTends ==
    ASSUME NEW L, IsLedger(L), NEW op, op.set \in BOOLEAN,
           NEW r, r = ManageData(L, op), r.code = "ok", NEW a \in DOMAIN L.acc
    PROVE  Tends(L, r.L, a)
<1> DEFINE count == IF op.set THEN 1 ELSE -1
           E == addNumEntries(L, op.src, count).L
<1>1. r.L = L \/ \E x : r.L = [E EXCEPT !.data = x]
  <2>1. ManageDataOutcome(L, op, r)
    BY ManageDataIs
  <2> QED BY <2>1, Zenon DEF ManageDataOutcome
<1>2. count \in Int
  OBVIOUS
<1> HIDE DEF count
<1>3. IsLedger(E) /\ Tends(L, E, a)
  BY <1>2, AddNumEntries, AddNumEntriesTends
<1> HIDE DEF E
<1>4. CASE r.L = L
  BY <1>4, TendsNot
<1>5. ASSUME NEW x, r.L = [E EXCEPT !.data = x]
      PROVE  Tends(L, r.L, a)
  <2>1. r.L.acc = E.acc /\ r.L.offers = E.offers /\ r.L.baseReserve = E.baseReserve
    BY <1>3, <1>5, FieldData DEF IsLedger, SameHeader
  <2>2. Tends(E, r.L, a)
    BY <2>1, TendsStill
  <2> QED BY <1>3, <2>2, TendsOn
<1> QED BY <1>1, <1>4, <1>5, Zenon

LEMMA InflationTends ==
    ASSUME NEW L, Sound(L), NEW op, NEW r, r = Inflation(L, op), r.code = "ok",
           NEW a \in DOMAIN L.acc
    PROVE  Tends(L, r.L, a) /\ DOMAIN r.L.acc = DOMAIN L.acc
<1> DEFINE added == (L.totalCoins * InflationRate) \div 100
           q == queryInflationWinners(L)
           sh == Shares(L, added + L.feePool, q)
           M == r.L
<1>1. M = payOut(L, added, sh)
  <2>1. r = Fail("not time", L) \/ r = Done(payOut(L, added, sh))
    BY Zenon DEF Inflation
  <2>2. \A code, K : r = Fail(code, K) => code = "ok"
    BY DEF Fail
  <2>3. "not time" # "ok"
    OBVIOUS
  <2>4. \A K : Done(K).L = K
    BY DEF Done
  <2> HIDE DEF added, sh
  <2> QED BY <2>1, <2>2, <2>3, <2>4, Zenon
<1>2. IsLedger(L) /\ Conserved(L) /\ InflationRate \in Nat
  BY ParametersAssumption DEF Sound
<1>3. IsLedger(M)
  BY <1>2, InflationKeeps DEF Sound
<1>4. added \in Nat /\ L.feePool \in Nat
  <2>1. L.totalCoins \in Nat /\ L.feePool \in Nat
    BY <1>2 DEF IsLedger, IsHeader
  <2> DEFINE p == L.totalCoins * InflationRate
  <2>2. p \in Nat
    BY <1>2, <2>1, ProductType
  <2> HIDE DEF p
  <2>3. p \div 100 \in Nat
    BY <2>2, Quotient
  <2> QED BY <2>1, <2>3 DEF p
<1> HIDE DEF added
<1>5. Fit(L, added + L.feePool, sh)
  <2>1. added + L.feePool \in Nat
    BY <1>4
  <2> QED BY <1>2, <2>1, SharesFit
<1> HIDE DEF sh
<1>6. /\ M.acc = PaidAccounts(L.acc, sh) /\ M.offers = L.offers
      /\ M.baseReserve = L.baseReserve
  BY <1>1, <1>2, FieldsPaid DEF IsLedger
<1> HIDE DEF M
<1>7. IsAccount(L.acc[a]) /\ a \in DOMAIN M.acc
  BY <1>2, <1>6 DEF IsLedger, AreAccounts, PaidAccounts
<1>8. M.acc[a] = IF a \in DOMAIN sh THEN [L.acc[a] EXCEPT !.balance = L.acc[a].balance + sh[a]]
                 ELSE L.acc[a]
  BY <1>6 DEF PaidAccounts
<1>9. ASSUME a \notin DOMAIN sh
      PROVE  Tends(L, M, a)
  BY <1>6, <1>8, <1>9, TendsStill
<1>10. ASSUME a \in DOMAIN sh
       PROVE  Tends(L, M, a)
  <2>1. sh[a] \in Nat
    BY <1>5, <1>10 DEF Fit
  <2>2. /\ M.acc[a].balance = L.acc[a].balance + sh[a]
        /\ M.acc[a].selling = L.acc[a].selling /\ M.acc[a].numSubEntries = L.acc[a].numSubEntries
    BY <1>7, <1>8, <1>10 DEF IsAccount
  <2>3. /\ L.acc[a].balance \in Nat /\ L.acc[a].selling \in Nat
        /\ L.acc[a].numSubEntries \in Nat /\ L.baseReserve \in Nat
    BY <1>2, AvailType
  <2>4. L.acc[a].balance - L.acc[a].selling <= M.acc[a].balance - M.acc[a].selling
    BY <2>1, <2>2, <2>3
  <2>5. M.acc[a].numSubEntries <= L.acc[a].numSubEntries /\ M.baseReserve <= L.baseReserve
    BY <1>6, <2>2, <2>3
  <2>6. Avail(L, a) <= Avail(M, a)
    BY <1>2, <1>3, <1>7, <2>4, <2>5, AvailGrows
  <2> QED BY <1>2, <1>3, <1>6, <1>7, <2>6, TendsUp
<1>11. DOMAIN M.acc = DOMAIN L.acc
  BY <1>6 DEF PaidAccounts
<1> QED BY <1>9, <1>10, <1>11 DEF M

-----------------------------------------------------------------------------
(* Trust lines, and offers that are taken off the book with them. *)

\* Only the trust lines change.
LEMMA LinesTend ==
    ASSUME NEW L, IsLedger(L), NEW x, NEW M, M = [L EXCEPT !.tl = x], NEW a
    PROVE  Tends(L, M, a)
<1>1. LedgerFields(L)
  BY DEF IsLedger
<1>2. M.acc = L.acc /\ M.offers = L.offers /\ M.baseReserve = L.baseReserve
  BY <1>1, FieldTl DEF SameHeader
<1> QED BY <1>2, TendsStill

LEMMA OneLineTends ==
    ASSUME NEW L, IsLedger(L), NEW line, NEW x, NEW M,
           LimitSet(L, M, line, x) \/ AuthorizedSet(L, M, line, x), NEW a
    PROVE  Tends(L, M, a)
<1>1. LedgerFields(L)
  BY DEF IsLedger
<1>2. \E k : LineSet(L, M, line, k)
  <2>1. CASE LimitSet(L, M, line, x)
    BY <1>1, <2>1, FieldLimit DEF LineSet, LimitSet
  <2>2. CASE AuthorizedSet(L, M, line, x)
    BY <1>1, <2>2, FieldAuthorized DEF LineSet, AuthorizedSet
  <2> QED BY <2>1, <2>2
<1>3. PICK k : LineSet(L, M, line, k)
  BY <1>2
<1>4. M = [L EXCEPT !.tl = [L.tl EXCEPT ![line] = k]]
  BY <1>1, <1>3, FieldTlAt DEF LineSet
<1> QED BY <1>4, LinesTend

LEMMA ChangeTrustTends ==
    ASSUME NEW L, IsLedger(L), NEW op, op.src \in DOMAIN L.acc,
           NEW r, r = ChangeTrust(L, op), r.code = "ok", NEW a \in DOMAIN L.acc
    PROVE  Tends(L, r.L, a)
<1> DEFINE b == op.src
           line == <<op.src, op.asset>>
           E == addNumEntries(L, b, 1).L
           W == [L EXCEPT !.tl = Without(L.tl, line)]
           D == addNumEntries(W, b, -1).L
           h == NewLine(L, op)
           low == op.limit < L.tl[line].balance + L.tl[line].buying
<1>1. \/ line \in DOMAIN L.tl /\ ~low /\ op.limit = 0 /\ r.L = D
      \/ line \in DOMAIN L.tl /\ r.L = [L EXCEPT !.tl[line].limit = op.limit]
      \/ /\ line \notin DOMAIN L.tl /\ Issuer[op.asset] # op.src /\ addNumEntries(L, b, 1).ok
         /\ r.L = [E EXCEPT !.tl = With(L.tl, line, h)]
  <2>1. ChangeTrustOutcome(L, op, r.L)
    BY ChangeTrustIs
  <2> QED BY <2>1, Zenon DEF ChangeTrustOutcome
<1>2. 1 \in Int /\ -1 \in Int
  OBVIOUS
<1>3. CASE line \in DOMAIN L.tl /\ ~low /\ op.limit = 0 /\ r.L = D
  <2>1. IsLedger(W)
    BY <1>3, DropLineSecures
  <2>2. Tends(L, W, a)
    BY LinesTend
  <2>3. W.acc = L.acc
    BY FieldTl DEF IsLedger
  <2> HIDE DEF W
  <2>4. a \in DOMAIN W.acc
    BY <2>3
  <2>5. Tends(W, D, a)
    BY <1>2, <2>1, <2>4, AddNumEntriesTends
  <2> QED BY <1>3, <2>2, <2>5, TendsOn
<1>4. CASE line \in DOMAIN L.tl /\ r.L = [L EXCEPT !.tl[line].limit = op.limit]
  <2>1. LimitSet(L, r.L, line, op.limit)
    BY <1>4 DEF LimitSet
  <2> HIDE DEF line
  <2> QED BY <2>1, OneLineTends
<1>5. CASE /\ line \notin DOMAIN L.tl /\ Issuer[op.asset] # op.src /\ addNumEntries(L, b, 1).ok
           /\ r.L = [E EXCEPT !.tl = With(L.tl, line, h)]
  <2>1. IsLedger(E)
    BY <1>5, CountUp
  <2>2. Tends(L, E, a)
    BY <1>2, AddNumEntriesTends
  <2> HIDE DEF E, h
  <2>3. Tends(E, r.L, a)
    BY <1>5, <2>1, LinesTend
  <2> QED BY <2>2, <2>3, TendsOn
<1> HIDE DEF line, E, W, D, h, low
<1> QED BY <1>1, <1>3, <1>4, <1>5, Zenon

LEMMA TakeTends ==
    ASSUME NEW mode \in {"clear", "erase"}, NEW L, IsLedger(L), NEW id \in DOMAIN L.offers,
           NEW M, M = Taking(mode, L, id), NEW a \in DOMAIN L.acc
    PROVE  Tends(L, M, a) /\ DOMAIN M.acc = DOMAIN L.acc
<1> DEFINE o == L.offers[id]
           N == IF mode = "clear" THEN releaseLiabilities(L, o) ELSE L
<1>1. M = eraseOffer(N, id)
  <2>1. "clear" # "erase" /\ "erase" # "clear"
    OBVIOUS
  <2>2. CASE mode = "clear"
    BY <2>2, Zenon DEF Taking, clearOffer
  <2>3. CASE mode = "erase"
    <3>1. N = L
      BY <2>1, <2>3
    <3> HIDE DEF N
    <3> QED BY <2>1, <2>3, <3>1, Zenon DEF Taking
  <2> QED BY <2>2, <2>3
<1>2. IsOffer(o)
  BY DEF IsLedger, AreOffers
<1>3. Moved(L, N, 0) /\ Tends(L, N, a)
  <2>1. Moved(L, releaseLiabilities(L, o), 0) /\ Moved(L, L, 0)
    BY <1>2, Release, MovedNot
  <2>2. -1 \in {-1, 1}
    OBVIOUS
  <2>3. Tends(L, releaseLiabilities(L, o), a)
    BY <1>2, <2>2, AcquireOrReleaseTends DEF releaseLiabilities
  <2>4. Tends(L, L, a)
    BY TendsNot
  <2> QED BY <2>1, <2>3, <2>4
<1> HIDE DEF N
<1>4. IsLedger(N) /\ a \in DOMAIN N.acc /\ DOMAIN N.acc = DOMAIN L.acc /\ N.offers = L.offers
  BY <1>3 DEF Moved
<1>5. Tends(N, M, a)
  BY <1>1, <1>4, EraseTends
<1>6. DOMAIN M.acc = DOMAIN N.acc
  BY <1>1, <1>4, EraseOffer
<1> QED BY <1>3, <1>4, <1>5, <1>6, TendsOn

LEMMA TakeAllTends ==
    ASSUME NEW mode \in {"clear", "erase"}, NEW L, IsLedger(L), NEW S \in SUBSET DOMAIN L.offers,
           NEW F, IsChain(F, mode, L, S), NEW a \in DOMAIN L.acc
    PROVE  Tends(L, F[S], a) /\ DOMAIN F[S].acc = DOMAIN L.acc
<1>1. IsFiniteSet(S) /\ S \subseteq Nat
  <2>1. IsFiniteSet(DOMAIN L.offers) /\ DOMAIN L.offers \subseteq Nat
    BY DEF IsLedger, AreOffers
  <2> QED BY <2>1, FS_Subset
<1>2. mode # "realign"
  OBVIOUS
<1> DEFINE H == {s \in SUBSET S : /\ IsLedger(F[s]) /\ DOMAIN F[s].offers = DOMAIN L.offers \ s
                                  /\ DOMAIN F[s].acc = DOMAIN L.acc /\ Tends(L, F[s], a)}
<1>3. ASSUME NEW s \in SUBSET S, \A t \in SUBSET s : t # s => t \in H
      PROVE  s \in H
  <2>1. CASE s = {}
    <3>1. F[s] = L
      <4>1. F[{}] = L
        BY ChainStart
      <4> QED BY <2>1, <4>1
    <3> QED BY <2>1, <3>1, TendsNot
  <2>2. CASE s # {}
    <3> DEFINE m == LastOf(mode, s)
               r == s \ {m}
               K == F[r]
    <3>1. m \in s
      BY <1>1, <1>2, <2>2, LastOffer
    <3>2. F[s] = Taking(mode, K, m)
      <4>1. \A t \in SUBSET S : t # {} =>
                F[t] = Taking(mode, F[t \ {LastOf(mode, t)}], LastOf(mode, t))
        BY ChainStep
      <4> QED BY <2>2, <4>1
    <3>3. r \in SUBSET s /\ r # s
      BY <3>1
    <3> HIDE DEF m
    <3>4. IsLedger(K) /\ DOMAIN K.offers = DOMAIN L.offers \ r
          /\ DOMAIN K.acc = DOMAIN L.acc /\ Tends(L, K, a)
      BY <1>3, <3>3
    <3> HIDE DEF K
    <3>5. m \in DOMAIN K.offers /\ a \in DOMAIN K.acc
      BY <3>1, <3>4
    <3>6. Cleared(K, F[s], {m})
      BY <3>2, <3>4, <3>5, TakeOffer
    <3>7. DOMAIN F[s].acc = DOMAIN K.acc
      BY <3>2, <3>4, <3>5, TakeTends
    <3>8. IsLedger(F[s]) /\ DOMAIN F[s].offers = DOMAIN L.offers \ s
      BY <3>1, <3>4, <3>6 DEF Cleared
    <3>9. Tends(K, F[s], a)
      BY <3>2, <3>4, <3>5, TakeTends
    <3>10. Tends(L, F[s], a)
      BY <3>4, <3>9, TendsOn
    <3> QED BY <3>4, <3>7, <3>8, <3>10
  <2> QED BY <2>1, <2>2
<1>4. SUBSET S \subseteq H
  <2> HIDE DEF H
  <2> QED BY <1>1, <1>3, SubsetInduction
<1> QED BY <1>4

LEMMA AllowTrustTends ==
    ASSUME NEW L, IsLedger(L), NEW op, NEW r, r = AllowTrust(L, op), r.code = "ok",
           NEW a \in DOMAIN L.acc
    PROVE  Tends(L, r.L, a)
<1> DEFINE line == <<op.trustor, op.asset>>
           drop == Dropped(L, op)
           C == clearOffers(L, drop)
<1>1. AuthorizedSet(C, r.L, line, op.authorize)
  BY AllowTrustIs
<1>2. drop \in SUBSET DOMAIN L.offers
  BY DEF Dropped
<1> HIDE DEF drop, line
<1>3. IsFiniteSet(drop) /\ drop \subseteq Nat
  <2>1. IsFiniteSet(DOMAIN L.offers) /\ DOMAIN L.offers \subseteq Nat
    BY DEF IsLedger, AreOffers
  <2> QED BY <1>2, <2>1, FS_Subset
<1>4. Tends(L, C, a)
  <2>1. "clear" \in {"clear", "erase"}
    OBVIOUS
  <2>2. PICK F : IsChain(F, "clear", L, drop) /\ C = F[drop]
    BY <1>3, ClearOffersIs
  <2>3. Tends(L, F[drop], a)
    BY <1>2, <2>1, <2>2, TakeAllTends
  <2> QED BY <2>2, <2>3
<1>5. IsLedger(C)
  BY <1>2, ClearOffers DEF Cleared
<1> HIDE DEF C
<1>6. Tends(C, r.L, a)
  BY <1>1, <1>5, OneLineTends
<1> QED BY <1>4, <1>6, TendsOn

-----------------------------------------------------------------------------
(* What an operation keeps of all accounts. *)

Honours(L, M) == AllWell(L) /\ Solvent(L) => AllWell(M) /\ Solvent(M)

LEMMA HonoursOn ==
    ASSUME NEW L, NEW M, NEW N, Honours(L, M), Honours(M, N)
    PROVE  Honours(L, N)
BY DEF Honours

LEMMA HonoursBy ==
    ASSUME NEW L, NEW M, AllWell(L) => AllWell(M),
           \A a \in DOMAIN M.acc :
               (a \in DOMAIN L.acc /\ Tends(L, M, a)) \/ ~SellsLumens(M, a)
    PROVE  Honours(L, M)
<1> SUFFICES ASSUME AllWell(L), Solvent(L), NEW a \in DOMAIN M.acc, SellsLumens(M, a)
             PROVE  Avail(M, a) >= 0
  BY DEF Honours, Solvent
<1>1. a \in DOMAIN L.acc /\ Tends(L, M, a)
  OBVIOUS
<1>2. SellsLumens(L, a) => Avail(L, a) >= 0
  BY <1>1 DEF Solvent
<1> QED BY <1>1, <1>2 DEF Tends

LEMMA TendingHonours ==
    ASSUME NEW L, NEW M, DOMAIN M.acc = DOMAIN L.acc, NEW b \in DOMAIN L.acc,
           \A a \in DOMAIN L.acc : Tends(L, M, a)
    PROVE  Honours(L, M)
<1>1. Tends(L, M, b)
  OBVIOUS
<1>2. AllWell(L) => AllWell(M)
  BY <1>1 DEF Tends
<1> QED BY <1>2, HonoursBy

LEMMA CreateAccountHonours ==
    ASSUME NEW L, Sound(L), NEW op, op.src \in DOMAIN L.acc, op.amount \in Nat,
           NEW r, r = CreateAccount(L, op), r.code = "ok"
    PROVE  Honours(L, r.L)
<1> DEFINE b == op.dest
           P == addBalance(L, op.src, Native, -op.amount).L
           h == NewAccount(L, op)
           f == With(P.acc, b, h)
           M == r.L
<1>1. b \notin DOMAIN L.acc /\ M = [P EXCEPT !.acc = f]
  BY CreateAccountIs
<1>2. -op.amount \in Int
  OBVIOUS
<1>3. IsLedger(L) /\ Owners(L) \subseteq DOMAIN L.acc
  BY DEF Sound, Counted
<1>4. \E d : Moved(L, P, d)
  BY <1>2, <1>3, AddBalance
<1>5. \A a \in DOMAIN L.acc : Tends(L, P, a)
  BY <1>2, <1>3, AddBalanceTends
<1> HIDE DEF P
<1>6. IsLedger(P) /\ DOMAIN P.acc = DOMAIN L.acc /\ P.offers = L.offers
  BY <1>4 DEF Moved
<1>7. M.acc = f /\ M.offers = P.offers /\ M.baseReserve = P.baseReserve
  BY <1>1, <1>6, FieldAcc DEF IsLedger, SameHeader
<1>8. DOMAIN f = DOMAIN L.acc \cup {b} /\ \A a \in DOMAIN L.acc : f[a] = P.acc[a]
  BY <1>1, <1>6 DEF With
<1> HIDE DEF f, M
<1>9. ASSUME NEW a \in DOMAIN L.acc
      PROVE  Tends(L, M, a)
  <2>1. Tends(P, M, a)
    BY <1>7, <1>8, TendsStill
  <2>2. Tends(L, P, a)
    BY <1>5
  <2> QED BY <2>1, <2>2, TendsOn
<1>10. ~SellsLumens(M, b)
  BY <1>1, <1>3, <1>6, <1>7 DEF SellsLumens, Owners
<1>11. Tends(L, M, op.src)
  BY <1>9
<1>12. AllWell(L) => AllWell(M)
  BY <1>11 DEF Tends
<1>13. DOMAIN M.acc = DOMAIN L.acc \cup {b}
  BY <1>7, <1>8
<1>14. Honours(L, M)
  BY <1>9, <1>10, <1>12, <1>13, HonoursBy
<1> QED BY <1>14 DEF M

LEMMA MergeHonours ==
    ASSUME NEW L, IsLedger(L), NEW op, op.src \in DOMAIN L.acc,
           NEW r, r = Merge(L, op), r.code = "ok"
    PROVE  Honours(L, r.L)
<1> DEFINE b == op.src
           P == addBalance(L, op.dest, Native, L.acc[b].balance).L
           f == Without(P.acc, b)
           M == r.L
<1>1. op.dest \in DOMAIN L.acc /\ M = [P EXCEPT !.acc = f]
  BY MergeIs
<1>2. L.acc[b].balance \in Int
  <2>1. L.acc[b].balance \in Nat
    BY UncountedType
  <2> QED BY <2>1
<1>3. \E d : Moved(L, P, d)
  BY <1>1, <1>2, AddBalance
<1>4. \A a \in DOMAIN L.acc : Tends(L, P, a)
  BY <1>1, <1>2, AddBalanceTends
<1> HIDE DEF P
<1>5. IsLedger(P) /\ DOMAIN P.acc = DOMAIN L.acc
  BY <1>3 DEF Moved
<1>6. M.acc = f /\ M.offers = P.offers /\ M.baseReserve = P.baseReserve
  BY <1>1, <1>5, FieldAcc DEF IsLedger, SameHeader
<1>7. DOMAIN f = DOMAIN P.acc \ {b} /\ \A c \in DOMAIN P.acc \ {b} : f[c] = P.acc[c]
  BY <1>5, WithoutAccount DEF IsLedger
<1> HIDE DEF f, M
<1>8. ASSUME NEW a \in DOMAIN M.acc
      PROVE  a \in DOMAIN L.acc /\ Tends(L, M, a)
  <2>1. a \in DOMAIN L.acc /\ M.acc[a] = P.acc[a]
    BY <1>5, <1>6, <1>7, <1>8
  <2>2. Tends(P, M, a)
    BY <1>6, <2>1, TendsStill
  <2>3. Tends(L, P, a)
    BY <1>4, <2>1
  <2> QED BY <2>1, <2>2, <2>3, TendsOn
<1>9. AllWell(L) => AllWell(M)
  <2>1. Tends(L, P, b)
    BY <1>4
  <2>2. M.offers = P.offers
    BY <1>6
  <2> QED BY <2>1, <2>2 DEF Tends, AllWell
<1>10. Honours(L, M)
  BY <1>8, <1>9, HonoursBy
<1> QED BY <1>10 DEF M

LEMMA DoApplyHonours ==
    ASSUME NEW L, Sound(L), Fine(L), NEW op, doCheckValid(op), NEW r, r = doApply(L, op),
           r.code = "ok", Fine(r.L)
    PROVE  Honours(L, r.L)
<1>1. op.src \in DOMAIN L.acc /\ Applies(op, r, L)
  BY DoApplyIs
<1>2. IsLedger(L)
  BY DEF Sound
<1>3. ASSUME DOMAIN r.L.acc = DOMAIN L.acc, \A a \in DOMAIN L.acc : Tends(L, r.L, a)
      PROVE  Honours(L, r.L)
  BY <1>1, <1>3, TendingHonours
<1>4. Settled(L, r.L, op.src, 0) \/ Traded(L, r.L, 0) => DOMAIN r.L.acc = DOMAIN L.acc
  BY DEF Settled, Traded
<1>5. \A x \in Amount : x \in Nat
  BY Int64Assumption DEF Amount
<1>6. CASE CreateAccount_doCheckValid(op) /\ r = CreateAccount(L, op)
  <2>1. op.amount \in Nat
    BY <1>5, <1>6 DEF CreateAccount_doCheckValid
  <2> QED BY <1>1, <1>6, <2>1, CreateAccountHonours
<1>7. CASE Payment_doCheckValid(op) /\ r = Payment(L, op)
  <2>1. op.amount \in Nat
    BY <1>5, <1>7 DEF Payment_doCheckValid
  <2>2. Traded(L, r.L, 0)
    BY <1>1, <1>2, <1>7, <2>1, PaymentKeeps
  <2>3. \A a \in DOMAIN L.acc : Tends(L, r.L, a)
    BY <1>1, <1>2, <1>7, <2>1, PaymentTends
  <2> QED BY <1>3, <1>4, <2>2, <2>3
<1>8. CASE PathPayment_doCheckValid(op) /\ r = PathPayment(L, op)
  <2>1. op.destAmount \in Nat /\ op.sendAsset \in Asset /\ op.path \in Seq(Asset)
    BY <1>5, <1>8 DEF PathPayment_doCheckValid
  <2>2. Traded(L, r.L, 0)
    BY <1>1, <1>2, <1>8, <2>1, PathPaymentKeeps
  <2>3. \A a \in DOMAIN L.acc : Tends(L, r.L, a)
    BY <1>1, <1>2, <1>8, <2>1, PathPaymentTends
  <2> QED BY <1>3, <1>4, <2>2, <2>3
<1>9. CASE ManageOffer_doCheckValid(op) /\ r = ManageOffer(L, op)
  <2>1. Settled(L, r.L, op.src, 0)
    BY <1>1, <1>9, ManageOfferKeeps
  <2>2. \A a \in DOMAIN L.acc : Tends(L, r.L, a)
    BY <1>1, <1>9, ManageOfferTends
  <2> QED BY <1>3, <1>4, <2>1, <2>2
<1>10. CASE SetOptions_doCheckValid(op) /\ r = SetOptions(L, op)
  <2>1. Settled(L, r.L, op.src, 0)
    BY <1>1, <1>2, <1>10, SetOptionsKeeps
  <2>2. \A a \in DOMAIN L.acc : Tends(L, r.L, a)
    BY <1>1, <1>2, <1>10, SetOptionsTends
  <2> QED BY <1>3, <1>4, <2>1, <2>2
<1>11. CASE ChangeTrust_doCheckValid(op) /\ r = ChangeTrust(L, op)
  <2>1. op.limit \in Amount
    BY <1>11 DEF ChangeTrust_doCheckValid
  <2>2. Settled(L, r.L, op.src, 0)
    BY <1>1, <1>2, <1>11, <2>1, ChangeTrustKeeps
  <2>3. \A a \in DOMAIN L.acc : Tends(L, r.L, a)
    BY <1>1, <1>2, <1>11, ChangeTrustTends
  <2> QED BY <1>3, <1>4, <2>2, <2>3
<1>12. CASE AllowTrust_doCheckValid(op) /\ r = AllowTrust(L, op)
  <2>1. op.authorize \in BOOLEAN
    BY <1>12 DEF AllowTrust_doCheckValid
  <2>2. Traded(L, r.L, 0)
    BY <1>2, <1>12, <2>1, AllowTrustKeeps
  <2>3. \A a \in DOMAIN L.acc : Tends(L, r.L, a)
    BY <1>2, <1>12, AllowTrustTends
  <2> QED BY <1>3, <1>4, <2>2, <2>3
<1>13. CASE Merge_doCheckValid(op) /\ r = Merge(L, op)
  BY <1>1, <1>2, <1>13, MergeHonours
<1>14. CASE r = Inflation(L, op)
  BY <1>1, <1>3, <1>14, InflationTends
<1>15. CASE op.set \in BOOLEAN /\ r = ManageData(L, op)
  <2>1. Settled(L, r.L, op.src, 0)
    BY <1>1, <1>2, <1>15, ManageDataKeeps
  <2>2. \A a \in DOMAIN L.acc : Tends(L, r.L, a)
    BY <1>1, <1>2, <1>15, ManageDataTends
  <2> QED BY <1>3, <1>4, <2>1, <2>2
<1>16. CASE BumpSequence_doCheckValid(op) /\ r = BumpSequence(L, op)
  <2>1. op.bumpTo \in Nat
    BY <1>16 DEF BumpSequence_doCheckValid
  <2>2. Settled(L, r.L, op.src, 0)
    BY <1>1, <1>2, <1>16, <2>1, BumpSequenceKeeps
  <2>3. \A a \in DOMAIN L.acc : Tends(L, r.L, a)
    BY <1>1, <1>2, <1>16, <2>1, BumpSequenceTends
  <2> QED BY <1>3, <1>4, <2>2, <2>3
<1>17. CASE r = MarkAccount(L, op)
  BY <1>17, MarkAccountKeeps DEF Honours
<1> QED BY <1>1, <1>6, <1>7, <1>8, <1>9, <1>10, <1>11, <1>12, <1>13, <1>14, <1>15, <1>16, <1>17
        DEF Applies

\* As long as no operation failed or threw.
HonoursAfter(L, s) ==
    /\ SoundAfter(L, s)
    /\ s.ok /\ Fine(s.L) => Honours(L, s.L)

LEMMA ApplyHonours ==
    ASSUME NEW L, Sound(L), NEW s, HonoursAfter(L, s), NEW op, doCheckValid(op), NEW t,
           t = apply(s, op)
    PROVE  HonoursAfter(L, t)
<1> DEFINE r == doApply(s.L, op)
<1>1. SoundAfter(L, s) /\ SoundAfter(L, t)
  BY ApplyKeeps DEF HonoursAfter
<1>2. SUFFICES ASSUME t.ok, Fine(t.L) PROVE Honours(L, t.L)
  BY <1>1 DEF HonoursAfter
<1>3. CASE ~Fine(s.L)
  <2>1. t = s
    BY <1>3, Zenon DEF apply, Fine
  <2> QED BY <1>2, <1>3, <2>1
<1>4. CASE Fine(s.L)
  <2>1. t = [ok |-> s.ok /\ r.code = "ok", L |-> r.L]
    BY <1>4, Zenon DEF apply, Fine
  <2> HIDE DEF r
  <2>2. s.ok /\ r.code = "ok" /\ t.L = r.L
    <3> DEFINE x == s.ok /\ r.code = "ok"
    <3>1. t = [ok |-> x, L |-> r.L]
      BY <2>1
    <3> HIDE DEF x
    <3>2. t.ok = x /\ t.L = r.L
      BY <3>1
    <3>3. x
      BY <1>2, <3>2, Zenon
    <3> QED BY <3>2, <3>3, Zenon DEF x
  <2>3. Sound(s.L) /\ Honours(L, s.L)
    BY <1>1, <1>4, <2>2 DEF HonoursAfter, SoundAfter
  <2>4. Fine(r.L)
    BY <1>2, <2>2
  <2>5. Honours(s.L, r.L)
    BY <1>4, <2>2, <2>3, <2>4, DoApplyHonours DEF r
  <2> QED BY <2>2, <2>3, <2>5, HonoursOn
<1> QED BY <1>3, <1>4

LEMMA ApplyOperationsHonours ==
    ASSUME NEW L, Sound(L), Fine(L), NEW tx, Len(tx.ops) \in Nat,
           \A k \in 1..Len(tx.ops) : doCheckValid(tx.ops[k]),
           NEW r, r = applyOperations(L, tx)
    PROVE  Honours(L, r.L)
<1> DEFINE n == Len(tx.ops)
           ops == tx.ops
           F == CHOOSE G : AreStates(G, n, L, ops)
           N == {k \in Nat : k <= n => HonoursAfter(L, F[k])}
<1>1. r = Kept(F[n], L)
  BY StatesAre
<1>2. AreStates(F, n, L, ops)
  <2>1. \E G : AreStates(G, n, L, ops)
    BY StatesExist
  <2> QED BY <2>1, Zenon
<1> HIDE DEF F
<1>3. F[0] = FirstState(L) /\ \A k \in 1..n : F[k] = apply(F[k - 1], ops[k])
  BY <1>2 DEF AreStates
<1> HIDE DEF n, ops
<1>4. n \in Nat /\ \A k \in 1..n : doCheckValid(ops[k])
  BY DEF n, ops
<1>5. 0 \in N
  <2>1. FirstState(L).L = L
    BY DEF FirstState
  <2>2. HonoursAfter(L, FirstState(L))
    BY <2>1, FirstStateIs DEF HonoursAfter, Honours
  <2> QED BY <1>3, <2>2
<1>6. ASSUME NEW k \in Nat, k \in N PROVE k + 1 \in N
  <2> SUFFICES ASSUME k + 1 <= n PROVE HonoursAfter(L, F[k + 1])
    OBVIOUS
  <2>1. k + 1 \in 1..n /\ k <= n /\ (k + 1) - 1 = k
    BY <1>4
  <2>2. /\ HonoursAfter(L, F[k]) /\ F[k + 1] = apply(F[k], ops[k + 1])
        /\ doCheckValid(ops[k + 1])
    BY <1>3, <1>4, <1>6, <2>1
  <2> QED BY <2>2, ApplyHonours
<1>7. Nat \subseteq N
  <2> HIDE DEF N
  <2> QED BY <1>5, <1>6, Induction
<1>8. HonoursAfter(L, F[n])
  <2>1. n \in N
    BY <1>4, <1>7
  <2> QED BY <1>4, <2>1
<1> DEFINE end == F[n]
<1> HIDE DEF end
<1>9. r.L = IF end.ok /\ Fine(end.L) THEN end.L ELSE L
  BY <1>1 DEF Kept, end
<1>10. end.ok /\ Fine(end.L) => Honours(L, end.L)
  BY <1>8 DEF end, HonoursAfter
<1>11. Honours(L, L)
  BY DEF Honours
<1> QED BY <1>9, <1>10, <1>11

-----------------------------------------------------------------------------
(* The fee and the header. *)

\* Only the header changes, and the reserve does not rise.
LEMMA HeaderHonours ==
    ASSUME NEW L, IsLedger(L), NEW M, IsLedger(M), SameEntries(L, M),
           M.baseReserve <= L.baseReserve
    PROVE  Honours(L, M)
<1>1. M.acc = L.acc /\ M.offers = L.offers
  BY DEF SameEntries
<1>2. ASSUME NEW a \in DOMAIN M.acc
      PROVE  a \in DOMAIN L.acc /\ Tends(L, M, a)
  <2>1. a \in DOMAIN L.acc /\ M.acc[a] = L.acc[a]
    BY <1>1
  <2>2. L.acc[a].numSubEntries \in Nat /\ L.acc[a].balance \in Nat /\ L.acc[a].selling \in Nat
    BY <2>1, AvailType
  <2>3. /\ M.acc[a].numSubEntries <= L.acc[a].numSubEntries
        /\ L.acc[a].balance - L.acc[a].selling <= M.acc[a].balance - M.acc[a].selling
    BY <2>1, <2>2
  <2>4. Avail(L, a) <= Avail(M, a)
    BY <2>1, <2>3, AvailGrows
  <2> QED BY <1>1, <2>1, <2>4, TendsUp
<1>3. AllWell(L) => AllWell(M)
  BY <1>1 DEF AllWell
<1> QED BY <1>2, <1>3, HonoursBy

\* A transaction is valid only if its account can pay the fee from what is available.
LEMMA FeeIsAvailable ==
    ASSUME NEW L, Sound(L), NEW tx, Len(tx.ops) \in Nat, checkValid(L, tx)
    PROVE  Min({L.acc[tx.src].balance, BaseFee * Len(tx.ops)}) <= Avail(L, tx.src)
<1> DEFINE h == L.acc[tx.src]
           n == BaseFee * Len(tx.ops)
           m == getMinBalance(L, h.numSubEntries)
<1>1. tx.src \in DOMAIN L.acc
  BY DEF checkValid, exists
<1>2. h.balance \in Nat /\ h.selling \in Nat /\ m \in Nat
  BY <1>1, AvailType DEF Sound
<1>3. n \in Nat
  BY ParametersAssumption, ProductType
<1>4. Avail(L, tx.src) = h.balance - m - h.selling
  BY AvailIs
<1>5. Avail(L, tx.src) >= n
  BY DEF checkValid, Avail
<1> HIDE DEF h, n, m
<1>6. n <= h.balance
  BY <1>2, <1>3, <1>4, <1>5
<1>7. Min({h.balance, n}) = n
  BY <1>2, <1>3, <1>6, MinOfTwo
<1>8. Avail(L, tx.src) \in Int
  BY <1>2, <1>4
<1>9. Min({h.balance, n}) <= Avail(L, tx.src)
  BY <1>3, <1>5, <1>7, <1>8
<1> QED BY <1>9 DEF h, n

LEMMA FeeTends ==
    ASSUME NEW L, IsLedger(L), NEW b \in DOMAIN L.acc, NEW fee \in Nat, fee <= Avail(L, b),
           NEW M, IsLedger(M), WithFee(L, b, fee, M), NEW a \in DOMAIN L.acc
    PROVE  Tends(L, M, a)
<1> DEFINE h == L.acc[b]
           x == h.balance - fee
           y == L.feePool + fee
           k == [h EXCEPT !.balance = x]
           f == [L.acc EXCEPT ![b] = k]
           N == [L EXCEPT !.acc[b] = k]
<1>1. LedgerFields(L) /\ IsAccount(h)
  BY DEF IsLedger, AreAccounts
<1>2. WithFeePool(N, y, M)
  BY <1>1, FieldFee DEF WithFee, WithFeePool
<1>3. k.balance = x /\ k.selling = h.selling /\ k.numSubEntries = h.numSubEntries
  BY <1>1 DEF IsAccount
<1> HIDE DEF k, y
<1>4. N = [L EXCEPT !.acc = f]
  BY <1>1, FieldAccAt
<1> HIDE DEF N
<1>5. /\ LedgerFields(N) /\ N.acc = f /\ N.offers = L.offers /\ N.baseReserve = L.baseReserve
  BY <1>1, <1>4, FieldAcc DEF SameHeader
<1>6. SameEntries(N, M) /\ M.baseReserve = N.baseReserve
  BY <1>2, <1>5, FieldFeePool
<1>7. M.acc = f /\ M.offers = L.offers /\ M.baseReserve = L.baseReserve
  BY <1>5, <1>6 DEF SameEntries
<1>8. DOMAIN f = DOMAIN L.acc /\ f[b] = k /\ \A c \in DOMAIN L.acc : c # b => f[c] = L.acc[c]
  OBVIOUS
<1> HIDE DEF f
<1>9. CASE a # b
  <2>1. M.acc[a] = L.acc[a]
    BY <1>7, <1>8, <1>9
  <2> QED BY <1>7, <2>1, TendsStill
<1>10. CASE a = b
  <2>1. M.acc[b] = k /\ b \in DOMAIN M.acc
    BY <1>7, <1>8
  <2> DEFINE m == getMinBalance(L, h.numSubEntries)
  <2>2. h.balance \in Nat /\ h.selling \in Nat /\ m \in Nat
    BY AvailType
  <2>3. getMinBalance(M, h.numSubEntries) = m
    BY <1>7 DEF getMinBalance
  <2>4. Avail(M, b) = k.balance - getMinBalance(M, k.numSubEntries) - k.selling
    BY <2>1, AvailIs
  <2>5. Avail(L, b) = h.balance - m - h.selling
    BY AvailIs
  <2> HIDE DEF m, h
  <2>6. Avail(M, b) >= 0
    BY <1>3, <2>2, <2>3, <2>4, <2>5
  <2> QED BY <1>7, <1>10, <2>1, <2>6, TendsUp
<1> QED BY <1>9, <1>10

LEMMA BaseHonours ==
    ASSUME NEW L, Sound(L), Fine(L), NEW tx, Len(tx.ops) \in Nat, checkValid(L, tx),
           NEW new, Opened(L, new),
           NEW B, B = processSeqNum(processFeeSeqNum(new, tx), tx)
    PROVE  Honours(L, B)
<1> DEFINE b == tx.src
           fee == Min({new.acc[b].balance, BaseFee * Len(tx.ops)})
           M == [new EXCEPT !.acc[b].balance = new.acc[b].balance - fee,
                            !.feePool = new.feePool + fee]
<1>1. /\ Sound(new) /\ Fine(new) /\ new.acc = L.acc /\ new.baseReserve = L.baseReserve
  BY NextLedger
<1>2. /\ b \in DOMAIN new.acc /\ fee \in Nat
      /\ fee <= new.acc[b].balance - new.acc[b].selling
  BY <1>1, FeeFits
<1>3. fee <= Avail(new, b)
  <2>1. Avail(new, b) = Avail(L, b)
    BY <1>1, AvailIs DEF getMinBalance
  <2>2. Min({L.acc[b].balance, BaseFee * Len(tx.ops)}) <= Avail(L, b)
    BY FeeIsAvailable
  <2> QED BY <1>1, <2>1, <2>2
<1>4. processFeeSeqNum(new, tx) = M
  BY DEF processFeeSeqNum
<1> HIDE DEF fee
<1>5. WithFee(new, b, fee, M)
  BY DEF WithFee
<1> HIDE DEF M
<1>6. Sound(M) /\ DOMAIN M.acc = DOMAIN new.acc
  <2> HIDE DEF b
  <2> QED BY <1>1, <1>2, <1>5, FeePaid
<1>7. \A a \in DOMAIN new.acc : Tends(new, M, a)
  <2> HIDE DEF b
  <2> QED BY <1>1, <1>2, <1>3, <1>5, <1>6, FeeTends DEF Sound
<1>8. Honours(new, M)
  BY <1>2, <1>6, <1>7, TendingHonours
<1>9. Honours(L, new)
  <2> DEFINE x == L.ledgerSeq + 1
  <2>1. LedgerFields(L) /\ new = [L EXCEPT !.ledgerSeq = x]
    BY DEF Sound, IsLedger, Opened
  <2> HIDE DEF x
  <2>2. SameEntries(L, new)
    BY <2>1, FieldLedgerSeq
  <2>3. L.baseReserve \in Nat
    BY DEF Sound, IsLedger, IsHeader
  <2>4. new.baseReserve <= L.baseReserve
    BY <1>1, <2>3
  <2> QED BY <1>1, <2>2, <2>4, HeaderHonours DEF Sound
<1> DEFINE x == M.acc[b].seqNum + 1
<1>10. B = [M EXCEPT !.acc[b].seqNum = x]
  BY <1>4 DEF processSeqNum
<1>11. IsLedger(M) /\ b \in DOMAIN M.acc
  BY <1>2, <1>6 DEF Sound
<1>12. M.acc[b].seqNum \in Nat
  BY <1>11, UncountedType
<1>13. x \in Nat /\ x >= M.acc[b].seqNum
  BY <1>12
<1> HIDE DEF x
<1>14. OptionSet(M, B, b, x)
  BY <1>10, <1>13 DEF OptionSet
<1> HIDE DEF b
<1>15. \A a \in DOMAIN M.acc : Tends(M, B, a)
  BY <1>11, <1>14, OptionTends
<1>16. DOMAIN B.acc = DOMAIN M.acc
  BY <1>11, <1>14, SetOption
<1>17. Honours(M, B)
  BY <1>11, <1>15, <1>16, TendingHonours
<1> QED BY <1>8, <1>9, <1>17, HonoursOn

-----------------------------------------------------------------------------
(* An upgrade that raises the reserve. *)

\* Some offers are gone.
LEMMA PledgedFewer ==
    ASSUME NEW L, IsLedger(L), NEW M, DOMAIN M.offers \subseteq DOMAIN L.offers,
           \A i \in DOMAIN M.offers : M.offers[i] = L.offers[i],
           NEW a, NEW asset, NEW side
    PROVE  Pledged(M, a, asset, side) <= Pledged(L, a, asset, side)
<1> DEFINE D == DOMAIN L.offers
           T == DOMAIN M.offers
           f == SharesOf(L, a, asset, side)
           g == SharesOf(M, a, asset, side)
<1>1. IsFiniteSet(D) /\ \A j \in D : Share(L.offers[j], a, asset, side) \in Nat
  BY SharesType
<1>2. \A j \in D : f[j] = Share(L.offers[j], a, asset, side)
  BY DEF SharesOf
<1>3. \A j \in T : g[j] = f[j]
  BY <1>2 DEF SharesOf
<1>4. \A j \in D : f[j] \in Int /\ f[j] >= 0
  <2> HIDE DEF f, D
  <2> QED BY <1>1, <1>2
<1>5. T \in SUBSET D
  OBVIOUS
<1> HIDE DEF f, g, D, T
<1>6. IsFiniteSet(T)
  BY <1>1, <1>5, FS_Subset
<1>7. SumFunctionOnSet(g, T) = SumFunctionOnSet(f, T)
  BY <1>3, <1>6, SumCong
<1>8. SumFunctionOnSet(f, T) <= SumFunctionOnSet(f, D)
  BY <1>1, <1>4, <1>5, SumSubset
<1> QED BY <1>7, <1>8 DEF Pledged, f, g, D, T

\* The adjustment of all offers leaves those alone that have been adjusted.
LEMMA AdjustOffersStill ==
    ASSUME NEW L, IsLedger(L), AllWell(L), NEW M, M = adjustOffers(L)
    PROVE  M.offers = L.offers
<1> DEFINE g == L.offers
           amount(i) == adjustOffer(g[i].price, g[i].amount, INT64_MAX).numWheatReceived
           f == [i \in DOMAIN g |-> [g[i] EXCEPT !.amount = amount(i)]]
<1>1. M = [L EXCEPT !.offers = f]
  BY DEF adjustOffers
<1>2. AreOffers(g)
  BY DEF IsLedger
<1>3. ASSUME NEW i \in DOMAIN g
      PROVE  f[i] = g[i]
  <2>1. IsOffer(g[i])
    BY <1>2 DEF AreOffers
  <2>2. amount(i) = g[i].amount
    BY DEF AllWell, Well, WellAdjusted
  <2>3. f[i] = [g[i] EXCEPT !.amount = amount(i)]
    OBVIOUS
  <2> HIDE DEF g, amount, f
  <2>4. [g[i] EXCEPT !.amount = g[i].amount] = g[i]
    BY <2>1 DEF IsOffer
  <2> QED BY <2>2, <2>3, <2>4
<1>4. f = g
  <2>1. DOMAIN f = DOMAIN g
    OBVIOUS
  <2>2. f = [i \in DOMAIN f |-> f[i]] /\ g = [i \in DOMAIN g |-> g[i]]
    BY <1>2 DEF AreOffers
  <2> HIDE DEF f, g, amount
  <2> QED BY <1>3, <2>1, <2>2
<1> HIDE DEF f, g, amount
<1>5. LedgerFields(L)
  BY DEF IsLedger
<1>6. M.offers = f
  BY <1>1, <1>5, FieldOffers
<1> QED BY <1>4, <1>6 DEF g

\* What the offers that stay promise in lumens is left to their seller, above the new reserve.
LEMMA PrepareHonours ==
    ASSUME NEW L, IsLedger(L), NEW M, M = prepareLiabilities(L), Fine(M), AllWell(L)
    PROVE  AllWell(M) /\ Solvent(M)
<1> DEFINE E == eraseOffers(L, Gone(L))
           K == adjustOffers(E)
           S == linesOf(K)
<1>1. M = realignAll(K, S)
  BY Zenon DEF prepareLiabilities, Gone
<1>2. Gone(L) \in SUBSET DOMAIN L.offers
  BY DEF Gone
<1>3. IsLedger(E)
  BY <1>2, ClearOffers DEF Cleared
<1>4. Eased(L, E)
  BY <1>2, EraseOffersEases
<1>5. "selling" \in Sides
  BY DEF Sides
<1>6. \A a : Thinned("erase", L, E, a, a, "selling")
  BY <1>2, <1>5, TakenThins
<1> HIDE DEF E
<1>7. Traded(E, K, 0) /\ Reamounted(E, K)
  BY <1>3, AdjustOffersTrades, AdjustOffersIs
<1> HIDE DEF K
<1>8. IsLedger(K)
  BY <1>7 DEF Traded
<1>9. Eased(E, K)
  BY <1>3, <1>7, <1>8, EasedNot DEF Traded, SameHeader, Reamounted
<1>10. IsFiniteSet(S) /\ \A l \in S : l = <<l[1], l[2]>>
  BY <1>8, LinesFinite, LinesOfPairs
<1>11. \A i \in DOMAIN K.offers : <<K.offers[i].seller, K.offers[i].selling>> \in S
  BY LinesOfPairs
<1> HIDE DEF S
<1>12. Moved(K, M, 0)
  BY <1>1, <1>8, <1>10, RealignAllMoves
<1>13. \A a : AlignsAll(K, M, S, a, Native, "selling")
  BY <1>1, <1>5, <1>8, <1>10, RealignAllAligns
<1>14. Eased(K, M)
  BY <1>1, <1>8, <1>10, RealignAllEases
<1>15. IsLedger(M) /\ Fine(K) /\ M.offers = K.offers /\ DOMAIN M.acc = DOMAIN K.acc
  BY <1>12 DEF Moved
<1>16. Fine(E)
  BY <1>7, <1>15 DEF Traded
<1>17. \A i \in DOMAIN E.offers : E.offers[i] = L.offers[i]
  BY <1>6, <1>16 DEF Thinned
<1>18. /\ DOMAIN K.acc = DOMAIN L.acc /\ DOMAIN K.offers \subseteq DOMAIN L.offers
       /\ \A i \in DOMAIN K.offers : ~Excess(L, L.offers[i])
  BY <1>15, KeptOffers DEF E, K
<1>19. DOMAIN E.offers \subseteq DOMAIN L.offers
  BY <1>7, <1>18 DEF Reamounted
<1>20. AllWell(E)
  BY <1>17, <1>19 DEF AllWell
<1>21. K.offers = E.offers
  BY <1>3, <1>20, AdjustOffersStill DEF K
<1>22. AllWell(M)
  BY <1>15, <1>20, <1>21 DEF AllWell
<1>23. Eased(L, M)
  <2>1. Eased(L, K)
    BY <1>4, <1>9, EasedOn
  <2> QED BY <1>14, <2>1, EasedOn
<1>24. ASSUME NEW a \in DOMAIN M.acc, SellsLumens(M, a)
       PROVE  Avail(M, a) >= 0
  <2> DEFINE n == L.acc[a].numSubEntries
             m == M.acc[a].numSubEntries
  <2>1. PICK i \in DOMAIN M.offers : M.offers[i].seller = a /\ M.offers[i].selling = Native
    BY <1>24 DEF SellsLumens
  <2>2. a \in DOMAIN L.acc /\ a \in DOMAIN K.acc
    BY <1>15, <1>18
  <2>3. Exists(K, a, Native) /\ ~isIssuer(a, Native)
    BY <2>2 DEF Exists, isIssuer
  <2>4. <<a, Native>> \in S
    BY <1>11, <1>15, <2>1
  <2>5. Liable(M, a, Native, "selling") = Pledged(K, a, Native, "selling")
    BY <1>13, <2>3, <2>4 DEF AlignsAll
  <2>6. Exists(M, a, Native)
    BY DEF Exists
  <2>7. M.acc[a].selling = Pledged(K, a, Native, "selling")
    BY <2>3, <2>5, <2>6 DEF Liable, LiabilityOf, Holding
  <2>8. Pledged(K, a, Native, "selling") <= Pledged(L, a, Native, "selling")
    BY <1>17, <1>18, <1>21, PledgedFewer
  <2>9. Promises(L, Owned(L, a), Native, "selling") = Pledged(L, a, Native, "selling")
    BY <1>5, <2>3, PromisesArePledged
  <2>10. i \in DOMAIN L.offers /\ L.offers[i].seller = a /\ L.offers[i].selling = Native
    BY <1>15, <1>17, <1>18, <1>21, <2>1
  <2>11. ~(Promises(L, Owned(L, a), Native, "selling") > L.acc[a].balance - getMinBalance(L, n))
    <3>1. ~Excess(L, L.offers[i])
      BY <1>15, <1>18, <2>1
    <3> QED BY <2>10, <3>1 DEF Excess, getAvailableBalanceExcludingLiabilities, isIssuer
  <2>12. Pledged(K, a, Native, "selling") \in Nat /\ Pledged(L, a, Native, "selling") \in Nat
    BY <1>5, <1>8, SharesType
  <2>13. /\ L.acc[a].balance \in Nat /\ n \in Nat /\ L.baseReserve \in Nat
         /\ getMinBalance(L, n) \in Nat /\ m \in Nat /\ getMinBalance(M, m) \in Nat
    BY <1>15, <2>2, AvailType
  <2>14. M.acc[a].balance = L.acc[a].balance /\ m <= n /\ M.baseReserve = L.baseReserve
    BY <1>23, <2>2 DEF Eased
  <2>15. Avail(M, a) = M.acc[a].balance - getMinBalance(M, m) - M.acc[a].selling
    BY AvailIs
  <2> HIDE DEF m, n
  <2>16. getMinBalance(M, m) <= getMinBalance(L, n)
    <3>1. L.baseReserve <= L.baseReserve
      BY <2>13
    <3>2. (2 + m) * L.baseReserve <= (2 + n) * L.baseReserve
      BY <2>13, <2>14, <3>1, ReserveGrows
    <3> QED BY <2>14, <3>2 DEF getMinBalance
  <2> QED BY <2>7, <2>8, <2>9, <2>11, <2>12, <2>13, <2>14, <2>15, <2>16
<1> QED BY <1>22, <1>24 DEF Solvent

-----------------------------------------------------------------------------
(* The invariant. *)

Honoured(L) == AllWell(L) /\ Solvent(L)

LEMMA GenesisHonoured == Honoured(Genesis)
<1>1. AllWell(Genesis)
  BY OffersAssumption DEF AllWell, Well, WellAdjusted
<1>2. Solvent(Genesis)
  BY OffersAssumption DEF Solvent, SellsLumens, Avail
<1> QED BY <1>1, <1>2 DEF Honoured

HInv == Honoured(ledger)

LEMMA InitHInv == Init => HInv
<1> SUFFICES ASSUME Init PROVE HInv
  OBVIOUS
<1>1. ledger = Genesis
  BY Zenon DEF Init
<1> QED BY <1>1, GenesisHonoured, Zenon DEF HInv

LEMMA CloseLedgerHonours ==
    ASSUME IInv, HInv, NEW tx \in Menus[menu], closeLedger(tx)
    PROVE  HInv'
<1> DEFINE new == [ledger EXCEPT !.ledgerSeq = ledger.ledgerSeq + 1]
           base == processSeqNum(processFeeSeqNum(new, tx), tx)
           r == applyOperations(base, tx)
<1>1. menu \in DOMAIN Menus /\ Sound(ledger) /\ Fine(ledger)
  BY DEF IInv
<1>2. Len(tx.ops) \in Nat /\ \A k \in 1..Len(tx.ops) : doCheckValid(tx.ops[k])
  BY <1>1, MenusAssumption
<1>3. checkValid(ledger, tx) /\ ledger' = r.L
  BY Zenon DEF closeLedger
<1>4. Opened(ledger, new)
  BY DEF Opened
<1> HIDE DEF new
<1>5. Sound(base) /\ Fine(base)
  <2>1. Based(ledger, base)
    BY <1>1, <1>2, <1>3, <1>4, BaseIs
  <2> QED BY <2>1 DEF Based
<1>6. Honours(ledger, base)
  BY <1>1, <1>2, <1>3, <1>4, BaseHonours
<1> HIDE DEF base
<1>7. Honours(base, r.L)
  BY <1>2, <1>5, ApplyOperationsHonours
<1> HIDE DEF r
<1>8. Honoured(r.L)
  BY <1>6, <1>7 DEF HInv, Honoured, Honours
<1>9. Honoured(ledger')
  BY <1>3, <1>8, Zenon
<1> QED BY <1>9, Zenon DEF HInv, Honoured

LEMMA ApplyReserveUpgradeHonours ==
    ASSUME IInv, HInv, NEW x \in NewReserves, applyReserveUpgrade(x)
    PROVE  HInv'
<1> DEFINE new == [ledger EXCEPT !.ledgerSeq = ledger.ledgerSeq + 1]
           set == [new EXCEPT !.baseReserve = x]
           up == x > ledger.baseReserve
           N == IF up THEN prepareLiabilities(set) ELSE set
           M == IF N.err = "" THEN N ELSE new
<1>1. Sound(ledger) /\ Fine(ledger)
  BY DEF IInv
<1>2. ledger' = M
  BY Zenon DEF applyReserveUpgrade
<1>3. Opened(ledger, new) /\ WithReserve(new, x, set) /\ x \in Nat
  BY ParametersAssumption DEF Opened, WithReserve
<1> HIDE DEF new, set
<1>4. Sound(new) /\ Fine(new) /\ Sound(set) /\ Fine(set) /\ new.baseReserve = ledger.baseReserve
  <2>1. Sound(new) /\ Fine(new) /\ new.baseReserve = ledger.baseReserve
    BY <1>1, <1>3, NextLedger
  <2> QED BY <1>3, <2>1, NewReserve
<1>5. IsLedger(ledger) /\ IsLedger(new) /\ IsLedger(set)
  BY <1>1, <1>4 DEF Sound
<1>6. SameEntries(ledger, new)
  BY <1>3, <1>5, FieldLedgerSeq DEF Opened, IsLedger
<1>7. SameEntries(new, set) /\ set.baseReserve = x
  BY <1>3, <1>5, FieldReserve DEF IsLedger
<1>8. ledger.baseReserve \in Nat /\ new.baseReserve <= ledger.baseReserve
  <2>1. ledger.baseReserve \in Nat
    BY <1>5 DEF IsLedger, IsHeader
  <2> QED BY <1>4, <2>1
<1>9. Honoured(new)
  <2>1. Honours(ledger, new)
    BY <1>5, <1>6, <1>8, HeaderHonours
  <2> QED BY <2>1 DEF HInv, Honoured, Honours
<1>10. AllWell(set)
  BY <1>7, <1>9 DEF Honoured, AllWell, SameEntries
<1>11. ~up => Honoured(set)
  <2> SUFFICES ASSUME ~up PROVE Honoured(set)
    OBVIOUS
  <2>1. set.baseReserve <= new.baseReserve
    BY <1>3, <1>4, <1>7, <1>8
  <2>2. Honours(new, set)
    BY <1>5, <1>7, <2>1, HeaderHonours
  <2> QED BY <1>9, <2>2 DEF Honoured, Honours
<1>12. up /\ Fine(N) => Honoured(N)
  <2> SUFFICES ASSUME up, Fine(N) PROVE Honoured(N)
    OBVIOUS
  <2>1. N = prepareLiabilities(set)
    OBVIOUS
  <2> HIDE DEF N
  <2> QED BY <1>5, <1>10, <2>1, PrepareHonours DEF Honoured
<1>13. (Fine(N) /\ M = N) \/ M = new
  BY Zenon DEF Fine
<1>14. up \/ N = set
  OBVIOUS
<1> HIDE DEF M, N, up
<1>15. Honoured(M)
  BY <1>9, <1>11, <1>12, <1>13, <1>14
<1>16. Honoured(ledger')
  BY <1>2, <1>15, Zenon
<1> QED BY <1>16, Zenon DEF HInv, Honoured

LEMMA NextHInv == IInv /\ HInv /\ [Next]_vars => HInv'
<1> SUFFICES ASSUME IInv, HInv, [Next]_vars PROVE HInv'
  OBVIOUS
<1>1. CASE \E tx \in Menus[menu] : closeLedger(tx)
  BY <1>1, CloseLedgerHonours
<1>2. CASE \E x \in NewReserves : applyReserveUpgrade(x)
  BY <1>2, ApplyReserveUpgradeHonours
<1>3. CASE UNCHANGED vars
  <2>1. ledger' = ledger
    BY <1>3 DEF vars
  <2>2. Honoured(ledger')
    BY <2>1, Zenon DEF HInv
  <2> QED BY <2>2, Zenon DEF HInv, Honoured
<1> QED BY <1>1, <1>2, <1>3, Zenon DEF Next

-----------------------------------------------------------------------------
(* An offer whose liabilities are released. *)

LEMMA OfferIsPledged ==
    ASSUME NEW L, IsLedger(L), NEW a, NEW asset, NEW side, NEW i \in DOMAIN L.offers
    PROVE  Share(L.offers[i], a, asset, side) <= Pledged(L, a, asset, side)
<1> DEFINE D == DOMAIN L.offers
           f == SharesOf(L, a, asset, side)
<1>1. IsFiniteSet(D) /\ \A j \in D : Share(L.offers[j], a, asset, side) \in Nat
  BY SharesType
<1>2. \A j \in D : f[j] = Share(L.offers[j], a, asset, side)
  BY DEF SharesOf
<1>3. \A j \in D : f[j] \in Nat /\ f[j] \in Int
  <2> HIDE DEF f, D
  <2> QED BY <1>1, <1>2
<1>4. Pledged(L, a, asset, side) = SumFunctionOnSet(f, D)
  BY DEF Pledged
<1>5. i \in D
  OBVIOUS
<1> HIDE DEF f, D
<1>6. SumFunctionOnSet(f, D) = f[i] + SumFunctionOnSet(f, D \ {i})
  BY <1>1, <1>3, <1>5, SumRemove
<1>7. IsFiniteSet(D \ {i})
  BY <1>1, FS_Subset
<1>8. SumFunctionOnSet(f, D \ {i}) \in Int /\ SumFunctionOnSet(f, D \ {i}) >= 0
  BY <1>3, <1>7, SumType
<1>9. f[i] <= SumFunctionOnSet(f, D)
  BY <1>3, <1>5, <1>6, <1>8
<1> QED BY <1>2, <1>4, <1>5, <1>9

\* The holding of a backs x of its liabilities.
Releasable(L, a, asset, side, x) ==
    \/ isIssuer(a, asset)
    \/ /\ Exists(L, a, asset)
       /\ x <= LiabilityOf(Holding(L, a, asset), side)
       /\ asset # Native => Holding(L, a, asset).authorized

\* What an offer promises is backed, on a line that is authorized.
LEMMA OfferIsSecured ==
    ASSUME NEW L, IsLedger(L), NEW r, HoldsFor(L, r), NEW i \in DOMAIN L.offers, NEW a, NEW asset,
           NEW side \in Sides, NEW x \in Nat \ {0},
           isIssuer(a, asset) \/ Share(L.offers[i], a, asset, side) = x
    PROVE  Releasable(L, a, asset, side, x)
<1>1. CASE isIssuer(a, asset)
  BY <1>1 DEF Releasable
<1>2. CASE ~isIssuer(a, asset)
  <2>1. x <= Pledged(L, a, asset, side)
    BY <1>2, OfferIsPledged
  <2>2. CoveredAt(L, a, asset, side) /\ ThawedAt(L, a, asset, side)
    BY Zenon DEF HoldsFor
  <2>3. Liable(L, a, asset, side) \in Nat /\ Pledged(L, a, asset, side) \in Nat
    BY LiableType, SharesType
  <2>4. x <= Liable(L, a, asset, side) /\ Liable(L, a, asset, side) # 0
    BY <2>1, <2>2, <2>3 DEF CoveredAt, Slack
  <2>5. Exists(L, a, asset) /\ Liable(L, a, asset, side) = LiabilityOf(Holding(L, a, asset), side)
    BY <1>2, <2>4 DEF Liable
  <2>6. ~Frozen(L, a, asset)
    BY <2>1, <2>2, <2>3 DEF ThawedAt, Slack
  <2>7. asset # Native => Holding(L, a, asset).authorized
    BY <2>5, <2>6 DEF Frozen, Exists, Holding
  <2> QED BY <2>4, <2>5, <2>7 DEF Releasable
<1> QED BY <1>1, <1>2

LEMMA RebalancedHolding ==
    ASSUME NEW h, IsAccount(h) \/ IsLine(h), NEW x, NEW y, NEW z, NEW k, k = Rebalanced(h, x, y, z)
    PROVE  /\ k.balance = x /\ k.buying = y /\ k.selling = z
           /\ IsAccount(h) => k.numSubEntries = h.numSubEntries
           /\ IsLine(h) => k.authorized = h.authorized /\ k.limit = h.limit
<1>1. CASE IsAccount(h)
  <2>1. ~IsLine(h) \/ (k.authorized = h.authorized /\ k.limit = h.limit)
    BY DEF Rebalanced, IsLine
  <2> QED BY <1>1, <2>1 DEF Rebalanced, IsAccount
<1>2. CASE IsLine(h)
  <2>1. ~IsAccount(h) \/ k.numSubEntries = h.numSubEntries
    BY DEF Rebalanced, IsAccount
  <2> QED BY <1>2, <2>1 DEF Rebalanced, IsLine
<1> QED BY <1>1, <1>2

\* The holding of a of the asset c, with y less to buy and z less to sell.
Freed(L, M, a, c, y, z) ==
    LET h == Holding(L, a, c)
        k == Holding(M, a, c)
    IN  /\ Exists(M, a, c)
        /\ k.balance = h.balance /\ k.buying = h.buying - y /\ k.selling = h.selling - z
        /\ c = Native => k.numSubEntries = h.numSubEntries
        /\ c # Native => k.authorized = h.authorized /\ k.limit = h.limit

FreedAll(L, M, a, asset, y, z) ==
    /\ IsLedger(M) /\ M.baseReserve = L.baseReserve /\ (Fine(M) <=> Fine(L))
    /\ DOMAIN M.acc = DOMAIN L.acc
    /\ \A c : Exists(L, a, c) =>
                 Freed(L, M, a, c, IF c = asset THEN y ELSE 0, IF c = asset THEN z ELSE 0)

LEMMA FreedNot ==
    ASSUME NEW L, IsLedger(L), NEW a, NEW c, Exists(L, a, c)
    PROVE  Freed(L, L, a, c, 0, 0)
<1> DEFINE h == Holding(L, a, c)
<1>1. h.buying \in Nat /\ h.selling \in Nat
  BY HoldingFields
<1>2. h.buying = h.buying - 0 /\ h.selling = h.selling - 0
  <2> HIDE DEF h
  <2> QED BY <1>1
<1> QED BY <1>2 DEF Freed

LEMMA SetHoldingKeeps ==
    ASSUME NEW L, LedgerFields(L), NEW a, NEW asset, NEW k, NEW M, M = SetHolding(L, a, asset, k)
    PROVE  M.err = L.err /\ DOMAIN M.acc = DOMAIN L.acc
<1> DEFINE f == [L.acc EXCEPT ![a] = k]
           g == [L.tl EXCEPT ![<<a, asset>>] = k]
<1>1. CASE asset = Native
  <2>1. M = [L EXCEPT !.acc = f]
    BY <1>1, FieldAccAt DEF SetHolding
  <2>2. DOMAIN f = DOMAIN L.acc
    OBVIOUS
  <2> HIDE DEF f
  <2>3. M.err = L.err /\ M.acc = f
    BY <2>1, FieldAcc
  <2> QED BY <2>2, <2>3
<1>2. CASE asset # Native
  <2> DEFINE l == <<a, asset>>
  <2>1. M = [L EXCEPT !.tl[l] = k]
    BY <1>2 DEF SetHolding
  <2>2. [L EXCEPT !.tl[l] = k] = [L EXCEPT !.tl = g]
    <3> HIDE DEF l
    <3>1. [L EXCEPT !.tl[l] = k] = [L EXCEPT !.tl = [L.tl EXCEPT ![l] = k]]
      BY FieldTlAt
    <3> QED BY <3>1 DEF l
  <2>3. M = [L EXCEPT !.tl = g]
    BY <2>1, <2>2, Zenon
  <2> HIDE DEF g
  <2> QED BY <2>3, FieldTl
<1> QED BY <1>1, <1>2

LEMMA FreedBySet ==
    ASSUME NEW L, IsLedger(L), NEW a, NEW asset, Exists(L, a, asset), NEW h, h = Holding(L, a, asset),
           NEW y \in Nat, NEW z \in Nat, NEW M, IsLedger(M), M.baseReserve = L.baseReserve,
           M = SetHolding(L, a, asset, Rebalanced(h, h.balance, h.buying - y, h.selling - z))
    PROVE  FreedAll(L, M, a, asset, y, z)
<1> DEFINE k == Rebalanced(h, h.balance, h.buying - y, h.selling - z)
<1>1. /\ IsAccount(h) \/ IsLine(h)
      /\ asset = Native => h = L.acc[a]
  BY HoldingFields
<1>2. /\ asset = Native => IsAccount(h)
      /\ asset # Native => IsLine(h)
  <2>1. AreAccounts(L.acc) /\ AreLines(L.tl)
    BY DEF IsLedger
  <2> QED BY <2>1 DEF Exists, Holding, AreAccounts, AreLines
<1>3. /\ k.balance = h.balance /\ k.buying = h.buying - y /\ k.selling = h.selling - z
      /\ IsAccount(h) => k.numSubEntries = h.numSubEntries
      /\ IsLine(h) => k.authorized = h.authorized /\ k.limit = h.limit
  BY <1>1, RebalancedHolding
<1> HIDE DEF k
<1>4. M = SetHolding(L, a, asset, k)
  BY DEF k
<1>5. \A c : Exists(L, a, c) =>
          Exists(M, a, c) /\ Holding(M, a, c) = IF c = asset THEN k ELSE Holding(L, a, c)
  BY <1>4, HoldingSet
<1>6. ASSUME NEW c, Exists(L, a, c)
      PROVE  Freed(L, M, a, c, IF c = asset THEN y ELSE 0, IF c = asset THEN z ELSE 0)
  <2>1. CASE c = asset
    BY <1>2, <1>3, <1>5, <1>6, <2>1 DEF Freed
  <2>2. CASE c # asset
    <3>1. Freed(L, L, a, c, 0, 0)
      BY <1>6, FreedNot
    <3>2. Exists(M, a, c) /\ Holding(M, a, c) = Holding(L, a, c)
      BY <1>5, <1>6, <2>2
    <3>3. Freed(L, M, a, c, 0, 0)
      BY <3>1, <3>2 DEF Freed
    <3> QED BY <2>2, <3>3
  <2> QED BY <2>1, <2>2
<1>7. M.err = L.err /\ DOMAIN M.acc = DOMAIN L.acc
  <2>1. LedgerFields(L)
    BY DEF IsLedger
  <2> QED BY <1>4, <2>1, SetHoldingKeeps
<1>8. Fine(M) <=> Fine(L)
  BY <1>7, Zenon DEF Fine
<1> QED BY <1>6, <1>7, <1>8 DEF FreedAll

LEMMA AddedLess ==
    ASSUME NEW balance \in Nat, NEW x \in Nat, x <= balance, NEW maxBalance \in Int,
           balance <= maxBalance
    PROVE  Added(balance, -x, maxBalance) = balance - x
BY DEF Added

LEMMA ReleaseBuying ==
    ASSUME NEW L, IsLedger(L), NEW a, NEW asset, NEW x \in Nat \ {0},
           Releasable(L, a, asset, "buying", x), NEW r, r = addBuyingLiabilities(L, a, asset, -x)
    PROVE  r.ok /\ FreedAll(L, r.L, a, asset, IF isIssuer(a, asset) THEN 0 ELSE x, 0)
<1> DEFINE h == Holding(L, a, asset)
           limit == IF asset = Native THEN INT64_MAX ELSE h.limit
           new == Added(h.buying, -x, limit - h.balance)
           k == [h EXCEPT !.buying = new]
<1>1. Moved(L, r.L, 0)
  <2>1. -x \in Int
    OBVIOUS
  <2> QED BY <2>1, AddBuyingLiabilities
<1>2. IsLedger(r.L) /\ r.L.baseReserve = L.baseReserve
  BY <1>1 DEF Moved, SameHeader
<1>3. CASE isIssuer(a, asset)
  <2>1. r.ok /\ r.L = L
    BY <1>3 DEF addBuyingLiabilities, Result
  <2>2. \A c : Exists(L, a, c) => Freed(L, L, a, c, 0, 0)
    BY FreedNot
  <2> QED BY <1>3, <2>1, <2>2 DEF FreedAll
<1>4. CASE ~isIssuer(a, asset)
  <2>1. /\ Exists(L, a, asset) /\ x <= h.buying
        /\ asset # Native => h.authorized
    BY <1>4 DEF Releasable, LiabilityOf
  <2>2. /\ h.balance \in Nat /\ h.buying \in Nat /\ h.selling \in Nat
        /\ IsAccount(h) \/ IsLine(h)
        /\ h.balance + h.buying <= limit
        /\ asset # Native => h.limit \in Nat
    BY <2>1, HoldingFields, Zenon
  <2>3. limit \in Int
    BY <2>2, Int64Assumption
  <2>4. new = h.buying - x
    <3> HIDE DEF h, limit
    <3>1. limit - h.balance \in Int /\ h.buying <= limit - h.balance
      BY <2>2, <2>3
    <3> QED BY <2>1, <2>2, <3>1, AddedLess
  <2>5. new >= 0
    <3> HIDE DEF h, new
    <3> QED BY <2>1, <2>2, <2>4
  <2>6. -x # 0
    OBVIOUS
  <2>7. r = Result(TRUE, SetHolding(L, a, asset, k))
    <3>1. r = IF isIssuer(a, asset) \/ -x = 0 THEN Result(TRUE, L)
              ELSE IF new >= 0 /\ (asset # Native => h.authorized)
              THEN Result(TRUE, SetHolding(L, a, asset, k)) ELSE Result(FALSE, L)
      BY Zenon DEF addBuyingLiabilities
    <3> HIDE DEF new, k, h, limit
    <3> QED BY <1>4, <2>1, <2>5, <2>6, <3>1, Zenon
  <2>8. k = Rebalanced(h, h.balance, h.buying - x, h.selling - 0)
    <3>1. k = Rebalanced(h, h.balance, new, h.selling)
      BY <2>2, SetOne
    <3> HIDE DEF k, new, h
    <3>2. h.selling - 0 = h.selling
      BY <2>2
    <3> QED BY <2>4, <3>1, <3>2
  <2> HIDE DEF k, new, h
  <2>9. r.ok /\ r.L = SetHolding(L, a, asset, k)
    BY <2>7 DEF Result
  <2>10. x \in Nat /\ 0 \in Nat
    OBVIOUS
  <2>11. FreedAll(L, r.L, a, asset, x, 0)
    BY <1>2, <2>1, <2>8, <2>9, <2>10, FreedBySet DEF h
  <2> QED BY <1>4, <2>9, <2>11
<1> QED BY <1>3, <1>4

LEMMA ReleaseSelling ==
    ASSUME NEW L, IsLedger(L), NEW a, NEW asset, NEW x \in Nat \ {0},
           Releasable(L, a, asset, "selling", x), asset = Native => Avail(L, a) >= 0,
           NEW r, r = addSellingLiabilities(L, a, asset, -x)
    PROVE  r.ok /\ FreedAll(L, r.L, a, asset, 0, IF isIssuer(a, asset) THEN 0 ELSE x)
<1> DEFINE h == Holding(L, a, asset)
           limit == IF asset = Native THEN h.balance - getMinBalance(L, h.numSubEntries)
                    ELSE h.balance
           new == Added(h.selling, -x, limit)
           k == [h EXCEPT !.selling = new]
<1>1. Moved(L, r.L, 0)
  <2>1. -x \in Int
    OBVIOUS
  <2> QED BY <2>1, AddSellingLiabilities
<1>2. IsLedger(r.L) /\ r.L.baseReserve = L.baseReserve
  BY <1>1 DEF Moved, SameHeader
<1>3. CASE isIssuer(a, asset)
  <2>1. r.ok /\ r.L = L
    BY <1>3 DEF addSellingLiabilities, Result
  <2>2. \A c : Exists(L, a, c) => Freed(L, L, a, c, 0, 0)
    BY FreedNot
  <2> QED BY <1>3, <2>1, <2>2 DEF FreedAll
<1>4. CASE ~isIssuer(a, asset)
  <2>1. /\ Exists(L, a, asset) /\ x <= h.selling
        /\ asset # Native => h.authorized
    BY <1>4 DEF Releasable, LiabilityOf
  <2>2. /\ h.balance \in Nat /\ h.buying \in Nat /\ h.selling \in Nat
        /\ IsAccount(h) \/ IsLine(h)
        /\ h.selling <= h.balance
        /\ asset = Native => h.numSubEntries \in Nat /\ h = L.acc[a]
    BY <2>1, HoldingFields, Zenon
  <2>3. asset = Native => getMinBalance(L, h.numSubEntries) \in Nat
    BY <2>2, MinBalanceType
  <2>4. limit \in Int /\ h.selling <= limit
    <3>1. CASE asset = Native
      <4>1. Avail(L, a) = h.balance - getMinBalance(L, h.numSubEntries) - h.selling
        BY <2>2, <3>1, AvailIs
      <4>2. limit = h.balance - getMinBalance(L, h.numSubEntries)
        BY <3>1
      <4> HIDE DEF limit, h
      <4> QED BY <2>2, <2>3, <3>1, <4>1, <4>2
    <3>2. CASE asset # Native
      <4>1. limit = h.balance
        BY <3>2
      <4> HIDE DEF limit, h
      <4> QED BY <2>2, <4>1
    <3> QED BY <3>1, <3>2
  <2>5. new = h.selling - x
    <3> HIDE DEF h, limit
    <3> QED BY <2>1, <2>2, <2>4, AddedLess
  <2>6. new >= 0 /\ limit >= 0
    <3> HIDE DEF h, new, limit
    <3> QED BY <2>1, <2>2, <2>4, <2>5
  <2>7. -x # 0
    OBVIOUS
  <2>8. r = Result(TRUE, SetHolding(L, a, asset, k))
    <3>1. r = IF isIssuer(a, asset) \/ -x = 0 THEN Result(TRUE, L)
              ELSE IF limit >= 0 /\ new >= 0 /\ (asset # Native => h.authorized)
              THEN Result(TRUE, SetHolding(L, a, asset, k)) ELSE Result(FALSE, L)
      BY Zenon DEF addSellingLiabilities
    <3> HIDE DEF new, k, h, limit
    <3> QED BY <1>4, <2>1, <2>6, <2>7, <3>1, Zenon
  <2>9. k = Rebalanced(h, h.balance, h.buying - 0, h.selling - x)
    <3>1. k = Rebalanced(h, h.balance, h.buying, new)
      BY <2>2, SetOne
    <3> HIDE DEF k, new, h
    <3>2. h.buying - 0 = h.buying
      BY <2>2
    <3> QED BY <2>5, <3>1, <3>2
  <2> HIDE DEF k, new, h, limit
  <2>10. r.ok /\ r.L = SetHolding(L, a, asset, k)
    BY <2>8 DEF Result
  <2>11. x \in Nat /\ 0 \in Nat
    OBVIOUS
  <2>12. FreedAll(L, r.L, a, asset, 0, x)
    BY <1>2, <2>1, <2>9, <2>10, <2>11, FreedBySet DEF h
  <2> QED BY <1>4, <2>10, <2>12
<1> QED BY <1>3, <1>4

LEMMA FreedThen ==
    ASSUME NEW L, IsLedger(L), NEW B, NEW N, NEW a, NEW b, NEW c, NEW y \in Nat, NEW z \in Nat,
           FreedAll(L, B, a, b, y, 0), FreedAll(B, N, a, c, 0, z), NEW e, Exists(L, a, e)
    PROVE  Freed(L, N, a, e, IF e = b THEN y ELSE 0, IF e = c THEN z ELSE 0)
<1> DEFINE v == IF e = b THEN y ELSE 0
           w == IF e = c THEN z ELSE 0
           h == Holding(L, a, e)
           k == Holding(B, a, e)
           n == Holding(N, a, e)
<1>1. Freed(L, B, a, e, v, 0)
  BY DEF FreedAll
<1>2. Exists(B, a, e)
  BY <1>1 DEF Freed
<1>3. Freed(B, N, a, e, 0, w)
  BY <1>2 DEF FreedAll
<1>4. v \in Nat /\ w \in Nat
  OBVIOUS
<1>5. h.balance \in Nat /\ h.buying \in Nat /\ h.selling \in Nat
  BY HoldingFields
<1>6. /\ k.balance = h.balance /\ k.buying = h.buying - v /\ k.selling = h.selling - 0
      /\ e = Native => k.numSubEntries = h.numSubEntries
      /\ e # Native => k.authorized = h.authorized /\ k.limit = h.limit
  BY <1>1 DEF Freed
<1>7. /\ Exists(N, a, e)
      /\ n.balance = k.balance /\ n.buying = k.buying - 0 /\ n.selling = k.selling - w
      /\ e = Native => n.numSubEntries = k.numSubEntries
      /\ e # Native => n.authorized = k.authorized /\ n.limit = k.limit
  BY <1>3 DEF Freed
<1> HIDE DEF h, k, n, v, w
<1>8. n.balance = h.balance /\ n.buying = h.buying - v /\ n.selling = h.selling - w
  BY <1>4, <1>5, <1>6, <1>7
<1>9. Freed(L, N, a, e, v, w)
  BY <1>6, <1>7, <1>8 DEF Freed, h, n
<1> QED BY <1>9 DEF v, w

\* What its seller can sell once an offer of z is released, and can buy.
LEMMA FreedSells ==
    ASSUME NEW L, IsLedger(L), NEW N, IsLedger(N), N.baseReserve = L.baseReserve, NEW a, NEW asset,
           NEW y \in Nat, NEW z \in 0..INT64_MAX,
           Releasable(L, a, asset, "selling", z), asset = Native => Avail(L, a) >= 0,
           ~isIssuer(a, asset) => Freed(L, N, a, asset, y, z)
    PROVE  canSellAtMost(N, a, asset) >= z
<1> DEFINE v == getAvailableBalance(N, a, asset)
           h == Holding(L, a, asset)
           k == Holding(N, a, asset)
<1>1. INT64_MAX \in Nat
  BY Int64Assumption
<1>2. CASE isIssuer(a, asset)
  <2>1. v = INT64_MAX
    BY <1>2 DEF getAvailableBalance
  <2>2. canSellAtMost(N, a, asset) = Max({INT64_MAX, 0})
    BY <1>2, <2>1 DEF canSellAtMost, hasTrustLine, isAuthorized
  <2> QED BY <1>1, <2>2, MaxOfTwo
<1>3. CASE ~isIssuer(a, asset)
  <2>1. /\ Exists(L, a, asset) /\ z <= h.selling
        /\ asset # Native => h.authorized
    BY <1>3 DEF Releasable, LiabilityOf
  <2>2. /\ Exists(N, a, asset) /\ k.balance = h.balance /\ k.selling = h.selling - z
        /\ asset = Native => k.numSubEntries = h.numSubEntries
        /\ asset # Native => k.authorized
    BY <1>3, <2>1 DEF Freed
  <2>3. /\ h.balance \in Nat /\ h.selling \in Nat /\ h.selling <= h.balance
        /\ asset = Native => h.numSubEntries \in Nat /\ h = L.acc[a]
    BY <2>1, HoldingFields, Zenon
  <2>4. v \in Int /\ v >= z
    <3>1. CASE asset = Native
      <4> DEFINE m == getMinBalance(L, h.numSubEntries)
      <4>1. Avail(L, a) = h.balance - m - h.selling /\ Avail(L, a) >= 0
        BY <2>3, <3>1, AvailIs
      <4>2. m \in Nat
        BY <2>3, <3>1, MinBalanceType
      <4>3. getMinBalance(N, k.numSubEntries) = m
        BY <2>2, <3>1 DEF getMinBalance
      <4>4. v = k.balance - m - k.selling
        BY <1>3, <3>1, <4>3 DEF getAvailableBalance
      <4> HIDE DEF m, h, k, v
      <4> QED BY <2>2, <2>3, <4>1, <4>2, <4>4
    <3>2. CASE asset # Native
      <4>1. v = k.balance - k.selling
        BY <1>3, <3>2 DEF getAvailableBalance
      <4> HIDE DEF h, k, v
      <4> QED BY <2>2, <2>3, <4>1
    <3> QED BY <3>1, <3>2
  <2>5. asset # Native => hasTrustLine(N, a, asset) /\ isAuthorized(N, a, asset)
    BY <2>2 DEF Exists, hasTrustLine, isAuthorized, Holding
  <2>6. canSellAtMost(N, a, asset) = Max({v, 0})
    BY <2>5 DEF canSellAtMost
  <2> HIDE DEF v
  <2> QED BY <2>4, <2>6, MaxOfTwo
<1> QED BY <1>2, <1>3

LEMMA FreedBuys ==
    ASSUME NEW L, IsLedger(L), NEW N, IsLedger(N), NEW a, NEW asset,
           NEW y \in 0..INT64_MAX, NEW z \in Nat,
           Releasable(L, a, asset, "buying", y), ~isIssuer(a, asset) => Freed(L, N, a, asset, y, z)
    PROVE  canBuyAtMost(N, a, asset) >= y
<1> DEFINE v == getMaxAmountReceive(N, a, asset)
           h == Holding(L, a, asset)
           k == Holding(N, a, asset)
<1>1. INT64_MAX \in Nat
  BY Int64Assumption
<1>2. CASE isIssuer(a, asset)
  <2>1. v = INT64_MAX
    BY <1>2 DEF getMaxAmountReceive
  <2>2. canBuyAtMost(N, a, asset) = Max({INT64_MAX, 0})
    BY <1>2, <2>1 DEF canBuyAtMost, hasTrustLine, canHold
  <2> QED BY <1>1, <2>2, MaxOfTwo
<1>3. CASE ~isIssuer(a, asset)
  <2>1. /\ Exists(L, a, asset) /\ y <= h.buying
        /\ asset # Native => h.authorized
    BY <1>3 DEF Releasable, LiabilityOf
  <2>2. /\ Exists(N, a, asset) /\ k.balance = h.balance /\ k.buying = h.buying - y
        /\ asset # Native => k.authorized /\ k.limit = h.limit
    BY <1>3, <2>1 DEF Freed
  <2>3. /\ h.balance \in Nat /\ h.buying \in Nat
        /\ h.balance + h.buying <= IF asset = Native THEN INT64_MAX ELSE h.limit
        /\ asset # Native => h.limit \in Nat
    BY <2>1, HoldingFields, Zenon
  <2>4. v = IF asset = Native THEN INT64_MAX - (k.balance + k.buying)
            ELSE IF k.authorized THEN k.limit - k.balance - k.buying ELSE 0
    BY <1>3 DEF getMaxAmountReceive
  <2>5. canHold(N, a, asset)
    BY <2>2 DEF Exists, canHold, hasTrustLine
  <2>6. canBuyAtMost(N, a, asset) = Max({v, 0})
    BY <2>5 DEF canBuyAtMost
  <2> HIDE DEF v, h, k
  <2>7. v \in Int /\ v >= y
    BY <1>1, <2>1, <2>2, <2>3, <2>4
  <2> QED BY <2>6, <2>7, MaxOfTwo
<1> QED BY <1>2, <1>3

LEMMA ReleasableAfter ==
    ASSUME NEW L, IsLedger(L), NEW B, NEW a, NEW b, NEW y, FreedAll(L, B, a, b, y, 0),
           NEW c, NEW z, Releasable(L, a, c, "selling", z)
    PROVE  Releasable(B, a, c, "selling", z)
<1>1. CASE isIssuer(a, c)
  BY <1>1 DEF Releasable
<1>2. CASE ~isIssuer(a, c)
  <2> DEFINE h == Holding(L, a, c)
             k == Holding(B, a, c)
  <2>1. /\ Exists(L, a, c) /\ z <= h.selling
        /\ c # Native => h.authorized
    BY <1>2 DEF Releasable, LiabilityOf
  <2>2. Freed(L, B, a, c, IF c = b THEN y ELSE 0, 0)
    BY <2>1 DEF FreedAll
  <2>3. /\ Exists(B, a, c) /\ k.selling = h.selling - 0
        /\ c # Native => k.authorized = h.authorized
    BY <2>2 DEF Freed
  <2>4. h.selling \in Nat
    BY <2>1, HoldingFields
  <2>5. k.selling = h.selling
    <3> HIDE DEF h, k
    <3> QED BY <2>3, <2>4
  <2> QED BY <2>1, <2>3, <2>5 DEF Releasable, LiabilityOf
<1> QED BY <1>1, <1>2

\* A liability of the offer is released: its seller keeps what it may spend.
LEMMA AvailAfter ==
    ASSUME NEW L, IsLedger(L), NEW B, NEW a \in DOMAIN L.acc, NEW b, NEW y, FreedAll(L, B, a, b, y, 0)
    PROVE  Avail(B, a) = Avail(L, a)
<1>1. Exists(L, a, Native)
  BY DEF Exists
<1>2. Freed(L, B, a, Native, IF Native = b THEN y ELSE 0, 0)
  BY <1>1 DEF FreedAll
<1>3. Holding(L, a, Native) = L.acc[a] /\ Holding(B, a, Native) = B.acc[a]
  BY DEF Holding
<1>4. /\ B.acc[a].balance = L.acc[a].balance /\ B.acc[a].selling = L.acc[a].selling - 0
      /\ B.acc[a].numSubEntries = L.acc[a].numSubEntries
  BY <1>2, <1>3 DEF Freed
<1>5. L.acc[a].selling \in Nat
  BY <1>1, <1>3, HoldingFields
<1>6. B.acc[a].selling = L.acc[a].selling
  BY <1>4, <1>5
<1>7. B.baseReserve = L.baseReserve
  BY DEF FreedAll
<1>8. getMinBalance(B, B.acc[a].numSubEntries) = getMinBalance(L, L.acc[a].numSubEntries)
  BY <1>4, <1>7 DEF getMinBalance
<1> QED BY <1>4, <1>6, <1>8, AvailIs

LEMMA CanHoldIs ==
    ASSUME NEW L, NEW a, NEW asset, NEW side, NEW x, Releasable(L, a, asset, side, x)
    PROVE  canHold(L, a, asset)
BY DEF Releasable, canHold, hasTrustLine, Exists

\* N is L with the offer o of a, of y to buy and z to sell, released.
Released(L, N, a, o, y, z) ==
    /\ IsLedger(N) /\ Fine(N) /\ N.baseReserve = L.baseReserve /\ DOMAIN N.acc = DOMAIN L.acc
    /\ \A e : Exists(L, a, e) =>
          Freed(L, N, a, e, IF e = o.buying /\ ~isIssuer(a, o.buying) THEN y ELSE 0,
                IF e = o.selling /\ ~isIssuer(a, o.selling) THEN z ELSE 0)

\* The liabilities of an offer are released without an error.
LEMMA OfferIsFreed ==
    ASSUME NEW L, IsLedger(L), Fine(L), NEW o, NEW a, a = o.seller, a \in DOMAIN L.acc,
           NEW y \in Nat \ {0}, NEW z \in Nat \ {0}, NEW p, p = OfferLiabilities(o.price, o.amount),
           p \in Exchanged, p.numSheepSend = y, p.numWheatReceived = z,
           Releasable(L, a, o.buying, "buying", y), Releasable(L, a, o.selling, "selling", z),
           o.selling = Native => Avail(L, a) >= 0, NEW N, N = releaseLiabilities(L, o)
    PROVE  Released(L, N, a, o, y, z)
<1> DEFINE bought == addBuyingLiabilities(L, a, o.buying, -y)
           B == bought.L
           sold == addSellingLiabilities(B, a, o.selling, -z)
           v == IF isIssuer(a, o.buying) THEN 0 ELSE y
           w == IF isIssuer(a, o.selling) THEN 0 ELSE z
<1>1. bought.ok /\ FreedAll(L, B, a, o.buying, v, 0)
  BY ReleaseBuying
<1>2. Releasable(B, a, o.selling, "selling", z)
  <2> HIDE DEF B, v
  <2> QED BY <1>1, ReleasableAfter
<1>3. o.selling = Native => Avail(B, a) >= 0
  <2> HIDE DEF B, v
  <2> QED BY <1>1, AvailAfter
<1>4. IsLedger(B)
  BY <1>1 DEF FreedAll
<1>5. sold.ok /\ FreedAll(B, sold.L, a, o.selling, 0, w)
  <2> HIDE DEF B
  <2> QED BY <1>2, <1>3, <1>4, ReleaseSelling
<1>6. ~Named(p.err)
  <2>1. p.err \in {""}
    BY Zenon DEF Exchanged
  <2> QED BY <2>1, Zenon DEF Named
<1>7. canHold(L, a, o.buying) /\ canHold(L, a, o.selling)
  BY CanHoldIs
<1>8. (-1) * p.numSheepSend = -y /\ (-1) * p.numWheatReceived = -z
  OBVIOUS
<1>9. N = sold.L
  <2> DEFINE added == addBuyingLiabilities(L, o.seller, o.buying, (-1) * p.numSheepSend)
             taken == addSellingLiabilities(added.L, o.seller, o.selling, (-1) * p.numWheatReceived)
  <2>1. N = IF Named(p.err) THEN throw(L, p.err)
            ELSE IF ~(o.seller \in DOMAIN L.acc) THEN throw(L, "account does not exist")
            ELSE IF ~(canHold(L, o.seller, o.buying) /\ canHold(L, o.seller, o.selling))
            THEN throw(L, "trustline does not exist")
            ELSE IF ~added.ok THEN throw(L, "could not add buying liabilities")
            ELSE IF ~taken.ok THEN throw(L, "could not add selling liabilities")
            ELSE taken.L
    BY Zenon DEF releaseLiabilities, acquireOrReleaseLiabilities, exists, Named
  <2>2. added = bought
    BY <1>8, Zenon
  <2>3. taken = sold
    BY <1>8, <2>2, Zenon
  <2> HIDE DEF added, taken
  <2> HIDE DEF bought, B, sold
  <2> QED BY <1>1, <1>5, <1>6, <1>7, <2>1, <2>2, <2>3, Zenon
<1>10. v \in Nat /\ w \in Nat
  OBVIOUS
<1> HIDE DEF bought, B, sold, v, w
<1>11. FreedAll(B, N, a, o.selling, 0, w)
  BY <1>5, <1>9
<1>12. IsLedger(N) /\ N.baseReserve = L.baseReserve /\ (Fine(N) <=> Fine(L)) /\ DOMAIN N.acc = DOMAIN L.acc
  BY <1>1, <1>11 DEF FreedAll
<1>13. ASSUME NEW e, Exists(L, a, e)
       PROVE  Freed(L, N, a, e, IF e = o.buying /\ ~isIssuer(a, o.buying) THEN y ELSE 0,
                       IF e = o.selling /\ ~isIssuer(a, o.selling) THEN z ELSE 0)
  <2>1. Freed(L, N, a, e, IF e = o.buying THEN v ELSE 0, IF e = o.selling THEN w ELSE 0)
    BY <1>1, <1>10, <1>11, <1>13, FreedThen
  <2>2. /\ (IF e = o.buying THEN v ELSE 0) = IF e = o.buying /\ ~isIssuer(a, o.buying) THEN y ELSE 0
        /\ (IF e = o.selling THEN w ELSE 0) = IF e = o.selling /\ ~isIssuer(a, o.selling) THEN z ELSE 0
    BY DEF v, w
  <2> QED BY <2>1, <2>2
<1> QED BY <1>12, <1>13 DEF Released

\* Each offer on the book of such a ledger can be honoured.
LEMMA HonourableNow ==
    ASSUME NEW L, IsLedger(L), Fine(L), Counted(L), NEW r, HoldsFor(L, r), Honoured(L),
           NEW i \in DOMAIN L.offers, NEW o, o = L.offers[i]
    PROVE  Honourable(L, o)
<1> DEFINE a == o.seller
           p == OfferLiabilities(o.price, o.amount)
           q == p.numSheepSend
           N == releaseLiabilities(L, o)
           most == canSellAtMost(N, o.seller, o.selling)
           room == canBuyAtMost(N, o.seller, o.buying)
           adjusted == AdjustedAmount(N, o)
<1>1. IsOffer(o) /\ o.amount \in Nat /\ o.price \in Price
  BY DEF IsLedger, AreOffers, IsOffer
<1>2. WellAdjusted(o.price, o.amount)
  BY Zenon DEF Honoured, AllWell, Well
<1>3. /\ p \in Exchanged /\ p.numWheatReceived = o.amount
      /\ o.amount \in 1..INT64_MAX /\ q \in 1..INT64_MAX
  BY <1>1, <1>2, WellAdjustedIs, Zenon
<1>4. INT64_MAX \in Nat
  BY Int64Assumption
<1>5. o.amount \in Nat \ {0} /\ q \in Nat \ {0} /\ o.amount \in 0..INT64_MAX /\ q \in 0..INT64_MAX
  <2> HIDE DEF q
  <2> QED BY <1>3, <1>4
<1>6. a \in DOMAIN L.acc
  BY Zenon DEF Counted, Owners
<1>7. Releasable(L, a, o.buying, "buying", q)
  <2>1. isIssuer(a, o.buying) \/ Share(o, a, o.buying, "buying") = q
    BY DEF Share
  <2>2. "buying" \in Sides
    BY DEF Sides
  <2> HIDE DEF q
  <2> QED BY <1>5, <2>1, <2>2, OfferIsSecured
<1>8. Releasable(L, a, o.selling, "selling", o.amount)
  <2>1. isIssuer(a, o.selling) \/ Share(o, a, o.selling, "selling") = o.amount
    BY <1>3 DEF Share
  <2>2. "selling" \in Sides
    BY DEF Sides
  <2> QED BY <1>5, <2>1, <2>2, OfferIsSecured
<1>9. o.selling = Native => Avail(L, a) >= 0
  BY <1>6 DEF Honoured, Solvent, SellsLumens
<1> HIDE DEF a, p, N
<1>10. /\ IsLedger(N) /\ Fine(N) /\ N.baseReserve = L.baseReserve /\ DOMAIN N.acc = DOMAIN L.acc
       /\ \A e : Exists(L, a, e) =>
             Freed(L, N, a, e, IF e = o.buying /\ ~isIssuer(a, o.buying) THEN q ELSE 0,
                   IF e = o.selling /\ ~isIssuer(a, o.selling) THEN o.amount ELSE 0)
  <2>1. /\ a = o.seller /\ p = OfferLiabilities(o.price, o.amount) /\ p.numSheepSend = q
        /\ N = releaseLiabilities(L, o)
    BY DEF a, p, N
  <2> HIDE DEF q
  <2>2. p \in Exchanged /\ p.numWheatReceived = o.amount
    BY <1>3
  <2>3. o.amount \in Nat \ {0} /\ q \in Nat \ {0}
    BY <1>5
  <2>4. Released(L, N, a, o, q, o.amount)
    BY <1>6, <1>7, <1>8, <1>9, <2>1, <2>2, <2>3, OfferIsFreed, Zenon
  <2> QED BY <2>4, Zenon DEF Released
<1> HIDE DEF q
<1>11. most >= o.amount
  <2> DEFINE y == IF o.selling = o.buying /\ ~isIssuer(a, o.buying) THEN q ELSE 0
  <2>1. y \in Nat
    BY <1>5
  <2>2. ~isIssuer(a, o.selling) => Freed(L, N, a, o.selling, y, o.amount)
    BY <1>8, <1>10 DEF Releasable
  <2> HIDE DEF y
  <2>3. canSellAtMost(N, a, o.selling) >= o.amount
    BY <1>5, <1>8, <1>9, <1>10, <2>1, <2>2, FreedSells
  <2> QED BY <2>3 DEF a
<1>12. room >= q
  <2> DEFINE z == IF o.buying = o.selling /\ ~isIssuer(a, o.selling) THEN o.amount ELSE 0
  <2>1. z \in Nat
    BY <1>5
  <2>2. ~isIssuer(a, o.buying) => Freed(L, N, a, o.buying, q, z)
    BY <1>7, <1>10 DEF Releasable
  <2> HIDE DEF z
  <2>3. canBuyAtMost(N, a, o.buying) >= q
    BY <1>5, <1>7, <1>10, <2>1, <2>2, FreedBuys
  <2> QED BY <2>3 DEF a
<1>13. most \in 0..INT64_MAX /\ room \in 0..INT64_MAX
  <2>1. o.seller \in DOMAIN N.acc
    BY <1>6, <1>10 DEF a
  <2> QED BY <1>10, <2>1, CanSellBound, CanBuyBound
<1>14. adjusted = adjustOffer(o.price, Min({o.amount, most}), room)
  BY DEF AdjustedAmount
<1> HIDE DEF most, room, adjusted
<1>15. Min({o.amount, most}) = o.amount
  <2>1. o.amount \in Int /\ most \in Int /\ o.amount <= most
    BY <1>4, <1>5, <1>11, <1>13
  <2> QED BY <2>1, MinOfTwo
<1>16. adjusted.numWheatReceived = o.amount \/ (o.price.n > o.price.d /\ room = q)
  <2>1. CASE o.price.n > o.price.d /\ room = q
    BY <2>1
  <2>2. CASE ~(o.price.n > o.price.d) \/ room # q
    <3>1. q <= room
      BY <1>4, <1>5, <1>12, <1>13
    <3>2. adjustOffer(o.price, o.amount, room) = p
      BY <1>1, <1>2, <1>13, <2>2, <3>1, AdjustHasNoEffect, Zenon DEF p, q
    <3>3. adjusted = p
      BY <1>14, <1>15, <3>2, Zenon
    <3> QED BY <1>3, <3>3
  <2> QED BY <2>1, <2>2
<1>17. Honourable(L, o)
  <2>1. N.err = ""
    BY <1>10, Zenon DEF Fine
  <2> HIDE DEF N
  <2> QED BY <1>11, <1>12, <1>16, <2>1, Zenon DEF Honourable, most, room, adjusted, N, p, q
<1> QED BY <1>17

\* Every offer on the book can be honoured in full, whatever the accounts, operations
\* and parameters: releaseLiabilities does not throw on it, its seller then has the
\* amount it sells and room for what it is promised, and adjustOffer does not change
\* it, but for the one case in which AdjustMayHaveAnEffect shows that it does.
\* crossOfferV10 takes this for granted ("this call to adjustOffer should have no
\* effect"). The offers are adjusted when they are made and whenever they are taken in
\* part; that sellers of lumens stay above their reserve and lines stay authorized
\* while something is promised on them is what keeps them so.
THEOREM OffersAreHonoured == Spec => []OffersCanBeHonoured
<1>1. IInv /\ BInv /\ HInv => OffersCanBeHonoured
  <2> SUFFICES ASSUME IInv, BInv, HInv, NEW i \in DOMAIN ledger.offers
               PROVE  Honourable(ledger, ledger.offers[i])
    BY Zenon DEF OffersCanBeHonoured
  <2>1. IsLedger(ledger) /\ Fine(ledger) /\ Counted(ledger)
    BY DEF IInv, Sound
  <2>2. HoldsFor(ledger, raised) /\ Honoured(ledger)
    BY DEF BInv, HInv
  <2> QED BY <2>1, <2>2, HonourableNow, Zenon
<1> QED BY <1>1, InitBInv, NextBInv, InitHInv, NextHInv, Inductive, PTL DEF Spec
=============================================================================
