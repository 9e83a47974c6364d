--------------------------- MODULE MCTransactions ---------------------------
(***************************************************************************)
(* An issuer i, two traders a and b with a line each, and an account c     *)
(* that comes and goes. One menu trades, one opens, changes and closes     *)
(* accounts, one fills all the room that the issuer has for lumens.        *)
(***************************************************************************)
EXTENDS Transactions

MCIssuer == [USD |-> "i"]

P(n, d) == [n |-> n, d |-> d]

Acc(balance, sub, flags) ==
    [balance |-> balance, seqNum |-> 0, numSubEntries |-> sub, buying |-> 0, selling |-> 0,
     signers |-> {}, flags |-> flags, inflationDest |-> "none"]

Line(balance, limit) ==
    [balance |-> balance, limit |-> limit, buying |-> 0, selling |-> 0, authorized |-> TRUE]

MCGenesis ==
    [acc |-> "a" :> Acc(10, 1, {}) @@ "b" :> Acc(9, 1, {}) @@ "i" :> Acc(6, 0, {"required", "revocable"}),
     tl |-> <<"a", "USD">> :> Line(4, 6) @@ <<"b", "USD">> :> Line(4, 8),
     offers |-> <<>>, data |-> {}, err |-> "",
     ledgerSeq |-> 1, idPool |-> 0, feePool |-> 0, totalCoins |-> 25, inflationSeq |-> 0,
     baseReserve |-> 1]

Tx(src, ops) == [src |-> src, ops |-> ops]
One(op) == Tx(op.src, <<op>>)

Offer(src, id, selling, buying, amount, price, passive) ==
    [type |-> "manageOffer", src |-> src, offerID |-> id, selling |-> selling, buying |-> buying,
     amount |-> amount, price |-> price, passive |-> passive]
Pay(src, dest, asset, amount) ==
    [type |-> "payment", src |-> src, dest |-> dest, asset |-> asset, amount |-> amount]
Path(src, dest, sendAsset, sendMax, path, destAsset, destAmount) ==
    [type |-> "pathPayment", src |-> src, dest |-> dest, sendAsset |-> sendAsset,
     sendMax |-> sendMax, path |-> path, destAsset |-> destAsset, destAmount |-> destAmount]
Trust(src, limit) == [type |-> "changeTrust", src |-> src, asset |-> "USD", limit |-> limit]
Allow(trustor, authorize) ==
    [type |-> "allowTrust", src |-> "i", trustor |-> trustor, asset |-> "USD", authorize |-> authorize]
Create(src, dest, amount) ==
    [type |-> "createAccount", src |-> src, dest |-> dest, amount |-> amount]
MergeInto(src, dest) == [type |-> "accountMerge", src |-> src, dest |-> dest]
Bump(src, to) == [type |-> "bumpSequence", src |-> src, bumpTo |-> to]
Data(src, set) == [type |-> "manageData", src |-> src, name |-> "d", set |-> set]
Options(src, dest, clear, set, signer, weight) ==
    [type |-> "setOptions", src |-> src, inflationDest |-> dest, clearFlags |-> clear,
     setFlags |-> set, signer |-> signer, weight |-> weight]

Trades ==
    {One(Offer("a", 0, "XLM", "USD", 4, p, FALSE)) : p \in {P(1, 2), P(1, 1), P(2, 3)}}
    \cup {One(Offer("b", 0, "USD", "XLM", 3, p, FALSE)) : p \in {P(1, 1), P(3, 2)}}
    \cup {One(Offer("a", 0, "USD", "XLM", 2, P(2, 1), TRUE)),
          One(Offer("i", 0, "USD", "XLM", 4, P(1, 1), FALSE)),
          One(Offer("a", 1, "XLM", "USD", 2, P(1, 1), FALSE)),
          One(Offer("a", 1, "XLM", "USD", 0, P(1, 1), FALSE)),
          One(Pay("a", "b", "USD", 3)), One(Pay("i", "a", "USD", 2)),
          One(Path("b", "a", "XLM", 6, <<>>, "USD", 2)),
          One(Path("b", "b", "USD", 4, <<"XLM">>, "USD", 3)),
          One(Trust("a", 4)), One(Trust("a", 0)), One(Allow("a", FALSE)), One(Allow("a", TRUE)),
          Tx("b", <<Offer("b", 0, "USD", "XLM", 2, P(1, 2), FALSE), Pay("b", "a", "USD", 4)>>)}

Lives ==
    {One(Create("a", "c", 3)), One(MergeInto("c", "b")), One(MergeInto("b", "a")),
     One(Bump("c", 9)), One(Bump("b", 3)), One(Data("a", TRUE)), One(Data("a", FALSE)),
     One(Options("b", "a", {}, {}, "k", 1)), One(Options("b", "c", {}, {}, "k", 0)),
     One(Options("i", "none", {"revocable"}, {"immutable"}, "none", 0)),
     One([type |-> "inflation", src |-> "a"]), One(Pay("a", "b", "XLM", 24)),
     One(Pay("b", "i", "USD", 4)), One(Trust("b", 0)), One(Trust("c", 2)),
     One([type |-> "markAccount", src |-> "a", refused |-> TRUE]),
     One([type |-> "markAccount", src |-> "a", refused |-> FALSE]),
     Tx("b", <<Create("b", "c", 2), MergeInto("c", "b"), Create("b", "c", 2)>>),
     Tx("a", <<Bump("c", 5), MergeInto("c", "a")>>), Tx("a", <<MergeInto("c", "a"), Create("a", "c", 2)>>)}

(* The first offer promises 11 lumens, the second takes all other room of i. *)
Rooms ==
    {One(Offer("i", 0, "USD", "XLM", 10, P(10, 9), FALSE)),
     One(Offer("i", 0, "USD", "XLM", 1, P(13, 1), FALSE)),
     One(Offer("a", 0, "XLM", "USD", 3, P(1, 2), FALSE)),
     One(Path("b", "a", "XLM", 6, <<>>, "USD", 1)),
     One(Pay("a", "i", "XLM", 1)), One(Allow("a", FALSE))}

MCMenus == [trades |-> Trades, lives |-> Lives, rooms |-> Rooms]
=============================================================================
