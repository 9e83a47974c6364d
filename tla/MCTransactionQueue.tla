------------------------- MODULE MCTransactionQueue -------------------------
(***************************************************************************)
(* Two accounts: one whose transactions follow each other, replace each    *)
(* other and cost more than it has, and one that competes with it.         *)
(***************************************************************************)
EXTENDS TransactionQueue

T(src, seq, fee, pays, maxTime) ==
    [src |-> src, seq |-> seq, fee |-> fee, pays |-> pays, maxTime |-> maxTime]

MCTx == {T("a", 1, 1, 0, 2), T("a", 1, 2, 1, 2), T("a", 2, 3, 0, 1), T("b", 1, 2, 0, 2)}
MCOrder == [a |-> 1, b |-> 2]
MCBalance == [a |-> 5, b |-> 2]
MCHeader == [version |-> 1, baseFee |-> 1, maxTxSetSize |-> 2]
MCSchedules == {[NoUpgrades EXCEPT !["maxTxSetSize"] = 1, !["version"] = 2]}
MCOther == {NoUpgrades, [NoUpgrades EXCEPT !["baseFee"] = 2], [NoUpgrades EXCEPT !["version"] = 2]}
=============================================================================
