------------------------------ MODULE MCHerder ------------------------------
(***************************************************************************)
(* Instances of Herder: two other nodes, peers with and without the items. *)
(***************************************************************************)
EXTENDS Herder

CONSTANTS p1, p2, t2, t3, qa, qb, qc, n1, n2

TxOf == [s \in 2..3 |-> IF s = 2 THEN t2 ELSE t3]

Env(s, n, q) == [slot |-> s, node |-> n, txs |-> {TxOf[s]}, q |-> q]

OneNode == {{n1}}
NetHas == p1 :> Item @@ p2 :> {qa}
NetProposals == [s \in Slot |-> IF s = 1 THEN {} ELSE {TxOf[s]}]

\* The node follows n1, which changes its quorum set; or n2 names a transaction set
\* that n1 names too, and a quorum set that is refused.
NetTraffics == {{Env(2, n1, qa), Env(3, n1, qb)}, {Env(2, n1, qa), Env(2, n2, qc)}}
=============================================================================
