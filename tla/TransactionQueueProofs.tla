----------------------- MODULE TransactionQueueProofs -----------------------
(***************************************************************************)
(* The totals that the herder keeps of the waiting transactions are exact, *)
(* for every set of accounts and transactions, however many wait.          *)
(***************************************************************************)
EXTENDS TransactionQueue, NumberFacts

-----------------------------------------------------------------------------
(* The totals of a set of transactions. *)

\* m is the highest sequence number of the transactions, 0 if there are none.
IsMaxSeq(m, txs) ==
    /\ m \in {0} \cup {t.seq : t \in txs}
    /\ \A t \in txs : m >= t.seq

LEMMA MaxSeqIsMax ==
    ASSUME NEW txs \in SUBSET Tx, NEW m, IsMaxSeq(m, txs)
    PROVE  m \in Nat /\ m = Max({0} \cup {t.seq : t \in txs})
<1> DEFINE S == {0} \cup {t.seq : t \in txs}
<1>1. S \in SUBSET Int /\ S \in SUBSET Nat
  BY QueueAssumption
<1>2. m \in S /\ m \in Nat
  BY <1>1 DEF IsMaxSeq
<1>3. \A x \in S : m >= x
  BY <1>1, <1>2 DEF IsMaxSeq
<1> HIDE DEF S
<1>4. Max(S) = m
  BY <1>1, <1>2, <1>3, MaxOf
<1> QED BY <1>2, <1>4 DEF S

LEMMA MaxSeqExists ==
    ASSUME NEW txs \in SUBSET Tx, IsFiniteSet(txs)
    PROVE  IsMaxSeq(Max({0} \cup {t.seq : t \in txs}), txs)
<1> DEFINE H == {s \in SUBSET txs : \E m : IsMaxSeq(m, s)}
<1>1. ASSUME NEW s \in SUBSET txs, \A t \in SUBSET s : t # s => t \in H PROVE s \in H
  <2>1. CASE s = {}
    <3>1. IsMaxSeq(0, s)
      BY <2>1 DEF IsMaxSeq
    <3> QED BY <3>1
  <2>2. CASE s # {}
    <3>1. PICK u \in s : TRUE
      BY <2>2
    <3> DEFINE r == s \ {u}
    <3>2. PICK m : IsMaxSeq(m, r)
      BY <1>1, <3>1
    <3>3. m \in Nat
      BY <3>2, MaxSeqIsMax
    <3>4. u.seq \in Nat /\ \A t \in r : t.seq \in Nat
      BY QueueAssumption
    <3>5. CASE m >= u.seq
      <4>1. IsMaxSeq(m, s)
        BY <3>2, <3>5 DEF IsMaxSeq
      <4> QED BY <4>1
    <3>6. CASE ~ (m >= u.seq)
      <4>1. IsMaxSeq(u.seq, s)
        BY <3>1, <3>2, <3>3, <3>4, <3>6 DEF IsMaxSeq
      <4> QED BY <4>1
    <3> QED BY <3>5, <3>6
  <2> QED BY <2>1, <2>2
<1>2. SUBSET txs \subseteq H
  <2> HIDE DEF H
  <2> QED BY <1>1, SubsetInduction
<1>3. PICK m : IsMaxSeq(m, txs)
  BY <1>2
<1> QED BY <1>3, MaxSeqIsMax

\* The fees of no transactions, and of one more.
LEMMA FeesOfEmpty == FeesOf({}) = 0
BY SumEmpty DEF FeesOf, SumFunction

LEMMA FeesOfType ==
    ASSUME NEW txs \in SUBSET Tx, IsFiniteSet(txs)
    PROVE  FeesOf(txs) \in Nat
<1> DEFINE f == [t \in txs |-> t.fee]
<1>1. \A t \in txs : f[t] \in Int /\ f[t] >= 0
  BY QueueAssumption
<1>2. SumFunctionOnSet(f, txs) \in Int /\ SumFunctionOnSet(f, txs) >= 0
  <2> HIDE DEF f
  <2> QED BY <1>1, SumType
<1> QED BY <1>2 DEF FeesOf, SumFunction

LEMMA FeesOfAdd ==
    ASSUME NEW txs \in SUBSET Tx, IsFiniteSet(txs), NEW t \in Tx, t \notin txs
    PROVE  FeesOf(txs \cup {t}) = FeesOf(txs) + t.fee
<1> DEFINE f == [u \in txs |-> u.fee]
           g == [u \in txs \cup {t} |-> u.fee]
<1>1. \A u \in txs \cup {t} : g[u] \in Int
  BY QueueAssumption
<1>2. \A u \in txs : f[u] = g[u]
  OBVIOUS
<1>3. g[t] = t.fee /\ DOMAIN f = txs /\ DOMAIN g = txs \cup {t}
  OBVIOUS
<1> HIDE DEF f, g
<1>4. SumFunctionOnSet(g, txs \cup {t}) = g[t] + SumFunctionOnSet(g, txs)
  BY <1>1, SumAdd
<1>5. SumFunctionOnSet(g, txs) = SumFunctionOnSet(f, txs)
  BY <1>2, SumCong
<1>6. FeesOf(txs) = SumFunctionOnSet(f, txs)
  BY <1>3 DEF FeesOf, SumFunction, f
<1>7. FeesOf(txs \cup {t}) = SumFunctionOnSet(g, txs \cup {t})
  BY <1>3 DEF FeesOf, SumFunction, g
<1>8. FeesOf(txs) \in Nat /\ t.fee \in Nat
  BY FeesOfType, QueueAssumption
<1> QED BY <1>3, <1>4, <1>5, <1>6, <1>7, <1>8

\* A TxMap whose totals are those of its transactions keeps that.
IsExact(m) == m.txs \in SUBSET Tx /\ IsFiniteSet(m.txs) /\ m = recalculate(m.txs)

LEMMA RecalculateIsExact ==
    ASSUME NEW txs \in SUBSET Tx, IsFiniteSet(txs)
    PROVE  IsExact(recalculate(txs)) /\ recalculate(txs).txs = txs
BY DEF IsExact, recalculate

LEMMA NoTxMapIsExact == IsExact(NoTxMap) /\ NoTxMap.txs = {}
<1>1. IsMaxSeq(0, {})
  BY DEF IsMaxSeq
<1>2. 0 = Max({0} \cup {t.seq : t \in {}})
  BY <1>1, MaxSeqIsMax
<1>3. recalculate({}) = NoTxMap
  BY <1>2, FeesOfEmpty DEF recalculate, NoTxMap
<1> QED BY <1>3, RecalculateIsExact, FS_EmptySet DEF NoTxMap

LEMMA AddTxIsExact ==
    ASSUME NEW m, IsExact(m), NEW t \in Tx
    PROVE  IsExact(addTx(m, t)) /\ addTx(m, t).txs = m.txs \cup {t}
<1>1. CASE t \in m.txs
  BY <1>1 DEF addTx
<1>2. CASE t \notin m.txs
  <2> DEFINE txs == m.txs \cup {t}
             high == Max({t.seq, m.maxSeq})
  <2>1. txs \in SUBSET Tx /\ IsFiniteSet(txs)
    BY FS_AddElement DEF IsExact
  <2>2. m.totalFees = FeesOf(m.txs) /\ m.maxSeq = Max({0} \cup {u.seq : u \in m.txs})
    BY DEF IsExact, recalculate
  <2>3. FeesOf(txs) = m.totalFees + t.fee
    BY <1>2, <2>2, FeesOfAdd DEF IsExact
  <2>4. IsMaxSeq(m.maxSeq, m.txs) /\ m.maxSeq \in Nat /\ t.seq \in Nat
    BY <2>2, MaxSeqExists, MaxSeqIsMax, QueueAssumption DEF IsExact
  <2>5. high = IF t.seq >= m.maxSeq THEN t.seq ELSE m.maxSeq
    BY <2>4, MaxOfTwo
  <2>6. \A u \in m.txs : u.seq \in Nat
    BY QueueAssumption DEF IsExact
  <2>7. IsMaxSeq(high, txs)
    <3> HIDE DEF high
    <3>1. high \in {0} \cup {u.seq : u \in txs}
      BY <2>4, <2>5 DEF IsMaxSeq
    <3>2. \A u \in txs : high >= u.seq
      BY <2>4, <2>5, <2>6 DEF IsMaxSeq
    <3> QED BY <3>1, <3>2 DEF IsMaxSeq
  <2>8. high = Max({0} \cup {u.seq : u \in txs})
    BY <2>1, <2>7, MaxSeqIsMax
  <2>9. addTx(m, t) = recalculate(txs)
    BY <1>2, <2>3, <2>8 DEF addTx, recalculate
  <2> QED BY <2>1, <2>9, RecalculateIsExact
<1> QED BY <1>1, <1>2

-----------------------------------------------------------------------------
(* The inductive invariant: the queue is a table of generations and accounts, *)
(* each TxMap is exact, and no transaction of an account is in two of them.   *)

Exact(pending) ==
    /\ pending = [i \in Generations |-> [a \in Account |-> pending[i][a]]]
    /\ \A i \in Generations, a \in Account : IsExact(pending[i][a])

Apart(pending) ==
    \A a \in Account : \A i, j \in Generations :
        i # j => pending[i][a].txs \cap pending[j][a].txs = {}

QueueInv == Exact(mPendingTransactions) /\ Apart(mPendingTransactions)

LEMMA InvGivesTotals == QueueInv => QueueTotalsAreExact
BY DEF QueueInv, Exact, Apart, IsExact, QueueTotalsAreExact

Empty == [i \in Generations |-> [a \in Account |-> NoTxMap]]

LEMMA EmptyIsExact == Exact(Empty) /\ Apart(Empty)
BY NoTxMapIsExact DEF Exact, Apart, Empty

LEMMA RemoveKeepsExact ==
    ASSUME NEW pending, Exact(pending), Apart(pending), NEW drop
    PROVE  LET left == removeReceivedTxs(pending, drop)
           IN  Exact(left) /\ Apart(left)
<1> DEFINE left == removeReceivedTxs(pending, drop)
<1>1. ASSUME NEW i \in Generations, NEW a \in Account
      PROVE  IsExact(left[i][a]) /\ left[i][a].txs \subseteq pending[i][a].txs
  <2> DEFINE m == pending[i][a]
  <2>1. IsExact(m)
    BY DEF Exact
  <2>2. left[i][a] = IF m.txs \cap drop = {} THEN m
                     ELSE IF m.txs \subseteq drop THEN NoTxMap ELSE recalculate(m.txs \ drop)
    BY DEF removeReceivedTxs
  <2> HIDE DEF left, m
  <2>3. m.txs \ drop \in SUBSET Tx /\ IsFiniteSet(m.txs \ drop)
    BY <2>1, FS_Subset DEF IsExact
  <2>4. IsExact(recalculate(m.txs \ drop)) /\ recalculate(m.txs \ drop).txs = m.txs \ drop
    BY <2>3, RecalculateIsExact
  <2>5. IsExact(left[i][a]) /\ left[i][a].txs \subseteq m.txs
    BY <2>1, <2>2, <2>4, NoTxMapIsExact
  <2> QED BY <2>5 DEF m
<1>2. left = [i \in Generations |-> [a \in Account |-> left[i][a]]]
  BY DEF removeReceivedTxs
<1> HIDE DEF left
<1>3. Exact(left)
  BY <1>1, <1>2 DEF Exact
<1>4. Apart(left)
  BY <1>1 DEF Apart
<1> QED BY <1>3, <1>4 DEF left

LEMMA UpdateKeepsExact ==
    ASSUME NEW pending, Exact(pending), Apart(pending), NEW applied
    PROVE  LET new == updatePendingTransactions(pending, applied)
           IN  Exact(new) /\ Apart(new)
<1> DEFINE left == removeReceivedTxs(pending, applied)
           new == updatePendingTransactions(pending, applied)
<1>1. Exact(left) /\ Apart(left)
  BY RemoveKeepsExact
<1>2. new = [i \in Generations |-> IF i = 1 THEN [a \in Account |-> NoTxMap] ELSE left[i - 1]]
  BY DEF updatePendingTransactions
<1> HIDE DEF left, new
<1>3. \A i \in Generations : i # 1 => i - 1 \in Generations
  BY DEF Generations
<1>4. \A i \in Generations, a \in Account :
          new[i][a] = IF i = 1 THEN NoTxMap ELSE left[i - 1][a]
  BY <1>2
<1>5. \A i \in Generations, a \in Account : IsExact(new[i][a])
  BY <1>1, <1>3, <1>4, NoTxMapIsExact DEF Exact
<1>6. new = [i \in Generations |-> [a \in Account |-> new[i][a]]]
  <2>1. \A i \in Generations : new[i] = [a \in Account |-> new[i][a]]
    <3> TAKE i \in Generations
    <3>1. CASE i = 1
      BY <3>1, <1>2
    <3>2. CASE i # 1
      BY <3>2, <1>1, <1>2, <1>3 DEF Exact
    <3> QED BY <3>1, <3>2
  <2> QED BY <1>2, <2>1
<1>7. Apart(new)
  <2> SUFFICES ASSUME NEW a \in Account, NEW i \in Generations, NEW j \in Generations, i # j
               PROVE  new[i][a].txs \cap new[j][a].txs = {}
    BY DEF Apart
  <2>1. CASE i = 1 \/ j = 1
    BY <2>1, <1>4, NoTxMapIsExact
  <2>2. CASE i # 1 /\ j # 1
    <3>1. i - 1 \in Generations /\ j - 1 \in Generations /\ i - 1 # j - 1
      BY <2>2 DEF Generations
    <3> QED BY <2>2, <3>1, <1>1, <1>4 DEF Apart
  <2> QED BY <2>1, <2>2
<1> QED BY <1>5, <1>6, <1>7 DEF Exact, new

LEMMA QueueInvInit == Init => QueueInv
BY EmptyIsExact DEF Init, QueueInv, Empty

LEMMA RecvKeepsQueueInv ==
    ASSUME QueueInv, NEW t \in Tx, recvTransaction(t)
    PROVE  QueueInv'
<1> DEFINE old == mPendingTransactions
           a == t.src
           m == addTx(old[1][a], t)
           new == mPendingTransactions'
<1>1. a \in Account /\ 1 \in Generations
  BY QueueAssumption DEF Generations
<1>2. Exact(old) /\ Apart(old) /\ \A i \in Generations : t \notin old[i][a].txs
  BY DEF QueueInv, recvTransaction
<1>3. new = [old EXCEPT ![1][a] = m]
  BY DEF recvTransaction
<1>4. IsExact(m) /\ m.txs = old[1][a].txs \cup {t}
  BY <1>1, <1>2, AddTxIsExact DEF Exact
<1> HIDE DEF old, new, m, a
<1>5. \A i \in Generations, b \in Account :
          new[i][b] = IF i = 1 /\ b = a THEN m ELSE old[i][b]
  BY <1>1, <1>2, <1>3 DEF Exact
<1>6. new = [i \in Generations |-> [b \in Account |-> new[i][b]]]
  BY <1>1, <1>2, <1>3 DEF Exact
<1>7. Exact(new)
  BY <1>2, <1>4, <1>5, <1>6 DEF Exact
<1>8. Apart(new)
  <2> SUFFICES ASSUME NEW b \in Account, NEW i \in Generations, NEW j \in Generations, i # j
               PROVE  new[i][b].txs \cap new[j][b].txs = {}
    BY DEF Apart
  <2>1. old[i][b].txs \cap old[j][b].txs = {}
    BY <1>2 DEF Apart
  <2>2. CASE b # a
    BY <2>1, <2>2, <1>5
  <2>3. CASE b = a
    BY <2>1, <2>3, <1>2, <1>4, <1>5
  <2> QED BY <2>2, <2>3
<1> QED BY <1>7, <1>8 DEF QueueInv, new

LEMMA QueueInvStep == QueueInv /\ [Next]_vars => QueueInv'
<1> SUFFICES ASSUME QueueInv, [Next]_vars PROVE QueueInv'
  OBVIOUS
<1>1. Exact(mPendingTransactions) /\ Apart(mPendingTransactions)
  BY DEF QueueInv
<1>2. ASSUME NEW t \in Tx, recvTransaction(t) PROVE QueueInv'
  BY <1>2, RecvKeepsQueueInv
<1>3. CASE triggerNextLedger
  <2>1. \E drop : mPendingTransactions' = removeReceivedTxs(mPendingTransactions, drop)
    BY <1>3 DEF triggerNextLedger
  <2> QED BY <1>1, <2>1, RemoveKeepsExact DEF QueueInv
<1>4. ASSUME NEW to, NEW time, setUpgrades(to, time) PROVE QueueInv'
  BY <1>1, <1>4 DEF setUpgrades, QueueInv
<1>5. ASSUME NEW cands, NEW best, Externalize(cands, best) PROVE QueueInv'
  <2>1. \/ mPendingTransactions' = mPendingTransactions
        \/ \E applied : mPendingTransactions' = updatePendingTransactions(mPendingTransactions, applied)
    BY <1>5 DEF Externalize, valueExternalized
  <2> QED BY <1>1, <2>1, UpdateKeepsExact DEF QueueInv
<1>6. CASE LedgerCloses
  BY <1>5, <1>6 DEF LedgerCloses
<1>7. CASE Restart
  BY <1>7, EmptyIsExact DEF Restart, QueueInv, Empty
<1>8. CASE UNCHANGED vars
  BY <1>1, <1>8 DEF vars, QueueInv
<1> QED BY <1>2, <1>3, <1>4, <1>6, <1>7, <1>8 DEF Next

\* HerderImpl::TxMap: whatever is received, proposed, externalized or lost in a
\* restart, each map's highest sequence number and total fees are those of its
\* transactions, and no transaction waits in two generations.
THEOREM QueueTotals == Spec => []QueueTotalsAreExact
<1>1. Init => QueueInv
  BY QueueInvInit
<1>2. QueueInv /\ [Next]_vars => QueueInv'
  BY QueueInvStep
<1>3. QueueInv => QueueTotalsAreExact
  BY InvGivesTotals
<1> QED BY <1>1, <1>2, <1>3, PTL DEF Spec

-----------------------------------------------------------------------------
(* The transactions that an account keeps follow each other from its number on, and *)
(* every first part of them does.                                                    *)

Own(txs, a) == {t \in txs : t.src = a}

Numbered == accounts \in [Account -> [seq : Nat, balance : Int]]

Follows(R, a) ==
    /\ \A t \in R : t.src = a /\ t.seq > accounts[a].seq /\ checkValidTx(t, t.seq - 1)
    /\ \A t \in R : \A q \in (accounts[a].seq + 1)..t.seq : \E u \in R : u.seq = q
    /\ \A t, u \in R : t.seq = u.seq => t = u

LEMMA TxType ==
    ASSUME NEW t \in Tx
    PROVE  /\ t.src \in Account
           /\ t.seq \in Nat /\ t.fee \in Nat /\ t.pays \in Nat /\ t.maxTime \in Nat
BY QueueAssumption

LEMMA AccountType ==
    ASSUME Numbered, NEW a \in Account
    PROVE  accounts[a].seq \in Nat /\ accounts[a].balance \in Int
BY DEF Numbered

LEMMA RunFollows ==
    ASSUME Numbered, NEW txs \in SUBSET Tx, NEW a \in Account
    PROVE  Follows(RunOf(txs, a), a) /\ RunOf(txs, a) \subseteq txs
<1> DEFINE R == RunOf(txs, a)
           b == accounts[a].seq
           At(q) == FollowingAt(txs, a, q)
           Pick(q) == CHOOSE u \in At(q) : TRUE
<1>1. \A t : t \in R <=> /\ t \in txs /\ t.src = a /\ t.seq > b
                         /\ \A q \in (b + 1)..t.seq : At(q) # {}
                         /\ t = Pick(t.seq)
  BY DEF RunOf
<1>2. \A q : \A t : t \in At(q) <=> t \in txs /\ t.src = a /\ t.seq = q /\ checkValidTx(t, q - 1)
  BY Zenon DEF FollowingAt
<1>3. \A q : At(q) # {} => Pick(q) \in At(q)
  OBVIOUS
<1>4. b \in Nat /\ \A t \in txs : t.seq \in Nat
  BY AccountType, TxType
<1> HIDE DEF R, b, At, Pick
<1>5. ASSUME NEW t \in R PROVE t.src = a /\ t.seq > b /\ checkValidTx(t, t.seq - 1)
  <2>1. t \in txs /\ t.src = a /\ t.seq > b /\ t = Pick(t.seq)
    BY <1>1, Zenon
  <2>2. t.seq \in (b + 1)..t.seq
    BY <1>4, <2>1
  <2>3. t \in At(t.seq)
    BY <1>1, <1>3, <2>1, <2>2, Zenon
  <2> QED BY <1>2, <2>1, <2>3, Zenon
<1>6. ASSUME NEW t \in R, NEW q \in (b + 1)..t.seq PROVE \E u \in R : u.seq = q
  <2> DEFINE u == Pick(q)
  <2>1. t \in txs /\ \A r \in (b + 1)..t.seq : At(r) # {}
    BY <1>1, Zenon
  <2>2. u \in At(q)
    BY <1>3, <2>1, Zenon
  <2>3. u \in txs /\ u.src = a /\ u.seq = q
    BY <1>2, <2>2, Zenon
  <2> HIDE DEF u
  <2>4. u.seq > b /\ (b + 1)..u.seq \subseteq (b + 1)..t.seq
    BY <1>4, <2>1, <2>3
  <2>5. u = Pick(u.seq)
    BY <2>3 DEF u
  <2>6. u \in R
    BY <1>1, <2>1, <2>3, <2>4, <2>5
  <2> QED BY <2>3, <2>6
<1>7. \A t, u \in R : t.seq = u.seq => t = u
  <2> TAKE t, u \in R
  <2>1. t = Pick(t.seq) /\ u = Pick(u.seq)
    BY <1>1, Zenon
  <2> QED BY <2>1
<1>8. R \subseteq txs
  BY <1>1
<1> QED BY <1>5, <1>6, <1>7, <1>8 DEF Follows, R, b

LEMMA RunOfFollowing ==
    ASSUME Numbered, NEW txs \in SUBSET Tx, NEW a \in Account, Follows(Own(txs, a), a)
    PROVE  RunOf(txs, a) = Own(txs, a)
<1> DEFINE O == Own(txs, a)
           b == accounts[a].seq
           At(q) == FollowingAt(txs, a, q)
<1>1. \A t : t \in O <=> t \in txs /\ t.src = a
  BY DEF Own
<1>2. \A q : \A t : t \in At(q) <=> t \in txs /\ t.src = a /\ t.seq = q /\ checkValidTx(t, q - 1)
  BY Zenon DEF FollowingAt
<1>3. \A t : t \in RunOf(txs, a) <=> /\ t \in txs /\ t.src = a /\ t.seq > b
                                     /\ \A q \in (b + 1)..t.seq : At(q) # {}
                                     /\ t = CHOOSE u \in At(t.seq) : TRUE
  BY DEF RunOf
<1>4. /\ \A t \in O : t.src = a /\ t.seq > b /\ checkValidTx(t, t.seq - 1)
      /\ \A t \in O : \A q \in (b + 1)..t.seq : \E u \in O : u.seq = q
      /\ \A t, u \in O : t.seq = u.seq => t = u
  BY DEF Follows
<1> HIDE DEF O, b, At
<1>5. ASSUME NEW t \in O PROVE t \in RunOf(txs, a)
  <2>1. \A q \in (b + 1)..t.seq : At(q) # {}
    <3> TAKE q \in (b + 1)..t.seq
    <3>1. PICK u \in O : u.seq = q
      BY <1>4
    <3>2. u \in At(q)
      <4>1. u \in txs /\ u.src = a /\ checkValidTx(u, u.seq - 1)
        BY <1>1, <1>4, Zenon
      <4>2. checkValidTx(u, q - 1)
        BY <3>1, <4>1
      <4> QED BY <1>2, <3>1, <4>1, <4>2, Zenon
    <3> QED BY <3>2
  <2>2. At(t.seq) = {t}
    <3>1. t \in At(t.seq)
      BY <1>1, <1>2, <1>4, Zenon
    <3>2. \A u \in At(t.seq) : u = t
      <4> TAKE u \in At(t.seq)
      <4>1. u \in O /\ u.seq = t.seq
        BY <1>1, <1>2, Zenon
      <4> QED BY <1>4, <4>1
    <3> QED BY <3>1, <3>2
  <2>3. t = CHOOSE u \in At(t.seq) : TRUE
    BY <2>2
  <2> QED BY <1>1, <1>3, <1>4, <2>1, <2>3, Zenon
<1>6. \A t \in RunOf(txs, a) : t \in O
  BY <1>1, <1>3, Zenon
<1> QED BY <1>5, <1>6 DEF O

LEMMA FirstPartFollows ==
    ASSUME Numbered, NEW a \in Account, NEW R \in SUBSET Tx, Follows(R, a), NEW P \in SUBSET R,
           \A t \in P, u \in R : u.seq < t.seq => u \in P
    PROVE  Follows(P, a)
<1>1. ASSUME NEW t \in P, NEW q \in (accounts[a].seq + 1)..t.seq PROVE \E u \in P : u.seq = q
  <2>1. PICK u \in R : u.seq = q
    BY DEF Follows
  <2>2. CASE u.seq = t.seq
    BY <2>1, <2>2
  <2>3. CASE u.seq # t.seq
    <3>1. u.seq < t.seq
      BY <2>1, <2>3, AccountType, TxType
    <3> QED BY <2>1, <3>1
  <2> QED BY <2>2, <2>3
<1> QED BY <1>1 DEF Follows

LEMMA FeesOfPart ==
    ASSUME NEW txs \in SUBSET Tx, IsFiniteSet(txs), NEW part \in SUBSET txs
    PROVE  FeesOf(part) <= FeesOf(txs)
<1> DEFINE f == [t \in txs |-> t.fee]
           g == [t \in part |-> t.fee]
<1>1. \A t \in txs : f[t] \in Int /\ f[t] >= 0
  BY QueueAssumption
<1>2. \A t \in part : f[t] = g[t]
  OBVIOUS
<1>3. IsFiniteSet(part) /\ DOMAIN f = txs /\ DOMAIN g = part
  BY FS_Subset
<1>4. FeesOf(txs) = SumFunctionOnSet(f, txs) /\ FeesOf(part) = SumFunctionOnSet(g, part)
  BY DEF FeesOf, SumFunction
<1> HIDE DEF f, g
<1>5. SumFunctionOnSet(f, part) = SumFunctionOnSet(g, part)
  BY <1>2, <1>3, SumCong
<1>6. SumFunctionOnSet(f, part) <= SumFunctionOnSet(f, txs)
  BY <1>1, SumSubset
<1> QED BY <1>4, <1>5, <1>6

\* Transactions that pass TxSetFrame::checkValid, but for how many they are.
AllValid(txs) ==
    \A a \in Account :
        Follows(Own(txs, a), a) /\ (Own(txs, a) # {} => FeesOf(Own(txs, a)) <= accounts[a].balance)

LEMMA NothingToTrim ==
    ASSUME Numbered, NEW txs \in SUBSET Tx, AllValid(txs)
    PROVE  checkOrTrim(txs) = txs
<1>1. ASSUME NEW t \in txs PROVE t \in RunOf(txs, t.src) /\ FeesOf(RunOf(txs, t.src)) <= accounts[t.src].balance
  <2>1. t.src \in Account /\ t \in Own(txs, t.src)
    BY TxType DEF Own
  <2>2. RunOf(txs, t.src) = Own(txs, t.src)
    BY <2>1, RunOfFollowing DEF AllValid
  <2>3. FeesOf(Own(txs, t.src)) <= accounts[t.src].balance
    BY <2>1 DEF AllValid
  <2> QED BY <2>1, <2>2, <2>3
<1> QED BY <1>1, Zenon DEF checkOrTrim

LEMMA TrimmedIsValid ==
    ASSUME Numbered, NEW txs \in SUBSET Tx
    PROVE  checkOrTrim(txs) \in SUBSET txs /\ AllValid(checkOrTrim(txs))
<1> DEFINE V == checkOrTrim(txs)
<1>1. \A t : t \in V <=> /\ t \in txs /\ t \in RunOf(txs, t.src)
                         /\ FeesOf(RunOf(txs, t.src)) <= accounts[t.src].balance
  BY Zenon DEF checkOrTrim
<1> HIDE DEF V
<1>2. V \in SUBSET txs
  BY <1>1
<1>3. ASSUME NEW a \in Account
      PROVE  Follows(Own(V, a), a) /\ (Own(V, a) # {} => FeesOf(Own(V, a)) <= accounts[a].balance)
  <2> DEFINE R == RunOf(txs, a)
  <2>1. Follows(R, a) /\ R \subseteq txs
    BY RunFollows
  <2>2. \A t \in R : t.src = a
    BY <2>1 DEF Follows
  <2> HIDE DEF R
  <2>3. CASE FeesOf(R) <= accounts[a].balance
    <3>1. \A t : t \in V /\ t.src = a <=> t \in R
      BY <1>1, <2>1, <2>2, <2>3 DEF R
    <3>2. Own(V, a) = R
      BY <3>1 DEF Own
    <3> QED BY <2>1, <2>3, <3>2
  <2>4. CASE ~ (FeesOf(R) <= accounts[a].balance)
    <3>1. \A t \in V : t.src # a
      BY <1>1, <2>4 DEF R
    <3>2. Own(V, a) = {}
      BY <3>1 DEF Own
    <3> QED BY <3>2 DEF Follows
  <2> QED BY <2>3, <2>4
<1> QED BY <1>2, <1>3 DEF AllValid, V

-----------------------------------------------------------------------------
(* Surge pricing. *)

FirstOf(S, R, n) == {t \in S : Cardinality({s \in S : <<s, t>> \in R}) < n}

\* The first n elements of a finite set in a strict total order R are n at most.
LEMMA FirstOfOrder ==
    ASSUME NEW S, IsFiniteSet(S), NEW R, NEW n \in Nat,
           \A s \in S : <<s, s>> \notin R,
           \A s, t \in S : s # t => <<s, t>> \in R \/ <<t, s>> \in R,
           \A s, t, u \in S : <<s, t>> \in R /\ <<t, u>> \in R => <<s, u>> \in R
    PROVE  /\ Cardinality(FirstOf(S, R, n)) <= n
           /\ \A t \in FirstOf(S, R, n) : \A s \in S : <<s, t>> \in R => s \in FirstOf(S, R, n)
<1> DEFINE Below(t) == {s \in S : <<s, t>> \in R}
           First == {t \in S : Cardinality(Below(t)) < n}
           f == [t \in First |-> Cardinality(Below(t))]
<1>1. ASSUME NEW t \in S PROVE IsFiniteSet(Below(t)) /\ Cardinality(Below(t)) \in Nat
  BY FS_Subset, FS_CardinalityType
<1>2. ASSUME NEW s \in S, NEW t \in S, <<s, t>> \in R
      PROVE  Cardinality(Below(s)) < Cardinality(Below(t))
  <2>1. Below(s) \subseteq Below(t) /\ s \in Below(t) /\ s \notin Below(s)
    BY <1>2
  <2> HIDE DEF Below
  <2>2. Cardinality(Below(s)) <= Cardinality(Below(t)) /\ Cardinality(Below(s)) # Cardinality(Below(t))
    BY <1>1, <2>1, FS_Subset
  <2> QED BY <1>1, <2>2
<1> HIDE DEF Below
<1>3. f \in Injection(First, 0..(n - 1))
  <2>1. \A t \in First : f[t] \in 0..(n - 1)
    BY <1>1
  <2>2. \A s, t \in First : f[s] = f[t] => s = t
    <3> TAKE s, t \in First
    <3>1. s \in S /\ t \in S /\ f[s] = Cardinality(Below(s)) /\ f[t] = Cardinality(Below(t))
      OBVIOUS
    <3>2. Cardinality(Below(s)) \in Nat /\ Cardinality(Below(t)) \in Nat
      BY <1>1, <3>1
    <3>3. s # t => \/ Cardinality(Below(s)) < Cardinality(Below(t))
                   \/ Cardinality(Below(t)) < Cardinality(Below(s))
      BY <1>2, <3>1
    <3> HIDE DEF f
    <3> QED BY <3>1, <3>2, <3>3
  <2> QED BY <2>1, <2>2 DEF Injection, IsInjective
<1>4. IsFiniteSet(0..(n - 1)) /\ Cardinality(0..(n - 1)) = n
  BY FS_Interval
<1>5. IsFiniteSet(First) /\ Cardinality(First) <= n
  <2> HIDE DEF f, First
  <2> QED BY <1>3, <1>4, FS_Injection
<1>6. \A t \in First : \A s \in S : <<s, t>> \in R => s \in First
  BY <1>1, <1>2
<1>7. FirstOf(S, R, n) = First
  BY DEF FirstOf, Below
<1> HIDE DEF First
<1> QED BY <1>5, <1>6, <1>7

LEMMA RatioType ==
    ASSUME NEW txs \in SUBSET Tx, NEW t \in txs
    PROVE  Ratio(txs, t.src) \in Nat
<1> DEFINE S == {u.fee : u \in {x \in txs : x.src = t.src}}
<1>1. S \subseteq Nat /\ S # {}
  BY TxType
<1> HIDE DEF S
<1>2. PICK m \in S : \A x \in S : m <= x
  BY <1>1, LeastElement
<1>3. S \in SUBSET Int /\ \A x \in S : x >= m
  BY <1>1, <1>2
<1>4. Min(S) = m
  BY <1>3, MinOf
<1>5. Ratio(txs, t.src) = Min(S)
  BY DEF Ratio, S
<1> QED BY <1>1, <1>4, <1>5

LEMMA BeforeIsOrder ==
    ASSUME NEW txs \in SUBSET Tx,
           \A s, t \in txs : s.src = t.src /\ s.seq = t.seq => s = t
    PROVE  /\ \A s \in txs : ~ Before(txs, s, s)
           /\ \A s, t \in txs : s # t => Before(txs, s, t) \/ Before(txs, t, s)
           /\ \A s, t, u \in txs : Before(txs, s, t) /\ Before(txs, t, u) => Before(txs, s, u)
<1> DEFINE r(t) == Ratio(txs, t.src)
           o(t) == AccountOrder[t.src]
<1>1. \A t \in txs : r(t) \in Nat
  BY RatioType
<1>2. \A t \in txs : t.seq \in Nat /\ t.src \in Account
  BY TxType
<1>3. /\ \A t \in txs : o(t) \in Nat
      /\ \A s, t \in txs : o(s) = o(t) => s.src = t.src
  BY <1>2, QueueAssumption
<1>4. \A s, t \in txs : s.src = t.src => r(s) = r(t) /\ o(s) = o(t)
  OBVIOUS
<1>5. \A s, t : Before(txs, s, t) <=> IF s.src = t.src THEN s.seq < t.seq
                                      ELSE IF r(s) # r(t) THEN r(s) > r(t) ELSE o(s) < o(t)
  BY DEF Before
<1> HIDE DEF r, o
<1>6. \A s \in txs : ~ Before(txs, s, s)
  BY <1>2, <1>5
<1>7. \A s, t \in txs : s # t => Before(txs, s, t) \/ Before(txs, t, s)
  BY <1>1, <1>2, <1>3, <1>5
<1>8. ASSUME NEW s \in txs, NEW t \in txs, NEW u \in txs, Before(txs, s, t), Before(txs, t, u)
      PROVE  Before(txs, s, u)
  <2>1. /\ IF s.src = t.src THEN s.seq < t.seq
           ELSE IF r(s) # r(t) THEN r(s) > r(t) ELSE o(s) < o(t)
        /\ IF t.src = u.src THEN t.seq < u.seq
           ELSE IF r(t) # r(u) THEN r(t) > r(u) ELSE o(t) < o(u)
    BY <1>5, <1>8
  <2>2. IF s.src = u.src THEN s.seq < u.seq
        ELSE IF r(s) # r(u) THEN r(s) > r(u) ELSE o(s) < o(u)
    BY <1>1, <1>2, <1>3, <1>4, <2>1
  <2> QED BY <1>5, <2>2
<1> QED BY <1>6, <1>7, <1>8

\* What surge pricing leaves of valid transactions is valid, and not too much.
LEMMA SurgedIsValid ==
    ASSUME Numbered, NEW txs \in SUBSET Tx, AllValid(txs), header["maxTxSetSize"] \in Nat
    PROVE  /\ surgePricingFilter(txs) \in SUBSET txs
           /\ Cardinality(surgePricingFilter(txs)) <= header["maxTxSetSize"]
           /\ AllValid(surgePricingFilter(txs))
<1> DEFINE R == {p \in txs \X txs : Before(txs, p[1], p[2])}
           n == header["maxTxSetSize"]
           P == surgePricingFilter(txs)
<1>1. \A s, t \in txs : <<s, t>> \in R <=> Before(txs, s, t)
  OBVIOUS
<1>2. \A s, t \in txs : s.src = t.src /\ s.seq = t.seq => s = t
  <2> TAKE s, t \in txs
  <2> HAVE s.src = t.src /\ s.seq = t.seq
  <2>1. s \in Own(txs, s.src) /\ t \in Own(txs, s.src) /\ s.src \in Account
    BY TxType DEF Own
  <2>2. Follows(Own(txs, s.src), s.src)
    BY <2>1 DEF AllValid
  <2> QED BY <2>1, <2>2 DEF Follows
<1>3. IsFiniteSet(txs)
  BY QueueAssumption, FS_Subset
<1> HIDE DEF R
<1>4. /\ \A s \in txs : <<s, s>> \notin R
      /\ \A s, t \in txs : s # t => <<s, t>> \in R \/ <<t, s>> \in R
      /\ \A s, t, u \in txs : <<s, t>> \in R /\ <<t, u>> \in R => <<s, u>> \in R
  BY <1>1, <1>2, BeforeIsOrder
<1>5. P = FirstOf(txs, R, n)
  <2>1. \A t \in txs : {s \in txs : Before(txs, s, t)} = {s \in txs : <<s, t>> \in R}
    BY <1>1
  <2> QED BY <2>1 DEF surgePricingFilter, FirstOf
<1>6. /\ Cardinality(P) <= n
      /\ \A t \in P : \A s \in txs : <<s, t>> \in R => s \in P
  <2>1. n \in Nat
    OBVIOUS
  <2> HIDE DEF P, n
  <2> QED BY <1>3, <1>4, <1>5, <2>1, FirstOfOrder
<1>7. P \in SUBSET txs
  BY <1>5 DEF FirstOf
<1> HIDE DEF P
<1>8. ASSUME NEW a \in Account
      PROVE  Follows(Own(P, a), a) /\ (Own(P, a) # {} => FeesOf(Own(P, a)) <= accounts[a].balance)
  <2> DEFINE O == Own(txs, a)
             Q == Own(P, a)
  <2>1. O \in SUBSET Tx /\ Q \in SUBSET O /\ IsFiniteSet(O) /\ IsFiniteSet(Q)
    BY <1>3, <1>7, FS_Subset DEF Own
  <2>2. Follows(O, a) /\ (O # {} => FeesOf(O) <= accounts[a].balance)
    BY DEF AllValid
  <2>3. \A t \in Q, u \in O : u.seq < t.seq => u \in Q
    <3> TAKE t \in Q, u \in O
    <3> HAVE u.seq < t.seq
    <3>1. t \in P /\ t \in txs /\ t.src = a /\ u \in txs /\ u.src = a
      BY <1>7 DEF Own
    <3>2. Before(txs, u, t)
      BY <3>1 DEF Before
    <3>3. u \in P
      BY <1>1, <1>6, <3>1, <3>2
    <3> QED BY <3>1, <3>3 DEF Own
  <2> HIDE DEF O, Q
  <2>4. Follows(Q, a)
    BY <2>1, <2>2, <2>3, FirstPartFollows
  <2>5. Q # {} => FeesOf(Q) <= accounts[a].balance
    <3>1. FeesOf(Q) <= FeesOf(O) /\ FeesOf(Q) \in Nat /\ FeesOf(O) \in Nat
      BY <2>1, FeesOfPart, FeesOfType
    <3>2. accounts[a].balance \in Int
      BY AccountType
    <3> QED BY <2>1, <2>2, <3>1, <3>2
  <2> QED BY <2>4, <2>5 DEF Q
<1> QED BY <1>6, <1>7, <1>8 DEF AllValid, P

-----------------------------------------------------------------------------
(* Types. *)

Values == [txs : SUBSET Tx, time : Nat, upgrades : [Upgrade -> Nat]]

TypeOK ==
    /\ Numbered
    /\ header \in [Upgrade -> Nat]
    /\ closeTime \in Nat
    /\ mUpgrades \in [to : [Upgrade -> Nat], time : Nat]
    /\ persisted \in [to : [Upgrade -> Nat], time : Nat]
    /\ nominated \in Values

NoError == err = ""

ProposalInv == QueueInv /\ TypeOK /\ NoError

AccountState == [seq : Nat, balance : Int]

LEMMA NoValueType == NoValue \in Values /\ NoUpgrades \in [Upgrade -> Nat]
BY DEF NoValue, Values, NoUpgrades

LEMMA ApplyType ==
    ASSUME NEW x \in AccountState, NEW next \in SUBSET Tx
    PROVE  apply(x, next) \in AccountState
<1>1. CASE next = {}
  BY <1>1 DEF apply
<1>2. CASE next # {}
  <2> DEFINE t == CHOOSE u \in next : TRUE
  <2>1. t \in Tx
    BY <1>2
  <2>2. apply(x, next)
            = [seq |-> t.seq, balance |-> IF x.balance >= t.pays THEN x.balance - t.pays ELSE x.balance]
    BY <1>2 DEF apply
  <2> HIDE DEF t
  <2> QED BY <2>1, <2>2, TxType DEF AccountState
<1> QED BY <1>1, <1>2

\* The transactions of one account, applied one after the other.
AreApplied(F, n, paid, own, time) ==
    F = [k \in 0..n |->
            IF k = 0 THEN paid
            ELSE apply(F[k - 1], {t \in own : t.seq = F[k - 1].seq + 1 /\ time <= t.maxTime})]

LEMMA AppliedExist ==
    ASSUME NEW n \in Nat, NEW paid, NEW own, NEW time
    PROVE  \E F : AreApplied(F, n, paid, own, time)
<1> DEFINE Pass(x) == apply(x, {t \in own : t.seq = x.seq + 1 /\ time <= t.maxTime})
           P(k) == \E F : AreApplied(F, k, paid, own, time)
           N == {k \in Nat : P(k)}
<1>1. P(0)
  <2> DEFINE F == [k \in 0..0 |-> paid]
  <2>1. F = [k \in 0..0 |-> IF k = 0 THEN paid ELSE Pass(F[k - 1])]
    <3> HIDE DEF Pass
    <3> QED OBVIOUS
  <2> QED BY <2>1, Zenon DEF AreApplied
<1>2. ASSUME NEW k \in Nat, P(k) PROVE P(k + 1)
  <2>1. PICK F : F = [j \in 0..k |-> IF j = 0 THEN paid ELSE Pass(F[j - 1])]
    BY <1>2, Zenon DEF AreApplied
  <2> DEFINE G == [j \in 0..(k + 1) |-> IF j = k + 1 THEN Pass(F[k]) ELSE F[j]]
  <2> HIDE DEF Pass
  <2>2. ASSUME NEW j \in 0..(k + 1) PROVE G[j] = IF j = 0 THEN paid ELSE Pass(G[j - 1])
    <3>1. CASE j = k + 1
      <4>1. G[j] = Pass(F[k]) /\ j - 1 = k /\ j # 0 /\ G[k] = F[k]
        BY <3>1
      <4> QED BY <4>1
    <3>2. CASE j # k + 1
      <4>1. j \in 0..k /\ G[j] = F[j]
        BY <3>2
      <4>2. F[j] = IF j = 0 THEN paid ELSE Pass(F[j - 1])
        BY <2>1, <4>1
      <4>3. j # 0 => G[j - 1] = F[j - 1]
        BY <4>1
      <4> QED BY <4>1, <4>2, <4>3
    <3> QED BY <3>1, <3>2
  <2>3. G = [j \in 0..(k + 1) |-> G[j]]
    OBVIOUS
  <2> HIDE DEF G
  <2>4. G = [j \in 0..(k + 1) |-> IF j = 0 THEN paid ELSE Pass(G[j - 1])]
    BY <2>2, <2>3
  <2> QED BY <2>4, Zenon DEF AreApplied, Pass
<1> HIDE DEF P
<1>3. Nat \subseteq N
  <2>1. 0 \in N /\ \A k \in Nat : k \in N => k + 1 \in N
    BY <1>1, <1>2
  <2> HIDE DEF N
  <2> QED BY <2>1, Induction
<1> QED BY <1>3 DEF P

LEMMA AppliedType ==
    ASSUME NEW n \in Nat, NEW paid \in AccountState, NEW own \in SUBSET Tx, NEW time,
           NEW F, AreApplied(F, n, paid, own, time)
    PROVE  F[n] \in AccountState
<1> DEFINE NextOf(x) == {t \in own : t.seq = x.seq + 1 /\ time <= t.maxTime}
           N == {k \in Nat : k <= n => F[k] \in AccountState}
<1>1. \A k \in 0..n : F[k] = IF k = 0 THEN paid ELSE apply(F[k - 1], NextOf(F[k - 1]))
  BY DEF AreApplied
<1>2. \A x : NextOf(x) \in SUBSET Tx
  OBVIOUS
<1> HIDE DEF NextOf
<1>3. 0 \in N
  <2>1. 0 \in 0..n
    OBVIOUS
  <2> QED BY <1>1, <2>1
<1>4. ASSUME NEW k \in Nat, k \in N PROVE k + 1 \in N
  <2> SUFFICES ASSUME k + 1 <= n PROVE F[k + 1] \in AccountState
    OBVIOUS
  <2>1. k + 1 \in 0..n /\ k + 1 # 0 /\ (k + 1) - 1 = k /\ k <= n
    OBVIOUS
  <2>2. F[k + 1] = apply(F[k], NextOf(F[k]))
    BY <1>1, <2>1
  <2>3. F[k] \in AccountState
    BY <1>4, <2>1
  <2> QED BY <1>2, <2>2, <2>3, ApplyType
<1>5. Nat \subseteq N
  <2> HIDE DEF N
  <2> QED BY <1>3, <1>4, Induction
<1> QED BY <1>5

LEMMA AccountAfterType ==
    ASSUME Numbered, NEW a \in Account, NEW v \in Values
    PROVE  accountAfter(a, v) \in AccountState
<1> DEFINE own == {t \in v.txs : t.src = a}
           fees == FeesOf(own)
           paid == [accounts[a] EXCEPT !.balance = @ - Min({@, fees})]
           n == Cardinality(own)
           F == CHOOSE F : AreApplied(F, n, paid, own, v.time)
<1>1. own \in SUBSET Tx /\ IsFiniteSet(own)
  <2>1. own \in SUBSET Tx
    BY DEF Values
  <2> QED BY <2>1, QueueAssumption, FS_Subset
<1>2. n \in Nat /\ fees \in Nat
  BY <1>1, FS_CardinalityType, FeesOfType
<1>3. accountAfter(a, v) = F[n]
  BY Zenon DEF accountAfter, AreApplied
<1>4. paid \in AccountState
  <2> DEFINE b == accounts[a].balance
             m == Min({b, fees})
  <2>1. accounts[a] \in AccountState /\ b \in Int
    BY DEF Numbered, AccountState
  <2>2. m = IF b <= fees THEN b ELSE fees
    BY <1>2, <2>1, MinOfTwo
  <2> HIDE DEF fees, m
  <2>3. paid = [accounts[a] EXCEPT !.balance = b - m] /\ b - m \in Int
    BY <1>2, <2>1, <2>2 DEF m
  <2> HIDE DEF paid, b
  <2> QED BY <2>1, <2>3 DEF AccountState
<1> HIDE DEF own, paid, n
<1>5. AreApplied(F, n, paid, own, v.time)
  BY <1>2, AppliedExist, Zenon
<1> HIDE DEF F
<1> QED BY <1>1, <1>2, <1>3, <1>4, <1>5, AppliedType

-----------------------------------------------------------------------------
(* The steps. *)

LEMMA ClosedLedgerType ==
    ASSUME TypeOK, NEW v \in Values, closeLedger(v)
    PROVE  Numbered' /\ header' \in [Upgrade -> Nat] /\ closeTime' \in Nat
<1>1. accounts' = [a \in Account |-> accountAfter(a, v)]
  BY DEF closeLedger
<1>2. \A a \in Account : accountAfter(a, v) \in AccountState
  BY AccountAfterType DEF TypeOK
<1>3. accounts' \in [Account -> AccountState]
  BY <1>1, <1>2
<1>4. /\ header' = [u \in Upgrade |-> IF v.upgrades[u] # 0 THEN v.upgrades[u] ELSE header[u]]
      /\ closeTime' = v.time
  BY DEF closeLedger
<1>5. v.upgrades \in [Upgrade -> Nat] /\ v.time \in Nat /\ header \in [Upgrade -> Nat]
  BY DEF Values, TypeOK
<1> QED BY <1>3, <1>4, <1>5 DEF Numbered, AccountState

LEMMA RemovedUpgradesType ==
    ASSUME TypeOK, NEW upgrades \in [Upgrade -> Nat]
    PROVE  removeUpgrades(upgrades) \in [to : [Upgrade -> Nat], time : Nat]
<1>1. mUpgrades \in [to : [Upgrade -> Nat], time : Nat]
  BY DEF TypeOK
<1> DEFINE to == [u \in Upgrade |-> IF upgrades[u] = mUpgrades.to[u] THEN 0 ELSE mUpgrades.to[u]]
<1>2. to \in [Upgrade -> Nat]
  BY <1>1
<1>3. removeUpgrades(upgrades) = [mUpgrades EXCEPT !.to = to]
  BY DEF removeUpgrades
<1> HIDE DEF to
<1> QED BY <1>1, <1>2, <1>3

LEMMA ImageFinite ==
    ASSUME NEW S, IsFiniteSet(S), NEW f
    PROVE  IsFiniteSet({f[x] : x \in S})
<1> DEFINE T == {f[x] : x \in S}
           g == [x \in S |-> f[x]]
<1>1. g \in Surjection(S, T)
  BY DEF Surjection
<1> HIDE DEF g, T
<1>2. IsFiniteSet(T)
  BY <1>1, FS_Surjection
<1> QED BY <1>2 DEF T

\* What is combined of valid candidates is one of their sets, the latest of their times
\* and some of their upgrades: it is valid.
LEMMA CombinedIsValid ==
    ASSUME TypeOK, NEW cands \in SUBSET Values, IsFiniteSet(cands), NEW best \in cands,
           \A c \in cands : validateValue(c, FALSE)
    PROVE  /\ combineCandidates(cands, best) \in Values
           /\ validateValue(combineCandidates(cands, best), FALSE)
<1> DEFINE v == combineCandidates(cands, best)
           times == {c.time : c \in cands}
           ups(u) == {c.upgrades[u] : c \in cands}
<1>1. \A c \in cands : c.txs \in SUBSET Tx /\ c.time \in Nat /\ c.upgrades \in [Upgrade -> Nat]
  BY DEF Values
<1>2. \A c \in cands : /\ checkCloseTime(c.time) /\ checkValid(c.txs)
                       /\ \A u \in Upgrade : c.upgrades[u] # 0 => isValid(u, c.upgrades[u], FALSE)
  BY DEF validateValue
<1>3. /\ v.txs = trimInvalid(best.txs) /\ v.time = Max(times)
      /\ v.upgrades = [u \in Upgrade |-> Max(ups(u))]
      /\ v = [txs |-> v.txs, time |-> v.time, upgrades |-> v.upgrades]
  BY DEF combineCandidates
<1>4. v.txs = best.txs
  BY <1>2, <1>3 DEF trimInvalid, checkValid
<1>5. Max(times) \in times
  <2> DEFINE f == [c \in cands |-> c.time]
  <2>1. IsFiniteSet(times)
    <3>1. times = {f[c] : c \in cands}
      OBVIOUS
    <3> HIDE DEF f, times
    <3> QED BY <3>1, ImageFinite
  <2>2. times \subseteq Int /\ times # {}
    BY <1>1
  <2> HIDE DEF times
  <2> QED BY <2>1, <2>2, MaxExists
<1>6. ASSUME NEW u \in Upgrade PROVE Max(ups(u)) \in ups(u)
  <2> DEFINE f == [c \in cands |-> c.upgrades[u]]
  <2>1. IsFiniteSet(ups(u))
    <3>1. ups(u) = {f[c] : c \in cands}
      OBVIOUS
    <3> HIDE DEF f, ups
    <3> QED BY <3>1, ImageFinite
  <2>2. ups(u) \subseteq Int /\ ups(u) # {}
    BY <1>1
  <2> HIDE DEF ups
  <2> QED BY <2>1, <2>2, MaxExists
<1> HIDE DEF v
<1>7. PICK c \in cands : v.time = c.time
  BY <1>3, <1>5
<1>8. \A u \in Upgrade : \E d \in cands : v.upgrades[u] = d.upgrades[u]
  <2> TAKE u \in Upgrade
  <2>1. v.upgrades[u] = Max(ups(u))
    BY <1>3
  <2> QED BY <1>6, <2>1
<1>9. v.time \in Nat /\ v.txs \in SUBSET Tx /\ v.upgrades \in [Upgrade -> Nat]
  <2>1. \A u \in Upgrade : v.upgrades[u] \in Nat
    BY <1>1, <1>8
  <2> QED BY <1>1, <1>3, <1>4, <1>7, <2>1
<1>10. v \in Values
  BY <1>3, <1>9 DEF Values
<1>11. checkCloseTime(v.time) /\ checkValid(v.txs)
  BY <1>2, <1>4, <1>7
<1>12. \A u \in Upgrade : v.upgrades[u] # 0 => isValid(u, v.upgrades[u], FALSE)
  <2> TAKE u \in Upgrade
  <2>1. PICK d \in cands : v.upgrades[u] = d.upgrades[u]
    BY <1>8
  <2> QED BY <1>2, <2>1
<1>13. validateValue(v, FALSE)
  BY <1>11, <1>12 DEF validateValue
<1> QED BY <1>10, <1>13 DEF v

LEMMA CloseTimeType ==
    ASSUME TypeOK
    PROVE  Min({closeTime + 1, MaxTime}) \in Nat
<1>1. closeTime + 1 \in Nat /\ MaxTime \in Nat
  BY QueueAssumption DEF TypeOK
<1> QED BY <1>1, MinOfTwo

LEMMA OthersType ==
    ASSUME TypeOK, NEW other \in Others
    PROVE  other \in Values /\ validateValue(other, FALSE)
<1>1. /\ other \in [txs : {checkOrTrim(T) : T \in SUBSET Tx},
                    time : {Min({closeTime + 1, MaxTime})}, upgrades : OtherUpgrades]
      /\ validateValue(other, FALSE)
  BY DEF Others
<1>2. \A T \in SUBSET Tx : checkOrTrim(T) \in SUBSET Tx
  BY TrimmedIsValid DEF TypeOK
<1>3. OtherUpgrades \subseteq [Upgrade -> Nat]
  BY QueueAssumption
<1> QED BY <1>1, <1>2, <1>3, CloseTimeType DEF Values

LEMMA ExternalizeKeeps ==
    ASSUME TypeOK, NoError, NEW cands \in SUBSET Values, IsFiniteSet(cands), NEW best,
           \A c \in cands : validateValue(c, FALSE), Externalize(cands, best)
    PROVE  TypeOK' /\ NoError'
<1> DEFINE v == combineCandidates(cands, best)
<1>1. best \in cands
  BY DEF Externalize
<1>2. v \in Values /\ validateValue(v, FALSE)
  BY <1>1, CombinedIsValid
<1>3. valueExternalized(v) /\ UNCHANGED err
  BY <1>2, Zenon DEF Externalize
<1> HIDE DEF v
<1>4. /\ closeLedger(v) /\ mUpgrades' = removeUpgrades(v.upgrades) /\ persisted' = mUpgrades'
      /\ nominated' = NoValue
  BY <1>3 DEF valueExternalized
<1>5. v.upgrades \in [Upgrade -> Nat]
  BY <1>2 DEF Values
<1>6. mUpgrades' \in [to : [Upgrade -> Nat], time : Nat]
  BY <1>4, <1>5, RemovedUpgradesType
<1>7. Numbered' /\ header' \in [Upgrade -> Nat] /\ closeTime' \in Nat
  BY <1>2, <1>4, ClosedLedgerType
<1>8. TypeOK'
  BY <1>4, <1>6, <1>7, NoValueType DEF TypeOK
<1> QED BY <1>3, <1>8, Zenon DEF NoError

LEMMA ClosesKeeps ==
    ASSUME TypeOK, NoError, LedgerCloses
    PROVE  TypeOK' /\ NoError'
<1>1. PICK other \in Others :
        \/ \E best \in {other} : Externalize({other}, best)
        \/ /\ nominated # NoValue /\ validateValue(nominated, FALSE)
           /\ \E best \in {other, nominated} : Externalize({other, nominated}, best)
  BY DEF LedgerCloses
<1>2. /\ other \in Values /\ validateValue(other, FALSE)
      /\ nominated \in Values
  BY OthersType DEF TypeOK
<1>3. IsFiniteSet({other}) /\ IsFiniteSet({other, nominated})
  <2>1. IsFiniteSet({other})
    BY FS_Singleton
  <2>2. {other, nominated} = {other} \cup {nominated}
    OBVIOUS
  <2> QED BY <2>1, <2>2, FS_AddElement
<1> QED BY <1>1, <1>2, <1>3, ExternalizeKeeps

\* The set that triggerNextLedger builds of whatever waits is valid.
LEMMA TriggerKeeps ==
    ASSUME QueueInv, TypeOK, NoError, triggerNextLedger
    PROVE  TypeOK' /\ NoError'
<1> DEFINE valid == trimInvalid(Pending)
           proposed == surgePricingFilter(valid)
           time == Min({closeTime + 1, MaxTime})
<1>1. Pending \in SUBSET Tx
  BY DEF Pending, QueueInv, Exact, IsExact
<1>2. valid \in SUBSET Tx /\ AllValid(valid)
  <2> HIDE DEF valid
  <2>1. valid \in SUBSET Pending /\ AllValid(valid)
    BY <1>1, TrimmedIsValid DEF TypeOK, valid, trimInvalid
  <2> QED BY <1>1, <2>1
<1>3. Numbered /\ header["maxTxSetSize"] \in Nat
  BY DEF TypeOK, Upgrade
<1> HIDE DEF valid
<1>4. /\ proposed \in SUBSET valid /\ Cardinality(proposed) <= header["maxTxSetSize"]
      /\ AllValid(proposed)
  BY <1>2, <1>3, SurgedIsValid
<1> HIDE DEF proposed
<1>5. checkValid(proposed)
  BY <1>2, <1>3, <1>4, NothingToTrim DEF checkValid
<1>6. /\ nominated' = [txs |-> proposed, time |-> time, upgrades |-> createUpgradesFor]
      /\ UNCHANGED err
      /\ UNCHANGED <<accounts, header, closeTime, mUpgrades, persisted, parity>>
  BY <1>5, Zenon DEF triggerNextLedger, proposed, valid, time
<1>7. createUpgradesFor \in [Upgrade -> Nat]
  BY DEF createUpgradesFor, TypeOK
<1>8. time \in Nat
  BY CloseTimeType
<1> HIDE DEF time
<1>9. nominated' \in Values
  BY <1>2, <1>4, <1>6, <1>7, <1>8 DEF Values
<1>10. TypeOK'
  BY <1>6, <1>9 DEF TypeOK, Numbered
<1>11. NoError'
  BY <1>6, Zenon DEF NoError
<1> QED BY <1>10, <1>11

LEMMA ProposalInvInit == Init => ProposalInv
<1> SUFFICES ASSUME Init PROVE ProposalInv
  OBVIOUS
<1>1. QueueInv
  BY QueueInvInit
<1>2. NoError
  BY Zenon DEF Init, NoError
<1>3. TypeOK
  <2>1. /\ accounts = [a \in Account |-> [seq |-> 0, balance |-> InitialBalance[a]]]
        /\ header = InitialHeader /\ closeTime = 0
        /\ mUpgrades = [to |-> NoUpgrades, time |-> 0] /\ persisted = mUpgrades
        /\ nominated = NoValue
    BY Zenon DEF Init
  <2>2. Numbered
    BY <2>1, QueueAssumption DEF Numbered
  <2>3. header \in [Upgrade -> Nat]
    BY <2>1, QueueAssumption
  <2> QED BY <2>1, <2>2, <2>3, NoValueType DEF TypeOK
<1> QED BY <1>1, <1>2, <1>3 DEF ProposalInv

LEMMA ProposalInvStep == ProposalInv /\ [Next]_vars => ProposalInv'
<1> SUFFICES ASSUME ProposalInv, [Next]_vars PROVE ProposalInv'
  OBVIOUS
<1>1. QueueInv /\ TypeOK /\ NoError
  BY DEF ProposalInv
<1>2. QueueInv'
  BY <1>1, QueueInvStep
<1>3. ASSUME NEW t \in Tx, recvTransaction(t) PROVE TypeOK' /\ NoError'
  <2>1. UNCHANGED <<accounts, header, closeTime, mUpgrades, persisted, nominated, parity, err>>
    BY <1>3 DEF recvTransaction
  <2>2. TypeOK'
    BY <1>1, <2>1 DEF TypeOK, Numbered
  <2> QED BY <1>1, <2>1, <2>2, Zenon DEF NoError
<1>4. CASE triggerNextLedger
  BY <1>1, <1>4, <1>2, TriggerKeeps DEF ProposalInv
<1>5. ASSUME NEW to \in Schedules, NEW time \in 0..MaxTime, setUpgrades(to, time)
      PROVE  TypeOK' /\ NoError'
  <2>1. /\ mUpgrades' = [to |-> to, time |-> time] /\ persisted' = mUpgrades'
        /\ UNCHANGED <<accounts, header, closeTime, mPendingTransactions, nominated, parity, err>>
    BY <1>5 DEF setUpgrades
  <2>2. to \in [Upgrade -> Nat] /\ time \in Nat
    BY QueueAssumption
  <2>3. TypeOK'
    BY <1>1, <2>1, <2>2 DEF TypeOK, Numbered
  <2> QED BY <1>1, <2>1, <2>3, Zenon DEF NoError
<1>6. CASE LedgerCloses
  BY <1>1, <1>2, <1>6, ClosesKeeps DEF ProposalInv
<1>7. CASE Restart
  <2>1. /\ mUpgrades' = persisted /\ nominated' = NoValue
        /\ UNCHANGED <<accounts, header, closeTime, persisted, parity, err>>
    BY <1>7 DEF Restart
  <2>2. TypeOK'
    BY <1>1, <2>1, NoValueType DEF TypeOK, Numbered
  <2>3. NoError'
    BY <1>1, <2>1, Zenon DEF NoError
  <2> QED BY <1>2, <2>2, <2>3 DEF ProposalInv
<1>8. CASE UNCHANGED vars
  <2>1. TypeOK'
    BY <1>1, <1>8 DEF TypeOK, Numbered, vars
  <2>2. NoError'
    BY <1>1, <1>8, Zenon DEF NoError, vars
  <2> QED BY <1>2, <2>1, <2>2 DEF ProposalInv
<1> QED BY <1>2, <1>3, <1>4, <1>5, <1>6, <1>7, <1>8 DEF Next, ProposalInv

\* triggerNextLedger never throws "wanting to emit an invalid txSet", and candidates combine
\* to a valid value: what trimInvalid and surgePricingFilter leave of any queue is valid.
THEOREM ProposedSetsAreValid == Spec => []ProposalsAreValid
<1>1. ProposalInv => ProposalsAreValid
  BY Zenon DEF ProposalInv, NoError, ProposalsAreValid
<1> QED BY <1>1, ProposalInvInit, ProposalInvStep, PTL DEF Spec
=============================================================================
