-------------------------- MODULE TransactionQueue --------------------------
(***************************************************************************)
(* What a validator proposes: the transactions that wait in the herder,    *)
(* the set that is built of them when a ledger is triggered (TxSetFrame),  *)
(* the upgrades an operator scheduled, how candidates are combined, and    *)
(* what closing a ledger does to all of these.                             *)
(*                                                                         *)
(* A transaction is a record of a source account, a sequence number, a fee *)
(* and the last close time it is good for; it has one operation, and a     *)
(* balance is what is available above the reserve.                         *)
(***************************************************************************)
EXTENDS Integers, FiniteSets, FiniteSetsExt, Functions

CONSTANTS
    Account,
    Tx,                        \* \subseteq [src, seq, fee, pays, maxTime]
    AccountOrder,              \* [Account -> Nat]: the order of their identifiers
    InitialBalance,            \* [Account -> Nat]
    InitialHeader,             \* version, baseFee and maxTxSetSize; time 0
    LEDGER_PROTOCOL_VERSION,
    Schedules,                 \* upgrades that the operator may schedule
    OtherUpgrades,             \* upgrades that other nodes may nominate
    MaxTime                    \* bound: stands for every later close time too

Upgrade == {"version", "baseFee", "maxTxSetSize"}

NoUpgrades == [u \in Upgrade |-> 0]

ASSUME QueueAssumption ==
    /\ Tx \subseteq [src : Account, seq : Nat, fee : Nat, pays : Nat, maxTime : Nat]
    /\ IsFiniteSet(Account) /\ IsFiniteSet(Tx)
    /\ AccountOrder \in [Account -> Nat]
    /\ \A a, b \in Account : AccountOrder[a] = AccountOrder[b] => a = b
    /\ InitialBalance \in [Account -> Nat]
    /\ {LEDGER_PROTOCOL_VERSION, MaxTime} \subseteq Nat
    /\ InitialHeader \in [Upgrade -> Nat \ {0}]
    /\ Schedules \cup OtherUpgrades \subseteq [Upgrade -> Nat]

VARIABLES
    accounts,               \* sequence number and balance of each account
    header,                 \* of the last closed ledger
    closeTime,
    mPendingTransactions,   \* four generations, the newest first, of a TxMap per account
    mUpgrades,              \* the scheduled upgrades, 0 for none, and their time
    persisted,              \* the same, in the database
    nominated,              \* the value the node nominates, or NoValue
    parity,                 \* of the number of ledgers closed
    err

vars == <<accounts, header, closeTime, mPendingTransactions, mUpgrades, persisted,
          nominated, parity, err>>

Generations == 1..4

NoValue == [txs |-> {}, time |-> 0, upgrades |-> NoUpgrades]

-----------------------------------------------------------------------------
(* HerderImpl::TxMap; an account without transactions has none. *)

NoTxMap == [txs |-> {}, maxSeq |-> 0, totalFees |-> 0]

FeesOf(txs) == SumFunction([t \in txs |-> t.fee])

addTx(m, t) ==
    IF t \in m.txs THEN m
    ELSE [txs |-> m.txs \cup {t}, maxSeq |-> Max({t.seq, m.maxSeq}),
          totalFees |-> m.totalFees + t.fee]

recalculate(txs) ==
    [txs |-> txs, maxSeq |-> Max({0} \cup {t.seq : t \in txs}), totalFees |-> FeesOf(txs)]

removeReceivedTxs_stale(pending, drop) ==  \* mutant: TxMap::recalculate is not called
    [i \in Generations |-> [a \in Account |->
        LET m == pending[i][a] IN
        IF m.txs \subseteq drop THEN NoTxMap ELSE [m EXCEPT !.txs = @ \ drop]]]

removeReceivedTxs(pending, drop) ==
    [i \in Generations |-> [a \in Account |->
        LET m == pending[i][a] IN
        IF m.txs \cap drop = {} THEN m
        ELSE IF m.txs \subseteq drop THEN NoTxMap
        ELSE recalculate(m.txs \ drop)]]

updatePendingTransactions_keep(pending, applied) ==  \* mutant: the oldest are not dropped
    LET left == removeReceivedTxs(pending, applied) IN
    <<[a \in Account |-> NoTxMap], left[1], left[2],
      [a \in Account |-> recalculate(left[3][a].txs \cup left[4][a].txs)]>>

\* The oldest generation is dropped.
updatePendingTransactions(pending, applied) ==
    [i \in Generations |-> IF i = 1 THEN [a \in Account |-> NoTxMap]
                           ELSE removeReceivedTxs(pending, applied)[i - 1]]

Pending == UNION {mPendingTransactions[i][a].txs : i \in Generations, a \in Account}

-----------------------------------------------------------------------------
(* TransactionFrame::checkValid: `current' is the sequence number before t, or 0 *)
(* for the one of the account.                                                   *)

checkValidTx(t, current) ==
    /\ closeTime <= t.maxTime
    /\ t.fee >= header["baseFee"]
    /\ t.seq = 1 + IF current = 0 THEN accounts[t.src].seq ELSE current
    /\ accounts[t.src].balance >= t.fee

-----------------------------------------------------------------------------
(* TxSetFrame *)

\* The transactions of txs that their accounts can add after number q - 1: one at most,
\* but for transactions with the same number.
FollowingAt(txs, a, q) ==
    {t \in txs : t.src = a /\ t.seq = q /\ checkValidTx(t, q - 1)}

\* Of one account's transactions, in the order of their numbers, those that follow each
\* other from the account's number on; of several with the same number any one.
RunOf(txs, a) ==
    {t \in txs :
        /\ t.src = a /\ t.seq > accounts[a].seq
        /\ \A q \in (accounts[a].seq + 1)..t.seq : FollowingAt(txs, a, q) # {}
        /\ t = CHOOSE u \in FollowingAt(txs, a, t.seq) : TRUE}

\* None of an account that cannot pay for those it keeps.
checkOrTrim(txs) ==
    {t \in txs : t \in RunOf(txs, t.src) /\ FeesOf(RunOf(txs, t.src)) <= accounts[t.src].balance}

trimInvalid(txs) == checkOrTrim(txs)

\* The ratio an account pays is that of its cheapest transaction, so that what is
\* left of an account is a prefix.  The minimum fee of one operation is the same
\* for all.
Ratio(txs, a) == Min({t.fee : t \in {x \in txs : x.src = a}})

\* SurgeSorter
Before(txs, s, t) ==
    IF s.src = t.src THEN s.seq < t.seq
    ELSE IF Ratio(txs, s.src) # Ratio(txs, t.src) THEN Ratio(txs, s.src) > Ratio(txs, t.src)
    ELSE AccountOrder[s.src] < AccountOrder[t.src]

surgePricingFilter_perTx(txs) ==  \* mutant: by what each transaction pays
    LET Cheaper(s, t) == IF s.fee # t.fee THEN s.fee > t.fee ELSE Before(txs, s, t)
    IN  {t \in txs : Cardinality({s \in txs : Cheaper(s, t)}) < header["maxTxSetSize"]}

\* The first maxTxSetSize transactions in this order.
surgePricingFilter(txs) ==
    {t \in txs : Cardinality({s \in txs : Before(txs, s, t)}) < header["maxTxSetSize"]}

checkValid(txs) ==
    /\ Cardinality(txs) <= header["maxTxSetSize"]
    /\ checkOrTrim(txs) = txs

-----------------------------------------------------------------------------
(* Upgrades *)

timeForUpgrade == mUpgrades.time <= closeTime

createUpgradesFor ==
    [u \in Upgrade |-> IF timeForUpgrade /\ mUpgrades.to[u] # header[u] THEN mUpgrades.to[u] ELSE 0]

\* For an upgrade that is not 0; what others nominate is taken only if it is
\* scheduled here, what is agreed on only has to make sense.
isValid(u, v, nomination) ==
    /\ nomination => timeForUpgrade /\ v = mUpgrades.to[u]
    /\ u = "version" => v <= LEDGER_PROTOCOL_VERSION /\ v > header[u]

removeUpgrades(upgrades) ==
    [mUpgrades EXCEPT !.to = [u \in Upgrade |-> IF upgrades[u] = @[u] THEN 0 ELSE @[u]]]

-----------------------------------------------------------------------------
(* Values *)

checkCloseTime(time) == time > closeTime \/ time = MaxTime

validateValue(v, nomination) ==
    /\ checkCloseTime(v.time)
    /\ checkValid(v.txs)
    /\ \A u \in Upgrade : v.upgrades[u] # 0 => isValid(u, v.upgrades[u], nomination)

\* The largest set of transactions, of several the one with some hash; the latest
\* time and of each upgrade the highest.
combineCandidates(cands, best) ==
    [txs |-> trimInvalid(best.txs), time |-> Max({c.time : c \in cands}),
     upgrades |-> [u \in Upgrade |-> Max({c.upgrades[u] : c \in cands})]]

-----------------------------------------------------------------------------
(* Steps of the event loop *)

Init ==
    /\ accounts = [a \in Account |-> [seq |-> 0, balance |-> InitialBalance[a]]]
    /\ header = InitialHeader
    /\ closeTime = 0
    /\ mPendingTransactions = [i \in Generations |-> [a \in Account |-> NoTxMap]]
    /\ mUpgrades = [to |-> NoUpgrades, time |-> 0]
    /\ persisted = mUpgrades
    /\ nominated = NoValue
    /\ parity = 0
    /\ err = ""

Running == err = ""

recvTransaction(t) ==
    /\ Running
    /\ LET maps == [i \in Generations |-> mPendingTransactions[i][t.src]]
           totFee == t.fee + SumFunction([i \in Generations |-> maps[i].totalFees])
           highSeq == Max({maps[i].maxSeq : i \in Generations})
       IN  /\ \A i \in Generations : t \notin maps[i].txs
           /\ checkValidTx(t, highSeq)
           /\ accounts[t.src].balance >= totFee
    /\ mPendingTransactions' = [mPendingTransactions EXCEPT ![1][t.src] = addTx(@, t)]
    /\ UNCHANGED <<accounts, header, closeTime, mUpgrades, persisted, nominated, parity, err>>

\* HerderImpl::triggerNextLedger
triggerNextLedger ==
    /\ Running
    /\ LET valid    == trimInvalid(Pending)
           proposed == surgePricingFilter(valid)
       IN  /\ mPendingTransactions' = removeReceivedTxs(mPendingTransactions, Pending \ valid)
           /\ IF checkValid(proposed)
              THEN /\ nominated' = [txs |-> proposed, time |-> Min({closeTime + 1, MaxTime}),
                                    upgrades |-> createUpgradesFor]
                   /\ UNCHANGED err
              ELSE /\ err' = "wanting to emit an invalid txSet"
                   /\ UNCHANGED nominated
    /\ UNCHANGED <<accounts, header, closeTime, mUpgrades, persisted, parity>>

\* setUpgrades, by the operator; the version has to be supported.
setUpgrades(to, time) ==
    /\ Running
    /\ to["version"] <= LEDGER_PROTOCOL_VERSION
    /\ mUpgrades' = [to |-> to, time |-> time]
    /\ persisted' = mUpgrades'
    /\ UNCHANGED <<accounts, header, closeTime, mPendingTransactions, nominated, parity, err>>

\* What the next of its transactions does to an account, if there is one.
apply(x, next) ==
    IF next = {} THEN x
    ELSE LET t == CHOOSE u \in next : TRUE
         IN  [seq |-> t.seq,
              balance |-> IF x.balance >= t.pays THEN x.balance - t.pays ELSE x.balance]

\* All fees, then the transactions in the order of their numbers.  One that is too late by
\* the new close time is not applied and leaves the sequence number alone, so that none
\* after it is applied.
accountAfter(a, v) ==
    LET own == {t \in v.txs : t.src = a}
        paid == [accounts[a] EXCEPT !.balance = @ - Min({@, FeesOf(own)})]
        NextOf(x) == {t \in own : t.seq = x.seq + 1 /\ v.time <= t.maxTime}
        after[k \in 0..Cardinality(own)] ==
            IF k = 0 THEN paid ELSE apply(after[k - 1], NextOf(after[k - 1]))
    IN  after[Cardinality(own)]

\* LedgerManagerImpl::closeLedger
closeLedger(v) ==
    /\ accounts' = [a \in Account |-> accountAfter(a, v)]
    /\ header' = [u \in Upgrade |-> IF v.upgrades[u] # 0 THEN v.upgrades[u] ELSE header[u]]
    /\ closeTime' = v.time
    /\ parity' = 1 - parity

\* HerderImpl::valueExternalized, for what SCP agreed on.
valueExternalized(v) ==
    /\ closeLedger(v)
    /\ mUpgrades' = removeUpgrades(v.upgrades)
    /\ persisted' = mUpgrades'
    /\ mPendingTransactions' = updatePendingTransactions(mPendingTransactions, v.txs)
    /\ nominated' = NoValue

\* What other nodes may nominate: they follow the same rules on the same ledger.
Others ==
    {v \in [txs : {checkOrTrim(T) : T \in SUBSET Tx}, time : {Min({closeTime + 1, MaxTime})},
            upgrades : OtherUpgrades] : validateValue(v, FALSE)}

\* The candidates are confirmed values of this and of other nodes; their combination
\* is what the ballot protocol starts with.
Externalize(cands, best) ==
    /\ Running
    /\ best \in cands /\ \A c \in cands : Cardinality(c.txs) <= Cardinality(best.txs)
    /\ LET v == combineCandidates(cands, best) IN
       IF validateValue(v, FALSE)
       THEN valueExternalized(v) /\ UNCHANGED err
       ELSE /\ err' = "combined candidates are not valid"
            /\ UNCHANGED <<accounts, header, closeTime, mPendingTransactions, mUpgrades,
                           persisted, nominated, parity>>

\* The queue is lost, the schedule is not (restoreUpgrades).
Restart ==
    /\ Running
    /\ mPendingTransactions' = [i \in Generations |-> [a \in Account |-> NoTxMap]]
    /\ mUpgrades' = persisted
    /\ nominated' = NoValue
    /\ UNCHANGED <<accounts, header, closeTime, persisted, parity, err>>

\* A candidate is a value that every node on which it rests, this one too, found valid.
LedgerCloses ==
    \E other \in Others :
        \/ \E best \in {other} : Externalize({other}, best)
        \/ /\ nominated # NoValue /\ validateValue(nominated, FALSE)
           /\ \E best \in {other, nominated} : Externalize({other, nominated}, best)

Next ==
    \/ \E t \in Tx : recvTransaction(t)
    \/ triggerNextLedger
    \/ \E to \in Schedules, time \in 0..MaxTime : setUpgrades(to, time)
    \/ LedgerCloses
    \/ Restart

Spec == Init /\ [][Next]_vars

\* The network goes on closing ledgers.
FairSpec == Spec /\ []<>(parity = 0) /\ []<>(parity = 1)

-----------------------------------------------------------------------------

\* Whatever waits in the queue, and whatever became of it since it was accepted
\* (fees raised, accounts emptied, transactions outdated or replaced), the set that is
\* proposed is valid, and so are candidates that are combined: triggerNextLedger never
\* throws "wanting to emit an invalid txSet".
ProposalsAreValid == err = ""

\* What recvTransaction relies on: each TxMap's highest sequence number and total
\* fees are those of its transactions, and no transaction waits twice.
QueueTotalsAreExact ==
    \A i \in Generations, a \in Account :
        LET m == mPendingTransactions[i][a] IN
        /\ m = recalculate(m.txs)
        /\ \A j \in Generations \ {i} : m.txs \cap mPendingTransactions[j][a].txs = {}

\* A transaction does not wait for ever: it is applied, found invalid, or dropped
\* with its generation.
TransactionsLeaveTheQueue == \A t \in Tx : t \in Pending ~> t \notin Pending
=============================================================================
