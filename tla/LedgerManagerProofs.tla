------------------------- MODULE LedgerManagerProofs -------------------------
(***************************************************************************)
(* Proofs about Checkpoints and LedgerManager, for every checkpoint        *)
(* frequency and every number of ledgers, restarts and failures: the       *)
(* arithmetic of catchup ranges, the invariant of the ledger manager, that *)
(* no assertion but the replay's fails, and that only buckets skip ledgers.*)
(***************************************************************************)
EXTENDS LedgerManager, TLAPS

Ranges == [first : Int, last : Nat, buckets : BOOLEAN]

-----------------------------------------------------------------------------
(* Multiples. *)

\* Division rounds down.
LEMMA DivBounds ==
    ASSUME NEW n \in Int, NEW d \in Nat, d > 0
    PROVE  /\ n \div d \in Int
           /\ (n \div d) * d \in Int
           /\ (n \div d) * d <= n /\ n < (n \div d) * d + d
  BY Z3

\* Multiples less than one step apart are the same.
LEMMA SameMultiple ==
    ASSUME NEW k \in Int, NEW m \in Int, NEW d \in Nat, d > 0,
           k * d < m * d + d, m * d < k * d + d
    PROVE  k = m
  BY Z3

\* A multiple that is below another one is at least one step below.
LEMMA NextMultiple ==
    ASSUME NEW k \in Int, NEW m \in Int, NEW d \in Nat, d > 0, k * d < m * d
    PROVE  k * d + d <= m * d
  BY Z3

\* Multiples have no remainder, and nothing else has none.
LEMMA ModMultiple ==
    ASSUME NEW k \in Int, NEW d \in Nat, d > 0
    PROVE  k * d \in Int /\ (k * d) % d = 0
  BY Z3

\* What has no remainder is a multiple.
LEMMA MultipleOfMod ==
    ASSUME NEW n \in Int, NEW d \in Nat, d > 0, n % d = 0
    PROVE  n = (n \div d) * d /\ n \div d \in Int
  BY Z3

-----------------------------------------------------------------------------
(* Checkpoints. *)

\* The checkpoint of a ledger is the first boundary at or after it
\* (HistoryManagerImpl::checkpointContainingLedger).
LEMMA ContainingLedger ==
    ASSUME NEW l \in Nat
    PROVE  /\ checkpointContainingLedger(l) \in Nat
           /\ l <= checkpointContainingLedger(l)
           /\ checkpointContainingLedger(l) < l + getCheckpointFrequency
           /\ \E k \in Int : checkpointContainingLedger(l) + 1 = k * getCheckpointFrequency
  <1> DEFINE F == getCheckpointFrequency
             q == (l + F) \div F
  <1>1. F \in Nat /\ F > 1  BY FrequencyAssumption
  <1> HIDE DEF F
  <1>2. q \in Int /\ q * F \in Int /\ q * F <= l + F /\ l + F < q * F + F  BY <1>1, DivBounds
  <1>3. checkpointContainingLedger(l) = q * F - 1
    <2>1. l + 1 # 0 /\ (l + 1) + F - 1 = l + F  BY <1>1
    <2>2. nextCheckpointLedger(l + 1) = (((l + 1) + F - 1) \div F) * F
      BY <2>1 DEF nextCheckpointLedger, F
    <2> QED  BY <2>1, <2>2 DEF checkpointContainingLedger
  <1> HIDE DEF q
  <1>4. q * F - 1 + 1 = q * F  BY <1>2
  <1>5. q * F - 1 \in Nat /\ l <= q * F - 1 /\ q * F - 1 < l + F  BY <1>1, <1>2
  <1> QED  BY <1>2, <1>3, <1>4, <1>5 DEF F

\* A boundary is its own checkpoint.
LEMMA BoundaryContainsItself ==
    ASSUME NEW c \in Nat, NEW k \in Int, c + 1 = k * getCheckpointFrequency
    PROVE  checkpointContainingLedger(c) = c
  <1> DEFINE F == getCheckpointFrequency
  <1>1. F \in Nat /\ F > 0  BY FrequencyAssumption
  <1>2. PICK m \in Int : checkpointContainingLedger(c) + 1 = m * F  BY ContainingLedger
  <1>3. /\ checkpointContainingLedger(c) \in Nat
        /\ c <= checkpointContainingLedger(c) /\ checkpointContainingLedger(c) < c + F
    BY ContainingLedger
  <1>4. k * F < m * F + F /\ m * F < k * F + F  BY <1>1, <1>2, <1>3
  <1> HIDE DEF F
  <1>5. k = m  BY <1>1, <1>4, SameMultiple
  <1> QED  BY <1>2, <1>3, <1>5 DEF F

\* The file of a checkpoint starts where the checkpoint before it ends
\* (StateSnapshot::writeHistoryBlocks).
LEMMA FileOfBoundary ==
    ASSUME NEW c \in Nat, NEW k \in Int, c + 1 = k * getCheckpointFrequency
    PROVE  prevCheckpointLedger(c) = c + 1 - getCheckpointFrequency
  <1> DEFINE F == getCheckpointFrequency
             q == c \div F
  <1>1. F \in Nat /\ F > 1  BY FrequencyAssumption
  <1> HIDE DEF F
  <1>2. q \in Int /\ q * F \in Int /\ q * F <= c /\ c < q * F + F  BY <1>1, DivBounds
  <1>3. c + 1 = k * F  BY DEF F
  <1>4. k - 1 \in Int /\ (k - 1) * F = k * F - F /\ k * F \in Int  BY <1>1
  <1> HIDE DEF q
  <1>5. q * F < (k - 1) * F + F /\ (k - 1) * F < q * F + F  BY <1>1, <1>2, <1>3, <1>4
  <1>6. q = k - 1  BY <1>1, <1>2, <1>4, <1>5, SameMultiple
  <1>7. prevCheckpointLedger(c) = q * F  BY DEF prevCheckpointLedger, q, F
  <1>8. q * F = c + 1 - F  BY <1>1, <1>3, <1>4, <1>6
  <1> QED  BY <1>7, <1>8 DEF F

-----------------------------------------------------------------------------
(* Ranges. *)

\* The first ledger that has to be applied is between the last closed one and the
\* target, and no closer to the target than the count asks for.
LEMMA SmallestLedgerToApply ==
    ASSUME NEW lcl \in Nat, NEW to \in Nat, NEW count \in Nat, lcl <= to, to > 0,
           NEW L, L = Larger(firstNeededLedger(to, count), lcl),
           NEW n, n = Larger(count, 1)
    PROVE  /\ L \in Nat /\ n \in Nat /\ n >= 1 /\ n >= count
           /\ lcl <= L /\ L <= to
           /\ to - L + 1 <= n
           /\ L > lcl + 1 => to - L + 1 = n
  BY DEF Larger, firstNeededLedger, GENESIS_LEDGER_SEQ

\* A catchup without buckets that starts in the checkpoint of ledger L connects if
\* that checkpoint is not later than the first unfinished one.
LEMMA ConnectsWithoutBuckets ==
    ASSUME NEW lcl \in Nat, NEW L \in Nat, lcl <= L,
           checkpointContainingLedger(L) - getCheckpointFrequency
               < firstNotFinishedCheckpoint(lcl)
    PROVE  /\ FirstLedgerIn(checkpointContainingLedger(L)) <= lcl + 1
           /\ checkpointContainingLedger(L) <= lcl + getCheckpointFrequency
  <1> DEFINE F == getCheckpointFrequency
             c == checkpointContainingLedger(L)
             d == checkpointContainingLedger(lcl)
             f == firstNotFinishedCheckpoint(lcl)
  <1>1. F \in Nat /\ F > 1  BY FrequencyAssumption
  <1>2. PICK k \in Int : c + 1 = k * F  BY ContainingLedger
  <1>3. PICK m \in Int : d + 1 = m * F  BY ContainingLedger
  <1>4. c \in Nat /\ d \in Nat /\ lcl <= d /\ d < lcl + F  BY ContainingLedger
  <1>5. f = (IF lcl < d THEN d ELSE d + F) /\ c - F < f  BY DEF firstNotFinishedCheckpoint
  <1>6. prevCheckpointLedger(c) = c + 1 - F  BY <1>2, <1>4, FileOfBoundary
  <1> HIDE DEF F, c, d, f
  <1>7. c <= f
    <2>1. PICK j \in Int : f + 1 = j * F
      <3>1. CASE lcl < d  BY <1>3, <1>5, <3>1
      <3>2. CASE ~ (lcl < d)
        <4>1. m + 1 \in Int /\ (m + 1) * F = m * F + F  BY <1>1
        <4>2. f + 1 = (m + 1) * F  BY <1>1, <1>3, <1>4, <1>5, <3>2, <4>1
        <4> QED  BY <4>1, <4>2
      <3> QED  BY <3>1, <3>2
    <2>2. f \in Int  BY <1>1, <1>4, <1>5
    <2>3. SUFFICES ASSUME f < c PROVE FALSE  BY <1>4, <2>2
    <2>4. j * F < k * F  BY <1>2, <1>4, <2>1, <2>2, <2>3
    <2>5. j * F + F <= k * F  BY <1>1, <2>4, NextMultiple
    <2> QED  BY <1>1, <1>2, <1>4, <1>5, <2>1, <2>2, <2>5
  <1>8. c <= lcl + F /\ c + 1 - F <= lcl + 1  BY <1>1, <1>4, <1>5, <1>7
  <1>9. FirstLedgerIn(c) <= lcl + 1
    BY <1>1, <1>4, <1>6, <1>8 DEF FirstLedgerIn, Larger, GENESIS_LEDGER_SEQ
  <1> QED  BY <1>8, <1>9 DEF c, F

\* Buckets are applied from a boundary.
LEMMA BoundaryHasNoRemainder ==
    ASSUME NEW c \in Int, NEW k \in Int, c + 1 = k * getCheckpointFrequency
    PROVE  (c + 1) % getCheckpointFrequency = 0
  <1>1. getCheckpointFrequency \in Nat /\ getCheckpointFrequency > 0  BY FrequencyAssumption
  <1> QED  BY <1>1, ModMultiple

\* What CatchupWork::makeCatchupRange promises: the range connects to the last closed
\* ledger, buckets only move forward, and the count is kept, for every frequency.
THEOREM RangeIsSound ==
    ASSUME NEW lcl \in Nat, NEW to \in Nat, NEW count \in Nat, lcl <= to, to > 0
    PROVE  /\ makeCatchupRange(lcl, to, count) \in Ranges
           /\ RangeConnects(makeCatchupRange(lcl, to, count), lcl)
           /\ RangeKeepsCount(makeCatchupRange(lcl, to, count), lcl, count)
  <1> DEFINE F == getCheckpointFrequency
             L == Larger(firstNeededLedger(to, count), lcl)
             n == Larger(count, 1)
             c == checkpointContainingLedger(L)
             start == computeCatchupStart(L, firstNotFinishedCheckpoint(lcl))
             r == makeCatchupRange(lcl, to, count)
  <1>1. F \in Nat /\ F > 1  BY FrequencyAssumption
  <1>2. /\ L \in Nat /\ n \in Nat /\ n >= 1 /\ n >= count /\ lcl <= L /\ L <= to
        /\ to - L + 1 <= n
        /\ L > lcl + 1 => to - L + 1 = n
    BY SmallestLedgerToApply
  <1>3. r = [first |-> start.first, last |-> to,
             buckets |-> start.buckets /\ start.first > lcl + 1]
    BY DEF makeCatchupRange
  <1> HIDE DEF L, n, r
  <1>4. c \in Nat /\ L <= c /\ c < L + F  BY <1>2, ContainingLedger
  <1>5. PICK k \in Int : c + 1 = k * F  BY <1>2, ContainingLedger
  <1>6. k - 1 \in Int /\ (k - 1) * F = k * F - F  BY <1>1
  <1> SUFFICES r \in Ranges /\ RangeConnects(r, lcl) /\ RangeKeepsCount(r, lcl, count)
    BY DEF r
  \* It is enough to look at the start: buckets of a later boundary, or the transactions
  \* of a file that connects.
  <1>7. ASSUME NEW x \in Int, start = [buckets |-> TRUE, first |-> x], x > lcl + 1,
               (x + 1) % F = 0, x <= to, to - x + 1 >= n, to - x + 1 <= n + F
        PROVE  r \in Ranges /\ RangeConnects(r, lcl) /\ RangeKeepsCount(r, lcl, count)
    <2>1. r = [first |-> x, last |-> to, buckets |-> TRUE]
      <3>1. (start.buckets /\ start.first > lcl + 1) = TRUE  BY <1>7
      <3>2. start.first = x  BY <1>7
      <3> HIDE DEF start
      <3> QED  BY <1>3, <3>1, <3>2, Zenon
    <2>2. r.first = x /\ r.last = to /\ r.buckets  BY <2>1
    <2>3. r \in Ranges  BY <2>1, Zenon DEF Ranges
    <2>4. RangeConnects(r, lcl)  BY <1>1, <1>7, <2>2 DEF RangeConnects
    <2>5. Applied(r, lcl) = to - x + 1  BY <2>2 DEF Applied
    <2>6. RangeKeepsCount(r, lcl, count)
      BY <1>1, <1>2, <1>7, <2>2, <2>5 DEF RangeKeepsCount, n
    <2> QED  BY <2>3, <2>4, <2>6
  <1>8. ASSUME NEW x \in Int, start.first = x, ~ start.buckets \/ x <= lcl + 1,
                FirstLedgerIn(checkpointContainingLedger(x)) <= lcl + 1,
                to - lcl <= n + F
         PROVE  r \in Ranges /\ RangeConnects(r, lcl) /\ RangeKeepsCount(r, lcl, count)
    <2>1. r = [first |-> x, last |-> to, buckets |-> FALSE]
      <3>1. (start.buckets /\ start.first > lcl + 1) = FALSE  BY <1>8
      <3> QED  BY <1>3, <1>8, <3>1
    <2>2. r.first = x /\ r.last = to /\ ~ r.buckets  BY <2>1
    <2>3. r \in Ranges  BY <2>1, Zenon DEF Ranges
    <2>4. RangeConnects(r, lcl)  BY <1>8, <2>2 DEF RangeConnects
    <2>5. Applied(r, lcl) = to - lcl  BY <2>2 DEF Applied
    <2>6. RangeKeepsCount(r, lcl, count)
      BY <1>1, <1>2, <1>8, <2>2, <2>5 DEF RangeKeepsCount, n
    <2> QED  BY <2>3, <2>4, <2>6
  <1>9. CASE L = c
    <2>1. start = [buckets |-> TRUE, first |-> c]  BY <1>9 DEF computeCatchupStart
    <2>2. (c + 1) % F = 0  BY <1>4, <1>5, BoundaryHasNoRemainder
    <2>3. c <= lcl + 1 => FirstLedgerIn(checkpointContainingLedger(c)) <= lcl + 1
      <3>1. checkpointContainingLedger(c) = c  BY <1>4, <1>5, BoundaryContainsItself
      <3>2. prevCheckpointLedger(c) = c + 1 - F  BY <1>4, <1>5, FileOfBoundary
      <3> QED  BY <1>1, <1>4, <3>1, <3>2 DEF FirstLedgerIn, Larger, GENESIS_LEDGER_SEQ
    <2>4. c > lcl + 1 => c <= to /\ to - c + 1 >= n /\ to - c + 1 <= n + F
      BY <1>1, <1>2, <1>9
    <2>5. c <= lcl + 1 => to - lcl <= n + F  BY <1>1, <1>2, <1>9
    <2>6. start.first = c  BY <2>1
    <2> HIDE DEF F, c, start
    <2>7. CASE c > lcl + 1  BY <1>4, <1>7, <2>1, <2>2, <2>4, <2>7
    <2>8. CASE c <= lcl + 1  BY <1>4, <1>8, <2>3, <2>5, <2>6, <2>8
    <2> QED  BY <1>4, <2>7, <2>8
  <1>10. CASE L # c /\ L >= F - 1 /\ c - F >= firstNotFinishedCheckpoint(lcl)
    <2>1. start = [buckets |-> TRUE, first |-> c - F]  BY <1>10 DEF computeCatchupStart
    <2>2. /\ checkpointContainingLedger(lcl) \in Nat
          /\ lcl <= checkpointContainingLedger(lcl)
      BY ContainingLedger
    <2>3. c - F \in Nat /\ lcl <= c - F
      BY <1>1, <1>4, <1>10, <2>2 DEF firstNotFinishedCheckpoint
    <2>4. (c - F) + 1 = (k - 1) * F  BY <1>1, <1>4, <1>5, <1>6
    <2>5. ((c - F) + 1) % F = 0  BY <1>6, <2>3, <2>4, BoundaryHasNoRemainder
    <2>6. c - F <= lcl + 1 => FirstLedgerIn(checkpointContainingLedger(c - F)) <= lcl + 1
      <3>1. checkpointContainingLedger(c - F) = c - F
        BY <1>6, <2>3, <2>4, BoundaryContainsItself
      <3>2. prevCheckpointLedger(c - F) = (c - F) + 1 - F  BY <1>6, <2>3, <2>4, FileOfBoundary
      <3> QED  BY <1>1, <2>3, <3>1, <3>2 DEF FirstLedgerIn, Larger, GENESIS_LEDGER_SEQ
    <2>7. c - F > lcl + 1 => c - F <= to /\ to - (c - F) + 1 >= n /\ to - (c - F) + 1 <= n + F
      BY <1>1, <1>2, <1>4
    <2>8. c - F <= lcl + 1 => to - lcl <= n + F  BY <1>1, <1>2, <1>4, <2>3
    <2>9. start.first = c - F  BY <2>1
    <2> HIDE DEF F, c, start
    <2>10. CASE c - F > lcl + 1  BY <1>7, <2>1, <2>3, <2>5, <2>7, <2>10
    <2>11. CASE c - F <= lcl + 1  BY <1>8, <2>3, <2>6, <2>8, <2>9, <2>11
    <2> QED  BY <2>3, <2>10, <2>11
  <1>11. CASE L # c /\ ~ (L >= F - 1 /\ c - F >= firstNotFinishedCheckpoint(lcl))
    <2>1. start = [buckets |-> FALSE, first |-> L]  BY <1>11 DEF computeCatchupStart
    <2>2. firstNotFinishedCheckpoint(lcl) \in Nat
      BY <1>1, ContainingLedger DEF firstNotFinishedCheckpoint
    <2>3. c - F < firstNotFinishedCheckpoint(lcl)
      <3>1. CASE L < F - 1
        <4>1. c - F < 0
          <5>1. SUFFICES ASSUME c >= F PROVE FALSE  BY <1>1, <1>4
          <5>2. k * F < 2 * F /\ 1 * F < k * F  BY <1>1, <1>2, <1>4, <1>5, <3>1, <5>1
          <5> HIDE DEF F
          <5>3. 1 * F + F <= k * F  BY <1>1, <5>2, NextMultiple
          <5> QED  BY <1>1, <5>2, <5>3
        <4> QED  BY <1>1, <1>4, <2>2, <4>1
      <3>2. CASE L >= F - 1  BY <1>1, <1>4, <1>11, <2>2, <3>2
      <3> QED  BY <1>1, <1>2, <3>1, <3>2
    <2>4. FirstLedgerIn(c) <= lcl + 1 /\ c <= lcl + F
      BY <1>2, <2>3, ConnectsWithoutBuckets
    <2>5. to - lcl <= n + F  BY <1>1, <1>2, <1>4, <2>4
    <2>6. start.first = L /\ ~ start.buckets  BY <2>1
    <2> HIDE DEF F, start
    <2> QED  BY <1>2, <1>8, <2>4, <2>5, <2>6
  <1> QED  BY <1>9, <1>10, <1>11

-----------------------------------------------------------------------------
(* The catchup work. *)

Works == [phase : {"none", "state", "ledgers", "buckets", "transactions"},
          manual : BOOLEAN, to : Nat, count : Nat, lcl : Nat, range : Ranges]

\* A trigger ledger is a natural number.
LEMMA TriggerType ==
    ASSUME NEW x \in Nat
    PROVE  nextCheckpointLedger(x) \in Nat
  <1>1. CASE x = 0  BY <1>1, FrequencyAssumption DEF nextCheckpointLedger
  <1>2. CASE x # 0
    <2> DEFINE F == getCheckpointFrequency
               q == (x + F - 1) \div F
    <2>1. q \in Nat  BY <1>2, FrequencyAssumption
    <2>2. q * F \in Nat  BY <2>1, FrequencyAssumption
    <2> QED  BY <1>2, <2>2 DEF nextCheckpointLedger
  <1> QED  BY <1>1, <1>2

-----------------------------------------------------------------------------
(* The buffer. *)

\* No gaps, and nothing that was not externalized: the first part of BufferSound.
Contiguous(chain, top) ==
    \A i \in 1..Len(chain) : chain[i] = chain[1] + i - 1 /\ chain[i] <= top

\* Pushing a ledger that is newer than all others keeps the chain contiguous
\* (SyncingLedgerChain::push).
LEMMA PushContiguous ==
    ASSUME NEW chain \in Seq(Nat), NEW top \in Nat, NEW seq \in Nat,
           Contiguous(chain, top), seq > top
    PROVE  /\ push(chain, seq) \in Seq(Nat)
           /\ push(chain, seq) # <<>>
           /\ Contiguous(push(chain, seq), seq)
           /\ push(chain, seq)[1] = IF chain = <<>> THEN seq ELSE chain[1]
  <1>1. CASE chain = <<>>
    <2>1. push(chain, seq) = <<seq>>  BY <1>1 DEF push
    <2>2. <<seq>> \in Seq(Nat) /\ Len(<<seq>>) = 1 /\ <<seq>>[1] = seq /\ <<seq>> # <<>>
      OBVIOUS
    <2>3. Contiguous(<<seq>>, seq)  BY <2>2 DEF Contiguous
    <2> QED  BY <1>1, <2>1, <2>2, <2>3
  <1>2. CASE chain # <<>> /\ chain[Len(chain)] + 1 = seq
    <2>1. push(chain, seq) = Append(chain, seq)  BY <1>2 DEF push
    <2>2. Len(chain) \in Nat /\ Len(chain) > 0  BY <1>2
    <2>3. chain[Len(chain)] = chain[1] + Len(chain) - 1  BY <2>2 DEF Contiguous
    <2>4. \A i \in 1..Len(chain) : Append(chain, seq)[i] = chain[i]  OBVIOUS
    <2>5. Append(chain, seq)[Len(chain) + 1] = seq  OBVIOUS
    <2>6. \A i \in 1..Len(chain) : chain[i] \in Nat  OBVIOUS
    <2>7. ASSUME NEW i \in 1..(Len(chain) + 1)
          PROVE  /\ Append(chain, seq)[i] = Append(chain, seq)[1] + i - 1
                 /\ Append(chain, seq)[i] <= seq
      <3>1. CASE i = Len(chain) + 1  BY <3>1, <1>2, <2>2, <2>3, <2>4, <2>5, <2>6
      <3>2. CASE i \in 1..Len(chain)  BY <3>2, <2>2, <2>4, <2>6 DEF Contiguous
      <3> QED  BY <3>1, <3>2, <2>2
    <2>8. Append(chain, seq) \in Seq(Nat) /\ Len(Append(chain, seq)) = Len(chain) + 1  OBVIOUS
    <2>9. Contiguous(Append(chain, seq), seq)  BY <2>7, <2>8 DEF Contiguous
    <2>10. Append(chain, seq) # <<>>  BY <2>2, <2>8
    <2>11. Append(chain, seq)[1] = chain[1]  BY <2>2, <2>4
    <2> QED  BY <1>2, <2>1, <2>8, <2>9, <2>10, <2>11
  <1>3. CASE chain # <<>> /\ chain[Len(chain)] + 1 # seq
    <2>1. push(chain, seq) = chain  BY <1>3 DEF push
    <2>2. \A i \in 1..Len(chain) : chain[i] \in Nat  OBVIOUS
    <2> QED  BY <1>3, <2>1, <2>2 DEF Contiguous
  <1> QED  BY <1>1, <1>2, <1>3

\* What is left after the first ledger is contiguous (SyncingLedgerChain::pop).
LEMMA PopContiguous ==
    ASSUME NEW chain \in Seq(Nat), NEW top \in Nat, chain # <<>>, Contiguous(chain, top)
    PROVE  Tail(chain) \in Seq(Nat) /\ Contiguous(Tail(chain), top)
  <1>1. /\ Tail(chain) \in Seq(Nat) /\ Len(Tail(chain)) = Len(chain) - 1
        /\ \A i \in 1..(Len(chain) - 1) : Tail(chain)[i] = chain[i + 1]
    OBVIOUS
  <1>2. \A i \in 1..Len(chain) : chain[i] \in Nat  OBVIOUS
  <1>3. Len(chain) \in Nat  OBVIOUS
  <1>4. ASSUME NEW i \in 1..(Len(chain) - 1)
        PROVE  chain[i + 1] = chain[2] + i - 1 /\ chain[i + 1] <= top
    <2>1. i + 1 \in 1..Len(chain) /\ 2 \in 1..Len(chain) /\ 1 \in 1..Len(chain)  BY <1>3
    <2>2. chain[2] = chain[1] + 2 - 1 /\ chain[i + 1] = chain[1] + (i + 1) - 1
      BY <2>1 DEF Contiguous
    <2>3. chain[i + 1] <= top  BY <2>1 DEF Contiguous
    <2> QED  BY <1>2, <2>1, <2>2, <2>3
  <1> QED  BY <1>1, <1>3, <1>4 DEF Contiguous

-----------------------------------------------------------------------------
(* The invariant. *)

\* The first part of BufferSound is Contiguous.
LEMMA BufferSoundParts ==
    BufferSound <=>
        /\ Contiguous(mSyncingLedgers, tracking)
        /\ mCatchupState \in {"NONE", "WAITING_FOR_CLOSING_LEDGER"} => mSyncingLedgers = <<>>
        /\ mCatchupState = "WAITING_FOR_TRIGGER_LEDGER" =>
              mSyncingLedgers # <<>> /\ mSyncingLedgers[1] > mLastClosedLedger + 1
  BY DEF BufferSound, Contiguous

\* The node starts with nothing buffered and nothing under way.
LEMMA InitInvariant == Init => IInv
  <1> SUFFICES ASSUME Init PROVE IInv  OBVIOUS
  <1>1. NoWork \in Works  BY DEF NoWork, Works, Ranges
  <1>0. <<>> \in Seq(Nat) /\ Len(<<>>) = 0  OBVIOUS
  <1>2. TypeOK
    <2>1. work \in Works /\ mSyncingLedgers \in Seq(Nat)  BY <1>0, <1>1 DEF Init
    <2>2. posted \in BOOLEAN  BY Zenon DEF Init
    <2>3. 0 \in Nat /\ 1 \in Nat  OBVIOUS
    <2>4. err \in Assertions  BY DEF Init, Assertions
    <2> QED  BY <2>1, <2>2, <2>3, <2>4, Zenon DEF Init, TypeOK, Works, Ranges, GENESIS_LEDGER_SEQ
  <1>3. StatesMatch  BY DEF Init, StatesMatch, NoWork
  <1>4. BufferSound
    <2>1. mSyncingLedgers = <<>> /\ mCatchupState = "NONE"  BY DEF Init
    <2> QED  BY <1>0, <2>1 DEF BufferSound
  <1>5. SyncedIsCurrent  BY DEF Init, SyncedIsCurrent
  <1>6. WorkSound  BY DEF Init, NoWork, WorkSound, RangeSound
  <1> QED  BY <1>2, <1>3, <1>4, <1>5, <1>6 DEF IInv

\* A ledger that is missed, or follows one that was missed: it is buffered, and
\* may start the work (addToSyncingLedgers, startCatchupIf).
LEMMA ContinueInvariant ==
    ASSUME IInv, NEW seq \in Nat, seq > tracking, seq > mLastClosedLedger,
           NEW s, NEW trigger \in Nat,
           \/ s = mCatchupState /\ s \notin {"NONE", "WAITING_FOR_CLOSING_LEDGER"}
           \/ /\ s = "WAITING_FOR_TRIGGER_LEDGER"
              /\ mCatchupState \in {"NONE", "WAITING_FOR_CLOSING_LEDGER"}
              /\ seq # mLastClosedLedger + 1,
           continueCatchup(seq, s, trigger),
           mCatchupTriggerLedger' = trigger,
           tracking' = seq,
           UNCHANGED <<mLastClosedLedger, posted, restarts>>
    PROVE  IInv'
  <1> USE DEF IInv
  <1> DEFINE chain == push(mSyncingLedgers, seq)
  <1>1. /\ chain \in Seq(Nat) /\ chain # <<>>
        /\ Contiguous(chain, seq)
        /\ chain[1] = IF mSyncingLedgers = <<>> THEN seq ELSE mSyncingLedgers[1]
    BY PushContiguous, BufferSoundParts DEF TypeOK
  <1>2. s = "WAITING_FOR_TRIGGER_LEDGER" => chain[1] > mLastClosedLedger + 1 /\ work = NoWork
    BY <1>1, BufferSoundParts DEF TypeOK, StatesMatch
  <1>3. chain[1] \in Nat  BY <1>1 DEF TypeOK
  <1>4. mSyncingLedgers' = chain  BY DEF continueCatchup
  <1> HIDE DEF chain
  <1>5. CASE s = "WAITING_FOR_TRIGGER_LEDGER" /\ seq >= trigger
    <2>1. /\ mState' = "LM_CATCHING_UP" /\ mCatchupState' = "APPLYING_HISTORY"
          /\ startCatchup(chain[1] - 1, Count, FALSE, chain)
      BY <1>5 DEF continueCatchup, setCatchupState, chain
    <2>2. /\ work' = [phase |-> "state", manual |-> FALSE, to |-> chain[1] - 1,
                      count |-> Count, lcl |-> mLastClosedLedger, range |-> NoWork.range]
          /\ err' = err
      <3>1. ~ (chain[1] - 1 # CURRENT /\ chain[1] - 1 <= mLastClosedLedger)
        BY <1>2, <1>3, <1>5 DEF TypeOK
      <3>2. ~ (FALSE # (chain = <<>>))  BY <1>1, Zenon
      <3>3. work = NoWork  BY <1>2, <1>5
      <3> QED  BY <2>1, <3>1, <3>2, <3>3, Zenon DEF startCatchup
    <2>3. TypeOK'
      BY <1>1, <1>2, <1>3, <1>4, <1>5, <2>1, <2>2, BoundAssumption DEF TypeOK, NoWork
    <2>4. StatesMatch'  BY <1>5, <2>1, <2>2 DEF StatesMatch
    <2>5. BufferSound'  BY <1>1, <1>4, <2>1, BufferSoundParts DEF BufferSound, Contiguous
    <2>6. SyncedIsCurrent'  BY <2>1 DEF SyncedIsCurrent
    <2>7. WorkSound'
      <3>1. chain[1] - 1 > mLastClosedLedger  BY <1>2, <1>3, <1>5 DEF TypeOK
      <3> QED  BY <2>2, <3>1 DEF WorkSound, RangeSound
    <2> QED  BY <2>3, <2>4, <2>5, <2>6, <2>7
  <1>6. CASE ~ (s = "WAITING_FOR_TRIGGER_LEDGER" /\ seq >= trigger)
    <2>1. /\ mState' = "LM_CATCHING_UP" /\ mCatchupState' = s
          /\ UNCHANGED <<work, err>>
      BY <1>6 DEF continueCatchup, setCatchupState
    <2>2. s \in {"WAITING_FOR_TRIGGER_LEDGER", "APPLYING_HISTORY", "APPLYING_BUFFERED_LEDGERS"}
      BY DEF TypeOK
    <2>3. TypeOK'  BY <1>1, <1>4, <2>1, <2>2 DEF TypeOK
    <2>4. StatesMatch'  BY <2>1, <2>2 DEF StatesMatch
    <2>5. BufferSound'  BY <1>1, <1>2, <1>4, <2>1, <2>2 DEF BufferSound, Contiguous
    <2>6. SyncedIsCurrent'  BY <2>1 DEF SyncedIsCurrent
    <2>7. WorkSound'  BY <2>1 DEF WorkSound, RangeSound
    <2> QED  BY <2>3, <2>4, <2>5, <2>6, <2>7
  <1> QED  BY <1>5, <1>6

\* A value that the herder externalizes: closed, buffered, or the start of a catchup.
LEMMA ExternalizedInvariant ==
    ASSUME IInv, NEW seq \in Nat, valueExternalized(seq)
    PROVE  IInv'
  <1> USE DEF IInv
  <1>1. /\ seq > tracking /\ seq > mLastClosedLedger /\ tracking' = seq
        /\ UNCHANGED <<posted, restarts>>
    BY DEF valueExternalized
  <1>2. CASE mState # "LM_CATCHING_UP" \/ mCatchupState = "WAITING_FOR_CLOSING_LEDGER"
    <2>1. /\ mCatchupState \in {"NONE", "WAITING_FOR_CLOSING_LEDGER"}
          /\ mSyncingLedgers = <<>>
      BY <1>2 DEF StatesMatch, BufferSound
    <2>2. CASE seq = mLastClosedLedger + 1
      <3>1. /\ mLastClosedLedger' = seq /\ mState' = "LM_SYNCED" /\ mCatchupState' = "NONE"
            /\ UNCHANGED <<mSyncingLedgers, mCatchupTriggerLedger, work, err>>
        BY <1>2, <2>1, <2>2 DEF valueExternalized, closeLedger, setState, StatesMatch
      <3>2. TypeOK'  BY <1>1, <3>1 DEF TypeOK
      <3>3. StatesMatch'  BY <1>1, <2>1, <3>1 DEF StatesMatch
      <3>4. BufferSound'  BY <2>1, <3>1 DEF BufferSound
      <3>5. SyncedIsCurrent'  BY <1>1, <3>1 DEF SyncedIsCurrent
      <3>6. WorkSound'
        <4>1. work'.phase = "none"  BY <2>1, <3>1 DEF StatesMatch, TypeOK
        <4> QED  BY <4>1 DEF WorkSound, RangeSound
      <3> QED  BY <3>2, <3>3, <3>4, <3>5, <3>6
    <2>3. CASE seq # mLastClosedLedger + 1
      <3> DEFINE trigger == nextCheckpointLedger(seq) + 1
      <3>1. initializeCatchup(seq) /\ UNCHANGED mLastClosedLedger
        BY <1>2, <2>1, <2>3 DEF valueExternalized
      <3>2. /\ mCatchupTriggerLedger' = trigger
            /\ continueCatchup(seq, "WAITING_FOR_TRIGGER_LEDGER", trigger)
        BY <2>1, <3>1 DEF initializeCatchup
      <3>3. trigger \in Nat  BY TriggerType
      <3> HIDE DEF trigger
      <3> QED  BY <1>1, <2>1, <2>3, <3>1, <3>2, <3>3, ContinueInvariant
    <2> QED  BY <2>2, <2>3
  <1>3. CASE ~ (mState # "LM_CATCHING_UP" \/ mCatchupState = "WAITING_FOR_CLOSING_LEDGER")
    <2>1. /\ continueCatchup(seq, mCatchupState, mCatchupTriggerLedger)
          /\ UNCHANGED <<mCatchupTriggerLedger, mLastClosedLedger>>
      BY <1>3 DEF valueExternalized
    <2>2. mCatchupState \notin {"NONE", "WAITING_FOR_CLOSING_LEDGER"}
      BY <1>3 DEF StatesMatch
    <2>3. mCatchupTriggerLedger \in Nat  BY DEF TypeOK
    <2> QED  BY <1>1, <2>1, <2>2, <2>3, ContinueInvariant
  <1> QED  BY <1>2, <1>3

\* The catchup command.
LEMMA CommandInvariant ==
    ASSUME IInv, NEW to \in ManualTargets, NEW count \in {0, Count}, catchup(to, count)
    PROVE  IInv'
  <1> USE DEF IInv
  <1>1. mSyncingLedgers = <<>> /\ work = NoWork
    BY DEF catchup, StatesMatch, BufferSound
  <1>2. /\ mState' = "LM_CATCHING_UP" /\ mCatchupState' = "APPLYING_HISTORY"
        /\ startCatchup(to, count, TRUE, mSyncingLedgers)
        /\ UNCHANGED <<mSyncingLedgers, mCatchupTriggerLedger, mLastClosedLedger, posted,
                       tracking, restarts>>
    BY DEF catchup, setCatchupState
  <1>3. to \in Nat /\ count \in Nat  BY BoundAssumption
  <1>4. /\ work' = [phase |-> "state", manual |-> TRUE, to |-> to, count |-> count,
                    lcl |-> mLastClosedLedger, range |-> NoWork.range]
        /\ err' = err
    <2>1. ~ (to # CURRENT /\ to <= mLastClosedLedger)
      BY <1>3 DEF catchup, TypeOK
    <2>2. ~ (TRUE # (mSyncingLedgers = <<>>))  BY <1>1, Zenon
    <2> QED  BY <1>1, <1>2, <2>1, <2>2, Zenon DEF startCatchup
  <1>5. TypeOK'  BY <1>2, <1>3, <1>4 DEF TypeOK, NoWork
  <1>6. StatesMatch'
    <2>1. mCatchupState = "NONE" /\ ~ posted  BY DEF catchup, StatesMatch
    <2> QED  BY <1>2, <1>4, <2>1 DEF StatesMatch
  <1>7. BufferSound'  BY <1>1, <1>2 DEF BufferSound
  <1>8. SyncedIsCurrent'  BY <1>2 DEF SyncedIsCurrent
  <1>9. WorkSound'  BY <1>2, <1>4 DEF WorkSound, RangeSound, catchup
  <1> QED  BY <1>5, <1>6, <1>7, <1>8, <1>9

\* The ledger whose buckets are applied is the start of the range, a later boundary
\* (CatchupWork::applyBuckets, VerifyLedgerChainWork).
LEMMA VerifiedStart ==
    ASSUME IInv, work.phase = "buckets"
    PROVE  /\ mVerifiedLedgerRangeStart = work.range.first
           /\ checkpointContainingLedger(work.range.first) = work.range.first
           /\ work.range.first \in Int /\ work.range.first > mLastClosedLedger
           /\ (work.range.first + 1) % getCheckpointFrequency = 0
  <1> DEFINE x == work.range.first
             F == getCheckpointFrequency
  <1>1. F \in Nat /\ F > 0  BY FrequencyAssumption
  <1>2. x \in Int /\ work.range.last \in Nat /\ mLastClosedLedger \in Nat
    BY DEF IInv, TypeOK
  <1>3. work.lcl = mLastClosedLedger /\ work.range.buckets /\ RangeConnects(work.range, work.lcl)
    BY DEF IInv, WorkSound, RangeSound
  <1>4. (x + 1) % F = 0 /\ x \in (mLastClosedLedger + 2)..work.range.last
    BY <1>3 DEF RangeConnects
  <1>5. x \in Nat /\ x > mLastClosedLedger /\ x <= work.range.last  BY <1>2, <1>4
  <1> HIDE DEF x, F
  <1>6. x + 1 = ((x + 1) \div F) * F /\ (x + 1) \div F \in Int
    BY <1>1, <1>2, <1>4, MultipleOfMod
  <1>7. checkpointContainingLedger(x) = x  BY <1>5, <1>6, BoundaryContainsItself DEF F
  <1> QED  BY <1>4, <1>5, <1>7 DEF mVerifiedLedgerRangeStart, x, F

\* The steps of CatchupWork, and its failure.
LEMMA WorkInvariant ==
    ASSUME IInv, WorkStep \/ historyCaughtupError
    PROVE  IInv'
  <1> USE DEF IInv
  <1>0. /\ mState = "LM_CATCHING_UP" /\ mCatchupState = "APPLYING_HISTORY" /\ ~ posted
        /\ work \in Works
    BY DEF WorkStep, GotHistoryArchiveState, VerifiedLedgers, AppliedBuckets,
           applyHistoryOfSingleLedger, CatchupFinished, historyCaughtupError, CatchupStarted,
           StatesMatch, TypeOK, Works, Ranges
  <1>1. CASE historyCaughtupError
    <2>1. /\ mState' = "LM_BOOTING" /\ mCatchupState' = "NONE" /\ work' = NoWork
          /\ mSyncingLedgers' = <<>>
          /\ UNCHANGED <<mCatchupTriggerLedger, mLastClosedLedger, posted, tracking, err, restarts>>
      BY <1>0, <1>1 DEF historyCaughtupError, setState
    <2>2. TypeOK'
      <3>1. <<>> \in Seq(Nat) /\ NoWork \in Works  BY DEF NoWork, Works, Ranges
      <3> QED  BY <2>1, <3>1 DEF TypeOK, Works, Ranges
    <2>3. StatesMatch'  BY <1>0, <2>1 DEF StatesMatch, NoWork
    <2>4. BufferSound'
      <3>1. Len(<<>>) = 0  OBVIOUS
      <3> QED  BY <2>1, <3>1 DEF BufferSound
    <2>5. SyncedIsCurrent'  BY <2>1 DEF SyncedIsCurrent
    <2>6. WorkSound'  BY <2>1 DEF WorkSound, RangeSound, NoWork
    <2> QED  BY <2>2, <2>3, <2>4, <2>5, <2>6
  <1>2. ASSUME UNCHANGED <<mState, mCatchupState, mSyncingLedgers, mCatchupTriggerLedger,
                           posted, tracking, restarts>>,
               mLastClosedLedger' \in Nat, err' \in Assertions,
               work' \in Works, work'.phase # "none", WorkSound'
        PROVE  IInv'
    <2>1. TypeOK'  BY <1>2 DEF TypeOK, Works, Ranges
    <2>2. StatesMatch'  BY <1>0, <1>2 DEF StatesMatch
    <2>3. BufferSound'  BY <1>0, <1>2 DEF BufferSound
    <2>4. SyncedIsCurrent'  BY <1>0, <1>2 DEF SyncedIsCurrent
    <2> QED  BY <1>2, <2>1, <2>2, <2>3, <2>4
  <1>3. ASSUME NEW c \in 1..MaxLedger, GotHistoryArchiveState(c)
        PROVE  IInv'
    <2> DEFINE to == IF work.to = CURRENT THEN c ELSE work.to
               range == makeCatchupRange(work.lcl, to, work.count)
    <2>1. /\ work.phase = "state" /\ work.lcl \in Nat /\ work.to \in Nat /\ work.count \in Nat
          /\ work.lcl = mLastClosedLedger /\ work.lcl <= c /\ c \in Nat /\ c > 0
          /\ work.to = CURRENT \/ work.to > work.lcl
      BY <1>0, <1>3, BoundAssumption DEF GotHistoryArchiveState, WorkSound, Works
    <2>2. to \in Nat /\ to > 0 /\ work.lcl <= to  BY <2>1 DEF CURRENT
    <2>3. work' = [work EXCEPT !.phase = "ledgers", !.range = range]
      BY <1>3 DEF GotHistoryArchiveState
    <2> HIDE DEF to
    <2>4. /\ range \in Ranges /\ RangeConnects(range, work.lcl)
          /\ RangeKeepsCount(range, work.lcl, work.count)
      BY <2>1, <2>2, RangeIsSound
    <2> HIDE DEF range
    <2>5. work' \in Works  BY <1>0, <2>3, <2>4 DEF Works
    <2>6. /\ work'.phase = "ledgers" /\ work'.lcl = work.lcl /\ work'.count = work.count
          /\ work'.range = range
      BY <1>0, <2>3 DEF Works
    <2>7. mLastClosedLedger' = mLastClosedLedger  BY <1>3 DEF GotHistoryArchiveState
    <2>8. WorkSound'  BY <2>1, <2>4, <2>6, <2>7 DEF WorkSound, RangeSound
    <2> QED  BY <1>2, <1>3, <2>5, <2>6, <2>8 DEF GotHistoryArchiveState, TypeOK
  <1>4. CASE VerifiedLedgers
    <2>1. work' \in Works /\ work'.phase # "none"
      BY <1>0, <1>4 DEF VerifiedLedgers, Works
    <2>2. WorkSound'  BY <1>0, <1>4 DEF VerifiedLedgers, WorkSound, RangeSound, Works
    <2> QED  BY <1>2, <1>4, <2>1, <2>2 DEF VerifiedLedgers, TypeOK
  <1>5. CASE AppliedBuckets
    <2>1. mVerifiedLedgerRangeStart \in Int
      BY <1>5, VerifiedStart DEF AppliedBuckets, CatchupStarted, TypeOK
    <2>2. mLastClosedLedger' \in Nat /\ err' \in Assertions
      <3>1. \/ mLastClosedLedger' = mLastClosedLedger
            \/ /\ mLastClosedLedger' = mVerifiedLedgerRangeStart
               /\ ~ (mVerifiedLedgerRangeStart < mLastClosedLedger)
        BY <1>5, Zenon DEF AppliedBuckets
      <3>2. err' \in {err, "buckets are not those of the verified ledger",
                      "applying ledger earlier than LCL"}
        BY <1>5, Zenon DEF AppliedBuckets
      <3>3. mLastClosedLedger \in Nat /\ err \in Assertions  BY DEF TypeOK
      <3>4. mLastClosedLedger' \in Nat  BY <2>1, <3>1, <3>3
      <3>5. err' \in Assertions  BY <3>2, <3>3 DEF Assertions
      <3> QED  BY <3>4, <3>5
    <2>3. work' = work \/ work' = [work EXCEPT !.phase = "transactions"]
      BY <1>5 DEF AppliedBuckets
    <2>4. work' \in Works /\ work'.phase # "none"
      BY <1>0, <1>5, <2>3 DEF AppliedBuckets, CatchupStarted, Works
    <2>5. WorkSound'
      BY <1>0, <1>5, <2>3 DEF AppliedBuckets, WorkSound, RangeSound, Works
    <2> QED  BY <1>2, <1>5, <2>2, <2>4, <2>5 DEF AppliedBuckets
  <1>6. CASE applyHistoryOfSingleLedger
    <2>1. WorkSound'  BY <1>6 DEF applyHistoryOfSingleLedger, WorkSound, RangeSound
    <2> QED
      BY <1>0, <1>2, <1>6, <2>1
      DEF applyHistoryOfSingleLedger, CatchupStarted, closeLedger, TypeOK
  <1>7. CASE CatchupFinished
    <2>1. /\ mState' = "LM_CATCHING_UP" /\ mCatchupState' = "APPLYING_BUFFERED_LEDGERS"
          /\ work' = NoWork /\ posted' = TRUE
          /\ UNCHANGED <<mSyncingLedgers, mCatchupTriggerLedger, mLastClosedLedger, tracking,
                         err, restarts>>
      BY <1>7 DEF CatchupFinished, setCatchupState
    <2>2. NoWork \in Works  BY DEF NoWork, Works, Ranges
    <2>3. TypeOK'  BY <2>1, <2>2 DEF TypeOK, Works, Ranges
    <2>4. StatesMatch'  BY <2>1 DEF StatesMatch, NoWork
    <2>5. BufferSound'  BY <2>1 DEF BufferSound
    <2>6. SyncedIsCurrent'  BY <2>1 DEF SyncedIsCurrent
    <2>7. WorkSound'  BY <2>1 DEF WorkSound, RangeSound, NoWork
    <2> QED  BY <2>3, <2>4, <2>5, <2>6, <2>7
  <1> QED  BY <1>1, <1>3, <1>4, <1>5, <1>6, <1>7 DEF WorkStep

\* One posted call of applyBufferedLedgers.
LEMMA ReplayInvariant ==
    ASSUME IInv, applyBufferedLedgers
    PROVE  IInv'
  <1> USE DEF IInv
  <1>1. /\ mState = "LM_CATCHING_UP" /\ mCatchupState = "APPLYING_BUFFERED_LEDGERS" /\ posted
        /\ UNCHANGED <<mCatchupTriggerLedger, work, tracking, restarts>>
    BY DEF applyBufferedLedgers, StatesMatch
  <1>2. CASE mSyncingLedgers = <<>>
    <2>1. /\ mState' = "LM_CATCHING_UP" /\ mCatchupState' = "WAITING_FOR_CLOSING_LEDGER"
          /\ posted' = FALSE
          /\ UNCHANGED <<mSyncingLedgers, mLastClosedLedger, err>>
      BY <1>2 DEF applyBufferedLedgers, setCatchupState
    <2>2. TypeOK'  BY <1>1, <2>1 DEF TypeOK
    <2>3. StatesMatch'  BY <1>1, <2>1 DEF StatesMatch
    <2>4. BufferSound'  BY <1>1, <1>2, <2>1 DEF BufferSound
    <2>5. SyncedIsCurrent'  BY <2>1 DEF SyncedIsCurrent
    <2>6. WorkSound'  BY <1>1, <2>1 DEF WorkSound, RangeSound
    <2> QED  BY <2>2, <2>3, <2>4, <2>5, <2>6
  <1>3. CASE mSyncingLedgers # <<>>
    <2>1. mSyncingLedgers' = Tail(mSyncingLedgers) /\ UNCHANGED <<mState, mCatchupState, posted>>
      BY <1>3 DEF applyBufferedLedgers
    <2>2. mLastClosedLedger' \in Nat /\ err' \in Assertions
      <3>1. mLastClosedLedger' \in {mLastClosedLedger, mLastClosedLedger + 1}
        BY <1>3, Zenon DEF applyBufferedLedgers, closeLedger
      <3>2. err' \in {err, "buffered ledger does not follow LCL"}
        BY <1>3, Zenon DEF applyBufferedLedgers
      <3>3. mLastClosedLedger \in Nat /\ err \in Assertions  BY DEF TypeOK
      <3>4. mLastClosedLedger' \in Nat  BY <3>1, <3>3
      <3>5. err' \in Assertions  BY <3>2, <3>3 DEF Assertions
      <3> QED  BY <3>4, <3>5
    <2>3. Tail(mSyncingLedgers) \in Seq(Nat) /\ Contiguous(Tail(mSyncingLedgers), tracking)
      BY <1>3, PopContiguous, BufferSoundParts DEF TypeOK
    <2>4. TypeOK'  BY <1>1, <2>1, <2>2, <2>3 DEF TypeOK
    <2>5. StatesMatch'  BY <1>1, <2>1 DEF StatesMatch
    <2>6. BufferSound'  BY <1>1, <2>1, <2>3 DEF BufferSound, Contiguous
    <2>7. SyncedIsCurrent'  BY <1>1, <2>1 DEF SyncedIsCurrent
    <2>8. WorkSound'
      <3>1. work'.phase = "none"  BY <1>1 DEF StatesMatch, TypeOK
      <3> QED  BY <3>1 DEF WorkSound, RangeSound
    <2> QED  BY <2>4, <2>5, <2>6, <2>7, <2>8
  <1> QED  BY <1>2, <1>3

\* A restart loads the last closed ledger and nothing else.
LEMMA RestartInvariant ==
    ASSUME IInv, Restart
    PROVE  IInv'
  <1> USE DEF IInv
  <1>1. <<>> \in Seq(Nat) /\ Len(<<>>) = 0 /\ NoWork \in Works
    BY DEF NoWork, Works, Ranges
  <1>2. /\ mState' \in {"LM_BOOTING", "LM_SYNCED"} /\ mCatchupState' = "NONE"
        /\ mSyncingLedgers' = <<>> /\ mCatchupTriggerLedger' = 0 /\ work' = NoWork
        /\ ~ posted' /\ posted' \in BOOLEAN /\ tracking' = mLastClosedLedger /\ err' = ""
        /\ restarts' = restarts + 1 /\ mLastClosedLedger' = mLastClosedLedger
    BY DEF Restart
  <1>3. TypeOK'
    <2>1. err' \in Assertions  BY <1>2 DEF Assertions
    <2>2. restarts' \in Nat /\ tracking' \in Nat /\ mLastClosedLedger' \in Nat
          /\ mCatchupTriggerLedger' \in Nat
      <3>1. restarts \in Nat /\ mLastClosedLedger \in Nat  BY DEF TypeOK
      <3>2. restarts + 1 \in Nat /\ 0 \in Nat  BY <3>1
      <3> QED  BY <1>2, <3>1, <3>2, Zenon
    <2>3. work' \in Works /\ mSyncingLedgers' \in Seq(Nat)  BY <1>1, <1>2
    <2> QED  BY <1>2, <2>1, <2>2, <2>3, Zenon DEF TypeOK, Works, Ranges
  <1>4. StatesMatch'  BY <1>2 DEF StatesMatch, NoWork
  <1>5. BufferSound'
    <2>1. mSyncingLedgers' = <<>> /\ mCatchupState' = "NONE"  BY <1>2
    <2> QED  BY <1>1, <2>1 DEF BufferSound
  <1>6. SyncedIsCurrent'  BY <1>2 DEF SyncedIsCurrent
  <1>7. WorkSound'  BY <1>2 DEF WorkSound, RangeSound, NoWork
  <1> QED  BY <1>3, <1>4, <1>5, <1>6, <1>7

\* The states of the ledger manager, of the work and of the buffer match at all
\* times: no catchup without its work, no second one, no gap in the buffer, in sync
\* only with the ledger that the herder tracks.
THEOREM Inductive == Spec => []IInv
  <1>1. ASSUME IInv, [Next]_vars  PROVE IInv'
    <2>1. ASSUME NEW seq \in 1..MaxLedger, valueExternalized(seq)  PROVE IInv'
      <3>1. seq \in Nat  BY BoundAssumption
      <3> QED  BY <1>1, <2>1, <3>1, ExternalizedInvariant
    <2>2. ASSUME NEW to \in ManualTargets, NEW count \in {0, Count}, catchup(to, count)
          PROVE  IInv'
      BY <1>1, <2>2, CommandInvariant
    <2>3. CASE WorkStep \/ historyCaughtupError  BY <1>1, <2>3, WorkInvariant
    <2>4. CASE applyBufferedLedgers  BY <1>1, <2>4, ReplayInvariant
    <2>5. CASE Restart  BY <1>1, <2>5, RestartInvariant
    <2>6. CASE UNCHANGED vars
      BY <1>1, <2>6
      DEF vars, IInv, TypeOK, StatesMatch, BufferSound, SyncedIsCurrent, WorkSound, RangeSound
    <2> QED  BY <1>1, <2>1, <2>2, <2>3, <2>4, <2>5, <2>6 DEF Next, Step
  <1> QED  BY <1>1, InitInvariant, PTL DEF Spec

\* Being in sync means being at the ledger that the herder tracks.
THEOREM SyncedHolds == Spec => []SyncedIsCurrent
  <1>1. IInv => SyncedIsCurrent  BY DEF IInv
  <1> QED  BY <1>1, Inductive, PTL

-----------------------------------------------------------------------------
(* What follows from the invariant. *)

\* What a catchup downloads connects to the last closed ledger and keeps the count.
THEOREM RangesHold == Spec => []RangeSound
  <1>1. IInv => RangeSound  BY DEF IInv, WorkSound
  <1> QED  BY <1>1, Inductive, PTL

\* The last closed ledger never goes back, restarts included, and skips ledgers only
\* to the end of a checkpoint whose buckets were applied.
THEOREM NoLedgerSkipped == Spec => OnlyBucketsSkipLedgers
  <1> DEFINE Moves ==
        \/ mLastClosedLedger' \in {mLastClosedLedger, mLastClosedLedger + 1}
        \/ /\ work.phase = "buckets"
           /\ mLastClosedLedger' > mLastClosedLedger
           /\ (mLastClosedLedger' + 1) % getCheckpointFrequency = 0
  <1>1. ASSUME IInv, [Next]_vars  PROVE [Moves]_vars
    <2>1. CASE AppliedBuckets
      <3>1. \/ mLastClosedLedger' = mLastClosedLedger
            \/ mLastClosedLedger' = mVerifiedLedgerRangeStart
        BY <2>1, Zenon DEF AppliedBuckets
      <3>2. work.phase = "buckets"  BY <2>1 DEF AppliedBuckets
      <3> QED  BY <1>1, <3>1, <3>2, VerifiedStart
    <2>2. CASE WorkStep /\ ~ AppliedBuckets
      BY <2>2 DEF WorkStep, GotHistoryArchiveState, VerifiedLedgers,
                  applyHistoryOfSingleLedger, CatchupFinished, closeLedger
    <2>3. ASSUME NEW seq \in 1..MaxLedger, valueExternalized(seq)  PROVE Moves
      BY <2>3, Zenon DEF valueExternalized, closeLedger
    <2>4. CASE applyBufferedLedgers  BY <2>4, Zenon DEF applyBufferedLedgers, closeLedger
    <2>5. ASSUME NEW to \in ManualTargets, NEW count \in {0, Count}, catchup(to, count)
          PROVE  Moves
      BY <2>5 DEF catchup
    <2>6. CASE Restart  BY <2>6 DEF Restart
    <2>7. CASE historyCaughtupError  BY <2>7 DEF historyCaughtupError
    <2> QED  BY <1>1, <2>1, <2>2, <2>3, <2>4, <2>5, <2>6, <2>7 DEF Next, Step
  <1> QED  BY <1>1, Inductive, PTL DEF Spec, OnlyBucketsSkipLedgers

-----------------------------------------------------------------------------
(* The target of a catchup. *)

\* The trigger ledger is past the checkpoint of the ledger before the first buffered one.
TriggerSound ==
    mCatchupState = "WAITING_FOR_TRIGGER_LEDGER" =>
        mCatchupTriggerLedger = nextCheckpointLedger(mSyncingLedgers[1]) + 1

\* A catchup that starts has the target and the origin it is asked for.
LEMMA StartedWork ==
    ASSUME NEW to, NEW count, NEW manual, NEW chain, startCatchup(to, count, manual, chain)
    PROVE  work' = work \/ (work'.phase = "state" /\ work'.to = to /\ work'.manual = manual)
  <1> DEFINE started == [phase |-> "state", manual |-> manual, to |-> to, count |-> count,
                         lcl |-> mLastClosedLedger, range |-> NoWork.range]
  <1>1. work' = work \/ work' = started  BY Zenon DEF startCatchup
  <1>2. started.phase = "state" /\ started.to = to /\ started.manual = manual  BY Zenon
  <1> HIDE DEF started
  <1> QED  BY <1>1, <1>2, Zenon

\* A buffered ledger keeps both; the one that starts the work makes the second true.
LEMMA ContinueTarget ==
    ASSUME IInv, TargetPublished, NEW seq \in Nat, seq > tracking, tracking' = seq,
           NEW s, NEW trigger \in Nat, continueCatchup(seq, s, trigger),
           NEW first, first = (IF mSyncingLedgers = <<>> THEN seq ELSE mSyncingLedgers[1]),
           s = "WAITING_FOR_TRIGGER_LEDGER" =>
              first > 1 /\ trigger = nextCheckpointLedger(first) + 1,
           s # "WAITING_FOR_TRIGGER_LEDGER" => s = mCatchupState,
           mCatchupTriggerLedger' = trigger
    PROVE  TriggerSound' /\ TargetPublished'
  <1> DEFINE chain == push(mSyncingLedgers, seq)
  <1>1. tracking \in Nat /\ mSyncingLedgers \in Seq(Nat)  BY DEF IInv, TypeOK
  <1>2. chain \in Seq(Nat) /\ chain # <<>> /\ chain[1] = first
    BY <1>1, PushContiguous, BufferSoundParts DEF IInv
  <1>3. first \in Nat  BY <1>2
  <1>4. mSyncingLedgers' = chain  BY DEF continueCatchup
  <1> HIDE DEF chain
  <1>5. CASE s = "WAITING_FOR_TRIGGER_LEDGER" /\ seq >= trigger
    <2>1. /\ mCatchupState' = "APPLYING_HISTORY"
          /\ startCatchup(chain[1] - 1, Count, FALSE, chain)
      BY <1>5 DEF continueCatchup, setCatchupState, chain
    <2>2. work' = work \/ work'.to = first - 1
      <3>1. work' = work \/ work'.to = chain[1] - 1  BY <2>1, StartedWork, Zenon
      <3> QED  BY <1>2, <3>1
    <2>3. first - 1 \in Nat /\ (first - 1) + 1 = first  BY <1>3, <1>5
    <2>4. checkpointContainingLedger(first - 1) = trigger - 2
      <3>1. checkpointContainingLedger(first - 1) = nextCheckpointLedger(first) - 1
        BY <2>3 DEF checkpointContainingLedger
      <3>2. nextCheckpointLedger(first) \in Nat  BY <1>3, TriggerType
      <3> QED  BY <1>5, <3>1, <3>2
    <2>5. checkpointContainingLedger(first - 1) < seq  BY <1>5, <2>4
    <2>6. CASE work' = work
      <3>1. work'.phase # "none" /\ ~ work'.manual =>
               mSyncingLedgers # <<>> /\ work'.to = mSyncingLedgers[1] - 1
        BY <2>6 DEF TargetPublished
      <3>2. work'.phase # "none" /\ ~ work'.manual => work'.to = first - 1  BY <3>1
      <3> QED  BY <1>2, <1>4, <2>1, <2>5, <3>2 DEF TriggerSound, TargetPublished
    <2>7. CASE work'.to = first - 1
      BY <1>2, <1>4, <2>1, <2>5, <2>7 DEF TriggerSound, TargetPublished
    <2> QED  BY <2>2, <2>6, <2>7
  <1>6. CASE ~ (s = "WAITING_FOR_TRIGGER_LEDGER" /\ seq >= trigger)
    <2>1. mCatchupState' = s /\ work' = work
      BY <1>6 DEF continueCatchup, setCatchupState
    <2>2. TriggerSound'  BY <1>2, <1>4, <2>1 DEF TriggerSound
    <2>3. TargetPublished'
      <3>1. SUFFICES ASSUME work.phase # "none" /\ ~ work.manual
                     PROVE  /\ chain # <<>> /\ work.to = chain[1] - 1
                            /\ checkpointContainingLedger(work.to) < seq
        BY <1>4, <2>1 DEF TargetPublished
      <3>2. /\ mSyncingLedgers # <<>> /\ work.to = mSyncingLedgers[1] - 1
            /\ checkpointContainingLedger(work.to) < tracking
        BY <3>1 DEF TargetPublished
      <3>3. checkpointContainingLedger(work.to) \in Nat
        BY ContainingLedger DEF IInv, TypeOK
      <3> QED  BY <1>1, <1>2, <3>2, <3>3
    <2> QED  BY <2>2, <2>3
  <1> QED  BY <1>5, <1>6

\* Every step keeps the trigger ledger and the target where they belong.
LEMMA StepTarget ==
    ASSUME IInv, TriggerSound, TargetPublished, [Next]_vars
    PROVE  TriggerSound' /\ TargetPublished'
  <1>1. ASSUME work'.phase = "none", mCatchupState' # "WAITING_FOR_TRIGGER_LEDGER"
        PROVE  TriggerSound' /\ TargetPublished'
    BY <1>1 DEF TriggerSound, TargetPublished
  <1>2. ASSUME NEW seq \in 1..MaxLedger, valueExternalized(seq)
        PROVE  TriggerSound' /\ TargetPublished'
    <2> DEFINE first == IF mSyncingLedgers = <<>> THEN seq ELSE mSyncingLedgers[1]
    <2>1. seq \in Nat /\ mLastClosedLedger \in Nat /\ mCatchupTriggerLedger \in Nat
      <3>1. seq \in Nat  BY BoundAssumption
      <3> QED  BY <3>1 DEF IInv, TypeOK
    <2>2. seq > tracking /\ seq > mLastClosedLedger /\ tracking' = seq
      BY <1>2 DEF valueExternalized
    <2>3. CASE mState # "LM_CATCHING_UP" \/ mCatchupState = "WAITING_FOR_CLOSING_LEDGER"
      <3>1. mSyncingLedgers = <<>> /\ work.phase = "none"
        BY <2>3 DEF IInv, StatesMatch, BufferSound, TypeOK
      <3>2. CASE seq = mLastClosedLedger + 1
        <4>1. work' = work /\ mCatchupState' # "WAITING_FOR_TRIGGER_LEDGER"
          BY <1>2, <2>3, <3>1, <3>2 DEF valueExternalized, setState, IInv, StatesMatch
        <4> QED  BY <1>1, <3>1, <4>1
      <3>3. CASE seq # mLastClosedLedger + 1
        <4> DEFINE trigger == nextCheckpointLedger(seq) + 1
        <4>1. /\ continueCatchup(seq, "WAITING_FOR_TRIGGER_LEDGER", trigger)
              /\ mCatchupTriggerLedger' = trigger
          BY <1>2, <2>3, <3>1, <3>3 DEF valueExternalized, initializeCatchup
        <4>2. trigger \in Nat  BY <2>1, TriggerType
        <4>3. seq > 1  BY <2>1, <2>2, <3>3
        <4>4. first = seq  BY <3>1
        <4>5. trigger = nextCheckpointLedger(first) + 1  BY <4>4
        <4> HIDE DEF trigger, first
        <4> QED  BY <2>1, <2>2, <3>1, <4>1, <4>2, <4>3, <4>4, <4>5, ContinueTarget
      <3> QED  BY <3>2, <3>3
    <2>4. CASE ~ (mState # "LM_CATCHING_UP" \/ mCatchupState = "WAITING_FOR_CLOSING_LEDGER")
      <3>1. /\ continueCatchup(seq, mCatchupState, mCatchupTriggerLedger)
            /\ mCatchupTriggerLedger' = mCatchupTriggerLedger
        BY <1>2, <2>4 DEF valueExternalized
      <3>2. mCatchupState = "WAITING_FOR_TRIGGER_LEDGER" =>
               /\ mSyncingLedgers # <<>> /\ mSyncingLedgers[1] > 1
               /\ mCatchupTriggerLedger = nextCheckpointLedger(mSyncingLedgers[1]) + 1
        <4>1. SUFFICES ASSUME mCatchupState = "WAITING_FOR_TRIGGER_LEDGER"
                       PROVE  /\ mSyncingLedgers # <<>> /\ mSyncingLedgers[1] > 1
                              /\ mCatchupTriggerLedger = nextCheckpointLedger(mSyncingLedgers[1]) + 1
          OBVIOUS
        <4>2. mSyncingLedgers # <<>> /\ mSyncingLedgers[1] > mLastClosedLedger + 1
          BY <4>1 DEF IInv, BufferSound
        <4>3. mSyncingLedgers[1] \in Nat  BY <4>2 DEF IInv, TypeOK
        <4> QED  BY <2>1, <4>1, <4>2, <4>3 DEF TriggerSound
      <3>3. mCatchupState = "WAITING_FOR_TRIGGER_LEDGER" =>
               first > 1 /\ mCatchupTriggerLedger = nextCheckpointLedger(first) + 1
        BY <3>2
      <3> QED  BY <2>1, <2>2, <3>1, <3>3, ContinueTarget
    <2> QED  BY <2>3, <2>4
  <1>3. ASSUME NEW to \in ManualTargets, NEW count \in {0, Count}, catchup(to, count)
        PROVE  TriggerSound' /\ TargetPublished'
    <2>1. /\ mCatchupState' = "APPLYING_HISTORY" /\ work.phase = "none"
          /\ startCatchup(to, count, TRUE, mSyncingLedgers)
      BY <1>3 DEF catchup, setCatchupState, IInv, StatesMatch
    <2>2. work' = work \/ work'.manual  BY <2>1, StartedWork, Zenon
    <2> QED  BY <2>1, <2>2 DEF TriggerSound, TargetPublished
  <1>4. ASSUME UNCHANGED <<mSyncingLedgers, tracking, mCatchupTriggerLedger>>,
               mCatchupState' = mCatchupState,
               work'.to = work.to, work'.manual = work.manual, work.phase # "none"
        PROVE  TriggerSound' /\ TargetPublished'
    BY <1>4 DEF TriggerSound, TargetPublished
  <1>5. CASE WorkStep /\ ~ CatchupFinished
    <2>1. /\ UNCHANGED <<mCatchupState, mSyncingLedgers, tracking, mCatchupTriggerLedger>>
          /\ work.phase # "none"
      BY <1>5 DEF WorkStep, GotHistoryArchiveState, VerifiedLedgers, AppliedBuckets,
                  applyHistoryOfSingleLedger, CatchupStarted
    <2>2. work'.to = work.to /\ work'.manual = work.manual
      <3>1. work \in Works  BY DEF IInv, TypeOK, Works, Ranges
      <3>2. \/ work' = work
            \/ \E p : work' = [work EXCEPT !.phase = p]
            \/ \E p, r : work' = [work EXCEPT !.phase = p, !.range = r]
        BY <1>5, Zenon DEF WorkStep, GotHistoryArchiveState, VerifiedLedgers, AppliedBuckets,
                    applyHistoryOfSingleLedger
      <3> QED  BY <3>1, <3>2 DEF Works
    <2> QED  BY <1>4, <2>1, <2>2
  <1>6. CASE CatchupFinished
    <2>1. work' = NoWork /\ mCatchupState' = "APPLYING_BUFFERED_LEDGERS"
      BY <1>6 DEF CatchupFinished, setCatchupState
    <2> QED  BY <1>1, <2>1 DEF NoWork
  <1>7. CASE historyCaughtupError
    <2>1. work' = NoWork /\ mCatchupState' = "NONE"
      <3>1. mState = "LM_CATCHING_UP"
        BY <1>7 DEF historyCaughtupError, CatchupStarted, IInv, StatesMatch
      <3> QED  BY <1>7, <3>1 DEF historyCaughtupError, setState
    <2> QED  BY <1>1, <2>1 DEF NoWork
  <1>8. CASE applyBufferedLedgers
    <2>1. work.phase = "none" /\ work' = work /\ mCatchupState = "APPLYING_BUFFERED_LEDGERS"
      BY <1>8 DEF applyBufferedLedgers, IInv, StatesMatch, TypeOK
    <2>2. mCatchupState' # "WAITING_FOR_TRIGGER_LEDGER"
      BY <1>8, <2>1 DEF applyBufferedLedgers, setCatchupState
    <2> QED  BY <1>1, <2>1, <2>2
  <1>9. CASE Restart  BY <1>1, <1>9 DEF Restart, NoWork
  <1>10. CASE UNCHANGED vars  BY <1>10 DEF vars, TriggerSound, TargetPublished
  <1> QED  BY <1>2, <1>3, <1>5, <1>6, <1>7, <1>8, <1>9, <1>10 DEF Next, Step, WorkStep

\* A catchup that the node starts itself ends before the first buffered ledger, in a
\* checkpoint that the network has closed (initializeCatchup, startCatchupIf).
THEOREM TargetsArePublished == Spec => []TargetPublished
  <1>1. Init => TriggerSound /\ TargetPublished
    <2>1. Init => work = NoWork /\ mCatchupState = "NONE"  BY Zenon DEF Init
    <2>2. work = NoWork => work.phase = "none"  BY DEF NoWork
    <2> QED  BY <2>1, <2>2 DEF TriggerSound, TargetPublished
  <1> QED  BY <1>1, StepTarget, Inductive, PTL DEF Spec

-----------------------------------------------------------------------------
(* The assertions. *)

\* What is known of a buffer that is not stray: the catchup under way ends before it,
\* and the replay finds it to follow the last closed ledger.
StraySound ==
    /\ mCatchupState = "WAITING_FOR_TRIGGER_LEDGER" => ~ stray
    /\ (work.phase # "none" /\ ~ work.manual) =>
          /\ ~ stray /\ work.to # CURRENT
          /\ work.phase # "state" => work.range.last = work.to
    /\ (work.phase # "none" /\ work.manual /\ mSyncingLedgers # <<>>) => stray
    /\ (posted /\ mSyncingLedgers # <<>> /\ ~ stray) =>
          mSyncingLedgers[1] = mLastClosedLedger + 1

\* A ledger that is buffered, in any catchup state.
LEMMA ContinueStray ==
    ASSUME IInv, TargetPublished, StraySound, Note,
           NEW seq \in Nat, seq > tracking, NEW s, NEW trigger, continueCatchup(seq, s, trigger),
           NEW first, first = (IF mSyncingLedgers = <<>> THEN seq ELSE mSyncingLedgers[1]),
           s = "WAITING_FOR_TRIGGER_LEDGER" =>
              /\ first > 1 /\ work.phase = "none" /\ ~ posted
              /\ mSyncingLedgers = <<>> =>
                    mCatchupState \notin {"APPLYING_HISTORY", "APPLYING_BUFFERED_LEDGERS"}
              /\ mSyncingLedgers # <<>> => ~ stray,
           s # "WAITING_FOR_TRIGGER_LEDGER" => s = mCatchupState,
           UNCHANGED <<posted, mLastClosedLedger>>
    PROVE  StraySound'
  <1> DEFINE chain == push(mSyncingLedgers, seq)
  <1>1. /\ tracking \in Nat /\ mSyncingLedgers \in Seq(Nat) /\ mLastClosedLedger \in Nat
        /\ work.phase # "none" <=> mCatchupState = "APPLYING_HISTORY"
        /\ posted <=> mCatchupState = "APPLYING_BUFFERED_LEDGERS"
    BY DEF IInv, TypeOK, StatesMatch
  <1>2. chain \in Seq(Nat) /\ chain # <<>> /\ chain[1] = first
    BY <1>1, PushContiguous, BufferSoundParts DEF IInv
  <1>3. mSyncingLedgers' = chain  BY DEF continueCatchup
  <1> HIDE DEF chain
  <1>4. stray' = IF mSyncingLedgers = <<>>
                 THEN \/ mCatchupState = "APPLYING_HISTORY"
                      \/ /\ mCatchupState = "APPLYING_BUFFERED_LEDGERS"
                         /\ first # mLastClosedLedger + 1
                 ELSE stray
    <2>1. Head(mSyncingLedgers') = first /\ mSyncingLedgers' # <<>>  BY <1>2, <1>3
    <2> QED  BY <2>1, Zenon DEF Note
  <1>5. CASE s = "WAITING_FOR_TRIGGER_LEDGER"
    <2>1. ~ stray' /\ ~ posted'  BY <1>4, <1>5
    <2>2. \/ work' = work
          \/ work'.phase = "state" /\ work'.to = first - 1 /\ ~ work'.manual
      <3>1. UNCHANGED work \/ startCatchup(chain[1] - 1, Count, FALSE, chain)
        BY DEF continueCatchup, chain
      <3>2. \/ work' = work
            \/ work'.phase = "state" /\ work'.to = chain[1] - 1 /\ work'.manual = FALSE
        BY <3>1, StartedWork, Zenon
      <3> QED  BY <1>2, <3>2
    <2>3. first - 1 # CURRENT  BY <1>2, <1>5 DEF CURRENT
    <2> QED  BY <1>5, <2>1, <2>2, <2>3 DEF StraySound
  <1>6. CASE s # "WAITING_FOR_TRIGGER_LEDGER"
    <2>1. mCatchupState' = mCatchupState /\ work' = work
      BY <1>6 DEF continueCatchup, setCatchupState
    <2>2. CASE mCatchupState = "APPLYING_HISTORY"
      <3>1. ~ posted' /\ mCatchupState' # "WAITING_FOR_TRIGGER_LEDGER"  BY <1>1, <2>1, <2>2
      <3>2. CASE mSyncingLedgers = <<>>
        <4>1. stray'  BY <1>4, <2>2, <3>2
        <4>2. work.phase = "none" \/ work.manual  BY <3>2 DEF TargetPublished
        <4> QED  BY <2>1, <3>1, <4>1, <4>2 DEF StraySound
      <3>3. CASE mSyncingLedgers # <<>>
        <4>1. stray' = stray  BY <1>4, <3>3
        <4> QED  BY <2>1, <3>1, <3>3, <4>1 DEF StraySound
      <3> QED  BY <3>2, <3>3
    <2>3. CASE mCatchupState = "APPLYING_BUFFERED_LEDGERS"
      <3>1. /\ work'.phase = "none" /\ mCatchupState' # "WAITING_FOR_TRIGGER_LEDGER"
        BY <1>1, <2>1, <2>3
      <3>2. ~ stray' => mSyncingLedgers'[1] = mLastClosedLedger' + 1
        <4>1. mSyncingLedgers'[1] = first  BY <1>2, <1>3
        <4>2. CASE mSyncingLedgers = <<>>  BY <1>4, <2>3, <4>1, <4>2
        <4>3. CASE mSyncingLedgers # <<>>
          BY <1>1, <1>4, <2>3, <4>1, <4>3 DEF StraySound
        <4> QED  BY <4>2, <4>3
      <3> QED  BY <3>1, <3>2 DEF StraySound
    <2>4. CASE mCatchupState \notin {"APPLYING_HISTORY", "APPLYING_BUFFERED_LEDGERS"}
      <3>1. work'.phase = "none" /\ ~ posted' /\ mCatchupState' # "WAITING_FOR_TRIGGER_LEDGER"
        BY <1>1, <1>6, <2>1, <2>4
      <3> QED  BY <3>1 DEF StraySound
    <2> QED  BY <2>2, <2>3, <2>4
  <1> QED  BY <1>5, <1>6

\* Every step keeps what is known of a buffer that is not stray.
LEMMA StepStray ==
    ASSUME IInv, TargetPublished, StraySound, [Next]_vars
    PROVE  StraySound'
  <1>1. /\ work \in Works /\ mSyncingLedgers \in Seq(Nat) /\ mLastClosedLedger \in Nat
        /\ tracking \in Nat /\ mCatchupTriggerLedger \in Nat
        /\ work.phase # "none" <=> mCatchupState = "APPLYING_HISTORY"
        /\ posted <=> mCatchupState = "APPLYING_BUFFERED_LEDGERS"
    BY DEF IInv, TypeOK, StatesMatch, Works, Ranges
  <1>2. mSyncingLedgers' = mSyncingLedgers \/ mSyncingLedgers # <<>> => stray' = stray
    BY DEF Next, Note, vars
  <1>3. ASSUME work'.phase = "none", ~ posted', mCatchupState' # "WAITING_FOR_TRIGGER_LEDGER"
        PROVE  StraySound'
    BY <1>3 DEF StraySound
  <1>4. ASSUME NEW seq \in 1..MaxLedger, valueExternalized(seq), Note
        PROVE  StraySound'
    <2> DEFINE first == IF mSyncingLedgers = <<>> THEN seq ELSE mSyncingLedgers[1]
    <2>1. seq \in Nat  BY BoundAssumption
    <2>2. seq > tracking /\ seq > mLastClosedLedger /\ posted' = posted
      BY <1>4 DEF valueExternalized
    <2>3. CASE mState # "LM_CATCHING_UP" \/ mCatchupState = "WAITING_FOR_CLOSING_LEDGER"
      <3>1. /\ mSyncingLedgers = <<>> /\ work.phase = "none" /\ ~ posted
            /\ mCatchupState \notin {"APPLYING_HISTORY", "APPLYING_BUFFERED_LEDGERS"}
        BY <2>3 DEF IInv, StatesMatch, BufferSound, TypeOK
      <3>2. CASE seq = mLastClosedLedger + 1
        <4>1. work' = work /\ mCatchupState' # "WAITING_FOR_TRIGGER_LEDGER"
          BY <1>4, <2>3, <3>1, <3>2 DEF valueExternalized, setState, IInv, StatesMatch
        <4> QED  BY <1>3, <2>2, <3>1, <4>1
      <3>3. CASE seq # mLastClosedLedger + 1
        <4> DEFINE trigger == nextCheckpointLedger(seq) + 1
        <4>1. /\ continueCatchup(seq, "WAITING_FOR_TRIGGER_LEDGER", trigger)
              /\ mLastClosedLedger' = mLastClosedLedger
          BY <1>4, <2>3, <3>1, <3>3 DEF valueExternalized, initializeCatchup
        <4>2. first = seq /\ first > 1  BY <1>1, <2>1, <2>2, <3>1, <3>3
        <4> HIDE DEF trigger, first
        <4> QED  BY <1>4, <2>1, <2>2, <3>1, <4>1, <4>2, ContinueStray
      <3> QED  BY <3>2, <3>3
    <2>4. CASE ~ (mState # "LM_CATCHING_UP" \/ mCatchupState = "WAITING_FOR_CLOSING_LEDGER")
      <3>1. /\ continueCatchup(seq, mCatchupState, mCatchupTriggerLedger)
            /\ mLastClosedLedger' = mLastClosedLedger
        BY <1>4, <2>4 DEF valueExternalized
      <3>2. mCatchupState = "WAITING_FOR_TRIGGER_LEDGER" =>
               /\ mSyncingLedgers # <<>> /\ mSyncingLedgers[1] > mLastClosedLedger + 1
               /\ work.phase = "none" /\ ~ posted /\ ~ stray
        BY <1>1 DEF IInv, BufferSound, StraySound
      <3>3. mCatchupState = "WAITING_FOR_TRIGGER_LEDGER" => first > 1
        <4>1. mSyncingLedgers # <<>> => mSyncingLedgers[1] \in Nat  BY <1>1
        <4> QED  BY <1>1, <3>2, <4>1
      <3> HIDE DEF first
      <3> QED  BY <1>4, <2>1, <2>2, <3>1, <3>2, <3>3, ContinueStray DEF first
    <2> QED  BY <2>3, <2>4
  <1>5. ASSUME NEW to \in ManualTargets, NEW count \in {0, Count}, catchup(to, count)
        PROVE  StraySound'
    <2>1. /\ mCatchupState' = "APPLYING_HISTORY" /\ work.phase = "none" /\ ~ posted'
          /\ startCatchup(to, count, TRUE, mSyncingLedgers) /\ mSyncingLedgers' = <<>>
      BY <1>1, <1>5 DEF catchup, setCatchupState, IInv, StatesMatch, BufferSound
    <2>2. work' = work \/ work'.manual  BY <2>1, StartedWork, Zenon
    <2> QED  BY <2>1, <2>2 DEF StraySound
  <1>6. CASE WorkStep /\ ~ CatchupFinished
    <2>1. /\ UNCHANGED <<mCatchupState, mSyncingLedgers, posted>> /\ work.phase # "none"
      BY <1>6 DEF WorkStep, GotHistoryArchiveState, VerifiedLedgers, AppliedBuckets,
                  applyHistoryOfSingleLedger, CatchupStarted
    <2>2. ~ posted /\ mCatchupState # "WAITING_FOR_TRIGGER_LEDGER" /\ stray' = stray
      BY <1>1, <1>2, <2>1
    <2>3. /\ work'.to = work.to /\ work'.manual = work.manual
          /\ (work.to # CURRENT /\ work'.phase # "state") =>
                \/ work'.range.last = work.to
                \/ work.phase # "state" /\ work'.range = work.range
      <3>1. ASSUME NEW c, GotHistoryArchiveState(c)
            PROVE  /\ work'.to = work.to /\ work'.manual = work.manual
                   /\ work.to # CURRENT => work'.range.last = work.to
        <4> DEFINE to == IF work.to = CURRENT THEN c ELSE work.to
                   range == makeCatchupRange(work.lcl, to, work.count)
        <4>1. work' = [work EXCEPT !.phase = "ledgers", !.range = range]
          BY <3>1 DEF GotHistoryArchiveState
        <4>2. range.last = to  BY DEF makeCatchupRange
        <4> HIDE DEF range
        <4> QED  BY <1>1, <4>1, <4>2 DEF Works
      <3>2. ASSUME NEW p, work' = [work EXCEPT !.phase = p]
            PROVE  work'.to = work.to /\ work'.manual = work.manual /\ work'.range = work.range
        BY <1>1, <3>2 DEF Works
      <3>3. CASE VerifiedLedgers
        <4>1. work.phase = "ledgers" /\ \E p : work' = [work EXCEPT !.phase = p]
          BY <3>3, Zenon DEF VerifiedLedgers
        <4> QED  BY <3>2, <4>1
      <3>4. CASE AppliedBuckets
        <4>1. work.phase = "buckets" /\ (work' = work \/ \E p : work' = [work EXCEPT !.phase = p])
          BY <3>4, Zenon DEF AppliedBuckets
        <4> QED  BY <3>2, <4>1
      <3>5. CASE applyHistoryOfSingleLedger
        BY <3>5 DEF applyHistoryOfSingleLedger
      <3> QED  BY <1>6, <3>1, <3>3, <3>4, <3>5 DEF WorkStep
    <2>4. (work.phase # "none" /\ ~ work.manual) =>
             /\ ~ stray /\ work.to # CURRENT
             /\ work.phase # "state" => work.range.last = work.to
      BY DEF StraySound
    <2>5. (work'.phase # "none" /\ ~ work'.manual) =>
             /\ ~ stray' /\ work'.to # CURRENT
             /\ work'.phase # "state" => work'.range.last = work'.to
      BY <2>1, <2>2, <2>3, <2>4
    <2>6. (work'.phase # "none" /\ work'.manual /\ mSyncingLedgers' # <<>>) => stray'
      BY <2>1, <2>2, <2>3 DEF StraySound
    <2> QED  BY <2>1, <2>2, <2>5, <2>6 DEF StraySound
  <1>7. CASE CatchupFinished
    <2>1. /\ work' = NoWork /\ mCatchupState' = "APPLYING_BUFFERED_LEDGERS"
          /\ UNCHANGED <<mSyncingLedgers, mLastClosedLedger>>
          /\ work.phase = "transactions" /\ mLastClosedLedger = work.range.last
      BY <1>7 DEF CatchupFinished, setCatchupState
    <2>2. work'.phase = "none"  BY <2>1 DEF NoWork
    <2>3. ASSUME mSyncingLedgers # <<>>, ~ stray'
          PROVE  mSyncingLedgers[1] = mLastClosedLedger + 1
      <3>1. ~ stray  BY <1>2, <2>1, <2>3
      <3>2. ~ work.manual  BY <2>1, <2>3, <3>1 DEF StraySound
      <3>3. work.range.last = work.to  BY <2>1, <3>2 DEF StraySound
      <3>4. work.to = mSyncingLedgers[1] - 1  BY <2>1, <3>2 DEF TargetPublished
      <3>5. mSyncingLedgers[1] \in Nat  BY <1>1, <2>3
      <3> QED  BY <2>1, <3>3, <3>4, <3>5
    <2> QED  BY <2>1, <2>2, <2>3 DEF StraySound
  <1>8. CASE historyCaughtupError
    <2>1. work' = NoWork /\ mCatchupState' = "NONE" /\ ~ posted'
      <3>1. work.phase # "none" /\ posted' = posted  BY <1>8 DEF historyCaughtupError, CatchupStarted
      <3>2. mState = "LM_CATCHING_UP" /\ ~ posted  BY <1>1, <3>1 DEF IInv, StatesMatch
      <3> QED  BY <1>8, <3>1, <3>2 DEF historyCaughtupError, setState
    <2> QED  BY <1>3, <2>1 DEF NoWork
  <1>9. CASE applyBufferedLedgers
    <2>1. /\ work.phase = "none" /\ work' = work /\ posted
          /\ mCatchupState = "APPLYING_BUFFERED_LEDGERS"
      BY <1>1, <1>9 DEF applyBufferedLedgers
    <2>2. CASE mSyncingLedgers = <<>>
      <3>1. ~ posted' /\ mCatchupState' = "WAITING_FOR_CLOSING_LEDGER"
        BY <1>9, <2>2 DEF applyBufferedLedgers, setCatchupState
      <3> QED  BY <1>3, <2>1, <3>1
    <2>3. CASE mSyncingLedgers # <<>>
      <3>1. /\ mSyncingLedgers' = Tail(mSyncingLedgers) /\ mCatchupState' = mCatchupState
            /\ Head(mSyncingLedgers) = mLastClosedLedger + 1 =>
                  mLastClosedLedger' = mLastClosedLedger + 1
        BY <1>9, <2>3, Zenon DEF applyBufferedLedgers, closeLedger
      <3>2. stray' = stray  BY <1>2, <2>3
      <3>3. ASSUME mSyncingLedgers' # <<>>, ~ stray
            PROVE  mSyncingLedgers'[1] = mLastClosedLedger' + 1
        <4>1. mSyncingLedgers[1] = mLastClosedLedger + 1  BY <2>1, <2>3, <3>3 DEF StraySound
        <4>2. Len(mSyncingLedgers) > 1 /\ mSyncingLedgers'[1] = mSyncingLedgers[2]
          BY <1>1, <2>3, <3>1, <3>3
        <4>3. mSyncingLedgers[2] = mSyncingLedgers[1] + 1
          <5>1. /\ 2 \in 1..Len(mSyncingLedgers) /\ mSyncingLedgers[1] \in Nat
            BY <1>1, <4>2
          <5>2. mSyncingLedgers[2] = mSyncingLedgers[1] + 2 - 1
            BY <5>1 DEF IInv, BufferSound
          <5> QED  BY <5>1, <5>2
        <4>4. mLastClosedLedger' = mLastClosedLedger + 1  BY <1>1, <2>3, <3>1, <4>1
        <4> QED  BY <1>1, <4>1, <4>2, <4>3, <4>4
      <3> QED  BY <2>1, <3>1, <3>2, <3>3 DEF StraySound
    <2> QED  BY <2>2, <2>3
  <1>10. CASE Restart  BY <1>3, <1>10 DEF Restart, NoWork
  <1>11. CASE UNCHANGED vars  BY <1>11 DEF vars, StraySound
  <1> QED
    BY <1>4, <1>5, <1>6, <1>7, <1>8, <1>9, <1>10, <1>11 DEF Next, Step, WorkStep

\* No step of a state that satisfies the invariants fails an assertion, but for the one
\* in applyBufferedLedgers, and that only when the buffer is stray.
LEMMA StepAsserts ==
    ASSUME IInv, StraySound, AssertionsHold, [Next]_vars
    PROVE  AssertionsHold'
  <1>0. CASE err = "" /\ err' = err
    <2>1. ~ (err' # "")  BY <1>0, Zenon
    <2> QED  BY <2>1, Zenon DEF AssertionsHold
  <1>1. ASSUME err' = err, ~ Restart  PROVE AssertionsHold'
    <2>1. CASE err = ""  BY <1>0, <1>1, <2>1
    <2>2. CASE err # ""
      <3>1. UNCHANGED vars
        BY <1>1, <2>2, Zenon DEF Next, Step, WorkStep, Running, CatchupStarted, valueExternalized,
           catchup, GotHistoryArchiveState, VerifiedLedgers, AppliedBuckets,
           applyHistoryOfSingleLedger, CatchupFinished, historyCaughtupError,
           applyBufferedLedgers
      <3> QED  BY <3>1, Zenon DEF vars, AssertionsHold
    <2> QED  BY <2>1, <2>2
  <1>2. ASSUME NEW seq \in 1..MaxLedger, valueExternalized(seq)  PROVE err' = err
    <2>1. seq \in Nat /\ seq > mLastClosedLedger /\ mLastClosedLedger \in Nat
      <3>1. seq > mLastClosedLedger  BY <1>2 DEF valueExternalized
      <3>2. seq \in Nat  BY BoundAssumption
      <3>3. mLastClosedLedger \in Nat  BY DEF IInv, TypeOK
      <3> QED  BY <3>1, <3>2, <3>3
    <2>2. ASSUME NEW s, NEW trigger, continueCatchup(seq, s, trigger),
                 s = "WAITING_FOR_TRIGGER_LEDGER" =>
                    /\ work = NoWork
                    /\ IF mSyncingLedgers = <<>> THEN seq > mLastClosedLedger + 1
                       ELSE mSyncingLedgers[1] > mLastClosedLedger + 1
          PROVE  err' = err
      <3> DEFINE chain == push(mSyncingLedgers, seq)
      <3>1. /\ chain \in Seq(Nat) /\ chain # <<>>
            /\ chain[1] = IF mSyncingLedgers = <<>> THEN seq ELSE mSyncingLedgers[1]
        BY <1>2, <2>1, PushContiguous, BufferSoundParts DEF valueExternalized, IInv, TypeOK
      <3>2. chain[1] \in Nat  BY <3>1
      <3> HIDE DEF chain
      <3>3. CASE s = "WAITING_FOR_TRIGGER_LEDGER" /\ seq >= trigger
        <4>1. startCatchup(chain[1] - 1, Count, FALSE, chain)
          BY <2>2, <3>3 DEF continueCatchup, chain
        <4>2. ~ (chain[1] - 1 # CURRENT /\ chain[1] - 1 <= mLastClosedLedger)
          BY <2>1, <2>2, <3>1, <3>2, <3>3
        <4>3. ~ (FALSE # (chain = <<>>))  BY <3>1, Zenon
        <4> QED  BY <2>2, <3>3, <4>1, <4>2, <4>3, Zenon DEF startCatchup
      <3>4. CASE ~ (s = "WAITING_FOR_TRIGGER_LEDGER" /\ seq >= trigger)
        BY <2>2, <3>4 DEF continueCatchup
      <3> QED  BY <3>3, <3>4
    <2>3. CASE mState # "LM_CATCHING_UP" \/ mCatchupState = "WAITING_FOR_CLOSING_LEDGER"
      <3>1. mSyncingLedgers = <<>> /\ work = NoWork
        BY <2>3 DEF IInv, StatesMatch, BufferSound, TypeOK
      <3>2. CASE seq = mLastClosedLedger + 1  BY <1>2, <2>3, <3>1, <3>2 DEF valueExternalized
      <3>3. CASE seq # mLastClosedLedger + 1
        <4>1. continueCatchup(seq, "WAITING_FOR_TRIGGER_LEDGER", nextCheckpointLedger(seq) + 1)
          BY <1>2, <2>3, <3>1, <3>3 DEF valueExternalized, initializeCatchup
        <4>2. seq > mLastClosedLedger + 1  BY <2>1, <3>3
        <4> QED  BY <2>2, <3>1, <4>1, <4>2
      <3> QED  BY <3>2, <3>3
    <2>4. CASE ~ (mState # "LM_CATCHING_UP" \/ mCatchupState = "WAITING_FOR_CLOSING_LEDGER")
      <3>1. continueCatchup(seq, mCatchupState, mCatchupTriggerLedger)
        BY <1>2, <2>4 DEF valueExternalized
      <3>2. mCatchupState = "WAITING_FOR_TRIGGER_LEDGER" =>
               work = NoWork /\ mSyncingLedgers # <<>> /\ mSyncingLedgers[1] > mLastClosedLedger + 1
        BY DEF IInv, StatesMatch, BufferSound, TypeOK
      <3> QED  BY <2>2, <3>1, <3>2
    <2> QED  BY <2>3, <2>4
  <1>3. ASSUME NEW to \in ManualTargets, NEW count \in {0, Count}, catchup(to, count)
        PROVE  err' = err
    <2>1. mSyncingLedgers = <<>> /\ work = NoWork
      BY <1>3 DEF catchup, IInv, StatesMatch, BufferSound
    <2>2. ~ (to # CURRENT /\ to <= mLastClosedLedger)
      <3>1. to \in Nat /\ mLastClosedLedger \in Nat  BY BoundAssumption DEF IInv, TypeOK
      <3> QED  BY <1>3, <3>1 DEF catchup
    <2>3. ~ (TRUE # (mSyncingLedgers = <<>>))  BY <2>1, Zenon
    <2>4. startCatchup(to, count, TRUE, mSyncingLedgers)  BY <1>3 DEF catchup
    <2> QED  BY <2>1, <2>2, <2>3, <2>4, Zenon DEF startCatchup
  <1>4. CASE AppliedBuckets /\ ~ Restart
    <2>1. /\ mVerifiedLedgerRangeStart = checkpointContainingLedger(work.range.first)
          /\ ~ (mVerifiedLedgerRangeStart < mLastClosedLedger)
      <3>1. work.phase = "buckets"  BY <1>4 DEF AppliedBuckets
      <3>2. mLastClosedLedger \in Nat  BY DEF IInv, TypeOK
      <3> QED  BY <3>1, <3>2, VerifiedStart
    <2>2. err' = err  BY <1>4, <2>1, Zenon DEF AppliedBuckets
    <2> QED  BY <1>1, <1>4, <2>2
  <1>5. CASE applyBufferedLedgers
    <2>1. \/ err' = err
          \/ /\ err' = "buffered ledger does not follow LCL"
             /\ posted /\ mSyncingLedgers # <<>>
             /\ Head(mSyncingLedgers) # mLastClosedLedger + 1
      BY <1>5, Zenon DEF applyBufferedLedgers
    <2>2. CASE err' = err
      <3>1. err = ""  BY <1>5, Zenon DEF applyBufferedLedgers, Running
      <3> QED  BY <1>0, <2>2, <3>1
    <2>3. CASE err' = "buffered ledger does not follow LCL" /\ err' # err
      <3>1. mSyncingLedgers \in Seq(Nat) /\ mSyncingLedgers # <<>>
        BY <2>1, <2>3 DEF IInv, TypeOK
      <3>2. posted /\ Head(mSyncingLedgers) # mLastClosedLedger + 1  BY <2>1, <2>3, Zenon
      <3>3. stray  BY <3>1, <3>2 DEF StraySound
      <3>4. stray' = stray  BY <3>1 DEF Next, Note, vars
      <3> QED  BY <2>3, <3>3, <3>4, Zenon DEF AssertionsHold
    <2> QED  BY <2>1, <2>2, <2>3
  <1>6. CASE Restart  BY <1>6, Zenon DEF Restart, AssertionsHold
  <1>7. CASE UNCHANGED vars  BY <1>7, Zenon DEF vars, AssertionsHold
  <1>8. CASE historyCaughtupError /\ ~ Restart  BY <1>1, <1>8 DEF historyCaughtupError
  <1>9. CASE WorkStep /\ ~ AppliedBuckets /\ ~ Restart
    BY <1>1, <1>9 DEF WorkStep, GotHistoryArchiveState, VerifiedLedgers,
                      applyHistoryOfSingleLedger, CatchupFinished
  <1> QED
    BY <1>1, <1>2, <1>3, <1>4, <1>5, <1>6, <1>7, <1>8, <1>9 DEF Next, Step

\* No assertion or exception of the ledger manager, of the catchup manager or of
\* CatchupWork ends the process, but for the one in applyBufferedLedgers, and that
\* one only when the first ledger of the buffer came during a catchup by command, or left a
\* gap after the replay had emptied the buffer before.
THEOREM AssertionsAlwaysHold == Spec => []AssertionsHold
  <1>1. Init => TriggerSound /\ TargetPublished
    <2>1. Init => work = NoWork /\ mCatchupState = "NONE"  BY Zenon DEF Init
    <2>2. work = NoWork => work.phase = "none"  BY DEF NoWork
    <2> QED  BY <2>1, <2>2 DEF TriggerSound, TargetPublished
  <1>2. Init => StraySound
    <2>1. Init => work = NoWork /\ mCatchupState = "NONE" /\ posted = FALSE  BY Zenon DEF Init
    <2>2. work = NoWork => work.phase = "none"  BY DEF NoWork
    <2> QED  BY <2>1, <2>2 DEF StraySound
  <1>3. Init => AssertionsHold
    <2>1. Init => err = ""  BY Zenon DEF Init
    <2> QED  BY <2>1, Zenon DEF AssertionsHold
  <1> QED
    BY <1>1, <1>2, <1>3, StepTarget, StepStray, StepAsserts, Inductive, PTL DEF Spec

=============================================================================
