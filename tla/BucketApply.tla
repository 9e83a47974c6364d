----------------------------- MODULE BucketApply ----------------------------
(***************************************************************************)
(* Catching up from the buckets of a checkpoint: the levels that differ    *)
(* from the node's own are applied to its database, the oldest first.  The *)
(* value of an entry is the ledger that changed it last.                   *)
(* The names of buckets are their hashes, so equal levels are not told     *)
(* apart: what is said here is said of networks that keep writing, whose   *)
(* levels change with every spill (README, Divergences, 10).               *)
(***************************************************************************)
EXTENDS BucketManager, SequencesExt

UINT32_MAX == 2 ^ 31 - 1      \* the largest integer of the model checker

RECURSIVE sizeOfCurr(_, _)
RECURSIVE sizeOfSnap(_, _)

\* The ledgers whose changes the levels above a level hold.
sizeAbove(ledger, level) ==
    MapThenSumSet(LAMBDA l : sizeOfCurr(ledger, l) + sizeOfSnap(ledger, l), 0..(level - 1))

\* The number of ledgers whose changes curr of a level holds, when none is missing.
sizeOfCurr(ledger, level) ==
    LET spills == {levelHalf(level), levelSize[level]}
        grows  == {levelHalf(level - 1), levelSize[level - 1]}
        step   == 2 ^ (2 * level - 1)
        before == sizeOfCurr(Max({mask(ledger - 1, size) : size \in spills \cup grows}), level)
    IN  IF level = 0 THEN (IF ledger = 1 THEN 1 ELSE 1 + (ledger % 2))
        ELSE IF level = kNumLevels - 1 \/ mask(ledger, levelHalf(level)) = 0
        THEN ledger - sizeAbove(ledger, level)
        ELSE IF \E size \in spills : mask(ledger, size) = ledger THEN step
        ELSE IF \E size \in grows : mask(ledger, size) = ledger THEN before + step
        ELSE before

sizeOfSnap(ledger, level) ==
    IF level = kNumLevels - 1 THEN 0
    ELSE IF mask(ledger, levelSize[level]) # 0 THEN levelHalf(level)
    ELSE ledger - sizeAbove(ledger, level) - sizeOfCurr(ledger, level)

oldestLedgerInCurr(ledger, level) ==
    IF sizeOfCurr(ledger, level) = 0 THEN UINT32_MAX
    ELSE ledger - sizeAbove(ledger, level) - sizeOfCurr(ledger, level) + 1

oldestLedgerInSnap(ledger, level) ==
    IF sizeOfSnap(ledger, level) = 0 THEN UINT32_MAX
    ELSE ledger - sizeAbove(ledger, level + 1) + 1

-----------------------------------------------------------------------------

deleteObjectsModifiedOnOrAfterLedger(entries, ledger) ==
    [k \in {x \in DOMAIN entries : entries[x] < ledger} |-> entries[k]]

\* One level; from the first bucket that differs on, every younger one is applied.
applyLevel_noDelete(st, own, has, ledger, level) ==  \* mutant: keeps what the node has
    LET applySnap == st.applying \/ has[level + 1].snap # own[level + 1].snap
        applyCurr == applySnap \/ has[level + 1].curr # own[level + 1].curr
        withSnap   == IF applySnap THEN applyBucket(st.entries, has[level + 1].snap) ELSE st.entries
    IN  [applying |-> applyCurr,
         entries  |-> IF applyCurr THEN applyBucket(withSnap, has[level + 1].curr) ELSE withSnap]

applyLevel(st, own, has, ledger, level) ==
    LET differsSnap == has[level + 1].snap # own[level + 1].snap
        differsCurr == has[level + 1].curr # own[level + 1].curr
        oldest == IF differsSnap THEN oldestLedgerInSnap(ledger, level)
                  ELSE oldestLedgerInCurr(ledger, level)
        kept == IF ~ st.applying /\ (differsSnap \/ differsCurr)
                THEN deleteObjectsModifiedOnOrAfterLedger(st.entries, oldest) ELSE st.entries
        applySnap == st.applying \/ differsSnap
        applyCurr == applySnap \/ differsCurr
        withSnap   == IF applySnap THEN applyBucket(kept, has[level + 1].snap) ELSE kept
    IN  [applying |-> applyCurr,
         entries  |-> IF applyCurr THEN applyBucket(withSnap, has[level + 1].curr) ELSE withSnap]

\* The entries after a node with the list `own' applied the list of a checkpoint.
ApplyBuckets(entries, own, has, ledger) ==
    FoldLeft(LAMBDA st, i : applyLevel(st, own, has, ledger, kNumLevels - i),
             [applying |-> FALSE, entries |-> entries], [i \in 1..kNumLevels |-> i]).entries

-----------------------------------------------------------------------------

\* A node that stopped at any earlier ledger and applies a checkpoint that is
\* published has the entries of that ledger afterwards (catchup from buckets,
\* BucketApplicator and ApplyBucketsWork), in a network that keeps writing: one whose
\* buckets stay equal for long can make the code apply too few of them (README,
\* Divergences, 10).
CheckpointsReproduceTheLedger ==
    [][\A l \in DOMAIN archive'.states \ DOMAIN archive.states : \A own \in 1..(l - 1) :
          ApplyBuckets(chain[own].entries, chain[own].list, archive'.states[l], l) = chain[l].entries]_vars
=============================================================================
