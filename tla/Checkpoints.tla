---------------------------- MODULE Checkpoints ----------------------------
(***************************************************************************)
(* The arithmetic of history checkpoints and of what a catchup downloads   *)
(* and applies.  Checkpoint c holds the ledgers up to c; c + 1 is a        *)
(* multiple of the checkpoint frequency.                                   *)
(***************************************************************************)
EXTENDS Integers

CONSTANT getCheckpointFrequency     \* 64; 8 when time is accelerated

ASSUME FrequencyAssumption == getCheckpointFrequency \in Nat /\ getCheckpointFrequency > 1

GENESIS_LEDGER_SEQ == 1
CURRENT == 0      \* CatchupConfiguration::CURRENT, the target "latest checkpoint"

Larger(a, b) == IF a > b THEN a ELSE b

nextCheckpointLedger(ledger) ==
    IF ledger = 0
    THEN getCheckpointFrequency
    ELSE ((ledger + getCheckpointFrequency - 1) \div getCheckpointFrequency)
            * getCheckpointFrequency

checkpointContainingLedger(ledger) == nextCheckpointLedger(ledger + 1) - 1

prevCheckpointLedger(ledger) ==
    (ledger \div getCheckpointFrequency) * getCheckpointFrequency

\* The first ledger in the files of a checkpoint.
FirstLedgerIn(checkpoint) == Larger(prevCheckpointLedger(checkpoint), GENESIS_LEDGER_SEQ)

-----------------------------------------------------------------------------

firstNotFinishedCheckpoint(lcl) ==
    IF lcl < checkpointContainingLedger(lcl)
    THEN checkpointContainingLedger(lcl)
    ELSE checkpointContainingLedger(lcl) + getCheckpointFrequency

firstNeededLedger(to, count) ==
    IF to > Larger(count, 1) THEN to - Larger(count, 1) + 1 ELSE GENESIS_LEDGER_SEQ

computeCatchupStart_roundsUp(ledger, smallestBucketApplyCheckpoint) ==
    \* mutant: takes the buckets of the checkpoint that contains the ledger
    IF ledger < getCheckpointFrequency - 1
    THEN [buckets |-> FALSE, first |-> ledger]
    ELSE [buckets |-> TRUE, first |-> checkpointContainingLedger(ledger)]

\* Where to start, and whether to start by applying the buckets of a checkpoint.
computeCatchupStart(ledger, smallestBucketApplyCheckpoint) ==
    LET checkpoint == checkpointContainingLedger(ledger)
        previous == checkpoint - getCheckpointFrequency IN
    IF ledger = checkpoint
    THEN [buckets |-> TRUE, first |-> checkpoint]
    ELSE IF ledger >= getCheckpointFrequency - 1 /\ previous >= smallestBucketApplyCheckpoint
    THEN [buckets |-> TRUE, first |-> previous]
    ELSE [buckets |-> FALSE, first |-> ledger]

\* The ledgers of a catchup of `count' ledgers or more from lcl to `to'.
makeCatchupRange(lcl, to, count) ==
    LET start == computeCatchupStart(Larger(firstNeededLedger(to, count), lcl),
                                     firstNotFinishedCheckpoint(lcl)) IN
    [first   |-> start.first,
     last    |-> to,
     buckets |-> start.buckets /\ start.first > lcl + 1]

-----------------------------------------------------------------------------
(* What a range should be. *)

\* Buckets are those of a later checkpoint; without them the first file starts at
\* the next ledger or before.
RangeConnects(range, lcl) ==
    IF range.buckets
    THEN /\ (range.first + 1) % getCheckpointFrequency = 0
         /\ range.first \in (lcl + 2)..range.last
    ELSE FirstLedgerIn(checkpointContainingLedger(range.first)) <= lcl + 1

\* The ledgers that get an entry in the history tables.
Applied(range, lcl) ==
    IF range.buckets THEN range.last - range.first + 1 ELSE range.last - lcl

\* At least `count' ledgers, if there are as many, and at most a checkpoint more.
RangeKeepsCount(range, lcl, count) ==
    /\ Applied(range, lcl) >= count \/ Applied(range, lcl) = range.last - lcl
    /\ Applied(range, lcl) <= Larger(count, 1) + getCheckpointFrequency
=============================================================================
