----------------------------- MODULE BucketList -----------------------------
(***************************************************************************)
(* The bucket list: what ledgers changed, in levels that grow by a factor  *)
(* of four.  A bucket is a function from keys to values, where DEAD marks  *)
(* an entry that was erased; it is identified by its content, as the code  *)
(* identifies it by its hash.  Level i is element i + 1 of a list.  Merges *)
(* run on worker threads; a future holds their inputs until it is          *)
(* resolved.                                                               *)
(***************************************************************************)
EXTENDS Integers, FiniteSetsExt

CONSTANT kNumLevels     \* 11

ASSUME LevelsAssumption == kNumLevels \in Nat \ {0, 1}

DEAD == 0
Empty == <<>>           \* the bucket without entries: its hash is zero, it has no file

Level == 1..kNumLevels

\* What is newer hides what is older.
Over(new, old) ==
    [k \in DOMAIN new \cup DOMAIN old |-> IF k \in DOMAIN new THEN new[k] ELSE old[k]]

-----------------------------------------------------------------------------
(* Bucket *)

\* A dead entry of the last level is dropped; so is what a newer bucket has.
merge(old, new, shadows, keepDead) ==
    LET all  == Over(new, old)
        kept == {k \in DOMAIN all : /\ \A s \in shadows : k \notin DOMAIN s
                                    /\ keepDead \/ all[k] # DEAD}
    IN  [k \in kept |-> all[k]]

liveOnly(b) == [k \in {x \in DOMAIN b : b[x] # DEAD} |-> b[k]]
deadOnly(b) == [k \in {x \in DOMAIN b : b[x] = DEAD} |-> DEAD]

\* The buckets written for a batch: its two halves are buckets of their own.
fresh(batch) == {liveOnly(batch), deadOnly(batch), batch}

\* BucketApplicator: a dead entry erases what is there.
applyBucket(entries, b) == liveOnly(Over(b, entries))

-----------------------------------------------------------------------------
(* FutureBucket.  In memory it is live, in the database it is its hashes. *)

Clear == [st |-> "clear", curr |-> Empty, snap |-> Empty, shadows |-> {}, out |-> Empty,
          done |-> FALSE]

FutureBucket(curr, snap, shadows) ==
    [Clear EXCEPT !.st = "merging", !.curr = curr, !.snap = snap, !.shadows = shadows]

isLive(f) == f.st # "clear"
isMerging(f) == f.st = "merging"
mergeComplete(f) == f.done

keepDeadEntries(level) == level < kNumLevels - 1

Output(f, level) ==
    IF isMerging(f) THEN merge(f.curr, f.snap, f.shadows, keepDeadEntries(level)) ELSE f.out

resolve(f, level) == [Clear EXCEPT !.st = "output", !.out = Output(f, level)]

getHashes(f) ==
    CASE f.st = "clear"   -> {}
      [] f.st = "merging" -> {f.curr, f.snap} \cup f.shadows
      [] f.st = "output"  -> {f.out}

save_noShadows(f) == [f EXCEPT !.done = FALSE, !.shadows = {}]  \* mutant

\* Written to the database and read again: a merge starts anew.
save(f) == [f EXCEPT !.done = FALSE]

-----------------------------------------------------------------------------
(* BucketLevel *)

levelSize[level \in 0..(kNumLevels - 1)] == IF level = 0 THEN 4 ELSE 4 * levelSize[level - 1]
levelHalf(level) == levelSize[level] \div 2
mask(v, m) == (v \div m) * m

levelShouldSpill(ledger, level) ==
    /\ level # kNumLevels - 1
    /\ ledger \in {mask(ledger, levelHalf(level)), mask(ledger, levelSize[level])}

commit(l, level) ==
    IF isLive(l.next) THEN [l EXCEPT !.curr = Output(l.next, level), !.next = Clear] ELSE l

\* A curr that the next spill of the level above moves to snap is not merged.
prepare(l, level, ledger, snap, shadows) ==
    LET moved == level # 0 /\ levelShouldSpill(ledger + levelHalf(level - 1), level) IN
    [l EXCEPT !.next = FutureBucket(IF moved THEN Empty ELSE l.curr, snap, shadows)]

snapLevel(l) == [l EXCEPT !.snap = l.curr, !.curr = Empty]

-----------------------------------------------------------------------------
(* BucketList *)

NewList == [i \in Level |-> [curr |-> Empty, snap |-> Empty, next |-> Clear]]

\* What shadows a merge into a level: curr and snap of the levels two above and higher.
shadowsFor(list, level) == UNION {{list[i].curr, list[i].snap} : i \in 1..(level - 1)}

\* The levels are changed from the last to the first: a level is moved to its snap before
\* the level above spills into it.
snapped(list, i, ledger) ==
    IF levelShouldSpill(ledger, i - 1) THEN snapLevel(list[i]) ELSE list[i]

spilled(list, i, ledger) ==
    IF levelShouldSpill(ledger, i - 2)
    THEN prepare(commit(snapped(list, i, ledger), i - 1), i - 1, ledger, list[i - 1].curr,
                 shadowsFor(list, i - 1))
    ELSE snapped(list, i, ledger)

\* The batch is merged into the first level at once.
addBatch(list, ledger, batch) ==
    [i \in Level |->
        IF i = 1 THEN commit(prepare(snapped(list, 1, ledger), 0, ledger, batch, {}), 0)
        ELSE spilled(list, i, ledger)]

\* Every bucket of a list, as HistoryArchiveState::allBuckets.
allBuckets(list) ==
    UNION {{list[i].curr, list[i].snap} \cup getHashes(list[i].next) : i \in Level}

resolveAnyReadyFutures(list) ==
    [i \in Level |->
        IF isMerging(list[i].next) /\ mergeComplete(list[i].next)
        THEN [list[i] EXCEPT !.next = resolve(@, i - 1)] ELSE list[i]]

saveList(list) == [i \in Level |-> [list[i] EXCEPT !.next = save(@)]]

futuresAllResolved(list) == \A i \in Level : ~ isMerging(list[i].next)

-----------------------------------------------------------------------------
(* What a list stands for: for each key its newest value. *)

Keys(level) == DOMAIN level.curr \cup DOMAIN level.snap

Newest(list, k) ==
    LET level == list[Min({i \in Level : k \in Keys(list[i])})]
    IN  Over(level.curr, level.snap)[k]

Contents(list) ==
    LET all == [k \in UNION {Keys(list[i]) : i \in Level} |-> Newest(list, k)]
    IN  liveOnly(all)

\* The same buckets, and the same results of merges.
SameList(list, other) ==
    \A i \in Level : /\ list[i].curr = other[i].curr /\ list[i].snap = other[i].snap
                      /\ Output(list[i].next, i - 1) = Output(other[i].next, i - 1)
=============================================================================
