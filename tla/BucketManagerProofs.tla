------------------------- MODULE BucketManagerProofs ------------------------
(***************************************************************************)
(* The bucket list stands for the ledger, no bucket that is needed is      *)
(* deleted and the archive has what it names, for every number of levels,  *)
(* every checkpoint frequency, all ledgers and any number of restarts and  *)
(* failures.                                                               *)
(*                                                                         *)
(* The first part is about lists: ListInv says what the merge of a level   *)
(* holds until the spill that commits it, and for an undisturbed list      *)
(* ContentsKept follows: adding a batch is applying it to the contents.    *)
(* The second part compares lists that differ in what workers have done    *)
(* (Same), and follows the files they need (Held, Kept).  The third is the *)
(* inductive invariant.                                                    *)
(***************************************************************************)
EXTENDS BucketManager, NumberFacts

USE LevelsAssumption

-----------------------------------------------------------------------------
(* The sizes of the levels, and the ledgers at which they spill. *)

LevelNumber == 0..(kNumLevels - 1)

AreSizes(f) ==
    f = [i \in LevelNumber |-> IF i = 0 THEN 4 ELSE 4 * f[i - 1]]

LEMMA SizesExist == \E f : AreSizes(f)
<1> DEFINE Step(f, i) == IF i = 0 THEN 4 ELSE 4 * f[i - 1]
           P(n) == \E f : \A i \in LevelNumber : i <= n => f[i] = Step(f, i)
           S == {n \in Nat : P(n)}
<1>1. P(0)
  <2> DEFINE f == [i \in LevelNumber |-> 4]
  <2>1. \A i \in LevelNumber : i <= 0 => f[i] = Step(f, i)
    BY DEF LevelNumber
  <2> QED BY <2>1
<1>2. ASSUME NEW n \in Nat, P(n) PROVE P(n + 1)
  <2>1. PICK f : \A i \in LevelNumber : i <= n => f[i] = Step(f, i)
    BY <1>2
  <2> DEFINE g == [i \in LevelNumber |-> IF i <= n THEN f[i] ELSE Step(f, i)]
  <2>2. ASSUME NEW i \in LevelNumber, i <= n + 1 PROVE g[i] = Step(g, i)
    <3>1. g[i] = Step(f, i)
      BY <2>1
    <3>2. i # 0 => g[i - 1] = f[i - 1]
      BY <2>2 DEF LevelNumber
    <3> QED BY <3>1, <3>2
  <2> QED BY <2>2
<1>3. Nat \subseteq S
  <2> HIDE DEF P
  <2>1. 0 \in S /\ \A n \in Nat : n \in S => n + 1 \in S
    BY <1>1, <1>2
  <2> HIDE DEF S
  <2> QED BY <2>1, Induction
<1>4. P(kNumLevels)
  BY <1>3
<1>5. PICK f : \A i \in LevelNumber : i <= kNumLevels => f[i] = Step(f, i)
  BY <1>4
<1> DEFINE g == [i \in LevelNumber |-> f[i]]
<1>6. ASSUME NEW i \in LevelNumber PROVE g[i] = Step(g, i)
  <2>1. g[i] = Step(f, i)
    BY <1>5 DEF LevelNumber
  <2>2. i # 0 => g[i - 1] = f[i - 1]
    BY DEF LevelNumber
  <2> QED BY <2>1, <2>2
<1>7. g = [i \in LevelNumber |-> Step(g, i)]
  BY <1>6
<1> QED BY <1>7 DEF AreSizes

\* The recursion of levelSize is well-founded.
LEMMA SizeOfLevels ==
    ASSUME NEW i \in LevelNumber
    PROVE  levelSize[i] = IF i = 0 THEN 4 ELSE 4 * levelSize[i - 1]
<1>1. levelSize = CHOOSE f : AreSizes(f)
  BY DEF levelSize, AreSizes, LevelNumber
<1>2. AreSizes(levelSize)
  BY <1>1, SizesExist
<1> QED BY <1>2 DEF AreSizes

LEMMA HalfOfLevels ==
    /\ levelHalf(0) = 2
    /\ \A i \in LevelNumber : /\ levelHalf(i) \in Nat \ {0}
                              /\ levelSize[i] = 2 * levelHalf(i)
                              /\ i # 0 => levelHalf(i) = 4 * levelHalf(i - 1)
<1> DEFINE P(n) == \A i \in LevelNumber :
                     i <= n => levelSize[i] \in Nat \ {0} /\ \E q \in Nat : levelSize[i] = 2 * q
           S == {n \in Nat : P(n)}
<1>1. P(0)
  BY SizeOfLevels, 4 = 2 * 2 DEF LevelNumber
<1>2. ASSUME NEW n \in Nat, P(n) PROVE P(n + 1)
  <2> SUFFICES ASSUME NEW i \in LevelNumber, i = n + 1
               PROVE  levelSize[i] \in Nat \ {0} /\ \E q \in Nat : levelSize[i] = 2 * q
    BY <1>2 DEF LevelNumber
  <2>1. levelSize[i] = 4 * levelSize[n] /\ n \in LevelNumber
    BY SizeOfLevels DEF LevelNumber
  <2>2. levelSize[n] \in Nat \ {0}
    BY <1>2, <2>1
  <2>3. levelSize[i] = 2 * (2 * levelSize[n]) /\ 2 * levelSize[n] \in Nat
    BY <2>1, <2>2
  <2> QED BY <2>2, <2>3
<1>3. Nat \subseteq S
  <2> HIDE DEF P
  <2>1. 0 \in S /\ \A n \in Nat : n \in S => n + 1 \in S
    BY <1>1, <1>2
  <2> HIDE DEF S
  <2> QED BY <2>1, Induction
<1>4. ASSUME NEW i \in LevelNumber
      PROVE  levelSize[i] \in Nat \ {0} /\ \E q \in Nat : levelSize[i] = 2 * q
  BY <1>3 DEF LevelNumber
<1>5. ASSUME NEW i \in LevelNumber
      PROVE  levelHalf(i) \in Nat \ {0} /\ levelSize[i] = 2 * levelHalf(i)
  BY <1>4 DEF levelHalf
<1>6. ASSUME NEW i \in LevelNumber, i # 0 PROVE levelHalf(i) = 4 * levelHalf(i - 1)
  <2>1. i - 1 \in LevelNumber
    BY <1>6 DEF LevelNumber
  <2> QED BY <1>5, <1>6, <2>1, SizeOfLevels
<1>7. levelHalf(0) = 2
  BY SizeOfLevels DEF LevelNumber, levelHalf
<1> QED BY <1>5, <1>6, <1>7

\* A level but the last spills at every multiple of half its size.
LEMMA SpillIs ==
    ASSUME NEW ledger \in Nat, NEW i \in LevelNumber
    PROVE  levelShouldSpill(ledger, i) <=>
              i # kNumLevels - 1 /\ \E q \in Nat : ledger = q * levelHalf(i)
<1>1. levelHalf(i) \in Nat \ {0} /\ levelSize[i] = 2 * levelHalf(i)
  BY HalfOfLevels
<1> DEFINE half == levelHalf(i)
<1>2. mask(ledger, half) = ledger <=> \E q \in Nat : ledger = q * half
  <2>1. ledger \div half \in Nat
    BY <1>1
  <2>2. ASSUME NEW q \in Nat, ledger = q * half PROVE ledger \div half = q
    BY <1>1, <2>2
  <2> QED BY <2>1, <2>2 DEF mask
<1>3. mask(ledger, 2 * half) = ledger => \E q \in Nat : ledger = q * half
  <2> SUFFICES ASSUME (ledger \div (2 * half)) * (2 * half) = ledger
               PROVE  \E q \in Nat : ledger = q * half
    BY DEF mask
  <2> DEFINE r == ledger \div (2 * half)
  <2>1. r \in Nat
    BY <1>1
  <2> HIDE DEF r
  <2>2. ledger = (2 * r) * half /\ 2 * r \in Nat
    BY <1>1, <2>1 DEF r
  <2> QED BY <2>2
<1> QED BY <1>1, <1>2, <1>3 DEF levelShouldSpill

\* What spills spills together with the levels above it.
LEMMA SpillsTogether ==
    ASSUME NEW ledger \in Nat, NEW i \in LevelNumber, i # 0, levelShouldSpill(ledger, i)
    PROVE  levelShouldSpill(ledger, i - 1)
<1>1. i - 1 \in LevelNumber /\ i - 1 # kNumLevels - 1
  BY DEF LevelNumber
<1>2. levelHalf(i) = 4 * levelHalf(i - 1) /\ levelHalf(i - 1) \in Nat
  BY <1>1, HalfOfLevels
<1>3. PICK q \in Nat : ledger = q * levelHalf(i)
  BY SpillIs
<1>4. ledger = (4 * q) * levelHalf(i - 1) /\ 4 * q \in Nat
  BY <1>2, <1>3
<1> QED BY <1>1, <1>4, SpillIs

LEMMA QuotientIs ==
    ASSUME NEW x \in Nat, NEW b \in Nat \ {0}, NEW q \in Nat, q * b <= x, x < (q + 1) * b
    PROVE  x \div b = q
<1> DEFINE d == x \div b
<1>1. d \in Nat /\ d * b <= x /\ x < (d + 1) * b
  BY Quotient
<1> HIDE DEF d
<1>2. d * b < (q + 1) * b /\ q * b < (d + 1) * b
  BY <1>1
<1>3. d < q + 1 /\ q < d + 1
  BY <1>1, <1>2
<1> QED BY <1>1, <1>3 DEF d

\* The first ledger after this one at which a level spills.
NextSpill(ledger, i) == (ledger \div levelHalf(i) + 1) * levelHalf(i)

LEMMA NextSpillIs ==
    ASSUME NEW ledger \in Nat, NEW i \in LevelNumber, i # kNumLevels - 1
    PROVE  IF levelShouldSpill(ledger + 1, i)
           THEN /\ NextSpill(ledger, i) = ledger + 1
                /\ NextSpill(ledger + 1, i) = ledger + 1 + levelHalf(i)
           ELSE NextSpill(ledger + 1, i) = NextSpill(ledger, i)
<1> DEFINE half == levelHalf(i)
           q == ledger \div half
<1>1. half \in Nat \ {0} /\ q \in Nat
  BY HalfOfLevels
<1>2. q * half <= ledger /\ ledger < (q + 1) * half
  BY <1>1
<1>3. (ledger + 1) \div half \in Nat
  BY <1>1
<1>4. CASE levelShouldSpill(ledger + 1, i)
  <2>1. PICK p \in Nat : ledger + 1 = p * half
    BY <1>4, SpillIs
  <2>2. (p - 1) * half <= ledger /\ ledger < p * half
    BY <1>1, <2>1
  <2>3. p = q + 1
    BY <1>1, <1>2, <2>2
  <2>4. (ledger + 1) \div half = p
    BY <1>1, <2>1
  <2> QED BY <1>1, <1>4, <2>1, <2>3, <2>4 DEF NextSpill
<1>5. CASE ~ levelShouldSpill(ledger + 1, i)
  <2>1. (q + 1) * half # ledger + 1
    BY <1>1, <1>5, SpillIs
  <2> HIDE DEF half, q
  <2> DEFINE next == (q + 1) * half
             this == q * half
  <2>2. next \in Nat /\ this \in Nat
    BY <1>1
  <2>3. this <= ledger + 1 /\ ledger + 1 < next
    <3> HIDE DEF next, this
    <3> QED BY <1>2, <2>1, <2>2 DEF next, this
  <2>4. (ledger + 1) \div half = q
    BY <1>1, <2>3, QuotientIs
  <2> QED BY <1>5, <2>4 DEF NextSpill, half, q
<1> QED BY <1>4, <1>5

-----------------------------------------------------------------------------
(* What the operations of buckets, futures and levels give. *)

LEMMA EmptyHasNoKeys == DOMAIN Empty = {}
BY DEF Empty

LEMMA MergeIs ==
    ASSUME NEW old, NEW new, NEW shadows, NEW keepDead \in BOOLEAN, NEW k
    PROVE  LET out == merge(old, new, shadows, keepDead)
               v   == IF k \in DOMAIN new THEN new[k] ELSE old[k]
           IN  /\ k \in DOMAIN out <=>
                     /\ k \in DOMAIN new \cup DOMAIN old
                     /\ \A s \in shadows : k \notin DOMAIN s
                     /\ keepDead \/ v # DEAD
               /\ k \in DOMAIN out => out[k] = v
BY DEF merge, Over

LEMMA FutureIs ==
    ASSUME NEW curr, NEW snap, NEW shadows, NEW i
    PROVE  LET f == FutureBucket(curr, snap, shadows) IN
           /\ f.curr = curr /\ f.snap = snap /\ f.shadows = shadows /\ f.done = FALSE
           /\ isLive(f) /\ isMerging(f) /\ f # Clear
           /\ Output(f, i) = merge(curr, snap, shadows, keepDeadEntries(i))
BY DEF FutureBucket, Clear, isLive, isMerging, Output

LEMMA ClearIs ==
    ASSUME NEW i
    PROVE  /\ ~ isLive(Clear) /\ ~ isMerging(Clear) /\ Clear.done = FALSE
           /\ Output(Clear, i) = Empty /\ getHashes(Clear) = {}
BY DEF Clear, isLive, isMerging, Output, getHashes

IsLevel(l) == l = [curr |-> l.curr, snap |-> l.snap, next |-> l.next]

IsList(list) == list = [i \in Level |-> list[i]] /\ \A i \in Level : IsLevel(list[i])

LEMMA Levels ==
    /\ 1 \in Level /\ kNumLevels \in Level /\ kNumLevels # 1
    /\ \A i \in Level : i - 1 \in LevelNumber /\ (i # 1 => i - 1 \in Level /\ i - 2 \in LevelNumber)
    /\ \A i \in Level : i # kNumLevels => i + 1 \in Level
    /\ \A i \in Level : keepDeadEntries(i - 1) <=> i # kNumLevels
BY DEF Level, LevelNumber, keepDeadEntries

Spills(ledger, i) == levelShouldSpill(ledger, i - 1)

\* What the next merge into a level starts from, when its spill to the level below is next.
Remains(curr, ledger, i) ==
    IF levelShouldSpill(ledger + levelHalf(i - 2), i - 1) THEN Empty ELSE curr

LEMMA FirstLevel ==
    ASSUME NEW list, IsList(list), NEW ledger, NEW batch
    PROVE  LET new == addBatch(list, ledger, batch)
               old == IF Spills(ledger, 1) THEN Empty ELSE list[1].curr
           IN  new[1] = [curr |-> merge(old, batch, {}, TRUE),
                         snap |-> IF Spills(ledger, 1) THEN list[1].curr ELSE list[1].snap,
                         next |-> Clear]
<1> DEFINE l == snapped(list, 1, ledger)
           old == IF Spills(ledger, 1) THEN Empty ELSE list[1].curr
           snap == IF Spills(ledger, 1) THEN list[1].curr ELSE list[1].snap
           f == FutureBucket(old, batch, {})
<1>1. list[1] = [curr |-> list[1].curr, snap |-> list[1].snap, next |-> list[1].next]
  BY Levels DEF IsList, IsLevel
<1>2. l = [curr |-> old, snap |-> snap, next |-> list[1].next]
  BY <1>1 DEF snapped, snapLevel, Spills
<1> HIDE DEF l, old, snap
<1>3. prepare(l, 0, ledger, batch, {}) = [curr |-> old, snap |-> snap, next |-> f]
  BY <1>2 DEF prepare
<1>4. isLive(f) /\ Output(f, 0) = merge(old, batch, {}, TRUE)
  <2>1. keepDeadEntries(0) = TRUE
    BY DEF keepDeadEntries
  <2> QED BY <2>1 DEF FutureBucket, Clear, isLive, isMerging, Output
<1> HIDE DEF f
<1>5. commit([curr |-> old, snap |-> snap, next |-> f], 0)
        = [curr |-> merge(old, batch, {}, TRUE), snap |-> snap, next |-> Clear]
  BY <1>4 DEF commit
<1>6. addBatch(list, ledger, batch)[1] = commit(prepare(l, 0, ledger, batch, {}), 0)
  BY Levels DEF addBatch, l
<1> QED BY <1>3, <1>5, <1>6 DEF old, snap

LEMMA OtherLevel ==
    ASSUME NEW list, IsList(list), NEW ledger, NEW batch, NEW i \in Level, i # 1
    PROVE  LET new  == addBatch(list, ledger, batch)
               old  == IF Spills(ledger, i) THEN Empty ELSE list[i].curr
               snap == IF Spills(ledger, i) THEN list[i].curr ELSE list[i].snap
               curr == IF isLive(list[i].next) THEN Output(list[i].next, i - 1) ELSE old
           IN  new[i] = IF Spills(ledger, i - 1)
                        THEN [curr |-> curr, snap |-> snap,
                              next |-> FutureBucket(Remains(curr, ledger, i), list[i - 1].curr,
                                                    shadowsFor(list, i - 1))]
                        ELSE [curr |-> old, snap |-> snap, next |-> list[i].next]
<1> DEFINE l == snapped(list, i, ledger)
           old == IF Spills(ledger, i) THEN Empty ELSE list[i].curr
           snap == IF Spills(ledger, i) THEN list[i].curr ELSE list[i].snap
           curr == IF isLive(list[i].next) THEN Output(list[i].next, i - 1) ELSE old
           next == IF isLive(list[i].next) THEN Clear ELSE list[i].next
           f == FutureBucket(Remains(curr, ledger, i), list[i - 1].curr, shadowsFor(list, i - 1))
<1>1. list[i] = [curr |-> list[i].curr, snap |-> list[i].snap, next |-> list[i].next]
  BY DEF IsList, IsLevel
<1>2. l = [curr |-> old, snap |-> snap, next |-> list[i].next]
  BY <1>1 DEF snapped, snapLevel, Spills
<1>3. addBatch(list, ledger, batch)[i]
        = IF Spills(ledger, i - 1)
          THEN prepare(commit(l, i - 1), i - 1, ledger, list[i - 1].curr, shadowsFor(list, i - 1))
          ELSE l
  <2>1. (i - 1) - 1 = i - 2
    BY DEF Level
  <2> QED BY <2>1 DEF addBatch, spilled, Spills
<1> HIDE DEF l, old, snap
<1>4. commit(l, i - 1) = [curr |-> curr, snap |-> snap, next |-> next]
  BY <1>2 DEF commit
<1> HIDE DEF curr, next
<1>5. prepare([curr |-> curr, snap |-> snap, next |-> next], i - 1, ledger, list[i - 1].curr,
              shadowsFor(list, i - 1))
        = [curr |-> curr, snap |-> snap, next |-> f]
  <2>1. i - 1 # 0 /\ (i - 1) - 1 = i - 2
    BY DEF Level
  <2> QED BY <2>1 DEF prepare, Remains
<1> QED BY <1>2, <1>3, <1>4, <1>5 DEF old, snap, curr

LEMMA OtherCurr ==
    ASSUME NEW list, IsList(list), NEW ledger, NEW batch, NEW i \in Level, i # 1
    PROVE  LET new  == addBatch(list, ledger, batch)
               old  == IF Spills(ledger, i) THEN Empty ELSE list[i].curr
           IN  /\ IsLevel(new[i])
               /\ new[i].snap = IF Spills(ledger, i) THEN list[i].curr ELSE list[i].snap
               /\ new[i].curr = IF Spills(ledger, i - 1) /\ isLive(list[i].next)
                                THEN Output(list[i].next, i - 1) ELSE old
               /\ new[i].next = IF Spills(ledger, i - 1)
                                THEN FutureBucket(Remains(new[i].curr, ledger, i), list[i - 1].curr,
                                                  shadowsFor(list, i - 1))
                                ELSE list[i].next
<1> DEFINE new  == addBatch(list, ledger, batch)
           old  == IF Spills(ledger, i) THEN Empty ELSE list[i].curr
           snap == IF Spills(ledger, i) THEN list[i].curr ELSE list[i].snap
           curr == IF isLive(list[i].next) THEN Output(list[i].next, i - 1) ELSE old
           f    == FutureBucket(Remains(curr, ledger, i), list[i - 1].curr, shadowsFor(list, i - 1))
           here == new[i]
<1>1. here = IF Spills(ledger, i - 1) THEN [curr |-> curr, snap |-> snap, next |-> f]
             ELSE [curr |-> old, snap |-> snap, next |-> list[i].next]
  BY OtherLevel
<1>2. /\ IsLevel(here)
      /\ here.snap = snap
      /\ here.curr = IF Spills(ledger, i - 1) THEN curr ELSE old
      /\ here.next = IF Spills(ledger, i - 1) THEN f ELSE list[i].next
  <2> HIDE DEF here, curr, snap, f, old
  <2> QED BY <1>1 DEF IsLevel
<1> QED BY <1>2 DEF f

LEMMA FirstCurr ==
    ASSUME NEW list, IsList(list), NEW ledger, NEW batch
    PROVE  LET new == addBatch(list, ledger, batch)
               old == IF Spills(ledger, 1) THEN Empty ELSE list[1].curr
           IN  /\ IsLevel(new[1])
               /\ new[1].curr = merge(old, batch, {}, TRUE)
               /\ new[1].snap = IF Spills(ledger, 1) THEN list[1].curr ELSE list[1].snap
               /\ new[1].next = Clear
<1> DEFINE here == addBatch(list, ledger, batch)[1]
           curr == merge(IF Spills(ledger, 1) THEN Empty ELSE list[1].curr, batch, {}, TRUE)
           snap == IF Spills(ledger, 1) THEN list[1].curr ELSE list[1].snap
<1>1. here = [curr |-> curr, snap |-> snap, next |-> Clear]
  BY FirstLevel
<1>2. IsLevel(here) /\ here.curr = curr /\ here.snap = snap /\ here.next = Clear
  <2> HIDE DEF here, curr, snap
  <2> QED BY <1>1 DEF IsLevel
<1> QED BY <1>2

LEMMA SnapIs ==
    ASSUME NEW list, IsList(list), NEW ledger, NEW batch, NEW i \in Level
    PROVE  addBatch(list, ledger, batch)[i].snap
             = IF Spills(ledger, i) THEN list[i].curr ELSE list[i].snap
<1>1. CASE i = 1
  BY <1>1, FirstCurr
<1>2. CASE i # 1
  BY <1>2, OtherCurr
<1> QED BY <1>1, <1>2

-----------------------------------------------------------------------------
(* The list of a node that is never interrupted, after each ledger: what was moved to *)
(* snap is being merged into the level below, and what that merge leaves out, because *)
(* a younger level had it when the merge began, a younger level still has.            *)

\* A key in the levels above level i, where no merge into level i finds it.
Above(list, i, k) ==
    \/ \E j \in 1..(i - 2) : k \in Keys(list[j])
    \/ k \in DOMAIN list[i - 1].curr

Pending(list, ledger, i) ==
    LET f == list[i].next
        old == IF levelShouldSpill(NextSpill(ledger, i - 2), i - 1) THEN Empty ELSE list[i].curr
    IN  \/ f = Clear /\ list[i].curr = Empty /\ list[i - 1].snap = Empty
        \/ /\ f = FutureBucket(old, list[i - 1].snap, f.shadows)
           /\ \A s \in f.shadows : \A k \in DOMAIN s : Above(list, i, k)

ListInv(list, ledger) ==
    /\ IsList(list)
    /\ list[1].next = Clear
    /\ list[kNumLevels].snap = Empty
    /\ \A i \in Level \ {1} : Pending(list, ledger, i)

LEMMA SpillsAt ==
    ASSUME NEW ledger \in Nat, NEW i \in Level, i # 1
    PROVE  /\ Spills(ledger + 1, i) => Spills(ledger + 1, i - 1)
           /\ ~ Spills(ledger, kNumLevels)
           /\ IF Spills(ledger + 1, i - 1)
              THEN /\ NextSpill(ledger, i - 2) = ledger + 1
                   /\ NextSpill(ledger + 1, i - 2) = ledger + 1 + levelHalf(i - 2)
              ELSE NextSpill(ledger + 1, i - 2) = NextSpill(ledger, i - 2)
<1>1. i - 2 \in LevelNumber /\ i - 2 # kNumLevels - 1 /\ (i - 1) - 1 = i - 2
  BY DEF Level, LevelNumber
<1>2. i - 1 \in LevelNumber /\ i - 1 # 0
  BY DEF Level, LevelNumber
<1>3. Spills(ledger + 1, i) => Spills(ledger + 1, i - 1)
  <2>1. ledger + 1 \in Nat
    OBVIOUS
  <2>2. levelShouldSpill(ledger + 1, i - 1) => levelShouldSpill(ledger + 1, (i - 1) - 1)
    BY <1>2, <2>1, SpillsTogether
  <2> QED BY <2>2 DEF Spills
<1>4. ~ Spills(ledger, kNumLevels)
  BY DEF Spills, levelShouldSpill
<1> QED BY <1>1, <1>3, <1>4, NextSpillIs DEF Spills

\* What a level commits: what its merge began with, but for what a younger level hides
\* and, in the last level, what is dead.
LEMMA Committed ==
    ASSUME NEW ledger \in Nat, NEW list, ListInv(list, ledger), NEW batch,
           NEW i \in Level, i # 1, Spills(ledger + 1, i - 1), NEW k
    PROVE  LET curr == addBatch(list, ledger + 1, batch)[i].curr
               old  == IF Spills(ledger + 1, i) THEN Empty ELSE list[i].curr
               snap == list[i - 1].snap
               v    == IF k \in DOMAIN snap THEN snap[k] ELSE old[k]
           IN  /\ k \in DOMAIN curr => k \in DOMAIN snap \cup DOMAIN old /\ curr[k] = v
               /\ k \in DOMAIN snap \cup DOMAIN old /\ ~ Above(list, i, k) =>
                     k \in DOMAIN curr \/ (i = kNumLevels /\ v = DEAD)
<1> DEFINE curr == addBatch(list, ledger + 1, batch)[i].curr
           old  == IF Spills(ledger + 1, i) THEN Empty ELSE list[i].curr
           snap == list[i - 1].snap
           v    == IF k \in DOMAIN snap THEN snap[k] ELSE old[k]
           f    == list[i].next
           out  == merge(old, snap, f.shadows, keepDeadEntries(i - 1))
<1>1. curr = IF isLive(f) THEN Output(f, i - 1) ELSE old
  BY OtherCurr DEF ListInv
<1>2. CASE f = Clear /\ list[i].curr = Empty /\ list[i - 1].snap = Empty
  <2>1. curr = Empty /\ snap = Empty /\ old = Empty
    BY <1>1, <1>2, ClearIs
  <2> QED BY <2>1, EmptyHasNoKeys
<1>3. CASE /\ f = FutureBucket(old, snap, f.shadows)
           /\ \A s \in f.shadows : \A x \in DOMAIN s : Above(list, i, x)
  <2> HIDE DEF f, old, snap, curr
  <2>1. curr = out
    <3>1. LET g == FutureBucket(old, snap, f.shadows) IN isLive(g) /\ Output(g, i - 1) = out
      BY DEF FutureBucket, Clear, isLive, isMerging, Output
    <3> QED BY <1>1, <1>3, <3>1
  <2>2. keepDeadEntries(i - 1) \in BOOLEAN /\ (keepDeadEntries(i - 1) <=> i # kNumLevels)
    BY Levels DEF keepDeadEntries
  <2>3. /\ k \in DOMAIN out <=> /\ k \in DOMAIN snap \cup DOMAIN old
                                /\ \A s \in f.shadows : k \notin DOMAIN s
                                /\ keepDeadEntries(i - 1) \/ v # DEAD
        /\ k \in DOMAIN out => out[k] = v
    BY <2>2, MergeIs
  <2>4. ~ Above(list, i, k) => \A s \in f.shadows : k \notin DOMAIN s
    BY <1>3
  <2>5. /\ k \in DOMAIN curr => k \in DOMAIN snap \cup DOMAIN old /\ curr[k] = v
        /\ k \in DOMAIN snap \cup DOMAIN old /\ ~ Above(list, i, k) =>
              k \in DOMAIN curr \/ (i = kNumLevels /\ v = DEAD)
    <3> HIDE DEF v, out
    <3> QED BY <2>1, <2>2, <2>3, <2>4
  <2> QED BY <2>5 DEF f, old, snap, curr
<1>4. Pending(list, ledger, i)
  BY DEF ListInv
<1>5. NextSpill(ledger, i - 2) = ledger + 1
  BY SpillsAt
<1> QED BY <1>2, <1>3, <1>4, <1>5 DEF Pending, Spills

-----------------------------------------------------------------------------
(* The youngest level with a key. *)

FirstAt(list, k, i) == k \in Keys(list[i]) /\ \A j \in 1..(i - 1) : k \notin Keys(list[j])

ValueAt(list, k, i) == Over(list[i].curr, list[i].snap)[k]

LEMMA FirstExists ==
    ASSUME NEW list, NEW k, NEW i \in Level, k \in Keys(list[i])
    PROVE  \E j \in 1..i : FirstAt(list, k, j)
<1> DEFINE T == {j \in 1..i : k \in Keys(list[j])}
<1>1. T \subseteq Nat /\ i \in T
  BY DEF Level
<1>2. PICK j \in T : \A x \in T : j <= x
  <2> HIDE DEF T
  <2> QED BY <1>1, LeastElement, Zenon
<1>3. \A x \in 1..(j - 1) : k \notin Keys(list[x])
  BY <1>2 DEF Level
<1> QED BY <1>2, <1>3 DEF FirstAt

LEMMA NewestIs ==
    ASSUME NEW list, NEW k, NEW i \in Level, FirstAt(list, k, i)
    PROVE  Newest(list, k) = ValueAt(list, k, i)
<1> DEFINE T == {j \in Level : k \in Keys(list[j])}
<1>1. T \in SUBSET Int /\ i \in T /\ \A x \in T : x >= i
  BY DEF Level, FirstAt
<1>2. Min(T) = i
  <2> HIDE DEF T
  <2> QED BY <1>1, MinOf
<1> QED BY <1>2 DEF Newest, ValueAt

LEMMA ValueIs ==
    ASSUME NEW list, NEW k, NEW i
    PROVE  /\ k \in DOMAIN list[i].curr => ValueAt(list, k, i) = list[i].curr[k]
           /\ k \in DOMAIN list[i].snap /\ k \notin DOMAIN list[i].curr =>
                 ValueAt(list, k, i) = list[i].snap[k]
BY DEF ValueAt, Over

-----------------------------------------------------------------------------
(* Where a key is after a batch that does not have it: where it was, or one level below; *)
(* or nowhere, when it was dead and came to the last level.                           *)

\* Nothing gets to a level from below it.
LEMMA Younger ==
    ASSUME NEW ledger \in Nat, NEW list, ListInv(list, ledger), NEW batch,
           NEW k, k \notin DOMAIN batch, NEW i \in Level, \A j \in 1..(i - 1) : k \notin Keys(list[j])
    PROVE  LET new == addBatch(list, ledger + 1, batch) IN
           /\ \A j \in 1..(i - 1) : k \notin Keys(new[j])
           /\ k \notin DOMAIN list[i].curr => k \notin DOMAIN new[i].curr
<1> DEFINE new == addBatch(list, ledger + 1, batch)
<1>1. ASSUME NEW j \in 1..i, k \notin DOMAIN list[j].curr PROVE k \notin DOMAIN new[j].curr
  <2>1. CASE j = 1
    <3> DEFINE old == IF Spills(ledger + 1, 1) THEN Empty ELSE list[1].curr
               out == merge(old, batch, {}, TRUE)
    <3>1. new[1].curr = out
      BY FirstCurr DEF ListInv
    <3>2. k \notin DOMAIN old
      BY <1>1, <2>1, EmptyHasNoKeys
    <3>3. k \notin DOMAIN out
      <4> HIDE DEF old
      <4> QED BY <3>2 DEF merge, Over
    <3> QED BY <2>1, <3>1, <3>3
  <2>2. CASE j # 1
    <3> DEFINE old == IF Spills(ledger + 1, j) THEN Empty ELSE list[j].curr
    <3>1. j \in Level /\ j - 1 \in 1..(i - 1)
      BY <2>2 DEF Level
    <3>2. k \notin DOMAIN old /\ k \notin DOMAIN list[j - 1].snap
      BY <1>1, <3>1, EmptyHasNoKeys DEF Keys
    <3>3. CASE Spills(ledger + 1, j - 1)
      <4>1. k \in DOMAIN new[j].curr => k \in DOMAIN list[j - 1].snap \cup DOMAIN old
        BY <2>2, <3>1, <3>3, Committed
      <4> QED BY <3>2, <4>1
    <3>4. CASE ~ Spills(ledger + 1, j - 1)
      <4>1. new[j].curr = old
        BY <2>2, <3>1, <3>4, OtherCurr DEF ListInv
      <4> QED BY <3>2, <4>1
    <3> QED BY <3>3, <3>4
  <2> QED BY <2>1, <2>2
<1>2. ASSUME NEW j \in 1..(i - 1) PROVE k \notin Keys(new[j])
  <2>1. j \in Level /\ j \in 1..i /\ k \notin DOMAIN list[j].curr /\ k \notin DOMAIN list[j].snap
    BY DEF Level, Keys
  <2>2. new[j].snap \in {list[j].curr, list[j].snap}
    BY <2>1, SnapIs DEF ListInv
  <2>3. k \notin DOMAIN new[j].snap
    BY <2>1, <2>2
  <2> QED BY <1>1, <2>1, <2>3 DEF Keys
<1>3. i \in 1..i
  BY DEF Level
<1> QED BY <1>1, <1>2, <1>3

\* The places of a key that the list had.
Stays(list, new, k, i) == FirstAt(new, k, i) /\ ValueAt(new, k, i) = ValueAt(list, k, i)

Sinks(list, new, k, i) ==
    /\ i # kNumLevels
    /\ k \notin DOMAIN list[i].curr
    /\ k \in DOMAIN new[i + 1].curr
    /\ FirstAt(new, k, i + 1) /\ ValueAt(new, k, i + 1) = ValueAt(list, k, i)

Vanishes(list, new, k, i) ==
    /\ i = kNumLevels \/ (i + 1 = kNumLevels /\ k \notin DOMAIN list[i].curr)
    /\ ValueAt(list, k, i) = DEAD
    /\ \A j \in Level : k \notin Keys(new[j])

LEMMA FirstLevelKeys ==
    ASSUME NEW ledger \in Nat, NEW list, ListInv(list, ledger), NEW batch, NEW k
    PROVE  LET new == addBatch(list, ledger + 1, batch)
               old == IF Spills(ledger + 1, 1) THEN Empty ELSE list[1].curr
           IN  /\ k \in DOMAIN batch => k \in DOMAIN new[1].curr /\ new[1].curr[k] = batch[k]
               /\ k \notin DOMAIN batch /\ k \in DOMAIN old =>
                     k \in DOMAIN new[1].curr /\ new[1].curr[k] = old[k]
<1> DEFINE new == addBatch(list, ledger + 1, batch)
           old == IF Spills(ledger + 1, 1) THEN Empty ELSE list[1].curr
           out == merge(old, batch, {}, TRUE)
<1>1. new[1].curr = out
  BY FirstCurr DEF ListInv
<1>2. /\ k \in DOMAIN batch => k \in DOMAIN out /\ out[k] = batch[k]
      /\ k \notin DOMAIN batch /\ k \in DOMAIN old => k \in DOMAIN out /\ out[k] = old[k]
  <2> HIDE DEF old
  <2> QED BY DEF merge, Over
<1> QED BY <1>1, <1>2

\* A key whose newest value is in curr of a level.
LEMMA FromCurr ==
    ASSUME NEW ledger \in Nat, NEW list, ListInv(list, ledger), NEW batch,
           NEW k, k \notin DOMAIN batch, NEW i \in Level, FirstAt(list, k, i),
           k \in DOMAIN list[i].curr
    PROVE  LET new == addBatch(list, ledger + 1, batch) IN
           /\ Stays(list, new, k, i) \/ Vanishes(list, new, k, i)
           /\ ~ Spills(ledger + 1, i) /\ i # kNumLevels => k \in DOMAIN new[i].curr
<1> DEFINE new == addBatch(list, ledger + 1, batch)
           old == IF Spills(ledger + 1, i) THEN Empty ELSE list[i].curr
<1>1. \A j \in 1..(i - 1) : k \notin Keys(list[j])
  BY DEF FirstAt
<1>2. \A j \in 1..(i - 1) : k \notin Keys(new[j])
  BY <1>1, Younger
<1>3. ValueAt(list, k, i) = list[i].curr[k]
  BY ValueIs
<1> HIDE DEF new
<1>4. ASSUME k \in DOMAIN new[i].curr, new[i].curr[k] = list[i].curr[k]
      PROVE  Stays(list, new, k, i)
  BY <1>2, <1>3, <1>4, ValueIs DEF Stays, FirstAt, Keys
<1>5. CASE Spills(ledger + 1, i)
  <2>1. new[i].snap = list[i].curr
    BY <1>5, SnapIs DEF ListInv, new
  <2>2. k \notin DOMAIN new[i].curr
    <3>1. CASE i = 1
      <4>1. new[1].curr = merge(Empty, batch, {}, TRUE)
        BY <1>5, <3>1, FirstCurr DEF ListInv, new
      <4> QED BY <3>1, <4>1, EmptyHasNoKeys DEF merge, Over
    <3>2. CASE i # 1
      <4>1. Spills(ledger + 1, i - 1) /\ old = Empty
        BY <1>5, <3>2, SpillsAt
      <4>2. k \in DOMAIN new[i].curr => k \in DOMAIN list[i - 1].snap \cup DOMAIN old
        BY <3>2, <4>1, Committed DEF new
      <4>3. i - 1 \in 1..(i - 1)
        BY <3>2 DEF Level
      <4> QED BY <1>1, <4>1, <4>2, <4>3, EmptyHasNoKeys DEF Keys
    <3> QED BY <3>1, <3>2
  <2>3. ValueAt(new, k, i) = list[i].curr[k]
    BY <2>1, <2>2, ValueIs
  <2> QED BY <1>2, <1>3, <1>5, <2>1, <2>3 DEF Stays, FirstAt, Keys, new
<1>6. CASE ~ Spills(ledger + 1, i) /\ i = 1
  <2>1. k \in DOMAIN new[1].curr /\ new[1].curr[k] = list[1].curr[k]
    BY <1>6, FirstLevelKeys DEF new
  <2> QED BY <1>4, <1>6, <2>1 DEF new
<1>7. CASE ~ Spills(ledger + 1, i) /\ i # 1 /\ ~ Spills(ledger + 1, i - 1)
  <2>1. new[i].curr = list[i].curr
    BY <1>7, OtherCurr DEF ListInv, new
  <2> QED BY <1>4, <2>1 DEF new
<1>8. CASE ~ Spills(ledger + 1, i) /\ i # 1 /\ Spills(ledger + 1, i - 1)
  <2>1. old = list[i].curr
    BY <1>8
  <2>2. k \notin DOMAIN list[i - 1].snap /\ ~ Above(list, i, k)
    <3>1. i - 1 \in 1..(i - 1) /\ \A j \in 1..(i - 2) : j \in 1..(i - 1)
      BY <1>8 DEF Level
    <3> QED BY <1>1, <3>1 DEF Above, Keys
  <2>3. /\ k \in DOMAIN new[i].curr => new[i].curr[k] = list[i].curr[k]
        /\ k \in DOMAIN new[i].curr \/ (i = kNumLevels /\ list[i].curr[k] = DEAD)
    BY <1>8, <2>1, <2>2, Committed DEF new
  <2>4. CASE k \in DOMAIN new[i].curr
    BY <1>4, <2>3, <2>4 DEF new
  <2>5. CASE k \notin DOMAIN new[i].curr
    <3>1. i = kNumLevels /\ list[i].curr[k] = DEAD
      BY <2>3, <2>5
    <3>2. new[i].snap = Empty
      <4>1. new[i].snap = list[i].snap
        BY <1>8, OtherCurr DEF ListInv, new
      <4> QED BY <3>1, <4>1 DEF ListInv
    <3>3. \A j \in Level : k \notin Keys(new[j])
      <4>1. k \notin Keys(new[i])
        BY <2>5, <3>2, EmptyHasNoKeys DEF Keys
      <4>2. \A j \in Level : j = i \/ j \in 1..(i - 1)
        BY <3>1 DEF Level
      <4> QED BY <1>2, <4>1, <4>2
    <3> QED BY <1>3, <3>1, <3>3 DEF Vanishes, new
  <2> QED BY <2>4, <2>5
<1> QED BY <1>5, <1>6, <1>7, <1>8

\* A key whose newest value is in snap of a level.
LEMMA FromSnap ==
    ASSUME NEW ledger \in Nat, NEW list, ListInv(list, ledger), NEW batch,
           NEW k, k \notin DOMAIN batch, NEW i \in Level, FirstAt(list, k, i),
           k \notin DOMAIN list[i].curr
    PROVE  LET new == addBatch(list, ledger + 1, batch) IN
           \/ Stays(list, new, k, i)
           \/ Sinks(list, new, k, i)
           \/ Vanishes(list, new, k, i)
<1> DEFINE new == addBatch(list, ledger + 1, batch)
<1>1. /\ \A j \in 1..(i - 1) : k \notin Keys(list[j])
      /\ k \in DOMAIN list[i].snap
  BY DEF FirstAt, Keys
<1>2. (\A j \in 1..(i - 1) : k \notin Keys(new[j])) /\ k \notin DOMAIN new[i].curr
  BY <1>1, Younger
<1>3. ValueAt(list, k, i) = list[i].snap[k]
  BY <1>1, ValueIs
<1>4. i # kNumLevels
  BY <1>1, EmptyHasNoKeys DEF ListInv
<1>5. new[i].snap = IF Spills(ledger + 1, i) THEN list[i].curr ELSE list[i].snap
  BY SnapIs DEF ListInv
<1> HIDE DEF new
<1>6. CASE ~ Spills(ledger + 1, i)
  <2>1. ValueAt(new, k, i) = list[i].snap[k]
    BY <1>1, <1>2, <1>5, <1>6, ValueIs
  <2> QED BY <1>1, <1>2, <1>3, <1>5, <1>6, <2>1 DEF Stays, FirstAt, Keys, new
<1>7. CASE Spills(ledger + 1, i)
  <2> DEFINE b == i + 1
  <2>1. b \in Level /\ b # 1 /\ b - 1 = i /\ b - 2 = i - 1
    BY <1>4 DEF Level
  <2>2. \A j \in 1..(b - 1) : k \notin Keys(new[j])
    <3>1. k \notin Keys(new[i])
      BY <1>2, <1>5, <1>7 DEF Keys
    <3>2. \A j \in 1..(b - 1) : j = i \/ j \in 1..(i - 1)
      BY DEF Level
    <3> QED BY <1>2, <3>1, <3>2
  <2>3. ~ Above(list, b, k)
    BY <1>1, <2>1 DEF Above
  <2>4. /\ k \in DOMAIN new[b].curr => new[b].curr[k] = list[i].snap[k]
        /\ k \in DOMAIN new[b].curr \/ (b = kNumLevels /\ list[i].snap[k] = DEAD)
    <3> HIDE DEF b
    <3> QED BY <1>1, <1>7, <2>1, <2>3, Committed DEF new
  <2>5. CASE k \in DOMAIN new[b].curr
    <3>1. ValueAt(new, k, b) = list[i].snap[k]
      BY <2>4, <2>5, ValueIs
    <3> QED BY <1>3, <1>4, <2>2, <2>5, <3>1 DEF Sinks, FirstAt, Keys, new
  <2>6. CASE k \notin DOMAIN new[b].curr
    <3>1. b = kNumLevels /\ list[i].snap[k] = DEAD
      BY <2>4, <2>6
    <3>2. new[b].snap = Empty
      <4>1. ~ Spills(ledger + 1, kNumLevels)
        BY DEF Spills, levelShouldSpill
      <4>2. new[b].snap = list[b].snap
        BY <2>1, <3>1, <4>1, SnapIs DEF ListInv, new
      <4> QED BY <3>1, <4>2 DEF ListInv
    <3>3. \A j \in Level : k \notin Keys(new[j])
      <4>1. k \notin Keys(new[b])
        BY <2>6, <3>2, EmptyHasNoKeys DEF Keys
      <4>2. \A j \in Level : j = b \/ j \in 1..(b - 1)
        BY <3>1 DEF Level
      <4> QED BY <2>2, <4>1, <4>2
    <3> QED BY <1>3, <3>1, <3>3 DEF Vanishes, new
  <2> QED BY <2>5, <2>6
<1> QED BY <1>6, <1>7

\* What is above a level, but for a spill of the level above it, stays above it.
LEMMA StaysAbove ==
    ASSUME NEW ledger \in Nat, NEW list, ListInv(list, ledger), NEW batch,
           NEW i \in Level, i # 1, NEW k,
           \/ \E j \in 1..(i - 2) : k \in Keys(list[j])
           \/ Above(list, i, k) /\ ~ Spills(ledger + 1, i - 1)
    PROVE  Above(addBatch(list, ledger + 1, batch), i, k)
<1> DEFINE new == addBatch(list, ledger + 1, batch)
<1>1. CASE k \in DOMAIN batch
  <2>1. k \in DOMAIN new[1].curr
    BY <1>1, FirstLevelKeys
  <2>2. i - 1 = 1 \/ 1 \in 1..(i - 2)
    BY DEF Level
  <2> QED BY <2>1, <2>2 DEF Above, Keys
<1>2. CASE k \notin DOMAIN batch
  <2>1. PICK j \in Level : k \in Keys(list[j]) /\ j < i /\ (j = i - 1 => k \in DOMAIN list[j].curr)
    <3>1. \A j \in 1..(i - 2) : j \in Level /\ j < i /\ j # i - 1
      BY DEF Level
    <3>2. i - 1 \in Level /\ i - 1 < i
      BY DEF Level
    <3> QED BY <3>1, <3>2 DEF Above, Keys
  <2>2. PICK x \in 1..j : FirstAt(list, k, x)
    BY <2>1, FirstExists
  <2>3. x \in Level /\ x < i /\ x # kNumLevels
    BY <2>1, <2>2 DEF Level
  <2> HIDE DEF new
  <2>4. CASE x \in 1..(i - 2) /\ k \in DOMAIN list[x].curr
    <3>1. Stays(list, new, k, x)
      BY <1>2, <2>2, <2>3, <2>4, FromCurr DEF new, Vanishes
    <3> QED BY <2>4, <3>1 DEF Above, Stays, FirstAt, new
  <2>5. CASE x \in 1..(i - 2) /\ k \notin DOMAIN list[x].curr
    <3>1. x + 1 # kNumLevels
      BY <2>5 DEF Level
    <3>2. Stays(list, new, k, x) \/ Sinks(list, new, k, x)
      BY <1>2, <2>2, <2>3, <2>5, <3>1, FromSnap DEF new, Vanishes
    <3>3. CASE Stays(list, new, k, x)
      BY <2>5, <3>3 DEF Above, Stays, FirstAt, new
    <3>4. CASE Sinks(list, new, k, x)
      <4>1. x + 1 = i - 1 \/ x + 1 \in 1..(i - 2)
        BY <2>5 DEF Level
      <4> QED BY <3>4, <4>1 DEF Above, Sinks, Keys, new
    <3> QED BY <3>2, <3>3, <3>4
  <2>6. CASE x = i - 1
    <3>1. j = i - 1
      BY <2>1, <2>2, <2>6 DEF Level
    <3>2. k \in DOMAIN list[x].curr
      BY <2>1, <2>6, <3>1
    <3>3. ~ Spills(ledger + 1, x)
      <4>1. \A y \in 1..(i - 2) : k \notin Keys(list[y])
        BY <2>2, <2>6 DEF FirstAt, Level
      <4> QED BY <2>6, <4>1
    <3>4. k \in DOMAIN new[x].curr
      BY <1>2, <2>2, <2>3, <3>2, <3>3, FromCurr DEF new
    <3> QED BY <2>6, <3>4 DEF Above, new
  <2>7. x = i - 1 \/ x \in 1..(i - 2)
    BY <2>2, <2>3 DEF Level
  <2> QED BY <2>4, <2>5, <2>6, <2>7
<1> QED BY <1>1, <1>2

LEMMA ListInvKept ==
    ASSUME NEW ledger \in Nat, NEW list, ListInv(list, ledger), NEW batch
    PROVE  ListInv(addBatch(list, ledger + 1, batch), ledger + 1)
<1> DEFINE new == addBatch(list, ledger + 1, batch)
<1>0. IsList(list)
  BY DEF ListInv
<1>1. IsList(new)
  <2>1. ASSUME NEW i \in Level PROVE IsLevel(new[i])
    <3>1. CASE i = 1
      BY <1>0, <3>1, FirstCurr
    <3>2. CASE i # 1
      BY <1>0, <3>2, OtherCurr
    <3> QED BY <3>1, <3>2
  <2>2. new = [i \in Level |-> new[i]]
    BY DEF addBatch
  <2> HIDE DEF new
  <2> QED BY <2>1, <2>2 DEF IsList
<1>2. new[1].next = Clear
  BY <1>0, FirstCurr
<1>3. new[kNumLevels].snap = Empty
  <2>1. ~ Spills(ledger + 1, kNumLevels)
    BY DEF Spills, levelShouldSpill
  <2> QED BY <1>0, <2>1, Levels, SnapIs DEF ListInv
<1>4. ASSUME NEW i \in Level, i # 1 PROVE Pending(new, ledger + 1, i)
  <2>1. i - 1 \in Level
    BY <1>4, Levels
  <2>2. new[i - 1].snap = IF Spills(ledger + 1, i - 1) THEN list[i - 1].curr ELSE list[i - 1].snap
    BY <1>0, <2>1, SnapIs
  <2>3. CASE Spills(ledger + 1, i - 1)
    <3> DEFINE f == new[i].next
               old == IF levelShouldSpill(NextSpill(ledger + 1, i - 2), i - 1) THEN Empty
                      ELSE new[i].curr
               above == shadowsFor(list, i - 1)
    <3>1. f = FutureBucket(Remains(new[i].curr, ledger + 1, i), list[i - 1].curr, above)
      BY <1>0, <1>4, <2>3, OtherCurr
    <3>2. old = Remains(new[i].curr, ledger + 1, i)
      BY <1>4, <2>3, SpillsAt DEF Remains
    <3> HIDE DEF old
    <3>3. f = FutureBucket(old, new[i - 1].snap, above)
      BY <2>2, <2>3, <3>1, <3>2
    <3>4. f.shadows = above
      BY <3>3 DEF FutureBucket, Clear
    <3>5. ASSUME NEW s \in above, NEW k \in DOMAIN s PROVE Above(new, i, k)
      <4>1. PICK j \in 1..(i - 2) : s \in {list[j].curr, list[j].snap}
        <5>1. (i - 1) - 1 = i - 2
          BY DEF Level
        <5> QED BY <3>5, <5>1 DEF shadowsFor
      <4>2. k \in Keys(list[j])
        BY <3>5, <4>1 DEF Keys
      <4> QED BY <1>4, <4>2, StaysAbove
    <3> QED BY <3>3, <3>4, <3>5 DEF Pending, old
  <2>4. CASE ~ Spills(ledger + 1, i - 1)
    <3>1. ~ Spills(ledger + 1, i) /\ NextSpill(ledger + 1, i - 2) = NextSpill(ledger, i - 2)
      BY <1>4, <2>4, SpillsAt
    <3>2. new[i].curr = list[i].curr /\ new[i].next = list[i].next /\ new[i - 1].snap = list[i - 1].snap
      BY <1>0, <1>4, <2>2, <2>4, <3>1, OtherCurr
    <3>3. \A k : Above(list, i, k) => Above(new, i, k)
      BY <1>4, <2>4, StaysAbove
    <3>4. Pending(list, ledger, i)
      BY <1>4 DEF ListInv
    <3> HIDE DEF new
    <3> QED BY <3>1, <3>2, <3>3, <3>4 DEF Pending
  <2> QED BY <2>3, <2>4
<1> QED BY <1>1, <1>2, <1>3, <1>4 DEF ListInv

-----------------------------------------------------------------------------
(* What the list stands for changes as the database does. *)

LEMMA FirstUnique ==
    ASSUME NEW list, NEW k, NEW i \in Level, NEW j \in Level,
           FirstAt(list, k, i), FirstAt(list, k, j)
    PROVE  i = j
<1>1. i < j => i \in 1..(j - 1)
  BY DEF Level
<1>2. j < i => j \in 1..(i - 1)
  BY DEF Level
<1>3. i < j \/ j < i \/ i = j
  BY DEF Level
<1> QED BY <1>1, <1>2, <1>3 DEF FirstAt

LEMMA ContentsAre ==
    ASSUME NEW list
    PROVE  /\ Contents(list) = [k \in DOMAIN Contents(list) |-> Contents(list)[k]]
           /\ \A k \in DOMAIN Contents(list) : \E i \in Level : FirstAt(list, k, i)
           /\ \A k : \A i \in Level : FirstAt(list, k, i) =>
                 /\ k \in DOMAIN Contents(list) <=> ValueAt(list, k, i) # DEAD
                 /\ k \in DOMAIN Contents(list) => Contents(list)[k] = ValueAt(list, k, i)
<1> DEFINE keys == UNION {Keys(list[i]) : i \in Level}
           all == [k \in keys |-> Newest(list, k)]
<1>1. Contents(list) = [k \in {x \in keys : Newest(list, x) # DEAD} |-> Newest(list, k)]
  BY DEF Contents, liveOnly
<1>2. ASSUME NEW k \in keys PROVE \E i \in Level : FirstAt(list, k, i)
  <2>1. PICK i \in Level : k \in Keys(list[i])
    BY <1>2
  <2>2. PICK j \in 1..i : FirstAt(list, k, j)
    BY <2>1, FirstExists
  <2>3. j \in Level
    BY DEF Level
  <2> QED BY <2>2, <2>3
<1>3. ASSUME NEW k, NEW i \in Level, FirstAt(list, k, i)
      PROVE  k \in keys /\ Newest(list, k) = ValueAt(list, k, i)
  <2>1. Newest(list, k) = ValueAt(list, k, i)
    BY <1>3, NewestIs
  <2>2. k \in keys
    BY <1>3 DEF FirstAt
  <2> QED BY <2>1, <2>2
<1> HIDE DEF keys
<1> QED BY <1>1, <1>2, <1>3

LEMMA ApplyIs ==
    ASSUME NEW entries, NEW b
    PROVE  /\ applyBucket(entries, b)
                = [k \in DOMAIN applyBucket(entries, b) |-> applyBucket(entries, b)[k]]
           /\ \A k : /\ k \in DOMAIN applyBucket(entries, b) <=>
                           \/ k \in DOMAIN b /\ b[k] # DEAD
                           \/ k \in DOMAIN entries \ DOMAIN b /\ entries[k] # DEAD
                     /\ k \in DOMAIN applyBucket(entries, b) =>
                           applyBucket(entries, b)[k] = IF k \in DOMAIN b THEN b[k] ELSE entries[k]
BY DEF applyBucket, liveOnly, Over

LEMMA ContentsKept ==
    ASSUME NEW ledger \in Nat, NEW list, ListInv(list, ledger), NEW batch
    PROVE  Contents(addBatch(list, ledger + 1, batch)) = applyBucket(Contents(list), batch)
<1> DEFINE new == addBatch(list, ledger + 1, batch)
           was == Contents(list)
           is == Contents(new)
<1>1. ASSUME NEW k \in DOMAIN batch
      PROVE  /\ k \in DOMAIN is <=> batch[k] # DEAD
             /\ k \in DOMAIN is => is[k] = batch[k]
  <2>1. k \in DOMAIN new[1].curr /\ new[1].curr[k] = batch[k]
    BY FirstLevelKeys
  <2> HIDE DEF new
  <2>2. 1 \in Level /\ FirstAt(new, k, 1)
    BY <2>1, Levels DEF FirstAt, Keys
  <2>3. ValueAt(new, k, 1) = batch[k]
    BY <2>1, ValueIs
  <2> QED BY <2>2, <2>3, ContentsAre
<1>2. ASSUME NEW k, k \notin DOMAIN batch
      PROVE  /\ k \in DOMAIN is <=> k \in DOMAIN was
             /\ k \in DOMAIN is => is[k] = was[k]
  <2>1. CASE \E i \in Level : FirstAt(list, k, i)
    <3>1. PICK i \in Level : FirstAt(list, k, i)
      BY <2>1
    <3>2. Stays(list, new, k, i) \/ Sinks(list, new, k, i) \/ Vanishes(list, new, k, i)
      BY <1>2, <3>1, FromCurr, FromSnap
    <3>3. /\ k \in DOMAIN was <=> ValueAt(list, k, i) # DEAD
          /\ k \in DOMAIN was => was[k] = ValueAt(list, k, i)
      BY <3>1, ContentsAre
    <3> HIDE DEF new, was
    <3>4. ASSUME NEW j \in Level, FirstAt(new, k, j), ValueAt(new, k, j) = ValueAt(list, k, i)
          PROVE  /\ k \in DOMAIN is <=> k \in DOMAIN was
                 /\ k \in DOMAIN is => is[k] = was[k]
      BY <3>3, <3>4, ContentsAre
    <3>5. CASE Stays(list, new, k, i)
      BY <3>4, <3>5 DEF Stays
    <3>6. CASE Sinks(list, new, k, i)
      <4>1. i + 1 \in Level
        BY <3>6, Levels DEF Sinks
      <4> QED BY <3>4, <3>6, <4>1 DEF Sinks
    <3>7. CASE Vanishes(list, new, k, i)
      <4>1. k \notin DOMAIN is
        BY <3>7, ContentsAre DEF Vanishes, FirstAt
      <4> QED BY <3>3, <3>7, <4>1 DEF Vanishes
    <3> QED BY <3>2, <3>5, <3>6, <3>7
  <2>2. CASE ~ \E i \in Level : FirstAt(list, k, i)
    <3>1. \A i \in Level : k \notin Keys(list[i])
      <4>1. ASSUME NEW i \in Level, k \in Keys(list[i]) PROVE FALSE
        <5>1. PICK j \in 1..i : FirstAt(list, k, j)
          BY <4>1, FirstExists
        <5>2. j \in Level
          BY DEF Level
        <5> QED BY <2>2, <5>1, <5>2
      <4> QED BY <4>1
    <3>2. \A j \in 1..(kNumLevels - 1) : k \notin Keys(list[j])
      BY <3>1 DEF Level
    <3>3. /\ \A j \in 1..(kNumLevels - 1) : k \notin Keys(new[j])
          /\ k \notin DOMAIN new[kNumLevels].curr
      BY <1>2, <3>1, <3>2, Levels, Younger DEF Keys
    <3>4. new[kNumLevels].snap = Empty
      BY ListInvKept DEF ListInv
    <3>5. \A j \in Level : k \notin Keys(new[j])
      <4>1. k \notin Keys(new[kNumLevels])
        BY <3>3, <3>4, EmptyHasNoKeys DEF Keys
      <4>2. \A j \in Level : j = kNumLevels \/ j \in 1..(kNumLevels - 1)
        BY DEF Level
      <4> QED BY <3>3, <4>1, <4>2
    <3> HIDE DEF new
    <3>6. k \notin DOMAIN is /\ k \notin DOMAIN was
      BY <3>1, <3>5, ContentsAre DEF FirstAt
    <3> QED BY <3>6
  <2> QED BY <2>1, <2>2
<1>3. \A k \in DOMAIN was : was[k] # DEAD
  BY ContentsAre
<1>4. is = [k \in DOMAIN is |-> is[k]]
  BY ContentsAre
<1> HIDE DEF is, was
<1>5. DOMAIN is = DOMAIN applyBucket(was, batch)
  BY <1>1, <1>2, <1>3, ApplyIs
<1>6. \A k \in DOMAIN is : is[k] = applyBucket(was, batch)[k]
  BY <1>1, <1>2, <1>5, ApplyIs
<1>7. is = applyBucket(was, batch)
  BY <1>4, <1>5, <1>6, ApplyIs
<1> QED BY <1>7 DEF is, was

\* Before the first ledger.
LEMMA NewListIs == ListInv(NewList, 0) /\ DOMAIN Contents(NewList) = {}
<1>1. \A i \in Level : /\ NewList[i] = [curr |-> Empty, snap |-> Empty, next |-> Clear]
                       /\ NewList[i].curr = Empty /\ NewList[i].snap = Empty
                       /\ NewList[i].next = Clear
  BY DEF NewList
<1>2. \A i \in Level \ {1} : i - 1 \in Level
  BY Levels
<1>3. IsList(NewList)
  <2>1. NewList = [i \in Level |-> NewList[i]]
    BY DEF NewList
  <2> QED BY <1>1, <2>1 DEF IsList, IsLevel
<1>4. ListInv(NewList, 0)
  BY <1>1, <1>2, <1>3, Levels DEF ListInv, Pending
<1>5. \A i \in Level : Keys(NewList[i]) = {}
  BY <1>1, EmptyHasNoKeys DEF Keys
<1>6. DOMAIN Contents(NewList) = {}
  BY <1>5, ContentsAre DEF FirstAt
<1> QED BY <1>4, <1>6

-----------------------------------------------------------------------------
(* Lists that differ in what their workers have done. *)

IsFuture(f) ==
    f \in [st : {"clear", "merging", "output"}, curr : {f.curr}, snap : {f.snap},
           shadows : {f.shadows}, out : {f.out}, done : BOOLEAN]

\* A list that may be written or read, and stands for `other'.
Same(list, other) ==
    /\ IsList(list)
    /\ \A i \in Level : IsFuture(list[i].next)
    /\ SameList(list, other)
    /\ \A i \in Level : isLive(list[i].next) <=> isLive(other[i].next)

\* No worker has done anything for it.
Fresh(list) == \A i \in Level : list[i].next.done = FALSE

LEMMA FuturesAre ==
    /\ IsFuture(Clear)
    /\ \A curr, snap, shadows : IsFuture(FutureBucket(curr, snap, shadows))
BY DEF IsFuture, Clear, FutureBucket

LEMMA SameAfterBatch ==
    ASSUME NEW list, NEW other, Same(list, other), IsList(other), NEW ledger, NEW batch
    PROVE  Same(addBatch(list, ledger, batch), addBatch(other, ledger, batch))
<1> DEFINE a == addBatch(list, ledger, batch)
           b == addBatch(other, ledger, batch)
<1>0. IsList(list) /\ IsList(other)
  BY DEF Same
<1>1. \A i \in Level : /\ list[i].curr = other[i].curr /\ list[i].snap = other[i].snap
                       /\ Output(list[i].next, i - 1) = Output(other[i].next, i - 1)
                       /\ isLive(list[i].next) <=> isLive(other[i].next)
                       /\ IsFuture(list[i].next)
  BY DEF Same, SameList
<1>2. ASSUME NEW i \in Level
      PROVE  /\ IsLevel(a[i])
             /\ a[i].curr = b[i].curr /\ a[i].snap = b[i].snap
             /\ Output(a[i].next, i - 1) = Output(b[i].next, i - 1)
             /\ isLive(a[i].next) <=> isLive(b[i].next)
             /\ IsFuture(a[i].next)
  <2>1. CASE i = 1
    <3>1. a[1].snap = b[1].snap /\ a[1].next = b[1].next /\ a[1].next = Clear
      <4>1. a[1].snap = b[1].snap
        BY <1>0, <1>1, Levels, SnapIs
      <4>2. a[1].next = Clear
        BY <1>0, FirstCurr
      <4>3. b[1].next = Clear
        BY <1>0, FirstCurr
      <4> QED BY <4>1, <4>2, <4>3
    <3>3. a[1].curr = b[1].curr
      <4> DEFINE old(l) == IF Spills(ledger, 1) THEN Empty ELSE l[1].curr
      <4>1. old(list) = old(other)
        BY <1>1, Levels
      <4>2. a[1].curr = merge(old(list), batch, {}, TRUE) /\ b[1].curr = merge(old(other), batch, {}, TRUE)
        BY <1>0, FirstCurr
      <4> HIDE DEF old
      <4> QED BY <4>1, <4>2
    <3>2. IsLevel(a[1])
      BY <1>0, FirstCurr
    <3> HIDE DEF a, b
    <3> QED BY <2>1, <3>1, <3>2, <3>3, FuturesAre
  <2>2. CASE i # 1
    <3>1. a[i].snap = b[i].snap
      BY <1>0, <1>1, SnapIs
    <3>2. a[i].curr = b[i].curr /\ IsLevel(a[i])
      BY <1>0, <1>1, <2>2, OtherCurr
    <3>3. i - 1 \in Level
      BY <2>2, Levels
    <3>4. shadowsFor(list, i - 1) = shadowsFor(other, i - 1)
      <4>1. \A j \in 1..((i - 1) - 1) : j \in Level
        BY DEF Level
      <4> QED BY <1>1, <4>1 DEF shadowsFor
    <3>5. CASE Spills(ledger, i - 1)
      <4>1. a[i].next = FutureBucket(Remains(a[i].curr, ledger, i), list[i - 1].curr,
                                     shadowsFor(list, i - 1))
        BY <1>0, <2>2, <3>5, OtherCurr
      <4>2. b[i].next = FutureBucket(Remains(b[i].curr, ledger, i), other[i - 1].curr,
                                     shadowsFor(other, i - 1))
        BY <1>0, <2>2, <3>5, OtherCurr
      <4> HIDE DEF a, b
      <4>3. a[i].next = b[i].next
        BY <1>1, <3>2, <3>3, <3>4, <4>1, <4>2
      <4>4. IsFuture(a[i].next)
        BY <4>1, FuturesAre
      <4> QED BY <3>1, <3>2, <4>3, <4>4
    <3>6. CASE ~ Spills(ledger, i - 1)
      <4>1. a[i].next = list[i].next /\ b[i].next = other[i].next
        BY <1>0, <2>2, <3>6, OtherCurr
      <4> HIDE DEF a, b
      <4> QED BY <1>1, <3>1, <3>2, <4>1
    <3> QED BY <3>5, <3>6
  <2> QED BY <2>1, <2>2
<1>3. a = [i \in Level |-> a[i]]
  BY DEF addBatch
<1> HIDE DEF a, b
<1>4. IsList(a)
  BY <1>2, <1>3 DEF IsList
<1>5. Same(a, b)
  BY <1>2, <1>4 DEF Same, SameList
<1> QED BY <1>5 DEF a, b

\* Only futures of the list are replaced, by others with the same output.
OtherFutures(new, list) ==
    /\ new = [i \in Level |-> new[i]]
    /\ \A i \in Level : /\ new[i] = [list[i] EXCEPT !.next = new[i].next]
                        /\ IsFuture(new[i].next)
                        /\ Output(new[i].next, i - 1) = Output(list[i].next, i - 1)
                        /\ isLive(new[i].next) <=> isLive(list[i].next)

LEMMA SameWith ==
    ASSUME NEW list, NEW other, Same(list, other), NEW new, OtherFutures(new, list)
    PROVE  Same(new, other) /\ \A i \in Level : new[i].curr = list[i].curr /\ new[i].snap = list[i].snap
<1>1. ASSUME NEW i \in Level
      PROVE  IsLevel(new[i]) /\ new[i].curr = list[i].curr /\ new[i].snap = list[i].snap
  <2>1. list[i] = [curr |-> list[i].curr, snap |-> list[i].snap, next |-> list[i].next]
    BY DEF Same, IsList, IsLevel
  <2>2. new[i] = [curr |-> list[i].curr, snap |-> list[i].snap, next |-> new[i].next]
    BY <2>1 DEF OtherFutures
  <2> DEFINE here == new[i]
             c == list[i].curr
             s == list[i].snap
  <2>3. here = [curr |-> c, snap |-> s, next |-> here.next]
    BY <2>2
  <2> HIDE DEF here, c, s
  <2>4. IsLevel(here) /\ here.curr = c /\ here.snap = s
    BY <2>3 DEF IsLevel
  <2> QED BY <2>4 DEF here, c, s
<1>2. IsList(new)
  BY <1>1 DEF IsList, OtherFutures
<1> QED BY <1>1, <1>2 DEF Same, SameList, OtherFutures

LEMMA SavedIs ==
    ASSUME NEW f, IsFuture(f), NEW i
    PROVE  /\ IsFuture(save(f)) /\ save(f).done = FALSE
           /\ Output(save(f), i) = Output(f, i)
           /\ isLive(save(f)) <=> isLive(f)
           /\ getHashes(save(f)) = getHashes(f)
<1> DEFINE g == save(f)
<1>2. /\ g.st = f.st /\ g.curr = f.curr /\ g.snap = f.snap /\ g.shadows = f.shadows
      /\ g.out = f.out /\ g.done = FALSE
  BY DEF IsFuture, save
<1>3. IsFuture(g)
  BY DEF IsFuture, save
<1> HIDE DEF g
<1>4. Output(g, i) = Output(f, i) /\ (isLive(g) <=> isLive(f)) /\ getHashes(g) = getHashes(f)
  BY <1>2 DEF Output, isLive, isMerging, getHashes
<1> QED BY <1>2, <1>3, <1>4 DEF g

LEMMA ResolvedIs ==
    ASSUME NEW f, IsFuture(f), isMerging(f), NEW i
    PROVE  LET g == resolve(f, i) IN
           /\ IsFuture(g) /\ g.done = FALSE
           /\ Output(g, i) = Output(f, i)
           /\ isLive(g) /\ isLive(f) /\ ~ isMerging(g)
           /\ getHashes(g) = {Output(f, i)}
<1> DEFINE out == Output(f, i)
           g == resolve(f, i)
<1>2. isLive(f)
  BY DEF isMerging, isLive
<1> HIDE DEF out
<1>3. g.st = "output" /\ g.out = out /\ g.done = FALSE
  BY DEF resolve, Clear, out
<1>4. IsFuture(g)
  BY DEF IsFuture, resolve, Clear
<1> HIDE DEF g
<1>5. Output(g, i) = out /\ isLive(g) /\ ~ isMerging(g) /\ getHashes(g) = {out}
  BY <1>3 DEF Output, isLive, isMerging, getHashes
<1> QED BY <1>2, <1>3, <1>4, <1>5 DEF out, g

LEMMA SameAfterSave ==
    ASSUME NEW list, NEW other, Same(list, other)
    PROVE  Same(saveList(list), other) /\ Fresh(saveList(list))
<1> DEFINE new == saveList(list)
<1>1. ASSUME NEW i \in Level
      PROVE  new[i] = [list[i] EXCEPT !.next = save(list[i].next)]
             /\ new[i].next = save(list[i].next)
             /\ IsFuture(list[i].next)
    BY DEF saveList, Same, IsList, IsLevel
<1>2. new = [i \in Level |-> new[i]]
  BY DEF saveList
<1> HIDE DEF new
<1>3. Same(new, other)
  <2>1. ASSUME NEW i \in Level
        PROVE  /\ new[i] = [list[i] EXCEPT !.next = new[i].next]
               /\ IsFuture(new[i].next)
               /\ Output(new[i].next, i - 1) = Output(list[i].next, i - 1)
               /\ isLive(new[i].next) <=> isLive(list[i].next)
    <3>1. new[i].next = save(list[i].next) /\ IsFuture(list[i].next)
      BY <1>1
    <3>2. /\ IsFuture(new[i].next)
          /\ Output(new[i].next, i - 1) = Output(list[i].next, i - 1)
          /\ isLive(new[i].next) <=> isLive(list[i].next)
      BY <3>1, SavedIs
    <3>3. new[i] = [list[i] EXCEPT !.next = new[i].next]
      BY <1>1
    <3> QED BY <3>2, <3>3
  <2>2. OtherFutures(new, list)
    BY <1>2, <2>1 DEF OtherFutures
  <2> QED BY <2>2, SameWith
<1>4. Fresh(new)
  BY <1>1, SavedIs DEF Fresh
<1> QED BY <1>3, <1>4 DEF new

LEMMA SameAfterResolve ==
    ASSUME NEW list, NEW other, Same(list, other)
    PROVE  Same(resolveAnyReadyFutures(list), other)
<1> DEFINE new == resolveAnyReadyFutures(list)
           ready(i) == isMerging(list[i].next) /\ mergeComplete(list[i].next)
<1>1. ASSUME NEW i \in Level
      PROVE  /\ IsFuture(list[i].next)
             /\ new[i] = [list[i] EXCEPT !.next = new[i].next]
             /\ new[i].next = IF ready(i) THEN resolve(list[i].next, i - 1) ELSE list[i].next
  BY DEF resolveAnyReadyFutures, Same, IsList, IsLevel
<1>2. new = [i \in Level |-> new[i]]
  BY DEF resolveAnyReadyFutures
<1> HIDE DEF new
<1>3. OtherFutures(new, list)
  <2>1. ASSUME NEW i \in Level
        PROVE  /\ new[i] = [list[i] EXCEPT !.next = new[i].next]
               /\ IsFuture(new[i].next)
               /\ Output(new[i].next, i - 1) = Output(list[i].next, i - 1)
               /\ isLive(new[i].next) <=> isLive(list[i].next)
    <3>1. /\ IsFuture(new[i].next)
          /\ Output(new[i].next, i - 1) = Output(list[i].next, i - 1)
          /\ isLive(new[i].next) <=> isLive(list[i].next)
      <4>1. CASE ready(i)
        <5>1. new[i].next = resolve(list[i].next, i - 1) /\ IsFuture(list[i].next)
              /\ isMerging(list[i].next)
          BY <1>1, <4>1
        <5> HIDE DEF ready
        <5>2. LET g == resolve(list[i].next, i - 1) IN
              /\ IsFuture(g) /\ Output(g, i - 1) = Output(list[i].next, i - 1)
              /\ isLive(g) /\ isLive(list[i].next)
          BY <5>1, ResolvedIs
        <5> QED BY <5>1, <5>2
      <4>2. CASE ~ ready(i)
        <5>1. new[i].next = list[i].next
          BY <1>1, <4>2
        <5> QED BY <1>1, <5>1
      <4> QED BY <4>1, <4>2
    <3>2. new[i] = [list[i] EXCEPT !.next = new[i].next]
      BY <1>1
    <3> QED BY <3>1, <3>2
  <2> QED BY <1>2, <2>1 DEF OtherFutures
<1>4. Same(new, other)
  BY <1>3, SameWith
<1> QED BY <1>4 DEF new

\* A worker has ended a merge.
LEMMA SameAfterMerge ==
    ASSUME NEW list, NEW other, Same(list, other), NEW i \in Level
    PROVE  Same([list EXCEPT ![i].next.done = TRUE], other)
<1> DEFINE new == [list EXCEPT ![i].next.done = TRUE]
           f == list[i].next
           g == [f EXCEPT !.done = TRUE]
<1>1. new = [j \in Level |-> new[j]] /\ \A j \in Level : j # i => new[j] = list[j]
  BY DEF Same, IsList
<1>2. IsLevel(list[i]) /\ IsFuture(f) /\ new[i] = [list[i] EXCEPT !.next = g]
  BY DEF Same, IsList
<1>3. new[i].next = g
  BY <1>2 DEF IsLevel
<1>4. IsFuture(g) /\ Output(g, i - 1) = Output(f, i - 1) /\ (isLive(g) <=> isLive(f))
  <2>1. /\ g.st = f.st /\ g.curr = f.curr /\ g.snap = f.snap /\ g.shadows = f.shadows
        /\ g.out = f.out
    BY <1>2 DEF IsFuture
  <2>2. IsFuture(g)
    BY <1>2 DEF IsFuture
  <2> HIDE DEF g, f
  <2> QED BY <2>1, <2>2 DEF Output, isLive, isMerging
<1>5. \A j \in Level : IsLevel(list[j]) /\ IsFuture(list[j].next)
                        /\ list[j] = [list[j] EXCEPT !.next = list[j].next]
  BY DEF Same, IsList, IsLevel
<1> HIDE DEF new, g
<1>6. OtherFutures(new, list)
  BY <1>1, <1>2, <1>3, <1>4, <1>5 DEF OtherFutures
<1>7. Same(new, other)
  BY <1>6, SameWith
<1> QED BY <1>7 DEF new

LEMMA SameContents ==
    ASSUME NEW list, NEW other, SameList(list, other)
    PROVE  Contents(list) = Contents(other)
<1>1. \A i \in Level : list[i].curr = other[i].curr /\ list[i].snap = other[i].snap
  BY DEF SameList
<1>2. \A i \in Level : Keys(list[i]) = Keys(other[i])
  BY <1>1 DEF Keys
<1>3. UNION {Keys(list[i]) : i \in Level} = UNION {Keys(other[i]) : i \in Level}
  BY <1>2
<1>4. \A k, i : i \in Level => ValueAt(list, k, i) = ValueAt(other, k, i)
                              /\ (FirstAt(list, k, i) <=> FirstAt(other, k, i))
  <2> TAKE k, i
  <2> HAVE i \in Level
  <2>1. \A j \in 1..(i - 1) : j \in Level
    BY DEF Level
  <2> QED BY <1>1, <1>2, <2>1 DEF ValueAt, FirstAt
<1> DEFINE a == Contents(list)
           b == Contents(other)
<1>5. \A k : \A i \in Level : FirstAt(list, k, i) =>
                /\ k \in DOMAIN a <=> k \in DOMAIN b
                /\ k \in DOMAIN a => a[k] = b[k]
  BY <1>4, ContentsAre
<1>6. /\ \A k \in DOMAIN a : \E i \in Level : FirstAt(list, k, i)
      /\ \A k \in DOMAIN b : \E i \in Level : FirstAt(list, k, i)
  BY <1>4, ContentsAre
<1>7. a = [k \in DOMAIN a |-> a[k]] /\ b = [k \in DOMAIN b |-> b[k]]
  BY ContentsAre
<1> HIDE DEF a, b
<1>8. a = b
  BY <1>5, <1>6, <1>7
<1> QED BY <1>8 DEF a, b

-----------------------------------------------------------------------------
(* The buckets that lists and their merges name. *)

\* Every bucket of the list, and of what its workers have done, has its file.
Held(list, other, fs) ==
    Same(list, other) /\ Files(allBuckets(list) \cup HeldBy(list)) \subseteq fs

\* Written to the database: nothing is done, and every bucket has its file.
Kept(list, other, fs) ==
    Same(list, other) /\ Fresh(list) /\ Files(allBuckets(list)) \subseteq fs

LEMMA KeptIsHeld ==
    ASSUME NEW list, NEW other, NEW fs, Kept(list, other, fs)
    PROVE  Held(list, other, fs)
<1>1. \A i \in Level : list[i].next.done = FALSE
  BY DEF Kept, Fresh
<1>2. HeldBy(list) \subseteq allBuckets(list)
  BY <1>1 DEF HeldBy, allBuckets, mergeComplete
<1> QED BY <1>2 DEF Kept, Held

LEMMA HeldFor ==
    ASSUME NEW list, NEW other, NEW fs, Held(list, other, fs), NEW new, Same(new, other),
           NEW gs, fs \subseteq gs, Files(allBuckets(new) \cup HeldBy(new)) \subseteq gs
    PROVE  Held(new, other, gs)
BY DEF Held

LEMMA MoreFiles ==
    ASSUME NEW list, NEW other, NEW fs, NEW gs, fs \subseteq gs
    PROVE  /\ Held(list, other, fs) => Held(list, other, gs)
           /\ Kept(list, other, fs) => Kept(list, other, gs)
BY DEF Held, Kept

LEMMA BucketsOf ==
    ASSUME NEW list, NEW i \in Level
    PROVE  LET all == allBuckets(list) \cup HeldBy(list) IN
           /\ list[i].curr \in all /\ list[i].snap \in all
           /\ getHashes(list[i].next) \subseteq all
           /\ mergeComplete(list[i].next) => Output(list[i].next, i - 1) \in all
BY DEF allBuckets, HeldBy

\* Only the buckets it makes are new.
LEMMA BucketsAfterBatch ==
    ASSUME NEW list, IsList(list), NEW ledger, NEW batch
    PROVE  LET new == addBatch(list, ledger, batch)
               all == allBuckets(list) \cup HeldBy(list)
           IN  allBuckets(new) \cup HeldBy(new)
                 \subseteq all \cup {new[i].curr : i \in Level} \cup {Empty}
<1> DEFINE new == addBatch(list, ledger, batch)
           all == allBuckets(list) \cup HeldBy(list)
           made == {new[i].curr : i \in Level} \cup {Empty}
<1>1. \A i \in Level : list[i].curr \in all /\ list[i].snap \in all
  BY BucketsOf
<1>2. \A i \in Level : /\ getHashes(list[i].next) \subseteq all
                       /\ mergeComplete(list[i].next) => Output(list[i].next, i - 1) \in all
  BY BucketsOf
<1> HIDE DEF all
<1>3. \A i \in Level : new[i].curr \in made
  OBVIOUS
<1>4. Empty \in made
  OBVIOUS
<1>5. \A i \in Level : new[i].snap \in all
  BY <1>1, SnapIs
<1>6. ASSUME NEW i \in Level
      PROVE  /\ getHashes(new[i].next) \subseteq all \cup made
             /\ mergeComplete(new[i].next) => Output(new[i].next, i - 1) \in all
  <2>1. CASE i = 1
    <3>1. new[i].next = Clear
      BY <2>1, FirstCurr
    <3> HIDE DEF new, made
    <3> QED BY <3>1, ClearIs DEF mergeComplete
  <2>2. CASE i # 1 /\ Spills(ledger, i - 1)
    <3> DEFINE curr == Remains(new[i].curr, ledger, i)
               shadows == shadowsFor(list, i - 1)
               f == FutureBucket(curr, list[i - 1].curr, shadows)
    <3>1. new[i].next = f
      BY <2>2, OtherCurr
    <3>2. curr \in made
      BY <1>3, <1>4 DEF Remains
    <3>3. list[i - 1].curr \in all
      BY <1>1, <2>2, Levels
    <3>4. shadows \subseteq all
      <4>1. \A j \in 1..((i - 1) - 1) : j \in Level
        BY DEF Level
      <4> QED BY <1>1, <4>1 DEF shadowsFor
    <3> HIDE DEF new, made, curr, shadows
    <3>5. ~ mergeComplete(f)
      BY FutureIs DEF mergeComplete
    <3>6. getHashes(f) = {curr, list[i - 1].curr} \cup shadows
      BY DEF getHashes, FutureBucket, Clear
    <3> HIDE DEF f
    <3> QED BY <3>1, <3>2, <3>3, <3>4, <3>5, <3>6
  <2>3. CASE i # 1 /\ ~ Spills(ledger, i - 1)
    <3>1. new[i].next = list[i].next
      BY <2>3, OtherCurr
    <3> HIDE DEF new, made
    <3> QED BY <1>2, <3>1
  <2> QED BY <2>1, <2>2, <2>3
<1> HIDE DEF new, made
<1>7. allBuckets(new) \subseteq all \cup made
  BY <1>3, <1>5, <1>6 DEF allBuckets
<1>8. HeldBy(new) \subseteq all \cup made
  BY <1>6 DEF HeldBy
<1> QED BY <1>7, <1>8 DEF new, made, all

LEMMA BatchHeld ==
    ASSUME NEW list, NEW other, NEW fs, Held(list, other, fs), IsList(other),
           NEW ledger, NEW batch, NEW gs, fs \subseteq gs,
           \A i \in Level : Files({addBatch(list, ledger, batch)[i].curr}) \subseteq gs
    PROVE  Held(addBatch(list, ledger, batch), addBatch(other, ledger, batch), gs)
<1> DEFINE new == addBatch(list, ledger, batch)
           all == allBuckets(list) \cup HeldBy(list)
<1>1. Same(new, addBatch(other, ledger, batch))
  BY SameAfterBatch DEF Held
<1>2. allBuckets(new) \cup HeldBy(new) \subseteq all \cup {new[i].curr : i \in Level} \cup {Empty}
  BY BucketsAfterBatch DEF Held, Same
<1>3. Files(all) \subseteq fs
  BY DEF Held
<1>4. \A i \in Level : Files({new[i].curr}) \subseteq gs
  OBVIOUS
<1> HIDE DEF new, all
<1>5. Files(allBuckets(new) \cup HeldBy(new)) \subseteq gs
  BY <1>2, <1>3, <1>4 DEF Files
<1> QED BY <1>1, <1>5 DEF Held, new

LEMMA BucketsAfterSave ==
    ASSUME NEW list, NEW other, Same(list, other)
    PROVE  allBuckets(saveList(list)) = allBuckets(list)
<1> DEFINE new == saveList(list)
<1>1. ASSUME NEW i \in Level
      PROVE  /\ new[i].curr = list[i].curr /\ new[i].snap = list[i].snap
             /\ getHashes(new[i].next) = getHashes(list[i].next)
  <2>1. IsLevel(list[i]) /\ IsFuture(list[i].next)
    BY DEF Same, IsList
  <2>2. new[i] = [list[i] EXCEPT !.next = save(list[i].next)]
    BY DEF saveList
  <2>3. new[i].next = save(list[i].next) /\ new[i].curr = list[i].curr /\ new[i].snap = list[i].snap
    BY <2>1, <2>2 DEF IsLevel
  <2> HIDE DEF new
  <2> QED BY <2>1, <2>3, SavedIs
<1> HIDE DEF new
<1>2. allBuckets(new) = allBuckets(list)
  BY <1>1 DEF allBuckets
<1> QED BY <1>2 DEF new

LEMMA SaveKept ==
    ASSUME NEW list, NEW other, NEW fs, Held(list, other, fs)
    PROVE  Kept(saveList(list), other, fs)
BY SameAfterSave, BucketsAfterSave DEF Held, Kept, Files

LEMMA BucketsAfterResolve ==
    ASSUME NEW list, NEW other, Same(list, other)
    PROVE  LET new == resolveAnyReadyFutures(list) IN
           allBuckets(new) \cup HeldBy(new) \subseteq allBuckets(list) \cup HeldBy(list)
<1> DEFINE new == resolveAnyReadyFutures(list)
           all == allBuckets(list) \cup HeldBy(list)
           ready(i) == isMerging(list[i].next) /\ mergeComplete(list[i].next)
<1>1. ASSUME NEW i \in Level
      PROVE  /\ new[i].curr \in all /\ new[i].snap \in all
             /\ getHashes(new[i].next) \subseteq all
             /\ mergeComplete(new[i].next) => Output(new[i].next, i - 1) \in all
  <2>1. IsLevel(list[i]) /\ IsFuture(list[i].next)
    BY DEF Same, IsList
  <2>2. /\ list[i].curr \in all /\ list[i].snap \in all
        /\ getHashes(list[i].next) \subseteq all
        /\ mergeComplete(list[i].next) => Output(list[i].next, i - 1) \in all
    BY BucketsOf
  <2>3. CASE ready(i)
    <3>1. new[i] = [list[i] EXCEPT !.next = resolve(list[i].next, i - 1)]
      BY <2>3 DEF resolveAnyReadyFutures
    <3>2. new[i].next = resolve(list[i].next, i - 1) /\ new[i].curr = list[i].curr
          /\ new[i].snap = list[i].snap
      BY <2>1, <3>1 DEF IsLevel
    <3>3. LET g == resolve(list[i].next, i - 1) IN
          g.done = FALSE /\ getHashes(g) = {Output(list[i].next, i - 1)}
      BY <2>1, <2>3, ResolvedIs
    <3>4. Output(list[i].next, i - 1) \in all
      BY <2>2, <2>3
    <3> HIDE DEF new, all
    <3> QED BY <2>2, <3>2, <3>3, <3>4 DEF mergeComplete
  <2>4. CASE ~ ready(i)
    <3>1. new[i] = list[i]
      BY <2>4 DEF resolveAnyReadyFutures
    <3> HIDE DEF new, all
    <3> QED BY <2>2, <3>1
  <2> QED BY <2>3, <2>4
<1> HIDE DEF new, all
<1>2. allBuckets(new) \subseteq all
  BY <1>1 DEF allBuckets
<1>3. HeldBy(new) \subseteq all
  BY <1>1 DEF HeldBy
<1> QED BY <1>2, <1>3 DEF new, all

LEMMA ResolveHeld ==
    ASSUME NEW list, NEW other, NEW fs, Held(list, other, fs)
    PROVE  Held(resolveAnyReadyFutures(list), other, fs)
BY SameAfterResolve, BucketsAfterResolve DEF Held, Files

LEMMA MergeHeld ==
    ASSUME NEW list, NEW other, NEW fs, Held(list, other, fs), NEW i \in Level
    PROVE  Held([list EXCEPT ![i].next.done = TRUE], other,
                fs \cup Files({Output(list[i].next, i - 1)}))
<1> DEFINE new == [list EXCEPT ![i].next.done = TRUE]
           out == Output(list[i].next, i - 1)
           all == allBuckets(list) \cup HeldBy(list)
<1>1. Same(new, other) /\ Same(list, other)
  BY SameAfterMerge DEF Held
<1>2. ASSUME NEW j \in Level
      PROVE  /\ new[j].curr \in all /\ new[j].snap \in all
             /\ getHashes(new[j].next) \subseteq all
             /\ mergeComplete(new[j].next) => Output(new[j].next, j - 1) \in all \cup {out}
  <2>1. IsLevel(list[j]) /\ IsFuture(list[j].next)
    BY <1>1 DEF Same, IsList
  <2>2. /\ list[j].curr \in all /\ list[j].snap \in all
        /\ getHashes(list[j].next) \subseteq all
        /\ mergeComplete(list[j].next) => Output(list[j].next, j - 1) \in all
    BY BucketsOf
  <2>3. CASE j = i
    <3> DEFINE g == [list[j].next EXCEPT !.done = TRUE]
    <3>1. new[j] = [list[j] EXCEPT !.next = g]
      BY <1>1, <2>3 DEF Same, IsList
    <3>2. new[j].next = g /\ new[j].curr = list[j].curr /\ new[j].snap = list[j].snap
      BY <2>1, <3>1 DEF IsLevel
    <3>3. /\ g.st = list[j].next.st /\ g.curr = list[j].next.curr /\ g.snap = list[j].next.snap
          /\ g.shadows = list[j].next.shadows /\ g.out = list[j].next.out
      BY <2>1 DEF IsFuture
    <3> HIDE DEF new, all, g
    <3>4. getHashes(g) = getHashes(list[j].next)
      BY <3>3 DEF getHashes
    <3>5. Output(g, j - 1) = out
      BY <2>3, <3>3 DEF Output, isMerging
    <3> HIDE DEF out
    <3> QED BY <2>2, <3>2, <3>4, <3>5
  <2>4. CASE j # i
    <3>1. new[j] = list[j]
      BY <1>1, <2>4 DEF Same, IsList
    <3> HIDE DEF new, all
    <3> QED BY <2>2, <3>1
  <2> QED BY <2>3, <2>4
<1> HIDE DEF new, all, out
<1>3. allBuckets(new) \cup HeldBy(new) \subseteq all \cup {out}
  <2>1. allBuckets(new) \subseteq all
    BY <1>2 DEF allBuckets
  <2>2. HeldBy(new) \subseteq all \cup {out}
    BY <1>2 DEF HeldBy
  <2> QED BY <2>1, <2>2
<1>4. Files(all) \subseteq fs
  BY DEF Held, all
<1>5. Files(allBuckets(new) \cup HeldBy(new)) \subseteq fs \cup Files({out})
  BY <1>3, <1>4 DEF Files
<1>6. Held(new, other, fs \cup Files({out}))
  BY <1>1, <1>5 DEF Held
<1> QED BY <1>6 DEF new, out

-----------------------------------------------------------------------------
(* The references of the publish queue. *)

Holders(queue, b) == {l \in DOMAIN queue : b \in allBuckets(queue[l])}

LEMMA HoldersCount ==
    ASSUME NEW queue, IsFiniteSet(DOMAIN queue), NEW b
    PROVE  /\ IsFiniteSet(Holders(queue, b)) /\ Cardinality(Holders(queue, b)) \in Nat
           /\ Cardinality(Holders(queue, b)) = 0 <=> Holders(queue, b) = {}
<1>1. IsFiniteSet(Holders(queue, b))
  BY FS_Subset DEF Holders
<1> QED BY <1>1, FS_CardinalityType, FS_EmptySet

LEMMA RefsAre ==
    ASSUME NEW queue
    PROVE  /\ queueRefs(queue) = [b \in DOMAIN queueRefs(queue) |-> queueRefs(queue)[b]]
           /\ \A b : /\ b \in DOMAIN queueRefs(queue) <=> Holders(queue, b) # {}
                     /\ b \in DOMAIN queueRefs(queue) =>
                           queueRefs(queue)[b] = Cardinality(Holders(queue, b))
BY DEF queueRefs, Holders

LEMMA SameRefs ==
    ASSUME NEW refs, NEW others, refs = [b \in DOMAIN refs |-> refs[b]],
           others = [b \in DOMAIN others |-> others[b]],
           \A b : /\ b \in DOMAIN refs <=> b \in DOMAIN others
                  /\ b \in DOMAIN refs => refs[b] = others[b]
    PROVE  refs = others
<1>1. DOMAIN refs = DOMAIN others
  OBVIOUS
<1> QED BY <1>1

\* A checkpoint is queued.
LEMMA RefsAdded ==
    ASSUME NEW queue, IsFiniteSet(DOMAIN queue), NEW ledger, ledger \notin DOMAIN queue, NEW list
    PROVE  queueRefs(With(queue, ledger, list)) = queueRefs(queue) (+) SetToBag(allBuckets(list))
<1> DEFINE more == With(queue, ledger, list)
           had(b) == Holders(queue, b)
           has(b) == Holders(more, b)
           refs == queueRefs(queue)
           new == queueRefs(more)
           sum == refs (+) SetToBag(allBuckets(list))
<1>1. /\ DOMAIN more = DOMAIN queue \cup {ledger}
      /\ more[ledger] = list
      /\ \A l \in DOMAIN queue : more[l] = queue[l]
  BY DEF With
<1> HIDE DEF more
<1>2. ASSUME NEW b
      PROVE  /\ IsFiniteSet(had(b)) /\ Cardinality(had(b)) \in Nat
             /\ Cardinality(had(b)) = 0 <=> had(b) = {}
             /\ has(b) = IF b \in allBuckets(list) THEN had(b) \cup {ledger} ELSE had(b)
             /\ Cardinality(has(b)) = Cardinality(had(b)) + IF b \in allBuckets(list) THEN 1 ELSE 0
  <2>1. /\ IsFiniteSet(had(b)) /\ Cardinality(had(b)) \in Nat
        /\ Cardinality(had(b)) = 0 <=> had(b) = {}
    BY HoldersCount
  <2>2. ledger \notin had(b)
    BY DEF Holders
  <2>3. has(b) = IF b \in allBuckets(list) THEN had(b) \cup {ledger} ELSE had(b)
    BY <1>1 DEF Holders
  <2> HIDE DEF had, has
  <2>4. Cardinality(had(b) \cup {ledger}) = Cardinality(had(b)) + 1
    BY <2>1, <2>2, FS_AddElement
  <2> QED BY <2>1, <2>3, <2>4
<1>3. ASSUME NEW b
      PROVE  /\ b \in DOMAIN sum <=> b \in DOMAIN refs \cup allBuckets(list)
             /\ b \in DOMAIN sum =>
                   sum[b] = (IF b \in DOMAIN refs THEN refs[b] ELSE 0)
                               + (IF b \in allBuckets(list) THEN 1 ELSE 0)
  BY DEF (+), SetToBag
<1>4. sum = [b \in DOMAIN sum |-> sum[b]]
  BY DEF (+)
<1>5. ASSUME NEW b
      PROVE  /\ b \in DOMAIN refs <=> had(b) # {}
             /\ b \in DOMAIN refs => refs[b] = Cardinality(had(b))
             /\ b \in DOMAIN new <=> has(b) # {}
             /\ b \in DOMAIN new => new[b] = Cardinality(has(b))
  BY RefsAre
<1>6. new = [b \in DOMAIN new |-> new[b]]
  BY RefsAre
<1> HIDE DEF had, has, refs, new, sum
<1>7. ASSUME NEW b
      PROVE  /\ b \in DOMAIN new <=> b \in DOMAIN sum
             /\ b \in DOMAIN new => new[b] = sum[b]
  BY <1>2, <1>3, <1>5
<1>8. new = sum
  BY <1>4, <1>6, <1>7, SameRefs
<1> QED BY <1>8 DEF new, sum, more, refs

\* A checkpoint is published.
LEMMA RefsRemoved ==
    ASSUME NEW queue, IsFiniteSet(DOMAIN queue), NEW ledger \in DOMAIN queue
    PROVE  queueRefs([l \in DOMAIN queue \ {ledger} |-> queue[l]])
             = queueRefs(queue) (-) SetToBag(allBuckets(queue[ledger]))
<1> DEFINE less == [l \in DOMAIN queue \ {ledger} |-> queue[l]]
           buckets == allBuckets(queue[ledger])
           had(b) == Holders(queue, b)
           has(b) == Holders(less, b)
           refs == queueRefs(queue)
           new == queueRefs(less)
           rest == refs (-) SetToBag(buckets)
<1>1. ASSUME NEW b
      PROVE  /\ Cardinality(had(b)) \in Nat /\ Cardinality(has(b)) \in Nat
             /\ Cardinality(has(b)) = 0 <=> has(b) = {}
             /\ Cardinality(had(b)) = 0 <=> had(b) = {}
             /\ b \in buckets => had(b) # {}
             /\ Cardinality(has(b)) = Cardinality(had(b)) - IF b \in buckets THEN 1 ELSE 0
  <2>1. /\ IsFiniteSet(had(b)) /\ Cardinality(had(b)) \in Nat
        /\ Cardinality(had(b)) = 0 <=> had(b) = {}
    BY HoldersCount
  <2>2. IsFiniteSet(DOMAIN less)
    BY FS_Subset
  <2>3. Cardinality(has(b)) \in Nat /\ (Cardinality(has(b)) = 0 <=> has(b) = {})
    BY <2>2, HoldersCount
  <2>4. /\ b \in buckets => ledger \in had(b) /\ has(b) = had(b) \ {ledger}
        /\ b \notin buckets => has(b) = had(b)
    BY DEF Holders
  <2> HIDE DEF had, has, buckets
  <2>5. CASE b \in buckets
    <3>1. ledger \in had(b) /\ has(b) = had(b) \ {ledger}
      BY <2>4, <2>5
    <3>2. Cardinality(has(b)) = Cardinality(had(b)) - 1
      BY <2>1, <3>1, FS_RemoveElement
    <3> QED BY <2>1, <2>3, <2>5, <3>1, <3>2
  <2>6. CASE b \notin buckets
    <3>1. Cardinality(has(b)) = Cardinality(had(b)) - 0
      BY <2>1, <2>4, <2>6
    <3> QED BY <2>1, <2>3, <2>6, <3>1
  <2> QED BY <2>5, <2>6
<1>2. ASSUME NEW b
      PROVE  /\ b \in DOMAIN refs <=> had(b) # {}
             /\ b \in DOMAIN refs => refs[b] = Cardinality(had(b))
             /\ b \in DOMAIN new <=> has(b) # {}
             /\ b \in DOMAIN new => new[b] = Cardinality(has(b))
  BY RefsAre
<1>3. new = [b \in DOMAIN new |-> new[b]]
  BY RefsAre
<1> HIDE DEF refs, buckets
<1>4. ASSUME NEW b
      PROVE  LET v == IF b \in buckets THEN refs[b] - 1 ELSE refs[b] IN
             /\ b \in DOMAIN rest <=> b \in DOMAIN refs /\ v > 0
             /\ b \in DOMAIN rest => rest[b] = v
  BY DEF (-), SetToBag
<1>5. rest = [b \in DOMAIN rest |-> rest[b]]
  BY DEF (-)
<1> HIDE DEF had, has, new, rest
<1>6. ASSUME NEW b
      PROVE  /\ b \in DOMAIN new <=> b \in DOMAIN rest
             /\ b \in DOMAIN new => new[b] = rest[b]
  BY <1>1, <1>2, <1>4
<1>7. new = rest
  BY <1>3, <1>5, <1>6, SameRefs
<1> QED BY <1>7 DEF new, rest, refs, buckets

-----------------------------------------------------------------------------
(* The inductive invariant. *)

IsMemory(n) ==
    n \in [list : {n.list}, shared : {n.shared}, refs : {n.refs}, pub : {n.pub}, posted : BOOLEAN]

IsWork(w) ==
    w \in [phase : {"resolve", "write", "put", "state", "done"}, ledger : {w.ledger}, list : {w.list},
           original : {w.original}, toSend : {w.toSend}]

IsDatabase(d) ==
    d \in [lcl : Nat \ {0}, entries : {d.entries}, has : {d.has}, queue : {d.queue}]

IsArchive(a) ==
    a \in [files : {a.files}, states : {a.states}, wellKnown : {a.wellKnown}]

\* No merge is left.
Settled(list) == \A i \in Level : list[i].next.st \in {"clear", "output"}

Complete(list, fs) == Files(allBuckets(list)) \subseteq fs

\* What a node that is never interrupted has.
ChainInv(ch, lcl) ==
    /\ ch = [l \in 1..lcl |-> ch[l]]
    /\ \A l \in 1..lcl : /\ ListInv(ch[l].list, l)
                         /\ Contents(ch[l].list) = ch[l].entries

\* The database names lists of the chain, whose buckets have their files.
DatabaseInv(d, ch, fs) ==
    /\ IsDatabase(d)
    /\ ChainInv(ch, d.lcl)
    /\ d.entries = ch[d.lcl].entries
    /\ Kept(d.has, ch[d.lcl].list, fs)
    /\ DOMAIN d.queue \subseteq 1..d.lcl
    /\ \A l \in DOMAIN d.queue : Kept(d.queue[l], ch[l].list, fs)

\* The work publishes a checkpoint that is queued, with its buckets.
WorkInv(w, d, ch, fs, a) ==
    w # NoWork =>
       /\ IsWork(w)
       /\ w.ledger \in DOMAIN d.queue
       /\ w.original = allBuckets(d.queue[w.ledger])
       /\ Held(w.list, ch[w.ledger].list, fs)
       /\ w.phase # "resolve" => Settled(w.list)
       /\ w.phase = "put" => Complete(w.list, a.files \cup w.toSend)
       /\ w.phase = "state" => Complete(w.list, a.files)

\* What is in memory is held by files, and the references are those of the queue.
MemoryInv(n, d, ch, fs, a) ==
    /\ IsMemory(n)
    /\ Held(n.list, ch[d.lcl].list, fs)
    /\ n.refs = queueRefs(d.queue)
    /\ WorkInv(n.pub, d, ch, fs, a)

ArchiveInv(a, ch, lcl) ==
    /\ IsArchive(a)
    /\ Settled(a.wellKnown) /\ Complete(a.wellKnown, a.files)
    /\ DOMAIN a.states \subseteq 1..lcl
    /\ \A l \in DOMAIN a.states : Complete(a.states[l], a.files) /\ SameList(a.states[l], ch[l].list)

NoError(e) == e = ""

IInv ==
    /\ NoError(err)
    /\ DatabaseInv(db, chain, files)
    /\ MemoryInv(m, db, chain, files, archive)
    /\ ArchiveInv(archive, chain, db.lcl)

-----------------------------------------------------------------------------
(* A ledger is closed. *)

LEMMA StoredIs ==
    ASSUME NEW d, IsDatabase(d), NEW ledger \in Nat \ {0}, NEW batch, NEW list
    PROVE  LET e == storeCurrentLedger(d, ledger, batch, list) IN
           /\ IsDatabase(e)
           /\ e.lcl = ledger /\ e.entries = applyBucket(d.entries, batch)
           /\ e.has = saveList(resolveAnyReadyFutures(list)) /\ e.queue = d.queue
<1> DEFINE entries == applyBucket(d.entries, batch)
           has == saveList(resolveAnyReadyFutures(list))
           e == [d EXCEPT !.lcl = ledger, !.entries = entries, !.has = has]
<1>1. storeCurrentLedger(d, ledger, batch, list) = e
  BY DEF storeCurrentLedger
<1> HIDE DEF entries, has
<1>2. e.lcl = ledger /\ e.entries = entries /\ e.has = has /\ e.queue = d.queue
  BY DEF IsDatabase
<1>3. IsDatabase(e)
  BY DEF IsDatabase
<1> HIDE DEF e
<1> QED BY <1>1, <1>2, <1>3 DEF entries, has

LEMMA QueuedIs ==
    ASSUME NEW d, IsDatabase(d), NEW ledger, NEW list
    PROVE  LET e == queueCurrentHistory(d, ledger, list) IN
           /\ IsDatabase(e)
           /\ e.lcl = d.lcl /\ e.entries = d.entries /\ e.has = d.has
           /\ e.queue = IF isCheckpoint(ledger) THEN With(d.queue, ledger, saveList(list))
                        ELSE d.queue
<1> DEFINE queue == With(d.queue, ledger, saveList(list))
           e == [d EXCEPT !.queue = queue]
<1>1. queueCurrentHistory(d, ledger, list) = IF isCheckpoint(ledger) THEN e ELSE d
  BY DEF queueCurrentHistory
<1> HIDE DEF queue
<1>2. /\ IsDatabase(e)
      /\ e.lcl = d.lcl /\ e.entries = d.entries /\ e.has = d.has /\ e.queue = queue
  BY DEF IsDatabase
<1> HIDE DEF e
<1> QED BY <1>1, <1>2 DEF queue

LEMMA ClosedIs ==
    ASSUME IsMemory(m), NEW batch, NEW ledger
    PROVE  LET list == addBatch(m.list, ledger, batch)
               adopted == Files(fresh(batch) \cup {list[i].curr : i \in Level})
               c == Closed(batch, ledger)
           IN  /\ IsMemory(c.m) /\ c.m.list = list /\ c.m.pub = m.pub
               /\ c.m.refs = IF isCheckpoint(ledger) THEN m.refs (+) SetToBag(allBuckets(list))
                             ELSE m.refs
               /\ c.files = files \cup adopted
               /\ c.db = queueCurrentHistory(storeCurrentLedger(db, ledger, batch, list), ledger, list)
<1> DEFINE list == addBatch(m.list, ledger, batch)
           adopted == Files(fresh(batch) \cup {list[i].curr : i \in Level})
           refs == IF isCheckpoint(ledger) THEN m.refs (+) SetToBag(allBuckets(list)) ELSE m.refs
           n == [m EXCEPT !.list = list, !.shared = m.shared \cup adopted, !.refs = refs]
           fs == files \cup adopted
           d == queueCurrentHistory(storeCurrentLedger(db, ledger, batch, list), ledger, list)
           c == Closed(batch, ledger)
<1>1. c = [m |-> n, files |-> fs, db |-> d]
  BY DEF Closed
<1> HIDE DEF c
<1>2. c.m = n /\ c.files = fs /\ c.db = d
  <2> HIDE DEF n, fs, d
  <2> QED BY <1>1
<1> HIDE DEF adopted, list, refs, d
<1>3. IsMemory(n) /\ n.list = list /\ n.pub = m.pub /\ n.refs = refs
  BY DEF IsMemory
<1> HIDE DEF n
<1> QED BY <1>2, <1>3 DEF c, d, refs, list, adopted

LEMMA ExtendIs ==
    ASSUME NEW lcl \in Nat \ {0}, ChainInv(chain, lcl), db.lcl = lcl, NEW batch
    PROVE  LET ch == extend(batch, lcl + 1) IN
           /\ ChainInv(ch, lcl + 1)
           /\ \A l \in 1..lcl : ch[l] = chain[l]
           /\ ch[lcl + 1].list = addBatch(chain[lcl].list, lcl + 1, batch)
           /\ ch[lcl + 1].entries = applyBucket(chain[lcl].entries, batch)
<1> DEFINE ch == extend(batch, lcl + 1)
           list == addBatch(chain[lcl].list, lcl + 1, batch)
           entries == applyBucket(chain[lcl].entries, batch)
           top == [list |-> list, entries |-> entries]
<1>1. ch = [l \in DOMAIN chain \cup {lcl + 1} |-> IF l = lcl + 1 THEN top ELSE chain[l]]
  BY DEF extend, With, Uninterrupted
<1>2. DOMAIN chain \cup {lcl + 1} = 1..(lcl + 1)
  BY DEF ChainInv
<1>3. ListInv(list, lcl + 1) /\ Contents(list) = entries
  <2>1. ListInv(chain[lcl].list, lcl) /\ Contents(chain[lcl].list) = chain[lcl].entries
    BY DEF ChainInv
  <2> QED BY <2>1, ListInvKept, ContentsKept
<1> HIDE DEF ch, list, entries
<1>4. ch = [l \in 1..(lcl + 1) |-> ch[l]] /\ ch[lcl + 1] = top
  BY <1>1, <1>2
<1>5. \A l \in 1..lcl : ch[l] = chain[l]
  BY <1>1, <1>2
<1>6. ch[lcl + 1].list = list /\ ch[lcl + 1].entries = entries
  BY <1>4
<1>7. ASSUME NEW l \in 1..(lcl + 1)
      PROVE  ListInv(ch[l].list, l) /\ Contents(ch[l].list) = ch[l].entries
  <2>1. CASE l = lcl + 1
    BY <1>3, <1>6, <2>1
  <2>2. CASE l \in 1..lcl
    BY <1>5, <2>2 DEF ChainInv
  <2> QED BY <2>1, <2>2
<1>8. ChainInv(ch, lcl + 1)
  BY <1>4, <1>7 DEF ChainInv
<1> QED BY <1>5, <1>6, <1>8 DEF ch, list, entries

LEMMA CloseOk ==
    ASSUME DatabaseInv(db, chain, files), MemoryInv(m, db, chain, files, archive),
           ArchiveInv(archive, chain, db.lcl), NEW batch
    PROVE  LET c == Closed(batch, db.lcl + 1)
               ch == extend(batch, db.lcl + 1)
           IN  /\ DatabaseInv(c.db, ch, c.files)
               /\ MemoryInv(c.m, c.db, ch, c.files, archive)
               /\ ArchiveInv(archive, ch, c.db.lcl)
<1> DEFINE lcl == db.lcl
           ledger == lcl + 1
           c == Closed(batch, ledger)
           ch == extend(batch, ledger)
           list == addBatch(m.list, ledger, batch)
           stored == storeCurrentLedger(db, ledger, batch, list)
           adopted == Files(fresh(batch) \cup {list[i].curr : i \in Level})
           queue == c.db.queue
<1>1. lcl \in Nat \ {0} /\ ledger \in Nat \ {0} /\ ledger \notin 1..lcl /\ 1..lcl \subseteq 1..ledger
      /\ lcl \in 1..lcl
  BY DEF DatabaseInv, IsDatabase
<1>2. /\ ChainInv(ch, ledger)
      /\ \A l \in 1..lcl : ch[l] = chain[l]
      /\ ch[ledger].list = addBatch(chain[lcl].list, ledger, batch)
      /\ ch[ledger].entries = applyBucket(chain[lcl].entries, batch)
  BY <1>1, ExtendIs DEF DatabaseInv
<1>3. IsList(chain[lcl].list)
  BY <1>1 DEF DatabaseInv, ChainInv, ListInv
<1>4. /\ IsMemory(c.m) /\ c.m.list = list /\ c.m.pub = m.pub
      /\ c.m.refs = IF isCheckpoint(ledger) THEN m.refs (+) SetToBag(allBuckets(list)) ELSE m.refs
      /\ c.files = files \cup adopted
      /\ c.db = queueCurrentHistory(stored, ledger, list)
  BY ClosedIs DEF MemoryInv
<1> HIDE DEF c, ch
<1>5. Held(list, ch[ledger].list, c.files)
  <2>1. Held(m.list, chain[lcl].list, files)
    BY DEF MemoryInv
  <2>2. \A i \in Level : Files({list[i].curr}) \subseteq c.files
    BY <1>4 DEF Files
  <2>3. files \subseteq c.files
    BY <1>4
  <2>4. Held(list, addBatch(chain[lcl].list, ledger, batch), c.files)
    BY <1>3, <2>1, <2>2, <2>3, BatchHeld
  <2> QED BY <1>2, <2>4
<1>6. /\ IsDatabase(stored)
      /\ stored.lcl = ledger /\ stored.entries = applyBucket(db.entries, batch)
      /\ stored.has = saveList(resolveAnyReadyFutures(list)) /\ stored.queue = db.queue
  BY <1>1, StoredIs DEF DatabaseInv
<1> HIDE DEF list, stored, adopted
<1>7. /\ IsDatabase(c.db)
      /\ c.db.lcl = ledger /\ c.db.entries = applyBucket(db.entries, batch)
      /\ c.db.has = saveList(resolveAnyReadyFutures(list))
      /\ queue = IF isCheckpoint(ledger) THEN With(db.queue, ledger, saveList(list)) ELSE db.queue
  BY <1>4, <1>6, QueuedIs
<1>8. /\ DOMAIN queue = DOMAIN db.queue \cup (IF isCheckpoint(ledger) THEN {ledger} ELSE {})
      /\ \A l \in DOMAIN db.queue : queue[l] = db.queue[l]
      /\ isCheckpoint(ledger) => queue[ledger] = saveList(list)
  <2>1. ledger \notin DOMAIN db.queue
    BY <1>1 DEF DatabaseInv
  <2> QED BY <1>7, <2>1 DEF With
<1> HIDE DEF ledger, lcl, queue
<1>9. DatabaseInv(c.db, ch, c.files)
  <2>1. c.db.entries = ch[c.db.lcl].entries
    BY <1>2, <1>7 DEF DatabaseInv, lcl
  <2>2. Kept(c.db.has, ch[c.db.lcl].list, c.files)
    BY <1>5, <1>7, ResolveHeld, SaveKept
  <2>3. DOMAIN c.db.queue \subseteq 1..c.db.lcl
    <3>1. DOMAIN db.queue \subseteq 1..lcl
      BY DEF DatabaseInv, lcl
    <3>2. ledger \in 1..ledger
      BY <1>1
    <3> QED BY <1>1, <1>7, <1>8, <3>1, <3>2 DEF queue
  <2>4. ASSUME NEW l \in DOMAIN c.db.queue PROVE Kept(c.db.queue[l], ch[l].list, c.files)
    <3>1. CASE l \in DOMAIN db.queue
      <4>1. Kept(db.queue[l], chain[l].list, files) /\ l \in 1..lcl
        BY <3>1 DEF DatabaseInv, lcl
      <4>2. files \subseteq c.files
        BY <1>4
      <4>3. c.db.queue[l] = db.queue[l] /\ ch[l] = chain[l]
        BY <1>2, <1>8, <3>1, <4>1 DEF queue
      <4> QED BY <4>1, <4>2, <4>3, MoreFiles
    <3>2. CASE l \notin DOMAIN db.queue
      <4>1. l = ledger /\ c.db.queue[l] = saveList(list)
        BY <1>8, <3>2 DEF queue
      <4> QED BY <1>5, <4>1, SaveKept
    <3> QED BY <3>1, <3>2
  <2> QED BY <1>2, <1>7, <2>1, <2>2, <2>3, <2>4 DEF DatabaseInv
<1>10. c.m.refs = queueRefs(c.db.queue)
  <2>1. m.refs = queueRefs(db.queue)
    BY DEF MemoryInv
  <2>2. CASE isCheckpoint(ledger)
    <3>1. IsFiniteSet(DOMAIN db.queue) /\ ledger \notin DOMAIN db.queue
      <4>1. IsFiniteSet(1..lcl)
        BY <1>1, FS_Interval
      <4> QED BY <1>1, <4>1, FS_Subset DEF DatabaseInv, lcl
    <3>2. queueRefs(With(db.queue, ledger, saveList(list)))
            = queueRefs(db.queue) (+) SetToBag(allBuckets(saveList(list)))
      BY <3>1, RefsAdded
    <3>3. allBuckets(saveList(list)) = allBuckets(list)
      BY <1>5, BucketsAfterSave DEF Held
    <3> QED BY <1>4, <1>7, <2>1, <2>2, <3>2, <3>3 DEF queue
  <2>3. CASE ~ isCheckpoint(ledger)
    BY <1>4, <1>7, <2>1, <2>3 DEF queue
  <2> QED BY <2>2, <2>3
<1>11. WorkInv(c.m.pub, c.db, ch, c.files, archive)
  <2> DEFINE w == m.pub
  <2> SUFFICES ASSUME w # NoWork PROVE WorkInv(w, c.db, ch, c.files, archive)
    BY <1>4 DEF WorkInv
  <2>1. /\ IsWork(w)
        /\ w.ledger \in DOMAIN db.queue
        /\ w.original = allBuckets(db.queue[w.ledger])
        /\ Held(w.list, chain[w.ledger].list, files)
        /\ w.phase # "resolve" => Settled(w.list)
        /\ w.phase = "put" => Complete(w.list, archive.files \cup w.toSend)
        /\ w.phase = "state" => Complete(w.list, archive.files)
    BY DEF MemoryInv, WorkInv
  <2> HIDE DEF w
  <2>2. w.ledger \in DOMAIN queue /\ queue[w.ledger] = db.queue[w.ledger]
    BY <1>8, <2>1
  <2>3. Held(w.list, ch[w.ledger].list, c.files)
    <3>1. w.ledger \in 1..lcl
      BY <2>1 DEF DatabaseInv, lcl
    <3>2. files \subseteq c.files
      BY <1>4
    <3> QED BY <1>2, <2>1, <3>1, <3>2, MoreFiles
  <2> QED BY <2>1, <2>2, <2>3 DEF WorkInv, queue
<1>12. MemoryInv(c.m, c.db, ch, c.files, archive)
  BY <1>4, <1>5, <1>7, <1>10, <1>11 DEF MemoryInv
<1>13. ArchiveInv(archive, ch, c.db.lcl)
  BY <1>1, <1>2, <1>7 DEF ArchiveInv, lcl
<1> QED BY <1>9, <1>12, <1>13 DEF c, ch, ledger, lcl

-----------------------------------------------------------------------------
(* Publishing starts, buckets are collected, the process starts. *)

LEMMA WorkIsNotNone == \A w : IsWork(w) => w # NoWork
<1>1. \A w : IsWork(w) => w.phase # "none"
  BY DEF IsWork
<1>2. NoWork.phase = "none"
  BY DEF NoWork
<1> QED BY <1>1, <1>2

LEMMA PublishOk ==
    ASSUME NEW d, NEW ch, NEW fs, NEW n, NEW a,
           DatabaseInv(d, ch, fs), MemoryInv(n, d, ch, fs, a)
    PROVE  LET p == publishQueuedHistory(n, d) IN
           MemoryInv(p, d, ch, fs, a) /\ p.posted = n.posted
<1> DEFINE p == publishQueuedHistory(n, d)
           ledger == Min(DOMAIN d.queue)
           list == d.queue[ledger]
           w == [phase |-> "resolve", ledger |-> ledger, list |-> list,
                 original |-> allBuckets(list), toSend |-> {}]
           s == n.shared \cup Files(UNION {getHashes(list[i].next) : i \in Level})
           new == [n EXCEPT !.pub = w, !.shared = s]
<1>1. CASE n.pub # NoWork \/ DOMAIN d.queue = {}
  <2>1. p = n
    BY <1>1 DEF publishQueuedHistory
  <2> HIDE DEF p
  <2> QED BY <2>1 DEF p
<1>2. CASE n.pub = NoWork /\ DOMAIN d.queue # {}
  <2>1. p = new
    BY <1>2 DEF publishQueuedHistory
  <2>2. ledger \in DOMAIN d.queue
    <3>1. DOMAIN d.queue \subseteq Nat /\ DOMAIN d.queue # {}
      BY <1>2 DEF DatabaseInv, IsDatabase
    <3>2. PICK x \in DOMAIN d.queue : \A y \in DOMAIN d.queue : x <= y
      BY <3>1, LeastElement
    <3>3. Min(DOMAIN d.queue) = x
      <4>1. DOMAIN d.queue \in SUBSET Int /\ \A y \in DOMAIN d.queue : y >= x
        BY <3>1, <3>2
      <4> QED BY <4>1, MinOf
    <3> QED BY <3>3
  <2>3. Held(list, ch[ledger].list, fs)
    BY <2>2, KeptIsHeld DEF DatabaseInv
  <2> HIDE DEF p, list, ledger, s
  <2>4. /\ IsWork(w) /\ w.ledger = ledger /\ w.list = list /\ w.original = allBuckets(list)
        /\ w.phase = "resolve"
    BY DEF IsWork
  <2> HIDE DEF w
  <2>5. IsMemory(new) /\ new.list = n.list /\ new.refs = n.refs /\ new.pub = w
        /\ new.posted = n.posted
    BY DEF MemoryInv, IsMemory
  <2> HIDE DEF new
  <2>6. WorkInv(w, d, ch, fs, a)
    BY <2>2, <2>3, <2>4 DEF WorkInv, list
  <2> QED BY <2>1, <2>5, <2>6 DEF MemoryInv, p
<1> QED BY <1>1, <1>2

\* The buckets that are known by their hash do not matter.
LEMMA AnyShared ==
    ASSUME NEW d, NEW ch, NEW fs, NEW n, NEW a, MemoryInv(n, d, ch, fs, a), NEW s
    PROVE  MemoryInv([n EXCEPT !.shared = s], d, ch, fs, a)
<1> DEFINE new == [n EXCEPT !.shared = s]
<1>1. IsMemory(new) /\ new.list = n.list /\ new.refs = n.refs /\ new.pub = n.pub
  BY DEF MemoryInv, IsMemory
<1> HIDE DEF new
<1>2. MemoryInv(new, d, ch, fs, a)
  BY <1>1 DEF MemoryInv
<1> QED BY <1>2 DEF new

LEMMA RefsCover ==
    ASSUME NEW queue, NEW l \in DOMAIN queue
    PROVE  allBuckets(queue[l]) \subseteq BagToSet(queueRefs(queue))
<1>1. BagToSet(queueRefs(queue)) = UNION {allBuckets(queue[k]) : k \in DOMAIN queue}
  BY DEF queueRefs, BagToSet
<1> QED BY <1>1

\* What is in use or referenced is enough.
LEMMA NeededIsEnough ==
    ASSUME NEW d, NEW ch, NEW fs, NEW n, NEW a,
           DatabaseInv(d, ch, fs), MemoryInv(n, d, ch, fs, a),
           NEW gs, Files(getReferencedBuckets(n, d) \cup InUse(n)) \subseteq gs
    PROVE  DatabaseInv(d, ch, gs) /\ MemoryInv(n, d, ch, gs, a)
<1> DEFINE needed == getReferencedBuckets(n, d) \cup InUse(n)
<1>1. /\ allBuckets(n.list) \subseteq needed /\ allBuckets(d.has) \subseteq needed
      /\ HeldBy(n.list) \subseteq needed
      /\ BagToSet(n.refs) \subseteq needed
      /\ n.pub # NoWork => HeldBy(n.pub.list) \subseteq needed
  BY DEF getReferencedBuckets, InUse
<1>2. Files(needed) \subseteq gs
  OBVIOUS
<1> HIDE DEF needed
<1>3. \A b : b \subseteq needed => Files(b) \subseteq gs
  BY <1>2 DEF Files
<1>4. \A l \in DOMAIN d.queue : allBuckets(d.queue[l]) \subseteq needed
  BY <1>1, RefsCover DEF MemoryInv
<1>5. DatabaseInv(d, ch, gs)
  BY <1>1, <1>3, <1>4 DEF DatabaseInv, Kept
<1>6. Held(n.list, ch[d.lcl].list, gs)
  BY <1>1, <1>3 DEF MemoryInv, Held
<1>7. WorkInv(n.pub, d, ch, gs, a)
  <2> DEFINE w == n.pub
  <2> SUFFICES ASSUME w # NoWork PROVE WorkInv(w, d, ch, gs, a)
    BY DEF WorkInv
  <2>1. /\ IsWork(w)
        /\ w.ledger \in DOMAIN d.queue
        /\ w.original = allBuckets(d.queue[w.ledger])
        /\ Held(w.list, ch[w.ledger].list, fs)
        /\ w.phase # "resolve" => Settled(w.list)
        /\ w.phase = "put" => Complete(w.list, a.files \cup w.toSend)
        /\ w.phase = "state" => Complete(w.list, a.files)
    BY DEF MemoryInv, WorkInv
  <2>2. HeldBy(w.list) \subseteq needed
    BY <1>1
  <2> HIDE DEF w
  <2> DEFINE queued == d.queue[w.ledger]
  <2>3. \A i \in Level : w.list[i].curr = queued[i].curr /\ w.list[i].snap = queued[i].snap
    BY <2>1 DEF DatabaseInv, Kept, Held, Same, SameList
  <2>4. allBuckets(queued) \subseteq needed
    BY <1>4, <2>1
  <2> HIDE DEF queued
  <2>5. allBuckets(w.list) \subseteq needed
    <3>1. \A i \in Level : queued[i].curr \in needed /\ queued[i].snap \in needed
      BY <2>4 DEF allBuckets
    <3>2. \A i \in Level : getHashes(w.list[i].next) \subseteq needed
      BY <2>2 DEF HeldBy
    <3> QED BY <2>3, <3>1, <3>2 DEF allBuckets
  <2>6. Held(w.list, ch[w.ledger].list, gs)
    BY <1>3, <2>1, <2>2, <2>5 DEF Held
  <2> QED BY <2>1, <2>6 DEF WorkInv
<1>8. MemoryInv(n, d, ch, gs, a)
  BY <1>6, <1>7 DEF MemoryInv
<1> QED BY <1>5, <1>8

LEMMA NeededIsThere ==
    ASSUME NEW d, NEW ch, NEW fs, NEW n, NEW a,
           DatabaseInv(d, ch, fs), MemoryInv(n, d, ch, fs, a)
    PROVE  /\ Missing(fs, getReferencedBuckets(n, d) \cup InUse(n)) = {}
           /\ \A l \in DOMAIN d.queue : Missing(fs, allBuckets(d.queue[l])) = {}
<1>1. \A l \in DOMAIN d.queue : Files(allBuckets(d.queue[l])) \subseteq fs
  BY DEF DatabaseInv, Kept
<1>2. Files(BagToSet(n.refs)) \subseteq fs
  <2>1. n.refs = queueRefs(d.queue)
    BY DEF MemoryInv
  <2>2. BagToSet(n.refs) = UNION {allBuckets(d.queue[k]) : k \in DOMAIN d.queue}
    BY <2>1 DEF queueRefs, BagToSet
  <2> QED BY <1>1, <2>2 DEF Files
<1>3. Files(allBuckets(n.list) \cup HeldBy(n.list)) \subseteq fs
  BY DEF MemoryInv, Held
<1>4. Files(allBuckets(d.has)) \subseteq fs
  BY DEF DatabaseInv, Kept
<1>5. n.pub # NoWork => Files(HeldBy(n.pub.list)) \subseteq fs
  BY DEF MemoryInv, WorkInv, Held, Files
<1>6. Files(getReferencedBuckets(n, d) \cup InUse(n)) \subseteq fs
  BY <1>2, <1>3, <1>4, <1>5 DEF Files, getReferencedBuckets, InUse
<1> QED BY <1>1, <1>6 DEF Missing

LEMMA CollectOk ==
    ASSUME NEW d, NEW ch, NEW fs, NEW n, NEW a,
           DatabaseInv(d, ch, fs), MemoryInv(n, d, ch, fs, a),
           NEW gone \in {{}, Unreferenced(n, d)}
    PROVE  DatabaseInv(d, ch, fs \ gone) /\ MemoryInv(n, d, ch, fs \ gone, a)
<1>1. Files(getReferencedBuckets(n, d) \cup InUse(n)) \subseteq fs \ gone
  <2>1. Files(getReferencedBuckets(n, d) \cup InUse(n)) \subseteq fs
    BY NeededIsThere DEF Missing
  <2> QED BY <2>1 DEF Unreferenced, Files
<1> QED BY <1>1, NeededIsEnough

LEMMA StartOk ==
    ASSUME NEW d, NEW ch, NEW fs, NEW a, DatabaseInv(d, ch, fs)
    PROVE  LET s == Started(fs, d) IN
           /\ NoError(s.err)
           /\ DatabaseInv(d, ch, s.files)
           /\ MemoryInv(s.m, d, ch, s.files, a)
<1> DEFINE needed == allBuckets(d.has) \cup UNION {allBuckets(d.queue[l]) : l \in DOMAIN d.queue}
           n == [list |-> d.has, shared |-> Files(allBuckets(d.has)), refs |-> queueRefs(d.queue),
                 pub |-> NoWork, posted |-> FALSE]
           p == publishQueuedHistory(n, d)
           gs == fs \cap (getReferencedBuckets(n, d) \cup n.shared)
           e == IF Missing(fs, needed) = {} THEN "" ELSE "missing buckets"
           s == Started(fs, d)
<1>1. s = [m |-> p, files |-> gs, err |-> e]
  BY DEF Started
<1>2. Missing(fs, needed) = {}
  BY DEF DatabaseInv, Kept, Missing, Files
<1>3. e = ""
  <2> HIDE DEF needed
  <2> QED BY <1>2, Zenon
<1> HIDE DEF e, p, gs, needed, s
<1>4. s.m = p /\ s.files = gs /\ s.err = ""
  <2>1. s.m = p /\ s.files = gs /\ s.err = e
    BY <1>1
  <2> QED BY <1>3, <2>1, Zenon
<1>5. MemoryInv(n, d, ch, fs, a)
  <2>1. Held(d.has, ch[d.lcl].list, fs)
    BY KeptIsHeld DEF DatabaseInv
  <2> DEFINE refs == queueRefs(d.queue)
             shared == Files(allBuckets(d.has))
             new == [list |-> d.has, shared |-> shared, refs |-> refs, pub |-> NoWork, posted |-> FALSE]
  <2>2. n = new
    OBVIOUS
  <2> HIDE DEF n, refs, shared
  <2>3. IsMemory(new) /\ new.list = d.has /\ new.refs = refs /\ new.pub = NoWork
    BY DEF IsMemory
  <2> HIDE DEF new
  <2>4. MemoryInv(new, d, ch, fs, a)
    BY <2>1, <2>3 DEF MemoryInv, WorkInv, refs
  <2> QED BY <2>2, <2>4
<1>6. Files(getReferencedBuckets(n, d) \cup InUse(n)) \subseteq gs
  <2>1. n.pub = NoWork /\ n.list = d.has
    OBVIOUS
  <2> HIDE DEF n
  <2>2. \A i \in Level : d.has[i].next.done = FALSE
    BY DEF DatabaseInv, Kept, Fresh
  <2>3. HeldBy(n.list) \subseteq allBuckets(n.list)
    BY <2>1, <2>2 DEF HeldBy, allBuckets, mergeComplete
  <2>4. getReferencedBuckets(n, d) \cup InUse(n) = getReferencedBuckets(n, d)
    BY <2>1, <2>3 DEF getReferencedBuckets, InUse
  <2>5. Files(getReferencedBuckets(n, d)) \subseteq fs
    BY <1>5, NeededIsThere DEF Missing, Files
  <2> QED BY <2>4, <2>5 DEF gs, Files
<1>7. DatabaseInv(d, ch, gs) /\ MemoryInv(n, d, ch, gs, a)
  BY <1>5, <1>6, NeededIsEnough
<1>8. MemoryInv(p, d, ch, gs, a)
  BY <1>7, PublishOk DEF p
<1>9. NoError(s.err)
  BY <1>4, Zenon DEF NoError
<1> QED BY <1>4, <1>7, <1>8, <1>9 DEF s

-----------------------------------------------------------------------------
(* The first ledger. *)

LEMMA GenesisIs ==
    ASSUME NEW batch, \A k \in DOMAIN batch : batch[k] # DEAD,
           batch = [k \in DOMAIN batch |-> batch[k]]
    PROVE  LET list == addBatch(NewList, 1, batch) IN
           /\ ListInv(list, 1) /\ Contents(list) = batch
           /\ Held(list, list, {batch})
<1> DEFINE list == addBatch(NewList, 1, batch)
<1>1. ListInv(NewList, 0) /\ DOMAIN Contents(NewList) = {}
  BY NewListIs
<1>2. ListInv(list, 0 + 1) /\ Contents(list) = applyBucket(Contents(NewList), batch)
  BY <1>1, ListInvKept, ContentsKept
<1>3. applyBucket(Contents(NewList), batch) = batch
  <2> DEFINE old == Contents(NewList)
             is == applyBucket(old, batch)
  <2>1. /\ is = [k \in DOMAIN is |-> is[k]]
        /\ \A k : /\ k \in DOMAIN is <=> \/ k \in DOMAIN batch /\ batch[k] # DEAD
                                         \/ k \in DOMAIN old \ DOMAIN batch /\ old[k] # DEAD
                  /\ k \in DOMAIN is => is[k] = IF k \in DOMAIN batch THEN batch[k] ELSE old[k]
    BY ApplyIs
  <2>2. DOMAIN old = {}
    BY <1>1
  <2> HIDE DEF old, is
  <2>3. DOMAIN is = DOMAIN batch /\ \A k \in DOMAIN is : is[k] = batch[k]
    BY <2>1, <2>2
  <2>4. is = batch
    BY <2>1, <2>3
  <2> QED BY <2>4 DEF is, old
<1>4. \A i \in Level : /\ NewList[i].curr = Empty /\ NewList[i].snap = Empty
                       /\ NewList[i].next = Clear
  BY DEF NewList
<1>5. Held(NewList, NewList, {})
  <2>1. IsList(NewList)
    BY <1>1 DEF ListInv
  <2>2. Same(NewList, NewList)
    BY <1>4, <2>1, FuturesAre DEF Same, SameList
  <2>3. allBuckets(NewList) \cup HeldBy(NewList) \subseteq {Empty}
    BY <1>4, ClearIs DEF allBuckets, HeldBy, mergeComplete
  <2> QED BY <2>2, <2>3 DEF Held, Files
<1>6. ASSUME NEW i \in Level PROVE list[i].curr \in {batch, Empty}
  <2>1. IsList(NewList)
    BY <1>1 DEF ListInv
  <2>2. CASE i = 1
    <3>1. list[1].curr = merge(Empty, batch, {}, TRUE)
      <4> DEFINE old == IF Spills(1, 1) THEN Empty ELSE NewList[1].curr
      <4>1. list[1].curr = merge(old, batch, {}, TRUE)
        BY <2>1, FirstCurr
      <4>2. old = Empty
        BY <1>4, Levels
      <4> HIDE DEF old
      <4> QED BY <4>1, <4>2
    <3>2. merge(Empty, batch, {}, TRUE) = batch
      <4> DEFINE out == merge(Empty, batch, {}, TRUE)
      <4>1. \A k : /\ k \in DOMAIN out <=> k \in DOMAIN batch
                   /\ k \in DOMAIN out => out[k] = batch[k]
        BY EmptyHasNoKeys DEF merge, Over
      <4>2. out = [k \in DOMAIN out |-> out[k]]
        BY DEF merge
      <4> HIDE DEF out
      <4>3. DOMAIN out = DOMAIN batch
        BY <4>1
      <4>4. out = batch
        BY <4>1, <4>2, <4>3
      <4> QED BY <4>4 DEF out
    <3> QED BY <2>2, <3>1, <3>2
  <2>3. CASE i # 1
    <3>1. ~ isLive(NewList[i].next)
      BY <1>4, ClearIs
    <3>2. list[i].curr = IF Spills(1, i) THEN Empty ELSE NewList[i].curr
      BY <2>1, <2>3, <3>1, OtherCurr
    <3> HIDE DEF list
    <3> QED BY <1>4, <3>2
  <2> QED BY <2>2, <2>3
<1>7. Held(list, list, {batch})
  <2>1. \A i \in Level : Files({list[i].curr}) \subseteq {batch}
    BY <1>6 DEF Files
  <2>2. IsList(NewList)
    BY <1>1 DEF ListInv
  <2> QED BY <1>5, <2>1, <2>2, BatchHeld
<1> QED BY <1>2, <1>3, <1>7

LEMMA InitOk == Init => IInv
<1> SUFFICES ASSUME Init PROVE IInv
  OBVIOUS
<1> DEFINE batch == Batch(1, [live |-> Genesis, dead |-> {}])
           list == addBatch(NewList, 1, batch)
           has == saveList(list)
<1>1. /\ db = [lcl |-> 1, entries |-> batch, has |-> has, queue |-> <<>>]
      /\ m = [list |-> list, shared |-> {batch}, refs |-> EmptyBag, pub |-> NoWork, posted |-> FALSE]
      /\ files = {batch}
      /\ archive = [files |-> {}, states |-> <<>>, wellKnown |-> NewList]
      /\ chain = [l \in {1} |-> [list |-> list, entries |-> batch]]
  BY DEF Init
<1>2. NoError(err)
  BY Zenon DEF Init, NoError
<1>3. ListInv(list, 1) /\ Contents(list) = batch /\ Held(list, list, {batch})
  <2>1. (\A k \in DOMAIN batch : batch[k] # DEAD) /\ batch = [k \in DOMAIN batch |-> batch[k]]
    BY DEF Batch, DEAD
  <2> HIDE DEF batch
  <2> QED BY <2>1, GenesisIs
<1> HIDE DEF batch, list
<1>4. chain = [l \in 1..1 |-> chain[l]] /\ chain[1].list = list /\ chain[1].entries = batch
  <2> DEFINE top == [list |-> list, entries |-> batch]
  <2>1. chain = [l \in {1} |-> top] /\ 1..1 = {1}
    BY <1>1
  <2>2. top.list = list /\ top.entries = batch
    OBVIOUS
  <2> HIDE DEF top
  <2> QED BY <2>1, <2>2
<1>5. Kept(has, list, {batch})
  BY <1>3, SaveKept
<1> HIDE DEF has
<1>6. IsDatabase(db) /\ db.lcl = 1 /\ db.entries = batch /\ db.has = has /\ DOMAIN db.queue = {}
  BY <1>1 DEF IsDatabase
<1>7. DatabaseInv(db, chain, files)
  <2>1. ChainInv(chain, db.lcl)
    BY <1>3, <1>4, <1>6 DEF ChainInv
  <2>2. files = {batch}
    BY <1>1
  <2> QED BY <1>4, <1>5, <1>6, <2>1, <2>2 DEF DatabaseInv
<1>8. MemoryInv(m, db, chain, files, archive)
  <2>1. IsMemory(m) /\ m.list = list /\ m.refs = EmptyBag /\ m.pub = NoWork
    BY <1>1 DEF IsMemory
  <2>2. files = {batch}
    BY <1>1
  <2>3. EmptyBag = queueRefs(db.queue)
    <3>1. DOMAIN queueRefs(db.queue) = {}
      BY <1>6 DEF queueRefs
    <3>2. EmptyBag = [b \in DOMAIN EmptyBag |-> EmptyBag[b]] /\ DOMAIN EmptyBag = {}
      BY DEF EmptyBag, SetToBag
    <3>3. queueRefs(db.queue) = [b \in DOMAIN queueRefs(db.queue) |-> queueRefs(db.queue)[b]]
      BY RefsAre
    <3> QED BY <3>1, <3>2, <3>3, SameRefs
  <2> QED BY <1>3, <1>4, <1>6, <2>1, <2>2, <2>3 DEF MemoryInv, WorkInv
<1>9. ArchiveInv(archive, chain, db.lcl)
  <2>1. IsArchive(archive) /\ archive.wellKnown = NewList /\ DOMAIN archive.states = {}
    BY <1>1 DEF IsArchive
  <2>2. \A i \in Level : /\ NewList[i].curr = Empty /\ NewList[i].snap = Empty
                         /\ NewList[i].next = Clear
    BY DEF NewList
  <2>3. Settled(NewList)
    BY <2>2 DEF Settled, Clear
  <2>4. allBuckets(NewList) \subseteq {Empty}
    BY <2>2, ClearIs DEF allBuckets
  <2> QED BY <2>1, <2>3, <2>4 DEF ArchiveInv, Complete, Files
<1> QED BY <1>2, <1>7, <1>8, <1>9 DEF IInv

-----------------------------------------------------------------------------
(* The steps. *)

LEMMA MoreFilesOk ==
    ASSUME NEW d, NEW ch, NEW fs, NEW n, NEW a,
           DatabaseInv(d, ch, fs), MemoryInv(n, d, ch, fs, a), NEW gs, fs \subseteq gs
    PROVE  DatabaseInv(d, ch, gs) /\ MemoryInv(n, d, ch, gs, a)
<1>1. DatabaseInv(d, ch, gs)
  BY MoreFiles DEF DatabaseInv
<1>2. WorkInv(n.pub, d, ch, gs, a)
  BY MoreFiles DEF MemoryInv, WorkInv
<1>3. MemoryInv(n, d, ch, gs, a)
  BY <1>2, MoreFiles DEF MemoryInv
<1> QED BY <1>1, <1>3

\* After the step the work is another, and nothing else in memory has changed.
LEMMA OtherWork ==
    ASSUME NEW d, NEW ch, NEW fs, NEW n, NEW a, MemoryInv(n, d, ch, fs, a),
           NEW new, IsMemory(new), new.list = n.list, new.refs = n.refs,
           NEW b, WorkInv(new.pub, d, ch, fs, b)
    PROVE  MemoryInv(new, d, ch, fs, b)
BY DEF MemoryInv

LEMMA WorkIs ==
    ASSUME IInv, m.pub # NoWork
    PROVE  /\ IsMemory(m) /\ IsWork(m.pub)
           /\ m.pub.ledger \in DOMAIN db.queue
           /\ m.pub.original = allBuckets(db.queue[m.pub.ledger])
           /\ Held(m.pub.list, chain[m.pub.ledger].list, files)
           /\ m.pub.phase # "resolve" => Settled(m.pub.list)
           /\ m.pub.phase = "put" => Complete(m.pub.list, archive.files \cup m.pub.toSend)
           /\ m.pub.phase = "state" => Complete(m.pub.list, archive.files)
BY DEF IInv, MemoryInv, WorkInv

LEMMA PublishingIs ==
    \A phase \in {"resolve", "write", "put", "state", "done"} :
        Publishing(phase) => m.pub # NoWork /\ m.pub.phase = phase
BY DEF Publishing, NoWork

LEMMA closeLedgerOk ==
    ASSUME IInv, NEW c, closeLedger(c)
    PROVE  IInv'
<1> DEFINE ledger == db.lcl + 1
           batch == Batch(ledger, c)
           closed == Closed(batch, ledger)
           ch == extend(batch, ledger)
           n == publishQueuedHistory(closed.m, closed.db)
           gone == Unreferenced(n, closed.db)
           new == [n EXCEPT !.shared = n.shared \ gone]
<1>1. /\ db' = closed.db /\ m' = new /\ files' = closed.files \ gone /\ chain' = ch
      /\ archive' = archive /\ err' = err
  BY DEF closeLedger
<1> HIDE DEF batch
<1>2. /\ DatabaseInv(closed.db, ch, closed.files)
      /\ MemoryInv(closed.m, closed.db, ch, closed.files, archive)
      /\ ArchiveInv(archive, ch, closed.db.lcl)
  BY CloseOk DEF IInv
<1> HIDE DEF closed, ch
<1>3. MemoryInv(n, closed.db, ch, closed.files, archive)
  BY <1>2, PublishOk
<1> HIDE DEF n
<1>4. /\ DatabaseInv(closed.db, ch, closed.files \ gone)
      /\ MemoryInv(n, closed.db, ch, closed.files \ gone, archive)
  BY <1>2, <1>3, CollectOk
<1>5. MemoryInv(new, closed.db, ch, closed.files \ gone, archive)
  BY <1>4, AnyShared
<1> HIDE DEF new, gone
<1>6. NoError(err)'
  BY <1>1 DEF IInv, NoError
<1> QED BY <1>1, <1>2, <1>4, <1>5, <1>6 DEF IInv

LEMMA MergeDoneOk ==
    ASSUME IInv, NEW i \in Level, MergeDone(i)
    PROVE  IInv'
<1> DEFINE out == Files({Output(m.list[i].next, i - 1)})
           list == [m.list EXCEPT ![i].next.done = TRUE]
           fs == files \cup out
<1>1. /\ m' = [m EXCEPT !.list[i].next.done = TRUE, !.shared = m.shared \cup out]
      /\ files' = fs /\ UNCHANGED <<db, archive, chain, err>>
  BY DEF MergeDone
<1>2. Held(list, chain[db.lcl].list, fs)
  BY MergeHeld DEF IInv, MemoryInv
<1>3. IsMemory(m') /\ m'.list = list /\ m'.refs = m.refs /\ m'.pub = m.pub
  <2>1. IsMemory(m)
    BY DEF IInv, MemoryInv
  <2> HIDE DEF out
  <2> QED BY <1>1, <2>1 DEF IsMemory
<1> HIDE DEF out, list
<1>4. DatabaseInv(db, chain, fs) /\ MemoryInv(m, db, chain, fs, archive)
  <2>1. files \subseteq fs
    OBVIOUS
  <2> QED BY <2>1, MoreFilesOk DEF IInv
<1> HIDE DEF fs
<1>5. MemoryInv(m', db, chain, fs, archive)
  BY <1>2, <1>3, <1>4 DEF MemoryInv
<1> QED BY <1>1, <1>4, <1>5 DEF IInv, NoError

LEMMA SnapshotMergeDoneOk ==
    ASSUME IInv, NEW i \in Level, SnapshotMergeDone(i)
    PROVE  IInv'
<1> DEFINE out == Files({Output(m.pub.list[i].next, i - 1)})
           list == [m.pub.list EXCEPT ![i].next.done = TRUE]
           fs == files \cup out
<1>1. /\ m' = [m EXCEPT !.pub.list[i].next.done = TRUE, !.shared = m.shared \cup out]
      /\ files' = fs /\ UNCHANGED <<db, archive, chain, err>>
      /\ m.pub # NoWork /\ isMerging(m.pub.list[i].next)
  BY DEF SnapshotMergeDone
<1>2. /\ IsMemory(m) /\ IsWork(m.pub)
      /\ m.pub.ledger \in DOMAIN db.queue
      /\ m.pub.original = allBuckets(db.queue[m.pub.ledger])
      /\ Held(m.pub.list, chain[m.pub.ledger].list, files)
      /\ m.pub.phase # "resolve" => Settled(m.pub.list)
  BY <1>1, WorkIs
<1>3. Held(list, chain[m.pub.ledger].list, fs)
  BY <1>2, MergeHeld
<1>4. m.pub.phase = "resolve"
  <2>1. ~ Settled(m.pub.list)
    BY <1>1 DEF Settled, isMerging
  <2> QED BY <1>2, <2>1
<1>5. /\ IsMemory(m') /\ m'.list = m.list /\ m'.refs = m.refs
      /\ m'.pub = [m.pub EXCEPT !.list[i].next.done = TRUE]
  <2> HIDE DEF out
  <2> QED BY <1>1, <1>2 DEF IsMemory
<1>6. /\ IsWork(m'.pub) /\ m'.pub.list = list /\ m'.pub.ledger = m.pub.ledger
      /\ m'.pub.original = m.pub.original /\ m'.pub.phase = "resolve"
  <2> DEFINE w == m.pub
             v == [w EXCEPT !.list[i].next.done = TRUE]
  <2>1. IsWork(w) /\ w.phase = "resolve"
    BY <1>2, <1>4
  <2>2. m'.pub = v /\ list = [w.list EXCEPT ![i].next.done = TRUE]
    BY <1>5
  <2> HIDE DEF w, list
  <2>3. /\ IsWork(v) /\ v.list = list /\ v.ledger = w.ledger /\ v.original = w.original
        /\ v.phase = "resolve"
    BY <2>1, <2>2 DEF IsWork
  <2> HIDE DEF v
  <2> QED BY <2>2, <2>3 DEF w
<1> HIDE DEF out, list
<1>7. DatabaseInv(db, chain, fs) /\ MemoryInv(m, db, chain, fs, archive)
  <2>1. files \subseteq fs
    OBVIOUS
  <2> QED BY <2>1, MoreFilesOk DEF IInv
<1> HIDE DEF fs
<1>8. WorkInv(m'.pub, db, chain, fs, archive)
  BY <1>2, <1>3, <1>6 DEF WorkInv
<1>9. MemoryInv(m', db, chain, fs, archive)
  BY <1>5, <1>7, <1>8, OtherWork
<1> QED BY <1>1, <1>7, <1>9 DEF IInv, NoError

LEMMA ResolveSnapshotOk ==
    ASSUME IInv, ResolveSnapshot
    PROVE  IInv'
<1> DEFINE list == resolveAnyReadyFutures(m.pub.list)
           ready == db.lcl > m.pub.ledger /\ futuresAllResolved(list)
           phase == IF ready THEN "write" ELSE m.pub.phase
<1>1. /\ m' = [m EXCEPT !.pub.list = list, !.pub.phase = phase]
      /\ UNCHANGED <<files, db, archive, chain, err>>
      /\ m.pub # NoWork /\ m.pub.phase = "resolve"
  BY PublishingIs DEF ResolveSnapshot
<1>2. /\ IsMemory(m) /\ IsWork(m.pub)
      /\ m.pub.ledger \in DOMAIN db.queue
      /\ m.pub.original = allBuckets(db.queue[m.pub.ledger])
      /\ Held(m.pub.list, chain[m.pub.ledger].list, files)
  BY <1>1, WorkIs
<1>3. Held(list, chain[m.pub.ledger].list, files)
  BY <1>2, ResolveHeld
<1>4. phase \in {"resolve", "write"} /\ (phase # "resolve" => futuresAllResolved(list))
  BY <1>1
<1> HIDE DEF list, phase
<1>5. phase # "resolve" => Settled(list)
  BY <1>3, <1>4 DEF Settled, futuresAllResolved, isMerging, Held, Same, IsFuture
<1>6. /\ IsMemory(m') /\ m'.list = m.list /\ m'.refs = m.refs
      /\ m'.pub = [m.pub EXCEPT !.list = list, !.phase = phase]
  BY <1>1, <1>2 DEF IsMemory
<1>7. /\ IsWork(m'.pub) /\ m'.pub.list = list /\ m'.pub.ledger = m.pub.ledger
      /\ m'.pub.original = m.pub.original /\ m'.pub.phase = phase
  BY <1>2, <1>4, <1>6 DEF IsWork
<1>8. WorkInv(m'.pub, db, chain, files, archive)
  BY <1>2, <1>3, <1>4, <1>5, <1>7 DEF WorkInv
<1>9. MemoryInv(m', db, chain, files, archive)
  BY <1>6, <1>8, OtherWork DEF IInv
<1> QED BY <1>1, <1>9 DEF IInv, NoError

\* The names of a list whose merges are settled are its buckets.
Named(list) ==
    UNION {{list[i].curr, list[i].snap}
              \cup (IF isLive(list[i].next) THEN {list[i].next.out} ELSE {}) : i \in Level}

LEMMA DifferingIs ==
    ASSUME NEW list, NEW other
    PROVE  differingBuckets(list, other) = Files(Named(list) \ Named(other))
BY DEF differingBuckets, Named

LEMMA SettledNames ==
    ASSUME NEW list, Settled(list)
    PROVE  Named(list) = allBuckets(list)
<1>1. \A i \in Level : (IF isLive(list[i].next) THEN {list[i].next.out} ELSE {})
                         = getHashes(list[i].next)
  BY DEF Settled, isLive, getHashes
<1> QED BY <1>1 DEF Named, allBuckets

LEMMA GetArchiveStateOk ==
    ASSUME IInv, GetArchiveState
    PROVE  IInv'
<1> DEFINE toSend == differingBuckets(m.pub.list, archive.wellKnown)
           s == m.shared \cup (toSend \cap files)
           list == m.pub.list
           known == archive.wellKnown
<1>1. /\ m' = [m EXCEPT !.pub.phase = "put", !.pub.toSend = toSend, !.shared = s]
      /\ UNCHANGED <<files, db, archive, chain>>
      /\ m.pub # NoWork /\ m.pub.phase = "write"
  BY PublishingIs DEF GetArchiveState
<1>2. /\ IsMemory(m) /\ IsWork(m.pub)
      /\ m.pub.ledger \in DOMAIN db.queue
      /\ m.pub.original = allBuckets(db.queue[m.pub.ledger])
      /\ Held(list, chain[m.pub.ledger].list, files)
      /\ Settled(list)
  BY <1>1, WorkIs
<1>3. Settled(known) /\ Complete(known, archive.files)
  BY DEF IInv, ArchiveInv
<1>4. toSend = Files(allBuckets(list) \ allBuckets(known))
  BY <1>2, <1>3, DifferingIs, SettledNames
<1>5. toSend \subseteq files
  <2>1. Files(allBuckets(list)) \subseteq files
    BY <1>2 DEF Held, Files
  <2> QED BY <1>4, <2>1 DEF Files
<1>6. Complete(list, archive.files \cup toSend)
  BY <1>3, <1>4 DEF Complete, Files
<1>7. NoError(err')
  <2>1. err' = IF toSend \subseteq files THEN "" ELSE "no bucket to send"
    BY DEF GetArchiveState
  <2> HIDE DEF toSend
  <2> QED BY <1>5, <2>1, Zenon DEF NoError
<1> HIDE DEF toSend, s
<1>8. /\ IsMemory(m') /\ m'.list = m.list /\ m'.refs = m.refs
      /\ m'.pub = [m.pub EXCEPT !.phase = "put", !.toSend = toSend]
  BY <1>1, <1>2 DEF IsMemory
<1>9. /\ IsWork(m'.pub) /\ m'.pub.list = list /\ m'.pub.ledger = m.pub.ledger
      /\ m'.pub.original = m.pub.original /\ m'.pub.phase = "put" /\ m'.pub.toSend = toSend
  BY <1>2, <1>8 DEF IsWork
<1>10. WorkInv(m'.pub, db, chain, files, archive)
  <2> HIDE DEF list
  <2>1. Held(m'.pub.list, chain[m'.pub.ledger].list, files)
    BY <1>2, <1>9 DEF list
  <2> QED BY <1>2, <1>6, <1>9, <2>1 DEF WorkInv, list
<1>11. MemoryInv(m', db, chain, files, archive)
  BY <1>8, <1>10, OtherWork DEF IInv
<1> QED BY <1>1, <1>7, <1>11 DEF IInv

LEMMA PutFilesOk ==
    ASSUME IInv, PutFiles
    PROVE  IInv'
<1> DEFINE toSend == m.pub.toSend
           fs == archive.files \cup toSend
<1>1. /\ m' = [m EXCEPT !.pub.phase = "state"]
      /\ archive' = [archive EXCEPT !.files = fs]
      /\ UNCHANGED <<files, db, chain, err>>
      /\ m.pub # NoWork /\ m.pub.phase = "put"
  BY PublishingIs DEF PutFiles
<1>2. /\ IsMemory(m) /\ IsWork(m.pub)
      /\ m.pub.ledger \in DOMAIN db.queue
      /\ m.pub.original = allBuckets(db.queue[m.pub.ledger])
      /\ Held(m.pub.list, chain[m.pub.ledger].list, files)
      /\ Settled(m.pub.list) /\ Complete(m.pub.list, fs)
  BY <1>1, WorkIs
<1>3. IsMemory(m') /\ m'.list = m.list /\ m'.refs = m.refs /\ m'.pub = [m.pub EXCEPT !.phase = "state"]
  BY <1>1, <1>2 DEF IsMemory
<1>4. /\ IsWork(m'.pub) /\ m'.pub.list = m.pub.list /\ m'.pub.ledger = m.pub.ledger
      /\ m'.pub.original = m.pub.original /\ m'.pub.phase = "state"
  BY <1>2, <1>3 DEF IsWork
<1> HIDE DEF toSend
<1>5. /\ IsArchive(archive') /\ archive'.files = fs /\ archive'.states = archive.states
      /\ archive'.wellKnown = archive.wellKnown
  BY <1>1 DEF IInv, ArchiveInv, IsArchive
<1>6. ArchiveInv(archive', chain, db.lcl)
  <2>1. \A list : Complete(list, archive.files) => Complete(list, fs)
    BY DEF Complete
  <2> HIDE DEF fs
  <2> QED BY <1>5, <2>1 DEF IInv, ArchiveInv
<1> HIDE DEF fs
<1>7. WorkInv(m'.pub, db, chain, files, archive')
  BY <1>2, <1>4, <1>5 DEF WorkInv
<1>8. MemoryInv(m', db, chain, files, archive')
  BY <1>3, <1>7, OtherWork DEF IInv
<1> QED BY <1>1, <1>6, <1>8 DEF IInv, NoError

\* The archive has every bucket of the checkpoint before its state is put.
LEMMA PutStateIsOk ==
    ASSUME IInv, m.pub # NoWork, m.pub.phase = "state", NEW where
    PROVE  /\ ArchiveInv(putState(archive, where), chain, db.lcl)
           /\ putState(archive, where).files = archive.files
<1> DEFINE ledger == m.pub.ledger
           list == m.pub.list
           states == IF "seq" \in where THEN With(archive.states, ledger, list) ELSE archive.states
           known == IF "wellKnown" \in where THEN list ELSE archive.wellKnown
           new == [archive EXCEPT !.states = states, !.wellKnown = known]
<1>1. putState(archive, where) = new
  BY DEF putState
<1>2. /\ ledger \in DOMAIN db.queue
      /\ Held(list, chain[ledger].list, files)
      /\ Settled(list) /\ Complete(list, archive.files)
  BY WorkIs
<1>3. ArchiveInv(archive, chain, db.lcl)
  BY DEF IInv
<1>4. ledger \in 1..db.lcl
  BY <1>2 DEF IInv, DatabaseInv
<1>5. SameList(list, chain[ledger].list)
  BY <1>2 DEF Held, Same
<1> HIDE DEF ledger, list
<1>6. Settled(known) /\ Complete(known, archive.files)
  BY <1>2, <1>3 DEF ArchiveInv
<1>7. /\ DOMAIN states \subseteq 1..db.lcl
      /\ \A l \in DOMAIN states :
            Complete(states[l], archive.files) /\ SameList(states[l], chain[l].list)
  <2>1. CASE "seq" \in where
    <3>1. /\ DOMAIN states = DOMAIN archive.states \cup {ledger}
          /\ \A l \in DOMAIN states : states[l] = IF l = ledger THEN list ELSE archive.states[l]
      BY <2>1 DEF With
    <3> HIDE DEF states
    <3> QED BY <1>2, <1>3, <1>4, <1>5, <3>1 DEF ArchiveInv
  <2>2. CASE "seq" \notin where
    <3>1. states = archive.states
      BY <2>2
    <3> HIDE DEF states
    <3> QED BY <1>3, <3>1 DEF ArchiveInv
  <2> QED BY <2>1, <2>2
<1> HIDE DEF states, known
<1>8. /\ IsArchive(new) /\ new.files = archive.files /\ new.states = states
      /\ new.wellKnown = known
  BY <1>3 DEF ArchiveInv, IsArchive
<1> HIDE DEF new
<1>9. ArchiveInv(new, chain, db.lcl)
  BY <1>6, <1>7, <1>8 DEF ArchiveInv
<1> QED BY <1>1, <1>8, <1>9

\* Nothing is published any more; the checkpoint leaves the queue if it was.
LEMMA PublishedOk ==
    ASSUME IInv, m.pub # NoWork, NEW success \in BOOLEAN, historyPublished(success),
           NEW a
    PROVE  /\ DatabaseInv(db', chain, files)
           /\ MemoryInv(m', db', chain, files, a)
           /\ db'.lcl = db.lcl
<1> DEFINE ledger == m.pub.ledger
           refs == IF success THEN removeBuckets(m.refs, m.pub.original) ELSE m.refs
           less == [l \in DOMAIN db.queue \ {ledger} |-> db.queue[l]]
           queue == IF success THEN less ELSE db.queue
<1>1. /\ m' = [m EXCEPT !.pub = NoWork, !.posted = TRUE, !.refs = refs]
      /\ db' = IF success THEN [db EXCEPT !.queue = less] ELSE db
  BY DEF historyPublished
<1>2. /\ ledger \in DOMAIN db.queue
      /\ m.pub.original = allBuckets(db.queue[ledger])
  BY WorkIs
<1>3. DatabaseInv(db, chain, files) /\ MemoryInv(m, db, chain, files, archive)
  BY DEF IInv
<1>4. refs = queueRefs(queue)
  <2>1. IsFiniteSet(DOMAIN db.queue)
    <3>1. DOMAIN db.queue \subseteq 1..db.lcl /\ db.lcl \in Int
      BY <1>3 DEF DatabaseInv, IsDatabase
    <3>2. IsFiniteSet(1..db.lcl)
      BY <3>1, FS_Interval
    <3> QED BY <3>1, <3>2, FS_Subset
  <2>2. m.refs = queueRefs(db.queue)
    BY <1>3 DEF MemoryInv
  <2>3. queueRefs(less) = queueRefs(db.queue) (-) SetToBag(allBuckets(db.queue[ledger]))
    BY <1>2, <2>1, RefsRemoved
  <2>4. CASE success
    <3>1. refs = m.refs (-) SetToBag(m.pub.original)
      BY <2>4 DEF removeBuckets
    <3>2. queue = less
      BY <2>4
    <3> HIDE DEF less, ledger, refs, queue
    <3> QED BY <1>2, <2>2, <2>3, <3>1, <3>2
  <2>5. CASE ~ success
    BY <2>2, <2>5
  <2> QED BY <2>4, <2>5
<1>5. DOMAIN queue \subseteq DOMAIN db.queue /\ \A l \in DOMAIN queue : queue[l] = db.queue[l]
  OBVIOUS
<1> HIDE DEF ledger, refs
<1>6. /\ IsMemory(m') /\ m'.list = m.list /\ m'.refs = refs /\ m'.pub = NoWork
  BY <1>1, <1>3 DEF MemoryInv, IsMemory
<1>7. /\ IsDatabase(db') /\ db'.lcl = db.lcl /\ db'.entries = db.entries /\ db'.has = db.has
      /\ db'.queue = queue
  <2>1. IsDatabase(db)
    BY <1>3 DEF DatabaseInv
  <2>2. CASE success
    <3>1. db' = [db EXCEPT !.queue = less] /\ queue = less
      BY <1>1, <2>2
    <3> HIDE DEF less, queue
    <3> QED BY <2>1, <3>1 DEF IsDatabase
  <2>3. CASE ~ success
    BY <1>1, <2>1, <2>3
  <2> QED BY <2>2, <2>3
<1> HIDE DEF queue
<1>8. DatabaseInv(db', chain, files)
  BY <1>3, <1>5, <1>7 DEF DatabaseInv
<1>9. MemoryInv(m', db', chain, files, a)
  BY <1>3, <1>4, <1>6, <1>7 DEF MemoryInv, WorkInv
<1> QED BY <1>7, <1>8, <1>9

LEMMA PutStateOk ==
    ASSUME IInv, PutState
    PROVE  IInv'
<1>1. /\ archive' = putState(archive, {"seq", "wellKnown"})
      /\ m' = [m EXCEPT !.pub.phase = "done"]
      /\ UNCHANGED <<files, db, chain, err>>
      /\ m.pub # NoWork /\ m.pub.phase = "state"
  BY PublishingIs DEF PutState
<1>2. ArchiveInv(archive', chain, db.lcl)
  BY <1>1, PutStateIsOk
<1>3. /\ IsMemory(m) /\ IsWork(m.pub)
      /\ m.pub.ledger \in DOMAIN db.queue
      /\ m.pub.original = allBuckets(db.queue[m.pub.ledger])
      /\ Held(m.pub.list, chain[m.pub.ledger].list, files)
      /\ Settled(m.pub.list)
  BY <1>1, WorkIs
<1>4. /\ IsMemory(m') /\ m'.list = m.list /\ m'.refs = m.refs
      /\ m'.pub = [m.pub EXCEPT !.phase = "done"]
  BY <1>1, <1>3 DEF IsMemory
<1>5. /\ IsWork(m'.pub) /\ m'.pub.list = m.pub.list /\ m'.pub.ledger = m.pub.ledger
      /\ m'.pub.original = m.pub.original /\ m'.pub.phase = "done"
  BY <1>3, <1>4 DEF IsWork
<1>6. WorkInv(m'.pub, db, chain, files, archive')
  BY <1>3, <1>5 DEF WorkInv
<1>7. MemoryInv(m', db, chain, files, archive')
  BY <1>4, <1>6, OtherWork DEF IInv
<1> QED BY <1>1, <1>2, <1>7 DEF IInv, NoError

LEMMA PublishedStepOk ==
    ASSUME IInv, Published
    PROVE  IInv'
<1>1. /\ historyPublished(TRUE) /\ UNCHANGED <<files, archive, chain, err>>
      /\ m.pub # NoWork
  BY PublishingIs DEF Published
<1>2. /\ DatabaseInv(db', chain, files) /\ MemoryInv(m', db', chain, files, archive)
      /\ db'.lcl = db.lcl
  BY <1>1, PublishedOk
<1> QED BY <1>1, <1>2 DEF IInv, NoError

LEMMA PublishFailsOk ==
    ASSUME IInv, NEW where, NEW giveUp \in BOOLEAN, PublishFails(where, giveUp)
    PROVE  IInv'
<1>1. /\ UNCHANGED <<files, chain, err>>
      /\ IF giveUp THEN historyPublished(FALSE)
         ELSE m' = [m EXCEPT !.pub.phase = "resolve"] /\ UNCHANGED db
      /\ m.pub # NoWork
  BY PublishingIs DEF PublishFails
<1>2. ArchiveInv(archive', chain, db.lcl)
  <2>1. CASE UNCHANGED archive
    BY <2>1 DEF IInv
  <2>2. CASE Publishing("state") /\ archive' = putState(archive, where)
    BY <2>2, PublishingIs, PutStateIsOk
  <2> QED BY <2>1, <2>2 DEF PublishFails
<1>3. CASE giveUp
  <2>1. DatabaseInv(db', chain, files) /\ MemoryInv(m', db', chain, files, archive')
        /\ db'.lcl = db.lcl
    BY <1>1, <1>3, PublishedOk
  <2> QED BY <1>1, <1>2, <2>1 DEF IInv, NoError
<1>4. CASE ~ giveUp
  <2>1. m' = [m EXCEPT !.pub.phase = "resolve"] /\ UNCHANGED db
    BY <1>1, <1>4
  <2>2. /\ IsMemory(m) /\ IsWork(m.pub)
        /\ m.pub.ledger \in DOMAIN db.queue
        /\ m.pub.original = allBuckets(db.queue[m.pub.ledger])
        /\ Held(m.pub.list, chain[m.pub.ledger].list, files)
    BY <1>1, WorkIs
  <2>3. /\ IsMemory(m') /\ m'.list = m.list /\ m'.refs = m.refs
        /\ m'.pub = [m.pub EXCEPT !.phase = "resolve"]
    BY <2>1, <2>2 DEF IsMemory
  <2>4. /\ IsWork(m'.pub) /\ m'.pub.list = m.pub.list /\ m'.pub.ledger = m.pub.ledger
        /\ m'.pub.original = m.pub.original /\ m'.pub.phase = "resolve"
    BY <2>2, <2>3 DEF IsWork
  <2>5. WorkInv(m'.pub, db, chain, files, archive')
    BY <2>2, <2>4 DEF WorkInv
  <2>6. MemoryInv(m', db, chain, files, archive')
    BY <2>3, <2>5, OtherWork DEF IInv
  <2> QED BY <1>1, <1>2, <2>1, <2>6 DEF IInv, NoError
<1> QED BY <1>3, <1>4

LEMMA PostedPublishOk ==
    ASSUME IInv, PostedPublish
    PROVE  IInv'
<1> DEFINE n == [m EXCEPT !.posted = FALSE]
<1>1. m' = publishQueuedHistory(n, db) /\ UNCHANGED <<files, db, archive, chain, err>>
  BY DEF PostedPublish
<1>2. IsMemory(n) /\ n.list = m.list /\ n.refs = m.refs /\ n.pub = m.pub
  BY DEF IInv, MemoryInv, IsMemory
<1> HIDE DEF n
<1>3. MemoryInv(n, db, chain, files, archive)
  BY <1>2 DEF IInv, MemoryInv
<1>4. MemoryInv(m', db, chain, files, archive)
  BY <1>1, <1>3, PublishOk DEF IInv
<1> QED BY <1>1, <1>4 DEF IInv, NoError

LEMMA RestartedOk ==
    ASSUME NEW fs, NEW d, Restarted(fs, d), DatabaseInv(d, chain', fs),
           ArchiveInv(archive, chain', d.lcl)
    PROVE  IInv'
<1> DEFINE s == Started(fs, d)
<1>1. m' = s.m /\ files' = s.files /\ err' = s.err /\ db' = d /\ archive' = archive
  BY DEF Restarted
<1>2. NoError(s.err) /\ DatabaseInv(d, chain', s.files) /\ MemoryInv(s.m, d, chain', s.files, archive)
  BY StartOk
<1> HIDE DEF s
<1>3. NoError(err')
  BY <1>1, <1>2 DEF NoError
<1> QED BY <1>1, <1>2, <1>3 DEF IInv

LEMMA CrashOk ==
    ASSUME IInv, Crash
    PROVE  IInv'
<1>1. PICK gone \in {{}, Unreferenced(m, db)} : Restarted(files \ gone, db)
  BY DEF Crash
<1>2. chain' = chain
  BY DEF Crash
<1>3. DatabaseInv(db, chain, files \ gone)
  BY CollectOk DEF IInv
<1> QED BY <1>1, <1>2, <1>3, RestartedOk DEF IInv

LEMMA CrashBeforeCommitOk ==
    ASSUME IInv, NEW c, CrashBeforeCommit(c)
    PROVE  IInv'
<1> DEFINE ledger == db.lcl + 1
           batch == Batch(ledger, c)
           fs == Closed(batch, ledger).files
<1>1. Restarted(fs, db) /\ chain' = chain
  BY DEF CrashBeforeCommit
<1>2. files \subseteq fs
  BY ClosedIs DEF IInv, MemoryInv
<1> HIDE DEF fs
<1>3. DatabaseInv(db, chain, fs)
  BY <1>2, MoreFilesOk DEF IInv
<1> QED BY <1>1, <1>3, RestartedOk DEF IInv

LEMMA CrashAfterCommitOk ==
    ASSUME IInv, NEW c, CrashAfterCommit(c)
    PROVE  IInv'
<1> DEFINE ledger == db.lcl + 1
           batch == Batch(ledger, c)
           closed == Closed(batch, ledger)
           ch == extend(batch, ledger)
           n == publishQueuedHistory(closed.m, closed.db)
<1>1. chain' = ch /\ \E gone \in {{}, Unreferenced(n, closed.db)} :
                        Restarted(closed.files \ gone, closed.db)
  BY DEF CrashAfterCommit
<1> HIDE DEF batch
<1>2. /\ DatabaseInv(closed.db, ch, closed.files)
      /\ MemoryInv(closed.m, closed.db, ch, closed.files, archive)
      /\ ArchiveInv(archive, ch, closed.db.lcl)
  BY CloseOk DEF IInv
<1> HIDE DEF closed, ch
<1>3. MemoryInv(n, closed.db, ch, closed.files, archive)
  BY <1>2, PublishOk
<1> HIDE DEF n
<1>4. PICK gone \in {{}, Unreferenced(n, closed.db)} : Restarted(closed.files \ gone, closed.db)
  BY <1>1
<1>5. DatabaseInv(closed.db, ch, closed.files \ gone)
  BY <1>2, <1>3, CollectOk
<1> QED BY <1>1, <1>2, <1>4, <1>5, RestartedOk

LEMMA StepOk == IInv /\ [Next]_vars => IInv'
<1> SUFFICES ASSUME IInv, [Next]_vars PROVE IInv'
  OBVIOUS
<1>1. ASSUME NEW c, closeLedger(c) \/ CrashBeforeCommit(c) \/ CrashAfterCommit(c) PROVE IInv'
  BY <1>1, closeLedgerOk, CrashBeforeCommitOk, CrashAfterCommitOk
<1>2. ASSUME NEW i \in Level, MergeDone(i) PROVE IInv'
  BY <1>2, MergeDoneOk
<1>3. CASE PublishStep
  BY <1>3, SnapshotMergeDoneOk, ResolveSnapshotOk, GetArchiveStateOk, PutFilesOk, PutStateOk,
     PublishedStepOk, PostedPublishOk DEF PublishStep
<1>4. ASSUME NEW where, NEW giveUp \in BOOLEAN, PublishFails(where, giveUp) PROVE IInv'
  BY <1>4, PublishFailsOk
<1>5. CASE Crash
  BY <1>5, CrashOk
<1>6. CASE UNCHANGED vars
  BY <1>6 DEF vars, IInv, NoError
<1> QED BY <1>1, <1>2, <1>3, <1>4, <1>5, <1>6 DEF Next

-----------------------------------------------------------------------------

THEOREM BucketsStayConsistent == Spec => []IInv
<1>1. Init => IInv
  BY InitOk
<1>2. IInv /\ [Next]_vars => IInv'
  BY StepOk
<1> QED BY <1>1, <1>2, PTL DEF Spec

\* The bucket list stands for the ledger: addBatch, the merges of the workers, what is
\* saved with a ledger and what assumeState reads again never change what the list and
\* its merges say, and its newest entries are those of the database.
THEOREM ListOfTheLedger == Spec => []ListIsThatOfTheLedger
<1>1. IInv => ListIsThatOfTheLedger
  <2> SUFFICES ASSUME IInv PROVE ListIsThatOfTheLedger
    OBVIOUS
  <2>1. SameList(m.list, chain[db.lcl].list)
    BY DEF IInv, MemoryInv, Held, Same
  <2>2. Contents(m.list) = Contents(chain[db.lcl].list)
    BY <2>1, SameContents
  <2>3. Contents(chain[db.lcl].list) = db.entries
    <3>1. db.lcl \in 1..db.lcl
      BY DEF IInv, DatabaseInv, IsDatabase
    <3> QED BY <3>1 DEF IInv, DatabaseInv, ChainInv
  <2> QED BY <2>1, <2>2, <2>3 DEF ListIsThatOfTheLedger, Uninterrupted
<1> QED BY <1>1, BucketsStayConsistent, PTL

\* forgetUnreferencedBuckets and cleanupStaleFiles remove no bucket that a merge, a
\* restart or a checkpoint still needs, so assumeState and the snapshot that is
\* published find every file.
THEOREM NeededBucketsStay == Spec => []NothingNeededIsDeleted
<1>1. IInv => NothingNeededIsDeleted
  <2> SUFFICES ASSUME IInv PROVE NothingNeededIsDeleted
    OBVIOUS
  <2>1. err = ""
    BY Zenon DEF IInv, NoError
  <2>2. /\ Missing(files, getReferencedBuckets(m, db) \cup InUse(m)) = {}
        /\ \A l \in DOMAIN db.queue : Missing(files, allBuckets(db.queue[l])) = {}
    BY NeededIsThere DEF IInv
  <2> QED BY <2>1, <2>2, Zenon DEF NothingNeededIsDeleted
<1> QED BY <1>1, BucketsStayConsistent, PTL

\* A state of the archive is put after the buckets it names, and is that of its ledger:
\* PutHistoryArchiveStateWork follows PutFilesWork, whatever failed and was tried again.
THEOREM ArchiveStaysComplete == Spec => []ArchiveIsComplete
<1>1. IInv => ArchiveIsComplete
  BY DEF IInv, ArchiveInv, ArchiveIsComplete, Complete, Missing
<1> QED BY <1>1, BucketsStayConsistent, PTL

=============================================================================
