----------------------------- MODULE NumberFacts -----------------------------
(***************************************************************************)
(* Facts about numbers that the proofs about the transaction queue, the    *)
(* exchange of offers and the ledger cite: induction, the highest and the  *)
(* lowest of a set, quotients and their rounding, and sums over finite     *)
(* sets (SumFunctionOnSet) after an element is added, changed or removed.  *)
(***************************************************************************)
EXTENDS Integers, FiniteSets, FiniteSetsExt, TLAPS, FiniteSetTheorems, WellFoundedInduction

-----------------------------------------------------------------------------
(* Induction, from the well-foundedness of the natural numbers. *)

\* A set of natural numbers that is not empty has a least element.
LEMMA LeastElement ==
    ASSUME NEW T, T \subseteq Nat, T # {}
    PROVE  \E x \in T : \A y \in T : x <= y
<1>1. PICK x \in T : \A y \in T : ~ (<<y, x>> \in OpToRel(<, Nat))
  BY NatLessThanWellFounded, WFMin, Zenon
<1>2. \A y \in T : ~ (y < x)
  <2> TAKE y \in T
  <2>1. ~ (<<y, x>> \in OpToRel(<, Nat))
    BY <1>1
  <2>2. <<y, x>> \in OpToRel(<, Nat) <=> y < x
    BY DEF OpToRel
  <2> QED BY <2>1, <2>2
<1>3. \A y \in T : x <= y
  BY <1>2
<1> QED BY <1>3

\* A set that contains 0 and, with every natural number, the next one contains them all.
LEMMA Induction ==
    ASSUME NEW S, 0 \in S, \A n \in Nat : n \in S => n + 1 \in S
    PROVE  Nat \subseteq S
<1> SUFFICES ASSUME ~ (Nat \subseteq S) PROVE FALSE
  OBVIOUS
<1> DEFINE T == Nat \ S
<1>1. T \subseteq Nat /\ T # {}
  OBVIOUS
<1> HIDE DEF T
<1>2. PICK x \in T : \A y \in T : x <= y
  BY <1>1, LeastElement, Zenon
<1> USE DEF T
<1>3. x # 0 /\ x - 1 \in Nat
  BY <1>2
<1>4. x - 1 \in S
  BY <1>2, <1>3
<1>5. (x - 1) + 1 = x
  BY <1>2
<1> QED BY <1>2, <1>3, <1>4, <1>5

-----------------------------------------------------------------------------
(* The highest and the lowest of a set. *)

LEMMA MaxOf ==
    ASSUME NEW S \in SUBSET Int, NEW m \in S, \A x \in S : m >= x
    PROVE  Max(S) = m
<1>1. \A y \in S : (\A x \in S : y >= x) => y = m
  OBVIOUS
<1> QED BY <1>1 DEF Max

LEMMA MinOf ==
    ASSUME NEW S \in SUBSET Int, NEW m \in S, \A x \in S : x >= m
    PROVE  Min(S) = m
<1>1. \A y \in S : (\A x \in S : x >= y) => y = m
  OBVIOUS
<1>2. Min(S) \in S /\ \A x \in S : x >= Min(S)
  BY DEF Min
<1> QED BY <1>1, <1>2

LEMMA MaxOfTwo ==
    ASSUME NEW a \in Int, NEW b \in Int
    PROVE  Max({a, b}) = IF a >= b THEN a ELSE b
<1> DEFINE S == {a, b}
           m == IF a >= b THEN a ELSE b
<1>1. S \in SUBSET Int /\ m \in S /\ \A x \in S : m >= x
  OBVIOUS
<1> HIDE DEF S, m
<1>2. Max(S) = m
  BY <1>1, MaxOf
<1> QED BY <1>2 DEF S, m

LEMMA MinOfTwo ==
    ASSUME NEW a \in Int, NEW b \in Int
    PROVE  Min({a, b}) = IF a <= b THEN a ELSE b
<1> DEFINE S == {a, b}
           m == IF a <= b THEN a ELSE b
<1>1. S \in SUBSET Int /\ m \in S /\ \A x \in S : x >= m
  OBVIOUS
<1> HIDE DEF S, m
<1>2. Min(S) = m
  BY <1>1, MinOf
<1> QED BY <1>2 DEF S, m

-----------------------------------------------------------------------------
(* Products and quotients. *)

LEMMA ProductType ==
    ASSUME NEW x \in Nat, NEW y \in Nat
    PROVE  x * y \in Nat
OBVIOUS

LEMMA ProductOrder ==
    ASSUME NEW x \in Int, NEW y \in Int, NEW b \in Nat \ {0}
    PROVE  /\ x <= y <=> x * b <= y * b
           /\ x < y <=> x * b < y * b
OBVIOUS

LEMMA Quotient ==
    ASSUME NEW a \in Nat, NEW b \in Nat \ {0}
    PROVE  /\ a \div b \in Nat
           /\ (a \div b) * b <= a
           /\ a < ((a \div b) + 1) * b
OBVIOUS

-----------------------------------------------------------------------------
(* The recursive function behind a sum. *)

AnyOf(s) == CHOOSE x \in s : TRUE

\* F sums f over every subset of S, one element after the other.
IsIterated(F, f, S) ==
    F = [s \in SUBSET S |-> IF s = {} THEN 0 ELSE f[AnyOf(s)] + F[s \ {AnyOf(s)}]]

LEMMA SumIsIterated ==
    ASSUME NEW f, NEW S
    PROVE  SumFunctionOnSet(f, S) = (CHOOSE F : IsIterated(F, f, S))[S]
BY DEF SumFunctionOnSet, FoldFunctionOnSet, MapThenFoldSet, IsIterated, AnyOf

\* A family of subsets of a finite set D that contains every set whose proper subsets
\* it contains, contains all of them.
LEMMA SubsetInduction ==
    ASSUME NEW D, IsFiniteSet(D), NEW H,
           \A s \in SUBSET D : (\A t \in SUBSET s : t # s => t \in H) => s \in H
    PROVE  SUBSET D \subseteq H
<1> DEFINE P(n) == \A s \in SUBSET D : Cardinality(s) <= n => s \in H
           N == {n \in Nat : P(n)}
<1>1. \A s \in SUBSET D : IsFiniteSet(s) /\ Cardinality(s) \in Nat
  BY FS_Subset, FS_CardinalityType
<1>2. \A s \in SUBSET D : \A t \in SUBSET s : t # s => Cardinality(t) < Cardinality(s)
  <2> TAKE s \in SUBSET D
  <2> TAKE t \in SUBSET s
  <2>1. t \in SUBSET D /\ IsFiniteSet(s)
    BY <1>1
  <2>2. Cardinality(t) <= Cardinality(s) /\ (Cardinality(s) = Cardinality(t) => s = t)
    BY <2>1, FS_Subset
  <2> QED BY <2>1, <2>2, <1>1
<1>3. 0 \in N
  <2> SUFFICES ASSUME NEW s \in SUBSET D, Cardinality(s) <= 0 PROVE s \in H
    OBVIOUS
  <2>1. \A t \in SUBSET s : t = s
    BY <1>1, <1>2
  <2> QED BY <2>1
<1>4. ASSUME NEW n \in Nat, P(n) PROVE P(n + 1)
  <2> SUFFICES ASSUME NEW s \in SUBSET D, Cardinality(s) <= n + 1 PROVE s \in H
    OBVIOUS
  <2>1. \A t \in SUBSET s : t # s => t \in H
    <3> TAKE t \in SUBSET s
    <3> HAVE t # s
    <3>1. t \in SUBSET D /\ Cardinality(t) < Cardinality(s)
      BY <1>2
    <3>2. Cardinality(t) <= n
      BY <3>1, <1>1
    <3> QED BY <3>1, <3>2, <1>4
  <2> QED BY <2>1
<1>5. \A n \in Nat : n \in N => n + 1 \in N
  BY <1>4
<1>6. Nat \subseteq N
  <2> HIDE DEF N
  <2> QED BY <1>3, <1>5, Induction
<1>7. ASSUME NEW s \in SUBSET D PROVE s \in H
  <2>1. Cardinality(s) \in N
    BY <1>1, <1>6
  <2>2. P(Cardinality(s))
    BY <2>1
  <2>3. Cardinality(s) <= Cardinality(s)
    BY <1>1
  <2> QED BY <2>2, <2>3
<1> QED BY <1>7

\* There is such a function for every finite set.
LEMMA IteratedExists ==
    ASSUME NEW f, NEW S, IsFiniteSet(S)
    PROVE  \E F : IsIterated(F, f, S)
<1> DEFINE Step(F, s) == IF s = {} THEN 0 ELSE f[AnyOf(s)] + F[s \ {AnyOf(s)}]
           P(n) == \E F : /\ F = [s \in SUBSET S |-> F[s]]
                          /\ \A s \in SUBSET S : Cardinality(s) <= n => F[s] = Step(F, s)
           N == {n \in Nat : P(n)}
<1>1. \A s \in SUBSET S : IsFiniteSet(s) /\ Cardinality(s) \in Nat /\ Cardinality(s) <= Cardinality(S)
  BY FS_Subset, FS_CardinalityType
<1>2. \A s \in SUBSET S : s # {} => Cardinality(s \ {AnyOf(s)}) = Cardinality(s) - 1
  <2> TAKE s \in SUBSET S
  <2> HAVE s # {}
  <2>1. AnyOf(s) \in s
    BY DEF AnyOf
  <2> QED BY <2>1, <1>1, FS_RemoveElement
<1>3. \A s \in SUBSET S : Cardinality(s) <= 0 => s = {}
  BY <1>1, FS_EmptySet
<1>4. P(0)
  <2> DEFINE F == [s \in SUBSET S |-> 0]
  <2>1. \A s \in SUBSET S : Cardinality(s) <= 0 => F[s] = Step(F, s)
    BY <1>3
  <2>2. F = [s \in SUBSET S |-> F[s]]
    OBVIOUS
  <2> HIDE DEF F
  <2> QED BY <2>1, <2>2
<1>5. ASSUME NEW n \in Nat, P(n) PROVE P(n + 1)
  <2>1. PICK F : \A s \in SUBSET S : Cardinality(s) <= n => F[s] = Step(F, s)
    BY <1>5
  <2> DEFINE G == [s \in SUBSET S |-> IF Cardinality(s) <= n THEN F[s] ELSE Step(F, s)]
  <2>2. ASSUME NEW s \in SUBSET S, Cardinality(s) <= n + 1 PROVE G[s] = Step(G, s)
    <3>1. G[s] = Step(F, s)
      BY <2>1
    <3>2. CASE s = {}
      BY <3>1, <3>2
    <3>3. CASE s # {}
      <4> DEFINE r == s \ {AnyOf(s)}
      <4>1. r \in SUBSET S /\ Cardinality(r) <= n
        BY <1>1, <1>2, <2>2, <3>3
      <4>2. G[r] = F[r]
        BY <4>1
      <4> QED BY <3>1, <3>3, <4>2
    <3> QED BY <3>2, <3>3
  <2>3. G = [s \in SUBSET S |-> G[s]]
    OBVIOUS
  <2> HIDE DEF G
  <2> QED BY <2>2, <2>3
<1>6. Nat \subseteq N
  <2> HIDE DEF P
  <2>1. 0 \in N /\ \A n \in Nat : n \in N => n + 1 \in N
    BY <1>4, <1>5
  <2> HIDE DEF N
  <2> QED BY <2>1, Induction
<1>7. P(Cardinality(S))
  <2>1. Cardinality(S) \in N
    BY <1>1, <1>6
  <2> QED BY <2>1
<1>8. PICK F : /\ F = [s \in SUBSET S |-> F[s]]
               /\ \A s \in SUBSET S : Cardinality(s) <= Cardinality(S) => F[s] = Step(F, s)
  BY <1>7
<1>9. \A s \in SUBSET S : F[s] = Step(F, s)
  BY <1>1, <1>8
<1>10. F = [s \in SUBSET S |-> Step(F, s)]
  BY <1>8, <1>9
<1> QED BY <1>10 DEF IsIterated

\* What it says of a set does not depend on the set it was defined for.
LEMMA IteratedUnique ==
    ASSUME NEW f, NEW S, IsFiniteSet(S), NEW T \in SUBSET S, NEW F, NEW G,
           IsIterated(F, f, S), IsIterated(G, f, T)
    PROVE  F[T] = G[T]
<1> DEFINE H == {s \in SUBSET T : F[s] = G[s]}
<1>1. ASSUME NEW s \in SUBSET T, \A t \in SUBSET s : t # s => t \in H PROVE s \in H
  <2>1. F[s] = IF s = {} THEN 0 ELSE f[AnyOf(s)] + F[s \ {AnyOf(s)}]
    BY DEF IsIterated
  <2>2. G[s] = IF s = {} THEN 0 ELSE f[AnyOf(s)] + G[s \ {AnyOf(s)}]
    BY DEF IsIterated
  <2>3. s # {} => F[s \ {AnyOf(s)}] = G[s \ {AnyOf(s)}]
    <3> HAVE s # {}
    <3>1. AnyOf(s) \in s
      BY DEF AnyOf
    <3>2. s \ {AnyOf(s)} \in SUBSET s /\ s \ {AnyOf(s)} # s
      BY <3>1
    <3> QED BY <3>2, <1>1
  <2> QED BY <2>1, <2>2, <2>3
<1>2. IsFiniteSet(T)
  BY FS_Subset
<1>3. SUBSET T \subseteq H
  <2> HIDE DEF H
  <2> QED BY <1>1, <1>2, SubsetInduction
<1> QED BY <1>3

-----------------------------------------------------------------------------
(* The sum of f over S. *)

LEMMA SumEmpty ==
    ASSUME NEW f
    PROVE  SumFunctionOnSet(f, {}) = 0
<1>1. PICK F : IsIterated(F, f, {})
  BY IteratedExists, FS_EmptySet
<1> DEFINE C == CHOOSE G : IsIterated(G, f, {})
<1>2. IsIterated(C, f, {})
  BY <1>1, Zenon
<1>3. SumFunctionOnSet(f, {}) = C[{}]
  BY SumIsIterated
<1> HIDE DEF C
<1>4. C[{}] = 0
  BY <1>2 DEF IsIterated
<1> QED BY <1>3, <1>4

LEMMA SumStep ==
    ASSUME NEW f, NEW S, IsFiniteSet(S), S # {}
    PROVE  SumFunctionOnSet(f, S) = f[AnyOf(S)] + SumFunctionOnSet(f, S \ {AnyOf(S)})
<1> DEFINE T == S \ {AnyOf(S)}
           C(R) == CHOOSE G : IsIterated(G, f, R)
<1>1. IsFiniteSet(T) /\ T \in SUBSET S
  BY FS_Subset
<1>2. IsIterated(C(S), f, S)
  BY IteratedExists, Zenon
<1>3. IsIterated(C(T), f, T)
  BY <1>1, IteratedExists, Zenon
<1>4. SumFunctionOnSet(f, S) = C(S)[S] /\ SumFunctionOnSet(f, T) = C(T)[T]
  BY SumIsIterated
<1> HIDE DEF C
<1>5. C(S)[T] = C(T)[T]
  BY <1>1, <1>2, <1>3, IteratedUnique
<1>6. C(S)[S] = f[AnyOf(S)] + C(S)[T]
  BY <1>2 DEF IsIterated
<1> QED BY <1>4, <1>5, <1>6

\* A sum of integers is an integer, one of natural numbers is a natural number.
LEMMA SumType ==
    ASSUME NEW f, NEW S, IsFiniteSet(S), \A x \in S : f[x] \in Int
    PROVE  /\ SumFunctionOnSet(f, S) \in Int
           /\ (\A x \in S : f[x] >= 0) => SumFunctionOnSet(f, S) >= 0
<1> DEFINE H == {s \in SUBSET S : /\ SumFunctionOnSet(f, s) \in Int
                                  /\ (\A x \in s : f[x] >= 0) => SumFunctionOnSet(f, s) >= 0}
<1>1. ASSUME NEW s \in SUBSET S, \A t \in SUBSET s : t # s => t \in H PROVE s \in H
  <2>1. CASE s = {}
    BY <2>1, SumEmpty
  <2>2. CASE s # {}
    <3> DEFINE c == AnyOf(s)
               r == s \ {c}
    <3>1. c \in s /\ IsFiniteSet(s)
      BY <2>2, FS_Subset DEF AnyOf
    <3>2. r \in H /\ f[c] \in Int
      BY <3>1, <1>1
    <3>3. SumFunctionOnSet(f, s) = f[c] + SumFunctionOnSet(f, r)
      BY <2>2, <3>1, SumStep
    <3> HIDE DEF c
    <3> QED BY <3>1, <3>2, <3>3
  <2> QED BY <2>1, <2>2
<1>2. SUBSET S \subseteq H
  <2> HIDE DEF H
  <2> QED BY <1>1, SubsetInduction
<1> QED BY <1>2

\* A sum depends on the values that are summed only.
LEMMA SumCong ==
    ASSUME NEW f, NEW g, NEW S, IsFiniteSet(S), \A x \in S : f[x] = g[x]
    PROVE  SumFunctionOnSet(f, S) = SumFunctionOnSet(g, S)
<1> DEFINE H == {s \in SUBSET S : SumFunctionOnSet(f, s) = SumFunctionOnSet(g, s)}
<1>1. ASSUME NEW s \in SUBSET S, \A t \in SUBSET s : t # s => t \in H PROVE s \in H
  <2>1. CASE s = {}
    BY <2>1, SumEmpty
  <2>2. CASE s # {}
    <3> DEFINE c == AnyOf(s)
               r == s \ {c}
    <3>1. c \in s /\ IsFiniteSet(s)
      BY <2>2, FS_Subset DEF AnyOf
    <3>2. r \in H /\ f[c] = g[c]
      BY <3>1, <1>1
    <3>3. /\ SumFunctionOnSet(f, s) = f[c] + SumFunctionOnSet(f, r)
          /\ SumFunctionOnSet(g, s) = g[c] + SumFunctionOnSet(g, r)
      BY <2>2, <3>1, SumStep
    <3> HIDE DEF c
    <3> QED BY <3>1, <3>2, <3>3
  <2> QED BY <2>1, <2>2
<1>2. SUBSET S \subseteq H
  <2> HIDE DEF H
  <2> QED BY <1>1, SubsetInduction
<1> QED BY <1>2

\* Any element can be taken out of a sum: the order of the elements does not matter.
LEMMA SumRemove ==
    ASSUME NEW f, NEW S, IsFiniteSet(S), \A x \in S : f[x] \in Int, NEW x \in S
    PROVE  SumFunctionOnSet(f, S) = f[x] + SumFunctionOnSet(f, S \ {x})
<1> DEFINE P(s, y) == SumFunctionOnSet(f, s) = f[y] + SumFunctionOnSet(f, s \ {y})
           H == {s \in SUBSET S : \A y \in s : P(s, y)}
<1>1. ASSUME NEW s \in SUBSET S, \A t \in SUBSET s : t # s => t \in H PROVE s \in H
  <2> SUFFICES ASSUME NEW y \in s PROVE P(s, y)
    OBVIOUS
  <2> DEFINE c == AnyOf(s)
             rest == s \ {c, y}
  <2>1. c \in s
    BY DEF AnyOf
  <2> HIDE DEF c
  <2>2. \A t \in SUBSET s : IsFiniteSet(t) /\ SumFunctionOnSet(f, t) \in Int
    <3> TAKE t \in SUBSET s
    <3>1. IsFiniteSet(t) /\ \A z \in t : f[z] \in Int
      BY FS_Subset
    <3> QED BY <3>1, SumType
  <2>3. P(s, c)
    <3>1. IsFiniteSet(s) /\ s # {}
      BY <2>2
    <3> QED BY <3>1, SumStep DEF c
  <2>4. CASE y = c
    BY <2>3, <2>4
  <2>5. CASE y # c
    <3>1. s \ {c} \in H /\ s \ {y} \in H
      BY <1>1, <2>1
    <3>2. P(s \ {c}, y) /\ P(s \ {y}, c)
      BY <3>1, <2>1, <2>5
    <3>3. (s \ {c}) \ {y} = rest /\ (s \ {y}) \ {c} = rest
      OBVIOUS
    <3>4. f[y] \in Int /\ f[c] \in Int /\ SumFunctionOnSet(f, rest) \in Int
      BY <2>1, <2>2
    <3> DEFINE r == SumFunctionOnSet(f, rest)
    <3>5. /\ SumFunctionOnSet(f, s) = f[c] + (f[y] + r)
          /\ SumFunctionOnSet(f, s \ {y}) = f[c] + r
      BY <2>3, <3>2, <3>3
    <3> HIDE DEF rest, r
    <3>6. f[c] + (f[y] + r) = f[y] + (f[c] + r)
      BY <3>4 DEF r
    <3> QED BY <3>5, <3>6
  <2> QED BY <2>4, <2>5
<1>2. SUBSET S \subseteq H
  <2> HIDE DEF H
  <2> QED BY <1>1, SubsetInduction
<1> QED BY <1>2

\* One more element.
LEMMA SumAdd ==
    ASSUME NEW f, NEW S, IsFiniteSet(S), NEW x, x \notin S, \A y \in S \cup {x} : f[y] \in Int
    PROVE  SumFunctionOnSet(f, S \cup {x}) = f[x] + SumFunctionOnSet(f, S)
<1>1. IsFiniteSet(S \cup {x}) /\ (S \cup {x}) \ {x} = S
  BY FS_AddElement
<1> QED BY <1>1, SumRemove

\* The sums of two functions.
LEMMA SumPlus ==
    ASSUME NEW f, NEW g, NEW h, NEW S, IsFiniteSet(S),
           \A x \in S : f[x] \in Int /\ g[x] \in Int /\ h[x] = f[x] + g[x]
    PROVE  SumFunctionOnSet(h, S) = SumFunctionOnSet(f, S) + SumFunctionOnSet(g, S)
<1> DEFINE H == {s \in SUBSET S :
                    SumFunctionOnSet(h, s) = SumFunctionOnSet(f, s) + SumFunctionOnSet(g, s)}
<1>1. ASSUME NEW s \in SUBSET S, \A t \in SUBSET s : t # s => t \in H PROVE s \in H
  <2>1. CASE s = {}
    BY <2>1, SumEmpty
  <2>2. CASE s # {}
    <3> DEFINE c == AnyOf(s)
               r == s \ {c}
    <3>1. c \in s /\ IsFiniteSet(s)
      BY <2>2, FS_Subset DEF AnyOf
    <3>2. IsFiniteSet(r) /\ r \in SUBSET S
      BY <3>1, FS_Subset
    <3>3. r \in H /\ f[c] \in Int /\ g[c] \in Int /\ h[c] = f[c] + g[c]
      BY <3>1, <1>1
    <3>4. /\ SumFunctionOnSet(f, s) = f[c] + SumFunctionOnSet(f, r)
          /\ SumFunctionOnSet(g, s) = g[c] + SumFunctionOnSet(g, r)
          /\ SumFunctionOnSet(h, s) = h[c] + SumFunctionOnSet(h, r)
      BY <2>2, <3>1, SumStep
    <3>5. SumFunctionOnSet(f, r) \in Int /\ SumFunctionOnSet(g, r) \in Int
      BY <3>2, SumType
    <3> HIDE DEF c
    <3> QED BY <3>1, <3>3, <3>4, <3>5
  <2> QED BY <2>1, <2>2
<1>2. SUBSET S \subseteq H
  <2> HIDE DEF H
  <2> QED BY <1>1, SubsetInduction
<1> QED BY <1>2

\* The values of one element differ.
LEMMA SumUpdate ==
    ASSUME NEW f, NEW g, NEW S, IsFiniteSet(S), NEW x \in S,
           \A y \in S : f[y] \in Int /\ g[y] \in Int /\ (y # x => g[y] = f[y])
    PROVE  SumFunctionOnSet(g, S) = SumFunctionOnSet(f, S) + g[x] - f[x]
<1> DEFINE T == S \ {x}
<1>1. IsFiniteSet(T)
  BY FS_Subset
<1>2. SumFunctionOnSet(f, S) = f[x] + SumFunctionOnSet(f, T)
  BY SumRemove
<1>5. SumFunctionOnSet(g, S) = g[x] + SumFunctionOnSet(g, T)
  BY SumRemove
<1>3. SumFunctionOnSet(f, T) = SumFunctionOnSet(g, T)
  BY <1>1, SumCong
<1>4. SumFunctionOnSet(f, T) \in Int
  BY <1>1, SumType
<1> QED BY <1>2, <1>3, <1>4, <1>5

\* Elements whose value is 0 do not count.
LEMMA SumOfZeros ==
    ASSUME NEW f, NEW S, IsFiniteSet(S), \A x \in S : f[x] = 0
    PROVE  SumFunctionOnSet(f, S) = 0
<1> DEFINE a == SumFunctionOnSet(f, S)
<1>1. a = a + a
  BY SumPlus
<1>2. a \in Int
  BY SumType
<1> HIDE DEF a
<1>3. a = 0
  BY <1>1, <1>2
<1> QED BY <1>3 DEF a

\* The sum over two sets that have nothing in common.
LEMMA SumUnion ==
    ASSUME NEW f, NEW S, IsFiniteSet(S), NEW T, IsFiniteSet(T), S \cap T = {},
           \A x \in S \cup T : f[x] \in Int
    PROVE  SumFunctionOnSet(f, S \cup T) = SumFunctionOnSet(f, S) + SumFunctionOnSet(f, T)
<1> DEFINE H == {t \in SUBSET T :
                    SumFunctionOnSet(f, S \cup t) = SumFunctionOnSet(f, S) + SumFunctionOnSet(f, t)}
<1>1. ASSUME NEW s \in SUBSET T, \A t \in SUBSET s : t # s => t \in H PROVE s \in H
  <2>1. SumFunctionOnSet(f, S) \in Int
    BY SumType
  <2>2. CASE s = {}
    <3>1. S \cup s = S
      BY <2>2
    <3> QED BY <2>1, <2>2, <3>1, SumEmpty
  <2>3. CASE s # {}
    <3> DEFINE c == AnyOf(s)
               r == s \ {c}
    <3>1. c \in s /\ IsFiniteSet(s)
      BY <2>3, FS_Subset DEF AnyOf
    <3> HIDE DEF c
    <3>2. IsFiniteSet(r) /\ r \in SUBSET T
      BY <3>1, FS_Subset
    <3>3. r \in H /\ f[c] \in Int
      BY <3>1, <1>1
    <3>4. IsFiniteSet(S \cup r) /\ c \notin S \cup r /\ S \cup s = (S \cup r) \cup {c}
          /\ c \notin r /\ s = r \cup {c}
      BY <3>1, <3>2, FS_Union
    <3> HIDE DEF r
    <3>5. SumFunctionOnSet(f, S \cup s) = f[c] + SumFunctionOnSet(f, S \cup r)
      <4>1. \A y \in (S \cup r) \cup {c} : f[y] \in Int
        BY <3>1, <3>2
      <4> QED BY <3>4, <4>1, SumAdd
    <3>6. SumFunctionOnSet(f, s) = f[c] + SumFunctionOnSet(f, r)
      <4>1. \A y \in r \cup {c} : f[y] \in Int
        BY <3>1, <3>2
      <4> QED BY <3>2, <3>4, <4>1, SumAdd
    <3>7. SumFunctionOnSet(f, r) \in Int
      BY <3>2, SumType
    <3> QED BY <2>1, <3>3, <3>5, <3>6, <3>7
  <2> QED BY <2>2, <2>3
<1>2. SUBSET T \subseteq H
  <2> HIDE DEF H
  <2> QED BY <1>1, SubsetInduction
<1> QED BY <1>2

\* The rest of a set adds nothing less than 0.
LEMMA SumSubset ==
    ASSUME NEW f, NEW S, IsFiniteSet(S), NEW T \in SUBSET S,
           \A x \in S : f[x] \in Int /\ f[x] >= 0
    PROVE  SumFunctionOnSet(f, T) <= SumFunctionOnSet(f, S)
<1> DEFINE R == S \ T
<1>1. IsFiniteSet(T) /\ IsFiniteSet(R) /\ T \cap R = {} /\ S = T \cup R
  BY FS_Subset
<1> HIDE DEF R
<1>2. /\ SumFunctionOnSet(f, T) \in Int
      /\ SumFunctionOnSet(f, R) \in Int /\ SumFunctionOnSet(f, R) >= 0
  BY <1>1, SumType
<1>3. SumFunctionOnSet(f, S) = SumFunctionOnSet(f, T) + SumFunctionOnSet(f, R)
  BY <1>1, SumUnion
<1> QED BY <1>2, <1>3

LEMMA SumExtend ==
    ASSUME NEW f, NEW g, NEW S, IsFiniteSet(S), NEW T \in SUBSET S,
           \A x \in S : g[x] \in Int, \A x \in T : g[x] = f[x], \A x \in S \ T : g[x] = 0
    PROVE  SumFunctionOnSet(g, S) = SumFunctionOnSet(f, T)
<1> DEFINE R == S \ T
<1>1. IsFiniteSet(T) /\ IsFiniteSet(R) /\ T \cap R = {} /\ S = T \cup R
  BY FS_Subset
<1>2. SumFunctionOnSet(g, R) = 0
  BY <1>1, SumOfZeros
<1> HIDE DEF R
<1>3. SumFunctionOnSet(g, T) = SumFunctionOnSet(f, T)
  BY <1>1, SumCong
<1>4. SumFunctionOnSet(g, T) \in Int
  BY <1>1, SumType
<1>5. SumFunctionOnSet(g, S) = SumFunctionOnSet(g, T) + SumFunctionOnSet(g, R)
  BY <1>1, SumUnion
<1> QED BY <1>2, <1>3, <1>4, <1>5

\* The members of S by what d says of them: the sums of the groups.
Group(S, d, w) == {x \in S : d[x] = w}

LEMMA SumGroups ==
    ASSUME NEW f, NEW d, NEW g, NEW S, IsFiniteSet(S), \A x \in S : f[x] \in Int,
           NEW W, IsFiniteSet(W), \A w \in W : g[w] = SumFunctionOnSet(f, Group(S, d, w))
    PROVE  SumFunctionOnSet(g, W) = SumFunctionOnSet(f, {x \in S : d[x] \in W})
<1> DEFINE U(V) == {x \in S : d[x] \in V}
           H == {V \in SUBSET W : SumFunctionOnSet(g, V) = SumFunctionOnSet(f, U(V))}
<1>1. ASSUME NEW s \in SUBSET W, \A t \in SUBSET s : t # s => t \in H PROVE s \in H
  <2>1. CASE s = {}
    <3>1. U(s) = {}
      BY <2>1
    <3> QED BY <2>1, <3>1, SumEmpty
  <2>2. CASE s # {}
    <3> DEFINE c == AnyOf(s)
               r == s \ {c}
               G == Group(S, d, c)
    <3>1. c \in s /\ IsFiniteSet(s)
      BY <2>2, FS_Subset DEF AnyOf
    <3>2. r \in H
      BY <3>1, <1>1
    <3>3. SumFunctionOnSet(g, s) = g[c] + SumFunctionOnSet(g, r)
      BY <2>2, <3>1, SumStep
    <3> HIDE DEF c
    <3>4. G \cap U(r) = {} /\ U(s) = G \cup U(r) /\ G \subseteq S /\ U(r) \subseteq S
      BY <3>1 DEF Group
    <3>5. IsFiniteSet(G) /\ IsFiniteSet(U(r)) /\ \A x \in G \cup U(r) : f[x] \in Int
      <4> HIDE DEF G, U
      <4> QED BY <3>4, FS_Subset
    <3>6. g[c] = SumFunctionOnSet(f, G)
      BY <3>1
    <3>7. SumFunctionOnSet(f, U(s)) = SumFunctionOnSet(f, G) + SumFunctionOnSet(f, U(r))
      <4> DEFINE A == U(r)
      <4> HIDE DEF G, U
      <4>1. G \cap A = {} /\ IsFiniteSet(G) /\ IsFiniteSet(A) /\ \A x \in G \cup A : f[x] \in Int
        BY <3>4, <3>5
      <4> HIDE DEF A
      <4>2. SumFunctionOnSet(f, G \cup A) = SumFunctionOnSet(f, G) + SumFunctionOnSet(f, A)
        BY <4>1, SumUnion
      <4> QED BY <3>4, <4>2 DEF A
    <3> QED BY <3>2, <3>3, <3>6, <3>7
  <2> QED BY <2>1, <2>2
<1>2. SUBSET W \subseteq H
  <2> HIDE DEF H
  <2> QED BY <1>1, SubsetInduction
<1> QED BY <1>2

LEMMA Distribute ==
    ASSUME NEW x \in Nat, NEW y \in Nat, NEW z \in Nat
    PROVE  (x + y) * z = x * z + y * z /\ z * (x + y) = z * x + z * y
OBVIOUS

\* Shares of d in proportion to g, rounded down, are no more than that together.
LEMMA SumScaled ==
    ASSUME NEW f, NEW g, NEW S, IsFiniteSet(S), NEW t \in Nat, NEW d \in Nat,
           \A x \in S : f[x] \in Nat /\ g[x] \in Nat /\ f[x] * t <= d * g[x]
    PROVE  /\ SumFunctionOnSet(f, S) \in Nat /\ SumFunctionOnSet(g, S) \in Nat
           /\ SumFunctionOnSet(f, S) * t <= d * SumFunctionOnSet(g, S)
<1> DEFINE P(s) == /\ SumFunctionOnSet(f, s) \in Nat /\ SumFunctionOnSet(g, s) \in Nat
                   /\ SumFunctionOnSet(f, s) * t <= d * SumFunctionOnSet(g, s)
           H == {s \in SUBSET S : P(s)}
<1>1. ASSUME NEW s \in SUBSET S, \A r \in SUBSET s : r # s => r \in H PROVE s \in H
  <2>1. CASE s = {}
    <3>1. SumFunctionOnSet(f, s) = 0 /\ SumFunctionOnSet(g, s) = 0
      BY <2>1, SumEmpty
    <3> QED BY <3>1
  <2>2. CASE s # {}
    <3> DEFINE c == AnyOf(s)
               r == s \ {c}
               F == SumFunctionOnSet(f, r)
               G == SumFunctionOnSet(g, r)
    <3>1. c \in s /\ IsFiniteSet(s)
      BY <2>2, FS_Subset DEF AnyOf
    <3>2. F \in Nat /\ G \in Nat /\ F * t <= d * G
      BY <3>1, <1>1
    <3>3. SumFunctionOnSet(f, s) = f[c] + F /\ SumFunctionOnSet(g, s) = g[c] + G
      BY <2>2, <3>1, SumStep
    <3> HIDE DEF c, F, G
    <3>4. f[c] \in Nat /\ g[c] \in Nat /\ f[c] * t <= d * g[c]
      BY <3>1
    <3> DEFINE a == f[c]
               b == g[c]
    <3>5. (a + F) * t = a * t + F * t /\ d * (b + G) = d * b + d * G
      <4> HIDE DEF a, b
      <4> QED BY <3>2, <3>4, Distribute DEF a, b
    <3>6. a * t \in Nat /\ F * t \in Nat /\ d * b \in Nat /\ d * G \in Nat
      <4> HIDE DEF a, b
      <4> QED BY <3>2, <3>4, ProductType DEF a, b
    <3>7. (a + F) * t <= d * (b + G)
      BY <3>2, <3>4, <3>5, <3>6
    <3> QED BY <3>2, <3>3, <3>4, <3>7
  <2> QED BY <2>1, <2>2
<1>2. SUBSET S \subseteq H
  <2> HIDE DEF H
  <2> QED BY <1>1, SubsetInduction
<1> QED BY <1>2

\* A finite set of numbers that is not empty has a highest.
LEMMA MaxExists ==
    ASSUME NEW S, IsFiniteSet(S), S \subseteq Int, S # {}
    PROVE  Max(S) \in S /\ \A x \in S : Max(S) >= x
<1> DEFINE Top(s, m) == m \in s /\ \A x \in s : m >= x
           H == {s \in SUBSET S : s = {} \/ \E m \in s : Top(s, m)}
<1>1. ASSUME NEW s \in SUBSET S, \A t \in SUBSET s : t # s => t \in H PROVE s \in H
  <2>1. SUFFICES ASSUME s # {} PROVE \E m \in s : Top(s, m)
    OBVIOUS
  <2>2. PICK c \in s : TRUE
    BY <2>1
  <2> DEFINE r == s \ {c}
  <2>3. r \in H
    BY <1>1, <2>2
  <2>4. CASE r = {}
    <3>1. Top(s, c)
      BY <2>2, <2>4
    <3> QED BY <2>2, <3>1
  <2>5. CASE r # {}
    <3>1. PICK m \in r : Top(r, m)
      BY <2>3, <2>5
    <3>2. m \in Int /\ c \in Int /\ s \subseteq Int
      OBVIOUS
    <3>3. CASE m >= c
      <4>1. Top(s, m)
        BY <3>1, <3>3
      <4> QED BY <4>1
    <3>4. CASE ~ (m >= c)
      <4>1. Top(s, c)
        BY <3>1, <3>2, <3>4
      <4> QED BY <4>1
    <3> QED BY <3>3, <3>4
  <2> QED BY <2>4, <2>5
<1>2. SUBSET S \subseteq H
  <2> HIDE DEF H
  <2> QED BY <1>1, SubsetInduction
<1>3. PICK m \in S : \A x \in S : m >= x
  BY <1>2
<1>4. Max(S) = m
  BY <1>3, MaxOf
<1> QED BY <1>3, <1>4
=============================================================================
