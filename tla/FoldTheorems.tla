---------------------------- MODULE FoldTheorems ----------------------------
(***************************************************************************)
(* Invariants of a fold over a sequence, for any step: what holds of the   *)
(* base and is kept by a step holds of the result.  Step has a context,    *)
(* which the fold leaves as it is, and Inv is told how many elements were  *)
(* taken.  A module that proves something about a fold instantiates this   *)
(* one with its own step and invariant, as the provers cannot instantiate  *)
(* a theorem with an operator as its parameter.                            *)
(***************************************************************************)
EXTENDS Integers, SequencesExt, WellFoundedInduction, TLAPS

CONSTANTS
  Step(_, _, _),   \* context, accumulator, element
  Inv(_, _, _)     \* context, number of elements taken, accumulator

Fold(c, base, seq) == FoldLeft(LAMBDA a, x : Step(c, a, x), base, seq)

(* What MapThenFoldSet computes for every set of indexes up to n           *)
Folded(c, base, seq, n, it) ==
  it = [s \in SUBSET (1 .. n) |->
          IF s = {} THEN base ELSE Step(c, it[s \ {Max(s)}], seq[Max(s)])]

(* The least number a set of numbers has                                   *)
LEMMA LeastNumber ==
  ASSUME NEW S, S \subseteq Nat, S # {}
  PROVE  \E n \in S : \A m \in S : n <= m
<1>1. PICK n \in S : \A m \in S : ~(<<m, n>> \in OpToRel(<, Nat))
  BY NatLessThanWellFounded, WFMin
<1>2. ASSUME NEW m \in S PROVE n <= m
  <2>1. <<m, n>> \in OpToRel(<, Nat) <=> m < n
    BY Zenon DEF OpToRel
  <2>2. ~(m < n) /\ m \in Nat /\ n \in Nat
    BY <1>1, <2>1
  <2> QED BY <2>2
<1> QED BY <1>1, <1>2

(* The greatest of a set of indexes that has the last one                  *)
LEMMA MaxIsLast ==
  ASSUME NEW n \in Nat, NEW s \in SUBSET (1 .. n + 1), n + 1 \in s
  PROVE  Max(s) = n + 1 /\ s \ {Max(s)} \in SUBSET (1 .. n)
<1>1. \A y \in s : n + 1 >= y
  BY SMT
<1>2. Max(s) \in s /\ \A y \in s : Max(s) >= y
  BY <1>1 DEF Max
<1>3. Max(s) >= n + 1 /\ Max(s) \in 1 .. n + 1
  BY <1>2
<1>4. Max(s) = n + 1
  BY <1>3, SMT
<1> QED BY <1>4, SMT

(* One of those that has not, and is not empty                             *)
LEMMA MaxWithin ==
  ASSUME NEW n \in Nat, NEW s \in SUBSET (1 .. n), s # {}
  PROVE  Max(s) \in s /\ s \ {Max(s)} \in SUBSET (1 .. n)
<1>1. DEFINE B == {b \in Nat : \A x \in s : x <= b}
<1>2. n \in B
  BY SMT
<1>3. PICK b \in B : \A a \in B : b <= a
  BY <1>2, LeastNumber, Zenon
<1>4. b \in s
  <2>1. SUFFICES ASSUME b \notin s PROVE FALSE
    OBVIOUS
  <2>2. PICK x \in s : TRUE
    OBVIOUS
  <2>3. \A y \in s : y \in Nat /\ y <= b /\ y # b
    BY <1>3, <2>1
  <2>4. b - 1 \in Nat /\ \A y \in s : y <= b - 1
    BY <1>3, <2>2, <2>3
  <2>5. b - 1 \in B
    BY <2>4
  <2> QED BY <1>3, <2>5
<1>5. \A y \in s : b >= y
  BY <1>3
<1> HIDE DEF B
<1>6. Max(s) \in s
  BY <1>4, <1>5, Zenon DEF Max
<1> QED BY <1>6

(* There is such a function, for any number of elements.                   *)
LEMMA FoldedExists ==
  ASSUME NEW c, NEW base, NEW seq, NEW n \in Nat
  PROVE  \E it : Folded(c, base, seq, n, it)
<1> DEFINE Bad == {k \in Nat : ~ \E it : Folded(c, base, seq, k, it)}
<1>1. SUFFICES ASSUME Bad # {} PROVE FALSE
  OBVIOUS
<1>2. PICK k \in Bad : \A m \in Bad : k <= m
  BY <1>1, LeastNumber, Zenon
<1>3. CASE k = 0
  <2> DEFINE it == [s \in SUBSET (1 .. 0) |-> base]
  <2>1. \A s \in SUBSET (1 .. 0) : s = {}
    BY SMT
  <2>2. [s \in SUBSET (1 .. 0) |-> IF s = {} THEN base ELSE Step(c, it[s \ {Max(s)}], seq[Max(s)])]
           = [s \in SUBSET (1 .. 0) |-> base]
    BY <2>1, Zenon
  <2>3. Folded(c, base, seq, 0, it)
    BY <2>2, Zenon DEF Folded
  <2> QED BY <1>2, <1>3, <2>3
<1>4. CASE k # 0
  <2>1. k - 1 \in Nat /\ k - 1 \notin Bad
    BY <1>2, <1>4, SMT
  <2>2. PICK j \in Nat : j = k - 1
    BY <2>1
  <2>3. j + 1 = k
    BY <1>2, <2>2
  <2>4. PICK it : Folded(c, base, seq, j, it)
    BY <2>1, <2>2
  <2> DEFINE new == [s \in SUBSET (1 .. j + 1) |->
                       IF j + 1 \in s THEN Step(c, it[s \ {j + 1}], seq[j + 1]) ELSE it[s]]
  <2>5. ASSUME NEW s \in SUBSET (1 .. j + 1)
        PROVE  new[s] = IF s = {} THEN base ELSE Step(c, new[s \ {Max(s)}], seq[Max(s)])
    <3>1. CASE j + 1 \in s
      <4>1. Max(s) = j + 1 /\ s \ {j + 1} \in SUBSET (1 .. j)
        BY <3>1, MaxIsLast
      <4>2. s \ {j + 1} \in SUBSET (1 .. j + 1) /\ j + 1 \notin s \ {j + 1}
        BY Zenon
      <4>3. new[s \ {j + 1}] = it[s \ {j + 1}]
        BY <4>2, Zenon
      <4>4. new[s] = Step(c, it[s \ {j + 1}], seq[j + 1])
        BY <3>1, Zenon
      <4> QED BY <3>1, <4>1, <4>3, <4>4, Zenon
    <3>2. CASE j + 1 \notin s
      <4>1. s \in SUBSET (1 .. j)
        BY <3>2, SMT
      <4>2. new[s] = it[s]
        BY <3>2, Zenon
      <4>3. it[s] = IF s = {} THEN base ELSE Step(c, it[s \ {Max(s)}], seq[Max(s)])
        BY <2>4, <4>1, Zenon DEF Folded
      <4>4. CASE s # {}
        <5>1. s \ {Max(s)} \in SUBSET (1 .. j + 1) /\ j + 1 \notin s \ {Max(s)}
          BY <3>2, Zenon
        <5>2. new[s \ {Max(s)}] = it[s \ {Max(s)}]
          BY <5>1, Zenon
        <5> QED BY <4>2, <4>3, <4>4, <5>2, Zenon
      <4> QED BY <4>2, <4>3, <4>4, Zenon
    <3> QED BY <3>1, <3>2
  <2>6. new = [s \in SUBSET (1 .. j + 1) |-> new[s]]
    BY Zenon
  <2>7. Folded(c, base, seq, j + 1, new)
    <3> HIDE DEF new
    <3> QED BY <2>5, <2>6, Zenon DEF Folded
  <2> QED BY <1>2, <2>3, <2>7
<1> QED BY <1>3, <1>4

(* A fold is such a function, of all indexes.                              *)
LEMMA FoldIsFolded ==
  ASSUME NEW c, NEW base, NEW seq, NEW n \in Nat, DOMAIN seq = 1 .. n
  PROVE  \E it : /\ Folded(c, base, seq, n, it)
                 /\ Fold(c, base, seq) = it[1 .. n]
<1> DEFINE it == CHOOSE it : it = [s \in SUBSET DOMAIN seq |->
                                     IF s = {} THEN base ELSE Step(c, it[s \ {Max(s)}], seq[Max(s)])]
<1>1. \E f : f = [s \in SUBSET DOMAIN seq |->
                                     IF s = {} THEN base ELSE Step(c, f[s \ {Max(s)}], seq[Max(s)])]
  <2>1. PICK f : Folded(c, base, seq, n, f)
    BY FoldedExists
  <2>2. f = [s \in SUBSET DOMAIN seq |->
                IF s = {} THEN base ELSE Step(c, f[s \ {Max(s)}], seq[Max(s)])]
    BY <2>1, Zenon DEF Folded
  <2> QED BY <2>2, Zenon
<1>2. it = [s \in SUBSET DOMAIN seq |->
                                     IF s = {} THEN base ELSE Step(c, it[s \ {Max(s)}], seq[Max(s)])]
  BY <1>1, Zenon
<1>3. Fold(c, base, seq) = it[DOMAIN seq]
  BY Zenon DEF Fold, FoldLeft, MapThenFoldSet
<1> QED BY <1>2, <1>3, Zenon DEF Folded

(* What holds of the base and is kept by every step holds of the fold.     *)
THEOREM FoldInvariant ==
  ASSUME NEW c, NEW base, NEW seq, NEW n \in Nat, DOMAIN seq = 1 .. n,
         Inv(c, 0, base),
         \A k \in 0 .. n - 1 : \A acc : Inv(c, k, acc) => Inv(c, k + 1, Step(c, acc, seq[k + 1]))
  PROVE  Inv(c, n, Fold(c, base, seq))
<1>1. PICK it : /\ Folded(c, base, seq, n, it)
                /\ Fold(c, base, seq) = it[1 .. n]
  BY FoldIsFolded
<1> DEFINE Bad == {k \in Nat : k <= n /\ ~ Inv(c, k, it[1 .. k])}
<1>2. SUFFICES ASSUME Bad # {} PROVE FALSE
  <2>1. n \notin Bad
    BY <1>2
  <2>2. Inv(c, n, it[1 .. n])
    BY <2>1
  <2> QED BY <1>1, <2>2, Zenon
<1>3. PICK k \in Bad : \A m \in Bad : k <= m
  BY <1>2, LeastNumber, Zenon
<1>4. CASE k = 0
  <2>1. 1 .. 0 = {} /\ {} \in SUBSET (1 .. n)
    BY SMT
  <2>2. it[1 .. 0] = base
    BY <1>1, <2>1, Zenon DEF Folded
  <2>3. Inv(c, 0, it[1 .. 0])
    BY <2>2, Zenon
  <2> QED BY <1>3, <1>4, <2>3
<1>5. CASE k # 0
  <2>1. PICK j \in Nat : j = k - 1
    BY <1>3, <1>5, SMT
  <2>2. j + 1 = k /\ j <= n /\ j \notin Bad /\ j \in 0 .. n - 1
    BY <1>3, <2>1, SMT
  <2>3. Inv(c, j, it[1 .. j])
    BY <2>2
  <2>4. 1 .. j + 1 \in SUBSET (1 .. j + 1) /\ 1 .. j + 1 \in SUBSET (1 .. n) /\ j + 1 \in 1 .. j + 1
    BY <2>2, SMT
  <2>5. Max(1 .. j + 1) = j + 1
    BY <2>4, MaxIsLast
  <2>6. (1 .. j + 1) \ {j + 1} = 1 .. j /\ 1 .. j + 1 # {}
    <3>1. ASSUME NEW x PROVE x \in (1 .. j + 1) \ {j + 1} <=> x \in 1 .. j
      BY SMT
    <3> QED BY <2>4, <3>1, Zenon
  <2>7. it[1 .. j + 1] = Step(c, it[1 .. j], seq[j + 1])
    BY <1>1, <2>4, <2>5, <2>6, Zenon DEF Folded
  <2>8. Inv(c, j + 1, it[1 .. j + 1])
    BY <2>2, <2>3, <2>7, Zenon
  <2> QED BY <1>3, <2>2, <2>8
<1> QED BY <1>4, <1>5
=============================================================================
