------------------------------ MODULE NatSets -------------------------------
(* Facts about sets and sorted lists of numbers that the proofs rest on. *)
EXTENDS Sorting, TLAPS, WellFoundedInduction, SequenceTheorems, FiniteSetTheorems

(* A non-empty set of numbers has a least element: the project a worker    *)
(* fetches, or a goroutine sends, first.                                   *)
LEMMA LeastElement ==
    ASSUME NEW S, S \subseteq Nat, S # {}
    PROVE  \E x \in S : \A y \in S : x <= y
<1> DEFINE Less == OpToRel(<, Nat)
<1>1. IsWellFoundedOn(Less, Nat)
  BY NatLessThanWellFounded
<1>2. PICK x \in S : \A y \in S : ~ (<<y, x>> \in Less)
  <2> HIDE DEF Less
  <2> QED BY <1>1, WFMin
<1>3. ASSUME NEW y \in S
      PROVE  x <= y
  <2>1. x \in Nat /\ y \in Nat
    OBVIOUS
  <2>2. y < x => <<y, x>> \in Less
    BY <2>1 DEF OpToRel
  <2>3. ~ (y < x)
    <3> HIDE DEF Less
    <3> QED BY <1>2, <2>2
  <2> QED
    BY <2>1, <2>3
<1> QED
  BY <1>3

(* A set of numbers with a bound has a greatest element: the last entry of *)
(* a kind in a package.                                                    *)
LEMMA GreatestElement ==
    ASSUME NEW n \in Nat, NEW S, S \subseteq 0..n, S # {}
    PROVE  \E x \in S : \A y \in S : y <= x
<1> DEFINE T == {n - x : x \in S}
<1>1. T \subseteq Nat /\ T # {}
  <2>1. \A x \in S : x \in Nat /\ x <= n
    OBVIOUS
  <2>2. T \subseteq Nat
    BY <2>1
  <2> QED
    BY <2>2
<1>2. PICK t \in T : \A u \in T : t <= u
  <2> HIDE DEF T
  <2> QED
    BY <1>1, LeastElement
<1>3. PICK x \in S : t = n - x
  OBVIOUS
<1>4. ASSUME NEW y \in S
      PROVE  y <= x
  <2>1. n - y \in T
    OBVIOUS
  <2>2. n - x <= n - y
    BY <1>2, <1>3, <2>1
  <2> QED
    BY <2>2
<1> QED
  BY <1>4

(* Induction, for a set.                                                   *)
LEMMA UpInduction ==
    ASSUME NEW S, 0 \in S, \A k \in Nat : k \in S => k + 1 \in S
    PROVE  Nat \subseteq S
<1> DEFINE Bad == {k \in Nat : k \notin S}
<1>1. SUFFICES ASSUME Bad # {}
               PROVE  FALSE
  OBVIOUS
<1>2. PICK k \in Bad : \A l \in Bad : k <= l
  <2>1. Bad \subseteq Nat
    OBVIOUS
  <2> HIDE DEF Bad
  <2> QED
    BY <1>1, <2>1, LeastElement
<1>3. k \in Nat /\ k \notin S /\ k # 0
  OBVIOUS
<1>4. k - 1 \in Nat /\ ~ (k <= k - 1) /\ (k - 1) + 1 = k
  BY <1>3
<1>5. k - 1 \in S
  BY <1>2, <1>4
<1> QED
  BY <1>3, <1>4, <1>5

(* The same from the end of a list to its start.                           *)
LEMMA DownInduction ==
    ASSUME NEW n \in Nat, NEW S,
           \A k \in 1..n : (\A l \in k + 1..n : l \in S) => k \in S
    PROVE  1..n \subseteq S
<1> DEFINE Bad == {k \in 0..n : k \in 1..n /\ k \notin S}
<1>1. SUFFICES ASSUME Bad # {}
               PROVE  FALSE
  OBVIOUS
<1>2. PICK k \in Bad : \A l \in Bad : l <= k
  <2>1. Bad \subseteq 0..n
    OBVIOUS
  <2> HIDE DEF Bad
  <2> QED
    BY <1>1, <2>1, GreatestElement
<1>3. k \in 1..n /\ k \notin S
  OBVIOUS
<1>4. ASSUME NEW l \in k + 1..n
      PROVE  l \in S
  <2>1. l \in 0..n /\ l \in 1..n /\ ~ (l <= k)
    BY <1>3
  <2> QED
    BY <1>2, <2>1
<1> QED
  BY <1>3, <1>4

-----------------------------------------------------------------------------
(* Sorting *)

(* A list has a greatest number. *)
LEMMA LastOfAll ==
    ASSUME NEW n \in Nat \ {0}, NEW s \in [1..n -> Nat]
    PROVE  \E m \in 1..n : \A i \in 1..n : s[i] <= s[m]
<1> DEFINE Bad == {k \in Nat : k \in 1..n /\ ~ \E m \in 1..k : \A i \in 1..k : s[i] <= s[m]}
<1>1. SUFFICES ASSUME Bad # {} PROVE FALSE
  <2>1. n \in Nat /\ n \in 1..n
    OBVIOUS
  <2>2. n \notin Bad
    BY <1>1
  <2> QED
    BY <2>1, <2>2
<1>2. PICK k \in Bad : \A l \in Bad : k <= l
  <2>1. Bad \subseteq Nat
    OBVIOUS
  <2> HIDE DEF Bad
  <2> QED
    BY <1>1, <2>1, LeastElement
<1>3. k \in 1..n /\ ~ \E m \in 1..k : \A i \in 1..k : s[i] <= s[m]
  OBVIOUS
<1>4. k # 1
  <2>1. ASSUME k = 1 PROVE FALSE
    <3>1. \A i \in 1..k : s[i] <= s[1]
      BY <2>1
    <3> QED
      BY <1>3, <2>1, <3>1
  <2> QED
    BY <2>1
<1>5. PICK m \in 1..k - 1 : \A i \in 1..k - 1 : s[i] <= s[m]
  <2>1. k - 1 \in Nat /\ k - 1 \in 1..n /\ ~ (k <= k - 1)
    BY <1>3, <1>4
  <2>2. k - 1 \notin Bad
    BY <1>2, <2>1
  <2> QED
    BY <2>1, <2>2
<1>6. CASE s[k] <= s[m]
  <2>1. m \in 1..k /\ \A i \in 1..k : s[i] <= s[m]
    BY <1>3, <1>5, <1>6
  <2> QED
    BY <1>3, <2>1
<1>7. CASE ~ (s[k] <= s[m])
  <2>1. k \in 1..k /\ s[k] \in Nat /\ s[m] \in Nat
    BY <1>3, <1>5
  <2>2. \A i \in 1..k : s[i] <= s[k]
    BY <1>3, <1>5, <1>7, <2>1
  <2> QED
    BY <1>3, <2>1, <2>2
<1> QED
  BY <1>6, <1>7

(* One list is sorted when the list without its last one can be. *)
LEMMA SortMore ==
    ASSUME NEW n \in Nat \ {0}, NEW s \in [1..n -> Nat],
           \A t \in [1..n - 1 -> Nat] : \E p \in Bijection(1..n - 1, 1..n - 1) : Sorts(p, t)
    PROVE  \E p \in Bijection(1..n, 1..n) : Sorts(p, s)
<1>1. PICK m \in 1..n : \A i \in 1..n : s[i] <= s[m]
  BY LastOfAll
<1> DEFINE t == [i \in 1..n - 1 |-> IF i = m THEN s[n] ELSE s[i]]
<1>2. t \in [1..n - 1 -> Nat]
  OBVIOUS
<1>3. PICK q \in Bijection(1..n - 1, 1..n - 1) : Sorts(q, t)
  <2> HIDE DEF t
  <2> QED
    BY <1>2
<1>4. /\ q \in [1..n - 1 -> 1..n - 1]
      /\ \A i, j \in 1..n - 1 : q[i] = q[j] => i = j
      /\ \A i \in 1..n - 1 : \E j \in 1..n - 1 : q[j] = i
  BY DEF Bijection, Injection, Surjection, IsInjective
<1>0. \A i \in 1..n - 1 : q[i] \in 1..n - 1 /\ i \in 1..n /\ i # n
  <2> HIDE DEF t
  <2>1. \A i \in 1..n - 1 : q[i] \in 1..n - 1
    BY <1>4
  <2>2. \A i \in 1..n - 1 : i \in 1..n /\ i # n
    OBVIOUS
  <2> QED
    BY <2>1, <2>2
<1> DEFINE p == [i \in 1..n |-> IF i = n THEN m ELSE IF q[i] = m THEN n ELSE q[i]]
<1>5. p \in [1..n -> 1..n]
  BY <1>4, SMTT(20)
<1>6. \A i, j \in 1..n : p[i] = p[j] => i = j
  <2> SUFFICES ASSUME NEW i \in 1..n, NEW j \in 1..n, i # j
               PROVE  p[i] # p[j]
    OBVIOUS
  <2>1. \A k \in 1..n - 1 : q[k] \in 1..n - 1 /\ p[k] = IF q[k] = m THEN n ELSE q[k]
    BY <1>0
  <2>2. p[n] = m
    OBVIOUS
  <2>3. i \in 1..n - 1 \/ i = n
    OBVIOUS
  <2>4. j \in 1..n - 1 \/ j = n
    OBVIOUS
  <2> HIDE DEF p, t
  <2>5. CASE i = n
    <3>1. p[i] = m /\ j \in 1..n - 1
      BY <2>2, <2>4, <2>5
    <3>2. q[j] \in 1..n - 1 /\ p[j] = IF q[j] = m THEN n ELSE q[j]
      BY <2>1, <3>1
    <3> QED
      BY <3>1, <3>2
  <2>6. CASE j = n
    BY <2>1, <2>2, <2>3, <2>6
  <2>7. CASE i # n /\ j # n
    <3>1. q[i] # q[j]
      BY <1>4, <2>3, <2>4, <2>7
    <3> QED
      BY <2>1, <2>3, <2>4, <2>7, <3>1, SMTT(20)
  <2> QED
    BY <2>5, <2>6, <2>7
<1>7. \A i \in 1..n : \E j \in 1..n : p[j] = i
  <2> SUFFICES ASSUME NEW i \in 1..n
               PROVE  \E j \in 1..n : p[j] = i
    OBVIOUS
  <2>1. CASE i = m
    <3>1. n \in 1..n /\ p[n] = i
      BY <2>1
    <3> QED
      BY <3>1
  <2>2. CASE i # m /\ i = n
    <3>1. m \in 1..n - 1
      BY <2>2
    <3>2. PICK j \in 1..n - 1 : q[j] = m
      BY <1>4, <3>1
    <3>3. j \in 1..n /\ p[j] = i
      BY <2>2, <3>2
    <3> QED
      BY <3>3
  <2>3. CASE i # m /\ i # n
    <3>1. i \in 1..n - 1
      BY <2>3
    <3>2. PICK j \in 1..n - 1 : q[j] = i
      BY <1>4, <3>1
    <3>3. j \in 1..n /\ p[j] = i
      BY <2>3, <3>2
    <3> QED
      BY <3>3
  <2> QED
    BY <2>1, <2>2, <2>3
<1>8. p \in Bijection(1..n, 1..n)
  <2> HIDE DEF p
  <2> QED
    <3>1. DOMAIN p = 1..n
      BY <1>5
    <3>2. p \in Injection(1..n, 1..n)
      BY <1>5, <1>6, <3>1 DEF Injection, IsInjective
    <3>3. p \in Surjection(1..n, 1..n)
      BY <1>5, <1>7 DEF Surjection
    <3> QED
      BY <3>2, <3>3 DEF Bijection
<1>9. ASSUME NEW i \in 1..n - 1
      PROVE  s[p[i]] = t[q[i]]
  <2>1. q[i] \in 1..n - 1 /\ i \in 1..n /\ i # n
    BY <1>0
  <2>2. p[i] = IF q[i] = m THEN n ELSE q[i]
    BY <2>1
  <2>3. t[q[i]] = IF q[i] = m THEN s[n] ELSE s[q[i]]
    BY <2>1
  <2> QED
    BY <2>2, <2>3
<1>10. Sorts(p, s)
  <2> SUFFICES ASSUME NEW i \in 1..n, NEW j \in 1..n, i < j
               PROVE  s[p[i]] <= s[p[j]]
    BY DEF Sorts
  <2>1. CASE j = n
    <3>1. p[j] = m /\ p[i] \in 1..n
      BY <1>5, <2>1
    <3> QED
      BY <1>1, <3>1
  <2>2. CASE j # n
    <3>1. i \in 1..n - 1 /\ j \in 1..n - 1
      BY <2>2
    <3>2. t[q[i]] <= t[q[j]]
      <4> HIDE DEF p
      <4> QED
        BY <1>2, <1>3, <3>1 DEF Sorts
    <3> QED
      BY <1>9, <3>1, <3>2
  <2> QED
    BY <2>1, <2>2
<1> QED
  BY <1>8, <1>10

(* Every list can be sorted. *)
LEMMA SortExists ==
    ASSUME NEW s \in Seq(Nat)
    PROVE  \E p \in Bijection(DOMAIN s, DOMAIN s) : Sorts(p, s)
<1> DEFINE Can(n) == \A t \in [1..n -> Nat] : \E p \in Bijection(1..n, 1..n) : Sorts(p, t)
           Bad == {n \in Nat : ~Can(n)}
<1>1. Can(0)
  <2> SUFFICES ASSUME NEW t \in [1..0 -> Nat]
               PROVE  \E p \in Bijection(1..0, 1..0) : Sorts(p, t)
    OBVIOUS
  <2>1. 1..0 = {}
    OBVIOUS
  <2> DEFINE p == [i \in 1..0 |-> i]
  <2>2. p \in Bijection(1..0, 1..0)
    BY <2>1 DEF Bijection, Injection, Surjection, IsInjective
  <2>3. Sorts(p, t)
    BY <2>1 DEF Sorts
  <2> QED
    BY <2>2, <2>3
<1>2. ASSUME NEW n \in Nat \ {0}, Can(n - 1)
      PROVE  Can(n)
  BY <1>2, SortMore
<1> HIDE DEF Can
<1>3. Bad = {}
  <2> SUFFICES ASSUME Bad # {}
               PROVE  FALSE
    OBVIOUS
  <2>1. PICK k \in Bad : \A l \in Bad : k <= l
    <3>1. Bad \subseteq Nat
      OBVIOUS
    <3> HIDE DEF Bad
    <3> QED
      BY <3>1, LeastElement
  <2>2. k \in Nat /\ ~Can(k) /\ k # 0
    BY <1>1
  <2>3. k - 1 \in Nat /\ ~ (k <= k - 1)
    BY <2>2
  <2>4. Can(k - 1)
    BY <2>1, <2>3
  <2> QED
    BY <1>2, <2>2, <2>4
<1>4. Can(Len(s))
  BY <1>3
<1> QED
  BY <1>4 DEF Can

(* Sorting moves the lines of a list. *)
LEMMA SortedMoves ==
    ASSUME NEW s \in Seq(Nat)
    PROVE  \E p \in Bijection(DOMAIN s, DOMAIN s) :
              Sorts(p, s) /\ Sorted(s) = [i \in DOMAIN s |-> s[p[i]]]
<1> DEFINE p == CHOOSE p \in Bijection(DOMAIN s, DOMAIN s) : Sorts(p, s)
<1>1. p \in Bijection(DOMAIN s, DOMAIN s) /\ Sorts(p, s)
  BY SortExists
<1> HIDE DEF p
<1>2. Sorted(s) = [i \in DOMAIN s |-> s[p[i]]]
  BY DEF Sorted, p
<1> QED
  BY <1>1, <1>2

(* It loses and adds none. *)
LEMMA SortedFacts ==
    ASSUME NEW s \in Seq(Nat)
    PROVE  Sorted(s) \in Seq(Nat) /\ ToSet(Sorted(s)) = ToSet(s) /\ Len(Sorted(s)) = Len(s)
<1>1. PICK p \in Bijection(DOMAIN s, DOMAIN s) : Sorted(s) = [i \in DOMAIN s |-> s[p[i]]]
  BY SortedMoves
<1>2. /\ p \in [DOMAIN s -> DOMAIN s]
      /\ \A i \in DOMAIN s : \E j \in DOMAIN s : p[j] = i
  BY <1>1 DEF Bijection, Surjection
<1>3. Sorted(s) = [i \in DOMAIN s |-> s[p[i]]]
  BY <1>1
<1>4. DOMAIN s = 1..Len(s)
  OBVIOUS
<1>5. Sorted(s) \in Seq(Nat) /\ DOMAIN Sorted(s) = DOMAIN s
  <2>1. \A i \in DOMAIN s : s[p[i]] \in Nat
    <3>1. \A i \in DOMAIN s : s[i] \in Nat
      OBVIOUS
    <3>2. \A i \in DOMAIN s : p[i] \in DOMAIN s
      BY <1>2
    <3> QED
      BY <3>1, <3>2
  <2>2. Sorted(s) \in [1..Len(s) -> Nat] /\ Len(s) \in Nat
    BY <1>3, <1>4, <2>1
  <2> QED
    BY <1>3, <2>2, SeqDef
<1>6. Len(Sorted(s)) = Len(s)
  BY <1>4, <1>5
<1>7. ToSet(Sorted(s)) = ToSet(s)
  BY <1>2, <1>3, SMTT(20) DEF ToSet
<1> QED
  BY <1>5, <1>6, <1>7

(* The sequence of a set has its elements. *)
LEMMA SetToSeqFacts ==
    ASSUME NEW S, S \subseteq Nat, IsFiniteSet(S)
    PROVE  SetToSeq(S) \in Seq(Nat) /\ ToSet(SetToSeq(S)) = S /\ IsInjective(SetToSeq(S))
<1> DEFINE c == Cardinality(S)
           f == CHOOSE f \in [1..c -> S] : IsInjective(f)
<1>1. c \in Nat /\ ExistsBijection(1..c, S)
  BY FS_CardinalityType
<1>2. f \in [1..c -> S] /\ IsInjective(f)
  <2>1. \E g \in [1..c -> S] : IsInjective(g)
    BY <1>1 DEF ExistsBijection, Bijection, Injection
  <2> QED
    BY <2>1
<1>3. f \in Surjection(1..c, S)
  <2>1. IsFiniteSet(1..c) /\ Cardinality(1..c) = c
    BY <1>1, FS_Interval
  <2> HIDE DEF f, c
  <2>2. f \in Injection(1..c, S)
    BY <1>2 DEF Injection
  <2> QED
    BY <2>1, <2>2, FS_Injection DEF c
<1>4. SetToSeq(S) = f
  BY DEF SetToSeq
<1> HIDE DEF f, c
<1>5. f \in [1..c -> Nat] /\ c \in Nat
  BY <1>1, <1>2
<1>6. f \in Seq(Nat)
  BY <1>5, SeqDef
<1>7. ToSet(f) = S
  BY <1>2, <1>3 DEF Surjection, ToSet
<1> QED
  BY <1>2, <1>4, <1>6, <1>7

(* A sorted list with no line twice is a list with no line twice. *)
LEMMA SortedInjective ==
    ASSUME NEW s \in Seq(Nat), IsInjective(s)
    PROVE  IsInjective(Sorted(s))
<1>1. PICK p \in Bijection(DOMAIN s, DOMAIN s) : Sorted(s) = [i \in DOMAIN s |-> s[p[i]]]
  BY SortedMoves
<1>2. /\ p \in [DOMAIN s -> DOMAIN s]
      /\ \A i, j \in DOMAIN s : p[i] = p[j] => i = j
  BY <1>1 DEF Bijection, Injection, IsInjective
<1>3. \A i, j \in DOMAIN s : s[i] = s[j] => i = j
  BY DEF IsInjective
<1>4. DOMAIN Sorted(s) = DOMAIN s /\ \A i \in DOMAIN s : Sorted(s)[i] = s[p[i]]
  BY <1>1
<1>5. \A i, j \in DOMAIN Sorted(s) : Sorted(s)[i] = Sorted(s)[j] => i = j
  BY <1>2, <1>3, <1>4
<1> QED
  BY <1>5 DEF IsInjective

(* The sorted list of a set has each of its elements once. *)
LEMMA SortedSeqFacts ==
    ASSUME NEW S, S \subseteq Nat, IsFiniteSet(S)
    PROVE  SortedSeq(S) \in Seq(Nat) /\ ToSet(SortedSeq(S)) = S /\ IsInjective(SortedSeq(S))
<1>1. SetToSeq(S) \in Seq(Nat) /\ ToSet(SetToSeq(S)) = S /\ IsInjective(SetToSeq(S))
  BY SetToSeqFacts
<1> QED
  BY <1>1, SortedFacts, SortedInjective DEF SortedSeq
=============================================================================
