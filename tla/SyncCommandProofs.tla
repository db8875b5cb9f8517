------------------------- MODULE SyncCommandProofs --------------------------
(***************************************************************************)
(* For any number of syncs, paths and manifests: no worktree gets lost     *)
(* from project.list, the list is replaced as a whole, and a sync that     *)
(* succeeds leaves exactly the projects of its manifest.  What merging the *)
(* lists computes is proved too, by a least counterexample in place of     *)
(* induction.                                                              *)
(***************************************************************************)
EXTENDS SyncCommand, NatSets

-----------------------------------------------------------------------------
(* Merging: findObsoletePaths *)

(* One round of the merge: what is obsolete from a place on, given what is *)
(* from the later places on.                                               *)
Round(o, n, from, i, j) ==
    IF i > Len(o) THEN <<>>
    ELSE IF j > Len(n) THEN SubSeq(o, i, Len(o))
    ELSE IF o[i] < n[j] THEN <<o[i]>> \o from[<<i + 1, j>>]
    ELSE IF o[i] > n[j] THEN from[<<i, j + 1>>]
    ELSE from[<<i + 1, j + 1>>]

Places(o, n) == (1..Len(o) + 1) \X (1..Len(n) + 1)

Merges(f, o, n) == f = [at \in Places(o, n) |-> Round(o, n, f, at[1], at[2])]

(* The merge ends: there is a function with these rounds. *)
LEMMA MergeExists ==
    ASSUME NEW o \in Seq(Nat), NEW n \in Seq(Nat)
    PROVE  \E f : Merges(f, o, n)
<1> DEFINE D == Places(o, n)
           top == Len(o) + Len(n) + 2
           Late(k) == {at \in D : at[1] + at[2] > top - k}
           Has(k) == \E f : f = [at \in Late(k) |-> Round(o, n, f, at[1], at[2])]
           Bad == {k \in Nat : ~Has(k)}
<1>0. Len(o) \in Nat /\ Len(n) \in Nat /\ top \in Nat
  OBVIOUS
<1>a. \A at \in D : at[1] \in 1..Len(o) + 1 /\ at[2] \in 1..Len(n) + 1 /\ at = <<at[1], at[2]>>
  BY DEF Places
<1>b. \A i, j \in Nat : <<i, j>> \in D <=> i \in 1..Len(o) + 1 /\ j \in 1..Len(n) + 1
  BY DEF Places
<1> HIDE DEF D, top
<1>1. Has(0)
  <2>1. Late(0) = {}
    BY <1>0, <1>a DEF top
  <2> DEFINE f == [at \in Late(0) |-> <<>>]
  <2>2. f = [at \in Late(0) |-> Round(o, n, f, at[1], at[2])]
    BY <2>1
  <2> QED
    BY <2>2
<1>2. ASSUME NEW k \in Nat, Has(k)
      PROVE  Has(k + 1)
  <2>1. PICK f : f = [at \in Late(k) |-> Round(o, n, f, at[1], at[2])]
    BY <1>2
  <2> DEFINE g == [at \in Late(k + 1) |-> Round(o, n, f, at[1], at[2])]
  <2>2. Late(k) \subseteq Late(k + 1)
    BY <1>0, <1>a
  <2>3. \A at \in Late(k) : g[at] = f[at]
    BY <2>1, <2>2
  <2>4. ASSUME NEW at \in Late(k + 1)
        PROVE  Round(o, n, f, at[1], at[2]) = Round(o, n, g, at[1], at[2])
    <3> DEFINE i == at[1]
               j == at[2]
    <3>1. i \in 1..Len(o) + 1 /\ j \in 1..Len(n) + 1 /\ i + j > top - (k + 1)
      BY <1>a
    <3> HIDE DEF i, j
    <3>2. CASE i > Len(o) \/ j > Len(n)
      BY <3>2 DEF Round, i, j
    <3>3. CASE ~ (i > Len(o)) /\ ~ (j > Len(n))
      <4>1. <<i + 1, j>> \in D /\ <<i, j + 1>> \in D /\ <<i + 1, j + 1>> \in D
        BY <1>0, <1>b, <3>1, <3>3, SMTT(20)
      <4>2. <<i + 1, j>> \in Late(k) /\ <<i, j + 1>> \in Late(k) /\ <<i + 1, j + 1>> \in Late(k)
        BY <1>0, <3>1, <4>1
      <4> HIDE DEF g, Late
      <4>3. /\ g[<<i + 1, j>>] = f[<<i + 1, j>>]
            /\ g[<<i, j + 1>>] = f[<<i, j + 1>>]
            /\ g[<<i + 1, j + 1>>] = f[<<i + 1, j + 1>>]
        BY <2>3, <4>2
      <4> QED
        BY <4>3 DEF Round, i, j
    <3> QED
      BY <3>2, <3>3
  <2>5. g = [at \in Late(k + 1) |-> Round(o, n, g, at[1], at[2])]
    <3>1. g = [at \in Late(k + 1) |-> Round(o, n, f, at[1], at[2])]
      OBVIOUS
    <3> HIDE DEF g, Late
    <3> QED
      BY <2>4, <3>1
  <2> QED
    BY <2>5
<1>3. Has(top)
  <2> HIDE DEF Has
  <2>1. Bad = {}
    <3> SUFFICES ASSUME Bad # {}
                 PROVE  FALSE
      OBVIOUS
    <3>1. PICK k \in Bad : \A l \in Bad : k <= l
      <4>1. Bad \subseteq Nat
        OBVIOUS
      <4> HIDE DEF Bad
      <4> QED
        BY <4>1, LeastElement
    <3>2. k \in Nat /\ ~Has(k) /\ k # 0
      BY <1>1
    <3>3. k - 1 \in Nat /\ ~ (k <= k - 1) /\ (k - 1) + 1 = k
      BY <3>2
    <3>4. Has(k - 1)
      BY <3>1, <3>3
    <3>5. Has((k - 1) + 1)
      BY <1>2, <3>3, <3>4
    <3> QED
      BY <3>2, <3>3, <3>5
  <2> QED
    BY <1>0, <2>1
<1>4. Late(top) = D
  BY <1>0, <1>a
<1> QED
  BY <1>3, <1>4 DEF D, Merges

(* The lines of the old list from a place on are in the new one or in the result, *)
(* which has nothing but lines of the old one.                                     *)
Covers(o, n, i, r) ==
    /\ r \in Seq(Nat) /\ ToSet(r) \subseteq ToSet(o)
    /\ \A x \in i..Len(o) : o[x] \in ToSet(n) \cup ToSet(r)

(* A line put before a list. *)
LEMMA InFront ==
    ASSUME NEW a \in Nat, NEW g \in Seq(Nat)
    PROVE  <<a>> \o g \in Seq(Nat) /\ ToSet(<<a>> \o g) = {a} \cup ToSet(g)
<1>1. <<a>> \in Seq(Nat) /\ Len(<<a>>) = 1 /\ <<a>>[1] = a
  OBVIOUS
<1>2. PICK h : h = <<a>> \o g
  OBVIOUS
<1>3. h \in Seq(Nat) /\ Len(h) = 1 + Len(g) /\ h[1] = a /\ \A x \in 1..Len(g) : h[x + 1] = g[x]
  BY <1>1, <1>2, ConcatProperties
<1>4. DOMAIN h = 1..Len(g) + 1 /\ DOMAIN g = 1..Len(g) /\ Len(g) \in Nat
  BY <1>3
<1>5. ASSUME NEW x \in DOMAIN h
      PROVE  h[x] \in {a} \cup ToSet(g)
  <2>1. CASE x = 1
    BY <1>3, <2>1
  <2>2. CASE x # 1
    <3>1. x - 1 \in 1..Len(g) /\ h[(x - 1) + 1] = g[x - 1] /\ (x - 1) + 1 = x
      BY <1>3, <1>4, <2>2
    <3> QED
      BY <1>4, <3>1 DEF ToSet
  <2> QED
    BY <2>1, <2>2
<1>6. ASSUME NEW x \in DOMAIN g
      PROVE  g[x] \in ToSet(h)
  <2>1. x + 1 \in DOMAIN h /\ h[x + 1] = g[x]
    BY <1>3, <1>4
  <2> QED
    BY <2>1 DEF ToSet
<1>7. a \in ToSet(h)
  BY <1>3, <1>4 DEF ToSet
<1>8. ToSet(h) = {a} \cup ToSet(g)
  BY <1>5, <1>6, <1>7 DEF ToSet
<1> QED
  BY <1>2, <1>3, <1>8

(* A round of the merge covers what the next one does, and the line it is at. *)
LEMMA CoversEnd ==
    ASSUME NEW o \in Seq(Nat), NEW n \in Seq(Nat), NEW i \in Nat, i > Len(o)
    PROVE  Covers(o, n, i, <<>>)
<1>1. i..Len(o) = {} /\ <<>> \in Seq(Nat)
  OBVIOUS
<1>2. ToSet(<<>>) = {}
  BY DEF ToSet
<1> QED
  BY <1>1, <1>2 DEF Covers

LEMMA CoversRest ==
    ASSUME NEW o \in Seq(Nat), NEW n \in Seq(Nat), NEW i \in 1..Len(o)
    PROVE  Covers(o, n, i, SubSeq(o, i, Len(o)))
<1>1. PICK r : r = SubSeq(o, i, Len(o))
  OBVIOUS
<1>2. Len(o) \in Nat /\ DOMAIN o = 1..Len(o)
  OBVIOUS
<1>0. i \in Int /\ i <= Len(o) /\ \A x \in i..Len(o) : o[x] \in Nat
  BY <1>2
<1>3. /\ r \in Seq(Nat) /\ Len(r) = Len(o) - i + 1
      /\ \A x \in 1..Len(o) - i + 1 : r[x] = o[i + x - 1]
  BY <1>0, <1>1, <1>2, SubSeqProperties
<1>4. DOMAIN r = 1..Len(o) - i + 1
  BY <1>3
<1>5. ASSUME NEW x \in DOMAIN r
      PROVE  r[x] \in ToSet(o)
  <2>0. x \in 1..Len(o) - i + 1
    BY <1>4
  <2>1. r[x] = o[i + x - 1]
    BY <1>3, <2>0
  <2>2. i + x - 1 \in 1..Len(o)
    BY <1>2, <2>0
  <2> QED
    BY <1>2, <2>1, <2>2 DEF ToSet
<1>6. ASSUME NEW x \in i..Len(o)
      PROVE  o[x] \in ToSet(r)
  <2>1. x - i + 1 \in 1..Len(o) - i + 1 /\ i + (x - i + 1) - 1 = x
    BY <1>2
  <2>2. r[x - i + 1] = o[x]
    BY <1>3, <2>1
  <2> QED
    BY <1>4, <2>1, <2>2 DEF ToSet
<1> QED
  BY <1>1, <1>3, <1>5, <1>6 DEF Covers, ToSet

LEMMA CoversMore ==
    ASSUME NEW o \in Seq(Nat), NEW n \in Seq(Nat), NEW i \in 1..Len(o), NEW r,
           Covers(o, n, i + 1, r)
    PROVE  /\ o[i] \in ToSet(n) => Covers(o, n, i, r)
           /\ Covers(o, n, i, <<o[i]>> \o r)
<1>1. Len(o) \in Nat /\ o[i] \in Nat /\ o[i] \in ToSet(o)
  BY DEF ToSet
<1>2. \A x \in i..Len(o) : x = i \/ x \in i + 1..Len(o)
  BY <1>1
<1>3. r \in Seq(Nat) /\ ToSet(r) \subseteq ToSet(o)
      /\ \A x \in i + 1..Len(o) : o[x] \in ToSet(n) \cup ToSet(r)
  BY DEF Covers
<1>4. PICK h : h = <<o[i]>> \o r
  OBVIOUS
<1>5. h \in Seq(Nat) /\ ToSet(h) = {o[i]} \cup ToSet(r)
  BY <1>1, <1>3, <1>4, InFront
<1>6. Covers(o, n, i, h)
  BY <1>1, <1>2, <1>3, <1>5 DEF Covers
<1>7. o[i] \in ToSet(n) => Covers(o, n, i, r)
  BY <1>2, <1>3 DEF Covers
<1> QED
  BY <1>4, <1>6, <1>7

(* Nothing of the old list is lost: it is in the new one, or obsolete. *)
LEMMA MergeFacts ==
    ASSUME NEW o \in Seq(Nat), NEW n \in Seq(Nat), NEW f, Merges(f, o, n)
    PROVE  Covers(o, n, 1, f[<<1, 1>>])
<1> DEFINE top == Len(o) + Len(n) + 2
           In(i, j) == i \in 1..Len(o) + 1 /\ j \in 1..Len(n) + 1
           Good(i, j) == Covers(o, n, i, f[<<i, j>>])
           Bad == {b \in Nat : \E i, j \in Nat : In(i, j) /\ b = top - (i + j) /\ ~Good(i, j)}
<1>0. Len(o) \in Nat /\ Len(n) \in Nat /\ top \in Nat
  OBVIOUS
<1>1. \A i, j \in Nat : In(i, j) => f[<<i, j>>] = Round(o, n, f, i, j)
  <2> SUFFICES ASSUME NEW i \in Nat, NEW j \in Nat, In(i, j)
               PROVE  f[<<i, j>>] = Round(o, n, f, i, j)
    OBVIOUS
  <2>1. <<i, j>> \in Places(o, n)
    BY DEF Places
  <2>2. \A at \in Places(o, n) : f[at] = Round(o, n, f, at[1], at[2])
    BY DEF Merges
  <2> QED
    BY <2>1, <2>2
<1>2. ASSUME NEW i \in Nat, NEW j \in Nat, In(i, j),
             \A k, l \in Nat : In(k, l) /\ k + l > i + j => Good(k, l)
      PROVE  Good(i, j)
  <2> DEFINE r == f[<<i, j>>]
  <2>0. r = Round(o, n, f, i, j)
    BY <1>1, <1>2
  <2>1. CASE i > Len(o)
    <3>1. r = <<>>
      BY <2>0, <2>1 DEF Round
    <3> QED
      BY <2>1, <3>1, CoversEnd
  <2>2. CASE ~ (i > Len(o)) /\ j > Len(n)
    <3>1. r = SubSeq(o, i, Len(o))
      BY <2>0, <2>2 DEF Round
    <3>2. i \in 1..Len(o)
      BY <1>0, <1>2, <2>2
    <3> QED
      BY <3>1, <3>2, CoversRest
  <2>3. CASE ~ (i > Len(o)) /\ ~ (j > Len(n))
    <3>1. i \in 1..Len(o) /\ j \in 1..Len(n)
      BY <1>0, <1>2, <2>3
    <3>2. In(i + 1, j) /\ In(i, j + 1) /\ In(i + 1, j + 1)
      BY <1>0, <3>1
    <3>3. o[i] \in Nat /\ n[j] \in Nat /\ n[j] \in ToSet(n)
      BY <3>1 DEF ToSet
    <3> HIDE DEF Good, In
    <3>4. Good(i + 1, j) /\ Good(i, j + 1) /\ Good(i + 1, j + 1)
      BY <1>2, <3>2
    <3>5. CASE o[i] < n[j]
      <4>1. r = <<o[i]>> \o f[<<i + 1, j>>]
        BY <2>0, <2>3, <3>5 DEF Round
      <4> QED
        BY <3>1, <3>4, <4>1, CoversMore DEF Good
    <3>6. CASE ~ (o[i] < n[j]) /\ o[i] > n[j]
      <4>1. r = f[<<i, j + 1>>]
        BY <2>0, <2>3, <3>6 DEF Round
      <4> QED
        BY <3>4, <4>1 DEF Good
    <3>7. CASE ~ (o[i] < n[j]) /\ ~ (o[i] > n[j])
      <4>1. r = f[<<i + 1, j + 1>>]
        BY <2>0, <2>3, <3>7 DEF Round
      <4>2. o[i] = n[j]
        BY <3>3, <3>7
      <4> QED
        BY <3>1, <3>3, <3>4, <4>1, <4>2, CoversMore DEF Good
    <3> QED
      BY <3>5, <3>6, <3>7
  <2> QED
    BY <2>1, <2>2, <2>3
<1>3. Bad = {}
  <2> SUFFICES ASSUME Bad # {}
               PROVE  FALSE
    OBVIOUS
  <2>1. PICK b \in Bad : \A c \in Bad : b <= c
    <3>1. Bad \subseteq Nat
      OBVIOUS
    <3> HIDE DEF Bad
    <3> QED
      BY <3>1, LeastElement
  <2> HIDE DEF Good
  <2>2. PICK i, j \in Nat : In(i, j) /\ b = top - (i + j) /\ ~Good(i, j)
    OBVIOUS
  <2>3. ASSUME NEW k \in Nat, NEW l \in Nat, In(k, l), k + l > i + j
        PROVE  Good(k, l)
    <3>0. k \in 1..Len(o) + 1 /\ l \in 1..Len(n) + 1 /\ b = top - (i + j)
      BY <2>2, <2>3
    <3>1. top - (k + l) \in Nat /\ ~ (b <= top - (k + l))
      BY <1>0, <2>3, <3>0, SMTT(20)
    <3>2. top - (k + l) \notin Bad
      BY <2>1, <3>1
    <3> QED
      BY <2>3, <3>1, <3>2
  <2> HIDE DEF In
  <2> QED
    BY <1>2, <2>2, <2>3
<1> QED
  <2>1. In(1, 1) /\ top - (1 + 1) \in Nat
    BY <1>0
  <2> HIDE DEF Good, In, top
  <2>2. Good(1, 1)
    BY <1>3, <2>1
  <2> QED
    BY <2>2 DEF Good

(* What is not in the new list is obsolete, and nothing else is. *)
LEMMA ObsoleteFacts ==
    ASSUME NEW old \in Seq(Nat), NEW new \in Seq(Nat)
    PROVE  LET r == findObsoletePaths(old, new)
           IN  /\ r \in Seq(Nat) /\ ToSet(r) \subseteq ToSet(old)
               /\ ToSet(old) \subseteq ToSet(new) \cup ToSet(r)
<1>1. PICK o, n : o = Sorted(old) /\ n = Sorted(new)
  OBVIOUS
<1>2. o \in Seq(Nat) /\ n \in Seq(Nat) /\ ToSet(o) = ToSet(old) /\ ToSet(n) = ToSet(new)
  BY <1>1, SortedFacts
<1> DEFINE f == CHOOSE f : Merges(f, o, n)
<1>3. Merges(f, o, n)
  BY <1>2, MergeExists
<1>4. findObsoletePaths(old, new) = f[<<1, 1>>]
  BY <1>1 DEF findObsoletePaths, Merges, Round, Places
<1> HIDE DEF f
<1>6. Covers(o, n, 1, f[<<1, 1>>])
  BY <1>2, <1>3, MergeFacts
<1>7. DOMAIN o = 1..Len(o)
  BY <1>2
<1>8. PICK r : r = f[<<1, 1>>]
  OBVIOUS
<1>9. r \in Seq(Nat) /\ ToSet(r) \subseteq ToSet(o) /\ ToSet(o) \subseteq ToSet(n) \cup ToSet(r)
  BY <1>6, <1>7, <1>8 DEF Covers, ToSet
<1> QED
  BY <1>2, <1>4, <1>8, <1>9

-----------------------------------------------------------------------------
(* Lists of paths *)

(* A list of paths is a list of numbers that are paths. *)
LEMMA OnlyPaths ==
    ASSUME NEW t \in Seq(Nat), ToSet(t) \subseteq Paths
    PROVE  t \in Seq(Paths)
<1>1. \A i \in 1..Len(t) : t[i] \in Paths
  BY DEF ToSet
<1>2. t \in [1..Len(t) -> Paths] /\ Len(t) \in Nat
  BY <1>1
<1> QED
  BY <1>2, SeqDef

(* The paths of a manifest in order: all of them and no others. *)
LEMMA NewFacts ==
    ASSUME NEW S, S \subseteq Paths
    PROVE  SortedSeq(S) \in Seq(Paths) /\ ToSet(SortedSeq(S)) = S
<1>1. S \subseteq Nat /\ IsFiniteSet(S)
  BY SyncAssumption, FS_Subset
<1>3. PICK t : t = SortedSeq(S)
  OBVIOUS
<1>4. t \in Seq(Nat) /\ ToSet(t) = S
  BY <1>1, <1>3, SortedSeqFacts
<1>5. t \in Seq(Paths)
  BY <1>4, OnlyPaths
<1> QED
  BY <1>3, <1>4, <1>5

(* Old paths that are not new are obsolete. *)
LEMMA ObsoletePaths ==
    ASSUME NEW old \in Seq(Paths), NEW new \in Seq(Paths)
    PROVE  LET r == findObsoletePaths(old, new)
           IN  r \in Seq(Paths) /\ ToSet(old) \subseteq ToSet(new) \cup ToSet(r)
<1>1. old \in Seq(Nat) /\ new \in Seq(Nat)
  BY SyncAssumption, SeqMonotonic
<1>2. PICK r : r = findObsoletePaths(old, new)
  OBVIOUS
<1>3. r \in Seq(Nat) /\ ToSet(r) \subseteq ToSet(old) /\ ToSet(old) \subseteq ToSet(new) \cup ToSet(r)
  BY <1>1, <1>2, ObsoleteFacts
<1>4. ToSet(old) \subseteq Paths
  BY DEF ToSet
<1>5. r \in Seq(Paths)
  BY <1>3, <1>4, OnlyPaths
<1> QED
  BY <1>2, <1>3, <1>5

(* The first path of a list and the rest. *)
LEMMA HeadTail ==
    ASSUME NEW s \in Seq(Paths), s # <<>>
    PROVE  /\ Head(s) \in Paths /\ Tail(s) \in Seq(Paths)
           /\ ToSet(s) = {Head(s)} \cup ToSet(Tail(s))
<1>1. /\ Head(s) \in Paths /\ Tail(s) \in Seq(Paths) /\ Head(s) = s[1]
      /\ Len(Tail(s)) = Len(s) - 1 /\ Len(s) \in Nat /\ Len(s) # 0
      /\ \A i \in 1..Len(s) - 1 : Tail(s)[i] = s[i + 1]
  BY HeadTailProperties, EmptySeq
<1>2. PICK t : t = Tail(s)
  OBVIOUS
<1>3. DOMAIN s = 1..Len(s) /\ DOMAIN t = 1..Len(s) - 1
  BY <1>1, <1>2
<1>4. ASSUME NEW x \in DOMAIN s
      PROVE  s[x] = s[1] \/ s[x] \in ToSet(t)
  <2>1. CASE x = 1
    BY <2>1
  <2>2. CASE x # 1
    <3>1. x - 1 \in 1..Len(s) - 1 /\ (x - 1) + 1 = x
      BY <1>1, <1>3, <2>2
    <3>2. t[x - 1] = s[x]
      BY <1>1, <1>2, <3>1
    <3> QED
      BY <1>3, <3>1, <3>2 DEF ToSet
  <2> QED
    BY <2>1, <2>2
<1>5. ASSUME NEW x \in DOMAIN t
      PROVE  t[x] \in ToSet(s)
  <2>1. x \in 1..Len(s) - 1 /\ x + 1 \in 1..Len(s)
    BY <1>1, <1>3
  <2>2. t[x] = s[x + 1]
    BY <1>1, <1>2, <2>1
  <2> QED
    BY <1>3, <2>1, <2>2 DEF ToSet
<1>6. s[1] \in ToSet(s)
  BY <1>1, <1>3 DEF ToSet
<1>7. ToSet(s) = {s[1]} \cup ToSet(t)
  BY <1>4, <1>5, <1>6 DEF ToSet
<1> QED
  BY <1>1, <1>2, <1>7

(* A path more. *)
LEMMA AppendSet ==
    ASSUME NEW s \in Seq(Paths), NEW e \in Paths
    PROVE  Append(s, e) \in Seq(Paths) /\ ToSet(Append(s, e)) = ToSet(s) \cup {e}
<1>1. PICK t : t = Append(s, e)
  OBVIOUS
<1>2. /\ t \in Seq(Paths) /\ Len(t) = Len(s) + 1 /\ Len(s) \in Nat
      /\ \A i \in 1..Len(s) : t[i] = s[i]
      /\ t[Len(s) + 1] = e
  BY <1>1, AppendProperties
<1>3. DOMAIN t = 1..Len(s) + 1 /\ DOMAIN s = 1..Len(s)
  BY <1>2
<1>4. ASSUME NEW x \in DOMAIN t
      PROVE  t[x] \in ToSet(s) \cup {e}
  <2>1. x \in 1..Len(s) \/ x = Len(s) + 1
    BY <1>2, <1>3
  <2> QED
    BY <1>2, <1>3, <2>1 DEF ToSet
<1>5. ASSUME NEW x \in DOMAIN s
      PROVE  s[x] \in ToSet(t)
  BY <1>2, <1>3 DEF ToSet
<1>6. e \in ToSet(t)
  BY <1>2, <1>3 DEF ToSet
<1> QED
  BY <1>1, <1>2, <1>4, <1>5, <1>6 DEF ToSet

(* Two lists one after the other. *)
LEMMA ConcatSet ==
    ASSUME NEW s \in Seq(Paths), NEW t \in Seq(Paths)
    PROVE  s \o t \in Seq(Paths) /\ ToSet(s \o t) = ToSet(s) \cup ToSet(t)
<1>1. PICK u : u = s \o t
  OBVIOUS
<1>2. /\ u \in Seq(Paths) /\ Len(u) = Len(s) + Len(t) /\ Len(s) \in Nat /\ Len(t) \in Nat
      /\ \A i \in 1..Len(s) + Len(t) : u[i] = IF i <= Len(s) THEN s[i] ELSE t[i - Len(s)]
  BY <1>1, ConcatProperties
<1>3. DOMAIN u = 1..Len(s) + Len(t) /\ DOMAIN s = 1..Len(s) /\ DOMAIN t = 1..Len(t)
  BY <1>2
<1>4. ASSUME NEW x \in DOMAIN u
      PROVE  u[x] \in ToSet(s) \cup ToSet(t)
  <2>1. CASE x \in 1..Len(s)
    BY <1>2, <1>3, <2>1 DEF ToSet
  <2>2. CASE x \notin 1..Len(s)
    <3>1. x - Len(s) \in 1..Len(t) /\ ~ (x <= Len(s))
      BY <1>2, <1>3, <2>2
    <3>2. u[x] = t[x - Len(s)]
      BY <1>2, <1>3, <3>1
    <3> QED
      BY <1>3, <3>1, <3>2 DEF ToSet
  <2> QED
    BY <2>1, <2>2
<1>5. ASSUME NEW x \in DOMAIN s
      PROVE  s[x] \in ToSet(u)
  BY <1>2, <1>3 DEF ToSet
<1>6. ASSUME NEW x \in DOMAIN t
      PROVE  t[x] \in ToSet(u)
  <2>1. x + Len(s) \in 1..Len(s) + Len(t) /\ ~ (x + Len(s) <= Len(s)) /\ (x + Len(s)) - Len(s) = x
    BY <1>2, <1>3
  <2>2. u[x + Len(s)] = t[x]
    BY <1>2, <2>1
  <2> QED
    BY <1>3, <2>1, <2>2 DEF ToSet
<1>7. ToSet(u) = ToSet(s) \cup ToSet(t)
  BY <1>4, <1>5, <1>6 DEF ToSet
<1> QED
  BY <1>1, <1>2, <1>7

-----------------------------------------------------------------------------
(* Steps of one sync *)

(* A sync that has not begun, or has ended. *)
LEMMA EndedFacts ==
    ASSUME NEW x \in {"none", "ok", "failed"}
    PROVE  /\ Idle \in Process /\ Idle.pc = "idle" /\ Idle.result = "none"
           /\ Ended(x) \in Process /\ Ended(x).pc = "idle" /\ Ended(x).result = x
<1>1. <<>> \in Seq(Paths) /\ {} \in SUBSET Paths
  OBVIOUS
<1>2. Idle \in Process /\ Idle.pc = "idle" /\ Idle.result = "none"
  BY <1>1 DEF Idle, Process, Names
<1> QED
  BY <1>2 DEF Ended, Process

(* What holds of a sync that does nothing. *)
LEMMA RestInv ==
    ASSUME NEW r, r.pc = "idle"
    PROVE  ChoiceInv(r) /\ ListedInv(r)
BY DEF ChoiceInv, ListedInv, Listing, Writing

(* A step of one sync that touches neither project.list, its lock file nor a *)
(* worktree.                                                                 *)
LEMMA LocalStep ==
    ASSUME SyncInv, NEW s \in Syncs, NEW r \in Process, Running(s),
           proc' = [proc EXCEPT ![s] = r], ChoiceInv(r), r.pc \notin Writing,
           r.pc # "idle" => r.groups \in {proc[s].groups, settings.groups},
           ~overlap => ListedInv(r),
           fetched' \in Versions, checkedOut' \in Versions, gitdir' \subseteq Paths,
           UNCHANGED <<server, settings, list, lock, worktree, runs, overlap>>
    PROVE  SyncInv'
<1>1. TypeOK /\ LockInv /\ AloneInv /\ WorktreeListed
      /\ \A t \in Syncs : ChoiceInv(proc[t]) /\ (~overlap => ListedInv(proc[t]))
  BY DEF SyncInv
<1>2. proc'[s] = r /\ \A t \in Syncs : t # s => proc'[t] = proc[t]
  BY <1>1 DEF TypeOK
<1>3. TypeOK'
  BY <1>1 DEF TypeOK
<1>4. LockInv'
  BY <1>1, <1>2 DEF LockInv
<1>5. AloneInv'
  BY <1>1, <1>2 DEF AloneInv, Running
<1>6. WorktreeListed'
  BY <1>1 DEF WorktreeListed
<1>7. ASSUME NEW t \in Syncs
      PROVE  ChoiceInv(proc[t])' /\ (~overlap' => ListedInv(proc[t])')
  <2>1. CASE t = s
    <3>1. ChoiceInv(proc[t])'
      BY <1>2, <2>1 DEF ChoiceInv
    <3>2. ~overlap' => ListedInv(proc[t])'
      BY <1>2, <2>1 DEF ListedInv
    <3> QED
      BY <3>1, <3>2
  <2>2. CASE t # s
    <3>1. ChoiceInv(proc[t])'
      BY <1>1, <1>2, <2>2 DEF ChoiceInv
    <3>2. ~overlap' => ListedInv(proc[t])'
      BY <1>1, <1>2, <2>2 DEF ListedInv
    <3> QED
      BY <3>1, <3>2
  <2> QED
    BY <2>1, <2>2
<1> QED
  BY <1>3, <1>4, <1>5, <1>6, <1>7 DEF SyncInv

(* The sync ends, or is killed, and changes nothing else. *)
LEMMA EndStep ==
    ASSUME SyncInv, NEW s \in Syncs, NEW x \in {"ok", "failed"}, Running(s),
           proc' = [proc EXCEPT ![s] = Ended(x)],
           fetched' \in Versions, checkedOut' \in Versions, gitdir' \subseteq Paths,
           UNCHANGED <<server, settings, list, lock, worktree, runs, overlap>>
    PROVE  SyncInv'
<1>1. PICK r : r = Ended(x)
  OBVIOUS
<1>2. r \in Process /\ r.pc = "idle"
  BY <1>1, EndedFacts
<1>3. ChoiceInv(r) /\ ListedInv(r) /\ r.pc \notin Writing
  BY <1>2, RestInv DEF Writing
<1>4. proc' = [proc EXCEPT ![s] = r]
  BY <1>1
<1> QED
  BY <1>2, <1>3, <1>4, LocalStep

(* The manifest is loaded. *)
LEMMA LoadedFacts ==
    ASSUME TypeOK, NEW q \in Process, q.o \in Options, NEW v \in Versions
    PROVE  LET r == Loaded(q, v)
           IN  /\ r \in Process /\ r.pc = q.pc /\ r.o = q.o /\ r.result = q.result /\ r.version = v
               /\ r.groups = settings.groups /\ r.groups \in GroupSettings
               /\ r.obsolete = q.obsolete /\ r.projects = q.projects
<1> DEFINE m == IF q.o.name # "" /\ HasFile(v, q.o.name) THEN q.o.name ELSE "default"
<1>1. m \in Names
  BY DEF Options, Names
<1>2. settings.groups \in GroupSettings
  BY DEF TypeOK
<1> HIDE DEF m
<1>3. Loaded(q, v) = [q EXCEPT !.version = v, !.groups = settings.groups, !.name = m]
  BY DEF Loaded, m
<1>4. Loaded(q, v) \in Process
  BY <1>1, <1>2, <1>3 DEF Process
<1> QED
  BY <1>2, <1>3, <1>4 DEF Process

-----------------------------------------------------------------------------
(* One lemma for each action *)

LEMMA InitInv == Init => SyncInv
<1> SUFFICES ASSUME Init
             PROVE  SyncInv
  OBVIOUS
<1>1. Idle \in Process /\ Idle.pc = "idle"
  BY EndedFacts
<1>2. \A s \in Syncs : proc[s] = Idle
  BY DEF Init
<1>3. FALSE \in BOOLEAN
  BY Zenon
<1>4. TypeOK
  <2>1. proc \in [Syncs -> Process]
    BY <1>1 DEF Init
  <2>2. lock \in Seq([owner : Syncs, lines : Seq(Paths)]) /\ Len(lock) <= 1 /\ list \in Seq(Paths)
    BY DEF Init
  <2>3. overlap \in BOOLEAN
    BY <1>3 DEF Init
  <2> QED
    BY <2>1, <2>2, <2>3, SyncAssumption DEF Init, TypeOK
<1>5. LockInv /\ AloneInv
  BY <1>1, <1>2 DEF LockInv, AloneInv, Running, Writing
<1>6. WorktreeListed
  BY DEF Init, WorktreeListed
<1>7. \A s \in Syncs : ChoiceInv(proc[s]) /\ (~overlap => ListedInv(proc[s]))
  BY <1>1, <1>2, RestInv
<1> QED
  BY <1>4, <1>5, <1>6, <1>7 DEF SyncInv

(* The command begins: unless it overlaps another one, it is the only one. *)
LEMMA BeginInv ==
    ASSUME SyncInv, NEW s \in Syncs, NEW o \in OptionSet, Begin(s, o)
    PROVE  SyncInv'
<1>1. TypeOK /\ LockInv /\ AloneInv /\ WorktreeListed
      /\ \A t \in Syncs : ChoiceInv(proc[t]) /\ (~overlap => ListedInv(proc[t]))
  BY DEF SyncInv
<1>2. PICK r : r = IF o.smart THEN Ended("failed")
                   ELSE Loaded([Idle EXCEPT !.pc = "manifest", !.o = o], checkedOut)
  OBVIOUS
<1>3. /\ r \in Process /\ r.pc \in {"idle", "manifest"}
      /\ r.pc # "idle" => /\ r.o \in Options /\ r.result = "none" /\ r.version \in Versions
                          /\ r.groups \in GroupSettings /\ r.groups = settings.groups
  <2>1. CASE o.smart
    BY <1>2, <2>1, EndedFacts
  <2>2. CASE ~o.smart
    <3>1. PICK q : q = [Idle EXCEPT !.pc = "manifest", !.o = o]
      OBVIOUS
    <3>2. o \in Options /\ checkedOut \in Versions
      BY <1>1, SyncAssumption DEF TypeOK
    <3>3. q \in Process /\ q.pc = "manifest" /\ q.o = o /\ q.result = "none"
      BY <3>1, <3>2, EndedFacts DEF Process
    <3>4. r = Loaded(q, checkedOut)
      BY <1>2, <2>2, <3>1
    <3> QED
      BY <1>1, <3>2, <3>3, <3>4, LoadedFacts
  <2> QED
    BY <2>1, <2>2
<1>4. proc' = [proc EXCEPT ![s] = r]
  BY <1>2 DEF Begin
<1>5. UNCHANGED disk /\ runs' = runs + 1 /\ ~Running(s)
      /\ overlap' = (overlap \/ \E t \in Syncs \ {s} : Running(t))
  BY DEF Begin
<1>6. proc'[s] = r /\ \A t \in Syncs : t # s => proc'[t] = proc[t]
  BY <1>1, <1>4 DEF TypeOK
<1>7. ~overlap' => ~overlap /\ \A t \in Syncs : t # s => proc[t].pc = "idle"
  BY <1>5 DEF Running
<1>8. TypeOK'
  <2>1. overlap' \in BOOLEAN
    BY <1>1, <1>5 DEF TypeOK
  <2> QED
    BY <1>1, <1>3, <1>4, <1>5, <2>1 DEF TypeOK, disk
<1>9. LockInv'
  BY <1>1, <1>3, <1>5, <1>6 DEF LockInv, disk, Writing
<1>10. AloneInv'
  BY <1>3, <1>5, <1>6, <1>7 DEF AloneInv, Running, disk
<1>11. WorktreeListed'
  BY <1>1, <1>5, <1>7 DEF WorktreeListed, disk
<1>12. ASSUME NEW t \in Syncs
       PROVE  ChoiceInv(proc[t])' /\ (~overlap' => ListedInv(proc[t])')
  <2>1. CASE t = s
    BY <1>3, <1>6, <2>1 DEF ChoiceInv, ListedInv, Listing, Writing
  <2>2. CASE t # s
    <3>1. ChoiceInv(proc[t])'
      BY <1>1, <1>6, <2>2 DEF ChoiceInv
    <3>2. ~overlap' => ListedInv(proc[t])'
      BY <1>5, <1>6, <1>7, <2>2 DEF ListedInv, Listing, Writing
    <3> QED
      BY <3>1, <3>2
  <2> QED
    BY <2>1, <2>2
<1> QED
  BY <1>8, <1>9, <1>10, <1>11, <1>12 DEF SyncInv

(* The manifest: a new one is loaded again. *)
LEMMA UpdateInv ==
    ASSUME SyncInv, NEW s \in Syncs, updateManifestProject(s)
    PROVE  SyncInv'
<1>1. TypeOK /\ proc[s] \in Process /\ proc[s].pc = "manifest" /\ Running(s) /\ ChoiceInv(proc[s])
  BY DEF SyncInv, TypeOK, updateManifestProject, Running
<1>2. proc[s].o \in Options /\ proc[s].version \in Versions /\ proc[s].groups \in GroupSettings
      /\ proc[s].result = "none"
  BY <1>1 DEF ChoiceInv
<1>3. PICK new : new = IF proc[s].o.localOnly THEN fetched ELSE server
  OBVIOUS
<1>4. new \in Versions /\ fetched \in Versions /\ checkedOut \in Versions /\ gitdir \subseteq Paths
  BY <1>1, <1>3 DEF TypeOK
<1>5. UNCHANGED <<server, settings, list, lock, worktree, gitdir, runs, overlap>>
  BY DEF updateManifestProject
<1>6. \/ fetched' \in {fetched, new} /\ checkedOut' = checkedOut
         /\ proc' = [proc EXCEPT ![s] = Ended("failed")]
      \/ fetched' = new /\ checkedOut' = checkedOut
         /\ proc' = [proc EXCEPT ![s].pc = "select"]
      \/ fetched' = new /\ checkedOut' = new
         /\ proc' = [proc EXCEPT ![s] = Loaded([proc[s] EXCEPT !.pc = "select"], new)]
  BY <1>3 DEF updateManifestProject
<1>7. CASE fetched' \in {fetched, new} /\ checkedOut' = checkedOut
           /\ proc' = [proc EXCEPT ![s] = Ended("failed")]
  BY <1>1, <1>4, <1>5, <1>7, EndStep
<1>8. PICK q : q = [proc[s] EXCEPT !.pc = "select"]
  OBVIOUS
<1>9. q \in Process /\ q.pc = "select" /\ q.o = proc[s].o /\ q.result = proc[s].result
      /\ q.version = proc[s].version /\ q.groups = proc[s].groups
  BY <1>1, <1>8 DEF Process
<1>10. CASE fetched' = new /\ checkedOut' = checkedOut
            /\ proc' = [proc EXCEPT ![s].pc = "select"]
  <2>1. proc' = [proc EXCEPT ![s] = q]
    BY <1>8, <1>10
  <2>2. ChoiceInv(q) /\ ListedInv(q) /\ q.pc \notin Writing
    BY <1>2, <1>9 DEF ChoiceInv, ListedInv, Listing, Writing
  <2> QED
    BY <1>1, <1>4, <1>5, <1>9, <1>10, <2>1, <2>2, LocalStep
<1>11. CASE fetched' = new /\ checkedOut' = new
            /\ proc' = [proc EXCEPT ![s] = Loaded([proc[s] EXCEPT !.pc = "select"], new)]
  <2>1. PICK r : r = Loaded(q, new)
    OBVIOUS
  <2>2. r \in Process /\ r.pc = "select" /\ r.o \in Options /\ r.result = "none"
        /\ r.version \in Versions /\ r.groups \in GroupSettings /\ r.groups = settings.groups
    BY <1>1, <1>2, <1>4, <1>9, <2>1, LoadedFacts
  <2>3. proc' = [proc EXCEPT ![s] = r]
    BY <1>8, <1>11, <2>1
  <2>4. ChoiceInv(r) /\ ListedInv(r) /\ r.pc \notin Writing
    BY <2>2 DEF ChoiceInv, ListedInv, Listing, Writing
  <2> QED
    BY <1>1, <1>4, <1>5, <1>11, <2>2, <2>3, <2>4, LocalStep
<1> QED
  BY <1>6, <1>7, <1>10, <1>11

(* What the steps of a sync need to know of the state they start in. *)
LEMMA StepFacts ==
    ASSUME SyncInv, NEW s \in Syncs, proc[s].pc # "idle"
    PROVE  LET q == proc[s]
           IN  /\ TypeOK /\ q \in Process /\ Running(s) /\ ChoiceInv(q)
               /\ q.o \in Options /\ q.version \in Versions /\ q.name \in Names
               /\ q.groups \in GroupSettings /\ settings.groups \in GroupSettings
               /\ q.projects \subseteq Paths /\ All(q) \subseteq Paths
               /\ q.obsolete \in Seq(Paths) /\ q.remains \in Seq(Paths) /\ q.new \in Seq(Paths)
               /\ fetched \in Versions /\ checkedOut \in Versions /\ gitdir \subseteq Paths
               /\ worktree \subseteq Paths /\ list \in Seq(Paths)
               /\ ~overlap => q.groups = settings.groups /\ ListedInv(q) /\ worktree \subseteq ToSet(list)
<1>1. TypeOK /\ proc[s] \in Process /\ Running(s) /\ ChoiceInv(proc[s]) /\ AloneInv
      /\ WorktreeListed /\ (~overlap => ListedInv(proc[s]))
  BY DEF SyncInv, TypeOK, Running
<1>2. proc[s].o \in Options /\ proc[s].version \in Versions /\ proc[s].groups \in GroupSettings
  BY <1>1 DEF ChoiceInv
<1>3. /\ proc[s].name \in Names /\ proc[s].projects \subseteq Paths
      /\ proc[s].obsolete \in Seq(Paths) /\ proc[s].remains \in Seq(Paths) /\ proc[s].new \in Seq(Paths)
  BY <1>1 DEF Process
<1>4. All(proc[s]) \subseteq Paths
  BY <1>2, <1>3, SyncAssumption DEF All
<1>5. /\ settings.groups \in GroupSettings /\ fetched \in Versions /\ checkedOut \in Versions
      /\ gitdir \subseteq Paths /\ worktree \subseteq Paths /\ list \in Seq(Paths)
  BY <1>1 DEF TypeOK
<1>6. ~overlap => proc[s].groups = settings.groups /\ worktree \subseteq ToSet(list)
  BY <1>1 DEF AloneInv, WorktreeListed
<1> QED
  BY <1>1, <1>2, <1>3, <1>4, <1>5, <1>6

(* The selection: projects of the manifest, all of them without arguments. *)
LEMMA SelectInv ==
    ASSUME SyncInv, NEW s \in Syncs, Select(s)
    PROVE  SyncInv'
<1> DEFINE q == proc[s]
<1>1. q.pc = "select" /\ UNCHANGED <<disk, runs, overlap>>
  BY DEF Select
<1>2. TypeOK /\ q \in Process /\ Running(s) /\ ChoiceInv(q) /\ q.o \in Options
      /\ q.version \in Versions /\ q.groups \in GroupSettings /\ All(q) \subseteq Paths
      /\ fetched \in Versions /\ checkedOut \in Versions /\ gitdir \subseteq Paths
  BY <1>1, StepFacts
<1>3. PICK ps \in SUBSET All(q) :
         /\ q.o.args = "all" => ps = All(q)
         /\ proc' = [proc EXCEPT ![s].projects = ps,
                                 ![s].pc = IF q.o.localOnly THEN "fetched" ELSE "fetch"]
  BY DEF Select, All
<1>4. PICK pc \in {"fetch", "fetched"} : pc = IF q.o.localOnly THEN "fetched" ELSE "fetch"
  OBVIOUS
<1>5. PICK r : r = [q EXCEPT !.projects = ps, !.pc = pc]
  OBVIOUS
<1>6. proc' = [proc EXCEPT ![s] = r]
  BY <1>2, <1>3, <1>4, <1>5 DEF TypeOK
<1>7. /\ r \in Process /\ r.pc = pc /\ r.projects = ps /\ r.o = q.o /\ r.result = q.result
      /\ r.version = q.version /\ r.name = q.name /\ r.groups = q.groups
  <2>1. ps \in SUBSET Paths
    BY <1>2
  <2> QED
    BY <1>2, <1>4, <1>5, <2>1 DEF Process
<1>8. ChoiceInv(r) /\ ListedInv(r) /\ r.pc \notin Writing
  <2>1. All(r) = All(q)
    BY <1>7 DEF All
  <2>2. q.result = "none"
    BY <1>1, <1>2 DEF ChoiceInv
  <2> QED
    BY <1>2, <1>3, <1>4, <1>7, <2>1, <2>2 DEF ChoiceInv, ListedInv, Listing, Writing
<1> QED
  BY <1>1, <1>2, <1>6, <1>7, <1>8, LocalStep DEF disk

(* A sync goes from one phase to the next, and keeps what it has chosen. *)
LEMMA PhaseStep ==
    ASSUME SyncInv, NEW s \in Syncs, proc[s].pc \in {"fetch", "fetched"},
           NEW pc \in {"fetched", "list"}, NEW late \in SUBSET Paths,
           proc' = [proc EXCEPT ![s] = [proc[s] EXCEPT !.pc = pc, !.late = late]],
           fetched' = fetched, checkedOut' = checkedOut, gitdir' \subseteq Paths,
           UNCHANGED <<server, settings, list, lock, worktree, runs, overlap>>
    PROVE  SyncInv'
<1> DEFINE q == proc[s]
<1>1. TypeOK /\ q \in Process /\ Running(s) /\ ChoiceInv(q) /\ q.o \in Options
      /\ q.version \in Versions /\ q.groups \in GroupSettings /\ All(q) \subseteq Paths
      /\ fetched \in Versions /\ checkedOut \in Versions
  BY StepFacts
<1>2. PICK r : r = [q EXCEPT !.pc = pc, !.late = late]
  OBVIOUS
<1>3. proc' = [proc EXCEPT ![s] = r]
  BY <1>2
<1>4. /\ r \in Process /\ r.pc = pc /\ r.projects = q.projects /\ r.o = q.o /\ r.result = q.result
      /\ r.version = q.version /\ r.name = q.name /\ r.groups = q.groups
  BY <1>1, <1>2 DEF Process
<1>5. ChoiceInv(r) /\ ListedInv(r) /\ r.pc \notin Writing
  <2>1. All(r) = All(q)
    BY <1>4 DEF All
  <2> QED
    BY <1>1, <1>4, <2>1 DEF ChoiceInv, ListedInv, Listing, Writing
<1> QED
  BY <1>1, <1>3, <1>4, <1>5, LocalStep

LEMMA NetworkInv ==
    ASSUME SyncInv, NEW s \in Syncs, NetworkHalf(s)
    PROVE  SyncInv'
<1>1. proc[s].pc = "fetch"
      /\ UNCHANGED <<server, fetched, checkedOut, settings, list, lock, worktree, runs, overlap>>
  BY DEF NetworkHalf
<1>2. PICK done \in SUBSET proc[s].projects :
         /\ gitdir' = gitdir \cup done
         /\ \/ proc' = [proc EXCEPT ![s] = Ended("failed")]
            \/ proc' = [proc EXCEPT ![s].pc = "fetched", ![s].late = proc[s].projects \ done]
  BY DEF NetworkHalf
<1>3. Running(s) /\ TypeOK /\ proc[s].projects \subseteq Paths /\ gitdir' \subseteq Paths
      /\ fetched \in Versions /\ checkedOut \in Versions
  BY <1>1, <1>2, StepFacts
<1>4. CASE proc' = [proc EXCEPT ![s] = Ended("failed")]
  BY <1>1, <1>3, <1>4, EndStep
<1>5. CASE proc' = [proc EXCEPT ![s].pc = "fetched", ![s].late = proc[s].projects \ done]
  <2>1. PICK late \in SUBSET Paths : late = proc[s].projects \ done
    BY <1>3
  <2>2. proc' = [proc EXCEPT ![s] = [proc[s] EXCEPT !.pc = "fetched", !.late = late]]
    BY <1>3, <1>5, <2>1 DEF TypeOK
  <2> QED
    BY <1>1, <1>3, <2>2, PhaseStep
<1> QED
  BY <1>2, <1>4, <1>5

(* A fetch that nobody waits for touches nothing that the phases go by, whatever *)
(* the sync is doing by then.                                                    *)
LEMMA LateInv ==
    ASSUME SyncInv, NEW s \in Syncs, LateFetch(s)
    PROVE  SyncInv'
<1> DEFINE q == proc[s]
<1>1. TypeOK /\ LockInv /\ AloneInv /\ WorktreeListed
      /\ \A t \in Syncs : ChoiceInv(proc[t]) /\ (~overlap => ListedInv(proc[t]))
  BY DEF SyncInv
<1>2. PICK p \in q.late :
         /\ gitdir' \in {gitdir, gitdir \cup {p}}
         /\ proc' = [proc EXCEPT ![s].late = @ \ {p}]
  BY DEF LateFetch
<1>3. UNCHANGED <<server, fetched, checkedOut, settings, list, lock, worktree, runs, overlap>>
  BY DEF LateFetch
<1>4. q \in Process
  BY <1>1 DEF TypeOK
<1>5. PICK late : late = q.late \ {p}
  OBVIOUS
<1>6. late \in SUBSET Paths /\ p \in Paths
  BY <1>4, <1>5 DEF Process
<1>7. PICK r : r = [q EXCEPT !.late = late]
  OBVIOUS
<1>8. proc' = [proc EXCEPT ![s] = r]
  BY <1>1, <1>2, <1>5, <1>7 DEF TypeOK
<1>9. /\ r \in Process /\ r.pc = q.pc /\ r.result = q.result /\ r.o = q.o
      /\ r.version = q.version /\ r.name = q.name /\ r.groups = q.groups
      /\ r.projects = q.projects /\ r.obsolete = q.obsolete /\ r.remains = q.remains
      /\ r.new = q.new
  BY <1>4, <1>6, <1>7 DEF Process
<1>10. proc'[s] = r /\ \A t \in Syncs : t # s => proc'[t] = proc[t]
  BY <1>1, <1>8 DEF TypeOK
<1>11. TypeOK'
  BY <1>1, <1>2, <1>3, <1>6, <1>8, <1>9 DEF TypeOK
<1>12. \A t \in Syncs : /\ proc'[t].pc = proc[t].pc /\ proc'[t].groups = proc[t].groups
                         /\ WrittenLines(proc'[t]) = WrittenLines(proc[t])
  BY <1>9, <1>10 DEF WrittenLines
<1>13. LockInv' /\ AloneInv' /\ WorktreeListed'
  <2>1. LockInv'
    BY <1>1, <1>3, <1>12 DEF LockInv
  <2>2. AloneInv'
    BY <1>1, <1>3, <1>12 DEF AloneInv, Running
  <2>3. WorktreeListed'
    BY <1>1, <1>3 DEF WorktreeListed
  <2> QED
    BY <2>1, <2>2, <2>3
<1>14. ASSUME NEW t \in Syncs
       PROVE  ChoiceInv(proc[t])' /\ (~overlap' => ListedInv(proc[t])')
  <2>1. CASE t = s
    <3>1. All(r) = All(q)
      BY <1>9 DEF All
    <3>2. ChoiceInv(r) /\ (~overlap => ListedInv(r))
      BY <1>1, <1>9, <3>1 DEF ChoiceInv, ListedInv
    <3>3. ChoiceInv(proc[t])'
      BY <1>10, <2>1, <3>2 DEF ChoiceInv
    <3>4. ~overlap' => ListedInv(proc[t])'
      BY <1>3, <1>10, <2>1, <3>2 DEF ListedInv
    <3> QED
      BY <3>3, <3>4
  <2>2. CASE t # s
    <3>1. ChoiceInv(proc[t])'
      BY <1>1, <1>10, <2>2 DEF ChoiceInv
    <3>2. ~overlap' => ListedInv(proc[t])'
      BY <1>1, <1>3, <1>10, <2>2 DEF ListedInv
    <3> QED
      BY <3>1, <3>2
  <2> QED
    BY <2>1, <2>2
<1> QED
  BY <1>11, <1>13, <1>14 DEF SyncInv

LEMMA FetchedInv ==
    ASSUME SyncInv, NEW s \in Syncs, Fetched(s)
    PROVE  SyncInv'
<1>1. proc[s].pc = "fetched" /\ UNCHANGED <<disk, runs, overlap>>
  BY DEF Fetched
<1>2. \/ proc' = [proc EXCEPT ![s] = Ended("ok")]
      \/ proc' = [proc EXCEPT ![s] = [proc[s] EXCEPT !.pc = "list"]]
  BY DEF Fetched
<1>3. Running(s) /\ proc[s] \in Process /\ gitdir \subseteq Paths
      /\ fetched \in Versions /\ checkedOut \in Versions
  BY <1>1, StepFacts
<1>4. CASE proc' = [proc EXCEPT ![s] = Ended("ok")]
  BY <1>1, <1>3, <1>4, EndStep DEF disk
<1>5. CASE proc' = [proc EXCEPT ![s] = [proc[s] EXCEPT !.pc = "list"]]
  <2>1. PICK late \in SUBSET Paths : late = proc[s].late
    BY <1>3 DEF Process
  <2>2. [proc[s] EXCEPT !.pc = "list"] = [proc[s] EXCEPT !.pc = "list", !.late = late]
    BY <1>3, <2>1 DEF Process
  <2>3. proc' = [proc EXCEPT ![s] = [proc[s] EXCEPT !.pc = "list", !.late = late]]
    BY <1>5, <2>2
  <2> QED
    BY <1>1, <1>3, <2>3, PhaseStep DEF disk
<1> QED
  BY <1>2, <1>4, <1>5

LEMMA KillInv ==
    ASSUME SyncInv, NEW s \in Syncs, Kill(s)
    PROVE  SyncInv'
<1>1. Running(s) /\ UNCHANGED <<disk, runs, overlap>> /\ proc' = [proc EXCEPT ![s] = Ended("failed")]
  BY DEF Kill
<1>2. gitdir \subseteq Paths /\ fetched \in Versions /\ checkedOut \in Versions
  BY <1>1, StepFacts DEF Running
<1> QED
  BY <1>1, <1>2, EndStep DEF disk

(* The lists: whatever has a worktree is in the new list or obsolete. *)
LEMMA ReadListInv ==
    ASSUME SyncInv, NEW s \in Syncs, ReadList(s)
    PROVE  SyncInv'
<1> DEFINE q == proc[s]
<1>1. q.pc = "list" /\ UNCHANGED <<disk, runs, overlap>>
  BY DEF ReadList
<1>2. TypeOK /\ q \in Process /\ Running(s) /\ ChoiceInv(q) /\ q.o \in Options
      /\ q.version \in Versions /\ q.groups \in GroupSettings /\ settings.groups \in GroupSettings
      /\ q.name \in Names /\ fetched \in Versions /\ checkedOut \in Versions /\ gitdir \subseteq Paths
      /\ q.remains \in Seq(Paths) /\ list \in Seq(Paths)
      /\ (~overlap => q.groups = settings.groups /\ worktree \subseteq ToSet(list))
  BY <1>1, StepFacts
<1>3. PICK S : S = Selected(q.version, q.name, settings.groups)
  OBVIOUS
<1>4. S \subseteq Paths
  BY <1>2, <1>3, SyncAssumption
<1>5. PICK new : new = SortedSeq(S)
  OBVIOUS
<1>6. new \in Seq(Paths) /\ ToSet(new) = S
  BY <1>4, <1>5, NewFacts
<1>7. PICK obs : obs = findObsoletePaths(list, new)
  OBVIOUS
<1>8. obs \in Seq(Paths) /\ ToSet(list) \subseteq ToSet(new) \cup ToSet(obs)
  BY <1>2, <1>6, <1>7, ObsoletePaths
<1>9. PICK r : r = [q EXCEPT !.new = new, !.obsolete = obs, !.pc = "obsolete"]
  OBVIOUS
<1>10. proc' = [proc EXCEPT ![s] = r]
  <2>1. proc' = [proc EXCEPT ![s].new = new, ![s].obsolete = obs, ![s].pc = "obsolete"]
    BY <1>3, <1>5, <1>7 DEF ReadList
  <2> QED
    BY <1>2, <1>9, <2>1 DEF TypeOK
<1>11. /\ r \in Process /\ r.pc = "obsolete" /\ r.new = new /\ r.obsolete = obs
       /\ r.o = q.o /\ r.result = q.result
       /\ r.version = q.version /\ r.name = q.name /\ r.groups = q.groups
       /\ r.projects = q.projects /\ r.remains = q.remains
  BY <1>2, <1>6, <1>8, <1>9 DEF Process
<1>12. All(r) = All(q)
  BY <1>11 DEF All
<1>13. ChoiceInv(r) /\ r.pc \notin Writing
  BY <1>1, <1>2, <1>11, <1>12 DEF ChoiceInv, Listing, Writing
<1>14. ASSUME ~overlap
       PROVE  ListedInv(r)
  <2>1. S = All(q)
    BY <1>2, <1>3, <1>14 DEF All
  <2>2. worktree \subseteq ToSet(r.new) \cup ToSet(r.remains) \cup ToSet(r.obsolete)
    BY <1>2, <1>8, <1>11, <1>14
  <2> QED
    BY <1>6, <1>11, <1>12, <2>1, <2>2 DEF ListedInv
<1> QED
  BY <1>1, <1>2, <1>10, <1>11, <1>13, <1>14, LocalStep DEF disk

(* One obsolete path is kept on the list, or dropped if it has no worktree. *)
LEMMA KeepDropStep ==
    ASSUME SyncInv, NEW s \in Syncs, proc[s].pc \in {"obsolete", "remove"}, proc[s].obsolete # <<>>,
           NEW r, r = Keep(proc[s]) \/ (r = Drop(proc[s])
                                        /\ (~overlap => Head(proc[s].obsolete) \notin worktree)),
           proc' = [proc EXCEPT ![s] = r],
           fetched' = fetched, checkedOut' = checkedOut, gitdir' \subseteq Paths,
           UNCHANGED <<server, settings, list, lock, worktree, runs, overlap>>
    PROVE  SyncInv'
<1> DEFINE q == proc[s]
<1>1. TypeOK /\ q \in Process /\ Running(s) /\ ChoiceInv(q) /\ q.o \in Options
      /\ q.version \in Versions /\ q.groups \in GroupSettings
      /\ fetched \in Versions /\ checkedOut \in Versions
      /\ q.obsolete \in Seq(Paths) /\ q.remains \in Seq(Paths)
      /\ (~overlap => ListedInv(q))
  BY StepFacts
<1>2. PICK h, t : h = Head(q.obsolete) /\ t = Tail(q.obsolete)
  OBVIOUS
<1>3. h \in Paths /\ t \in Seq(Paths) /\ ToSet(q.obsolete) = {h} \cup ToSet(t)
  BY <1>1, <1>2, HeadTail
<1>4. PICK rem : rem = Append(q.remains, h)
  OBVIOUS
<1>5. rem \in Seq(Paths) /\ ToSet(rem) = ToSet(q.remains) \cup {h}
  BY <1>1, <1>3, <1>4, AppendSet
<1>6. /\ r \in Process /\ r.pc = "obsolete" /\ r.obsolete = t
      /\ r.o = q.o /\ r.result = q.result /\ r.new = q.new
      /\ r.version = q.version /\ r.name = q.name /\ r.groups = q.groups
      /\ r.projects = q.projects
      /\ r.remains = rem \/ (r.remains = q.remains /\ (~overlap => h \notin worktree))
  <2>1. CASE r = Keep(q)
    <3>1. r = [q EXCEPT !.obsolete = t, !.remains = rem, !.pc = "obsolete"]
      BY <1>1, <1>2, <1>4, <2>1 DEF Keep, Process
    <3> QED
      BY <1>1, <1>3, <1>5, <3>1 DEF Process
  <2>2. CASE r = Drop(q) /\ (~overlap => h \notin worktree)
    <3>1. r = [q EXCEPT !.obsolete = t, !.pc = "obsolete"]
      BY <1>1, <1>2, <2>2 DEF Drop, Process
    <3> QED
      BY <1>1, <1>3, <2>2, <3>1 DEF Process
  <2> QED
    BY <1>2, <2>1, <2>2
<1>7. All(r) = All(q)
  BY <1>6 DEF All
<1>8. ChoiceInv(r) /\ r.pc \notin Writing
  BY <1>1, <1>6, <1>7 DEF ChoiceInv, Listing, Writing
<1>9. ASSUME ~overlap
      PROVE  ListedInv(r)
  <2>1. ToSet(q.new) = All(q)
        /\ worktree \subseteq ToSet(q.new) \cup ToSet(q.remains) \cup ToSet(q.obsolete)
    BY <1>1, <1>9 DEF ListedInv, Listing
  <2>2. worktree \subseteq ToSet(r.new) \cup ToSet(r.remains) \cup ToSet(r.obsolete)
    BY <1>3, <1>5, <1>6, <1>9, <2>1
  <2> QED
    BY <1>6, <1>7, <2>1, <2>2 DEF ListedInv
<1> QED
  BY <1>1, <1>6, <1>8, <1>9, LocalStep

LEMMA ObsoleteInv ==
    ASSUME SyncInv, NEW s \in Syncs, ObsoletePath(s)
    PROVE  SyncInv'
<1> DEFINE q == proc[s]
           h == Head(q.obsolete)
<1>1. q.pc = "obsolete" /\ q.obsolete # <<>> /\ UNCHANGED <<disk, runs, overlap>>
  BY DEF ObsoletePath
<1>2. TypeOK /\ q \in Process /\ Running(s) /\ ChoiceInv(q) /\ q.o \in Options
      /\ q.version \in Versions /\ q.groups \in GroupSettings
      /\ fetched \in Versions /\ checkedOut \in Versions /\ gitdir \subseteq Paths
      /\ (~overlap => ListedInv(q))
  BY <1>1, StepFacts
<1>3. CASE h \in worktree
  <2>1. PICK r : r = Keep(q)
    OBVIOUS
  <2>2. proc' = [proc EXCEPT ![s] = r]
    BY <1>3, <2>1 DEF ObsoletePath
  <2> QED
    BY <1>1, <1>2, <2>1, <2>2, KeepDropStep DEF disk
<1>4. CASE h \notin worktree /\ h \notin gitdir
  <2>1. PICK r : r = Drop(q)
    OBVIOUS
  <2>2. proc' = [proc EXCEPT ![s] = r]
    BY <1>4, <2>1 DEF ObsoletePath
  <2> QED
    BY <1>1, <1>2, <1>4, <2>1, <2>2, KeepDropStep DEF disk
<1>5. CASE h \notin worktree /\ h \in gitdir
  <2>1. PICK r : r = [q EXCEPT !.pc = "remove"]
    OBVIOUS
  <2>2. proc' = [proc EXCEPT ![s] = r]
    BY <1>5, <2>1 DEF ObsoletePath
  <2>3. /\ r \in Process /\ r.pc = "remove" /\ r.obsolete = q.obsolete
        /\ r.o = q.o /\ r.result = q.result /\ r.new = q.new
        /\ r.version = q.version /\ r.name = q.name /\ r.groups = q.groups
        /\ r.projects = q.projects /\ r.remains = q.remains
    BY <1>2, <2>1 DEF Process
  <2>4. All(r) = All(q)
    BY <2>3 DEF All
  <2>5. ChoiceInv(r) /\ r.pc \notin Writing
    BY <1>1, <1>2, <2>3, <2>4 DEF ChoiceInv, Listing, Writing
  <2>6. ~overlap => ListedInv(r)
    BY <1>1, <1>2, <1>5, <2>3, <2>4 DEF ListedInv, Listing
  <2> QED
    BY <1>1, <1>2, <2>2, <2>3, <2>5, <2>6, LocalStep DEF disk
<1> QED
  BY <1>3, <1>4, <1>5

LEMMA RemoveInv ==
    ASSUME SyncInv, NEW s \in Syncs, RemoveGitDir(s)
    PROVE  SyncInv'
<1> DEFINE q == proc[s]
<1>1. q.pc = "remove"
      /\ UNCHANGED <<server, fetched, checkedOut, settings, list, lock, worktree, runs, overlap>>
  BY DEF RemoveGitDir
<1>2. gitdir \subseteq Paths /\ ChoiceInv(q) /\ (~overlap => ListedInv(q))
  BY <1>1, StepFacts
<1>3. q.obsolete # <<>> /\ (~overlap => Head(q.obsolete) \notin worktree)
  BY <1>1, <1>2 DEF ChoiceInv, ListedInv
<1>4. PICK r : /\ r = Keep(q) \/ r = Drop(q)
               /\ proc' = [proc EXCEPT ![s] = r]
  BY DEF RemoveGitDir
<1>5. gitdir' \subseteq Paths
  BY <1>2 DEF RemoveGitDir
<1> QED
  BY <1>1, <1>3, <1>4, <1>5, KeepDropStep

-----------------------------------------------------------------------------
(* The lock file *)

(* A step of the only sync that writes, with the lock file and project.list. *)
LEMMA LockStep ==
    ASSUME SyncInv, NEW s \in Syncs, NEW r \in Process, Running(s),
           \A t \in Syncs : t # s => proc[t].pc \notin Writing,
           proc' = [proc EXCEPT ![s] = r], ChoiceInv(r), r.groups = proc[s].groups,
           NEW l \in Seq([owner : Syncs, lines : Seq(Paths)]), lock' = l, Len(l) <= 1,
           r.pc \in Writing => l = <<[owner |-> s, lines |-> WrittenLines(r)]>>,
           list' \in Seq(Paths), ~overlap => ListedInv(r)' /\ worktree \subseteq ToSet(list'),
           UNCHANGED <<server, fetched, checkedOut, settings, worktree, gitdir, runs, overlap>>
    PROVE  SyncInv'
<1>1. TypeOK /\ LockInv /\ AloneInv
      /\ \A t \in Syncs : ChoiceInv(proc[t]) /\ (~overlap => ListedInv(proc[t]))
  BY DEF SyncInv
<1>2. proc'[s] = r /\ \A t \in Syncs : t # s => proc'[t] = proc[t]
  BY <1>1 DEF TypeOK
<1>3. TypeOK'
  BY <1>1 DEF TypeOK
<1>4. LockInv'
  BY <1>2 DEF LockInv, WrittenLines
<1>5. AloneInv'
  BY <1>1, <1>2 DEF AloneInv, Running
<1>6. WorktreeListed'
  BY DEF WorktreeListed
<1>7. ASSUME NEW t \in Syncs
      PROVE  ChoiceInv(proc[t])' /\ (~overlap' => ListedInv(proc[t])')
  <2>1. CASE t = s
    <3>1. ChoiceInv(proc[t])'
      BY <1>2, <2>1 DEF ChoiceInv
    <3>2. ~overlap' => ListedInv(proc[t])'
      BY <1>2, <2>1 DEF ListedInv
    <3> QED
      BY <3>1, <3>2
  <2>2. CASE t # s
    <3>1. ChoiceInv(proc[t])'
      BY <1>1, <1>2, <2>2 DEF ChoiceInv
    <3>2. ASSUME ~overlap'
          PROVE  ListedInv(proc[t])'
      <4>1. proc[t].pc = "idle"
        BY <1>1, <2>2, <3>2 DEF AloneInv, Running
      <4> QED
        BY <1>2, <2>2, <4>1 DEF ListedInv, Listing, Writing
    <3> QED
      BY <3>1, <3>2
  <2> QED
    BY <2>1, <2>2
<1> QED
  BY <1>3, <1>4, <1>5, <1>6, <1>7 DEF SyncInv

(* A sync that writes is the only one, and the lock file is its own. *)
LEMMA WriterFacts ==
    ASSUME SyncInv, NEW s \in Syncs, proc[s].pc \in Writing
    PROVE  /\ lock = <<[owner |-> s, lines |-> WrittenLines(proc[s])]>>
           /\ \A t \in Syncs : t # s => proc[t].pc \notin Writing
<1>1. LockInv
  BY DEF SyncInv
<1>2. lock = <<[owner |-> s, lines |-> WrittenLines(proc[s])]>>
  BY <1>1 DEF LockInv
<1>3. ASSUME NEW t \in Syncs, proc[t].pc \in Writing
      PROVE  t = s
  <2>1. lock = <<[owner |-> t, lines |-> WrittenLines(proc[t])]>>
    BY <1>1, <1>3 DEF LockInv
  <2>2. lock[1].owner = s /\ lock[1].owner = t
    BY <1>2, <2>1
  <2> QED
    BY <2>2
<1> QED
  BY <1>2, <1>3

(* A lock file with paths. *)
LEMMA LockType ==
    ASSUME NEW s \in Syncs, NEW p \in Seq(Paths)
    PROVE  LET l == <<[owner |-> s, lines |-> p]>>
           IN  l \in Seq([owner : Syncs, lines : Seq(Paths)]) /\ Len(l) <= 1 /\ l # <<>>
OBVIOUS

(* A writer goes on: only its phase changes. *)
LEMMA NextPhase ==
    ASSUME NEW q \in Process, ChoiceInv(q), q.pc \in Writing \/ (q.pc = "obsolete" /\ q.obsolete = <<>>),
           NEW pc \in Writing \cup {"checkout"}
    PROVE  LET r == [q EXCEPT !.pc = pc]
           IN  /\ r \in Process /\ ChoiceInv(r) /\ r.pc = pc /\ r.new = q.new /\ r.remains = q.remains
               /\ r.obsolete = q.obsolete /\ r.groups = q.groups /\ All(r) = All(q)
<1>1. PICK r : r = [q EXCEPT !.pc = pc]
  OBVIOUS
<1>2. /\ r \in Process /\ r.pc = pc /\ r.obsolete = q.obsolete
      /\ r.o = q.o /\ r.result = q.result /\ r.new = q.new
      /\ r.version = q.version /\ r.name = q.name /\ r.groups = q.groups
      /\ r.projects = q.projects /\ r.remains = q.remains
  BY <1>1 DEF Process, Writing
<1>3. All(r) = All(q)
  BY <1>2 DEF All
<1>4. ChoiceInv(r)
  BY <1>2, <1>3 DEF ChoiceInv, Listing, Writing
<1> QED
  BY <1>1, <1>2, <1>3, <1>4

(* The lock file is created only when there is none. *)
LEMMA TakeLockInv ==
    ASSUME SyncInv, NEW s \in Syncs, TakeLock(s)
    PROVE  SyncInv'
<1> DEFINE q == proc[s]
<1>1. q.pc = "obsolete" /\ q.obsolete = <<>>
      /\ UNCHANGED <<server, fetched, checkedOut, settings, list, worktree, gitdir, runs, overlap>>
  BY DEF TakeLock
<1>2. TypeOK /\ q \in Process /\ Running(s) /\ ChoiceInv(q)
      /\ fetched \in Versions /\ checkedOut \in Versions /\ gitdir \subseteq Paths
      /\ list \in Seq(Paths)
      /\ (~overlap => ListedInv(q) /\ worktree \subseteq ToSet(list))
  BY <1>1, StepFacts
<1>3. CASE proc' = [proc EXCEPT ![s] = Ended("failed")] /\ UNCHANGED lock
  BY <1>1, <1>2, <1>3, EndStep
<1>4. CASE lock = <<>> /\ lock' = <<[owner |-> s, lines |-> <<>>]>>
           /\ proc' = [proc EXCEPT ![s].pc = "write"]
  <2>1. PICK r : r = [q EXCEPT !.pc = "write"]
    OBVIOUS
  <2>2. /\ r \in Process /\ ChoiceInv(r) /\ r.pc = "write" /\ r.new = q.new /\ r.remains = q.remains
        /\ r.obsolete = q.obsolete /\ r.groups = q.groups /\ All(r) = All(q)
    BY <1>1, <1>2, <2>1, NextPhase DEF Writing
  <2>3. proc' = [proc EXCEPT ![s] = r]
    BY <1>4, <2>1
  <2>4. PICK l : l = <<[owner |-> s, lines |-> <<>>]>>
    OBVIOUS
  <2>5. l \in Seq([owner : Syncs, lines : Seq(Paths)]) /\ Len(l) <= 1
    BY <2>4, LockType
  <2>6. lock' = l /\ l = <<[owner |-> s, lines |-> WrittenLines(r)]>>
    BY <1>4, <2>2, <2>4 DEF WrittenLines
  <2>7. \A t \in Syncs : t # s => proc[t].pc \notin Writing
    <3>1. ASSUME NEW t \in Syncs, proc[t].pc \in Writing
          PROVE  FALSE
      <4>1. lock = <<[owner |-> t, lines |-> WrittenLines(proc[t])]>>
        BY <3>1, WriterFacts
      <4> QED
        BY <1>4, <4>1
    <3> QED
      BY <3>1
  <2>8. ~overlap => ListedInv(r)' /\ worktree \subseteq ToSet(list')
    BY <1>1, <1>2, <2>2 DEF ListedInv, Listing
  <2> QED
    BY <1>1, <1>2, <2>2, <2>3, <2>5, <2>6, <2>7, <2>8, LockStep
<1> QED
  BY <1>3, <1>4 DEF TakeLock

(* The lines are written, those of the manifest first. *)
LEMMA WriteLockInv ==
    ASSUME SyncInv, NEW s \in Syncs, WriteLock(s)
    PROVE  SyncInv'
<1> DEFINE q == proc[s]
<1>1. q.pc \in {"write", "writeRemains"}
      /\ UNCHANGED <<server, fetched, checkedOut, settings, list, worktree, gitdir, runs, overlap>>
  BY DEF WriteLock
<1>2. TypeOK /\ q \in Process /\ Running(s) /\ ChoiceInv(q)
      /\ fetched \in Versions /\ checkedOut \in Versions /\ gitdir \subseteq Paths
      /\ list \in Seq(Paths) /\ q.new \in Seq(Paths) /\ q.remains \in Seq(Paths)
      /\ (~overlap => ListedInv(q) /\ worktree \subseteq ToSet(list))
  BY <1>1, StepFacts
<1>3. CASE proc' = [proc EXCEPT ![s] = Ended("failed")] /\ UNCHANGED lock
  BY <1>1, <1>2, <1>3, EndStep
<1>4. CASE /\ lock' = <<[lock[1] EXCEPT !.lines = @ \o IF q.pc = "write" THEN q.new ELSE q.remains]>>
           /\ proc' = [proc EXCEPT ![s].pc = IF @ = "write" THEN "writeRemains" ELSE "rename"]
  <2>1. PICK pc \in {"writeRemains", "rename"} :
           pc = IF q.pc = "write" THEN "writeRemains" ELSE "rename"
    OBVIOUS
  <2>2. PICK r : r = [q EXCEPT !.pc = pc]
    OBVIOUS
  <2>3. /\ r \in Process /\ ChoiceInv(r) /\ r.pc = pc /\ r.new = q.new /\ r.remains = q.remains
        /\ r.obsolete = q.obsolete /\ r.groups = q.groups /\ All(r) = All(q)
    <3>1. q.pc \in Writing /\ pc \in Writing \cup {"checkout"}
      BY <1>1, <2>1 DEF Writing
    <3> QED
      BY <1>2, <2>2, <3>1, NextPhase
  <2>4. proc' = [proc EXCEPT ![s] = r]
    BY <1>2, <1>4, <2>1, <2>2 DEF TypeOK
  <2>5. lock = <<[owner |-> s, lines |-> WrittenLines(q)]>>
        /\ \A t \in Syncs : t # s => proc[t].pc \notin Writing
    BY <1>1, WriterFacts DEF Writing
  <2>6. PICK l : l = <<[owner |-> s, lines |-> WrittenLines(r)]>>
    OBVIOUS
  <2>7. lock' = l /\ WrittenLines(r) \in Seq(Paths)
    <3>1. CASE q.pc = "write"
      <4>1. WrittenLines(q) = <<>> /\ WrittenLines(r) = q.new
        BY <2>1, <2>3, <3>1 DEF WrittenLines
      <4>2. lock' = <<[lock[1] EXCEPT !.lines = @ \o q.new]>>
        BY <1>4, <3>1
      <4>3. <<>> \o q.new = q.new
        BY <1>2, ConcatEmptySeq
      <4>4. lock[1] = [owner |-> s, lines |-> <<>>]
        BY <2>5, <4>1
      <4>5. lock' = <<[owner |-> s, lines |-> <<>> \o q.new]>>
        BY <4>2, <4>4
      <4> QED
        BY <1>2, <2>6, <4>1, <4>3, <4>5
    <3>2. CASE q.pc # "write"
      <4>1. WrittenLines(q) = q.new /\ WrittenLines(r) = q.new \o q.remains
        BY <1>1, <2>1, <2>3, <3>2 DEF WrittenLines
      <4>2. lock' = <<[lock[1] EXCEPT !.lines = @ \o q.remains]>>
        BY <1>4, <3>2
      <4>3. lock[1] = [owner |-> s, lines |-> q.new]
        BY <2>5, <4>1
      <4>4. PICK c : c = q.new \o q.remains
        OBVIOUS
      <4>5. lock' = <<[lock[1] EXCEPT !.lines = c]>>
        BY <4>2, <4>3, <4>4
      <4>6. lock' = <<[owner |-> s, lines |-> c]>>
        BY <4>3, <4>5
      <4> QED
        BY <1>2, <2>6, <4>1, <4>4, <4>6, ConcatSet
    <3> QED
      BY <3>1, <3>2
  <2>8. l \in Seq([owner : Syncs, lines : Seq(Paths)]) /\ Len(l) <= 1
    BY <2>6, <2>7, LockType
  <2>9. ~overlap => ListedInv(r)' /\ worktree \subseteq ToSet(list')
    BY <1>1, <1>2, <2>1, <2>3 DEF ListedInv, Listing, Writing
  <2> QED
    BY <1>1, <1>2, <2>3, <2>4, <2>5, <2>6, <2>7, <2>8, <2>9, LockStep
<1> QED
  BY <1>3, <1>4 DEF WriteLock

(* The lock file becomes project.list. *)
LEMMA RenameInv ==
    ASSUME SyncInv, NEW s \in Syncs, RenameLock(s)
    PROVE  SyncInv'
<1> DEFINE q == proc[s]
<1>1. q.pc = "rename"
      /\ UNCHANGED <<server, fetched, checkedOut, settings, worktree, gitdir, runs, overlap>>
  BY DEF RenameLock
<1>2. TypeOK /\ q \in Process /\ Running(s) /\ ChoiceInv(q)
      /\ fetched \in Versions /\ checkedOut \in Versions /\ gitdir \subseteq Paths
      /\ q.new \in Seq(Paths) /\ q.remains \in Seq(Paths)
      /\ (~overlap => ListedInv(q))
  BY <1>1, StepFacts
<1>3. CASE proc' = [proc EXCEPT ![s] = Ended("failed")] /\ UNCHANGED <<list, lock>>
  BY <1>1, <1>2, <1>3, EndStep
<1>4. CASE list' = lock[1].lines /\ lock' = <<>> /\ proc' = [proc EXCEPT ![s].pc = "checkout"]
  <2>1. lock = <<[owner |-> s, lines |-> WrittenLines(q)]>>
        /\ \A t \in Syncs : t # s => proc[t].pc \notin Writing
    BY <1>1, WriterFacts DEF Writing
  <2>2. list' = q.new \o q.remains
    <3>1. WrittenLines(q) = q.new \o q.remains
      BY <1>1 DEF WrittenLines
    <3> QED
      BY <1>4, <2>1, <3>1
  <2>3. list' \in Seq(Paths) /\ ToSet(list') = ToSet(q.new) \cup ToSet(q.remains)
    BY <1>2, <2>2, ConcatSet
  <2>4. PICK r : r = [q EXCEPT !.pc = "checkout"]
    OBVIOUS
  <2>5. /\ r \in Process /\ ChoiceInv(r) /\ r.pc = "checkout" /\ r.new = q.new /\ r.remains = q.remains
        /\ r.obsolete = q.obsolete /\ r.groups = q.groups /\ All(r) = All(q)
    BY <1>1, <1>2, <2>4, NextPhase DEF Writing
  <2>6. proc' = [proc EXCEPT ![s] = r]
    BY <1>4, <2>4
  <2>7. q.obsolete = <<>> /\ ToSet(<<>>) = {}
    BY <1>1, <1>2 DEF ChoiceInv, Writing, ToSet
  <2>8. ~overlap => ListedInv(r)' /\ worktree \subseteq ToSet(list')
    BY <1>1, <1>2, <2>3, <2>5, <2>7 DEF ListedInv, Listing, Writing
  <2>9. PICK l : l = <<>>
    OBVIOUS
  <2>10. l \in Seq([owner : Syncs, lines : Seq(Paths)]) /\ Len(l) <= 1 /\ lock' = l
    BY <1>4, <2>9
  <2> QED
    BY <1>1, <1>2, <2>1, <2>3, <2>5, <2>6, <2>8, <2>10, LockStep DEF Writing
<1> QED
  BY <1>3, <1>4 DEF RenameLock

-----------------------------------------------------------------------------
(* The checkout, and the others *)

(* Directories are made for projects that are on the list. *)
LEMMA LocalHalfInv ==
    ASSUME SyncInv, NEW s \in Syncs, LocalHalf(s)
    PROVE  SyncInv'
<1> DEFINE q == proc[s]
<1>1. q.pc = "checkout"
      /\ UNCHANGED <<server, fetched, checkedOut, settings, list, lock, gitdir, runs, overlap>>
  BY DEF LocalHalf
<1>2. PICK made \in SUBSET q.projects, x \in {"ok", "failed"} :
         worktree' = worktree \cup made /\ proc' = [proc EXCEPT ![s] = Ended(x)]
  <2>1. PICK made \in SUBSET q.projects :
           /\ worktree' = worktree \cup made
           /\ \/ proc' = [proc EXCEPT ![s] = Ended("failed")]
              \/ proc' = [proc EXCEPT ![s] = Ended(IF q.remains # <<>> THEN "failed" ELSE "ok")]
    BY DEF LocalHalf
  <2> QED
    BY <2>1
<1>3. PICK r : r = Ended(x)
  OBVIOUS
<1>4. r \in Process /\ r.pc = "idle"
  BY <1>3, EndedFacts
<1>5. TypeOK /\ Running(s) /\ ChoiceInv(q) /\ q.projects \subseteq Paths /\ worktree \subseteq Paths
      /\ (~overlap => ListedInv(q) /\ worktree \subseteq ToSet(list))
  BY <1>1, StepFacts
<1>6. proc'[s] = r /\ \A t \in Syncs : t # s => proc'[t] = proc[t]
  BY <1>2, <1>3, <1>5 DEF TypeOK
<1>7. TypeOK'
  BY <1>1, <1>2, <1>3, <1>4, <1>5 DEF TypeOK
<1>8. LockInv'
  BY <1>1, <1>4, <1>6 DEF SyncInv, LockInv, Writing
<1>9. AloneInv'
  BY <1>1, <1>4, <1>5, <1>6 DEF SyncInv, AloneInv, Running
<1>10. WorktreeListed'
  <2>1. ASSUME ~overlap
        PROVE  q.projects \subseteq ToSet(list)
    BY <1>1, <1>5, <2>1 DEF ChoiceInv, ListedInv, Listing
  <2> QED
    BY <1>1, <1>2, <1>5, <2>1 DEF WorktreeListed
<1>11. ASSUME NEW t \in Syncs
       PROVE  ChoiceInv(proc[t])' /\ (~overlap' => ListedInv(proc[t])')
  <2>1. CASE t = s
    BY <1>4, <1>6, <2>1 DEF ChoiceInv, ListedInv, Listing, Writing
  <2>2. CASE t # s
    <3>1. ChoiceInv(proc[t])'
      BY <1>6, <2>2 DEF SyncInv, ChoiceInv
    <3>2. ASSUME ~overlap'
          PROVE  ListedInv(proc[t])'
      <4>1. proc[t].pc = "idle"
        BY <1>1, <1>5, <2>2, <3>2 DEF SyncInv, AloneInv, Running
      <4> QED
        BY <1>6, <2>2, <4>1 DEF ListedInv, Listing, Writing
    <3> QED
      BY <3>1, <3>2
  <2> QED
    BY <2>1, <2>2
<1> QED
  BY <1>7, <1>8, <1>9, <1>10, <1>11 DEF SyncInv

(* git repo init changes the groups: of no sync, unless they overlap. *)
LEMMA InitGroupsInv ==
    ASSUME SyncInv, NEW g \in GroupSettings, InitGroups(g)
    PROVE  SyncInv'
<1>1. TypeOK /\ LockInv /\ AloneInv /\ WorktreeListed
      /\ \A t \in Syncs : ChoiceInv(proc[t]) /\ (~overlap => ListedInv(proc[t]))
  BY DEF SyncInv
<1>2. /\ UNCHANGED <<server, fetched, checkedOut, list, lock, worktree, gitdir, proc, runs>>
      /\ overlap' = (overlap \/ \E s \in Syncs : Running(s))
  BY DEF InitGroups
<1>3. settings' \in [groups : GroupSettings, mirror : BOOLEAN]
  <2>1. settings \in [groups : GroupSettings, mirror : BOOLEAN]
    BY <1>1 DEF TypeOK
  <2>2. PICK q : q = [settings EXCEPT !.groups = g]
    OBVIOUS
  <2>3. q \in [groups : GroupSettings, mirror : BOOLEAN]
    BY <2>1, <2>2
  <2>4. settings' = [q EXCEPT !.mirror = q.mirror \/ settings.mirror]
    BY <2>2, <2>3 DEF InitGroups, SaveSettings
  <2>5. (q.mirror \/ settings.mirror) \in BOOLEAN
    BY <2>1, <2>3
  <2> QED
    BY <2>3, <2>4, <2>5
<1>4. overlap' \in BOOLEAN /\ (~overlap' => ~overlap /\ \A s \in Syncs : proc[s].pc = "idle")
  BY <1>1, <1>2 DEF TypeOK, Running
<1>5. TypeOK'
  BY <1>1, <1>2, <1>3, <1>4 DEF TypeOK
<1>6. LockInv'
  BY <1>1, <1>2 DEF LockInv
<1>7. AloneInv'
  BY <1>2, <1>4 DEF AloneInv, Running
<1>8. WorktreeListed'
  BY <1>1, <1>2, <1>4 DEF WorktreeListed
<1>9. ASSUME NEW t \in Syncs
      PROVE  ChoiceInv(proc[t])' /\ (~overlap' => ListedInv(proc[t])')
  <2>1. ChoiceInv(proc[t])'
    BY <1>1, <1>2 DEF ChoiceInv
  <2>2. ~overlap' => ListedInv(proc[t])'
    BY <1>1, <1>2, <1>4 DEF ListedInv
  <2> QED
    BY <2>1, <2>2
<1> QED
  BY <1>5, <1>6, <1>7, <1>8, <1>9 DEF SyncInv

(* A step that leaves the syncs and the list alone: worktrees may go, and a lock *)
(* file that nobody is writing.                                                  *)
LEMMA OutsideStep ==
    ASSUME SyncInv, server' \in Versions, worktree' \subseteq worktree,
           lock' = lock \/ (lock' = <<>> /\ \A s \in Syncs : proc[s].pc \notin Writing),
           UNCHANGED <<fetched, checkedOut, settings, list, gitdir, proc, runs, overlap>>
    PROVE  SyncInv'
<1>1. TypeOK /\ LockInv /\ AloneInv /\ WorktreeListed
      /\ \A t \in Syncs : ChoiceInv(proc[t]) /\ (~overlap => ListedInv(proc[t]))
  BY DEF SyncInv
<1>2. TypeOK'
  <2>1. lock' \in Seq([owner : Syncs, lines : Seq(Paths)]) /\ Len(lock') <= 1
    <3>1. CASE lock' = lock
      BY <1>1, <3>1 DEF TypeOK
    <3>2. CASE lock' = <<>>
      BY <3>2
    <3> QED
      BY <3>1, <3>2
  <2> QED
    BY <1>1, <2>1 DEF TypeOK
<1>3. LockInv'
  BY <1>1 DEF LockInv
<1>4. AloneInv'
  BY <1>1 DEF AloneInv, Running
<1>5. WorktreeListed'
  BY <1>1 DEF WorktreeListed
<1>6. ASSUME NEW t \in Syncs
      PROVE  ChoiceInv(proc[t])' /\ (~overlap' => ListedInv(proc[t])')
  <2>1. ChoiceInv(proc[t])'
    BY <1>1 DEF ChoiceInv
  <2>2. ~overlap' => ListedInv(proc[t])'
    BY <1>1 DEF ListedInv
  <2> QED
    BY <2>1, <2>2
<1> QED
  BY <1>2, <1>3, <1>4, <1>5, <1>6 DEF SyncInv

LEMMA OutsideInv ==
    ASSUME SyncInv, ServerPush \/ (\E p \in Paths : UserRemoves(p)) \/ UserRemovesLock
    PROVE  SyncInv'
<1>1. server \in Versions
  BY DEF SyncInv, TypeOK
<1>2. CASE ServerPush
  BY <1>2, OutsideStep DEF ServerPush
<1>3. CASE \E p \in Paths : UserRemoves(p)
  BY <1>1, <1>3, OutsideStep DEF UserRemoves
<1>4. CASE UserRemovesLock
  <2>1. \A s \in Syncs : proc[s].pc \notin Writing
    <3>1. ASSUME NEW s \in Syncs, proc[s].pc \in Writing
          PROVE  FALSE
      <4>1. lock = <<[owner |-> s, lines |-> WrittenLines(proc[s])]>>
        BY <3>1, WriterFacts
      <4>2. lock[1].owner = s
        BY <4>1
      <4> QED
        BY <1>4, <3>1, <4>2 DEF UserRemovesLock, Stale, Writing
    <3> QED
      BY <3>1
  <2> QED
    BY <1>1, <1>4, <2>1, OutsideStep DEF UserRemovesLock
<1> QED
  BY <1>2, <1>3, <1>4

-----------------------------------------------------------------------------
(* The theorems *)

(* Every step keeps the invariant. *)
LEMMA NextInv == SyncInv /\ [Next]_vars => SyncInv'
<1> SUFFICES ASSUME SyncInv, [Next]_vars
             PROVE  SyncInv'
  OBVIOUS
<1>1. CASE UNCHANGED vars
  <2>1. server \in Versions
    BY DEF SyncInv, TypeOK
  <2> QED
    BY <1>1, <2>1, OutsideStep DEF vars, disk
<1>2. ASSUME NEW s \in Syncs, NEW o \in OptionSet, Begin(s, o)
      PROVE  SyncInv'
  BY <1>2, BeginInv
<1>3. ASSUME NEW s \in Syncs, Step(s)
      PROVE  SyncInv'
  BY <1>3, UpdateInv, SelectInv, NetworkInv, LateInv, FetchedInv, ReadListInv, ObsoleteInv, RemoveInv,
     TakeLockInv, WriteLockInv, RenameInv, LocalHalfInv DEF Step
<1>4. ASSUME NEW s \in Syncs, Kill(s)
      PROVE  SyncInv'
  BY <1>4, KillInv
<1>5. ASSUME NEW g \in GroupSettings, InitGroups(g)
      PROVE  SyncInv'
  BY <1>5, InitGroupsInv
<1> QED
  BY <1>1, <1>2, <1>3, <1>4, <1>5, OutsideInv DEF Next

(* The invariant holds in every state of every behaviour. *)
THEOREM Invariant == Spec => []SyncInv
BY InitInv, NextInv, PTL DEF Spec

(* What is in project.list and its lock file are paths, and a sync holds only *)
(* paths of projects: UpdateProjectList never writes anything else.           *)
THEOREM TypeCorrect == Spec => []TypeOK
<1>1. SyncInv => TypeOK
  BY DEF SyncInv
<1> QED
  BY Invariant, <1>1, PTL

(* Every worktree that sync has made is on project.list until the user removes *)
(* it, through kills, failures and other manifests, unless commands overlap.   *)
THEOREM WorktreesListed == Spec => []WorktreeListed
<1>1. SyncInv => WorktreeListed
  BY DEF SyncInv
<1> QED
  BY Invariant, <1>1, PTL

(* project.list is replaced as a whole, by the paths of one sync, also by syncs *)
(* at the same time.                                                            *)
THEOREM ListReplacedWhole == Spec => ListWhole
<1> DEFINE Whole == list' # list =>
                      \E s \in Syncs : /\ proc[s].pc = "rename"
                                       /\ list' = proc[s].new \o proc[s].remains
<1>1. SyncInv /\ [Next]_vars => [Whole]_vars
  <2> SUFFICES ASSUME SyncInv, Next, list' # list
               PROVE  \E s \in Syncs : /\ proc[s].pc = "rename"
                                       /\ list' = proc[s].new \o proc[s].remains
    OBVIOUS
  <2>1. PICK s \in Syncs : RenameLock(s)
    BY DEF Next, Step, Begin, Kill, InitGroups, ServerPush, UserRemoves, UserRemovesLock, disk,
           updateManifestProject, Select, NetworkHalf, LateFetch, Fetched,
           ReadList, ObsoletePath,
           RemoveGitDir, TakeLock, WriteLock, LocalHalf
  <2>2. proc[s].pc = "rename" /\ list' = lock[1].lines
    BY <2>1 DEF RenameLock
  <2>3. lock = <<[owner |-> s, lines |-> WrittenLines(proc[s])]>>
    BY <2>2, WriterFacts DEF Writing
  <2>4. WrittenLines(proc[s]) = proc[s].new \o proc[s].remains
    BY <2>2 DEF WrittenLines
  <2>5. list' = proc[s].new \o proc[s].remains
    BY <2>2, <2>3, <2>4
  <2> QED
    BY <2>2, <2>5
<1> QED
  BY Invariant, <1>1, PTL DEF Spec, ListWhole

(* A sync that goes on in its checkout does so by LocalHalf, or is killed. *)
LEMMA CheckoutEnds ==
    ASSUME SyncInv, Next, NEW s \in Syncs, proc[s].pc = "checkout", proc'[s].result = "ok"
    PROVE  proc'[s] = proc[s] \/ LocalHalf(s)
<1>1. proc \in [Syncs -> Process]
  BY DEF SyncInv, TypeOK
<1>2. ASSUME NEW t \in Syncs, NEW o \in OptionSet, Begin(t, o)
      PROVE  proc'[s] = proc[s]
  BY <1>1, <1>2 DEF Begin, Running
<1>3. ASSUME NEW t \in Syncs, Kill(t)
      PROVE  proc'[s] = proc[s]
  <2>1. Ended("failed").result = "failed"
    BY EndedFacts
  <2> QED
    BY <1>1, <1>3, <2>1 DEF Kill
<1>4. ASSUME NEW t \in Syncs, Step(t), t # s
      PROVE  proc'[s] = proc[s]
  BY <1>1, <1>4 DEF Step, updateManifestProject, Select, NetworkHalf, LateFetch, Fetched, ReadList,
     ObsoletePath, RemoveGitDir, TakeLock, WriteLock, RenameLock, LocalHalf
<1>5. ASSUME Step(s), ~LateFetch(s)
      PROVE  LocalHalf(s)
  BY <1>5 DEF Step, updateManifestProject, Select, NetworkHalf, LateFetch, Fetched, ReadList,
     ObsoletePath, RemoveGitDir, TakeLock, WriteLock, RenameLock
<1>6. ASSUME LateFetch(s)
      PROVE  FALSE
  <2>1. proc[s].result = "none" /\ proc[s] \in Process
    BY <1>1 DEF SyncInv, ChoiceInv
  <2>2. PICK late : proc' = [proc EXCEPT ![s] = [proc[s] EXCEPT !.late = late]]
    BY <1>1, <1>6 DEF LateFetch
  <2>3. proc'[s].result = "none"
    BY <1>1, <2>1, <2>2 DEF Process
  <2> QED
    BY <2>3
<1> QED
  BY <1>2, <1>3, <1>4, <1>5, <1>6 DEF Next, InitGroups, ServerPush, UserRemoves, UserRemovesLock

(* A checkout that succeeds has made every directory, and nothing obsolete remains. *)
LEMMA CheckoutSucceeds ==
    ASSUME SyncInv, NEW s \in Syncs, LocalHalf(s), proc'[s].result = "ok"
    PROVE  worktree' = worktree \cup proc[s].projects /\ proc[s].remains = <<>>
<1>1. proc \in [Syncs -> Process]
  BY DEF SyncInv, TypeOK
<1>2. Ended("failed").result = "failed"
  BY EndedFacts
<1>3. PICK made \in SUBSET proc[s].projects :
         /\ worktree' = worktree \cup made
         /\ \/ proc' = [proc EXCEPT ![s] = Ended("failed")]
            \/ /\ made = proc[s].projects
               /\ proc' = [proc EXCEPT ![s] = Ended(IF proc[s].remains # <<>> THEN "failed" ELSE "ok")]
  BY DEF LocalHalf
<1>4. proc' # [proc EXCEPT ![s] = Ended("failed")]
  BY <1>1, <1>2
<1> QED
  BY <1>3, <1>4

(* A sync of all projects that reports success leaves exactly the worktrees of its *)
(* manifest, whatever was in the workspace before, unless commands overlap.        *)
THEOREM SuccessIsSynced == Spec => SuccessMeansSynced
<1> DEFINE Synced ==
             \A s \in Syncs :
                /\ proc[s].pc = "checkout" /\ proc'[s].result = "ok" /\ proc[s].o.args = "all"
                /\ ~overlap
                => worktree' = Selected(proc[s].version, proc[s].name, settings.groups)
<1>1. SyncInv /\ [Next]_vars => [Synced]_vars
  <2> SUFFICES ASSUME SyncInv, Next, NEW s \in Syncs, proc[s].pc = "checkout",
                      proc'[s].result = "ok", proc[s].o.args = "all", ~overlap
               PROVE  worktree' = Selected(proc[s].version, proc[s].name, settings.groups)
    OBVIOUS
  <2> DEFINE q == proc[s]
  <2>1. ChoiceInv(q) /\ ListedInv(q) /\ q.groups = settings.groups
    BY StepFacts
  <2>2. q.result = "none" /\ q.projects = All(q) /\ q.obsolete = <<>>
    BY <2>1 DEF ChoiceInv, Listing
  <2>3. LocalHalf(s)
    BY <2>2, CheckoutEnds
  <2>4. worktree' = worktree \cup q.projects /\ q.remains = <<>>
    BY <2>3, CheckoutSucceeds
  <2>5. ToSet(<<>>) = {}
    BY DEF ToSet
  <2>6. worktree \subseteq All(q)
    BY <2>1, <2>2, <2>4, <2>5 DEF ListedInv, Listing
  <2>7. worktree' = All(q)
    BY <2>2, <2>4, <2>6
  <2> QED
    BY <2>1, <2>7 DEF All
<1> QED
  BY Invariant, <1>1, PTL DEF Spec, SuccessMeansSynced
=============================================================================
