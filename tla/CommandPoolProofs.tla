------------------------- MODULE CommandPoolProofs --------------------------
(***************************************************************************)
(* For any number of projects and jobs, any selection and any worktrees:   *)
(* forall runs its command exactly once in each project, and status prints *)
(* what is in the worktrees.  The second rests on what the operators of    *)
(* status compute for every input, which is proved by least counterexample *)
(* in place of induction: parseGitStatus reads back what git prints, and   *)
(* combineGitStatus has a line for each path.                              *)
(***************************************************************************)
EXTENDS CommandPool, NatSets

-----------------------------------------------------------------------------
(* Scanning a list: what Encode and parseGitStatus are built from *)

(* A scan collects the parts of a list from a place on, and goes from each *)
(* place to a later one until it stops.                                    *)
Scans(f, n, Stop, part, next) ==
    f = [i \in 1..n |-> IF i \in Stop THEN <<>> ELSE part[i] \o f[next[i]]]

(* A scan ends. *)
LEMMA ScanExists ==
    ASSUME NEW n \in Nat, NEW Stop, NEW part, NEW next,
           \A i \in 1..n : i \notin Stop => next[i] \in i + 1..n
    PROVE  \E f : Scans(f, n, Stop, part, next)
<1> DEFINE Step(f, i) == IF i \in Stop THEN <<>> ELSE part[i] \o f[next[i]]
           Has(k) == \E f : f = [i \in k..n |-> Step(f, i)]
           S == {k \in 1..n + 1 : Has(k)}
<1>1. ASSUME NEW k \in 1..n, Has(k + 1)
      PROVE  Has(k)
  <2>1. PICK f : f = [i \in k + 1..n |-> Step(f, i)]
    BY <1>1
  <2> DEFINE g == [i \in k..n |-> Step(f, i)]
  <2>2. \A i \in k + 1..n : g[i] = f[i]
    <3>1. \A i \in k + 1..n : f[i] = Step(f, i)
      <4> HIDE DEF Step
      <4> QED
        BY <2>1
    <3>2. \A i \in k + 1..n : i \in k..n
      OBVIOUS
    <3> QED
      BY <3>1, <3>2
  <2>3. \A i \in k..n : Step(f, i) = Step(g, i)
    <3> SUFFICES ASSUME NEW i \in k..n, i \notin Stop
                 PROVE  f[next[i]] = g[next[i]]
      OBVIOUS
    <3>1. next[i] \in i + 1..n
      OBVIOUS
    <3>2. next[i] \in k + 1..n
      BY <3>1
    <3> QED
      BY <2>2, <3>2
  <2>4. g = [i \in k..n |-> Step(g, i)]
    <3>1. g = [i \in k..n |-> Step(f, i)]
      OBVIOUS
    <3> HIDE DEF g, Step
    <3> QED
      BY <2>3, <3>1
  <2> QED
    BY <2>4
<1>2. Has(n + 1)
  <2>1. n + 1..n = {}
    OBVIOUS
  <2> DEFINE f == [i \in n + 1..n |-> <<>>]
  <2>2. f = [i \in n + 1..n |-> Step(f, i)]
    BY <2>1
  <2> QED
    BY <2>2
<1>3. Has(1)
  <2> HIDE DEF Has
  <2>1. ASSUME NEW k \in 1..n + 1, \A l \in k + 1..n + 1 : l \in S
        PROVE  k \in S
    <3>1. CASE k = n + 1
      BY <1>2, <3>1
    <3>2. CASE k # n + 1
      <4>1. k \in 1..n /\ k + 1 \in k + 1..n + 1
        BY <3>2
      <4>2. Has(k + 1)
        BY <2>1, <4>1
      <4> QED
        BY <1>1, <4>1, <4>2
    <3> QED
      BY <3>1, <3>2
  <2>2. n + 1 \in Nat
    OBVIOUS
  <2> HIDE DEF S
  <2>3. 1..n + 1 \subseteq S
    BY <2>1, <2>2, DownInduction
  <2>4. 1 \in S
    BY <2>3
  <2> QED
    BY <2>4 DEF S
<1> QED
  BY <1>3 DEF Scans

(* What git prints: the tokens of each entry, from a place on. *)
Prints(e, x) ==
    e = [i \in 1..Len(x) + 1 |-> IF i > Len(x) THEN <<>> ELSE TokensOf(x[i]) \o e[i + 1]]

(* Encode is such a scan. *)
LEMMA EncodeScans ==
    ASSUME NEW x \in Seq(Entries)
    PROVE  \E e : Prints(e, x) /\ Encode(x) = e[1]
<1> DEFINE m == Len(x)
           Stop == {m + 1}
           part == [i \in 1..m |-> TokensOf(x[i])]
           next == [i \in 1..m |-> i + 1]
<1>1. m \in Nat /\ m + 1 \in Nat
  OBVIOUS
<1>2. \A i \in 1..m + 1 : i \notin Stop => next[i] \in i + 1..m + 1
  BY <1>1
<1>3. \E e : Prints(e, x)
  <2>1. PICK e : Scans(e, m + 1, Stop, part, next)
    <3> HIDE DEF m, Stop, part, next
    <3> QED
      BY <1>1, <1>2, ScanExists
  <2>2. \A i \in 1..m + 1 : i \in Stop <=> i > m
    BY <1>1
  <2>3. \A i \in 1..m + 1 : ~(i > m) => part[i] = TokensOf(x[i]) /\ next[i] = i + 1
    BY <1>1
  <2> HIDE DEF m, Stop, part, next
  <2>4. e = [i \in 1..m + 1 |-> IF i > m THEN <<>> ELSE TokensOf(x[i]) \o e[i + 1]]
    BY <2>1, <2>2, <2>3 DEF Scans
  <2> QED
    BY <2>4 DEF m, Prints
<1> DEFINE e == CHOOSE e : Prints(e, x)
<1>4. Prints(e, x)
  BY <1>3
<1>5. Encode(x) = e[1]
  BY DEF Encode, Prints
<1> QED
  BY <1>4, <1>5

(* How it is read: the entries from a place on. *)
Reads(f, out) ==
    f = [i \in 1..Len(out) + 1 |->
            IF i = Len(out) + 1 \/ out[i].mode = "path" \/ i + Tokens(out[i].mode) > Len(out) + 1
            THEN <<>>
            ELSE <<EntryAt(out, i)>> \o f[i + Tokens(out[i].mode)]]

(* parseGitStatus is such a scan. *)
LEMMA ParseScans ==
    ASSUME NEW out \in Outputs
    PROVE  \E f : Reads(f, out) /\ parseGitStatus(out) = f[1]
<1> DEFINE end == Len(out) + 1
           Stop == {i \in 1..end : i = end \/ out[i].mode = "path" \/ i + Tokens(out[i].mode) > end}
           part == [i \in 1..end |-> <<EntryAt(out, i)>>]
           next == [i \in 1..end |-> i + Tokens(out[i].mode)]
<1>1. end \in Nat
  BY DEF Outputs
<1>2. \A i \in 1..end : i \notin Stop => next[i] \in i + 1..end
  <2> SUFFICES ASSUME NEW i \in 1..end, i \notin Stop
               PROVE  next[i] \in i + 1..end
    OBVIOUS
  <2>1. Tokens(out[i].mode) \in {2, 3}
    BY DEF Tokens
  <2>2. ~(i + Tokens(out[i].mode) > end) /\ next[i] = i + Tokens(out[i].mode)
    OBVIOUS
  <2> HIDE DEF Stop, next, end
  <2> QED
    BY <1>1, <2>1, <2>2
<1>3. \E f : Reads(f, out)
  <2>1. PICK f : Scans(f, end, Stop, part, next)
    <3> HIDE DEF end, Stop, part, next
    <3> QED
      BY <1>1, <1>2, ScanExists
  <2>2. \A i \in 1..end : i \in Stop <=>
              i = end \/ out[i].mode = "path" \/ i + Tokens(out[i].mode) > end
    OBVIOUS
  <2>3. \A i \in 1..end : part[i] = <<EntryAt(out, i)>> /\ next[i] = i + Tokens(out[i].mode)
    OBVIOUS
  <2> HIDE DEF end, Stop, part, next
  <2>4. f = [i \in 1..end |->
            IF i = end \/ out[i].mode = "path" \/ i + Tokens(out[i].mode) > end
            THEN <<>>
            ELSE <<EntryAt(out, i)>> \o f[i + Tokens(out[i].mode)]]
    BY <2>1, <2>2, <2>3 DEF Scans
  <2> QED
    BY <2>4 DEF end, Reads
<1> DEFINE f == CHOOSE f : Reads(f, out)
<1>4. Reads(f, out)
  BY <1>3
<1>5. parseGitStatus(out) = f[1]
  BY DEF parseGitStatus, Reads
<1> QED
  BY <1>4, <1>5

(* The tokens of an entry say what it is. *)
LEMMA EntryFacts ==
    ASSUME NEW e \in Entries
    PROVE  LET t == TokensOf(e)
           IN  /\ t \in Outputs /\ Len(t) = Tokens(e.mode)
               /\ t[1].mode = e.mode /\ e.mode # "path" /\ t[Len(t)].path = e.path
               /\ Tokens(e.mode) \in {2, 3}
               /\ Tokens(e.mode) = 3 => t[2].path = e.src
               /\ e = Entry(e.mode, IF Tokens(e.mode) = 3 THEN e.src ELSE 0, e.path)
<1>1. e.mode \in Modes /\ e.src \in Nat /\ e.path \in Nat /\ e.mode # "path"
  BY DEF Entries, Modes
<1>2. e = [mode |-> e.mode, src |-> e.src, path |-> e.path] /\ (e.mode \notin TwoPaths => e.src = 0)
  BY DEF Entries
<1>3. \A a \in Modes \cup {"path"}, b \in Nat : Token(a, b) \in [mode : Modes \cup {"path"}, path : Nat]
  BY DEF Token
<1>4. \A a \in Modes, b, c \in Nat :
        /\ <<Token(a, 0), Token("path", b)>> \in Outputs
        /\ <<Token(a, 0), Token("path", b), Token("path", c)>> \in Outputs
  <2> SUFFICES ASSUME NEW a \in Modes, NEW b \in Nat, NEW c \in Nat
               PROVE  /\ <<Token(a, 0), Token("path", b)>> \in Outputs
                      /\ <<Token(a, 0), Token("path", b), Token("path", c)>> \in Outputs
    OBVIOUS
  <2> DEFINE T == [mode : Modes \cup {"path"}, path : Nat]
  <2>1. Token(a, 0) \in T /\ Token("path", b) \in T /\ Token("path", c) \in T
    BY <1>3
  <2>2. Outputs = Seq(T)
    BY DEF Outputs
  <2> HIDE DEF T
  <2> QED
    BY <2>1, <2>2
<1>5. CASE e.mode \in TwoPaths
  <2>1. TokensOf(e) = <<Token(e.mode, 0), Token("path", e.src), Token("path", e.path)>>
    BY <1>5 DEF TokensOf
  <2>2. TokensOf(e) \in Outputs
    BY <1>1, <1>4, <2>1
  <2>3. Tokens(e.mode) = 3
    BY <1>5 DEF Tokens
  <2>4. Len(TokensOf(e)) = 3 /\ TokensOf(e)[1] = Token(e.mode, 0)
        /\ TokensOf(e)[2] = Token("path", e.src) /\ TokensOf(e)[3] = Token("path", e.path)
    BY <2>1
  <2> QED
    BY <1>1, <1>2, <2>2, <2>3, <2>4 DEF Token, Entry
<1>6. CASE e.mode \notin TwoPaths
  <2>1. TokensOf(e) = <<Token(e.mode, 0), Token("path", e.path)>>
    BY <1>6 DEF TokensOf
  <2>2. TokensOf(e) \in Outputs
    BY <1>1, <1>4, <2>1
  <2>3. Tokens(e.mode) = 2
    BY <1>6 DEF Tokens
  <2>4. Len(TokensOf(e)) = 2 /\ TokensOf(e)[1] = Token(e.mode, 0)
        /\ TokensOf(e)[2] = Token("path", e.path)
    BY <2>1
  <2> QED
    BY <1>1, <1>2, <1>6, <2>2, <2>3, <2>4 DEF Token, Entry
<1> QED
  BY <1>5, <1>6

(* What is printed from a place on is a list of tokens. *)
LEMMA PrintFacts ==
    ASSUME NEW x \in Seq(Entries), NEW e, Prints(e, x)
    PROVE  /\ \A i \in 1..Len(x) + 1 : e[i] \in Outputs
           /\ e[Len(x) + 1] = <<>>
           /\ \A i \in 1..Len(x) : e[i] = TokensOf(x[i]) \o e[i + 1]
<1> DEFINE m == Len(x)
           S == {i \in 1..m + 1 : e[i] \in Outputs}
<1>1. m \in Nat /\ m + 1 \in Nat /\ \A i \in 1..m : x[i] \in Entries
  OBVIOUS
<1>2. \A i \in 1..m + 1 : e[i] = IF i > m THEN <<>> ELSE TokensOf(x[i]) \o e[i + 1]
  BY DEF Prints
<1> HIDE DEF m
<1>3. e[m + 1] = <<>> /\ \A i \in 1..m : e[i] = TokensOf(x[i]) \o e[i + 1]
  <2>1. m + 1 \in 1..m + 1 /\ m + 1 > m
    BY <1>1
  <2>2. \A i \in 1..m : i \in 1..m + 1 /\ ~(i > m)
    BY <1>1
  <2> QED
    BY <1>2, <2>1, <2>2
<1>4. ASSUME NEW k \in 1..m + 1, \A l \in k + 1..m + 1 : l \in S
      PROVE  k \in S
  <2>1. CASE k = m + 1
    <3>1. <<>> \in Outputs
      BY DEF Outputs
    <3> QED
      BY <1>3, <2>1, <3>1
  <2>2. CASE k # m + 1
    <3>1. k \in 1..m /\ k + 1 \in k + 1..m + 1
      BY <1>1, <2>2
    <3>2. e[k + 1] \in Outputs
      BY <1>4, <3>1
    <3>3. TokensOf(x[k]) \in Outputs
      BY <1>1, <3>1, EntryFacts
    <3>4. TokensOf(x[k]) \o e[k + 1] \in Outputs
      BY <3>2, <3>3 DEF Outputs
    <3> QED
      BY <1>3, <3>1, <3>4
  <2> QED
    BY <2>1, <2>2
<1>5. 1..m + 1 \subseteq S
  <2> HIDE DEF S
  <2> QED
    BY <1>1, <1>4, DownInduction
<1> QED
  BY <1>3, <1>5 DEF m

(* It is the end of what is printed. *)
Ends(e, i) ==
    /\ Len(e[i]) <= Len(e[1])
    /\ \A k \in 1..Len(e[i]) : e[1][Len(e[1]) - Len(e[i]) + k] = e[i][k]

(* From every place on, the end of all that is printed. *)
LEMMA PrintEnds ==
    ASSUME NEW x \in Seq(Entries), NEW e, Prints(e, x)
    PROVE  \A i \in 1..Len(x) + 1 : Ends(e, i)
<1> DEFINE m == Len(x)
           out == e[1]
           End(i) == /\ Len(e[i]) <= Len(out)
                     /\ \A k \in 1..Len(e[i]) : out[Len(out) - Len(e[i]) + k] = e[i][k]
           S == {j \in Nat : j + 1 \in 1..m + 1 => End(j + 1)}
<1>1. m \in Nat /\ \A i \in 1..m : x[i] \in Entries
  OBVIOUS
<1>2. /\ \A i \in 1..m + 1 : e[i] \in Outputs
      /\ \A i \in 1..m : e[i] = TokensOf(x[i]) \o e[i + 1]
  BY PrintFacts
<1> HIDE DEF m
<1>3. \A i \in 1..m + 1 : Len(e[i]) \in Nat
  BY <1>2 DEF Outputs
<1>4. 0 \in S
  <2>1. 1 \in 1..m + 1
    BY <1>1
  <2>2. Len(out) \in Nat
    BY <1>3, <2>1
  <2>3. End(1)
    BY <2>2
  <2> HIDE DEF End
  <2> QED
    BY <2>3
<1>5. ASSUME NEW j \in Nat, j \in S
      PROVE  j + 1 \in S
  <2> DEFINE i == j + 1
  <2> SUFFICES ASSUME i + 1 \in 1..m + 1
               PROVE  End(i + 1)
    <3> HIDE DEF End
    <3> QED
      OBVIOUS
  <2>1. i \in 1..m /\ i \in 1..m + 1 /\ End(i)
    <3>1. i \in 1..m /\ i \in 1..m + 1
      BY <1>1
    <3> HIDE DEF End
    <3> QED
      BY <1>5, <3>1
  <2> HIDE DEF i, S
  <2>2. PICK t : t = TokensOf(x[i])
    OBVIOUS
  <2>3. t \in Outputs /\ e[i] = t \o e[i + 1] /\ e[i + 1] \in Outputs /\ out \in Outputs
    <3>1. 1 \in 1..m + 1
      BY <1>1
    <3> QED
      BY <1>1, <1>2, <2>1, <2>2, <3>1, EntryFacts
  <2>4. PICK rest, here : rest = e[i + 1] /\ here = e[i]
    OBVIOUS
  <2>5. /\ Len(here) = Len(t) + Len(rest)
        /\ \A k \in 1..Len(rest) : here[Len(t) + k] = rest[k]
    BY <2>3, <2>4 DEF Outputs
  <2>6. Len(t) \in Nat /\ Len(rest) \in Nat /\ Len(here) \in Nat /\ Len(out) \in Nat
    BY <2>3, <2>4, <2>5 DEF Outputs
  <2>7. /\ Len(here) <= Len(out)
        /\ \A k \in 1..Len(here) : out[Len(out) - Len(here) + k] = here[k]
    BY <2>1, <2>4
  <2> HIDE DEF out
  <2>8. ASSUME NEW k \in 1..Len(rest)
        PROVE  out[Len(out) - Len(rest) + k] = rest[k]
    <3>1. Len(t) + k \in 1..Len(here)
      BY <2>5, <2>6
    <3>2. Len(out) - Len(here) + (Len(t) + k) = Len(out) - Len(rest) + k
      BY <2>5, <2>6
    <3>3. out[Len(out) - Len(here) + (Len(t) + k)] = here[Len(t) + k]
      BY <2>7, <3>1
    <3> QED
      BY <2>5, <3>2, <3>3
  <2>9. Len(rest) <= Len(out)
    BY <2>5, <2>6, <2>7
  <2> HIDE DEF End
  <2>10. End(i + 1) <=> /\ Len(rest) <= Len(out)
                        /\ \A k \in 1..Len(rest) : out[Len(out) - Len(rest) + k] = rest[k]
    BY <2>4 DEF End
  <2> QED
    BY <2>8, <2>9, <2>10
<1>6. Nat \subseteq S
  <2> HIDE DEF S
  <2> QED
    BY <1>4, <1>5, UpInduction
<1>7. ASSUME NEW i \in 1..m + 1
      PROVE  End(i)
  <2>1. i - 1 \in Nat /\ (i - 1) + 1 = i
    BY <1>1
  <2>2. i - 1 \in S
    BY <1>6, <2>1
  <2> HIDE DEF End
  <2> QED
    BY <2>1, <2>2
<1> QED
  BY <1>7 DEF m, Ends

(* parseGitStatus reads what git prints: every entry, a rename or a copy   *)
(* with both its paths, and no other.                                      *)
LEMMA ParseEncode ==
    ASSUME NEW x \in Seq(Entries)
    PROVE  Encode(x) \in Outputs /\ parseGitStatus(Encode(x)) = x
<1> DEFINE m == Len(x)
<1>1. PICK e : Prints(e, x) /\ Encode(x) = e[1]
  BY EncodeScans
<1>2. /\ \A i \in 1..m + 1 : e[i] \in Outputs
      /\ e[m + 1] = <<>>
      /\ \A i \in 1..m : e[i] = TokensOf(x[i]) \o e[i + 1]
  BY <1>1, PrintFacts
<1>3. \A i \in 1..m + 1 : Ends(e, i)
  BY <1>1, PrintEnds
<1>4. m \in Nat /\ m + 1 \in Nat /\ 1 \in 1..m + 1 /\ \A i \in 1..m : x[i] \in Entries
  OBVIOUS
<1>5. PICK out : out = Encode(x)
  OBVIOUS
<1>6. out = e[1] /\ out \in Outputs
  BY <1>1, <1>2, <1>4, <1>5
<1>7. PICK f : Reads(f, out) /\ parseGitStatus(out) = f[1]
  BY <1>6, ParseScans
<1>8. Len(out) \in Nat /\ \A i \in 1..m + 1 : Len(e[i]) \in Nat
  BY <1>2, <1>6 DEF Outputs
<1> DEFINE pos(i) == Len(out) - Len(e[i]) + 1
           S == {i \in 1..m + 1 : f[pos(i)] = SubSeq(x, i, m)}
<1>9. ASSUME NEW i \in 1..m + 1, \A l \in i + 1..m + 1 : l \in S
      PROVE  i \in S
  <2>1. CASE i = m + 1
    <3>1. pos(i) = Len(out) + 1
      <4>1. Len(e[m + 1]) = 0
        BY <1>2
      <4> QED
        BY <1>8, <2>1, <4>1
    <3>2. Len(out) + 1 \in 1..Len(out) + 1
      BY <1>8
    <3>3. f[Len(out) + 1] = <<>>
      BY <1>7, <3>2 DEF Reads
    <3>4. SubSeq(x, m + 1, m) = <<>>
      BY <1>4
    <3> QED
      BY <2>1, <3>1, <3>3, <3>4
  <2>2. CASE i # m + 1
    <3>1. i \in 1..m /\ i + 1 \in i + 1..m + 1 /\ i + 1 \in 1..m + 1
      BY <1>4, <2>2
    <3>2. PICK t, c, y : t = TokensOf(x[i]) /\ c = Tokens(x[i].mode) /\ y = x[i]
      OBVIOUS
    <3>3. /\ t \in Outputs /\ Len(t) = c /\ c \in {2, 3}
          /\ t[1].mode = y.mode /\ y.mode # "path" /\ t[c].path = y.path
          /\ c = 3 => t[2].path = y.src
          /\ y = Entry(y.mode, IF c = 3 THEN y.src ELSE 0, y.path)
      BY <1>4, <3>1, <3>2, EntryFacts
    <3>4. PICK here, rest : here = e[i] /\ rest = e[i + 1]
      OBVIOUS
    <3>5. here = t \o rest /\ rest \in Outputs
      BY <1>2, <3>1, <3>2, <3>4
    <3>6. Len(here) = c + Len(rest) /\ \A k \in 1..c : here[k] = t[k]
      BY <3>3, <3>5 DEF Outputs
    <3>7. Len(rest) \in Nat /\ Len(here) \in Nat /\ Len(here) <= Len(out)
      BY <1>3, <1>6, <1>8, <3>1, <3>4 DEF Ends
    <3>8. PICK at : at = pos(i)
      OBVIOUS
    <3>9. at \in 1..Len(out) /\ at + c = pos(i + 1) /\ at + c \in 1..Len(out) + 1
      <4>1. at = Len(out) - Len(here) + 1 /\ pos(i + 1) = Len(out) - Len(rest) + 1
        BY <3>4, <3>8
      <4> HIDE DEF pos, S, m
      <4> QED
        BY <1>8, <3>3, <3>6, <3>7, <4>1
    <3>10. ASSUME NEW k \in 1..c
           PROVE  out[at + k - 1] = t[k]
      <4>1. k \in 1..Len(here)
        BY <3>3, <3>6, <3>7
      <4>2. out[Len(out) - Len(here) + k] = here[k]
        BY <1>3, <1>6, <3>1, <3>4, <4>1 DEF Ends
      <4>3. Len(out) - Len(here) + k = at + k - 1
        BY <1>8, <3>4, <3>7, <3>8
      <4> QED
        BY <3>6, <4>2, <4>3
    <3>11. /\ out[at] = t[1] /\ out[at + c - 1] = t[c]
           /\ out[at + 1] = t[2]
      <4>1. 1 \in 1..c /\ c \in 1..c /\ 2 \in 1..c /\ at + 1 - 1 = at /\ at + 2 - 1 = at + 1
        BY <3>3, <3>9
      <4>2. out[at + 1 - 1] = t[1] /\ out[at + 2 - 1] = t[2] /\ out[at + c - 1] = t[c]
        BY <3>10, <4>1
      <4> QED
        BY <4>1, <4>2
    <3>12. out[at].mode = y.mode /\ Tokens(out[at].mode) = c
      BY <3>2, <3>3, <3>11
    <3>13. EntryAt(out, at) = y
      BY <3>3, <3>11, <3>12 DEF EntryAt
    <3>14. f[at] = <<y>> \o f[at + c]
      <4>1. at \in 1..Len(out) + 1 /\ at # Len(out) + 1 /\ ~ (at + c > Len(out) + 1)
        BY <1>8, <3>9
      <4>2. out[at].mode # "path"
        BY <3>3, <3>12
      <4>3. f[at] = IF at = Len(out) + 1 \/ out[at].mode = "path"
                       \/ at + Tokens(out[at].mode) > Len(out) + 1
                    THEN <<>>
                    ELSE <<EntryAt(out, at)>> \o f[at + Tokens(out[at].mode)]
        BY <1>7, <4>1 DEF Reads
      <4> QED
        BY <3>12, <3>13, <4>1, <4>2, <4>3
    <3>15. f[at + c] = SubSeq(x, i + 1, m)
      BY <1>9, <3>1, <3>9
    <3>16. <<x[i]>> \o SubSeq(x, i + 1, m) = SubSeq(x, i, m)
      <4> HIDE DEF S, pos
      <4> QED
        BY <1>4, <3>1
    <3> QED
      BY <3>1, <3>2, <3>8, <3>14, <3>15, <3>16
  <2> QED
    BY <2>1, <2>2
<1>10. 1 \in S
  <2>1. 1..m + 1 \subseteq S
    <3> HIDE DEF S
    <3> QED
      BY <1>4, <1>9, DownInduction
  <2> QED
    BY <1>4, <2>1
<1>11. pos(1) = 1
  BY <1>6, <1>8
<1>12. SubSeq(x, 1, m) = x
  BY <1>4
<1>13. parseGitStatus(out) = x
  BY <1>7, <1>10, <1>11, <1>12
<1> QED
  BY <1>5, <1>6, <1>13

-----------------------------------------------------------------------------
(* The lines: combineGitStatus *)

(* Two lists, one after the other. *)
LEMMA ConcatFacts ==
    ASSUME NEW A \in Seq(Nat), NEW B \in Seq(Nat)
    PROVE  /\ A \o B \in Seq(Nat) /\ ToSet(A \o B) = ToSet(A) \cup ToSet(B)
           /\ DOMAIN (A \o B) = 1..Len(A) + Len(B)
           /\ \A i \in DOMAIN A : (A \o B)[i] = A[i]
           /\ \A j \in DOMAIN B : (A \o B)[Len(A) + j] = B[j]
           /\ \A k \in 1..Len(A) + Len(B) :
                  k \in DOMAIN A \/ (k - Len(A) \in DOMAIN B /\ Len(A) + (k - Len(A)) = k)
<1>1. PICK K : K = A \o B
  OBVIOUS
<1>2. Len(A) \in Nat /\ Len(B) \in Nat /\ DOMAIN A = 1..Len(A) /\ DOMAIN B = 1..Len(B)
  OBVIOUS
<1>3. /\ K \in Seq(Nat) /\ DOMAIN K = 1..Len(A) + Len(B)
      /\ \A i \in DOMAIN A : K[i] = A[i]
      /\ \A j \in DOMAIN B : K[Len(A) + j] = B[j]
  BY <1>1
<1>4. /\ \A i \in DOMAIN A : i \in DOMAIN K
      /\ \A j \in DOMAIN B : Len(A) + j \in DOMAIN K
      /\ \A k \in DOMAIN K : k \in DOMAIN A \/ (k - Len(A) \in DOMAIN B /\ Len(A) + (k - Len(A)) = k)
  <2>1. \A m, n \in Nat :
          /\ \A i \in 1..m : i \in 1..m + n
          /\ \A j \in 1..n : m + j \in 1..m + n
          /\ \A k \in 1..m + n : k \in 1..m \/ (k - m \in 1..n /\ m + (k - m) = k)
    OBVIOUS
  <2> QED
    BY <1>2, <1>3, <2>1
<1>5. \A k \in DOMAIN K : K[k] \in ToSet(A) \cup ToSet(B)
  <2> SUFFICES ASSUME NEW k \in DOMAIN K
               PROVE  K[k] \in ToSet(A) \cup ToSet(B)
    OBVIOUS
  <2>1. CASE k \in DOMAIN A
    BY <1>3, <2>1 DEF ToSet
  <2>2. CASE k - Len(A) \in DOMAIN B /\ Len(A) + (k - Len(A)) = k
    <3>1. K[k] = B[k - Len(A)]
      BY <1>3, <2>2
    <3> QED
      BY <2>2, <3>1 DEF ToSet
  <2> QED
    BY <1>4, <2>1, <2>2
<1>6. ToSet(K) = ToSet(A) \cup ToSet(B)
  <2>1. ToSet(K) \subseteq ToSet(A) \cup ToSet(B)
    BY <1>5 DEF ToSet
  <2>2. ToSet(A) \subseteq ToSet(K)
    BY <1>3, <1>4 DEF ToSet
  <2>3. ToSet(B) \subseteq ToSet(K)
    BY <1>3, <1>4 DEF ToSet
  <2> QED
    BY <2>1, <2>2, <2>3
<1> QED
  BY <1>1, <1>3, <1>4, <1>6

(* Two lists of which each has a path once: both have it, or one. *)
LEMMA ConcatCounts ==
    ASSUME NEW A \in Seq(Nat), NEW B \in Seq(Nat), IsInjective(A), IsInjective(B),
           NEW x \in ToSet(A) \cup ToSet(B)
    PROVE  LET At == {k \in DOMAIN (A \o B) : (A \o B)[k] = x}
           IN  Cardinality(At) = IF x \in ToSet(A) \cap ToSet(B) THEN 2 ELSE 1
<1>1. PICK K, At : K = A \o B /\ At = {k \in DOMAIN (A \o B) : (A \o B)[k] = x}
  OBVIOUS
<1>2. Len(A) \in Nat /\ DOMAIN A = 1..Len(A) /\ DOMAIN B = 1..Len(B)
  OBVIOUS
<1>3. /\ DOMAIN K = 1..Len(A) + Len(B)
      /\ \A i \in DOMAIN A : K[i] = A[i]
      /\ \A j \in DOMAIN B : K[Len(A) + j] = B[j]
      /\ \A k \in DOMAIN K : k \in DOMAIN A \/ (k - Len(A) \in DOMAIN B /\ Len(A) + (k - Len(A)) = k)
  BY <1>1, ConcatFacts
<1>4. /\ \A i \in DOMAIN A : i \in DOMAIN K
      /\ \A j \in DOMAIN B : Len(A) + j \in DOMAIN K
  BY <1>2, <1>3
<1>5. At = {k \in DOMAIN K : K[k] = x}
  BY <1>1
<1>6. /\ \A i, j \in DOMAIN A : A[i] = A[j] => i = j
      /\ \A i, j \in DOMAIN B : B[i] = B[j] => i = j
  BY DEF IsInjective
<1>7. /\ \A i \in DOMAIN A : A[i] = x => i \in At
      /\ \A j \in DOMAIN B : B[j] = x => Len(A) + j \in At
  BY <1>3, <1>4, <1>5
<1>8. \A k \in At : \/ k \in DOMAIN A /\ A[k] = x
                    \/ \E j \in DOMAIN B : k = Len(A) + j /\ B[j] = x
  BY <1>3, <1>5
<1>9. CASE x \in ToSet(A) /\ x \notin ToSet(B)
  <2>1. PICK i \in DOMAIN A : A[i] = x
    BY <1>9 DEF ToSet
  <2>2. \A j \in DOMAIN B : B[j] # x
    BY <1>9 DEF ToSet
  <2>3. At = {i}
    <3>1. At \subseteq {i}
      BY <1>6, <1>8, <2>1, <2>2
    <3>2. i \in At
      BY <1>7, <2>1, <2>2
    <3> QED
      BY <3>1, <3>2
  <2> QED
    BY <1>1, <1>9, <2>3, FS_Singleton
<1>10. CASE x \notin ToSet(A) /\ x \in ToSet(B)
  <2>1. PICK j \in DOMAIN B : B[j] = x
    BY <1>10 DEF ToSet
  <2>2. \A i \in DOMAIN A : A[i] # x
    BY <1>10 DEF ToSet
  <2>3. At = {Len(A) + j}
    <3>1. At \subseteq {Len(A) + j}
      BY <1>6, <1>8, <2>1, <2>2
    <3>2. Len(A) + j \in At
      BY <1>2, <1>7, <2>1
    <3> QED
      BY <3>1, <3>2
  <2> QED
    BY <1>1, <1>10, <2>3, FS_Singleton
<1>11. CASE x \in ToSet(A) /\ x \in ToSet(B)
  <2>1. PICK i \in DOMAIN A : A[i] = x
    BY <1>11 DEF ToSet
  <2>2. PICK j \in DOMAIN B : B[j] = x
    BY <1>11 DEF ToSet
  <2>3. At = {i} \cup {Len(A) + j}
    <3>1. At \subseteq {i} \cup {Len(A) + j}
      BY <1>6, <1>8, <2>1, <2>2
    <3>2. i \in At /\ Len(A) + j \in At
      BY <1>7, <2>1, <2>2
    <3> QED
      BY <3>1, <3>2
  <2>4. Len(A) + j \notin {i}
    BY <1>2, <2>1, <2>2
  <2>5. IsFiniteSet({i}) /\ Cardinality({i}) = 1
    BY FS_Singleton
  <2>6. Cardinality({i} \cup {Len(A) + j}) = 1 + 1
    BY <2>4, <2>5, FS_AddElement
  <2> QED
    BY <1>1, <1>11, <2>3, <2>6, 1 + 1 = 2
<1> QED
  BY <1>9, <1>10, <1>11

(* Sorting moves the places of a path, and keeps their number. *)
LEMMA SortedCounts ==
    ASSUME NEW s \in Seq(Nat), NEW x
    PROVE  Cardinality({k \in DOMAIN Sorted(s) : Sorted(s)[k] = x})
               = Cardinality({k \in DOMAIN s : s[k] = x})
<1>1. PICK p \in Bijection(DOMAIN s, DOMAIN s) : Sorted(s) = [i \in DOMAIN s |-> s[p[i]]]
  BY SortedMoves
<1>2. /\ p \in [DOMAIN s -> DOMAIN s]
      /\ \A i, j \in DOMAIN s : p[i] = p[j] => i = j
      /\ \A i \in DOMAIN s : \E j \in DOMAIN s : p[j] = i
  BY <1>1 DEF Bijection, Injection, Surjection, IsInjective
<1> DEFINE From == {k \in DOMAIN s : s[p[k]] = x}
           To == {k \in DOMAIN s : s[k] = x}
           q == [k \in From |-> p[k]]
<1>3. {k \in DOMAIN Sorted(s) : Sorted(s)[k] = x} = From
  BY <1>1
<1>4. q \in Bijection(From, To)
  <2>1. q \in [From -> To]
    BY <1>2
  <2>2. \A i, j \in From : q[i] = q[j] => i = j
    BY <1>2
  <2>3. \A i \in To : \E j \in From : q[j] = i
    BY <1>2
  <2> HIDE DEF q, From, To
  <2>4. DOMAIN q = From
    BY <2>1
  <2> QED
    BY <2>1, <2>2, <2>3, <2>4 DEF Bijection, Injection, Surjection, IsInjective
<1>5. IsFiniteSet(From)
  <2>1. IsFiniteSet(1..Len(s)) /\ DOMAIN s = 1..Len(s)
    BY FS_Interval
  <2>2. From \subseteq 1..Len(s)
    BY <2>1
  <2> QED
    BY <2>1, <2>2, FS_Subset
<1> HIDE DEF From, q
<1>6. Cardinality(To) = Cardinality(From)
  <2> HIDE DEF To
  <2> QED
    BY <1>4, <1>5, FS_Bijection DEF ExistsBijection
<1> QED
  BY <1>3, <1>6

(* Paths of entries, and the entry of a path. *)
LEMMA PathsFacts ==
    ASSUME NEW x \in Seq(Entries)
    PROVE  /\ PathsOf(x) \in Seq(Nat) /\ DOMAIN PathsOf(x) = DOMAIN x
           /\ \A i \in DOMAIN x : PathsOf(x)[i] = x[i].path
<1>1. \A i \in 1..Len(x) : x[i].path \in Nat
  BY DEF Entries
<1>2. PathsOf(x) \in [1..Len(x) -> Nat] /\ Len(x) \in Nat
  BY <1>1 DEF PathsOf
<1>3. PathsOf(x) \in Seq(Nat)
  BY <1>2, SeqDef
<1> QED
  BY <1>3 DEF PathsOf

(* A path has the last entry it is in. *)
LEMMA ModeFacts ==
    ASSUME NEW x \in Seq(Entries), NEW j \in DOMAIN x,
           \A i \in DOMAIN x : x[i].path = x[j].path => i <= j
    PROVE  ModeOf(x, x[j].path) = x[j]
<1> DEFINE at == {i \in DOMAIN x : x[i].path = x[j].path}
<1>1. at \subseteq Nat /\ j \in at /\ \A i \in at : i <= j
  OBVIOUS
<1>2. Max(at) = j
  <2> HIDE DEF at
  <2>1. Max(at) = CHOOSE m \in at : \A n \in at : m >= n
    BY DEF Max
  <2>2. \A m \in at : (\A n \in at : m >= n) <=> m = j
    BY <1>1
  <2> QED
    BY <1>1, <2>1, <2>2
<1>3. at # {} /\ Max(at) = j
  BY <1>1, <1>2
<1> QED
  BY <1>3 DEF ModeOf

(* The keys: the staged paths, those that only have unstaged changes, and  *)
(* the untracked ones.                                                     *)
LEMMA FreshFacts ==
    ASSUME NEW x \in Seq(Entries), NEW y \in Seq(Entries),
           \A i, j \in DOMAIN y :
               y[i].path = y[j].path /\ y[i].path \notin ToSet(PathsOf(x)) => i = j
    PROVE  \E B \in Seq(Nat) :
              /\ \A z : Keys(x, y, z) = PathsOf(x) \o B \o z
              /\ IsInjective(B) /\ ToSet(B) = ToSet(PathsOf(y)) \ ToSet(PathsOf(x))
<1> DEFINE New == {k \in DOMAIN y : y[k].path \notin ToSet(PathsOf(x))}
           fresh == SetToSeq(New)
           B == [k \in DOMAIN fresh |-> y[fresh[k]].path]
<1>1. New \subseteq Nat /\ IsFiniteSet(New) /\ New \subseteq DOMAIN y
  <2>1. New \subseteq DOMAIN y /\ DOMAIN y = 1..Len(y) /\ Len(y) \in Nat
    OBVIOUS
  <2>2. IsFiniteSet(1..Len(y))
    BY <2>1, FS_Interval
  <2> HIDE DEF New
  <2> QED
    BY <2>1, <2>2, FS_Subset
<1>2. fresh \in Seq(Nat) /\ ToSet(fresh) = New /\ IsInjective(fresh)
  <2> HIDE DEF New
  <2> QED
    BY <1>1, SetToSeqFacts
<1>3. \A z : Keys(x, y, z) = PathsOf(x) \o B \o z
  BY DEF Keys
<1>4. \A i \in DOMAIN y : y[i].path \in Nat
  BY DEF Entries
<1>5. \A k \in New : \E i \in DOMAIN fresh : fresh[i] = k
  <2> HIDE DEF fresh, New
  <2> QED
    BY <1>2 DEF ToSet
<1>6. \A i \in DOMAIN fresh : fresh[i] \in New /\ fresh[i] \in DOMAIN y
  <2> HIDE DEF fresh, New
  <2> QED
    BY <1>1, <1>2 DEF ToSet
<1>7. \A i, j \in DOMAIN fresh : fresh[i] = fresh[j] => i = j
  <2> HIDE DEF fresh
  <2> QED
    BY <1>2 DEF IsInjective
<1>8. \A i, j \in New : y[i].path = y[j].path => i = j
  OBVIOUS
<1> HIDE DEF fresh
<1>9. B \in Seq(Nat) /\ DOMAIN B = DOMAIN fresh
  <2>1. DOMAIN fresh = 1..Len(fresh) /\ Len(fresh) \in Nat
    BY <1>2
  <2>2. B \in [1..Len(fresh) -> Nat]
    BY <1>4, <1>6, <2>1
  <2> QED
    BY <2>1, <2>2, SeqDef
<1>10. IsInjective(B)
  <2>1. \A i, j \in DOMAIN B : B[i] = B[j] => i = j
    BY <1>6, <1>7, <1>8
  <2> HIDE DEF B
  <2> QED
    BY <2>1 DEF IsInjective
<1>11. ToSet(B) = ToSet(PathsOf(y)) \ ToSet(PathsOf(x))
  <2>1. ASSUME NEW i \in DOMAIN B
        PROVE  B[i] \in ToSet(PathsOf(y)) \ ToSet(PathsOf(x))
    <3>1. B[i] = y[fresh[i]].path /\ fresh[i] \in New
      BY <1>6
    <3>2. fresh[i] \in DOMAIN y /\ y[fresh[i]].path \notin ToSet(PathsOf(x))
      BY <3>1
    <3>3. y[fresh[i]].path \in ToSet(PathsOf(y))
      BY <3>2, PathsFacts DEF ToSet
    <3> QED
      BY <3>1, <3>2, <3>3
  <2>2. ASSUME NEW q \in ToSet(PathsOf(y)), q \notin ToSet(PathsOf(x))
        PROVE  \E i \in DOMAIN B : B[i] = q
    <3>1. PICK k \in DOMAIN y : y[k].path = q
      BY PathsFacts DEF ToSet
    <3>2. k \in New
      BY <2>2, <3>1
    <3>3. PICK i \in DOMAIN fresh : fresh[i] = k
      BY <1>5, <3>2
    <3> QED
      BY <3>1, <3>3
  <2> HIDE DEF B
  <2> QED
    BY <2>1, <2>2 DEF ToSet
<1> QED
  BY <1>3, <1>9, <1>10, <1>11

(* The keys are the changed paths, a deleted one that is still there       *)
(* twice and the others once.                                              *)
LEMMA KeysFacts ==
    ASSUME NEW t \in Worktrees
    PROVE  LET K == Keys(t.staged, t.unstaged, t.others)
           IN  /\ K \in Seq(Nat) /\ ToSet(K) = Changed(t)
               /\ \A x \in Changed(t) :
                     Cardinality({k \in DOMAIN K : K[k] = x})
                        = IF x \in Deleted(t) \cap ToSet(t.others) THEN 2 ELSE 1
<1>1. PICK A, Y, C : A = PathsOf(t.staged) /\ Y = PathsOf(t.unstaged) /\ C = t.others
  OBVIOUS
<1>2. /\ t.staged \in Seq(Entries) /\ t.unstaged \in Seq(Entries) /\ C \in Seq(Nat)
      /\ IsInjective(A) /\ IsInjective(C)
      /\ ToSet(C) \cap ToSet(Y) = {} /\ ToSet(C) \cap ToSet(A) \subseteq Deleted(t)
  BY <1>1, WorktreeAssumption
<1>3. A \in Seq(Nat) /\ Y \in Seq(Nat)
  BY <1>1, <1>2, PathsFacts
<1>4. PICK B \in Seq(Nat) :
          /\ \A z : Keys(t.staged, t.unstaged, z) = A \o B \o z
          /\ IsInjective(B) /\ ToSet(B) = ToSet(Y) \ ToSet(A)
  <2>1. ASSUME NEW i \in DOMAIN t.unstaged, NEW j \in DOMAIN t.unstaged,
               t.unstaged[i].path = t.unstaged[j].path, i < j
        PROVE  t.unstaged[j].path \in ToSet(PathsOf(t.staged))
    <3>1. PICK k \in DOMAIN t.staged : t.staged[k] = Entry("U", 0, t.unstaged[j].path)
      BY <2>1, WorktreeAssumption DEF Unmerged
    <3>2. t.staged[k].path = t.unstaged[j].path
      BY <3>1 DEF Entry
    <3> QED
      BY <1>2, <3>2, PathsFacts DEF ToSet
  <2>2. ASSUME NEW i \in DOMAIN t.unstaged, NEW j \in DOMAIN t.unstaged,
               t.unstaged[i].path = t.unstaged[j].path,
               t.unstaged[i].path \notin ToSet(PathsOf(t.staged))
        PROVE  i = j
    <3>1. ~(i < j) /\ ~(j < i)
      BY <2>1, <2>2
    <3>2. i \in Nat /\ j \in Nat
      BY <1>2
    <3> QED
      BY <3>1, <3>2
  <2> QED
    BY <1>1, <1>2, <2>2, FreshFacts
<1>5. PICK D : D = A \o B
  OBVIOUS
<1>6. D \in Seq(Nat) /\ ToSet(D) = ToSet(A) \cup ToSet(Y)
  <2>1. D \in Seq(Nat) /\ ToSet(D) = ToSet(A) \cup ToSet(B)
    BY <1>3, <1>4, <1>5, ConcatFacts
  <2> QED
    BY <1>4, <2>1
<1>7. IsInjective(D)
  <2>1. /\ DOMAIN D = 1..Len(A) + Len(B)
        /\ \A i \in DOMAIN A : D[i] = A[i]
        /\ \A j \in DOMAIN B : D[Len(A) + j] = B[j]
        /\ \A k \in DOMAIN D : k \in DOMAIN A \/ (k - Len(A) \in DOMAIN B /\ Len(A) + (k - Len(A)) = k)
    <3>1. A \in Seq(Nat) /\ B \in Seq(Nat)
      BY <1>3
    <3> QED
      BY <1>5, <3>1, ConcatFacts
  <2>2. \A k \in DOMAIN D : \/ k \in DOMAIN A /\ D[k] = A[k]
                            \/ \E j \in DOMAIN B : k = Len(A) + j /\ D[k] = B[j]
    BY <2>1
  <2>3. \A i \in DOMAIN A : \A j \in DOMAIN B : A[i] # B[j]
    <3>1. \A i \in DOMAIN A : A[i] \in ToSet(A)
      BY DEF ToSet
    <3>2. \A j \in DOMAIN B : B[j] \in ToSet(B)
      BY DEF ToSet
    <3> QED
      BY <1>4, <3>1, <3>2
  <2>4. /\ \A i, j \in DOMAIN A : A[i] = A[j] => i = j
        /\ \A i, j \in DOMAIN B : B[i] = B[j] => i = j
    BY <1>2, <1>4 DEF IsInjective
  <2>5. ASSUME NEW k \in DOMAIN D, NEW l \in DOMAIN D, D[k] = D[l]
        PROVE  k = l
    BY <2>2, <2>3, <2>4, <2>5
  <2> QED
    BY <2>5 DEF IsInjective
<1>8. PICK K : K = Keys(t.staged, t.unstaged, t.others)
  OBVIOUS
<1>9. K = D \o C
  BY <1>1, <1>4, <1>5, <1>8
<1>10. Changed(t) = ToSet(D) \cup ToSet(C)
  BY <1>1, <1>6 DEF Changed
<1>11. K \in Seq(Nat) /\ ToSet(K) = Changed(t)
  BY <1>2, <1>6, <1>9, <1>10, ConcatFacts
<1>12. Deleted(t) \subseteq ToSet(A)
  <2>1. ASSUME NEW i \in DOMAIN t.staged
        PROVE  t.staged[i].path \in ToSet(A)
    BY <1>1, <1>2, PathsFacts DEF ToSet
  <2> QED
    BY <2>1 DEF Deleted
<1>13. ASSUME NEW x \in Changed(t)
       PROVE  Cardinality({k \in DOMAIN K : K[k] = x})
                 = IF x \in Deleted(t) \cap ToSet(t.others) THEN 2 ELSE 1
  <2>1. Cardinality({k \in DOMAIN K : K[k] = x}) = IF x \in ToSet(D) \cap ToSet(C) THEN 2 ELSE 1
    <3>1. x \in ToSet(D) \cup ToSet(C)
      BY <1>10
    <3>2. Cardinality({k \in DOMAIN (D \o C) : (D \o C)[k] = x})
              = IF x \in ToSet(D) \cap ToSet(C) THEN 2 ELSE 1
      BY <1>2, <1>6, <1>7, <3>1, ConcatCounts
    <3> QED
      BY <1>9, <3>2
  <2>2. x \in ToSet(D) \cap ToSet(C) <=> x \in Deleted(t) \cap ToSet(t.others)
    BY <1>1, <1>2, <1>6, <1>12
  <2> QED
    BY <2>1, <2>2
<1> QED
  BY <1>8, <1>11, <1>13

(* What combineGitStatus makes of a worktree says what is in it, and there *)
(* is no line when nothing has changed.                                    *)
LEMMA CombineMeans ==
    ASSUME NEW t \in Worktrees
    PROVE  LET lines == combineGitStatus(t.staged, t.unstaged, t.others)
           IN  Says(lines, t) /\ (lines = <<>> <=> Changed(t) = {})
<1>1. PICK K, s, lines : /\ K = Keys(t.staged, t.unstaged, t.others) /\ s = Sorted(K)
                         /\ lines = combineGitStatus(t.staged, t.unstaged, t.others)
  OBVIOUS
<1>2. /\ K \in Seq(Nat) /\ ToSet(K) = Changed(t)
      /\ \A x \in Changed(t) :
            Cardinality({k \in DOMAIN K : K[k] = x})
               = IF x \in Deleted(t) \cap ToSet(t.others) THEN 2 ELSE 1
  BY <1>1, KeysFacts
<1>3. s \in Seq(Nat) /\ ToSet(s) = Changed(t) /\ Len(s) = Len(K)
  BY <1>1, <1>2, SortedFacts
<1>4. /\ DOMAIN lines = DOMAIN s
      /\ \A k \in DOMAIN s : /\ lines[k].path = s[k]
                             /\ lines[k].i = ModeOf(t.staged, s[k]).mode
                             /\ lines[k].src = ModeOf(t.staged, s[k]).src
                             /\ lines[k].f = ModeOf(t.unstaged, s[k]).mode
  BY <1>1 DEF combineGitStatus
<1>5. DOMAIN s = 1..Len(s) /\ Len(s) \in Nat
  BY <1>3
<1>6. Len(lines) = Len(s) /\ (lines = <<>> <=> Len(s) = 0)
  <2> DEFINE T == {lines[k] : k \in DOMAIN s}
  <2>1. lines \in [1..Len(s) -> T]
    <3>1. lines = [k \in DOMAIN s |-> lines[k]]
      BY <1>1 DEF combineGitStatus
    <3> QED
      BY <1>5, <3>1
  <2> HIDE DEF T
  <2>2. lines \in Seq(T)
    BY <1>5, <2>1, SeqDef
  <2> QED
    BY <1>4, <1>5, <2>2
<1>7. ASSUME NEW x \in Changed(t)
      PROVE  Cardinality({k \in DOMAIN lines : lines[k].path = x})
                = IF x \in Deleted(t) \cap ToSet(t.others) THEN 2 ELSE 1
  <2>1. {k \in DOMAIN lines : lines[k].path = x} = {k \in DOMAIN s : s[k] = x}
    BY <1>4
  <2>2. Cardinality({k \in DOMAIN s : s[k] = x}) = Cardinality({k \in DOMAIN K : K[k] = x})
    <3>1. Cardinality({k \in DOMAIN Sorted(K) : Sorted(K)[k] = x})
              = Cardinality({k \in DOMAIN K : K[k] = x})
      BY <1>2, SortedCounts
    <3> QED
      BY <1>1, <3>1
  <2> QED
    BY <1>2, <2>1, <2>2
<1>8. {lines[k].path : k \in DOMAIN lines} = Changed(t)
  BY <1>3, <1>4 DEF ToSet
<1>9. ASSUME NEW k \in 1..Len(lines) - 1
      PROVE  lines[k].path <= lines[k + 1].path
  <2>1. k \in DOMAIN s /\ k + 1 \in DOMAIN s /\ k < k + 1
    BY <1>5, <1>6
  <2>2. PICK p \in Bijection(DOMAIN K, DOMAIN K) : Sorts(p, K) /\ s = [i \in DOMAIN K |-> K[p[i]]]
    BY <1>1, <1>2, SortedMoves
  <2>3. k \in DOMAIN K /\ k + 1 \in DOMAIN K
    BY <2>1, <2>2
  <2>4. K[p[k]] <= K[p[k + 1]]
    BY <2>1, <2>2, <2>3 DEF Sorts
  <2> QED
    BY <1>4, <2>1, <2>2, <2>3, <2>4
<1>10. ASSUME NEW j \in DOMAIN t.staged
       PROVE  \E k \in DOMAIN lines :
                 /\ lines[k].path = t.staged[j].path
                 /\ lines[k].i = t.staged[j].mode /\ lines[k].src = t.staged[j].src
  <2>1. t.staged \in Seq(Entries) /\ IsInjective(PathsOf(t.staged))
    BY WorktreeAssumption
  <2>2. t.staged[j].path \in ToSet(PathsOf(t.staged))
    BY <2>1, PathsFacts DEF ToSet
  <2>3. t.staged[j].path \in ToSet(s)
    BY <1>3, <2>2 DEF Changed
  <2>4. PICK k \in DOMAIN s : s[k] = t.staged[j].path
    BY <2>3 DEF ToSet
  <2>5. \A i \in DOMAIN t.staged : t.staged[i].path = t.staged[j].path => i <= j
    <3>1. \A i \in DOMAIN t.staged : t.staged[i].path = t.staged[j].path => i = j
      BY <2>1, PathsFacts DEF IsInjective
    <3> QED
      BY <2>1, <3>1
  <2>6. ModeOf(t.staged, s[k]) = t.staged[j]
    BY <2>1, <2>4, <2>5, ModeFacts
  <2> QED
    BY <1>4, <2>4, <2>6
<1>11. ASSUME NEW j \in DOMAIN t.unstaged,
              \A i \in DOMAIN t.unstaged : t.unstaged[i].path = t.unstaged[j].path => i <= j
       PROVE  \E k \in DOMAIN lines :
                 lines[k].path = t.unstaged[j].path /\ lines[k].f = t.unstaged[j].mode
  <2>1. t.unstaged \in Seq(Entries)
    BY WorktreeAssumption
  <2>2. t.unstaged[j].path \in ToSet(PathsOf(t.unstaged))
    BY <2>1, PathsFacts DEF ToSet
  <2>3. t.unstaged[j].path \in ToSet(s)
    BY <1>3, <2>2 DEF Changed
  <2>4. PICK k \in DOMAIN s : s[k] = t.unstaged[j].path
    BY <2>3 DEF ToSet
  <2>5. ModeOf(t.unstaged, s[k]) = t.unstaged[j]
    BY <1>11, <2>1, <2>4, ModeFacts
  <2> QED
    BY <1>4, <2>4, <2>5
<1>12. Says(lines, t)
  BY <1>7, <1>8, <1>9, <1>10, <1>11 DEF Says
<1>13. Len(s) = 0 <=> Changed(t) = {}
  <2>1. Len(s) = 0 <=> DOMAIN s = {}
    BY <1>5
  <2>2. ToSet(s) = {} <=> DOMAIN s = {}
    BY DEF ToSet
  <2> QED
    BY <1>3, <2>1, <2>2
<1> QED
  BY <1>1, <1>6, <1>12, <1>13

-----------------------------------------------------------------------------
(* The first state *)

(* The projects selected are projects, each once. *)
LEMMA Selects ==
    ASSUME NEW S, S \subseteq Projects
    PROVE  SortedSeq(S) \in Seq(Projects) /\ IsInjective(SortedSeq(S))
<1>1. S \subseteq Nat /\ IsFiniteSet(S)
  <2>1. IsFiniteSet(1..N)
    BY CommandAssumption, FS_Interval
  <2> QED
    <3>1. S \subseteq 1..N
      BY DEF Projects
    <3>2. IsFiniteSet(S)
      BY <2>1, <3>1, FS_Subset
    <3> QED
      BY <3>1, <3>2
<1>2. PICK t : t = SortedSeq(S)
  OBVIOUS
<1>3. t \in Seq(Nat) /\ ToSet(t) = S /\ IsInjective(t)
  BY <1>1, <1>2, SortedSeqFacts
<1>4. \A i \in 1..Len(t) : t[i] \in Projects
  BY <1>3 DEF ToSet
<1>5. t \in [1..Len(t) -> Projects] /\ Len(t) \in Nat
  BY <1>3, <1>4
<1>6. t \in Seq(Projects)
  BY <1>5, SeqDef
<1> QED
  BY <1>2, <1>3, <1>6

(* The selection of either command. *)
LEMMA InitProjects ==
    ASSUME Init
    PROVE  /\ cmd \in {"forall", "status"} /\ worktree \in [Projects -> Worktrees]
           /\ projects \in Seq(Projects) /\ IsInjective(projects)
<1>1. (CHOOSE t \in Worktrees : TRUE) \in Worktrees
  BY WorktreeAssumption
<1>2. CASE /\ cmd = "forall"
           /\ \E ms \in SUBSET Patterns, inverse \in BOOLEAN :
                 projects = SortedSeq(Filter(ms, inverse))
           /\ worktree = [p \in Projects |-> CHOOSE t \in Worktrees : TRUE]
  <2>1. PICK ms \in SUBSET Patterns, inverse \in BOOLEAN : projects = SortedSeq(Filter(ms, inverse))
    BY <1>2
  <2>2. Filter(ms, inverse) \subseteq Projects
    BY DEF Filter
  <2>3. projects \in Seq(Projects) /\ IsInjective(projects)
    BY <2>1, <2>2, Selects
  <2> QED
    BY <1>1, <1>2, <2>3
<1>3. CASE /\ cmd = "status"
           /\ \E ps \in Arguments : projects = SortedSeq(IF ps = {} THEN Projects ELSE ps)
           /\ worktree \in [Projects -> Worktrees]
  <2>1. PICK ps \in Arguments : projects = SortedSeq(IF ps = {} THEN Projects ELSE ps)
    BY <1>3
  <2>2. (IF ps = {} THEN Projects ELSE ps) \subseteq Projects
    BY CommandAssumption
  <2>3. projects \in Seq(Projects) /\ IsInjective(projects)
    BY <2>1, <2>2, Selects
  <2> QED
    BY <1>3, <2>3
<1> QED
  BY <1>2, <1>3 DEF Init

(* A worker starts with nothing. *)
LEMMA NoResultFacts == NoResult \in Results /\ <<>> \in Outputs /\ <<>> \in Seq(Nat)
  BY DEF NoResult, Result, Results, Outputs

(* The workers wait, and there are as many as jobs. *)
LEMMA InitWorkers ==
    ASSUME Init
    PROVE  /\ jobs \in Workers /\ worker \in [Workers -> WorkerStates]
           /\ \A w \in Workers : /\ worker[w].p = 0 /\ worker[w].pc \in {"range", "exit"}
                                 /\ w > jobs => worker[w].pc = "exit"
<1>1. jobs \in Workers
  BY DEF Init
<1>2. worker = [w \in Workers |-> IF w <= jobs THEN Idle ELSE State("exit", 0, <<>>, <<>>, NoResult)]
  BY DEF Init
<1>3. Idle \in WorkerStates /\ State("exit", 0, <<>>, <<>>, NoResult) \in WorkerStates
  BY NoResultFacts DEF WorkerStates, Idle, State
<1>4. \A w \in Workers : /\ worker[w].p = 0
                         /\ worker[w].pc = IF w <= jobs THEN "range" ELSE "exit"
  BY <1>2 DEF Idle, State
<1>5. \A w \in Workers : w > jobs => ~ (w <= jobs)
  BY <1>1, CommandAssumption DEF Workers
<1> QED
  BY <1>1, <1>2, <1>3, <1>4, <1>5

(* The invariant holds when the command starts. *)
LEMMA InitInv ==
    ASSUME Init
    PROVE  CommandInv
<1>1. /\ cmd \in {"forall", "status"} /\ worktree \in [Projects -> Worktrees]
      /\ projects \in Seq(Projects) /\ IsInjective(projects)
  BY InitProjects
<1>2. /\ jobs \in Workers /\ worker \in [Workers -> WorkerStates]
      /\ \A w \in Workers : /\ worker[w].p = 0 /\ worker[w].pc \in {"range", "exit"}
                            /\ w > jobs => worker[w].pc = "exit"
  BY InitWorkers
<1>3. /\ missing \in Missing
      /\ jobTasks = <<>> /\ fed = 0 /\ tasksClosed = FALSE /\ jobResults = <<>>
      /\ env = [k \in 1..3 |-> 0] /\ ran = [p \in Projects |-> <<>>] /\ received = <<>>
      /\ faults = {} /\ edits = 0 /\ result = "none"
  BY DEF Init
<1>4. TypeOK
  <2>1. missing \subseteq Projects
    BY <1>3, CommandAssumption
  <2>2. jobTasks \in Seq(Projects) /\ jobResults \in Seq(Results) /\ received \in Seq(Results)
    BY <1>3
  <2>3. Len(jobTasks) = 0 /\ Len(jobResults) = 0 /\ 0 <= jobs
    BY <1>2, <1>3, CommandAssumption DEF Workers
  <2>4. Len(projects) \in Nat /\ fed \in 0..Len(projects)
    BY <1>1, <1>3
  <2>5. env \in [1..3 -> Projects \cup {0}]
    BY <1>3
  <2>6. ran \in [Projects -> Seq([1..3 -> Projects \cup {0}])]
    BY <1>3
  <2>7. faults \subseteq Projects \X {"diff", "others"} \X Texts /\ edits \in 0..MaxEdits
    BY <1>3, CommandAssumption
  <2> QED
    BY <1>1, <1>2, <1>3, <2>1, <2>2, <2>3, <2>4, <2>5, <2>6, <2>7 DEF TypeOK
<1>5. WorkerInv
  BY <1>2 DEF WorkerInv, ForallSteps, StatusSteps
<1>6. Answers = <<>> /\ taken = 0
  <2>1. Answers = <<>> \o <<>>
    BY <1>3 DEF Answers
  <2>2. <<>> \o <<>> = <<>>
    OBVIOUS
  <2>3. Len(jobTasks) = 0 /\ fed = 0
    BY <1>3
  <2>4. taken = 0
    BY <2>3 DEF taken
  <2> QED
    BY <2>1, <2>2, <2>4
<1>7. Answered = {} /\ Taken = {} /\ Held = {}
  BY <1>2, <1>6 DEF Answered, Taken, Held
<1>8. PoolInv
  BY <1>3, <1>6, <1>7 DEF PoolInv
<1>9. Done = {}
  BY <1>2, <1>7 DEF Done
<1>10. RanInv
  BY <1>3, <1>9 DEF RanInv
<1>11. EnvInv
  BY <1>2, <1>3 DEF EnvInv
<1>12. StatusInv
  <2>1. \A w \in Workers : Partial(worker[w], worktree[worker[w].p], missing, faults)
    BY <1>2 DEF Partial, StatusSteps
  <2>2. DOMAIN Answers = {}
    BY <1>6
  <2> QED
    BY <1>3, <2>1, <2>2 DEF StatusInv
<1> QED
  BY <1>4, <1>5, <1>8, <1>10, <1>11, <1>12 DEF CommandInv

-----------------------------------------------------------------------------
(* Facts about the steps *)

(* Git commands that fail in one project say nothing of the others. *)
Agree(p, fs, gs) ==
    \A name \in {"diff", "others"}, text \in Texts :
        <<p, name, text>> \in fs <=> <<p, name, text>> \in gs

(* What is said of a project by its failures. *)
LEMMA AgreeFacts ==
    ASSUME NEW p, NEW fs, NEW gs, Agree(p, fs, gs), NEW quiet
    PROVE  /\ Failed(p, "diff", fs) <=> Failed(p, "diff", gs)
           /\ Failed(p, "others", fs) <=> Failed(p, "others", gs)
           /\ StatusError(p, quiet, fs) = StatusError(p, quiet, gs)
<1>1. \A text \in Texts : <<p, "diff", text>> \in fs <=> <<p, "diff", text>> \in gs
  BY DEF Agree
<1>2. \A text \in Texts : <<p, "others", text>> \in fs <=> <<p, "others", text>> \in gs
  BY DEF Agree
<1>3. "message" \in Texts /\ "nothing" \in Texts
  BY DEF Texts
<1>4. /\ <<p, "diff", "message">> \in fs <=> <<p, "diff", "message">> \in gs
      /\ <<p, "diff", "nothing">> \in fs <=> <<p, "diff", "nothing">> \in gs
      /\ <<p, "others", "message">> \in fs <=> <<p, "others", "message">> \in gs
  BY <1>1, <1>2, <1>3
<1> QED
  BY <1>1, <1>2, <1>4 DEF Failed, StatusError

(* For a result. *)
LEMMA FaithfulStays ==
    ASSUME NEW r, NEW t, NEW gone, NEW fs, NEW gs, Agree(r.p, fs, gs), Faithful(r, t, gone, fs)
    PROVE  Faithful(r, t, gone, gs)
<1>1. PICK quiet : quiet = (<<r.di, r.df, r.do>> = <<<<>>, <<>>, <<>>>>)
  OBVIOUS
<1>2. /\ Failed(r.p, "diff", fs) <=> Failed(r.p, "diff", gs)
      /\ Failed(r.p, "others", fs) <=> Failed(r.p, "others", gs)
      /\ StatusError(r.p, quiet, fs) = StatusError(r.p, quiet, gs)
  BY AgreeFacts
<1> QED
  BY <1>1, <1>2 DEF Faithful, Printed

(* For a worker. *)
LEMMA PartialStays ==
    ASSUME NEW s, NEW t, NEW gone, NEW fs, NEW gs, Agree(s.p, fs, gs),
           s.pc = "send" => s.r.p = s.p, Partial(s, t, gone, fs)
    PROVE  Partial(s, t, gone, gs)
<1>1. /\ Failed(s.p, "diff", fs) <=> Failed(s.p, "diff", gs)
      /\ Failed(s.p, "others", fs) <=> Failed(s.p, "others", gs)
  BY AgreeFacts
<1>2. s.pc = "send" => Faithful(s.r, t, gone, gs)
  <2>1. ASSUME s.pc = "send"
        PROVE  Faithful(s.r, t, gone, gs)
    <3>1. Agree(s.r.p, fs, gs)
      BY <2>1
    <3>2. Faithful(s.r, t, gone, fs)
      BY <2>1 DEF Partial
    <3> QED
      BY <3>1, <3>2, FaithfulStays
  <2> QED
    BY <2>1
<1> QED
  BY <1>1, <1>2 DEF Partial, Printed

(* Collecting a result moves it from one list to the other. *)
LEMMA MoveResult ==
    ASSUME NEW T, NEW a \in Seq(T), NEW b \in Seq(T), b # <<>>
    PROVE  Append(a, Head(b)) \o Tail(b) = a \o b
<1>1. PICK c, d : c = Append(a, Head(b)) /\ d = Tail(b)
  OBVIOUS
<1>2. Head(b) = b[1] /\ Len(b) \in Nat \ {0} /\ Len(a) \in Nat /\ 1 \in 1..Len(b)
  OBVIOUS
<1>3. /\ c \in Seq(T) /\ Len(c) = Len(a) + 1 /\ c[Len(a) + 1] = b[1]
      /\ \A i \in 1..Len(a) : c[i] = a[i]
  BY <1>1, <1>2
<1>4. /\ d \in Seq(T) /\ Len(d) = Len(b) - 1
      /\ \A i \in 1..Len(b) - 1 : d[i] = b[i + 1]
  BY <1>1, <1>2
<1>5. PICK x, y : x = c \o d /\ y = a \o b
  OBVIOUS
<1>6. x \in Seq(T) /\ y \in Seq(T) /\ Len(x) = Len(a) + Len(b) /\ Len(y) = Len(a) + Len(b)
  <2>1. x \in Seq(T) /\ Len(x) = Len(c) + Len(d)
    BY <1>3, <1>4, <1>5
  <2>2. y \in Seq(T) /\ Len(y) = Len(a) + Len(b)
    BY <1>5
  <2>3. Len(c) + Len(d) = Len(a) + Len(b)
    BY <1>2, <1>3, <1>4
  <2> QED
    BY <2>1, <2>2, <2>3
<1>7. ASSUME NEW i \in 1..Len(a) + Len(b)
      PROVE  x[i] = y[i]
  <2>1. CASE i <= Len(a)
    BY <1>2, <1>3, <1>4, <1>5, <2>1
  <2>2. CASE i = Len(a) + 1
    BY <1>2, <1>3, <1>4, <1>5, <2>2
  <2>3. CASE i > Len(a) + 1
    <3>1. i - (Len(a) + 1) \in 1..Len(d) /\ i - (Len(a) + 1) \in 1..Len(b) - 1
      BY <1>2, <1>4, <2>3
    <3>2. x[i] = d[i - (Len(a) + 1)]
      BY <1>3, <1>4, <1>5, <2>3, <3>1
    <3>3. y[i] = b[i - Len(a)]
      BY <1>2, <1>5, <2>3
    <3>4. (i - (Len(a) + 1)) + 1 = i - Len(a)
      BY <1>2
    <3> QED
      BY <1>4, <3>1, <3>2, <3>3, <3>4
  <2> QED
    BY <1>2, <2>1, <2>2, <2>3
<1>8. x = y
  BY <1>2, <1>6, <1>7, SeqEqual
<1> QED
  BY <1>1, <1>5, <1>8

(* A result that is sent comes after all others. *)
LEMMA SendLast ==
    ASSUME NEW T, NEW a \in Seq(T), NEW b \in Seq(T), NEW x \in T
    PROVE  a \o Append(b, x) = Append(a \o b, x)
  OBVIOUS

(* One worker changes. *)
LEMMA OneWorker ==
    ASSUME TypeOK, NEW w \in Workers, NEW s \in WorkerStates, worker' = [worker EXCEPT ![w] = s]
    PROVE  /\ worker' \in [Workers -> WorkerStates] /\ worker'[w] = s
           /\ \A v \in Workers : v # w => worker'[v] = worker[v]
  BY DEF TypeOK

(* A worker keeps to the steps of its command, and to its project. *)
LEMMA WorkerStep ==
    ASSUME TypeOK, WorkerInv, NEW w \in Workers, NEW s \in WorkerStates,
           worker' = [worker EXCEPT ![w] = s], UNCHANGED <<cmd, jobs, missing>>,
           s.p = 0 <=> s.pc \in {"range", "exit"},
           s.pc = "send" => s.r.p = s.p,
           s.pc \in ForallSteps => cmd = "forall" /\ s.p \notin missing,
           s.pc \in StatusSteps => cmd = "status" /\ s.p \notin missing,
           w > jobs => s.pc = "exit",
           s.p = 0 \/ \A v \in Workers : v # w => worker[v].p # s.p
    PROVE  WorkerInv'
<1>1. worker'[w] = s /\ \A v \in Workers : v # w => worker'[v] = worker[v]
  BY OneWorker
<1>2. ASSUME NEW v \in Workers
      PROVE  /\ worker'[v].p = 0 <=> worker'[v].pc \in {"range", "exit"}
             /\ worker'[v].pc = "send" => worker'[v].r.p = worker'[v].p
             /\ worker'[v].pc \in ForallSteps => cmd = "forall" /\ worker'[v].p \notin missing
             /\ worker'[v].pc \in StatusSteps => cmd = "status" /\ worker'[v].p \notin missing
             /\ v > jobs => worker'[v].pc = "exit"
  <2>1. CASE v = w
    BY <1>1, <2>1
  <2>2. CASE v # w
    BY <1>1, <2>2 DEF WorkerInv
  <2> QED
    BY <2>1, <2>2
<1>3. ASSUME NEW v \in Workers, NEW u \in Workers, worker'[v].p = worker'[u].p, worker'[v].p # 0
      PROVE  v = u
  <2>1. CASE v = w \/ u = w
    BY <1>1, <1>3, <2>1
  <2>2. CASE v # w /\ u # w
    BY <1>1, <1>3, <2>2 DEF WorkerInv
  <2> QED
    BY <2>1, <2>2
<1> QED
  BY <1>2, <1>3 DEF WorkerInv

(* Nothing moves while a worker goes on with its project. *)
PoolVars == <<projects, jobTasks, fed, jobResults, received, result>>

(* All of the pool is as it was. *)
LEMMA PoolStays ==
    ASSUME PoolInv, UNCHANGED PoolVars, \A v \in Workers : worker'[v].p = worker[v].p
    PROVE  PoolInv' /\ Taken' = Taken /\ Answers' = Answers /\ Answered' = Answered /\ Held' = Held
<1>1. taken' = taken /\ Answers' = Answers
  BY DEF taken, Answers, PoolVars
<1>2. Taken' = Taken /\ Answered' = Answered
  BY <1>1 DEF Taken, Answered, PoolVars
<1>3. Held' = Held
  BY DEF Held
<1> QED
  BY <1>1, <1>2, <1>3 DEF PoolInv, PoolVars

(* What a worker holds has not been answered. *)
LEMMA HeldFacts ==
    ASSUME TypeOK, WorkerInv, PoolInv, NEW w \in Workers, worker[w].p # 0
    PROVE  /\ worker[w].p \in Held /\ worker[w].p \in Taken /\ worker[w].p \notin Answered
           /\ worker[w].p \in Projects
           /\ \A v \in Workers : v # w => worker[v].p # worker[w].p
           /\ ~ (w > jobs)
<1>1. worker[w].p \in Held
  BY DEF Held
<1>2. worker[w].p \in Projects
  BY DEF TypeOK, WorkerStates
<1>3. \A v \in Workers : v # w => worker[v].p # worker[w].p
  BY DEF WorkerInv
<1>4. ~ (w > jobs)
  BY DEF WorkerInv
<1> QED
  BY <1>1, <1>2, <1>3, <1>4 DEF PoolInv

(* The results sent so far are results. *)
LEMMA AnswersType ==
    ASSUME TypeOK
    PROVE  Answers \in Seq(Results)
  BY DEF TypeOK, Answers

(* What was known of the other projects is still known. *)
LEMMA StatusStep ==
    ASSUME TypeOK, WorkerInv, PoolInv, StatusInv, NEW w \in Workers, NEW s \in WorkerStates,
           worker' = [worker EXCEPT ![w] = s], worker[w].p # 0, s.p = worker[w].p,
           UNCHANGED PoolVars, UNCHANGED <<cmd, edits, worktree, missing>>,
           NEW q, q = worker[w].p,
           faults \subseteq faults', \A f \in faults' : f \in faults \/ f[1] = q,
           cmd = "status" /\ edits = 0 => Partial(s, worktree[q], missing, faults')
    PROVE  StatusInv'
<1>1. worker'[w] = s /\ \A v \in Workers : v # w => worker'[v] = worker[v]
  BY OneWorker
<1>2. \A v \in Workers : worker'[v].p = worker[v].p
  BY <1>1
<1>3. Taken' = Taken /\ Answers' = Answers
  BY <1>2, PoolStays
<1>4. q \in Taken /\ q \notin Answered /\ \A v \in Workers : v # w => worker[v].p # q
  BY HeldFacts
<1>5. SUFFICES ASSUME cmd = "status"
               PROVE  /\ \A f \in faults' : f[1] \in Taken
                      /\ edits = 0 =>
                           /\ \A v \in Workers :
                                 Partial(worker'[v], worktree[worker'[v].p], missing, faults')
                           /\ \A i \in DOMAIN Answers :
                                 Faithful(Answers[i], worktree[Answers[i].p], missing, faults')
  BY <1>3 DEF StatusInv
<1>6. \A f \in faults' : f[1] \in Taken
  BY <1>4, <1>5 DEF StatusInv
<1>7. \A p : p # q => Agree(p, faults, faults')
  <2> SUFFICES ASSUME NEW p, p # q, NEW name \in {"diff", "others"}, NEW text \in Texts
               PROVE  <<p, name, text>> \in faults <=> <<p, name, text>> \in faults'
    BY DEF Agree
  <2>1. <<p, name, text>>[1] = p
    OBVIOUS
  <2> QED
    BY <2>1
<1>8. ASSUME edits = 0, NEW v \in Workers
      PROVE  Partial(worker'[v], worktree[worker'[v].p], missing, faults')
  <2>1. CASE v = w
    BY <1>1, <1>5, <1>8, <2>1
  <2>2. CASE v # w
    <3>1. PICK x, t, gone, fs, gs : /\ x = worker[v] /\ t = worktree[worker[v].p] /\ gone = missing
                                    /\ fs = faults /\ gs = faults'
      OBVIOUS
    <3>2. Agree(x.p, fs, gs)
      BY <1>4, <1>7, <2>2, <3>1
    <3>3. Partial(x, t, gone, fs)
      BY <1>5, <1>8, <3>1 DEF StatusInv
    <3>4. x.pc = "send" => x.r.p = x.p
      BY <3>1 DEF WorkerInv
    <3>5. Partial(x, t, gone, gs)
      BY <3>2, <3>3, <3>4, PartialStays
    <3> QED
      BY <1>1, <2>2, <3>1, <3>5
  <2> QED
    BY <2>1, <2>2
<1>9. ASSUME edits = 0, NEW i \in DOMAIN Answers
      PROVE  Faithful(Answers[i], worktree[Answers[i].p], missing, faults')
  <2>1. PICK r, t, gone, fs, gs : /\ r = Answers[i] /\ t = worktree[Answers[i].p] /\ gone = missing
                                  /\ fs = faults /\ gs = faults'
    OBVIOUS
  <2>2. r.p \in Answered
    BY <2>1 DEF Answered
  <2>3. Agree(r.p, fs, gs)
    BY <1>4, <1>7, <2>1, <2>2
  <2>4. Faithful(r, t, gone, fs)
    BY <1>5, <1>9, <2>1 DEF StatusInv
  <2>5. Faithful(r, t, gone, gs)
    BY <2>3, <2>4, FaithfulStays
  <2> QED
    BY <2>1, <2>5
<1> QED
  BY <1>6, <1>8, <1>9

-----------------------------------------------------------------------------
(* The feeder and the main goroutine *)

(* Steps that leave the workers, the results and the worktrees alone. *)
LEMMA PoolOnly ==
    ASSUME CommandInv, TypeOK', PoolInv', Taken' = Taken, Answers' = Answers,
           UNCHANGED <<settings, worktree, worker, env, ran, history>>
    PROVE  CommandInv'
<1>1. UNCHANGED <<cmd, jobs, projects, missing, worktree, worker, env, ran, faults, edits>>
  BY DEF settings, history
<1>2. WorkerInv'
  BY <1>1 DEF CommandInv, WorkerInv
<1>3. Answered' = Answered
  BY DEF Answered
<1>4. Done' = Done
  BY <1>1, <1>3 DEF Done
<1>5. RanInv'
  BY <1>1, <1>4 DEF CommandInv, RanInv
<1>6. EnvInv'
  BY <1>1 DEF CommandInv, EnvInv
<1>7. StatusInv'
  BY <1>1 DEF CommandInv, StatusInv
<1> QED
  BY <1>2, <1>5, <1>6, <1>7 DEF CommandInv

(* The feeder sends an index: the channel has the next ones in order. *)
LEMMA FeedInv ==
    ASSUME CommandInv, Feed
    PROVE  CommandInv'
<1>1. /\ TypeOK /\ PoolInv /\ fed < Len(projects) /\ Len(jobTasks) < jobs
      /\ fed' = fed + 1 /\ jobTasks' = Append(jobTasks, projects[fed'])
      /\ UNCHANGED <<settings, worktree, tasksClosed, jobResults, worker, env, ran, received,
                     history, result>>
  BY DEF CommandInv, Feed
<1>2. UNCHANGED <<cmd, jobs, projects, missing, faults, edits>>
  BY <1>1 DEF settings, history
<1>3. /\ Len(projects) \in Nat /\ fed \in Nat /\ jobs \in Nat /\ Len(jobTasks) \in Nat
      /\ jobTasks \in Seq(Projects) /\ projects \in Seq(Projects)
  <2>1. /\ jobs \in Workers /\ fed \in 0..Len(projects)
        /\ jobTasks \in Seq(Projects) /\ projects \in Seq(Projects)
    BY <1>1 DEF TypeOK
  <2>2. Len(projects) \in Nat /\ Len(jobTasks) \in Nat
    BY <2>1
  <2> QED
    BY <2>1, <2>2, CommandAssumption DEF Workers
<1>4. fed + 1 \in 1..Len(projects)
  BY <1>1, <1>3
<1>5. PICK x \in Projects : x = projects[fed + 1]
  BY <1>3, <1>4
<1>6. /\ jobTasks' \in Seq(Projects) /\ Len(jobTasks') = Len(jobTasks) + 1
      /\ jobTasks'[Len(jobTasks) + 1] = x
      /\ \A i \in 1..Len(jobTasks) : jobTasks'[i] = jobTasks[i]
  <2>1. jobTasks' = Append(jobTasks, x)
    BY <1>1, <1>5
  <2> QED
    BY <1>3, <2>1
<1>7. TypeOK'
  <2>1. Len(jobTasks') <= jobs /\ fed' \in 0..Len(projects)
    BY <1>1, <1>3, <1>6
  <2> QED
    BY <1>1, <1>2, <1>6, <2>1 DEF TypeOK
<1>8. taken' = taken /\ taken \in 0..fed /\ taken = fed - Len(jobTasks)
  BY <1>1, <1>3, <1>6 DEF taken, PoolInv
<1>9. Taken' = Taken /\ Answers' = Answers
  BY <1>1, <1>2, <1>8 DEF Taken, Answers
<1>10. Answered' = Answered /\ Held' = Held
  BY <1>1, <1>9 DEF Answered, Held
<1>11. \A i \in DOMAIN jobTasks' : jobTasks'[i] = projects[taken + i]
  <2> SUFFICES ASSUME NEW i \in 1..Len(jobTasks) + 1
               PROVE  jobTasks'[i] = projects[taken + i]
    BY <1>6
  <2>1. CASE i = Len(jobTasks) + 1
    BY <1>3, <1>5, <1>6, <1>8, <2>1
  <2>2. CASE i # Len(jobTasks) + 1
    <3>1. i \in 1..Len(jobTasks) /\ i \in DOMAIN jobTasks
      BY <1>3, <2>2
    <3> QED
      BY <1>1, <1>6, <3>1 DEF PoolInv
  <2> QED
    BY <2>1, <2>2
<1>12. PoolInv'
  <2>1. taken' \in 0..fed'
    BY <1>1, <1>3, <1>8
  <2> QED
    BY <1>1, <1>2, <1>8, <1>9, <1>10, <1>11, <2>1 DEF PoolInv
<1> QED
  BY <1>1, <1>7, <1>9, <1>12, PoolOnly

(* The feeder closes the channel. *)
LEMMA CloseInv ==
    ASSUME CommandInv, CloseTasks
    PROVE  CommandInv'
<1>1. /\ TypeOK /\ PoolInv /\ tasksClosed' = TRUE
      /\ UNCHANGED <<settings, worktree, jobTasks, fed, jobResults, worker, env, ran, received,
                     history, result>>
  BY DEF CommandInv, CloseTasks
<1>2. TypeOK'
  BY <1>1 DEF TypeOK, settings, history
<1>3. PoolInv' /\ Taken' = Taken /\ Answers' = Answers
  BY <1>1, PoolStays DEF PoolVars, settings
<1> QED
  BY <1>1, <1>2, <1>3, PoolOnly

(* A result moves to the main goroutine, or it returns. *)
LEMMA CollectInv ==
    ASSUME CommandInv, Collect
    PROVE  CommandInv'
<1>1. TypeOK /\ PoolInv /\ UNCHANGED <<settings, worktree, feeder, worker, env, ran, history>>
  BY DEF CommandInv, Collect
<1>2. UNCHANGED <<cmd, jobs, projects, missing, faults, edits, jobTasks, fed, tasksClosed>>
  BY <1>1 DEF settings, history, feeder
<1>3. taken' = taken /\ Taken' = Taken /\ Held' = Held
  BY <1>1, <1>2 DEF taken, Taken, Held
<1>4. CASE /\ jobResults # <<>> /\ received' = Append(received, Head(jobResults))
           /\ jobResults' = Tail(jobResults) /\ result = "none" /\ UNCHANGED result
  <2>1. received \in Seq(Results) /\ jobResults \in Seq(Results) /\ Len(jobResults) <= jobs
    BY <1>1 DEF TypeOK
  <2>2. Answers' = Answers
    BY <1>4, <2>1, MoveResult DEF Answers
  <2>3. received' \in Seq(Results) /\ jobResults' \in Seq(Results)
        /\ Len(jobResults') = Len(jobResults) - 1
    BY <1>4, <2>1
  <2>4. Len(jobResults') <= jobs
    <3>1. jobs \in Nat /\ Len(jobResults) \in Nat
      BY <1>1, <2>1, CommandAssumption DEF TypeOK, Workers
    <3> QED
      BY <2>1, <2>3, <3>1
  <2>5. TypeOK'
    BY <1>1, <1>2, <1>4, <2>3, <2>4 DEF TypeOK
  <2>6. Answered' = Answered
    BY <2>2 DEF Answered
  <2>7. PoolInv'
    BY <1>1, <1>2, <1>3, <1>4, <2>2, <2>6 DEF PoolInv
  <2> QED
    BY <1>1, <1>3, <2>2, <2>5, <2>7, PoolOnly
<1>5. CASE /\ Len(received) = Len(projects) /\ result' = "nil" /\ UNCHANGED <<received, jobResults>>
  <2>1. Answers' = Answers
    BY <1>5 DEF Answers
  <2>2. Answered' = Answered
    BY <2>1 DEF Answered
  <2>3. TypeOK'
    BY <1>1, <1>2, <1>5 DEF TypeOK
  <2>4. PoolInv'
    BY <1>1, <1>2, <1>3, <1>5, <2>1, <2>2 DEF PoolInv
  <2> QED
    BY <1>1, <1>3, <2>1, <2>3, <2>4, PoolOnly
<1> QED
  BY <1>4, <1>5 DEF Collect

(* A user changes a worktree: what status says is then left open. *)
LEMMA EditInv ==
    ASSUME CommandInv, NEW p \in Projects, UserEdits(p)
    PROVE  CommandInv'
<1>1. /\ TypeOK /\ PoolInv /\ edits < MaxEdits /\ edits' = edits + 1
      /\ UNCHANGED <<settings, feeder, jobResults, worker, env, ran, received, faults, result>>
  BY DEF CommandInv, UserEdits
<1>2. UNCHANGED <<cmd, jobs, projects, missing, jobTasks, fed, tasksClosed>>
  BY <1>1 DEF settings, feeder
<1>3. edits' \in 0..MaxEdits /\ edits' # 0
  BY <1>1, CommandAssumption DEF TypeOK
<1>4. worktree' \in [Projects -> Worktrees]
  <2>1. PICK t \in Worktrees : worktree' = [worktree EXCEPT ![p] = t]
    BY DEF UserEdits
  <2> QED
    BY <1>1, <2>1 DEF TypeOK
<1>5. TypeOK'
  BY <1>1, <1>2, <1>3, <1>4 DEF TypeOK
<1>6. PoolInv' /\ Taken' = Taken /\ Answers' = Answers /\ Answered' = Answered
  BY <1>1, <1>2, PoolStays DEF PoolVars
<1>7. Done' = Done
  BY <1>1, <1>6 DEF Done
<1>8. WorkerInv' /\ EnvInv'
  BY <1>1, <1>2 DEF CommandInv, WorkerInv, EnvInv
<1>9. RanInv'
  BY <1>1, <1>2, <1>7 DEF CommandInv, RanInv
<1>10. StatusInv'
  BY <1>1, <1>2, <1>3, <1>6 DEF CommandInv, StatusInv
<1> QED
  BY <1>5, <1>6, <1>8, <1>9, <1>10 DEF CommandInv

-----------------------------------------------------------------------------
(* The workers: status *)

(* A worker that is not about to run the command does not touch the        *)
(* environment.                                                            *)
LEMMA EnvStays ==
    ASSUME TypeOK, EnvInv, NEW w \in Workers, NEW s \in WorkerStates,
           worker' = [worker EXCEPT ![w] = s], s.pc \notin {"env2", "env3", "run"},
           UNCHANGED <<jobs, env, ran>>
    PROVE  EnvInv'
<1>1. worker'[w] = s /\ \A v \in Workers : v # w => worker'[v] = worker[v]
  BY OneWorker
<1>2. \A v \in Workers : worker'[v].pc \in {"env2", "env3", "run"} => worker'[v] = worker[v]
  BY <1>1
<1> QED
  BY <1>2 DEF EnvInv

(* Who has a result to send is done. *)
LEMMA DoneStep ==
    ASSUME TypeOK, NEW w \in Workers, NEW s \in WorkerStates,
           worker' = [worker EXCEPT ![w] = s], worker[w].pc # "send", Answered' = Answered
    PROVE  Done' = Done \cup (IF s.pc = "send" THEN {s.p} ELSE {})
<1>1. worker'[w] = s /\ \A v \in Workers : v # w => worker'[v] = worker[v]
  BY OneWorker
<1> DEFINE Sends == {worker[v].p : v \in {u \in Workers : worker[u].pc = "send"}}
           Sends2 == {worker'[v].p : v \in {u \in Workers : worker'[u].pc = "send"}}
<1>2. Sends2 = Sends \cup (IF s.pc = "send" THEN {s.p} ELSE {})
  <2>1. \A v \in Workers : worker[v].pc = "send" => v # w /\ worker'[v] = worker[v]
    BY <1>1
  <2>2. Sends \subseteq Sends2
    BY <2>1
  <2>3. s.pc = "send" => s.p \in Sends2
    BY <1>1
  <2>4. ASSUME NEW v \in Workers, worker'[v].pc = "send"
        PROVE  worker'[v].p \in Sends \cup (IF s.pc = "send" THEN {s.p} ELSE {})
    <3>1. CASE v = w
      BY <1>1, <2>4, <3>1
    <3>2. CASE v # w
      BY <1>1, <2>4, <3>2
    <3> QED
      BY <3>1, <3>2
  <2> QED
    BY <2>2, <2>3, <2>4
<1>3. Done = Answered \cup Sends /\ Done' = Answered' \cup Sends2
  BY DEF Done
<1> QED
  BY <1>2, <1>3

(* A step of Status in one project. *)
LEMMA StatusLocal ==
    ASSUME CommandInv, NEW w \in Workers, worker[w].pc \in StatusSteps,
           NEW s \in WorkerStates, worker' = [worker EXCEPT ![w] = s],
           s.p = worker[w].p, s.pc \in StatusSteps \cup {"send"}, s.pc = "send" => s.r.p = s.p,
           UNCHANGED <<settings, worktree, feeder, jobResults, env, ran, received, edits, result>>,
           NEW F, F \subseteq {worker[w].p} \X {"diff", "others"} \X Texts,
           faults' = faults \cup F,
           cmd = "status" /\ edits = 0 => Partial(s, worktree[worker[w].p], missing, faults')
    PROVE  CommandInv'
<1>1. TypeOK /\ WorkerInv /\ PoolInv /\ RanInv /\ EnvInv /\ StatusInv
  BY DEF CommandInv
<1>2. UNCHANGED <<cmd, jobs, projects, missing, jobTasks, fed, tasksClosed>>
  BY DEF settings, feeder
<1>3. worker[w].p # 0 /\ cmd = "status" /\ worker[w].p \notin missing
  BY <1>1 DEF WorkerInv, StatusSteps
<1>4. PICK q : q = worker[w].p
  OBVIOUS
<1>5. q \in Projects /\ (\A v \in Workers : v # w => worker[v].p # q) /\ ~ (w > jobs)
  BY <1>1, <1>3, <1>4, HeldFacts
<1>6. worker' \in [Workers -> WorkerStates] /\ \A v \in Workers : worker'[v].p = worker[v].p
  <2>1. /\ worker' \in [Workers -> WorkerStates] /\ worker'[w] = s
        /\ \A v \in Workers : v # w => worker'[v] = worker[v]
    BY <1>1, OneWorker
  <2> QED
    BY <2>1
<1>7. TypeOK'
  <2>1. faults' \subseteq Projects \X {"diff", "others"} \X Texts
    BY <1>1, <1>4, <1>5 DEF TypeOK
  <2> QED
    BY <1>1, <1>2, <1>6, <2>1 DEF TypeOK
<1>8. WorkerInv'
  <2>1. s.pc \notin {"range", "exit"} /\ s.pc \notin ForallSteps
    BY DEF StatusSteps, ForallSteps
  <2> QED
    BY <1>1, <1>2, <1>3, <1>4, <1>5, <2>1, WorkerStep
<1>9. PoolInv'
  BY <1>1, <1>2, <1>6, PoolStays DEF PoolVars
<1>10. RanInv'
  BY <1>2, <1>3 DEF RanInv
<1>11. EnvInv'
  <2>1. s.pc \notin {"env2", "env3", "run"}
    BY DEF StatusSteps
  <2> QED
    BY <1>1, <1>2, <2>1, EnvStays
<1>12. StatusInv'
  <2>1. faults \subseteq faults' /\ \A f \in faults' : f \in faults \/ f[1] = q
    BY <1>4
  <2>2. UNCHANGED PoolVars
    BY <1>2 DEF PoolVars
  <2> QED
    BY <1>1, <1>2, <1>3, <1>4, <2>1, <2>2, StatusStep
<1> QED
  BY <1>7, <1>8, <1>9, <1>10, <1>11, <1>12 DEF CommandInv

(* What one step makes of a worker. *)
Steps == ForallSteps \cup StatusSteps \cup {"range", "send", "exit"}
Errors == {"nil", "none", "missing", "rebase", "failed", "silent"}

(* Parts of a worker have their types, and such parts make a worker. *)
LEMMA StateFacts ==
    /\ \A s \in WorkerStates : /\ s.pc \in Steps /\ s.p \in Projects \cup {0}
                               /\ s.di \in Outputs /\ s.df \in Outputs /\ s.r \in Results
    /\ \A pc \in Steps, p \in Projects \cup {0}, di, df \in Outputs, r \in Results :
          State(pc, p, di, df, r) \in WorkerStates
    /\ \A p \in Projects \cup {0}, di, df \in Outputs, do \in Seq(Nat), error \in Errors :
          Result(p, di, df, do, error) \in Results
  BY DEF WorkerStates, Steps, Errors, Results, Result, State

(* It goes on to another step. *)
LEMMA GotoFacts ==
    ASSUME TypeOK, NEW w \in Workers, NEW pc \in Steps, Goto(w, pc)
    PROVE  \E s \in WorkerStates :
              /\ worker' = [worker EXCEPT ![w] = s] /\ s.pc = pc /\ s.p = worker[w].p
              /\ s.di = worker[w].di /\ s.df = worker[w].df
<1>1. PICK x \in WorkerStates : x = worker[w]
  BY DEF TypeOK
<1>2. PICK s : s = State(pc, x.p, x.di, x.df, x.r)
  OBVIOUS
<1>3. s \in WorkerStates
  BY <1>2, StateFacts
<1>4. [x EXCEPT !.pc = pc] = s
  BY <1>2 DEF WorkerStates, State
<1>5. worker' = [worker EXCEPT ![w] = s]
  BY <1>1, <1>4 DEF Goto, TypeOK
<1> QED
  BY <1>1, <1>2, <1>3, <1>5 DEF State

(* It has a result for its project. *)
LEMMA AnswerFacts ==
    ASSUME TypeOK, NEW w \in Workers, NEW do \in Seq(Nat), NEW error \in Errors,
           Answer(w, do, error)
    PROVE  \E s \in WorkerStates :
              /\ worker' = [worker EXCEPT ![w] = s] /\ s.pc = "send" /\ s.p = worker[w].p
              /\ s.r = Result(worker[w].p, worker[w].di, worker[w].df, do, error)
<1>1. PICK x \in WorkerStates : x = worker[w]
  BY DEF TypeOK
<1>2. PICK r \in Results : r = Result(x.p, x.di, x.df, do, error)
  BY StateFacts
<1>3. PICK s : s = State("send", x.p, x.di, x.df, r)
  OBVIOUS
<1>4. s \in WorkerStates
  <2>1. "send" \in Steps
    BY DEF Steps
  <2> QED
    BY <1>3, <2>1, StateFacts
<1>5. worker' = [worker EXCEPT ![w] = s]
  BY <1>1, <1>2, <1>3 DEF Answer
<1> QED
  BY <1>1, <1>2, <1>3, <1>4, <1>5 DEF State

(* A worktree is what git may find. *)
LEMMA TreeFacts ==
    ASSUME TypeOK, NEW q \in Projects
    PROVE  /\ worktree[q] \in Worktrees
           /\ worktree[q].staged \in Seq(Entries) /\ worktree[q].unstaged \in Seq(Entries)
           /\ worktree[q].others \in Seq(Nat)
<1>1. worktree[q] \in Worktrees
  BY DEF TypeOK
<1> QED
  BY <1>1, WorktreeAssumption

(* Status looks for a stopped rebase. *)
LEMMA RebaseInv ==
    ASSUME CommandInv, NEW w \in Workers, StatusRebase(w)
    PROVE  CommandInv'
<1>1. /\ TypeOK /\ WorkerInv /\ StatusInv /\ worker[w].pc = "rebase" /\ worker[w].pc \in StatusSteps
      /\ UNCHANGED <<settings, worktree, feeder, jobResults, env, ran, received, history, result>>
  BY DEF CommandInv, StatusRebase, StatusSteps
<1>2. faults' = faults \cup {} /\ UNCHANGED edits
  BY <1>1 DEF history
<1>3. PICK q, t : q = worker[w].p /\ t = worktree[q]
  OBVIOUS
<1>4. q \notin missing
  BY <1>1, <1>3 DEF WorkerInv
<1>5. cmd = "status" /\ edits = 0 => ~Failed(q, "diff", faults) /\ ~Failed(q, "others", faults)
  BY <1>1, <1>3 DEF StatusInv, Partial
<1>6. CASE t.rebasing
  <2>1. Answer(w, <<>>, "rebase") /\ <<>> \in Seq(Nat) /\ "rebase" \in Errors
    BY <1>3, <1>6 DEF StatusRebase, Errors
  <2>2. PICK s \in WorkerStates :
            /\ worker' = [worker EXCEPT ![w] = s] /\ s.pc = "send" /\ s.p = worker[w].p
            /\ s.r = Result(worker[w].p, worker[w].di, worker[w].df, <<>>, "rebase")
    BY <1>1, <2>1, AnswerFacts
  <2>3. s.r.p = q /\ s.r.error = "rebase"
    BY <1>3, <2>2 DEF Result
  <2>4. Partial(s, worktree[worker[w].p], missing, faults')
    BY <1>3, <1>4, <1>6, <2>2, <2>3 DEF Partial, Faithful, StatusSteps
  <2> QED
    BY <1>1, <1>2, <1>3, <2>2, <2>3, <2>4, StatusLocal
<1>7. CASE ~t.rebasing
  <2>1. Goto(w, "diffIndex") /\ "diffIndex" \in Steps /\ "diffIndex" \in StatusSteps
    BY <1>3, <1>7 DEF StatusRebase, Steps, StatusSteps
  <2>2. PICK s \in WorkerStates :
            worker' = [worker EXCEPT ![w] = s] /\ s.pc = "diffIndex" /\ s.p = worker[w].p
    BY <1>1, <2>1, GotoFacts
  <2>3. cmd = "status" /\ edits = 0 => Partial(s, worktree[worker[w].p], missing, faults')
    BY <1>2, <1>3, <1>5, <1>7, <2>2 DEF Partial
  <2> QED
    BY <1>1, <1>2, <2>1, <2>2, <2>3, StatusLocal
<1> QED
  BY <1>6, <1>7

(* What a git command prints, and what its failure leaves. *)
LEMMA RunsFacts ==
    ASSUME TypeOK, NEW w \in Workers, NEW name \in {"diff", "others"}, NEW tokens, NEW out,
           Runs(w, name, tokens, out)
    PROVE  \E F : /\ F \subseteq {worker[w].p} \X {"diff", "others"} \X Texts
                  /\ F \subseteq {worker[w].p} \X {name} \X Texts
                  /\ faults' = faults \cup F
                  /\ Printed(out, tokens, Failed(worker[w].p, name, faults'))
<1>1. CASE out = tokens /\ UNCHANGED faults
  <2>1. faults' = faults \cup {} /\ Printed(out, tokens, Failed(worker[w].p, name, faults'))
    BY <1>1 DEF Printed
  <2> QED
    BY <2>1
<1>2. CASE out = <<>> /\ \E text \in Texts : faults' = faults \cup {<<worker[w].p, name, text>>}
  <2>1. PICK text \in Texts : faults' = faults \cup {<<worker[w].p, name, text>>}
    BY <1>2
  <2>2. Failed(worker[w].p, name, faults')
    BY <2>1 DEF Failed
  <2>3. Printed(out, tokens, Failed(worker[w].p, name, faults'))
    BY <1>2, <2>2 DEF Printed
  <2>4. {<<worker[w].p, name, text>>} \subseteq {worker[w].p} \X {name} \X Texts
    OBVIOUS
  <2>5. {<<worker[w].p, name, text>>} \subseteq {worker[w].p} \X {"diff", "others"} \X Texts
    OBVIOUS
  <2> QED
    BY <2>1, <2>3, <2>4, <2>5
<1> QED
  BY <1>1, <1>2 DEF Runs

(* The failure of one git command says nothing of another, and what failed *)
(* has failed.                                                             *)
LEMMA FailedGrows ==
    ASSUME NEW p, NEW name, NEW other, NEW fs, NEW F, F \subseteq {p} \X {name} \X Texts
    PROVE  /\ Failed(p, other, fs) => Failed(p, other, fs \cup F)
           /\ other # name => (Failed(p, other, fs \cup F) => Failed(p, other, fs))
<1>1. Failed(p, other, fs) => Failed(p, other, fs \cup F)
  BY DEF Failed
<1>2. ASSUME other # name, NEW text \in Texts, <<p, other, text>> \in fs \cup F
      PROVE  <<p, other, text>> \in fs
  <2>1. <<p, other, text>> \notin F
    BY <1>2
  <2> QED
    BY <1>2, <2>1
<1> QED
  BY <1>1, <1>2 DEF Failed

(* Status runs git diff-index. *)
LEMMA IndexInv ==
    ASSUME CommandInv, NEW w \in Workers, DiffIndex(w)
    PROVE  CommandInv'
<1>1. /\ TypeOK /\ WorkerInv /\ PoolInv /\ StatusInv
      /\ worker[w].pc = "diffIndex" /\ worker[w].pc \in StatusSteps
      /\ UNCHANGED <<settings, worktree, feeder, jobResults, env, ran, received, edits, result>>
  BY DEF CommandInv, DiffIndex, StatusSteps
<1>2. PICK q, t : q = worker[w].p /\ t = worktree[q]
  OBVIOUS
<1>3. q \in Projects /\ q \notin missing
  <2>1. q # 0 /\ q \notin missing
    BY <1>1, <1>2 DEF WorkerInv
  <2> QED
    BY <1>1, <1>2, <2>1, HeldFacts
<1>4. Encode(t.staged) \in Outputs
  BY <1>1, <1>2, <1>3, TreeFacts, ParseEncode
<1>5. PICK out \in {Encode(t.staged), <<>>} :
          /\ Runs(w, "diff", Encode(t.staged), out)
          /\ worker' = [worker EXCEPT ![w] = State("diffFiles", worker[w].p, out, <<>>, NoResult)]
  BY <1>2 DEF DiffIndex
<1>6. PICK F : /\ F \subseteq {worker[w].p} \X {"diff", "others"} \X Texts
               /\ faults' = faults \cup F /\ F \subseteq {worker[w].p} \X {"diff"} \X Texts
               /\ Printed(out, Encode(t.staged), Failed(worker[w].p, "diff", faults'))
  BY <1>1, <1>5, RunsFacts
<1>7. out \in Outputs
  BY <1>4, <1>5, NoResultFacts
<1>8. PICK x \in WorkerStates : x = worker[w]
  BY <1>1 DEF TypeOK
<1>9. PICK s : s = State("diffFiles", x.p, out, <<>>, NoResult)
  OBVIOUS
<1>10. s \in WorkerStates /\ s.pc \in StatusSteps /\ s.pc = "diffFiles" /\ s.p = worker[w].p
  <2>1. "diffFiles" \in Steps /\ "diffFiles" \in StatusSteps
    BY DEF Steps, StatusSteps
  <2>2. s \in WorkerStates
    BY <1>7, <1>9, <2>1, StateFacts, NoResultFacts
  <2> QED
    BY <1>8, <1>9, <2>1, <2>2 DEF State
<1>11. worker' = [worker EXCEPT ![w] = s]
  BY <1>5, <1>8, <1>9
<1>12. cmd = "status" /\ edits = 0 => Partial(s, worktree[worker[w].p], missing, faults')
  <2> SUFFICES ASSUME cmd = "status", edits = 0
               PROVE  Partial(s, t, missing, faults')
    BY <1>2
  <2>1. ~t.rebasing /\ ~Failed(q, "others", faults)
    BY <1>1, <1>2 DEF StatusInv, Partial
  <2>2. s.p = q /\ s.pc = "diffFiles" /\ s.di = out
    BY <1>2, <1>8, <1>9 DEF State
  <2>3. ~Failed(q, "others", faults')
    BY <1>2, <1>6, <2>1, FailedGrows
  <2> QED
    BY <1>2, <1>6, <2>1, <2>2, <2>3 DEF Partial
<1> QED
  BY <1>1, <1>6, <1>10, <1>11, <1>12, StatusLocal

(* Status runs git diff-files, after diff-index has printed or failed. *)
LEMMA FilesInv ==
    ASSUME CommandInv, NEW w \in Workers, DiffFiles(w)
    PROVE  CommandInv'
<1>1. /\ TypeOK /\ WorkerInv /\ PoolInv /\ StatusInv
      /\ worker[w].pc = "diffFiles" /\ worker[w].pc \in StatusSteps
      /\ UNCHANGED <<settings, worktree, feeder, jobResults, env, ran, received, edits, result>>
  BY DEF CommandInv, DiffFiles, StatusSteps
<1>2. PICK q, t : q = worker[w].p /\ t = worktree[q]
  OBVIOUS
<1>3. q \in Projects /\ q \notin missing
  <2>1. q # 0 /\ q \notin missing
    BY <1>1, <1>2 DEF WorkerInv
  <2> QED
    BY <1>1, <1>2, <2>1, HeldFacts
<1>4. Encode(t.unstaged) \in Outputs
  BY <1>1, <1>2, <1>3, TreeFacts, ParseEncode
<1>5. PICK out \in {Encode(t.unstaged), <<>>} :
          /\ Runs(w, "diff", Encode(t.unstaged), out)
          /\ worker' = [worker EXCEPT ![w] = State("others", worker[w].p, worker[w].di, out, NoResult)]
  BY <1>2 DEF DiffFiles
<1>6. PICK F : /\ F \subseteq {worker[w].p} \X {"diff", "others"} \X Texts
               /\ faults' = faults \cup F /\ F \subseteq {worker[w].p} \X {"diff"} \X Texts
               /\ Printed(out, Encode(t.unstaged), Failed(worker[w].p, "diff", faults'))
  BY <1>1, <1>5, RunsFacts
<1>7. out \in Outputs
  BY <1>4, <1>5, NoResultFacts
<1>8. PICK x \in WorkerStates : x = worker[w]
  BY <1>1 DEF TypeOK
<1>9. PICK s : s = State("others", x.p, x.di, out, NoResult)
  OBVIOUS
<1>10. s \in WorkerStates /\ s.pc \in StatusSteps /\ s.pc = "others" /\ s.p = worker[w].p
  <2>1. "others" \in Steps /\ "others" \in StatusSteps
    BY DEF Steps, StatusSteps
  <2>2. s \in WorkerStates
    BY <1>7, <1>9, <2>1, StateFacts, NoResultFacts
  <2> QED
    BY <1>8, <1>9, <2>1, <2>2 DEF State
<1>11. worker' = [worker EXCEPT ![w] = s]
  BY <1>5, <1>8, <1>9
<1>12. cmd = "status" /\ edits = 0 => Partial(s, worktree[worker[w].p], missing, faults')
  <2> SUFFICES ASSUME cmd = "status", edits = 0
               PROVE  Partial(s, t, missing, faults')
    BY <1>2
  <2>1. /\ ~t.rebasing /\ ~Failed(q, "others", faults)
        /\ Printed(x.di, Encode(t.staged), Failed(q, "diff", faults))
    BY <1>1, <1>2, <1>8 DEF StatusInv, Partial
  <2>2. s.p = q /\ s.pc = "others" /\ s.di = x.di /\ s.df = out
    BY <1>2, <1>8, <1>9 DEF State
  <2>3. ~Failed(q, "others", faults')
    BY <1>2, <1>6, <2>1, FailedGrows
  <2>4. Printed(x.di, Encode(t.staged), Failed(q, "diff", faults'))
    <3>1. Failed(q, "diff", faults) => Failed(q, "diff", faults')
      BY <1>2, <1>6, FailedGrows
    <3> QED
      BY <2>1, <3>1 DEF Printed
  <2> QED
    BY <1>2, <1>6, <2>1, <2>2, <2>3, <2>4 DEF Partial
<1> QED
  BY <1>1, <1>6, <1>10, <1>11, <1>12, StatusLocal

(* Status runs git ls-files, and has its result. *)
LEMMA OthersInv ==
    ASSUME CommandInv, NEW w \in Workers, ListOthers(w)
    PROVE  CommandInv'
<1>1. /\ TypeOK /\ WorkerInv /\ PoolInv /\ StatusInv
      /\ worker[w].pc = "others" /\ worker[w].pc \in StatusSteps
      /\ UNCHANGED <<settings, worktree, feeder, jobResults, env, ran, received, edits, result>>
  BY DEF CommandInv, ListOthers, StatusSteps
<1>2. PICK q, t : q = worker[w].p /\ t = worktree[q]
  OBVIOUS
<1>3. q \in Projects /\ q \notin missing
  <2>1. q # 0 /\ q \notin missing
    BY <1>1, <1>2 DEF WorkerInv
  <2> QED
    BY <1>1, <1>2, <2>1, HeldFacts
<1>4. t.others \in Seq(Nat)
  BY <1>1, <1>2, <1>3, TreeFacts
<1>5. PICK out \in {t.others, <<>>}, error \in Errors :
          /\ Runs(w, "others", t.others, out) /\ Answer(w, out, error)
          /\ error = StatusError(q, <<worker[w].di, worker[w].df, out>> = <<<<>>, <<>>, <<>>>>, faults')
  <2>1. \E out \in {t.others, <<>>} :
            /\ Runs(w, "others", t.others, out)
            /\ Answer(w, out, StatusError(q, <<worker[w].di, worker[w].df, out>> = <<<<>>, <<>>, <<>>>>,
                                         faults'))
    BY <1>2 DEF ListOthers
  <2>2. \A quiet, fs : StatusError(q, quiet, fs) \in Errors
    BY DEF StatusError, Errors
  <2> QED
    BY <2>1, <2>2
<1>6. PICK F : /\ F \subseteq {worker[w].p} \X {"diff", "others"} \X Texts
               /\ faults' = faults \cup F /\ F \subseteq {worker[w].p} \X {"others"} \X Texts
               /\ Printed(out, t.others, Failed(worker[w].p, "others", faults'))
  <2>1. Runs(w, "others", t.others, out) /\ TypeOK
    BY <1>1, <1>5
  <2> QED
    BY <2>1, RunsFacts
<1>7. out \in Seq(Nat)
  BY <1>4, <1>5, NoResultFacts
<1>8. PICK s \in WorkerStates :
          /\ worker' = [worker EXCEPT ![w] = s] /\ s.pc = "send" /\ s.p = worker[w].p
          /\ s.r = Result(worker[w].p, worker[w].di, worker[w].df, out, error)
  BY <1>1, <1>5, <1>7, AnswerFacts
<1>9. PICK r : r = s.r
  OBVIOUS
<1>10. /\ r.p = q /\ r.error = error /\ r.do = out
       /\ r.di = worker[w].di /\ r.df = worker[w].df
  BY <1>2, <1>8, <1>9 DEF Result
<1>11. cmd = "status" /\ edits = 0 => Partial(s, worktree[worker[w].p], missing, faults')
  <2> SUFFICES ASSUME cmd = "status", edits = 0
               PROVE  Partial(s, t, missing, faults')
    BY <1>2
  <2>1. /\ ~t.rebasing
        /\ Printed(worker[w].di, Encode(t.staged), Failed(q, "diff", faults))
        /\ Printed(worker[w].df, Encode(t.unstaged), Failed(q, "diff", faults))
    BY <1>1, <1>2 DEF StatusInv, Partial
  <2>2. Failed(q, "diff", faults) <=> Failed(q, "diff", faults')
    BY <1>2, <1>6, FailedGrows
  <2>3. r.error = StatusError(r.p, <<r.di, r.df, r.do>> = <<<<>>, <<>>, <<>>>>, faults')
    BY <1>5, <1>10
  <2>4. /\ Printed(r.di, Encode(t.staged), Failed(r.p, "diff", faults'))
        /\ Printed(r.df, Encode(t.unstaged), Failed(r.p, "diff", faults'))
        /\ Printed(r.do, t.others, Failed(r.p, "others", faults'))
    BY <1>2, <1>6, <1>10, <2>1, <2>2 DEF Printed
  <2>5. Faithful(r, t, missing, faults')
    BY <1>3, <1>10, <2>1, <2>3, <2>4 DEF Faithful
  <2> QED
    BY <1>8, <1>9, <2>5 DEF Partial, StatusSteps
<1> QED
  BY <1>1, <1>2, <1>6, <1>8, <1>9, <1>10, <1>11, StatusLocal

-----------------------------------------------------------------------------
(* The workers: forall *)

(* One of the three variables is set; with one job, no other worker sets them. *)
LEMMA SetEnvInv ==
    ASSUME CommandInv, NEW w \in Workers, SetEnv(w)
    PROVE  CommandInv'
<1>1. /\ TypeOK /\ WorkerInv /\ PoolInv /\ RanInv /\ EnvInv /\ StatusInv
      /\ worker[w].pc \in {"env1", "env2", "env3"} /\ worker[w].pc \in ForallSteps
      /\ UNCHANGED <<settings, worktree, feeder, jobResults, ran, received, history, result>>
  BY DEF CommandInv, SetEnv, EnvStep, ForallSteps
<1>2. UNCHANGED <<cmd, jobs, projects, missing, jobTasks, fed, tasksClosed, faults, edits>>
  BY <1>1 DEF settings, feeder, history
<1>3. worker[w].p # 0 /\ cmd = "forall" /\ worker[w].p \notin missing
  BY <1>1 DEF WorkerInv, ForallSteps
<1>4. PICK q : q = worker[w].p
  OBVIOUS
<1>5. q \in Projects /\ (\A v \in Workers : v # w => worker[v].p # q) /\ ~ (w > jobs)
  BY <1>1, <1>3, <1>4, HeldFacts
<1>6. PICK k \in 1..3, pc \in {"env2", "env3", "run"} :
          /\ env' = [env EXCEPT ![k] = q] /\ Goto(w, pc)
          /\ \/ worker[w].pc = "env1" /\ k = 1 /\ pc = "env2"
             \/ worker[w].pc = "env2" /\ k = 2 /\ pc = "env3"
             \/ worker[w].pc = "env3" /\ k = 3 /\ pc = "run"
  <2>1. /\ EnvStep["env1"] = 1 /\ EnvStep["env2"] = 2 /\ EnvStep["env3"] = 3
        /\ NextEnv["env1"] = "env2" /\ NextEnv["env2"] = "env3" /\ NextEnv["env3"] = "run"
    BY DEF EnvStep, NextEnv
  <2>2. env' = [env EXCEPT ![EnvStep[worker[w].pc]] = q] /\ Goto(w, NextEnv[worker[w].pc])
    BY <1>4 DEF SetEnv
  <2>3. CASE worker[w].pc = "env1"
    <3>1. env' = [env EXCEPT ![1] = q] /\ Goto(w, "env2")
      BY <2>1, <2>2, <2>3
    <3>2. 1 \in 1..3 /\ "env2" \in {"env2", "env3", "run"}
      OBVIOUS
    <3> QED
      BY <2>3, <3>1, <3>2
  <2>4. CASE worker[w].pc = "env2"
    <3>1. env' = [env EXCEPT ![2] = q] /\ Goto(w, "env3")
      BY <2>1, <2>2, <2>4
    <3>2. 2 \in 1..3 /\ "env3" \in {"env2", "env3", "run"}
      OBVIOUS
    <3> QED
      BY <2>4, <3>1, <3>2
  <2>5. CASE worker[w].pc = "env3"
    <3>1. env' = [env EXCEPT ![3] = q] /\ Goto(w, "run")
      BY <2>1, <2>2, <2>5
    <3>2. 3 \in 1..3 /\ "run" \in {"env2", "env3", "run"}
      OBVIOUS
    <3> QED
      BY <2>5, <3>1, <3>2
  <2> QED
    BY <1>1, <2>3, <2>4, <2>5
<1>7. PICK s \in WorkerStates :
          worker' = [worker EXCEPT ![w] = s] /\ s.pc = pc /\ s.p = worker[w].p
  <2>1. pc \in Steps
    BY DEF Steps, ForallSteps
  <2> QED
    BY <1>1, <1>6, <2>1, GotoFacts
<1>8. /\ worker' \in [Workers -> WorkerStates] /\ worker'[w] = s
      /\ \A v \in Workers : v # w => worker'[v] = worker[v]
  BY <1>1, <1>7, OneWorker
<1>9. \A v \in Workers : worker'[v].p = worker[v].p
  BY <1>7, <1>8
<1>10. TypeOK'
  <2>1. env' \in [1..3 -> Projects \cup {0}]
    BY <1>1, <1>5, <1>6 DEF TypeOK
  <2> QED
    BY <1>1, <1>2, <1>8, <2>1 DEF TypeOK
<1>11. WorkerInv'
  <2>1. s.pc \notin {"range", "exit", "send"} /\ s.pc \notin StatusSteps
    BY <1>7 DEF StatusSteps
  <2> QED
    BY <1>1, <1>2, <1>3, <1>4, <1>5, <1>7, <2>1, WorkerStep
<1>12. PoolInv' /\ Taken' = Taken /\ Answered' = Answered
  BY <1>1, <1>2, <1>9, PoolStays DEF PoolVars
<1>13. RanInv'
  <2>1. Done' = Done
    <3>1. worker[w].pc # "send" /\ s.pc # "send"
      BY <1>1, <1>7
    <3> QED
      BY <1>1, <1>7, <1>12, <3>1, DoneStep
  <2> QED
    BY <1>1, <1>2, <2>1 DEF RanInv
<1>14. EnvInv'
  <2> SUFFICES ASSUME jobs = 1
               PROVE  EnvInv'
    BY <1>2 DEF EnvInv
  <2>1. \A v \in Workers : v # w => worker[v].pc = "exit"
    <3> SUFFICES ASSUME NEW v \in Workers, v # w
                 PROVE  v > jobs
      BY <1>1 DEF WorkerInv
    <3>1. v \in Nat \ {0} /\ w \in Nat \ {0}
      BY CommandAssumption DEF Workers
    <3> QED
      BY <1>5, <3>1
  <2>2. env'[k] = q /\ \A j \in 1..3 : j # k => env'[j] = env[j]
    BY <1>1, <1>6 DEF TypeOK
  <2>3. /\ worker[w].pc \in {"env2", "env3"} => env[1] = q
        /\ worker[w].pc = "env3" => env[2] = q
    BY <1>1, <1>4 DEF EnvInv
  <2>4. /\ s.pc \in {"env2", "env3", "run"} => env'[1] = q
        /\ s.pc \in {"env3", "run"} => env'[2] = q
        /\ s.pc = "run" => env'[3] = q
    BY <1>6, <1>7, <2>2, <2>3
  <2>5. ASSUME NEW v \in Workers
        PROVE  /\ worker'[v].pc \in {"env2", "env3", "run"} => env'[1] = worker'[v].p
               /\ worker'[v].pc \in {"env3", "run"} => env'[2] = worker'[v].p
               /\ worker'[v].pc = "run" => env'[3] = worker'[v].p
    <3>1. CASE v = w
      BY <1>4, <1>7, <1>8, <2>4, <3>1
    <3>2. CASE v # w
      BY <1>8, <2>1, <3>2
    <3> QED
      BY <3>1, <3>2
  <2> QED
    BY <1>1, <1>2, <2>5 DEF EnvInv
<1>15. StatusInv'
  BY <1>2, <1>3 DEF StatusInv
<1> QED
  BY <1>10, <1>11, <1>12, <1>13, <1>14, <1>15 DEF CommandInv

(* The command runs in a project that is not done, for the first time. *)
LEMMA ExecuteInv ==
    ASSUME CommandInv, NEW w \in Workers, ExecuteCommand(w)
    PROVE  CommandInv'
<1>1. /\ TypeOK /\ WorkerInv /\ PoolInv /\ RanInv /\ EnvInv /\ StatusInv
      /\ worker[w].pc = "run" /\ worker[w].pc \in ForallSteps
      /\ ran' = [ran EXCEPT ![worker[w].p] = Append(@, env)]
      /\ Answer(w, <<>>, "none")
      /\ UNCHANGED <<settings, worktree, feeder, jobResults, env, received, history, result>>
  BY DEF CommandInv, ExecuteCommand, ForallSteps
<1>2. UNCHANGED <<cmd, jobs, projects, missing, jobTasks, fed, tasksClosed, faults, edits>>
  BY <1>1 DEF settings, feeder, history
<1>3. worker[w].p # 0 /\ cmd = "forall" /\ worker[w].p \notin missing
  BY <1>1 DEF WorkerInv, ForallSteps
<1>4. PICK q : q = worker[w].p
  OBVIOUS
<1>5. /\ q \in Projects /\ q \notin Answered
      /\ (\A v \in Workers : v # w => worker[v].p # q) /\ ~ (w > jobs)
  BY <1>1, <1>3, <1>4, HeldFacts
<1>6. PICK s \in WorkerStates :
          /\ worker' = [worker EXCEPT ![w] = s] /\ s.pc = "send" /\ s.p = worker[w].p
          /\ s.r = Result(worker[w].p, worker[w].di, worker[w].df, <<>>, "none")
  <2>1. <<>> \in Seq(Nat) /\ "none" \in Errors
    BY DEF Errors
  <2> QED
    BY <1>1, <2>1, AnswerFacts
<1>7. s.r.p = s.p
  BY <1>6 DEF Result
<1>8. /\ worker' \in [Workers -> WorkerStates] /\ worker'[w] = s
      /\ \A v \in Workers : v # w => worker'[v] = worker[v]
  BY <1>1, <1>6, OneWorker
<1>9. \A v \in Workers : worker'[v].p = worker[v].p
  BY <1>6, <1>8
<1>10. /\ ran' \in [Projects -> Seq([1..3 -> Projects \cup {0}])]
       /\ ran'[q] = Append(ran[q], env) /\ \A p \in Projects : p # q => ran'[p] = ran[p]
       /\ ran[q] \in Seq([1..3 -> Projects \cup {0}]) /\ env \in [1..3 -> Projects \cup {0}]
  <2> DEFINE T == [1..3 -> Projects \cup {0}]
  <2>1. ran \in [Projects -> Seq(T)] /\ env \in T
    BY <1>1 DEF TypeOK
  <2>2. ran' = [ran EXCEPT ![q] = Append(ran[q], env)]
    BY <1>1, <1>4
  <2> HIDE DEF T
  <2>3. /\ ran' \in [Projects -> Seq(T)] /\ ran[q] \in Seq(T)
        /\ ran'[q] = Append(ran[q], env) /\ \A p \in Projects : p # q => ran'[p] = ran[p]
    BY <1>5, <2>1, <2>2
  <2> QED
    BY <2>1, <2>3 DEF T
<1>11. TypeOK'
  BY <1>1, <1>2, <1>8, <1>10 DEF TypeOK
<1>12. WorkerInv'
  <2>1. s.pc \notin {"range", "exit"} /\ s.pc \notin StatusSteps /\ s.pc \notin ForallSteps
    BY <1>6 DEF StatusSteps, ForallSteps
  <2> QED
    BY <1>1, <1>2, <1>3, <1>4, <1>5, <1>6, <1>7, <2>1, WorkerStep
<1>13. PoolInv' /\ Answered' = Answered
  BY <1>1, <1>2, <1>9, PoolStays DEF PoolVars
<1>14. q \notin Done
  <2>1. \A v \in Workers : worker[v].pc = "send" => worker[v].p # q
    BY <1>1, <1>5
  <2> QED
    BY <1>5, <2>1 DEF Done
<1>15. RanInv'
  <2>1. Done' = Done \cup {q}
    <3>1. worker[w].pc # "send"
      BY <1>1
    <3> QED
      BY <1>1, <1>4, <1>6, <1>13, <3>1, DoneStep
  <2>2. \A p \in Projects : Len(ran[p]) = IF p \in Done \ missing THEN 1 ELSE 0
    BY <1>1, <1>3 DEF RanInv
  <2>3. Len(ran[q]) = 0
    BY <1>5, <1>14, <2>2
  <2>4. Len(ran'[q]) = 1
    BY <1>10, <2>3
  <2>5. \A p \in Projects : Len(ran'[p]) = IF p \in Done' \ missing THEN 1 ELSE 0
    BY <1>3, <1>4, <1>10, <2>1, <2>2, <2>4
  <2> QED
    BY <1>2, <2>5 DEF RanInv
<1>16. EnvInv'
  <2> SUFFICES ASSUME jobs = 1
               PROVE  EnvInv'
    BY <1>2 DEF EnvInv
  <2>1. env = [k \in 1..3 |-> q]
    <3>1. env[1] = q /\ env[2] = q /\ env[3] = q
      BY <1>1, <1>4 DEF EnvInv
    <3>2. \A k \in 1..3 : k = 1 \/ k = 2 \/ k = 3
      OBVIOUS
    <3> QED
      BY <1>10, <3>1, <3>2
  <2>2. \A v \in Workers : worker'[v].pc \in {"env2", "env3", "run"} => worker'[v] = worker[v]
    BY <1>6, <1>8
  <2>3. ASSUME NEW p \in Projects, NEW i \in DOMAIN ran'[p]
        PROVE  ran'[p][i] = [k \in 1..3 |-> p]
    <3>1. \A j \in DOMAIN ran[p] : ran[p][j] = [k \in 1..3 |-> p]
      BY <1>1 DEF EnvInv
    <3>2. CASE p # q
      BY <1>10, <2>3, <3>1, <3>2
    <3>3. CASE p = q
      <4>1. PICK old \in Seq([1..3 -> Projects \cup {0}]), e \in [1..3 -> Projects \cup {0}] :
                old = ran[q] /\ e = env
        BY <1>10
      <4>2. ran'[q] = Append(old, e) /\ i \in DOMAIN Append(old, e)
        BY <1>10, <2>3, <3>3, <4>1
      <4>3. i \in DOMAIN old \/ Append(old, e)[i] = e
        BY <4>2
      <4>4. i \in DOMAIN old => Append(old, e)[i] = old[i]
        OBVIOUS
      <4> QED
        BY <2>1, <3>1, <3>3, <4>1, <4>2, <4>3, <4>4
    <3> QED
      BY <3>2, <3>3
  <2> QED
    BY <1>1, <1>2, <2>2, <2>3 DEF EnvInv
<1>17. StatusInv'
  BY <1>2, <1>3 DEF StatusInv
<1> QED
  BY <1>11, <1>12, <1>13, <1>15, <1>16, <1>17 DEF CommandInv

-----------------------------------------------------------------------------
(* The workers: the channels *)

(* A worker leaves when the channel is closed and empty. *)
LEMMA ExitInv ==
    ASSUME CommandInv, NEW w \in Workers, WorkerExit(w)
    PROVE  CommandInv'
<1>1. /\ TypeOK /\ WorkerInv /\ PoolInv /\ RanInv /\ EnvInv /\ StatusInv
      /\ worker[w].pc = "range" /\ Goto(w, "exit")
      /\ UNCHANGED <<settings, worktree, feeder, jobResults, env, ran, received, history, result>>
  BY DEF CommandInv, WorkerExit
<1>2. UNCHANGED <<cmd, jobs, projects, missing, jobTasks, fed, tasksClosed, faults, edits>>
  BY <1>1 DEF settings, feeder, history
<1>3. worker[w].p = 0
  BY <1>1 DEF WorkerInv
<1>4. PICK s \in WorkerStates :
          worker' = [worker EXCEPT ![w] = s] /\ s.pc = "exit" /\ s.p = worker[w].p
  <2>1. "exit" \in Steps
    BY DEF Steps
  <2> QED
    BY <1>1, <2>1, GotoFacts
<1>5. /\ worker' \in [Workers -> WorkerStates] /\ worker'[w] = s
      /\ \A v \in Workers : v # w => worker'[v] = worker[v]
  BY <1>1, <1>4, OneWorker
<1>6. TypeOK'
  BY <1>1, <1>2, <1>5 DEF TypeOK
<1>7. WorkerInv'
  <2>1. s.pc \notin StatusSteps /\ s.pc \notin ForallSteps
    BY <1>4 DEF StatusSteps, ForallSteps
  <2> QED
    BY <1>1, <1>2, <1>3, <1>4, <2>1, WorkerStep
<1>8. PoolInv' /\ Taken' = Taken /\ Answers' = Answers /\ Answered' = Answered
  <2>1. \A v \in Workers : worker'[v].p = worker[v].p
    BY <1>4, <1>5
  <2> QED
    BY <1>1, <1>2, <2>1, PoolStays DEF PoolVars
<1>9. RanInv'
  <2>1. Done' = Done
    <3>1. worker[w].pc # "send" /\ s.pc # "send"
      BY <1>1, <1>4
    <3> QED
      BY <1>1, <1>4, <1>8, <3>1, DoneStep
  <2> QED
    BY <1>1, <1>2, <2>1 DEF RanInv
<1>10. EnvInv'
  BY <1>1, <1>2, <1>4, EnvStays
<1>11. StatusInv'
  <2> SUFFICES ASSUME cmd = "status"
               PROVE  StatusInv'
    BY <1>2 DEF StatusInv
  <2>1. ASSUME edits = 0, NEW v \in Workers
        PROVE  Partial(worker'[v], worktree[worker'[v].p], missing, faults)
    <3>1. CASE v = w
      BY <1>4, <1>5, <3>1 DEF Partial, StatusSteps
    <3>2. CASE v # w
      BY <1>1, <1>5, <2>1, <3>2 DEF StatusInv
    <3> QED
      BY <3>1, <3>2
  <2> QED
    BY <1>1, <1>2, <1>8, <2>1 DEF StatusInv
<1> QED
  BY <1>6, <1>7, <1>8, <1>9, <1>10, <1>11 DEF CommandInv

(* The index at the head of the channel is one that nobody has taken. *)
LEMMA HeadFacts ==
    ASSUME TypeOK, PoolInv, jobTasks # <<>>, jobTasks' = Tail(jobTasks), UNCHANGED <<projects, fed>>
    PROVE  /\ Head(jobTasks) \in Projects /\ Head(jobTasks) # 0 /\ Head(jobTasks) \notin Taken
           /\ jobTasks' \in Seq(Projects) /\ Len(jobTasks') <= jobs
           /\ taken' \in 0..fed /\ Taken' = Taken \cup {Head(jobTasks)}
           /\ \A i \in DOMAIN jobTasks' : jobTasks'[i] = projects[taken' + i]
<1>1. /\ jobTasks \in Seq(Projects) /\ Len(jobTasks) \in Nat \ {0} /\ Head(jobTasks) = jobTasks[1]
      /\ 1 \in DOMAIN jobTasks /\ Len(jobTasks) <= jobs /\ jobs \in Nat
      /\ fed \in Nat /\ Len(projects) \in Nat /\ fed <= Len(projects)
      /\ projects \in Seq(Projects)
  BY CommandAssumption DEF TypeOK, Workers
<1>2. /\ jobTasks' \in Seq(Projects) /\ Len(jobTasks') = Len(jobTasks) - 1
      /\ DOMAIN jobTasks' = 1..Len(jobTasks) - 1
      /\ \A i \in 1..Len(jobTasks) - 1 : jobTasks'[i] = jobTasks[i + 1]
  BY <1>1
<1>3. /\ taken \in 0..fed /\ taken = fed - Len(jobTasks) /\ taken' = fed - Len(jobTasks')
      /\ \A i \in DOMAIN jobTasks : jobTasks[i] = projects[taken + i]
  BY DEF PoolInv, taken
<1>4. taken' = taken + 1 /\ taken + 1 \in 1..fed /\ taken' \in 0..fed
  BY <1>1, <1>2, <1>3
<1>5. PICK p : p = Head(jobTasks)
  OBVIOUS
<1>6. p = projects[taken + 1] /\ taken + 1 \in DOMAIN projects
  BY <1>1, <1>3, <1>4, <1>5
<1>7. p \in Projects /\ p # 0
  BY <1>1, <1>6, CommandAssumption DEF Projects
<1>8. p \notin Taken
  <2> SUFFICES ASSUME NEW i \in 1..taken, projects[i] = p
               PROVE  FALSE
    BY DEF Taken
  <2>1. i \in DOMAIN projects /\ i # taken + 1
    BY <1>1, <1>3, <1>4
  <2> QED
    BY <1>6, <2>1 DEF TypeOK, IsInjective
<1>9. Taken' = Taken \cup {p}
  <2>1. 1..taken + 1 = 1..taken \cup {taken + 1}
    BY <1>1, <1>3
  <2>2. Taken' = {projects[i] : i \in 1..taken + 1}
    BY <1>4 DEF Taken
  <2> QED
    BY <1>6, <2>1, <2>2 DEF Taken
<1>10. ASSUME NEW i \in DOMAIN jobTasks'
       PROVE  jobTasks'[i] = projects[taken' + i]
  <2>1. i \in 1..Len(jobTasks) - 1 /\ i + 1 \in DOMAIN jobTasks
    BY <1>1, <1>2
  <2>2. jobTasks'[i] = projects[taken + (i + 1)]
    BY <1>2, <1>3, <2>1
  <2>3. taken + (i + 1) = taken' + i
    BY <1>1, <1>3, <1>4, <2>1
  <2> QED
    BY <2>2, <2>3
<1>11. Len(jobTasks') <= jobs
  BY <1>1, <1>2
<1> QED
  BY <1>2, <1>4, <1>5, <1>7, <1>8, <1>9, <1>10, <1>11

(* A worker takes an index: its project is new to everyone. *)
LEMMA TakeInv ==
    ASSUME CommandInv, NEW w \in Workers, TakeTask(w)
    PROVE  CommandInv'
<1>1. /\ TypeOK /\ WorkerInv /\ PoolInv /\ RanInv /\ EnvInv /\ StatusInv
      /\ worker[w].pc = "range" /\ jobTasks # <<>> /\ jobTasks' = Tail(jobTasks)
      /\ UNCHANGED <<settings, worktree, fed, tasksClosed, jobResults, env, ran, received,
                     history, result>>
  BY DEF CommandInv, TakeTask
<1>2. UNCHANGED <<cmd, jobs, projects, missing, faults, edits>>
  BY <1>1 DEF settings, history
<1>3. worker[w].p = 0 /\ ~ (w > jobs)
  BY <1>1 DEF WorkerInv
<1>4. PICK p : p = Head(jobTasks)
  OBVIOUS
<1>5. /\ p \in Projects /\ p # 0 /\ p \notin Taken
      /\ jobTasks' \in Seq(Projects) /\ Len(jobTasks') <= jobs
      /\ taken' \in 0..fed /\ Taken' = Taken \cup {p}
      /\ \A i \in DOMAIN jobTasks' : jobTasks'[i] = projects[taken' + i]
  BY <1>1, <1>2, <1>4, HeadFacts
<1>6. PICK s \in WorkerStates :
          /\ worker' = [worker EXCEPT ![w] = s] /\ s.p = p
          /\ \/ s.pc = "env1" /\ cmd = "forall" /\ p \notin missing
             \/ s.pc = "rebase" /\ cmd = "status" /\ p \notin missing
             \/ /\ s.pc = "send" /\ s.r.p = p /\ p \in missing
                /\ cmd = "status" => s.r.error = "missing"
  <2>1. PICK pc, r : /\ pc = (IF cmd = "forall" THEN "env1" ELSE "rebase")
                     /\ r = Result(p, <<>>, <<>>, <<>>, IF cmd = "forall" THEN "nil" ELSE "missing")
    OBVIOUS
  <2>2. pc \in Steps /\ "send" \in Steps /\ cmd \in {"forall", "status"}
    BY <1>1, <2>1 DEF Steps, ForallSteps, StatusSteps, TypeOK
  <2>3. r \in Results
    <3>1. (IF cmd = "forall" THEN "nil" ELSE "missing") \in Errors
      BY DEF Errors
    <3> QED
      BY <1>5, <2>1, <3>1, NoResultFacts, StateFacts
  <2>4. r.p = p /\ (cmd = "status" => r.error = "missing")
    BY <2>1 DEF Result
  <2>5. worker' = [worker EXCEPT ![w] =
            IF p \notin missing THEN State(pc, p, <<>>, <<>>, NoResult)
                                ELSE State("send", p, <<>>, <<>>, r)]
    BY <1>4, <2>1 DEF TakeTask
  <2>6. CASE p \notin missing
    <3>1. PICK s : s = State(pc, p, <<>>, <<>>, NoResult)
      OBVIOUS
    <3>2. s \in WorkerStates /\ s.p = p /\ s.pc = pc
      BY <1>5, <2>2, <3>1, NoResultFacts, StateFacts DEF State
    <3> QED
      BY <2>1, <2>2, <2>5, <2>6, <3>1, <3>2
  <2>7. CASE p \in missing
    <3>1. PICK s : s = State("send", p, <<>>, <<>>, r)
      OBVIOUS
    <3>2. s \in WorkerStates
      BY <1>5, <2>2, <2>3, <3>1, NoResultFacts, StateFacts
    <3>3. s.p = p /\ s.pc = "send" /\ s.r = r
      BY <3>1 DEF State
    <3> QED
      BY <2>4, <2>5, <2>7, <3>1, <3>2, <3>3
  <2> QED
    BY <2>6, <2>7
<1>7. /\ worker' \in [Workers -> WorkerStates] /\ worker'[w] = s
      /\ \A v \in Workers : v # w => worker'[v] = worker[v]
  BY <1>1, <1>6, OneWorker
<1>8. TypeOK'
  BY <1>1, <1>2, <1>5, <1>7 DEF TypeOK
<1>9. \A v \in Workers : worker[v].p # p
  <2>1. \A v \in Workers : worker[v].p # 0 => worker[v].p \in Taken
    BY <1>1, HeldFacts
  <2> QED
    BY <1>5, <2>1
<1>10. WorkerInv'
  <2>1. /\ s.pc \notin {"range", "exit"}
        /\ s.pc \in ForallSteps => s.pc = "env1"
        /\ s.pc \in StatusSteps => s.pc = "rebase"
    BY <1>6 DEF StatusSteps, ForallSteps
  <2>2. /\ s.p # 0 /\ (s.pc = "send" => s.r.p = s.p)
        /\ s.pc \in ForallSteps => cmd = "forall" /\ s.p \notin missing
        /\ s.pc \in StatusSteps => cmd = "status" /\ s.p \notin missing
    BY <1>5, <1>6, <2>1
  <2> QED
    BY <1>1, <1>2, <1>3, <1>6, <1>9, <2>1, <2>2, WorkerStep
<1>11. Answers' = Answers
  BY <1>1 DEF Answers
<1>12. Answered' = Answered
  BY <1>11 DEF Answered
<1>13. Held' = Held \cup {p}
  <2>1. \A v \in Workers : v # w => worker'[v].p = worker[v].p
    BY <1>7
  <2>2. worker'[w].p = p /\ worker[w].p = 0 /\ p # 0
    BY <1>3, <1>5, <1>6, <1>7
  <2>3. ASSUME NEW v \in Workers
        PROVE  /\ worker'[v].p # 0 => worker'[v].p \in Held \cup {p}
               /\ worker[v].p # 0 => worker[v].p \in Held'
    <3>1. CASE v = w
      BY <2>2, <3>1 DEF Held
    <3>2. CASE v # w
      BY <2>1, <3>2 DEF Held
    <3> QED
      BY <3>1, <3>2
  <2>4. p \in Held'
    BY <2>2 DEF Held
  <2> QED
    BY <2>3, <2>4 DEF Held
<1>14. PoolInv'
  <2>1. Taken' = Held' \cup Answered' /\ Held' \cap Answered' = {}
    BY <1>1, <1>5, <1>12, <1>13 DEF PoolInv
  <2> QED
    BY <1>1, <1>2, <1>5, <1>11, <2>1 DEF PoolInv
<1>15. RanInv'
  <2>1. Done' = Done \cup (IF s.pc = "send" THEN {s.p} ELSE {})
    <3>1. worker[w].pc # "send"
      BY <1>1
    <3> QED
      BY <1>1, <1>6, <1>12, <3>1, DoneStep
  <2>2. Done' \ missing = Done \ missing
    BY <1>6, <2>1
  <2> QED
    BY <1>1, <1>2, <2>2 DEF RanInv
<1>16. EnvInv'
  <2>1. s.pc \notin {"env2", "env3", "run"}
    BY <1>6
  <2> QED
    BY <1>1, <1>2, <1>6, <2>1, EnvStays
<1>17. StatusInv'
  <2> SUFFICES ASSUME cmd = "status"
               PROVE  StatusInv'
    BY <1>2 DEF StatusInv
  <2>1. \A f \in faults : f[1] \in Taken
    BY <1>1 DEF StatusInv
  <2>2. \A f \in faults : f[1] \in Taken'
    BY <1>5, <2>1
  <2>3. ~Failed(p, "diff", faults) /\ ~Failed(p, "others", faults)
    <3>1. \A name, text : <<p, name, text>>[1] = p
      OBVIOUS
    <3>2. \A name, text : <<p, name, text>> \notin faults
      BY <1>5, <2>1, <3>1
    <3> QED
      BY <3>2 DEF Failed
  <2>4. ASSUME edits = 0, NEW v \in Workers
        PROVE  Partial(worker'[v], worktree[worker'[v].p], missing, faults)
    <3>1. CASE v = w
      <4>1. s.pc = "rebase" \/ (s.pc = "send" /\ s.r.error = "missing" /\ s.r.p \in missing)
        BY <1>6
      <4> QED
        BY <1>6, <1>7, <2>3, <3>1, <4>1 DEF Partial, Faithful, StatusSteps
    <3>2. CASE v # w
      BY <1>1, <1>7, <2>4, <3>2 DEF StatusInv
    <3> QED
      BY <3>1, <3>2
  <2> QED
    BY <1>1, <1>2, <1>11, <2>2, <2>4 DEF StatusInv
<1> QED
  BY <1>8, <1>10, <1>14, <1>15, <1>16, <1>17 DEF CommandInv

(* A worker sends its result: the project changes hands, and is answered once. *)
LEMMA SendInv ==
    ASSUME CommandInv, NEW w \in Workers, SendResult(w)
    PROVE  CommandInv'
<1>1. /\ TypeOK /\ WorkerInv /\ PoolInv /\ RanInv /\ EnvInv /\ StatusInv
      /\ worker[w].pc = "send" /\ Len(jobResults) < jobs
      /\ jobResults' = Append(jobResults, worker[w].r) /\ worker' = [worker EXCEPT ![w] = Idle]
      /\ UNCHANGED <<settings, worktree, feeder, env, ran, received, history, result>>
  BY DEF CommandInv, SendResult
<1>2. UNCHANGED <<cmd, jobs, projects, missing, jobTasks, fed, tasksClosed, faults, edits>>
  BY <1>1 DEF settings, feeder, history
<1>3. PICK q, r : q = worker[w].p /\ r = worker[w].r
  OBVIOUS
<1>4. q # 0 /\ r.p = q /\ r \in Results
  BY <1>1, <1>3 DEF WorkerInv, TypeOK, WorkerStates
<1>5. /\ q \in Projects /\ q \notin Answered /\ q \in Taken
      /\ (\A v \in Workers : v # w => worker[v].p # q) /\ ~ (w > jobs)
  BY <1>1, <1>3, <1>4, HeldFacts
<1>6. PICK s \in WorkerStates : s = Idle /\ s.pc = "range" /\ s.p = 0
  <2>1. "range" \in Steps
    BY DEF Steps
  <2>2. Idle \in WorkerStates
    BY <2>1, NoResultFacts, StateFacts DEF Idle
  <2> QED
    BY <2>2 DEF Idle, State
<1>7. /\ worker' \in [Workers -> WorkerStates] /\ worker'[w] = s
      /\ \A v \in Workers : v # w => worker'[v] = worker[v]
  <2>1. worker' = [worker EXCEPT ![w] = s]
    BY <1>1, <1>6
  <2> QED
    BY <1>1, <2>1, OneWorker
<1>8. jobResults' \in Seq(Results) /\ Len(jobResults') <= jobs
  <2>1. jobResults \in Seq(Results) /\ jobs \in Nat
    BY <1>1, CommandAssumption DEF TypeOK, Workers
  <2>2. Len(jobResults') = Len(jobResults) + 1 /\ Len(jobResults) \in Nat /\ jobResults' \in Seq(Results)
    BY <1>1, <1>3, <1>4, <2>1
  <2> QED
    BY <1>1, <2>1, <2>2
<1>9. TypeOK'
  BY <1>1, <1>2, <1>7, <1>8 DEF TypeOK
<1>10. WorkerInv'
  <2>1. s.pc \notin StatusSteps /\ s.pc \notin ForallSteps
    BY <1>6 DEF StatusSteps, ForallSteps
  <2> QED
    BY <1>1, <1>2, <1>5, <1>6, <2>1, WorkerStep
<1>11. taken' = taken /\ Taken' = Taken
  BY <1>2 DEF taken, Taken
<1>12. PICK a : a = Answers
  OBVIOUS
<1>13. a \in Seq(Results) /\ Answers' = Append(a, r)
  <2>1. received \in Seq(Results) /\ jobResults \in Seq(Results)
    BY <1>1 DEF TypeOK
  <2>2. received \o Append(jobResults, r) = Append(received \o jobResults, r)
    BY <1>4, <2>1, SendLast
  <2>3. Answers' = received \o Append(jobResults, r)
    BY <1>1, <1>3 DEF Answers
  <2> QED
    BY <1>1, <1>12, <2>2, <2>3, AnswersType DEF Answers
<1>14. PICK n \in Nat : n = Len(a)
  BY <1>13
<1>15. /\ DOMAIN a = 1..n /\ DOMAIN Answers' = 1..n + 1 /\ Answers'[n + 1] = r
       /\ \A i \in 1..n : Answers'[i] = a[i]
  BY <1>4, <1>13, <1>14
<1>16. \A i \in 1..n : a[i].p \in Answered /\ a[i].p # q
  BY <1>5, <1>12, <1>15 DEF Answered
<1>17. \A i \in 1..n + 1 : i \in 1..n \/ i = n + 1
  BY <1>14
<1>18. \A i \in 1..n : i \in 1..n + 1
  BY <1>14
<1>19. Answered' = Answered \cup {q}
  <2>1. Answered = {a[i].p : i \in 1..n} /\ Answered' = {Answers'[i].p : i \in 1..n + 1}
    BY <1>12, <1>15 DEF Answered
  <2>2. Answered' \subseteq Answered \cup {q}
    BY <1>4, <1>15, <1>17, <2>1
  <2>3. n + 1 \in 1..n + 1
    BY <1>14
  <2>4. q \in Answered'
    BY <1>4, <1>15, <2>1, <2>3
  <2>5. Answered \subseteq Answered'
    BY <1>15, <1>18, <2>1
  <2> QED
    BY <2>2, <2>4, <2>5
<1>20. Held' = Held \ {q}
  <2>1. worker'[w].p = 0 /\ worker[w].p = q
    BY <1>3, <1>6, <1>7
  <2>2. \A v \in Workers : v # w => worker'[v].p = worker[v].p /\ worker[v].p # q
    BY <1>5, <1>7
  <2>3. ASSUME NEW v \in Workers
        PROVE  /\ worker'[v].p # 0 => worker'[v].p \in Held \ {q}
               /\ worker[v].p \notin {0, q} => worker[v].p \in Held'
    <3>1. CASE v = w
      BY <2>1, <3>1
    <3>2. CASE v # w
      BY <2>2, <3>2 DEF Held
    <3> QED
      BY <3>1, <3>2
  <2>4. Held' \subseteq Held \ {q}
    BY <2>3 DEF Held
  <2>5. Held \ {q} \subseteq Held'
    BY <2>3 DEF Held
  <2> QED
    BY <2>4, <2>5
<1>21. PoolInv'
  <2>1. q \in Held
    BY <1>3, <1>4 DEF Held
  <2>2. Taken' = Held' \cup Answered' /\ Held' \cap Answered' = {}
    BY <1>1, <1>11, <1>19, <1>20, <2>1 DEF PoolInv
  <2>3. ASSUME NEW i \in DOMAIN Answers', NEW j \in DOMAIN Answers', Answers'[i].p = Answers'[j].p
        PROVE  i = j
    <3>1. \A k, l \in 1..n : a[k].p = a[l].p => k = l
      BY <1>1, <1>12, <1>15 DEF PoolInv
    <3>2. CASE i \in 1..n /\ j \in 1..n
      BY <1>15, <2>3, <3>1, <3>2
    <3>3. CASE i = n + 1 /\ j \in 1..n
      BY <1>4, <1>15, <1>16, <2>3, <3>3
    <3>4. CASE i \in 1..n /\ j = n + 1
      BY <1>4, <1>15, <1>16, <2>3, <3>4
    <3> QED
      BY <1>15, <1>17, <3>2, <3>3, <3>4
  <2> QED
    BY <1>1, <1>2, <1>11, <2>2, <2>3 DEF PoolInv
<1>22. RanInv'
  <2> DEFINE Sends == {worker[v].p : v \in {u \in Workers : worker[u].pc = "send"}}
             Sends2 == {worker'[v].p : v \in {u \in Workers : worker'[u].pc = "send"}}
  <2>1. Sends = Sends2 \cup {q}
    <3>1. \A v \in Workers : worker'[v].pc = "send" => v # w /\ worker'[v] = worker[v]
      BY <1>6, <1>7
    <3>2. Sends2 \subseteq Sends
      BY <3>1
    <3>3. q \in Sends
      BY <1>1, <1>3
    <3>4. ASSUME NEW v \in Workers, worker[v].pc = "send"
          PROVE  worker[v].p \in Sends2 \cup {q}
      <4>1. CASE v = w
        BY <1>3, <4>1
      <4>2. CASE v # w
        BY <1>7, <3>4, <4>2
      <4> QED
        BY <4>1, <4>2
    <3>5. Sends \subseteq Sends2 \cup {q}
      BY <3>4
    <3> HIDE DEF Sends, Sends2
    <3> QED
      BY <3>2, <3>3, <3>5
  <2>2. Done = Answered \cup Sends /\ Done' = Answered' \cup Sends2
    BY DEF Done
  <2> HIDE DEF Sends, Sends2
  <2>3. Done' = Done
    BY <1>19, <2>1, <2>2
  <2> QED
    BY <1>1, <1>2, <2>3 DEF RanInv
<1>23. EnvInv'
  BY <1>1, <1>2, <1>6, EnvStays
<1>24. StatusInv'
  <2> SUFFICES ASSUME cmd = "status"
               PROVE  StatusInv'
    BY <1>2 DEF StatusInv
  <2>1. ASSUME edits = 0, NEW v \in Workers
        PROVE  Partial(worker'[v], worktree[worker'[v].p], missing, faults)
    <3>1. CASE v = w
      BY <1>6, <1>7, <3>1 DEF Partial, StatusSteps
    <3>2. CASE v # w
      BY <1>1, <1>7, <2>1, <3>2 DEF StatusInv
    <3> QED
      BY <3>1, <3>2
  <2>2. ASSUME edits = 0, NEW i \in DOMAIN Answers'
        PROVE  Faithful(Answers'[i], worktree[Answers'[i].p], missing, faults)
    <3>1. CASE i \in 1..n
      BY <1>1, <1>12, <1>15, <2>2, <3>1 DEF StatusInv
    <3>2. CASE i = n + 1
      <4>1. Partial(worker[w], worktree[worker[w].p], missing, faults)
        BY <1>1, <2>2 DEF StatusInv
      <4>2. Faithful(r, worktree[q], missing, faults)
        BY <1>1, <1>3, <4>1 DEF Partial
      <4> QED
        BY <1>4, <1>15, <3>2, <4>2
    <3> QED
      BY <1>15, <1>17, <3>1, <3>2
  <2> QED
    BY <1>1, <1>2, <1>11, <2>1, <2>2 DEF StatusInv
<1> QED
  BY <1>9, <1>10, <1>21, <1>22, <1>23, <1>24 DEF CommandInv

-----------------------------------------------------------------------------
(* The theorems *)

(* Every step keeps the invariant. *)
LEMMA NextInv ==
    ASSUME CommandInv, [Next]_vars
    PROVE  CommandInv'
<1>1. CASE UNCHANGED vars
  <2>1. UNCHANGED <<settings, worktree, feeder, jobResults, worker, env, ran, received, history, result>>
    BY <1>1 DEF vars
  <2>2. UNCHANGED <<cmd, jobs, projects, missing, jobTasks, fed, tasksClosed, faults, edits>>
    BY <2>1 DEF settings, feeder, history
  <2>3. TypeOK'
    BY <2>1, <2>2 DEF CommandInv, TypeOK
  <2>4. PoolInv' /\ Taken' = Taken /\ Answers' = Answers
    BY <2>1, <2>2, PoolStays DEF CommandInv, PoolVars
  <2> QED
    BY <2>1, <2>3, <2>4, PoolOnly
<1>2. ASSUME NEW w \in Workers, Work(w)
      PROVE  CommandInv'
  BY <1>2, TakeInv, SendInv, ExitInv, SetEnvInv, ExecuteInv, RebaseInv, IndexInv, FilesInv,
     OthersInv DEF Work
<1> QED
  BY <1>1, <1>2, FeedInv, CloseInv, CollectInv, EditInv DEF Next

(* The invariant of forall and status, for any number of projects and      *)
(* jobs and any worktrees: a project is with one worker or answered once,  *)
(* the command has run where it is done, and results say what git said.    *)
THEOREM CommandInvariant == Spec => []CommandInv
<1>1. Init => CommandInv
  BY InitInv
<1>2. CommandInv /\ [Next]_vars => CommandInv'
  BY NextInv
<1> QED
  BY <1>1, <1>2, PTL DEF Spec

(* When the main goroutine has a result for each index, it has one from    *)
(* each project: as many numbers as there are indices, none twice.         *)
LEMMA AllCollected ==
    ASSUME CommandInv, result = "nil"
    PROVE  /\ \A p \in Selection : \E i \in DOMAIN received : received[i].p = p
           /\ \A i, j \in DOMAIN received : received[i].p = received[j].p => i = j
           /\ \A i \in DOMAIN received : /\ received[i].p \in Answered /\ received[i].p \in Selection
                                         /\ i \in DOMAIN Answers /\ Answers[i] = received[i]
           /\ Selection \subseteq Answered /\ Taken \subseteq Selection
<1>1. TypeOK /\ PoolInv
  BY DEF CommandInv
<1>2. PICK n \in Nat : n = Len(projects)
  BY <1>1 DEF TypeOK
<1>3. /\ Len(received) = n /\ DOMAIN received = 1..n /\ DOMAIN projects = 1..n
      /\ received \in Seq(Results) /\ jobResults \in Seq(Results) /\ fed \in 0..n
  BY <1>1, <1>2 DEF TypeOK, PoolInv
<1>4. \A i \in 1..n : i \in DOMAIN Answers /\ Answers[i] = received[i]
  BY <1>3 DEF Answers
<1>5. \A i \in 1..n : received[i].p \in Answered
  BY <1>4 DEF Answered
<1>6. \A i, j \in 1..n : received[i].p = received[j].p => i = j
  BY <1>1, <1>4 DEF PoolInv
<1>7. \A p \in Taken : \E k \in 1..n : projects[k] = p
  <2>1. taken \in 0..fed
    BY <1>1 DEF PoolInv
  <2>2. \A k \in 1..taken : k \in 1..n
    BY <1>3, <2>1
  <2> QED
    BY <2>2 DEF Taken
<1>8. \A i \in 1..n : \E k \in 1..n : projects[k] = received[i].p
  BY <1>1, <1>5, <1>7 DEF PoolInv
<1> DEFINE f == [i \in 1..n |-> CHOOSE k \in 1..n : projects[k] = received[i].p]
<1>9. f \in [1..n -> 1..n] /\ \A i \in 1..n : projects[f[i]] = received[i].p
  <2>1. \A i \in 1..n : /\ (CHOOSE k \in 1..n : projects[k] = received[i].p) \in 1..n
                        /\ projects[CHOOSE k \in 1..n : projects[k] = received[i].p] = received[i].p
    BY <1>8
  <2> QED
    BY <2>1
<1> HIDE DEF f
<1>10. f \in Surjection(1..n, 1..n)
  <2>1. \A i, j \in 1..n : f[i] = f[j] => i = j
    BY <1>6, <1>9
  <2>2. DOMAIN f = 1..n
    BY <1>9
  <2>3. f \in Injection(1..n, 1..n)
    BY <1>9, <2>1, <2>2 DEF Injection, IsInjective
  <2>4. IsFiniteSet(1..n)
    BY FS_Interval
  <2> QED
    BY <2>3, <2>4, FS_Injection
<1>11. ASSUME NEW p \in Selection
       PROVE  \E i \in 1..n : received[i].p = p
  <2>1. PICK k \in 1..n : projects[k] = p
    BY <1>3 DEF Selection, ToSet
  <2>2. PICK i \in 1..n : f[i] = k
    BY <1>10 DEF Surjection
  <2> QED
    BY <1>9, <2>1, <2>2
<1>12. \A k \in 1..n : projects[k] \in Selection
  BY <1>3 DEF Selection, ToSet
<1>13. Taken \subseteq Selection /\ \A i \in 1..n : received[i].p \in Selection
  BY <1>7, <1>8, <1>12
<1> QED
  BY <1>3, <1>4, <1>5, <1>6, <1>11, <1>13

(* Of the invariant, the part that is about forall. *)
LEMMA InvRunOnce ==
    ASSUME CommandInv
    PROVE  RunOnce
<1> SUFFICES ASSUME result = "nil"
             PROVE  RunOnce
  BY DEF RunOnce
<1>1. TypeOK /\ WorkerInv /\ PoolInv /\ RanInv /\ EnvInv
  BY DEF CommandInv
<1>2. /\ \A p \in Selection : \E i \in DOMAIN received : received[i].p = p
      /\ \A i, j \in DOMAIN received : received[i].p = received[j].p => i = j
      /\ Selection \subseteq Answered /\ Taken \subseteq Selection
  BY AllCollected
<1>3. ASSUME NEW p \in Selection
      PROVE  Cardinality(Reported(p)) = 1
  <2>1. PICK i \in DOMAIN received : received[i].p = p
    BY <1>2
  <2>2. Reported(p) = {i}
    BY <1>2, <2>1 DEF Reported
  <2> QED
    BY <2>2, FS_Singleton
<1>4. \A p \in Projects : p \in Done <=> p \in Selection
  <2>1. \A w \in Workers : worker[w].pc = "send" => worker[w].p \in Selection
    <3> SUFFICES ASSUME NEW w \in Workers, worker[w].pc = "send"
                 PROVE  worker[w].p \in Selection
      OBVIOUS
    <3>1. worker[w].p # 0
      BY <1>1 DEF WorkerInv
    <3>2. worker[w].p \in Taken
      BY <1>1, <3>1, HeldFacts
    <3> QED
      BY <1>2, <3>2
  <2>2. Answered = Selection
    BY <1>1, <1>2 DEF PoolInv
  <2> QED
    BY <2>1, <2>2 DEF Done
<1>5. ASSUME cmd = "forall", NEW p \in Projects
      PROVE  Len(ran[p]) = IF p \in Selection \ missing THEN 1 ELSE 0
  BY <1>1, <1>4, <1>5 DEF RanInv
<1>6. ASSUME jobs = 1, NEW p \in Projects
      PROVE  \A i \in DOMAIN ran[p] : ran[p][i] = [k \in 1..3 |-> p]
  BY <1>1, <1>6 DEF EnvInv
<1> QED
  BY <1>3, <1>5, <1>6 DEF RunOnce

(* forall runs the command exactly once in each selected project that is   *)
(* there and nowhere else, each is reported once, and with one job the     *)
(* command has the environment of its own project.                         *)
THEOREM RunsOnce == Spec => []RunOnce
<1>1. CommandInv => RunOnce
  BY InvRunOnce
<1> QED
  BY <1>1, CommandInvariant, PTL

(* The lines of a result for which git has printed all. *)
LEMMA LinesFacts ==
    ASSUME NEW r, NEW t \in Worktrees, r.di = Encode(t.staged), r.df = Encode(t.unstaged),
           r.do = t.others
    PROVE  Says(Lines(r), t) /\ (Lines(r) = <<>> <=> Changed(t) = {})
<1>1. t.staged \in Seq(Entries) /\ t.unstaged \in Seq(Entries)
  BY WorktreeAssumption
<1>2. parseGitStatus(r.di) = t.staged /\ parseGitStatus(r.df) = t.unstaged
  BY <1>1, ParseEncode
<1>3. Lines(r) = combineGitStatus(t.staged, t.unstaged, t.others)
  BY <1>2 DEF Lines
<1> QED
  BY <1>3, CombineMeans

(* Where nothing has changed git prints nothing, failed or not. *)
LEMMA NothingPrinted ==
    ASSUME NEW t \in Worktrees, Changed(t) = {}
    PROVE  Encode(t.staged) = <<>> /\ Encode(t.unstaged) = <<>> /\ t.others = <<>>
<1>1. /\ t.staged \in Seq(Entries) /\ t.unstaged \in Seq(Entries) /\ t.others \in Seq(Nat)
  BY WorktreeAssumption
<1>2. \A x \in Seq(Entries) : ToSet(PathsOf(x)) = {} => Encode(x) = <<>>
  <2> SUFFICES ASSUME NEW x \in Seq(Entries), ToSet(PathsOf(x)) = {}
               PROVE  Encode(x) = <<>>
    OBVIOUS
  <2>1. DOMAIN x = {} /\ DOMAIN x = 1..Len(x) /\ Len(x) \in Nat
    BY PathsFacts DEF ToSet
  <2>2. Len(x) = 0
    BY <2>1
  <2>3. PICK e : Prints(e, x) /\ Encode(x) = e[1]
    BY EncodeScans
  <2>4. e[Len(x) + 1] = <<>>
    BY <2>3, PrintFacts
  <2> QED
    BY <2>2, <2>3, <2>4
<1>3. ToSet(t.others) = {} => t.others = <<>>
  <2> SUFFICES ASSUME ToSet(t.others) = {}
               PROVE  t.others = <<>>
    OBVIOUS
  <2>1. DOMAIN t.others = 1..Len(t.others) /\ Len(t.others) \in Nat
    BY <1>1
  <2>2. DOMAIN t.others = {}
    BY DEF ToSet
  <2>3. \A n \in Nat : 1..n = {} => n = 0
    <3>1. \A n \in Nat : n # 0 => 1 \in 1..n
      OBVIOUS
    <3> QED
      BY <3>1
  <2>4. Len(t.others) = 0
    BY <2>1, <2>2, <2>3
  <2> QED
    BY <1>1, <2>4
<1> QED
  BY <1>1, <1>2, <1>3 DEF Changed

(* A project of which nothing is to be said has an empty result. *)
LEMMA QuietEmpty ==
    ASSUME NEW r, NEW t \in Worktrees, Faithful(r, t, missing, faults), t = worktree[r.p],
           Quiet(r.p)
    PROVE  Empty(r)
<1>1. r.p \notin missing /\ ~t.rebasing /\ Changed(t) = {} /\ <<r.p, "diff", "message">> \notin faults
  BY DEF Quiet
<1>2. /\ r.error = StatusError(r.p, <<r.di, r.df, r.do>> = <<<<>>, <<>>, <<>>>>, faults)
      /\ Printed(r.di, Encode(t.staged), Failed(r.p, "diff", faults))
      /\ Printed(r.df, Encode(t.unstaged), Failed(r.p, "diff", faults))
      /\ Printed(r.do, t.others, Failed(r.p, "others", faults))
  BY <1>1 DEF Faithful
<1>3. Encode(t.staged) = <<>> /\ Encode(t.unstaged) = <<>> /\ t.others = <<>>
  BY <1>1, NothingPrinted
<1>4. r.di = Encode(t.staged) /\ r.df = Encode(t.unstaged) /\ r.do = t.others
  BY <1>2, <1>3 DEF Printed
<1>5. Lines(r) = <<>>
  BY <1>1, <1>4, LinesFacts
<1>6. r.error \in {"none", "silent"}
  BY <1>1, <1>2 DEF StatusError
<1> QED
  BY <1>5, <1>6 DEF Empty

(* And where git has not failed unheard, an empty result, or one without   *)
(* an error, is as it should be.                                           *)
LEMMA HeardResult ==
    ASSUME NEW r, NEW t \in Worktrees, Faithful(r, t, missing, faults), t = worktree[r.p],
           ~Unheard(r.p)
    PROVE  /\ r.error = "none" => Says(Lines(r), t)
           /\ Empty(r) => Quiet(r.p)
<1>1. <<r.p, "diff", "nothing">> \notin faults /\ ~Failed(r.p, "others", faults)
  <2>1. \A name, text : <<r.p, name, text>> \in faults =>
            ~(name = "others" \/ text = "nothing")
    <3>1. \A name, text : /\ <<r.p, name, text>>[1] = r.p /\ <<r.p, name, text>>[2] = name
                          /\ <<r.p, name, text>>[3] = text
      OBVIOUS
    <3> QED
      BY <3>1 DEF Unheard
  <2> QED
    BY <2>1 DEF Failed
<1> SUFFICES ASSUME r.error \in {"none", "nil", "silent"}
             PROVE  /\ r.error = "none" => Says(Lines(r), t)
                    /\ Lines(r) = <<>> => Quiet(r.p)
  BY DEF Empty
<1>2. /\ r.error = StatusError(r.p, <<r.di, r.df, r.do>> = <<<<>>, <<>>, <<>>>>, faults)
      /\ r.p \notin missing /\ ~t.rebasing
      /\ Printed(r.di, Encode(t.staged), Failed(r.p, "diff", faults))
      /\ Printed(r.df, Encode(t.unstaged), Failed(r.p, "diff", faults))
      /\ Printed(r.do, t.others, Failed(r.p, "others", faults))
  BY DEF Faithful
<1>3. <<r.p, "diff", "message">> \notin faults
  BY <1>2 DEF StatusError
<1>4. ~Failed(r.p, "diff", faults)
  BY <1>1, <1>3 DEF Failed, Texts
<1>5. r.di = Encode(t.staged) /\ r.df = Encode(t.unstaged) /\ r.do = t.others
  BY <1>1, <1>2, <1>4 DEF Printed
<1>6. Says(Lines(r), t) /\ (Lines(r) = <<>> <=> Changed(t) = {})
  BY <1>5, LinesFacts
<1> QED
  BY <1>2, <1>3, <1>6 DEF Quiet

(* Of the invariant, the part that is about status. *)
LEMMA InvStatusMeans ==
    ASSUME CommandInv
    PROVE  StatusMeans
<1> SUFFICES ASSUME cmd = "status", result = "nil", edits = 0
             PROVE  LinesMean /\ NoteMeans
  BY DEF StatusMeans
<1>1. TypeOK /\ PoolInv /\ StatusInv
  BY DEF CommandInv
<1>2. /\ \A p \in Selection : \E i \in DOMAIN received : received[i].p = p
      /\ \A i \in DOMAIN received : /\ received[i].p \in Selection
                                    /\ i \in DOMAIN Answers /\ Answers[i] = received[i]
  BY AllCollected
<1>3. Selection \subseteq Projects
  BY <1>1 DEF Selection, ToSet, TypeOK
<1>4. \A i \in DOMAIN received :
         /\ Faithful(received[i], worktree[received[i].p], missing, faults)
         /\ worktree[received[i].p] \in Worktrees
  BY <1>1, <1>2, <1>3 DEF StatusInv, TypeOK
<1>5. ASSUME NEW i \in DOMAIN received
      PROVE  /\ Quiet(received[i].p) => Empty(received[i])
             /\ ~Unheard(received[i].p) =>
                   /\ received[i].error = "none" =>
                         Says(Lines(received[i]), worktree[received[i].p])
                   /\ Empty(received[i]) => Quiet(received[i].p)
  <2>1. PICK r, t : r = received[i] /\ t = worktree[received[i].p]
    OBVIOUS
  <2>2. t \in Worktrees /\ Faithful(r, t, missing, faults) /\ t = worktree[r.p]
    BY <1>4, <2>1
  <2>3. Quiet(r.p) => Empty(r)
    BY <2>2, QuietEmpty
  <2>4. ~Unheard(r.p) => /\ r.error = "none" => Says(Lines(r), t)
                         /\ Empty(r) => Quiet(r.p)
    BY <2>2, HeardResult
  <2> QED
    BY <2>1, <2>3, <2>4
<1>6. LinesMean
  BY <1>5 DEF LinesMean
<1>7. isClean <=> \A i \in DOMAIN received : Empty(received[i])
  BY DEF isClean
<1>8. ASSUME \A p \in Selection : Quiet(p)
      PROVE  isClean
  BY <1>2, <1>5, <1>7, <1>8
<1>9. ASSUME isClean, NEW p \in Selection
      PROVE  Quiet(p) \/ Unheard(p)
  <2>1. PICK i \in DOMAIN received : received[i].p = p
    BY <1>2
  <2>2. Empty(received[i])
    BY <1>7, <1>9
  <2> QED
    BY <1>5, <2>1, <2>2
<1>10. NoteMeans
  BY <1>8, <1>9 DEF NoteMeans
<1> QED
  BY <1>6, <1>10

(* status prints what is in the worktrees, line by line and in its note,   *)
(* when nobody changes them meanwhile.                                     *)
THEOREM StatusSays == Spec => []StatusMeans
<1>1. CommandInv => StatusMeans
  BY InvStatusMeans
<1> QED
  BY <1>1, CommandInvariant, PTL

(* Type correctness: the channels never hold more than their capacity. *)
THEOREM CommandTypeCorrect == Spec => []TypeOK
<1>1. CommandInv => TypeOK
  BY DEF CommandInv
<1> QED
  BY <1>1, CommandInvariant, PTL
=============================================================================
