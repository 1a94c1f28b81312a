--------------------------- MODULE FileOpenProofs ---------------------------
(***************************************************************************)
(* Proofs about opening the file of a handler, for any number of handlers, *)
(* any plain paths, any current directory and any HACLOG_MAX_PATH: first   *)
(* what the operators of Path compute (the names of a path, where they     *)
(* lead, join, dirname and the cuts of mkdir), then the invariant of the   *)
(* handlers that create their directories beside each other, and last the  *)
(* laws of haclog_path.c, from invariants of the loop of normpath.         *)
(***************************************************************************)
EXTENDS FileOpen, SequenceTheorems, WellFoundedInduction, TLAPS

-----------------------------------------------------------------------------
(* Induction over the natural numbers, for a set: the provers cannot       *)
(* instantiate the theorems of the library, whose parameter is an operator.*)

(* A set of natural numbers that is not empty has a least element. *)
LEMMA LeastNat ==
  ASSUME NEW T \in SUBSET Nat, T # {}
  PROVE  \E x \in T : \A y \in T : x <= y
<1>1. PICK x \in T : \A y \in T : <<y, x>> \notin OpToRel(<, Nat)
  BY NatLessThanWellFounded, WFMin
<1>2. \A y \in T : ~(y < x)
  BY <1>1 DEF OpToRel
<1>3. QED
  BY <1>2

(* A set that has 0, and n + 1 with every n, has every natural number. *)
LEMMA NatInSet ==
  ASSUME NEW G, 0 \in G, \A n \in Nat : n \in G => n + 1 \in G
  PROVE  \A n \in Nat : n \in G
<1> SUFFICES ASSUME NEW n \in Nat, n \notin G PROVE FALSE
  OBVIOUS
<1> DEFINE T == {m \in Nat : m \notin G}
<1>1. T \in SUBSET Nat /\ n \in T
  OBVIOUS
<1>2. PICK x \in T : \A y \in T : x <= y
  BY <1>1, LeastNat
<1>3. x \in Nat /\ x # 0 /\ x \notin G
  OBVIOUS
<1>4. x - 1 \in Nat /\ x - 1 \in G
  BY <1>2, <1>3
<1>5. QED
  BY <1>3, <1>4

-----------------------------------------------------------------------------
(* A function that is defined by recursion up to n exists: its value at 0  *)
(* is base, and step[i] takes its value at i - 1 to the one at i.          *)
Stepping(step, n, V) == \A i \in 1 .. n : \A v \in V : step[i][v] \in V
Iter(g, step, base, n, V) ==
  /\ g = [i \in 0 .. n |-> IF i = 0 THEN base ELSE step[i][g[i - 1]]]
  /\ \A i \in 0 .. n : g[i] \in V

LEMMA Iterates ==
  ASSUME NEW V, NEW n \in Nat, NEW base \in V, NEW step, Stepping(step, n, V)
  PROVE  \E g : Iter(g, step, base, n, V)
<1> DEFINE G == {m \in Nat : m <= n => \E g : Iter(g, step, base, m, V)}
<1>1. 0 \in G
  <2>1. PICK g : g = [i \in 0 .. 0 |-> base]
    OBVIOUS
  <2>2. \A i \in 0 .. 0 : i = 0
    OBVIOUS
  <2>3. g = [i \in 0 .. 0 |-> IF i = 0 THEN base ELSE step[i][g[i - 1]]]
    BY <2>1, <2>2, Zenon
  <2>4. Iter(g, step, base, 0, V)
    BY <2>1, <2>2, <2>3 DEF Iter
  <2>5. QED
    BY <2>4
<1>2. ASSUME NEW m \in Nat, m \in G PROVE m + 1 \in G
  <2>1. ASSUME m + 1 <= n PROVE \E g : Iter(g, step, base, m + 1, V)
    <3>1. PICK g : Iter(g, step, base, m, V)
      BY <1>2, <2>1
    <3>2. PICK v : v = step[m + 1][g[m]]
      OBVIOUS
    <3>3. v \in V
      BY <2>1, <3>1, <3>2 DEF Iter, Stepping
    <3>4. PICK h : h = [i \in 0 .. m + 1 |-> IF i = m + 1 THEN v ELSE g[i]]
      OBVIOUS
    <3>5. h[m + 1] = v /\ \A i \in 0 .. m : h[i] = g[i]
      BY <3>4
    <3>6. ASSUME NEW i \in 0 .. m + 1
          PROVE  h[i] = (IF i = 0 THEN base ELSE step[i][h[i - 1]]) /\ h[i] \in V
      <4>1. \A x \in 0 .. m : g[x] = IF x = 0 THEN base ELSE step[x][g[x - 1]]
        BY <3>1, Zenon DEF Iter
      <4>2. CASE i = m + 1
        <5>1. i - 1 = m /\ m \in 0 .. m /\ i # 0
          BY <4>2
        <5>2. QED
          BY <3>2, <3>3, <3>5, <4>2, <5>1
      <4>3. CASE i # m + 1
        <5>1. i \in 0 .. m /\ (i # 0 => i - 1 \in 0 .. m)
          BY <4>3
        <5>2. QED
          BY <3>1, <3>5, <4>1, <5>1 DEF Iter
      <4>4. QED
        BY <4>2, <4>3
    <3>7. h = [i \in 0 .. m + 1 |-> IF i = 0 THEN base ELSE step[i][h[i - 1]]]
      BY <3>4, <3>6, Zenon
    <3>8. QED
      BY <3>6, <3>7 DEF Iter
  <2>2. QED
    BY <2>1
<1>3. n \in G
  <2> HIDE DEF G
  <2>1. QED
    BY <1>1, <1>2, NatInSet
<1>4. QED
  BY <1>3

-----------------------------------------------------------------------------
(* The names of a path.                                                    *)

(* Characters; the provers know the ones of the code only as strings.      *)
Chars == STRING \cup {"/", ".", NUL}
Text == Seq(Chars)
TextSeq == Seq(Text)

(* The round of Names for position i. *)
NextName(p, i, names) ==
  IF p[i] = "/" THEN names
  ELSE IF At(p, i - 1) \in {"/", NUL} THEN Append(names, <<p[i]>>)
  ELSE [names EXCEPT ![Len(names)] = Append(@, p[i])]

(* The names of the first i characters of p. *)
UpTo(p) == CHOOSE f : f = [i \in 0 .. Len(p) |-> IF i = 0 THEN <<>> ELSE NextName(p, i, f[i - 1])]

(* What a round does to the names v for a character c behind another one.  *)
Round(c, before, v, w) ==
  /\ c = "/" => w = v
  /\ c # "/" /\ before \in {"/", NUL} =>
       /\ Len(w) = Len(v) + 1
       /\ \A n \in 1 .. Len(v) : w[n] = v[n]
       /\ w[Len(v) + 1] = <<c>>
  /\ c # "/" /\ before \notin {"/", NUL} =>
       /\ Len(w) = Len(v)
       /\ \A n \in 1 .. Len(v) - 1 : w[n] = v[n]
       /\ v # <<>> => w[Len(v)] = Append(v[Len(v)], c)

LEMMA NextNameFacts ==
  ASSUME NEW p \in Text, NEW i \in 1 .. Len(p), NEW v \in TextSeq
  PROVE  NextName(p, i, v) \in TextSeq /\ Round(p[i], At(p, i - 1), v, NextName(p, i, v))
<1>1. p[i] \in Chars /\ <<p[i]>> \in Text
  BY DEF Text
<1>2. CASE p[i] = "/"
  BY <1>2, Zenon DEF NextName, Round
<1>3. CASE p[i] # "/" /\ At(p, i - 1) \in {"/", NUL}
  <2>1. NextName(p, i, v) = Append(v, <<p[i]>>)
    BY <1>3, Zenon DEF NextName
  <2>2. QED
    BY <1>1, <1>3, <2>1, AppendProperties DEF TextSeq, Round
<1>4. CASE p[i] # "/" /\ At(p, i - 1) \notin {"/", NUL}
  <2>1. NextName(p, i, v) = [v EXCEPT ![Len(v)] = Append(v[Len(v)], p[i])]
    BY <1>4, Zenon DEF NextName
  <2>2. CASE v = <<>>
    <3>1. [v EXCEPT ![Len(v)] = Append(v[Len(v)], p[i])] = <<>>
      BY <2>2
    <3>2. QED
      BY <1>4, <2>1, <2>2, <3>1 DEF Round
  <2>3. CASE v # <<>>
    <3>1. Len(v) \in 1 .. Len(v)
      BY <2>3, EmptySeq DEF TextSeq
    <3>2. v[Len(v)] \in Text /\ Append(v[Len(v)], p[i]) \in Text
      BY <1>1, <3>1 DEF TextSeq, Text
    <3>3. QED
      BY <1>4, <2>1, <3>1, <3>2, ExceptSeq DEF TextSeq, Round
  <2>4. QED
    BY <2>2, <2>3
<1>5. QED
  BY <1>2, <1>3, <1>4

LEMMA UpToFacts ==
  ASSUME NEW p \in Text
  PROVE  /\ Names(p) = UpTo(p)[Len(p)]
         /\ UpTo(p)[0] = <<>>
         /\ \A i \in 1 .. Len(p) : UpTo(p)[i] = NextName(p, i, UpTo(p)[i - 1])
         /\ \A i \in 0 .. Len(p) : UpTo(p)[i] \in TextSeq
<1> DEFINE F(f) == [i \in 0 .. Len(p) |-> IF i = 0 THEN <<>> ELSE NextName(p, i, f[i - 1])]
           step == [i \in 1 .. Len(p) |-> [v \in TextSeq |-> NextName(p, i, v)]]
<1>0. Len(p) \in Nat /\ <<>> \in TextSeq
  BY DEF Text, TextSeq
<1>1. Names(p) = UpTo(p)[Len(p)]
  BY Zenon DEF Names, UpTo, NextName
<1>2. PICK st : st = step
  OBVIOUS
<1>20. \A i \in 1 .. Len(p) : \A v \in TextSeq : st[i][v] = NextName(p, i, v) /\ st[i][v] \in TextSeq
  BY <1>2, NextNameFacts
<1> HIDE DEF step
<1>21. Stepping(st, Len(p), TextSeq)
  BY <1>20, Zenon DEF Stepping
<1>22. PICK g : Iter(g, st, <<>>, Len(p), TextSeq)
  BY <1>0, <1>21, Iterates
<1>3. /\ g = [i \in 0 .. Len(p) |-> IF i = 0 THEN <<>> ELSE st[i][g[i - 1]]]
      /\ \A i \in 0 .. Len(p) : g[i] \in TextSeq
  BY <1>22, Zenon DEF Iter
<1>4. g = F(g)
  <2>1. ASSUME NEW i \in 0 .. Len(p), i # 0 PROVE st[i][g[i - 1]] = NextName(p, i, g[i - 1])
    <3>1. i \in 1 .. Len(p) /\ i - 1 \in 0 .. Len(p)
      BY <1>0, <2>1
    <3>2. QED
      BY <1>20, <1>3, <3>1
  <2>2. QED
    BY <1>3, <2>1, Zenon
<1> HIDE DEF F
<1>5. PICK u : u = UpTo(p)
  OBVIOUS
<1>6. u = F(u)
  BY <1>4, <1>5, Zenon DEF UpTo, F
<1>7. \A i \in 0 .. Len(p) : u[i] = IF i = 0 THEN <<>> ELSE NextName(p, i, u[i - 1])
  BY <1>6, Zenon DEF F
<1>8. u[0] = <<>> /\ \A i \in 1 .. Len(p) : u[i] = NextName(p, i, u[i - 1])
  BY <1>0, <1>7
<1> DEFINE G == {i \in Nat : i <= Len(p) => u[i] \in TextSeq}
<1>9. 0 \in G
  BY <1>0, <1>8
<1>10. ASSUME NEW i \in Nat, i \in G PROVE i + 1 \in G
  <2>1. ASSUME i + 1 <= Len(p) PROVE u[i + 1] \in TextSeq
    <3>1. i + 1 \in 1 .. Len(p) /\ (i + 1) - 1 = i /\ u[i] \in TextSeq
      BY <1>0, <1>10, <2>1
    <3>2. u[i + 1] = NextName(p, i + 1, u[i])
      BY <1>8, <3>1
    <3>3. QED
      BY <3>1, <3>2, NextNameFacts
  <2>2. QED
    BY <2>1
<1>11. \A i \in Nat : i \in G
  <2> HIDE DEF G
  <2>1. QED
    BY <1>9, <1>10, NatInSet
<1>12. QED
  BY <1>0, <1>1, <1>5, <1>8, <1>11

(* What the rounds of Names do to the names before, for each kind of       *)
(* character.                                                              *)
LEMMA Rounds ==
  ASSUME NEW p \in Text, NEW i \in 0 .. Len(p) - 1, NEW v, NEW w, v = UpTo(p)[i], w = UpTo(p)[i + 1]
  PROVE  /\ v \in TextSeq /\ w \in TextSeq /\ Len(v) \in Nat /\ Len(w) \in Nat
         /\ Round(p[i + 1], At(p, i), v, w)
<1>1. Len(p) \in Nat
  BY DEF Text
<1>2. i + 1 \in 1 .. Len(p) /\ (i + 1) - 1 = i /\ i \in 0 .. Len(p) /\ i + 1 \in 0 .. Len(p)
  BY <1>1
<1>3. v \in TextSeq /\ w \in TextSeq /\ w = NextName(p, i + 1, v)
  BY <1>2, UpToFacts
<1>4. Round(p[i + 1], At(p, (i + 1) - 1), v, w)
  BY <1>2, <1>3, NextNameFacts, Zenon
<1>5. Len(v) \in Nat /\ Len(w) \in Nat
  BY <1>3 DEF TextSeq
<1>6. QED
  BY <1>2, <1>3, <1>4, <1>5

(* A text in which only / has a meaning to haclog_path.c. *)
Plain(p) == p \in Text /\ \A i \in DOMAIN p : p[i] \notin {NUL, "\\", ":"}

LEMMA Plainly ==
  ASSUME NEW p, IsPlain(p)
  PROVE  Plain(p)
<1>1. p \in Text
  <2>1. p \in Seq(STRING) /\ STRING \subseteq Chars
    BY DEF IsPlain, Chars
  <2>2. QED
    BY <2>1, SeqMonotonic DEF Text
<1>2. QED
  BY <1>1, Zenon DEF Plain, IsPlain

LEMMA TextFacts ==
  ASSUME NEW p \in Text
  PROVE  /\ Len(p) \in Nat /\ DOMAIN p = 1 .. Len(p)
         /\ \A i \in 1 .. Len(p) : At(p, i) = p[i]
         /\ At(p, 0) = NUL /\ At(p, Len(p) + 1) = NUL
<1>1. Len(p) \in Nat /\ DOMAIN p = 1 .. Len(p)
  BY LenProperties DEF Text
<1>2. 0 \notin 1 .. Len(p) /\ Len(p) + 1 \notin 1 .. Len(p)
  BY <1>1
<1>3. QED
  BY <1>1, <1>2 DEF At

(* The names of the first i characters depend on nothing behind them.      *)
LEMMA SameStart ==
  ASSUME NEW p \in Text, NEW r \in Text, NEW i \in Nat, i <= Len(p), i <= Len(r),
         \A x \in 1 .. i : r[x] = p[x]
  PROVE  UpTo(r)[i] = UpTo(p)[i]
<1> DEFINE G == {m \in Nat : m <= i => UpTo(r)[m] = UpTo(p)[m]}
<1>0. Len(p) \in Nat /\ Len(r) \in Nat
  BY TextFacts
<1>1. 0 \in G
  BY UpToFacts
<1>2. ASSUME NEW m \in Nat, m \in G PROVE m + 1 \in G
  <2>1. ASSUME m + 1 <= i PROVE UpTo(r)[m + 1] = UpTo(p)[m + 1]
    <3>1. /\ m + 1 \in 1 .. Len(p) /\ m + 1 \in 1 .. Len(r) /\ (m + 1) - 1 = m /\ m <= i
          /\ m + 1 \in 1 .. i /\ (m # 0 => m \in 1 .. i /\ m \in 1 .. Len(p) /\ m \in 1 .. Len(r))
      BY <1>0, <2>1
    <3>2. UpTo(r)[m] = UpTo(p)[m]
      BY <1>2, <3>1
    <3>3. p[m + 1] = r[m + 1] /\ At(p, m) = At(r, m)
      <4>1. CASE m = 0
        BY <3>1, <4>1, TextFacts
      <4>2. CASE m # 0
        BY <3>1, <4>2, TextFacts
      <4>3. QED
        BY <3>1, <4>1, <4>2
    <3>4. \A v : NextName(p, m + 1, v) = NextName(r, m + 1, v)
      BY <3>1, <3>3, Zenon DEF NextName
    <3>5. /\ UpTo(p)[m + 1] = NextName(p, m + 1, UpTo(p)[m])
          /\ UpTo(r)[m + 1] = NextName(r, m + 1, UpTo(r)[m])
      BY <3>1, UpToFacts
    <3>6. QED
      BY <3>2, <3>4, <3>5, Zenon
  <2>2. QED
    BY <2>1
<1>3. i \in G
  <2> HIDE DEF G
  <2>1. QED
    BY <1>1, <1>2, NatInSet
<1>4. QED
  BY <1>3

Begins(a, b) == Len(a) <= Len(b) /\ \A n \in 1 .. Len(a) : a[n] = b[n]

(* The names before a separator are the first ones of every longer part.   *)
LEMMA StaysAhead ==
  ASSUME NEW p \in Text, NEW i \in Nat, NEW j \in Nat, i <= j, j <= Len(p),
         i = j \/ p[i + 1] = "/"
  PROVE  Begins(UpTo(p)[i], UpTo(p)[j])
<1>0. Len(p) \in Nat /\ DOMAIN p = 1 .. Len(p)
  BY TextFacts
<1>1. PICK a \in TextSeq : a = UpTo(p)[i] /\ Len(a) \in Nat
  <2>1. i \in 0 .. Len(p)
    BY <1>0
  <2>2. QED
    BY <2>1, UpToFacts DEF TextSeq
<1>2. CASE i = j
  BY <1>1, <1>2 DEF Begins
<1>3. CASE i # j
  <2> DEFINE G == {m \in Nat : i + 1 + m <= j => /\ Begins(a, UpTo(p)[i + 1 + m])
                                                 /\ p[i + 1 + m] # "/" => Len(a) < Len(UpTo(p)[i + 1 + m])}
  <2>1. 0 \in G
    <3>1. i \in 0 .. Len(p) - 1 /\ i + 1 + 0 = i + 1
      BY <1>0, <1>3
    <3>2. UpTo(p)[i + 1] = a /\ p[i + 1] = "/"
      BY <1>1, <1>3, <3>1, Rounds DEF Round
    <3>3. Begins(a, UpTo(p)[i + 1])
      BY <1>1, <3>2 DEF Begins
    <3>4. QED
      BY <3>1, <3>2, <3>3
  <2>2. ASSUME NEW m \in Nat, m \in G PROVE m + 1 \in G
    <3>1. PICK x \in Nat : x = i + 1 + m
      OBVIOUS
    <3>2. i + 1 + (m + 1) = x + 1
      BY <3>1
    <3>3. ASSUME x + 1 <= j PROVE Begins(a, UpTo(p)[x + 1]) /\ (p[x + 1] # "/" => Len(a) < Len(UpTo(p)[x + 1]))
      <4>1. x \in 0 .. Len(p) - 1 /\ x \in 1 .. Len(p) /\ x <= j
        BY <1>0, <3>1, <3>3
      <4>2. PICK v, w : v = UpTo(p)[x] /\ w = UpTo(p)[x + 1]
        OBVIOUS
      <4>3. Begins(a, v) /\ (p[x] # "/" => Len(a) < Len(v))
        BY <2>2, <3>1, <4>1, <4>2
      <4>4. At(p, x) = p[x]
        BY <4>1, TextFacts
      <4>5. Len(v) \in Nat /\ Len(w) \in Nat /\ Round(p[x + 1], At(p, x), v, w)
        BY <4>1, <4>2, Rounds
      <4>6. CASE p[x + 1] = "/"
        BY <4>2, <4>3, <4>5, <4>6 DEF Round
      <4>7. CASE p[x + 1] # "/" /\ At(p, x) \in {"/", NUL}
        <5>1. Len(w) = Len(v) + 1 /\ \A n \in 1 .. Len(v) : w[n] = v[n]
          BY <4>5, <4>7 DEF Round
        <5>2. Begins(a, w) /\ Len(a) < Len(w)
          BY <1>1, <4>3, <4>5, <5>1 DEF Begins
        <5>3. QED
          BY <4>2, <5>2
      <4>8. CASE p[x + 1] # "/" /\ At(p, x) \notin {"/", NUL}
        <5>1. Len(w) = Len(v) /\ \A n \in 1 .. Len(v) - 1 : w[n] = v[n]
          BY <4>5, <4>8 DEF Round
        <5>2. Len(a) < Len(v)
          BY <4>3, <4>4, <4>8
        <5>3. Begins(a, w) /\ Len(a) < Len(w)
          BY <1>1, <4>3, <4>5, <5>1, <5>2 DEF Begins
        <5>4. QED
          BY <4>2, <5>3
      <4>9. QED
        BY <4>6, <4>7, <4>8
    <3>4. QED
      BY <3>2, <3>3
  <2>3. \A m \in Nat : m \in G
    <3> HIDE DEF G
    <3>1. QED
      BY <2>1, <2>2, NatInSet
  <2>4. PICK m \in Nat : i + 1 + m = j
    <3>1. j - (i + 1) \in Nat /\ i + 1 + (j - (i + 1)) = j
      BY <1>3
    <3>2. QED
      BY <3>1
  <2>5. i + 1 + m <= j => Begins(a, UpTo(p)[i + 1 + m])
    BY <2>3
  <2>6. QED
    BY <1>1, <2>4, <2>5
<1>4. QED
  BY <1>2, <1>3

(* Behind a character that is no separator there is a name.                *)
LEMMA SomeName ==
  ASSUME NEW p \in Text, NEW i \in 1 .. Len(p), p[i] # "/"
  PROVE  UpTo(p)[i] # <<>>
<1> DEFINE G == {m \in Nat : m + 1 <= Len(p) /\ p[m + 1] # "/" => Len(UpTo(p)[m + 1]) > 0}
<1>0. Len(p) \in Nat
  BY TextFacts
<1>1. 0 \in G
  <2>1. ASSUME 1 <= Len(p), p[1] # "/" PROVE Len(UpTo(p)[1]) > 0
    <3>1. 0 \in 0 .. Len(p) - 1 /\ 0 + 1 = 1
      BY <1>0, <2>1
    <3>2. PICK v, w : v = UpTo(p)[0] /\ w = UpTo(p)[1]
      OBVIOUS
    <3>3. At(p, 0) \in {"/", NUL}
      BY TextFacts
    <3>4. Len(w) = Len(v) + 1 /\ Len(v) \in Nat
      BY <2>1, <3>1, <3>2, <3>3, Rounds DEF Round
    <3>5. QED
      BY <3>2, <3>4
  <2>2. QED
    BY <2>1
<1>2. ASSUME NEW m \in Nat, m \in G PROVE m + 1 \in G
  <2>0. PICK x \in Nat : x = m + 1
    OBVIOUS
  <2>1. ASSUME x + 1 <= Len(p), p[x + 1] # "/" PROVE Len(UpTo(p)[x + 1]) > 0
    <3>1. x \in 0 .. Len(p) - 1 /\ x \in 1 .. Len(p)
      BY <1>0, <2>0, <2>1
    <3>2. PICK v, w : v = UpTo(p)[x] /\ w = UpTo(p)[x + 1]
      OBVIOUS
    <3>3. At(p, x) = p[x] /\ Len(v) \in Nat /\ Len(w) \in Nat /\ Round(p[x + 1], At(p, x), v, w)
      BY <3>1, <3>2, TextFacts, Rounds
    <3>4. CASE p[x] = "/"
      <4>0. At(p, x) \in {"/", NUL}
        BY <3>3, <3>4
      <4>1. Len(w) = Len(v) + 1 /\ Len(v) \in Nat
        BY <2>1, <3>3, <4>0 DEF Round
      <4>2. QED
        BY <3>2, <4>1
    <3>5. CASE p[x] # "/"
      <4>1. Len(v) > 0
        BY <1>2, <2>0, <3>1, <3>2, <3>5
      <4>2. (Len(w) = Len(v) \/ Len(w) = Len(v) + 1) /\ Len(v) \in Nat
        <5>1. CASE At(p, x) \in {"/", NUL}
          BY <2>1, <3>3, <5>1 DEF Round
        <5>2. CASE At(p, x) \notin {"/", NUL}
          BY <2>1, <3>3, <5>2 DEF Round
        <5>3. QED
          BY <5>1, <5>2
      <4>3. QED
        BY <3>2, <4>1, <4>2
    <3>6. QED
      BY <3>4, <3>5
  <2>2. QED
    BY <2>0, <2>1
<1>3. \A m \in Nat : m \in G
  <2> HIDE DEF G
  <2>1. QED
    BY <1>1, <1>2, NatInSet
<1>4. i - 1 \in Nat /\ (i - 1) + 1 = i
  BY <1>0
<1>5. Len(UpTo(p)[i]) > 0
  BY <1>0, <1>3, <1>4
<1>6. QED
  BY <1>5

(* From one separator to the next there is at most one name.               *)
Between(p, i, j) ==
  /\ i \in 1 .. Len(p) /\ j \in Nat /\ i < j /\ j <= Len(p) + 1
  /\ p[i] = "/"
  /\ \A x \in i + 1 .. j - 1 : p[x] # "/"

LEMMA OneName ==
  ASSUME NEW p, Plain(p), NEW i, NEW j, Between(p, i, j)
  PROVE  /\ Len(UpTo(p)[j - 1]) = Len(UpTo(p)[i - 1]) + (IF j = i + 1 THEN 0 ELSE 1)
         /\ Len(UpTo(p)[i - 1]) \in Nat
<1> USE DEF Between
<1>0. p \in Text /\ Len(p) \in Nat
  BY TextFacts DEF Plain, Text
<1>1. PICK c \in Nat : c = Len(UpTo(p)[i - 1])
  <2>1. i - 1 \in 0 .. Len(p)
    BY <1>0
  <2>2. UpTo(p)[i - 1] \in TextSeq
    BY <1>0, <2>1, UpToFacts
  <2>3. QED
    BY <2>2 DEF TextSeq
<1>2. Len(UpTo(p)[i]) = c
  <2>1. PICK y \in 0 .. Len(p) - 1 : y = i - 1 /\ y + 1 = i
    BY <1>0
  <2>2. PICK v, w : v = UpTo(p)[y] /\ w = UpTo(p)[y + 1]
    OBVIOUS
  <2>3. Round(p[y + 1], At(p, y), v, w)
    BY <1>0, <2>2, Rounds
  <2>4. w = v
    BY <2>1, <2>3 DEF Round
  <2>5. QED
    BY <1>1, <2>1, <2>2, <2>4
<1> DEFINE G == {m \in Nat : i + 1 + m < j => Len(UpTo(p)[i + 1 + m]) = c + 1}
<1>3. 0 \in G
  <2>1. ASSUME i + 1 < j PROVE Len(UpTo(p)[i + 1]) = c + 1
    <3>1. i \in 0 .. Len(p) - 1 /\ i + 1 \in i + 1 .. j - 1
      BY <1>0, <2>1
    <3>2. PICK v, w : v = UpTo(p)[i] /\ w = UpTo(p)[i + 1]
      OBVIOUS
    <3>3. Round(p[i + 1], At(p, i), v, w) /\ At(p, i) = "/"
      BY <1>0, <3>1, <3>2, Rounds, TextFacts
    <3>4. Len(w) = Len(v) + 1
      BY <3>1, <3>3 DEF Round
    <3>5. QED
      BY <1>2, <3>2, <3>4
  <2>2. QED
    BY <2>1
<1>4. ASSUME NEW m \in Nat, m \in G PROVE m + 1 \in G
  <2>1. PICK x \in Nat : x = i + 1 + m
    BY <1>0
  <2>2. ASSUME x + 1 < j PROVE Len(UpTo(p)[x + 1]) = c + 1
    <3>1. /\ x \in 0 .. Len(p) - 1 /\ x \in 1 .. Len(p) /\ x \in i + 1 .. j - 1 /\ x + 1 \in i + 1 .. j - 1
          /\ x \in DOMAIN p
      BY <1>0, <2>1, <2>2, TextFacts
    <3>2. PICK v, w : v = UpTo(p)[x] /\ w = UpTo(p)[x + 1]
      OBVIOUS
    <3>3. Round(p[x + 1], At(p, x), v, w) /\ At(p, x) = p[x]
      BY <1>0, <3>1, <3>2, Rounds, TextFacts
    <3>4. At(p, x) \notin {"/", NUL} /\ p[x + 1] # "/"
      BY <3>1, <3>3 DEF Plain
    <3>5. Len(w) = Len(v)
      BY <3>3, <3>4 DEF Round
    <3>6. Len(v) = c + 1
      BY <1>4, <2>1, <2>2, <3>2
    <3>7. QED
      BY <3>2, <3>5, <3>6
  <2>3. i + 1 + (m + 1) = x + 1
    BY <1>0, <2>1
  <2>4. QED
    BY <2>2, <2>3
<1>5. \A m \in Nat : m \in G
  <2> HIDE DEF G
  <2>1. QED
    BY <1>3, <1>4, NatInSet
<1>6. CASE j = i + 1
  <2>1. j - 1 = i
    BY <1>0, <1>6
  <2>2. QED
    BY <1>1, <1>2, <1>6, <2>1
<1>7. CASE j # i + 1
  <2>1. PICK m \in Nat : m = j - 1 - (i + 1) /\ i + 1 + m = j - 1 /\ i + 1 + m < j
    <3>1. j - 1 - (i + 1) \in Nat /\ i + 1 + (j - 1 - (i + 1)) = j - 1 /\ j - 1 < j
      BY <1>0, <1>7
    <3>2. QED
      BY <3>1
  <2>2. Len(UpTo(p)[i + 1 + m]) = c + 1
    BY <1>5, <2>1
  <2>3. QED
    BY <1>1, <1>7, <2>1, <2>2
<1>8. QED
  BY <1>6, <1>7

(* c is a and then b. *)
Follows(c, a, b) ==
  /\ Len(c) = Len(a) + Len(b)
  /\ \A n \in 1 .. Len(a) : c[n] = a[n]
  /\ \A n \in 1 .. Len(b) : c[Len(a) + n] = b[n]

LEMMA Concat ==
  ASSUME NEW a \in Text, NEW b \in Text
  PROVE  a \o b \in Text /\ Follows(a \o b, a, b)
<1>1. Len(a) \in Nat /\ Len(b) \in Nat
  BY DEF Text
<1>2. PICK c : c = a \o b
  OBVIOUS
<1>3. /\ c \in Text /\ Len(c) = Len(a) + Len(b)
      /\ \A x \in 1 .. Len(a) + Len(b) : c[x] = IF x <= Len(a) THEN a[x] ELSE b[x - Len(a)]
  BY <1>2, ConcatProperties DEF Text
<1>4. ASSUME NEW x \in 1 .. Len(a) PROVE c[x] = a[x]
  <2>1. x <= Len(a) /\ x \in 1 .. Len(a) + Len(b)
    BY <1>1
  <2>2. QED
    BY <1>3, <2>1
<1>5. ASSUME NEW x \in 1 .. Len(b) PROVE c[Len(a) + x] = b[x]
  <2>1. PICK y \in 1 .. Len(a) + Len(b) : y = Len(a) + x /\ ~(y <= Len(a)) /\ y - Len(a) = x
    BY <1>1
  <2>2. c[y] = IF y <= Len(a) THEN a[y] ELSE b[y - Len(a)]
    BY <1>3
  <2>3. QED
    BY <2>1, <2>2, Zenon
<1>6. QED
  BY <1>2, <1>3, <1>4, <1>5 DEF Follows

(* The names of a path behind one that ends in a separator come behind     *)
(* that one's.                                                             *)
LEMMA NamesBehind ==
  ASSUME NEW q \in Text, NEW p \in Text, NEW r \in Text, q # <<>>, q[Len(q)] = "/", Follows(r, q, p)
  PROVE  Follows(Names(r), Names(q), Names(p))
<1>0. Len(p) \in Nat /\ Len(q) \in Nat /\ Len(q) > 0 /\ Len(r) = Len(q) + Len(p)
  BY TextFacts, EmptySeq DEF Follows, Text
<1>1. PICK a \in TextSeq : a = Names(q) /\ Len(a) \in Nat
  <2>1. Len(q) \in 0 .. Len(q)
    BY <1>0
  <2>2. QED
    BY <2>1, UpToFacts DEF TextSeq
<1>2. UpTo(r)[Len(q)] = a
  <2>1. UpTo(r)[Len(q)] = UpTo(q)[Len(q)]
    BY <1>0, SameStart DEF Follows
  <2>2. QED
    BY <1>1, <2>1, UpToFacts
<1> DEFINE G == {m \in Nat : m <= Len(p) => Follows(UpTo(r)[Len(q) + m], a, UpTo(p)[m])}
<1>3. 0 \in G
  <2>1. UpTo(p)[0] = <<>> /\ Len(q) + 0 = Len(q)
    BY <1>0, UpToFacts
  <2>2. Follows(a, a, <<>>)
    BY <1>1 DEF Follows
  <2>3. QED
    BY <1>2, <2>1, <2>2
<1>4. ASSUME NEW m \in Nat, m \in G PROVE m + 1 \in G
  <2>1. ASSUME m + 1 <= Len(p) PROVE Follows(UpTo(r)[Len(q) + m + 1], a, UpTo(p)[m + 1])
    <3>1. PICK y \in Nat : y = Len(q) + m
      BY <1>0
    <3>2. m \in 0 .. Len(p) - 1 /\ y \in 0 .. Len(r) - 1 /\ y \in 1 .. Len(r) /\ m + 1 \in 1 .. Len(p)
      BY <1>0, <2>1, <3>1
    <3>3. PICK v, w, e, f : /\ v = UpTo(p)[m] /\ w = UpTo(p)[m + 1]
                            /\ e = UpTo(r)[y] /\ f = UpTo(r)[y + 1]
      OBVIOUS
    <3>4. Follows(e, a, v)
      BY <1>4, <2>1, <3>1, <3>3
    <3>5. PICK c : c = p[m + 1]
      OBVIOUS
    <3>6. r[y + 1] = c
      <4>1. r[Len(q) + (m + 1)] = p[m + 1] /\ Len(q) + (m + 1) = y + 1
        BY <1>0, <3>1, <3>2 DEF Follows
      <4>2. QED
        BY <3>5, <4>1
    <3>7. /\ Round(c, At(p, m), v, w) /\ v \in TextSeq /\ w \in TextSeq /\ Len(v) \in Nat /\ Len(w) \in Nat
      BY <3>2, <3>3, <3>5, Rounds
    <3>8. /\ Round(c, At(r, y), e, f) /\ e \in TextSeq /\ f \in TextSeq /\ Len(e) \in Nat /\ Len(f) \in Nat
      BY <3>2, <3>3, <3>6, Rounds
    <3>9. (At(p, m) \in {"/", NUL}) <=> (At(r, y) \in {"/", NUL})
      <4>1. At(r, y) = r[y]
        BY <3>2, TextFacts
      <4>2. CASE m = 0
        <5>1. At(p, m) = NUL
          BY <4>2, TextFacts
        <5>2. y = Len(q) /\ Len(q) \in 1 .. Len(q)
          BY <1>0, <3>1, <4>2
        <5>3. r[y] = "/"
          BY <5>2 DEF Follows
        <5>4. QED
          BY <4>1, <5>1, <5>3
      <4>3. CASE m # 0
        <5>1. m \in 1 .. Len(p)
          BY <1>0, <3>2, <4>3
        <5>2. At(p, m) = p[m] /\ r[y] = p[m]
          BY <3>1, <5>1, TextFacts DEF Follows
        <5>3. QED
          BY <4>1, <5>2
      <4>4. QED
        BY <4>2, <4>3
    <3>10. Follows(f, a, w)
      <4>1. CASE c = "/"
        BY <3>4, <3>7, <3>8, <4>1 DEF Round
      <4>2. CASE c # "/" /\ At(p, m) \in {"/", NUL}
        <5>1. /\ Len(w) = Len(v) + 1 /\ w[Len(v) + 1] = <<c>>
              /\ \A n \in 1 .. Len(v) : w[n] = v[n]
          BY <3>7, <4>2 DEF Round
        <5>2. /\ Len(f) = Len(e) + 1 /\ f[Len(e) + 1] = <<c>>
              /\ \A n \in 1 .. Len(e) : f[n] = e[n]
          BY <3>8, <3>9, <4>2 DEF Round
        <5>3. /\ Len(e) = Len(a) + Len(v) /\ \A n \in 1 .. Len(a) : e[n] = a[n]
              /\ \A n \in 1 .. Len(v) : e[Len(a) + n] = v[n]
          BY <3>4 DEF Follows
        <5>4. ASSUME NEW n \in 1 .. Len(w) PROVE f[Len(a) + n] = w[n]
          <6>1. CASE n = Len(v) + 1
            <7>1. Len(a) + n = Len(e) + 1
              BY <1>1, <3>7, <5>3, <6>1
            <7>2. QED
              BY <5>1, <5>2, <6>1, <7>1
          <6>2. CASE n # Len(v) + 1
            <7>1. n \in 1 .. Len(v) /\ Len(a) + n \in 1 .. Len(e)
              BY <1>1, <3>7, <5>1, <5>3, <6>2
            <7>2. QED
              BY <5>1, <5>2, <5>3, <7>1
          <6>3. QED
            BY <6>1, <6>2
        <5>5. Len(f) = Len(a) + Len(w) /\ \A n \in 1 .. Len(a) : f[n] = a[n]
          BY <1>1, <3>7, <5>1, <5>2, <5>3
        <5>6. QED
          BY <5>4, <5>5 DEF Follows
      <4>3. CASE c # "/" /\ At(p, m) \notin {"/", NUL}
        <5>1. v # <<>> /\ Len(v) > 0
          <6>1. m # 0
            BY <4>3, TextFacts
          <6>2. m \in 1 .. Len(p)
            BY <1>0, <3>2, <6>1
          <6>3. p[m] # "/"
            BY <4>3, <6>2, TextFacts
          <6>4. v # <<>>
            BY <3>3, <6>2, <6>3, SomeName
          <6>5. QED
            BY <3>7, <6>4, EmptySeq DEF TextSeq
        <5>2. /\ Len(w) = Len(v) /\ w[Len(v)] = Append(v[Len(v)], c)
              /\ \A n \in 1 .. Len(v) - 1 : w[n] = v[n]
          BY <3>7, <4>3, <5>1 DEF Round
        <5>3. Len(e) = Len(a) + Len(v) /\ e # <<>> /\ e[Len(e)] = v[Len(v)]
          <6>1. Len(e) = Len(a) + Len(v) /\ Len(v) \in 1 .. Len(v)
            BY <3>4, <3>7, <5>1 DEF Follows
          <6>2. e[Len(a) + Len(v)] = v[Len(v)]
            BY <3>4, <6>1 DEF Follows
          <6>3. Len(e) > 0
            BY <1>1, <3>7, <5>1, <6>1
          <6>4. QED
            BY <6>1, <6>2, <6>3
        <5>4. /\ Len(f) = Len(e) /\ f[Len(e)] = Append(e[Len(e)], c)
              /\ \A n \in 1 .. Len(e) - 1 : f[n] = e[n]
          BY <3>8, <3>9, <4>3, <5>3 DEF Round
        <5>5. ASSUME NEW n \in 1 .. Len(a) PROVE f[n] = a[n]
          <6>1. n \in 1 .. Len(e) - 1
            BY <1>1, <3>7, <5>1, <5>3, <5>5
          <6>2. QED
            BY <3>4, <5>4, <6>1 DEF Follows
        <5>6. ASSUME NEW n \in 1 .. Len(w) PROVE f[Len(a) + n] = w[n]
          <6>1. CASE n = Len(v)
            BY <5>2, <5>3, <5>4, <6>1
          <6>2. CASE n # Len(v)
            <7>1. n \in 1 .. Len(v) - 1 /\ Len(a) + n \in 1 .. Len(e) - 1 /\ n \in 1 .. Len(v)
              BY <1>1, <3>7, <5>2, <5>3, <6>2
            <7>2. QED
              BY <3>4, <5>2, <5>4, <7>1 DEF Follows
          <6>3. QED
            BY <6>1, <6>2
        <5>7. Len(f) = Len(a) + Len(w)
          BY <5>2, <5>3, <5>4
        <5>8. QED
          BY <5>5, <5>6, <5>7 DEF Follows
      <4>4. QED
        BY <4>1, <4>2, <4>3
    <3>11. QED
      BY <3>1, <3>3, <3>10
  <2>2. Len(q) + (m + 1) = Len(q) + m + 1
    BY <1>0
  <2>3. QED
    BY <2>1, <2>2
<1>5. \A m \in Nat : m \in G
  <2> HIDE DEF G
  <2>1. QED
    BY <1>3, <1>4, NatInSet
<1>6. Follows(UpTo(r)[Len(q) + Len(p)], a, UpTo(p)[Len(p)])
  BY <1>0, <1>5
<1>7. QED
  BY <1>0, <1>1, <1>6, UpToFacts

-----------------------------------------------------------------------------
(* Where names lead.                                                       *)

Spot == [root : BOOLEAN, up : Nat, down : TextSeq]

LEMMA StepType ==
  ASSUME NEW s \in Spot, NEW name \in Text
  PROVE  Step(s, name) \in Spot
<1>1. CASE name = <<".">>
  BY <1>1, Zenon DEF Step
<1>2. CASE name # <<".">> /\ name # <<".", ".">>
  <2>1. Step(s, name) = [s EXCEPT !.down = Append(s.down, name)]
    BY <1>2, Zenon DEF Step
  <2>2. Append(s.down, name) \in TextSeq
    BY DEF Spot, TextSeq
  <2>3. QED
    BY <2>1, <2>2 DEF Spot
<1>3. CASE name # <<".">> /\ name = <<".", ".">> /\ s.down # <<>>
  <2>1. Step(s, name) = [s EXCEPT !.down = Front(s.down)]
    BY <1>3, Zenon DEF Step
  <2>2. Front(s.down) \in TextSeq
    <3>1. s.down \in TextSeq
      BY DEF Spot
    <3>2. \A S : \A x \in Seq(S) : x # <<>> => SubSeq(x, 1, Len(x) - 1) \in Seq(S)
      OBVIOUS
    <3>3. QED
      BY <1>3, <3>1, <3>2 DEF TextSeq, Front
  <2>3. QED
    BY <2>1, <2>2 DEF Spot
<1>4. CASE name # <<".">> /\ name = <<".", ".">> /\ s.down = <<>> /\ s.root
  BY <1>4, Zenon DEF Step
<1>5. CASE name # <<".">> /\ name = <<".", ".">> /\ s.down = <<>> /\ ~s.root
  <2>1. Step(s, name) = [s EXCEPT !.up = s.up + 1]
    BY <1>5, Zenon DEF Step
  <2>2. s.up + 1 \in Nat
    BY DEF Spot
  <2>3. QED
    BY <2>1, <2>2 DEF Spot
<1>6. QED
  BY <1>1, <1>2, <1>3, <1>4, <1>5

LEMMA WalkFacts ==
  ASSUME NEW s \in Spot, NEW a \in TextSeq
  PROVE  /\ Len(a) \in Nat /\ Walk(s, a)[0] = s /\ DOMAIN Walk(s, a) = 0 .. Len(a)
         /\ \A n \in 1 .. Len(a) : Walk(s, a)[n] = Step(Walk(s, a)[n - 1], a[n])
         /\ \A n \in 0 .. Len(a) : Walk(s, a)[n] \in Spot
<1> DEFINE F(f) == [n \in 0 .. Len(a) |-> IF n = 0 THEN s ELSE Step(f[n - 1], a[n])]
           step == [n \in 1 .. Len(a) |-> [v \in Spot |-> Step(v, a[n])]]
<1>0. Len(a) \in Nat /\ \A n \in 1 .. Len(a) : a[n] \in Text
  BY ElementOfSeq DEF TextSeq
<1>1. PICK u : u = Walk(s, a)
  OBVIOUS
<1>2. u = CHOOSE f : f = F(f)
  BY <1>1, Zenon DEF Walk
<1>3. PICK st : st = step
  OBVIOUS
<1>4. \A n \in 1 .. Len(a) : \A v \in Spot : st[n][v] = Step(v, a[n]) /\ st[n][v] \in Spot
  BY <1>0, <1>3, StepType
<1> HIDE DEF step
<1>5. Stepping(st, Len(a), Spot)
  BY <1>4, Zenon DEF Stepping
<1>6. PICK g : Iter(g, st, s, Len(a), Spot)
  BY <1>0, <1>5, Iterates
<1>7. /\ g = [n \in 0 .. Len(a) |-> IF n = 0 THEN s ELSE st[n][g[n - 1]]]
      /\ \A n \in 0 .. Len(a) : g[n] \in Spot
  BY <1>6, Zenon DEF Iter
<1>8. g = F(g)
  <2>1. ASSUME NEW n \in 0 .. Len(a), n # 0 PROVE st[n][g[n - 1]] = Step(g[n - 1], a[n])
    <3>1. n \in 1 .. Len(a) /\ n - 1 \in 0 .. Len(a)
      BY <1>0, <2>1
    <3>2. QED
      BY <1>4, <1>7, <3>1
  <2>2. QED
    BY <1>7, <2>1, Zenon
<1> HIDE DEF F
<1>9. u = F(u)
  BY <1>2, <1>8, Zenon
<1>10. \A n \in 0 .. Len(a) : u[n] = IF n = 0 THEN s ELSE Step(u[n - 1], a[n])
  BY <1>9, Zenon DEF F
<1>11. u[0] = s /\ \A n \in 1 .. Len(a) : u[n] = Step(u[n - 1], a[n])
  BY <1>0, <1>10
<1>12. DOMAIN u = 0 .. Len(a)
  BY <1>9, Zenon DEF F
<1> DEFINE G == {n \in Nat : n <= Len(a) => u[n] \in Spot}
<1>13. 0 \in G
  BY <1>11
<1>14. ASSUME NEW n \in Nat, n \in G PROVE n + 1 \in G
  <2>1. ASSUME n + 1 <= Len(a) PROVE u[n + 1] \in Spot
    <3>1. n + 1 \in 1 .. Len(a) /\ (n + 1) - 1 = n /\ u[n] \in Spot
      BY <1>0, <1>14, <2>1
    <3>2. u[n + 1] = Step(u[n], a[n + 1]) /\ a[n + 1] \in Text
      BY <1>0, <1>11, <3>1
    <3>3. QED
      BY <3>1, <3>2, StepType
  <2>2. QED
    BY <2>1
<1>15. \A n \in Nat : n \in G
  <2> HIDE DEF G
  <2>1. QED
    BY <1>13, <1>14, NatInSet
<1>16. QED
  BY <1>0, <1>1, <1>11, <1>12, <1>15

(* The first names lead the same way, whatever comes behind them.          *)
LEMMA WalkBegins ==
  ASSUME NEW s \in Spot, NEW a \in TextSeq, NEW b \in TextSeq, Begins(a, b)
  PROVE  \A n \in 0 .. Len(a) : Walk(s, a)[n] = Walk(s, b)[n]
<1>0. Len(a) \in Nat /\ Len(b) \in Nat /\ Len(a) <= Len(b)
  BY WalkFacts DEF Begins
<1>1. PICK u, w : u = Walk(s, a) /\ w = Walk(s, b)
  OBVIOUS
<1>2. /\ u[0] = s /\ \A n \in 1 .. Len(a) : u[n] = Step(u[n - 1], a[n])
      /\ w[0] = s /\ \A n \in 1 .. Len(b) : w[n] = Step(w[n - 1], b[n])
  BY <1>1, WalkFacts
<1> DEFINE G == {n \in Nat : n <= Len(a) => u[n] = w[n]}
<1>3. 0 \in G
  BY <1>2
<1>4. ASSUME NEW n \in Nat, n \in G PROVE n + 1 \in G
  <2>1. ASSUME n + 1 <= Len(a) PROVE u[n + 1] = w[n + 1]
    <3>1. n + 1 \in 1 .. Len(a) /\ n + 1 \in 1 .. Len(b) /\ (n + 1) - 1 = n /\ u[n] = w[n]
      BY <1>0, <1>4, <2>1
    <3>2. u[n + 1] = Step(u[n], a[n + 1]) /\ w[n + 1] = Step(w[n], b[n + 1]) /\ a[n + 1] = b[n + 1]
      BY <1>2, <3>1 DEF Begins
    <3>3. QED
      BY <3>1, <3>2
  <2>2. QED
    BY <2>1
<1>5. \A n \in Nat : n \in G
  <2> HIDE DEF G
  <2>1. QED
    BY <1>3, <1>4, NatInSet
<1>6. QED
  BY <1>0, <1>1, <1>5

(* Names behind others lead on from where those lead.                      *)
LEMMA WalkFollows ==
  ASSUME NEW s \in Spot, NEW a \in TextSeq, NEW b \in TextSeq, NEW c \in TextSeq, Follows(c, a, b),
         NEW t, t = Walk(s, a)[Len(a)]
  PROVE  /\ t \in Spot
         /\ \A n \in 0 .. Len(a) : Walk(s, c)[n] = Walk(s, a)[n]
         /\ \A n \in 0 .. Len(b) : Walk(s, c)[Len(a) + n] = Walk(t, b)[n]
<1>0. Len(a) \in Nat /\ Len(b) \in Nat /\ Len(c) = Len(a) + Len(b)
  BY WalkFacts DEF Follows
<1>1. Begins(a, c)
  BY <1>0 DEF Follows, Begins
<1>2. t \in Spot
  BY <1>0, WalkFacts
<1>3. PICK u, w : u = Walk(s, c) /\ w = Walk(t, b)
  OBVIOUS
<1>4. \A n \in 0 .. Len(a) : u[n] = Walk(s, a)[n]
  BY <1>1, <1>3, WalkBegins
<1>5. /\ \A n \in 1 .. Len(c) : u[n] = Step(u[n - 1], c[n])
      /\ w[0] = t /\ \A n \in 1 .. Len(b) : w[n] = Step(w[n - 1], b[n])
  BY <1>2, <1>3, WalkFacts
<1> DEFINE G == {n \in Nat : n <= Len(b) => u[Len(a) + n] = w[n]}
<1>6. 0 \in G
  <2>1. Len(a) + 0 = Len(a) /\ Len(a) \in 0 .. Len(a)
    BY <1>0
  <2>2. QED
    BY <1>4, <1>5, <2>1
<1>7. ASSUME NEW n \in Nat, n \in G PROVE n + 1 \in G
  <2>1. ASSUME n + 1 <= Len(b) PROVE u[Len(a) + (n + 1)] = w[n + 1]
    <3>1. PICK m \in Nat : m = Len(a) + (n + 1)
      BY <1>0
    <3>2. /\ n + 1 \in 1 .. Len(b) /\ m \in 1 .. Len(c) /\ (n + 1) - 1 = n /\ m - 1 = Len(a) + n
          /\ u[m - 1] = w[n]
      BY <1>0, <1>7, <2>1, <3>1
    <3>3. u[m] = Step(u[m - 1], c[m]) /\ w[n + 1] = Step(w[n], b[n + 1]) /\ c[m] = b[n + 1]
      BY <1>5, <3>1, <3>2 DEF Follows
    <3>4. QED
      BY <3>1, <3>2, <3>3
  <2>2. QED
    BY <2>1
<1>8. \A n \in Nat : n \in G
  <2> HIDE DEF G
  <2>1. QED
    BY <1>6, <1>7, NatInSet
<1>9. QED
  BY <1>0, <1>2, <1>3, <1>4, <1>8

LEMMA EndsSlash ==
  ASSUME NEW p \in Text
  PROVE  EndsWith(p, <<"/">>) <=> p # <<>> /\ p[Len(p)] = "/"
BY DEF EndsWith, IsSuffix, IsPrefix, Reverse, Text

Root == [root |-> TRUE, up |-> 0, down |-> <<>>]

LEMMA RootFacts ==
  ASSUME NEW p \in Text, p # <<>>, p[1] = "/"
  PROVE  /\ Start(p) = Root /\ Root \in Spot /\ Names(p) \in TextSeq /\ Len(Names(p)) \in Nat
         /\ Places(p) = Walk(Root, Names(p))
         /\ Place(p) = Places(p)[Len(Names(p))]
         /\ Places(p)[0].down = <<>>
<1>1. Len(p) \in Nat /\ 1 \in 1 .. Len(p) /\ At(p, 1) = "/"
  <2>1. Len(p) \in Nat /\ Len(p) > 0
    BY EmptySeq DEF Text
  <2>2. 1 \in 1 .. Len(p)
    BY <2>1
  <2>3. QED
    BY <2>1, <2>2, TextFacts
<1>2. Start(p) = Root
  BY <1>1 DEF Start, Root
<1>3. Root \in Spot
  BY DEF Root, Spot, TextSeq
<1>4. Names(p) \in TextSeq /\ Len(Names(p)) \in Nat
  <2>1. Len(p) \in 0 .. Len(p)
    BY <1>1
  <2>2. Names(p) \in TextSeq
    BY <2>1, UpToFacts
  <2>3. QED
    BY <2>2 DEF TextSeq
<1>5. Places(p) = Walk(Root, Names(p))
  BY <1>2, Zenon DEF Places
<1>6. Place(p) = Places(p)[Len(Names(p))]
  BY Zenon DEF Place, Places
<1>7. Places(p)[0] = Root
  BY <1>3, <1>4, <1>5, WalkFacts
<1>8. Places(p)[0].down = <<>>
  BY <1>7 DEF Root
<1>9. QED
  BY <1>2, <1>3, <1>4, <1>5, <1>6, <1>8

(* A path whose names are the first ones of another leads the same way.    *)
LEMMA SameWay ==
  ASSUME NEW p \in Text, NEW r \in Text, p # <<>>, r # <<>>, p[1] = "/", r[1] = "/", Begins(Names(p), Names(r))
  PROVE  /\ Len(Names(p)) \in Nat /\ Len(Names(r)) \in Nat /\ Len(Names(p)) <= Len(Names(r))
         /\ \A n \in 0 .. Len(Names(p)) : Places(p)[n] = Places(r)[n]
         /\ Place(p) = Places(r)[Len(Names(p))]
<1>1. PICK a \in TextSeq, b \in TextSeq : a = Names(p) /\ b = Names(r) /\ Len(a) \in Nat /\ Len(b) \in Nat
  BY RootFacts
<1>2. Places(p) = Walk(Root, a) /\ Places(r) = Walk(Root, b) /\ Root \in Spot /\ Place(p) = Places(p)[Len(a)]
  BY <1>1, RootFacts
<1>3. Begins(a, b)
  BY <1>1
<1>4. \A n \in 0 .. Len(a) : Walk(Root, a)[n] = Walk(Root, b)[n]
  BY <1>2, <1>3, WalkBegins
<1>5. Len(a) <= Len(b) /\ Len(a) \in 0 .. Len(a)
  BY <1>1, <1>3 DEF Begins
<1>6. QED
  BY <1>1, <1>2, <1>4, <1>5

(* The first part of a path, up to a separator or all of it.               *)
Part(d, j) == SubSeq(d, 1, j - 1)

LEMMA PartFacts ==
  ASSUME NEW d \in Text, NEW j \in Nat, j >= 1, j <= Len(d) + 1
  PROVE  /\ Part(d, j) \in Text /\ Len(Part(d, j)) = j - 1 /\ \A x \in 1 .. j - 1 : Part(d, j)[x] = d[x]
         /\ Names(Part(d, j)) = UpTo(d)[j - 1]
         /\ At(d, j) \in {"/", NUL} /\ Plain(d) => Begins(Names(Part(d, j)), Names(d))
<1>0. Len(d) \in Nat /\ j - 1 \in Nat /\ j - 1 <= Len(d)
  BY TextFacts
<1>1. PICK i \in Nat : i = j - 1
  BY <1>0
<1>2. PICK r : r = Part(d, j)
  OBVIOUS
<1>3. r \in Text /\ Len(r) = i /\ \A x \in 1 .. i : r[x] = d[x]
  <2>1. \A S : \A s \in Seq(S) : \A m \in Nat : m <= Len(s) =>
          /\ SubSeq(s, 1, m) \in Seq(S) /\ Len(SubSeq(s, 1, m)) = m
          /\ \A x \in 1 .. m : SubSeq(s, 1, m)[x] = s[x]
    OBVIOUS
  <2>2. QED
    BY <1>0, <1>1, <1>2, <2>1 DEF Part, Text
<1>4. Names(r) = UpTo(d)[i]
  <2>1. UpTo(r)[i] = UpTo(d)[i]
    BY <1>0, <1>1, <1>3, SameStart
  <2>2. QED
    BY <1>3, <2>1, UpToFacts
<1>5. ASSUME At(d, j) \in {"/", NUL}, Plain(d) PROVE Begins(UpTo(d)[i], Names(d))
  <2>1. i = Len(d) \/ d[i + 1] = "/"
    <3>1. CASE i = Len(d)
      BY <3>1
    <3>2. CASE i # Len(d)
      <4>1. j \in 1 .. Len(d) /\ j = i + 1 /\ j \in DOMAIN d
        BY <1>0, <1>1, <3>2, TextFacts
      <4>2. At(d, j) = d[j] /\ d[j] # NUL
        BY <1>5, <4>1, TextFacts DEF Plain
      <4>3. QED
        BY <1>5, <4>1, <4>2
    <3>3. QED
      BY <3>1, <3>2
  <2>2. Begins(UpTo(d)[i], UpTo(d)[Len(d)])
    BY <1>0, <1>1, <2>1, StaysAhead
  <2>3. QED
    BY <2>2, UpToFacts
<1>6. QED
  BY <1>1, <1>2, <1>3, <1>4, <1>5

LEMMA NextCutFacts ==
  ASSUME NEW d \in Text, NEW i \in 1 .. Len(d)
  PROVE  /\ NextCut(d, i) \in i + 1 .. Len(d) + 1 /\ At(d, NextCut(d, i)) \in {"/", NUL}
         /\ \A x \in i + 1 .. NextCut(d, i) - 1 : d[x] # "/"
<1> DEFINE Cut(j) == At(d, j) \in {"/", NUL} /\ \A x \in i + 1 .. j - 1 : d[x] # "/"
           T == {m \in Nat : m >= i + 1 /\ m <= Len(d) + 1 /\ At(d, m) \in {"/", NUL}}
<1>0. Len(d) \in Nat /\ Len(d) + 1 \in T
  BY TextFacts
<1>1. PICK j \in T : \A m \in T : j <= m
  BY <1>0, LeastNat
<1>2. j \in i + 1 .. Len(d) + 1 /\ At(d, j) \in {"/", NUL}
  BY <1>0, <1>1
<1>3. ASSUME NEW x \in i + 1 .. j - 1 PROVE d[x] # "/"
  <2>1. x \in 1 .. Len(d) /\ x \in Nat /\ x >= i + 1 /\ x <= Len(d) + 1 /\ x < j
    BY <1>0, <1>2
  <2>2. At(d, x) \notin {"/", NUL}
    BY <1>1, <2>1
  <2>3. QED
    BY <2>1, <2>2, TextFacts
<1>4. Cut(j)
  BY <1>2, <1>3
<1>5. NextCut(d, i) = CHOOSE y \in i + 1 .. Len(d) + 1 : Cut(y)
  BY Zenon DEF NextCut
<1> HIDE DEF Cut
<1>6. NextCut(d, i) \in i + 1 .. Len(d) + 1 /\ Cut(NextCut(d, i))
  BY <1>2, <1>4, <1>5, Zenon
<1>7. QED
  BY <1>6 DEF Cut

(* The last separator of a text, or 0. *)
LEMMA LastSepAny ==
  ASSUME NEW p \in Text
  PROVE  /\ LastSep(p) \in 0 .. Len(p) /\ (LastSep(p) # 0 => p[LastSep(p)] \in Separators)
         /\ \A x \in LastSep(p) + 1 .. Len(p) : p[x] \notin Separators
<1> DEFINE seps == {0} \cup {k1 \in DOMAIN p : p[k1] \in Separators}
           T == {m \in Nat : Len(p) - m \in seps}
<1>0. Len(p) \in Nat /\ DOMAIN p = 1 .. Len(p)
  BY TextFacts
<1>1. /\ \A j \in seps : j \in 0 .. Len(p)
      /\ 0 \in seps
      /\ \A j \in seps : j # 0 => p[j] \in Separators
      /\ \A j \in 1 .. Len(p) : p[j] \in Separators => j \in seps
  BY <1>0
<1> HIDE DEF seps
<1>2. Len(p) - Len(p) = 0
  BY <1>0
<1>3. Len(p) \in T
  BY <1>0, <1>1, <1>2
<1>4. PICK m \in T : \A n \in T : m <= n
  BY <1>3, LeastNat
<1>5. PICK s \in seps : s = Len(p) - m
  BY <1>4
<1>6. ASSUME NEW j \in seps PROVE j <= s
  <2>0. j \in 0 .. Len(p) /\ s \in 0 .. Len(p)
    BY <1>1
  <2>1. Len(p) - j \in Nat /\ Len(p) - (Len(p) - j) = j
    BY <1>0, <2>0
  <2>2. Len(p) - j \in T
    BY <2>1
  <2>3. m <= Len(p) - j
    BY <1>4, <2>2
  <2>4. QED
    BY <1>0, <1>5, <2>0, <2>3
<1>7. PICK e : e = LastSep(p)
  OBVIOUS
<1>8. e \in seps /\ \A j \in seps : j <= e
  <2>1. e = CHOOSE y \in seps : \A j \in seps : j <= y
    BY <1>7, Zenon DEF LastSep, seps
  <2>2. QED
    BY <1>6, <2>1, Zenon
<1>9. e \in 0 .. Len(p) /\ (e # 0 => p[e] \in Separators)
  BY <1>1, <1>8
<1>10. ASSUME NEW x \in e + 1 .. Len(p), p[x] \in Separators PROVE FALSE
  <2>1. x \in 1 .. Len(p) /\ x > e
    BY <1>0, <1>9
  <2>2. x \in seps
    BY <1>1, <1>10, <2>1
  <2>3. x <= e
    BY <1>8, <2>2
  <2>4. QED
    BY <1>9, <2>1, <2>3
<1>11. QED
  BY <1>7, <1>9, <1>10

LEMMA LastSepFacts ==
  ASSUME NEW p, Plain(p), p # <<>>, p[1] = "/"
  PROVE  /\ LastSep(p) \in 1 .. Len(p) /\ p[LastSep(p)] = "/"
         /\ \A x \in LastSep(p) + 1 .. Len(p) : p[x] # "/"
<1>1. p \in Text /\ Len(p) \in Nat /\ Len(p) > 0 /\ DOMAIN p = 1 .. Len(p)
  BY TextFacts, EmptySeq DEF Plain, Text
<1>2. PICK e : e = LastSep(p)
  OBVIOUS
<1>3. /\ e \in 0 .. Len(p) /\ (e # 0 => p[e] \in Separators)
      /\ \A x \in e + 1 .. Len(p) : p[x] \notin Separators
  BY <1>1, <1>2, LastSepAny
<1>4. e # 0
  <2>1. e = 0 => 1 \in e + 1 .. Len(p)
    BY <1>1
  <2>2. QED
    BY <1>3, <2>1 DEF Separators
<1>5. e \in 1 .. Len(p)
  BY <1>1, <1>3, <1>4
<1>6. p[e] = "/"
  BY <1>1, <1>3, <1>4, <1>5 DEF Separators, Plain
<1>7. QED
  BY <1>2, <1>3, <1>5, <1>6 DEF Separators

(* d is the directory of the path a. *)
IsDirOf(d, a) ==
  /\ Plain(d) /\ d # <<>> /\ d[1] = "/"
  /\ Begins(Names(d), Names(a))
  /\ Len(Names(a)) = Len(Names(d)) + (IF EndsWith(a, <<"/">>) THEN 0 ELSE 1)

LEMMA PlainText ==
  ASSUME NEW p, Plain(p)
  PROVE  /\ p \in Text /\ Len(p) \in Nat /\ DOMAIN p = 1 .. Len(p) /\ (p # <<>> => Len(p) > 0)
         /\ \A i \in 1 .. Len(p) : p[i] \notin {NUL, "\\", ":"}
BY TextFacts, EmptySeq DEF Plain, Text

LEMMA PlainPart ==
  ASSUME NEW p, Plain(p), NEW m \in Nat, m >= 1, m <= Len(p)
  PROVE  /\ Plain(SubSeq(p, 1, m)) /\ SubSeq(p, 1, m) # <<>> /\ SubSeq(p, 1, m)[1] = p[1]
         /\ Names(SubSeq(p, 1, m)) = UpTo(p)[m]
         /\ Len(SubSeq(p, 1, m)) = m
<1>0. p \in Text /\ Len(p) \in Nat /\ m + 1 \in Nat /\ (m + 1) - 1 = m /\ m + 1 >= 1 /\ m + 1 <= Len(p) + 1
  BY PlainText
<1>1. PICK r : r = SubSeq(p, 1, m)
  OBVIOUS
<1>2. PICK j \in Nat : j = m + 1
  BY <1>0
<1>3. j - 1 = m /\ Part(p, j) = r /\ j >= 1 /\ j <= Len(p) + 1
  BY <1>0, <1>1, <1>2 DEF Part
<1>4. r \in Text /\ Len(r) = j - 1 /\ (\A x \in 1 .. j - 1 : r[x] = p[x]) /\ Names(r) = UpTo(p)[j - 1]
  BY <1>0, <1>3, PartFacts
<1>5. r \in Text /\ Len(r) = m /\ (\A x \in 1 .. m : r[x] = p[x]) /\ Names(r) = UpTo(p)[m]
  BY <1>3, <1>4
<1>6. DOMAIN r = 1 .. m /\ r # <<>>
  BY <1>5, TextFacts
<1>7. Plain(r)
  <2>1. ASSUME NEW i \in 1 .. m PROVE r[i] \notin {NUL, "\\", ":"}
    <3>1. i \in 1 .. Len(p) /\ r[i] = p[i]
      BY <1>0, <1>5
    <3>2. QED
      BY <3>1, PlainText
  <2>2. QED
    BY <1>5, <1>6, <2>1 DEF Plain, Text
<1>8. 1 \in 1 .. m
  OBVIOUS
<1>9. QED
  BY <1>1, <1>5, <1>6, <1>7, <1>8

LEMMA DirFacts ==
  ASSUME NEW a, Plain(a), a # <<>>, a[1] = "/", NEW size \in Nat \ {0}
  PROVE  /\ Dirname(a, size).ok => IsDirOf(Dirname(a, size).path, a)
         /\ Dirname(a, size).ok \in BOOLEAN
         /\ ~Dirname(a, size).ok => Len(a) >= size
<1>0. a \in Text /\ Len(a) \in Nat /\ Len(a) > 0 /\ \A i \in 1 .. Len(a) : a[i] \notin {NUL, "\\", ":"}
  BY PlainText
<1>1. PICK s \in 1 .. Len(a) : s = LastSep(a) /\ a[s] = "/" /\ \A x \in s + 1 .. Len(a) : a[x] # "/"
  BY LastSepFacts
<1>2. PICK m \in 1 .. Len(a) : m = IF s - 1 = 0 THEN 1 ELSE s - 1
  BY <1>0
<1>3. a[m] # ":" /\ s - 1 >= 0 /\ m \in Nat /\ m >= 1 /\ m <= Len(a)
  BY <1>0, <1>2
<1>4. PICK D : D = Dirname(a, size)
  OBVIOUS
<1>5. D = IF size <= 1 \/ m >= size THEN Error ELSE Result(SubSeq(a, 1, m), m + 1)
  <2>1. LastSep(a) - 1 = s - 1
    BY <1>1
  <2>2. (IF LastSep(a) - 1 = 0 THEN 1 ELSE LastSep(a) - 1) = m
    BY <1>1, <1>2
  <2>3. ~(LastSep(a) - 1 < 0)
    BY <1>1, <1>3
  <2>4. QED
    BY <1>3, <1>4, <2>2, <2>3, Zenon DEF Dirname
<1>6. CASE size <= 1 \/ m >= size
  <2>1. D.ok = FALSE
    BY <1>5, <1>6 DEF Error
  <2>2. Len(a) >= size
    BY <1>0, <1>6
  <2>3. QED
    BY <1>4, <2>1, <2>2
<1>7. CASE ~(size <= 1 \/ m >= size)
  <2>1. D.ok = TRUE /\ D.path = SubSeq(a, 1, m)
    BY <1>5, <1>7 DEF Result
  <2>2. PICK d : d = SubSeq(a, 1, m)
    OBVIOUS
  <2>3. Plain(d) /\ d # <<>> /\ d[1] = "/" /\ Names(d) = UpTo(a)[m]
    BY <1>3, <2>2, PlainPart
  <2>4. s - 1 \in Nat /\ (s - 1) + 1 = s /\ s - 1 <= Len(a) /\ s - 1 \in 0 .. Len(a) - 1
    BY <1>0
  <2>5. UpTo(a)[m] = UpTo(a)[s - 1]
    <3>1. CASE s - 1 = 0
      <4>1. PICK v, w : v = UpTo(a)[0] /\ w = UpTo(a)[0 + 1]
        OBVIOUS
      <4>2. 0 \in 0 .. Len(a) - 1 /\ 0 + 1 = 1
        BY <1>0
      <4>3. Round(a[0 + 1], At(a, 0), v, w)
        BY <1>0, <4>1, <4>2, Rounds
      <4>4. w = v
        BY <4>2, <4>3 DEF Round
      <4>5. QED
        BY <1>2, <3>1, <4>1, <4>2, <4>4
    <3>2. CASE s - 1 # 0
      BY <1>2, <3>2
    <3>3. QED
      BY <3>1, <3>2
  <2>6. Begins(UpTo(a)[s - 1], UpTo(a)[Len(a)])
    <3>1. PICK i \in Nat : i = s - 1
      BY <2>4
    <3>2. a[i + 1] = "/" /\ i <= Len(a)
      BY <1>1, <2>4, <3>1
    <3>3. Begins(UpTo(a)[i], UpTo(a)[Len(a)])
      BY <1>0, <3>2, StaysAhead
    <3>4. QED
      BY <3>1, <3>3
  <2>7. Names(a) = UpTo(a)[Len(a)]
    BY <1>0, UpToFacts
  <2>8. Len(UpTo(a)[Len(a)]) = Len(UpTo(a)[s - 1]) + (IF Len(a) = s THEN 0 ELSE 1)
    <3>1. PICK j \in Nat : j = Len(a) + 1
      BY <1>0
    <3>2. s < j /\ j <= Len(a) + 1 /\ j - 1 = Len(a) /\ (j = s + 1 <=> Len(a) = s)
      BY <1>0, <3>1
    <3>3. Between(a, s, j)
      BY <1>1, <3>2 DEF Between
    <3>4. Len(UpTo(a)[j - 1]) = Len(UpTo(a)[s - 1]) + (IF j = s + 1 THEN 0 ELSE 1)
      BY <3>3, OneName
    <3>5. QED
      BY <3>2, <3>4
  <2>9. EndsWith(a, <<"/">>) <=> Len(a) = s
    <3>1. EndsWith(a, <<"/">>) <=> a[Len(a)] = "/"
      BY <1>0, EndsSlash
    <3>2. Len(a) # s => Len(a) \in s + 1 .. Len(a)
      BY <1>0
    <3>3. QED
      BY <1>1, <3>1, <3>2
  <2>10. IsDirOf(d, a)
    BY <2>3, <2>5, <2>6, <2>7, <2>8, <2>9 DEF IsDirOf
  <2>11. QED
    BY <1>4, <2>1, <2>2, <2>10
<1>8. QED
  BY <1>6, <1>7

-----------------------------------------------------------------------------
(* The path that is opened.                                                *)

(* a leads where p means, below directories that are there or on p's way.  *)
Leads(a, p) ==
  /\ Plain(a) /\ a # <<>> /\ a[1] = "/"
  /\ Place(a).down = Meant(p).down
  /\ \A n \in 0 .. Len(Names(a)) - 1 : Places(a)[n].down \in OldDirs \cup OnTheWay(p)
  /\ EndsWith(a, <<"/">>) <=> EndsWith(p, <<"/">>)

LEMMA CwdFacts == Plain(Cwd) /\ Len(Cwd) > 0 /\ Cwd[1] = "/" /\ Tidy(Cwd)
<1>1. Plain(Cwd) /\ At(Cwd, 1) = "/" /\ Tidy(Cwd)
  BY OpenAssumption, Plainly
<1>2. Len(Cwd) \in Nat /\ DOMAIN Cwd = 1 .. Len(Cwd)
  BY <1>1, PlainText
<1>3. Cwd[1] = "/" /\ 1 \in 1 .. Len(Cwd)
  BY <1>1, <1>2 DEF At, NUL
<1>4. QED
  BY <1>1, <1>2, <1>3

LEMMA AbsFacts ==
  ASSUME NEW p, Plain(p)
  PROVE  AbsPath(p).ok \in BOOLEAN /\ (AbsPath(p).ok => Leads(AbsPath(p).path, p))
<1>0. p \in Text /\ Len(p) \in Nat /\ \A i \in 1 .. Len(p) : p[i] \notin {NUL, "\\", ":"}
  BY PlainText
<1>1. IsAbs(p) <=> Len(p) > 1 /\ p[1] = "/"
  <2>1. Len(p) > 2 => 2 \in 1 .. Len(p)
    BY <1>0
  <2>2. Len(p) > 2 => p[2] # ":"
    BY <1>0, <2>1
  <2>3. QED
    BY <2>2 DEF IsAbs
<1>2. CASE IsAbs(p)
  <2>1. AbsPath(p) = Result(p, 0)
    BY <1>2, Zenon DEF AbsPath
  <2>2. AbsPath(p).ok = TRUE /\ AbsPath(p).path = p
    BY <2>1 DEF Result
  <2>3. p # <<>> /\ p[1] = "/" /\ At(p, 1) = "/"
    <3>1. p # <<>> /\ 1 \in 1 .. Len(p)
      BY <1>0, <1>1, <1>2
    <3>2. QED
      BY <1>0, <1>1, <1>2, <3>1, TextFacts
  <2>4. Meant(p) = Place(p)
    BY <2>3, Zenon DEF Meant
  <2>5. \A n \in 0 .. Len(Names(p)) - 1 : Places(p)[n].down \in OnTheWay(p)
    <3>1. OnTheWay(p) = {Places(p)[n].down : n \in 0 .. Len(Names(p)) - 1}
      BY <2>3, Zenon DEF OnTheWay, Places
    <3>2. QED
      BY <3>1, Zenon
  <2>6. Leads(p, p)
    BY <2>3, <2>4, <2>5 DEF Leads
  <2>7. QED
    BY <2>2, <2>6
<1>3. CASE ~IsAbs(p)
  <2>1. PICK J : J = Join(Cwd, p, MaxPath)
    OBVIOUS
  <2>2. AbsPath(p) = J
    BY <1>3, <2>1, Zenon DEF AbsPath
  <2>3. PICK head, tail : /\ head = IF EndsWith(Cwd, <<"/">>) \/ EndsWith(Cwd, <<"\\">>) THEN Cwd ELSE Append(Cwd, "/")
                          /\ tail = IF At(p, 1) = "/" THEN Tail(p) ELSE p
    OBVIOUS
  <2>4. \/ J = Error
        \/ J = Result(head \o tail, MaxPath) /\ tail # <<>> /\ p # <<>>
    BY <2>1, <2>3, Zenon DEF Join
  <2>5. CASE J = Error
    BY <2>2, <2>5 DEF Error
  <2>6. CASE J = Result(head \o tail, MaxPath) /\ tail # <<>> /\ p # <<>>
    <3>1. At(p, 1) = p[1] /\ p[1] # "/" /\ tail = p
      <4>1. Len(p) > 0 /\ 1 \in 1 .. Len(p)
        BY <1>0, <2>6, PlainText
      <4>2. At(p, 1) = p[1]
        BY <1>0, <4>1, TextFacts
      <4>3. ASSUME p[1] = "/" PROVE FALSE
        <5>1. Len(p) = 1
          BY <1>0, <1>1, <1>3, <4>1, <4>3
        <5>2. Tail(p) = <<>>
          <6>1. Tail(p) \in Text /\ Len(Tail(p)) = 0
            BY <1>0, <2>6, <5>1, HeadTailProperties DEF Text
          <6>2. QED
            BY <6>1, EmptySeq DEF Text
        <5>3. QED
          BY <2>3, <2>6, <4>2, <4>3, <5>2
      <4>4. QED
        BY <2>3, <4>2, <4>3
    <3> PICK c \in Text : c = Cwd /\ Plain(c) /\ Len(c) > 0 /\ c[1] = "/" /\ c # <<>>
      BY CwdFacts, PlainText, EmptySeq
    <3>2. Len(c) \in Nat /\ \A i \in 1 .. Len(c) : c[i] \notin {NUL, "\\", ":"}
      BY PlainText
    <3>3. /\ Plain(head) /\ head # <<>> /\ head[1] = "/" /\ head[Len(head)] = "/"
          /\ Names(head) = Names(c)
      <4>1. CASE EndsWith(c, <<"/">>)
        BY <2>3, <4>1, EndsSlash
      <4>2. CASE ~EndsWith(c, <<"/">>)
        <5>1. ~EndsWith(c, <<"\\">>)
          <6>1. EndsWith(c, <<"\\">>) <=> c # <<>> /\ c[Len(c)] = "\\"
            BY DEF EndsWith, IsSuffix, IsPrefix, Reverse, Text
          <6>2. Len(c) \in 1 .. Len(c)
            BY <3>2
          <6>3. QED
            BY <3>2, <6>1, <6>2
        <5>2. head = Append(c, "/")
          BY <2>3, <4>2, <5>1
        <5>3. /\ head \in Text /\ Len(head) = Len(c) + 1 /\ head[Len(c) + 1] = "/"
              /\ \A x \in 1 .. Len(c) : head[x] = c[x]
          BY <5>2, AppendProperties DEF Text
        <5>4. Plain(head) /\ head # <<>> /\ head[1] = "/" /\ head[Len(head)] = "/"
          <6>1. DOMAIN head = 1 .. Len(c) + 1 /\ 1 \in 1 .. Len(c)
            BY <3>2, <5>3, TextFacts
          <6>2. \A x \in 1 .. Len(c) + 1 : head[x] \notin {NUL, "\\", ":"}
            <7>1. ASSUME NEW x \in 1 .. Len(c) + 1 PROVE x \in 1 .. Len(c) \/ x = Len(c) + 1
              BY <3>2
            <7>2. QED
              BY <3>2, <5>3, <7>1 DEF NUL
          <6>3. head # <<>>
            BY <3>2, <5>3
          <6>4. QED
            BY <5>3, <6>1, <6>2, <6>3 DEF Plain, Text
        <5>5. UpTo(head)[Len(c)] = UpTo(c)[Len(c)]
          BY <3>2, <5>3, SameStart
        <5>6. UpTo(head)[Len(c) + 1] = UpTo(head)[Len(c)]
          <6>1. PICK v, w : v = UpTo(head)[Len(c)] /\ w = UpTo(head)[Len(c) + 1]
            OBVIOUS
          <6>2. Len(c) \in 0 .. Len(head) - 1
            BY <3>2, <5>3
          <6>3. Round(head[Len(c) + 1], At(head, Len(c)), v, w)
            BY <5>3, <6>1, <6>2, Rounds
          <6>4. QED
            BY <5>3, <6>1, <6>3 DEF Round
        <5>7. QED
          BY <5>3, <5>4, <5>5, <5>6, UpToFacts
      <4>3. QED
        BY <4>1, <4>2
    <3>4. PICK r : r = head \o p
      OBVIOUS
    <3>5. head \in Text /\ Len(head) \in Nat /\ Len(head) > 0 /\ \A i \in 1 .. Len(head) : head[i] \notin {NUL, "\\", ":"}
      BY <3>3, PlainText
    <3>6. /\ r \in Text /\ Len(r) = Len(head) + Len(p)
          /\ \A x \in 1 .. Len(head) : r[x] = head[x]
          /\ \A x \in 1 .. Len(p) : r[Len(head) + x] = p[x]
      BY <1>0, <3>4, <3>5, Concat DEF Follows
    <3>7. Follows(r, head, p)
      BY <3>6 DEF Follows
    <3>8. J.ok = TRUE /\ J.path = r
      BY <2>6, <3>1, <3>4 DEF Result
    <3>9. Plain(r) /\ r # <<>> /\ r[1] = "/" /\ (EndsWith(r, <<"/">>) <=> EndsWith(p, <<"/">>))
      <4>1. \A x \in 1 .. Len(r) : r[x] \notin {NUL, "\\", ":"}
        <5>1. ASSUME NEW x \in 1 .. Len(r) PROVE r[x] \notin {NUL, "\\", ":"}
          <6>1. CASE x \in 1 .. Len(head)
            BY <3>5, <3>6, <6>1
          <6>2. CASE x \notin 1 .. Len(head)
            <7>1. PICK y \in 1 .. Len(p) : x = Len(head) + y
              <8>1. x - Len(head) \in 1 .. Len(p) /\ x = Len(head) + (x - Len(head))
                BY <1>0, <3>5, <3>6, <6>2
              <8>2. QED
                BY <8>1
            <7>2. QED
              BY <1>0, <3>6, <7>1
          <6>3. QED
            BY <6>1, <6>2
        <5>2. QED
          BY <5>1
      <4>2. Plain(r)
        BY <3>6, <4>1, TextFacts DEF Plain, Text
      <4>3. 1 \in 1 .. Len(head) /\ Len(p) \in 1 .. Len(p) /\ Len(r) > 0
        BY <1>0, <2>6, <3>5, <3>6, PlainText
      <4>4. r # <<>> /\ r[1] = "/" /\ r[Len(r)] = p[Len(p)]
        BY <3>3, <3>6, <4>3
      <4>5. QED
        BY <1>0, <2>6, <3>6, <4>2, <4>4, EndsSlash
    <3>10. Follows(Names(r), Names(c), Names(p))
      BY <1>0, <3>3, <3>5, <3>6, <3>7, NamesBehind
    <3>11. PICK C \in TextSeq, P \in TextSeq, R \in TextSeq :
             /\ C = Names(c) /\ P = Names(p) /\ R = Names(r)
             /\ Len(C) \in Nat /\ Len(P) \in Nat /\ Len(R) = Len(C) + Len(P)
      <4>1. Names(c) \in TextSeq /\ Names(r) \in TextSeq /\ Len(Names(c)) \in Nat
        BY <3>6, <3>9, RootFacts
      <4>2. Names(p) \in TextSeq /\ Len(Names(p)) \in Nat
        <5>1. Len(p) \in 0 .. Len(p)
          BY <1>0
        <5>2. Names(p) \in TextSeq
          BY <1>0, <5>1, UpToFacts
        <5>3. QED
          BY <5>2 DEF TextSeq
      <4>3. QED
        BY <3>10, <4>1, <4>2 DEF Follows
    <3>12. /\ Places(c) = Walk(Root, C) /\ Place(c) = Places(c)[Len(C)] /\ Root \in Spot
           /\ Places(r) = Walk(Root, R) /\ Place(r) = Places(r)[Len(R)]
      BY <3>6, <3>9, <3>11, RootFacts
    <3>13. PICK t : t = Place(c)
      OBVIOUS
    <3>14. /\ t \in Spot
           /\ \A n \in 0 .. Len(C) : Walk(Root, R)[n] = Walk(Root, C)[n]
           /\ \A n \in 0 .. Len(P) : Walk(Root, R)[Len(C) + n] = Walk(t, P)[n]
      <4>1. Follows(R, C, P) /\ t = Walk(Root, C)[Len(C)]
        BY <3>10, <3>11, <3>12, <3>13
      <4>2. QED
        BY <3>12, <4>1, WalkFollows
    <3>15. Meant(p) = Walk(t, P)[Len(P)]
      BY <3>1, <3>11, <3>13, Zenon DEF Meant
    <3>16. Place(r) = Meant(p)
      <4>1. Len(P) \in 0 .. Len(P)
        BY <3>11
      <4>2. QED
        BY <3>11, <3>12, <3>14, <3>15, <4>1
    <3>17. OnTheWay(p) = {Walk(t, P)[n].down : n \in 0 .. Len(P) - 1}
      BY <3>1, <3>11, <3>13, Zenon DEF OnTheWay
    <3>18. ASSUME NEW n \in 0 .. Len(R) - 1 PROVE Places(r)[n].down \in OldDirs \cup OnTheWay(p)
      <4>1. CASE n \in 0 .. Len(C)
        <5>1. Places(r)[n] = Places(c)[n] /\ n \in DOMAIN Places(c)
          BY <3>12, <3>14, <4>1, WalkFacts
        <5>2. Places(c)[n].down \in OldDirs
          BY <5>1, Zenon DEF OldDirs
        <5>3. QED
          BY <5>1, <5>2
      <4>2. CASE n \notin 0 .. Len(C)
        <5>1. PICK m \in 0 .. Len(P) - 1 : n = Len(C) + m
          <6>1. n - Len(C) \in 0 .. Len(P) - 1 /\ n = Len(C) + (n - Len(C))
            BY <3>11, <4>2
          <6>2. QED
            BY <6>1
        <5>2. m \in 0 .. Len(P)
          BY <3>11
        <5>3. Places(r)[n] = Walk(t, P)[m]
          BY <3>12, <3>14, <5>1, <5>2
        <5>4. QED
          BY <3>17, <5>3
      <4>3. QED
        BY <4>1, <4>2
    <3>19. Leads(r, p)
      BY <3>9, <3>11, <3>16, <3>18 DEF Leads
    <3>20. QED
      BY <2>2, <3>8, <3>19
  <2>7. QED
    BY <2>4, <2>5, <2>6
<1>4. QED
  BY <1>2, <1>3

-----------------------------------------------------------------------------
(* The inductive invariant.                                                *)

(* Of the places of a, those before the one numbered c are directories and *)
(* that one is there.                                                      *)
Reached(a, c, D, F) ==
  (\A n \in 0 .. c - 1 : Places(a)[n].down \in D) /\ Places(a)[c].down \in D \cup F

(* What holds for one handler, given the path p, at st with abs a, dir d   *)
(* and k i, when D are the directories and F the files: a is p made        *)
(* absolute and d its directory; in the loop, i is a separator and what is *)
(* before it has been made or was there, if only as a file of another      *)
(* handler; behind the loop that holds of the whole directory.             *)
Stage(p, st, a, d, i, D, F) ==
  /\ st \in {"mkdir", "open", "done"} =>
       AbsPath(p).ok /\ a = AbsPath(p).path /\ IsDirOf(d, a)
  /\ st = "mkdir" =>
       /\ i \in 1 .. Len(d) /\ d[i] = "/"
       /\ Reached(a, Len(Names(Part(d, i))), D, F)
  /\ st = "open" => Reached(a, Len(Names(d)), D, F)
  /\ st = "done" => Meant(p).down \in F

Steps == {"init", "mkdir", "open", "done", "failed"}

Typed ==
  /\ pc \in [Openers -> Steps] /\ abs \in [Openers -> Text] /\ dir \in [Openers -> Text]
  /\ k \in [Openers -> Nat]
  /\ \A o \in Openers : Plain(path[o])

Staged == \A o \in Openers : Stage(path[o], pc[o], abs[o], dir[o], k[o], dirs, files)

(* A file was opened by a handler that has ended. *)
Opened == \A f \in files : \E q \in Openers : pc[q] = "done" /\ f = Meant(path[q]).down

IInv ==
  /\ Typed /\ Staged /\ Opened
  /\ OldDirs \subseteq dirs
  /\ OnlyParentsMade /\ NoRaceInMkdir

-----------------------------------------------------------------------------
(* The reasons NoRaceInMkdir allows for handler o to fail, with the paths  *)
(* pa.                                                                     *)
Excused(pa, o) ==
  \/ ~NamesFile(pa[o])
  \/ ~AbsPath(pa[o]).ok \/ Len(AbsPath(pa[o]).path) >= MaxPath
  \/ \E q \in Openers \ {o} :
       \/ Meant(pa[q]).down \in Needs(pa[o])
       \/ Meant(pa[o]).down \in Needs(pa[q])

(* Handler o goes to s, and of the file system changes what it may.        *)
Moves(o, s, a, d, i) ==
  /\ pc[o] # "done"
  /\ path' = path /\ pc' = [pc EXCEPT ![o] = s] /\ abs' = [abs EXCEPT ![o] = a]
  /\ dir' = [dir EXCEPT ![o] = d] /\ k' = [k EXCEPT ![o] = i]
  /\ dirs \subseteq dirs' /\ files \subseteq files'
  /\ Stage(path[o], s, a, d, i, dirs', files')
  /\ s = "failed" => Excused(path, o)
  /\ \A x \in dirs' : x \in dirs \/ x \in OldDirs \/ x \in Needs(path[o])
  /\ \A f \in files' : f \in files \/ (s = "done" /\ f = Meant(path[o]).down)

LEMMA StageGrows ==
  ASSUME NEW p, NEW s, NEW a, NEW d, NEW i, NEW D, NEW F, NEW D2, NEW F2,
         Stage(p, s, a, d, i, D, F), D \subseteq D2, F \subseteq F2
  PROVE  Stage(p, s, a, d, i, D2, F2)
<1>1. \A c : Reached(a, c, D, F) => Reached(a, c, D2, F2)
  BY Zenon DEF Reached
<1>2. QED
  BY <1>1, Zenon DEF Stage

LEMMA Frame ==
  ASSUME IInv, NEW o \in Openers, NEW s \in Steps, NEW a \in Text, NEW d \in Text, NEW i \in Nat,
         Moves(o, s, a, d, i)
  PROVE  IInv'
<1> USE DEF Moves
<1>1. Typed'
  BY DEF IInv, Typed
<1>2. \A x \in Openers : x # o => pc'[x] = pc[x] /\ abs'[x] = abs[x] /\ dir'[x] = dir[x] /\ k'[x] = k[x]
  BY DEF IInv, Typed
<1>3. pc'[o] = s /\ abs'[o] = a /\ dir'[o] = d /\ k'[o] = i
  BY DEF IInv, Typed
<1>4. Staged'
  <2>1. ASSUME NEW x \in Openers PROVE Stage(path'[x], pc'[x], abs'[x], dir'[x], k'[x], dirs', files')
    <3>1. CASE x = o
      BY <1>3, <3>1
    <3>2. CASE x # o
      <4>1. Stage(path[x], pc[x], abs[x], dir[x], k[x], dirs, files)
        BY DEF IInv, Staged
      <4>2. Stage(path[x], pc[x], abs[x], dir[x], k[x], dirs', files')
        <5>1. dirs \subseteq dirs' /\ files \subseteq files'
          OBVIOUS
        <5>2. QED
          BY <4>1, <5>1, StageGrows
      <4>3. QED
        BY <1>2, <3>2, <4>2
    <3>3. QED
      BY <3>1, <3>2
  <2>2. QED
    BY <2>1 DEF Staged
<1>5. Opened'
  <2>1. ASSUME NEW f \in files' PROVE \E q \in Openers : pc'[q] = "done" /\ f = Meant(path'[q]).down
    <3>1. CASE f \in files
      <4>1. PICK q \in Openers : pc[q] = "done" /\ f = Meant(path[q]).down
        BY <3>1 DEF IInv, Opened
      <4>2. pc'[q] = "done" /\ f = Meant(path'[q]).down
        BY <1>2, <4>1
      <4>3. QED
        BY <4>2
    <3>2. CASE f \notin files
      <4>1. pc'[o] = "done" /\ f = Meant(path'[o]).down
        BY <1>3, <3>2
      <4>2. QED
        BY <4>1
    <3>3. QED
      BY <3>1, <3>2
  <2>2. QED
    BY <2>1 DEF Opened
<1>6. OldDirs \subseteq dirs'
  BY DEF IInv
<1>7. OnlyParentsMade'
  <2>1. ASSUME NEW x \in dirs' \ OldDirs PROVE \E q \in Openers : x \in Needs(path'[q])
    <3>1. CASE x \in dirs
      <4>1. PICK q \in Openers : x \in Needs(path[q])
        BY <2>1, <3>1 DEF IInv, OnlyParentsMade
      <4>2. QED
        BY <4>1
    <3>2. CASE x \notin dirs
      <4>1. x \in Needs(path'[o])
        BY <2>1, <3>2
      <4>2. QED
        BY <4>1
    <3>3. QED
      BY <3>1, <3>2
  <2>2. QED
    BY <2>1 DEF OnlyParentsMade
<1>8. NoRaceInMkdir'
  <2>1. NoRaceInMkdir => \A x \in Openers : pc[x] = "failed" => Excused(path, x)
    BY Zenon DEF NoRaceInMkdir, Excused
  <2>2. ASSUME NEW x \in Openers, pc'[x] = "failed" PROVE Excused(path', x)
    <3>1. CASE x = o
      BY <1>3, <2>2, <3>1
    <3>2. CASE x # o
      BY <1>2, <2>1, <2>2, <3>2 DEF IInv
    <3>3. QED
      BY <3>1, <3>2
  <2>3. QED
    BY <2>2, Zenon DEF NoRaceInMkdir, Excused
<1>9. QED
  BY <1>1, <1>4, <1>5, <1>6, <1>7, <1>8 DEF IInv

(* A part of the directory, as places of the path itself.                  *)
LEMMA PartOfDir ==
  ASSUME NEW a, NEW p, Leads(a, p), NEW d, IsDirOf(d, a), NEW j \in Nat, j >= 2, j <= Len(d) + 1,
         At(d, j) \in {"/", NUL}, NEW part, part = Part(d, j), NEW c, c = Len(Names(part))
  PROVE  /\ c \in Nat /\ c <= Len(Names(d)) /\ Len(Names(d)) \in Nat
         /\ \A n \in 0 .. c : Places(part)[n] = Places(a)[n]
         /\ Place(part) = Places(a)[c]
<1>0. /\ Plain(a) /\ a # <<>> /\ a[1] = "/" /\ Plain(d) /\ d # <<>> /\ d[1] = "/"
      /\ Begins(Names(d), Names(a))
  BY DEF Leads, IsDirOf
<1>1. a \in Text /\ d \in Text /\ Len(d) \in Nat /\ Len(d) > 0
  BY <1>0, PlainText
<1>2. /\ part \in Text /\ Len(part) = j - 1 /\ \A x \in 1 .. j - 1 : part[x] = d[x]
      /\ Begins(Names(part), Names(d))
  BY <1>0, <1>1, PartFacts
<1>3. part # <<>> /\ part[1] = "/"
  <2>1. 1 \in 1 .. j - 1
    OBVIOUS
  <2>2. QED
    BY <1>0, <1>2, <2>1
<1>4. PICK P \in TextSeq, D \in TextSeq, A \in TextSeq :
        P = Names(part) /\ D = Names(d) /\ A = Names(a) /\ Len(P) \in Nat /\ Len(D) \in Nat /\ Len(A) \in Nat
  BY <1>0, <1>1, <1>2, <1>3, RootFacts
<1>5. Begins(P, A) /\ Len(P) <= Len(D)
  BY <1>0, <1>2, <1>4 DEF Begins
<1>6. /\ \A n \in 0 .. Len(Names(part)) : Places(part)[n] = Places(a)[n]
      /\ Place(part) = Places(a)[Len(Names(part))]
  BY <1>0, <1>1, <1>2, <1>3, <1>4, <1>5, SameWay
<1>7. QED
  BY <1>4, <1>5, <1>6

(* The system's answers about such a part.                                 *)
LEMMA Answers ==
  ASSUME NEW part, NEW a, NEW c, c \in Nat, c = Len(Names(part)),
         \A n \in 0 .. c : Places(part)[n] = Places(a)[n], Place(part) = Places(a)[c]
  PROVE  /\ WayTo(part) <=> \A n \in 0 .. c - 1 : Places(a)[n].down \in dirs
         /\ IsThere(part) <=> Reached(a, c, dirs, files)
<1>1. \A n \in 0 .. c - 1 : n \in 0 .. c
  OBVIOUS
<1>2. WayTo(part) <=> \A n \in 0 .. c - 1 : Places(a)[n].down \in dirs
  BY <1>1, Zenon DEF WayTo
<1>3. IsThere(part) <=> Reached(a, c, dirs, files)
  BY <1>2, Zenon DEF IsThere, Reached
<1>4. QED
  BY <1>2, <1>3

(* A place down to the directory is there from the start, or needed.       *)
LEMMA DirNeeded ==
  ASSUME NEW a, NEW p, Leads(a, p), NEW d, IsDirOf(d, a), NEW c \in Nat, c <= Len(Names(d)),
         Len(Names(d)) \in Nat
  PROVE  Places(a)[c].down \in OldDirs \cup Needs(p)
<1>1. a \in Text /\ Place(a) = Places(a)[Len(Names(a))] /\ Len(Names(a)) \in Nat
  BY PlainText, RootFacts DEF Leads
<1>2. CASE c < Len(Names(a))
  <2>1. c \in 0 .. Len(Names(a)) - 1
    BY <1>1, <1>2
  <2>2. QED
    BY <2>1 DEF Leads, Needs
<1>3. CASE ~(c < Len(Names(a)))
  <2>1. EndsWith(a, <<"/">>) /\ c = Len(Names(a))
    BY <1>1, <1>3 DEF IsDirOf
  <2>2. EndsWith(p, <<"/">>) /\ Places(a)[c].down = Meant(p).down
    BY <1>1, <2>1 DEF Leads
  <2>3. QED
    BY <2>2 DEF Needs
<1>4. QED
  BY <1>2, <1>3

(* Where a handler finds a file on its way, another one has opened it.     *)
LEMMA Blocked ==
  ASSUME IInv, NEW o \in Openers, pc[o] # "done", NEW a, Leads(a, path[o]), NEW c \in Nat,
         c < Len(Names(a)), Len(Names(a)) \in Nat, Places(a)[c].down \in files, Places(a)[c].down \notin dirs
  PROVE  Excused(path, o)
<1>1. PICK q \in Openers : pc[q] = "done" /\ Places(a)[c].down = Meant(path[q]).down
  BY DEF IInv, Opened
<1>2. Places(a)[c].down \in OnTheWay(path[o])
  <2>1. c \in 0 .. Len(Names(a)) - 1
    OBVIOUS
  <2>2. QED
    BY <2>1 DEF Leads, IInv
<1>3. q \in Openers \ {o} /\ Meant(path[q]).down \in Needs(path[o])
  BY <1>1, <1>2 DEF Needs
<1>4. QED
  BY <1>3 DEF Excused

LEMMA FindDirInv ==
  ASSUME IInv, NEW o \in Openers, FindDir(o)
  PROVE  IInv'
<1>0. /\ pc[o] = "init" /\ path' = path /\ dirs' = dirs /\ files' = files /\ Plain(path[o])
      /\ abs[o] \in Text /\ dir[o] \in Text /\ k[o] \in Nat
      /\ abs = [abs EXCEPT ![o] = abs[o]] /\ dir = [dir EXCEPT ![o] = dir[o]] /\ k = [k EXCEPT ![o] = k[o]]
  BY DEF FindDir, IInv, Typed
<1>1. PICK A : A = AbsPath(path[o])
  OBVIOUS
<1>2. PICK E : E = Dirname(A.path, MaxPath)
  OBVIOUS
<1>3. A.ok \in BOOLEAN /\ (A.ok => Leads(A.path, path[o]))
  BY <1>0, <1>1, AbsFacts
<1>4. A.ok => /\ E.ok \in BOOLEAN /\ (E.ok => IsDirOf(E.path, A.path))
              /\ (~E.ok => Len(A.path) >= MaxPath)
  <2>1. MaxPath \in Nat \ {0}
    BY OpenAssumption
  <2>2. QED
    BY <1>2, <1>3, <2>1, DirFacts DEF Leads
<1>5. CASE ~A.ok \/ ~E.ok
  <2>1. pc' = [pc EXCEPT ![o] = "failed"] /\ abs' = abs /\ dir' = dir /\ k' = k
    BY <1>1, <1>2, <1>5 DEF FindDir
  <2>2. Excused(path, o)
    BY <1>1, <1>3, <1>4, <1>5 DEF Excused
  <2>3. Stage(path[o], "failed", abs[o], dir[o], k[o], dirs', files')
    BY DEF Stage
  <2>4. Moves(o, "failed", abs[o], dir[o], k[o])
    BY <1>0, <2>1, <2>2, <2>3 DEF Moves
  <2>5. QED
    BY <1>0, <2>4, Frame DEF Steps
<1>6. CASE A.ok /\ E.ok
  <2>1. PICK s \in Steps : s = IF Exists(E.path) THEN "open" ELSE "mkdir"
    BY DEF Steps
  <2>2. PICK a, d : a = A.path /\ d = E.path
    OBVIOUS
  <2>3. /\ pc' = [pc EXCEPT ![o] = s] /\ abs' = [abs EXCEPT ![o] = a] /\ dir' = [dir EXCEPT ![o] = d]
        /\ k' = [k EXCEPT ![o] = 1]
    BY <1>1, <1>2, <1>6, <2>1, <2>2 DEF FindDir
  <2>4. Leads(a, path[o]) /\ IsDirOf(d, a) /\ a \in Text /\ d \in Text /\ Len(d) \in Nat /\ Len(d) > 0 /\ d[1] = "/"
    <3>1. Leads(a, path[o]) /\ IsDirOf(d, a)
      BY <1>3, <1>4, <1>6, <2>2
    <3>2. Plain(a) /\ Plain(d) /\ d # <<>> /\ d[1] = "/"
      BY <3>1 DEF Leads, IsDirOf
    <3>3. QED
      BY <3>1, <3>2, PlainText
  <2>5. AbsPath(path[o]).ok /\ a = AbsPath(path[o]).path
    BY <1>1, <1>6, <2>2
  <2>6. Stage(path[o], s, a, d, 1, dirs', files')
    <3>1. CASE Exists(d)
      <4>1. PICK j \in Nat : j = Len(d) + 1
        BY <2>4
      <4>2. j >= 2 /\ j <= Len(d) + 1 /\ At(d, j) \in {"/", NUL}
        BY <2>4, <4>1, TextFacts
      <4>3. d = Part(d, j)
        <5>1. j - 1 = Len(d)
          BY <2>4, <4>1
        <5>2. SubSeq(d, 1, Len(d)) = d
          BY <2>4, SubSeqFull DEF Text
        <5>3. QED
          BY <5>1, <5>2 DEF Part
      <4>4. PICK c : c = Len(Names(d))
        OBVIOUS
      <4>5. /\ c \in Nat
            /\ \A n \in 0 .. c : Places(d)[n] = Places(a)[n]
            /\ Place(d) = Places(a)[c]
        BY <2>4, <4>2, <4>3, <4>4, PartOfDir
      <4>6. IsThere(d)
        BY <3>1, Zenon DEF Exists
      <4>7. Reached(a, c, dirs, files)
        BY <4>4, <4>5, <4>6, Answers
      <4>8. s = "open"
        BY <2>1, <2>2, <3>1
      <4>9. QED
        BY <1>0, <2>4, <2>5, <4>4, <4>7, <4>8 DEF Stage
    <3>2. CASE ~Exists(d)
      <4>1. s = "mkdir"
        BY <2>1, <2>2, <3>2
      <4>2. Len(Names(Part(d, 1))) = 0
        <5>1. 1 \in Nat /\ 1 >= 1 /\ 1 <= Len(d) + 1 /\ 1 - 1 = 0
          BY <2>4
        <5>2. Names(Part(d, 1)) = UpTo(d)[1 - 1]
          BY <2>4, <5>1, PartFacts
        <5>3. UpTo(d)[0] = <<>>
          BY <2>4, UpToFacts
        <5>4. QED
          BY <5>1, <5>2, <5>3
      <4>3. Reached(a, 0, dirs, files)
        <5>1. Places(a)[0].down = <<>> /\ Places(Cwd)[0].down = <<>>
          <6>1. a # <<>> /\ a[1] = "/"
            BY <2>4 DEF Leads
          <6>2. Cwd \in Text /\ Cwd # <<>> /\ Cwd[1] = "/"
            BY CwdFacts, PlainText, EmptySeq
          <6>3. QED
            BY <2>4, <6>1, <6>2, RootFacts
        <5>2. <<>> \in OldDirs
          <6>1. Cwd \in Text /\ Cwd # <<>> /\ Cwd[1] = "/"
            BY CwdFacts, PlainText, EmptySeq
          <6>2. Places(Cwd) = Walk(Root, Names(Cwd)) /\ Root \in Spot /\ Names(Cwd) \in TextSeq
            BY <6>1, RootFacts
          <6>3. DOMAIN Places(Cwd) = 0 .. Len(Names(Cwd)) /\ Len(Names(Cwd)) \in Nat
            BY <6>2, WalkFacts
          <6>4. 0 \in DOMAIN Places(Cwd)
            BY <6>3
          <6>5. QED
            BY <5>1, <6>4, Zenon DEF OldDirs
        <5>3. \A n \in 0 .. 0 - 1 : FALSE
          OBVIOUS
        <5>4. QED
          BY <5>1, <5>2, <5>3 DEF Reached, IInv
      <4>4. 1 \in 1 .. Len(d)
        BY <2>4
      <4>5. QED
        BY <1>0, <2>4, <2>5, <4>1, <4>2, <4>3, <4>4 DEF Stage
    <3>3. QED
      BY <3>1, <3>2
  <2>7. Moves(o, s, a, d, 1)
    <3>1. s # "failed"
      BY <2>1
    <3>2. QED
      BY <1>0, <2>3, <2>6, <3>1 DEF Moves
  <2>8. QED
    BY <2>4, <2>7, Frame
<1>7. QED
  BY <1>3, <1>4, <1>5, <1>6

LEMMA MkdirInv ==
  ASSUME IInv, NEW o \in Openers, Mkdir(o)
  PROVE  IInv'
<1>0. /\ pc[o] = "mkdir" /\ path' = path /\ abs' = abs /\ dir' = dir /\ files' = files
      /\ Plain(path[o]) /\ abs[o] \in Text /\ dir[o] \in Text /\ k[o] \in Nat
      /\ abs = [abs EXCEPT ![o] = abs[o]] /\ dir = [dir EXCEPT ![o] = dir[o]] /\ k = [k EXCEPT ![o] = k[o]]
  BY DEF Mkdir, IInv, Typed
<1>1. PICK a \in Text, d \in Text, i \in Nat : a = abs[o] /\ d = dir[o] /\ i = k[o]
  BY <1>0
<1>2. /\ AbsPath(path[o]).ok /\ a = AbsPath(path[o]).path /\ IsDirOf(d, a)
      /\ i \in 1 .. Len(d) /\ d[i] = "/" /\ Reached(a, Len(Names(Part(d, i))), dirs, files)
  BY <1>0, <1>1 DEF IInv, Staged, Stage
<1>3. Leads(a, path[o])
  BY <1>0, <1>2, AbsFacts
<1>4. Plain(d) /\ Len(d) \in Nat /\ \A x \in 1 .. Len(d) : d[x] \notin {NUL, "\\", ":"}
  BY <1>2, PlainText DEF IsDirOf
<1>5. PICK j \in Nat : /\ j = NextCut(d, i) /\ j \in i + 1 .. Len(d) + 1 /\ At(d, j) \in {"/", NUL}
                       /\ \A x \in i + 1 .. j - 1 : d[x] # "/"
  BY <1>2, <1>4, NextCutFacts
<1>6. j >= 2 /\ j >= 1 /\ j <= Len(d) + 1 /\ i >= 1 /\ i <= Len(d) + 1
  BY <1>2, <1>4, <1>5
<1>7. PICK part, c : part = Part(d, j) /\ c = Len(Names(part))
  OBVIOUS
<1>8. /\ c \in Nat /\ c <= Len(Names(d)) /\ Len(Names(d)) \in Nat
      /\ \A n \in 0 .. c : Places(part)[n] = Places(a)[n]
      /\ Place(part) = Places(a)[c]
  BY <1>2, <1>3, <1>5, <1>6, <1>7, PartOfDir
<1>9. /\ WayTo(part) <=> \A n \in 0 .. c - 1 : Places(a)[n].down \in dirs
      /\ IsThere(part) <=> Reached(a, c, dirs, files)
  BY <1>7, <1>8, Answers
<1>10. PICK b \in Nat : b = Len(Names(Part(d, i))) /\ c <= b + 1
  <2>1. Between(d, i, j)
    BY <1>2, <1>5, <1>6, <1>4 DEF Between
  <2>2. /\ Len(UpTo(d)[j - 1]) = Len(UpTo(d)[i - 1]) + (IF j = i + 1 THEN 0 ELSE 1)
        /\ Len(UpTo(d)[i - 1]) \in Nat
    BY <1>4, <2>1, OneName
  <2>3. Names(part) = UpTo(d)[j - 1] /\ Names(Part(d, i)) = UpTo(d)[i - 1]
    BY <1>6, <1>7, PartFacts
  <2>4. c = Len(UpTo(d)[j - 1]) /\ Len(Names(Part(d, i))) = Len(UpTo(d)[i - 1])
    BY <1>7, <2>3
  <2>5. c <= Len(Names(Part(d, i))) + 1 /\ Len(Names(Part(d, i))) \in Nat
    BY <2>2, <2>4
  <2>6. QED
    BY <2>5
<1>11. (MadeBefore(part) \/ (WayTo(part) /\ ~IsThere(part))) =>
          /\ dirs' = IF IsThere(part) THEN dirs ELSE dirs \cup {Place(part).down}
          /\ k' = [k EXCEPT ![o] = j]
          /\ pc' = [pc EXCEPT ![o] = IF j > Len(d) THEN "open" ELSE "mkdir"]
  BY <1>1, <1>5, <1>7, Zenon DEF Mkdir, Part
<1>12. ~(MadeBefore(part) \/ (WayTo(part) /\ ~IsThere(part))) =>
          pc' = [pc EXCEPT ![o] = "failed"] /\ dirs' = dirs /\ k' = k
  BY <1>1, <1>5, <1>7, Zenon DEF Mkdir, Part
<1>13. CASE IsThere(part) \/ WayTo(part)
  <2>1. PICK s \in Steps : s = IF j > Len(d) THEN "open" ELSE "mkdir"
    BY DEF Steps
  <2>2. /\ dirs' = IF IsThere(part) THEN dirs ELSE dirs \cup {Place(part).down}
        /\ k' = [k EXCEPT ![o] = j]
        /\ pc' = [pc EXCEPT ![o] = s]
    BY <1>11, <1>13, <2>1 DEF MadeBefore
  <2>3. Reached(a, c, dirs', files')
    <3>1. CASE IsThere(part)
      BY <1>0, <1>9, <2>2, <3>1
    <3>2. CASE ~IsThere(part)
      <4>1. dirs' = dirs \cup {Places(a)[c].down} /\ \A n \in 0 .. c - 1 : Places(a)[n].down \in dirs
        BY <1>8, <1>9, <1>13, <2>2, <3>2
      <4>2. QED
        BY <4>1 DEF Reached
    <3>3. QED
      BY <3>1, <3>2
  <2>4. \A x \in dirs' : x \in dirs \/ x \in OldDirs \/ x \in Needs(path[o])
    <3>1. Places(a)[c].down \in OldDirs \cup Needs(path[o])
      BY <1>2, <1>3, <1>8, DirNeeded
    <3>2. QED
      BY <1>8, <2>2, <3>1
  <2>5. Stage(path[o], s, a, d, j, dirs', files')
    <3>1. CASE j > Len(d)
      <4>1. j - 1 = Len(d)
        BY <1>4, <1>6, <3>1
      <4>2. SubSeq(d, 1, Len(d)) = d
        BY SubSeqFull DEF Text
      <4>3. part = d
        BY <1>7, <4>1, <4>2 DEF Part
      <4>4. s = "open" /\ Reached(a, Len(Names(d)), dirs', files')
        BY <1>7, <2>1, <2>3, <3>1, <4>3
      <4>5. QED
        BY <1>2, <4>4 DEF Stage
    <3>2. CASE ~(j > Len(d))
      <4>1. j \in 1 .. Len(d)
        BY <1>4, <1>6, <3>2
      <4>2. d[j] = "/"
        <5>1. At(d, j) = d[j]
          BY <4>1, TextFacts
        <5>2. QED
          BY <1>4, <1>5, <4>1, <5>1
      <4>3. s = "mkdir" /\ Reached(a, Len(Names(Part(d, j))), dirs', files')
        BY <1>7, <2>1, <2>3, <3>2
      <4>4. QED
        BY <1>2, <4>1, <4>2, <4>3 DEF Stage
    <3>3. QED
      BY <3>1, <3>2
  <2>6. Moves(o, s, a, d, j)
    <3>1. s # "failed" /\ dirs \subseteq dirs'
      BY <2>1, <2>2
    <3>2. QED
      BY <1>0, <1>1, <2>2, <2>4, <2>5, <3>1 DEF Moves
  <2>7. QED
    BY <2>6, Frame
<1>14. CASE ~(IsThere(part) \/ WayTo(part))
  <2>1. pc' = [pc EXCEPT ![o] = "failed"] /\ dirs' = dirs /\ k' = k
    BY <1>12, <1>14 DEF MadeBefore
  <2>2. PICK n \in 0 .. c - 1 : Places(a)[n].down \notin dirs
    BY <1>9, <1>14
  <2>3. Reached(a, b, dirs, files)
    BY <1>2, <1>10
  <2>4. n = b /\ Places(a)[b].down \in files /\ Places(a)[b].down \notin dirs /\ b < c
    <3>1. n \notin 0 .. b - 1
      BY <2>2, <2>3 DEF Reached
    <3>2. n = b /\ b < c
      BY <1>8, <1>10, <3>1
    <3>3. QED
      BY <2>2, <2>3, <3>2 DEF Reached
  <2>5. Len(Names(a)) \in Nat /\ b < Len(Names(a))
    <3>1. Len(Names(d)) <= Len(Names(a)) /\ Len(Names(a)) \in Nat
      BY <1>2, <1>8 DEF IsDirOf, Begins
    <3>2. QED
      BY <1>8, <2>4, <3>1
  <2>6. Excused(path, o)
    BY <1>0, <1>3, <2>4, <2>5, Blocked
  <2>7. Stage(path[o], "failed", a, d, i, dirs', files')
    BY DEF Stage
  <2>8. Moves(o, "failed", a, d, i)
    BY <1>0, <1>1, <2>1, <2>6, <2>7 DEF Moves
  <2>9. "failed" \in Steps
    BY DEF Steps
  <2>10. QED
    BY <2>8, <2>9, Frame
<1>15. QED
  BY <1>13, <1>14

LEMMA FopenInv ==
  ASSUME IInv, NEW o \in Openers, Fopen(o)
  PROVE  IInv'
<1>0. /\ pc[o] = "open" /\ path' = path /\ abs' = abs /\ dir' = dir /\ dirs' = dirs /\ k' = k
      /\ Plain(path[o]) /\ abs[o] \in Text /\ dir[o] \in Text /\ k[o] \in Nat
      /\ abs = [abs EXCEPT ![o] = abs[o]] /\ dir = [dir EXCEPT ![o] = dir[o]] /\ k = [k EXCEPT ![o] = k[o]]
  BY DEF Fopen, IInv, Typed
<1>1. PICK a \in Text, d \in Text, i \in Nat : a = abs[o] /\ d = dir[o] /\ i = k[o]
  BY <1>0
<1>2. /\ AbsPath(path[o]).ok /\ a = AbsPath(path[o]).path /\ IsDirOf(d, a)
      /\ Reached(a, Len(Names(d)), dirs, files)
  BY <1>0, <1>1 DEF IInv, Staged, Stage
<1>3. Leads(a, path[o])
  BY <1>0, <1>2, AbsFacts
<1>4. Place(a).down = Meant(path[o]).down /\ (EndsWith(a, <<"/">>) <=> EndsWith(path[o], <<"/">>))
  BY <1>3 DEF Leads
<1>5. CASE WayTo(a) /\ Place(a).down \notin dirs /\ ~EndsWith(a, <<"/">>)
  <2>1. files' = files \cup {Place(a).down} /\ pc' = [pc EXCEPT ![o] = "done"]
    BY <1>1, <1>5 DEF Fopen
  <2>2. Meant(path[o]).down \in files'
    BY <1>4, <2>1
  <2>3. Stage(path[o], "done", a, d, i, dirs', files')
    BY <1>2, <2>2 DEF Stage
  <2>4. Moves(o, "done", a, d, i)
    BY <1>0, <1>1, <1>4, <2>1, <2>3 DEF Moves
  <2>5. "done" \in Steps
    BY DEF Steps
  <2>6. QED
    BY <2>4, <2>5, Frame
<1>6. CASE ~(WayTo(a) /\ Place(a).down \notin dirs /\ ~EndsWith(a, <<"/">>))
  <2>1. files' = files /\ pc' = [pc EXCEPT ![o] = "failed"]
    BY <1>1, <1>6 DEF Fopen
  <2>2. Excused(path, o)
    <3>1. CASE EndsWith(a, <<"/">>)
      <4>1. path[o] \in Text /\ path[o][Len(path[o])] = "/"
        BY <1>0, <1>4, <3>1, PlainText, EndsSlash
      <4>2. QED
        BY <4>1 DEF Excused, NamesFile
    <3>2. CASE ~EndsWith(a, <<"/">>) /\ Place(a).down \in dirs
      <4>1. CASE Place(a).down \in OldDirs
        BY <1>4, <4>1 DEF Excused, NamesFile
      <4>2. CASE Place(a).down \notin OldDirs
        <5>1. PICK q \in Openers : Meant(path[o]).down \in Needs(path[q])
          BY <1>4, <3>2, <4>2 DEF IInv, OnlyParentsMade
        <5>2. CASE q = o
          <6>1. Meant(path[o]).down \in OnTheWay(path[o])
            BY <1>4, <3>2, <5>1, <5>2 DEF Needs
          <6>2. QED
            BY <6>1 DEF Excused, NamesFile
        <5>3. CASE q # o
          BY <5>1, <5>3 DEF Excused
        <5>4. QED
          BY <5>2, <5>3
      <4>3. QED
        BY <4>1, <4>2
    <3>3. CASE ~EndsWith(a, <<"/">>) /\ ~WayTo(a)
      <4>1. PICK b : b = Len(Names(d))
        OBVIOUS
      <4>2. b \in Nat /\ Len(Names(a)) \in Nat /\ Len(Names(a)) = b + 1
        <5>1. a # <<>> /\ a[1] = "/" /\ d # <<>> /\ d[1] = "/"
          BY <1>2, <1>3 DEF Leads, IsDirOf
        <5>2. Len(Names(d)) \in Nat /\ Len(Names(a)) \in Nat
          BY <5>1, RootFacts
        <5>3. QED
          BY <1>2, <3>3, <4>1, <5>2 DEF IsDirOf
      <4>3. PICK n \in 0 .. Len(Names(a)) - 1 : Places(a)[n].down \notin dirs
        BY <3>3 DEF WayTo
      <4>4. n \notin 0 .. b - 1
        BY <1>2, <4>1, <4>3 DEF Reached
      <4>5. n = b
        BY <4>2, <4>4
      <4>6. Places(a)[b].down \in files /\ Places(a)[b].down \notin dirs /\ b < Len(Names(a))
        BY <1>2, <4>1, <4>2, <4>3, <4>5 DEF Reached
      <4>7. QED
        BY <1>0, <1>3, <4>2, <4>6, Blocked
    <3>4. QED
      BY <1>6, <3>1, <3>2, <3>3
  <2>3. Stage(path[o], "failed", a, d, i, dirs', files')
    BY DEF Stage
  <2>4. Moves(o, "failed", a, d, i)
    BY <1>0, <1>1, <2>1, <2>2, <2>3 DEF Moves
  <2>5. "failed" \in Steps
    BY DEF Steps
  <2>6. QED
    BY <2>4, <2>5, Frame
<1>7. QED
  BY <1>5, <1>6

-----------------------------------------------------------------------------

(* The invariant holds: at the start no handler has begun, and each step   *)
(* is one of its handler, which the others are ready for.                  *)
THEOREM Invariance == Spec => []IInv
<1>1. Init => IInv
  <2> SUFFICES ASSUME Init PROVE IInv
    OBVIOUS
  <2>1. \A o \in Openers : pc[o] = "init" /\ Plain(path[o])
    BY OpenAssumption, Plainly DEF Init
  <2>2. Typed
    <3>1. <<>> \in Text /\ 0 \in Nat /\ "init" \in Steps
      BY DEF Text, Steps
    <3>2. QED
      BY <2>1, <3>1 DEF Typed, Init
  <2>3. Staged
    BY <2>1 DEF Staged, Stage
  <2>4. Opened /\ OldDirs \subseteq dirs /\ OnlyParentsMade
    BY DEF Opened, OnlyParentsMade, Init
  <2>5. NoRaceInMkdir
    BY <2>1 DEF NoRaceInMkdir
  <2>6. QED
    BY <2>2, <2>3, <2>4, <2>5 DEF IInv
<1>2. IInv /\ [Next]_vars => IInv'
  <2> SUFFICES ASSUME IInv, [Next]_vars PROVE IInv'
    OBVIOUS
  <2>1. CASE UNCHANGED vars
    BY <2>1 DEF vars, IInv, Typed, Staged, Opened, OnlyParentsMade, NoRaceInMkdir
  <2>2. ASSUME NEW o \in Openers, FindDir(o) \/ Mkdir(o) \/ Fopen(o) PROVE IInv'
    BY <2>2, FindDirInv, MkdirInv, FopenInv
  <2>3. QED
    BY <2>1, <2>2 DEF Next
<1>3. QED
  BY <1>1, <1>2, PTL DEF Spec

(* What a handler opens is the file its path means, below the current      *)
(* directory as abspath joins it, or from the root.                        *)
THEOREM MeantFileOpened == Spec => []OpensWhatIsMeant
<1>1. IInv => OpensWhatIsMeant
  BY DEF IInv, Staged, Stage, OpensWhatIsMeant
<1>2. QED
  BY <1>1, Invariance, PTL

(* The mkdirs of one handler make none of the others fail: a directory     *)
(* that another one has made meanwhile is as good as its own.              *)
THEOREM NoRaces == Spec => []NoRaceInMkdir
<1>1. IInv => NoRaceInMkdir
  BY DEF IInv
<1>2. QED
  BY <1>1, Invariance, PTL

(* The cuts of mkdir lead nowhere off the way to the file.                 *)
THEOREM ParentsOnly == Spec => []OnlyParentsMade
<1>1. IInv => OnlyParentsMade
  BY DEF IInv
<1>2. QED
  BY <1>1, Invariance, PTL

-----------------------------------------------------------------------------
(* The laws of haclog_path.c: places of paths that grow by a name, the     *)
(* loop of normpath, and the functions that use it.                        *)

(* The first m characters of a text. *)
LEMMA Prefix ==
  ASSUME NEW p \in Text, NEW m \in Nat, m <= Len(p)
  PROVE  /\ SubSeq(p, 1, m) \in Text /\ Len(SubSeq(p, 1, m)) = m
         /\ \A i \in 1 .. m : SubSeq(p, 1, m)[i] = p[i]
<1>1. PICK j \in Nat : j = m + 1 /\ j - 1 = m /\ j >= 1 /\ j <= Len(p) + 1
  BY TextFacts
<1>2. /\ Part(p, j) \in Text /\ Len(Part(p, j)) = j - 1
      /\ \A x \in 1 .. j - 1 : Part(p, j)[x] = p[x]
  BY <1>1, PartFacts
<1>3. Part(p, j) = SubSeq(p, 1, m)
  BY <1>1 DEF Part
<1>4. QED
  BY <1>1, <1>2, <1>3

(* Where a text leads, with the types. *)
LEMMA PlaceFacts ==
  ASSUME NEW p \in Text
  PROVE  /\ Names(p) \in TextSeq /\ Len(Names(p)) \in Nat /\ Start(p) \in Spot
         /\ Place(p) = Walk(Start(p), Names(p))[Len(Names(p))] /\ Place(p) \in Spot
<1>1. Len(p) \in 0 .. Len(p)
  BY TextFacts
<1>2. Names(p) \in TextSeq
  BY <1>1, UpToFacts
<1>3. Len(Names(p)) \in Nat
  BY <1>2 DEF TextSeq
<1>4. Start(p) \in Spot
  BY DEF Start, Spot, TextSeq
<1>5. Place(p) = Walk(Start(p), Names(p))[Len(Names(p))]
  BY Zenon DEF Place
<1>6. Place(p) \in Spot
  <2>1. Len(Names(p)) \in 0 .. Len(Names(p))
    BY <1>3
  <2>2. QED
    BY <1>2, <1>4, <1>5, <2>1, WalkFacts
<1>7. QED
  BY <1>2, <1>3, <1>4, <1>5, <1>6

(* A separator at the end adds no name.                                    *)
LEMMA NamesSlash ==
  ASSUME NEW x \in Text
  PROVE  Append(x, "/") \in Text /\ Names(Append(x, "/")) = Names(x)
<1>1. PICK y : y = Append(x, "/")
  OBVIOUS
<1>2. Len(x) \in Nat
  BY TextFacts
<1>3. y \in Text /\ Len(y) = Len(x) + 1 /\ y[Len(x) + 1] = "/" /\ \A i \in 1 .. Len(x) : y[i] = x[i]
  <2>1. "/" \in Chars
    BY DEF Chars
  <2>2. QED
    BY <1>1, <2>1, AppendProperties DEF Text
<1>4. UpTo(y)[Len(x)] = UpTo(x)[Len(x)]
  BY <1>2, <1>3, SameStart
<1>5. PICK v, w : v = UpTo(y)[Len(x)] /\ w = UpTo(y)[Len(x) + 1]
  OBVIOUS
<1>6. Len(x) \in 0 .. Len(y) - 1
  BY <1>2, <1>3
<1>7. Round(y[Len(x) + 1], At(y, Len(x)), v, w)
  BY <1>3, <1>5, <1>6, Rounds
<1>8. w = v
  BY <1>3, <1>7 DEF Round
<1>9. QED
  BY <1>1, <1>3, <1>4, <1>5, <1>8, UpToFacts

(* A text without a separator. *)
Slashless(r) == \A i \in 1 .. Len(r) : r[i] # "/"

(* A text without a separator is its only name. *)
LEMMA OnlyName ==
  ASSUME NEW r, Plain(r), r # <<>>, Slashless(r)
  PROVE  r \in Text /\ Names(r) = <<r>>
<1>1. r \in Text /\ Len(r) \in Nat /\ Len(r) > 0 /\ \A i \in 1 .. Len(r) : r[i] \notin {NUL, "\\", ":"}
  BY PlainText
<1> DEFINE G == {i \in Nat : i + 1 <= Len(r) => UpTo(r)[i + 1] = <<SubSeq(r, 1, i + 1)>>}
<1>2. \A i \in Nat : i + 1 <= Len(r) => i + 1 \in 1 .. Len(r) /\ i \in 0 .. Len(r) - 1 /\ r[i + 1] # "/"
  BY <1>1 DEF Slashless
<1>3. 0 \in G
  <2>1. 0 + 1 = 1 /\ 0 \in 0 .. Len(r) - 1 /\ 1 \in 1 .. Len(r) /\ r[1] # "/"
    BY <1>1, <1>2
  <2>2. PICK v, w : v = UpTo(r)[0] /\ w = UpTo(r)[0 + 1] /\ v = <<>>
    BY <1>1, UpToFacts
  <2>3. w \in TextSeq /\ Round(r[0 + 1], At(r, 0), v, w)
    BY <1>1, <2>1, <2>2, Rounds
  <2>4. At(r, 0) = NUL
    BY <1>1, TextFacts
  <2>5. Len(w) = 1 /\ w[1] = <<r[1]>>
    BY <2>1, <2>2, <2>3, <2>4 DEF Round
  <2>6. w = <<w[1]>>
    BY <2>3, <2>5 DEF TextSeq
  <2>7. SubSeq(r, 1, 1) = <<r[1]>>
    <3>1. PICK a : a = SubSeq(r, 1, 1)
      OBVIOUS
    <3>2. a \in Text /\ Len(a) = 1 /\ \A x \in 1 .. 1 : a[x] = r[x]
      BY <1>1, <3>1, Prefix
    <3>3. a[1] = r[1]
      BY <3>2
    <3>4. a = <<a[1]>>
      BY <3>2 DEF Text
    <3>5. QED
      BY <3>1, <3>3, <3>4
  <2>8. QED
    BY <2>1, <2>2, <2>5, <2>6, <2>7
<1>4. ASSUME NEW i \in Nat, i \in G PROVE i + 1 \in G
  <2>1. ASSUME i + 1 + 1 <= Len(r) PROVE UpTo(r)[i + 1 + 1] = <<SubSeq(r, 1, i + 1 + 1)>>
    <3>1. /\ i + 1 \in 1 .. Len(r) /\ i + 1 \in 0 .. Len(r) - 1 /\ r[i + 1 + 1] # "/" /\ r[i + 1] # "/"
          /\ i + 1 <= Len(r) /\ i + 1 + 1 \in 1 .. Len(r) /\ r[i + 1] # NUL /\ At(r, i + 1) = r[i + 1]
      BY <1>1, <1>2, <2>1, TextFacts
    <3>2. PICK s, v, w : s = SubSeq(r, 1, i + 1) /\ v = UpTo(r)[i + 1] /\ w = UpTo(r)[i + 1 + 1] /\ v = <<s>>
      BY <1>4, <3>1
    <3>3. w \in TextSeq /\ Round(r[i + 1 + 1], At(r, i + 1), v, w)
      BY <1>1, <3>1, <3>2, Rounds
    <3>4. Len(w) = 1 /\ w[1] = Append(s, r[i + 1 + 1])
      BY <3>1, <3>2, <3>3 DEF Round
    <3>5. w = <<w[1]>>
      BY <3>3, <3>4 DEF TextSeq
    <3>6. Append(s, r[i + 1 + 1]) = SubSeq(r, 1, i + 1 + 1)
      BY <1>1, <3>1, <3>2 DEF Text
    <3>7. QED
      BY <3>2, <3>4, <3>5, <3>6
  <2>2. QED
    BY <2>1
<1>5. \A i \in Nat : i \in G
  <2> HIDE DEF G
  <2>1. QED
    BY <1>3, <1>4, NatInSet
<1>6. Len(r) - 1 \in Nat /\ (Len(r) - 1) + 1 = Len(r)
  BY <1>1
<1>7. UpTo(r)[Len(r)] = <<SubSeq(r, 1, Len(r))>>
  <2>1. Len(r) - 1 \in G
    BY <1>5, <1>6
  <2>2. (Len(r) - 1) + 1 <= Len(r)
    BY <1>1, <1>6
  <2>3. UpTo(r)[(Len(r) - 1) + 1] = <<SubSeq(r, 1, (Len(r) - 1) + 1)>>
    BY <2>1, <2>2
  <2>4. QED
    BY <1>6, <2>3
<1>8. SubSeq(r, 1, Len(r)) = r
  BY <1>1 DEF Text
<1>9. QED
  BY <1>1, <1>7, <1>8, UpToFacts

(* z is x, which is empty or ends in a separator, and then y, which has    *)
(* the one name r.                                                         *)
OneMore(z, x, y, r) ==
  /\ x \in Text /\ y \in Text /\ z \in Text /\ Follows(z, x, y)
  /\ x = <<>> \/ x[Len(x)] = "/"
  /\ r \in Text /\ Names(y) = <<r>> /\ y # <<>> /\ y[1] # "/"

(* One more name leads one step on. *)
LEMMA OneStep ==
  ASSUME NEW x, NEW y, NEW z, NEW r, OneMore(z, x, y, r)
  PROVE  Place(z) = Step(Place(x), r)
<1> USE DEF OneMore
<1>0. /\ Len(x) \in Nat /\ Len(y) \in Nat /\ Len(y) > 0 /\ Len(z) = Len(x) + Len(y) /\ Len(z) \in Nat
      /\ <<r>> \in TextSeq /\ Len(<<r>>) = 1 /\ <<r>>[1] = r
  BY TextFacts, EmptySeq DEF Follows, Text, TextSeq
<1>1. PICK t : t = Place(x) /\ t \in Spot
  BY PlaceFacts
<1>2. Walk(t, <<r>>)[1] = Step(t, r)
  <2>1. 1 \in 1 .. Len(<<r>>) /\ 1 - 1 = 0
    BY <1>0
  <2>2. Walk(t, <<r>>)[1] = Step(Walk(t, <<r>>)[1 - 1], <<r>>[1]) /\ Walk(t, <<r>>)[0] = t
    BY <1>0, <1>1, <2>1, WalkFacts
  <2>3. QED
    BY <1>0, <2>1, <2>2
<1>3. CASE x = <<>>
  <2>1. z = y
    BY <1>0, <1>3, SeqEqual DEF Follows, Text
  <2>2. At(y, 1) # "/" /\ At(x, 1) # "/"
    <3>1. 1 \in 1 .. Len(y) /\ Len(x) = 0
      BY <1>0, <1>3
    <3>2. QED
      BY <1>0, <3>1, TextFacts DEF NUL
  <2>3. Start(y) = Start(x)
    BY <2>2 DEF Start
  <2>4. Names(x) = <<>>
    BY <1>0, <1>3, UpToFacts
  <2>5. t = Start(x)
    <3>1. t = Walk(Start(x), Names(x))[0] /\ Start(x) \in Spot /\ Names(x) \in TextSeq
      BY <1>1, <2>4, PlaceFacts
    <3>2. QED
      BY <3>1, WalkFacts
  <2>6. Place(y) = Walk(t, <<r>>)[1]
    BY <1>0, <2>3, <2>5, PlaceFacts
  <2>7. QED
    BY <1>1, <1>2, <2>1, <2>6
<1>4. CASE x # <<>>
  <2>1. Start(z) = Start(x)
    <3>1. 1 \in 1 .. Len(x) /\ 1 \in 1 .. Len(z)
      BY <1>0, <1>4, EmptySeq DEF Text
    <3>2. At(z, 1) = At(x, 1)
      <4>1. At(z, 1) = z[1] /\ At(x, 1) = x[1]
        BY <3>1, TextFacts
      <4>2. z[1] = x[1]
        BY <3>1 DEF Follows
      <4>3. QED
        BY <4>1, <4>2
    <3>3. QED
      BY <3>2 DEF Start
  <2>2. PICK a \in TextSeq, c \in TextSeq, s \in Spot :
          /\ a = Names(x) /\ c = Names(z) /\ s = Start(x) /\ Len(a) \in Nat /\ Len(c) \in Nat
          /\ t = Walk(s, a)[Len(a)] /\ Place(z) = Walk(s, c)[Len(c)]
    BY <1>1, <2>1, PlaceFacts
  <2>3. PICK b \in TextSeq : b = <<r>>
    BY <1>0
  <2>4. Follows(c, a, b)
    BY <1>4, <2>2, <2>3, NamesBehind
  <2>5. Len(c) = Len(a) + 1 /\ 1 \in 0 .. Len(b)
    BY <1>0, <2>3, <2>4 DEF Follows
  <2>6. \A n \in 0 .. Len(b) : Walk(s, c)[Len(a) + n] = Walk(t, b)[n]
    BY <2>2, <2>4, WalkFollows
  <2>7. Walk(s, c)[Len(a) + 1] = Walk(t, b)[1]
    BY <2>5, <2>6
  <2>8. QED
    BY <1>1, <1>2, <2>2, <2>3, <2>5, <2>7
<1>5. QED
  BY <1>3, <1>4

(* The places of three characters at the end and of two at the start.      *)
LEMMA EndsDots ==
  ASSUME NEW x \in Text, NEW sep
  PROVE  EndsWith(x, <<".", ".", sep>>) <=>
           Len(x) >= 3 /\ x[Len(x) - 2] = "." /\ x[Len(x) - 1] = "." /\ x[Len(x)] = sep
<1>0. Len(x) \in Nat
  BY TextFacts
<1> DEFINE a == <<".", ".", sep>>
           f == Reverse(a)
           g == Reverse(x)
<1>1. f = [i \in 1 .. 3 |-> a[(3 - i) + 1]] /\ Len(a) = 3
  BY DEF Reverse
<1>2. Len(f) = 3 /\ f[1] = sep /\ f[2] = "." /\ f[3] = "."
  BY <1>1
<1>3. g = [i \in 1 .. Len(x) |-> x[(Len(x) - i) + 1]]
  BY DEF Reverse
<1>4. Len(g) = Len(x) /\ \A i \in 1 .. Len(x) : g[i] = x[(Len(x) - i) + 1]
  BY <1>0, <1>3
<1>5. EndsWith(x, a) <=> Len(f) <= Len(g) /\ SubSeq(f, 1, Len(f)) = SubSeq(g, 1, Len(f))
  BY Zenon DEF EndsWith, IsSuffix, IsPrefix
<1> HIDE DEF f, g, a
<1>6. SubSeq(f, 1, 3) = [i \in 1 .. 3 |-> f[i]] /\ SubSeq(g, 1, 3) = [i \in 1 .. 3 |-> g[i]]
  BY DEF f
<1>7. SubSeq(f, 1, 3) = SubSeq(g, 1, 3) <=> f[1] = g[1] /\ f[2] = g[2] /\ f[3] = g[3]
  BY <1>6
<1>8. Len(x) >= 3 => g[1] = x[Len(x)] /\ g[2] = x[Len(x) - 1] /\ g[3] = x[Len(x) - 2]
  <2>1. Len(x) >= 3 => 1 \in 1 .. Len(x) /\ 2 \in 1 .. Len(x) /\ 3 \in 1 .. Len(x)
    BY <1>0
  <2>2. (Len(x) - 1) + 1 = Len(x) /\ (Len(x) - 2) + 1 = Len(x) - 1 /\ (Len(x) - 3) + 1 = Len(x) - 2
    BY <1>0
  <2>3. QED
    BY <1>4, <2>1, <2>2
<1>9. QED
  BY <1>2, <1>4, <1>5, <1>7, <1>8 DEF a

(* The same at the start of a path. *)
LEMMA StartsDot ==
  ASSUME NEW x \in Text, NEW sep
  PROVE  StartsWith(x, <<".", sep>>) <=> Len(x) >= 2 /\ x[1] = "." /\ x[2] = sep
<1>0. Len(x) \in Nat
  BY TextFacts
<1> DEFINE a == <<".", sep>>
<1>1. StartsWith(x, a) <=> Len(a) <= Len(x) /\ SubSeq(a, 1, Len(a)) = SubSeq(x, 1, Len(a))
  BY Zenon DEF StartsWith, IsPrefix
<1>2. Len(a) = 2 /\ a[1] = "." /\ a[2] = sep
  OBVIOUS
<1> HIDE DEF a
<1>3. SubSeq(a, 1, 2) = [i \in 1 .. 2 |-> a[i]] /\ SubSeq(x, 1, 2) = [i \in 1 .. 2 |-> x[i]]
  BY DEF a
<1>4. SubSeq(a, 1, 2) = SubSeq(x, 1, 2) <=> a[1] = x[1] /\ a[2] = x[2]
  BY <1>3
<1>5. QED
  BY <1>1, <1>2, <1>4 DEF a

(* The loop of normpath. *)
NormState == [ok : BOOLEAN, cursor : Nat \ {0}, ret : Text, top : Nat]

(* Where the loop begins, its first state, its round, and its states by    *)
(* the number of rounds.                                                   *)
FirstAt(p) == IF ~IsAbs(p) /\ \E sep \in Separators : StartsWith(p, <<".", sep>>) THEN 3 ELSE 1
Begin(p) == [ok |-> TRUE, cursor |-> FirstAt(p), ret |-> <<>>, top |-> 0]
Onward(p, s) == IF ~s.ok \/ s.cursor > Len(p) THEN s ELSE NormRound(p, s)
Run(p) == CHOOSE f : f = [n \in 0 .. Len(p) |-> IF n = 0 THEN Begin(p) ELSE Onward(p, f[n - 1])]

(* The rounds that go on, from s to t: one character is copied, a .. is    *)
(* kept, or a .. takes the name before it away.                            *)
IsDots(p, c) == At(p, c) = "." /\ At(p, c + 1) = "." /\ At(p, c + 2) \in {"/", NUL}
Behind(p, c) == IF At(p, c + 2) = NUL THEN c + 2 ELSE c + 3
AfterDots(ret) == Len(ret) >= 3 /\ ret[Len(ret) - 2] = "." /\ ret[Len(ret) - 1] = "." /\ ret[Len(ret)] \in Separators

Copies(p, s, t) ==
  /\ ~(At(p, s.cursor) = "." /\ At(p, s.cursor + 1) = ".")
  /\ t.cursor = s.cursor + 1 /\ t.ret = s.ret \o <<p[s.cursor]>>
  /\ t.top = Larger(s.top, Len(s.ret) + 1)
Keeps(p, s, t) ==
  /\ IsDots(p, s.cursor) /\ (s.ret = <<>> \/ AfterDots(s.ret))
  /\ t.cursor = Behind(p, s.cursor) /\ t.ret = s.ret \o <<".", ".", At(p, s.cursor + 2)>>
  /\ t.top = Larger(s.top, Len(s.ret) + 3)
Pops(p, s, t) ==
  /\ IsDots(p, s.cursor) /\ ~AfterDots(s.ret) /\ Len(s.ret) >= 2 /\ s.ret[Len(s.ret)] \in Separators
  /\ t.cursor = Behind(p, s.cursor) /\ t.ret = Parent(s.ret) /\ t.top = s.top

(* t is s with another cursor, ret and top. *)
Becomes(t, s, c, r, m) ==
  t \in NormState /\ t.ok = s.ok /\ t.cursor = c /\ t.ret = r /\ t.top = m

(* Changing a state field by field. *)
LEMMA Altered ==
  ASSUME NEW s \in NormState, NEW r \in Text, NEW c \in Nat \ {0}, NEW m \in Nat
  PROVE  Becomes([s EXCEPT !.ret = r, !.cursor = c, !.top = m], s, c, r, m)
<1>1. PICK t : t = [s EXCEPT !.ret = r, !.cursor = c, !.top = m]
  OBVIOUS
<1>2. t \in NormState /\ t.ok = s.ok /\ t.cursor = c /\ t.ret = r /\ t.top = m
  BY <1>1 DEF NormState
<1>3. QED
  BY <1>1, <1>2, Zenon DEF Becomes

LEMMA AlteredTwo ==
  ASSUME NEW s \in NormState, NEW r \in Text, NEW c \in Nat \ {0}
  PROVE  Becomes([s EXCEPT !.ret = r, !.cursor = c], s, c, r, s.top)
<1>1. PICK t : t = [s EXCEPT !.ret = r, !.cursor = c]
  OBVIOUS
<1>2. t \in NormState /\ t.ok = s.ok /\ t.cursor = c /\ t.ret = r /\ t.top = s.top
  BY <1>1 DEF NormState
<1>3. QED
  BY <1>1, <1>2, Zenon DEF Becomes

LEMMA AlteredOk ==
  ASSUME NEW s \in NormState, NEW t, t = [s EXCEPT !.ok = FALSE]
  PROVE  t \in NormState /\ ~t.ok
BY DEF NormState

(* What Put does. *)
LEMMA PutFacts ==
  ASSUME NEW s \in NormState, NEW chars \in Text, NEW c \in Nat \ {0}
  PROVE  Becomes(Put(s, chars, c), s, c, s.ret \o chars, Larger(s.top, Len(s.ret) + Len(chars)))
<1>1. PICK r, m : r = s.ret \o chars /\ m = Larger(s.top, Len(s.ret) + Len(chars))
  OBVIOUS
<1>2. Put(s, chars, c) = [s EXCEPT !.ret = r, !.cursor = c, !.top = m]
  BY <1>1, Zenon DEF Put
<1>3. s.ret \in Text /\ s.top \in Nat
  BY DEF NormState
<1>4. r \in Text
  BY <1>1, <1>3, Concat
<1>5. m \in Nat
  BY <1>1, <1>3, TextFacts DEF Larger
<1>6. Becomes([s EXCEPT !.ret = r, !.cursor = c, !.top = m], s, c, r, m)
  BY <1>4, <1>5, Altered, Zenon
<1>7. QED
  BY <1>1, <1>2, <1>6, Zenon

(* A round that goes on copies, keeps or takes away. *)
LEMMA RoundCases ==
  ASSUME NEW p, Plain(p), NEW s \in NormState, s.ok, s.cursor <= Len(p), NEW t, t = NormRound(p, s)
  PROVE  /\ t \in NormState
         /\ t.ok => Copies(p, s, t) \/ Keeps(p, s, t) \/ Pops(p, s, t)
<1>1. PICK c \in Nat \ {0}, ret \in Text : c = s.cursor /\ ret = s.ret
  BY DEF NormState
<1>2. p \in Text /\ Len(p) \in Nat /\ Len(ret) \in Nat /\ c \in 1 .. Len(p) /\ p[c] \in Chars
  BY <1>1, PlainText, TextFacts DEF Text
<1>3. At(p, c + 2) \in Chars /\ At(p, c + 2) \notin {"\\"}
  <2>1. CASE c + 2 \in 1 .. Len(p)
    BY <1>2, <2>1, TextFacts, PlainText DEF Text
  <2>2. CASE c + 2 \notin 1 .. Len(p)
    BY <1>2, <2>2, PlainText DEF At, Chars, NUL
  <2>3. QED
    BY <2>1, <2>2
<1>4. PICK third, behind : third = At(p, c + 2) /\ behind = IF third = NUL THEN c + 2 ELSE c + 3
  OBVIOUS
<1>5. behind = Behind(p, c) /\ behind \in Nat \ {0}
  BY <1>4 DEF Behind
<1>6. CASE At(p, c) /= "." \/ At(p, c + 1) /= "."
  <2>1. PICK chars : chars = <<p[c]>> /\ chars \in Text /\ Len(chars) = 1
    <3>1. <<p[c]>> \in Text
      BY <1>2 DEF Text
    <3>2. Len(<<p[c]>>) = 1
      OBVIOUS
    <3>3. QED
      BY <3>1, <3>2, Zenon
  <2>2. t = Put(s, chars, c + 1)
    BY <1>1, <1>6, <2>1, Zenon DEF NormRound
  <2>3. c + 1 \in Nat \ {0}
    OBVIOUS
  <2>4. /\ t \in NormState /\ t.ok = s.ok /\ t.cursor = c + 1 /\ t.ret = s.ret \o chars
        /\ t.top = Larger(s.top, Len(s.ret) + Len(chars))
    <3>1. Becomes(Put(s, chars, c + 1), s, c + 1, s.ret \o chars, Larger(s.top, Len(s.ret) + Len(chars)))
      BY <2>1, <2>3, PutFacts, Zenon
    <3>2. QED
      BY <2>2, <3>1, Zenon DEF Becomes
  <2>5. Copies(p, s, t)
    BY <1>1, <1>6, <2>1, <2>4, Zenon DEF Copies
  <2>6. QED
    BY <2>4, <2>5
<1>7. CASE At(p, c) = "." /\ At(p, c + 1) = "."
  <2>1. CASE t = [s EXCEPT !.ok = FALSE]
    BY <2>1, AlteredOk
  <2>2. CASE /\ third \in {"/", NUL} /\ (s.ret = <<>> \/ \E sep \in Separators : EndsWith(s.ret, <<".", ".", sep>>))
             /\ t = Put(s, <<".", ".", third>>, behind)
    <3>1. PICK chars : chars = <<".", ".", third>> /\ chars \in Text /\ Len(chars) = 3
      <4>1. "." \in Chars /\ third \in Chars
        BY <1>3, <1>4 DEF Chars
      <4>2. <<".", ".", third>> \in Text
        BY <4>1 DEF Text
      <4>3. Len(<<".", ".", third>>) = 3
        OBVIOUS
      <4>4. QED
        BY <4>2, <4>3, Zenon
    <3>2. /\ t \in NormState /\ t.ok = s.ok /\ t.cursor = behind /\ t.ret = s.ret \o chars
          /\ t.top = Larger(s.top, Len(s.ret) + Len(chars))
      <4>1. Becomes(Put(s, chars, behind), s, behind, s.ret \o chars, Larger(s.top, Len(s.ret) + Len(chars)))
        BY <1>5, <3>1, PutFacts, Zenon
      <4>2. QED
        BY <2>2, <3>1, <4>1, Zenon DEF Becomes
    <3>3. s.ret = <<>> \/ AfterDots(s.ret)
      BY <1>1, <2>2, EndsDots DEF AfterDots
    <3>4. Keeps(p, s, t)
      BY <1>1, <1>4, <1>5, <1>7, <2>2, <3>1, <3>2, <3>3, Zenon DEF Keeps, IsDots
    <3>5. QED
      BY <3>2, <3>4
  <2>3. CASE /\ third \in {"/", NUL} /\ ~(s.ret = <<>> \/ \E sep \in Separators : EndsWith(s.ret, <<".", ".", sep>>))
             /\ ~(s.ret[Len(s.ret)] \notin Separators \/ Len(s.ret) < 2)
             /\ t = [s EXCEPT !.ret = Parent(s.ret), !.cursor = behind]
    <3>1. Len(ret) - 1 \in Nat /\ Len(ret) - 1 <= Len(ret) /\ Len(ret) >= 2
      BY <1>1, <1>2, <2>3
    <3>2. PICK x : x = SubSeq(ret, 1, Len(ret) - 1) /\ x \in Text /\ Len(x) = Len(ret) - 1
      BY <3>1, Prefix
    <3>3. LastSep(x) \in 0 .. Len(x)
      BY <3>2, LastSepAny
    <3>4. LastSep(x) \in Nat /\ LastSep(x) <= Len(ret)
      BY <3>1, <3>2, <3>3
    <3>5. PICK r \in Text : r = Parent(ret)
      BY <3>2, <3>4, Prefix DEF Parent
    <3>6. t = [s EXCEPT !.ret = r, !.cursor = behind]
      BY <1>1, <2>3, <3>5
    <3>7. t \in NormState /\ t.cursor = behind /\ t.ret = r /\ t.top = s.top
      <4>1. Becomes([s EXCEPT !.ret = r, !.cursor = behind], s, behind, r, s.top)
        BY <1>5, AlteredTwo, Zenon
      <4>2. QED
        BY <3>6, <4>1, Zenon DEF Becomes
    <3>8. ~AfterDots(s.ret)
      BY <1>1, <2>3, EndsDots DEF AfterDots
    <3>9. Pops(p, s, t)
      BY <1>1, <1>4, <1>5, <1>7, <2>3, <3>1, <3>5, <3>7, <3>8 DEF Pops, IsDots
    <3>10. QED
      BY <3>7, <3>9
  <2>4. (third # NUL /\ third \notin Separators) \/ third \in {"/", NUL}
    BY <1>3, <1>4 DEF Separators
  <2>5. \/ t = [s EXCEPT !.ok = FALSE]
        \/ /\ ~(third # NUL /\ third \notin Separators)
           /\ s.ret = <<>> \/ \E sep \in Separators : EndsWith(s.ret, <<".", ".", sep>>)
           /\ t = Put(s, <<".", ".", third>>, behind)
        \/ /\ ~(third # NUL /\ third \notin Separators)
           /\ ~(s.ret = <<>> \/ \E sep \in Separators : EndsWith(s.ret, <<".", ".", sep>>))
           /\ ~(s.ret[Len(s.ret)] \notin Separators \/ Len(s.ret) < 2)
           /\ t = [s EXCEPT !.ret = Parent(s.ret), !.cursor = behind]
    BY <1>1, <1>4, <1>7, Zenon DEF NormRound
  <2>6. QED
    BY <2>1, <2>2, <2>3, <2>4, <2>5
<1>8. QED
  BY <1>6, <1>7

(* A ./ at the start of a plain path is skipped. *)
LEMMA FirstFacts ==
  ASSUME NEW p, Plain(p)
  PROVE  /\ FirstAt(p) \in {1, 3}
         /\ FirstAt(p) = 3 <=> Len(p) >= 2 /\ p[1] = "." /\ p[2] = "/"
         /\ IsAbs(p) <=> Len(p) > 1 /\ p[1] = "/"
<1>1. p \in Text /\ Len(p) \in Nat /\ \A i \in 1 .. Len(p) : p[i] \notin {NUL, "\\", ":"}
  BY PlainText
<1>2. (Len(p) > 2 => 2 \in 1 .. Len(p)) /\ (Len(p) >= 2 => 2 \in 1 .. Len(p))
  BY <1>1
<1>3. IsAbs(p) <=> Len(p) > 1 /\ p[1] = "/"
  BY <1>1, <1>2 DEF IsAbs
<1>4. StartsWith(p, <<".", "/">>) <=> Len(p) >= 2 /\ p[1] = "." /\ p[2] = "/"
  BY <1>1, StartsDot
<1>5. ~StartsWith(p, <<".", "\\">>)
  BY <1>1, <1>2, StartsDot
<1>6. (\E sep \in Separators : StartsWith(p, <<".", sep>>)) <=> StartsWith(p, <<".", "/">>)
  BY <1>5, Zenon DEF Separators
<1>7. FirstAt(p) = IF ~IsAbs(p) /\ StartsWith(p, <<".", "/">>) THEN 3 ELSE 1
  BY <1>6, Zenon DEF FirstAt
<1>8. QED
  BY <1>3, <1>4, <1>7

(* Every round gives a state. *)
LEMMA OnwardType ==
  ASSUME NEW p, Plain(p), NEW s \in NormState
  PROVE  Onward(p, s) \in NormState
<1>1. CASE ~s.ok \/ s.cursor > Len(p)
  BY <1>1, Zenon DEF Onward
<1>2. CASE s.ok /\ ~(s.cursor > Len(p))
  <2>1. s.cursor <= Len(p)
    BY <1>2, PlainText DEF NormState
  <2>2. NormRound(p, s) \in NormState
    BY <1>2, <2>1, RoundCases
  <2>3. QED
    BY <1>2, <2>2, Zenon DEF Onward
<1>3. QED
  BY <1>1, <1>2

(* The rounds of normpath, one after the other. *)
LEMMA RunFacts ==
  ASSUME NEW p, Plain(p)
  PROVE  /\ Run(p)[0] = Begin(p)
         /\ \A n \in 1 .. Len(p) : Run(p)[n] = Onward(p, Run(p)[n - 1])
         /\ \A n \in 0 .. Len(p) : Run(p)[n] \in NormState
<1> DEFINE F(f) == [n \in 0 .. Len(p) |-> IF n = 0 THEN Begin(p) ELSE Onward(p, f[n - 1])]
           step == [n \in 1 .. Len(p) |-> [s \in NormState |-> Onward(p, s)]]
<1>0. Len(p) \in Nat /\ Begin(p) \in NormState
  <2>1. FirstAt(p) \in Nat \ {0} /\ <<>> \in Text
    BY FirstFacts DEF Text
  <2>2. QED
    BY <2>1, PlainText DEF Begin, NormState
<1>2. PICK st : st = step
  OBVIOUS
<1>20. \A n \in 1 .. Len(p) : \A s \in NormState : st[n][s] = Onward(p, s) /\ st[n][s] \in NormState
  BY <1>2, OnwardType
<1> HIDE DEF step
<1>21. Stepping(st, Len(p), NormState)
  BY <1>20, Zenon DEF Stepping
<1>22. PICK g : Iter(g, st, Begin(p), Len(p), NormState)
  BY <1>0, <1>21, Iterates
<1>3. /\ g = [n \in 0 .. Len(p) |-> IF n = 0 THEN Begin(p) ELSE st[n][g[n - 1]]]
      /\ \A n \in 0 .. Len(p) : g[n] \in NormState
  BY <1>22, Zenon DEF Iter
<1>4. g = F(g)
  <2>1. ASSUME NEW n \in 0 .. Len(p), n # 0 PROVE st[n][g[n - 1]] = Onward(p, g[n - 1])
    <3>1. n \in 1 .. Len(p) /\ n - 1 \in 0 .. Len(p)
      BY <1>0, <2>1
    <3>2. QED
      BY <1>20, <1>3, <3>1
  <2>2. QED
    BY <1>3, <2>1, Zenon
<1> HIDE DEF F
<1>5. PICK u : u = Run(p)
  OBVIOUS
<1>6. u = F(u)
  BY <1>4, <1>5, Zenon DEF Run, F
<1>7. \A n \in 0 .. Len(p) : u[n] = IF n = 0 THEN Begin(p) ELSE Onward(p, u[n - 1])
  BY <1>6, Zenon DEF F
<1>8. u[0] = Begin(p) /\ \A n \in 1 .. Len(p) : u[n] = Onward(p, u[n - 1])
  BY <1>0, <1>7
<1> DEFINE G == {n \in Nat : n <= Len(p) => u[n] \in NormState}
<1>9. 0 \in G
  BY <1>0, <1>8
<1>10. ASSUME NEW n \in Nat, n \in G PROVE n + 1 \in G
  <2>1. ASSUME n + 1 <= Len(p) PROVE u[n + 1] \in NormState
    <3>1. n + 1 \in 1 .. Len(p) /\ (n + 1) - 1 = n /\ u[n] \in NormState
      BY <1>0, <1>10, <2>1
    <3>2. u[n + 1] = Onward(p, u[n])
      BY <1>8, <3>1
    <3>3. QED
      BY <3>1, <3>2, OnwardType
  <2>2. QED
    BY <2>1
<1>11. \A n \in Nat : n \in G
  <2> HIDE DEF G
  <2>1. QED
    BY <1>9, <1>10, NatInSet
<1>12. QED
  BY <1>0, <1>5, <1>8, <1>11

(* What holds at first and is kept by each round that goes on holds of the *)
(* end of the loop, which is behind the path.                              *)
Kept(p, S) ==
  \A s \in S : s.ok /\ s.cursor <= Len(p) =>
    \A t \in NormState : t.ok /\ (Copies(p, s, t) \/ Keeps(p, s, t) \/ Pops(p, s, t)) => t \in S

(* No round stays where it is, so Len(p) of them are enough. *)
LEMMA RunKeeps ==
  ASSUME NEW p, Plain(p), NEW S \in SUBSET NormState, Begin(p) \in S, Kept(p, S),
         NEW end, end = Run(p)[Len(p)], end.ok
  PROVE  end \in S /\ end.cursor > Len(p)
<1> DEFINE Good(n) == Run(p)[n].ok => Run(p)[n] \in S /\ (Run(p)[n].cursor > n \/ Run(p)[n].cursor > Len(p))
           G == {n \in Nat : n <= Len(p) => Good(n)}
<1>0. Len(p) \in Nat
  BY PlainText
<1>1. 0 \in G
  <2>1. Run(p)[0] = Begin(p) /\ Begin(p) \in NormState
    BY RunFacts
  <2>2. Begin(p).cursor > 0
    BY <2>1 DEF NormState
  <2>3. QED
    BY <2>1, <2>2
<1>2. ASSUME NEW n \in Nat, n \in G PROVE n + 1 \in G
  <2>1. ASSUME n + 1 <= Len(p) PROVE Good(n + 1)
    <3>1. n + 1 \in 1 .. Len(p) /\ (n + 1) - 1 = n /\ n <= Len(p) /\ n \in 0 .. Len(p) /\ n + 1 \in 0 .. Len(p)
      BY <1>0, <2>1
    <3>2. PICK s \in NormState, t \in NormState : s = Run(p)[n] /\ t = Run(p)[n + 1] /\ t = Onward(p, s)
      BY <3>1, RunFacts
    <3>3. s.ok => s \in S /\ (s.cursor > n \/ s.cursor > Len(p))
      BY <1>2, <3>1, <3>2
    <3>4. s.cursor \in Nat /\ t.cursor \in Nat
      BY DEF NormState
    <3>5. ASSUME t.ok PROVE t \in S /\ (t.cursor > n + 1 \/ t.cursor > Len(p))
      <4>1. CASE ~s.ok \/ s.cursor > Len(p)
        <5>1. t = s
          BY <3>2, <4>1, Zenon DEF Onward
        <5>2. QED
          BY <3>3, <3>5, <4>1, <5>1
      <4>2. CASE s.ok /\ ~(s.cursor > Len(p))
        <5>1. t = NormRound(p, s)
          BY <3>2, <4>2, Zenon DEF Onward
        <5>2. s.cursor <= Len(p)
          BY <1>0, <3>4, <4>2
        <5>3. Copies(p, s, t) \/ Keeps(p, s, t) \/ Pops(p, s, t)
          BY <3>5, <4>2, <5>1, <5>2, RoundCases
        <5>4. t.cursor >= s.cursor + 1
          BY <3>4, <5>3 DEF Copies, Keeps, Pops, Behind
        <5>5. t \in S
          BY <3>3, <3>5, <4>2, <5>2, <5>3, Zenon DEF Kept
        <5>6. QED
          BY <1>0, <3>3, <3>4, <4>2, <5>4, <5>5
      <4>3. QED
        BY <4>1, <4>2
    <3>6. QED
      BY <3>2, <3>5
  <2>2. QED
    BY <2>1
<1>3. Len(p) \in G
  <2> HIDE DEF G
  <2>1. QED
    BY <1>0, <1>1, <1>2, NatInSet
<1>4. Good(Len(p))
  BY <1>0, <1>3
<1>5. end.cursor \in Nat /\ Len(p) \in 0 .. Len(p)
  <2>1. Len(p) \in 0 .. Len(p)
    BY <1>0
  <2>2. QED
    BY <2>1, RunFacts DEF NormState
<1>6. QED
  BY <1>0, <1>4, <1>5

(* The result n of normpath, from the end of its loop.                     *)
NormEnd(p, size, n) ==
  LET end == Run(p)[Len(p)]
      ret == IF end.ret = <<>> THEN <<".", "/">> ELSE end.ret
  IN  /\ ~(Len(p) >= size) /\ end.ok /\ ~(end.ret = <<>> /\ size <= 2)
      /\ n.path = Ended(ret) /\ n.top = Larger(end.top, Len(ret) + 1)

(* normpath returns what its loop has left. *)
LEMMA NormpathIs ==
  ASSUME NEW p, NEW size
  PROVE  Normpath(p, size).ok => NormEnd(p, size, Normpath(p, size))
<1>0. PICK end, ret, n : /\ end = Run(p)[Len(p)] /\ ret = IF end.ret = <<>> THEN <<".", "/">> ELSE end.ret
                         /\ n = Normpath(p, size)
  OBVIOUS
<1> DEFINE Made(r) ==
      LET e == r[Len(p)]
          back == IF e.ret = <<>> THEN <<".", "/">> ELSE e.ret
      IN  IF Len(p) >= size \/ ~e.ok \/ (e.ret = <<>> /\ size <= 2) THEN Error
          ELSE Result(Ended(back), Larger(e.top, Len(back) + 1))
<1>1. Normpath(p, size) = Made(Run(p))
  BY Zenon DEF Normpath, Run, Onward, Begin, FirstAt
<1>2. n = IF Len(p) >= size \/ ~end.ok \/ (end.ret = <<>> /\ size <= 2) THEN Error
          ELSE Result(Ended(ret), Larger(end.top, Len(ret) + 1))
  BY <1>0, <1>1, Zenon
<1>3. Error.ok = FALSE
  BY DEF Error
<1>4. CASE Len(p) >= size \/ ~end.ok \/ (end.ret = <<>> /\ size <= 2)
  <2>1. n = Error
    BY <1>2, <1>4, Zenon
  <2>2. QED
    BY <1>0, <1>3, <2>1
<1>5. CASE ~(Len(p) >= size) /\ end.ok /\ ~(end.ret = <<>> /\ size <= 2)
  <2>1. n = Result(Ended(ret), Larger(end.top, Len(ret) + 1))
    BY <1>2, <1>5, Zenon
  <2>2. n.ok = TRUE /\ n.path = Ended(ret) /\ n.top = Larger(end.top, Len(ret) + 1)
    <3>1. PICK a, b : a = Ended(ret) /\ b = Larger(end.top, Len(ret) + 1)
      OBVIOUS
    <3>2. n = Result(a, b)
      BY <2>1, <3>1, Zenon
    <3>3. n.ok = TRUE /\ n.path = a /\ n.top = b
      BY <3>2 DEF Result
    <3>4. QED
      BY <3>1, <3>3, Zenon
  <2>3. QED
    BY <1>0, <1>5, <2>2, Zenon DEF NormEnd
<1>6. QED
  BY <1>4, <1>5

(* What is at a .. of the path and behind it. *)
LEMMA BehindFacts ==
  ASSUME NEW p, Plain(p), NEW c \in Nat \ {0}, IsDots(p, c)
  PROVE  /\ c + 1 <= Len(p) /\ p[c] = "." /\ p[c + 1] = "."
         /\ At(p, c + 2) = NUL => Behind(p, c) = c + 2 /\ c + 2 = Len(p) + 1
         /\ At(p, c + 2) # NUL => Behind(p, c) = c + 3 /\ c + 2 <= Len(p) /\ p[c + 2] = "/" /\ At(p, c + 2) = "/"
<1>1. p \in Text /\ Len(p) \in Nat /\ DOMAIN p = 1 .. Len(p) /\ \A i \in 1 .. Len(p) : p[i] \notin {NUL, "\\", ":"}
  BY PlainText
<1>2. \A i \in Nat : At(p, i) # NUL <=> i \in 1 .. Len(p)
  BY <1>1 DEF At
<1>3. c \in 1 .. Len(p) /\ c + 1 \in 1 .. Len(p)
  BY <1>2 DEF IsDots, NUL
<1>4. p[c] = "." /\ p[c + 1] = "."
  BY <1>1, <1>3 DEF IsDots, At
<1>5. CASE At(p, c + 2) = NUL
  <2>1. c + 2 \notin 1 .. Len(p)
    BY <1>2, <1>5
  <2>2. QED
    BY <1>1, <1>3, <1>4, <1>5, <2>1 DEF Behind
<1>6. CASE At(p, c + 2) # NUL
  <2>1. c + 2 \in 1 .. Len(p) /\ At(p, c + 2) = "/"
    BY <1>2, <1>6 DEF IsDots
  <2>2. p[c + 2] = "/"
    BY <1>1, <2>1 DEF At
  <2>3. QED
    BY <1>1, <1>3, <1>4, <1>6, <2>1, <2>2 DEF Behind
<1>7. QED
  BY <1>5, <1>6

(* Parent(ret) is what is up to the separator e before the last name.      *)
IsParent(par, ret, e) ==
  /\ e \in 0 .. Len(ret) - 1 /\ par \in Text /\ Len(par) = e
  /\ \A i \in 1 .. e : par[i] = ret[i]
  /\ e # 0 => ret[e] \in Separators
  /\ \A i \in e + 1 .. Len(ret) - 1 : ret[i] \notin Separators

(* Parent finds the separator before the last name. *)
LEMMA ParentFacts ==
  ASSUME NEW ret \in Text, Len(ret) >= 2
  PROVE  \E e : IsParent(Parent(ret), ret, e)
<1>1. Len(ret) \in Nat /\ Len(ret) - 1 \in Nat /\ Len(ret) - 1 <= Len(ret)
  BY TextFacts
<1>2. PICK x : /\ x = SubSeq(ret, 1, Len(ret) - 1) /\ x \in Text /\ Len(x) = Len(ret) - 1
               /\ \A i \in 1 .. Len(ret) - 1 : x[i] = ret[i]
  <2>1. PICK m \in Nat : m = Len(ret) - 1 /\ m <= Len(ret)
    BY <1>1
  <2>2. PICK x : x = SubSeq(ret, 1, m)
    OBVIOUS
  <2>3. x \in Text /\ Len(x) = m /\ \A i \in 1 .. m : x[i] = ret[i]
    BY <2>1, <2>2, Prefix
  <2>4. QED
    BY <2>1, <2>2, <2>3, Zenon
<1>3. PICK e : e = LastSep(x)
  OBVIOUS
<1>4. /\ e \in 0 .. Len(ret) - 1 /\ (e # 0 => x[e] \in Separators)
      /\ \A i \in e + 1 .. Len(ret) - 1 : x[i] \notin Separators
  BY <1>2, <1>3, LastSepAny
<1>5. e \in Nat /\ e <= Len(ret) /\ (e # 0 => e \in 1 .. Len(ret) - 1)
  BY <1>1, <1>4
<1>6. PICK par : /\ par = SubSeq(ret, 1, e) /\ par \in Text /\ Len(par) = e
                 /\ \A i \in 1 .. e : par[i] = ret[i]
  <2>1. /\ SubSeq(ret, 1, e) \in Text /\ Len(SubSeq(ret, 1, e)) = e
        /\ \A i \in 1 .. e : SubSeq(ret, 1, e)[i] = ret[i]
    BY <1>5, Prefix
  <2>2. QED
    BY <2>1, Zenon
<1>7. par = Parent(ret)
  BY <1>2, <1>3, <1>6, Zenon DEF Parent
<1>8. \A i \in e + 1 .. Len(ret) - 1 : i \in 1 .. Len(ret) - 1
  BY <1>1, <1>5
<1>9. \A i \in e + 1 .. Len(ret) - 1 : ret[i] \notin Separators
  BY <1>2, <1>4, <1>8
<1>10. IsParent(par, ret, e)
  BY <1>2, <1>4, <1>5, <1>6, <1>9 DEF IsParent
<1>11. QED
  BY <1>7, <1>10

-----------------------------------------------------------------------------
(* An absolute path: no .. is ever kept, so what is written never gets     *)
(* ahead of what is read.                                                  *)
Inside(p, c, ret, top) ==
  /\ c <= Len(p) + 1 /\ Len(ret) <= c - 1 /\ top <= c - 1
  /\ c > 1 => ret # <<>> /\ ret[1] = "/"
  /\ \A i \in 1 .. Len(ret) - 1 : ~(ret[i] = "." /\ ret[i + 1] = ".")
  /\ ret # <<>> /\ ret[Len(ret)] = "." => At(p, c) # "."

AbsStates(p) == {s \in NormState : Inside(p, s.cursor, s.ret, s.top)}

(* A copied character keeps what is written behind what is read. *)
LEMMA InsideCopy ==
  ASSUME NEW p, Plain(p), p[1] = "/", NEW c \in Nat \ {0}, c <= Len(p), NEW ret \in Text, NEW top \in Nat,
         Inside(p, c, ret, top), ~(At(p, c) = "." /\ At(p, c + 1) = "."),
         NEW r \in Text, Follows(r, ret, <<p[c]>>)
  PROVE  Inside(p, c + 1, r, Larger(top, Len(ret) + 1))
<1>1. p \in Text /\ Len(p) \in Nat /\ Len(ret) \in Nat /\ c \in 1 .. Len(p) /\ At(p, c) = p[c]
  BY PlainText, TextFacts
<1>2. Len(r) = Len(ret) + 1 /\ (\A i \in 1 .. Len(ret) : r[i] = ret[i]) /\ r[Len(ret) + 1] = p[c]
  <2>1. Len(<<p[c]>>) = 1 /\ <<p[c]>>[1] = p[c] /\ 1 \in 1 .. 1
    OBVIOUS
  <2>2. QED
    BY <2>1 DEF Follows
<1>3. c + 1 <= Len(p) + 1 /\ Len(r) <= (c + 1) - 1 /\ Larger(top, Len(ret) + 1) <= (c + 1) - 1
  BY <1>1, <1>2 DEF Inside, Larger
<1>4. r # <<>> /\ r[1] = "/"
  <2>1. r # <<>>
    BY <1>1, <1>2
  <2>2. CASE ret = <<>>
    <3>1. c = 1 /\ Len(ret) = 0
      BY <1>1, <2>2 DEF Inside
    <3>2. QED
      BY <1>2, <2>1, <3>1
  <2>3. CASE ret # <<>>
    <3>1. 1 \in 1 .. Len(ret)
      BY <1>1, <2>3, EmptySeq DEF Text
    <3>2. c > 1
      BY <1>1, <3>1 DEF Inside
    <3>3. QED
      BY <1>2, <2>1, <3>1, <3>2 DEF Inside
  <2>4. QED
    BY <2>2, <2>3
<1>5. ASSUME NEW i \in 1 .. Len(r) - 1, r[i] = ".", r[i + 1] = "." PROVE FALSE
  <2>1. CASE i = Len(ret)
    <3>1. i \in 1 .. Len(ret) /\ ret # <<>>
      BY <1>1, <1>5, <2>1
    <3>2. ret[Len(ret)] = "." /\ p[c] = "."
      BY <1>2, <1>5, <2>1, <3>1
    <3>3. QED
      BY <1>1, <3>1, <3>2 DEF Inside
  <2>2. CASE i # Len(ret)
    <3>1. i \in 1 .. Len(ret) - 1 /\ i \in 1 .. Len(ret) /\ i + 1 \in 1 .. Len(ret)
      BY <1>1, <1>2, <1>5, <2>2
    <3>2. QED
      BY <1>2, <1>5, <3>1 DEF Inside
  <2>3. QED
    BY <2>1, <2>2
<1>6. r[Len(r)] = "." => At(p, c + 1) # "."
  BY <1>1, <1>2
<1>7. QED
  BY <1>3, <1>4, <1>5, <1>6 DEF Inside

(* So does a .. that takes a name away. *)
LEMMA InsidePop ==
  ASSUME NEW p, Plain(p), NEW c \in Nat \ {0}, NEW ret \in Text, NEW top \in Nat,
         Inside(p, c, ret, top), IsDots(p, c), Len(ret) >= 2, NEW par, NEW e, IsParent(par, ret, e)
  PROVE  Inside(p, Behind(p, c), par, top)
<1>1. Len(p) \in Nat /\ Len(ret) \in Nat
  BY PlainText, TextFacts
<1>2. Behind(p, c) \in Nat /\ Behind(p, c) >= c + 1 /\ Behind(p, c) <= Len(p) + 1
  BY <1>1, BehindFacts
<1>3. c > 1 /\ ret[1] = "/"
  BY <1>1 DEF Inside
<1>4. e # 0
  <2>1. e = 0 => 1 \in e + 1 .. Len(ret) - 1
    BY <1>1
  <2>2. QED
    BY <1>3, <2>1 DEF IsParent, Separators
<1>5. e \in 1 .. Len(ret) - 1 /\ e \in 1 .. e /\ 1 \in 1 .. e /\ par # <<>> /\ Len(par) = e
  BY <1>1, <1>4 DEF IsParent
<1>6. par[1] = "/" /\ par[e] # "."
  BY <1>3, <1>4, <1>5 DEF IsParent, Separators
<1>7. ASSUME NEW i \in 1 .. e - 1, par[i] = ".", par[i + 1] = "." PROVE FALSE
  <2>1. i \in 1 .. e /\ i + 1 \in 1 .. e /\ i \in 1 .. Len(ret) - 1
    BY <1>1, <1>5
  <2>2. ret[i] = "." /\ ret[i + 1] = "."
    BY <1>7, <2>1 DEF IsParent
  <2>3. QED
    BY <2>1, <2>2 DEF Inside
<1>8. e <= Behind(p, c) - 1 /\ top <= Behind(p, c) - 1
  BY <1>1, <1>2, <1>5 DEF Inside
<1>9. QED
  BY <1>2, <1>5, <1>6, <1>7, <1>8 DEF Inside

(* An absolute path keeps no .., so these are all of its rounds. *)
LEMMA AbsKept ==
  ASSUME NEW p, Plain(p), IsAbs(p)
  PROVE  Begin(p) \in AbsStates(p) /\ Kept(p, AbsStates(p))
<1>1. Len(p) \in Nat /\ Len(p) > 1 /\ p[1] = "/" /\ p \in Text /\ At(p, 1) = "/"
  BY FirstFacts, PlainText, TextFacts
<1>2. Begin(p) \in AbsStates(p)
  <2>1. FirstAt(p) = 1
    BY <1>1, FirstFacts
  <2>2. PICK s : s = Begin(p)
    OBVIOUS
  <2>3. s \in NormState
    BY <1>1, <2>2, RunFacts
  <2>4. s.cursor = 1 /\ s.ret = <<>> /\ s.top = 0
    BY <2>1, <2>2 DEF Begin
  <2>5. Inside(p, 1, <<>>, 0)
    BY <1>1 DEF Inside
  <2>6. QED
    BY <2>2, <2>3, <2>4, <2>5 DEF AbsStates
<1>3. ASSUME NEW s \in AbsStates(p), s.ok, s.cursor <= Len(p), NEW t \in NormState,
             Copies(p, s, t) \/ Keeps(p, s, t) \/ Pops(p, s, t)
      PROVE  t \in AbsStates(p)
  <2>1. PICK c \in Nat \ {0}, ret \in Text, top \in Nat :
          c = s.cursor /\ ret = s.ret /\ top = s.top /\ Inside(p, c, ret, top) /\ c <= Len(p)
    BY <1>3 DEF AbsStates, NormState
  <2>2. t.ret \in Text
    BY DEF NormState
  <2>3. CASE Copies(p, s, t)
    <3>1. <<p[c]>> \in Text
      <4>1. c \in 1 .. Len(p)
        BY <1>1, <2>1
      <4>2. p[c] \in Chars
        BY <1>1, <4>1 DEF Text
      <4>3. QED
        BY <4>2 DEF Text
    <3>2. Follows(t.ret, ret, <<p[c]>>)
      BY <2>1, <2>3, <3>1, Concat DEF Copies
    <3>3. ~(At(p, c) = "." /\ At(p, c + 1) = ".") /\ t.cursor = c + 1 /\ t.top = Larger(top, Len(ret) + 1)
      BY <2>1, <2>3, Zenon DEF Copies
    <3>4. Inside(p, c + 1, t.ret, Larger(top, Len(ret) + 1))
      BY <1>1, <2>1, <2>2, <3>2, <3>3, InsideCopy
    <3>5. QED
      BY <3>3, <3>4, Zenon DEF AbsStates
  <2>4. CASE Keeps(p, s, t)
    <3>1. IsDots(p, c) /\ (ret = <<>> \/ AfterDots(ret)) /\ c > 1
      <4>1. IsDots(p, c) /\ (ret = <<>> \/ AfterDots(ret))
        BY <2>1, <2>4, Zenon DEF Keeps
      <4>2. c # 1
        BY <1>1, <4>1, TextFacts DEF IsDots
      <4>3. QED
        BY <2>1, <4>1, <4>2
    <3>2. AfterDots(ret)
      BY <2>1, <3>1 DEF Inside
    <3>3. /\ Len(ret) - 2 \in 1 .. Len(ret) - 1 /\ (Len(ret) - 2) + 1 = Len(ret) - 1
          /\ ret[Len(ret) - 2] = "." /\ ret[Len(ret) - 1] = "."
      BY <3>2, TextFacts DEF AfterDots
    <3>4. QED
      BY <2>1, <3>3 DEF Inside
  <2>5. CASE Pops(p, s, t)
    <3>1. IsDots(p, c) /\ Len(ret) >= 2 /\ t.cursor = Behind(p, c) /\ t.ret = Parent(ret) /\ t.top = top
      BY <2>1, <2>5 DEF Pops
    <3>2. PICK e : IsParent(t.ret, ret, e)
      BY <3>1, ParentFacts
    <3>3. Inside(p, Behind(p, c), t.ret, top)
      BY <2>1, <3>1, <3>2, InsidePop
    <3>4. QED
      BY <3>1, <3>3, Zenon DEF AbsStates
  <2>6. QED
    BY <1>3, <2>3, <2>4, <2>5
<1>4. Kept(p, AbsStates(p))
  BY <1>3, Zenon DEF Kept
<1>5. QED
  BY <1>2, <1>4

(* The string that is left, when a NUL that was copied ends it.            *)
LEMMA EndedFacts ==
  ASSUME NEW ret \in Text, ret # <<>>
  PROVE  /\ Ended(ret) \in Text /\ Len(Ended(ret)) <= Len(ret)
         /\ ret[Len(ret)] # NUL => Ended(ret) = ret
         /\ ret[Len(ret)] = NUL => Ended(ret) = SubSeq(ret, 1, Len(ret) - 1)
<1>1. Len(ret) \in Nat /\ Len(ret) - 1 \in Nat /\ Len(ret) - 1 <= Len(ret)
  BY EmptySeq DEF Text
<1>2. SubSeq(ret, 1, Len(ret) - 1) \in Text /\ Len(SubSeq(ret, 1, Len(ret) - 1)) = Len(ret) - 1
  BY <1>1, Prefix
<1>3. CASE ret[Len(ret)] = NUL
  BY <1>1, <1>2, <1>3 DEF Ended, Last, Front
<1>4. CASE ret[Len(ret)] # NUL
  BY <1>1, <1>4 DEF Ended, Last
<1>5. QED
  BY <1>3, <1>4

(* normpath of an absolute path stays in the buffer and leaves no .. *)
LEMMA NormInside ==
  ASSUME NEW p, Plain(p), IsAbs(p), NEW size \in Nat, NEW n, n = Normpath(p, size), n.ok
  PROVE  Fits(n, size) /\ NoParent(n.path)
<1>1. Len(p) \in Nat /\ Len(p) > 1
  BY FirstFacts, PlainText
<1>2. PICK end, ret : end = Run(p)[Len(p)] /\ ret = IF end.ret = <<>> THEN <<".", "/">> ELSE end.ret
  OBVIOUS
<1>3. Len(p) < size /\ end.ok /\ n.path = Ended(ret) /\ n.top = Larger(end.top, Len(ret) + 1)
  <2>1. ~(Len(p) >= size) /\ end.ok /\ n.path = Ended(ret) /\ n.top = Larger(end.top, Len(ret) + 1)
    <3>1. NormEnd(p, size, n)
      BY NormpathIs, Zenon
    <3>2. QED
      BY <1>2, <3>1, Zenon DEF NormEnd
  <2>2. QED
    BY <1>1, <2>1
<1>4. AbsStates(p) \in SUBSET NormState
  BY DEF AbsStates
<1>5. end \in AbsStates(p)
  <2>1. Begin(p) \in AbsStates(p) /\ Kept(p, AbsStates(p))
    BY AbsKept
  <2>2. QED
    BY <1>2, <1>3, <1>4, <2>1, RunKeeps, Zenon
<1>6. /\ end.top \in Nat /\ end.ret \in Text /\ end.cursor \in Nat
      /\ Inside(p, end.cursor, end.ret, end.top)
  BY <1>5 DEF AbsStates, NormState
<1>7. end.top <= Len(p) /\ Len(end.ret) \in Nat /\ Len(end.ret) <= Len(p)
  BY <1>1, <1>6, TextFacts DEF Inside
<1>8. ret \in Text /\ ret # <<>> /\ Len(ret) \in Nat /\ Len(ret) + 1 <= size
  <2>1. CASE end.ret = <<>>
    <3>1. ret = <<".", "/">>
      BY <1>2, <2>1
    <3>2. "." \in Chars /\ "/" \in Chars
      BY DEF Chars
    <3>3. QED
      BY <1>1, <1>3, <3>1, <3>2 DEF Text
  <2>2. CASE end.ret # <<>>
    BY <1>1, <1>2, <1>3, <1>6, <1>7, <2>2
  <2>3. QED
    BY <2>1, <2>2
<1>9. Len(Ended(ret)) \in Nat /\ Len(Ended(ret)) <= Len(ret)
  BY <1>8, EndedFacts, TextFacts
<1>10. Fits(n, size)
  BY <1>1, <1>3, <1>6, <1>7, <1>8, <1>9 DEF Larger, Fits
<1>11. \A i \in 1 .. Len(ret) - 1 : ~(ret[i] = "." /\ ret[i + 1] = ".")
  <2>1. CASE end.ret = <<>>
    BY <1>2, <2>1
  <2>2. CASE end.ret # <<>>
    BY <1>2, <1>6, <2>2 DEF Inside
  <2>3. QED
    BY <2>1, <2>2
<1>12. \A i \in 1 .. Len(Ended(ret)) : Ended(ret)[i] = ret[i]
  <2>1. CASE ret[Len(ret)] = NUL
    <3>1. Ended(ret) = SubSeq(ret, 1, Len(ret) - 1) /\ Len(ret) - 1 \in Nat /\ Len(ret) - 1 <= Len(ret)
      BY <1>8, <2>1, EndedFacts, EmptySeq DEF Text
    <3>2. QED
      BY <1>8, <3>1, Prefix
  <2>2. CASE ret[Len(ret)] # NUL
    BY <1>8, <2>2, EndedFacts
  <2>3. QED
    BY <2>1, <2>2
<1>13. ASSUME NEW i \in 1 .. Len(n.path) - 1, n.path[i] = ".", n.path[i + 1] = "." PROVE FALSE
  <2>1. PICK w : w = Ended(ret)
    OBVIOUS
  <2>2. n.path = w /\ Len(w) \in Nat /\ Len(w) <= Len(ret) /\ \A x \in 1 .. Len(w) : w[x] = ret[x]
    BY <1>3, <1>9, <1>12, <2>1
  <2>3. i \in 1 .. Len(w) /\ i + 1 \in 1 .. Len(w) /\ i \in 1 .. Len(ret) - 1
    BY <1>8, <2>2
  <2>4. ret[i] = "." /\ ret[i + 1] = "."
    BY <1>13, <2>2, <2>3
  <2>5. QED
    BY <1>11, <2>3, <2>4
<1>14. NoParent(n.path)
  BY <1>13 DEF NoParent
<1>15. QED
  BY <1>10, <1>14

(* Any path: what is written gets ahead of what is read only by the NUL    *)
(* of a .. at the end.                                                     *)
Bound(p, c) == IF c > Len(p) /\ EndsInDots(p) THEN c ELSE c - 1
Near(p, c, ret, top) == c <= Len(p) + 1 /\ Len(ret) <= Bound(p, c) /\ top <= Bound(p, c)
NearStates(p) == {s \in NormState : Near(p, s.cursor, s.ret, s.top)}

(* Every round keeps what is written so near to what is read. *)
LEMMA NearKept ==
  ASSUME NEW p, Plain(p)
  PROVE  Begin(p) \in NearStates(p) /\ Kept(p, NearStates(p))
<1>1. Len(p) \in Nat /\ p \in Text
  BY PlainText
<1>2. Begin(p) \in NearStates(p)
  <2>1. FirstAt(p) \in {1, 3} /\ FirstAt(p) <= Len(p) + 1
    BY <1>1, FirstFacts
  <2>2. PICK s : s = Begin(p)
    OBVIOUS
  <2>3. s \in NormState
    BY <1>1, <2>2, RunFacts
  <2>4. s.cursor = FirstAt(p) /\ s.ret = <<>> /\ s.top = 0
    BY <2>2 DEF Begin
  <2>5. Near(p, FirstAt(p), <<>>, 0)
    BY <1>1, <2>1 DEF Near, Bound, Larger
  <2>6. QED
    BY <2>2, <2>3, <2>4, <2>5 DEF NearStates
<1>3. ASSUME NEW s \in NearStates(p), s.ok, s.cursor <= Len(p), NEW t \in NormState,
             Copies(p, s, t) \/ Keeps(p, s, t) \/ Pops(p, s, t)
      PROVE  t \in NearStates(p)
  <2>1. PICK c \in Nat \ {0}, ret \in Text, top \in Nat :
          c = s.cursor /\ ret = s.ret /\ top = s.top /\ Near(p, c, ret, top) /\ c <= Len(p)
    BY <1>3 DEF NearStates, NormState
  <2>2. Len(ret) \in Nat /\ Len(ret) <= c - 1 /\ top <= c - 1
    BY <1>1, <2>1, TextFacts DEF Near, Bound
  <2>3. CASE Copies(p, s, t)
    <3>1. c \in 1 .. Len(p) /\ <<p[c]>> \in Text
      <4>1. c \in 1 .. Len(p)
        BY <1>1, <2>1
      <4>2. p[c] \in Chars
        BY <1>1, <4>1 DEF Text
      <4>3. QED
        BY <4>1, <4>2 DEF Text
    <3>2. Follows(t.ret, ret, <<p[c]>>)
      BY <2>1, <2>3, <3>1, Concat DEF Copies
    <3>3. Len(t.ret) = Len(ret) + 1
      BY <3>2 DEF Follows
    <3>4. t.cursor = c + 1 /\ t.top = Larger(top, Len(ret) + 1)
      BY <2>1, <2>3, Zenon DEF Copies
    <3>5. Near(p, c + 1, t.ret, Larger(top, Len(ret) + 1))
      <4>1. Bound(p, c + 1) \in Int /\ Bound(p, c + 1) >= c
        BY DEF Bound
      <4>2. Larger(top, Len(ret) + 1) \in Nat /\ Larger(top, Len(ret) + 1) <= c
        BY <2>2 DEF Larger
      <4>3. c + 1 <= Len(p) + 1 /\ Len(t.ret) <= c /\ Len(t.ret) \in Nat
        <5>1. c <= Len(p)
          BY <2>1, Zenon
        <5>2. PICK R \in Nat, L \in Nat :
                R = Len(ret) /\ R <= c - 1 /\ Len(t.ret) = R + 1 /\ L = Len(p)
          BY <1>1, <2>2, <3>3, Zenon
        <5>3. c + 1 <= L + 1 /\ R + 1 <= c /\ R + 1 \in Nat
          BY <5>1, <5>2
        <5>4. QED
          BY <5>2, <5>3, Zenon
      <4>4. Larger(top, Len(ret) + 1) <= Bound(p, c + 1) /\ Len(t.ret) <= Bound(p, c + 1)
        BY <4>1, <4>2, <4>3
      <4>5. QED
        BY <4>3, <4>4, Zenon DEF Near
    <3>6. QED
      BY <3>4, <3>5, Zenon DEF NearStates
  <2>4. CASE Keeps(p, s, t)
    <3>1. IsDots(p, c) /\ t.cursor = Behind(p, c) /\ t.top = Larger(top, Len(ret) + 3)
      BY <2>1, <2>4, Zenon DEF Keeps
    <3>2. PICK x : x = At(p, c + 2)
      OBVIOUS
    <3>3. x \in {"/", NUL} /\ x \in Chars
      BY <3>1, <3>2 DEF IsDots, Chars
    <3>4. <<".", ".", x>> \in Text /\ Len(<<".", ".", x>>) = 3
      <4>1. "." \in Chars
        BY DEF Chars
      <4>2. QED
        BY <3>3, <4>1 DEF Text
    <3>5. Follows(t.ret, ret, <<".", ".", x>>)
      BY <2>1, <2>4, <3>2, <3>4, Concat DEF Keeps
    <3>6. Len(t.ret) = Len(ret) + 3
      BY <3>4, <3>5 DEF Follows
    <3>7. CASE x = NUL
      <4>1. c + 2 = Len(p) + 1 /\ Behind(p, c) = c + 2 /\ p[c] = "." /\ p[c + 1] = "."
        BY <3>1, <3>2, <3>7, BehindFacts
      <4>2. Len(p) = c + 1 /\ Len(p) - 1 = c
        BY <1>1, <4>1
      <4>3. EndsInDots(p)
        <5>1. c \in Nat /\ c >= 1 /\ c + 1 = Len(p)
          BY <1>1, <2>1, <4>2
        <5>2. Len(p) >= 2
          BY <5>1
        <5>3. p[Len(p)] = "." /\ p[Len(p) - 1] = "."
          BY <4>1, <4>2, <5>1, Zenon
        <5>4. QED
          BY <5>2, <5>3, Zenon DEF EndsInDots
      <4>4. Near(p, c + 2, t.ret, Larger(top, Len(ret) + 3))
        <5>1. c + 2 <= Len(p) + 1 /\ c + 2 > Len(p)
          BY <1>1, <4>2
        <5>2. Bound(p, c + 2) = c + 2
          BY <4>3, <5>1, Zenon DEF Bound
        <5>3. PICK R \in Nat : R = Len(ret) /\ R <= c - 1 /\ Len(t.ret) = R + 3
          BY <2>2, <3>6, Zenon
        <5>4. R + 3 <= c + 2 /\ Larger(top, R + 3) <= c + 2
          BY <2>2, <5>3 DEF Larger
        <5>5. QED
          BY <5>1, <5>2, <5>3, <5>4, Zenon DEF Near
      <4>5. QED
        BY <3>1, <4>1, <4>4, Zenon DEF NearStates
    <3>8. CASE x # NUL
      <4>1. c + 2 <= Len(p) /\ Behind(p, c) = c + 3
        BY <3>1, <3>2, <3>8, BehindFacts
      <4>2. Bound(p, c + 3) \in Int /\ Bound(p, c + 3) >= c + 2
        BY DEF Bound
      <4>3. Larger(top, Len(ret) + 3) \in Nat /\ Larger(top, Len(ret) + 3) <= c + 2
        BY <2>2 DEF Larger
      <4>4. c + 3 <= Len(p) + 1 /\ Len(t.ret) <= c + 2 /\ Len(t.ret) \in Nat
        BY <1>1, <2>2, <3>6, <4>1
      <4>5. Near(p, c + 3, t.ret, Larger(top, Len(ret) + 3))
        BY <4>2, <4>3, <4>4 DEF Near
      <4>6. QED
        BY <3>1, <4>1, <4>5, Zenon DEF NearStates
    <3>9. QED
      BY <3>7, <3>8
  <2>5. CASE Pops(p, s, t)
    <3>1. IsDots(p, c) /\ Len(ret) >= 2 /\ t.cursor = Behind(p, c) /\ t.ret = Parent(ret) /\ t.top = top
      BY <2>1, <2>5 DEF Pops
    <3>2. PICK e : IsParent(t.ret, ret, e)
      BY <3>1, ParentFacts
    <3>3. e \in 0 .. Len(ret) - 1 /\ Len(t.ret) = e
      BY <3>2 DEF IsParent
    <3>4. Behind(p, c) \in Nat /\ Behind(p, c) >= c + 2 /\ Behind(p, c) <= Len(p) + 1
      BY <1>1, <2>1, <3>1, BehindFacts
    <3>5. Near(p, Behind(p, c), t.ret, top)
      <4>1. PICK x \in Nat : x = Behind(p, c) /\ x >= c + 2 /\ x <= Len(p) + 1
        BY <3>4
      <4>2. Bound(p, x) \in Int /\ Bound(p, x) >= x - 1
        BY DEF Bound
      <4>3. Len(t.ret) <= x - 1 /\ top <= x - 1 /\ Len(t.ret) \in Nat
        BY <2>2, <3>3, <4>1
      <4>4. Near(p, x, t.ret, top)
        BY <4>1, <4>2, <4>3 DEF Near
      <4>5. QED
        BY <4>1, <4>4
    <3>6. QED
      BY <3>1, <3>5, Zenon DEF NearStates
  <2>6. QED
    BY <1>3, <2>3, <2>4, <2>5
<1>4. Kept(p, NearStates(p))
  BY <1>3, Zenon DEF Kept
<1>5. QED
  BY <1>2, <1>4

(* normpath of any path stays in the buffer, but for the NUL of a .. at    *)
(* the end.                                                                *)
LEMMA NormNear ==
  ASSUME NEW p, Plain(p), NEW size \in Nat, NEW n, n = Normpath(p, size), n.ok
  PROVE  Fits(n, IF EndsInDots(p) THEN size + 1 ELSE size)
<1>1. Len(p) \in Nat
  BY PlainText
<1>2. PICK end, ret : end = Run(p)[Len(p)] /\ ret = IF end.ret = <<>> THEN <<".", "/">> ELSE end.ret
  OBVIOUS
<1>3. /\ Len(p) < size /\ end.ok /\ n.path = Ended(ret) /\ n.top = Larger(end.top, Len(ret) + 1)
      /\ end.ret = <<>> => size > 2
  <2>1. /\ ~(Len(p) >= size) /\ end.ok /\ n.path = Ended(ret) /\ n.top = Larger(end.top, Len(ret) + 1)
        /\ ~(end.ret = <<>> /\ size <= 2)
    <3>1. NormEnd(p, size, n)
      BY NormpathIs, Zenon
    <3>2. QED
      BY <1>2, <3>1, Zenon DEF NormEnd
  <2>2. QED
    BY <1>1, <2>1
<1>4. NearStates(p) \in SUBSET NormState
  BY DEF NearStates
<1>5. end \in NearStates(p)
  <2>1. Begin(p) \in NearStates(p) /\ Kept(p, NearStates(p))
    BY NearKept
  <2>2. QED
    BY <1>2, <1>3, <1>4, <2>1, RunKeeps, Zenon
<1>6. /\ end.top \in Nat /\ end.ret \in Text /\ end.cursor \in Nat
      /\ Near(p, end.cursor, end.ret, end.top)
  BY <1>5 DEF NearStates, NormState
<1>7. PICK most \in Nat : most = IF EndsInDots(p) THEN size + 1 ELSE size
  OBVIOUS
<1>8. Len(end.ret) \in Nat /\ end.top < most /\ Len(end.ret) < most
  <2>1. PICK c \in Nat, x \in Nat, y \in Text : c = end.cursor /\ x = end.top /\ y = end.ret
    BY <1>6
  <2>2. PICK bound \in Int : bound = Bound(p, c)
    <3>1. Bound(p, c) \in Int
      BY DEF Bound
    <3>2. QED
      BY <3>1
  <2>3. c <= Len(p) + 1 /\ Len(y) <= bound /\ x <= bound /\ Len(y) \in Nat
    BY <1>6, <2>1, <2>2, TextFacts DEF Near
  <2>4. bound < most
    BY <1>1, <1>3, <1>7, <2>2, <2>3 DEF Bound
  <2>5. QED
    BY <2>1, <2>3, <2>4
<1>9. ret \in Text /\ ret # <<>> /\ Len(ret) \in Nat /\ Len(ret) < most
  <2>1. CASE end.ret = <<>>
    <3>1. ret = <<".", "/">>
      BY <1>2, <2>1
    <3>2. "." \in Chars /\ "/" \in Chars
      BY DEF Chars
    <3>3. QED
      BY <1>3, <1>7, <2>1, <3>1, <3>2 DEF Text
  <2>2. CASE end.ret # <<>>
    BY <1>2, <1>6, <1>8, <2>2
  <2>3. QED
    BY <2>1, <2>2
<1>10. Len(Ended(ret)) \in Nat /\ Len(Ended(ret)) <= Len(ret)
  BY <1>9, EndedFacts, TextFacts
<1>11. Fits(n, most)
  BY <1>3, <1>6, <1>8, <1>9, <1>10 DEF Larger, Fits
<1>12. QED
  BY <1>7, <1>11

(* A place behind a path that is empty or ends in a separator, with one    *)
(* more name and perhaps a separator.                                      *)
LEMMA NamePlace ==
  ASSUME NEW u \in Text, u = <<>> \/ u[Len(u)] = "/",
         NEW r, Plain(r), r # <<>>, Slashless(r),
         NEW z \in Text, Follows(z, u, r) \/ Follows(z, u, Append(r, "/"))
  PROVE  Place(z) = Step(Place(u), r)
<1>1. r \in Text /\ Names(r) = <<r>> /\ Len(r) > 0 /\ Len(r) \in Nat
  BY OnlyName, PlainText
<1>2. r[1] # "/"
  BY <1>1 DEF Slashless
<1>3. CASE Follows(z, u, r)
  <2>1. OneMore(z, u, r, r)
    BY <1>1, <1>2, <1>3 DEF OneMore
  <2>2. QED
    BY <2>1, OneStep
<1>4. CASE Follows(z, u, Append(r, "/"))
  <2>1. PICK y : y = Append(r, "/") /\ y \in Text /\ Names(y) = <<r>>
    BY <1>1, NamesSlash
  <2>2. "/" \in Chars
    BY DEF Chars
  <2>3. Len(y) = Len(r) + 1 /\ \A i \in 1 .. Len(r) : y[i] = r[i]
    BY <1>1, <2>1, <2>2, AppendProperties DEF Text
  <2>4. y # <<>> /\ y[1] # "/"
    BY <1>1, <1>2, <2>3
  <2>5. Follows(z, u, y)
    BY <1>4, <2>1
  <2>6. QED
    <3>1. OneMore(z, u, y, r)
      BY <1>1, <2>1, <2>4, <2>5 DEF OneMore
    <3>2. QED
      BY <3>1, OneStep
<1>5. QED
  BY <1>3, <1>4

(* .. behind a name leads back. *)
LEMMA StepBack ==
  ASSUME NEW s \in Spot, NEW name \in Text, name # <<".">>, name # <<".", ".">>
  PROVE  Step(Step(s, name), <<".", ".">>) = s
<1>1. PICK t : t = Step(s, name)
  OBVIOUS
<1>2. s.down \in TextSeq
  BY DEF Spot
<1>3. t = [s EXCEPT !.down = Append(s.down, name)]
  BY <1>1, Zenon DEF Step
<1>4. PICK d : d = Append(s.down, name) /\ d \in TextSeq /\ d # <<>> /\ Front(d) = s.down
  <2>1. Append(s.down, name) \in TextSeq /\ Append(s.down, name) # <<>>
    BY <1>2, AppendProperties DEF TextSeq
  <2>2. Front(Append(s.down, name)) = s.down
    <3>1. PICK a \in TextSeq, d \in TextSeq : a = s.down /\ d = Append(a, name)
      BY <1>2, <2>1
    <3>2. Len(a) \in Nat /\ Len(d) = Len(a) + 1 /\ \A i \in 1 .. Len(a) : d[i] = a[i]
      BY <3>1, AppendProperties DEF TextSeq
    <3>3. Len(d) - 1 = Len(a) /\ 1 \in Int /\ Len(a) \in Int /\ \A i \in 1 .. Len(a) : d[i] \in Text
      BY <3>2 DEF TextSeq
    <3>4. PICK f : f = SubSeq(d, 1, Len(a))
      OBVIOUS
    <3>5. /\ f \in Seq(Text) /\ Len(f) = (IF 1 <= Len(a) THEN Len(a) - 1 + 1 ELSE 0)
          /\ \A i \in 1 .. Len(a) - 1 + 1 : f[i] = d[1 + i - 1]
      BY <3>3, <3>4, SubSeqProperties
    <3>6. Len(f) = Len(a)
      BY <3>2, <3>5
    <3>7. ASSUME NEW i \in 1 .. Len(f) PROVE f[i] = a[i]
      <4>1. i \in 1 .. Len(a) - 1 + 1 /\ 1 + i - 1 = i /\ i \in 1 .. Len(a)
        BY <3>2, <3>6
      <4>2. QED
        BY <3>2, <3>5, <4>1
    <3>8. f = a
      BY <3>5, <3>6, <3>7, SeqEqual DEF TextSeq
    <3>9. QED
      BY <3>1, <3>3, <3>4, <3>8, Zenon DEF Front
  <2>3. QED
    BY <2>1, <2>2, Zenon
<1>5. t \in Spot /\ t.down = d /\ t.root = s.root /\ t.up = s.up
  BY <1>3, <1>4 DEF Spot
<1>6. <<".", ".">> # <<".">>
  OBVIOUS
<1>7. Step(t, <<".", ".">>) = [t EXCEPT !.down = Front(t.down)]
  BY <1>4, <1>5, <1>6, Zenon DEF Step
<1>8. Step(t, <<".", ".">>) = [t EXCEPT !.down = s.down]
  BY <1>4, <1>5, <1>7
<1>9. [t EXCEPT !.down = s.down] = s
  BY <1>2, <1>5 DEF Spot
<1>10. QED
  BY <1>1, <1>8, <1>9

(* r is what x has behind a, up to b. *)
Piece(r, x, a, b) == r \in Text /\ Len(r) = b - a /\ \A i \in 1 .. b - a : r[i] = x[a + i]

(* SubSeq takes pieces. *)
LEMMA SomePiece ==
  ASSUME NEW x \in Text, NEW a \in Nat, NEW b \in Nat, a <= b, b <= Len(x)
  PROVE  Piece(SubSeq(x, a + 1, b), x, a, b)
<1>1. Len(x) \in Nat
  BY TextFacts
<1>2. \A i \in a + 1 .. b : i \in 1 .. Len(x)
  BY <1>1
<1>3. \A i \in a + 1 .. b : x[i] \in Chars
  BY <1>2 DEF Text
<1>4. PICK m \in Int : m = a + 1
  OBVIOUS
<1>5. PICK r : r = SubSeq(x, m, b)
  OBVIOUS
<1>6. /\ r \in Seq(Chars) /\ Len(r) = (IF m <= b THEN b - m + 1 ELSE 0)
      /\ \A i \in 1 .. b - m + 1 : r[i] = x[m + i - 1]
  BY <1>3, <1>4, <1>5, SubSeqProperties
<1>7. Len(r) = b - a
  BY <1>4, <1>6
<1>8. ASSUME NEW i \in 1 .. b - a PROVE r[i] = x[a + i]
  <2>1. i \in 1 .. b - m + 1 /\ m + i - 1 = a + i
    BY <1>4
  <2>2. QED
    BY <1>6, <2>1
<1>9. QED
  BY <1>4, <1>5, <1>6, <1>7, <1>8 DEF Piece, Text

(* A piece and the next one are one piece. *)
LEMMA PieceFollows ==
  ASSUME NEW x, NEW a \in Nat, NEW b \in Nat, NEW c \in Nat, a <= b, b <= c,
         NEW u, NEW r, NEW z, Piece(u, x, a, b), Piece(r, x, b, c), Piece(z, x, a, c)
  PROVE  Follows(z, u, r)
<1>1. Len(z) = Len(u) + Len(r) /\ Len(u) = b - a /\ Len(r) = c - b
  BY DEF Piece
<1>2. ASSUME NEW i \in 1 .. Len(u) PROVE z[i] = u[i]
  <2>1. i \in 1 .. b - a /\ i \in 1 .. c - a
    BY <1>1
  <2>2. QED
    BY <2>1 DEF Piece
<1>3. ASSUME NEW i \in 1 .. Len(r) PROVE z[Len(u) + i] = r[i]
  <2>1. i \in 1 .. c - b /\ Len(u) + i \in 1 .. c - a /\ a + (Len(u) + i) = b + i
    BY <1>1
  <2>2. r[i] = x[b + i] /\ z[Len(u) + i] = x[a + (Len(u) + i)]
    BY <2>1 DEF Piece
  <2>3. QED
    BY <2>1, <2>2
<1>4. QED
  BY <1>1, <1>2, <1>3 DEF Follows

(* A piece is given by where it begins and ends. *)
LEMMA PieceSame ==
  ASSUME NEW r, NEW s, NEW x, NEW a, NEW b, Piece(r, x, a, b), Piece(s, x, a, b)
  PROVE  r = s
<1>1. r \in Text /\ s \in Text /\ Len(r) = Len(s) /\ Len(r) = b - a
  BY DEF Piece
<1>2. \A i \in 1 .. Len(r) : r[i] = s[i]
  BY <1>1 DEF Piece
<1>3. QED
  BY <1>1, <1>2, SeqEqual DEF Text

(* A piece of a plain text is plain. *)
LEMMA PiecePlain ==
  ASSUME NEW x, Plain(x), NEW a \in Nat, NEW b \in Nat, a <= b, b <= Len(x), NEW r, Piece(r, x, a, b)
  PROVE  Plain(r)
<1>1. r \in Text /\ Len(r) = b - a /\ DOMAIN r = 1 .. Len(r) /\ Len(x) \in Nat
  BY PlainText, TextFacts DEF Piece
<1>2. ASSUME NEW i \in DOMAIN r PROVE r[i] \notin {NUL, "\\", ":"}
  <2>1. i \in 1 .. b - a /\ a + i \in 1 .. Len(x)
    BY <1>1
  <2>2. QED
    BY <2>1, PlainText DEF Piece
<1>3. QED
  BY <1>1, <1>2 DEF Plain

(* A piece up to a separator, and with it. *)
LEMMA PieceSlash ==
  ASSUME NEW r, NEW x, NEW a \in Nat, NEW b \in Nat, a <= b, Piece(r, x, a, b), x[b + 1] = "/"
  PROVE  Piece(Append(r, "/"), x, a, b + 1)
<1>1. PICK w : w = Append(r, "/")
  OBVIOUS
<1>2. "/" \in Chars /\ r \in Text /\ Len(r) = b - a
  BY DEF Chars, Piece
<1>3. w \in Text /\ Len(w) = Len(r) + 1 /\ w[Len(r) + 1] = "/" /\ \A i \in 1 .. Len(r) : w[i] = r[i]
  BY <1>1, <1>2, AppendProperties DEF Text
<1>4. ASSUME NEW i \in 1 .. (b + 1) - a PROVE w[i] = x[a + i]
  <2>1. CASE i = Len(r) + 1
    <3>1. a + i = b + 1
      BY <1>2, <2>1
    <3>2. QED
      BY <1>3, <2>1, <3>1
  <2>2. CASE i # Len(r) + 1
    <3>1. i \in 1 .. Len(r) /\ i \in 1 .. b - a
      BY <1>2, <2>2
    <3>2. QED
      BY <1>3, <3>1 DEF Piece
  <2>3. QED
    BY <2>1, <2>2
<1>5. Len(w) = (b + 1) - a
  BY <1>2, <1>3
<1>6. QED
  BY <1>1, <1>3, <1>4, <1>5 DEF Piece

(* The first characters are a piece. *)
LEMMA FirstPiece ==
  ASSUME NEW x \in Text, NEW m \in Nat, m <= Len(x)
  PROVE  Piece(SubSeq(x, 1, m), x, 0, m)
<1>1. 0 + 1 = 1 /\ 0 \in Nat /\ 0 <= m
  OBVIOUS
<1>2. Piece(SubSeq(x, 0 + 1, m), x, 0, m)
  BY <1>1, SomePiece
<1>3. QED
  BY <1>1, <1>2

(* ret, here x, and the path p up to c are the same behind separators at m *)
(* and j, and lead to the same place before.                               *)
HalfAt(p, c, x, m, j) ==
  /\ m \in 0 .. Len(x) /\ j \in 0 .. Len(p) /\ j + (Len(x) - m) = c - 1
  /\ m = 0 \/ x[m] = "/"
  /\ \A i \in m + 1 .. Len(x) : x[i] # "/"
  /\ j = 0 \/ p[j] = "/" \/ j = Len(p)
  /\ \A i \in 1 .. Len(x) - m : x[m + i] = p[j + i]
  /\ Place(SubSeq(x, 1, m)) = Place(SubSeq(p, 1, j))

(* No name of x that ends in a separator is empty or a dot. *)
Clean(x) ==
  \A i \in 2 .. Len(x) : x[i] = "/" =>
    x[i - 1] # "/" /\ ~(x[i - 1] = "." /\ (i = 2 \/ x[i - 2] = "/"))

(* The invariant of the loop of normpath on a tidy path: x, which has been *)
(* kept of the path before c, has no empty name and no dot, and leads      *)
(* where that part of the path leads.                                      *)
TidyAt(p, c, x) ==
  /\ Plain(x) /\ Clean(x)
  /\ c \in Nat /\ c >= FirstAt(p) /\ c <= Len(p) + 1 /\ (c = 1 => x = <<>>)
  /\ \E m, j : HalfAt(p, c, x, m, j)

(* The name behind m, with what follows it in p. *)
LEMMA HalfName ==
  ASSUME NEW p, Plain(p), NEW c \in Nat, NEW x, Plain(x), NEW m, NEW j, HalfAt(p, c, x, m, j), m # Len(x),
         c <= Len(p) + 1
  PROVE  \E r : /\ Plain(r) /\ r # <<>> /\ Slashless(r)
                /\ Piece(r, x, m, Len(x)) /\ Piece(r, p, j, c - 1)
                /\ j = 0 \/ p[j] = "/"
<1>1. Len(p) \in Nat /\ Len(x) \in Nat /\ x \in Text
  BY PlainText
<1>2. m \in Nat /\ j \in Nat /\ m < Len(x) /\ j < c - 1 /\ c - 1 \in Nat /\ c - 1 <= Len(p) /\ (c - 1) - j = Len(x) - m
  BY <1>1 DEF HalfAt
<1>3. PICK r : Piece(r, x, m, Len(x))
  BY <1>1, <1>2, SomePiece
<1>4. Plain(r)
  BY <1>1, <1>2, <1>3, PiecePlain
<1>5. Len(r) = Len(x) - m /\ r # <<>>
  BY <1>1, <1>2, <1>3 DEF Piece
<1>6. Slashless(r)
  <2>1. ASSUME NEW i \in 1 .. Len(r) PROVE r[i] # "/"
    <3>1. i \in 1 .. Len(x) - m /\ m + i \in m + 1 .. Len(x)
      BY <1>1, <1>2, <1>5
    <3>2. QED
      BY <1>3, <3>1 DEF Piece, HalfAt
  <2>2. QED
    BY <2>1 DEF Slashless
<1>7. Piece(r, p, j, c - 1)
  BY <1>2, <1>3 DEF Piece, HalfAt
<1>8. j = 0 \/ p[j] = "/"
  BY <1>1, <1>2 DEF HalfAt
<1>9. QED
  BY <1>3, <1>4, <1>5, <1>6, <1>7, <1>8

(* A copied character that is no separator. *)
LEMMA CopyLetter ==
  ASSUME NEW p, Plain(p), NEW c \in Nat, c <= Len(p), c >= 1, NEW x, Plain(x), NEW m, NEW j, HalfAt(p, c, x, m, j),
         NEW y \in Text, Follows(y, x, <<p[c]>>), p[c] # "/"
  PROVE  HalfAt(p, c + 1, y, m, j)
<1>1. Len(p) \in Nat /\ Len(x) \in Nat /\ x \in Text /\ p \in Text
  BY PlainText
<1>2. m \in Nat /\ j \in Nat /\ m <= Len(x) /\ j <= Len(p)
  BY <1>1 DEF HalfAt
<1>3. Len(y) = Len(x) + 1 /\ (\A i \in 1 .. Len(x) : y[i] = x[i]) /\ y[Len(x) + 1] = p[c]
  <2>1. Len(<<p[c]>>) = 1 /\ <<p[c]>>[1] = p[c] /\ 1 \in 1 .. 1
    OBVIOUS
  <2>2. QED
    BY <2>1 DEF Follows
<1>4. m \in 0 .. Len(y) /\ j + (Len(y) - m) = (c + 1) - 1 /\ (m = 0 \/ y[m] = "/")
  BY <1>1, <1>2, <1>3 DEF HalfAt
<1>5. ASSUME NEW i \in m + 1 .. Len(y) PROVE y[i] # "/"
  <2>1. i = Len(x) + 1 \/ (i \in m + 1 .. Len(x) /\ i \in 1 .. Len(x))
    BY <1>1, <1>2, <1>3
  <2>2. QED
    BY <1>3, <2>1 DEF HalfAt
<1>6. ASSUME NEW i \in 1 .. Len(y) - m PROVE y[m + i] = p[j + i]
  <2>1. CASE m + i = Len(x) + 1
    <3>1. j + i = c
      BY <1>1, <1>2, <2>1 DEF HalfAt
    <3>2. QED
      BY <1>3, <2>1, <3>1
  <2>2. CASE m + i # Len(x) + 1
    <3>1. i \in 1 .. Len(x) - m /\ m + i \in 1 .. Len(x)
      BY <1>1, <1>2, <1>3, <2>2
    <3>2. QED
      BY <1>3, <3>1 DEF HalfAt
  <2>3. QED
    BY <2>1, <2>2
<1>7. SubSeq(y, 1, m) = SubSeq(x, 1, m)
  <2>1. PICK u : u = SubSeq(x, 1, m)
    OBVIOUS
  <2>2. Piece(u, x, 0, m)
    BY <1>1, <1>2, <2>1, FirstPiece
  <2>3. PICK v : v = SubSeq(y, 1, m)
    OBVIOUS
  <2>4. Piece(v, y, 0, m)
    BY <1>1, <1>2, <1>3, <2>3, FirstPiece
  <2>5. \A i \in 1 .. m - 0 : 0 + i = i /\ i \in 1 .. Len(x)
    BY <1>1, <1>2
  <2>6. Piece(u, y, 0, m)
    BY <1>3, <2>2, <2>5 DEF Piece
  <2>7. QED
    BY <2>1, <2>3, <2>4, <2>6, PieceSame
<1>8. Place(SubSeq(y, 1, m)) = Place(SubSeq(p, 1, j))
  BY <1>7 DEF HalfAt
<1>9. j \in 0 .. Len(p) /\ (j = 0 \/ p[j] = "/" \/ j = Len(p))
  BY DEF HalfAt
<1>10. QED
  BY <1>4, <1>5, <1>6, <1>8, <1>9 DEF HalfAt

(* One more name of x, behind a separator at m, leads one step on. *)
LEMMA NameOn ==
  ASSUME NEW x \in Text, NEW m \in Nat, NEW b \in Nat, m <= b, b <= Len(x), m = 0 \/ x[m] = "/",
         NEW r, Plain(r), r # <<>>, Slashless(r), Piece(r, x, m, b) \/ Piece(Append(r, "/"), x, m, b)
  PROVE  Place(SubSeq(x, 1, b)) = Step(Place(SubSeq(x, 1, m)), r)
<1>1. PICK u, z : u = SubSeq(x, 1, m) /\ z = SubSeq(x, 1, b)
  OBVIOUS
<1>2. Len(x) \in Nat /\ m <= Len(x) /\ 0 \in Nat /\ 0 <= m
  BY TextFacts
<1>3. Piece(u, x, 0, m) /\ Piece(z, x, 0, b)
  BY <1>1, <1>2, FirstPiece
<1>4. Follows(z, u, r) \/ Follows(z, u, Append(r, "/"))
  <2>1. CASE Piece(r, x, m, b)
    BY <1>2, <1>3, <2>1, PieceFollows
  <2>2. CASE Piece(Append(r, "/"), x, m, b)
    BY <1>2, <1>3, <2>2, PieceFollows
  <2>3. QED
    BY <2>1, <2>2
<1>5. u \in Text /\ z \in Text
  BY <1>3 DEF Piece
<1>6. u = <<>> \/ u[Len(u)] = "/"
  <2>1. Len(u) = m
    BY <1>2, <1>3 DEF Piece
  <2>2. CASE m = 0
    BY <1>5, <2>1, <2>2 DEF Text
  <2>3. CASE m # 0
    <3>1. m \in 1 .. m - 0 /\ 0 + m = m
      BY <2>3
    <3>2. u[m] = x[m]
      BY <1>3, <3>1 DEF Piece
    <3>3. QED
      BY <2>1, <2>3, <3>2
  <2>4. QED
    BY <2>2, <2>3
<1>7. QED
  BY <1>1, <1>4, <1>5, <1>6, NamePlace

(* A separator behind a name, in ret and in the path. *)
LEMMA CopySlash ==
  ASSUME NEW p, Plain(p), Tidy(p), NEW c \in Nat, c <= Len(p), c >= 1, NEW x, Plain(x), NEW m, NEW j,
         HalfAt(p, c, x, m, j), c = 1 => x = <<>>,
         NEW y \in Text, Follows(y, x, <<p[c]>>), p[c] = "/"
  PROVE  HalfAt(p, c + 1, y, Len(x) + 1, c) /\ (m = Len(x) => x = <<>>)
<1>1. Len(p) \in Nat /\ Len(x) \in Nat /\ x \in Text /\ p \in Text
  BY PlainText
<1>2. m \in Nat /\ j \in Nat /\ m <= Len(x) /\ j <= Len(p)
  BY <1>1 DEF HalfAt
<1>3. Len(y) = Len(x) + 1 /\ (\A i \in 1 .. Len(x) : y[i] = x[i]) /\ y[Len(x) + 1] = p[c]
  <2>1. Len(<<p[c]>>) = 1 /\ <<p[c]>>[1] = p[c] /\ 1 \in 1 .. 1
    OBVIOUS
  <2>2. QED
    BY <2>1 DEF Follows
<1>4. (m = Len(x) => x = <<>>) /\ Place(SubSeq(y, 1, Len(x) + 1)) = Place(SubSeq(p, 1, c))
  <2>1. CASE m = Len(x)
    <3>1. j = c - 1
      BY <1>1, <1>2, <2>1 DEF HalfAt
    <3>2. j = 0
      <4>1. SUFFICES ASSUME j # 0 PROVE FALSE
        OBVIOUS
      <4>2. p[j] = "/" /\ j \in 1 .. Len(p) /\ j + 1 = c
        BY <1>1, <1>2, <3>1, <4>1 DEF HalfAt
      <4>3. At(p, j + 1) # "/"
        BY <1>1, <4>2, PlainText DEF Tidy
      <4>4. QED
        BY <1>1, <4>2, <4>3, TextFacts
    <3>3. c = 1 /\ x = <<>> /\ Len(x) = 0
      BY <1>1, <3>1, <3>2
    <3>4. PICK u : u = SubSeq(p, 1, 1)
      OBVIOUS
    <3>5. PICK v : v = SubSeq(y, 1, 1)
      OBVIOUS
    <3>6. Piece(u, p, 0, 1) /\ Piece(v, y, 0, 1)
      <4>1. 1 \in Nat /\ 1 <= Len(p) /\ 1 <= Len(y)
        BY <1>1, <1>3, <3>3
      <4>2. QED
        BY <1>1, <3>4, <3>5, <4>1, FirstPiece
    <3>7. Piece(u, y, 0, 1)
      <4>1. \A i \in 1 .. 1 - 0 : i = 1 /\ 0 + i = 1
        OBVIOUS
      <4>2. y[1] = p[1]
        BY <1>3, <3>3
      <4>3. QED
        BY <3>6, <4>1, <4>2 DEF Piece
    <3>8. u = v
      BY <3>6, <3>7, PieceSame
    <3>9. Len(x) + 1 = 1
      BY <3>3
    <3>10. SubSeq(y, 1, Len(x) + 1) = SubSeq(p, 1, c)
      BY <3>3, <3>4, <3>5, <3>8, <3>9, Zenon
    <3>11. QED
      BY <3>3, <3>10, Zenon
  <2>2. CASE m # Len(x)
    <3>1. PICK r : /\ Plain(r) /\ r # <<>> /\ Slashless(r)
                   /\ Piece(r, x, m, Len(x)) /\ Piece(r, p, j, c - 1)
                   /\ j = 0 \/ p[j] = "/"
      BY <1>1, <2>2, HalfName
    <3>2. m <= Len(x) /\ j <= c - 1 /\ c - 1 \in Nat /\ (c - 1) + 1 = c
      BY <1>1, <1>2 DEF HalfAt
    <3>3. Piece(r, y, m, Len(x))
      <4>1. \A i \in 1 .. Len(x) - m : m + i \in 1 .. Len(x)
        BY <1>1, <1>2
      <4>2. QED
        BY <1>3, <3>1, <4>1 DEF Piece
    <3>4. PICK w : w = Append(r, "/")
      OBVIOUS
    <3>5. Piece(w, y, m, Len(x) + 1)
      BY <1>1, <1>2, <1>3, <3>2, <3>3, <3>4, PieceSlash
    <3>6. Piece(w, p, j, c)
      BY <1>2, <3>1, <3>2, <3>4, PieceSlash
    <3>7. m = 0 \/ y[m] = "/"
      BY <1>1, <1>2, <1>3 DEF HalfAt
    <3>8. Place(SubSeq(y, 1, Len(x) + 1)) = Step(Place(SubSeq(y, 1, m)), r)
      <4>1. Len(x) + 1 \in Nat /\ m <= Len(x) + 1 /\ Len(x) + 1 <= Len(y)
        BY <1>1, <1>2, <1>3
      <4>2. QED
        BY <1>2, <3>1, <3>4, <3>5, <3>7, <4>1, NameOn
    <3>9. Place(SubSeq(p, 1, c)) = Step(Place(SubSeq(p, 1, j)), r)
      <4>1. j <= c
        BY <1>2, <3>2
      <4>2. QED
        BY <1>1, <1>2, <3>1, <3>4, <3>6, <4>1, NameOn
    <3>10. SubSeq(y, 1, m) = SubSeq(x, 1, m)
      <4>1. PICK u, v : u = SubSeq(x, 1, m) /\ v = SubSeq(y, 1, m)
        OBVIOUS
      <4>2. Piece(u, x, 0, m) /\ Piece(v, y, 0, m)
        BY <1>1, <1>2, <1>3, <4>1, FirstPiece
      <4>3. \A i \in 1 .. m - 0 : 0 + i = i /\ i \in 1 .. Len(x)
        BY <1>1, <1>2
      <4>4. Piece(u, y, 0, m)
        BY <1>3, <4>2, <4>3 DEF Piece
      <4>5. QED
        BY <4>1, <4>2, <4>4, PieceSame
    <3>11. Place(SubSeq(x, 1, m)) = Place(SubSeq(p, 1, j))
      BY DEF HalfAt
    <3>12. QED
      BY <2>2, <3>8, <3>9, <3>10, <3>11
  <2>3. QED
    BY <2>1, <2>2
<1>5. /\ Len(x) + 1 \in 0 .. Len(y) /\ c \in 0 .. Len(p) /\ c + (Len(y) - (Len(x) + 1)) = (c + 1) - 1
      /\ y[Len(x) + 1] = "/" /\ p[c] = "/"
      /\ \A i \in (Len(x) + 1) + 1 .. Len(y) : y[i] # "/"
      /\ \A i \in 1 .. Len(y) - (Len(x) + 1) : y[(Len(x) + 1) + i] = p[c + i]
  BY <1>1, <1>3
<1>6. QED
  BY <1>4, <1>5 DEF HalfAt

(* A copied character keeps the invariant: in a tidy path a separator ends *)
(* a name, which leads one step on in both.                                *)
LEMMA CopyTidy ==
  ASSUME NEW p, Plain(p), Tidy(p), NEW c \in Nat, c <= Len(p), NEW x, TidyAt(p, c, x),
         NEW y \in Text, Follows(y, x, <<p[c]>>)
  PROVE  TidyAt(p, c + 1, y)
<1>1. PICK m, j : HalfAt(p, c, x, m, j)
  BY DEF TidyAt
<1>2. Plain(x) /\ Clean(x) /\ c >= FirstAt(p) /\ (c = 1 => x = <<>>)
  BY DEF TidyAt
<1>3. Len(p) \in Nat /\ Len(x) \in Nat /\ x \in Text /\ p \in Text
  BY <1>2, PlainText
<1>4. c >= 1 /\ FirstAt(p) \in {1, 3}
  BY <1>2, FirstFacts
<1>5. Len(y) = Len(x) + 1 /\ (\A i \in 1 .. Len(x) : y[i] = x[i]) /\ y[Len(x) + 1] = p[c]
  <2>1. Len(<<p[c]>>) = 1 /\ <<p[c]>>[1] = p[c] /\ 1 \in 1 .. 1
    OBVIOUS
  <2>2. QED
    BY <2>1 DEF Follows
<1>6. Plain(y)
  <2>1. c \in 1 .. Len(p)
    BY <1>3, <1>4
  <2>2. DOMAIN y = 1 .. Len(y)
    BY TextFacts
  <2>3. ASSUME NEW i \in 1 .. Len(y) PROVE y[i] \notin {NUL, "\\", ":"}
    <3>1. i = Len(x) + 1 \/ i \in 1 .. Len(x)
      BY <1>3, <1>5
    <3>2. QED
      BY <1>2, <1>5, <2>1, <3>1, PlainText
  <2>4. QED
    BY <2>2, <2>3 DEF Plain
<1>7. \E m2, j2 : HalfAt(p, c + 1, y, m2, j2)
  <2>1. CASE p[c] = "/"
    BY <1>1, <1>2, <1>4, <2>1, CopySlash
  <2>2. CASE p[c] # "/"
    BY <1>1, <1>2, <1>4, <2>2, CopyLetter
  <2>3. QED
    BY <2>1, <2>2
<1>8. Clean(y)
  <2>1. SUFFICES ASSUME NEW i \in 2 .. Len(y), y[i] = "/"
                 PROVE  y[i - 1] # "/" /\ ~(y[i - 1] = "." /\ (i = 2 \/ y[i - 2] = "/"))
    BY DEF Clean
  <2>2. CASE i # Len(x) + 1
    <3>1. i \in 2 .. Len(x) /\ i \in 1 .. Len(x) /\ i - 1 \in 1 .. Len(x) /\ (i # 2 => i - 2 \in 1 .. Len(x))
      BY <1>3, <1>5, <2>2
    <3>2. QED
      BY <1>2, <1>5, <2>1, <3>1 DEF Clean
  <2>3. CASE i = Len(x) + 1
    <3>1. p[c] = "/" /\ Len(x) >= 1 /\ x # <<>> /\ i - 1 = Len(x) /\ y[Len(x)] = x[Len(x)]
      BY <1>3, <1>5, <2>1, <2>3
    <3>2. m # Len(x)
      BY <1>1, <1>2, <1>4, <3>1, CopySlash
    <3>3. m \in Nat /\ j \in Nat /\ m < Len(x) /\ j + (Len(x) - m) = c - 1 /\ j <= Len(p)
      BY <1>1, <1>3, <3>2 DEF HalfAt
    <3>4. x[Len(x)] # "/"
      BY <1>1, <1>3, <3>3 DEF HalfAt
    <3>5. ASSUME x[Len(x)] = ".", i = 2 \/ y[i - 2] = "/" PROVE FALSE
      <4>1. m = Len(x) - 1
        <5>1. CASE i = 2
          BY <1>3, <2>3, <3>3, <5>1
        <5>2. CASE i # 2
          <6>1. i - 2 = Len(x) - 1 /\ i - 2 \in 1 .. Len(x)
            BY <1>3, <2>3, <3>1, <5>2
          <6>2. x[Len(x) - 1] = "/"
            BY <1>5, <3>5, <5>2, <6>1
          <6>3. Len(x) - 1 \notin m + 1 .. Len(x)
            BY <1>1, <6>2 DEF HalfAt
          <6>4. QED
            BY <1>3, <3>3, <6>3
        <5>3. QED
          BY <5>1, <5>2
      <4>2. j = c - 2 /\ p[j + 1] = "." /\ j + 1 = c - 1 /\ j + 1 \in 1 .. Len(p)
        <5>1. j = c - 2 /\ 1 \in 1 .. Len(x) - m /\ m + 1 = Len(x)
          BY <1>3, <3>3, <4>1
        <5>2. x[m + 1] = p[j + 1]
          BY <1>1, <5>1 DEF HalfAt
        <5>3. QED
          BY <1>3, <3>3, <3>5, <5>1, <5>2
      <4>3. CASE j = 0
        <5>1. c = 2 /\ p[1] = "." /\ p[2] = "/" /\ Len(p) >= 2
          BY <1>3, <3>1, <4>2, <4>3
        <5>2. FirstAt(p) = 3
          BY <5>1, FirstFacts
        <5>3. QED
          BY <1>2, <5>1, <5>2
      <4>4. CASE j # 0
        <5>1. j \in 1 .. Len(p) /\ j + 2 = c /\ j + 2 \in 1 .. Len(p)
          BY <1>3, <3>3, <4>2, <4>4
        <5>2. j # Len(p)
          BY <1>3, <5>1
        <5>3. p[j] = "/"
          BY <1>1, <4>4, <5>2 DEF HalfAt
        <5>4. At(p, j + 1) = "." /\ At(p, j + 2) = "/"
          BY <1>3, <3>1, <4>2, <5>1, TextFacts
        <5>5. QED
          BY <1>3, <5>1, <5>3, <5>4, PlainText DEF Tidy
      <4>5. QED
        BY <4>3, <4>4
    <3>6. QED
      BY <3>1, <3>4, <3>5
  <2>4. QED
    BY <2>2, <2>3
<1>9. c + 1 \in Nat /\ c + 1 >= FirstAt(p) /\ c + 1 <= Len(p) + 1 /\ c + 1 # 1
  BY <1>2, <1>3, <1>4
<1>10. QED
  BY <1>6, <1>7, <1>8, <1>9 DEF TidyAt

(* A .. that is kept. *)
LEMMA KeepTidy ==
  ASSUME NEW p, Plain(p), Tidy(p), NEW c \in Nat, NEW x, TidyAt(p, c, x), IsDots(p, c),
         NEW y \in Text, Follows(y, x, <<".", ".", At(p, c + 2)>>),
         NEW z, z = SubSeq(y, 1, Len(x) + 2)
  PROVE  /\ At(p, c + 2) = NUL => TidyAt(p, c + 2, z)
         /\ At(p, c + 2) # NUL => TidyAt(p, c + 3, y)
<1>1. x \in Text /\ Len(x) \in Nat /\ p \in Text /\ Len(p) \in Nat
  BY PlainText DEF TidyAt
<1>2. c \in Nat \ {0}
  BY FirstFacts DEF TidyAt
<1>3. c + 1 <= Len(p) /\ c <= Len(p) /\ p[c] = "." /\ p[c + 1] = "."
  BY <1>1, <1>2, BehindFacts
<1>4. PICK third : third = At(p, c + 2)
  OBVIOUS
<1>5. /\ Len(y) = Len(x) + 3 /\ (\A i \in 1 .. Len(x) : y[i] = x[i])
      /\ y[Len(x) + 1] = "." /\ y[Len(x) + 2] = "." /\ y[Len(x) + 3] = third
  <2>1. PICK s : s = <<".", ".", third>>
    OBVIOUS
  <2>2. Len(s) = 3 /\ s[1] = "." /\ s[2] = "." /\ s[3] = third /\ 1 \in 1 .. 3 /\ 2 \in 1 .. 3 /\ 3 \in 1 .. 3
    BY <2>1
  <2>3. Follows(y, x, s)
    BY <1>4, <2>1
  <2>4. QED
    BY <2>2, <2>3 DEF Follows
<1>6. PICK w : w = SubSeq(y, 1, Len(x) + 1)
  OBVIOUS
<1>7. w \in Text /\ Len(w) = Len(x) + 1 /\ (\A i \in 1 .. Len(x) + 1 : w[i] = y[i])
  BY <1>1, <1>5, <1>6, Prefix
<1>8. z \in Text /\ Len(z) = Len(x) + 2 /\ (\A i \in 1 .. Len(x) + 2 : z[i] = y[i])
  BY <1>1, <1>5, Prefix
<1>9. Follows(w, x, <<p[c]>>)
  <2>1. Len(<<p[c]>>) = 1 /\ <<p[c]>>[1] = p[c] /\ \A n \in 1 .. 1 : n = 1
    OBVIOUS
  <2>2. \A n \in 1 .. Len(x) : n \in 1 .. Len(x) + 1
    BY <1>1
  <2>3. Len(x) + 1 \in 1 .. Len(x) + 1
    BY <1>1
  <2>4. QED
    BY <1>3, <1>5, <1>7, <2>1, <2>2, <2>3 DEF Follows
<1>10. Follows(z, w, <<p[c + 1]>>)
  <2>1. Len(<<p[c + 1]>>) = 1 /\ <<p[c + 1]>>[1] = p[c + 1] /\ \A n \in 1 .. 1 : n = 1
    OBVIOUS
  <2>2. \A n \in 1 .. Len(w) : n \in 1 .. Len(x) + 1 /\ n \in 1 .. Len(x) + 2
    BY <1>1, <1>7
  <2>3. Len(w) + 1 = Len(x) + 2 /\ Len(x) + 2 \in 1 .. Len(x) + 2
    BY <1>1, <1>7
  <2>4. QED
    BY <1>3, <1>5, <1>7, <1>8, <2>1, <2>2, <2>3 DEF Follows
<1>11. TidyAt(p, c + 1, w)
  BY <1>3, <1>7, <1>9, CopyTidy
<1>12. TidyAt(p, c + 2, z)
  <2>1. c + 1 \in Nat /\ (c + 1) + 1 = c + 2
    OBVIOUS
  <2>2. TidyAt(p, (c + 1) + 1, z)
    BY <1>3, <1>8, <1>10, <1>11, <2>1, CopyTidy
  <2>3. QED
    BY <2>1, <2>2
<1>13. ASSUME third # NUL PROVE TidyAt(p, c + 3, y)
  <2>1. c + 2 \in Nat /\ (c + 2) + 1 = c + 3
    OBVIOUS
  <2>2. c + 2 <= Len(p) /\ p[c + 2] = third
    BY <1>2, <1>4, <1>13, BehindFacts
  <2>3. Follows(y, z, <<p[c + 2]>>)
    <3>1. Len(<<p[c + 2]>>) = 1 /\ <<p[c + 2]>>[1] = p[c + 2] /\ \A n \in 1 .. 1 : n = 1
      OBVIOUS
    <3>2. \A n \in 1 .. Len(z) : n \in 1 .. Len(x) + 2
      BY <1>8
    <3>3. Len(z) + 1 = Len(x) + 3
      BY <1>1, <1>8
    <3>4. QED
      BY <1>5, <1>8, <2>2, <3>1, <3>2, <3>3 DEF Follows
  <2>4. TidyAt(p, (c + 2) + 1, y)
    BY <1>12, <2>1, <2>2, <2>3, CopyTidy
  <2>5. QED
    BY <2>1, <2>4
<1>14. QED
  BY <1>4, <1>12, <1>13

(* A .. that takes a name away keeps it: the path goes back by the step by *)
(* which x gets shorter, as the name is not a dot or a .. itself.          *)
LEMMA PopTidy ==
  ASSUME NEW p, Plain(p), Tidy(p), NEW c \in Nat, NEW x, TidyAt(p, c, x), IsDots(p, c),
         ~AfterDots(x), Len(x) >= 2, x[Len(x)] \in Separators, NEW par, NEW e, IsParent(par, x, e)
  PROVE  TidyAt(p, Behind(p, c), par)
<1>1. PICK m, j : HalfAt(p, c, x, m, j)
  BY DEF TidyAt
<1>2. Plain(x) /\ Clean(x) /\ c >= FirstAt(p) /\ (c = 1 => x = <<>>)
  BY DEF TidyAt
<1>3. Len(p) \in Nat /\ Len(x) \in Nat /\ x \in Text /\ p \in Text
  BY <1>2, PlainText
<1>4. c \in Nat \ {0} /\ FirstAt(p) \in {1, 3} /\ x # <<>>
  BY <1>2, FirstFacts
<1>5. c + 1 <= Len(p) /\ p[c] = "." /\ p[c + 1] = "."
  BY <1>4, BehindFacts
<1>6. x[Len(x)] = "/" /\ \A i \in 1 .. Len(x) : x[i] \in Separators => x[i] = "/"
  BY <1>2, <1>3, PlainText DEF Separators
<1>7. m = Len(x) /\ j = c - 1 /\ j # 0 /\ j \in Nat /\ p[j] = "/"
  <2>1. m \in 0 .. Len(x) /\ Len(x) \notin m + 1 .. Len(x) /\ j \in Nat /\ j + (Len(x) - m) = c - 1
    BY <1>1, <1>3, <1>6 DEF HalfAt
  <2>2. m = Len(x) /\ j = c - 1
    BY <1>3, <2>1
  <2>3. j # 0 /\ j # Len(p)
    BY <1>2, <1>3, <1>4, <1>5, <2>2
  <2>4. QED
    BY <1>1, <2>1, <2>2, <2>3 DEF HalfAt
<1>8. e \in Nat /\ e <= Len(x) - 1 /\ par \in Text /\ Len(par) = e /\ (\A i \in 1 .. e : par[i] = x[i])
  BY <1>3 DEF IsParent
<1>9. e # 0 => x[e] = "/"
  BY <1>3, <1>6, <1>8 DEF IsParent
<1>10. Len(x) - 1 \in Nat /\ Len(x) - 1 <= Len(x) /\ (Len(x) - 1) + 1 = Len(x)
  BY <1>3
<1>11. PICK r : Piece(r, x, e, Len(x) - 1)
  BY <1>3, <1>8, <1>10, SomePiece
<1>12. Plain(r)
  BY <1>2, <1>3, <1>8, <1>10, <1>11, PiecePlain
<1>13. Len(x) \in 2 .. Len(x)
  BY <1>3
<1>14. x[Len(x) - 1] # "/" /\ ~(x[Len(x) - 1] = "." /\ (Len(x) = 2 \/ x[Len(x) - 2] = "/"))
  BY <1>2, <1>6, <1>13 DEF Clean
<1>15. e < Len(x) - 1 /\ Len(r) = Len(x) - 1 - e /\ r # <<>>
  <2>1. e # Len(x) - 1
    BY <1>3, <1>9, <1>14
  <2>2. QED
    BY <1>3, <1>8, <1>11, <2>1 DEF Piece
<1>16. Slashless(r)
  <2>1. ASSUME NEW i \in 1 .. Len(r) PROVE r[i] # "/"
    <3>1. i \in 1 .. (Len(x) - 1) - e /\ e + i \in e + 1 .. Len(x) - 1
      BY <1>3, <1>8, <1>15
    <3>2. QED
      BY <1>11, <3>1 DEF Piece, IsParent, Separators
  <2>2. QED
    BY <2>1 DEF Slashless
<1>17. r # <<".">>
  <2>1. SUFFICES ASSUME r = <<".">> PROVE FALSE
    OBVIOUS
  <2>2. Len(r) = 1 /\ r[1] = "." /\ 1 = (Len(x) - 1) - e
    <3>1. Len(r) = 1 /\ r[1] = "."
      BY <2>1
    <3>2. QED
      BY <1>11, <3>1 DEF Piece
  <2>3. e = Len(x) - 2 /\ 1 \in 1 .. (Len(x) - 1) - e /\ e + 1 = Len(x) - 1
    BY <1>3, <1>8, <2>2
  <2>4. x[Len(x) - 1] = "."
    BY <1>11, <2>2, <2>3 DEF Piece
  <2>5. Len(x) = 2 \/ x[Len(x) - 2] = "/"
    BY <1>3, <1>9, <2>3
  <2>6. QED
    BY <1>14, <2>4, <2>5
<1>18. r # <<".", ".">>
  <2>1. SUFFICES ASSUME r = <<".", ".">> PROVE FALSE
    OBVIOUS
  <2>2. Len(r) = 2 /\ r[1] = "." /\ r[2] = "." /\ 2 = (Len(x) - 1) - e
    <3>1. Len(r) = 2 /\ r[1] = "." /\ r[2] = "."
      BY <2>1
    <3>2. QED
      BY <1>11, <3>1 DEF Piece
  <2>3. /\ e = Len(x) - 3 /\ 1 \in 1 .. (Len(x) - 1) - e /\ e + 1 = Len(x) - 2
        /\ 2 \in 1 .. (Len(x) - 1) - e /\ e + 2 = Len(x) - 1
    BY <1>3, <1>8, <2>2
  <2>4. x[Len(x) - 2] = "." /\ x[Len(x) - 1] = "." /\ Len(x) >= 3
    BY <1>3, <1>8, <1>11, <2>2, <2>3 DEF Piece
  <2>5. QED
    BY <2>4 DEF AfterDots
<1>19. par = SubSeq(x, 1, e)
  <2>1. PICK u : u = SubSeq(x, 1, e)
    OBVIOUS
  <2>2. Piece(u, x, 0, e)
    BY <1>3, <1>8, <2>1, FirstPiece
  <2>3. Piece(par, x, 0, e)
    <3>1. \A i \in 1 .. e - 0 : 0 + i = i /\ i \in 1 .. e
      BY <1>8
    <3>2. QED
      BY <1>8, <3>1 DEF Piece
  <2>4. QED
    BY <2>1, <2>2, <2>3, PieceSame
<1>20. par = SubSeq(par, 1, e)
  <2>1. PICK u : u = SubSeq(par, 1, e)
    OBVIOUS
  <2>2. Piece(u, par, 0, e)
    BY <1>8, <2>1, FirstPiece
  <2>3. Piece(par, par, 0, e)
    <3>1. \A i \in 1 .. e - 0 : 0 + i = i
      BY <1>8
    <3>2. QED
      BY <1>8, <3>1 DEF Piece
  <2>4. QED
    BY <2>1, <2>2, <2>3, PieceSame
<1>21. Place(SubSeq(x, 1, Len(x))) = Step(Place(par), r)
  <2>1. PICK w : w = Append(r, "/")
    OBVIOUS
  <2>2. Piece(w, x, e, Len(x))
    <3>1. Piece(w, x, e, (Len(x) - 1) + 1)
      BY <1>6, <1>8, <1>10, <1>11, <2>1, PieceSlash
    <3>2. QED
      BY <1>10, <3>1
  <2>3. e <= Len(x)
    BY <1>3, <1>8
  <2>4. QED
    BY <1>3, <1>8, <1>9, <1>12, <1>15, <1>16, <1>19, <2>1, <2>2, <2>3, NameOn
<1>22. PICK d : d = <<".", ".">>
  OBVIOUS
<1>23. Plain(d) /\ d # <<>> /\ Slashless(d) /\ Piece(d, p, j, c + 1)
  <2>1. Len(d) = 2 /\ d[1] = "." /\ d[2] = "." /\ DOMAIN d = 1 .. 2
    BY <1>22
  <2>2. "." \in Chars
    BY DEF Chars
  <2>3. d \in Text
    BY <1>22, <2>2 DEF Text
  <2>4. \A i \in 1 .. 2 : d[i] = "."
    BY <2>1
  <2>5. Plain(d)
    BY <2>1, <2>3, <2>4 DEF Plain, NUL
  <2>6. Slashless(d)
    BY <2>1, <2>4 DEF Slashless
  <2>7. (c + 1) - j = 2 /\ \A i \in 1 .. 2 : j + i = c \/ j + i = c + 1
    BY <1>7
  <2>8. Piece(d, p, j, c + 1)
    BY <1>5, <2>1, <2>3, <2>4, <2>7 DEF Piece
  <2>9. d # <<>>
    BY <1>22
  <2>10. QED
    BY <2>5, <2>6, <2>8, <2>9, Zenon
<1>24. Step(Place(SubSeq(p, 1, j)), d) = Place(par)
  <2>1. Place(SubSeq(p, 1, j)) = Step(Place(par), r)
    BY <1>1, <1>7, <1>21 DEF HalfAt
  <2>2. Place(par) \in Spot
    BY <1>8, PlaceFacts
  <2>3. QED
    BY <1>12, <1>17, <1>18, <1>22, <2>1, <2>2, PlainText, StepBack
<1>25. PICK b : b = Behind(p, c) - 1
  OBVIOUS
<1>26. /\ b \in Nat /\ b >= j /\ b >= c + 1 /\ b <= Len(p) /\ (p[b] = "/" \/ b = Len(p)) /\ Behind(p, c) = b + 1
       /\ Piece(d, p, j, b) \/ Piece(Append(d, "/"), p, j, b)
  <2>1. CASE At(p, c + 2) = NUL
    <3>1. Behind(p, c) = c + 2 /\ c + 2 = Len(p) + 1
      BY <1>4, <2>1, BehindFacts
    <3>2. b = c + 1
      BY <1>25, <3>1
    <3>3. QED
      BY <1>3, <1>7, <1>23, <3>1, <3>2
  <2>2. CASE At(p, c + 2) # NUL
    <3>1. Behind(p, c) = c + 3 /\ c + 2 <= Len(p) /\ p[c + 2] = "/"
      BY <1>4, <2>2, BehindFacts
    <3>2. b = c + 2 /\ (c + 1) + 1 = c + 2 /\ j <= c + 1 /\ c + 1 \in Nat
      BY <1>7, <1>25, <3>1
    <3>3. Piece(Append(d, "/"), p, j, (c + 1) + 1)
      BY <1>7, <1>23, <3>1, <3>2, PieceSlash
    <3>4. QED
      BY <1>3, <1>7, <3>1, <3>2, <3>3
  <2>3. QED
    BY <2>1, <2>2
<1>27. Place(SubSeq(p, 1, b)) = Place(par)
  <2>1. Place(SubSeq(p, 1, b)) = Step(Place(SubSeq(p, 1, j)), d)
    BY <1>3, <1>7, <1>23, <1>26, NameOn
  <2>2. QED
    BY <1>24, <2>1
<1>28. HalfAt(p, Behind(p, c), par, e, b)
  <2>1. e \in 0 .. Len(par) /\ b \in 0 .. Len(p) /\ b + (Len(par) - e) = Behind(p, c) - 1
    BY <1>3, <1>8, <1>26
  <2>2. e = 0 \/ par[e] = "/"
    BY <1>8, <1>9
  <2>3. (\A i \in e + 1 .. Len(par) : par[i] # "/") /\ (\A i \in 1 .. Len(par) - e : par[e + i] = p[b + i])
    BY <1>8
  <2>4. QED
    BY <1>20, <1>26, <1>27, <2>1, <2>2, <2>3 DEF HalfAt
<1>29. Plain(par) /\ Clean(par)
  <2>1. Plain(par)
    <3>1. Piece(par, x, 0, e)
      BY <1>3, <1>8, <1>19, FirstPiece
    <3>2. 0 \in Nat /\ 0 <= e /\ e <= Len(x)
      BY <1>3, <1>8
    <3>3. QED
      BY <1>2, <1>8, <3>1, <3>2, PiecePlain
  <2>2. ASSUME NEW i \in 2 .. Len(par), par[i] = "/"
        PROVE  par[i - 1] # "/" /\ ~(par[i - 1] = "." /\ (i = 2 \/ par[i - 2] = "/"))
    <3>1. i \in 2 .. Len(x) /\ i \in 1 .. e /\ i - 1 \in 1 .. e /\ (i # 2 => i - 2 \in 1 .. e)
      BY <1>3, <1>8
    <3>2. QED
      BY <1>2, <1>8, <2>2, <3>1 DEF Clean
  <2>3. QED
    BY <2>1, <2>2 DEF Clean
<1>30. Behind(p, c) \in Nat /\ Behind(p, c) >= FirstAt(p) /\ Behind(p, c) <= Len(p) + 1 /\ Behind(p, c) # 1
  BY <1>2, <1>3, <1>4, <1>26
<1>31. QED
  BY <1>28, <1>29, <1>30 DEF TidyAt

(* A text is all of itself. *)
LEMMA Whole ==
  ASSUME NEW x \in Text
  PROVE  SubSeq(x, 1, Len(x)) = x
<1>1. PICK u : u = SubSeq(x, 1, Len(x))
  OBVIOUS
<1>2. Len(x) \in Nat
  BY TextFacts
<1>3. Piece(u, x, 0, Len(x))
  BY <1>1, <1>2, FirstPiece
<1>4. Piece(x, x, 0, Len(x))
  <2>1. \A i \in 1 .. Len(x) - 0 : 0 + i = i
    BY <1>2
  <2>2. Len(x) = Len(x) - 0
    BY <1>2
  <2>3. QED
    BY <2>1, <2>2 DEF Piece
<1>5. QED
  BY <1>1, <1>3, <1>4, PieceSame

(* The empty text. *)
LEMMA Nothing == <<>> \in Text /\ Len(<<>>) = 0 /\ Plain(<<>>) /\ Clean(<<>>)
<1>1. <<>> \in Text
  BY DEF Text
<1>2. Len(<<>>) = 0 /\ DOMAIN <<>> = 1 .. 0
  OBVIOUS
<1>3. Plain(<<>>)
  BY <1>1, <1>2 DEF Plain
<1>4. Clean(<<>>)
  BY <1>2 DEF Clean
<1>5. QED
  BY <1>1, <1>2, <1>3, <1>4

(* A dot adds nothing to a place. *)
LEMMA DotStays ==
  ASSUME NEW p \in Text, Len(p) >= 2, p[1] = ".", p[2] = "/"
  PROVE  Place(SubSeq(p, 1, 2)) = Place(<<>>)
<1>1. PICK r : r = <<".">>
  OBVIOUS
<1>2. Plain(r) /\ r # <<>> /\ Slashless(r) /\ Len(r) = 1 /\ r[1] = "."
  <2>1. Len(r) = 1 /\ r[1] = "." /\ DOMAIN r = 1 .. 1
    BY <1>1
  <2>2. "." \in Chars
    BY DEF Chars
  <2>3. r \in Text
    BY <1>1, <2>2 DEF Text
  <2>4. \A i \in 1 .. 1 : r[i] = "."
    BY <2>1
  <2>5. Plain(r)
    BY <2>1, <2>3, <2>4 DEF Plain, NUL
  <2>6. Slashless(r)
    BY <2>1, <2>4 DEF Slashless
  <2>7. r # <<>>
    BY <1>1
  <2>8. QED
    BY <2>1, <2>5, <2>6, <2>7, Zenon
<1>3. Piece(r, p, 0, 1)
  <2>1. r \in Text /\ 1 - 0 = 1
    BY <1>2, PlainText
  <2>2. \A i \in 1 .. 1 - 0 : i = 1 /\ 0 + i = 1
    OBVIOUS
  <2>3. QED
    BY <1>2, <2>1, <2>2 DEF Piece
<1>4. Piece(Append(r, "/"), p, 0, 2)
  <2>1. 1 + 1 = 2 /\ 0 <= 1
    OBVIOUS
  <2>2. Piece(Append(r, "/"), p, 0, 1 + 1)
    BY <1>3, <2>1, PieceSlash
  <2>3. QED
    BY <2>1, <2>2
<1>5. 0 <= 2 /\ 2 <= Len(p) /\ 0 <= Len(p)
  BY TextFacts
<1>6. Place(SubSeq(p, 1, 2)) = Step(Place(SubSeq(p, 1, 0)), r)
  BY <1>2, <1>4, <1>5, NameOn
<1>7. SubSeq(p, 1, 0) = <<>>
  <2>1. PICK u : u = SubSeq(p, 1, 0)
    OBVIOUS
  <2>2. u \in Text /\ Len(u) = 0
    BY <1>5, <2>1, Prefix
  <2>3. QED
    BY <2>1, <2>2 DEF Text
<1>8. QED
  BY <1>1, <1>6, <1>7, Zenon DEF Step

(* What ret shows, without the NUL that is copied with .. at the end. *)
Shown(ret) == IF ret # <<>> /\ ret[Len(ret)] = NUL THEN SubSeq(ret, 1, Len(ret) - 1) ELSE ret

(* A plain text is shown as it is. *)
LEMMA ShownPlain ==
  ASSUME NEW x, Plain(x)
  PROVE  Shown(x) = x
<1>1. x # <<>> => Len(x) \in 1 .. Len(x)
  BY PlainText
<1>2. x # <<>> => x[Len(x)] # NUL
  BY <1>1, PlainText
<1>3. QED
  BY <1>2, Zenon DEF Shown

(* The states of the loop with the invariant; a NUL is written only at the *)
(* end of the path.                                                        *)
TidyStates(p) ==
  {s \in NormState : TidyAt(p, s.cursor, Shown(s.ret)) /\ (Shown(s.ret) # s.ret => s.cursor = Len(p) + 1)}

(* The loop begins with it, behind a ./ if there is one. *)
LEMMA TidyBegins ==
  ASSUME NEW p, Plain(p)
  PROVE  TidyAt(p, FirstAt(p), <<>>)
<1>1. p \in Text /\ Len(p) \in Nat
  BY PlainText
<1>2. PICK x : x = <<>>
  OBVIOUS
<1>3. x \in Text /\ Len(x) = 0 /\ Plain(x) /\ Clean(x) /\ SubSeq(x, 1, 0) = x
  BY <1>2, Nothing, Whole
<1>4. FirstAt(p) \in {1, 3}
  BY FirstFacts
<1>5. CASE FirstAt(p) = 1
  <2>1. SubSeq(p, 1, 0) = x
    <3>1. PICK u : u = SubSeq(p, 1, 0)
      OBVIOUS
    <3>2. u \in Text /\ Len(u) = 0
      BY <1>1, <3>1, Prefix
    <3>3. QED
      BY <1>2, <3>1, <3>2 DEF Text
  <2>2. HalfAt(p, 1, x, 0, 0)
    <3>1. Place(SubSeq(x, 1, 0)) = Place(SubSeq(p, 1, 0))
      BY <1>3, <2>1, Zenon
    <3>2. /\ 0 \in 0 .. Len(x) /\ 0 \in 0 .. Len(p) /\ 0 + (Len(x) - 0) = 1 - 1
          /\ (0 + 1) .. Len(x) = {} /\ 1 .. Len(x) - 0 = {}
      BY <1>1, <1>3
    <3>3. QED
      BY <3>1, <3>2, Zenon DEF HalfAt
  <2>3. TidyAt(p, 1, x)
    BY <1>1, <1>2, <1>3, <1>5, <2>2 DEF TidyAt
  <2>4. QED
    BY <1>2, <1>5, <2>3
<1>6. CASE FirstAt(p) = 3
  <2>1. Len(p) >= 2 /\ p[1] = "." /\ p[2] = "/"
    BY <1>6, FirstFacts
  <2>2. Place(SubSeq(x, 1, 0)) = Place(SubSeq(p, 1, 2))
    BY <1>1, <1>2, <1>3, <2>1, DotStays
  <2>3. HalfAt(p, 3, x, 0, 2)
    BY <1>1, <1>3, <2>1, <2>2 DEF HalfAt
  <2>4. TidyAt(p, 3, x)
    BY <1>1, <1>3, <1>6, <2>1, <2>3 DEF TidyAt
  <2>5. QED
    BY <1>2, <1>6, <2>4
<1>7. QED
  BY <1>4, <1>5, <1>6

(* Every round keeps it. *)
LEMMA TidyKept ==
  ASSUME NEW p, Plain(p), Tidy(p)
  PROVE  Begin(p) \in TidyStates(p) /\ Kept(p, TidyStates(p))
<1>1. p \in Text /\ Len(p) \in Nat
  BY PlainText
<1>2. Begin(p) \in TidyStates(p)
  <2>1. PICK s : s = Begin(p)
    OBVIOUS
  <2>2. s \in NormState /\ s.cursor = FirstAt(p) /\ s.ret = <<>>
    <3>1. s = [ok |-> TRUE, cursor |-> FirstAt(p), ret |-> <<>>, top |-> 0]
      BY <2>1 DEF Begin
    <3>2. FirstAt(p) \in Nat \ {0}
      BY FirstFacts
    <3>3. QED
      BY <3>1, <3>2, Nothing DEF NormState
  <2>3. Shown(s.ret) = s.ret
    BY <2>2, Nothing, ShownPlain
  <2>4. TidyAt(p, s.cursor, Shown(s.ret))
    BY <2>2, <2>3, TidyBegins
  <2>5. QED
    BY <2>1, <2>2, <2>3, <2>4 DEF TidyStates
<1>3. ASSUME NEW s \in TidyStates(p), s.ok, s.cursor <= Len(p), NEW t \in NormState, t.ok,
             Copies(p, s, t) \/ Keeps(p, s, t) \/ Pops(p, s, t)
      PROVE  t \in TidyStates(p)
  <2>1. PICK c, x : c = s.cursor /\ x = s.ret
    OBVIOUS
  <2>2. s \in NormState /\ c \in Nat \ {0} /\ c \in Nat /\ c <= Len(p) /\ c \in 1 .. Len(p) /\ x \in Text /\ Len(x) \in Nat
    BY <1>1, <1>3, <2>1, TextFacts DEF TidyStates, NormState
  <2>3. TidyAt(p, c, x)
    <3>1. Shown(x) = x
      BY <1>1, <1>3, <2>1 DEF TidyStates
    <3>2. QED
      BY <2>1, <3>1 DEF TidyStates
  <2>4. t.ret \in Text
    BY DEF NormState
  <2>5. ASSUME TidyAt(p, t.cursor, t.ret) PROVE t \in TidyStates(p)
    <3>1. Plain(t.ret)
      BY <2>5 DEF TidyAt
    <3>2. Shown(t.ret) = t.ret
      BY <3>1, ShownPlain
    <3>3. QED
      BY <2>5, <3>2 DEF TidyStates
  <2>6. CASE Copies(p, s, t)
    <3>1. PICK a : a = <<p[c]>>
      OBVIOUS
    <3>2. p[c] \in Chars
      BY <1>1, <2>2 DEF Text
    <3>3. a \in Text
      BY <3>1, <3>2 DEF Text
    <3>4. t.cursor = c + 1 /\ t.ret = x \o a
      BY <2>1, <2>6, <3>1 DEF Copies
    <3>5. Follows(t.ret, x, <<p[c]>>)
      BY <2>2, <3>1, <3>3, <3>4, Concat
    <3>6. TidyAt(p, c + 1, t.ret)
      BY <2>2, <2>3, <2>4, <3>5, CopyTidy
    <3>7. QED
      BY <2>5, <3>4, <3>6
  <2>7. CASE Keeps(p, s, t)
    <3>1. PICK third : third = At(p, c + 2)
      OBVIOUS
    <3>2. IsDots(p, c) /\ t.cursor = Behind(p, c) /\ t.ret = x \o <<".", ".", third>>
      BY <2>1, <2>7, <3>1 DEF Keeps
    <3>3. third \in {"/", NUL}
      BY <3>1, <3>2 DEF IsDots
    <3>4. PICK a : a = <<".", ".", third>>
      OBVIOUS
    <3>5. "." \in Chars /\ third \in Chars
      BY <3>3 DEF Chars
    <3>6. a \in Text
      BY <3>4, <3>5 DEF Text
    <3>7. Len(a) = 3 /\ a[3] = third /\ 3 \in 1 .. 3
      BY <3>4
    <3>8. Follows(t.ret, x, a)
      BY <2>2, <3>2, <3>4, <3>6, Concat
    <3>9. PICK z : z = SubSeq(t.ret, 1, Len(x) + 2)
      OBVIOUS
    <3>10. /\ third = NUL => TidyAt(p, c + 2, z)
           /\ third # NUL => TidyAt(p, c + 3, t.ret)
      BY <2>2, <2>3, <2>4, <3>1, <3>2, <3>4, <3>8, <3>9, KeepTidy
    <3>11. CASE third # NUL
      <4>1. t.cursor = c + 3
        BY <2>2, <3>1, <3>2, <3>11, BehindFacts
      <4>2. QED
        BY <2>5, <3>10, <3>11, <4>1
    <3>12. CASE third = NUL
      <4>1. t.cursor = c + 2 /\ c + 2 = Len(p) + 1
        BY <2>2, <3>1, <3>2, <3>12, BehindFacts
      <4>2. Len(t.ret) = Len(x) + 3 /\ t.ret[Len(x) + 3] = NUL
        BY <3>7, <3>8, <3>12 DEF Follows
      <4>3. t.ret # <<>> /\ Len(t.ret) - 1 = Len(x) + 2
        BY <2>2, <4>2, Nothing
      <4>4. Shown(t.ret) = z
        BY <3>9, <4>2, <4>3, Zenon DEF Shown
      <4>5. QED
        BY <3>10, <3>12, <4>1, <4>4 DEF TidyStates
    <3>13. QED
      BY <3>11, <3>12
  <2>8. CASE Pops(p, s, t)
    <3>1. /\ IsDots(p, c) /\ ~AfterDots(x) /\ Len(x) >= 2 /\ x[Len(x)] \in Separators
          /\ t.cursor = Behind(p, c) /\ t.ret = Parent(x)
      BY <2>1, <2>8 DEF Pops
    <3>2. PICK e : IsParent(Parent(x), x, e)
      BY <2>2, <3>1, ParentFacts
    <3>3. TidyAt(p, Behind(p, c), Parent(x))
      BY <2>2, <2>3, <3>1, <3>2, PopTidy
    <3>4. QED
      BY <2>5, <3>1, <3>3
  <2>9. QED
    BY <1>3, <2>6, <2>7, <2>8
<1>4. QED
  BY <1>2, <1>3, Zenon DEF Kept

(* normpath of a tidy path leads to the same place. *)
LEMMA NormTidy ==
  ASSUME NEW p, Plain(p), Tidy(p), NEW size, NEW n, n = Normpath(p, size), n.ok
  PROVE  Place(n.path) = Place(p)
<1>1. PICK end : end = Run(p)[Len(p)]
  OBVIOUS
<1>2. NormEnd(p, size, n)
  BY NormpathIs
<1>3. end.ok /\ n.path = Ended(IF end.ret = <<>> THEN <<".", "/">> ELSE end.ret)
  BY <1>1, <1>2, Zenon DEF NormEnd
<1>4. TidyStates(p) \in SUBSET NormState
  BY DEF TidyStates
<1>5. end \in TidyStates(p) /\ end.cursor > Len(p)
  BY <1>1, <1>3, <1>4, RunKeeps, TidyKept
<1>6. p \in Text /\ Len(p) \in Nat
  BY PlainText
<1>7. PICK x : x = Shown(end.ret)
  OBVIOUS
<1>8. TidyAt(p, end.cursor, x) /\ end.ret \in Text
  BY <1>5, <1>7 DEF TidyStates, NormState
<1>9. end.cursor = Len(p) + 1 /\ Plain(x)
  BY <1>5, <1>6, <1>8 DEF TidyAt
<1>10. PICK m, j : HalfAt(p, Len(p) + 1, x, m, j)
  BY <1>8, <1>9 DEF TidyAt
<1>11. x \in Text /\ Len(x) \in Nat
  BY <1>9, PlainText
<1>12. m \in Nat /\ j \in Nat /\ m <= Len(x) /\ j <= Len(p) /\ j + (Len(x) - m) = Len(p)
  BY <1>6, <1>10, <1>11 DEF HalfAt
<1>13. SubSeq(x, 1, Len(x)) = x /\ SubSeq(p, 1, Len(p)) = p
  BY <1>6, <1>11, Whole
<1>14. Place(x) = Place(p)
  <2>1. Place(SubSeq(x, 1, m)) = Place(SubSeq(p, 1, j)) /\ (m = 0 \/ x[m] = "/")
    BY <1>10 DEF HalfAt
  <2>2. CASE m = Len(x)
    <3>1. j = Len(p)
      BY <1>6, <1>11, <1>12, <2>2
    <3>2. QED
      BY <1>13, <2>1, <2>2, <3>1
  <2>3. CASE m # Len(x)
    <3>1. Len(p) + 1 \in Nat /\ (Len(p) + 1) - 1 = Len(p) /\ Len(p) + 1 <= Len(p) + 1
      BY <1>6
    <3>2. PICK r : /\ Plain(r) /\ r # <<>> /\ Slashless(r)
                   /\ Piece(r, x, m, Len(x)) /\ Piece(r, p, j, (Len(p) + 1) - 1)
                   /\ j = 0 \/ p[j] = "/"
      BY <1>9, <1>10, <2>3, <3>1, HalfName
    <3>3. Piece(r, p, j, Len(p))
      BY <3>1, <3>2
    <3>4. Len(x) <= Len(x) /\ Len(p) <= Len(p)
      BY <1>6, <1>11
    <3>5. Place(SubSeq(x, 1, Len(x))) = Step(Place(SubSeq(x, 1, m)), r)
      BY <1>11, <1>12, <2>1, <3>2, <3>4, NameOn
    <3>6. Place(SubSeq(p, 1, Len(p))) = Step(Place(SubSeq(p, 1, j)), r)
      BY <1>6, <1>12, <3>2, <3>3, <3>4, NameOn
    <3>7. QED
      BY <1>13, <2>1, <3>5, <3>6
  <2>4. QED
    BY <2>2, <2>3
<1>15. CASE end.ret # <<>>
  <2>1. Ended(end.ret) = x
    BY <1>7, <1>8, <1>15, EndedFacts DEF Shown
  <2>2. QED
    BY <1>3, <1>14, <1>15, <2>1
<1>16. CASE end.ret = <<>>
  <2>1. x = <<>>
    BY <1>7, <1>16, Nothing, ShownPlain
  <2>2. PICK d : d = <<".", "/">>
    OBVIOUS
  <2>3. Len(d) = 2 /\ d[1] = "." /\ d[2] = "/"
    BY <2>2
  <2>4. "." \in Chars /\ "/" \in Chars
    BY DEF Chars
  <2>5. d \in Text
    BY <2>2, <2>4 DEF Text
  <2>6. d # <<>>
    BY <2>2
  <2>7. d[Len(d)] # NUL
    BY <2>3 DEF NUL
  <2>8. n.path = d
    BY <1>3, <1>16, <2>2, <2>5, <2>6, <2>7, EndedFacts
  <2>9. Place(SubSeq(d, 1, 2)) = Place(<<>>)
    BY <2>3, <2>5, DotStays
  <2>10. SubSeq(d, 1, 2) = d
    BY <2>3, <2>5, Whole
  <2>11. QED
    BY <1>14, <2>1, <2>8, <2>9, <2>10, Zenon
<1>17. QED
  BY <1>15, <1>16

(* The characters behind the first of two texts. *)
LEMMA AtBehind ==
  ASSUME NEW z \in Text, NEW a \in Text, NEW b \in Text, Follows(z, a, b), NEW n \in Nat \ {0},
         NEW i, i = Len(a) + n
  PROVE  At(z, i) = At(b, n)
<1>1. Len(a) \in Nat /\ Len(b) \in Nat /\ Len(z) = Len(a) + Len(b) /\ DOMAIN z = 1 .. Len(z) /\ DOMAIN b = 1 .. Len(b)
  BY TextFacts DEF Follows
<1>2. CASE n <= Len(b)
  <2>1. n \in 1 .. Len(b) /\ i \in 1 .. Len(z)
    BY <1>1, <1>2
  <2>2. z[i] = b[n]
    BY <2>1 DEF Follows
  <2>3. QED
    BY <1>1, <2>1, <2>2 DEF At
<1>3. CASE ~(n <= Len(b))
  <2>1. n \notin 1 .. Len(b) /\ i \notin 1 .. Len(z)
    BY <1>1, <1>3
  <2>2. QED
    BY <1>1, <2>1 DEF At
<1>4. QED
  BY <1>2, <1>3

(* What join puts before a path below the current directory. *)
IsHead(head) ==
  /\ head \in Text /\ Len(head) \in Nat /\ head # <<>> /\ head[Len(head)] = "/"
  /\ \/ head = Cwd
     \/ head = Append(Cwd, "/") /\ Cwd[Len(Cwd)] # "/"

(* j is what join returns for p, in two parts. *)
Joined(head, tail, p, size, j) ==
  /\ IsHead(head) /\ tail \in Text /\ tail # <<>> /\ p # <<>>
  /\ tail = (IF At(p, 1) = "/" THEN Tail(p) ELSE p)
  /\ j.path \in Text /\ Follows(j.path, head, tail) /\ j.top = size
  /\ Len(head) + Len(tail) <= size - 1

(* join puts the current directory, a / and the path together. *)
LEMMA JoinCwd ==
  ASSUME NEW p, Plain(p), NEW size \in Nat, NEW j, j = Join(Cwd, p, size), j.ok
  PROVE  \E head, tail : Joined(head, tail, p, size, j)
<1>1. PICK head, tail : /\ head = IF EndsWith(Cwd, <<"/">>) \/ EndsWith(Cwd, <<"\\">>) THEN Cwd ELSE Append(Cwd, "/")
                        /\ tail = IF At(p, 1) = "/" THEN Tail(p) ELSE p
  OBVIOUS
<1>2. \/ j = Error
      \/ /\ j = Result(head \o tail, size) /\ tail # <<>> /\ p # <<>>
         /\ ~(Len(head) + Len(tail) > size - 1)
  BY <1>1, Zenon DEF Join
<1>3. j # Error
  BY DEF Error
<1>4. j.path = head \o tail /\ j.top = size
  BY <1>2, <1>3 DEF Result
<1>5. PICK c \in Text : c = Cwd /\ Plain(c) /\ Len(c) > 0 /\ c # <<>>
  BY CwdFacts, PlainText, EmptySeq
<1>6. Len(c) \in Nat /\ \A i \in 1 .. Len(c) : c[i] \notin {NUL, "\\", ":"}
  BY <1>5, PlainText
<1>7. IsHead(head)
  <2>1. CASE EndsWith(c, <<"/">>)
    BY <1>1, <1>5, <1>6, <2>1, EndsSlash DEF IsHead
  <2>2. CASE ~EndsWith(c, <<"/">>)
    <3>1. ~EndsWith(c, <<"\\">>)
      <4>1. EndsWith(c, <<"\\">>) <=> c # <<>> /\ c[Len(c)] = "\\"
        BY DEF EndsWith, IsSuffix, IsPrefix, Reverse, Text
      <4>2. Len(c) \in 1 .. Len(c)
        BY <1>5, <1>6
      <4>3. QED
        BY <1>6, <4>1, <4>2
    <3>2. head = Append(c, "/")
      BY <1>1, <1>5, <2>2, <3>1
    <3>3. "/" \in Chars
      BY DEF Chars
    <3>4. head \in Text /\ Len(head) = Len(c) + 1 /\ head[Len(c) + 1] = "/" /\ head # <<>>
      BY <3>2, <3>3, AppendProperties DEF Text
    <3>5. Cwd[Len(Cwd)] # "/"
      BY <1>5, <2>2, EndsSlash
    <3>6. QED
      BY <1>5, <1>6, <3>2, <3>4, <3>5 DEF IsHead
  <2>3. QED
    BY <2>1, <2>2
<1>8. p \in Text
  BY PlainText
<1>9. tail \in Text
  <2>1. Tail(p) \in Text
    BY <1>2, <1>3, <1>8, HeadTailProperties DEF Text
  <2>2. QED
    BY <1>1, <1>8, <2>1
<1>10. j.path \in Text /\ Follows(j.path, head, tail)
  BY <1>4, <1>7, <1>9, Concat DEF IsHead
<1>11. Len(head) + Len(tail) <= size - 1
  <2>1. Len(head) \in Nat /\ Len(tail) \in Nat
    BY <1>7, <1>9, TextFacts DEF IsHead
  <2>2. QED
    BY <1>2, <1>3, <2>1
<1>12. Joined(head, tail, p, size, j)
  BY <1>1, <1>2, <1>3, <1>4, <1>7, <1>9, <1>10, <1>11 DEF Joined
<1>13. QED
  BY <1>12

(* join ends its string inside the buffer. *)
LEMMA JoinInside ==
  ASSUME NEW p, Plain(p), NEW size \in Nat, NEW j, j = Join(Cwd, p, size), j.ok
  PROVE  Fits(j, size)
<1>1. PICK head, tail : Joined(head, tail, p, size, j)
  BY JoinCwd
<1>2. Len(head) \in Nat /\ Len(tail) \in Nat
  BY <1>1, TextFacts DEF Joined, IsHead
<1>3. QED
  BY <1>1, <1>2 DEF Joined, Follows, Fits

(* A path that is not absolute, below the current directory. *)
LEMMA FullPath ==
  ASSUME NEW p, Plain(p), ~IsAbs(p), NEW size \in Nat, NEW j, j = Join(Cwd, p, size), j.ok
  PROVE  \E head : /\ IsHead(head) /\ p \in Text /\ p # <<>> /\ p[1] # "/"
                   /\ j.path \in Text /\ Follows(j.path, head, p)
<1>1. PICK head, tail : Joined(head, tail, p, size, j)
  BY JoinCwd
<1>2. p \in Text /\ Len(p) \in Nat /\ p # <<>> /\ Len(p) > 0
  BY <1>1, PlainText DEF Joined
<1>3. At(p, 1) = p[1]
  <2>1. 1 \in 1 .. Len(p)
    BY <1>2
  <2>2. QED
    BY <1>2, <2>1, TextFacts
<1>4. p[1] # "/"
  <2>1. SUFFICES ASSUME p[1] = "/" PROVE FALSE
    OBVIOUS
  <2>2. Len(p) = 1
    <3>1. IsAbs(p) <=> Len(p) > 1 /\ p[1] = "/"
      BY FirstFacts, Zenon
    <3>2. PICK l \in Nat : l = Len(p)
      BY <1>2
    <3>3. l > 0 /\ ~(l > 1)
      BY <1>2, <2>1, <3>1, <3>2, Zenon
    <3>4. l = 1
      BY <3>3
    <3>5. QED
      BY <3>2, <3>4, Zenon
  <2>3. Tail(p) = <<>>
    <3>1. Tail(p) \in Text /\ Len(Tail(p)) = 0
      BY <1>2, <2>2, HeadTailProperties DEF Text
    <3>2. QED
      BY <3>1, EmptySeq DEF Text
  <2>4. QED
    BY <1>1, <1>3, <2>1, <2>3 DEF Joined
<1>5. tail = p
  BY <1>1, <1>3, <1>4 DEF Joined
<1>6. QED
  BY <1>1, <1>2, <1>4, <1>5 DEF Joined

(* Below the current directory, which is tidy, a tidy path stays tidy. *)
LEMMA FullTidy ==
  ASSUME NEW head, IsHead(head), NEW p \in Text, NEW f \in Text, Follows(f, head, p), Tidy(<<"/">> \o p)
  PROVE  Tidy(f)
<1>1. PICK c \in Text : c = Cwd /\ Len(c) > 0 /\ c # <<>> /\ Tidy(c)
  BY CwdFacts, PlainText, EmptySeq
<1>2. Len(c) \in Nat /\ Len(p) \in Nat /\ Len(f) \in Nat /\ DOMAIN f = 1 .. Len(f) /\ DOMAIN c = 1 .. Len(c)
  BY <1>1, TextFacts
<1>3. head \in Text /\ Len(head) \in Nat /\ Len(f) = Len(head) + Len(p) /\ \A i \in 1 .. Len(head) : f[i] = head[i]
  BY DEF IsHead, Follows
<1>4. SUFFICES ASSUME NEW i \in 1 .. Len(f), f[i] = "/"
               PROVE  At(f, i + 1) # "/" /\ ~(At(f, i + 1) = "." /\ At(f, i + 2) \in {"/", NUL})
  BY <1>2 DEF Tidy
<1>5. CASE i < Len(head)
  <2>1. i + 1 \in 1 .. Len(head) /\ i + 1 \in 1 .. Len(f) /\ i \in 1 .. Len(head)
    BY <1>2, <1>3, <1>5
  <2>2. At(f, i + 1) = head[i + 1] /\ head[i] = "/"
    BY <1>3, <1>4, <2>1, TextFacts
  <2>3. CASE head = Cwd
    <3>1. At(c, i + 1) # "/" /\ ~(At(c, i + 1) = "." /\ At(c, i + 2) \in {"/", NUL})
      BY <1>1, <1>2, <2>1, <2>2, <2>3 DEF Tidy
    <3>2. At(c, i + 1) = head[i + 1]
      BY <1>1, <2>1, <2>3, TextFacts
    <3>3. i + 2 \in 1 .. Len(head) /\ i + 2 \in 1 .. Len(f)
      <4>1. i + 1 # Len(head)
        BY <3>1, <3>2 DEF IsHead
      <4>2. QED
        BY <1>2, <1>3, <2>1, <4>1
    <3>4. At(f, i + 2) = head[i + 2] /\ At(c, i + 2) = head[i + 2]
      BY <1>1, <1>3, <2>3, <3>3, TextFacts
    <3>5. QED
      BY <2>2, <3>1, <3>2, <3>4
  <2>4. CASE head = Append(Cwd, "/") /\ Cwd[Len(Cwd)] # "/"
    <3>1. "/" \in Chars
      BY DEF Chars
    <3>2. Len(head) = Len(c) + 1 /\ head[Len(c) + 1] = "/" /\ \A x \in 1 .. Len(c) : head[x] = c[x]
      BY <1>1, <2>4, <3>1, AppendProperties DEF Text
    <3>3. i \in 1 .. Len(c)
      BY <1>2, <1>5, <3>2
    <3>4. c[i] = "/" /\ i # Len(c)
      BY <1>1, <2>2, <2>4, <3>2, <3>3
    <3>5. At(c, i + 1) # "/" /\ ~(At(c, i + 1) = "." /\ At(c, i + 2) \in {"/", NUL})
      BY <1>1, <1>2, <3>3, <3>4 DEF Tidy
    <3>6. i + 1 \in 1 .. Len(c)
      <4>1. PICK k1 \in Nat : k1 = Len(c)
        BY <1>2
      <4>2. i \in 1 .. k1 /\ i # k1
        BY <3>3, <3>4, <4>1, Zenon
      <4>3. i + 1 \in 1 .. k1
        BY <4>2
      <4>4. QED
        BY <4>1, <4>3, Zenon
    <3>7. At(c, i + 1) = head[i + 1]
      BY <3>2, <3>6, TextFacts
    <3>8. CASE i + 2 \in 1 .. Len(c)
      <4>1. i + 2 \in 1 .. Len(head) /\ i + 2 \in 1 .. Len(f)
        BY <1>2, <1>3, <3>2, <3>8
      <4>2. At(f, i + 2) = At(c, i + 2)
        BY <1>3, <3>2, <3>8, <4>1, TextFacts
      <4>3. QED
        BY <2>2, <3>5, <3>7, <4>2
    <3>9. CASE i + 2 \notin 1 .. Len(c)
      <4>1. At(c, i + 2) = NUL
        BY <1>2, <3>9 DEF At
      <4>2. QED
        BY <2>2, <3>5, <3>7, <4>1
    <3>10. QED
      BY <3>8, <3>9
  <2>5. QED
    BY <2>3, <2>4 DEF IsHead
<1>6. CASE ~(i < Len(head))
  <2>1. PICK y \in Nat : y = i - Len(head) /\ y <= Len(p) /\ i = Len(head) + y
    <3>1. i - Len(head) \in Nat /\ i - Len(head) <= Len(p) /\ i = Len(head) + (i - Len(head))
      BY <1>2, <1>3, <1>6
    <3>2. QED
      BY <3>1
  <2>2. PICK s : s = <<"/">>
    OBVIOUS
  <2>3. s \in Text /\ Len(s) = 1 /\ s[1] = "/" /\ 1 \in 1 .. 1
    <3>1. "/" \in Chars
      BY DEF Chars
    <3>2. s \in Text
      BY <2>2, <3>1 DEF Text
    <3>3. Len(s) = 1 /\ s[1] = "/"
      BY <2>2
    <3>4. QED
      BY <3>2, <3>3
  <2>4. PICK q : q = s \o p
    OBVIOUS
  <2>5. q \in Text /\ Follows(q, s, p) /\ Tidy(q)
    BY <2>2, <2>3, <2>4, Concat
  <2>6. Len(q) = Len(p) + 1 /\ DOMAIN q = 1 .. Len(q) /\ y + 1 \in 1 .. Len(q)
    BY <1>2, <2>1, <2>3, <2>5, TextFacts DEF Follows
  <2>7. q[y + 1] = "/"
    <3>1. CASE y = 0
      <4>1. q[1] = s[1]
        BY <2>3, <2>5 DEF Follows
      <4>2. QED
        BY <2>3, <3>1, <4>1
    <3>2. CASE y # 0
      <4>1. y \in 1 .. Len(p) /\ y + 1 = 1 + y
        BY <1>2, <2>1, <3>2
      <4>2. f[i] = p[y]
        BY <2>1, <4>1 DEF Follows
      <4>3. q[1 + y] = p[y]
        BY <2>3, <2>5, <4>1 DEF Follows
      <4>4. QED
        BY <1>4, <4>1, <4>2, <4>3
    <3>3. QED
      BY <3>1, <3>2
  <2>8. At(q, (y + 1) + 1) # "/" /\ ~(At(q, (y + 1) + 1) = "." /\ At(q, (y + 1) + 2) \in {"/", NUL})
    BY <2>5, <2>6, <2>7 DEF Tidy
  <2>9. PICK a \in Nat \ {0}, b \in Nat \ {0} : a = y + 1 /\ b = y + 2
    OBVIOUS
  <2>10. (y + 1) + 1 = Len(s) + a /\ (y + 1) + 2 = Len(s) + b /\ i + 1 = Len(head) + a /\ i + 2 = Len(head) + b
    BY <1>3, <2>1, <2>3, <2>9
  <2>11. /\ At(q, (y + 1) + 1) = At(p, a) /\ At(q, (y + 1) + 2) = At(p, b)
         /\ At(f, i + 1) = At(p, a) /\ At(f, i + 2) = At(p, b)
    <3>0. s \in Text /\ q \in Text /\ Follows(q, s, p)
      BY <2>3, <2>5, Zenon
    <3>1. At(q, (y + 1) + 1) = At(p, a)
      <4>1. PICK x : x = (y + 1) + 1
        OBVIOUS
      <4>2. x = Len(s) + a
        BY <2>10, <4>1, Zenon
      <4>3. At(q, x) = At(p, a)
        BY <3>0, <4>2, AtBehind
      <4>4. QED
        BY <4>1, <4>3, Zenon
    <3>2. At(q, (y + 1) + 2) = At(p, b)
      <4>1. PICK x : x = (y + 1) + 2
        OBVIOUS
      <4>2. x = Len(s) + b
        BY <2>10, <4>1, Zenon
      <4>3. At(q, x) = At(p, b)
        BY <3>0, <4>2, AtBehind
      <4>4. QED
        BY <4>1, <4>3, Zenon
    <3>3. At(f, i + 1) = At(p, a)
      BY <1>3, <2>10, AtBehind
    <3>4. At(f, i + 2) = At(p, b)
      BY <1>3, <2>10, AtBehind
    <3>5. QED
      BY <3>1, <3>2, <3>3, <3>4, Zenon
  <2>12. QED
    BY <2>8, <2>11, Zenon
<1>7. QED
  BY <1>5, <1>6

(* abspath leads where the path means: an absolute path comes back as it   *)
(* is, without its NUL when it fills the buffer; any other ends inside the *)
(* buffer and has no .. in it.                                             *)
LEMMA AbspathFacts ==
  ASSUME NEW p, Plain(p), NEW size \in Nat, NEW u, u = Abspath(Cwd, p, size, MaxPath), u.ok
  PROVE  /\ Fits(u, size) <=> ~(IsAbs(p) /\ Len(p) = size - 1)
         /\ IF IsAbs(p) THEN u.path = p ELSE NoParent(u.path)
         /\ Tidy(<<"/">> \o p) => Place(u.path).down = Meant(p).down
<1>1. PICK full : full = Join(Cwd, p, MaxPath)
  OBVIOUS
<1>2. u # Error
  BY DEF Error
<1>3. \/ IsAbs(p) /\ ~(Len(p) > size - 1) /\ u = Result(p, size - 1)
      \/ ~IsAbs(p) /\ full.ok /\ u = Normpath(full.path, size)
  BY <1>1, <1>2, Zenon DEF Abspath
<1>4. p \in Text /\ Len(p) \in Nat
  BY PlainText
<1>5. CASE IsAbs(p) /\ ~(Len(p) > size - 1) /\ u = Result(p, size - 1)
  <2>1. u.top = size - 1 /\ u.path = p
    BY <1>5 DEF Result
  <2>2. Len(p) > 1 /\ p[1] = "/"
    BY <1>5, FirstFacts, Zenon
  <2>3. 1 \in 1 .. Len(p)
    BY <1>4, <2>2
  <2>4. At(p, 1) = "/"
    BY <1>4, <2>2, <2>3, TextFacts
  <2>5. Meant(p) = Place(p)
    BY <2>4, Zenon DEF Meant
  <2>6. Fits(u, size) <=> ~(Len(p) = size - 1)
    BY <1>4, <1>5, <2>1 DEF Fits
  <2>7. QED
    BY <1>5, <2>1, <2>5, <2>6
<1>6. CASE ~IsAbs(p) /\ full.ok /\ u = Normpath(full.path, size)
  <2>1. MaxPath \in Nat
    BY OpenAssumption
  <2>2. PICK head : /\ IsHead(head) /\ p # <<>> /\ p[1] # "/"
                    /\ full.path \in Text /\ Follows(full.path, head, p)
    BY <1>1, <1>6, <2>1, FullPath
  <2>3. AbsPath(p) = full
    BY <1>1, <1>6, Zenon DEF AbsPath
  <2>4. Leads(full.path, p)
    BY <1>6, <2>3, AbsFacts
  <2>5. PICK f : f = full.path
    OBVIOUS
  <2>6. Plain(f) /\ f # <<>> /\ f[1] = "/" /\ Place(f).down = Meant(p).down
    BY <2>4, <2>5 DEF Leads
  <2>7. IsAbs(f)
    <3>1. Len(head) > 0 /\ Len(head) \in Nat
      <4>1. head \in Text /\ head # <<>> /\ Len(head) \in Nat
        BY <2>2 DEF IsHead
      <4>2. QED
        BY <4>1, EmptySeq DEF Text
    <3>2. Len(p) > 0
      BY <1>4, <2>2, PlainText
    <3>3. Len(f) = Len(head) + Len(p)
      BY <2>2, <2>5 DEF Follows
    <3>4. Len(f) > 1
      BY <1>4, <3>1, <3>2, <3>3
    <3>5. QED
      BY <2>6, <3>4, FirstFacts, Zenon
  <2>8. u = Normpath(f, size)
    BY <1>6, <2>5
  <2>9. Fits(u, size) /\ NoParent(u.path)
    BY <2>6, <2>7, <2>8, NormInside
  <2>10. ASSUME Tidy(<<"/">> \o p) PROVE Place(u.path).down = Meant(p).down
    <3>1. Tidy(f)
      BY <1>4, <2>2, <2>5, <2>10, FullTidy
    <3>2. Place(u.path) = Place(f)
      BY <2>6, <2>8, <3>1, NormTidy
    <3>3. QED
      BY <2>6, <3>2
  <2>11. QED
    BY <1>6, <2>9, <2>10, Zenon
<1>7. QED
  BY <1>3, <1>5, <1>6

(* dirname and basename, when the buffer is large enough for the path. *)
LEMMA DirAndBase ==
  ASSUME NEW p, Plain(p), NEW size \in Nat, size > Len(p),
         NEW d, d = Dirname(p, size), d.ok, NEW b, b = Basename(p, size), b.ok
  PROVE  Place(Append(d.path, "/") \o b.path) = Place(p)
<1>1. p \in Text /\ Len(p) \in Nat /\ \A i \in 1 .. Len(p) : p[i] \notin {NUL, "\\", ":"}
  BY PlainText
<1>2. PICK s : /\ s = LastSep(p) /\ s \in 0 .. Len(p) /\ (s # 0 => p[s] \in Separators)
               /\ \A x \in s + 1 .. Len(p) : p[x] \notin Separators
  BY <1>1, LastSepAny
<1>3. d # Error /\ b # Error
  BY DEF Error
<1>4. s # 0 /\ ~(s - 1 < 0)
  <2>1. ~(LastSep(p) - 1 < 0)
    BY <1>3, Zenon DEF Dirname
  <2>2. ~(s - 1 < 0)
    BY <1>2, <2>1, Zenon
  <2>3. QED
    BY <1>2, <2>2
<1>5. s \in Nat /\ s \in 1 .. Len(p) /\ p[s] = "/" /\ s <= Len(p)
  BY <1>1, <1>2, <1>4 DEF Separators
<1>6. PICK m \in 1 .. Len(p) : m = IF s - 1 = 0 THEN 1 ELSE s - 1
  BY <1>1, <1>5
<1>7. p[m] # ":" /\ m \in Nat
  BY <1>1
<1>8. d.path = SubSeq(p, 1, m)
  <2>1. d = Result(SubSeq(p, 1, m), m + 1)
    <3>1. (IF LastSep(p) - 1 = 0 THEN 1 ELSE LastSep(p) - 1) = m
      BY <1>2, <1>6, Zenon
    <3>2. QED
      BY <1>3, <1>7, <3>1, Zenon DEF Dirname
  <2>2. QED
    BY <2>1 DEF Result
<1>9. PICK r : r = SubSeq(p, s + 1, Len(p))
  OBVIOUS
<1>10. Piece(r, p, s, Len(p)) /\ r \in Text /\ Len(r) = Len(p) - s
  <2>1. Len(p) <= Len(p)
    BY <1>1
  <2>2. Piece(r, p, s, Len(p))
    BY <1>1, <1>5, <1>9, <2>1, SomePiece
  <2>3. QED
    BY <2>2 DEF Piece
<1>11. r # <<>> /\ b.path = r
  <2>1. PICK n : n = IF Len(r) >= size THEN size - 1 ELSE Len(r)
    OBVIOUS
  <2>2. r # <<>> /\ b = Result(SubSeq(r, 1, n), n + 1)
    <3>1. SubSeq(p, LastSep(p) + 1, Len(p)) = r /\ LastSep(p) # 0
      BY <1>2, <1>4, <1>9, Zenon
    <3>2. QED
      BY <1>3, <2>1, <3>1, Zenon DEF Basename
  <2>3. n = Len(r)
    BY <1>1, <1>5, <1>10, <2>1
  <2>4. b.path = SubSeq(r, 1, n)
    <3>1. PICK w : w = SubSeq(r, 1, n)
      OBVIOUS
    <3>2. b = Result(w, n + 1)
      BY <2>2, <3>1, Zenon
    <3>3. b.path = w
      BY <3>2 DEF Result
    <3>4. QED
      BY <3>1, <3>3, Zenon
  <2>5. SubSeq(r, 1, Len(r)) = r
    BY <1>10, Whole
  <2>6. QED
    BY <2>2, <2>3, <2>4, <2>5, Zenon
<1>12. Plain(r) /\ Slashless(r)
  <2>1. Plain(r)
    BY <1>1, <1>5, <1>10, PiecePlain
  <2>2. ASSUME NEW i \in 1 .. Len(r) PROVE r[i] # "/"
    <3>1. i \in 1 .. Len(p) - s /\ s + i \in s + 1 .. Len(p)
      BY <1>1, <1>5, <1>10
    <3>2. QED
      BY <1>2, <1>10, <3>1 DEF Piece, Separators
  <2>3. QED
    BY <2>1, <2>2 DEF Slashless
<1>13. PICK v, e, u : v = SubSeq(p, 1, s) /\ e = SubSeq(p, 1, m) /\ u = Append(e, "/")
  OBVIOUS
<1>14. Piece(v, p, 0, s) /\ v \in Text /\ Len(v) = s /\ v[1] = p[1]
  <2>1. Piece(v, p, 0, s)
    BY <1>1, <1>5, <1>13, FirstPiece
  <2>2. 1 \in 1 .. s - 0 /\ 0 + 1 = 1 /\ s - 0 = s
    BY <1>5
  <2>3. QED
    BY <2>1, <2>2 DEF Piece
<1>15. Piece(e, p, 0, m) /\ e \in Text /\ Len(e) = m
  <2>1. m <= Len(p) /\ m - 0 = m
    BY <1>1
  <2>2. Piece(e, p, 0, m)
    BY <1>1, <1>7, <1>13, <2>1, FirstPiece
  <2>3. QED
    BY <2>1, <2>2 DEF Piece
<1>16. u \in Text /\ Len(u) = m + 1 /\ u[m + 1] = "/" /\ (\A i \in 1 .. m : u[i] = e[i]) /\ u # <<>>
  <2>1. "/" \in Chars
    BY DEF Chars
  <2>2. u \in Text /\ Len(u) = m + 1 /\ u[m + 1] = "/" /\ (\A i \in 1 .. m : u[i] = e[i])
    BY <1>13, <1>15, <2>1, AppendProperties DEF Text
  <2>3. QED
    BY <1>7, <2>2, Nothing
<1>17. Place(u) = Place(v)
  <2>1. CASE s = 1
    <3>1. m = 1 /\ e = v /\ 1 \in 1 .. 1
      BY <1>6, <1>13, <2>1
    <3>2. Names(u) = Names(v)
      BY <1>13, <1>14, <3>1, NamesSlash
    <3>3. u[1] = v[1]
      BY <1>16, <3>1
    <3>4. At(u, 1) = u[1] /\ At(v, 1) = v[1]
      <4>1. 1 \in 1 .. Len(u) /\ 1 \in 1 .. Len(v)
        BY <1>14, <1>16, <2>1, <3>1
      <4>2. QED
        BY <1>14, <1>16, <4>1, TextFacts
    <3>5. Start(u) = Start(v)
      BY <3>3, <3>4, Zenon DEF Start
    <3>6. QED
      BY <3>2, <3>5, Zenon DEF Place
  <2>2. CASE s # 1
    <3>1. m = s - 1 /\ m + 1 = s /\ 0 <= m
      BY <1>5, <1>6, <2>2
    <3>2. Piece(u, p, 0, m + 1)
      BY <1>5, <1>7, <1>13, <1>15, <3>1, PieceSlash
    <3>3. Piece(u, p, 0, s)
      BY <3>1, <3>2
    <3>4. u = v
      BY <1>14, <3>3, PieceSame
    <3>5. QED
      BY <3>4
  <2>3. QED
    BY <2>1, <2>2
<1>18. Place(u \o r) = Step(Place(u), r)
  <2>1. PICK z : z = u \o r
    OBVIOUS
  <2>2. z \in Text /\ Follows(z, u, r)
    BY <1>10, <1>16, <2>1, Concat
  <2>3. u[Len(u)] = "/"
    BY <1>16
  <2>4. Place(z) = Step(Place(u), r)
    BY <1>11, <1>12, <1>16, <2>2, <2>3, NamePlace
  <2>5. QED
    BY <2>1, <2>4
<1>19. Place(p) = Step(Place(v), r)
  <2>1. Len(p) <= Len(p)
    BY <1>1
  <2>2. Place(SubSeq(p, 1, Len(p))) = Step(Place(SubSeq(p, 1, s)), r)
    BY <1>1, <1>5, <1>10, <1>11, <1>12, <2>1, NameOn
  <2>3. SubSeq(p, 1, Len(p)) = p
    BY <1>1, Whole
  <2>4. QED
    BY <1>13, <2>2, <2>3, Zenon
<1>20. QED
  BY <1>8, <1>11, <1>13, <1>17, <1>18, <1>19, Zenon

(* dirname ends its string inside the buffer. *)
LEMMA DirInside ==
  ASSUME NEW p, Plain(p), NEW size \in Nat, NEW d, d = Dirname(p, size), d.ok
  PROVE  Fits(d, size)
<1>1. p \in Text /\ Len(p) \in Nat /\ \A i \in 1 .. Len(p) : p[i] \notin {NUL, "\\", ":"}
  BY PlainText
<1>2. PICK s : s = LastSep(p) /\ s \in 0 .. Len(p)
  BY <1>1, LastSepAny
<1>3. d # Error
  BY DEF Error
<1>4. PICK m : m = IF s - 1 = 0 THEN 1 ELSE s - 1
  OBVIOUS
<1>5. PICK len : len = IF m > 1 /\ p[m] = ":" THEN m + 1 ELSE m
  OBVIOUS
<1>6. ~(s - 1 < 0) /\ ~(len >= size) /\ d = Result(SubSeq(p, 1, len), len + 1)
  <2>1. (IF LastSep(p) - 1 = 0 THEN 1 ELSE LastSep(p) - 1) = m
    BY <1>2, <1>4, Zenon
  <2>2. (IF m > 1 /\ p[m] = ":" THEN m + 1 ELSE m) = len
    BY <1>5
  <2>3. QED
    BY <1>2, <1>3, <2>1, <2>2, Zenon DEF Dirname
<1>7. m \in 1 .. Len(p) /\ m \in Nat
  BY <1>1, <1>2, <1>4, <1>6
<1>8. len = m
  BY <1>1, <1>5, <1>7
<1>9. PICK w : w = SubSeq(p, 1, len) /\ Len(w) = len
  <2>1. len \in Nat /\ len <= Len(p)
    BY <1>1, <1>7, <1>8
  <2>2. QED
    BY <1>1, <2>1, Prefix
<1>10. d.path = w /\ d.top = len + 1
  <2>1. d = Result(w, len + 1)
    BY <1>6, <1>9, Zenon
  <2>2. QED
    BY <2>1 DEF Result
<1>11. QED
  BY <1>6, <1>7, <1>8, <1>9, <1>10 DEF Fits

(* So does basename, but for a path without a separator that fills it. *)
LEMMA BaseInside ==
  ASSUME NEW p, Plain(p), NEW size \in Nat, NEW b, b = Basename(p, size), b.ok
  PROVE  Fits(b, size) <=> ~(LastSep(p) = 0 /\ Len(p) = size - 1)
<1>1. p \in Text /\ Len(p) \in Nat
  BY PlainText
<1>2. PICK s : s = LastSep(p) /\ s \in 0 .. Len(p)
  BY <1>1, LastSepAny
<1>3. b # Error
  BY DEF Error
<1>4. PICK r : r = SubSeq(p, s + 1, Len(p))
  OBVIOUS
<1>5. r \in Text /\ Len(r) = Len(p) - s /\ Len(r) \in Nat
  <2>1. Len(p) <= Len(p) /\ s <= Len(p) /\ s \in Nat
    BY <1>1, <1>2
  <2>2. Piece(r, p, s, Len(p))
    BY <1>1, <1>4, <2>1, SomePiece
  <2>3. QED
    BY <1>1, <2>1, <2>2 DEF Piece
<1>6. PICK m : m = IF Len(r) >= size THEN size - 1 ELSE Len(r)
  OBVIOUS
<1>7. /\ ~(size <= 1) /\ ~(s = 0 /\ Len(p) > size - 1)
      /\ b = IF s = 0 THEN Result(r, size - 1) ELSE Result(SubSeq(r, 1, m), m + 1)
  <2>1. SubSeq(p, LastSep(p) + 1, Len(p)) = r
    BY <1>2, <1>4, Zenon
  <2>2. QED
    BY <1>2, <1>3, <1>6, <2>1, Zenon DEF Basename
<1>8. CASE s = 0
  <2>1. b = Result(r, size - 1)
    BY <1>7, <1>8, Zenon
  <2>2. b.path = r /\ b.top = size - 1
    BY <2>1 DEF Result
  <2>3. QED
    BY <1>1, <1>2, <1>5, <1>7, <1>8, <2>2 DEF Fits
<1>9. CASE s # 0
  <2>1. m \in Nat /\ m <= Len(r) /\ m < size
    BY <1>5, <1>6, <1>7
  <2>2. PICK w : w = SubSeq(r, 1, m) /\ Len(w) = m
    BY <1>5, <2>1, Prefix
  <2>3. b = Result(w, m + 1)
    BY <1>7, <1>9, <2>2, Zenon
  <2>4. b.path = w /\ b.top = m + 1
    BY <2>3 DEF Result
  <2>5. Fits(b, size)
    BY <2>1, <2>2, <2>4 DEF Fits
  <2>6. LastSep(p) # 0
    BY <1>2, <1>9
  <2>7. QED
    BY <2>5, <2>6, Zenon
<1>10. QED
  BY <1>8, <1>9

(* The laws for one path, one size and what the functions return.         *)
Lawful(p, size, n, j, d, b, u) ==
  /\ n.ok /\ Tidy(p) => Place(n.path) = Place(p)
  /\ n.ok => Fits(n, IF EndsInDots(p) /\ ~IsAbs(p) THEN size + 1 ELSE size)
  /\ n.ok /\ IsAbs(p) => NoParent(n.path)
  /\ j.ok => Fits(j, size)
  /\ d.ok => Fits(d, size)
  /\ b.ok => (Fits(b, size) <=> ~(LastSep(p) = 0 /\ Len(p) = size - 1))
  /\ d.ok /\ b.ok /\ size > Len(p) => Place(Append(d.path, "/") \o b.path) = Place(p)
  /\ u.ok => (Fits(u, size) <=> ~(IsAbs(p) /\ Len(p) = size - 1))
  /\ u.ok => IF IsAbs(p) THEN u.path = p ELSE NoParent(u.path)
  /\ u.ok /\ Tidy(<<"/">> \o p) => Place(u.path).down = Meant(p).down

(* The laws hold for every plain path and every size. *)
LEMMA AllLawful ==
  ASSUME NEW p, Plain(p), NEW size \in Nat, NEW n, n = Normpath(p, size), NEW j, j = Join(Cwd, p, size),
         NEW d, d = Dirname(p, size), NEW b, b = Basename(p, size), NEW u, u = Abspath(Cwd, p, size, MaxPath)
  PROVE  Lawful(p, size, n, j, d, b, u)
<1>1. n.ok /\ Tidy(p) => Place(n.path) = Place(p)
  BY NormTidy
<1>2. /\ n.ok => Fits(n, IF EndsInDots(p) /\ ~IsAbs(p) THEN size + 1 ELSE size)
      /\ n.ok /\ IsAbs(p) => NoParent(n.path)
  <2>1. n.ok /\ IsAbs(p) => Fits(n, size) /\ NoParent(n.path)
    BY NormInside
  <2>2. n.ok => Fits(n, IF EndsInDots(p) THEN size + 1 ELSE size)
    BY NormNear
  <2>3. QED
    BY <2>1, <2>2, Zenon
<1>3. j.ok => Fits(j, size)
  BY JoinInside
<1>4. d.ok /\ b.ok /\ size > Len(p) => Place(Append(d.path, "/") \o b.path) = Place(p)
  BY DirAndBase
<1>5. u.ok => /\ Fits(u, size) <=> ~(IsAbs(p) /\ Len(p) = size - 1)
              /\ IF IsAbs(p) THEN u.path = p ELSE NoParent(u.path)
              /\ Tidy(<<"/">> \o p) => Place(u.path).down = Meant(p).down
  BY AbspathFacts
<1>6. d.ok => Fits(d, size)
  BY DirInside
<1>7. b.ok => (Fits(b, size) <=> ~(LastSep(p) = 0 /\ Len(p) = size - 1))
  BY BaseInside
<1>8. QED
  BY <1>1, <1>2, <1>3, <1>4, <1>5, <1>6, <1>7, Zenon DEF Lawful

(* The laws of haclog_path.c hold of every plain path and every size of    *)
(* the buffer: the loop of normpath never gets ahead of an absolute path,  *)
(* and of any other only by the NUL of a .. at its end, keeps no .. of an  *)
(* absolute path, and leads with what it has kept where the path it has    *)
(* read leads.  abspath and basename leave out the NUL exactly when they   *)
(* copy a path that fills the buffer, and an absolute path comes back from *)
(* abspath as it is.                                                       *)
THEOREM PathsLawful == Spec => []PathLaws
<1>1. IInv => PathLaws
  <2>1. SUFFICES ASSUME IInv, NEW o \in Openers, NEW size \in 1 .. (Len(path[o]) + 4)
                 PROVE  Lawful(path[o], size, Normpath(path[o], size), Join(Cwd, path[o], size),
                               Dirname(path[o], size), Basename(path[o], size),
                               Abspath(Cwd, path[o], size, MaxPath))
    BY Zenon DEF PathLaws, Lawful
  <2>2. Plain(path[o])
    BY <2>1 DEF IInv, Typed
  <2>3. size \in Nat
    BY <2>1, <2>2, PlainText
  <2>4. QED
    BY <2>2, <2>3, AllLawful, Zenon
<1>2. QED
  BY <1>1, Invariance, PTL

=============================================================================
