-------------------------- MODULE TimeRotateProofs --------------------------
(***************************************************************************)
(* Proofs about the time rotating file handler, for every calendar, every  *)
(* rotate_mod and every bound: the files are written one after the other,  *)
(* and a file runs ahead of its period by at most its last line.           *)
(***************************************************************************)
EXTENDS TimeRotate, SequenceTheorems, WellFoundedInduction, TLAPS

-----------------------------------------------------------------------------
(* Induction over the natural numbers, for a set: the provers cannot       *)
(* instantiate the theorems of the library, whose parameter is an operator.*)

(* A set of natural numbers that is not empty has a least element. *)
LEMMA LeastNat ==
  ASSUME NEW T \in SUBSET Nat, T # {}
  PROVE  \E x \in T : \A y \in T : x <= y
<1>1. PICK x \in T : \A y \in T : <<y, x>> \notin OpToRel(<, Nat)
  BY NatLessThanWellFounded, WFMin
<1>2. \A y \in T : ~(y < x)
  BY <1>1 DEF OpToRel
<1>3. QED
  BY <1>2

(* A set that has 0, and n + 1 with every n, has every natural number. *)
LEMMA NatInSet ==
  ASSUME NEW G, 0 \in G, \A n \in Nat : n \in G => n + 1 \in G
  PROVE  \A n \in Nat : n \in G
<1> SUFFICES ASSUME NEW n \in Nat, n \notin G PROVE FALSE
  OBVIOUS
<1> DEFINE T == {m \in Nat : m \notin G}
<1>1. T \in SUBSET Nat /\ n \in T
  OBVIOUS
<1>2. PICK x \in T : \A y \in T : x <= y
  BY <1>1, LeastNat
<1>3. x \in Nat /\ x # 0 /\ x \notin G
  OBVIOUS
<1>4. x - 1 \in Nat /\ x - 1 \in G
  BY <1>2, <1>3
<1>5. QED
  BY <1>3, <1>4

-----------------------------------------------------------------------------
(* Sequences joined one behind the other.                                  *)

(* g[k] is the first k parts of f, one behind the other. *)
Joins(g, f, n) == g = [k \in 0 .. n |-> IF k = 0 THEN <<>> ELSE g[k - 1] \o f[k]]

LEMMA JoinsFacts ==
  ASSUME NEW n \in Nat, NEW f, NEW g, Joins(g, f, n)
  PROVE  g[0] = <<>> /\ \A k \in 0 .. n - 1 : g[k + 1] = g[k] \o f[k + 1]
<1>1. \A k \in 0 .. n : g[k] = IF k = 0 THEN <<>> ELSE g[k - 1] \o f[k]
  BY Zenon DEF Joins
<1>2. ASSUME NEW k \in 0 .. n - 1 PROVE g[k + 1] = g[k] \o f[k + 1]
  <2>1. k + 1 \in 0 .. n /\ k + 1 # 0 /\ (k + 1) - 1 = k
    OBVIOUS
  <2>2. QED
    BY <1>1, <2>1
<1>3. 0 \in 0 .. n
  OBVIOUS
<1>4. QED
  BY <1>1, <1>2, <1>3

(* Joins of parts that agree up to j agree up to j. *)
Agree(f, e, j) == \A k \in 1 .. j : f[k] = e[k]

LEMMA JoinsAgree ==
  ASSUME NEW n \in Nat, NEW m \in Nat, NEW j \in Nat, j <= n, j <= m,
         NEW f, NEW e, NEW g, NEW h,
         Joins(g, f, n), Joins(h, e, m), Agree(f, e, j)
  PROVE  g[j] = h[j]
<1> DEFINE G == {k \in Nat : k <= j => g[k] = h[k]}
<1>1. g[0] = <<>> /\ \A k \in 0 .. n - 1 : g[k + 1] = g[k] \o f[k + 1]
  BY JoinsFacts, ZenonT(40)
<1>2. h[0] = <<>> /\ \A k \in 0 .. m - 1 : h[k + 1] = h[k] \o e[k + 1]
  BY JoinsFacts, ZenonT(40)
<1>3. 0 \in G
  BY <1>1, <1>2
<1>4. ASSUME NEW k \in Nat, k \in G PROVE k + 1 \in G
  <2>1. ASSUME k + 1 <= j PROVE g[k + 1] = h[k + 1]
    <3>1. k \in 0 .. n - 1 /\ k \in 0 .. m - 1 /\ k + 1 \in 1 .. j /\ k <= j
      BY <2>1
    <3>2. g[k] = h[k] /\ f[k + 1] = e[k + 1]
      BY <1>4, <3>1 DEF Agree
    <3>3. QED
      BY <1>1, <1>2, <3>1, <3>2
  <2>2. QED
    BY <2>1
<1>5. \A k \in Nat : k \in G
  <2> HIDE DEF G
  <2>1. QED
    BY <1>3, <1>4, NatInSet
<1>6. QED
  BY <1>5

LEMMA JoinsUnique ==
  ASSUME NEW n \in Nat, NEW m \in Nat, n <= m, NEW f, NEW e, NEW g, NEW h,
         Joins(g, f, n), Joins(h, e, m), \A k \in 1 .. n : f[k] = e[k]
  PROVE  g[n] = h[n]
<1>1. n <= n /\ Agree(f, e, n)
  BY DEF Agree
<1>2. QED
  BY <1>1, JoinsAgree

LEMMA JoinsTyped ==
  ASSUME NEW S, NEW n \in Nat, NEW f, NEW g, Joins(g, f, n), \A k \in 1 .. n : f[k] \in Seq(S)
  PROVE  \A k \in 0 .. n : g[k] \in Seq(S)
<1> DEFINE G == {k \in Nat : k <= n => g[k] \in Seq(S)}
<1>1. g[0] = <<>> /\ \A k \in 0 .. n - 1 : g[k + 1] = g[k] \o f[k + 1]
  BY JoinsFacts, Zenon
<1>2. 0 \in G
  BY <1>1, EmptySeq
<1>3. ASSUME NEW k \in Nat, k \in G PROVE k + 1 \in G
  <2>1. ASSUME k + 1 <= n PROVE g[k + 1] \in Seq(S)
    <3>1. k \in 0 .. n - 1 /\ k + 1 \in 1 .. n /\ k <= n
      BY <2>1
    <3>2. g[k] \in Seq(S) /\ f[k + 1] \in Seq(S) /\ g[k + 1] = g[k] \o f[k + 1]
      BY <1>1, <1>3, <3>1
    <3>3. QED
      BY <3>2, ConcatProperties
  <2>2. QED
    BY <2>1
<1>4. \A k \in Nat : k \in G
  <2> HIDE DEF G
  <2>1. QED
    BY <1>2, <1>3, NatInSet
<1>5. QED
  BY <1>4

(* g joins the parts f, and h the parts e, which are f with x added to the *)
(* last one, m, that is not empty.                                         *)
AddsLast(g, f, h, e, m, n, x, S) ==
  /\ n \in Nat
  /\ m \in 1 .. n
  /\ x \in Seq(S)
  /\ Joins(g, f, n)
  /\ Joins(h, e, n)
  /\ \A k \in 1 .. n : f[k] \in Seq(S)
  /\ \A k \in 1 .. m - 1 : f[k] = e[k]
  /\ e[m] = f[m] \o x
  /\ \A k \in m + 1 .. n : f[k] = <<>> /\ e[k] = <<>>

(* x is then added to the join.                                            *)
LEMMA JoinsAdd ==
  ASSUME NEW S, NEW i, NEW j, NEW f, NEW e, NEW g, NEW h, NEW y, AddsLast(g, f, h, e, j, i, y, S)
  PROVE  h[i] = g[i] \o y
<1>1. ASSUME NEW n \in Nat, NEW m \in 1 .. n, NEW x \in Seq(S),
             Joins(g, f, n), Joins(h, e, n), \A k \in 1 .. n : f[k] \in Seq(S),
             \A k \in 1 .. m - 1 : f[k] = e[k], e[m] = f[m] \o x,
             \A k \in m + 1 .. n : f[k] = <<>> /\ e[k] = <<>>
      PROVE  h[n] = g[n] \o x
  <2> USE <1>1
  <2>0. m - 1 \in Nat /\ m - 1 <= n /\ m \in Nat /\ m <= n /\ (m - 1) + 1 = m /\ m - 1 \in 0 .. n - 1
        /\ m - 1 \in 0 .. n
    OBVIOUS
  <2>1. \A k \in 0 .. n - 1 : g[k + 1] = g[k] \o f[k + 1]
    BY JoinsFacts, Zenon
  <2>2. \A k \in 0 .. n - 1 : h[k + 1] = h[k] \o e[k + 1]
    BY JoinsFacts, Zenon
  <2>3. \A k \in 0 .. n : g[k] \in Seq(S)
    BY JoinsTyped, Zenon
  <2>4. g[m - 1] = h[m - 1]
    <3>1. PICK c \in Nat : c = m - 1
      BY <2>0
    <3>2. c <= n /\ Agree(f, e, c) /\ Joins(g, f, n) /\ Joins(h, e, n)
      BY <2>0, <3>1 DEF Agree
    <3>3. g[c] = h[c]
      <4> HIDE <1>1
      <4>1. QED
        BY <3>2, JoinsAgree
    <3>4. QED
      BY <3>1, <3>3
  <2>5. h[m] = g[m] \o x
    <3>1. PICK a \in Seq(S), b \in Seq(S) : a = g[m - 1] /\ b = f[m]
      BY <2>0, <2>3
    <3>2. (a \o b) \o x = a \o (b \o x)
      BY ConcatAssociative, SMTT(40)
    <3>3. g[m] = a \o b /\ h[m] = a \o (b \o x)
      BY <2>0, <2>1, <2>2, <2>4, <3>1
    <3>4. QED
      BY <3>2, <3>3
  <2> DEFINE G == {k \in Nat : m <= k /\ k <= n => h[k] = g[k] \o x}
  <2>6. 0 \in G
    BY <2>0
  <2>7. ASSUME NEW k \in Nat, k \in G PROVE k + 1 \in G
    <3>1. ASSUME m <= k + 1, k + 1 <= n PROVE h[k + 1] = g[k + 1] \o x
      <4>1. CASE k + 1 = m
        BY <2>5, <4>1
      <4>2. CASE k + 1 # m
        <5>1. k \in 0 .. n - 1 /\ k \in 0 .. n /\ m <= k /\ k <= n /\ k + 1 \in m + 1 .. n
          BY <2>0, <3>1, <4>2
        <5>2. PICK a \in Seq(S) : a = g[k]
          BY <2>3, <5>1
        <5>3. h[k] = a \o x /\ g[k + 1] = a \o <<>> /\ h[k + 1] = h[k] \o <<>>
          BY <2>1, <2>2, <2>7, <5>1, <5>2
        <5>4. a \o x \in Seq(S)
          BY ConcatProperties
        <5>5. a \o <<>> = a /\ (a \o x) \o <<>> = a \o x
          BY <5>4, ConcatEmptySeq
        <5>6. QED
          BY <5>3, <5>5
      <4>3. QED
        BY <4>1, <4>2
    <3>2. QED
      BY <3>1
  <2>8. \A k \in Nat : k \in G
    <3> HIDE DEF G
    <3>1. QED
      BY <2>6, <2>7, NatInSet
  <2>9. n \in G /\ n <= n
    BY <2>8
  <2>10. QED
    BY <2>0, <2>9
<1>2. QED
  BY <1>1 DEF AddsLast

LEMMA JoinsExist ==
  ASSUME NEW S, NEW n \in Nat, NEW f, \A k \in 1 .. n : f[k] \in Seq(S)
  PROVE  \E g : Joins(g, f, n) /\ g[n] \in Seq(S)
<1> DEFINE G == {m \in Nat : m <= n => \E g : Joins(g, f, m) /\ g[m] \in Seq(S)}
<1>1. 0 \in G
  <2>1. PICK g : g = [k \in 0 .. 0 |-> <<>>]
    OBVIOUS
  <2>2. g[0] = <<>> /\ \A k \in 0 .. 0 : k = 0
    BY <2>1
  <2>3. Joins(g, f, 0)
    BY <2>1, <2>2 DEF Joins
  <2>4. g[0] \in Seq(S)
    BY <2>2, EmptySeq
  <2>5. QED
    BY <2>3, <2>4
<1>2. ASSUME NEW m \in Nat, m \in G PROVE m + 1 \in G
  <2>1. ASSUME m + 1 <= n PROVE \E g : Joins(g, f, m + 1) /\ g[m + 1] \in Seq(S)
    <3>1. PICK g : Joins(g, f, m) /\ g[m] \in Seq(S)
      BY <1>2, <2>1
    <3>2. PICK h : h = [k \in 0 .. m + 1 |-> IF k = m + 1 THEN g[m] \o f[m + 1] ELSE g[k]]
      OBVIOUS
    <3>3. /\ h[m + 1] = g[m] \o f[m + 1]
          /\ \A k \in 0 .. m : h[k] = g[k]
      BY <3>2
    <3>4. ASSUME NEW k \in 0 .. m + 1
          PROVE  h[k] = IF k = 0 THEN <<>> ELSE h[k - 1] \o f[k]
      <4>1. g[0] = <<>> /\ \A j \in 0 .. m - 1 : g[j + 1] = g[j] \o f[j + 1]
        BY <3>1, JoinsFacts
      <4>2. CASE k = 0
        BY <3>3, <4>1, <4>2
      <4>3. CASE k = m + 1
        <5>1. k - 1 = m /\ m \in 0 .. m /\ k # 0
          BY <4>3
        <5>2. QED
          BY <3>3, <4>3, <5>1
      <4>4. CASE k # 0 /\ k # m + 1
        <5>1. k \in 0 .. m /\ k - 1 \in 0 .. m - 1 /\ k - 1 \in 0 .. m /\ (k - 1) + 1 = k
          BY <4>4
        <5>2. QED
          BY <3>3, <4>1, <4>4, <5>1
      <4>5. QED
        BY <4>2, <4>3, <4>4
    <3>5. Joins(h, f, m + 1)
      BY <3>2, <3>4, Zenon DEF Joins
    <3>6. h[m + 1] \in Seq(S)
      <4>1. f[m + 1] \in Seq(S)
        BY <2>1
      <4>2. QED
        BY <3>1, <3>3, <4>1, ConcatProperties
    <3>7. QED
      BY <3>5, <3>6
  <2>2. QED
    BY <2>1
<1>3. \A m \in Nat : m \in G
  <2> HIDE DEF G
  <2>1. QED
    BY <1>1, <1>2, NatInSet
<1>4. QED
  BY <1>3

-----------------------------------------------------------------------------
(* The inductive invariant.                                                *)


Typed ==
  /\ unit \in Units /\ mod \in Nat \ {0}
  /\ now \in 0 .. MaxTime /\ last_sec \in 0 .. now
  /\ up \in BOOLEAN /\ fp \in Nat \cup {Closed} /\ (fp # Closed => up)
  /\ DOMAIN files \subseteq Nat /\ files \in [DOMAIN files -> Seq(0 .. MaxTime)]

(* The state of the handler as far as the order of files goes: g the files *)
(* on disk, l the last time, f the open file.  No file has a name later    *)
(* than l, and none a line later than l.                                   *)
NoneLater(g, l) ==
  \A n \in DOMAIN g : n <= Name(l) /\ \A k \in DOMAIN g[n] : g[n][k] <= l

(* The open file is the one with the latest name, it stands for the period *)
(* of l, and no line in it is ahead of that period.                        *)
OpenIsLatest(g, l, f) ==
  /\ f \in DOMAIN g
  /\ \A n \in DOMAIN g : n <= f
  /\ PeriodOfFile(f) = Period(l)
  /\ \A k \in DOMAIN g[f] : Period(g[f][k]) <= Period(l)

LastLineAhead(g) ==
  \A n \in DOMAIN g : \A k \in DOMAIN g[n] :
    Period(g[n][k]) > PeriodOfFile(n) => k = Len(g[n])

Placed(g, l, f) ==
  /\ NoneLater(g, l)
  /\ f # Closed => OpenIsLatest(g, l, f)
  /\ LastLineAhead(g)

IInv == Typed /\ Placed(files, last_sec, fp)

-----------------------------------------------------------------------------
(* Division.                                                               *)

LEMMA DivType ==
  ASSUME NEW a \in Nat, NEW k \in Nat \ {0}
  PROVE  a \div k \in Nat /\ a % k \in Nat /\ a \div k <= a /\ a % k <= a
OBVIOUS

LEMMA DivMonotone ==
  ASSUME NEW a \in Nat, NEW b \in Nat, a <= b, NEW k \in Nat \ {0}
  PROVE  a \div k <= b \div k /\ (a \div k = b \div k => a % k <= b % k)
OBVIOUS

LEMMA DivDiv ==
  ASSUME NEW a \in Nat, NEW k \in Nat \ {0}, NEW m \in Nat \ {0}
  PROVE  a \div (k * m) = (a \div k) \div m /\ k * m \in Nat \ {0}
OBVIOUS

LEMMA MulDiv ==
  ASSUME NEW a \in Nat, NEW k \in Nat \ {0}
  PROVE  (a * k) \div k = a /\ a * k \in Nat
OBVIOUS

LEMMA SameDigits ==
  ASSUME NEW a \in Nat, NEW b \in Nat, NEW k \in Nat \ {0},
         a \div k = b \div k, a % k = b % k
  PROVE  a = b
OBVIOUS

-----------------------------------------------------------------------------
(* The calendar, one field after the other.                                *)

LEMMA CalendarFacts ==
  /\ SecPerMin \in Nat \ {0} /\ MinPerHour \in Nat \ {0}
  /\ HourPerDay \in Nat \ {0} /\ DayPerMonth \in Nat \ {0}
  /\ SecsPer("s") = 1 /\ SecsPer("m") = SecPerMin
  /\ SecsPer("h") = SecPerMin * MinPerHour
  /\ SecsPer("d") = SecPerMin * MinPerHour * HourPerDay
  /\ MaxTime \in Nat
BY TimeAssumption DEF SecsPer

LEMMA SecsPerType ==
  ASSUME NEW u \in Units
  PROVE  SecsPer(u) \in Nat \ {0}
<1>1. SecPerMin * MinPerHour \in Nat \ {0}
  BY CalendarFacts, DivDiv
<1>2. SecPerMin * MinPerHour * HourPerDay \in Nat \ {0}
  BY <1>1, CalendarFacts, DivDiv
<1>3. QED
  BY <1>1, <1>2, CalendarFacts DEF Units

(* The minutes, hours, days and months of a time.                          *)
Minutes(t) == t \div SecPerMin
Hours(t)   == Minutes(t) \div MinPerHour
Days(t)    == Hours(t) \div HourPerDay
Months(t)  == Days(t) \div DayPerMonth

LEMMA CalendarTypes ==
  ASSUME NEW t \in Nat
  PROVE  /\ Minutes(t) \in Nat /\ Minutes(t) <= t
         /\ Hours(t) \in Nat /\ Hours(t) <= t
         /\ Days(t) \in Nat /\ Days(t) <= t
         /\ Months(t) \in Nat
<1>1. Minutes(t) \in Nat /\ Minutes(t) <= t
  BY CalendarFacts, DivType DEF Minutes
<1>2. Hours(t) \in Nat /\ Hours(t) <= Minutes(t)
  BY <1>1, CalendarFacts, DivType DEF Hours
<1>3. Days(t) \in Nat /\ Days(t) <= Hours(t)
  BY <1>2, CalendarFacts, DivType DEF Days
<1>4. Months(t) \in Nat
  BY <1>3, CalendarFacts, DivType DEF Months
<1>5. QED
  BY <1>1, <1>2, <1>3, <1>4

LEMMA CalendarFields ==
  ASSUME NEW t \in Nat
  PROVE  /\ t \div SecsPer("s") = t
         /\ t \div SecsPer("m") = Minutes(t)
         /\ t \div SecsPer("h") = Hours(t)
         /\ t \div SecsPer("d") = Days(t)
         /\ t \div (SecsPer("d") * DayPerMonth) = Months(t)
         /\ Tm(t).sec = t % SecPerMin
         /\ Tm(t).min = Minutes(t) % MinPerHour
         /\ Tm(t).hour = Hours(t) % HourPerDay
         /\ Tm(t).mday = (Days(t) % DayPerMonth) + 1
         /\ Tm(t).month = Months(t)
<1>1. t \div 1 = t
  OBVIOUS
<1>2. t \div SecsPer("h") = Hours(t) /\ SecPerMin * MinPerHour \in Nat \ {0}
  <2>1. t \div (SecPerMin * MinPerHour) = (t \div SecPerMin) \div MinPerHour
        /\ SecPerMin * MinPerHour \in Nat \ {0}
    BY CalendarFacts, DivDiv
  <2>2. QED
    BY <2>1, CalendarFacts DEF Hours, Minutes
<1>3. t \div SecsPer("d") = Days(t)
  BY <1>2, CalendarFacts, DivDiv DEF Days
<1>4. t \div (SecsPer("d") * DayPerMonth) = Months(t)
  BY <1>3, CalendarFacts, DivDiv, SecsPerType DEF Months, Units
<1>5. QED
  BY <1>1, <1>2, <1>3, <1>4, CalendarFacts DEF Tm, Minutes

-----------------------------------------------------------------------------
(* Names and periods.  The name of a time counts the unit, and the period  *)
(* of a time depends on its name only.                                     *)

Radix == CASE unit = "s" -> SecPerMin [] unit = "m" -> MinPerHour
           [] unit = "h" -> HourPerDay [] unit = "d" -> DayPerMonth
First == IF unit = "d" THEN 1 ELSE 0

PeriodOfName(n) == (n \div Radix) * (MaxTime + 1) + ((n % Radix) + First) \div mod

LEMMA NameFacts ==
  ASSUME unit \in Units, NEW t \in Nat
  PROVE  /\ Name(t) \in Nat /\ Name(t) <= t /\ Radix \in Nat \ {0} /\ First \in 0 .. 1
         /\ Name(Name(t) * SecsPer(unit)) = Name(t)
         /\ Name(t) * SecsPer(unit) \in Nat
         /\ \A s \in Nat : t <= s => Name(t) <= Name(s)
<1>1. SecsPer(unit) \in Nat \ {0}
  BY SecsPerType
<1>2. Name(t) \in Nat /\ Name(t) <= t
  BY <1>1, DivType DEF Name
<1>3. Radix \in Nat \ {0} /\ First \in 0 .. 1
  BY CalendarFacts DEF Radix, First, Units
<1>4. Name(Name(t) * SecsPer(unit)) = Name(t) /\ Name(t) * SecsPer(unit) \in Nat
  BY <1>1, <1>2, MulDiv DEF Name
<1>5. \A s \in Nat : t <= s => Name(t) <= Name(s)
  BY <1>1, DivMonotone DEF Name
<1>6. QED
  BY <1>2, <1>3, <1>4, <1>5

LEMMA PeriodByName ==
  ASSUME unit \in Units, NEW t \in Nat
  PROVE  Period(t) = PeriodOfName(Name(t))
<1>1. CASE unit = "s"
  <2>1. Name(t) = t /\ Radix = SecPerMin /\ First = 0
    BY <1>1, CalendarFields DEF Name, Radix, First
  <2>2. Period(t) = Minutes(t) * (MaxTime + 1) + (t % SecPerMin) \div mod
    BY <1>1, CalendarFields DEF Period
  <2>3. (t % SecPerMin) + 0 = t % SecPerMin
    BY CalendarFacts, DivType
  <2>4. QED
    BY <2>1, <2>2, <2>3 DEF PeriodOfName, Minutes
<1>2. CASE unit = "m"
  <2>1. Name(t) = Minutes(t) /\ Radix = MinPerHour /\ First = 0
    BY <1>2, CalendarFields DEF Name, Radix, First
  <2>2. Period(t) = Hours(t) * (MaxTime + 1) + (Minutes(t) % MinPerHour) \div mod
    BY <1>2, CalendarFields DEF Period
  <2>3. (Minutes(t) % MinPerHour) + 0 = Minutes(t) % MinPerHour
    BY CalendarFacts, CalendarTypes, DivType
  <2>4. QED
    BY <2>1, <2>2, <2>3 DEF PeriodOfName, Hours
<1>3. CASE unit = "h"
  <2>1. Name(t) = Hours(t) /\ Radix = HourPerDay /\ First = 0
    BY <1>3, CalendarFields DEF Name, Radix, First
  <2>2. Period(t) = Days(t) * (MaxTime + 1) + (Hours(t) % HourPerDay) \div mod
    BY <1>3, CalendarFields DEF Period
  <2>3. (Hours(t) % HourPerDay) + 0 = Hours(t) % HourPerDay
    BY CalendarFacts, CalendarTypes, DivType
  <2>4. QED
    BY <2>1, <2>2, <2>3 DEF PeriodOfName, Days
<1>4. CASE unit = "d"
  <2>1. Name(t) = Days(t) /\ Radix = DayPerMonth /\ First = 1
    BY <1>4, CalendarFields DEF Name, Radix, First
  <2>2. Period(t) = Months(t) * (MaxTime + 1) + ((Days(t) % DayPerMonth) + 1) \div mod
    BY <1>4, CalendarFields DEF Period
  <2>3. QED
    BY <2>1, <2>2 DEF PeriodOfName, Months
<1>5. QED
  BY <1>1, <1>2, <1>3, <1>4 DEF Units

LEMMA Weighted ==
  ASSUME NEW p \in Nat, NEW q \in Nat, p < q, NEW w \in Nat,
         NEW x \in 0 .. w, NEW y \in Nat
  PROVE  p * w + x <= q * w + y
<1>1. (q - p) * w >= w
  OBVIOUS
<1>2. QED
  BY <1>1

(* A later time is in no earlier period. *)
LEMMA PeriodMonotone ==
  ASSUME unit \in Units, mod \in Nat \ {0},
         NEW a \in 0 .. MaxTime, NEW b \in 0 .. MaxTime, a <= b
  PROVE  Period(a) <= Period(b)
<1> DEFINE m == Name(a)
           n == Name(b)
<1>1. /\ a \in Nat /\ b \in Nat /\ MaxTime \in Nat
      /\ m \in Nat /\ n \in Nat /\ m <= n /\ n <= MaxTime /\ Radix \in Nat \ {0}
      /\ First \in 0 .. 1
  BY CalendarFacts, NameFacts
<1>2. Period(a) = PeriodOfName(m) /\ Period(b) = PeriodOfName(n)
  BY <1>1, PeriodByName
<1> HIDE DEF m, n
<1>3. /\ m \div Radix \in Nat /\ n \div Radix \in Nat
      /\ m % Radix \in Nat /\ n % Radix \in Nat /\ m % Radix <= m
      /\ m \div Radix <= n \div Radix
      /\ m \div Radix = n \div Radix => m % Radix <= n % Radix
  BY <1>1, DivType, DivMonotone
<1>4. /\ (m % Radix) + First \in 0 .. MaxTime + 1
      /\ (n % Radix) + First \in Nat
  BY <1>1, <1>3
<1>5. /\ ((m % Radix) + First) \div mod \in 0 .. MaxTime + 1
      /\ ((n % Radix) + First) \div mod \in Nat
  <2>1. ((m % Radix) + First) \in Nat
    BY <1>1, <1>4
  <2>2. /\ ((m % Radix) + First) \div mod \in Nat
        /\ ((m % Radix) + First) \div mod <= ((m % Radix) + First)
        /\ ((n % Radix) + First) \div mod \in Nat
    BY <1>4, <2>1, DivType
  <2>3. QED
    BY <1>1, <1>4, <2>2
<1>6. CASE m \div Radix = n \div Radix
  <2>1. (m % Radix) + First <= (n % Radix) + First /\ (m % Radix) + First \in Nat
    BY <1>1, <1>3, <1>6
  <2>2. ((m % Radix) + First) \div mod <= ((n % Radix) + First) \div mod
    BY <1>4, <2>1, DivMonotone
  <2>3. (m \div Radix) * (MaxTime + 1) \in Nat
    BY <1>1, <1>3
  <2>4. QED
    BY <1>2, <1>5, <1>6, <2>2, <2>3 DEF PeriodOfName
<1>7. CASE m \div Radix < n \div Radix
  BY <1>1, <1>2, <1>3, <1>5, <1>7, Weighted DEF PeriodOfName
<1>8. QED
  BY <1>3, <1>6, <1>7

(* A file stands for the period of every time that has its name. *)
LEMMA PeriodOfItsFile ==
  ASSUME unit \in Units, NEW t \in Nat
  PROVE  PeriodOfFile(Name(t)) = Period(t)
<1>1. Period(Name(t) * SecsPer(unit)) = PeriodOfName(Name(Name(t) * SecsPer(unit)))
  BY NameFacts, PeriodByName
<1>2. QED
  BY <1>1, NameFacts, PeriodByName DEF PeriodOfFile

(* detect finds every change of the period. *)
LEMMA SamePeriod ==
  ASSUME unit \in Units, NEW a \in Nat, NEW b \in Nat, ~Differ(a, b)
  PROVE  Period(a) = Period(b)
<1>1. Months(a) = Months(b)
  BY CalendarFields DEF Differ
<1>2. unit # "d" => Days(a) = Days(b)
  <2>1. unit # "d" => Days(a) % DayPerMonth = Days(b) % DayPerMonth
    <3>1. unit # "d" => Tm(a).mday = Tm(b).mday
      BY DEF Differ
    <3>2. Days(a) % DayPerMonth \in Nat /\ Days(b) % DayPerMonth \in Nat
      BY CalendarTypes, CalendarFacts, DivType
    <3>3. QED
      BY <3>1, <3>2, CalendarFields
  <2>2. QED
    BY <1>1, <2>1, SameDigits, CalendarTypes, CalendarFacts DEF Months
<1>3. unit \in {"s", "m"} => Hours(a) = Hours(b)
  <2>1. unit \in {"s", "m"} => Hours(a) % HourPerDay = Hours(b) % HourPerDay
    BY CalendarFields DEF Differ
  <2>2. QED
    BY <1>2, <2>1, SameDigits, CalendarTypes, CalendarFacts DEF Days
<1>4. unit = "s" => Minutes(a) = Minutes(b)
  <2>1. unit = "s" => Minutes(a) % MinPerHour = Minutes(b) % MinPerHour
    BY CalendarFields DEF Differ
  <2>2. QED
    BY <1>3, <2>1, SameDigits, CalendarTypes, CalendarFacts DEF Hours
<1>5. CASE unit = "s"
  <2>1. (a % SecPerMin) \div mod = (b % SecPerMin) \div mod
    BY <1>5, CalendarFields DEF Differ
  <2>2. QED
    BY <1>4, <1>5, <2>1, CalendarFields DEF Period
<1>6. CASE unit = "m"
  <2>1. (Minutes(a) % MinPerHour) \div mod = (Minutes(b) % MinPerHour) \div mod
    BY <1>6, CalendarFields DEF Differ
  <2>2. QED
    BY <1>3, <1>6, <2>1, CalendarFields DEF Period
<1>7. CASE unit = "h"
  <2>1. (Hours(a) % HourPerDay) \div mod = (Hours(b) % HourPerDay) \div mod
    BY <1>7, CalendarFields DEF Differ
  <2>2. QED
    BY <1>2, <1>7, <2>1, CalendarFields DEF Period
<1>8. CASE unit = "d"
  <2>1. ((Days(a) % DayPerMonth) + 1) \div mod = ((Days(b) % DayPerMonth) + 1) \div mod
    BY <1>8, CalendarFields DEF Differ
  <2>2. QED
    BY <1>1, <1>8, <2>1, CalendarFields DEF Period
<1>9. QED
  BY <1>5, <1>6, <1>7, <1>8 DEF Units

-----------------------------------------------------------------------------
(* Writing to a file and opening one.                                      *)

FileSystem(g) == DOMAIN g \subseteq Nat /\ g \in [DOMAIN g -> Seq(0 .. MaxTime)]

Written(g, f, t) == [g EXCEPT ![f] = Append(@, t)]

LEMMA WrittenFile ==
  ASSUME NEW g, FileSystem(g), NEW f \in DOMAIN g, NEW t \in 0 .. MaxTime
  PROVE  LET h == Written(g, f, t) IN
         /\ FileSystem(h) /\ DOMAIN h = DOMAIN g
         /\ \A n \in DOMAIN g : n # f => h[n] = g[n]
         /\ Len(g[f]) \in Nat /\ Len(h[f]) = Len(g[f]) + 1
         /\ DOMAIN h[f] = 1 .. Len(h[f]) /\ DOMAIN g[f] = 1 .. Len(g[f])
         /\ \A k \in DOMAIN g[f] : h[f][k] = g[f][k]
         /\ h[f][Len(h[f])] = t
<1> DEFINE h == Written(g, f, t)
<1>1. g[f] \in Seq(0 .. MaxTime)
  BY DEF FileSystem
<1>2. DOMAIN h = DOMAIN g /\ h[f] = Append(g[f], t) /\ \A n \in DOMAIN g : n # f => h[n] = g[n]
  BY DEF FileSystem, Written
<1>3. Append(g[f], t) \in Seq(0 .. MaxTime)
  BY <1>1
<1>4. FileSystem(h)
  BY <1>2, <1>3 DEF FileSystem, Written
<1>5. QED
  BY <1>1, <1>2, <1>4

LEMMA OpenedFile ==
  ASSUME NEW g, FileSystem(g), NEW f \in Nat
  PROVE  /\ FileSystem(OpenFile(g, f)) /\ DOMAIN OpenFile(g, f) = DOMAIN g \cup {f}
         /\ \A n \in DOMAIN g : OpenFile(g, f)[n] = g[n]
         /\ f \notin DOMAIN g => OpenFile(g, f)[f] = <<>>
<1>1. /\ DOMAIN OpenFile(g, f) = DOMAIN g \cup {f}
      /\ \A n \in DOMAIN g : OpenFile(g, f)[n] = g[n]
      /\ f \notin DOMAIN g => OpenFile(g, f)[f] = <<>>
  BY DEF OpenFile
<1>2. <<>> \in Seq(0 .. MaxTime)
  OBVIOUS
<1>3. OpenFile(g, f) \in [DOMAIN g \cup {f} -> Seq(0 .. MaxTime)]
  BY <1>2 DEF OpenFile, FileSystem
<1>4. QED
  BY <1>1, <1>3 DEF FileSystem

LEMMA LineTypes ==
  ASSUME NEW g, FileSystem(g), NEW n \in DOMAIN g, NEW k \in DOMAIN g[n]
  PROVE  g[n][k] \in 0 .. MaxTime /\ g[n][k] \in Nat /\ n \in Nat
BY CalendarFacts DEF FileSystem

LEMMA PeriodTypes ==
  ASSUME unit \in Units, mod \in Nat \ {0}, NEW t \in Nat
  PROVE  Period(t) \in Nat /\ PeriodOfFile(t) \in Nat
<1>1. ASSUME NEW s \in Nat PROVE Period(s) \in Nat
  <2>1. Name(s) \in Nat /\ Radix \in Nat \ {0} /\ First \in 0 .. 1 /\ MaxTime + 1 \in Nat
    BY NameFacts, CalendarFacts
  <2>2. Name(s) \div Radix \in Nat /\ Name(s) % Radix \in Nat
    BY <2>1, DivType
  <2>3. (Name(s) \div Radix) * (MaxTime + 1) \in Nat /\ (Name(s) % Radix) + First \in Nat
    BY <2>1, <2>2
  <2>4. ((Name(s) % Radix) + First) \div mod \in Nat
    BY <2>3, DivType
  <2>5. PeriodOfName(Name(s)) \in Nat
    BY <2>3, <2>4 DEF PeriodOfName
  <2>6. QED
    BY <2>5, PeriodByName
<1>2. t * SecsPer(unit) \in Nat
  BY SecsPerType
<1>3. QED
  BY <1>1, <1>2 DEF PeriodOfFile

(* What init and rotate do: the file named after the last time is opened,  *)
(* as a new one or after a restart within the same period.                 *)
LEMMA OpenPlaced ==
  ASSUME unit \in Units, mod \in Nat \ {0},
         NEW g, FileSystem(g), NEW l \in 0 .. MaxTime, NoneLater(g, l), LastLineAhead(g)
  PROVE  Placed(OpenFile(g, Name(l)), l, Name(l))
<1> DEFINE h == OpenFile(g, Name(l))
<1>1. l \in Nat /\ Name(l) \in Nat /\ Period(l) \in Nat /\ PeriodOfFile(Name(l)) = Period(l)
  BY CalendarFacts, NameFacts, PeriodTypes, PeriodOfItsFile
<1>2. /\ FileSystem(h) /\ DOMAIN h = DOMAIN g \cup {Name(l)}
      /\ \A n \in DOMAIN h : h[n] = IF n \in DOMAIN g THEN g[n] ELSE <<>>
  <2>1. /\ FileSystem(h) /\ DOMAIN h = DOMAIN g \cup {Name(l)}
        /\ \A n \in DOMAIN g : h[n] = g[n]
        /\ Name(l) \notin DOMAIN g => h[Name(l)] = <<>>
    BY <1>1, OpenedFile
  <2> HIDE DEF h
  <2>2. QED
    BY <2>1
<1> HIDE DEF h
<1>3. \A n \in DOMAIN h : n <= Name(l)
  BY <1>1, <1>2 DEF NoneLater
<1>4. \A n \in DOMAIN h : \A k \in DOMAIN h[n] : n \in DOMAIN g /\ h[n] = g[n] /\ k \in DOMAIN g[n]
  BY <1>2
<1>5. NoneLater(h, l)
  BY <1>3, <1>4 DEF NoneLater
<1>6. LastLineAhead(h)
  BY <1>4 DEF LastLineAhead
<1>7. ASSUME NEW k \in DOMAIN h[Name(l)]
      PROVE  Period(h[Name(l)][k]) <= Period(l)
  <2>1. h[Name(l)][k] <= l /\ h[Name(l)][k] \in 0 .. MaxTime
    BY <1>2, <1>5, LineTypes DEF NoneLater
  <2>2. QED
    BY <2>1, PeriodMonotone
<1>8. OpenIsLatest(h, l, Name(l))
  BY <1>1, <1>2, <1>3, <1>7 DEF OpenIsLatest
<1>9. QED
  BY <1>5, <1>6, <1>8 DEF Placed, h

(* What a write does to the files: a line that is not ahead of the open    *)
(* file leaves everything as it is, one that is ahead closes the file.     *)
LEMMA WritePlaced ==
  ASSUME unit \in Units, mod \in Nat \ {0},
         NEW g, FileSystem(g), NEW l \in 0 .. MaxTime, NEW f \in Nat,
         NoneLater(g, l), OpenIsLatest(g, l, f), LastLineAhead(g),
         NEW t \in 0 .. MaxTime,
         NEW h, h = Written(g, f, t),
         NEW m \in {l, t}, l <= m, t <= m
  PROVE  /\ NoneLater(h, m) /\ LastLineAhead(h)
         /\ Period(m) = Period(l) => OpenIsLatest(h, m, f)
<1>1. f \in DOMAIN g
  BY DEF OpenIsLatest
<1>2. /\ l \in Nat /\ t \in Nat /\ m \in Nat /\ m \in 0 .. MaxTime
      /\ Name(l) \in Nat /\ Name(m) \in Nat /\ Name(l) <= Name(m)
  <2>1. l \in Nat /\ t \in Nat /\ m \in Nat /\ m \in 0 .. MaxTime
    BY CalendarFacts
  <2>2. QED
    BY <2>1, NameFacts
<1>3. /\ FileSystem(h) /\ DOMAIN h = DOMAIN g
      /\ \A n \in DOMAIN g : n # f => h[n] = g[n]
      /\ Len(g[f]) \in Nat /\ Len(h[f]) = Len(g[f]) + 1
      /\ DOMAIN h[f] = 1 .. Len(h[f]) /\ DOMAIN g[f] = 1 .. Len(g[f])
      /\ \A k \in DOMAIN g[f] : h[f][k] = g[f][k]
      /\ h[f][Len(h[f])] = t
  BY <1>1, WrittenFile
<1>4. ASSUME NEW n \in DOMAIN h, NEW k \in DOMAIN h[n]
      PROVE  \/ n \in DOMAIN g /\ k \in DOMAIN g[n] /\ h[n][k] = g[n][k] /\ n # f
             \/ n = f /\ k \in DOMAIN g[f] /\ h[f][k] = g[f][k]
             \/ n = f /\ k = Len(h[f]) /\ h[n][k] = t
  <2>1. CASE n # f
    BY <1>3, <2>1
  <2>2. CASE n = f
    <3>1. k \in 1 .. Len(g[f]) + 1
      BY <1>3, <2>2
    <3>2. k \in 1 .. Len(g[f]) \/ k = Len(g[f]) + 1
      BY <1>3, <3>1
    <3>3. QED
      BY <1>3, <2>2, <3>2
  <2>3. QED
    BY <2>1, <2>2
<1>5. NoneLater(h, m)
  <2>1. ASSUME NEW n \in DOMAIN h PROVE n <= Name(m)
    <3>1. n \in Nat /\ n <= Name(l)
      BY <1>3 DEF NoneLater, FileSystem
    <3>2. QED
      BY <1>2, <3>1
  <2>2. ASSUME NEW n \in DOMAIN h, NEW k \in DOMAIN h[n] PROVE h[n][k] <= m
    <3>1. h[n][k] \in Nat
      BY <1>3, LineTypes
    <3>2. h[n][k] <= l \/ h[n][k] = t
      BY <1>1, <1>4 DEF NoneLater
    <3>3. QED
      BY <1>2, <3>1, <3>2
  <2>3. QED
    BY <2>1, <2>2 DEF NoneLater
<1>6. \A k \in DOMAIN g[f] : Period(g[f][k]) <= PeriodOfFile(f)
  BY DEF OpenIsLatest
<1>7. LastLineAhead(h)
  <2> SUFFICES ASSUME NEW n \in DOMAIN h, NEW k \in DOMAIN h[n],
                      Period(h[n][k]) > PeriodOfFile(n)
               PROVE  k = Len(h[n])
    BY DEF LastLineAhead
  <2>1. h[n][k] \in Nat /\ n \in Nat
    BY <1>3, LineTypes
  <2>2. Period(h[n][k]) \in Nat /\ PeriodOfFile(n) \in Nat
    BY <2>1, PeriodTypes
  <2>3. CASE n \in DOMAIN g /\ k \in DOMAIN g[n] /\ h[n][k] = g[n][k] /\ n # f
    BY <1>3, <2>3 DEF LastLineAhead
  <2>4. CASE n = f /\ k \in DOMAIN g[f] /\ h[f][k] = g[f][k]
    BY <1>6, <2>2, <2>4
  <2>5. QED
    BY <1>4, <2>3, <2>4
<1>8. ASSUME Period(m) = Period(l) PROVE OpenIsLatest(h, m, f)
  <2>1. ASSUME NEW k \in DOMAIN h[f] PROVE Period(h[f][k]) <= Period(m)
    <3>1. h[f][k] \in 0 .. MaxTime /\ h[f][k] <= m
      BY <1>1, <1>3, <1>5, LineTypes DEF NoneLater
    <3>2. QED
      BY <1>2, <3>1, PeriodMonotone
  <2>2. QED
    BY <1>3, <1>8, <2>1 DEF OpenIsLatest
<1>9. QED
  BY <1>5, <1>7, <1>8

-----------------------------------------------------------------------------
(* The steps.                                                              *)

(* unit and mod never change, so names and periods do not either. *)
LEMMA SameCalendar ==
  ASSUME unit' = unit, mod' = mod, NEW g, NEW l, NEW f,
         files' = g, last_sec' = l, fp' = f, Placed(g, l, f)
  PROVE  Placed(files, last_sec, fp)'
<1>1. \A t : Name(t)' = Name(t)
  BY DEF Name
<1>2. \A t : Period(t)' = Period(t) /\ PeriodOfFile(t)' = PeriodOfFile(t)
  BY DEF Period, PeriodOfFile
<1>3. NoneLater(files, last_sec)'
  BY <1>1 DEF Placed, NoneLater
<1>4. LastLineAhead(files)'
  BY <1>2 DEF Placed, LastLineAhead
<1>5. (fp # Closed => OpenIsLatest(files, last_sec, fp))'
  BY <1>2 DEF Placed, OpenIsLatest
<1>6. QED
  BY <1>3, <1>4, <1>5 DEF Placed

LEMMA InitPlaced == Init => IInv
<1> SUFFICES ASSUME Init PROVE IInv
  OBVIOUS
<1>1. DOMAIN files = {} /\ files = <<>> /\ fp = Closed
  BY DEF Init
<1>2. Typed
  <2>1. files \in [{} -> Seq(0 .. MaxTime)]
    BY <1>1
  <2>2. mod \in Nat \ {0} /\ now \in 0 .. MaxTime /\ last_sec \in 0 .. now
    BY TimeAssumption DEF Init
  <2>3. QED
    BY <1>1, <2>1, <2>2 DEF Init, Typed
<1>3. QED
  BY <1>1, <1>2 DEF IInv, Placed, NoneLater, LastLineAhead

(* A message that is written: either the file stays open, or the next one  *)
(* is opened, or nothing is open.                                          *)
LEMMA HandleStep ==
  ASSUME IInv, NEW ts \in Times, Handle(ts)
  PROVE  IInv'
<1>1. /\ Typed /\ unit \in Units /\ mod \in Nat \ {0} /\ now \in 0 .. MaxTime
      /\ last_sec \in 0 .. now /\ FileSystem(files) /\ fp \in Nat
      /\ up /\ fp # Closed /\ Placed(files, last_sec, fp)
      /\ now' = now /\ unit' = unit /\ mod' = mod /\ up' = up
  BY DEF IInv, Typed, Handle, FileSystem, Closed
<1>2. PICK t : t = IF ts = 0 THEN now ELSE ts
  OBVIOUS
<1>3. PICK h : h = Written(files, fp, t)
  OBVIOUS
<1>4. PICK m : m = IF Later(t) THEN t ELSE last_sec
  OBVIOUS
<1>5. /\ MaxTime \in Nat /\ now \in Nat /\ last_sec \in Nat
      /\ last_sec \in 0 .. MaxTime /\ t \in 0 .. now /\ t \in 0 .. MaxTime
  BY <1>1, <1>2, CalendarFacts DEF Times
<1>6. /\ m \in {last_sec, t} /\ last_sec <= m /\ t <= m /\ m \in 0 .. now /\ m \in Nat
      /\ m \in 0 .. MaxTime
  BY <1>1, <1>4, <1>5 DEF Later
<1>7. /\ last_sec' = m
      /\ \/ ~Rotates(t) /\ files' = h /\ fp' = fp
         \/ Rotates(t) /\ fp' = Name(t) /\ files' = OpenFile(h, Name(t))
         \/ Rotates(t) /\ fp' = Closed /\ files' = h
  BY <1>2, <1>3, <1>4 DEF Handle, Written
<1>8. /\ FileSystem(h) /\ DOMAIN h = DOMAIN files
      /\ NoneLater(h, m) /\ LastLineAhead(h)
      /\ Period(m) = Period(last_sec) => OpenIsLatest(h, m, fp)
  <2>1. /\ NoneLater(files, last_sec) /\ LastLineAhead(files)
        /\ OpenIsLatest(files, last_sec, fp) /\ fp \in DOMAIN files
    BY <1>1 DEF Placed, OpenIsLatest
  <2>2. FileSystem(h) /\ DOMAIN h = DOMAIN files
    BY <1>1, <1>3, <1>5, <2>1, WrittenFile
  <2>3. QED
    BY <1>1, <1>3, <1>5, <1>6, <2>1, <2>2, WritePlaced
<1>9. CASE ~Rotates(t) /\ files' = h /\ fp' = fp
  <2>1. Period(m) = Period(last_sec)
    <3>1. CASE Later(t)
      <4>1. ~Differ(t, last_sec) /\ m = t
        BY <1>4, <1>9, <3>1 DEF Rotates
      <4>2. QED
        BY <1>1, <1>5, <1>6, <4>1, SamePeriod
    <3>2. QED
      BY <1>4, <3>1
  <2>2. Placed(h, m, fp)
    BY <1>8, <2>1 DEF Placed
  <2>3. PICK f : f = fp
    OBVIOUS
  <2>4. Placed(files, last_sec, fp)'
    BY <1>1, <1>7, <1>9, <2>2, <2>3, SameCalendar
  <2>5. Typed'
    BY <1>1, <1>6, <1>7, <1>8, <1>9 DEF Typed, FileSystem
  <2>6. QED
    BY <2>4, <2>5 DEF IInv
<1>10. CASE Rotates(t) /\ fp' = Name(t) /\ files' = OpenFile(h, Name(t))
  <2>1. m = t
    BY <1>4, <1>10 DEF Rotates
  <2>2. Placed(OpenFile(h, Name(m)), m, Name(m))
    BY <1>1, <1>6, <1>8, OpenPlaced
  <2>3. PICK f : f = Name(m)
    OBVIOUS
  <2>4. PICK g : g = OpenFile(h, f)
    OBVIOUS
  <2>5. Placed(g, m, f) /\ files' = g /\ fp' = f /\ last_sec' = m
    BY <1>7, <1>10, <2>1, <2>2, <2>3, <2>4
  <2>6. Placed(files, last_sec, fp)'
    BY <1>1, <2>5, SameCalendar
  <2>7. FileSystem(g) /\ f \in Nat
    BY <1>1, <1>6, <1>8, <2>3, <2>4, NameFacts, OpenedFile
  <2>8. Typed'
    BY <1>1, <1>6, <2>5, <2>7 DEF Typed, FileSystem
  <2>9. QED
    BY <2>6, <2>8 DEF IInv
<1>11. CASE Rotates(t) /\ fp' = Closed /\ files' = h
  <2>1. Placed(h, m, Closed)
    BY <1>8 DEF Placed
  <2>2. Placed(files, last_sec, fp)'
    BY <1>1, <1>7, <1>11, <2>1, SameCalendar
  <2>3. Typed'
    BY <1>1, <1>6, <1>7, <1>8, <1>11 DEF Typed, FileSystem
  <2>4. QED
    BY <2>2, <2>3 DEF IInv
<1>12. QED
  BY <1>7, <1>9, <1>10, <1>11

LEMMA Step == IInv /\ [Next]_vars => IInv'
<1> SUFFICES ASSUME IInv, [Next]_vars PROVE IInv'
  OBVIOUS
<1>1. /\ Typed /\ unit \in Units /\ mod \in Nat \ {0} /\ MaxTime \in Nat
      /\ now \in 0 .. MaxTime /\ last_sec \in 0 .. now /\ now \in Nat /\ last_sec \in Nat
      /\ FileSystem(files) /\ Placed(files, last_sec, fp)
  BY CalendarFacts DEF IInv, Typed, FileSystem
<1>2. CASE UNCHANGED <<unit, mod, last_sec, fp, files, up>> /\ now' \in now .. MaxTime
  <2>1. Typed'
    BY <1>1, <1>2 DEF Typed
  <2>2. PICK g, l, f : g = files /\ l = last_sec /\ f = fp
    OBVIOUS
  <2>3. QED
    BY <1>1, <1>2, <2>1, <2>2, SameCalendar DEF IInv
<1>3. CASE HandlerInit
  <2>1. NoneLater(files, now)
    <3>1. Name(last_sec) \in Nat /\ Name(now) \in Nat /\ Name(last_sec) <= Name(now)
      BY <1>1, NameFacts
    <3>2. ASSUME NEW n \in DOMAIN files PROVE n <= Name(now)
      BY <1>1, <3>1 DEF Placed, NoneLater, FileSystem
    <3>3. ASSUME NEW n \in DOMAIN files, NEW k \in DOMAIN files[n] PROVE files[n][k] <= now
      <4>1. files[n][k] \in Nat /\ files[n][k] <= last_sec
        BY <1>1, LineTypes DEF Placed, NoneLater
      <4>2. QED
        BY <1>1, <4>1
    <3>4. QED
      BY <3>2, <3>3 DEF NoneLater
  <2>2. /\ unit' = unit /\ mod' = mod /\ now' = now /\ last_sec' = now /\ ~up /\ fp = Closed
    BY <1>1, <1>3 DEF HandlerInit, Typed
  <2>3. CASE up' = TRUE /\ fp' = Name(now) /\ files' = OpenFile(files, Name(now))
    <3>1. Placed(OpenFile(files, Name(now)), now, Name(now))
      BY <1>1, <2>1, OpenPlaced DEF Placed
    <3>2. PICK g, l, f : g = OpenFile(files, Name(now)) /\ l = now /\ f = Name(now)
      OBVIOUS
    <3>3. Placed(g, l, f) /\ files' = g /\ last_sec' = l /\ fp' = f
      BY <2>2, <2>3, <3>1, <3>2
    <3>4. Placed(files, last_sec, fp)'
      BY <2>2, <3>3, SameCalendar
    <3>5. FileSystem(g) /\ f \in Nat
      BY <1>1, <3>2, NameFacts, OpenedFile
    <3>6. Typed'
      BY <1>1, <2>2, <2>3, <3>3, <3>5 DEF Typed, FileSystem
    <3>7. QED
      BY <3>4, <3>6 DEF IInv
  <2>4. CASE UNCHANGED <<up, fp, files>>
    <3>1. Placed(files, now, Closed)
      BY <1>1, <2>1 DEF Placed
    <3>2. PICK g, l : g = files /\ l = now
      OBVIOUS
    <3>3. Placed(g, l, Closed) /\ files' = g /\ last_sec' = l /\ fp' = Closed
      BY <2>2, <2>4, <3>1, <3>2
    <3>4. Placed(files, last_sec, fp)'
      BY <2>2, <3>3, SameCalendar
    <3>5. Typed'
      BY <1>1, <2>2, <2>4 DEF Typed
    <3>6. QED
      BY <3>4, <3>5 DEF IInv
  <2>5. QED
    BY <1>3, <2>3, <2>4 DEF HandlerInit
<1>4. CASE Exit
  <2>1. PICK g, l : g = files /\ l = last_sec
    OBVIOUS
  <2>2. /\ unit' = unit /\ mod' = mod /\ files' = g /\ last_sec' = l /\ fp' = Closed
        /\ up' = FALSE /\ now' = now
    BY <1>4, <2>1 DEF Exit
  <2>3. Placed(g, l, Closed)
    BY <1>1, <2>1 DEF Placed
  <2>4. Placed(files, last_sec, fp)'
    BY <2>2, <2>3, SameCalendar
  <2>5. Typed'
    BY <1>1, <2>1, <2>2 DEF Typed
  <2>6. QED
    BY <2>4, <2>5 DEF IInv
<1>5. CASE Tick
  BY <1>1, <1>2, <1>5 DEF Tick
<1>6. CASE UNCHANGED vars
  BY <1>1, <1>2, <1>6 DEF vars
<1>7. CASE Drop
  BY <1>6, <1>7 DEF Drop
<1>8. CASE \E ts \in Times : Handle(ts)
  BY <1>8, HandleStep
<1>9. QED
  BY <1>3, <1>4, <1>5, <1>6, <1>7, <1>8 DEF Next

-----------------------------------------------------------------------------
(* Theorems.                                                               *)

(* Every state of the handler satisfies the invariant: no file is named    *)
(* after the open one, and what it holds belongs to its period but for the *)
(* last line.                                                              *)
THEOREM Invariance == Spec => []IInv
BY InitPlaced, Step, PTL DEF Spec

(* A file of the time rotating handler holds no line ahead of its period,  *)
(* but for the last one: no message that starts a new period is missed by  *)
(* haclog_file_time_rotate_handler_detect, whatever the unit, the modulus  *)
(* and the calendar, and however late the others come.                     *)
THEOREM AtMostOneLineAhead == Spec => []OneLineAhead
<1>1. IInv => OneLineAhead
  BY DEF IInv, Placed, LastLineAhead, OneLineAhead
<1>2. QED
  BY <1>1, Invariance, PTL

(* rotate and init open the file with the latest name of all, so a file    *)
(* that has a later one is never written again.                            *)
THEOREM FilesLeftForGood == Spec => LeftForGood
<1>1. ASSUME IInv, [Next]_vars,
             NEW n \in DOMAIN files, NEW m \in DOMAIN files, m > n
      PROVE  n \in DOMAIN files' /\ files'[n] = files[n]
  <2>1. FileSystem(files) /\ n \in Nat /\ m \in Nat
    BY <1>1 DEF IInv, Typed, FileSystem
  <2>2. fp # Closed => fp \in DOMAIN files /\ n # fp /\ fp \in Nat
    <3>1. fp # Closed => fp \in DOMAIN files /\ m <= fp
      BY <1>1 DEF IInv, Placed, OpenIsLatest
    <3>2. fp # Closed => fp \in Nat
      BY <2>1, <3>1 DEF FileSystem
    <3>3. QED
      BY <1>1, <2>1, <3>1, <3>2
  <2>3. ASSUME NEW t, NEW g, g = Written(files, fp, t), fp # Closed
        PROVE  n \in DOMAIN g /\ g[n] = files[n]
    BY <2>1, <2>2, <2>3 DEF Written, FileSystem
  <2>4. ASSUME NEW g, NEW f, n \in DOMAIN g
        PROVE  n \in DOMAIN OpenFile(g, f) /\ OpenFile(g, f)[n] = g[n]
    BY <2>4 DEF OpenFile
  <2>5. CASE HandlerInit
    BY <2>4, <2>5 DEF HandlerInit
  <2>6. ASSUME NEW ts \in Times, Handle(ts)
        PROVE  n \in DOMAIN files' /\ files'[n] = files[n]
    <3>1. PICK t : t = IF ts = 0 THEN now ELSE ts
      OBVIOUS
    <3>2. PICK g : g = Written(files, fp, t)
      OBVIOUS
    <3>3. fp # Closed /\ (files' = g \/ files' = OpenFile(g, Name(t)))
      BY <2>6, <3>1, <3>2 DEF Handle, Written
    <3>4. n \in DOMAIN g /\ g[n] = files[n]
      BY <2>3, <3>2, <3>3
    <3>5. QED
      BY <2>4, <3>3, <3>4
  <2>7. QED
    BY <1>1, <2>5, <2>6 DEF Next, Tick, Drop, Exit, vars
<1>2. IInv /\ [Next]_vars =>
        [\A n \in DOMAIN files :
           (\E m \in DOMAIN files : m > n) => n \in DOMAIN files' /\ files'[n] = files[n]]_vars
  BY <1>1
<1>3. QED
  BY <1>2, Invariance, PTL DEF Spec, LeftForGood

-----------------------------------------------------------------------------
(* The order of the lines.                                                 *)

Lines(f) == [k \in 1 .. MaxTime + 1 |-> IF k - 1 \in DOMAIN f THEN f[k - 1] ELSE <<>>]

LEMMA LinesTyped ==
  ASSUME NEW f, FileSystem(f)
  PROVE  \A k \in 1 .. MaxTime + 1 : Lines(f)[k] \in Seq(0 .. MaxTime)
<1>1. ASSUME NEW k \in 1 .. MaxTime + 1 PROVE Lines(f)[k] \in Seq(0 .. MaxTime)
  <2>1. Lines(f)[k] = IF k - 1 \in DOMAIN f THEN f[k - 1] ELSE <<>>
    BY Zenon DEF Lines
  <2>2. CASE k - 1 \in DOMAIN f
    BY <2>1, <2>2 DEF FileSystem
  <2>3. CASE k - 1 \notin DOMAIN f
    BY <2>1, <2>3, EmptySeq
  <2>4. QED
    BY <2>2, <2>3
<1>2. QED
  BY <1>1

LEMMA ReadJoined ==
  ASSUME NEW f, NEW g, Joins(g, Lines(f), MaxTime + 1)
  PROVE  ReadAll(f) = g[MaxTime + 1]
<1> DEFINE F(h) == [n \in 0 .. MaxTime + 1 |->
                      IF n = 0 THEN <<>>
                      ELSE h[n - 1] \o (IF n - 1 \in DOMAIN f THEN f[n - 1] ELSE <<>>)]
           read == CHOOSE h : h = F(h)
<1>0. MaxTime + 1 \in Nat
  BY CalendarFacts
<1>1. ReadAll(f) = read[MaxTime + 1]
  BY Zenon DEF ReadAll
<1>2. ASSUME NEW h PROVE Joins(h, Lines(f), MaxTime + 1) <=> h = F(h)
  <2>1. ASSUME NEW n \in 0 .. MaxTime + 1, n # 0
        PROVE  Lines(f)[n] = IF n - 1 \in DOMAIN f THEN f[n - 1] ELSE <<>>
    <3>1. n \in 1 .. MaxTime + 1
      BY <1>0, <2>1
    <3>2. QED
      BY <3>1, Zenon DEF Lines
  <2>2. [k \in 0 .. MaxTime + 1 |-> IF k = 0 THEN <<>> ELSE h[k - 1] \o Lines(f)[k]] = F(h)
    BY <2>1, Zenon
  <2>3. QED
    BY <2>2, Zenon DEF Joins
<1> HIDE DEF F
<1>3. g = F(g)
  BY <1>2
<1>4. read = F(read)
  BY <1>3, Zenon
<1> HIDE DEF read
<1>5. Joins(read, Lines(f), MaxTime + 1)
  BY <1>2, <1>4
<1>6. read[MaxTime + 1] = g[MaxTime + 1]
  BY <1>0, <1>5, JoinsUnique
<1>7. QED
  BY <1>1, <1>6

LEMMA ReadTyped ==
  ASSUME NEW f, FileSystem(f)
  PROVE  \E g : Joins(g, Lines(f), MaxTime + 1) /\ ReadAll(f) = g[MaxTime + 1]
                /\ ReadAll(f) \in Seq(0 .. MaxTime)
<1>1. MaxTime + 1 \in Nat
  BY CalendarFacts
<1>2. PICK g : Joins(g, Lines(f), MaxTime + 1) /\ g[MaxTime + 1] \in Seq(0 .. MaxTime)
  BY <1>1, LinesTyped, JoinsExist
<1>3. QED
  BY <1>2, ReadJoined

(* No name is later than the clock. *)
LEMMA NameInTime ==
  ASSUME IInv
  PROVE  \A n \in DOMAIN files : n \in 0 .. MaxTime
<1>1. /\ last_sec \in 0 .. MaxTime /\ last_sec \in Nat /\ MaxTime \in Nat /\ DOMAIN files \subseteq Nat
      /\ unit \in Units /\ mod \in Nat \ {0}
  BY CalendarFacts DEF IInv, Typed
<1>2. Name(last_sec) \in Nat /\ Name(last_sec) <= last_sec
  <2>1. SecsPer(unit) \in Nat \ {0}
    BY <1>1, SecsPerType
  <2>2. QED
    BY <1>1, <2>1, DivType DEF Name
<1>3. \A n \in DOMAIN files : n <= Name(last_sec)
  BY DEF IInv, Placed, NoneLater
<1>4. QED
  BY <1>1, <1>2, <1>3

(* A file that is opened, and new, is empty: it reads the same. *)
LEMMA ReadOpened ==
  ASSUME NEW f, FileSystem(f), NEW n \in Nat
  PROVE  ReadAll(OpenFile(f, n)) = ReadAll(f)
<1>1. PICK o : o = OpenFile(f, n)
  OBVIOUS
<1>2. /\ FileSystem(o) /\ DOMAIN o = DOMAIN f \cup {n} /\ \A x \in DOMAIN f : o[x] = f[x]
      /\ n \notin DOMAIN f => o[n] = <<>>
  BY <1>1, OpenedFile
<1>3. Lines(o) = Lines(f)
  <2>1. ASSUME NEW x PROVE (IF x \in DOMAIN o THEN o[x] ELSE <<>>) = (IF x \in DOMAIN f THEN f[x] ELSE <<>>)
    BY <1>2
  <2>2. QED
    BY <2>1, Zenon DEF Lines
<1>4. PICK g : Joins(g, Lines(f), MaxTime + 1) /\ ReadAll(f) = g[MaxTime + 1]
  BY ReadTyped
<1>5. ReadAll(o) = g[MaxTime + 1]
  BY <1>3, <1>4, ReadJoined
<1>6. QED
  BY <1>1, <1>4, <1>5

(* A line added to the file with the latest name is read last. *)
LEMMA ReadWritten ==
  ASSUME NEW f, FileSystem(f), NEW n \in DOMAIN f, n \in 0 .. MaxTime,
         \A x \in DOMAIN f : x <= n, NEW t \in 0 .. MaxTime
  PROVE  ReadAll(Written(f, n, t)) = Append(ReadAll(f), t)
<1>1. PICK o : o = Written(f, n, t)
  OBVIOUS
<1>2. /\ FileSystem(o) /\ DOMAIN o = DOMAIN f /\ \A x \in DOMAIN f : x # n => o[x] = f[x]
      /\ o[n] = Append(f[n], t) /\ f[n] \in Seq(0 .. MaxTime)
  BY <1>1, WrittenFile DEF Written, FileSystem
<1>3. PICK N \in Nat, m \in Nat : N = MaxTime + 1 /\ m = n + 1
  BY CalendarFacts
<1>4. m \in 1 .. N /\ m - 1 = n /\ DOMAIN f \subseteq Nat /\ n \in Nat
  BY <1>3, CalendarFacts, SMTT(40) DEF FileSystem
<1>5. PICK a, b : a = Lines(f) /\ b = Lines(o)
  OBVIOUS
<1>6. /\ \A k \in 1 .. N : a[k] = IF k - 1 \in DOMAIN f THEN f[k - 1] ELSE <<>>
      /\ \A k \in 1 .. N : b[k] = IF k - 1 \in DOMAIN f THEN o[k - 1] ELSE <<>>
  BY <1>2, <1>3, <1>5, Zenon DEF Lines
<1>7. PICK x : x = <<t>> /\ x \in Seq(0 .. MaxTime)
  <2>1. \A S : \A y \in S : <<y>> \in Seq(S)
    OBVIOUS
  <2>2. QED
    BY <2>1, Zenon
<1>8. \A k \in 1 .. N : a[k] \in Seq(0 .. MaxTime)
  BY <1>3, <1>5, LinesTyped
<1>9. \A k \in 1 .. m - 1 : a[k] = b[k]
  BY <1>2, <1>4, <1>6
<1>10. b[m] = a[m] \o x
  <2>1. b[m] = Append(f[n], t) /\ a[m] = f[n]
    BY <1>2, <1>4, <1>6
  <2>2. Append(f[n], t) = f[n] \o <<t>>
    BY <1>2, AppendIsConcat
  <2>3. QED
    BY <1>7, <2>1, <2>2
<1>11. \A k \in m + 1 .. N : a[k] = <<>> /\ b[k] = <<>>
  <2>1. ASSUME NEW k \in m + 1 .. N PROVE k \in 1 .. N /\ k - 1 \notin DOMAIN f
    BY <1>4
  <2>2. QED
    BY <1>6, <2>1
<1>12. PICK g : Joins(g, a, N) /\ ReadAll(f) = g[N] /\ ReadAll(f) \in Seq(0 .. MaxTime)
  BY <1>3, <1>5, ReadTyped
<1>13. PICK h : Joins(h, b, N) /\ ReadAll(o) = h[N]
  BY <1>2, <1>3, <1>5, ReadTyped
<1>14. h[N] = g[N] \o x
  <2>1. AddsLast(g, a, h, b, m, N, x, 0 .. MaxTime)
    BY <1>4, <1>7, <1>8, <1>9, <1>10, <1>11, <1>12, <1>13 DEF AddsLast
  <2>2. QED
    BY <2>1, JoinsAdd
<1>15. Append(ReadAll(f), t) = ReadAll(f) \o <<t>>
  BY <1>12, AppendIsConcat
<1>16. QED
  BY <1>1, <1>7, <1>12, <1>13, <1>14, <1>15

ReadSoFar == ReadAll(files) = handled

(* The files, read in the order of their names, are the messages in the    *)
(* order they were handled: a message is added to the file with the latest *)
(* name, and opening a file takes nothing away.                            *)
THEOREM ReadInOrder == Spec => []FilesInOrder
<1>1. Init => ReadSoFar
  <2> SUFFICES ASSUME Init PROVE ReadAll(files) = handled
    BY DEF ReadSoFar
  <2>1. files = <<>> /\ handled = <<>> /\ DOMAIN files = {} /\ FileSystem(files)
    BY DEF Init, FileSystem
  <2>2. PICK g : Joins(g, Lines(files), MaxTime + 1) /\ ReadAll(files) = g[MaxTime + 1]
    BY <2>1, ReadTyped
  <2>3. PICK a : a = Lines(files)
    OBVIOUS
  <2>4. \A k \in 1 .. MaxTime + 1 : a[k] \in Seq({})
    <3>1. \A k \in 1 .. MaxTime + 1 : a[k] = <<>>
      BY <2>1, <2>3, Zenon DEF Lines
    <3>2. QED
      BY <3>1, EmptySeq
  <2>5. MaxTime + 1 \in Nat /\ MaxTime + 1 \in 0 .. MaxTime + 1
    BY CalendarFacts
  <2>6. g[MaxTime + 1] \in Seq({})
    BY <2>2, <2>3, <2>4, <2>5, JoinsTyped
  <2>7. \A s \in Seq({}) : s = <<>>
    <3>1. ASSUME NEW s \in Seq({}), s # <<>> PROVE FALSE
      <4>1. 1 \in 1 .. Len(s)
        BY <3>1, EmptySeq
      <4>2. QED
        BY <4>1, ElementOfSeq
    <3>2. QED
      BY <3>1
  <2>8. QED
    BY <2>1, <2>2, <2>6, <2>7
<1>2. IInv /\ ReadSoFar /\ [Next]_vars => ReadSoFar'
  <2> SUFFICES ASSUME IInv, ReadAll(files) = handled, [Next]_vars
               PROVE  ReadAll(files') = handled'
    BY DEF ReadSoFar
  <2>1. FileSystem(files) /\ DOMAIN files \subseteq Nat /\ now \in 0 .. MaxTime
        /\ unit \in Units /\ mod \in Nat \ {0}
    BY DEF IInv, Typed, FileSystem
  <2>2. \A n \in DOMAIN files : n \in 0 .. MaxTime
    BY NameInTime
  <2>3. CASE HandlerInit
    <3>1. Name(now) \in Nat
      BY <2>1, CalendarFacts, NameFacts
    <3>2. QED
      BY <2>1, <2>3, <3>1, ReadOpened DEF HandlerInit
  <2>4. ASSUME NEW ts \in Times, Handle(ts) PROVE ReadAll(files') = handled'
    <3>1. PICK t : t = IF ts = 0 THEN now ELSE ts
      OBVIOUS
    <3>2. PICK g : g = Written(files, fp, t)
      OBVIOUS
    <3>3. /\ fp # Closed /\ handled' = Append(handled, t)
          /\ files' = g \/ files' = OpenFile(g, Name(t))
      BY <2>4, <3>1, <3>2 DEF Handle, Written
    <3>4. t \in 0 .. MaxTime /\ t \in Nat
      BY <2>1, <3>1, CalendarFacts DEF Times
    <3>5. fp \in DOMAIN files /\ \A n \in DOMAIN files : n <= fp
      BY <3>3 DEF IInv, Placed, OpenIsLatest
    <3>6. fp \in 0 .. MaxTime
      BY <2>2, <3>5
    <3>7. ReadAll(g) = Append(ReadAll(files), t) /\ FileSystem(g)
      BY <2>1, <3>2, <3>4, <3>5, <3>6, ReadWritten, WrittenFile
    <3>8. Name(t) \in Nat
      BY <2>1, <3>4, NameFacts
    <3>9. QED
      BY <3>3, <3>7, <3>8, ReadOpened
  <2>5. QED
    BY <2>3, <2>4 DEF Next, Tick, Drop, Exit, vars
<1>3. IInv /\ ReadSoFar => FilesInOrder
  BY NameInTime DEF FilesInOrder, ReadSoFar
<1>4. QED
  BY <1>1, <1>2, <1>3, Invariance, PTL DEF Spec

=============================================================================
