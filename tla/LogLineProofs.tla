--------------------------- MODULE LogLineProofs ---------------------------
(***************************************************************************)
(* Proofs about one log call, for every format string, every buffer and    *)
(* every argument.  The inductive invariant IInv has four parts:           *)
(*   ReadInv  the two readers of the format go over the same positions,    *)
(*            the entries follow one another and the loops stay inside;    *)
(*   Cut      the line is the text so far, cut at the end of the buffer;   *)
(*   Layout   serialize and format advance by the same offsets, which      *)
(*            never pass those param_size was summed up from;              *)
(*   Traced   the positions num_params went over are those the entries     *)
(*            were filled from, one after the other.                       *)
(* CallInv, which is inductive given IInv, adds the cursor in the va_list: *)
(* the arguments num_params counts are the stars and the values of the     *)
(* format, serialize has taken those of the entries before it, and a       *)
(* cached string is cut by the precision of its own conversion.            *)
(***************************************************************************)
EXTENDS LogLine, SequenceTheorems, FiniteSetTheorems, WellFoundedInduction, TLAPS

-----------------------------------------------------------------------------
(* Induction over the natural numbers, for a set: the provers cannot       *)
(* instantiate the theorems of the library, whose parameter is an operator.*)

(* A set of natural numbers that is not empty has a least element. *)
LEMMA LeastNat ==
  ASSUME NEW T \in SUBSET Nat, T # {}
  PROVE  \E x \in T : \A y \in T : x <= y
<1>1. PICK x \in T : \A y \in T : <<y, x>> \notin OpToRel(<, Nat)
  BY NatLessThanWellFounded, WFMin
<1>2. \A y \in T : ~(y < x)
  BY <1>1 DEF OpToRel
<1>3. QED
  BY <1>2

(* A set that has 0, and n + 1 with every n, has every natural number. *)
LEMMA NatInSet ==
  ASSUME NEW G, 0 \in G, \A n \in Nat : n \in G => n + 1 \in G
  PROVE  \A n \in Nat : n \in G
<1> SUFFICES ASSUME NEW n \in Nat, n \notin G PROVE FALSE
  OBVIOUS
<1> DEFINE T == {m \in Nat : m \notin G}
<1>1. T \in SUBSET Nat /\ n \in T
  OBVIOUS
<1>2. PICK x \in T : \A y \in T : x <= y
  BY <1>1, LeastNat
<1>3. x \in Nat /\ x # 0 /\ x \notin G
  OBVIOUS
<1>4. x - 1 \in Nat /\ x - 1 \in G
  BY <1>2, <1>3
<1>5. QED
  BY <1>3, <1>4


-----------------------------------------------------------------------------
(* Positions in a format string.                                           *)

LEMMA AtNul ==
  ASSUME NEW fm \in Seq(STRING), NEW k \in Nat \ {0}, At(fm, k) # NUL
  PROVE  k <= Len(fm) /\ At(fm, k) = fm[k]
BY DEF At

LEMMA AtEnd ==
  ASSUME NEW fm \in Seq(STRING)
  PROVE  Len(fm) \in Nat /\ DOMAIN fm = 1 .. Len(fm) /\ At(fm, Len(fm) + 1) = NUL
BY DEF At

(* The loops over a class of characters stop at the first that is not in   *)
(* it, at the latest at the end of the string.                             *)
LEMMA SkipFacts ==
  ASSUME NEW fm \in Seq(STRING), NEW k \in 1 .. Len(fm) + 1, NEW C, NUL \notin C
  PROVE  /\ Skip(fm, k, C) \in k .. Len(fm) + 1
         /\ At(fm, Skip(fm, k, C)) \notin C
         /\ \A x \in k .. Skip(fm, k, C) - 1 : fm[x] \in C
<1> DEFINE T == {j \in k .. Len(fm) + 1 : At(fm, j) \notin C}
           Q(j) == At(fm, j) \notin C /\ \A x \in k .. (j - 1) : fm[x] \in C
<1>1. Len(fm) \in Nat /\ T \in SUBSET Nat /\ T # {}
  BY AtEnd
<1>2. PICK j \in T : \A y \in T : j <= y
  BY <1>1, LeastNat
<1>3. ASSUME NEW x \in k .. (j - 1) PROVE fm[x] \in C
  <2>1. x \in k .. Len(fm) + 1 /\ x \notin T /\ x \in DOMAIN fm
    BY <1>1, <1>2, AtEnd
  <2>2. QED
    BY <2>1 DEF At
<1>4. \E y \in k .. Len(fm) + 1 : Q(y)
  BY <1>3
<1>5. PICK z : z = CHOOSE y \in k .. Len(fm) + 1 : Q(y)
  OBVIOUS
<1>6. z \in k .. Len(fm) + 1 /\ Q(z)
  BY <1>4, <1>5, Zenon
<1>7. z = Skip(fm, k, C)
  BY <1>5, Zenon DEF Skip
<1>8. QED
  BY <1>6, <1>7

LEMMA SkipType ==
  ASSUME NEW fm \in Seq(STRING), NEW k \in 1 .. Len(fm) + 1, NEW C, NUL \notin C
  PROVE  Skip(fm, k, C) \in k .. Len(fm) + 1
BY SkipFacts

(* The loop that looks for the next conversion, as a function of where it  *)
(* is: there is one, and it leads to a position further on.                *)
ConvAt(fm, g, k) ==
  IF k >= Len(fm) + 1 THEN Len(fm) + 1
  ELSE IF fm[k] /= "%" THEN g[k + 1]
  ELSE IF At(fm, k + 1) = "%" THEN g[k + 2]
  ELSE k

IsSearch(fm, k, g) == g = [x \in k .. (Len(fm) + 1 + 1) |-> ConvAt(fm, g, x)]

LEMMA SearchExists ==
  ASSUME NEW fm \in Seq(STRING), NEW k \in 1 .. Len(fm) + 1
  PROVE  \E g : IsSearch(fm, k, g)
<1> DEFINE end == Len(fm) + 1 + 1
           G == {m \in Nat : m <= end - k => \E g : IsSearch(fm, end - m, g)}
<1>1. end \in Nat /\ k \in Nat /\ Len(fm) \in Nat
  BY AtEnd
<1>2. 0 \in G
  <2>1. IsSearch(fm, end, [x \in end .. end |-> Len(fm) + 1])
    BY <1>1 DEF IsSearch, ConvAt
  <2>2. end - 0 = end
    BY <1>1
  <2> HIDE DEF end
  <2>3. \E g : IsSearch(fm, end - 0, g)
    BY <2>1, <2>2
  <2>4. QED
    BY <2>3
<1>3. ASSUME NEW m \in Nat, m \in G PROVE m + 1 \in G
  <2> SUFFICES ASSUME m + 1 <= end - k PROVE \E g : IsSearch(fm, end - (m + 1), g)
    OBVIOUS
  <2>1. PICK g : IsSearch(fm, end - m, g)
    BY <1>1, <1>3
  <2> DEFINE b == end - (m + 1)
             h == [x \in b .. end |-> IF x = b THEN ConvAt(fm, g, b) ELSE g[x]]
  <2>2. b \in Nat /\ b + 1 = end - m /\ b < end /\ b >= k
    BY <1>1
  <2>3. \A x \in (b + 1) .. end : g[x] = ConvAt(fm, g, x) /\ h[x] = g[x]
    <3>1. \A x \in (b + 1) .. end : g[x] = ConvAt(fm, g, x)
      BY <2>1, <2>2 DEF IsSearch
    <3>2. \A x \in (b + 1) .. end : x \in b .. end /\ x # b
      BY <1>1, <2>2
    <3>3. QED
      BY <3>1, <3>2
  <2>4. ASSUME NEW x \in b .. end PROVE ConvAt(fm, h, x) = ConvAt(fm, g, x)
    <3>1. CASE x >= Len(fm) + 1
      BY <3>1 DEF ConvAt
    <3>2. CASE x < Len(fm) + 1
      <4>1. x + 1 \in (b + 1) .. end /\ x + 2 \in (b + 1) .. end
        BY <1>1, <2>2, <3>2
      <4>2. h[x + 1] = g[x + 1] /\ h[x + 2] = g[x + 2]
        BY <2>3, <4>1
      <4>3. QED
        BY <4>2 DEF ConvAt
    <3>3. QED
      BY <1>1, <2>2, <3>1, <3>2
  <2>5. \A x \in b .. end : h[x] = ConvAt(fm, h, x)
    <3>1. SUFFICES ASSUME NEW x \in b .. end PROVE h[x] = ConvAt(fm, h, x)
      OBVIOUS
    <3>2. CASE x = b
      BY <2>4, <3>2
    <3>3. CASE x # b
      <4>1. x \in (b + 1) .. end
        BY <1>1, <2>2, <3>3
      <4>2. h[x] = g[x] /\ g[x] = ConvAt(fm, g, x)
        BY <2>3, <4>1
      <4>3. QED
        BY <2>4, <4>2
    <3>4. QED
      BY <3>2, <3>3
  <2>6. IsSearch(fm, b, h)
    BY <2>5 DEF IsSearch
  <2>7. QED
    BY <2>6
<1>4. end - k \in G /\ end - k \in Nat
  <2>1. \A n \in Nat : n \in G
    BY <1>2, <1>3, NatInSet
  <2>2. end - k \in Nat
    BY <1>1
  <2>3. QED
    BY <2>1, <2>2
<1>5. end - (end - k) = k
  BY <1>1
<1>6. QED
  BY <1>1, <1>4, <1>5

LEMMA SearchForward ==
  ASSUME NEW fm \in Seq(STRING), NEW k \in 1 .. Len(fm) + 1, NEW g, IsSearch(fm, k, g)
  PROVE  g[k] \in k .. Len(fm) + 1
<1> DEFINE end == Len(fm) + 1
           T == {m \in Nat : m <= end - k /\ g[end - m] \notin (end - m) .. end}
<1>1. end \in Nat /\ k \in Nat /\ Len(fm) \in Nat
  BY AtEnd
<1>2. \A x \in k .. end : g[x] = ConvAt(fm, g, x)
  BY <1>1 DEF IsSearch
<1>3. ASSUME T # {} PROVE FALSE
  <2>1. PICK m \in T : \A y \in T : m <= y
    BY <1>3, LeastNat
  <2>2. m \in Nat /\ m <= end - k /\ g[end - m] \notin (end - m) .. end
    BY <2>1
  <2>3. ASSUME NEW y \in Nat, y < m PROVE g[end - y] \in (end - y) .. end
    BY <1>1, <2>1, <2>2, <2>3
  <2> DEFINE x == end - m
  <2>4. x \in k .. end /\ x \in Nat /\ g[x] = ConvAt(fm, g, x)
    BY <1>1, <1>2, <2>2
  <2>5. x < end
    BY <1>1, <2>2, <2>4 DEF ConvAt
  <2>6. g[x + 1] \in x .. end
    <3>1. m - 1 \in Nat /\ m - 1 < m /\ end - (m - 1) = x + 1
      BY <1>1, <2>2, <2>5
    <3>2. g[end - (m - 1)] \in (end - (m - 1)) .. end
      BY <2>3, <3>1
    <3>3. QED
      BY <1>1, <2>4, <3>1, <3>2
  <2>7. ASSUME At(fm, x + 1) = "%" PROVE g[x + 2] \in x .. end
    <3>1. x + 1 <= Len(fm)
      BY <1>1, <2>4, <2>7, AtNul DEF NUL
    <3>2. m - 2 \in Nat /\ m - 2 < m /\ end - (m - 2) = x + 2
      BY <1>1, <2>2, <2>5, <3>1
    <3>3. g[end - (m - 2)] \in (end - (m - 2)) .. end
      BY <2>3, <3>2
    <3>4. QED
      BY <1>1, <2>4, <3>2, <3>3
  <2>8. g[x] \in x .. end
    BY <1>1, <2>4, <2>6, <2>7 DEF ConvAt
  <2>9. QED
    BY <2>2, <2>8
<1>4. end - k \in Nat /\ end - k \notin T /\ end - (end - k) = k
  <2>1. end - k \in Nat /\ end - (end - k) = k
    BY <1>1
  <2>2. QED
    BY <1>3, <2>1
<1>5. QED
  BY <1>1, <1>4

LEMMA CountNextType ==
  ASSUME NEW fm \in Seq(STRING), NEW k \in 1 .. Len(fm) + 1
  PROVE  CountNext(fm, k) \in k .. Len(fm) + 1
<1> DEFINE g == CHOOSE g : IsSearch(fm, k, g)
<1>1. IsSearch(fm, k, g)
  BY SearchExists
<1>2. g[k] \in k .. Len(fm) + 1
  BY <1>1, SearchForward
<1>3. CountNext(fm, k) = g[k]
  BY Zenon DEF CountNext, IsSearch, ConvAt
<1>4. QED
  BY <1>2, <1>3

LEMMA GetNumNext ==
  ASSUME NEW fm \in Seq(STRING), NEW k \in 1 .. Len(fm) + 1
  PROVE  GetNum(fm, k).next \in k .. Len(fm) + 1
<1>1. Len(fm) \in Nat /\ k \in Nat \ {0}
  BY AtEnd
<1>2. CASE At(fm, k) = "*"
  <2>1. GetNum(fm, k).next = k + 1
    BY <1>2 DEF GetNum
  <2>2. k <= Len(fm)
    BY <1>1, <1>2, AtNul DEF NUL
  <2>3. QED
    BY <1>1, <2>1, <2>2
<1>3. CASE At(fm, k) # "*"
  <2>1. GetNum(fm, k).next = Skip(fm, k, DigitChars)
    BY <1>3 DEF GetNum
  <2>2. NUL \notin DigitChars
    <3>1. DigitChars = {"0", "1", "2", "3", "4", "5", "6", "7", "8", "9"}
      BY DEF DigitChars, Digits
    <3>2. QED
      BY <3>1 DEF NUL
  <2>3. QED
    BY <2>1, <2>2, SkipType
<1>4. QED
  BY <1>2, <1>3

(* The loop of haclog_printf_spec_fillup that looks for the next           *)
(* conversion finds the one haclog_printf_num_params found.                *)
LEMMA SameSearch ==
  ASSUME NEW fm, NEW k
  PROVE  FillNext(fm, k) = CountNext(fm, k)
  BY Zenon DEF FillNext, CountNext

(* What each of the two finds of the conversion at k.                      *)
Parts(fm, k) ==
  LET width == GetNum(fm, Skip(fm, k + 1, Flags))
      prec  == IF At(fm, width.next) = "." THEN GetNum(fm, width.next + 1)
               ELSE [val |-> 0, next |-> width.next]
      type  == Skip(fm, prec.next, Lengths)
  IN  [width |-> width.val, prec |-> prec.val, type |-> type, long |-> prec.next,
       length |-> SubSeq(fm, prec.next, type - 1)]

PartsError(fm, c) ==
  IF Len(c.length) > 2 THEN "HACLOG_ERR_PRINTF_SPEC_LENGTH"
  ELSE IF At(fm, c.type) \notin Types THEN "HACLOG_ERR_PRINTF_TYPE"
  ELSE "ok"

LEMMA FillParts ==
  ASSUME NEW fm, NEW k
  PROVE  FillSpec(fm, k) =
           [err |-> PartsError(fm, Parts(fm, k)),
            begin |-> k, next |-> Parts(fm, k).type + 1,
            pos_begin |-> InPos(k), pos_end |-> InPos(Parts(fm, k).type + 1),
            width |-> InField(Parts(fm, k).width),
            precision |-> InField(Parts(fm, k).prec),
            fmt_type |-> FmtType(At(fm, Parts(fm, k).type), Parts(fm, k).length)]
  BY Zenon DEF FillSpec, Parts, PartsError

(* The type character of a conversion is behind its %. *)
LEMMA TypePosition ==
  ASSUME NEW fm \in Seq(STRING), NEW k \in 1 .. Len(fm)
  PROVE  /\ Parts(fm, k).type \in (k + 1) .. Len(fm) + 1
         /\ Parts(fm, k).long \in (k + 1) .. Len(fm) + 1
         /\ Parts(fm, k).long <= Parts(fm, k).type
         /\ Parts(fm, k).length = SubSeq(fm, Parts(fm, k).long, Parts(fm, k).type - 1)
<1> DEFINE flags == Skip(fm, k + 1, Flags)
           width == GetNum(fm, flags)
           prec  == IF At(fm, width.next) = "." THEN GetNum(fm, width.next + 1)
                    ELSE [val |-> 0, next |-> width.next]
<1>0. Len(fm) \in Nat /\ k + 1 \in 1 .. Len(fm) + 1 /\ NUL \notin Flags /\ NUL \notin Lengths
  BY AtEnd DEF NUL, Flags, Lengths
<1>1. flags \in (k + 1) .. Len(fm) + 1 /\ flags \in 1 .. Len(fm) + 1
  BY <1>0, SkipType, SMTT(30)
<1> HIDE DEF flags
<1>2. width.next \in (k + 1) .. Len(fm) + 1 /\ width.next \in 1 .. Len(fm) + 1
  <2>1. GetNum(fm, flags).next \in flags .. Len(fm) + 1
    BY <1>1, GetNumNext
  <2>2. QED
    BY <1>0, <1>1, <2>1
<1> HIDE DEF width
<1>3. prec.next \in (k + 1) .. Len(fm) + 1 /\ prec.next \in 1 .. Len(fm) + 1
  <2>1. CASE At(fm, width.next) = "."
    <3>1. width.next + 1 \in 1 .. Len(fm) + 1
      BY <1>0, <1>2, <2>1, AtNul DEF NUL
    <3>2. GetNum(fm, width.next + 1).next \in (width.next + 1) .. Len(fm) + 1
      BY <3>1, GetNumNext
    <3>3. QED
      BY <1>0, <1>2, <2>1, <3>1, <3>2
  <2>2. CASE At(fm, width.next) # "."
    BY <1>2, <2>2
  <2>3. QED
    BY <2>1, <2>2
<1>4. /\ Parts(fm, k).type = Skip(fm, prec.next, Lengths)
      /\ Parts(fm, k).long = prec.next
      /\ Parts(fm, k).length = SubSeq(fm, prec.next, Skip(fm, prec.next, Lengths) - 1)
  BY DEF Parts, prec, width, flags
<1> HIDE DEF prec
<1>5. Skip(fm, prec.next, Lengths) \in prec.next .. Len(fm) + 1
  BY <1>0, <1>3, SkipType
<1>6. QED
  BY <1>0, <1>3, <1>4, <1>5

LEMMA CountParts ==
  ASSUME NEW fm \in Seq(STRING), NEW k \in 1 .. Len(fm)
  PROVE  /\ CountSpec(fm, k).err = PartsError(fm, Parts(fm, k))
         /\ CountSpec(fm, k).next = Parts(fm, k).type + 1
         /\ CountSpec(fm, k).args = 1 + (IF Parts(fm, k).width = DYNAMIC THEN 1 ELSE 0)
                                      + (IF Parts(fm, k).prec = DYNAMIC THEN 1 ELSE 0)
<1>1. CountSpec(fm, k) =
        [err  |-> IF Parts(fm, k).type - Parts(fm, k).long > 2
                  THEN "HACLOG_ERR_PRINTF_SPEC_LENGTH"
                  ELSE IF At(fm, Parts(fm, k).type) \notin Types THEN "HACLOG_ERR_PRINTF_TYPE"
                  ELSE "ok",
         next |-> Parts(fm, k).type + 1,
         args |-> 1 + (IF Parts(fm, k).width = DYNAMIC THEN 1 ELSE 0)
                    + (IF Parts(fm, k).prec = DYNAMIC THEN 1 ELSE 0)]
  BY Zenon DEF CountSpec, Parts
<1>2. PICK c, ty, lo : c = Parts(fm, k) /\ ty = c.type /\ lo = c.long
  OBVIOUS
<1>3. /\ ty \in (k + 1) .. Len(fm) + 1 /\ lo \in (k + 1) .. Len(fm) + 1 /\ lo <= ty
      /\ c.length = SubSeq(fm, lo, ty - 1)
  BY <1>2, TypePosition
<1>4. Len(SubSeq(fm, lo, ty - 1)) = ty - lo
  BY <1>3
<1>5. PartsError(fm, c) =
        IF ty - lo > 2 THEN "HACLOG_ERR_PRINTF_SPEC_LENGTH"
        ELSE IF At(fm, ty) \notin Types THEN "HACLOG_ERR_PRINTF_TYPE"
        ELSE "ok"
  BY <1>2, <1>3, <1>4, Zenon DEF PartsError
<1>6. CountSpec(fm, k).err = PartsError(fm, c)
  BY <1>1, <1>2, <1>5
<1>7. QED
  BY <1>1, <1>2, <1>6

(* The two readers of a conversion come to the same end. *)
LEMMA SpecFacts ==
  ASSUME NEW fm \in Seq(STRING), NEW k \in 1 .. Len(fm)
  PROVE  /\ CountSpec(fm, k).err = FillSpec(fm, k).err
         /\ CountSpec(fm, k).next = FillSpec(fm, k).next
         /\ CountSpec(fm, k).args \in Nat
         /\ FillSpec(fm, k).begin = k
         /\ FillSpec(fm, k).err = "ok" => FillSpec(fm, k).next \in (k + 1) .. Len(fm) + 1
<1>1. /\ CountSpec(fm, k).err = PartsError(fm, Parts(fm, k))
      /\ CountSpec(fm, k).next = Parts(fm, k).type + 1
      /\ CountSpec(fm, k).args \in Nat
  BY CountParts
<1>2. /\ FillSpec(fm, k).err = PartsError(fm, Parts(fm, k))
      /\ FillSpec(fm, k).next = Parts(fm, k).type + 1
      /\ FillSpec(fm, k).begin = k
  BY FillParts
<1>3. ASSUME PartsError(fm, Parts(fm, k)) = "ok"
      PROVE  Parts(fm, k).type + 1 \in (k + 1) .. Len(fm) + 1
  <2>1. At(fm, Parts(fm, k).type) \in Types
    BY <1>3 DEF PartsError
  <2>2. At(fm, Parts(fm, k).type) # NUL
    BY <2>1 DEF Types, NUL
  <2>3. Parts(fm, k).type \in Nat \ {0} /\ Parts(fm, k).type > k
    BY TypePosition
  <2>4. Parts(fm, k).type <= Len(fm)
    BY <2>2, <2>3, AtNul
  <2>5. QED
    BY <2>3, <2>4
<1>4. QED
  BY <1>1, <1>2, <1>3

-----------------------------------------------------------------------------
(* The inductive invariant.                                                *)

Chars   == Int \X Int
SpecSet == {FillSpec(fmt, k) : k \in {j \in 1 .. Len(fmt) : FillSpec(fmt, j).err = "ok"}}

Shape ==
  /\ fmt \in Formats /\ bufsize \in BufSizes /\ pc \in Phases
  /\ pos \in 1 .. Len(fmt) + 1 /\ i \in Nat \ {0} /\ va \in Nat /\ p \in Nat
  /\ prim \in [specs : Seq(SpecSet), num_params : Nat, num_args : Nat, param_size : Nat]
  /\ line \in Seq(Chars) /\ text \in Seq(Chars) /\ misread \in BOOLEAN
  /\ \E S : strs \in Seq(S)

(* Where num_params is: q holds the positions behind its first n           *)
(* conversions, each of which it accepted.                                 *)
Rounds(q, n) ==
  /\ q \in [0 .. n -> 1 .. Len(fmt) + 1] /\ q[0] = 1
  /\ \A m \in 0 .. n - 1 :
       LET k == CountNext(fmt, q[m])
       IN  k <= Len(fmt) /\ CountSpec(fmt, k).err = "ok" /\ q[m + 1] = CountSpec(fmt, k).next

(* fillup goes over the same positions, one entry for each. *)
Counted ==
  /\ pc = "count" =>
       /\ prim.specs = <<>>
       /\ \E q : Rounds(q, prim.num_params) /\ q[prim.num_params] = pos
  /\ pc = "fill" =>
       /\ Len(prim.specs) <= prim.num_params
       /\ \E q : Rounds(q, prim.num_params) /\ q[Len(prim.specs)] = pos
  /\ pc = "failed" => prim = NoPrimitive /\ err # "ok"
  /\ pc \in Read \cup {"size"} => Len(prim.specs) = prim.num_params

(* The loops over the entries stay inside the array. *)
Looping ==
  /\ pc \in {"count", "fill"} => i = 1 /\ prim.param_size = 0
  /\ pc \in {"size", "serialize", "format"} => i <= prim.num_params + 1
  /\ pc = "tail" => i <= prim.num_params

(* The conversions follow one another in the format. *)
Ordered ==
  /\ \A k \in DOMAIN prim.specs : TextEnd(k - 1) <= prim.specs[k].begin
  /\ pc = "fill" => pos = TextEnd(Len(prim.specs))

(* format: the line is the text so far until it is full; then its last     *)
(* byte is a NUL where the text has a byte of a conversion.                *)
Shown(tx, m, B) == IF m = B /\ tx[m][1] # 0 THEN NulByte ELSE tx[m]
Same == \A k \in DOMAIN line : line[k] = Shown(text, k, bufsize - 1)

CutText ==
  /\ pc = "format" => line = text /\ (Len(line) < bufsize - 1 \/ line = <<>>)
  /\ pc = "tail" => Len(line) = bufsize - 1 /\ Len(text) >= bufsize - 1
  /\ pc = "done" => Len(line) = Least(Len(text), bufsize - 1)
  /\ pc # "outside"
  /\ Same

Early == {"count", "fill", "size", "serialize", "failed"}
Cut ==
  /\ pc \in Early => line = <<>> /\ text = <<>>
  /\ Len(line) <= bufsize - 1
  /\ Short /\ ~misread => CutText

ReadInv == Shape /\ Counted /\ Looping /\ Ordered

-----------------------------------------------------------------------------
(* haclog_printf_primitive_gen keeps the invariant.                        *)

LEMMA ShapeFacts ==
  ASSUME Shape
  PROVE  /\ fmt \in Seq(STRING) /\ Len(fmt) \in Nat /\ bufsize \in Nat \ {0}
         /\ prim.specs \in Seq(SpecSet) /\ Len(prim.specs) \in Nat
         /\ DOMAIN prim.specs = 1 .. Len(prim.specs)
         /\ prim.num_params \in Nat /\ prim.num_args \in Nat /\ prim.param_size \in Nat
         /\ Len(line) \in Nat /\ Len(text) \in Nat /\ Len(strs) \in Nat
         /\ DOMAIN strs = 1 .. Len(strs)
<1>1. PICK S : strs \in Seq(S)
  BY DEF Shape
<1>2. fmt \in Seq(STRING) /\ bufsize \in Nat \ {0} /\ prim.specs \in Seq(SpecSet)
      /\ prim.num_params \in Nat /\ prim.num_args \in Nat /\ prim.param_size \in Nat
  BY LineAssumption DEF Shape
<1>3. QED
  BY <1>1, <1>2 DEF Shape

LEMMA SpecPositions ==
  ASSUME fmt \in Seq(STRING), NEW s \in SpecSet
  PROVE  s.begin \in 1 .. Len(fmt) /\ s.next \in (s.begin + 1) .. Len(fmt) + 1
<1>1. PICK k \in 1 .. Len(fmt) : FillSpec(fmt, k).err = "ok" /\ s = FillSpec(fmt, k)
  BY DEF SpecSet
<1>2. QED
  BY <1>1, SpecFacts

(* The fields of an entry are positions, and of a short format the real    *)
(* ones.                                                                   *)
LEMMA FieldPositions ==
  ASSUME fmt \in Seq(STRING), NEW s \in SpecSet
  PROVE  /\ s.pos_begin \in Nat \ {0} /\ s.pos_end \in Nat \ {0}
         /\ Short => s.pos_begin = s.begin /\ s.pos_end = s.next
<1>1. PICK k \in 1 .. Len(fmt) : FillSpec(fmt, k).err = "ok" /\ s = FillSpec(fmt, k)
  BY DEF SpecSet
<1>2. PICK M : M = 2 * FieldHalf /\ M \in Nat \ {0}
  BY FieldAssumption
<1>3. ASSUME NEW n \in Nat \ {0}
      PROVE  InPos(n) \in Nat \ {0} /\ (n <= M => InPos(n) = n)
  <2>1. InPos(n) = ((n - 1) % M) + 1
    BY <1>2, Zenon DEF InPos
  <2>2. PICK u : u = (n - 1) % M
    OBVIOUS
  <2>3. u \in Nat /\ (n <= M => u = n - 1)
    BY <1>2, <2>2
  <2>4. QED
    BY <2>1, <2>2, <2>3
<1>4. Len(fmt) \in Nat
  OBVIOUS
<1>5. Parts(fmt, k).type + 1 = s.next /\ k = s.begin
      /\ s.pos_begin = InPos(k) /\ s.pos_end = InPos(Parts(fmt, k).type + 1)
  BY <1>1, FillParts
<1>6. k \in Nat \ {0} /\ k <= Len(fmt) /\ s.next \in Nat \ {0} /\ s.next <= Len(fmt) + 1
  BY <1>1, <1>4, SpecPositions
<1>7. Short => k <= M /\ s.next <= M
  BY <1>2, <1>4, <1>6 DEF Short
<1>8. QED
  BY <1>3, <1>5, <1>6, <1>7

LEMMA TextEndType ==
  ASSUME Shape, NEW k \in 0 .. Len(prim.specs)
  PROVE  TextEnd(k) \in 1 .. Len(fmt) + 1
<1>1. CASE k = 0
  BY <1>1, ShapeFacts DEF TextEnd
<1>2. CASE k # 0
  <2>1. k \in DOMAIN prim.specs /\ prim.specs[k] \in SpecSet
    BY <1>2, ShapeFacts
  <2>2. prim.specs[k].begin \in 1 .. Len(fmt)
        /\ prim.specs[k].next \in (prim.specs[k].begin + 1) .. Len(fmt) + 1
    BY <2>1, ShapeFacts, SpecPositions
  <2>3. TextEnd(k) = prim.specs[k].next
    BY <1>2 DEF TextEnd
  <2>4. Len(fmt) \in Nat
    BY ShapeFacts
  <2>5. QED
    BY <2>2, <2>3, <2>4
<1>3. QED
  BY <1>1, <1>2

LEMMA FmtEndType ==
  ASSUME Shape, NEW k \in 0 .. Len(prim.specs)
  PROVE  FmtEnd(k) \in Nat \ {0} /\ (Short => FmtEnd(k) = TextEnd(k))
<1>1. CASE k = 0
  BY <1>1 DEF FmtEnd, TextEnd
<1>2. CASE k # 0
  <2>1. k \in DOMAIN prim.specs /\ prim.specs[k] \in SpecSet
    BY <1>2, ShapeFacts
  <2>2. QED
    BY <1>2, <2>1, ShapeFacts, FieldPositions DEF FmtEnd, TextEnd
<1>3. QED
  BY <1>1, <1>2

LEMMA SpecSetKept ==
  ASSUME fmt' = fmt
  PROVE  SpecSet' = SpecSet
BY DEF SpecSet

LEMMA OneRound == ASSUME Shape PROVE Rounds([m \in 0 .. 0 |-> 1], 0)
BY ShapeFacts DEF Rounds

LEMMA InitRead == Init => ReadInv
<1> SUFFICES ASSUME Init PROVE ReadInv
  OBVIOUS
<1>1. fmt \in Seq(STRING) /\ Len(fmt) \in Nat
  BY LineAssumption DEF Init
<1>2. Shape
  <2>1. <<>> \in Seq(SpecSet) /\ <<>> \in Seq(Chars)
    OBVIOUS
  <2>2. prim \in [specs : Seq(SpecSet), num_params : Nat, num_args : Nat, param_size : Nat]
    BY <2>1 DEF Init, NoPrimitive
  <2>3. \E S : strs \in Seq(S)
    BY <2>1 DEF Init
  <2>4. line \in Seq(Chars) /\ text \in Seq(Chars) /\ misread \in BOOLEAN
    BY <2>1 DEF Init
  <2>5. fmt \in Formats /\ bufsize \in BufSizes /\ pc \in Phases
    BY DEF Init, Phases
  <2>6. pos \in 1 .. Len(fmt) + 1 /\ i \in Nat \ {0} /\ va \in Nat /\ p \in Nat
    BY <1>1 DEF Init
  <2>7. QED
    BY <2>2, <2>3, <2>4, <2>5, <2>6 DEF Shape
<1>3. Counted
  <2>1. prim.specs = <<>> /\ prim.num_params = 0 /\ pc = "count" /\ pos = 1
    BY DEF Init, NoPrimitive
  <2>2. PICK q : q = [m \in 0 .. 0 |-> 1]
    OBVIOUS
  <2>3. Rounds(q, 0) /\ q[0] = 1
    BY <1>2, <2>2, OneRound
  <2>4. QED
    BY <2>1, <2>3 DEF Counted, Read
<1>4. Looping /\ Ordered
  BY DEF Init, NoPrimitive, Looping, Ordered
<1>5. QED
  BY <1>2, <1>3, <1>4 DEF ReadInv

LEMMA FailStep ==
  ASSUME ReadInv, NEW e, e # "ok", Fail(e)
  PROVE  ReadInv'
<1>1. /\ pc' = "failed" /\ err' = e /\ prim' = NoPrimitive /\ fmt' = fmt /\ bufsize' = bufsize
      /\ pos' = pos /\ i' = i /\ va' = va /\ p' = p /\ strs' = strs /\ line' = line
      /\ text' = text /\ misread' = misread
  BY DEF Fail, site, call
<1>2. prim'.specs = <<>> /\ prim'.num_params = 0
  BY <1>1 DEF NoPrimitive
<1>3. Shape'
  <2>1. prim' \in [specs : Seq(SpecSet'), num_params : Nat, num_args : Nat, param_size : Nat]
    BY <1>1 DEF NoPrimitive
  <2>2. QED
    BY <1>1, <2>1 DEF ReadInv, Shape, Phases
<1>4. Counted'
  BY <1>1, <1>2 DEF Counted, Read
<1>5. Looping' /\ Ordered'
  BY <1>1, <1>2 DEF Looping, Ordered
<1>6. QED
  BY <1>3, <1>4, <1>5 DEF ReadInv

LEMMA CountStep ==
  ASSUME ReadInv, CountConv
  PROVE  ReadInv'
<1>0. PICK n : n = prim.num_params
  OBVIOUS
<1>1. PICK k : k = CountNext(fmt, pos)
  OBVIOUS
<1>2. /\ pc = "count" /\ k <= Len(fmt)
      /\ \/ CountSpec(fmt, k).err # "ok" /\ Fail(CountSpec(fmt, k).err)
         \/ /\ CountSpec(fmt, k).err = "ok"
            /\ prim' = [prim EXCEPT !.num_params = @ + 1, !.num_args = @ + CountSpec(fmt, k).args]
            /\ pos' = CountSpec(fmt, k).next
            /\ UNCHANGED <<site, pc, err, call>>
  BY <1>1 DEF CountConv
<1>3. CASE CountSpec(fmt, k).err # "ok" /\ Fail(CountSpec(fmt, k).err)
  BY <1>3, FailStep
<1>4. CASE /\ CountSpec(fmt, k).err = "ok"
           /\ prim' = [prim EXCEPT !.num_params = @ + 1, !.num_args = @ + CountSpec(fmt, k).args]
           /\ pos' = CountSpec(fmt, k).next
           /\ UNCHANGED <<site, pc, err, call>>
  <2>1. /\ Shape /\ fmt \in Seq(STRING) /\ Len(fmt) \in Nat /\ pos \in 1 .. Len(fmt) + 1
        /\ n \in Nat
    BY <1>0, ShapeFacts DEF ReadInv, Shape
  <2>2. /\ fmt' = fmt /\ bufsize' = bufsize /\ pc' = pc /\ i' = i /\ va' = va /\ p' = p
        /\ strs' = strs /\ line' = line /\ text' = text /\ misread' = misread
    BY <1>4 DEF site, call
  <2>3. k \in pos .. Len(fmt) + 1 /\ k \in 1 .. Len(fmt)
    <3>1. k \in pos .. Len(fmt) + 1
      BY <1>1, <2>1, CountNextType
    <3>2. QED
      BY <1>2, <2>1, <3>1
  <2>4. pos' \in 1 .. Len(fmt) + 1 /\ CountSpec(fmt, k).args \in Nat
    <3>1. pos' \in (k + 1) .. Len(fmt) + 1 /\ CountSpec(fmt, k).args \in Nat
      BY <1>4, <2>1, <2>3, SpecFacts
    <3>2. QED
      BY <2>1, <2>3, <3>1
  <2>5. /\ prim'.specs = prim.specs /\ prim'.num_params = n + 1
        /\ prim'.param_size = prim.param_size
        /\ prim' \in [specs : Seq(SpecSet), num_params : Nat, num_args : Nat, param_size : Nat]
    <3>1. prim \in [specs : Seq(SpecSet), num_params : Nat, num_args : Nat, param_size : Nat]
      BY <2>1 DEF Shape
    <3>2. n + 1 \in Nat /\ prim.num_args + CountSpec(fmt, k).args \in Nat
      <4>1. prim.num_args \in Nat
        BY <2>1, ShapeFacts
      <4>2. QED
        BY <2>1, <2>4, <4>1
    <3>3. QED
      BY <1>0, <1>4, <3>1, <3>2
  <2>6. Shape'
    BY <2>1, <2>2, <2>4, <2>5, SpecSetKept DEF Shape
  <2>7. Counted'
    <3>1. PICK q : Rounds(q, n) /\ q[n] = pos
      BY <1>0, <1>2 DEF ReadInv, Counted
    <3>2. PICK pn : pn = pos'
      OBVIOUS
    <3>3. PICK r : r = [m \in 0 .. n + 1 |-> IF m = n + 1 THEN pn ELSE q[m]]
      OBVIOUS
    <3>4. /\ r \in [0 .. n + 1 -> 1 .. Len(fmt) + 1] /\ r[0] = 1 /\ r[n + 1] = pn
          /\ \A m \in 0 .. n : r[m] = q[m]
      BY <2>1, <2>4, <3>1, <3>2, <3>3 DEF Rounds
    <3>5. ASSUME NEW m \in 0 .. n
          PROVE  /\ CountNext(fmt, r[m]) <= Len(fmt)
                 /\ CountSpec(fmt, CountNext(fmt, r[m])).err = "ok"
                 /\ r[m + 1] = CountSpec(fmt, CountNext(fmt, r[m])).next
      <4>1. CASE m = n
        BY <1>1, <1>2, <1>4, <3>1, <3>2, <3>4, <4>1
      <4>2. CASE m # n
        <5>1. m \in 0 .. n - 1 /\ m + 1 \in 0 .. n
          BY <2>1, <4>2
        <5>2. QED
          BY <3>1, <3>4, <5>1 DEF Rounds
      <4>3. QED
        BY <4>1, <4>2
    <3>6. Rounds(r, n + 1)
      <4>1. (n + 1) - 1 = n
        BY <2>1
      <4>2. QED
        BY <3>4, <3>5, <4>1 DEF Rounds
    <3>7. Rounds(r, n + 1)'
      BY <2>2, <3>6 DEF Rounds
    <3>8. prim.specs = <<>>
      BY <1>2 DEF ReadInv, Counted
    <3>9. QED
      BY <1>2, <2>2, <2>5, <3>2, <3>4, <3>7, <3>8 DEF Counted, Read
  <2>8. Looping' /\ Ordered'
    <3>1. prim.specs = <<>>
      BY <1>2 DEF ReadInv, Counted
    <3>2. QED
      BY <1>2, <2>2, <2>5, <3>1 DEF ReadInv, Looping, Ordered
  <2>9. QED
    BY <2>6, <2>7, <2>8 DEF ReadInv
<1>5. QED
  BY <1>2, <1>3, <1>4

(* What fillup meets is what num_params has accepted: it never fails. *)
LEMMA FillStep ==
  ASSUME ReadInv, FillConv
  PROVE  ReadInv'
<1>0. PICK n, l : n = prim.num_params /\ l = Len(prim.specs)
  OBVIOUS
<1>1. PICK k : k = CountNext(fmt, pos)
  OBVIOUS
<1>2. /\ Shape /\ fmt \in Seq(STRING) /\ Len(fmt) \in Nat /\ pos \in 1 .. Len(fmt) + 1
      /\ n \in Nat /\ l \in Nat /\ pc = "fill" /\ l < n
  BY <1>0, ShapeFacts DEF ReadInv, Shape, FillConv
<1>3. PICK q : Rounds(q, n) /\ q[l] = pos
  BY <1>0, <1>2 DEF ReadInv, Counted
<1>4. /\ k <= Len(fmt) /\ CountSpec(fmt, k).err = "ok" /\ q[l + 1] = CountSpec(fmt, k).next
  <2>1. l \in 0 .. n - 1
    BY <1>2
  <2>2. QED
    BY <1>1, <1>3, <2>1 DEF Rounds
<1>5. k \in pos .. Len(fmt) + 1 /\ k \in 1 .. Len(fmt)
  <2>1. k \in pos .. Len(fmt) + 1
    BY <1>1, <1>2, CountNextType
  <2>2. QED
    BY <1>2, <1>4, <2>1
<1>6. PICK s : s = FillSpec(fmt, k)
  OBVIOUS
<1>7. /\ s.err = "ok" /\ s.next = q[l + 1] /\ s.begin = k /\ s \in SpecSet
      /\ s.next \in (k + 1) .. Len(fmt) + 1
  <2>1. s.err = "ok" /\ s.next = q[l + 1] /\ s.begin = k
        /\ s.next \in (k + 1) .. Len(fmt) + 1
    BY <1>2, <1>4, <1>5, <1>6, SpecFacts
  <2>2. QED
    BY <1>5, <1>6, <2>1 DEF SpecSet
<1>8. /\ prim' = [prim EXCEPT !.specs = Append(@, s)] /\ pos' = s.next
      /\ UNCHANGED <<site, pc, err, counted, call>>
  <2>1. k = FillNext(fmt, pos)
    BY <1>1, SameSearch
  <2>2. QED
    BY <1>6, <1>7, <2>1 DEF FillConv
<1>9. /\ fmt' = fmt /\ bufsize' = bufsize /\ pc' = pc /\ i' = i /\ va' = va /\ p' = p
      /\ strs' = strs /\ line' = line /\ text' = text /\ misread' = misread
  BY <1>8 DEF site, call
<1>10. /\ prim' \in [specs : Seq(SpecSet), num_params : Nat, num_args : Nat, param_size : Nat]
       /\ prim'.specs = Append(prim.specs, s) /\ prim'.num_params = n
       /\ prim'.param_size = prim.param_size
  <2>1. prim \in [specs : Seq(SpecSet), num_params : Nat, num_args : Nat, param_size : Nat]
    BY <1>2 DEF Shape
  <2>2. Append(prim.specs, s) \in Seq(SpecSet)
    BY <1>7, <2>1
  <2>3. QED
    BY <1>0, <1>8, <2>1, <2>2
<1>11. /\ Len(prim'.specs) = l + 1 /\ DOMAIN prim'.specs = 1 .. l + 1
       /\ prim'.specs[l + 1] = s
       /\ \A m \in 1 .. l : prim'.specs[m] = prim.specs[m]
  BY <1>0, <1>2, <1>7, <1>10, ShapeFacts, SMTT(30)
<1>12. Shape'
  <2>1. pos' \in 1 .. Len(fmt) + 1
    BY <1>2, <1>5, <1>7, <1>8
  <2>2. QED
    BY <1>2, <1>9, <1>10, <2>1, SpecSetKept DEF Shape
<1>13. Counted'
  <2>1. Rounds(q, n)'
    BY <1>3, <1>9 DEF Rounds
  <2>2. q[l + 1] = pos'
    BY <1>7, <1>8
  <2>3. l + 1 <= n
    BY <1>2
  <2>4. QED
    BY <1>2, <1>9, <1>10, <1>11, <2>1, <2>2, <2>3 DEF Counted, Read
<1>14. Looping'
  BY <1>2, <1>9, <1>10 DEF ReadInv, Looping
<1>15. Ordered'
  <2>1. pos = TextEnd(l)
    BY <1>0, <1>2 DEF ReadInv, Ordered
  <2>2. \A m \in 0 .. l : TextEnd(m)' = TextEnd(m)
    BY <1>2, <1>11 DEF TextEnd
  <2>3. ASSUME NEW m \in 1 .. l + 1
        PROVE  TextEnd(m - 1)' <= prim'.specs[m].begin
    <3>1. CASE m = l + 1
      <4>1. m - 1 = l /\ l \in 0 .. l
        BY <1>2, <3>1
      <4>2. TextEnd(m - 1)' = pos
        BY <2>1, <2>2, <4>1
      <4>3. QED
        BY <1>2, <1>5, <1>7, <1>11, <3>1, <4>2
    <3>2. CASE m # l + 1
      <4>1. m \in 1 .. l /\ m - 1 \in 0 .. l
        BY <1>2, <3>2
      <4>2. TextEnd(m - 1) <= prim.specs[m].begin
        BY <1>0, <4>1, ShapeFacts DEF ReadInv, Ordered
      <4>3. QED
        BY <1>11, <2>2, <4>1, <4>2
    <3>3. QED
      BY <3>1, <3>2
  <2>4. pos' = TextEnd(l + 1)'
    BY <1>2, <1>8, <1>11 DEF TextEnd
  <2>5. QED
    BY <1>11, <2>3, <2>4 DEF Ordered
<1>16. QED
  BY <1>12, <1>13, <1>14, <1>15 DEF ReadInv

LEMMA AllocateStep ==
  ASSUME ReadInv, Allocate
  PROVE  ReadInv'
<1>1. CASE Fail("HACLOG_ERR_ALLOC_MEM")
  BY <1>1, FailStep
<1>2. CASE pc' = "fill" /\ pos' = 1 /\ UNCHANGED <<site, err, prim, call>>
  <2>1. /\ fmt' = fmt /\ bufsize' = bufsize /\ i' = i /\ va' = va /\ p' = p /\ prim' = prim
        /\ strs' = strs /\ line' = line /\ text' = text /\ misread' = misread
    BY <1>2 DEF site, call
  <2>2. Shape /\ Len(fmt) \in Nat /\ prim.num_params \in Nat
    BY ShapeFacts DEF ReadInv
  <2>3. pc = "count" /\ prim.specs = <<>>
    BY DEF Allocate, ReadInv, Counted
  <2>4. PICK n : n = prim.num_params
    OBVIOUS
  <2>5. PICK q : Rounds(q, n)
    BY <2>3, <2>4 DEF ReadInv, Counted
  <2>6. Rounds(q, n)' /\ q[0] = 1
    BY <2>1, <2>5 DEF Rounds
  <2>7. Shape'
    BY <1>2, <2>1, <2>2, SpecSetKept DEF Shape, Phases
  <2>8. Counted'
    BY <1>2, <2>1, <2>2, <2>3, <2>4, <2>6 DEF Counted, Read
  <2>9. Looping' /\ Ordered'
    BY <1>2, <2>1, <2>3 DEF ReadInv, Looping, Ordered, TextEnd
  <2>10. QED
    BY <2>7, <2>8, <2>9 DEF ReadInv
<1>3. QED
  BY <1>1, <1>2 DEF Allocate

(* fillup ends with every entry filled. *)
LEMMA FillEndStep ==
  ASSUME ReadInv, FillEnd
  PROVE  ReadInv'
<1>1. /\ fmt' = fmt /\ bufsize' = bufsize /\ i' = i /\ va' = va /\ p' = p /\ prim' = prim
      /\ strs' = strs /\ line' = line /\ text' = text /\ misread' = misread
      /\ pos' = pos /\ pc' = "size" /\ pc = "fill"
  BY DEF FillEnd, site, call
<1>2. PICK n, l : n = prim.num_params /\ l = Len(prim.specs)
  OBVIOUS
<1>3. /\ Shape /\ Len(fmt) \in Nat /\ n \in Nat /\ l \in Nat /\ l <= n /\ fmt \in Seq(STRING)
      /\ pos \in 1 .. Len(fmt) + 1
  BY <1>1, <1>2, ShapeFacts DEF ReadInv, Counted, Shape
<1>4. l = n
  <2>1. SUFFICES ASSUME l < n PROVE FALSE
    BY <1>3
  <2>2. PICK q : Rounds(q, n) /\ q[l] = pos
    BY <1>1, <1>2 DEF ReadInv, Counted
  <2>3. l \in 0 .. n - 1
    BY <1>3, <2>1
  <2>4. CountNext(fmt, pos) <= Len(fmt)
    BY <2>2, <2>3 DEF Rounds
  <2>5. CountNext(fmt, pos) > Len(fmt)
    BY <1>2, <1>3, <2>1, SameSearch DEF FillEnd
  <2>6. CountNext(fmt, pos) \in pos .. Len(fmt) + 1
    BY <1>3, CountNextType
  <2>7. QED
    BY <1>3, <2>4, <2>5, <2>6
<1>5. Shape'
  BY <1>1, <1>3, SpecSetKept DEF Shape, Phases
<1>6. Counted'
  BY <1>1, <1>2, <1>4 DEF Counted, Read
<1>7. Looping' /\ Ordered'
  <2>1. i = 1 /\ 1 <= n + 1
    BY <1>1, <1>3 DEF ReadInv, Looping
  <2>2. \A m : TextEnd(m)' = TextEnd(m)
    BY <1>1 DEF TextEnd
  <2>3. QED
    BY <1>1, <1>2, <2>1, <2>2 DEF ReadInv, Looping, Ordered
<1>8. QED
  BY <1>5, <1>6, <1>7 DEF ReadInv

-----------------------------------------------------------------------------
(* What an entry takes, where its slots are and how long they are.         *)

Roles(spec) == {Takes(spec)[k] : k \in DOMAIN Takes(spec)}
Dyn(x) == IF x = DYNAMIC THEN 1 ELSE 0

Offset(spec, r) ==
  CASE r = "width"     -> 0
    [] r = "precision" -> 8 * Dyn(spec.width)
    [] r = "value"     -> 8 * (Dyn(spec.width) + Dyn(spec.precision))

RoleSize(spec, r) == IF r = "value" THEN ValueSize(spec.fmt_type) ELSE Placeholder

Size(spec) ==
  8 * (Dyn(spec.width) + Dyn(spec.precision))
    + (IF spec.fmt_type = "NONE" THEN 0 ELSE ValueSize(spec.fmt_type))

LEMMA ShortConcat ==
  /\ \A a, b : <<a>> \o <<b>> = <<a, b>>
  /\ \A a, b, c : <<a, b>> \o <<c>> = <<a, b, c>>
  /\ \A a : <<a>> \o <<>> = <<a>> /\ <<>> \o <<a>> = <<a>>
  /\ \A a, b : <<a, b>> \o <<>> = <<a, b>>
<1>1. ASSUME NEW a, NEW b, NEW c PROVE <<a, b>> \o <<c>> = <<a, b, c>> /\ <<a>> \o <<b>> = <<a, b>>
  <2>1. /\ <<a, b>> \in Seq({a, b, c}) /\ <<c>> \in Seq({a, b, c})
        /\ <<a>> \in Seq({a, b, c}) /\ <<b>> \in Seq({a, b, c})
    OBVIOUS
  <2>2. /\ <<a, b, c>> \in Seq({a, b, c}) /\ <<a, b>> \o <<c>> \in Seq({a, b, c})
        /\ <<a>> \o <<b>> \in Seq({a, b, c})
    BY <2>1, ConcatProperties
  <2>3. /\ Len(<<a, b>> \o <<c>>) = 3 /\ (<<a, b>> \o <<c>>)[1] = a
        /\ (<<a, b>> \o <<c>>)[2] = b /\ (<<a, b>> \o <<c>>)[3] = c
        /\ Len(<<a>> \o <<b>>) = 2 /\ (<<a>> \o <<b>>)[1] = a /\ (<<a>> \o <<b>>)[2] = b
    OBVIOUS
  <2>4. /\ \A k \in 1 .. 3 : (<<a, b>> \o <<c>>)[k] = <<a, b, c>>[k]
        /\ \A k \in 1 .. 2 : (<<a>> \o <<b>>)[k] = <<a, b>>[k]
    BY <2>3
  <2>5. QED
    BY <2>1, <2>2, <2>3, <2>4, SeqEqual, ZenonT(30)
<1>2. ASSUME NEW a, NEW b
      PROVE  <<a>> \o <<>> = <<a>> /\ <<>> \o <<a>> = <<a>> /\ <<a, b>> \o <<>> = <<a, b>>
  <2>1. <<a>> \in Seq({a, b}) /\ <<a, b>> \in Seq({a, b})
    OBVIOUS
  <2>2. QED
    BY <2>1, ConcatEmptySeq
<1>3. QED
  BY <1>1, <1>2

LEMMA TakesFacts ==
  ASSUME NEW spec
  PROVE  /\ DOMAIN Takes(spec) = 1 .. Len(Takes(spec))
         /\ Len(Takes(spec)) = Dyn(spec.width) + Dyn(spec.precision)
                                 + (IF spec.fmt_type = "NONE" THEN 0 ELSE 1)
         /\ \A k \in DOMAIN Takes(spec) :
              /\ Takes(spec)[k] \in {"width", "precision", "value"}
              /\ 8 * (k - 1) = Offset(spec, Takes(spec)[k])
              /\ Takes(spec)[k] = "width" => spec.width = DYNAMIC
              /\ Takes(spec)[k] = "precision" => spec.precision = DYNAMIC
              /\ Takes(spec)[k] = "value" => spec.fmt_type # "NONE" /\ k = Len(Takes(spec))
         /\ spec.fmt_type # "NONE" => Takes(spec)[Len(Takes(spec))] = "value"
<1>1. CASE spec.width = DYNAMIC /\ spec.precision = DYNAMIC /\ spec.fmt_type = "NONE"
  <2>1. Takes(spec) = <<"width", "precision">>
    BY <1>1, ShortConcat DEF Takes
  <2>2. QED
    BY <1>1, <2>1 DEF Offset, Dyn
<1>2. CASE spec.width = DYNAMIC /\ spec.precision = DYNAMIC /\ spec.fmt_type # "NONE"
  <2>1. Takes(spec) = <<"width", "precision", "value">>
    <3>1. Takes(spec) = (<<"width">> \o <<"precision">>) \o <<"value">>
      BY <1>2 DEF Takes
    <3>2. <<"width">> \o <<"precision">> = <<"width", "precision">>
      BY ShortConcat
    <3>3. <<"width", "precision">> \o <<"value">> = <<"width", "precision", "value">>
      BY ShortConcat
    <3>4. QED
      BY <3>1, <3>2, <3>3
  <2>2. QED
    BY <1>2, <2>1 DEF Offset, Dyn
<1>3. CASE spec.width = DYNAMIC /\ spec.precision # DYNAMIC /\ spec.fmt_type = "NONE"
  <2>1. Takes(spec) = <<"width">>
    BY <1>3, ShortConcat DEF Takes
  <2>2. QED
    BY <1>3, <2>1 DEF Offset, Dyn
<1>4. CASE spec.width = DYNAMIC /\ spec.precision # DYNAMIC /\ spec.fmt_type # "NONE"
  <2>1. Takes(spec) = <<"width", "value">>
    BY <1>4, ShortConcat DEF Takes
  <2>2. QED
    BY <1>4, <2>1 DEF Offset, Dyn
<1>5. CASE spec.width # DYNAMIC /\ spec.precision = DYNAMIC /\ spec.fmt_type = "NONE"
  <2>1. Takes(spec) = <<"precision">>
    BY <1>5, ShortConcat DEF Takes
  <2>2. QED
    BY <1>5, <2>1 DEF Offset, Dyn
<1>6. CASE spec.width # DYNAMIC /\ spec.precision = DYNAMIC /\ spec.fmt_type # "NONE"
  <2>1. Takes(spec) = <<"precision", "value">>
    BY <1>6, ShortConcat DEF Takes
  <2>2. QED
    BY <1>6, <2>1 DEF Offset, Dyn
<1>7. CASE spec.width # DYNAMIC /\ spec.precision # DYNAMIC /\ spec.fmt_type = "NONE"
  <2>1. Takes(spec) = <<>>
    BY <1>7, ShortConcat DEF Takes
  <2>2. QED
    BY <1>7, <2>1 DEF Offset, Dyn
<1>8. CASE spec.width # DYNAMIC /\ spec.precision # DYNAMIC /\ spec.fmt_type # "NONE"
  <2>1. Takes(spec) = <<"value">>
    BY <1>8, ShortConcat DEF Takes
  <2>2. QED
    BY <1>8, <2>1 DEF Offset, Dyn
<1>9. QED
  BY <1>1, <1>2, <1>3, <1>4, <1>5, <1>6, <1>7, <1>8

LEMMA SizeFacts ==
  ASSUME NEW spec
  PROVE  /\ Size(spec) \in Nat /\ ParamSize(spec) \in Nat /\ Size(spec) <= ParamSize(spec)
         /\ Size(spec) = IF spec.fmt_type = "NONE" THEN Placeholder * Len(Takes(spec))
                         ELSE Placeholder * (Len(Takes(spec)) - 1) + ValueSize(spec.fmt_type)
         /\ \A r \in Roles(spec) :
              /\ r \in {"width", "precision", "value"}
              /\ Offset(spec, r) \in Nat /\ RoleSize(spec, r) \in Nat \ {0}
              /\ Offset(spec, r) + RoleSize(spec, r) <= Size(spec)
         /\ \A r, t \in Roles(spec) : Offset(spec, r) = Offset(spec, t) => r = t
<1>1. /\ Dyn(spec.width) \in 0 .. 1 /\ Dyn(spec.precision) \in 0 .. 1
      /\ ValueSize(spec.fmt_type) \in {8, 16} /\ Placeholder = 8
  BY DEF Dyn, ValueSize, Placeholder
<1>2. /\ Size(spec) \in Nat /\ ParamSize(spec) \in Nat /\ Size(spec) <= ParamSize(spec)
  BY <1>1 DEF Size, ParamSize, Dyn
<1>3. Size(spec) = IF spec.fmt_type = "NONE" THEN Placeholder * Len(Takes(spec))
                   ELSE Placeholder * (Len(Takes(spec)) - 1) + ValueSize(spec.fmt_type)
  BY <1>1, TakesFacts, SMTT(30) DEF Size
<1>4. \A r \in Roles(spec) :
        /\ r \in {"width", "precision", "value"}
        /\ r = "width" => spec.width = DYNAMIC
        /\ r = "precision" => spec.precision = DYNAMIC
        /\ r = "value" => spec.fmt_type # "NONE"
  BY TakesFacts, ZenonT(30) DEF Roles
<1>5. ASSUME NEW r \in Roles(spec)
      PROVE  /\ Offset(spec, r) \in Nat /\ RoleSize(spec, r) \in Nat \ {0}
             /\ Offset(spec, r) + RoleSize(spec, r) <= Size(spec)
  <2>1. CASE r = "width"
    BY <1>1, <1>4, <2>1 DEF Offset, RoleSize, Size, Dyn
  <2>2. CASE r = "precision"
    BY <1>1, <1>4, <2>2 DEF Offset, RoleSize, Size, Dyn
  <2>3. CASE r = "value"
    BY <1>1, <1>4, <2>3 DEF Offset, RoleSize, Size, Dyn
  <2>4. QED
    BY <1>4, <2>1, <2>2, <2>3
<1>6. ASSUME NEW r \in Roles(spec), NEW t \in Roles(spec), Offset(spec, r) = Offset(spec, t)
      PROVE  r = t
  BY <1>4, <1>6 DEF Offset, Dyn
<1>7. QED
  BY <1>2, <1>3, <1>4, <1>5, <1>6

LEMMA ReadAtFacts ==
  ASSUME p \in Nat, NEW spec
  PROVE  /\ ReadAt(spec).next = p + Size(spec)
         /\ \A r \in Roles(spec) : ReadAt(spec)[r] = p + Offset(spec, r)
<1>1. ReadAt(spec).next = p + Size(spec)
  BY DEF ReadAt, Size, Dyn, Placeholder, ValueSize
<1>2. /\ ReadAt(spec)["width"] = p + Offset(spec, "width")
      /\ ReadAt(spec)["precision"] = p + Offset(spec, "precision")
      /\ ReadAt(spec)["value"] = p + Offset(spec, "value")
  BY DEF ReadAt, Offset, Dyn, Placeholder
<1>3. \A r \in Roles(spec) : r \in {"width", "precision", "value"}
  BY SizeFacts
<1>4. QED
  BY <1>1, <1>2, <1>3

(* What serialize puts down for one entry. *)
LEMMA SlotsFacts ==
  ASSUME p \in Nat, va \in Nat, NEW spec, NEW dyn
  PROVE  /\ \A s \in SlotsOf(spec, dyn) :
              /\ s.conv = i /\ s.role \in Roles(spec) /\ s.at = p + Offset(spec, s.role)
              /\ s.role = "value" /\ spec.fmt_type = "STR" =>
                   /\ s.val = ExtraLen(strs)
                   /\ s.arg = IF Len(strs) >= MaxStrCache THEN 0 ELSE va + Len(Takes(spec))
         /\ \A r \in Roles(spec) : \E s \in SlotsOf(spec, dyn) : s.role = r
<1> DEFINE t == Takes(spec)
           full == spec.fmt_type = "STR" /\ Len(strs) >= MaxStrCache
           slot(k) == [at |-> p + Placeholder * (k - 1), conv |-> i, role |-> t[k],
                       arg |-> IF t[k] = "value" /\ full THEN 0 ELSE va + k,
                       val |-> IF t[k] /= "value" THEN dyn[t[k]]
                               ELSE IF spec.fmt_type = "STR" THEN ExtraLen(strs) ELSE 0]
<1>1. SlotsOf(spec, dyn) = {slot(k) : k \in DOMAIN t}
  BY DEF SlotsOf
<1>2. ASSUME NEW k \in DOMAIN t
      PROVE  /\ slot(k).conv = i /\ slot(k).role = t[k] /\ t[k] \in Roles(spec)
             /\ slot(k).at = p + Offset(spec, t[k])
             /\ t[k] = "value" /\ spec.fmt_type = "STR" =>
                  /\ slot(k).val = ExtraLen(strs)
                  /\ slot(k).arg = IF Len(strs) >= MaxStrCache THEN 0 ELSE va + Len(t)
  <2>1. 8 * (k - 1) = Offset(spec, t[k]) /\ (t[k] = "value" => k = Len(t)) /\ t[k] \in Roles(spec)
    BY TakesFacts DEF Roles
  <2>2. QED
    BY <2>1 DEF Placeholder
<1>3. \A r \in Roles(spec) : \E k \in DOMAIN t : r = t[k]
  BY DEF Roles
<1> HIDE DEF slot, t
<1>4. \A s \in SlotsOf(spec, dyn) : \E k \in DOMAIN t : s = slot(k)
  BY <1>1
<1>5. ASSUME NEW s \in SlotsOf(spec, dyn)
      PROVE  /\ s.conv = i /\ s.role \in Roles(spec) /\ s.at = p + Offset(spec, s.role)
             /\ s.role = "value" /\ spec.fmt_type = "STR" =>
                  /\ s.val = ExtraLen(strs)
                  /\ s.arg = IF Len(strs) >= MaxStrCache THEN 0 ELSE va + Len(t)
  <2>1. PICK k \in DOMAIN t : s = slot(k)
    BY <1>4
  <2>2. QED
    BY <1>2, <2>1
<1>6. ASSUME NEW r \in Roles(spec) PROVE \E s \in SlotsOf(spec, dyn) : s.role = r
  <2>1. PICK k \in DOMAIN t : r = t[k]
    BY <1>3
  <2>2. QED
    BY <1>1, <1>2, <2>1
<1>7. QED
  BY <1>5, <1>6 DEF t

-----------------------------------------------------------------------------
(* serialize and format keep the primitive and stay inside its entries.    *)

LEMMA Serialized ==
  ASSUME Shape, SerializeConv
  PROVE  \E dyn, e :
           /\ slots' = slots \cup SlotsOf(prim.specs[i], dyn)
           /\ IF prim.specs[i].fmt_type # "STR" THEN strs' = strs
              ELSE /\ strs' = Append(strs, e)
                   /\ e.arg = IF Len(strs) >= MaxStrCache THEN 0
                              ELSE va + Len(Takes(prim.specs[i]))
<1> DEFINE spec == prim.specs[i]
           t    == Takes(spec)
           full == Len(strs) >= MaxStrCache
<1>1. PICK dyn \in [{t[k] : k \in DOMAIN t} \ {"value"} -> DynValues],
           len \in IF spec.fmt_type = "STR" /\ ~full THEN StrLens ELSE {0} :
        /\ slots' = slots \cup SlotsOf(spec, dyn)
        /\ IF spec.fmt_type /= "STR"
           THEN va' = va + Len(t) /\ strs' = strs
           ELSE IF full
           THEN strs' = Append(strs, [arg |-> 0, len |-> FullText, copy |-> FullText])
           ELSE LET pr == IF spec.precision = DYNAMIC THEN dyn.precision ELSE spec.precision
                IN  strs' = Append(strs, [arg |-> va + Len(t), len |-> len,
                                          copy |-> CopyLen(spec, pr, len)])
  BY DEF SerializeConv
<1> DEFINE pr == IF spec.precision = DYNAMIC THEN dyn.precision ELSE spec.precision
<1> HIDE DEF t, spec, full, pr
<1>2. CASE spec.fmt_type # "STR"
  BY <1>1, <1>2 DEF spec
<1>3. CASE spec.fmt_type = "STR" /\ full
  <2>1. PICK e : e = [arg |-> 0, len |-> FullText, copy |-> FullText]
    OBVIOUS
  <2>2. e.arg = 0 /\ strs' = Append(strs, e)
    BY <1>1, <1>3, <2>1
  <2>3. QED
    BY <1>1, <1>3, <2>2 DEF spec, full
<1>4. CASE spec.fmt_type = "STR" /\ ~full
  <2>1. PICK e : e = [arg |-> va + Len(t), len |-> len, copy |-> CopyLen(spec, pr, len)]
    OBVIOUS
  <2>2. e.arg = va + Len(t) /\ strs' = Append(strs, e)
    BY <1>1, <1>4, <2>1 DEF pr
  <2>3. QED
    BY <1>1, <1>4, <2>2 DEF spec, full, t
<1>5. QED
  BY <1>2, <1>3, <1>4

LEMMA SerializedCounters ==
  ASSUME Shape, SerializeConv
  PROVE  /\ pc = "serialize" /\ i <= prim.num_params
         /\ p' = p + Size(prim.specs[i]) /\ i' = i + 1 /\ va' \in Nat
         /\ UNCHANGED <<site, pc, err, pos, counted, prim, strings, got, line, text, misread>>
<1> DEFINE spec == prim.specs[i]
           t    == Takes(spec)
<1>1. /\ pc = "serialize" /\ i <= prim.num_params /\ i' = i + 1
      /\ UNCHANGED <<site, pc, err, pos, counted, prim, strings, got, line, text, misread>>
  BY DEF SerializeConv
<1>2. p' = p + (IF spec.fmt_type = "NONE" THEN Placeholder * Len(t)
                ELSE Placeholder * (Len(t) - 1) + ValueSize(spec.fmt_type))
  BY DEF SerializeConv
<1>3. va' = va + Len(t) \/ (spec.fmt_type = "STR" /\ va' = va + Len(t) - 1)
  <2>1. \E dyn, len :
          IF spec.fmt_type /= "STR" THEN va' = va + Len(t) /\ strs' = strs
          ELSE IF Len(strs) >= MaxStrCache
          THEN /\ va' = va + Len(t) - 1
               /\ strs' = Append(strs, [arg |-> 0, len |-> FullText, copy |-> FullText])
          ELSE LET pr == IF spec.precision = DYNAMIC THEN dyn.precision ELSE spec.precision
               IN  /\ va' = va + Len(t)
                   /\ strs' = Append(strs, [arg |-> va + Len(t), len |-> len,
                                            copy |-> CopyLen(spec, pr, len)])
    BY DEF SerializeConv
  <2> HIDE DEF t, spec
  <2>2. QED
    BY <2>1
<1>4. Len(t) \in Nat /\ (spec.fmt_type # "NONE" => Len(t) >= 1)
  <2>1. Len(t) = Dyn(spec.width) + Dyn(spec.precision) + (IF spec.fmt_type = "NONE" THEN 0 ELSE 1)
    BY TakesFacts
  <2>2. Dyn(spec.width) \in 0 .. 1 /\ Dyn(spec.precision) \in 0 .. 1
    BY DEF Dyn
  <2> HIDE DEF t, spec
  <2>3. QED
    BY <2>1, <2>2
<1>5. va' \in Nat
  <2>1. va \in Nat /\ (spec.fmt_type = "STR" => Len(t) >= 1)
    BY <1>4 DEF Shape
  <2> HIDE DEF t, spec
  <2>2. QED
    BY <1>3, <1>4, <2>1
<1>6. p' = p + Size(spec)
  BY <1>2, SizeFacts
<1>7. QED
  BY <1>1, <1>5, <1>6

(* A step that leaves the primitive alone once it is there. *)
LEMMA LaterStep ==
  ASSUME ReadInv, pc \in Read \cup {"size"}, pc' \in Read,
         fmt' = fmt, bufsize' = bufsize, prim' = prim, pos' \in {1, pos},
         i' \in Nat \ {0}, va' \in Nat, p' \in Nat, line' \in Seq(Chars), text' \in Seq(Chars),
         misread' \in BOOLEAN, \E S : strs' \in Seq(S),
         pc' # "done" => i' <= prim.num_params + 1,
         pc' = "tail" => i' <= prim.num_params
  PROVE  ReadInv'
<1>1. Shape /\ Counted /\ Looping /\ Ordered /\ Len(fmt) \in Nat
  BY ShapeFacts DEF ReadInv
<1>2. pos' \in 1 .. Len(fmt') + 1
  BY <1>1, SMTT(30) DEF Shape
<1>3. prim' \in [specs : Seq(SpecSet'), num_params : Nat, num_args : Nat, param_size : Nat]
  BY <1>1, SpecSetKept DEF Shape
<1>4. Shape'
  BY <1>1, <1>2, <1>3 DEF Shape, Read, Phases
<1>5. Counted'
  BY <1>1 DEF Counted, Read
<1>6. Looping'
  BY DEF Looping, Read
<1>7. Ordered'
  <2>1. \A m : TextEnd(m)' = TextEnd(m)
    BY DEF TextEnd
  <2>2. QED
    BY <1>1, <2>1 DEF Ordered, Read
<1>8. QED
  BY <1>4, <1>5, <1>6, <1>7 DEF ReadInv

-----------------------------------------------------------------------------
(* format and its buffer.                                                  *)

LEMMA FcnSeq ==
  ASSUME NEW S, NEW m \in Nat, NEW g \in [1 .. m -> S]
  PROVE  g \in Seq(S) /\ Len(g) = m
OBVIOUS

LEMMA LiteralFacts ==
  ASSUME NEW from \in Nat, NEW to \in Nat, from <= to, NEW r \in Nat
  PROVE  /\ Literal(from, to, r) \in Seq(Chars)
         /\ Len(Literal(from, to, r)) = Least(to - from, r)
         /\ Least(to - from, r) \in Nat
         /\ \A k \in 1 .. Least(to - from, r) : Literal(from, to, r)[k] = <<0, from + k - 1>>
<1>1. Least(to - from, r) \in Nat
  BY DEF Least
<1>2. PICK m \in Nat : m = Least(to - from, r)
  BY <1>1
<1>3. Literal(from, to, r) = [k \in 1 .. m |-> <<0, from + k - 1>>]
  BY <1>2 DEF Literal
<1>4. \A k \in 1 .. m : <<0, from + k - 1>> \in Chars
  BY DEF Chars
<1>5. [k \in 1 .. m |-> <<0, from + k - 1>>] \in [1 .. m -> Chars]
  BY <1>4, Zenon
<1>6. Literal(from, to, r) \in Seq(Chars) /\ Len(Literal(from, to, r)) = m
  <2>1. PICK g : g = Literal(from, to, r)
    OBVIOUS
  <2>2. g \in [1 .. m -> Chars]
    BY <1>3, <1>5, <2>1, Zenon
  <2>3. QED
    BY <2>1, <2>2, FcnSeq
<1>7. \A k \in 1 .. m : Literal(from, to, r)[k] = <<0, from + k - 1>>
  BY <1>3
<1>8. QED
  BY <1>2, <1>6, <1>7

(* Whatever the positions are, no more than r characters are copied. *)
LEMMA LiteralBound ==
  ASSUME NEW from \in Nat, NEW to \in Nat, NEW r \in Nat
  PROVE  /\ Literal(from, to, r) \in Seq(Chars)
         /\ Len(Literal(from, to, r)) \in Nat /\ Len(Literal(from, to, r)) <= r
<1>1. CASE from <= to
  <2>1. Least(to - from, r) \in Nat /\ Least(to - from, r) <= r
    BY <1>1 DEF Least
  <2>2. /\ Literal(from, to, r) \in Seq(Chars)
        /\ Len(Literal(from, to, r)) = Least(to - from, r)
    BY <1>1, LiteralFacts, ZenonT(30)
  <2>3. QED
    BY <2>1, <2>2
<1>2. CASE ~(from <= to)
  <2>1. PICK m \in Int : m = Least(to - from, r) /\ m < 0
    BY <1>2 DEF Least
  <2>2. Literal(from, to, r) = [k \in 1 .. m |-> <<0, from + k - 1>>]
    BY <2>1 DEF Literal
  <2>3. Literal(from, to, r) = <<>>
    BY <2>1, <2>2
  <2>4. QED
    BY <2>3
<1>3. QED
  BY <1>1, <1>2

(* s is what snprintf leaves of n characters of conversion k in r bytes.   *)
Converted(s, k, n, r) ==
  /\ s \in Seq(Chars) /\ Len(s) = Least(n, r) /\ Least(n, r) \in Nat
  /\ \A c \in 1 .. Least(n, r) : s[c] = IF c = r THEN NulByte ELSE <<k, c>>

LEMMA ConversionFacts ==
  ASSUME NEW k \in Nat, NEW n \in Nat, NEW r \in Nat
  PROVE  Converted(Conversion(k, n, r), k, n, r)
<1>1. Least(n, r) \in Nat
  BY DEF Least
<1>2. PICK m \in Nat : m = Least(n, r)
  BY <1>1
<1>3. Conversion(k, n, r) = [c \in 1 .. m |-> IF c = r THEN NulByte ELSE <<k, c>>]
  BY <1>2 DEF Conversion
<1>4. \A c \in 1 .. m : (IF c = r THEN NulByte ELSE <<k, c>>) \in Chars
  BY DEF Chars, NulByte
<1>5. [c \in 1 .. m |-> IF c = r THEN NulByte ELSE <<k, c>>] \in Seq(Chars)
  BY <1>4
<1>6. PICK s : s = Conversion(k, n, r)
  OBVIOUS
<1>7. /\ s \in Seq(Chars) /\ Len(s) = m
      /\ \A c \in 1 .. m : s[c] = IF c = r THEN NulByte ELSE <<k, c>>
  BY <1>3, <1>5, <1>6
<1>8. QED
  BY <1>1, <1>2, <1>6, <1>7, Zenon DEF Converted

LEMMA PrintedFacts ==
  ASSUME NEW k \in Nat, NEW n \in Nat
  PROVE  /\ [c \in 1 .. n |-> <<k, c>>] \in Seq(Chars)
         /\ Len([c \in 1 .. n |-> <<k, c>>]) = n
<1>1. \A c \in 1 .. n : <<k, c>> \in Chars
  BY DEF Chars
<1>2. QED
  BY <1>1

(* Three pieces one behind the other. *)
LEMMA Concat3 ==
  ASSUME NEW a \in Seq(Chars), NEW b \in Seq(Chars), NEW c \in Seq(Chars)
  PROVE  /\ a \o b \o c \in Seq(Chars)
         /\ Len(a \o b \o c) = Len(a) + Len(b) + Len(c)
         /\ \A k \in 1 .. Len(a) : (a \o b \o c)[k] = a[k]
         /\ \A k \in 1 .. Len(b) : (a \o b \o c)[Len(a) + k] = b[k]
         /\ \A k \in 1 .. Len(c) : (a \o b \o c)[Len(a) + Len(b) + k] = c[k]
<1>1. PICK A \in Nat, B \in Nat, C \in Nat : A = Len(a) /\ B = Len(b) /\ C = Len(c)
  BY LenProperties
<1>2. PICK ab : ab = a \o b
  OBVIOUS
<1>3. /\ ab \in Seq(Chars) /\ Len(ab) = A + B
      /\ \A k \in 1 .. A + B : ab[k] = IF k <= A THEN a[k] ELSE b[k - A]
  BY <1>1, <1>2, ConcatProperties
<1>4. /\ ab \o c \in Seq(Chars) /\ Len(ab \o c) = A + B + C
      /\ \A k \in 1 .. A + B + C : (ab \o c)[k] = IF k <= A + B THEN ab[k] ELSE c[k - (A + B)]
  <2>1. /\ ab \o c \in Seq(Chars) /\ Len(ab \o c) = Len(ab) + Len(c)
        /\ \A k \in 1 .. Len(ab) + Len(c) :
             (ab \o c)[k] = IF k <= Len(ab) THEN ab[k] ELSE c[k - Len(ab)]
    BY <1>3, ConcatProperties
  <2>2. QED
    BY <1>1, <1>3, <2>1, Zenon
<1>5. ASSUME NEW k \in 1 .. A PROVE (ab \o c)[k] = a[k]
  <2>1. k \in 1 .. A + B + C /\ k <= A + B /\ k \in 1 .. A + B /\ k <= A
    OBVIOUS
  <2>2. QED
    BY <1>3, <1>4, <2>1
<1>6. ASSUME NEW k \in 1 .. B PROVE (ab \o c)[A + k] = b[k]
  <2>1. /\ A + k \in 1 .. A + B + C /\ A + k <= A + B
        /\ A + k \in 1 .. A + B /\ ~(A + k <= A) /\ (A + k) - A = k
    OBVIOUS
  <2>2. QED
    BY <1>3, <1>4, <2>1
<1>7. ASSUME NEW k \in 1 .. C PROVE (ab \o c)[A + B + k] = c[k]
  <2>1. /\ A + B + k \in 1 .. A + B + C /\ ~(A + B + k <= A + B) /\ (A + B + k) - (A + B) = k
    OBVIOUS
  <2>2. QED
    BY <1>4, <2>1
<1>8. QED
  BY <1>1, <1>2, <1>3, <1>4, <1>5, <1>6, <1>7

(* The bytes a conversion adds to a line that was the text so far: a is    *)
(* both, b is the part that has room of the piece l of the format, c what  *)
(* snprintf leaves of what conversion k prints, o, when that fills the B   *)
(* bytes.                                                                  *)
Fills(a, b, c, l, o, k, B) ==
  /\ Len(a) < B \/ Len(a) = 0
  /\ Len(b) <= Len(l) /\ Len(a) + Len(b) + Len(c) = B
  /\ (Len(c) > 0 => Len(b) = Len(l)) /\ Len(c) <= Len(o)
  /\ \A m \in 1 .. Len(l) : l[m][1] = 0
  /\ \A m \in 1 .. Len(b) : b[m] = l[m]
  /\ \A m \in 1 .. Len(o) : o[m] = <<k, m>>
  /\ \A m \in 1 .. Len(c) : c[m] = IF m = Len(c) THEN NulByte ELSE <<k, m>>

CutAt(ln, tx, B) ==
  /\ Len(ln) = B /\ Len(tx) >= B
  /\ \A m \in 1 .. B : ln[m] = Shown(tx, m, B)

LEMMA Spliced ==
  ASSUME NEW a \in Seq(Chars), NEW b \in Seq(Chars), NEW c \in Seq(Chars),
         NEW l \in Seq(Chars), NEW o \in Seq(Chars), NEW k \in Nat \ {0}, NEW B \in Nat
  PROVE  Fills(a, b, c, l, o, k, B) => CutAt(a \o b \o c, a \o l \o o, B)
<1>0. SUFFICES ASSUME Fills(a, b, c, l, o, k, B) PROVE CutAt(a \o b \o c, a \o l \o o, B)
  OBVIOUS
<1>len. PICK A \in Nat, L \in Nat, O \in Nat, W \in Nat, N \in Nat :
        Len(a) = A /\ Len(b) = L /\ Len(c) = O /\ Len(l) = W /\ Len(o) = N
  BY LenProperties
<1>1. /\ A < B \/ A = 0
      /\ L <= W /\ A + L + O = B /\ (O > 0 => L = W) /\ O <= N
      /\ \A m \in 1 .. W : l[m][1] = 0
      /\ \A m \in 1 .. L : b[m] = l[m]
      /\ \A m \in 1 .. N : o[m] = <<k, m>>
      /\ \A m \in 1 .. O : c[m] = IF m = O THEN NulByte ELSE <<k, m>>
  BY <1>0, <1>len, Zenon DEF Fills
<1>2. Len(a) = A /\ Len(b) = L /\ Len(c) = O /\ Len(l) = W /\ Len(o) = N
  BY <1>len
<1>3. (A < B \/ A = 0) /\ L <= W /\ A + L + O = B /\ (O > 0 => L = W) /\ O <= N
  BY <1>1
<1>4. PICK ln : ln = a \o b \o c
  OBVIOUS
<1>5. PICK tx : tx = a \o l \o o
  OBVIOUS
<1>6. /\ Len(ln) = A + L + O
      /\ \A m \in 1 .. A : ln[m] = a[m]
      /\ \A m \in 1 .. L : ln[A + m] = b[m]
      /\ \A m \in 1 .. O : ln[A + L + m] = c[m]
  <2>1. /\ Len(ln) = Len(a) + Len(b) + Len(c)
        /\ \A m \in 1 .. Len(a) : ln[m] = a[m]
        /\ \A m \in 1 .. Len(b) : ln[Len(a) + m] = b[m]
        /\ \A m \in 1 .. Len(c) : ln[Len(a) + Len(b) + m] = c[m]
    BY <1>4, Concat3, SMTT(30)
  <2>2. QED
    BY <1>2, <2>1, Zenon
<1>7. /\ Len(tx) = A + W + N
      /\ \A m \in 1 .. A : tx[m] = a[m]
      /\ \A m \in 1 .. W : tx[A + m] = l[m]
      /\ \A m \in 1 .. N : tx[A + W + m] = o[m]
  <2>1. /\ Len(tx) = Len(a) + Len(l) + Len(o)
        /\ \A m \in 1 .. Len(a) : tx[m] = a[m]
        /\ \A m \in 1 .. Len(l) : tx[Len(a) + m] = l[m]
        /\ \A m \in 1 .. Len(o) : tx[Len(a) + Len(l) + m] = o[m]
    BY <1>5, Concat3, SMTT(30)
  <2>2. QED
    BY <1>2, <2>1, Zenon
<1>8. Len(ln) = B
  BY <1>3, <1>6
<1>9. Len(tx) >= B
  BY <1>3, <1>7
<1>10. ASSUME NEW m \in 1 .. B
       PROVE  ln[m] = Shown(tx, m, B)
  <2>1. CASE m <= A
    <3>1. m \in 1 .. A /\ m # B
      BY <1>3, <2>1
    <3>2. ln[m] = tx[m]
      BY <1>6, <1>7, <3>1
    <3>3. QED
      BY <3>1, <3>2, Zenon DEF Shown
  <2>2. CASE m > A /\ m <= A + L
    <3>1. PICK x : x = m - A
      OBVIOUS
    <3>2. x \in 1 .. L /\ x \in 1 .. W /\ m = A + x
      BY <1>3, <2>2, <3>1
    <3>3. ln[m] = l[x] /\ tx[m] = l[x] /\ l[x][1] = 0
      BY <1>1, <1>6, <1>7, <3>2
    <3>4. QED
      BY <3>3, Zenon DEF Shown
  <2>3. CASE m > A + L
    <3>1. PICK x : x = m - (A + L)
      OBVIOUS
    <3>2. x \in 1 .. O /\ m = A + L + x /\ O > 0 /\ x \in Nat
      BY <1>3, <2>3, <3>1
    <3>3. L = W /\ x \in 1 .. N
      BY <1>3, <3>2
    <3>4. tx[m] = <<k, x>>
      BY <1>1, <1>7, <3>2, <3>3
    <3>5. ln[m] = IF x = O THEN NulByte ELSE <<k, x>>
      BY <1>1, <1>6, <3>2
    <3>6. x = O <=> m = B
      BY <1>3, <3>2
    <3>7. tx[m][1] # 0
      BY <3>4
    <3>8. QED
      BY <3>4, <3>5, <3>6, <3>7, Zenon DEF Shown
  <2>4. QED
    BY <2>1, <2>2, <2>3
<1>11. QED
  BY <1>4, <1>5, <1>8, <1>9, <1>10, Zenon DEF CutAt

(* What one conversion adds to a line that was the text so far: b and c to *)
(* the line, l and o to the text.                                          *)
Adds(a, B, k, n, from, to, f, b, r, c, l, o) ==
  /\ Len(a) <= B /\ (Len(a) < B \/ Len(a) = 0) /\ from <= to /\ to - from <= f
  /\ b = Literal(from, to, B - Len(a))
  /\ r = B - Len(a) - Len(b)
  /\ c = Conversion(k, n, r)
  /\ l = Literal(from, to, f)
  /\ o = [m \in 1 .. n |-> <<k, m>>]

LEMMA OneConversion ==
  ASSUME NEW a \in Seq(Chars), NEW B \in Nat, NEW k \in Nat \ {0}, NEW n \in Nat,
         NEW from \in Nat, NEW to \in Nat, NEW f \in Nat, NEW b, NEW r, NEW c, NEW l, NEW o
  PROVE  Adds(a, B, k, n, from, to, f, b, r, c, l, o) =>
         /\ a \o b \o c \in Seq(Chars) /\ a \o l \o o \in Seq(Chars)
         /\ ~(r - Len(c) <= 0) => a \o b \o c = a \o l \o o /\ Len(a \o b \o c) < B
         /\ r - Len(c) <= 0 =>
              CutAt(a \o b \o c, a \o l \o o, B)
<1>0. SUFFICES
        ASSUME Len(a) <= B, Len(a) < B \/ Len(a) = 0, from <= to, to - from <= f,
               b = Literal(from, to, B - Len(a)),
               r = B - Len(a) - Len(b),
               c = Conversion(k, n, r),
               l = Literal(from, to, f),
               o = [m \in 1 .. n |-> <<k, m>>]
        PROVE
         /\ a \o b \o c \in Seq(Chars) /\ a \o l \o o \in Seq(Chars)
         /\ ~(r - Len(c) <= 0) => a \o b \o c = a \o l \o o /\ Len(a \o b \o c) < B
         /\ r - Len(c) <= 0 =>
              CutAt(a \o b \o c, a \o l \o o, B)
  BY DEF Adds
<1>1. PICK A \in Nat : A = Len(a) /\ A <= B /\ from <= to /\ to - from <= f
  <2>1. Len(a) <= B /\ from <= to /\ to - from <= f
    BY <1>0
  <2>2. Len(a) \in Nat
    BY LenProperties
  <2>3. QED
    BY <2>1, <2>2
<1>2. PICK W \in Nat : W = to - from
  BY <1>1
<1>3. PICK R \in Nat : R = B - A
  BY <1>1
<1>4. PICK L \in Nat : L = Least(W, R)
  BY DEF Least
<1>5. /\ b \in Seq(Chars) /\ Len(b) = L /\ \A m \in 1 .. L : b[m] = <<0, from + m - 1>>
  <2>1. from <= to /\ b = Literal(from, to, R) /\ L = Least(to - from, R)
    BY <1>0, <1>1, <1>2, <1>3, <1>4
  <2>2. /\ Literal(from, to, R) \in Seq(Chars)
        /\ Len(Literal(from, to, R)) = Least(to - from, R)
        /\ \A m \in 1 .. Least(to - from, R) : Literal(from, to, R)[m] = <<0, from + m - 1>>
    <3>1. from <= to
      BY <1>1
    <3>2. QED
      BY <3>1, LiteralFacts, ZenonT(80)
  <2>3. QED
    BY <2>1, <2>2, Zenon
<1>6. r \in Nat /\ r = B - A - L /\ L <= W /\ L <= R /\ (r > 0 => L = W)
  <2>1. L <= W /\ L <= R /\ (L < R => L = W)
    BY <1>4 DEF Least
  <2>2. r = B - A - L
    BY <1>0, <1>1, <1>5, Zenon
  <2>3. QED
    BY <1>3, <2>1, <2>2
<1>7. /\ l \in Seq(Chars) /\ Len(l) = W /\ \A m \in 1 .. W : l[m] = <<0, from + m - 1>>
  <2>1. Least(to - from, f) = W /\ from <= to
    BY <1>1, <1>2 DEF Least
  <2>2. /\ Literal(from, to, f) \in Seq(Chars)
        /\ Len(Literal(from, to, f)) = Least(to - from, f)
        /\ \A m \in 1 .. Least(to - from, f) : Literal(from, to, f)[m] = <<0, from + m - 1>>
    <3>1. from <= to
      BY <1>1
    <3>2. QED
      BY <3>1, LiteralFacts, ZenonT(60)
  <2>3. l = Literal(from, to, f)
    BY <1>0
  <2>4. QED
    BY <2>1, <2>2, <2>3, Zenon
<1>8. PICK O \in Nat : O = Least(n, r)
  BY <1>6 DEF Least
<1>9. O <= n /\ O <= r /\ (O < r => O = n)
  BY <1>6, <1>8 DEF Least
<1>10. /\ c \in Seq(Chars) /\ Len(c) = O
       /\ \A m \in 1 .. O : c[m] = IF m = r THEN NulByte ELSE <<k, m>>
  <2>1. k \in Nat /\ r \in Nat /\ c = Conversion(k, n, r)
    BY <1>0, <1>6
  <2>2. Converted(c, k, n, r)
    BY <2>1, ConversionFacts, Zenon
  <2>3. QED
    BY <1>8, <2>2, Zenon DEF Converted
<1>11. o \in Seq(Chars) /\ Len(o) = n /\ \A m \in 1 .. n : o[m] = <<k, m>>
  <2>1. k \in Nat /\ o = [m \in 1 .. n |-> <<k, m>>]
    BY <1>0
  <2>2. o \in Seq(Chars) /\ Len(o) = n
    BY <2>1, PrintedFacts, Zenon
  <2>3. QED
    BY <2>1, <2>2
<1>12. a \o b \o c \in Seq(Chars) /\ a \o l \o o \in Seq(Chars)
       /\ Len(a \o b \o c) = A + L + O
  <2>1. a \o b \o c \in Seq(Chars) /\ a \o l \o o \in Seq(Chars)
        /\ Len(a \o b \o c) = Len(a) + Len(b) + Len(c)
    BY <1>5, <1>7, <1>10, <1>11, Concat3, Zenon
  <2>2. QED
    BY <1>1, <1>5, <1>10, <2>1, Zenon
<1>13. ASSUME ~(r - Len(c) <= 0) PROVE a \o b \o c = a \o l \o o /\ Len(a \o b \o c) < B
  <2>1. r > 0 /\ L = W /\ O = n /\ O < r
    <3>1. Len(c) = O
      BY <1>10
    <3>2. QED
      BY <1>6, <1>9, <1>13, <3>1
  <2>2. b = l
    <3>1. Len(b) = Len(l) /\ \A m \in 1 .. Len(b) : b[m] = l[m]
      BY <1>5, <1>7, <2>1
    <3>2. QED
      BY <1>5, <1>7, <3>1, SeqEqual, Zenon
  <2>3. ASSUME NEW m \in 1 .. O PROVE c[m] = o[m]
    <3>1. m # r /\ m \in 1 .. n
      BY <1>6, <2>1
    <3>2. c[m] = <<k, m>>
      BY <1>10, <3>1, Zenon
    <3>3. o[m] = <<k, m>>
      BY <1>11, <3>1, Zenon
    <3>4. QED
      BY <3>2, <3>3, Zenon
  <2>4. c = o
    <3>1. Len(c) = Len(o) /\ \A m \in 1 .. Len(c) : c[m] = o[m]
      BY <1>10, <1>11, <2>1, <2>3
    <3>2. QED
      BY <1>10, <1>11, <3>1, SeqEqual, Zenon
  <2>5. A + L + O < B
    BY <1>6, <2>1
  <2>6. QED
    BY <1>12, <2>2, <2>4, <2>5, Zenon
<1>14. ASSUME r - Len(c) <= 0
       PROVE  CutAt(a \o b \o c, a \o l \o o, B)
  <2>1. r = O /\ A + L + O = B /\ (O > 0 => L = W) /\ L <= W /\ O <= n
    <3>1. Len(c) = O
      BY <1>10
    <3>2. QED
      BY <1>6, <1>9, <1>14, <3>1
  <2>2. ASSUME NEW m \in 1 .. L PROVE b[m] = l[m]
    <3>1. m \in 1 .. W
      BY <2>1
    <3>2. QED
      BY <1>5, <1>7, <3>1, Zenon
  <2>3. \A m \in 1 .. O : c[m] = IF m = O THEN NulByte ELSE <<k, m>>
    BY <1>10, <2>1, Zenon
  <2>4. Len(a) = A
    BY <1>1
  <2>a. ASSUME NEW m \in 1 .. W PROVE l[m][1] = 0
    BY <1>7
  <2>b. Len(a) < B \/ Len(a) = 0
    BY <1>0
  <2>5. Fills(a, b, c, l, o, k, B)
    BY <1>5, <1>7, <1>10, <1>11, <2>1, <2>2, <2>3, <2>4, <2>a, <2>b, Zenon DEF Fills
  <2>6. b \in Seq(Chars) /\ c \in Seq(Chars) /\ l \in Seq(Chars) /\ o \in Seq(Chars)
    BY <1>5, <1>7, <1>10, <1>11
  <2>7. QED
    BY <2>5, <2>6, Spliced, Zenon
<1>15. QED
  BY <1>12, <1>13, <1>14, Zenon

(* The entry format is at and the piece of the format in front of it. *)
LEMMA EntryAt ==
  ASSUME ReadInv, pc \in {"serialize", "format", "size"}, i <= prim.num_params
  PROVE  /\ i \in 1 .. prim.num_params /\ i \in DOMAIN prim.specs /\ prim.specs[i] \in SpecSet
         /\ prim.num_params = Len(prim.specs)
         /\ TextEnd(i - 1) \in Nat /\ prim.specs[i].begin \in Nat
         /\ TextEnd(i - 1) <= prim.specs[i].begin
         /\ prim.specs[i].begin - TextEnd(i - 1) <= Len(fmt)
         /\ FmtEnd(i - 1) \in Nat /\ prim.specs[i].pos_begin \in Nat
         /\ Short => FmtEnd(i - 1) = TextEnd(i - 1) /\ prim.specs[i].pos_begin = prim.specs[i].begin
<1>1. Shape /\ Counted /\ Ordered /\ i \in Nat \ {0} /\ prim.num_params \in Nat
  BY ShapeFacts DEF ReadInv, Shape
<1>2. prim.num_params = Len(prim.specs)
  BY <1>1 DEF Counted, Read
<1>3. i \in 1 .. prim.num_params /\ i - 1 \in 0 .. prim.num_params
  BY <1>1
<1>4. i \in DOMAIN prim.specs /\ prim.specs[i] \in SpecSet
  BY <1>1, <1>2, <1>3, ShapeFacts
<1>5. prim.specs[i].begin \in 1 .. Len(fmt)
  BY <1>1, <1>4, ShapeFacts, SpecPositions
<1>6. TextEnd(i - 1) \in 1 .. Len(fmt) + 1
  BY <1>1, <1>2, <1>3, TextEndType
<1>7. TextEnd(i - 1) <= prim.specs[i].begin
  BY <1>1, <1>4 DEF Ordered
<1>8. Len(fmt) \in Nat
  BY <1>1, ShapeFacts
<1>9. FmtEnd(i - 1) \in Nat /\ (Short => FmtEnd(i - 1) = TextEnd(i - 1))
  BY <1>1, <1>2, <1>3, FmtEndType
<1>10. /\ prim.specs[i].pos_begin \in Nat
       /\ Short => prim.specs[i].pos_begin = prim.specs[i].begin
  BY <1>1, <1>4, ShapeFacts, FieldPositions
<1>11. PICK x, y : x = prim.specs[i].begin /\ y = TextEnd(i - 1)
  OBVIOUS
<1>12. x \in 1 .. Len(fmt) /\ y \in 1 .. Len(fmt) + 1
  BY <1>5, <1>6, <1>11, Zenon
<1>13. x \in Nat /\ y \in Nat /\ x - y <= Len(fmt)
  BY <1>8, <1>12
<1>14. QED
  BY <1>2, <1>3, <1>4, <1>7, <1>9, <1>10, <1>11, <1>13, Zenon

(* The entry, and the pieces of the format in front of it: b goes into the *)
(* line a, l into the text.                                                *)
Piece(spec, a, B, f, b, l) ==
  /\ spec = prim.specs[i] /\ a = line /\ B = bufsize - 1 /\ f = Len(fmt)
  /\ b = Before(i) /\ l = TextBefore(i)
LEMMA PieceFacts ==
  ASSUME ReadInv, Cut, pc = "format", i <= prim.num_params,
         NEW spec, NEW a, NEW B, NEW f, NEW b, NEW l, Piece(spec, a, B, f, b, l)
  PROVE  /\ B \in Nat /\ f \in Nat /\ a \in Seq(Chars) /\ Len(a) \in Nat /\ Len(a) <= B
         /\ b \in Seq(Chars) /\ Len(b) \in Nat /\ Len(a) + Len(b) <= B
         /\ text \in Seq(Chars) /\ l \in Seq(Chars)
<1>1. bufsize \in Nat \ {0} /\ f \in Nat /\ line \in Seq(Chars) /\ text \in Seq(Chars)
  BY ShapeFacts DEF ReadInv, Shape, Piece
<1>2. B \in Nat /\ a \in Seq(Chars) /\ Len(a) \in Nat /\ Len(a) <= B
  BY <1>1 DEF Cut, Piece
<1>3. PICK from, to : from = FmtEnd(i - 1) /\ to = prim.specs[i].pos_begin
  OBVIOUS
<1>4. from \in Nat /\ to \in Nat /\ b = Literal(from, to, B - Len(a))
  BY <1>3, EntryAt DEF Piece, Before
<1>5. b \in Seq(Chars) /\ Len(b) \in Nat /\ Len(b) <= B - Len(a)
  <2>0. PICK A : A = Len(a)
    OBVIOUS
  <2>a. A \in Nat /\ B \in Nat /\ A <= B
    BY <1>2, <2>0, Zenon
  <2>b. B - A \in Nat
    BY <2>a
  <2>1. PICK q \in Nat : q = B - Len(a)
    BY <2>0, <2>b, Zenon
  <2>2. QED
    BY <1>4, <2>1, LiteralBound
<1>6. PICK x, y : x = TextEnd(i - 1) /\ y = prim.specs[i].begin
  OBVIOUS
<1>7. x \in Nat /\ y \in Nat /\ l = Literal(x, y, f)
  BY <1>6, EntryAt DEF Piece, TextBefore
<1>8. l \in Seq(Chars)
  BY <1>1, <1>7, LiteralBound
<1>9. QED
  BY <1>1, <1>2, <1>5, <1>8

LEMMA FormatStep ==
  ASSUME ReadInv, Cut, FormatConv
  PROVE  ReadInv' /\ Cut'
<1>1. /\ pc = "format" /\ i <= prim.num_params
      /\ fmt' = fmt /\ bufsize' = bufsize /\ pos' = pos /\ prim' = prim /\ va' = va /\ strs' = strs
  BY DEF FormatConv, TakeSlots, site
<1>2. PICK spec, a, B, f, b, l : Piece(spec, a, B, f, b, l)
  BY DEF Piece
<1>3. /\ B \in Nat /\ f \in Nat /\ a \in Seq(Chars) /\ Len(a) \in Nat /\ Len(a) <= B
      /\ b \in Seq(Chars) /\ Len(b) \in Nat /\ Len(a) + Len(b) <= B
      /\ text \in Seq(Chars) /\ l \in Seq(Chars)
  BY <1>1, <1>2, PieceFacts
<1>4. i \in 1 .. prim.num_params /\ prim.num_params \in Nat /\ i \in Nat \ {0}
  <2>1. prim.num_params \in Nat
    BY ShapeFacts DEF ReadInv
  <2>2. pc \in {"serialize", "format", "size"}
    BY <1>1
  <2>3. i \in 1 .. prim.num_params
    BY <1>1, <2>2, EntryAt, Zenon
  <2>4. QED
    BY <2>1, <2>3
<1>5. PICK r \in Nat : r = B - Len(a) - Len(b)
  <2>1. PICK A, C : A = Len(a) /\ C = Len(b)
    OBVIOUS
  <2>2. A \in Nat /\ C \in Nat /\ B \in Nat /\ A + C <= B
    BY <1>3, <2>1, Zenon
  <2>3. B - A - C \in Nat
    BY <2>2
  <2>4. QED
    BY <2>1, <2>3, Zenon
<1>6. PICK n \in IF spec.fmt_type = "NONE" THEN {0} ELSE Printed \cap Nat :
        /\ line' = a \o b \o Conversion(i, n, r)
        /\ text' = text \o l \o [c \in 1 .. n |-> <<i, c>>]
        /\ misread' = (misread \/ ArgMissing(spec, ReadAt(spec)))
        /\ p' = ReadAt(spec).next
        /\ IF r - Len(Conversion(i, n, r)) <= 0
           THEN pc' = "tail" /\ i' = i
           ELSE i' = i + 1 /\ pc' = pc
  BY <1>2, <1>5 DEF FormatConv, TakeSlots, Piece
<1>7. n \in Nat
  BY <1>6
<1>8. PICK c, o : c = Conversion(i, n, r) /\ o = [m \in 1 .. n |-> <<i, m>>]
  OBVIOUS
<1>9. line' = a \o b \o c /\ text' = text \o l \o o
  BY <1>6, <1>8, Zenon
<1>10. c \in Seq(Chars) /\ Len(c) \in Nat /\ Len(c) <= r /\ o \in Seq(Chars)
  <2>1. /\ Conversion(i, n, r) \in Seq(Chars) /\ Len(Conversion(i, n, r)) = Least(n, r)
        /\ Least(n, r) \in Nat
    <3>1. Converted(Conversion(i, n, r), i, n, r)
      BY <1>4, <1>7, ConversionFacts
    <3>2. QED
      BY <3>1, Zenon DEF Converted
  <2>2. Least(n, r) <= r
    BY <1>7 DEF Least
  <2>3. o \in Seq(Chars)
    BY <1>4, <1>7, <1>8, PrintedFacts
  <2>4. QED
    BY <1>8, <2>1, <2>2, <2>3
<1>11. line' \in Seq(Chars) /\ text' \in Seq(Chars) /\ Len(line') <= B
  <2>1. a \o b \o c \in Seq(Chars) /\ Len(a \o b \o c) = Len(a) + Len(b) + Len(c)
    <3>1. a \in Seq(Chars) /\ b \in Seq(Chars) /\ c \in Seq(Chars)
      BY <1>3, <1>10
    <3>2. QED
      BY <3>1, Concat3
  <2>2. text \o l \o o \in Seq(Chars)
    <3>1. text \in Seq(Chars) /\ l \in Seq(Chars) /\ o \in Seq(Chars)
      BY <1>3, <1>10
    <3>2. QED
      BY <3>1, Concat3
  <2>3. QED
    BY <1>3, <1>5, <1>9, <1>10, <2>1, <2>2
<1>12. ReadInv'
  <2>1. p' \in Nat
    <3>1. p \in Nat
      BY DEF ReadInv, Shape
    <3>2. ReadAt(spec).next = p + Size(spec) /\ Size(spec) \in Nat
      BY <3>1, SizeFacts, ReadAtFacts
    <3>3. QED
      BY <1>6, <3>1, <3>2
  <2>2. misread' \in BOOLEAN
    BY <1>6, Zenon DEF ReadInv, Shape
  <2>3. /\ pc' \in {"format", "tail"} /\ i' \in Nat \ {0} /\ i' <= prim.num_params + 1
        /\ (pc' = "tail" => i' <= prim.num_params)
    <3>1. (pc' = "tail" /\ i' = i) \/ (i' = i + 1 /\ pc' = pc)
      BY <1>6, Zenon
    <3>2. QED
      BY <1>1, <1>4, <3>1
  <2>4. va' \in Nat /\ (\E S : strs' \in Seq(S)) /\ pos' \in {1, pos}
    BY <1>1 DEF ReadInv, Shape
  <2>5. pc \in Read \cup {"size"} /\ pc' \in Read
    BY <1>1, <2>3 DEF Read
  <2>6. QED
    BY <1>1, <1>11, <2>1, <2>2, <2>3, <2>4, <2>5, LaterStep
<1>13. ASSUME Short, ~misread'
       PROVE  /\ ~(r - Len(c) <= 0) => line' = text' /\ Len(line') < B
              /\ r - Len(c) <= 0 => CutAt(line', text', B)
  <2>1. a = text /\ (Len(a) < B \/ Len(a) = 0)
    <3>1. ~misread
      BY <1>6, <1>13, Zenon
    <3>2. a = text /\ (Len(a) < B \/ a = <<>>)
      BY <1>1, <1>2, <1>13, <3>1 DEF Cut, CutText, Piece
    <3>3. a = <<>> => Len(a) = 0
      OBVIOUS
    <3>4. QED
      BY <3>2, <3>3
  <2>2. PICK from, to : from = TextEnd(i - 1) /\ to = prim.specs[i].begin
    OBVIOUS
  <2>3. from \in Nat /\ to \in Nat /\ from <= to /\ to - from <= f
    BY <1>1, <1>2, <2>2, EntryAt DEF Piece
  <2>4. b = Literal(from, to, B - Len(a))
    <3>1. FmtEnd(i - 1) = from /\ prim.specs[i].pos_begin = to
      BY <1>1, <1>13, <2>2, EntryAt
    <3>2. QED
      BY <1>2, <3>1 DEF Piece, Before
  <2>5. l = Literal(from, to, f)
    BY <1>2, <2>2, Zenon DEF Piece, TextBefore
  <2>6. /\ ~(r - Len(c) <= 0) => a \o b \o c = a \o l \o o /\ Len(a \o b \o c) < B
        /\ r - Len(c) <= 0 => CutAt(a \o b \o c, a \o l \o o, B)
    <3>1. Adds(a, B, i, n, from, to, f, b, r, c, l, o)
      BY <1>3, <1>5, <1>8, <2>1, <2>3, <2>4, <2>5, Zenon DEF Adds
    <3>2. QED
      BY <1>3, <1>4, <1>7, <2>3, <3>1, OneConversion, Zenon
  <2>7. QED
    BY <1>9, <2>1, <2>6
<1>14. Cut'
  <2>1. pc' \in {"format", "tail"} /\ Len(line') <= bufsize' - 1
    BY <1>1, <1>2, <1>6, <1>11 DEF Piece
  <2>2. ASSUME Short', ~misread' PROVE CutText'
    <3>0. Short
      BY <1>1, <2>2 DEF Short
    <3>1. CASE r - Len(c) <= 0
      <4>1. pc' = "tail"
        BY <1>6, <1>8, <3>1
      <4>2. CutAt(line', text', B)
        BY <1>13, <2>2, <3>0, <3>1
      <4>3. DOMAIN line' = 1 .. B
        BY <1>11, <4>2 DEF CutAt
      <4>4. B = bufsize' - 1
        BY <1>1, <1>2 DEF Piece
      <4>5. Same'
        BY <4>2, <4>3, <4>4, Zenon DEF CutAt, Same
      <4>6. QED
        BY <4>1, <4>2, <4>4, <4>5 DEF CutAt, CutText
    <3>2. CASE ~(r - Len(c) <= 0)
      <4>1. pc' = "format"
        BY <1>1, <1>6, <1>8, <3>2
      <4>2. line' = text' /\ Len(line') < B /\ B = bufsize' - 1
        BY <1>1, <1>2, <1>13, <2>2, <3>0, <3>2 DEF Piece
      <4>3. Same'
        <5>1. SUFFICES ASSUME NEW m \in DOMAIN line'
                       PROVE  line'[m] = Shown(text', m, B)
          BY <4>2 DEF Same
        <5>2. m \in 1 .. Len(line') /\ Len(line') \in Nat /\ B \in Nat
          BY <1>3, <1>11, LenProperties
        <5>3. m # B
          BY <4>2, <5>2
        <5>4. QED
          BY <4>2, <5>3, Zenon DEF Shown
      <4>4. QED
        BY <4>1, <4>2, <4>3 DEF CutText
    <3>3. QED
      BY <3>1, <3>2
  <2>3. QED
    BY <2>1, <2>2 DEF Cut, Early
<1>15. QED
  BY <1>12, <1>14

(* A failing snprintf leaves a shorter line, or none. *)
LEMMA FailsStep ==
  ASSUME ReadInv, Cut, FormatFails
  PROVE  ReadInv' /\ Cut'
<1>1. /\ pc = "format" /\ i <= prim.num_params /\ misread' = TRUE
      /\ fmt' = fmt /\ bufsize' = bufsize /\ pos' = pos /\ prim' = prim /\ va' = va /\ strs' = strs
  BY DEF FormatFails, TakeSlots, site
<1>2. PICK spec, a, B, f, b, l : Piece(spec, a, B, f, b, l)
  BY DEF Piece
<1>3. /\ B \in Nat /\ f \in Nat /\ a \in Seq(Chars) /\ Len(a) \in Nat /\ Len(a) <= B
      /\ b \in Seq(Chars) /\ Len(b) \in Nat /\ Len(a) + Len(b) <= B
      /\ text \in Seq(Chars) /\ l \in Seq(Chars)
  BY <1>1, <1>2, PieceFacts
<1>4. i \in 1 .. prim.num_params /\ prim.num_params \in Nat /\ i \in Nat \ {0}
  <2>1. prim.num_params \in Nat
    BY ShapeFacts DEF ReadInv
  <2>2. pc \in {"serialize", "format", "size"}
    BY <1>1
  <2>3. i \in 1 .. prim.num_params
    BY <1>1, <2>2, EntryAt, Zenon
  <2>4. QED
    BY <2>1, <2>3
<1>5. PICK n \in Printed \ Nat, total \in Int :
        /\ total = Len(a) + Len(b) + n
        /\ IF total >= 0
           THEN line' = SubSeq(a \o b, 1, total) /\ i' = i + 1 /\ pc' = pc
           ELSE line' = <<>> /\ pc' = "outside" /\ i' = i
  <2>1. PICK n \in Printed \ Nat :
          LET total == Len(a) + Len(b) + n
          IN  IF total >= 0
              THEN line' = SubSeq(a \o b, 1, total) /\ i' = i + 1 /\ pc' = pc
              ELSE line' = <<>> /\ pc' = "outside" /\ i' = i
    BY <1>2 DEF FormatFails, Piece
  <2>2. Len(a) + Len(b) + n \in Int
    BY <1>3, LineAssumption
  <2>3. QED
    BY <2>1, <2>2
<1>6. p' = ReadAt(spec).next /\ text' = text \o l
  BY <1>2 DEF FormatFails, TakeSlots, Piece
<1>7. n \in Int /\ n < 0
  BY LineAssumption
<1>8. line' \in Seq(Chars) /\ Len(line') <= B
  <2>1. a \o b \in Seq(Chars) /\ Len(a \o b) = Len(a) + Len(b)
    BY <1>3
  <2>2. CASE total >= 0
    <3>1. total \in Nat /\ total <= Len(a \o b)
      BY <1>3, <1>5, <1>7, <2>1, <2>2
    <3>2. PICK w : w = a \o b
      OBVIOUS
    <3>3. w \in Seq(Chars) /\ total \in Nat /\ total <= Len(w) /\ Len(w) \in Nat
      BY <2>1, <3>1, <3>2
    <3>4. SubSeq(w, 1, total) \in Seq(Chars) /\ Len(SubSeq(w, 1, total)) = total
      BY <3>3
    <3>5. line' \in Seq(Chars) /\ Len(line') = total
      BY <1>5, <2>2, <3>2, <3>4
    <3>6. PICK x, W : x = Len(line') /\ W = Len(a \o b)
      OBVIOUS
    <3>7. x = total /\ total \in Nat /\ total <= W /\ W <= B /\ W \in Nat /\ B \in Nat
      BY <1>3, <2>1, <3>1, <3>2, <3>3, <3>5, <3>6, Zenon
    <3>8. x <= B
      BY <3>7
    <3>9. QED
      BY <3>5, <3>6, <3>8, Zenon
  <2>3. CASE ~(total >= 0)
    BY <1>3, <1>5, <2>3
  <2>4. QED
    BY <2>2, <2>3
<1>9. text' \in Seq(Chars)
  BY <1>3, <1>6
<1>10. /\ pc' \in {"format", "outside"} /\ i' \in Nat \ {0} /\ i' <= prim.num_params + 1
  BY <1>1, <1>4, <1>5
<1>11. ReadInv'
  <2>1. p' \in Nat
    <3>1. p \in Nat
      BY DEF ReadInv, Shape
    <3>2. ReadAt(spec).next = p + Size(spec) /\ Size(spec) \in Nat
      BY <3>1, SizeFacts, ReadAtFacts
    <3>3. QED
      BY <1>6, <3>1, <3>2
  <2>2. va' \in Nat /\ (\E S : strs' \in Seq(S)) /\ pos' \in {1, pos} /\ misread' \in BOOLEAN
    BY <1>1 DEF ReadInv, Shape
  <2>3. pc \in Read \cup {"size"} /\ pc' \in Read /\ pc' # "tail"
    BY <1>1, <1>10 DEF Read
  <2>4. QED
    BY <1>1, <1>8, <1>9, <1>10, <2>1, <2>2, <2>3, LaterStep
<1>12. Cut'
  <2>1. Len(line') <= bufsize' - 1
    BY <1>1, <1>2, <1>8 DEF Piece
  <2>2. QED
    BY <1>1, <1>10, <2>1 DEF Cut, Early
<1>13. QED
  BY <1>11, <1>12

LEMMA WrappedStep ==
  ASSUME ReadInv, Cut, FormatWrapped
  PROVE  ReadInv' /\ Cut'
<1>1. /\ pc = "format" /\ i <= prim.num_params /\ line' = <<>> /\ pc' = "outside"
      /\ fmt' = fmt /\ bufsize' = bufsize /\ pos' = pos /\ prim' = prim /\ va' = va /\ strs' = strs
      /\ i' = i /\ p' = p /\ text' = text /\ misread' = misread
  BY DEF FormatWrapped, site
<1>2. bufsize \in Nat \ {0} /\ prim.num_params \in Nat
  BY ShapeFacts DEF ReadInv
<1>3. ReadInv'
  <2>1. /\ i' \in Nat \ {0} /\ va' \in Nat /\ p' \in Nat /\ misread' \in BOOLEAN
        /\ (\E S : strs' \in Seq(S)) /\ pos' \in {1, pos}
        /\ line' \in Seq(Chars) /\ text' \in Seq(Chars)
    BY <1>1 DEF ReadInv, Shape
  <2>2. pc \in Read \cup {"size"} /\ pc' \in Read /\ pc' # "tail" /\ i' <= prim.num_params + 1
    BY <1>1, <1>2, <2>1 DEF Read
  <2>3. QED
    BY <1>1, <2>1, <2>2, LaterStep
<1>4. Cut'
  <2>1. Len(line') = 0
    BY <1>1
  <2>2. ~Short'
    <3>1. SUFFICES ASSUME Short PROVE FALSE
      BY <1>1 DEF Short
    <3>2. PICK s : s = prim.specs[i]
      OBVIOUS
    <3>3. fmt \in Seq(STRING) /\ Len(fmt) \in Nat /\ s \in SpecSet
      BY <1>1, <3>2, ShapeFacts, EntryAt DEF ReadInv
    <3>4. s.pos_begin = s.begin /\ s.pos_end = s.next
      BY <3>1, <3>3, FieldPositions
    <3>5. s.begin \in 1 .. Len(fmt) /\ s.next \in (s.begin + 1) .. Len(fmt) + 1
      BY <3>3, SpecPositions
    <3>6. s.pos_end < s.pos_begin
      BY <3>2 DEF FormatWrapped
    <3>7. QED
      BY <3>3, <3>4, <3>5, <3>6
  <2>3. QED
    BY <1>1, <1>2, <2>1, <2>2 DEF Cut, Early
<1>5. QED
  BY <1>3, <1>4

(* What the text behind the last conversion adds: b to the line a, l to    *)
(* the text t.                                                             *)
Ends(a, t, B, from, to, f, b, l) ==
  /\ Len(a) <= B /\ from <= to /\ to - from <= f
  /\ a = t \/ (Len(a) = B /\ Len(t) >= B)
  /\ \A m \in 1 .. Len(a) : a[m] = Shown(t, m, B)
  /\ b = Literal(from, to, B - Len(a))
  /\ l = Literal(from, to, f)

WholeOrCut(ln, tx, B) ==
  /\ Len(ln) = Least(Len(tx), B)
  /\ \A m \in 1 .. Len(ln) : ln[m] = Shown(tx, m, B)

LEMMA LastPiece ==
  ASSUME NEW a \in Seq(Chars), NEW t \in Seq(Chars), NEW B \in Nat,
         NEW from \in Nat, NEW to \in Nat, NEW f \in Nat, NEW b, NEW l
  PROVE  Ends(a, t, B, from, to, f, b, l) =>
         a \o b \in Seq(Chars) /\ t \o l \in Seq(Chars) /\ WholeOrCut(a \o b, t \o l, B)
<1>1. SUFFICES ASSUME Ends(a, t, B, from, to, f, b, l)
               PROVE  /\ a \o b \in Seq(Chars) /\ t \o l \in Seq(Chars)
                      /\ WholeOrCut(a \o b, t \o l, B)
  OBVIOUS
<1>2. PICK A \in Nat, T \in Nat : A = Len(a) /\ T = Len(t)
  BY LenProperties
<1>3. /\ A <= B /\ from <= to /\ to - from <= f /\ (A < B => a = t)
      /\ (a = t \/ (A = B /\ T >= B))
  <2>1. /\ Len(a) <= B /\ from <= to /\ to - from <= f
        /\ (a = t \/ (Len(a) = B /\ Len(t) >= B))
    BY <1>1 DEF Ends
  <2>2. QED
    BY <1>2, <2>1
<1>4. a = t => A = T
  BY <1>2
<1>5. PICK W \in Nat, R \in Nat : W = to - from /\ R = B - A
  BY <1>3
<1>6. PICK L \in Nat : L = Least(W, R)
  BY DEF Least
<1>7. /\ b \in Seq(Chars) /\ Len(b) = L /\ \A m \in 1 .. L : b[m] = <<0, from + m - 1>>
  <2>1. b = Literal(from, to, R) /\ L = Least(to - from, R)
    BY <1>1, <1>2, <1>5, <1>6 DEF Ends
  <2>2. /\ Literal(from, to, R) \in Seq(Chars)
        /\ Len(Literal(from, to, R)) = Least(to - from, R)
        /\ \A m \in 1 .. Least(to - from, R) : Literal(from, to, R)[m] = <<0, from + m - 1>>
    <3>1. from <= to
      BY <1>3
    <3>2. QED
      BY <3>1, LiteralFacts, ZenonT(30)
  <2>3. QED
    BY <2>1, <2>2, Zenon
<1>8. /\ l \in Seq(Chars) /\ Len(l) = W /\ \A m \in 1 .. W : l[m] = <<0, from + m - 1>>
  <2>1. Least(to - from, f) = W /\ from <= to
    BY <1>3, <1>5 DEF Least
  <2>2. /\ Literal(from, to, f) \in Seq(Chars)
        /\ Len(Literal(from, to, f)) = Least(to - from, f)
        /\ \A m \in 1 .. Least(to - from, f) : Literal(from, to, f)[m] = <<0, from + m - 1>>
    <3>1. from <= to
      BY <1>3
    <3>2. QED
      BY <3>1, LiteralFacts, ZenonT(30)
  <2>3. l = Literal(from, to, f)
    BY <1>1 DEF Ends
  <2>4. QED
    BY <2>1, <2>2, <2>3, Zenon
<1>9. PICK ln : ln = a \o b
  OBVIOUS
<1>10. PICK tx : tx = t \o l
  OBVIOUS
<1>11. /\ ln \in Seq(Chars) /\ Len(ln) = A + L
       /\ \A m \in 1 .. A + L : ln[m] = IF m <= A THEN a[m] ELSE b[m - A]
  BY <1>2, <1>7, <1>9, ConcatProperties
<1>12. /\ tx \in Seq(Chars) /\ Len(tx) = T + W
       /\ \A m \in 1 .. T + W : tx[m] = IF m <= T THEN t[m] ELSE l[m - T]
  BY <1>2, <1>8, <1>10, ConcatProperties
<1>13. L <= W /\ (A = B => L = 0) /\ A + L = Least(T + W, B) /\ A + L <= T + W /\ A <= T
  BY <1>3, <1>4, <1>5, <1>6 DEF Least
<1>14. ASSUME NEW m \in 1 .. A + L
       PROVE  ln[m] = Shown(tx, m, B)
  <2>1. m \in 1 .. T + W
    BY <1>13
  <2>2. CASE m <= A
    <3>1. m \in 1 .. Len(a) /\ m <= T
      BY <1>2, <1>13, <2>2
    <3>2. a[m] = Shown(t, m, B)
      BY <1>1, <3>1 DEF Ends
    <3>3. ln[m] = a[m] /\ tx[m] = t[m]
      BY <1>11, <1>12, <2>1, <2>2, <3>1
    <3>4. QED
      BY <3>2, <3>3, Zenon DEF Shown
  <2>3. CASE m > A
    <3>1. A = T /\ m - A \in 1 .. L /\ m - A \in 1 .. W /\ ~(m <= A)
      BY <1>3, <1>4, <1>13, <2>3
    <3>2. ln[m] = b[m - A] /\ tx[m] = l[m - A]
      BY <1>11, <1>12, <2>1, <3>1
    <3>a. PICK x \in 1 .. L : x = m - A /\ x \in 1 .. W
      BY <3>1
    <3>b. b[x] = <<0, from + x - 1>> /\ l[x] = <<0, from + x - 1>>
      BY <1>7, <1>8, <3>a, Zenon
    <3>c. l[x][1] = 0
      BY <3>b
    <3>3. b[m - A] = l[m - A] /\ l[m - A][1] = 0
      BY <3>a, <3>b, <3>c, Zenon
    <3>4. ln[m] = tx[m] /\ tx[m][1] = 0
      BY <3>2, <3>3
    <3>5. QED
      BY <3>4, Zenon DEF Shown
  <2>4. QED
    BY <2>2, <2>3
<1>15. Len(ln) = Least(Len(tx), B)
  BY <1>11, <1>12, <1>13
<1>16. \A m \in 1 .. Len(ln) : ln[m] = Shown(tx, m, B)
  BY <1>11, <1>14
<1>17. QED
  BY <1>9, <1>10, <1>11, <1>12, <1>15, <1>16, Zenon DEF WholeOrCut

LEMMA TailStep ==
  ASSUME ReadInv, Cut, FormatTail
  PROVE  ReadInv' /\ Cut'
<1>1. /\ pc \in {"tail", "format"} /\ pc' = "done"
      /\ fmt' = fmt /\ bufsize' = bufsize /\ pos' = pos /\ prim' = prim /\ i' = i /\ va' = va
      /\ p' = p /\ strs' = strs /\ misread' = misread
  BY DEF FormatTail, site
<1>2. PICK j : j = IF pc = "tail" THEN i ELSE prim.num_params
  OBVIOUS
<1>3. j \in 0 .. Len(prim.specs)
  <2>1. prim.num_params \in Nat /\ prim.num_params = Len(prim.specs) /\ i \in Nat
        /\ (pc = "tail" => i <= prim.num_params)
    BY <1>1, ShapeFacts DEF ReadInv, Shape, Counted, Looping, Read
  <2>2. QED
    BY <1>2, <2>1
<1>4. PICK from, to, f, B : from = TextEnd(j) /\ to = Len(fmt) + 1 /\ f = Len(fmt) /\ B = bufsize - 1
  OBVIOUS
<1>5. from \in Nat /\ to \in Nat /\ f \in Nat /\ B \in Nat /\ from <= to /\ to - from <= f
  <2>1. Len(fmt) \in Nat /\ bufsize \in Nat \ {0}
    BY ShapeFacts DEF ReadInv
  <2>2. TextEnd(j) \in 1 .. Len(fmt) + 1
    BY <1>3, TextEndType DEF ReadInv
  <2>3. QED
    BY <1>4, <2>1, <2>2
<1>6. PICK a, t : a = line /\ t = text
  OBVIOUS
<1>7. a \in Seq(Chars) /\ t \in Seq(Chars) /\ Len(a) \in Nat /\ Len(a) <= B
  <2>1. a \in Seq(Chars) /\ t \in Seq(Chars)
    BY <1>6 DEF ReadInv, Shape
  <2>2. Len(a) <= B
    BY <1>4, <1>6 DEF Cut
  <2>3. QED
    BY <2>1, <2>2
<1>8. PICK b, l : b = Literal(FmtEnd(j), to, B - Len(a)) /\ l = Literal(from, to, f)
  OBVIOUS
<1>9. line' = a \o b /\ text' = t \o l
  <2>1. line' = line \o Literal(FmtEnd(j), Len(fmt) + 1, bufsize - 1 - Len(line))
        /\ text' = text \o Literal(TextEnd(j), Len(fmt) + 1, Len(fmt))
    BY <1>2 DEF FormatTail
  <2>2. QED
    BY <1>4, <1>6, <1>8, <2>1, Zenon
<1>10. b \in Seq(Chars) /\ Len(b) \in Nat /\ Len(b) <= B - Len(a) /\ l \in Seq(Chars)
  <2>1. FmtEnd(j) \in Nat
    BY <1>3, FmtEndType DEF ReadInv
  <2>2. PICK q \in Nat : q = B - Len(a)
    BY <1>5, <1>7
  <2>3. b = Literal(FmtEnd(j), to, q)
    BY <1>8, <2>2, Zenon
  <2>4. b \in Seq(Chars) /\ Len(b) \in Nat /\ Len(b) <= q
    BY <1>5, <2>1, <2>3, LiteralBound
  <2>5. l \in Seq(Chars)
    BY <1>5, <1>8, LiteralBound
  <2>6. QED
    BY <2>2, <2>4, <2>5
<1>11. line' \in Seq(Chars) /\ text' \in Seq(Chars) /\ Len(line') <= B
  <2>1. PICK A, C : A = Len(a) /\ C = Len(b)
    OBVIOUS
  <2>2. Len(a \o b) = A + C
    BY <1>7, <1>10, <2>1
  <2>3. A \in Nat /\ C \in Nat /\ B \in Nat /\ C <= B - A
    BY <1>5, <1>7, <1>10, <2>1, Zenon
  <2>4. A + C <= B
    BY <2>3
  <2>5. a \o b \in Seq(Chars) /\ t \o l \in Seq(Chars)
    BY <1>7, <1>10
  <2>6. QED
    BY <1>9, <2>2, <2>4, <2>5
<1>12. ReadInv'
  <2>1. /\ i' \in Nat \ {0} /\ va' \in Nat /\ p' \in Nat /\ misread' \in BOOLEAN
        /\ (\E S : strs' \in Seq(S)) /\ pos' \in {1, pos}
    BY <1>1 DEF ReadInv, Shape
  <2>2. pc \in Read \cup {"size"} /\ pc' \in Read /\ pc' = "done"
    BY <1>1 DEF Read
  <2>3. QED
    BY <1>1, <1>11, <2>1, <2>2, LaterStep
<1>13. ASSUME Short, ~misread PROVE WholeOrCut(line', text', B)
  <2>1. Len(a) \in Nat /\ DOMAIN a = 1 .. Len(a)
    BY <1>7, LenProperties
  <2>2. CutText
    BY <1>13 DEF Cut
  <2>3. a = t \/ (Len(a) = B /\ Len(t) >= B)
    BY <1>1, <1>4, <1>6, <2>2 DEF CutText
  <2>4. \A m \in 1 .. Len(a) : a[m] = Shown(t, m, B)
    BY <1>4, <1>6, <2>1, <2>2, Zenon DEF CutText, Same
  <2>5. b = Literal(from, to, B - Len(a))
    <3>1. FmtEnd(j) = from
      BY <1>3, <1>4, <1>13, FmtEndType DEF ReadInv
    <3>2. QED
      BY <1>8, <3>1
  <2>6. Ends(a, t, B, from, to, f, b, l)
    BY <1>5, <1>7, <1>8, <2>3, <2>4, <2>5, Zenon DEF Ends
  <2>7. WholeOrCut(a \o b, t \o l, B)
    BY <1>5, <1>7, <2>6, LastPiece, Zenon
  <2>8. QED
    BY <1>9, <2>7
<1>14. Cut'
  <2>1. Len(line') <= bufsize' - 1
    BY <1>1, <1>4, <1>11
  <2>2. ASSUME Short', ~misread' PROVE CutText'
    <3>1. WholeOrCut(line', text', B)
      BY <1>1, <1>13, <2>2 DEF Short
    <3>2. DOMAIN line' = 1 .. Len(line')
      BY <1>11, LenProperties
    <3>3. Same'
      BY <1>1, <1>4, <3>1, <3>2, Zenon DEF Same, WholeOrCut
    <3>4. QED
      BY <1>1, <1>4, <3>1, <3>3 DEF CutText, WholeOrCut
  <2>3. QED
    BY <1>1, <2>1, <2>2 DEF Cut, Early
<1>15. QED
  BY <1>12, <1>14

(* The line is empty until format begins. *)
LEMMA NoLineYet ==
  ASSUME ReadInv, Cut, pc \in Early, pc' \in Early \cup {"format"},
         line' = line, text' = text, bufsize' = bufsize
  PROVE  Cut'
<1>1. line = <<>> /\ text = <<>> /\ bufsize \in Nat \ {0}
  BY ShapeFacts DEF Cut, Early, ReadInv
<1>2. Len(line') = 0 /\ DOMAIN line' = {}
  BY <1>1
<1>3. Same'
  BY <1>2 DEF Same
<1>4. CutText'
  BY <1>1, <1>3 DEF CutText, Early
<1>5. QED
  BY <1>1, <1>2, <1>4 DEF Cut, Early

LEMMA SizeStep ==
  ASSUME ReadInv, Cut, SetParamSize
  PROVE  ReadInv' /\ Cut'
<1>1. /\ pc = "size" /\ fmt' = fmt /\ bufsize' = bufsize /\ pos' = pos /\ va' = va /\ err' = err
      /\ p' = p /\ strs' = strs /\ misread' = misread /\ line' = line /\ text' = text
  BY DEF SetParamSize, site
<1>2. /\ Shape /\ i \in Nat \ {0} /\ prim.num_params \in Nat /\ va \in Nat /\ p \in Nat
      /\ line \in Seq(Chars) /\ text \in Seq(Chars) /\ misread \in BOOLEAN
      /\ (\E S : strs \in Seq(S))
      /\ prim \in [specs : Seq(SpecSet), num_params : Nat, num_args : Nat, param_size : Nat]
  BY DEF ReadInv, Shape
<1>3. CASE i <= prim.num_params
  <2>1. /\ prim' = [prim EXCEPT !.param_size = @ + ParamSize(prim.specs[i])]
        /\ i' = i + 1 /\ pc' = pc
    BY <1>3 DEF SetParamSize
  <2>2. ParamSize(prim.specs[i]) \in Nat
    BY SizeFacts
  <2>3. /\ prim'.specs = prim.specs /\ prim'.num_params = prim.num_params
        /\ prim' \in [specs : Seq(SpecSet'), num_params : Nat, num_args : Nat, param_size : Nat]
    <3>1. prim.param_size + ParamSize(prim.specs[i]) \in Nat
      BY <1>2, <2>2
    <3>2. PICK x \in Nat : x = prim.param_size + ParamSize(prim.specs[i])
      BY <3>1
    <3>3. prim' = [prim EXCEPT !.param_size = x]
      BY <2>1, <3>2
    <3>4. SpecSet' = SpecSet
      BY <1>1, SpecSetKept
    <3>5. QED
      BY <1>2, <3>3, <3>4
  <2>4. i' \in Nat \ {0} /\ i' <= prim.num_params + 1
    BY <1>2, <1>3, <2>1
  <2>5. Shape'
    BY <1>1, <1>2, <2>1, <2>3, <2>4 DEF Shape
  <2>6. Counted'
    BY <1>1, <2>1, <2>3 DEF ReadInv, Counted, Read
  <2>7. Looping'
    BY <1>1, <2>1, <2>3, <2>4 DEF Looping
  <2>8. Ordered'
    <3>1. \A m : TextEnd(m)' = TextEnd(m)
      BY <2>3 DEF TextEnd
    <3>2. QED
      BY <1>1, <2>1, <2>3, <3>1 DEF ReadInv, Ordered
  <2>9. Cut'
    BY <1>1, <2>1, NoLineYet DEF Early
  <2>10. QED
    BY <2>5, <2>6, <2>7, <2>8, <2>9 DEF ReadInv
<1>4. CASE ~(i <= prim.num_params)
  <2>1. pc' = "serialize" /\ i' = 1 /\ prim' = prim
    BY <1>4 DEF SetParamSize
  <2>2. ReadInv'
    <3>1. pc \in Read \cup {"size"} /\ pc' \in Read /\ pc' = "serialize" /\ pos' \in {1, pos}
      BY <1>1, <2>1 DEF Read
    <3>2. i' \in Nat \ {0} /\ i' <= prim.num_params + 1
      BY <1>2, <2>1
    <3>3. QED
      BY <1>1, <1>2, <2>1, <3>1, <3>2, LaterStep
  <2>3. Cut'
    BY <1>1, <2>1, NoLineYet DEF Early
  <2>4. QED
    BY <2>2, <2>3
<1>5. QED
  BY <1>3, <1>4

LEMMA SerializeStep ==
  ASSUME ReadInv, Cut, SerializeConv
  PROVE  ReadInv' /\ Cut'
<1>1. /\ pc = "serialize" /\ i <= prim.num_params
      /\ p' = p + Size(prim.specs[i]) /\ i' = i + 1 /\ va' \in Nat
      /\ fmt' = fmt /\ bufsize' = bufsize /\ pos' = pos /\ pc' = pc /\ prim' = prim
      /\ line' = line /\ text' = text /\ misread' = misread
  BY SerializedCounters DEF ReadInv, site
<1>2. i \in Nat \ {0} /\ p \in Nat /\ prim.num_params \in Nat /\ Size(prim.specs[i]) \in Nat
  BY SizeFacts DEF ReadInv, Shape
<1>3. p' \in Nat /\ i' \in Nat \ {0} /\ i' <= prim.num_params + 1
  BY <1>1, <1>2
<1>4. \E S : strs' \in Seq(S)
  <2>1. PICK S : strs \in Seq(S)
    BY DEF ReadInv, Shape
  <2>2. PICK e : strs' = strs \/ strs' = Append(strs, e)
    <3>1. Shape
      BY DEF ReadInv
    <3>2. PICK dyn, e : IF prim.specs[i].fmt_type # "STR" THEN strs' = strs
                        ELSE strs' = Append(strs, e)
      BY <3>1, Serialized, Zenon
    <3>3. QED
      BY <3>2
  <2>3. strs \in Seq(S \cup {e})
    BY <2>1, SeqMonotonic
  <2>4. strs' \in Seq(S \cup {e})
    BY <2>2, <2>3
  <2>5. QED
    BY <2>4
<1>5. ReadInv'
  <2>1. pc \in Read \cup {"size"} /\ pc' \in Read /\ pc' = "serialize" /\ pos' \in {1, pos}
    BY <1>1 DEF Read
  <2>2. line' \in Seq(Chars) /\ text' \in Seq(Chars) /\ misread' \in BOOLEAN
    BY <1>1 DEF ReadInv, Shape
  <2>3. QED
    BY <1>1, <1>3, <1>4, <2>1, <2>2, LaterStep
<1>6. Cut'
  BY <1>1, NoLineYet DEF Early
<1>7. QED
  BY <1>5, <1>6

LEMMA CopyStep ==
  ASSUME ReadInv, Cut, CopyStrings
  PROVE  ReadInv' /\ Cut'
<1>1. /\ pc = "serialize" /\ pc' = "format" /\ i' = 1 /\ p' = 0
      /\ fmt' = fmt /\ bufsize' = bufsize /\ pos' = pos /\ prim' = prim /\ va' = va
      /\ strs' = strs /\ line' = line /\ text' = text /\ misread' = misread
  BY DEF CopyStrings, site
<1>2. ReadInv'
  <2>1. pc \in Read \cup {"size"} /\ pc' \in Read /\ pos' \in {1, pos}
    BY <1>1 DEF Read
  <2>2. /\ line' \in Seq(Chars) /\ text' \in Seq(Chars) /\ misread' \in BOOLEAN
        /\ (\E S : strs' \in Seq(S)) /\ va' \in Nat /\ p' \in Nat
    BY <1>1 DEF ReadInv, Shape
  <2>3. i' \in Nat \ {0} /\ i' <= prim.num_params + 1
    BY <1>1, ShapeFacts DEF ReadInv
  <2>4. QED
    BY <1>1, <2>1, <2>2, <2>3, LaterStep
<1>3. Cut'
  BY <1>1, NoLineYet DEF Early
<1>4. QED
  BY <1>2, <1>3

LEMMA NextCallStep ==
  ASSUME ReadInv, Cut, NextCall
  PROVE  ReadInv' /\ Cut'
<1>1. /\ pc \in {"done", "outside", "failed"}
      /\ pc' = (IF pc = "failed" THEN "count" ELSE "serialize")
      /\ pos' = 1 /\ err' = "ok" /\ i' = 1 /\ va' = 0 /\ p' = 0
      /\ strs' = <<>> /\ line' = <<>> /\ text' = <<>> /\ misread' = FALSE
      /\ fmt' = fmt /\ bufsize' = bufsize /\ prim' = prim
  BY DEF NextCall, site
<1>2. /\ line' \in Seq(Chars) /\ text' \in Seq(Chars) /\ misread' \in BOOLEAN
      /\ (\E S : strs' \in Seq(S)) /\ va' \in Nat /\ p' \in Nat /\ i' \in Nat \ {0}
  <2>1. <<>> \in Seq(Chars)
    OBVIOUS
  <2>2. line' \in Seq(Chars) /\ text' \in Seq(Chars) /\ misread' \in BOOLEAN
    BY <1>1, <2>1
  <2>3. \E S : strs' \in Seq(S)
    BY <1>1, <2>1
  <2>4. QED
    BY <1>1, <2>2, <2>3
<1>3. Cut'
  <2>1. DOMAIN line' = {}
    BY <1>1
  <2>2. Same'
    BY <2>1 DEF Same
  <2>3. CutText'
    BY <1>1, <2>2 DEF CutText
  <2>4. Len(line') = 0 /\ bufsize' \in Nat \ {0}
    BY <1>1, ShapeFacts DEF ReadInv
  <2>5. QED
    BY <1>1, <2>3, <2>4 DEF Cut
<1>4. CASE pc # "failed"
  <2>1. pc \in Read \cup {"size"} /\ pc' = "serialize" /\ pc' \in Read /\ pos' \in {1, pos}
    BY <1>1, <1>4 DEF Read
  <2>2. i' <= prim.num_params + 1
    BY <1>1, ShapeFacts DEF ReadInv
  <2>3. ReadInv'
    BY <1>1, <1>2, <2>1, <2>2, LaterStep
  <2>4. QED
    BY <1>3, <2>3
<1>5. CASE pc = "failed"
  <2>1. prim = NoPrimitive /\ pc' = "count"
    BY <1>1, <1>5 DEF ReadInv, Counted
  <2>2. prim'.specs = <<>> /\ prim'.num_params = 0 /\ prim'.param_size = 0
    BY <1>1, <2>1 DEF NoPrimitive
  <2>3. Len(fmt) \in Nat /\ fmt \in Formats /\ bufsize \in BufSizes
    BY ShapeFacts DEF ReadInv, Shape
  <2>4. prim' \in [specs : Seq(SpecSet'), num_params : Nat, num_args : Nat, param_size : Nat]
    BY <1>1, SpecSetKept DEF ReadInv, Shape
  <2>5. pos' \in 1 .. Len(fmt') + 1
    BY <1>1, <2>3
  <2>6. Shape'
    BY <1>1, <1>2, <2>1, <2>3, <2>4, <2>5 DEF Shape, Phases
  <2>7. Counted'
    <3>1. PICK q : q = [m \in 0 .. 0 |-> 1]
      OBVIOUS
    <3>2. q \in [0 .. 0 -> 1 .. Len(fmt') + 1] /\ q[0] = 1
      BY <1>1, <2>3, <3>1
    <3>3. Rounds(q, 0)'
      BY <3>2 DEF Rounds
    <3>4. QED
      BY <1>1, <2>1, <2>2, <3>2, <3>3 DEF Counted, Read
  <2>8. Looping' /\ Ordered'
    BY <1>1, <2>1, <2>2 DEF Looping, Ordered
  <2>9. QED
    BY <1>3, <2>6, <2>7, <2>8 DEF ReadInv
<1>6. QED
  BY <1>1, <1>4, <1>5

-----------------------------------------------------------------------------
(* The const arguments and what format takes of them.                      *)

(* The const arguments: w holds where the sizes of the first entries end,  *)
(* o where serialize, which may use less of them, ends.                    *)
Widths(w, n) ==
  /\ w \in [1 .. n -> Nat] /\ w[1] = 0
  /\ \A k \in 1 .. n - 1 : w[k + 1] = w[k] + ParamSize(prim.specs[k])
  /\ \A k, m \in 1 .. n : k <= m => w[k] <= w[m]

Offsets(o, n) ==
  /\ o \in [1 .. n -> Nat] /\ o[1] = 0
  /\ \A k \in 1 .. n - 1 : o[k + 1] = o[k] + Size(prim.specs[k])
  /\ \A k, m \in 1 .. n : k <= m => o[k] <= o[m]

(* The slots of the first n entries lie there, each role of each entry     *)
(* has one, and the cursor is between two entries.                         *)
Placed(o, n) ==
  /\ \A s \in slots :
       /\ s.conv \in 1 .. n - 1 /\ s.role \in Roles(prim.specs[s.conv])
       /\ s.at = o[s.conv] + Offset(prim.specs[s.conv], s.role)
  /\ \A k \in 1 .. n - 1 : \A r \in Roles(prim.specs[k]) :
       \E s \in slots : s.conv = k /\ s.role = r
  /\ pc \in {"serialize", "format"} => p = o[i]
  /\ \E k \in 1 .. n : p = o[k]

Reach == IF pc = "serialize" THEN i ELSE prim.num_params + 1

Idle ==
  /\ pc \in {"count", "fill", "size", "failed"} =>
       slots = {} /\ p = 0 /\ strs = <<>>
  /\ pc \in {"count", "fill", "size", "failed", "serialize"} => got = {}

Sized ==
  /\ pc = "size" => \E w : Widths(w, i) /\ w[i] = prim.param_size
  /\ pc \in Read =>
       \E w, o :
         /\ Widths(w, prim.num_params + 1) /\ w[prim.num_params + 1] = prim.param_size
         /\ Offsets(o, Reach) /\ Placed(o, Reach)
         /\ \A k \in 1 .. Reach : o[k] <= w[k]

(* The slot of a string holds the offset of its copy, and format has taken *)
(* the slots of its own conversion and role.                               *)
Cached ==
  \A s \in slots : s.role = "value" /\ prim.specs[s.conv].fmt_type = "STR" =>
    \E m \in 1 .. Len(strs) :
      s.val = ExtraLen(SubSeq(strs, 1, m - 1)) /\ s.arg = strs[m].arg

Copied ==
  pc \in {"format", "tail", "done", "outside"} =>
    strings = {[at |-> ExtraLen(SubSeq(strs, 1, k - 1)), arg |-> strs[k].arg,
                copy |-> strs[k].copy] : k \in DOMAIN strs}

Taken ==
  \A g \in got : /\ g[1] \in 1 .. prim.num_params
                 /\ g[3] \in slots /\ g[3].conv = g[1] /\ g[3].role = g[2]

Layout == Idle /\ Sized /\ Cached /\ Copied /\ Taken

(* The next entry of such a table. *)
LEMMA NextOffset ==
  ASSUME NEW n \in Nat \ {0}, NEW h \in [1 .. n -> Nat], NEW x \in Nat, NEW g,
         g = [k \in 1 .. n + 1 |-> IF k <= n THEN h[k] ELSE h[n] + x],
         \A k, m \in 1 .. n : k <= m => h[k] <= h[m]
  PROVE  /\ g \in [1 .. n + 1 -> Nat] /\ g[n + 1] = h[n] + x
         /\ \A k \in 1 .. n : g[k] = h[k]
         /\ \A k, m \in 1 .. n + 1 : k <= m => g[k] <= g[m]
<1>1. g[n + 1] = h[n] + x /\ n \in 1 .. n /\ h[n] \in Nat
  OBVIOUS
<1>2. \A k \in 1 .. n : g[k] = h[k] /\ h[k] \in Nat /\ h[k] <= h[n]
  OBVIOUS
<1>3. \A k \in 1 .. n + 1 : k \in 1 .. n \/ k = n + 1
  OBVIOUS
<1>4. g \in [1 .. n + 1 -> Nat]
  <2>1. \A k \in 1 .. n + 1 : (IF k <= n THEN h[k] ELSE h[n] + x) \in Nat
    BY <1>1, <1>2, <1>3
  <2>2. QED
    BY <2>1
<1>5. ASSUME NEW k \in 1 .. n + 1, NEW m \in 1 .. n + 1, k <= m
      PROVE  g[k] <= g[m]
  <2>1. CASE m = n + 1 /\ k = n + 1
    BY <1>1, <2>1
  <2>2. CASE m = n + 1 /\ k \in 1 .. n
    BY <1>1, <1>2, <2>2
  <2>3. CASE m \in 1 .. n
    <3>1. k \in 1 .. n
      BY <1>5, <2>3
    <3>2. QED
      BY <1>2, <1>5, <2>3, <3>1
  <2>4. QED
    BY <1>3, <2>1, <2>2, <2>3
<1>6. QED
  BY <1>1, <1>2, <1>4, <1>5

(* No two slots lie at the same offset. *)
LEMMA OneSlotThere ==
  ASSUME NEW n \in Nat \ {0}, NEW o, Offsets(o, n),
         NEW k \in 1 .. n - 1, NEW m \in 1 .. n - 1,
         NEW r \in Roles(prim.specs[k]), NEW q \in Roles(prim.specs[m]),
         o[k] + Offset(prim.specs[k], r) = o[m] + Offset(prim.specs[m], q)
  PROVE  k = m /\ r = q
<1>1. ASSUME NEW a \in 1 .. n - 1, NEW b \in 1 .. n - 1, a < b,
             NEW x \in Roles(prim.specs[a]), NEW y \in Roles(prim.specs[b])
      PROVE  o[a] + Offset(prim.specs[a], x) < o[b] + Offset(prim.specs[b], y)
  <2>1. PICK X, Y, Z, V : X = Offset(prim.specs[a], x) /\ Y = Offset(prim.specs[b], y)
                          /\ Z = RoleSize(prim.specs[a], x) /\ V = Size(prim.specs[a])
    OBVIOUS
  <2>2. X \in Nat /\ Z \in Nat \ {0} /\ X + Z <= V /\ V \in Nat /\ Y \in Nat
    BY <2>1, SizeFacts
  <2>3. a \in 1 .. n /\ b \in 1 .. n /\ a + 1 \in 1 .. n /\ a + 1 <= b
    BY <1>1
  <2>4. o[a] \in Nat /\ o[b] \in Nat /\ o[a + 1] = o[a] + V /\ o[a + 1] <= o[b]
    BY <2>1, <2>3 DEF Offsets
  <2>5. QED
    BY <2>1, <2>2, <2>4
<1>2. o[k] \in Nat /\ o[m] \in Nat
  BY DEF Offsets
<1>3. Offset(prim.specs[k], r) \in Nat /\ Offset(prim.specs[m], q) \in Nat
  BY SizeFacts
<1>4. PICK X \in Nat, Y \in Nat :
        X = o[k] + Offset(prim.specs[k], r) /\ Y = o[m] + Offset(prim.specs[m], q)
  BY <1>2, <1>3
<1>5. k = m
  <2>1. X = Y
    BY <1>4
  <2>2. k < m => X < Y
    BY <1>1, <1>4
  <2>3. m < k => Y < X
    BY <1>1, <1>4
  <2>4. QED
    BY <2>1, <2>2, <2>3
<1>6. Offset(prim.specs[k], r) = Offset(prim.specs[k], q) /\ q \in Roles(prim.specs[k])
  BY <1>2, <1>3, <1>5
<1>7. QED
  BY <1>5, <1>6, SizeFacts

(* format finds the slot of its conversion and role. *)
LEMMA FoundSlot ==
  ASSUME NEW n \in Nat \ {0}, NEW o, Offsets(o, n), Placed(o, n),
         NEW k \in 1 .. n - 1, NEW r \in Roles(prim.specs[k]), NEW x,
         x = o[k] + Offset(prim.specs[k], r)
  PROVE  SlotAt(x) \in slots /\ SlotAt(x).conv = k /\ SlotAt(x).role = r
<1>1. PICK s \in slots : s.conv = k /\ s.role = r
  BY DEF Placed
<1>2. s.at = x
  BY <1>1 DEF Placed
<1>3. SlotAt(x) \in slots /\ SlotAt(x).at = x
  BY <1>2, Zenon DEF SlotAt
<1>4. PICK t : t = SlotAt(x)
  OBVIOUS
<1>5. /\ t.conv \in 1 .. n - 1 /\ t.role \in Roles(prim.specs[t.conv])
      /\ x = o[t.conv] + Offset(prim.specs[t.conv], t.role)
  BY <1>3, <1>4 DEF Placed
<1>6. t.conv = k /\ t.role = r
  <2>1. PICK m \in 1 .. n - 1, q \in {t.role} : m = t.conv /\ q = t.role
    BY <1>5
  <2>2. /\ q \in Roles(prim.specs[m])
        /\ o[k] + Offset(prim.specs[k], r) = o[m] + Offset(prim.specs[m], q)
    BY <1>5, <2>1
  <2>3. k = m /\ r = q
    BY <2>2, OneSlotThere
  <2>4. QED
    BY <2>1, <2>3
<1>7. QED
  BY <1>3, <1>4, <1>6

Generating == {"count", "fill", "size", "failed"}

LEMMA GenLayout ==
  ASSUME Layout, pc \in Generating, pc' \in Generating, pc' # "size",
         slots' = slots, p' = p, strs' = strs, got' = got
  PROVE  Layout'
<1>1. slots = {} /\ p = 0 /\ strs = <<>> /\ got = {}
  BY DEF Layout, Idle, Generating
<1>2. Idle'
  BY <1>1 DEF Idle
<1>3. Sized' /\ Copied'
  BY DEF Sized, Copied, Read, Generating
<1>4. Cached' /\ Taken'
  BY <1>1 DEF Cached, Taken
<1>5. QED
  BY <1>2, <1>3, <1>4 DEF Layout

LEMMA InitLayout == Init => Layout
<1> SUFFICES ASSUME Init PROVE Layout
  OBVIOUS
<1>1. pc = "count" /\ slots = {} /\ p = 0 /\ strs = <<>> /\ got = {}
  BY DEF Init
<1>2. Idle /\ Sized /\ Copied
  BY <1>1 DEF Idle, Sized, Copied, Read
<1>3. Cached /\ Taken
  BY <1>1 DEF Cached, Taken
<1>4. QED
  BY <1>2, <1>3 DEF Layout

LEMMA FillEndLayout ==
  ASSUME ReadInv, Layout, FillEnd
  PROVE  Layout'
<1>1. /\ pc = "fill" /\ pc' = "size" /\ prim' = prim /\ i' = i /\ slots' = slots /\ p' = p
      /\ strs' = strs /\ got' = got
  BY DEF FillEnd, call
<1>2. slots = {} /\ p = 0 /\ strs = <<>> /\ got = {} /\ i = 1 /\ prim.param_size = 0
  BY <1>1 DEF ReadInv, Looping, Layout, Idle
<1>3. PICK w : w = [k \in 1 .. 1 |-> 0]
  OBVIOUS
<1>4. w \in [1 .. 1 -> Nat] /\ w[1] = 0 /\ \A k \in 1 .. 1 : k = 1
  BY <1>3
<1>5. Widths(w, 1)'
  <2>1. 1 .. 1 - 1 = {}
    OBVIOUS
  <2>2. \A k, m \in 1 .. 1 : k <= m => w[k] <= w[m]
    BY <1>4
  <2>3. QED
    BY <1>4, <2>1, <2>2 DEF Widths
<1>6. Sized'
  BY <1>1, <1>2, <1>4, <1>5 DEF Sized, Read
<1>7. Idle' /\ Copied'
  BY <1>1, <1>2 DEF Idle, Copied
<1>8. Cached' /\ Taken'
  BY <1>1, <1>2 DEF Cached, Taken
<1>9. QED
  BY <1>6, <1>7, <1>8 DEF Layout

(* serialize begins with no slot. *)
LEMMA StartOver ==
  ASSUME NEW w, prim.num_params \in Nat, Widths(w, prim.num_params + 1),
         w[prim.num_params + 1] = prim.param_size, prim' = prim, pc' = "serialize",
         i' = 1, p' = 0, slots' = {}, strs' = <<>>, got' = {}
  PROVE  Layout'
<1>1. PICK o : o = [k \in 1 .. 1 |-> 0]
  OBVIOUS
<1>2. o \in [1 .. 1 -> Nat] /\ o[1] = 0 /\ \A k \in 1 .. 1 : k = 1
  BY <1>1
<1>3. 1 .. 1 - 1 = {} /\ Reach' = 1
  BY DEF Reach
<1>4. Offsets(o, 1)'
  <2>1. \A k, m \in 1 .. 1 : k <= m => o[k] <= o[m]
    BY <1>2
  <2>2. QED
    BY <1>2, <1>3, <2>1 DEF Offsets
<1>5. Placed(o, 1)'
  BY <1>2, <1>3 DEF Placed
<1>6. Widths(w, prim.num_params + 1)'
  BY DEF Widths
<1>7. \A k \in 1 .. 1 : o[k] <= w[k]
  BY <1>2 DEF Widths
<1>8. Sized'
  <2>1. /\ Widths(w, prim.num_params + 1)' /\ w[prim'.num_params + 1] = prim'.param_size
        /\ Offsets(o, Reach)' /\ Placed(o, Reach)' /\ \A k \in 1 .. Reach' : o[k] <= w[k]
    BY <1>3, <1>4, <1>5, <1>6, <1>7
  <2>2. QED
    BY <2>1 DEF Sized
<1>9. Idle' /\ Copied'
  BY DEF Idle, Copied
<1>10. Cached' /\ Taken'
  BY DEF Cached, Taken
<1>11. QED
  BY <1>8, <1>9, <1>10 DEF Layout

LEMMA SizeLayout ==
  ASSUME ReadInv, Layout, SetParamSize
  PROVE  Layout'
<1>1. /\ pc = "size" /\ slots' = slots /\ p' = p /\ strs' = strs /\ got' = got
      /\ slots = {} /\ p = 0 /\ strs = <<>> /\ got = {}
  BY DEF SetParamSize, Layout, Idle
<1>2. PICK n : n = i
  OBVIOUS
<1>3. PICK w : Widths(w, n) /\ w[n] = prim.param_size
  BY <1>1, <1>2 DEF Layout, Sized
<1>4. n \in Nat \ {0} /\ prim.num_params \in Nat /\ n <= prim.num_params + 1
  BY <1>1, <1>2, ShapeFacts DEF ReadInv, Shape, Looping
<1>5. CASE n <= prim.num_params
  <2>1. /\ prim' = [prim EXCEPT !.param_size = @ + ParamSize(prim.specs[n])]
        /\ i' = n + 1 /\ pc' = "size"
    BY <1>1, <1>2, <1>5 DEF SetParamSize
  <2>2. PICK x : x = ParamSize(prim.specs[n])
    OBVIOUS
  <2>3. prim'.specs = prim.specs /\ prim'.param_size = w[n] + x
    BY <1>3, <2>1, <2>2 DEF ReadInv, Shape
  <2>4. PICK g : g = [k \in 1 .. n + 1 |-> IF k <= n THEN w[k] ELSE w[n] + x]
    OBVIOUS
  <2>5. /\ g \in [1 .. n + 1 -> Nat] /\ g[n + 1] = w[n] + x
        /\ \A k \in 1 .. n : g[k] = w[k]
        /\ \A k, m \in 1 .. n + 1 : k <= m => g[k] <= g[m]
    <3>1. x \in Nat
      BY <2>2, SizeFacts
    <3>2. w \in [1 .. n -> Nat] /\ \A k, m \in 1 .. n : k <= m => w[k] <= w[m]
      BY <1>3 DEF Widths
    <3>3. QED
      BY <1>4, <2>4, <3>1, <3>2, NextOffset
  <2>6. Widths(g, n + 1)'
    <3>1. g[1] = 0
      BY <1>3, <1>4, <2>5 DEF Widths
    <3>2. ASSUME NEW k \in 1 .. n PROVE g[k + 1] = g[k] + ParamSize(prim.specs[k])
      <4>1. CASE k = n
        BY <2>2, <2>5, <4>1
      <4>2. CASE k # n
        <5>1. k \in 1 .. n - 1 /\ k + 1 \in 1 .. n
          BY <1>4, <4>2
        <5>2. w[k + 1] = w[k] + ParamSize(prim.specs[k])
          BY <1>3, <5>1 DEF Widths
        <5>3. QED
          BY <2>5, <5>1, <5>2
      <4>3. QED
        BY <4>1, <4>2
    <3>3. (n + 1) - 1 = n
      BY <1>4
    <3>4. QED
      BY <2>3, <2>5, <3>1, <3>2, <3>3 DEF Widths
  <2>7. Sized'
    BY <2>1, <2>3, <2>5, <2>6 DEF Sized, Read
  <2>8. Idle' /\ Copied'
    BY <1>1, <2>1 DEF Idle, Copied
  <2>9. Cached' /\ Taken'
    BY <1>1 DEF Cached, Taken
  <2>10. QED
    BY <2>7, <2>8, <2>9 DEF Layout
<1>6. CASE ~(n <= prim.num_params)
  <2>1. pc' = "serialize" /\ i' = 1 /\ prim' = prim
    BY <1>2, <1>6 DEF SetParamSize
  <2>2. n = prim.num_params + 1
    BY <1>4, <1>6
  <2>3. QED
    BY <1>1, <1>3, <1>4, <2>1, <2>2, StartOver
<1>7. QED
  BY <1>5, <1>6

LEMMA PrefixOfAppend ==
  ASSUME NEW S, NEW q \in Seq(S), NEW e \in S
  PROVE  /\ Append(q, e) \in Seq(S) /\ Len(Append(q, e)) = Len(q) + 1
         /\ Append(q, e)[Len(q) + 1] = e
         /\ \A m \in 1 .. Len(q) : Append(q, e)[m] = q[m]
         /\ \A m \in 1 .. Len(q) + 1 : SubSeq(Append(q, e), 1, m - 1) = SubSeq(q, 1, m - 1)
         /\ SubSeq(q, 1, Len(q)) = q
<1>1. PICK n \in Nat : n = Len(q)
  OBVIOUS
<1>2. PICK a : a = Append(q, e)
  OBVIOUS
<1>3. /\ a \in Seq(S) /\ Len(a) = n + 1 /\ a[n + 1] = e
      /\ \A m \in 1 .. n : a[m] = q[m]
  BY <1>1, <1>2
<1>4. ASSUME NEW m \in 1 .. n + 1
      PROVE  SubSeq(a, 1, m - 1) = SubSeq(q, 1, m - 1)
  <2>1. \A k \in 1 .. m - 1 : k \in 1 .. n /\ k \in 1 .. n + 1
    OBVIOUS
  <2>2. /\ SubSeq(a, 1, m - 1) \in Seq(S) /\ Len(SubSeq(a, 1, m - 1)) = m - 1
        /\ \A k \in 1 .. m - 1 : SubSeq(a, 1, m - 1)[k] = a[k]
    BY <1>3, <2>1
  <2>3. /\ SubSeq(q, 1, m - 1) \in Seq(S) /\ Len(SubSeq(q, 1, m - 1)) = m - 1
        /\ \A k \in 1 .. m - 1 : SubSeq(q, 1, m - 1)[k] = q[k]
    BY <1>1, <2>1
  <2>4. \A k \in 1 .. m - 1 : SubSeq(a, 1, m - 1)[k] = SubSeq(q, 1, m - 1)[k]
    BY <1>3, <2>1, <2>2, <2>3
  <2>5. QED
    BY <2>2, <2>3, <2>4, SeqEqual
<1>5. SubSeq(q, 1, n) = q
  <2>1. /\ SubSeq(q, 1, n) \in Seq(S) /\ Len(SubSeq(q, 1, n)) = n
        /\ \A k \in 1 .. n : SubSeq(q, 1, n)[k] = q[k]
    BY <1>1
  <2>2. QED
    BY <1>1, <2>1, SeqEqual
<1>6. QED
  BY <1>1, <1>2, <1>3, <1>4, <1>5

(* The strings put into the cache so far keep their places. *)
LEMMA CacheGrows ==
  ASSUME Shape, NEW e, strs' = strs \/ strs' = Append(strs, e)
  PROVE  /\ Len(strs) \in Nat /\ Len(strs') \in Nat /\ Len(strs) <= Len(strs')
         /\ \A m \in 1 .. Len(strs) :
              strs'[m] = strs[m] /\ SubSeq(strs', 1, m - 1) = SubSeq(strs, 1, m - 1)
         /\ strs' = Append(strs, e) =>
              /\ Len(strs') = Len(strs) + 1 /\ strs'[Len(strs) + 1] = e
              /\ SubSeq(strs', 1, Len(strs)) = strs
<1>1. PICK S : strs \in Seq(S)
  BY DEF Shape
<1>2. PICK q : q = strs
  OBVIOUS
<1>3. q \in Seq(S \cup {e}) /\ e \in S \cup {e} /\ Len(q) \in Nat
  BY <1>1, <1>2, SeqMonotonic
<1>4. CASE strs' = Append(strs, e)
  <2>1. /\ Len(Append(q, e)) = Len(q) + 1 /\ Append(q, e)[Len(q) + 1] = e
        /\ \A m \in 1 .. Len(q) : Append(q, e)[m] = q[m]
        /\ \A m \in 1 .. Len(q) + 1 : SubSeq(Append(q, e), 1, m - 1) = SubSeq(q, 1, m - 1)
        /\ SubSeq(q, 1, Len(q)) = q
    BY <1>3, PrefixOfAppend
  <2>2. Len(q) + 1 \in 1 .. Len(q) + 1 /\ (Len(q) + 1) - 1 = Len(q)
    BY <1>3
  <2>3. SubSeq(Append(q, e), 1, Len(q)) = q
    BY <2>1, <2>2
  <2>4. \A m \in 1 .. Len(q) : m \in 1 .. Len(q) + 1
    BY <1>3
  <2>5. QED
    BY <1>2, <1>3, <1>4, <2>1, <2>3, <2>4
<1>5. CASE strs' = strs /\ strs' # Append(strs, e)
  BY <1>2, <1>3, <1>5
<1>6. QED
  BY <1>4, <1>5

LEMMA SerializeLayout ==
  ASSUME ReadInv, Layout, SerializeConv
  PROVE  Layout'
<1>1. /\ pc = "serialize" /\ pc' = "serialize" /\ i <= prim.num_params
      /\ p' = p + Size(prim.specs[i]) /\ i' = i + 1 /\ prim' = prim /\ got' = got
  BY SerializedCounters DEF ReadInv
<1>2. PICK n, spec : n = i /\ spec = prim.specs[n]
  OBVIOUS
<1>3. n \in Nat \ {0} /\ prim.num_params \in Nat /\ n <= prim.num_params /\ p \in Nat /\ va \in Nat
      /\ Shape
  BY <1>1, <1>2, ShapeFacts DEF ReadInv, Shape
<1>4. PICK dyn, e :
           /\ slots' = slots \cup SlotsOf(spec, dyn)
           /\ IF spec.fmt_type # "STR" THEN strs' = strs
              ELSE /\ strs' = Append(strs, e)
                   /\ e.arg = IF Len(strs) >= MaxStrCache THEN 0 ELSE va + Len(Takes(spec))
  BY <1>2, <1>3, Serialized
<1>5. /\ \A s \in SlotsOf(spec, dyn) :
              /\ s.conv = n /\ s.role \in Roles(spec) /\ s.at = p + Offset(spec, s.role)
              /\ s.role = "value" /\ spec.fmt_type = "STR" =>
                   /\ s.val = ExtraLen(strs)
                   /\ s.arg = IF Len(strs) >= MaxStrCache THEN 0 ELSE va + Len(Takes(spec))
      /\ \A r \in Roles(spec) : \E s \in SlotsOf(spec, dyn) : s.role = r
  BY <1>2, <1>3, SlotsFacts
<1>6. PICK w, o :
         /\ Widths(w, prim.num_params + 1) /\ w[prim.num_params + 1] = prim.param_size
         /\ Offsets(o, n) /\ Placed(o, n)
         /\ \A k \in 1 .. n : o[k] <= w[k]
  BY <1>1, <1>2 DEF Layout, Sized, Reach, Read
<1>7. PICK x \in Nat : x = Size(spec)
  BY SizeFacts
<1>8. PICK g : g = [k \in 1 .. n + 1 |-> IF k <= n THEN o[k] ELSE o[n] + x]
  OBVIOUS
<1>9. /\ g \in [1 .. n + 1 -> Nat] /\ g[n + 1] = o[n] + x
      /\ \A k \in 1 .. n : g[k] = o[k]
      /\ \A k, m \in 1 .. n + 1 : k <= m => g[k] <= g[m]
  <2>1. o \in [1 .. n -> Nat] /\ \A k, m \in 1 .. n : k <= m => o[k] <= o[m]
    BY <1>6 DEF Offsets
  <2>2. QED
    BY <1>3, <1>7, <1>8, <2>1, NextOffset
<1>10. (n + 1) - 1 = n /\ Reach' = n + 1 /\ n \in 1 .. n
  BY <1>1, <1>2, <1>3 DEF Reach
<1>11. Offsets(g, n + 1)'
  <2>1. g[1] = 0
    BY <1>3, <1>6, <1>9 DEF Offsets
  <2>2. ASSUME NEW k \in 1 .. n PROVE g[k + 1] = g[k] + Size(prim.specs[k])
    <3>1. CASE k = n
      BY <1>2, <1>7, <1>9, <3>1
    <3>2. CASE k # n
      <4>1. k \in 1 .. n - 1 /\ k + 1 \in 1 .. n
        BY <1>3, <3>2
      <4>2. o[k + 1] = o[k] + Size(prim.specs[k])
        BY <1>6, <4>1 DEF Offsets
      <4>3. QED
        BY <1>9, <4>1, <4>2
    <3>3. QED
      BY <3>1, <3>2
  <2>3. QED
    BY <1>1, <1>9, <1>10, <2>1, <2>2 DEF Offsets
<1>12. p = o[n]
  BY <1>1, <1>2, <1>6 DEF Placed
<1>13. Placed(g, n + 1)'
  <2>1. ASSUME NEW s \in slots'
        PROVE  /\ s.conv \in 1 .. n /\ s.role \in Roles(prim.specs[s.conv])
               /\ s.at = g[s.conv] + Offset(prim.specs[s.conv], s.role)
    <3>1. CASE s \in slots
      <4>1. /\ s.conv \in 1 .. n - 1 /\ s.role \in Roles(prim.specs[s.conv])
            /\ s.at = o[s.conv] + Offset(prim.specs[s.conv], s.role)
        BY <1>6, <3>1 DEF Placed
      <4>2. s.conv \in 1 .. n
        BY <1>3, <4>1
      <4>3. QED
        BY <1>9, <4>1, <4>2
    <3>2. CASE s \in SlotsOf(spec, dyn)
      <4>1. s.conv = n /\ s.role \in Roles(spec) /\ s.at = p + Offset(spec, s.role)
        BY <1>5, <3>2
      <4>2. g[n] = p
        BY <1>9, <1>10, <1>12
      <4>3. QED
        BY <1>2, <1>10, <4>1, <4>2
    <3>3. QED
      BY <1>4, <3>1, <3>2
  <2>2. ASSUME NEW k \in 1 .. n, NEW r \in Roles(prim.specs[k])
        PROVE  \E s \in slots' : s.conv = k /\ s.role = r
    <3>1. CASE k = n
      BY <1>2, <1>4, <1>5, <3>1
    <3>2. CASE k # n
      <4>1. k \in 1 .. n - 1
        BY <1>3, <3>2
      <4>2. \E s \in slots : s.conv = k /\ s.role = r
        BY <1>6, <4>1 DEF Placed
      <4>3. QED
        BY <1>4, <4>2
    <3>3. QED
      BY <3>1, <3>2
  <2>3. p' = g[n + 1] /\ n + 1 \in 1 .. n + 1
    BY <1>1, <1>2, <1>3, <1>7, <1>9, <1>12
  <2>4. \A s \in slots' :
          /\ s.conv \in 1 .. (n + 1) - 1 /\ s.role \in Roles(prim'.specs[s.conv])
          /\ s.at = g[s.conv] + Offset(prim'.specs[s.conv], s.role)
    BY <1>1, <1>10, <2>1, Zenon
  <2>5. \A k \in 1 .. (n + 1) - 1 : \A r \in Roles(prim'.specs[k]) :
          \E s \in slots' : s.conv = k /\ s.role = r
    BY <1>1, <1>10, <2>2, Zenon
  <2>6. p' = g[i'] /\ \E k \in 1 .. n + 1 : p' = g[k]
    BY <1>1, <1>2, <2>3
  <2>7. QED
    BY <2>4, <2>5, <2>6, Zenon DEF Placed
<1>14. ASSUME NEW k \in 1 .. n + 1 PROVE g[k] <= w[k]
  <2>1. CASE k \in 1 .. n
    BY <1>6, <1>9, <2>1
  <2>2. CASE k = n + 1
    <3>1. n \in 1 .. (prim.num_params + 1) - 1 /\ n \in 1 .. prim.num_params + 1
      BY <1>3
    <3>2. w[n + 1] = w[n] + ParamSize(spec) /\ w[n] \in Nat
      BY <1>2, <1>6, <3>1 DEF Widths
    <3>3. o[n] <= w[n] /\ o[n] \in Nat
      BY <1>3, <1>6, <1>10, <1>12
    <3>4. x <= ParamSize(spec) /\ ParamSize(spec) \in Nat
      BY <1>7, SizeFacts
    <3>5. QED
      BY <1>9, <2>2, <3>2, <3>3, <3>4
  <2>3. QED
    BY <1>3, <2>1, <2>2
<1>15. Sized'
  <2>1. Widths(w, prim.num_params + 1)'
    BY <1>1, <1>6 DEF Widths
  <2>2. /\ Widths(w, prim.num_params + 1)' /\ w[prim'.num_params + 1] = prim'.param_size
        /\ Offsets(g, Reach)' /\ Placed(g, Reach)' /\ \A k \in 1 .. Reach' : g[k] <= w[k]
    BY <1>1, <1>6, <1>10, <1>11, <1>13, <1>14, <2>1
  <2>3. QED
    BY <1>1, <2>2 DEF Sized
<1>16. Cached'
  <2>1. SUFFICES ASSUME NEW s \in slots', s.role = "value", prim.specs[s.conv].fmt_type = "STR"
                 PROVE  \E m \in 1 .. Len(strs') :
                          s.val = ExtraLen(SubSeq(strs', 1, m - 1)) /\ s.arg = strs'[m].arg
    BY <1>1 DEF Cached
  <2>2. strs' = strs \/ strs' = Append(strs, e)
    BY <1>4
  <2>3. /\ Len(strs) \in Nat /\ Len(strs') \in Nat /\ Len(strs) <= Len(strs')
        /\ \A m \in 1 .. Len(strs) :
             strs'[m] = strs[m] /\ SubSeq(strs', 1, m - 1) = SubSeq(strs, 1, m - 1)
        /\ strs' = Append(strs, e) =>
             /\ Len(strs') = Len(strs) + 1 /\ strs'[Len(strs) + 1] = e
             /\ SubSeq(strs', 1, Len(strs)) = strs
    BY <1>3, <2>2, CacheGrows
  <2>4. CASE s \in slots
    <3>1. PICK m \in 1 .. Len(strs) :
            s.val = ExtraLen(SubSeq(strs, 1, m - 1)) /\ s.arg = strs[m].arg
      BY <2>1, <2>4 DEF Layout, Cached
    <3>2. strs'[m] = strs[m] /\ SubSeq(strs', 1, m - 1) = SubSeq(strs, 1, m - 1)
      BY <2>3
    <3>3. m \in 1 .. Len(strs')
      BY <2>3
    <3>4. QED
      BY <3>1, <3>2, <3>3
  <2>5. CASE s \in SlotsOf(spec, dyn)
    <3>1. spec.fmt_type = "STR"
      BY <1>2, <1>5, <2>1, <2>5
    <3>2. s.val = ExtraLen(strs)
          /\ s.arg = IF Len(strs) >= MaxStrCache THEN 0 ELSE va + Len(Takes(spec))
      BY <1>5, <2>1, <2>5, <3>1
    <3>3. strs' = Append(strs, e)
          /\ e.arg = IF Len(strs) >= MaxStrCache THEN 0 ELSE va + Len(Takes(spec))
      BY <1>4, <3>1
    <3>4. PICK m : m = Len(strs) + 1
      OBVIOUS
    <3>5. m \in 1 .. Len(strs') /\ m - 1 = Len(strs) /\ strs'[m] = e
          /\ SubSeq(strs', 1, Len(strs)) = strs
      BY <2>3, <3>3, <3>4
    <3>6. s.val = ExtraLen(SubSeq(strs', 1, m - 1)) /\ s.arg = strs'[m].arg
      BY <3>2, <3>3, <3>5
    <3>7. QED
      BY <3>5, <3>6
  <2>6. QED
    BY <1>4, <2>4, <2>5
<1>17. Idle' /\ Copied'
  BY <1>1 DEF Layout, Idle, Copied
<1>18. Taken'
  BY <1>1 DEF Layout, Idle, Taken
<1>19. QED
  BY <1>15, <1>16, <1>17, <1>18 DEF Layout

LEMMA CopyLayout ==
  ASSUME ReadInv, Layout, CopyStrings
  PROVE  Layout'
<1>1. /\ pc = "serialize" /\ pc' = "format" /\ i > prim.num_params /\ i' = 1 /\ p' = 0
      /\ prim' = prim /\ slots' = slots /\ strs' = strs /\ got' = got
  BY DEF CopyStrings
<1>2. PICK n : n = prim.num_params + 1
  OBVIOUS
<1>3. n \in Nat \ {0} /\ i = n /\ Reach' = n /\ Reach = n
  BY <1>1, <1>2, ShapeFacts DEF ReadInv, Shape, Looping, Reach
<1>4. PICK w, o :
         /\ Widths(w, n) /\ w[n] = prim.param_size
         /\ Offsets(o, n) /\ Placed(o, n)
         /\ \A k \in 1 .. n : o[k] <= w[k]
  BY <1>1, <1>2, <1>3 DEF Layout, Sized, Read
<1>5. Widths(w, n)' /\ Offsets(o, n)'
  BY <1>1, <1>4 DEF Widths, Offsets
<1>6. o[1] = 0 /\ 1 \in 1 .. n
  BY <1>3, <1>4 DEF Offsets
<1>7. Placed(o, n)'
  BY <1>1, <1>4, <1>6 DEF Placed
<1>8. Sized'
  BY <1>1, <1>2, <1>3, <1>4, <1>5, <1>7 DEF Sized
<1>9. Idle'
  BY <1>1 DEF Idle
<1>10. Copied'
  BY <1>1 DEF CopyStrings, Copied
<1>11. Cached' /\ Taken'
  BY <1>1 DEF Layout, Cached, Taken
<1>12. QED
  BY <1>8, <1>9, <1>10, <1>11 DEF Layout

(* Both walks of the entries are at the same offset, so format takes the   *)
(* slots of the conversion it prints.                                      *)
LEMMA FormatLayout ==
  ASSUME ReadInv, Layout, FormatConv \/ FormatFails
  PROVE  Layout'
<1>1. /\ pc = "format" /\ i <= prim.num_params /\ prim' = prim /\ slots' = slots
      /\ strs' = strs /\ strings' = strings
  BY DEF FormatConv, FormatFails, TakeSlots
<1>2. PICK n, j, spec : n = prim.num_params + 1 /\ j = i /\ spec = prim.specs[j]
  OBVIOUS
<1>3. /\ n \in Nat \ {0} /\ j \in 1 .. n - 1 /\ j + 1 \in 1 .. n /\ n - 1 = prim.num_params
      /\ Reach = n /\ p \in Nat
  <2>1. prim.num_params \in Nat /\ i \in Nat \ {0} /\ p \in Nat
    BY ShapeFacts DEF ReadInv, Shape
  <2>2. Reach = n
    BY <1>1, <1>2 DEF Reach
  <2>3. QED
    BY <1>1, <1>2, <2>1, <2>2
<1>4. /\ p' = ReadAt(spec).next
      /\ got' = got \cup {<<j, r, SlotAt(ReadAt(spec)[r])>> : r \in Roles(spec)}
      /\ \/ pc' \in {"tail", "outside"}
         \/ pc' = "format" /\ i' = j + 1
  <2>1. CASE FormatConv
    BY <1>1, <1>2, <2>1 DEF FormatConv, TakeSlots, Roles
  <2>2. CASE FormatFails
    BY <1>1, <1>2, <2>2 DEF FormatFails, TakeSlots, Roles
  <2>3. QED
    BY <2>1, <2>2
<1>5. PICK w, o :
         /\ Widths(w, n) /\ w[n] = prim.param_size
         /\ Offsets(o, n) /\ Placed(o, n)
         /\ \A k \in 1 .. n : o[k] <= w[k]
  BY <1>1, <1>2, <1>3 DEF Layout, Sized, Read
<1>6. Widths(w, n)' /\ Offsets(o, n)'
  BY <1>1, <1>5 DEF Widths, Offsets
<1>7. p = o[j]
  BY <1>1, <1>2, <1>5 DEF Placed
<1>8. p' = o[j + 1]
  <2>1. o[j + 1] = o[j] + Size(spec)
    BY <1>2, <1>3, <1>5 DEF Offsets
  <2>2. ReadAt(spec).next = p + Size(spec)
    BY <1>3, ReadAtFacts
  <2>3. QED
    BY <1>4, <1>7, <2>1, <2>2
<1>9. Placed(o, n)'
  BY <1>1, <1>3, <1>4, <1>5, <1>8 DEF Placed
<1>10. Reach' = n
  BY <1>1, <1>2, <1>4 DEF Reach
<1>11. Sized'
  BY <1>1, <1>2, <1>4, <1>5, <1>6, <1>9, <1>10 DEF Sized
<1>12. Idle'
  BY <1>4 DEF Idle
<1>13. Cached' /\ Copied'
  BY <1>1, <1>4 DEF Layout, Cached, Copied
<1>14. Taken'
  <2>1. ASSUME NEW r \in Roles(spec)
        PROVE  /\ SlotAt(ReadAt(spec)[r]) \in slots
               /\ SlotAt(ReadAt(spec)[r]).conv = j /\ SlotAt(ReadAt(spec)[r]).role = r
    <3>1. ReadAt(spec)[r] = o[j] + Offset(spec, r)
      BY <1>3, <1>7, ReadAtFacts
    <3>2. r \in Roles(prim.specs[j]) /\ ReadAt(spec)[r] = o[j] + Offset(prim.specs[j], r)
      BY <1>2, <3>1
    <3>3. QED
      BY <1>3, <1>5, <3>2, FoundSlot
  <2>2. ASSUME NEW g \in got'
        PROVE  /\ g[1] \in 1 .. prim.num_params
               /\ g[3] \in slots /\ g[3].conv = g[1] /\ g[3].role = g[2]
    <3>1. CASE g \in got
      BY <3>1 DEF Layout, Taken
    <3>2. CASE g \notin got
      <4>1. PICK r \in Roles(spec) : g = <<j, r, SlotAt(ReadAt(spec)[r])>>
        BY <1>4, <3>2
      <4>2. g[1] = j /\ g[2] = r /\ g[3] = SlotAt(ReadAt(spec)[r])
        BY <4>1
      <4>3. QED
        BY <1>3, <2>1, <4>2
    <3>3. QED
      BY <3>1, <3>2
  <2>3. QED
    BY <1>1, <2>2 DEF Taken
<1>15. QED
  BY <1>11, <1>12, <1>13, <1>14 DEF Layout

LEMMA TailLayout ==
  ASSUME ReadInv, Layout, FormatTail \/ FormatWrapped
  PROVE  Layout'
<1>1. /\ pc \in {"tail", "format"} /\ pc' \in {"done", "outside"} /\ prim' = prim /\ slots' = slots
      /\ strs' = strs /\ strings' = strings /\ got' = got /\ i' = i /\ p' = p
  BY DEF FormatTail, FormatWrapped
<1>2. PICK n : n = prim.num_params + 1
  OBVIOUS
<1>3. Reach = n /\ Reach' = n
  BY <1>1, <1>2 DEF Reach
<1>4. PICK w, o :
         /\ Widths(w, n) /\ w[n] = prim.param_size
         /\ Offsets(o, n) /\ Placed(o, n)
         /\ \A k \in 1 .. n : o[k] <= w[k]
  BY <1>1, <1>2, <1>3 DEF Layout, Sized, Read
<1>5. Widths(w, n)' /\ Offsets(o, n)' /\ Placed(o, n)'
  BY <1>1, <1>4 DEF Widths, Offsets, Placed
<1>6. Sized'
  BY <1>1, <1>2, <1>3, <1>4, <1>5 DEF Sized
<1>7. Idle' /\ Copied'
  BY <1>1 DEF Layout, Idle, Copied
<1>8. Cached' /\ Taken'
  BY <1>1 DEF Layout, Cached, Taken
<1>9. QED
  BY <1>6, <1>7, <1>8 DEF Layout

LEMMA NextCallLayout ==
  ASSUME ReadInv, Layout, NextCall
  PROVE  Layout'
<1>1. /\ pc \in {"done", "outside", "failed"}
      /\ pc' = (IF pc = "failed" THEN "count" ELSE "serialize")
      /\ i' = 1 /\ p' = 0 /\ slots' = {} /\ strs' = <<>> /\ got' = {} /\ prim' = prim
  BY DEF NextCall
<1>2. CASE pc # "failed"
  <2>1. PICK w : Widths(w, prim.num_params + 1) /\ w[prim.num_params + 1] = prim.param_size
    BY <1>1, <1>2 DEF Layout, Sized, Read
  <2>2. prim.num_params \in Nat /\ pc' = "serialize"
    BY <1>1, <1>2, ShapeFacts DEF ReadInv
  <2>3. QED
    BY <1>1, <2>1, <2>2, StartOver
<1>3. CASE pc = "failed"
  <2>1. pc' = "count"
    BY <1>1, <1>3
  <2>2. Idle' /\ Sized' /\ Copied'
    BY <1>1, <2>1 DEF Idle, Sized, Copied, Read
  <2>3. Cached' /\ Taken'
    BY <1>1 DEF Cached, Taken
  <2>4. QED
    BY <2>2, <2>3 DEF Layout
<1>4. QED
  BY <1>1, <1>2, <1>3

-----------------------------------------------------------------------------
(* What num_params found, and fillup after it.                             *)

(* The positions behind the first m conversions that num_params found.     *)
End(m) == IF m = 0 THEN 1 ELSE counted[m][2]
Found(m) ==
  counted[m] = <<CountNext(fmt, End(m - 1)), CountSpec(fmt, CountNext(fmt, End(m - 1))).next>>
Traced ==
  /\ counted \in Seq(Int \X Int)
  /\ pc # "failed" => Len(counted) = prim.num_params
  /\ \A m \in DOMAIN counted : Found(m)
  /\ pc = "count" => pos = End(Len(counted))
  /\ pc = "fill" => pos = End(Len(prim.specs))
  /\ \A m \in DOMAIN prim.specs :
       counted[m] = <<prim.specs[m].begin, prim.specs[m].next>>

LEMMA CountTraced ==
  ASSUME ReadInv, Traced, CountConv
  PROVE  Traced'
<1>1. PICK k, c : k = CountNext(fmt, pos) /\ c = CountSpec(fmt, k)
  OBVIOUS
<1>2. pc = "count" /\ k <= Len(fmt) /\ prim.specs = <<>> /\ fmt' = fmt
  BY <1>1 DEF CountConv, ReadInv, Counted, Fail, site
<1>3. PICK n \in Nat : n = Len(counted) /\ DOMAIN counted = 1 .. n /\ pos = End(n)
                       /\ n = prim.num_params
  <2>1. counted \in Seq(Int \X Int)
    BY DEF Traced
  <2>2. QED
    BY <1>2, <2>1 DEF Traced
<1>4. CASE c.err # "ok"
  <2>1. pc' = "failed" /\ counted' = counted /\ prim' = NoPrimitive
    BY <1>1, <1>4 DEF CountConv, Fail
  <2>2. prim'.specs = <<>>
    BY <2>1 DEF NoPrimitive
  <2>3. \A m : Found(m)' = Found(m)
    BY <1>2, <2>1 DEF Found, End
  <2>4. QED
    BY <1>2, <2>1, <2>2, <2>3 DEF Traced
<1>5. CASE c.err = "ok"
  <2>1. /\ prim' = [prim EXCEPT !.num_params = @ + 1, !.num_args = @ + c.args]
        /\ pos' = c.next /\ pc' = pc /\ counted' = Append(counted, <<k, c.next>>)
    BY <1>1, <1>5 DEF CountConv
  <2>2. prim'.specs = <<>> /\ prim'.num_params = n + 1
    BY <1>2, <1>3, <2>1 DEF ReadInv, Shape
  <2>3. k \in Int /\ c.next \in Int
    <3>1. fmt \in Seq(STRING) /\ pos \in 1 .. Len(fmt) + 1 /\ Len(fmt) \in Nat
      BY ShapeFacts DEF ReadInv, Shape
    <3>2. k \in 1 .. Len(fmt)
      BY <1>1, <1>2, <3>1, CountNextType
    <3>3. QED
      BY <1>1, <1>5, <3>1, <3>2, SpecFacts
  <2>4. PICK e : e = <<k, c.next>>
    OBVIOUS
  <2>5. /\ counted' \in Seq(Int \X Int) /\ Len(counted') = n + 1 /\ DOMAIN counted' = 1 .. n + 1
        /\ counted'[n + 1] = e /\ \A m \in 1 .. n : counted'[m] = counted[m]
    <3>1. counted \in Seq(Int \X Int) /\ e \in Int \X Int
      BY <2>3, <2>4 DEF Traced
    <3>2. counted' = Append(counted, e)
      BY <2>1, <2>4
    <3>3. QED
      BY <1>3, <3>1, <3>2, AppendProperties
  <2>6. \A m \in 0 .. n : End(m)' = End(m)
    BY <2>5 DEF End
  <2>7. ASSUME NEW m \in 1 .. n + 1 PROVE Found(m)'
    <3>1. CASE m = n + 1
      <4>1. m - 1 = n /\ n \in 0 .. n
        BY <3>1
      <4>2. End(m - 1)' = pos
        BY <1>3, <2>6, <4>1
      <4>3. QED
        BY <1>1, <1>2, <2>4, <2>5, <3>1, <4>2, Zenon DEF Found
    <3>2. CASE m # n + 1
      <4>1. m \in 1 .. n /\ m - 1 \in 0 .. n
        BY <3>2
      <4>2. End(m - 1)' = End(m - 1) /\ counted'[m] = counted[m]
        BY <2>5, <2>6, <4>1
      <4>3. Found(m)
        BY <1>3, <4>1 DEF Traced
      <4>4. QED
        BY <1>2, <4>2, <4>3, Zenon DEF Found
    <3>3. QED
      BY <3>1, <3>2
  <2>8. pos' = End(n + 1)'
    BY <2>1, <2>4, <2>5 DEF End
  <2>9. pc' # "fill"
    BY <1>2, <2>1
  <2>10. QED
    BY <2>2, <2>5, <2>7, <2>8, <2>9 DEF Traced
<1>6. QED
  BY <1>4, <1>5

LEMMA FillTraced ==
  ASSUME ReadInv, Traced, FillConv
  PROVE  Traced'
<1>1. PICK k, s : k = FillNext(fmt, pos) /\ s = FillSpec(fmt, k)
  OBVIOUS
<1>2. pc = "fill" /\ k <= Len(fmt) /\ Len(prim.specs) < prim.num_params /\ fmt' = fmt
  BY <1>1 DEF FillConv, Fail, site
<1>3. PICK l : l = Len(prim.specs)
  OBVIOUS
<1>4. /\ l \in Nat /\ l + 1 \in DOMAIN counted /\ pos = End(l) /\ DOMAIN prim.specs = 1 .. l
      /\ prim.specs \in Seq(SpecSet)
  <2>1. prim.num_params \in Nat /\ l \in Nat /\ DOMAIN prim.specs = 1 .. l
        /\ prim.specs \in Seq(SpecSet)
    BY <1>3, ShapeFacts DEF ReadInv
  <2>2. counted \in Seq(Int \X Int) /\ Len(counted) = prim.num_params
    BY <1>2 DEF Traced
  <2>3. QED
    BY <1>2, <1>3, <2>1, <2>2 DEF Traced
<1>5. /\ counted' = counted /\ \A m : End(m)' = End(m)
      /\ \A m : Found(m)' = Found(m)
  <2>1. counted' = counted
    BY DEF FillConv, Fail
  <2>2. \A m : End(m)' = End(m)
    BY <2>1 DEF End
  <2>3. QED
    BY <1>2, <2>1, <2>2 DEF Found
<1>6. CASE s.err # "ok"
  <2>1. pc' = "failed" /\ prim' = NoPrimitive
    BY <1>1, <1>6 DEF FillConv, Fail
  <2>2. prim'.specs = <<>>
    BY <2>1 DEF NoPrimitive
  <2>3. QED
    BY <1>5, <2>1, <2>2 DEF Traced
<1>7. CASE s.err = "ok"
  <2>1. /\ prim' = [prim EXCEPT !.specs = Append(@, s)] /\ pos' = s.next /\ pc' = pc
    BY <1>1, <1>7 DEF FillConv
  <2>2. prim'.specs = Append(prim.specs, s) /\ prim'.num_params = prim.num_params
    BY <2>1 DEF ReadInv, Shape
  <2>3. k = CountNext(fmt, pos)
    BY <1>1, SameSearch
  <2>4. s.begin = k /\ s.next = CountSpec(fmt, k).next /\ s \in SpecSet
    <3>1. fmt \in Seq(STRING) /\ pos \in 1 .. Len(fmt) + 1 /\ Len(fmt) \in Nat
      BY ShapeFacts DEF ReadInv, Shape
    <3>2. k \in 1 .. Len(fmt)
      BY <1>2, <2>3, <3>1, CountNextType
    <3>3. s \in SpecSet
      BY <1>1, <1>7, <3>2 DEF SpecSet
    <3>4. QED
      BY <1>1, <3>1, <3>2, <3>3, SpecFacts
  <2>5. counted[l + 1] = <<s.begin, s.next>>
    <3>1. Found(l + 1)
      BY <1>4 DEF Traced
    <3>2. PICK e : e = End((l + 1) - 1)
      OBVIOUS
    <3>3. e = pos
      <4>1. (l + 1) - 1 = l
        BY <1>4
      <4>2. QED
        BY <1>4, <3>2, <4>1
    <3>4. counted[l + 1] = <<k, CountSpec(fmt, k).next>>
      <4>1. counted[l + 1] = <<CountNext(fmt, e), CountSpec(fmt, CountNext(fmt, e)).next>>
        BY <3>1, <3>2 DEF Found
      <4>2. QED
        BY <2>3, <3>3, <4>1
    <3>5. QED
      BY <2>4, <3>4, Zenon
  <2>6. /\ Len(prim'.specs) = l + 1 /\ DOMAIN prim'.specs = 1 .. l + 1
        /\ prim'.specs[l + 1] = s /\ \A m \in 1 .. l : prim'.specs[m] = prim.specs[m]
    BY <1>3, <1>4, <2>2, <2>4, AppendProperties
  <2>7. pos' = End(l + 1)
    BY <1>4, <2>1, <2>5 DEF End
  <2>8. ASSUME NEW m \in 1 .. l + 1
        PROVE  counted'[m] = <<prim'.specs[m].begin, prim'.specs[m].next>>
    <3>1. CASE m = l + 1
      BY <1>5, <2>5, <2>6, <3>1
    <3>2. CASE m # l + 1
      <4>1. m \in 1 .. l
        BY <1>4, <3>2
      <4>2. QED
        BY <1>4, <1>5, <2>6, <4>1 DEF Traced
    <3>3. QED
      BY <3>1, <3>2
  <2>9. QED
    BY <1>2, <1>5, <2>1, <2>2, <2>6, <2>7, <2>8 DEF Traced
<1>8. QED
  BY <1>6, <1>7

(* The other steps leave the positions alone. *)
LEMMA KeepTraced ==
  ASSUME Traced, fmt' = fmt, counted' = counted, prim'.specs = prim.specs,
         prim'.num_params = prim.num_params, pc # "failed", pc' \notin {"count", "fill"}
  PROVE  Traced'
<1>1. \A m : End(m)' = End(m)
  BY DEF End
<1>2. \A m : Found(m)' = Found(m)
  BY <1>1 DEF Found
<1>3. QED
  BY <1>2 DEF Traced

LEMMA TracedStep ==
  ASSUME ReadInv, Traced, [Next]_vars
  PROVE  Traced'
<1>1. CASE CountConv
  BY <1>1, CountTraced
<1>2. CASE FillConv
  BY <1>2, FillTraced
<1>3. CASE Allocate
  <2>1. pc = "count" /\ fmt' = fmt /\ counted' = counted /\ prim.specs = <<>>
    BY <1>3 DEF Allocate, Fail, site, ReadInv, Counted
  <2>2. \A m : End(m)' = End(m)
    BY <2>1 DEF End
  <2>3. \A m : Found(m)' = Found(m)
    BY <2>1, <2>2 DEF Found
  <2>4. CASE pc' = "failed" /\ prim' = NoPrimitive
    <3>1. prim'.specs = <<>>
      BY <2>4 DEF NoPrimitive
    <3>2. QED
      BY <2>1, <2>3, <2>4, <3>1 DEF Traced
  <2>5. CASE pc' = "fill" /\ pos' = 1 /\ prim' = prim
    <3>1. pos' = End(Len(prim.specs))'
      BY <2>1, <2>5 DEF End
    <3>2. QED
      BY <2>1, <2>3, <2>5, <3>1 DEF Traced
  <2>6. QED
    BY <1>3, <2>4, <2>5 DEF Allocate, Fail
<1>4. CASE SetParamSize
  <2>1. prim \in [specs : Seq(SpecSet), num_params : Nat, num_args : Nat, param_size : Nat]
    BY DEF ReadInv, Shape
  <2>2. /\ pc = "size" /\ pc' \in {"size", "serialize"} /\ fmt' = fmt /\ counted' = counted
        /\ prim'.specs = prim.specs /\ prim'.num_params = prim.num_params
    BY <1>4, <2>1 DEF SetParamSize, site
  <2>3. QED
    BY <2>2, KeepTraced
<1>5. CASE FillEnd \/ SerializeConv \/ CopyStrings \/ FormatConv \/ FormatFails
           \/ FormatWrapped \/ FormatTail
  <2>1. /\ pc # "failed" /\ pc' \notin {"count", "fill"}
        /\ fmt' = fmt /\ counted' = counted /\ prim' = prim
    BY <1>5 DEF FillEnd, SerializeConv, CopyStrings, FormatConv, FormatFails, FormatWrapped,
         FormatTail, TakeSlots, site
  <2>2. QED
    BY <2>1, KeepTraced
<1>6. CASE NextCall
  <2>1. CASE pc # "failed"
    <3>1. /\ pc' \notin {"count", "fill"} /\ fmt' = fmt /\ counted' = counted /\ prim' = prim
      BY <1>6, <2>1 DEF NextCall, site
    <3>2. QED
      BY <2>1, <3>1, KeepTraced
  <2>2. CASE pc = "failed"
    <3>1. pc' = "count" /\ counted' = <<>> /\ pos' = 1 /\ prim' = NoPrimitive
      BY <1>6, <2>2 DEF NextCall, ReadInv, Counted
    <3>2. prim'.specs = <<>> /\ prim'.num_params = 0
      BY <3>1 DEF NoPrimitive
    <3>3. pos' = End(0)'
      BY <3>1 DEF End
    <3>4. QED
      BY <3>1, <3>2, <3>3 DEF Traced
  <2>3. QED
    BY <2>1, <2>2
<1>7. CASE UNCHANGED vars
  <2>1. pc' = pc /\ pos' = pos /\ fmt' = fmt /\ counted' = counted /\ prim' = prim
    BY <1>7 DEF vars
  <2>2. \A m : End(m)' = End(m)
    BY <2>1 DEF End
  <2>3. \A m : Found(m)' = Found(m)
    BY <2>1, <2>2 DEF Found
  <2>4. QED
    BY <2>1, <2>2, <2>3 DEF Traced
<1>8. QED
  BY <1>1, <1>2, <1>3, <1>4, <1>5, <1>6, <1>7 DEF Next

-----------------------------------------------------------------------------
(* The theorems.                                                           *)

IInv == ReadInv /\ Cut /\ Layout /\ Traced

LEMMA GenStep ==
  ASSUME IInv, CountConv \/ Allocate \/ FillConv
  PROVE  ReadInv' /\ Cut' /\ Layout'
<1>1. ReadInv'
  BY CountStep, AllocateStep, FillStep DEF IInv
<1>2. /\ pc \in {"count", "fill"} /\ pc' \in {"count", "fill", "failed"}
      /\ UNCHANGED call /\ bufsize' = bufsize
  BY DEF CountConv, Allocate, FillConv, Fail, site
<1>3. /\ slots' = slots /\ p' = p /\ strs' = strs /\ got' = got /\ line' = line /\ text' = text
  BY <1>2 DEF call
<1>4. Cut'
  BY <1>2, <1>3, NoLineYet DEF IInv, Early
<1>5. Layout'
  BY <1>2, <1>3, GenLayout DEF IInv, Generating
<1>6. QED
  BY <1>1, <1>4, <1>5

LEMMA Preserved ==
  ASSUME IInv, [Next]_vars
  PROVE  IInv'
<1>0. Traced'
  BY TracedStep DEF IInv
<1>1. ReadInv /\ Cut /\ Layout
  BY DEF IInv
<1>2. CASE CountConv \/ Allocate \/ FillConv
  BY <1>0, <1>2, GenStep DEF IInv
<1>3. CASE FillEnd
  <2>1. pc = "fill" /\ pc' = "size" /\ line' = line /\ text' = text /\ bufsize' = bufsize
    BY <1>3 DEF FillEnd, call, site
  <2>2. Cut'
    BY <1>1, <2>1, NoLineYet DEF Early
  <2>3. QED
    BY <1>0, <1>1, <1>3, <2>2, FillEndStep, FillEndLayout DEF IInv
<1>4. CASE SetParamSize
  BY <1>0, <1>1, <1>4, SizeStep, SizeLayout DEF IInv
<1>5. CASE SerializeConv
  BY <1>0, <1>1, <1>5, SerializeStep, SerializeLayout DEF IInv
<1>6. CASE CopyStrings
  BY <1>0, <1>1, <1>6, CopyStep, CopyLayout DEF IInv
<1>7. CASE FormatConv \/ FormatFails
  BY <1>0, <1>1, <1>7, FormatStep, FailsStep, FormatLayout DEF IInv
<1>8. CASE FormatTail \/ FormatWrapped
  BY <1>0, <1>1, <1>8, TailStep, WrappedStep, TailLayout DEF IInv
<1>9. CASE NextCall
  BY <1>0, <1>1, <1>9, NextCallStep, NextCallLayout DEF IInv
<1>10. CASE UNCHANGED vars
  <2>1. /\ fmt' = fmt /\ bufsize' = bufsize /\ pc' = pc /\ err' = err /\ pos' = pos
        /\ prim' = prim /\ i' = i /\ va' = va /\ p' = p /\ slots' = slots /\ strs' = strs
        /\ strings' = strings /\ got' = got /\ line' = line /\ text' = text /\ misread' = misread
    BY <1>10 DEF vars
  <2>2. Shape'
    BY <1>1, <2>1, SpecSetKept DEF ReadInv, Shape
  <2>3. Counted'
    BY <1>1, <2>1 DEF ReadInv, Counted, Rounds
  <2>4. Looping' /\ Ordered'
    BY <1>1, <2>1 DEF ReadInv, Looping, Ordered, TextEnd
  <2>5. Cut'
    BY <1>1, <2>1 DEF Cut, CutText, Same, Short
  <2>6. Reach' = Reach /\ \A w, n : Widths(w, n)' = Widths(w, n)
    BY <2>1 DEF Reach, Widths
  <2>7. \A o, n : Offsets(o, n)' = Offsets(o, n) /\ Placed(o, n)' = Placed(o, n)
    BY <2>1 DEF Offsets, Placed
  <2>8. Sized'
    BY <1>1, <2>1, <2>6, <2>7 DEF Layout, Sized
  <2>9. Idle' /\ Cached' /\ Copied' /\ Taken'
    BY <1>1, <2>1 DEF Layout, Idle, Cached, Copied, Taken
  <2>10. QED
    BY <1>0, <2>2, <2>3, <2>4, <2>5, <2>8, <2>9 DEF IInv, ReadInv, Layout
<1>11. QED
  BY <1>2, <1>3, <1>4, <1>5, <1>6, <1>7, <1>8, <1>9, <1>10 DEF Next

(* Every state of the calls of a site, whatever its format, arguments and  *)
(* buffer, satisfies the invariant.                                        *)
THEOREM Invariance == Spec => []IInv
<1>1. Init => IInv
  <2>1. SUFFICES ASSUME Init PROVE IInv
    OBVIOUS
  <2>2. line = <<>> /\ text = <<>> /\ pc = "count"
    BY <2>1 DEF Init
  <2>3. DOMAIN line = {}
    BY <2>2
  <2>4. Cut
    <3>1. bufsize \in Nat \ {0} /\ Len(line) = 0
      BY <2>1, <2>2, LineAssumption DEF Init
    <3>2. QED
      BY <2>2, <2>3, <3>1 DEF Cut, CutText, Same
  <2>5. Traced
    <3>1. counted = <<>> /\ prim.specs = <<>> /\ prim.num_params = 0 /\ pos = 1 /\ pc = "count"
      BY <2>1 DEF Init, NoPrimitive
    <3>2. pos = End(0)
      BY <3>1 DEF End
    <3>3. QED
      BY <3>1, <3>2 DEF Traced
  <2>6. QED
    BY <2>1, <2>4, <2>5, InitRead, InitLayout DEF IInv
<1>2. IInv /\ [Next]_vars => IInv'
  BY Preserved
<1>3. QED
  BY <1>1, <1>2, PTL DEF Spec

(* The counters of gen, serialize and format are natural numbers, and the  *)
(* line haclog_printf_primitive_format prints and its NUL never pass the   *)
(* end of the message buffer, for every format, every buffer of at least   *)
(* one byte and every result of snprintf, negative ones and those beyond   *)
(* the space included.                                                     *)
THEOREM TypeCorrect == Spec => []TypeOK
<1>1. IInv => TypeOK
  <2>1. SUFFICES ASSUME IInv PROVE TypeOK
    OBVIOUS
  <2>2. Shape /\ Len(line) \in Nat /\ bufsize \in Nat \ {0} /\ Len(line) <= bufsize - 1
        /\ prim.num_params \in Nat /\ prim.num_args \in Nat
    BY <2>1, ShapeFacts DEF IInv, ReadInv, Cut
  <2>3. Len(line) < bufsize
    BY <2>2
  <2>4. QED
    BY <2>2, <2>3 DEF Shape, TypeOK
<1>2. QED
  BY <1>1, Invariance, PTL

(* haclog_printf_spec_fillup fills every entry haclog_printf_num_params    *)
(* counted with the conversion that was counted there and refuses none of  *)
(* them, for every format string: the two loops, which are written apart,  *)
(* are at the same positions round by round.                               *)
THEOREM ReadersAgree == Spec => []PassesAgree
<1>1. IInv => PassesAgree
  <2>1. SUFFICES ASSUME IInv PROVE PassesAgree
    OBVIOUS
  <2>2. pc = "failed" => err # "ok"
    BY <2>1 DEF IInv, ReadInv, Counted
  <2>3. ASSUME pc \in Read \cup {"size"}
        PROVE  counted = [k \in 1 .. prim.num_params |->
                            <<prim.specs[k].begin, prim.specs[k].next>>]
    <3>1. /\ Len(prim.specs) = prim.num_params /\ prim.num_params \in Nat
          /\ DOMAIN prim.specs = 1 .. prim.num_params
      BY <2>1, <2>3, ShapeFacts DEF IInv, ReadInv, Counted
    <3>2. counted \in Seq(Int \X Int) /\ Len(counted) = prim.num_params
      BY <2>1, <2>3 DEF IInv, Traced, Read
    <3>3. \A k \in 1 .. prim.num_params :
            counted[k] = <<prim.specs[k].begin, prim.specs[k].next>>
      BY <2>1, <3>1 DEF IInv, Traced
    <3>4. QED
      BY <3>1, <3>2, <3>3
  <2>4. QED
    BY <2>2, <2>3 DEF PassesAgree
<1>2. QED
  BY <1>1, Invariance, PTL

(* What serialize writes for the arguments fits into the param_size bytes  *)
(* it claimed of the ring, for every format.                               *)
THEOREM ArgumentsFit == Spec => []ConstArgsFit
<1>1. IInv => ConstArgsFit
  <2>1. SUFFICES ASSUME IInv, pc \in Read
                 PROVE  /\ p <= prim.param_size
                        /\ \A s \in slots :
                             s.at + RoleSize(prim.specs[s.conv], s.role) <= prim.param_size
    BY DEF ConstArgsFit, RoleSize
  <2>2. PICK n, z : n = prim.num_params + 1 /\ z = Reach
    OBVIOUS
  <2>3. n \in Nat \ {0} /\ z \in 1 .. n
    BY <2>1, <2>2, ShapeFacts, SMTT(30) DEF IInv, ReadInv, Shape, Looping, Reach
  <2>4. PICK w, o :
           /\ Widths(w, n) /\ w[n] = prim.param_size
           /\ Offsets(o, z) /\ Placed(o, z)
           /\ \A k \in 1 .. z : o[k] <= w[k]
    BY <2>1, <2>2 DEF IInv, Layout, Sized
  <2>5. \A k \in 1 .. z : o[k] \in Nat /\ w[k] \in Nat /\ w[k] <= w[n] /\ o[k] <= w[k]
    <3>1. n \in 1 .. n /\ \A k \in 1 .. z : k \in 1 .. n /\ k <= n
      BY <2>3
    <3>2. QED
      BY <2>4, <3>1 DEF Widths, Offsets
  <2>6. w[n] \in Nat
    BY <2>3, <2>4 DEF Widths
  <2>7. p <= prim.param_size
    <3>1. PICK k \in 1 .. z : p = o[k]
      BY <2>4 DEF Placed
    <3>2. QED
      BY <2>4, <2>5, <2>6, <3>1
  <2>8. ASSUME NEW s \in slots
        PROVE  s.at + RoleSize(prim.specs[s.conv], s.role) <= prim.param_size
    <3>1. PICK k, r, spec : k = s.conv /\ r = s.role /\ spec = prim.specs[k]
      OBVIOUS
    <3>2. k \in 1 .. z - 1 /\ r \in Roles(spec) /\ s.at = o[k] + Offset(spec, r)
      BY <2>4, <3>1 DEF Placed
    <3>3. k \in 1 .. z /\ k + 1 \in 1 .. z
      BY <2>3, <3>2
    <3>4. o[k + 1] = o[k] + Size(spec)
      BY <2>4, <3>1, <3>2 DEF Offsets
    <3>5. PICK X, Y, Z : X = Offset(spec, r) /\ Y = RoleSize(spec, r) /\ Z = Size(spec)
      OBVIOUS
    <3>6. X \in Nat /\ Y \in Nat /\ Z \in Nat /\ X + Y <= Z
      BY <3>2, <3>5, SizeFacts
    <3>7. o[k] \in Nat /\ o[k + 1] \in Nat /\ w[k + 1] \in Nat /\ o[k + 1] <= w[k + 1] /\ w[k + 1] <= w[n]
      BY <2>5, <3>3
    <3>8. s.at + Y <= w[n]
      BY <2>6, <3>2, <3>4, <3>5, <3>6, <3>7
    <3>9. QED
      BY <2>4, <3>1, <3>5, <3>8
  <2>9. QED
    BY <2>7, <2>8
<1>2. QED
  BY <1>1, Invariance, PTL

(* format takes for each conversion the slots serialize wrote for it, and  *)
(* for a string the copy of its argument, for every format and every       *)
(* number of cached strings.                                               *)
THEOREM SlotsTaken == Spec => []SlotsInStep
<1>1. IInv => SlotsInStep
  <2>1. SUFFICES ASSUME IInv, NEW g \in got
                 PROVE  /\ g[3].conv = g[1] /\ g[3].role = g[2]
                        /\ g[2] = "value" /\ prim.specs[g[1]].fmt_type = "STR" =>
                             \E s \in strings : s.at = g[3].val /\ s.arg = g[3].arg
    BY DEF SlotsInStep
  <2>2. g[3] \in slots /\ g[3].conv = g[1] /\ g[3].role = g[2]
    BY <2>1 DEF IInv, Layout, Taken
  <2>3. ASSUME g[2] = "value", prim.specs[g[1]].fmt_type = "STR"
        PROVE  \E s \in strings : s.at = g[3].val /\ s.arg = g[3].arg
    <3>1. pc \in {"format", "tail", "done", "outside"}
      BY <2>1 DEF IInv, ReadInv, Shape, Phases, Layout, Idle
    <3>2. PICK m \in 1 .. Len(strs) :
            g[3].val = ExtraLen(SubSeq(strs, 1, m - 1)) /\ g[3].arg = strs[m].arg
      BY <2>1, <2>2, <2>3 DEF IInv, Layout, Cached
    <3>3. m \in DOMAIN strs
      BY <2>1, ShapeFacts DEF IInv, ReadInv
    <3>4. PICK s : s = [at |-> ExtraLen(SubSeq(strs, 1, m - 1)), arg |-> strs[m].arg,
                        copy |-> strs[m].copy]
      OBVIOUS
    <3>5. s \in strings
      BY <2>1, <3>1, <3>3, <3>4, Zenon DEF IInv, Layout, Copied
    <3>6. s.at = g[3].val /\ s.arg = g[3].arg
      BY <3>2, <3>4
    <3>7. QED
      BY <3>5, <3>6
  <2>4. QED
    BY <2>2, <2>3
<1>2. QED
  BY <1>1, Invariance, PTL

(* For every format that pos_begin and pos_end have room for, every buffer *)
(* and every number of characters printed: unless snprintf failed or was   *)
(* called without an argument, the line stays in the message buffer and is *)
(* the text an unbounded buffer would hold, cut at the end of the buffer;  *)
(* only its last byte can be a NUL, where a conversion filled the space,   *)
(* which the header's "exclude '\0'" does not allow and the code counts.  *)
THEOREM LineCut == Spec => []LineIsCutText
<1>1. IInv => LineIsCutText
  BY DEF IInv, Cut, CutText, Same, Shown, LineIsCutText
<1>2. QED
  BY <1>1, Invariance, PTL

-----------------------------------------------------------------------------
(* The characters of a conversion: its stars, its digits and its point.    *)

LEMMA FieldFacts ==
  /\ InField(DYNAMIC) = DYNAMIC /\ InField(0) = 0
  /\ \A n \in Int : InField(n) \in Int
<1>1. PICK M : M = 2 * FieldHalf /\ M \in Nat \ {0, 1} /\ FieldHalf \in Nat \ {0}
  BY FieldAssumption
<1>2. ASSUME NEW n \in Int, NEW u \in Int, u = n % M
      PROVE  InField(n) = IF u >= FieldHalf THEN u - M ELSE u
  BY <1>1, <1>2, Zenon DEF InField
<1>3. \A n \in Int : n % M \in Int
  BY <1>1
<1>4. 0 % M = 0
  BY <1>1
<1>5. (-1) % M = M - 1
  BY <1>1
<1>6. InField(0) = 0
  BY <1>1, <1>2, <1>4
<1>7. InField(-1) = -1
  BY <1>1, <1>2, <1>5
<1>8. ASSUME NEW n \in Int PROVE InField(n) \in Int
  <2>1. PICK u \in Int : u = n % M
    BY <1>3
  <2>2. InField(n) = IF u >= FieldHalf THEN u - M ELSE u
    BY <1>2, <2>1
  <2>3. QED
    BY <1>1, <2>2
<1>9. QED
  BY <1>6, <1>7, <1>8 DEF DYNAMIC

(* The number the digits write down is a natural number. *)
DigitAt(fm, k) == CHOOSE d \in 0 .. 9 : Digits[d + 1] = fm[k]
IsValue(fm, a, m, v) ==
  v = [k \in (a - 1) .. m |-> IF k < a THEN 0 ELSE 10 * v[k - 1] + DigitAt(fm, k)]

LEMMA DigitNat ==
  ASSUME NEW fm, NEW k, fm[k] \in DigitChars
  PROVE  DigitAt(fm, k) \in Nat
<1>1. PICK e \in DOMAIN Digits : fm[k] = Digits[e]
  BY DEF DigitChars
<1>2. e - 1 \in 0 .. 9 /\ Digits[(e - 1) + 1] = fm[k]
  BY <1>1 DEF Digits
<1>3. DigitAt(fm, k) \in 0 .. 9
  BY <1>2, Zenon DEF DigitAt
<1>4. QED
  BY <1>3

LEMMA ValueExists ==
  ASSUME NEW fm, NEW a \in Nat \ {0}
  PROVE  \A n \in Nat : \E v : IsValue(fm, a, (a - 1) + n, v)
<1> DEFINE G == {n \in Nat : \E v : IsValue(fm, a, (a - 1) + n, v)}
<1>1. 0 \in G
  <2>1. PICK v : v = [k \in (a - 1) .. (a - 1) |-> 0]
    OBVIOUS
  <2>2. IsValue(fm, a, a - 1, v)
    BY <2>1 DEF IsValue
  <2>3. (a - 1) + 0 = a - 1
    OBVIOUS
  <2>4. QED
    BY <2>2, <2>3
<1>2. ASSUME NEW n \in Nat, n \in G PROVE n + 1 \in G
  <2>1. PICK m \in Nat : m = (a - 1) + n
    OBVIOUS
  <2>2. m >= a - 1 /\ (a - 1) + (n + 1) = m + 1
    BY <2>1
  <2>3. PICK v : IsValue(fm, a, m, v)
    BY <1>2, <2>1
  <2>4. PICK w : w = [k \in (a - 1) .. (m + 1) |->
                        IF k = m + 1 THEN 10 * v[m] + DigitAt(fm, m + 1) ELSE v[k]]
    OBVIOUS
  <2>5. \A k \in (a - 1) .. m : w[k] = v[k]
    BY <2>2, <2>4
  <2>6. \A k \in (a - 1) .. m : v[k] = IF k < a THEN 0 ELSE 10 * v[k - 1] + DigitAt(fm, k)
    BY <2>3, Zenon DEF IsValue
  <2>7. ASSUME NEW k \in (a - 1) .. (m + 1)
        PROVE  w[k] = IF k < a THEN 0 ELSE 10 * w[k - 1] + DigitAt(fm, k)
    <3>1. CASE k = m + 1
      <4>1. ~(k < a) /\ k - 1 = m /\ m \in (a - 1) .. m
        BY <2>2, <3>1
      <4>2. w[k] = 10 * v[m] + DigitAt(fm, k) /\ w[k - 1] = v[m]
        BY <2>4, <2>5, <3>1, <4>1
      <4>3. QED
        BY <4>1, <4>2
    <3>2. CASE k # m + 1
      <4>1. k \in (a - 1) .. m /\ (~(k < a) => k - 1 \in (a - 1) .. m)
        BY <2>2, <3>2
      <4>2. QED
        BY <2>5, <2>6, <4>1
    <3>3. QED
      BY <3>1, <3>2
  <2>8. IsValue(fm, a, m + 1, w)
    BY <2>4, <2>7 DEF IsValue
  <2>9. QED
    BY <2>2, <2>8
<1>3. \A n \in Nat : n \in G
  <2> HIDE DEF G
  <2>1. QED
    BY <1>1, <1>2, NatInSet
<1>4. QED
  BY <1>3

LEMMA DecimalNat ==
  ASSUME NEW fm, NEW a \in Nat \ {0}, NEW b \in Nat, a <= b,
         \A k \in a .. b - 1 : fm[k] \in DigitChars
  PROVE  Decimal(fm, a, b) \in Nat
<1>1. PICK v : v = CHOOSE x : IsValue(fm, a, b - 1, x)
  OBVIOUS
<1>2. IsValue(fm, a, b - 1, v)
  <2>1. b - a \in Nat /\ (a - 1) + (b - a) = b - 1
    OBVIOUS
  <2>2. \E x : IsValue(fm, a, b - 1, x)
    BY <2>1, ValueExists
  <2>3. QED
    BY <1>1, <2>2, Zenon
<1>3. Decimal(fm, a, b) = v[b - 1]
  BY <1>1, Zenon DEF Decimal, IsValue, DigitAt
<1>4. \A k \in (a - 1) .. (b - 1) : v[k] = IF k < a THEN 0 ELSE 10 * v[k - 1] + DigitAt(fm, k)
  BY <1>2, Zenon DEF IsValue
<1> DEFINE G == {n \in Nat : (a - 1) + n <= b - 1 => v[(a - 1) + n] \in Nat}
<1>5. 0 \in G
  <2>1. (a - 1) + 0 = a - 1 /\ a - 1 \in (a - 1) .. (b - 1) /\ a - 1 < a
    OBVIOUS
  <2>2. v[a - 1] = 0
    BY <1>4, <2>1
  <2>3. QED
    BY <2>1, <2>2
<1>6. ASSUME NEW n \in Nat, n \in G PROVE n + 1 \in G
  <2>1. SUFFICES ASSUME (a - 1) + (n + 1) <= b - 1 PROVE v[(a - 1) + (n + 1)] \in Nat
    OBVIOUS
  <2>2. PICK k \in Nat : k = (a - 1) + (n + 1)
    OBVIOUS
  <2>3. k \in (a - 1) .. (b - 1) /\ ~(k < a) /\ k - 1 = (a - 1) + n /\ k \in a .. b - 1
    BY <2>1, <2>2
  <2>4. v[k - 1] \in Nat
    BY <1>6, <2>1, <2>3
  <2>5. DigitAt(fm, k) \in Nat
    BY <2>3, DigitNat
  <2>6. v[k] = 10 * v[k - 1] + DigitAt(fm, k)
    BY <1>4, <2>3
  <2>7. QED
    BY <2>2, <2>4, <2>5, <2>6
<1>7. b - a \in G /\ b - a \in Nat /\ (a - 1) + (b - a) = b - 1
  <2>1. \A n \in Nat : n \in G
    BY <1>5, <1>6, NatInSet
  <2>2. QED
    BY <2>1
<1>8. QED
  BY <1>3, <1>7

(* What a width or a precision is made of. *)
LEMMA GetNumFacts ==
  ASSUME NEW fm \in Seq(STRING), NEW k \in 1 .. Len(fm) + 1
  PROVE  /\ GetNum(fm, k).val \in Int
         /\ At(fm, k) = "*" => GetNum(fm, k).val = DYNAMIC /\ GetNum(fm, k).next = k + 1
         /\ At(fm, k) # "*" => /\ GetNum(fm, k).val \in Nat
                              /\ \A x \in k .. GetNum(fm, k).next - 1 : fm[x] \in DigitChars
<1>1. NUL \notin DigitChars
  <2>1. DigitChars = {"0", "1", "2", "3", "4", "5", "6", "7", "8", "9"}
    BY DEF DigitChars, Digits
  <2>2. QED
    BY <2>1 DEF NUL
<1>2. CASE At(fm, k) = "*"
  BY <1>2 DEF GetNum, DYNAMIC
<1>3. CASE At(fm, k) # "*"
  <2>1. PICK j : j = Skip(fm, k, DigitChars)
    OBVIOUS
  <2>2. j \in k .. Len(fm) + 1 /\ \A x \in k .. j - 1 : fm[x] \in DigitChars
    BY <1>1, <2>1, SkipFacts
  <2>3. GetNum(fm, k).val = Decimal(fm, k, j) /\ GetNum(fm, k).next = j
    BY <1>3, <2>1 DEF GetNum
  <2>4. Decimal(fm, k, j) \in Nat
    BY <2>2, AtEnd, DecimalNat
  <2>5. QED
    BY <1>3, <2>2, <2>3, <2>4
<1>4. QED
  BY <1>2, <1>3

(* The parts of a conversion that is accepted: where the flags, the width, *)
(* the precision and the length end, and which characters each holds.      *)
Laid(fm, k, fl, wn, pn, ty) ==
  LET c == Parts(fm, k)
  IN  /\ fl \in (k + 1) .. Len(fm) /\ wn \in fl .. Len(fm) /\ pn \in wn .. Len(fm)
      /\ ty \in pn .. Len(fm) /\ c.type = ty
      /\ \A j \in (k + 1) .. fl - 1 : fm[j] \in Flags
      /\ \A j \in pn .. ty - 1 : fm[j] \in Lengths
      /\ fm[ty] \in Types
      /\ \/ c.width = DYNAMIC /\ fm[fl] = "*" /\ wn = fl + 1
         \/ c.width \in Nat /\ \A j \in fl .. wn - 1 : fm[j] \in DigitChars
      /\ \/ c.prec = 0 /\ pn = wn
         \/ c.prec = DYNAMIC /\ fm[wn] = "." /\ fm[wn + 1] = "*" /\ pn = wn + 2
         \/ /\ c.prec \in Nat /\ fm[wn] = "." /\ pn \in wn + 1 .. Len(fm)
            /\ \A j \in wn + 1 .. pn - 1 : fm[j] \in DigitChars

LEMMA PartsLaid ==
  ASSUME NEW fm \in Seq(STRING), NEW k \in 1 .. Len(fm), FillSpec(fm, k).err = "ok"
  PROVE  \E fl, wn, pn, ty : Laid(fm, k, fl, wn, pn, ty)
<1> DEFINE flags == Skip(fm, k + 1, Flags)
           width == GetNum(fm, flags)
           prec  == IF At(fm, width.next) = "." THEN GetNum(fm, width.next + 1)
                    ELSE [val |-> 0, next |-> width.next]
<1>0. Len(fm) \in Nat /\ k + 1 \in 1 .. Len(fm) + 1 /\ NUL \notin Flags /\ NUL \notin Lengths
      /\ NUL \notin Types
  BY AtEnd DEF NUL, Flags, Lengths, Types
<1>1. PICK fl : fl = flags
  OBVIOUS
<1>2. /\ fl \in (k + 1) .. Len(fm) + 1 /\ fl \in 1 .. Len(fm) + 1
      /\ \A j \in (k + 1) .. fl - 1 : fm[j] \in Flags
  <2>1. PICK a : a = k + 1
    OBVIOUS
  <2>2. a \in 1 .. Len(fm) + 1 /\ fl = Skip(fm, a, Flags)
    BY <1>0, <1>1, <2>1
  <2>3. fl \in a .. Len(fm) + 1 /\ \A j \in a .. fl - 1 : fm[j] \in Flags
    BY <1>0, <2>2, SkipFacts
  <2>4. fl \in 1 .. Len(fm) + 1
    BY <1>0, <2>2, <2>3
  <2>5. QED
    BY <2>1, <2>3, <2>4
<1>3. PICK wn, W : wn = width.next /\ W = width.val
  OBVIOUS
<1>4. wn = GetNum(fm, fl).next /\ W = GetNum(fm, fl).val
  BY <1>1, <1>3
<1>5. wn \in fl .. Len(fm) + 1 /\ wn \in 1 .. Len(fm) + 1
  <2>1. wn \in fl .. Len(fm) + 1
    BY <1>2, <1>4, GetNumNext
  <2>2. QED
    BY <1>0, <1>2, <2>1
<1>6. /\ At(fm, fl) = "*" => W = DYNAMIC /\ wn = fl + 1
      /\ At(fm, fl) # "*" => W \in Nat /\ \A j \in fl .. wn - 1 : fm[j] \in DigitChars
  BY <1>2, <1>4, GetNumFacts
<1>7. PICK pn, P : pn = prec.next /\ P = prec.val
  OBVIOUS
<1>8. \/ P = 0 /\ pn = wn
      \/ At(fm, wn) = "." /\ pn = GetNum(fm, wn + 1).next /\ P = GetNum(fm, wn + 1).val
  BY <1>3, <1>7
<1>9. PICK ty, c : ty = Skip(fm, pn, Lengths) /\ c = Parts(fm, k)
  OBVIOUS
<1>10. c.width = W /\ c.prec = P /\ c.type = ty
  BY <1>1, <1>3, <1>7, <1>9 DEF Parts
<1> HIDE DEF flags, width, prec
<1>11. CASE P = 0 /\ pn = wn
  <2>1. ty \in pn .. Len(fm) + 1 /\ \A j \in pn .. ty - 1 : fm[j] \in Lengths
    BY <1>0, <1>5, <1>9, <1>11, SkipFacts
  <2>2. At(fm, ty) \in Types
    BY <1>9, <1>10, FillParts DEF PartsError
  <2>3. ty \in Nat \ {0}
    BY <1>0, <1>5, <1>11, <2>1
  <2>4. ty <= Len(fm) /\ At(fm, ty) = fm[ty]
    BY <1>0, <2>2, <2>3, AtNul
  <2>5. /\ fl \in (k + 1) .. Len(fm) /\ wn \in fl .. Len(fm) /\ pn \in wn .. Len(fm)
        /\ ty \in pn .. Len(fm)
    BY <1>0, <1>2, <1>5, <1>11, <2>1, <2>4
  <2>6. At(fm, fl) = fm[fl]
    BY <1>0, <2>5 DEF At
  <2>7. Laid(fm, k, fl, wn, pn, ty)
    BY <1>2, <1>6, <1>9, <1>10, <1>11, <2>1, <2>2, <2>4, <2>5, <2>6 DEF Laid
  <2>8. QED
    BY <2>7
<1>12. CASE At(fm, wn) = "." /\ pn = GetNum(fm, wn + 1).next /\ P = GetNum(fm, wn + 1).val
  <2>0. wn + 1 \in 1 .. Len(fm) + 1 /\ fm[wn] = "."
    BY <1>0, <1>5, <1>12, AtNul DEF NUL
  <2>1. pn \in wn + 1 .. Len(fm) + 1
    BY <1>12, <2>0, GetNumNext
  <2>2. /\ At(fm, wn + 1) = "*" => P = DYNAMIC /\ pn = wn + 1 + 1
        /\ At(fm, wn + 1) # "*" => P \in Nat /\ \A j \in wn + 1 .. pn - 1 : fm[j] \in DigitChars
    BY <1>12, <2>0, GetNumFacts
  <2>3. pn \in 1 .. Len(fm) + 1
    BY <1>0, <2>0, <2>1
  <2>4. ty \in pn .. Len(fm) + 1 /\ \A j \in pn .. ty - 1 : fm[j] \in Lengths
    BY <1>0, <1>9, <2>3, SkipFacts
  <2>5. At(fm, ty) \in Types
    BY <1>9, <1>10, FillParts DEF PartsError
  <2>6. ty \in Nat \ {0}
    BY <1>0, <2>3, <2>4
  <2>7. ty <= Len(fm) /\ At(fm, ty) = fm[ty]
    BY <1>0, <2>5, <2>6, AtNul
  <2>8. /\ fl \in (k + 1) .. Len(fm) /\ wn \in fl .. Len(fm) /\ pn \in wn .. Len(fm)
        /\ ty \in pn .. Len(fm) /\ pn \in wn + 1 .. Len(fm) /\ wn + 1 \in 1 .. Len(fm)
        /\ wn + 1 + 1 = wn + 2
    BY <1>0, <1>2, <1>5, <2>0, <2>1, <2>4, <2>7
  <2>9. At(fm, fl) = fm[fl] /\ At(fm, wn + 1) = fm[wn + 1]
    BY <1>0, <2>8 DEF At
  <2>10. Laid(fm, k, fl, wn, pn, ty)
    BY <1>2, <1>6, <1>9, <1>10, <2>0, <2>2, <2>4, <2>5, <2>7, <2>8, <2>9 DEF Laid
  <2>11. QED
    BY <2>10
<1>13. QED
  BY <1>8, <1>11, <1>12

(* A conversion has as many stars as num_params counts arguments besides   *)
(* the value, and a precision only behind a point.                         *)
LEMMA StarFacts ==
  ASSUME NEW fm \in Seq(STRING), NEW k \in 1 .. Len(fm), FillSpec(fm, k).err = "ok",
         fm[k] = "%"
  PROVE  /\ Parts(fm, k).width \in Int /\ Parts(fm, k).prec \in Int
         /\ Cardinality({j \in k .. (FillSpec(fm, k).next - 1) : fm[j] = "*"})
              = Dyn(Parts(fm, k).width) + Dyn(Parts(fm, k).prec)
         /\ CountSpec(fm, k).args = 1 + Dyn(Parts(fm, k).width) + Dyn(Parts(fm, k).prec)
         /\ \/ Parts(fm, k).prec = 0
            \/ \E j \in k .. (FillSpec(fm, k).next - 1) : fm[j] = "."
<1>1. PICK fl, wn, pn, ty : Laid(fm, k, fl, wn, pn, ty)
  BY PartsLaid
<1>2. PICK c, S : c = Parts(fm, k) /\ S = {j \in k .. (FillSpec(fm, k).next - 1) : fm[j] = "*"}
  OBVIOUS
<1>3. Len(fm) \in Nat
  BY AtEnd
<1>4. /\ fl \in (k + 1) .. Len(fm) /\ wn \in fl .. Len(fm) /\ pn \in wn .. Len(fm)
      /\ ty \in pn .. Len(fm) /\ c.type = ty
      /\ \A j \in (k + 1) .. fl - 1 : fm[j] \in Flags
      /\ \A j \in pn .. ty - 1 : fm[j] \in Lengths
      /\ fm[ty] \in Types
      /\ \/ c.width = DYNAMIC /\ fm[fl] = "*" /\ wn = fl + 1
         \/ c.width \in Nat /\ \A j \in fl .. wn - 1 : fm[j] \in DigitChars
      /\ \/ c.prec = 0 /\ pn = wn
         \/ c.prec = DYNAMIC /\ fm[wn] = "." /\ fm[wn + 1] = "*" /\ pn = wn + 2
         \/ /\ c.prec \in Nat /\ fm[wn] = "." /\ pn \in wn + 1 .. Len(fm)
            /\ \A j \in wn + 1 .. pn - 1 : fm[j] \in DigitChars
  BY <1>1, <1>2 DEF Laid
<1>5. FillSpec(fm, k).next - 1 = ty
  BY <1>2, <1>3, <1>4, FillParts
<1>6. "*" \notin Flags /\ "*" \notin Lengths /\ "*" \notin Types /\ "*" \notin DigitChars
  <2>1. DigitChars = {"0", "1", "2", "3", "4", "5", "6", "7", "8", "9"}
    BY DEF DigitChars, Digits
  <2>2. QED
    BY <2>1 DEF Flags, Lengths, Types
<1>7. c.width \in Int /\ c.prec \in Int /\ DYNAMIC \notin Nat
  BY <1>4 DEF DYNAMIC
<1>8. CountSpec(fm, k).args = 1 + Dyn(c.width) + Dyn(c.prec)
  BY <1>2, CountParts DEF Dyn
<1>9. c.prec = 0 \/ \E j \in k .. ty : fm[j] = "."
  <2>1. wn \in k .. ty
    BY <1>3, <1>4
  <2>2. QED
    BY <1>4, <2>1
<1>10. PICK A, B : /\ A = (IF c.width = DYNAMIC THEN {fl} ELSE {})
                   /\ B = (IF c.prec = DYNAMIC THEN {wn + 1} ELSE {})
  OBVIOUS
<1>11. ASSUME NEW j \in k .. ty, fm[j] = "*" PROVE j \in A \cup B
  <2>1. j # k /\ ~(j \in (k + 1) .. fl - 1) /\ ~(j \in pn .. ty - 1) /\ j # ty
    BY <1>4, <1>6, <1>11
  <2>2. j \in fl .. wn - 1 \/ j \in wn .. pn - 1
    BY <1>3, <1>4, <2>1
  <2>3. CASE j \in fl .. wn - 1
    <3>1. c.width = DYNAMIC /\ fm[fl] = "*" /\ wn = fl + 1
      BY <1>4, <1>6, <1>11, <2>3
    <3>2. j = fl
      BY <1>4, <2>3, <3>1
    <3>3. QED
      BY <1>10, <3>1, <3>2
  <2>4. CASE j \in wn .. pn - 1
    <3>1. fm[wn] = "."
      BY <1>3, <1>4, <2>4
    <3>2. j \in wn + 1 .. pn - 1
      BY <1>3, <1>4, <1>11, <2>4, <3>1
    <3>3. c.prec = DYNAMIC /\ pn = wn + 2
      BY <1>3, <1>4, <1>6, <1>11, <3>2
    <3>4. j = wn + 1
      BY <1>4, <3>2, <3>3
    <3>5. QED
      BY <1>10, <3>3, <3>4
  <2>5. QED
    BY <2>2, <2>3, <2>4
<1>12. ASSUME NEW j \in A \cup B PROVE j \in k .. ty /\ fm[j] = "*"
  <2>1. CASE j \in A
    <3>1. c.width = DYNAMIC /\ j = fl
      BY <1>10, <2>1
    <3>2. QED
      BY <1>3, <1>4, <1>7, <3>1
  <2>2. CASE j \in B
    <3>1. c.prec = DYNAMIC /\ j = wn + 1
      BY <1>10, <2>2
    <3>2. fm[wn + 1] = "*" /\ pn = wn + 2
      BY <1>4, <1>7, <3>1 DEF DYNAMIC
    <3>3. QED
      BY <1>3, <1>4, <3>1, <3>2
  <2>3. QED
    BY <2>1, <2>2
<1>13. S = A \cup B
  BY <1>2, <1>5, <1>11, <1>12
<1>14. Cardinality(S) = Dyn(c.width) + Dyn(c.prec)
  <2>1. IsFiniteSet({}) /\ Cardinality({}) = 0
    BY FS_EmptySet
  <2>2. Cardinality({fl}) = 1 /\ IsFiniteSet({fl}) /\ Cardinality({wn + 1}) = 1
    BY FS_Singleton
  <2>3. fl # wn + 1
    BY <1>3, <1>4
  <2>4. IsFiniteSet({fl} \cup {wn + 1}) /\ Cardinality({fl} \cup {wn + 1}) = 1 + 1
    <3>1. wn + 1 \notin {fl}
      BY <2>3
    <3>2. QED
      BY <2>2, <3>1, FS_AddElement
  <2>5. CASE c.width = DYNAMIC /\ c.prec = DYNAMIC
    BY <1>10, <1>13, <2>4, <2>5 DEF Dyn
  <2>6. CASE c.width = DYNAMIC /\ c.prec # DYNAMIC
    <3>1. S = {fl}
      BY <1>10, <1>13, <2>6
    <3>2. QED
      BY <2>2, <2>6, <3>1 DEF Dyn
  <2>7. CASE c.width # DYNAMIC /\ c.prec = DYNAMIC
    <3>1. S = {wn + 1}
      BY <1>10, <1>13, <2>7
    <3>2. QED
      BY <2>2, <2>7, <3>1 DEF Dyn
  <2>8. CASE c.width # DYNAMIC /\ c.prec # DYNAMIC
    <3>1. S = {}
      BY <1>10, <1>13, <2>8
    <3>2. QED
      BY <2>1, <2>8, <3>1 DEF Dyn
  <2>9. QED
    BY <2>5, <2>6, <2>7, <2>8
<1>15. QED
  BY <1>2, <1>5, <1>7, <1>8, <1>9, <1>14

(* The search ends at a % or behind the format. *)
LEMMA ConvFound ==
  ASSUME NEW fm \in Seq(STRING), NEW k \in 1 .. Len(fm) + 1, CountNext(fm, k) <= Len(fm)
  PROVE  fm[CountNext(fm, k)] = "%"
<1> DEFINE g == CHOOSE g : IsSearch(fm, k, g)
           end == Len(fm) + 1
           T == {m \in Nat : m <= end - k /\ ~(g[end - m] = end \/ fm[g[end - m]] = "%")}
<1>1. IsSearch(fm, k, g)
  BY SearchExists
<1>2. CountNext(fm, k) = g[k]
  BY Zenon DEF CountNext, IsSearch, ConvAt
<1> HIDE DEF g
<1>3. end \in Nat /\ k \in Nat /\ Len(fm) \in Nat
  BY AtEnd
<1>4. \A x \in k .. end : g[x] = ConvAt(fm, g, x)
  BY <1>1, <1>3, SMTT(40) DEF IsSearch
<1>5. ASSUME T # {} PROVE FALSE
  <2>1. PICK m \in T : \A y \in T : m <= y
    BY <1>5, LeastNat
  <2>2. m \in Nat /\ m <= end - k /\ ~(g[end - m] = end \/ fm[g[end - m]] = "%")
    BY <2>1
  <2>3. ASSUME NEW y \in Nat, y < m PROVE g[end - y] = end \/ fm[g[end - y]] = "%"
    BY <1>3, <2>1, <2>2, <2>3
  <2> DEFINE x == end - m
  <2>4. x \in k .. end /\ x \in Nat /\ g[x] = ConvAt(fm, g, x)
    BY <1>3, <1>4, <2>2
  <2>5. x < end
    BY <1>3, <2>2, <2>4 DEF ConvAt
  <2>6. g[x + 1] = end \/ fm[g[x + 1]] = "%"
    <3>1. m - 1 \in Nat /\ m - 1 < m /\ end - (m - 1) = x + 1
      BY <1>3, <2>2, <2>5
    <3>2. QED
      BY <2>3, <3>1
  <2>7. ASSUME At(fm, x + 1) = "%" PROVE g[x + 2] = end \/ fm[g[x + 2]] = "%"
    <3>1. x + 1 <= Len(fm)
      BY <1>3, <2>4, <2>7, AtNul DEF NUL
    <3>2. m - 2 \in Nat /\ m - 2 < m /\ end - (m - 2) = x + 2
      BY <1>3, <2>2, <2>5, <3>1
    <3>3. QED
      BY <2>3, <3>2
  <2>8. g[x] = end \/ fm[g[x]] = "%"
    BY <1>3, <2>4, <2>5, <2>6, <2>7 DEF ConvAt
  <2>9. QED
    BY <2>2, <2>8
<1>6. end - k \in Nat /\ end - k \notin T /\ end - (end - k) = k
  <2>1. end - k \in Nat /\ end - (end - k) = k
    BY <1>3
  <2>2. QED
    BY <1>5, <2>1
<1>7. g[k] = end \/ fm[g[k]] = "%"
  BY <1>3, <1>6
<1>8. QED
  BY <1>2, <1>3, <1>7

-----------------------------------------------------------------------------
(* The arguments of a call, as num_params counts them: a[k] are those of   *)
(* the first k entries.                                                    *)
Arguments(k) == CountSpec(fmt, prim.specs[k].begin).args
ArgTable(a, n) ==
  /\ a \in [0 .. n -> Nat] /\ a[0] = 0
  /\ \A m \in 0 .. n - 1 : a[m + 1] = a[m] + Arguments(m + 1)

Marked == \A k \in DOMAIN prim.specs : fmt[prim.specs[k].begin] = "%"

(* The width and the precision that the format has for an entry. *)
LEMMA WideParts ==
  ASSUME NEW k
  PROVE  /\ Wide(k).val = Parts(fmt, prim.specs[k].begin).width
         /\ Precise(k) = Parts(fmt, prim.specs[k].begin).prec
<1>1. Wide(k).val = Parts(fmt, prim.specs[k].begin).width
  BY DEF Wide, Parts
<1>2. Precise(k) = Parts(fmt, prim.specs[k].begin).prec
  BY DEF Wide, Precise, Parts
<1>3. QED
  BY <1>1, <1>2

LEMMA FollowedKept ==
  ASSUME fmt' = fmt, prim' = prim
  PROVE  Followed' <=> Followed
  BY DEF Followed, NumbersAreNumbers, Wide, Precise

LEMMA ArgumentsOf ==
  ASSUME Shape, Marked, NEW k \in 1 .. Len(prim.specs)
  PROVE  LET c == Parts(fmt, prim.specs[k].begin)
             s == prim.specs[k]
         IN  /\ Arguments(k) = 1 + Dyn(c.width) + Dyn(c.prec)
             /\ Stars(k) = Dyn(c.width) + Dyn(c.prec)
             /\ Dyn(c.width) \in 0 .. 1 /\ Dyn(c.prec) \in 0 .. 1
             /\ c.width \in Int /\ c.prec \in Int
             /\ s.width = InField(c.width) /\ s.precision = InField(c.prec)
             /\ c.prec = 0 \/ \E j \in s.begin .. (s.next - 1) : fmt[j] = "."
<1>1. fmt \in Seq(STRING) /\ prim.specs[k] \in SpecSet /\ k \in DOMAIN prim.specs
  BY ShapeFacts
<1>2. PICK j \in 1 .. Len(fmt) : FillSpec(fmt, j).err = "ok" /\ prim.specs[k] = FillSpec(fmt, j)
  BY <1>1 DEF SpecSet
<1>3. /\ FillSpec(fmt, j).begin = j
      /\ FillSpec(fmt, j).width = InField(Parts(fmt, j).width)
      /\ FillSpec(fmt, j).precision = InField(Parts(fmt, j).prec)
  BY FillParts
<1>4. fmt[j] = "%"
  BY <1>1, <1>2, <1>3 DEF Marked
<1>5. PICK c : c = Parts(fmt, j)
  OBVIOUS
<1>6. /\ c.width \in Int /\ c.prec \in Int
      /\ Cardinality({x \in j .. (FillSpec(fmt, j).next - 1) : fmt[x] = "*"})
              = Dyn(c.width) + Dyn(c.prec)
      /\ CountSpec(fmt, j).args = 1 + Dyn(c.width) + Dyn(c.prec)
      /\ c.prec = 0 \/ \E x \in j .. (FillSpec(fmt, j).next - 1) : fmt[x] = "."
  BY <1>1, <1>2, <1>4, <1>5, StarFacts
<1>7. Dyn(c.width) \in 0 .. 1 /\ Dyn(c.prec) \in 0 .. 1
  BY DEF Dyn
<1>8. prim.specs[k].begin = j
  BY <1>2, <1>3
<1>9. Stars(k) = Dyn(c.width) + Dyn(c.prec)
  BY <1>2, <1>6, <1>8 DEF Stars, Within
<1>10. Arguments(k) = 1 + Dyn(c.width) + Dyn(c.prec)
  BY <1>6, <1>8 DEF Arguments
<1>11. QED
  BY <1>2, <1>3, <1>5, <1>6, <1>7, <1>8, <1>9, <1>10

IsUpTo(u, k) == u = [m \in 0 .. k |-> IF m = 0 THEN 0 ELSE u[m - 1] + Stars(m) + 1]

(* The rules of C for the arguments give the same table. *)
LEMMA ArgOfTable ==
  ASSUME Shape, Marked, NEW a, ArgTable(a, Len(prim.specs)), NEW k \in 1 .. Len(prim.specs)
  PROVE  /\ ArgOf(k, "value") = a[k]
         /\ ArgOf(k, "precision") = a[k] - 1
         /\ ArgOf(k, "width") = a[k] - Stars(k)
<1>1. PICK n \in Nat : n = Len(prim.specs)
  BY ShapeFacts
<1>2. \A m \in 1 .. n : Arguments(m) = Stars(m) + 1 /\ Stars(m) \in Nat
  BY <1>1, ArgumentsOf, SMTT(40)
<1>3. a \in [0 .. n -> Nat] /\ a[0] = 0
  BY <1>1 DEF ArgTable
<1>4. ASSUME NEW m \in 1 .. n PROVE a[m] = a[m - 1] + Stars(m) + 1 /\ a[m - 1] \in Nat
  <2>1. m - 1 \in 0 .. n - 1 /\ (m - 1) + 1 = m /\ m - 1 \in 0 .. n
    OBVIOUS
  <2>2. a[m] = a[m - 1] + Arguments(m)
    BY <1>1, <2>1 DEF ArgTable
  <2>3. QED
    BY <1>2, <1>3, <2>1, <2>2
<1>5. PICK b : b = [m \in 0 .. k |-> a[m]]
  OBVIOUS
<1>6. IsUpTo(b, k)
  <2>1. ASSUME NEW m \in 0 .. k PROVE b[m] = IF m = 0 THEN 0 ELSE b[m - 1] + Stars(m) + 1
    <3>1. CASE m = 0
      BY <1>3, <1>5, <3>1
    <3>2. CASE m # 0
      <4>1. m \in 1 .. n /\ m - 1 \in 0 .. k
        BY <1>1, <3>2
      <4>2. QED
        BY <1>4, <1>5, <3>2, <4>1
    <3>3. QED
      BY <3>1, <3>2
  <2>2. b = [m \in 0 .. k |-> b[m]]
    BY <1>5
  <2>3. QED
    BY <2>1, <2>2 DEF IsUpTo
<1>7. PICK u : u = CHOOSE x : IsUpTo(x, k)
  OBVIOUS
<1>8. IsUpTo(u, k)
  BY <1>6, <1>7, Zenon
<1>9. \A m \in 0 .. k : u[m] = IF m = 0 THEN 0 ELSE u[m - 1] + Stars(m) + 1
  BY <1>8, Zenon DEF IsUpTo
<1>10. u[k] = a[k]
  <2> DEFINE G == {m \in Nat : m <= k => u[m] = a[m]}
  <2>1. 0 \in G
    BY <1>3, <1>9
  <2>2. ASSUME NEW m \in Nat, m \in G PROVE m + 1 \in G
    <3>1. SUFFICES ASSUME m + 1 <= k PROVE u[m + 1] = a[m + 1]
      OBVIOUS
    <3>2. m + 1 \in 0 .. k /\ m + 1 # 0 /\ (m + 1) - 1 = m /\ m + 1 \in 1 .. n
      BY <1>1, <3>1
    <3>3. u[m] = a[m]
      BY <2>2, <3>1
    <3>4. u[m + 1] = u[m] + Stars(m + 1) + 1
      BY <1>9, <3>2
    <3>5. a[m + 1] = a[m] + Stars(m + 1) + 1
      BY <1>4, <3>2
    <3>6. QED
      BY <3>3, <3>4, <3>5
  <2>3. \A m \in Nat : m \in G
    <3> HIDE DEF G
    <3>1. QED
      BY <2>1, <2>2, NatInSet
  <2>4. QED
    BY <2>3
<1>11. ArgOf(k, "value") = u[k]
  BY <1>7, Zenon DEF ArgOf, IsUpTo
<1>12. ArgOf(k, "precision") = u[k] - 1
  BY <1>7, Zenon DEF ArgOf, IsUpTo
<1>13. ArgOf(k, "width") = u[k] - Stars(k)
  BY <1>7, Zenon DEF ArgOf, IsUpTo
<1>14. QED
  BY <1>10, <1>11, <1>12, <1>13

-----------------------------------------------------------------------------
(* The cursor in the va_list.                                              *)

(* num_params on its way: b[m] are the arguments of the first m            *)
(* conversions it went over.                                               *)
Adding(q, b, n) ==
  /\ Rounds(q, n) /\ b \in [0 .. n -> Nat] /\ b[0] = 0
  /\ \A m \in 0 .. n - 1 : b[m + 1] = b[m] + CountSpec(fmt, CountNext(fmt, q[m])).args

(* num_args is the number of arguments of the entries. *)
Arity ==
  /\ pc = "count" =>
       \E q, b : /\ Adding(q, b, prim.num_params) /\ q[prim.num_params] = pos
                 /\ b[prim.num_params] = prim.num_args
  /\ pc = "fill" =>
       \E q, b :
         /\ Adding(q, b, prim.num_params) /\ q[Len(prim.specs)] = pos
         /\ b[prim.num_params] = prim.num_args
         /\ \A m \in 1 .. Len(prim.specs) : prim.specs[m].begin = CountNext(fmt, q[m - 1])
  /\ pc \in Read \cup {"size"} =>
       \E a : ArgTable(a, prim.num_params) /\ a[prim.num_params] = prim.num_args
  /\ pc \in Generating => va = 0

(* serialize has taken the arguments of the entries before it, and each    *)
(* slot holds its own.                                                     *)
ArgIn(a, k, r) ==
  CASE r = "value"     -> a[k]
    [] r = "precision" -> a[k] - 1
    [] r = "width"     -> a[k - 1] + 1

Owned ==
  pc \in Read /\ Followed =>
    \A a : ArgTable(a, prim.num_params) =>
      va = a[Reach - 1] /\ \A s \in slots : s.arg = ArgIn(a, s.conv, s.role)

(* str_cache has an entry for every string so far. *)
StrEntries(n) == {k \in 1 .. n : prim.specs[k].fmt_type = "STR"}
OnePerString == pc \in Read => Len(strs) = Cardinality(StrEntries(Reach - 1))

(* A cached string has the length its precision leaves. *)
CutRight(spec, sl, k, x) ==
  /\ x.len \in Nat
  /\ \E v \in Int :
       /\ x.copy = CopyLen(spec, v, x.len)
       /\ IF spec.precision = DYNAMIC
          THEN \A t \in sl : t.conv = k /\ t.role = "precision" => t.val = v
          ELSE v = spec.precision

CutByPrecision ==
  pc \in Read /\ Followed =>
    /\ \A m \in 1 .. Len(strs) : strs[m].arg \in Nat /\ strs[m].arg <= va
    /\ \A s \in slots : s.role = "value" /\ prim.specs[s.conv].fmt_type = "STR" =>
         \A m \in 1 .. Len(strs) : strs[m].arg = s.arg =>
           CutRight(prim.specs[s.conv], slots, s.conv, strs[m])

CallInv == Marked /\ Arity /\ Owned /\ OnePerString /\ CutByPrecision

(* While the format is read there is no argument yet. *)
LEMMA NoArgumentsYet ==
  ASSUME pc' \in Generating
  PROVE  Owned' /\ OnePerString' /\ CutByPrecision'
BY DEF Owned, OnePerString, CutByPrecision, Generating, Read

LEMMA InitCall == Init => CallInv
<1> SUFFICES ASSUME Init PROVE CallInv
  OBVIOUS
<1>1. pc = "count" /\ va = 0 /\ pos = 1 /\ prim.specs = <<>> /\ prim.num_params = 0 /\ prim.num_args = 0
  BY DEF Init, NoPrimitive
<1>2. Marked
  BY <1>1 DEF Marked
<1>3. Owned /\ OnePerString /\ CutByPrecision
  BY <1>1 DEF Owned, OnePerString, CutByPrecision, Read
<1>4. Adding([m \in 0 .. 0 |-> 1], [m \in 0 .. 0 |-> 0], 0)
  <2>1. Rounds([m \in 0 .. 0 |-> 1], 0)
    BY OneRound, InitRead DEF ReadInv
  <2>2. 0 .. 0 - 1 = {}
    OBVIOUS
  <2>3. QED
    BY <2>1, <2>2 DEF Adding
<1>5. Arity
  BY <1>1, <1>4 DEF Arity, Read
<1>6. QED
  BY <1>2, <1>3, <1>5 DEF CallInv

LEMMA FailCall ==
  ASSUME CallInv, NEW e, Fail(e), pc \in Generating
  PROVE  CallInv'
<1>1. pc' = "failed" /\ prim' = NoPrimitive /\ va' = va
  BY DEF Fail, call
<1>2. prim'.specs = <<>>
  BY <1>1 DEF NoPrimitive
<1>3. Marked' /\ Arity'
  BY <1>1, <1>2 DEF Marked, Arity, Read, CallInv
<1>4. QED
  BY <1>1, <1>3, NoArgumentsYet DEF CallInv, Generating

LEMMA CountCall ==
  ASSUME ReadInv, CallInv, CountConv
  PROVE  CallInv'
<1>0. PICK n : n = prim.num_params
  OBVIOUS
<1>1. PICK k : k = CountNext(fmt, pos)
  OBVIOUS
<1>2. /\ pc = "count" /\ k <= Len(fmt)
      /\ \/ CountSpec(fmt, k).err # "ok" /\ Fail(CountSpec(fmt, k).err)
         \/ /\ CountSpec(fmt, k).err = "ok"
            /\ prim' = [prim EXCEPT !.num_params = @ + 1, !.num_args = @ + CountSpec(fmt, k).args]
            /\ pos' = CountSpec(fmt, k).next
            /\ UNCHANGED <<site, pc, err, call>>
  BY <1>1 DEF CountConv
<1>3. CASE CountSpec(fmt, k).err # "ok" /\ Fail(CountSpec(fmt, k).err)
  BY <1>2, <1>3, FailCall DEF Generating
<1>4. CASE /\ CountSpec(fmt, k).err = "ok"
           /\ prim' = [prim EXCEPT !.num_params = @ + 1, !.num_args = @ + CountSpec(fmt, k).args]
           /\ pos' = CountSpec(fmt, k).next
           /\ UNCHANGED <<site, pc, err, call>>
  <2>1. /\ Shape /\ fmt \in Seq(STRING) /\ Len(fmt) \in Nat /\ pos \in 1 .. Len(fmt) + 1
        /\ n \in Nat /\ prim.num_args \in Nat
    BY <1>0, ShapeFacts DEF ReadInv, Shape
  <2>2. fmt' = fmt /\ pc' = "count" /\ va' = va
    BY <1>2, <1>4 DEF site, call
  <2>3. k \in 1 .. Len(fmt)
    <3>1. k \in pos .. Len(fmt) + 1
      BY <1>1, <2>1, CountNextType
    <3>2. QED
      BY <1>2, <2>1, <3>1
  <2>4. PICK x \in Nat : x = CountSpec(fmt, k).args
    BY <2>1, <2>3, SpecFacts
  <2>5. /\ prim'.specs = prim.specs /\ prim'.num_params = n + 1
        /\ prim'.num_args = prim.num_args + x
    BY <1>0, <1>4, <2>1, <2>4 DEF Shape
  <2>6. PICK pn : pn = pos'
    OBVIOUS
  <2>7. pn = CountSpec(fmt, k).next /\ pn \in 1 .. Len(fmt) + 1
    <3>1. pn = CountSpec(fmt, k).next /\ pn \in (k + 1) .. Len(fmt) + 1
      BY <1>4, <2>1, <2>3, <2>6, SpecFacts
    <3>2. QED
      BY <2>1, <2>3, <3>1
  <2>8. PICK q, b : Adding(q, b, n) /\ q[n] = pos /\ b[n] = prim.num_args
    BY <1>0, <1>2 DEF CallInv, Arity
  <2>9. PICK r, d : /\ r = [m \in 0 .. n + 1 |-> IF m = n + 1 THEN pn ELSE q[m]]
                    /\ d = [m \in 0 .. n + 1 |-> IF m = n + 1 THEN b[n] + x ELSE b[m]]
    OBVIOUS
  <2>10. /\ r \in [0 .. n + 1 -> 1 .. Len(fmt) + 1] /\ r[0] = 1 /\ r[n + 1] = pn
         /\ \A m \in 0 .. n : r[m] = q[m]
    BY <2>1, <2>7, <2>8, <2>9 DEF Adding, Rounds
  <2>11. /\ d \in [0 .. n + 1 -> Nat] /\ d[0] = 0 /\ d[n + 1] = b[n] + x
         /\ \A m \in 0 .. n : d[m] = b[m]
    <3>1. b \in [0 .. n -> Nat] /\ b[0] = 0 /\ b[n] \in Nat
      BY <2>1, <2>8 DEF Adding
    <3>2. \A m \in 0 .. n + 1 : m = n + 1 \/ m \in 0 .. n
      BY <2>1
    <3>3. \A m \in 0 .. n + 1 : (IF m = n + 1 THEN b[n] + x ELSE b[m]) \in Nat
      BY <3>1, <3>2
    <3>4. d \in [0 .. n + 1 -> Nat]
      BY <2>9, <3>3
    <3>5. QED
      BY <2>1, <2>9, <3>1, <3>4
  <2>12. ASSUME NEW m \in 0 .. n
         PROVE  /\ CountNext(fmt, r[m]) <= Len(fmt)
                /\ CountSpec(fmt, CountNext(fmt, r[m])).err = "ok"
                /\ r[m + 1] = CountSpec(fmt, CountNext(fmt, r[m])).next
                /\ d[m + 1] = d[m] + CountSpec(fmt, CountNext(fmt, r[m])).args
    <3>1. CASE m = n
      BY <1>1, <1>2, <1>4, <2>4, <2>7, <2>8, <2>10, <2>11, <3>1
    <3>2. CASE m # n
      <4>1. m \in 0 .. n - 1 /\ m + 1 \in 0 .. n
        BY <2>1, <3>2
      <4>2. QED
        BY <2>8, <2>10, <2>11, <4>1 DEF Adding, Rounds
    <3>3. QED
      BY <3>1, <3>2
  <2>13. Adding(r, d, n + 1)
    <3>1. (n + 1) - 1 = n
      BY <2>1
    <3>2. Rounds(r, n + 1)
      BY <2>10, <2>12, <3>1 DEF Rounds
    <3>3. QED
      BY <2>11, <2>12, <3>1, <3>2 DEF Adding
  <2>14. Adding(r, d, n + 1)'
    BY <2>2, <2>13 DEF Adding, Rounds
  <2>15. r[n + 1] = pos' /\ d[n + 1] = prim'.num_args
    BY <2>5, <2>6, <2>8, <2>10, <2>11
  <2>16. Arity'
    <3>1. \E u, z : /\ Adding(u, z, prim.num_params)' /\ u[prim'.num_params] = pos'
                    /\ z[prim'.num_params] = prim'.num_args
      BY <2>5, <2>14, <2>15
    <3>2. va' = 0
      BY <1>2, <2>2 DEF CallInv, Arity, Generating
    <3>3. QED
      BY <2>2, <3>1, <3>2 DEF Arity, Read
  <2>17. Marked'
    BY <2>2, <2>5 DEF CallInv, Marked
  <2>18. QED
    BY <2>2, <2>16, <2>17, NoArgumentsYet DEF CallInv, Generating
<1>5. QED
  BY <1>2, <1>3, <1>4

LEMMA AllocateCall ==
  ASSUME ReadInv, CallInv, Allocate
  PROVE  CallInv'
<1>1. pc = "count"
  BY DEF Allocate
<1>2. CASE Fail("HACLOG_ERR_ALLOC_MEM")
  BY <1>1, <1>2, FailCall DEF Generating
<1>3. CASE pc' = "fill" /\ pos' = 1 /\ UNCHANGED <<site, err, prim, call>>
  <2>1. fmt' = fmt /\ prim' = prim /\ va' = va
    BY <1>3 DEF site, call
  <2>2. prim.specs = <<>> /\ Len(prim.specs) = 0
    BY <1>1 DEF ReadInv, Counted
  <2>3. PICK n : n = prim.num_params
    OBVIOUS
  <2>4. PICK q, b : Adding(q, b, n) /\ b[n] = prim.num_args
    BY <1>1, <2>3 DEF CallInv, Arity
  <2>5. Adding(q, b, n)' /\ q[0] = 1
    BY <2>1, <2>4 DEF Adding, Rounds
  <2>6. \A m \in 1 .. Len(prim'.specs) : prim'.specs[m].begin = CountNext(fmt', q[m - 1])
    BY <2>1, <2>2
  <2>7. va' = 0
    BY <1>1, <2>1 DEF CallInv, Arity, Generating
  <2>8. Arity'
    BY <1>3, <2>1, <2>2, <2>3, <2>4, <2>5, <2>6, <2>7 DEF Arity, Read
  <2>9. Marked'
    BY <2>1 DEF CallInv, Marked
  <2>10. QED
    BY <1>3, <2>8, <2>9, NoArgumentsYet DEF CallInv, Generating
<1>4. QED
  BY <1>2, <1>3 DEF Allocate

LEMMA FillCall ==
  ASSUME ReadInv, CallInv, FillConv
  PROVE  CallInv'
<1>0. PICK n, l : n = prim.num_params /\ l = Len(prim.specs)
  OBVIOUS
<1>1. PICK k : k = CountNext(fmt, pos)
  OBVIOUS
<1>2. /\ Shape /\ fmt \in Seq(STRING) /\ Len(fmt) \in Nat /\ pos \in 1 .. Len(fmt) + 1
      /\ n \in Nat /\ l \in Nat /\ pc = "fill" /\ l < n
  BY <1>0, ShapeFacts DEF ReadInv, Shape, FillConv
<1>3. PICK q, b : /\ Adding(q, b, n) /\ q[l] = pos /\ b[n] = prim.num_args
                  /\ \A m \in 1 .. l : prim.specs[m].begin = CountNext(fmt, q[m - 1])
  BY <1>0, <1>2 DEF CallInv, Arity
<1>4. /\ k <= Len(fmt) /\ CountSpec(fmt, k).err = "ok" /\ q[l + 1] = CountSpec(fmt, k).next
  <2>1. l \in 0 .. n - 1
    BY <1>2
  <2>2. QED
    BY <1>1, <1>3, <2>1 DEF Adding, Rounds
<1>5. k \in 1 .. Len(fmt) /\ fmt[k] = "%"
  <2>1. k \in pos .. Len(fmt) + 1
    BY <1>1, <1>2, CountNextType
  <2>2. fmt[k] = "%"
    BY <1>1, <1>2, <1>4, ConvFound
  <2>3. QED
    BY <1>2, <1>4, <2>1, <2>2
<1>6. PICK s : s = FillSpec(fmt, k)
  OBVIOUS
<1>7. s.err = "ok" /\ s.next = q[l + 1] /\ s.begin = k /\ s \in SpecSet
  <2>1. s.err = "ok" /\ s.next = q[l + 1] /\ s.begin = k
    BY <1>2, <1>4, <1>5, <1>6, SpecFacts
  <2>2. QED
    BY <1>5, <1>6, <2>1 DEF SpecSet
<1>8. /\ prim' = [prim EXCEPT !.specs = Append(@, s)] /\ pos' = s.next
      /\ UNCHANGED <<site, pc, err, counted, call>>
  <2>1. k = FillNext(fmt, pos)
    BY <1>1, SameSearch
  <2>2. QED
    BY <1>6, <1>7, <2>1 DEF FillConv
<1>9. fmt' = fmt /\ pc' = "fill" /\ va' = va
  BY <1>2, <1>8 DEF site, call
<1>10. /\ prim'.specs = Append(prim.specs, s) /\ prim'.num_params = n
       /\ prim'.num_args = prim.num_args
  BY <1>0, <1>2, <1>8 DEF Shape
<1>11. /\ Len(prim'.specs) = l + 1 /\ DOMAIN prim'.specs = 1 .. l + 1
       /\ prim'.specs[l + 1] = s
       /\ \A m \in 1 .. l : prim'.specs[m] = prim.specs[m]
  <2>1. prim.specs \in Seq(SpecSet)
    BY <1>2, ShapeFacts
  <2>2. QED
    BY <1>0, <1>2, <1>7, <1>10, <2>1
<1>12. \A m \in 1 .. l + 1 : m = l + 1 \/ m \in 1 .. l
  BY <1>2
<1>13. Marked'
  <2>1. \A m \in 1 .. l : fmt[prim.specs[m].begin] = "%"
    BY <1>0, <1>2, ShapeFacts DEF CallInv, Marked
  <2>2. \A m \in 1 .. l + 1 : fmt[prim'.specs[m].begin] = "%"
    BY <1>5, <1>7, <1>11, <1>12, <2>1
  <2>3. QED
    BY <1>9, <1>11, <2>2 DEF Marked
<1>14. Arity'
  <2>1. Adding(q, b, n)'
    BY <1>3, <1>9 DEF Adding, Rounds
  <2>2. (l + 1) - 1 = l
    BY <1>2
  <2>3. \A m \in 1 .. l + 1 : prim'.specs[m].begin = CountNext(fmt, q[m - 1])
    BY <1>1, <1>3, <1>7, <1>11, <1>12, <2>2
  <2>4. q[l + 1] = pos' /\ b[n] = prim'.num_args
    BY <1>3, <1>7, <1>8, <1>10
  <2>5. va' = 0
    BY <1>2, <1>9 DEF CallInv, Arity, Generating
  <2>6. QED
    BY <1>9, <1>10, <1>11, <2>1, <2>3, <2>4, <2>5 DEF Arity, Read
<1>15. QED
  BY <1>9, <1>13, <1>14, NoArgumentsYet DEF CallInv, Generating

(* The entries have the arguments that were counted. *)
LEMMA FillEndCall ==
  ASSUME ReadInv, ReadInv', CallInv, FillEnd
  PROVE  CallInv'
<1>1. pc = "fill" /\ pc' = "size" /\ prim' = prim /\ fmt' = fmt /\ va' = va
  BY DEF FillEnd, site, call
<1>2. PICK n : n = prim.num_params
  OBVIOUS
<1>3. Len(prim.specs) = n /\ n \in Nat
  BY <1>1, <1>2, ShapeFacts DEF ReadInv, Counted
<1>4. PICK q, b : /\ Adding(q, b, n) /\ b[n] = prim.num_args
                  /\ \A m \in 1 .. n : prim.specs[m].begin = CountNext(fmt, q[m - 1])
  BY <1>1, <1>2, <1>3 DEF CallInv, Arity
<1>5. ArgTable(b, n)
  <2>1. b \in [0 .. n -> Nat] /\ b[0] = 0
    BY <1>4 DEF Adding
  <2>2. ASSUME NEW m \in 0 .. n - 1 PROVE b[m + 1] = b[m] + Arguments(m + 1)
    <3>1. m + 1 \in 1 .. n /\ (m + 1) - 1 = m
      BY <1>3
    <3>2. prim.specs[m + 1].begin = CountNext(fmt, q[m])
      BY <1>4, <3>1
    <3>3. b[m + 1] = b[m] + CountSpec(fmt, CountNext(fmt, q[m])).args
      BY <1>4 DEF Adding
    <3>4. QED
      BY <3>2, <3>3 DEF Arguments
  <2>3. QED
    BY <2>1, <2>2 DEF ArgTable
<1>6. ArgTable(b, n)'
  BY <1>1, <1>5 DEF ArgTable, Arguments
<1>7. va' = 0
  BY <1>1 DEF CallInv, Arity, Generating
<1>8. Arity'
  BY <1>1, <1>2, <1>4, <1>6, <1>7 DEF Arity, Read
<1>9. Marked'
  BY <1>1 DEF CallInv, Marked
<1>10. QED
  BY <1>1, <1>8, <1>9, NoArgumentsYet DEF CallInv, Generating

(* serialize begins with no argument taken. *)
LEMMA StartCall ==
  ASSUME Marked, Arity, pc \in Read \cup {"size"}, fmt' = fmt, prim' = prim,
         pc' = "serialize", i' = 1, va' = 0, slots' = {}, strs' = <<>>
  PROVE  CallInv'
<1>1. PICK n : n = prim.num_params
  OBVIOUS
<1>2. PICK a : ArgTable(a, n) /\ a[n] = prim.num_args
  BY <1>1 DEF Arity
<1>3. ArgTable(a, n)'
  BY <1>2 DEF ArgTable, Arguments
<1>4. Arity'
  BY <1>1, <1>2, <1>3 DEF Arity, Read, Generating
<1>5. Marked'
  BY DEF Marked
<1>6. Reach' - 1 = 0
  BY DEF Reach
<1>7. Owned'
  <2>1. \A d : ArgTable(d, prim.num_params)' => d[0] = 0
    BY DEF ArgTable
  <2>2. QED
    BY <1>6, <2>1 DEF Owned
<1>8. OnePerString'
  <2>1. StrEntries(0)' = {}
    BY DEF StrEntries
  <2>2. Cardinality({}) = 0 /\ Len(strs') = 0
    BY FS_EmptySet
  <2>3. QED
    BY <1>6, <2>1, <2>2 DEF OnePerString
<1>9. CutByPrecision'
  <2>1. 1 .. Len(strs') = {}
    OBVIOUS
  <2>2. QED
    BY <2>1 DEF CutByPrecision
<1>10. QED
  BY <1>4, <1>5, <1>7, <1>8, <1>9 DEF CallInv

LEMMA SizeCall ==
  ASSUME ReadInv, Layout, CallInv, SetParamSize
  PROVE  CallInv'
<1>1. /\ pc = "size" /\ fmt' = fmt /\ va' = va /\ va = 0
      /\ slots' = {} /\ strs' = <<>>
  BY DEF SetParamSize, site, Layout, Idle, CallInv, Arity, Generating
<1>2. CASE i <= prim.num_params
  <2>1. /\ prim' = [prim EXCEPT !.param_size = @ + ParamSize(prim.specs[i])] /\ pc' = "size"
    BY <1>1, <1>2 DEF SetParamSize
  <2>2. /\ prim'.specs = prim.specs /\ prim'.num_params = prim.num_params
        /\ prim'.num_args = prim.num_args
    BY <2>1 DEF ReadInv, Shape
  <2>3. PICK n : n = prim.num_params
    OBVIOUS
  <2>4. PICK a : ArgTable(a, n) /\ a[n] = prim.num_args
    BY <1>1, <2>3 DEF CallInv, Arity
  <2>5. ArgTable(a, n)'
    BY <1>1, <2>2, <2>4 DEF ArgTable, Arguments
  <2>6. Arity'
    BY <1>1, <2>1, <2>2, <2>3, <2>4, <2>5 DEF Arity, Read
  <2>7. Marked'
    BY <1>1, <2>2 DEF CallInv, Marked
  <2>8. QED
    BY <2>1, <2>6, <2>7, NoArgumentsYet DEF CallInv, Generating
<1>3. CASE ~(i <= prim.num_params)
  <2>1. pc' = "serialize" /\ i' = 1 /\ prim' = prim
    BY <1>3 DEF SetParamSize
  <2>2. QED
    BY <1>1, <2>1, StartCall DEF CallInv
<1>4. QED
  BY <1>2, <1>3

(* A step that takes no argument. *)
LEMMA KeepCall ==
  ASSUME CallInv, pc \in Read, pc' \in Read, fmt' = fmt, prim' = prim, va' = va,
         slots' = slots, strs' = strs, Reach' = Reach
  PROVE  CallInv'
<1>1. \A a, n : ArgTable(a, n)' <=> ArgTable(a, n)
  BY DEF ArgTable, Arguments
<1>2. Followed' <=> Followed
  BY FollowedKept
<1>3. Marked'
  BY DEF CallInv, Marked
<1>4. Arity'
  BY <1>1 DEF CallInv, Arity, Read, Generating
<1>5. Owned'
  BY <1>1, <1>2 DEF CallInv, Owned
<1>6. OnePerString'
  BY DEF CallInv, OnePerString, StrEntries
<1>7. CutByPrecision'
  BY <1>2 DEF CallInv, CutByPrecision, CutRight
<1>8. QED
  BY <1>3, <1>4, <1>5, <1>6, <1>7 DEF CallInv

(* What serialize takes for an entry, when the cache has room. *)
Room(spec) == spec.fmt_type = "STR" => Len(strs) < MaxStrCache

Prec(spec, dyn) == IF spec.precision = DYNAMIC THEN dyn["precision"] ELSE spec.precision

PutsDown(spec, dyn, len, e) ==
  /\ dyn \in [Roles(spec) \ {"value"} -> DynValues] /\ len \in Nat
  /\ e = [arg |-> va + Len(Takes(spec)), len |-> len,
          copy |-> CopyLen(spec, Prec(spec, dyn), len)]
  /\ slots' = slots \cup SlotsOf(spec, dyn)
  /\ va' = va + Len(Takes(spec))
  /\ IF spec.fmt_type # "STR" THEN strs' = strs ELSE strs' = Append(strs, e)

LEMMA SerializedArgs ==
  ASSUME Shape, SerializeConv, NEW spec, spec = prim.specs[i], Room(spec)
  PROVE  \E dyn, len, e : PutsDown(spec, dyn, len, e)
<1> DEFINE t    == Takes(spec)
           full == Len(strs) >= MaxStrCache
<1>1. PICK dyn \in [{t[k] : k \in DOMAIN t} \ {"value"} -> DynValues],
           len \in IF spec.fmt_type = "STR" /\ ~full THEN StrLens ELSE {0} :
        /\ slots' = slots \cup SlotsOf(spec, dyn)
        /\ IF spec.fmt_type /= "STR"
           THEN va' = va + Len(t) /\ strs' = strs
           ELSE IF full
           THEN /\ va' = va + Len(t) - 1
                /\ strs' = Append(strs, [arg |-> 0, len |-> FullText, copy |-> FullText])
           ELSE LET pr == IF spec.precision = DYNAMIC THEN dyn.precision ELSE spec.precision
                IN  /\ va' = va + Len(t)
                    /\ strs' = Append(strs, [arg |-> va + Len(t), len |-> len,
                                             copy |-> CopyLen(spec, pr, len)])
  BY DEF SerializeConv
<1>2. dyn \in [Roles(spec) \ {"value"} -> DynValues] /\ len \in Nat
  BY LineAssumption DEF Roles
<1>3. PICK e : e = [arg |-> va + Len(t), len |-> len, copy |-> CopyLen(spec, Prec(spec, dyn), len)]
  OBVIOUS
<1>4. spec.fmt_type = "STR" => ~full
  BY ShapeFacts, LineAssumption DEF Room
<1>5. Prec(spec, dyn) = IF spec.precision = DYNAMIC THEN dyn.precision ELSE spec.precision
  BY DEF Prec
<1> HIDE DEF t, full
<1>6. CASE spec.fmt_type # "STR"
  BY <1>1, <1>2, <1>3, <1>6 DEF t, PutsDown
<1>7. CASE spec.fmt_type = "STR"
  <2>1. /\ va' = va + Len(t)
        /\ strs' = Append(strs, [arg |-> va + Len(t), len |-> len,
                                 copy |-> CopyLen(spec, Prec(spec, dyn), len)])
    BY <1>1, <1>4, <1>5, <1>7
  <2>2. strs' = Append(strs, e)
    BY <1>3, <2>1
  <2>3. QED
    BY <1>1, <1>2, <1>3, <1>7, <2>1, <2>2 DEF t, PutsDown
<1>8. QED
  BY <1>6, <1>7

(* The argument and the value of each slot of an entry. *)
LEMMA SlotArgs ==
  ASSUME va \in Nat, NEW spec, NEW dyn, Room(spec), Len(strs) \in Nat
  PROVE  \A s \in SlotsOf(spec, dyn) :
           /\ s.conv = i /\ s.role \in Roles(spec)
           /\ s.role = "width" => s.arg = va + 1
           /\ s.role = "precision" => s.arg = va + Dyn(spec.width) + 1 /\ s.val = dyn["precision"]
           /\ s.role = "value" => s.arg = va + Len(Takes(spec))
<1> DEFINE t == Takes(spec)
           full == spec.fmt_type = "STR" /\ Len(strs) >= MaxStrCache
           slot(k) == [at |-> p + Placeholder * (k - 1), conv |-> i, role |-> t[k],
                       arg |-> IF t[k] = "value" /\ full THEN 0 ELSE va + k,
                       val |-> IF t[k] /= "value" THEN dyn[t[k]]
                               ELSE IF spec.fmt_type = "STR" THEN ExtraLen(strs) ELSE 0]
<1>1. SlotsOf(spec, dyn) = {slot(k) : k \in DOMAIN t}
  BY DEF SlotsOf
<1>2. ~full
  BY LineAssumption DEF Room
<1>3. ASSUME NEW k \in DOMAIN t
      PROVE  /\ slot(k).conv = i /\ slot(k).role = t[k] /\ t[k] \in Roles(spec)
             /\ slot(k).arg = va + k
             /\ t[k] # "value" => slot(k).val = dyn[t[k]]
             /\ t[k] = "width" => k = 1
             /\ t[k] = "precision" => k = Dyn(spec.width) + 1
             /\ t[k] = "value" => k = Len(t)
  <2>1. 8 * (k - 1) = Offset(spec, t[k]) /\ (t[k] = "value" => k = Len(t)) /\ t[k] \in Roles(spec)
        /\ k \in 1 .. Len(t)
    BY TakesFacts DEF Roles
  <2>2. Dyn(spec.width) \in 0 .. 1
    BY DEF Dyn
  <2>3. t[k] = "width" => k = 1
    BY <2>1 DEF Offset
  <2>4. t[k] = "precision" => 8 * (k - 1) = 8 * Dyn(spec.width)
    BY <2>1 DEF Offset
  <2>5. t[k] = "precision" => k = Dyn(spec.width) + 1
    BY <2>1, <2>2, <2>4
  <2>6. QED
    BY <1>2, <2>1, <2>3, <2>5
<1> HIDE DEF slot, t
<1>4. ASSUME NEW s \in SlotsOf(spec, dyn)
      PROVE  /\ s.conv = i /\ s.role \in Roles(spec)
             /\ s.role = "width" => s.arg = va + 1
             /\ s.role = "precision" => s.arg = va + (Dyn(spec.width) + 1) /\ s.val = dyn["precision"]
             /\ s.role = "value" => s.arg = va + Len(t)
  <2>1. PICK k \in DOMAIN t : s = slot(k)
    BY <1>1
  <2>2. /\ s.conv = i /\ s.role = t[k] /\ t[k] \in Roles(spec) /\ s.arg = va + k
        /\ t[k] # "value" => s.val = dyn[t[k]]
    BY <1>3, <2>1, Zenon
  <2>3. (t[k] = "width" => k = 1) /\ (t[k] = "precision" => k = Dyn(spec.width) + 1) /\ (t[k] = "value" => k = Len(t))
    BY <1>3, Zenon
  <2>4. "precision" # "value"
    OBVIOUS
  <2>5. QED
    BY <2>2, <2>3, <2>4, Zenon
<1>5. va + (Dyn(spec.width) + 1) = va + Dyn(spec.width) + 1
  BY DEF Dyn
<1>6. QED
  BY <1>4, <1>5 DEF t

LEMMA RoleFacts ==
  ASSUME NEW spec
  PROVE  /\ "precision" \in Roles(spec) <=> spec.precision = DYNAMIC
         /\ Roles(spec) \subseteq {"width", "precision", "value"}
<1>1. \A k \in DOMAIN Takes(spec) : Takes(spec)[k] = "precision" => spec.precision = DYNAMIC
  BY TakesFacts
<1>2. ASSUME spec.precision = DYNAMIC PROVE "precision" \in Roles(spec)
  <2>1. CASE spec.width = DYNAMIC /\ spec.fmt_type = "NONE"
    <3>1. Takes(spec) = <<"width", "precision">>
      BY <1>2, <2>1, ShortConcat DEF Takes
    <3>2. QED
      BY <3>1 DEF Roles
  <2>2. CASE spec.width = DYNAMIC /\ spec.fmt_type # "NONE"
    <3>1. Takes(spec) = (<<"width">> \o <<"precision">>) \o <<"value">>
      BY <1>2, <2>2 DEF Takes
    <3>2. Takes(spec) = <<"width", "precision", "value">>
      <4>1. <<"width">> \o <<"precision">> = <<"width", "precision">>
        BY ShortConcat
      <4>2. <<"width", "precision">> \o <<"value">> = <<"width", "precision", "value">>
        BY ShortConcat
      <4>3. QED
        BY <3>1, <4>1, <4>2
    <3>3. QED
      BY <3>2 DEF Roles
  <2>3. CASE spec.width # DYNAMIC /\ spec.fmt_type = "NONE"
    <3>1. Takes(spec) = <<"precision">>
      BY <1>2, <2>3, ShortConcat DEF Takes
    <3>2. QED
      BY <3>1 DEF Roles
  <2>4. CASE spec.width # DYNAMIC /\ spec.fmt_type # "NONE"
    <3>1. Takes(spec) = <<"precision", "value">>
      BY <1>2, <2>4, ShortConcat DEF Takes
    <3>2. QED
      BY <3>1 DEF Roles
  <2>5. QED
    BY <2>1, <2>2, <2>3, <2>4
<1>3. Roles(spec) \subseteq {"width", "precision", "value"}
  BY TakesFacts DEF Roles
<1>4. QED
  BY <1>1, <1>2, <1>3 DEF Roles

LEMMA StrEntriesGrow ==
  ASSUME NEW n \in Nat \ {0}
  PROVE  /\ Cardinality(StrEntries(n - 1)) \in Nat
         /\ prim.specs[n].fmt_type = "STR" =>
              Cardinality(StrEntries(n)) = Cardinality(StrEntries(n - 1)) + 1
         /\ prim.specs[n].fmt_type # "STR" => StrEntries(n) = StrEntries(n - 1)
         /\ \A m \in Nat : n <= m => /\ Cardinality(StrEntries(m)) \in Nat
                                     /\ Cardinality(StrEntries(n)) <= Cardinality(StrEntries(m))
<1>1. ASSUME NEW m \in Nat PROVE IsFiniteSet(StrEntries(m)) /\ Cardinality(StrEntries(m)) \in Nat
  <2>1. IsFiniteSet(1 .. m)
    BY FS_Interval
  <2>2. StrEntries(m) \subseteq 1 .. m
    BY DEF StrEntries
  <2>3. QED
    BY <2>1, <2>2, FS_Subset, FS_CardinalityType
<1>2. ASSUME prim.specs[n].fmt_type = "STR"
      PROVE  Cardinality(StrEntries(n)) = Cardinality(StrEntries(n - 1)) + 1
  <2>1. StrEntries(n) = StrEntries(n - 1) \cup {n} /\ n \notin StrEntries(n - 1)
    BY <1>2 DEF StrEntries
  <2>2. IsFiniteSet(StrEntries(n - 1))
    BY <1>1
  <2>3. QED
    BY <2>1, <2>2, FS_AddElement
<1>3. ASSUME prim.specs[n].fmt_type # "STR"
      PROVE  StrEntries(n) = StrEntries(n - 1)
  BY <1>3 DEF StrEntries
<1>4. ASSUME NEW m \in Nat, n <= m
      PROVE  Cardinality(StrEntries(n)) <= Cardinality(StrEntries(m))
  <2>1. StrEntries(n) \subseteq StrEntries(m)
    BY <1>4 DEF StrEntries
  <2>2. QED
    BY <1>1, <2>1, FS_Subset
<1>5. n - 1 \in Nat
  OBVIOUS
<1>6. QED
  BY <1>1, <1>2, <1>3, <1>4, <1>5

(* With a format that is followed an entry takes the arguments C gives it, *)
(* and its string finds room.                                              *)
LEMMA EntryTakes ==
  ASSUME Shape, Marked, Followed, NEW n \in 1 .. Len(prim.specs), NEW spec, spec = prim.specs[n]
  PROVE  /\ Len(Takes(spec)) = Arguments(n) /\ Arguments(n) \in Nat \ {0}
         /\ Arguments(n) = 1 + Dyn(spec.width) + Dyn(spec.precision)
         /\ Dyn(spec.width) \in 0 .. 1 /\ Dyn(spec.precision) \in 0 .. 1
         /\ spec.precision \in Int
         /\ spec.fmt_type = "STR" => Cardinality(StrEntries(n - 1)) < MaxStrCache
<1>1. PICK c : c = Parts(fmt, spec.begin)
  OBVIOUS
<1>2. /\ Arguments(n) = 1 + Dyn(c.width) + Dyn(c.prec)
      /\ c.width \in Int /\ c.prec \in Int
      /\ spec.width = InField(c.width) /\ spec.precision = InField(c.prec)
  BY <1>1, ArgumentsOf
<1>3. n \in DOMAIN prim.specs /\ DOMAIN prim.specs = 1 .. Len(prim.specs) /\ Len(prim.specs) \in Nat
  BY ShapeFacts
<1>4. /\ spec.fmt_type # "NONE"
      /\ spec.width = DYNAMIC => c.width = DYNAMIC
      /\ spec.precision = DYNAMIC => c.prec = DYNAMIC
  BY <1>1, <1>3, WideParts DEF Followed, NumbersAreNumbers
<1>5. (spec.width = DYNAMIC <=> c.width = DYNAMIC) /\ (spec.precision = DYNAMIC <=> c.prec = DYNAMIC)
  BY <1>2, <1>4, FieldFacts
<1>6. Dyn(spec.width) = Dyn(c.width) /\ Dyn(spec.precision) = Dyn(c.prec)
  BY <1>5 DEF Dyn
<1>7. Dyn(spec.width) \in 0 .. 1 /\ Dyn(spec.precision) \in 0 .. 1
  BY DEF Dyn
<1>8. Len(Takes(spec)) = Dyn(spec.width) + Dyn(spec.precision) + 1
  BY <1>4, TakesFacts
<1>9. spec.precision \in Int
  BY <1>2, FieldFacts
<1>10. ASSUME spec.fmt_type = "STR" PROVE Cardinality(StrEntries(n - 1)) < MaxStrCache
  <2>1. PICK np \in Nat : np = Len(prim.specs)
    BY <1>3
  <2>2. Cardinality(StrEntries(np)) <= MaxStrCache
    BY <1>3, <2>1 DEF Followed, StrEntries
  <2>3. n \in Nat \ {0} /\ n <= np
    BY <2>1
  <2>4. /\ Cardinality(StrEntries(n - 1)) \in Nat
        /\ Cardinality(StrEntries(n)) = Cardinality(StrEntries(n - 1)) + 1
        /\ Cardinality(StrEntries(np)) \in Nat
        /\ Cardinality(StrEntries(n)) <= Cardinality(StrEntries(np))
    BY <1>10, <2>3, StrEntriesGrow
  <2>5. QED
    BY <2>2, <2>4, LineAssumption
<1>11. QED
  BY <1>2, <1>6, <1>7, <1>8, <1>9, <1>10

LEMMA SerializeCall ==
  ASSUME ReadInv, Layout, CallInv, SerializeConv
  PROVE  CallInv'
<1>1. /\ pc = "serialize" /\ pc' = "serialize" /\ i <= prim.num_params
      /\ i' = i + 1 /\ prim' = prim /\ fmt' = fmt
  BY SerializedCounters DEF ReadInv, site
<1>2. PICK n, spec : n = i /\ spec = prim.specs[n]
  OBVIOUS
<1>3. /\ n \in Nat \ {0} /\ prim.num_params \in Nat /\ n <= prim.num_params /\ va \in Nat
      /\ Shape /\ Len(strs) \in Nat
  BY <1>1, <1>2, ShapeFacts DEF ReadInv, Shape
<1>4. Len(prim.specs) = prim.num_params /\ n \in 1 .. Len(prim.specs)
  <2>1. Len(prim.specs) = prim.num_params
    BY <1>1 DEF ReadInv, Counted, Read
  <2>2. QED
    BY <1>3, <2>1
<1>5. Reach = n /\ Reach' = n + 1 /\ Reach' - 1 = n
  BY <1>1, <1>2, <1>3 DEF Reach
<1>6. \A a, m : ArgTable(a, m)' <=> ArgTable(a, m)
  BY <1>1 DEF ArgTable, Arguments
<1>7. Followed' <=> Followed
  BY <1>1, FollowedKept
<1>8. Marked' /\ Marked
  BY <1>1 DEF CallInv, Marked
<1>9. Arity'
  BY <1>1, <1>6 DEF CallInv, Arity, Read, Generating
<1>10. Len(strs) = Cardinality(StrEntries(n - 1))
  BY <1>1, <1>5 DEF CallInv, OnePerString, Read
<1>11. OnePerString'
  <2>1. PICK dyn, e : IF spec.fmt_type # "STR" THEN strs' = strs ELSE strs' = Append(strs, e)
    BY <1>2, <1>3, Serialized, Zenon
  <2>2. strs' = Append(strs, e) => Len(strs') = Len(strs) + 1
    BY <1>3, <2>1, CacheGrows
  <2>3. Len(strs') = Cardinality(StrEntries(n))
    <3>1. CASE spec.fmt_type = "STR"
      BY <1>2, <1>3, <1>10, <2>1, <2>2, <3>1, StrEntriesGrow
    <3>2. CASE spec.fmt_type # "STR"
      BY <1>2, <1>3, <1>10, <2>1, <3>2, StrEntriesGrow
    <3>3. QED
      BY <3>1, <3>2
  <2>4. StrEntries(n)' = StrEntries(n)
    BY <1>1 DEF StrEntries
  <2>5. QED
    BY <1>5, <2>3, <2>4 DEF OnePerString
<1>12. ASSUME Followed PROVE Owned' /\ CutByPrecision'
  <2>1. /\ Len(Takes(spec)) = Arguments(n) /\ Arguments(n) \in Nat \ {0}
        /\ Arguments(n) = 1 + Dyn(spec.width) + Dyn(spec.precision)
        /\ Dyn(spec.width) \in 0 .. 1 /\ Dyn(spec.precision) \in 0 .. 1
        /\ spec.precision \in Int
        /\ spec.fmt_type = "STR" => Cardinality(StrEntries(n - 1)) < MaxStrCache
    BY <1>2, <1>3, <1>4, <1>8, <1>12, EntryTakes
  <2>2. Room(spec)
    BY <1>10, <2>1 DEF Room
  <2>3. spec = prim.specs[i]
    BY <1>2
  <2>0. PICK dyn, len, e : PutsDown(spec, dyn, len, e)
    BY <1>3, <2>2, <2>3, SerializedArgs
  <2>4. /\ dyn \in [Roles(spec) \ {"value"} -> DynValues] /\ len \in Nat
        /\ e = [arg |-> va + Len(Takes(spec)), len |-> len,
                copy |-> CopyLen(spec, Prec(spec, dyn), len)]
        /\ slots' = slots \cup SlotsOf(spec, dyn)
        /\ va' = va + Len(Takes(spec))
        /\ IF spec.fmt_type # "STR" THEN strs' = strs ELSE strs' = Append(strs, e)
    BY <2>0 DEF PutsDown
  <2>5. ASSUME NEW s \in SlotsOf(spec, dyn)
        PROVE  /\ s.conv = n /\ s.role \in Roles(spec)
               /\ s.role = "width" => s.arg = va + 1
               /\ s.role = "precision" => s.arg = va + Dyn(spec.width) + 1 /\ s.val = dyn["precision"]
               /\ s.role = "value" => s.arg = va + Len(Takes(spec))
    BY <1>2, <1>3, <2>2, SlotArgs
  <2>6. ASSUME NEW s \in slots PROVE s.conv \in 1 .. n - 1
    BY <1>1, <1>5 DEF Layout, Sized, Placed, Read
  <2>7. va' = va + Arguments(n) /\ va' > va
    BY <1>3, <2>1, <2>4
  <2>8. Owned'
    <3>1. SUFFICES ASSUME NEW a, ArgTable(a, prim.num_params)
                   PROVE  va' = a[n] /\ \A s \in slots' : s.arg = ArgIn(a, s.conv, s.role)
      BY <1>1, <1>5, <1>6 DEF Owned
    <3>2. va = a[n - 1] /\ \A s \in slots : s.arg = ArgIn(a, s.conv, s.role)
      BY <1>1, <1>5, <1>12, <3>1 DEF CallInv, Owned, Read
    <3>3. a[n] = a[n - 1] + Arguments(n)
      <4>1. n - 1 \in 0 .. prim.num_params - 1 /\ (n - 1) + 1 = n
        BY <1>3
      <4>2. QED
        BY <3>1, <4>1 DEF ArgTable
    <3>4. va' = a[n]
      BY <2>7, <3>2, <3>3
    <3>5. ASSUME NEW s \in slots' PROVE s.arg = ArgIn(a, s.conv, s.role)
      <4>1. CASE s \in slots
        BY <3>2, <4>1
      <4>2. CASE s \in SlotsOf(spec, dyn)
        <5>1. s.conv = n /\ s.role \in {"width", "precision", "value"}
          BY <2>5, <4>2, RoleFacts
        <5>2. CASE s.role = "width"
          BY <2>5, <3>2, <4>2, <5>1, <5>2 DEF ArgIn
        <5>3. CASE s.role = "precision"
          <6>1. Dyn(spec.precision) = 1
            BY <2>5, <4>2, <5>3, RoleFacts DEF Dyn
          <6>2. a[n] = va + (1 + Dyn(spec.width) + 1)
            BY <2>1, <3>2, <3>3, <6>1
          <6>3. s.arg = va + Dyn(spec.width) + 1
            BY <2>5, <4>2, <5>3
          <6>4. s.arg = a[n] - 1
            BY <1>3, <2>1, <6>2, <6>3
          <6>5. QED
            BY <5>1, <5>3, <6>4 DEF ArgIn
        <5>4. CASE s.role = "value"
          BY <2>1, <2>5, <3>2, <3>3, <4>2, <5>1, <5>4 DEF ArgIn
        <5>5. QED
          BY <5>1, <5>2, <5>3, <5>4
      <4>3. QED
        BY <2>4, <4>1, <4>2
    <3>6. QED
      BY <3>4, <3>5
  <2>9. /\ Len(strs) \in Nat /\ Len(strs') \in Nat /\ Len(strs) <= Len(strs')
        /\ \A m \in 1 .. Len(strs) : strs'[m] = strs[m]
        /\ strs' = Append(strs, e) => Len(strs') = Len(strs) + 1 /\ strs'[Len(strs) + 1] = e
    <3>1. strs' = strs \/ strs' = Append(strs, e)
      BY <2>4
    <3>2. QED
      BY <1>3, <3>1, CacheGrows
  <2>10. e.arg = va' /\ e.len = len /\ e.copy = CopyLen(spec, Prec(spec, dyn), len)
    BY <2>4
  <2>11. ASSUME NEW m \in 1 .. Len(strs')
         PROVE  \/ m \in 1 .. Len(strs) /\ strs'[m] = strs[m]
                \/ spec.fmt_type = "STR" /\ strs'[m] = e
    <3>1. CASE strs' = Append(strs, e) /\ spec.fmt_type = "STR"
      BY <2>9, <2>11, <3>1
    <3>2. CASE strs' = strs
      BY <2>9, <2>11, <3>2
    <3>3. QED
      BY <2>4, <3>1, <3>2
  <2>12. \A m \in 1 .. Len(strs) : strs[m].arg \in Nat /\ strs[m].arg <= va
    BY <1>1, <1>12 DEF CallInv, CutByPrecision, Read
  <2>13. ASSUME NEW m \in 1 .. Len(strs') PROVE strs'[m].arg \in Nat /\ strs'[m].arg <= va'
    <3>1. va' \in Nat
      BY <1>3, <2>1, <2>7
    <3>2. CASE m \in 1 .. Len(strs) /\ strs'[m] = strs[m]
      BY <1>3, <2>7, <2>12, <3>1, <3>2
    <3>3. CASE strs'[m] = e
      BY <2>10, <3>1, <3>3
    <3>4. QED
      BY <2>11, <3>2, <3>3
  <2>14. ASSUME NEW s \in slots', s.role = "value", prim.specs[s.conv].fmt_type = "STR",
                NEW m \in 1 .. Len(strs'), strs'[m].arg = s.arg
         PROVE  CutRight(prim.specs[s.conv], slots', s.conv, strs'[m])
    <3>1. CASE s \in slots
      <4>1. PICK j \in 1 .. Len(strs) : s.arg = strs[j].arg
        BY <2>14, <3>1 DEF Layout, Cached
      <4>2. s.arg \in Nat /\ s.arg <= va
        BY <2>12, <4>1
      <4>3. m \in 1 .. Len(strs) /\ strs'[m] = strs[m]
        BY <1>3, <2>7, <2>10, <2>11, <2>14, <4>2
      <4>4. CutRight(prim.specs[s.conv], slots, s.conv, strs[m])
        BY <1>1, <1>12, <2>14, <3>1, <4>3 DEF CallInv, CutByPrecision, Read
      <4>5. s.conv # n
        BY <1>3, <2>6, <3>1
      <4>6. \A t \in slots' : t.conv = s.conv => t \in slots
        BY <2>4, <2>5, <4>5
      <4>7. QED
        BY <4>3, <4>4, <4>6 DEF CutRight
    <3>2. CASE s \in SlotsOf(spec, dyn)
      <4>1. s.conv = n /\ s.arg = va'
        BY <2>4, <2>5, <2>14, <3>2
      <4>2. strs'[m] = e
        BY <1>3, <2>7, <2>11, <2>12, <2>14, <4>1
      <4>3. PICK v : v = Prec(spec, dyn)
        OBVIOUS
      <4>4. v \in Int
        <5>1. CASE spec.precision = DYNAMIC
          <6>1. "precision" \in Roles(spec) \ {"value"}
            BY <5>1, RoleFacts
          <6>2. QED
            BY <2>4, <4>3, <5>1, <6>1, LineAssumption DEF Prec
        <5>2. CASE spec.precision # DYNAMIC
          BY <2>1, <4>3, <5>2 DEF Prec
        <5>3. QED
          BY <5>1, <5>2
      <4>5. ASSUME spec.precision = DYNAMIC, NEW t \in slots', t.conv = n, t.role = "precision"
            PROVE  t.val = v
        <5>1. t \in SlotsOf(spec, dyn)
          BY <1>3, <2>4, <2>6, <4>5
        <5>2. QED
          BY <2>5, <4>3, <4>5, <5>1 DEF Prec
      <4>6. spec.precision # DYNAMIC => v = spec.precision
        BY <4>3 DEF Prec
      <4>8. e.len \in Nat /\ e.copy = CopyLen(spec, v, e.len)
        BY <2>4, <2>10, <4>3
      <4>9. CutRight(spec, slots', n, e)
        BY <4>4, <4>5, <4>6, <4>8 DEF CutRight
      <4>10. QED
        BY <1>2, <4>1, <4>2, <4>9
    <3>3. QED
      BY <2>4, <3>1, <3>2
  <2>15. CutByPrecision'
    BY <1>1, <2>13, <2>14 DEF CutByPrecision
  <2>16. QED
    BY <2>8, <2>15
<1>13. ASSUME ~Followed PROVE Owned' /\ CutByPrecision'
  BY <1>7, <1>13 DEF Owned, CutByPrecision
<1>14. QED
  BY <1>8, <1>9, <1>11, <1>12, <1>13 DEF CallInv

LEMMA CallPreserved ==
  ASSUME IInv, IInv', CallInv, [Next]_vars
  PROVE  CallInv'
<1>1. ReadInv /\ Layout /\ ReadInv'
  BY DEF IInv
<1>2. CASE CountConv \/ Allocate \/ FillConv
  BY <1>1, <1>2, CountCall, AllocateCall, FillCall
<1>3. CASE FillEnd
  BY <1>1, <1>3, FillEndCall
<1>4. CASE SetParamSize
  BY <1>1, <1>4, SizeCall
<1>5. CASE SerializeConv
  BY <1>1, <1>5, SerializeCall
<1>6. CASE CopyStrings
  <2>1. /\ pc = "serialize" /\ pc' = "format" /\ i > prim.num_params /\ fmt' = fmt /\ prim' = prim
        /\ va' = va /\ slots' = slots /\ strs' = strs
    BY <1>6 DEF CopyStrings, site
  <2>2. Reach' = Reach
    BY <1>1, <2>1, ShapeFacts, SMTT(40) DEF Reach, ReadInv, Looping, Shape
  <2>3. pc \in Read /\ pc' \in Read
    BY <2>1 DEF Read
  <2>4. QED
    BY <2>1, <2>2, <2>3, KeepCall
<1>7. CASE FormatConv \/ FormatFails \/ FormatWrapped \/ FormatTail
  <2>1. /\ pc \in {"format", "tail"} /\ pc' \in {"format", "tail", "done", "outside"}
        /\ fmt' = fmt /\ prim' = prim /\ va' = va /\ slots' = slots /\ strs' = strs
    BY <1>7 DEF FormatConv, FormatFails, FormatWrapped, FormatTail, TakeSlots, site
  <2>2. Reach' = Reach /\ pc \in Read /\ pc' \in Read
    BY <2>1 DEF Reach, Read
  <2>3. QED
    BY <2>1, <2>2, KeepCall
<1>8. CASE NextCall
  <2>1. /\ pc \in {"done", "outside", "failed"}
        /\ pc' = (IF pc = "failed" THEN "count" ELSE "serialize")
        /\ pos' = 1 /\ i' = 1 /\ va' = 0 /\ slots' = {} /\ strs' = <<>>
        /\ fmt' = fmt /\ prim' = prim
    BY <1>8 DEF NextCall, site
  <2>2. CASE pc # "failed"
    BY <2>1, <2>2, StartCall DEF CallInv, Read
  <2>3. CASE pc = "failed"
    <3>1. pc' = "count" /\ prim' = NoPrimitive
      BY <1>1, <2>1, <2>3 DEF ReadInv, Counted
    <3>2. prim'.specs = <<>> /\ prim'.num_params = 0 /\ prim'.num_args = 0
      BY <3>1 DEF NoPrimitive
    <3>3. PICK q, b : q = [m \in 0 .. 0 |-> 1] /\ b = [m \in 0 .. 0 |-> 0]
      OBVIOUS
    <3>4. Adding(q, b, 0)'
      <4>1. Len(fmt) \in Nat
        BY <1>1, ShapeFacts DEF ReadInv
      <4>2. q \in [0 .. 0 -> 1 .. Len(fmt) + 1] /\ q[0] = 1 /\ b \in [0 .. 0 -> Nat] /\ b[0] = 0
        BY <3>3, <4>1
      <4>3. 0 .. 0 - 1 = {}
        OBVIOUS
      <4>4. QED
        BY <2>1, <4>2, <4>3 DEF Adding, Rounds
    <3>5. q[0] = 1 /\ b[0] = 0
      BY <3>3
    <3>6. Arity'
      BY <2>1, <3>1, <3>2, <3>4, <3>5 DEF Arity, Read
    <3>7. Marked'
      BY <3>2 DEF Marked
    <3>8. QED
      BY <3>1, <3>6, <3>7, NoArgumentsYet DEF CallInv, Generating
  <2>4. QED
    BY <2>1, <2>2, <2>3
<1>9. CASE UNCHANGED vars
  <2>1. /\ fmt' = fmt /\ pc' = pc /\ pos' = pos /\ prim' = prim /\ i' = i /\ va' = va
        /\ slots' = slots /\ strs' = strs
    BY <1>9 DEF vars
  <2>2. Reach' = Reach
    BY <2>1 DEF Reach
  <2>3. CASE pc \in Read
    BY <2>1, <2>2, <2>3, KeepCall
  <2>4. CASE pc \notin Read
    <3>1. \A q, b, n : Adding(q, b, n)' <=> Adding(q, b, n)
      BY <2>1 DEF Adding, Rounds
    <3>2. \A a, n : ArgTable(a, n)' <=> ArgTable(a, n)
      BY <2>1 DEF ArgTable, Arguments
    <3>3. Marked'
      BY <2>1 DEF CallInv, Marked
    <3>4. Arity'
      BY <2>1, <3>1, <3>2 DEF CallInv, Arity
    <3>5. Owned' /\ OnePerString' /\ CutByPrecision'
      BY <2>1, <2>4 DEF Owned, OnePerString, CutByPrecision
    <3>6. QED
      BY <3>3, <3>4, <3>5 DEF CallInv
  <2>5. QED
    BY <2>3, <2>4
<1>10. QED
  BY <1>2, <1>3, <1>4, <1>5, <1>6, <1>7, <1>8, <1>9 DEF Next

(* The cursor in the va_list stays in step with the entries, in every      *)
(* state of the calls of a site.                                           *)
THEOREM ArgumentsInvariance == Spec => []CallInv
<1>1. Init => CallInv
  BY InitCall
<1>2. IInv /\ IInv' /\ CallInv /\ [Next]_vars => CallInv'
  BY CallPreserved
<1>3. QED
  BY <1>1, <1>2, Invariance, PTL DEF Spec

LEMMA StarsOf ==
  ASSUME Shape, Marked, NEW k \in 1 .. Len(prim.specs)
  PROVE  Stars(k) \in Nat /\ Arguments(k) = Stars(k) + 1
<1>1. PICK x, y : /\ x = Dyn(Parts(fmt, prim.specs[k].begin).width)
                  /\ y = Dyn(Parts(fmt, prim.specs[k].begin).prec)
  OBVIOUS
<1>2. Arguments(k) = 1 + x + y /\ Stars(k) = x + y /\ x \in 0 .. 1 /\ y \in 0 .. 1
  BY <1>1, ArgumentsOf
<1>3. QED
  BY <1>2

(* Where the slots of the entries before Reach are. *)
LEMMA SlotPlaces ==
  ASSUME IInv, pc \in Read
  PROVE  /\ Len(prim.specs) = prim.num_params /\ prim.num_params \in Nat
         /\ \A s \in slots : /\ s.conv \in 1 .. prim.num_params
                             /\ s.role \in Roles(prim.specs[s.conv])
         /\ pc # "serialize" => \A k \in 1 .. prim.num_params : \A r \in Roles(prim.specs[k]) :
              \E s \in slots : s.conv = k /\ s.role = r
<1>1. Len(prim.specs) = prim.num_params /\ prim.num_params \in Nat /\ i \in Nat \ {0}
  BY ShapeFacts DEF IInv, ReadInv, Counted, Shape
<1>2. PICK z : z = Reach
  OBVIOUS
<1>3. z \in 1 .. prim.num_params + 1 /\ (pc # "serialize" => z - 1 = prim.num_params)
  BY <1>1, <1>2 DEF IInv, ReadInv, Looping, Reach
<1>4. PICK o : Placed(o, z)
  BY <1>2 DEF IInv, Layout, Sized
<1>5. /\ \A s \in slots : s.conv \in 1 .. z - 1 /\ s.role \in Roles(prim.specs[s.conv])
      /\ \A k \in 1 .. z - 1 : \A r \in Roles(prim.specs[k]) :
           \E s \in slots : s.conv = k /\ s.role = r
  BY <1>4, Zenon DEF Placed
<1>6. \A k \in 1 .. z - 1 : k \in 1 .. prim.num_params
  BY <1>1, <1>3
<1>7. QED
  BY <1>1, <1>3, <1>5, <1>6

(* With a format that serialize follows, each slot holds the argument the  *)
(* rules of C give its conversion and role, and the va_list is read to its *)
(* end and not beyond: for every such format, however many stars it has.   *)
THEOREM OwnArgumentsTaken == Spec => []OwnArguments
<1>1. IInv /\ CallInv => OwnArguments
  <2>1. SUFFICES ASSUME IInv, CallInv, pc \in Read, Followed
                 PROVE  /\ \A s \in slots : s.arg = ArgOf(s.conv, s.role)
                        /\ pc /= "serialize" => va = prim.num_args
    BY DEF OwnArguments, InPlace
  <2>2. PICK n : n = prim.num_params
    OBVIOUS
  <2>3. Len(prim.specs) = n /\ n \in Nat /\ Shape /\ Marked
    BY <2>1, <2>2, SlotPlaces DEF CallInv, IInv, ReadInv
  <2>4. PICK a : ArgTable(a, n) /\ a[n] = prim.num_args
    BY <2>1, <2>2 DEF CallInv, Arity
  <2>5. va = a[Reach - 1] /\ \A s \in slots : s.arg = ArgIn(a, s.conv, s.role)
    BY <2>1, <2>2, <2>4 DEF CallInv, Owned
  <2>6. pc /= "serialize" => Reach - 1 = n
    BY <2>2, <2>3 DEF Reach
  <2>7. ASSUME NEW s \in slots PROVE s.arg = ArgOf(s.conv, s.role)
    <3>1. PICK k : k = s.conv
      OBVIOUS
    <3>2. k \in 1 .. n /\ k \in 1 .. Len(prim.specs) /\ s.role \in Roles(prim.specs[k])
      BY <2>1, <2>2, <2>3, <3>1, SlotPlaces
    <3>3. s.role \in {"width", "precision", "value"}
      BY <3>2, RoleFacts
    <3>4. /\ ArgOf(k, "value") = a[k] /\ ArgOf(k, "precision") = a[k] - 1
          /\ ArgOf(k, "width") = a[k] - Stars(k)
      BY <2>3, <2>4, <3>2, ArgOfTable
    <3>5. Stars(k) \in Nat /\ Arguments(k) = Stars(k) + 1
      BY <2>3, <3>2, StarsOf
    <3>6. a[k] = a[k - 1] + Arguments(k) /\ a[k - 1] \in Nat
      <4>1. k - 1 \in 0 .. n - 1 /\ (k - 1) + 1 = k /\ k - 1 \in 0 .. n
        BY <3>2, <2>3
      <4>2. QED
        BY <2>4, <4>1 DEF ArgTable
    <3>7. a[k] - Stars(k) = a[k - 1] + 1
      BY <3>5, <3>6
    <3>8. s.arg = ArgIn(a, k, s.role)
      BY <2>5, <3>1
    <3>9. QED
      BY <3>1, <3>3, <3>4, <3>7, <3>8 DEF ArgIn
  <2>8. QED
    BY <2>4, <2>5, <2>6, <2>7
<1>2. QED
  BY <1>1, Invariance, ArgumentsInvariance, PTL

LEMMA CopyLenFacts ==
  ASSUME NEW spec, spec.precision \in Int, NEW v \in Int, NEW len \in Nat
  PROVE  /\ CopyLen(spec, v, len) \in Nat /\ CopyLen(spec, v, len) <= len
         /\ v < 0 \/ spec.precision = 0 => CopyLen(spec, v, len) = len
         /\ v >= 0 => CopyLen(spec, v, len) >= Least(len, v)
         /\ v >= 0 /\ spec.precision # 0 => CopyLen(spec, v, len) <= v
BY DEF CopyLen, Least

(* serialize copies of every string what its conversion will print and no  *)
(* more than the string has, for every format it follows, every value of a *)
(* precision argument and every length.                                    *)
THEOREM StringsCopiedWhole == Spec => []StringsWhole
<1>1. IInv /\ CallInv => StringsWhole
  <2>1. SUFFICES ASSUME IInv, CallInv, pc \in {"format", "tail", "done", "outside"}, Followed,
                        NEW s \in slots,
                        s.role = "value", prim.specs[s.conv].fmt_type = "STR"
                 PROVE
      /\ Copy(s).copy <= Copy(s).len
      /\ prim.specs[s.conv].precision <= 0 \/ prim.specs[s.conv].precision = Precise(s.conv) =>
           Copy(s).copy >= IF HasPoint(s.conv) /\ PrecisionOf(s.conv) >= 0
                           THEN Least(Copy(s).len, PrecisionOf(s.conv))
                           ELSE Copy(s).len
      /\ prim.specs[s.conv].precision # 0 /\ prim.specs[s.conv].precision = Precise(s.conv)
           /\ PrecisionOf(s.conv) >= 0 => Copy(s).copy + 1 <= PrecisionOf(s.conv) + 1
    BY DEF StringsWhole, IsString, Read, CharsRead
  <2> DEFINE k == s.conv
             spec == prim.specs[s.conv]
             c == Parts(fmt, spec.begin)
             dyn == {t.val : t \in {t \in slots : t.conv = s.conv /\ t.role = "precision"}}
             prec == IF c.prec = DYNAMIC THEN CHOOSE v \in dyn : TRUE ELSE c.prec
             str == CHOOSE x \in {strs[m] : m \in DOMAIN strs} : x.arg = s.arg
             dot == \E j \in spec.begin..(spec.next - 1) : fmt[j] = "."
  <2>2. k = s.conv /\ spec = prim.specs[k]
    OBVIOUS
  <2>3. /\ c = Parts(fmt, spec.begin)
        /\ dyn = {t.val : t \in {t \in slots : t.conv = k /\ t.role = "precision"}}
    OBVIOUS
  <2>4. prec = IF c.prec = DYNAMIC THEN CHOOSE v \in dyn : TRUE ELSE c.prec
    OBVIOUS
  <2>5. str = CHOOSE x \in {strs[m] : m \in DOMAIN strs} : x.arg = s.arg
    OBVIOUS
  <2>a. Precise(k) = c.prec /\ HasPoint(k) = dot /\ Copy(s) = str
    BY WideParts DEF HasPoint, Within, Copy
  <2>b. PrecisionOf(k) = prec
    BY <2>a DEF PrecisionOf
  <2> HIDE DEF k, spec, c, dyn, prec, str
  <2>6. pc \in Read /\ pc # "serialize" /\ Shape /\ Marked /\ DOMAIN strs = 1 .. Len(strs)
    BY <2>1, ShapeFacts DEF Read, IInv, ReadInv, CallInv
  <2>7. k \in 1 .. Len(prim.specs) /\ Len(prim.specs) = prim.num_params
    BY <2>1, <2>2, <2>6, SlotPlaces
  <2>8. PICK m \in DOMAIN strs : strs[m].arg = s.arg /\ str = strs[m]
    <3>1. \E m \in DOMAIN strs : strs[m].arg = s.arg
      BY <2>1, <2>6 DEF IInv, Layout, Cached
    <3>2. \E x \in {strs[m] : m \in DOMAIN strs} : x.arg = s.arg
      BY <3>1
    <3>3. str \in {strs[m] : m \in DOMAIN strs} /\ str.arg = s.arg
      BY <2>5, <3>2, Zenon
    <3>4. QED
      BY <3>3
  <2>9. CutRight(spec, slots, k, str)
    BY <2>1, <2>2, <2>6, <2>8 DEF CallInv, CutByPrecision
  <2>10. str.len \in Nat
    BY <2>9 DEF CutRight
  <2>11. PICK v \in Int :
           /\ str.copy = CopyLen(spec, v, str.len)
           /\ spec.precision = DYNAMIC =>
                \A t \in slots : t.conv = k /\ t.role = "precision" => t.val = v
           /\ spec.precision # DYNAMIC => v = spec.precision
    BY <2>9 DEF CutRight
  <2>12. /\ c.prec \in Int /\ spec.precision = InField(c.prec) /\ (c.prec = 0 \/ dot)
    BY <2>2, <2>3, <2>6, <2>7, ArgumentsOf
  <2> HIDE DEF dot
  <2>13. spec.precision \in Int /\ (c.prec = DYNAMIC => spec.precision = DYNAMIC)
         /\ (c.prec = 0 => spec.precision = 0)
    BY <2>12, FieldFacts
  <2>14. spec.precision = DYNAMIC => c.prec = DYNAMIC
    BY <2>1, <2>2, <2>3, <2>6, <2>7, ShapeFacts, WideParts DEF Followed, NumbersAreNumbers
  <2>15. c.prec = DYNAMIC => prec = v
    <3>1. SUFFICES ASSUME c.prec = DYNAMIC PROVE prec = v
      OBVIOUS
    <3>2. "precision" \in Roles(spec)
      BY <2>13, <3>1, RoleFacts
    <3>3. \E t \in slots : t.conv = k /\ t.role = "precision"
      <4>1. k \in 1 .. prim.num_params /\ "precision" \in Roles(prim.specs[k])
        BY <2>2, <2>7, <3>2
      <4>2. \A r \in Roles(prim.specs[k]) : \E t \in slots : t.conv = k /\ t.role = r
        BY <2>1, <2>6, <4>1, SlotPlaces
      <4>3. QED
        BY <4>1, <4>2
    <3>4. dyn = {v}
      BY <2>3, <2>11, <2>13, <3>1, <3>3
    <3>5. \E x \in dyn : TRUE
      BY <3>4
    <3>6. (CHOOSE x \in dyn : TRUE) \in dyn
      BY <3>5, Zenon
    <3>7. prec \in dyn
      BY <2>4, <3>1, <3>6
    <3>8. QED
      BY <3>4, <3>7
  <2>16. c.prec # DYNAMIC => prec = c.prec /\ v = spec.precision
    BY <2>4, <2>11, <2>14
  <2>17. PICK C : C = CopyLen(spec, v, str.len)
    OBVIOUS
  <2>18. /\ C \in Nat /\ C <= str.len /\ (v < 0 \/ spec.precision = 0 => C = str.len)
         /\ v >= 0 => C >= Least(str.len, v)
         /\ v >= 0 /\ spec.precision # 0 => C <= v
    BY <2>10, <2>13, <2>17, CopyLenFacts
  <2>19. prec \in Int
    BY <2>12, <2>15, <2>16
  <2>20. ASSUME spec.precision <= 0 \/ spec.precision = c.prec
         PROVE  C >= IF dot /\ prec >= 0 THEN Least(str.len, prec) ELSE str.len
    <3>1. \A x \in Int : Least(str.len, x) \in Int /\ Least(str.len, x) <= str.len
      BY <2>10 DEF Least
    <3>2. CASE c.prec = DYNAMIC
      <4>1. dot /\ prec = v
        BY <2>12, <2>15, <3>2 DEF DYNAMIC
      <4>2. QED
        BY <2>10, <2>18, <4>1
    <3>3. CASE c.prec # DYNAMIC /\ spec.precision = 0
      BY <2>10, <2>18, <2>19, <3>1, <3>3
    <3>4. CASE c.prec # DYNAMIC /\ spec.precision < 0
      BY <2>10, <2>13, <2>16, <2>18, <2>19, <3>1, <3>4
    <3>5. CASE c.prec # DYNAMIC /\ spec.precision > 0
      <4>1. v = prec /\ v > 0 /\ c.prec # 0
        BY <2>12, <2>13, <2>16, <2>20, <3>5
      <4>2. dot
        BY <2>12, <4>1
      <4>3. QED
        BY <2>18, <4>1, <4>2
    <3>6. QED
      BY <2>13, <3>2, <3>3, <3>4, <3>5
  <2>c. ASSUME spec.precision # 0, spec.precision = c.prec, prec >= 0
        PROVE  C + 1 <= prec + 1
    <3>1. prec = v
      BY <2>15, <2>16, <2>c
    <3>2. QED
      BY <2>18, <2>c, <3>1
  <2>21. /\ str.copy <= str.len
         /\ spec.precision <= 0 \/ spec.precision = c.prec =>
              str.copy >= IF dot /\ prec >= 0 THEN Least(str.len, prec) ELSE str.len
         /\ spec.precision # 0 /\ spec.precision = c.prec /\ prec >= 0 => str.copy + 1 <= prec + 1
    BY <2>11, <2>17, <2>18, <2>20, <2>c
  <2>22. QED
    BY <2>2, <2>21, <2>a, <2>b DEF k
<1>2. QED
  BY <1>1, Invariance, ArgumentsInvariance, PTL

=============================================================================
