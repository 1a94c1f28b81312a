----------------------------- MODULE PrintfSpec -----------------------------
(***************************************************************************)
(* The format string of a call site, as haclog_vsprintf.c reads it.  A     *)
(* format is a sequence of characters, and every operator below reads one  *)
(* conversion of it,                                                       *)
(*     %[flags][width][.precision][length]type                             *)
(* The code reads a format twice: haclog_printf_num_params counts, then    *)
(* haclog_printf_spec_fillup fills an array of that many entries.  The two *)
(* loops are written out one apart from the other in the code, with        *)
(* haclog_printf_get_num and the tests of a character's class in common,   *)
(* and so are CountNext, CountSpec and FillNext, FillSpec here: whether    *)
(* they agree is checked in LogLine.                                       *)
(***************************************************************************)
EXTENDS Integers, Sequences, FiniteSets, TLC

CONSTANT FieldHalf      \* 2^15 for the 16 bits of the code: width and precision
                        \* hold -FieldHalf to FieldHalf - 1, pos_begin and
                        \* pos_end 0 to 2 * FieldHalf - 1

ASSUME FieldAssumption == FieldHalf \in Nat \ {0}

DYNAMIC == -1                       \* HACLOG_PRINTF_SPEC_DYNAMIC

NUL == "NUL"                        \* the end of a C string
At(fmt, i) == IF i \in DOMAIN fmt THEN fmt[i] ELSE NUL

Flags == {"-", "+", " ", "#", "0"}
Digits == <<"0", "1", "2", "3", "4", "5", "6", "7", "8", "9">>
Lengths == {"h", "l", "j", "z", "t", "L"}
Types == {"d", "i", "u", "o", "x", "X", "f", "F", "e", "E", "g", "G",
          "a", "A", "c", "s", "p", "n"}

DigitChars == {Digits[k] : k \in DOMAIN Digits}

(* The first position from i on that does not hold a character of C.       *)
Skip(fmt, i, C) ==
  CHOOSE j \in i..(Len(fmt) + 1) :
    At(fmt, j) \notin C /\ \A k \in i..(j - 1) : fmt[k] \in C

(* The number the digits at i..(j-1) of fmt write down. *)
Decimal(fmt, i, j) ==
  LET val[k \in (i - 1)..(j - 1)] ==
        IF k < i THEN 0
        ELSE 10 * val[k - 1] + (CHOOSE d \in 0..9 : Digits[d + 1] = fmt[k])
  IN  val[j - 1]

(* The value of a width or a precision at i and the position behind it.    *)
GetNum(fmt, i) ==
  IF At(fmt, i) = "*"
  THEN [val |-> DYNAMIC, next |-> i + 1]
  ELSE LET j == Skip(fmt, i, DigitChars)
       IN  [val |-> Decimal(fmt, i, j), next |-> j]

(* What the signed bit-field of a width or a precision keeps of n.         *)
InField(n) ==
  LET u == n % (2 * FieldHalf)
  IN  IF u >= FieldHalf THEN u - 2 * FieldHalf ELSE u

(* What the unsigned bit-field of a position keeps of n; positions count   *)
(* from 0 in the code.                                                     *)
InPos(n) == ((n - 1) % (2 * FieldHalf)) + 1

-----------------------------------------------------------------------------
(* haclog_printf_num_params                                                *)

(* Its position at the next conversion from i on, or behind the string:    *)
(* text and pairs %% are passed over.                                      *)
CountNext(fmt, i) ==
  LET end == Len(fmt) + 1
      next[k \in i..(end + 1)] ==
        IF k >= end THEN end
        ELSE IF fmt[k] /= "%" THEN next[k + 1]
        ELSE IF At(fmt, k + 1) = "%" THEN next[k + 2]
        ELSE k
  IN  next[i]

(* One round at the conversion at i: the error or the number of arguments  *)
(* and where to go on.  length is full with two characters.                *)
CountSpec(fmt, i) ==
  LET width  == GetNum(fmt, Skip(fmt, i + 1, Flags))
      prec   == IF At(fmt, width.next) = "." THEN GetNum(fmt, width.next + 1)
                ELSE [val |-> 0, next |-> width.next]
      type   == Skip(fmt, prec.next, Lengths)
  IN  [err  |-> IF type - prec.next > 2 THEN "HACLOG_ERR_PRINTF_SPEC_LENGTH"
                ELSE IF At(fmt, type) \notin Types THEN "HACLOG_ERR_PRINTF_TYPE"
                ELSE "ok",
       next |-> type + 1,
       args |-> 1 + (IF width.val = DYNAMIC THEN 1 ELSE 0)
                  + (IF prec.val = DYNAMIC THEN 1 ELSE 0)]

-----------------------------------------------------------------------------
(* haclog_printf_spec_fillup                                               *)

(* fmt_type by the length of d, i and of u, o, x, X.                       *)
SignedType ==
  <<>> :> "INT" @@ <<"h", "h">> :> "CHAR" @@ <<"h">> :> "SHORT" @@
  <<"l">> :> "LONG" @@ <<"l", "l">> :> "LONGLONG" @@
  <<"j">> :> "LONGLONG" @@ <<"z">> :> "SIZE" @@ <<"t">> :> "PTRDIFF"
UnsignedType ==
  <<>> :> "UINT" @@ <<"h", "h">> :> "UCHAR" @@ <<"h">> :> "USHORT" @@
  <<"l">> :> "ULONG" @@ <<"l", "l">> :> "ULONGLONG" @@
  <<"j">> :> "ULONGLONG" @@ <<"z">> :> "SIZE" @@ <<"t">> :> "PTRDIFF"
DoubleType == <<>> :> "DOUBLE" @@ <<"L">> :> "LONG_DOUBLE"

(* haclog_printf_spec_fillup_ft: a pair without an entry (%lf, %ls, %n)    *)
(* leaves fmt_type 0, and haclog_printf_spec_fillup ignores the result.    *)
TypeTable(type) ==
  CASE type \in {"d", "i"}            -> SignedType
    [] type \in {"u", "o", "x", "X"}  -> UnsignedType
    [] type \in {"f", "F", "e", "E", "g", "G", "a", "A"} -> DoubleType
    [] type = "c" -> <<>> :> "CHAR"
    [] type = "s" -> <<>> :> "STR"
    [] type = "p" -> <<>> :> "PTR"
    [] OTHER -> [x \in {} |-> "NONE"]

FmtType(type, length) ==
  LET t == TypeTable(type)
  IN  IF length \in DOMAIN t THEN t[length] ELSE "NONE"

(* Its position at the next conversion from i on, or behind the string.    *)
FillNext(fmt, i) ==
  LET end == Len(fmt) + 1
      next[k \in i..(end + 1)] ==
        IF k >= end THEN end
        ELSE IF fmt[k] /= "%" THEN next[k + 1]
        ELSE IF At(fmt, k + 1) = "%" THEN next[k + 2]
        ELSE k
  IN  next[i]

(* Mutant: the second reader takes one length character. *)
FillSpec_OneLength(fmt, i) ==
  LET width  == GetNum(fmt, Skip(fmt, i + 1, Flags))
      prec   == IF At(fmt, width.next) = "." THEN GetNum(fmt, width.next + 1)
                ELSE [val |-> 0, next |-> width.next]
      type   == IF At(fmt, prec.next) \in Lengths THEN prec.next + 1 ELSE prec.next
      length == SubSeq(fmt, prec.next, type - 1)
  IN  [err |-> IF At(fmt, type) \notin Types THEN "HACLOG_ERR_PRINTF_TYPE" ELSE "ok",
       begin |-> i, next |-> type + 1,
       pos_begin |-> InPos(i), pos_end |-> InPos(type + 1),
       width |-> InField(width.val), precision |-> InField(prec.val),
       fmt_type |-> FmtType(At(fmt, type), length)]

(* One round: the error or the entry it fills.  begin and next are where   *)
(* the loop itself is, which is not stored: it goes on at next, and format *)
(* has only the fields pos_begin and pos_end.                              *)
FillSpec(fmt, i) ==
  LET width  == GetNum(fmt, Skip(fmt, i + 1, Flags))
      prec   == IF At(fmt, width.next) = "." THEN GetNum(fmt, width.next + 1)
                ELSE [val |-> 0, next |-> width.next]
      type   == Skip(fmt, prec.next, Lengths)
      length == SubSeq(fmt, prec.next, type - 1)
  IN  [err |-> IF Len(length) > 2 THEN "HACLOG_ERR_PRINTF_SPEC_LENGTH"
               ELSE IF At(fmt, type) \notin Types THEN "HACLOG_ERR_PRINTF_TYPE"
               ELSE "ok",
       begin |-> i, next |-> type + 1,
       pos_begin |-> InPos(i), pos_end |-> InPos(type + 1),
       width |-> InField(width.val), precision |-> InField(prec.val),
       fmt_type |-> FmtType(At(fmt, type), length)]

Placeholder == 8                    \* sizeof(haclog_serialize_placeholder)

(* Bytes of the value itself: a long double is 16 bytes.                   *)
ValueSize(fmt_type) == IF fmt_type = "LONG_DOUBLE" THEN 16 ELSE Placeholder

(* Mutant: a dynamic precision is not counted. *)
ParamSize_NoPrecision(spec) ==
  ValueSize(spec.fmt_type) + (IF spec.width = DYNAMIC THEN Placeholder ELSE 0)

(* haclog_printf_spec_param_size                                           *)
ParamSize(spec) ==
  ValueSize(spec.fmt_type)
    + (IF spec.width = DYNAMIC THEN Placeholder ELSE 0)
    + (IF spec.precision = DYNAMIC THEN Placeholder ELSE 0)
=============================================================================
