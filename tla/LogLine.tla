------------------------------ MODULE LogLine ------------------------------
(***************************************************************************)
(* One log call from its format string to the text of its line:            *)
(* haclog_printf_primitive_gen reads the format (twice) into a primitive,  *)
(* haclog_printf_primitive_serialize takes the caller's arguments off the  *)
(* va_list into slots, haclog_printf_primitive_format takes the slots and  *)
(* prints the line into the message buffer.  The three have nothing in     *)
(* common but the primitive: each walks over its entries with a cursor of  *)
(* its own (the format, the va_list, the slots, the buffer), and the       *)
(* properties say that the cursors stay in step.                           *)
(*                                                                         *)
(* An argument is its number in the call; its value matters only for a     *)
(* width, a precision and the length of a string.  A byte of a line is     *)
(* <<0, k>>, the k-th character of the format, <<c, k>>, the k-th that     *)
(* conversion c prints (what snprintf returns is their number), or a NUL.  *)
(***************************************************************************)
EXTENDS PrintfSpec, FiniteSetsExt

CONSTANTS Formats,      \* the format strings
          BufSizes,     \* sizes of the message buffer
          DynValues,    \* values of a width or a precision argument
          StrLens,      \* lengths of a string argument
          Printed,      \* results of snprintf; a negative one is a failure
          MaxStrCache   \* HACLOG_MAX_STR_CACHE

ASSUME LineAssumption ==
  /\ Formats \subseteq Seq(STRING) /\ Printed \subseteq Int
  /\ BufSizes \subseteq Nat \ {0}
  /\ StrLens \subseteq Nat /\ DynValues \subseteq Int /\ MaxStrCache \in Nat

VARIABLES fmt, bufsize,
          pc,       \* where the call is
          err,      \* haclog_last_error
          pos,      \* the reader's position in the format
          counted,  \* history: where num_params found the conversions
          prim,     \* the primitive: specs, num_params, num_args, param_size
          i,        \* entry of the loops of gen, serialize and format
          va,       \* arguments taken off the va_list
          p,        \* offset in the const arguments
          slots,    \* what serialize put there
          strs,     \* str_cache; the entries from MaxStrCache on are "full"
          strings,  \* the string area
          got,      \* what format took: conversion, role and the slot
          line,     \* buf[0..total_bytes)
          text,     \* history: what an unbounded buffer would hold
          misread   \* history: snprintf lacked an argument or failed

vars == <<fmt, bufsize, pc, err, pos, counted, prim, i, va, p, slots, strs,
          strings, got, line, text, misread>>
site == <<fmt, bufsize>>
call == <<i, va, p, slots, strs, strings, got, line, text, misread>>

NoPrimitive == [specs |-> <<>>, num_params |-> 0, num_args |-> 0,
                param_size |-> 0]

Init ==
  /\ fmt \in Formats /\ bufsize \in BufSizes
  /\ pc = "count" /\ err = "ok" /\ pos = 1 /\ counted = <<>> /\ prim = NoPrimitive
  /\ i = 1 /\ va = 0 /\ p = 0 /\ slots = {} /\ strs = <<>> /\ strings = {}
  /\ got = {} /\ line = <<>> /\ text = <<>> /\ misread = FALSE

-----------------------------------------------------------------------------
(* haclog_printf_primitive_gen                                             *)

Fail(e) ==
  /\ pc' = "failed" /\ err' = e /\ prim' = NoPrimitive
  /\ UNCHANGED <<site, pos, counted, call>>

(* haclog_printf_num_params, one conversion a step. *)
CountConv ==
  /\ pc = "count"
  /\ LET k == CountNext(fmt, pos)
         c == CountSpec(fmt, k)
     IN  /\ k <= Len(fmt)
         /\ IF c.err /= "ok" THEN Fail(c.err)
            ELSE /\ prim' = [prim EXCEPT !.num_params = @ + 1,
                                         !.num_args = @ + c.args]
                 /\ pos' = c.next /\ counted' = Append(counted, <<k, c.next>>)
                 /\ UNCHANGED <<site, pc, err, call>>

(* haclog_printf_primitive_allocate, which may fail. *)
Allocate ==
  /\ pc = "count" /\ CountNext(fmt, pos) > Len(fmt)
  /\ \/ Fail("HACLOG_ERR_ALLOC_MEM")
     \/ pc' = "fill" /\ pos' = 1 /\ UNCHANGED <<site, err, counted, prim, call>>

(* haclog_printf_spec_fillup, one entry a step.  Its error is not stored   *)
(* by haclog_set_error.                                                    *)
FillConv ==
  /\ pc = "fill" /\ Len(prim.specs) < prim.num_params
  /\ LET k == FillNext(fmt, pos)
         s == FillSpec(fmt, k)
     IN  /\ k <= Len(fmt)
         /\ IF s.err /= "ok" THEN Fail(err)
            ELSE /\ prim' = [prim EXCEPT !.specs = Append(@, s)]
                 /\ pos' = s.next
                 /\ UNCHANGED <<site, pc, err, counted, call>>

(* The end of fillup. *)
FillEnd ==
  /\ pc = "fill"
  /\ Len(prim.specs) = prim.num_params \/ FillNext(fmt, pos) > Len(fmt)
  /\ pc' = "size" /\ UNCHANGED <<site, err, pos, counted, prim, call>>

(* The sum of the sizes, one entry a step. *)
SetParamSize ==
  /\ pc = "size"
  /\ IF i <= prim.num_params
     THEN /\ prim' = [prim EXCEPT !.param_size = @ + ParamSize(prim.specs[i])]
          /\ i' = i + 1 /\ UNCHANGED pc
     ELSE pc' = "serialize" /\ i' = 1 /\ UNCHANGED prim
  /\ UNCHANGED <<site, err, pos, counted, va, p, slots, strs, strings, got,
                 line, text, misread>>

-----------------------------------------------------------------------------
(* haclog_printf_primitive_serialize                                       *)

RoundUp8(n) == ((n + 7) \div 8) * 8

FullText == 23              \* strlen("(haclog str cache full)")

(* Mutant: the value is taken before the precision. *)
Takes_ValueFirst(spec) ==
  (IF spec.width = DYNAMIC THEN <<"width">> ELSE <<>>) \o
  (IF spec.fmt_type = "NONE" THEN <<>> ELSE <<"value">>) \o
  (IF spec.precision = DYNAMIC THEN <<"precision">> ELSE <<>>)

(* What one entry takes off the va_list, in this order.                    *)
Takes(spec) ==
  (IF spec.width = DYNAMIC THEN <<"width">> ELSE <<>>) \o
  (IF spec.precision = DYNAMIC THEN <<"precision">> ELSE <<>>) \o
  (IF spec.fmt_type = "NONE" THEN <<>> ELSE <<"value">>)

(* Mutant: an absent precision is found by the value of the argument. *)
CopyLen_Negative(spec, precision, len) ==
  IF precision = 0 \/ len < precision THEN len
  ELSE IF precision < 0 THEN 0 ELSE precision

(* Characters copied of a string of len characters; a negative precision   *)
(* is a huge unsigned one.                                                 *)
CopyLen(spec, precision, len) ==
  IF spec.precision = 0 \/ precision < 0 \/ len < precision
  THEN len ELSE precision

(* Characters of the string looked at: the loop reads a character before   *)
(* it compares with the precision, and strlen reads the NUL.               *)
CharsRead(copied) == copied + 1

(* extra_len: the bytes of the strings cached so far. *)
ExtraLen(cache) ==
  MapThenSumSet(LAMBDA k : RoundUp8(cache[k].copy + 1), DOMAIN cache)

(* The value a role has in this call: a chosen width or precision, and for *)
(* a string the offset of its copy.                                        *)
SlotsOf(spec, dyn) ==
  LET t == Takes(spec)
      full == spec.fmt_type = "STR" /\ Len(strs) >= MaxStrCache
  IN  {[at |-> p + Placeholder * (k - 1), conv |-> i, role |-> t[k],
        arg |-> IF t[k] = "value" /\ full THEN 0 ELSE va + k,
        val |-> IF t[k] /= "value" THEN dyn[t[k]]
                ELSE IF spec.fmt_type = "STR" THEN ExtraLen(strs) ELSE 0]
         : k \in DOMAIN t}

SerializeConv ==
  /\ pc = "serialize" /\ i <= prim.num_params
  /\ LET spec == prim.specs[i]
         t    == Takes(spec)
         full == Len(strs) >= MaxStrCache
         size == IF spec.fmt_type = "NONE" THEN Placeholder * Len(t)
                 ELSE Placeholder * (Len(t) - 1) + ValueSize(spec.fmt_type)
     IN  \E dyn \in [{t[k] : k \in DOMAIN t} \ {"value"} -> DynValues],
            len \in IF spec.fmt_type = "STR" /\ ~full THEN StrLens ELSE {0} :
           /\ slots' = slots \cup SlotsOf(spec, dyn)
           /\ p' = p + size
           /\ IF spec.fmt_type /= "STR"
              THEN va' = va + Len(t) /\ strs' = strs
              ELSE IF full
              THEN /\ va' = va + Len(t) - 1
                   /\ strs' = Append(strs, [arg |-> 0, len |-> FullText,
                                            copy |-> FullText])
              ELSE LET pr == IF spec.precision = DYNAMIC THEN dyn.precision
                             ELSE spec.precision
                   IN  /\ va' = va + Len(t)
                       /\ strs' = Append(strs,
                            [arg |-> va + Len(t), len |-> len,
                             copy |-> CopyLen(spec, pr, len)])
  /\ i' = i + 1
  /\ UNCHANGED <<site, pc, err, pos, counted, prim, strings, got, line, text,
                 misread>>

(* The strings are copied one behind the other, the cached ones first.     *)
CopyStrings ==
  /\ pc = "serialize" /\ i > prim.num_params
  /\ strings' = {[at |-> ExtraLen(SubSeq(strs, 1, k - 1)), arg |-> strs[k].arg,
                  copy |-> strs[k].copy] : k \in DOMAIN strs}
  /\ pc' = "format" /\ i' = 1 /\ p' = 0
  /\ UNCHANGED <<site, err, pos, counted, prim, va, slots, strs, got, line,
                 text, misread>>

-----------------------------------------------------------------------------
(* haclog_printf_primitive_format                                          *)

Nothing == [at |-> -1, conv |-> 0, role |-> "none", arg |-> 0, val |-> 0]
SlotAt(off) ==
  IF \E s \in slots : s.at = off THEN CHOOSE s \in slots : s.at = off
  ELSE Nothing

NulByte == <<-1, 0>>
Least(a, b) == IF a < b THEN a ELSE b

(* fmt_pos behind entry k, and where the entry really ends.                *)
FmtEnd(k) == IF k = 0 THEN 1 ELSE prim.specs[k].pos_end
TextEnd(k) == IF k = 0 THEN 1 ELSE prim.specs[k].next

(* Mutant: text is copied without looking at the space. *)
Literal_NoCut(from, to, remain) == [k \in 1..(to - from) |-> <<0, from + k - 1>>]

(* The text of the format between two conversions is copied as it is, and  *)
(* cut to the remaining space.                                             *)
Literal(from, to, remain) ==
  [k \in 1..Least(to - from, remain) |-> <<0, from + k - 1>>]

(* Mutant: a dynamic precision has no slot of its own. *)
ReadAt_NoPrecision(spec) ==
  LET w == IF spec.width = DYNAMIC THEN Placeholder ELSE 0
  IN  [width |-> p, precision |-> p + w, value |-> p + w,
       next |-> p + w + ValueSize(spec.fmt_type)]

(* The slots the entry is read from: their offsets, by role.               *)
ReadAt(spec) ==
  LET w == IF spec.width = DYNAMIC THEN Placeholder ELSE 0
      q == IF spec.precision = DYNAMIC THEN Placeholder ELSE 0
  IN  [width |-> p, precision |-> p + w, value |-> p + w + q,
       next |-> p + w + q +
                (IF spec.fmt_type = "NONE" THEN 0 ELSE ValueSize(spec.fmt_type))]

(* Mutant: the number snprintf returns is taken for what it wrote. *)
Conversion_NoCut(k, n, remain) ==
  [c \in 1..n |-> IF c >= remain THEN NulByte ELSE <<k, c>>]

(* What snprintf leaves of n characters of conversion k in remain bytes,   *)
(* the last of which is its NUL; the code counts remain of them.           *)
Conversion(k, n, remain) ==
  [c \in 1..Least(n, remain) |-> IF c = remain THEN NulByte ELSE <<k, c>>]

(* haclog_printf_primitive_format_str and its siblings of the other types  *)
(* pass a width and a precision to snprintf only when they are positive.   *)
ArgMissing(spec, at) ==
  /\ spec.fmt_type /= "NONE"
  /\ \/ spec.width = DYNAMIC /\ SlotAt(at.width).val <= 0
     \/ spec.precision = DYNAMIC /\ SlotAt(at.precision).val <= 0

(* The text in front of entry k goes into the line, and what an unbounded  *)
(* buffer would get.                                                       *)
Before(k) == Literal(FmtEnd(k - 1), prim.specs[k].pos_begin, bufsize - 1 - Len(line))
TextBefore(k) == Literal(TextEnd(k - 1), prim.specs[k].begin, Len(fmt))

(* The slots of the entry are taken. *)
TakeSlots(spec, at) ==
  /\ p' = at.next
  /\ got' = got \cup
       {<<i, r, SlotAt(at[r])>> : r \in {Takes(spec)[k] : k \in DOMAIN Takes(spec)}}
  /\ UNCHANGED <<site, err, pos, counted, prim, va, slots, strs, strings>>

(* One entry.  The text the conversion is cut out of the format with,      *)
(* pos_end - pos_begin characters, is not negative.                        *)
FormatConv ==
  /\ pc = "format" /\ i <= prim.num_params
  /\ LET spec == prim.specs[i]
         at == ReadAt(spec)
         lit == Before(i)
         remain == bufsize - 1 - Len(line) - Len(lit)
     IN  \E n \in IF spec.fmt_type = "NONE" THEN {0} ELSE Printed \cap Nat :
           LET out == Conversion(i, n, remain)
           IN  /\ spec.fmt_type = "NONE" \/ spec.pos_begin <= spec.pos_end
               /\ line' = line \o lit \o out
               /\ text' = text \o TextBefore(i) \o [c \in 1..n |-> <<i, c>>]
               /\ misread' = (misread \/ ArgMissing(spec, at))
               /\ TakeSlots(spec, at)
               /\ IF remain - Len(out) <= 0
                  THEN pc' = "tail" /\ UNCHANGED i
                  ELSE i' = i + 1 /\ UNCHANGED pc

(* snprintf fails, and its negative result is added to total_bytes as any  *)
(* other: the line loses its last bytes, or what follows is written in     *)
(* front of the buffer.                                                    *)
FormatFails ==
  /\ pc = "format" /\ i <= prim.num_params
  /\ LET spec == prim.specs[i]
         lit == Before(i)
     IN  /\ spec.fmt_type /= "NONE" /\ spec.pos_begin <= spec.pos_end
         /\ \E n \in Printed \ Nat :
              LET total == Len(line) + Len(lit) + n
              IN  IF total >= 0
                  THEN /\ line' = SubSeq(line \o lit, 1, total)
                       /\ i' = i + 1 /\ UNCHANGED pc
                  ELSE line' = <<>> /\ pc' = "outside" /\ UNCHANGED i
         /\ TakeSlots(spec, ReadAt(spec))
  /\ text' = text \o TextBefore(i) /\ misread' = TRUE

(* The field pos_end came round and pos_begin did not: memcpy gets a       *)
(* negative length.                                                        *)
FormatWrapped ==
  /\ pc = "format" /\ i <= prim.num_params
  /\ prim.specs[i].fmt_type /= "NONE"
  /\ prim.specs[i].pos_end < prim.specs[i].pos_begin
  /\ line' = <<>> /\ pc' = "outside"
  /\ UNCHANGED <<site, err, pos, counted, prim, i, va, p, slots, strs, strings,
                 got, text, misread>>

(* The text behind the last conversion, and the end of the call. *)
FormatTail ==
  /\ pc = "tail" \/ (pc = "format" /\ i > prim.num_params)
  /\ LET k == IF pc = "tail" THEN i ELSE prim.num_params
     IN  /\ line' = line \o Literal(FmtEnd(k), Len(fmt) + 1, bufsize - 1 - Len(line))
         /\ text' = text \o Literal(TextEnd(k), Len(fmt) + 1, Len(fmt))
  /\ pc' = "done"
  /\ UNCHANGED <<site, err, pos, counted, prim, i, va, p, slots, strs, strings,
                 got, misread>>

-----------------------------------------------------------------------------
(* The next call of the site: with the primitive, or by generating again.  *)
NextCall ==
  /\ pc \in {"done", "outside", "failed"}
  /\ pc' = IF pc = "failed" THEN "count" ELSE "serialize"
  /\ counted' = IF pc = "failed" THEN <<>> ELSE counted
  /\ pos' = 1 /\ err' = "ok" /\ i' = 1 /\ va' = 0 /\ p' = 0 /\ slots' = {}
  /\ strs' = <<>> /\ strings' = {} /\ got' = {} /\ line' = <<>>
  /\ text' = <<>> /\ misread' = FALSE
  /\ UNCHANGED <<site, prim>>

Next == \/ CountConv \/ Allocate \/ FillConv \/ FillEnd \/ SetParamSize
        \/ SerializeConv \/ CopyStrings \/ FormatConv \/ FormatFails
        \/ FormatWrapped \/ FormatTail \/ NextCall

Spec == Init /\ [][Next]_vars
-----------------------------------------------------------------------------
(* Properties.                                                             *)

Phases == {"count", "fill", "size", "serialize", "format", "tail", "done",
           "outside", "failed"}
Read == {"serialize", "format", "tail", "done", "outside"}

(* Every counter is a natural number, and the line and its NUL never pass  *)
(* the end of the message buffer, whatever snprintf returns.               *)
TypeOK ==
  /\ bufsize \in BufSizes /\ pc \in Phases
  /\ pos \in 1..(Len(fmt) + 1) /\ i \in Nat /\ va \in Nat /\ p \in Nat
  /\ prim.num_params \in Nat /\ prim.num_args \in Nat
  /\ Len(line) < bufsize /\ misread \in BOOLEAN

(* The two readers of the format agree: haclog_printf_spec_fillup fills    *)
(* every entry haclog_printf_num_params counted (an entry left out would   *)
(* be read uninitialised) with the conversion that was counted there, and  *)
(* refuses nothing that was counted, so gen never returns NULL without an  *)
(* error.                                                                  *)
PassesAgree ==
  /\ pc = "failed" => err /= "ok"
  /\ pc \in Read \cup {"size"} =>
       counted = [k \in 1..prim.num_params |->
                    <<prim.specs[k].begin, prim.specs[k].next>>]

(* The bytes serialize writes for the arguments stay inside the            *)
(* primitive's param_size bytes it claimed, whatever the conversions.      *)
ConstArgsFit ==
  pc \in Read =>
    /\ p <= prim.param_size
    /\ \A s \in slots :
         LET size == IF s.role = "value"
                     THEN ValueSize(prim.specs[s.conv].fmt_type)
                     ELSE Placeholder
         IN  s.at + size <= prim.param_size

(* format takes for each conversion the slots serialize wrote for that     *)
(* conversion and that role, and for a string the copy of that argument:   *)
(* the two loops skip the same entries and advance by the same sizes.      *)
SlotsInStep ==
  \A g \in got :
    /\ g[3].conv = g[1] /\ g[3].role = g[2]
    /\ g[2] = "value" /\ prim.specs[g[1]].fmt_type = "STR" =>
         \E s \in strings : s.at = g[3].val /\ s.arg = g[3].arg

(* The argument of a conversion by the rules of C: one for every star and  *)
(* one for the value, in the order of the format.                          *)
Within(k) == prim.specs[k].begin..(prim.specs[k].next - 1)
Stars(k) == Cardinality({j \in Within(k) : fmt[j] = "*"})
ArgOf(k, role) ==
  LET upTo[m \in 0..k] == IF m = 0 THEN 0 ELSE upTo[m - 1] + Stars(m) + 1
      value == upTo[k]
  IN  CASE role = "value"     -> value
        [] role = "precision" -> value - 1
        [] role = "width"     -> value - Stars(k)

(* What the format has for a width and a precision: a number, DYNAMIC for  *)
(* a star, 0 without one.                                                  *)
Wide(k) == GetNum(fmt, Skip(fmt, prim.specs[k].begin + 1, Flags))
Precise(k) ==
  IF At(fmt, Wide(k).next) = "." THEN GetNum(fmt, Wide(k).next + 1).val ELSE 0

(* "otherwise: number width": no number is taken for a star.               *)
NumbersAreNumbers ==
  \A k \in DOMAIN prim.specs :
    /\ prim.specs[k].width = DYNAMIC => Wide(k).val = DYNAMIC
    /\ prim.specs[k].precision = DYNAMIC => Precise(k) = DYNAMIC

(* The formats serialize follows: every conversion has an entry in its     *)
(* tables, no constant width or precision is taken for a star, and the     *)
(* strings have room in str_cache.                                         *)
Followed ==
  /\ \A k \in DOMAIN prim.specs : prim.specs[k].fmt_type /= "NONE"
  /\ NumbersAreNumbers
  /\ Cardinality({k \in DOMAIN prim.specs : prim.specs[k].fmt_type = "STR"})
       <= MaxStrCache

(* Each slot holds the argument the caller passed for it, and the va_list  *)
(* is read to its end and not beyond.                                      *)
InPlace ==
  /\ \A s \in slots : s.arg = ArgOf(s.conv, s.role)
  /\ pc /= "serialize" => va = prim.num_args

(* With a format that serialize follows the arguments are in place.        *)
OwnArguments == pc \in Read /\ Followed => InPlace

(* A string argument: its conversion k, and the entry of str_cache.        *)
IsString(s) == s.role = "value" /\ prim.specs[s.conv].fmt_type = "STR"
Copy(s) == CHOOSE x \in {strs[k] : k \in DOMAIN strs} : x.arg = s.arg
HasPoint(k) == \E j \in Within(k) : fmt[j] = "."
PrecisionOf(k) ==
  LET dyn == {t.val : t \in {t \in slots : t.conv = k /\ t.role = "precision"}}
  IN  IF Precise(k) = DYNAMIC THEN CHOOSE v \in dyn : TRUE ELSE Precise(k)

(* serialize copies of a string what the conversion will print: all of it, *)
(* or as much as its precision, a zero, a negative or an absent precision  *)
(* included; unless the precision is a number so large that its field      *)
(* holds another positive one.  With a precision it copies no more, and    *)
(* looks at one character more than printf would (ReadsInside); the zero   *)
(* of "%.0s" is the same as none.                                          *)
StringsWhole ==
  pc \in Read \ {"serialize"} /\ Followed =>
    \A s \in slots : IsString(s) =>
      LET spec == prim.specs[s.conv]
          prec == PrecisionOf(s.conv)
      IN  /\ Copy(s).copy <= Copy(s).len
          /\ spec.precision <= 0 \/ spec.precision = Precise(s.conv) =>
               Copy(s).copy >= IF HasPoint(s.conv) /\ prec >= 0
                               THEN Least(Copy(s).len, prec)
                               ELSE Copy(s).len
          /\ spec.precision /= 0 /\ spec.precision = Precise(s.conv) /\ prec >= 0 =>
               CharsRead(Copy(s).copy) <= prec + 1

(* Every position of the format has room in pos_begin and pos_end.         *)
Short == Len(fmt) < 2 * FieldHalf

(* Unless a width or precision argument that is not positive was left out  *)
(* of the call of snprintf (whose output is then undefined) or snprintf    *)
(* failed, the line of a format that is not too long stays in the buffer   *)
(* and is the text of the format (a pair %% stays a pair) with what each   *)
(* conversion prints in its place, cut at the end of the buffer.  Its last *)
(* byte is a NUL exactly when a conversion reaches that byte: snprintf     *)
(* keeps it for itself and format counts it, which the header excludes     *)
(* (NoNulCounted).                                                         *)
LineIsCutText ==
  pc \in {"done", "outside"} /\ Short /\ ~misread =>
    /\ pc = "done"
    /\ Len(line) = Least(Len(text), bufsize - 1)
    /\ \A k \in DOMAIN line :
         line[k] = IF k = bufsize - 1 /\ text[k][1] /= 0 THEN NulByte ELSE text[k]

-----------------------------------------------------------------------------
(* What the header says and the code does not do.  No run checks these:    *)
(* each fails in the instance of LogLine.cfg, and README.md says how.      *)

(* "the number of characters printed (exclude '\0')": no NUL is counted in *)
(* the line.                                                               *)
NoNulCounted == \A k \in DOMAIN line : line[k] /= NulByte

(* "on success, return the number of characters printed": total_bytes is   *)
(* that number, it never falls below zero.                                 *)
CountNotNegative == pc /= "outside"

(* "range of specifier: [pos_begin, pos_end)": the fields of an entry are  *)
(* where its conversion is.                                                *)
EntryIsRange ==
  \A k \in DOMAIN prim.specs :
    /\ prim.specs[k].pos_begin = prim.specs[k].begin
    /\ prim.specs[k].pos_end = prim.specs[k].next

(* "format(printf, 3, 4)": every format of printf finds its arguments.     *)
PrintfArguments == pc \in Read => InPlace

(* "format(printf, 3, 4)": of a string with a precision no more characters *)
(* are looked at than printf would, which allows an array without a NUL.   *)
ReadsInside ==
  pc \in Read \ {"serialize"} /\ Followed =>
    \A s \in slots : IsString(s) /\ HasPoint(s.conv) /\ PrecisionOf(s.conv) >= 0 =>
      CharsRead(Copy(s).copy) <= PrecisionOf(s.conv)
=============================================================================
