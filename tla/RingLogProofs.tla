--------------------------- MODULE RingLogProofs ---------------------------
(***************************************************************************)
(* Proofs about RingLog for all buffer capacities, message sizes and       *)
(* numbers of calls.                                                       *)
(***************************************************************************)
EXTENDS RingLogInv, TLAPS

(***************************************************************************)
(* haclog_bytes_buffer_w_fc either fails, asks to wait, keeps the writer's *)
(* position when one of the two fits without wrapping holds, or goes to 0. *)
(***************************************************************************)
LEMMA WfcCases ==
  ASSUME NEW c, NEW n, NEW x, NEW y,
         NEW pos, pos = haclog_bytes_buffer_w_fc(c, n, x, y)
  PROVE  \/ pos = Failed
         \/ pos = NeedWait
         \/ pos = y /\ (FitsUpToEnd(c, n, x, y) \/ FitsBeforeReader(n, x, y))
         \/ pos = 0 /\ FitsAfterWrap(c, n, x, y)
  BY DEF haclog_bytes_buffer_w_fc

(* A position that is given out is a natural number. *)
LEMMA FetchedType ==
  ASSUME TypeOK, Fetched >= 0
  PROVE  /\ Fetched \in Nat
         /\ \/ Fetched = f_w /\ (\/ FitsUpToEnd(capacity, FetchSize, f_r, f_w)
                                 \/ FitsBeforeReader(FetchSize, f_r, f_w))
            \/ Fetched = 0 /\ FitsAfterWrap(capacity, FetchSize, f_r, f_w)
  <1>1. \/ Fetched = Failed
        \/ Fetched = NeedWait
        \/ Fetched = f_w /\ (\/ FitsUpToEnd(capacity, FetchSize, f_r, f_w)
                             \/ FitsBeforeReader(FetchSize, f_r, f_w))
        \/ Fetched = 0 /\ FitsAfterWrap(capacity, FetchSize, f_r, f_w)
    BY WfcCases DEF Fetched
  <1>2. f_w \in Nat
    BY DEF TypeOK
  <1> QED
    BY <1>1, <1>2 DEF Failed, NeedWait

LEMMA CapacityType ==
  ASSUME NEW c \in Capacities
  PROVE  c \in Nat /\ c >= 2 * WR_MIN_INTERVAL /\ WR_MIN_INTERVAL \in Nat /\ WR_MIN_INTERVAL > 0
  BY CapacitiesAssumption, IntervalAssumption DEF haclog_bytes_buffer_new

-----------------------------------------------------------------------------
(* The type invariant is inductive. *)
(* w_move and r_move leave a position of the buffer, whatever they get. *)
LEMMA MovedInside ==
  ASSUME NEW c \in Nat, c > 0, NEW old \in 0 .. c - 1, NEW pos
  PROVE  MovedTo(c, pos, old) \in 0 .. c - 1
  <1>1. CASE pos = c
    <2>1. MovedTo(c, pos, old) = 0
      BY <1>1 DEF MovedTo
    <2> QED
      BY <2>1
  <1>2. CASE pos # c /\ pos \in 0 .. c - 1
    <2>1. MovedTo(c, pos, old) = pos
      BY <1>2, Zenon DEF MovedTo
    <2> QED
      BY <1>2, <2>1
  <1>3. CASE pos # c /\ pos \notin 0 .. c - 1
    <2>1. MovedTo(c, pos, old) = old
      BY <1>3, Zenon DEF MovedTo
    <2> QED
      BY <2>1
  <1> QED
    BY <1>1, <1>2, <1>3

LEMMA TypeInit == Init => TypeOK
  <1> SUFFICES ASSUME Init PROVE TypeOK
    OBVIOUS
  <1>1. capacity \in Nat /\ capacity > 0
    BY CapacityType DEF Init
  <1> QED
    BY <1>1, BoundsAssumption DEF Init, TypeOK, FrontPc, BackPc, Garbled

LEMMA TypeNext == TypeOK /\ [Next]_vars => TypeOK'
  <1> SUFFICES ASSUME TypeOK, [Next]_vars PROVE TypeOK'
    OBVIOUS
  <1> USE DEF TypeOK
  <1>0. /\ capacity \in Nat /\ capacity > 0
        /\ HdrSize \in Nat /\ WR_MIN_INTERVAL \in Nat
        /\ param_size \in Nat /\ extra_len \in Nat
    BY CapacityType, SizesAssumption
  <1>1. ASSUME NEW p \in ParamSizes, NEW s \in StrSizes, SerializeBegin(p, s)
        PROVE  TypeOK'
    BY <1>0, <1>1, BoundsAssumption
       DEF SerializeBegin, bufferVars, backVars, FrontPc, FetchPc
  <1>2. CASE FetchRetry
    BY <1>0, <1>2 DEF FetchRetry, bufferVars, callVars, backVars
  <1>3. CASE FetchRefuse
    BY <1>0, <1>3 DEF FetchRefuse, bufferVars, callVars, backVars, FrontPc
  <1>4. CASE FetchHdr
    <2>1. Fetched \in Nat
      BY <1>4, FetchedType DEF FetchHdr
    <2> QED
      BY <1>0, <1>4, <2>1 DEF FetchHdr, bufferVars, backVars, FrontPc, FetchPc
  <1>5. CASE FetchConst
    <2>1. Fetched \in Nat
      BY <1>5, FetchedType DEF FetchConst
    <2> QED
      BY <1>0, <1>5, <2>1 DEF FetchConst, Stored, backVars, FrontPc, FetchPc
  <1>6. CASE FetchStr
    <2>1. Fetched \in Nat
      BY <1>6, FetchedType DEF FetchStr
    <2> QED
      BY <1>0, <1>6, <2>1 DEF FetchStr, Stored, backVars, FrontPc, FetchPc
  <1>7. CASE FetchGap
    <2>1. Fetched \in Nat
      BY <1>7, FetchedType DEF FetchGap
    <2> QED
      BY <1>0, <1>7, <2>1 DEF FetchGap, bufferVars, callVars, backVars, FrontPc
  <1>8. CASE FillHdr
    BY <1>0, <1>8 DEF FillHdr, Stored, callVars, backVars, FrontPc
  <1>9. CASE WMove
    <2>1. w' \in 0 .. capacity - 1
      BY <1>0, <1>9, MovedInside DEF WMove
    <2>2. Published \in Message
      BY <1>0 DEF Published, Hdr, Header, Message
    <2>3. sent' \in Seq(Message)
      BY <1>9, <2>2 DEF WMove
    <2> QED
      BY <1>9, <2>1, <2>3 DEF WMove, callVars, backVars, FrontPc
  <1>10. CASE ConsumeBegin
    BY <1>0, <1>10 DEF ConsumeBegin, bufferVars, frontVars, callVars, BackPc
  <1>11. CASE FormatNone
    BY <1>0, <1>11 DEF FormatNone, bufferVars, frontVars, callVars, BackPc
  <1>12. CASE FormatBegin
    BY <1>0, <1>12 DEF FormatBegin, frontVars, callVars, BackPc
  <1>13. CASE FormatRead
    <2>1. msg' \in Nat /\ b_pc' \in BackPc
      BY <1>13 DEF FormatRead, HdrAt, Header, Garbled, BackPc
    <2> QED
      BY <1>13, <2>1 DEF FormatRead, bufferVars, frontVars, callVars
  <1>14. CASE RMove
    <2>1. r' \in 0 .. capacity - 1
      <3>1. r \in 0 .. capacity - 1
        OBVIOUS
      <3> HIDE DEF TypeOK
      <3>2. (\E pos : r' = MovedTo(capacity, pos, r)) \/ r' = r
        BY <1>14 DEF RMove
      <3> QED
        BY <1>0, <3>1, <3>2, MovedInside
    <2>2. b_pc' \in BackPc
      BY <1>14 DEF RMove, BackPc
    <2> QED
      BY <1>14, <2>1, <2>2 DEF RMove, frontVars, callVars
  <1>15. CASE HandlersWrite
    BY <1>0, <1>15 DEF HandlersWrite, bufferVars, frontVars, callVars, BackPc
  <1>16. ASSUME NEW c \in Capacities, Recreate(c)
         PROVE  TypeOK'
    <2>1. c \in Nat /\ c > 0
      BY CapacityType
    <2> QED
      BY <1>16, <2>1 DEF Recreate, frontVars, backVars, callVars
  <1>17. CASE UNCHANGED vars
    BY <1>17 DEF vars, bufferVars, frontVars, callVars, backVars
  <1> QED
    BY <1>1, <1>2, <1>3, <1>4, <1>5, <1>6, <1>7, <1>8, <1>9, <1>10, <1>11, <1>12,
       <1>13, <1>14, <1>15, <1>16, <1>17
    DEF Next, FrontStep, BackStep

(***************************************************************************)
(* The positions the two threads store stay inside the buffer, whatever    *)
(* the sizes of the messages and of later buffers.                         *)
(***************************************************************************)
THEOREM TypeCorrect == Spec => []TypeOK
  BY TypeInit, TypeNext, PTL DEF Spec

-----------------------------------------------------------------------------
(* Facts used throughout the proof of the inductive invariant. *)
LEMMA Types ==
  ASSUME TypeOK
  PROVE  /\ WR_MIN_INTERVAL \in Nat /\ WR_MIN_INTERVAL > 0
         /\ HdrSize \in Nat /\ HdrSize > 0
         /\ capacity \in Nat /\ capacity > 0
         /\ w \in Nat /\ w < capacity /\ r \in Nat /\ r < capacity
         /\ f_r \in Nat /\ f_w \in Nat
         /\ w_hdr \in Nat /\ w_const_args \in Nat /\ w_str \in Nat
         /\ param_size \in Nat /\ extra_len \in Nat
         /\ Len(sent) \in Nat /\ Len(handled) \in Nat /\ released \in Nat
  <1>1. capacity \in Nat /\ capacity >= 2 * WR_MIN_INTERVAL
        /\ WR_MIN_INTERVAL \in Nat /\ WR_MIN_INTERVAL > 0
    BY CapacityType DEF TypeOK
  <1>2. Len(sent) \in Nat /\ Len(handled) \in Nat
    BY DEF TypeOK
  <1> QED
    BY <1>1, <1>2, SizesAssumption DEF TypeOK, released

LEMMA SentTypes ==
  ASSUME TypeOK, NEW i \in 1 .. Len(sent)
  PROVE  /\ sent[i] \in Message /\ sent[i].hdr \in Header
         /\ sent[i].start \in Nat /\ sent[i].pos \in Nat
         /\ sent[i].hdr.pos_const \in Nat /\ sent[i].hdr.param_size \in Nat
         /\ sent[i].hdr.pos_str \in Nat /\ sent[i].hdr.extra_len \in Nat
         /\ sent[i].hdr.pos_end \in Nat /\ sent[i].hdr.id \in Nat
  <1>1. sent[i] \in Message
    BY DEF TypeOK
  <1> QED
    BY <1>1 DEF Message, Header

(* A copy leaves alone what is apart from it, and holds what was copied. *)
LEMMA StoredApart ==
  ASSUME NEW mem, NEW a \in Nat, NEW n \in Nat, NEW b \in Nat, NEW m \in Nat, NEW u, NEW v,
         Holds(mem, b, m, v), Apart(a, n, b, m)
  PROVE  Holds(Stored(mem, a, n, u), b, m, v)
  BY DEF Holds, Stored, Apart, Bytes

LEMMA StoredHolds ==
  ASSUME NEW mem, NEW c \in Nat, DOMAIN mem = 0 .. c - 1,
         NEW a \in Nat, NEW n \in Nat, a + n <= c, NEW u
  PROVE  Holds(Stored(mem, a, n, u), a, n, u)
  BY DEF Holds, Stored, Bytes

(* With the reader at x, free bytes are apart from the arc from x to w. *)
LEMMA FreeApart ==
  ASSUME TypeOK, NEW x \in Nat, MaybeReader(x),
         NEW a \in Nat, NEW n \in Nat, Free(a, n),
         NEW b \in Nat, NEW m \in Nat, InArc(x, w, b, m)
  PROVE  Apart(a, n, b, m)
  <1>1. /\ WR_MIN_INTERVAL \in Nat /\ capacity \in Nat /\ w \in Nat /\ f_r \in Nat
        /\ w < capacity
    BY Types
  <1> QED
    BY <1>1 DEF InArc, Free, Apart, MaybeReader

(* Free bytes are bytes of the buffer. *)
LEMMA FreeInside ==
  ASSUME TypeOK, CachedReader, NEW a \in Nat, NEW n \in Nat, Free(a, n)
  PROVE  a + n <= capacity
  <1>1. /\ WR_MIN_INTERVAL \in Nat /\ capacity \in Nat /\ w \in Nat /\ f_r \in Nat
        /\ f_r < capacity
    BY Types DEF CachedReader
  <1> QED
    BY <1>1 DEF Free

(* The headers of the unread messages are where the reader may be. *)
LEMMA UnreadAhead ==
  ASSUME TypeOK, CachedReader, ReaderAt, HdrPlace, UnreadInArc, NEW i \in Unread
  PROVE  MaybeReader(sent[i].pos)
  <1> DEFINE f == released + 1
  <1>1. f \in Unread /\ f \in 1 .. Len(sent) /\ i \in 1 .. Len(sent) /\ i \in f .. Len(sent)
    <2>1. released \in Nat /\ Len(sent) \in Nat
      BY Types
    <2> QED
      BY <2>1 DEF Unread
  <1>2. /\ sent[f].pos \in Nat /\ sent[f].start \in Nat /\ sent[i].pos \in Nat
        /\ w \in Nat /\ r \in Nat /\ f_r \in Nat /\ HdrSize \in Nat
    BY <1>1, Types, SentTypes
  <1>3. r = sent[f].pos \/ (r = sent[f].start /\ ~Reading)
    BY <1>1 DEF ReaderAt, StartOf
  <1>4. \/ r = sent[f].pos
        \/ r = sent[f].start /\ sent[f].pos = 0 /\ w < r
    BY <1>1, <1>3 DEF HdrPlace
  <1>5. MaybeReader(sent[f].pos)
    BY <1>2, <1>4 DEF CachedReader, MaybeReader
  <1>6. InArc(sent[f].pos, w, sent[i].pos, HdrSize)
    BY <1>1 DEF UnreadInArc
  <1> HIDE DEF f
  <1> QED
    BY <1>2, <1>5, <1>6 DEF MaybeReader, InArc

(***************************************************************************)
(* The reason the scheme works: bytes that are free for a writer with an   *)
(* old reader position are no bytes of an unread message.                  *)
(***************************************************************************)
LEMMA FreeIsUnused ==
  ASSUME TypeOK, CachedReader, ReaderAt, HdrPlace, UnreadInArc,
         NEW a \in Nat, NEW n \in Nat, Free(a, n),
         NEW i \in Unread
  PROVE  /\ Apart(a, n, sent[i].pos, HdrSize)
         /\ Apart(a, n, sent[i].hdr.pos_const, sent[i].hdr.param_size)
         /\ Apart(a, n, sent[i].hdr.pos_str, sent[i].hdr.extra_len)
  <1>1. i \in 1 .. Len(sent) /\ i \in i .. Len(sent)
    <2>1. released \in Nat /\ Len(sent) \in Nat
      BY Types
    <2> QED
      BY <2>1 DEF Unread
  <1>2. /\ InArc(sent[i].pos, w, sent[i].pos, HdrSize)
        /\ InArc(sent[i].pos, w, sent[i].hdr.pos_const, sent[i].hdr.param_size)
        /\ InArc(sent[i].pos, w, sent[i].hdr.pos_str, sent[i].hdr.extra_len)
    BY <1>1 DEF UnreadInArc
  <1> QED
    BY <1>1, <1>2, UnreadAhead, Types, SentTypes, FreeApart

(* A copy to free bytes keeps the unread messages intact. *)
LEMMA CopyKeepsUnread ==
  ASSUME IInv, NEW a \in Nat, NEW n \in Nat, Free(a, n), NEW u,
         buffer' = Stored(buffer, a, n, u), UNCHANGED << sent, backVars >>
  PROVE  UnreadIntact'
  <1> SUFFICES ASSUME NEW i \in Unread'
               PROVE  Intact(sent[i])'
    BY DEF UnreadIntact
  <1>1. i \in Unread /\ i \in 1 .. Len(sent)
    BY Types DEF Unread, released, backVars, IInv
  <1>2. Intact(sent[i])
    BY <1>1 DEF IInv, QueueInv, UnreadIntact
  <1>3. /\ Apart(a, n, sent[i].pos, HdrSize)
        /\ Apart(a, n, sent[i].hdr.pos_const, sent[i].hdr.param_size)
        /\ Apart(a, n, sent[i].hdr.pos_str, sent[i].hdr.extra_len)
    BY <1>1, FreeIsUnused DEF IInv, FrontInv, BackInv, QueueInv
  <1>4. /\ sent[i].pos \in Nat /\ HdrSize \in Nat
        /\ sent[i].hdr.pos_const \in Nat /\ sent[i].hdr.param_size \in Nat
        /\ sent[i].hdr.pos_str \in Nat /\ sent[i].hdr.extra_len \in Nat
    BY <1>1, Types, SentTypes DEF IInv
  <1>5. /\ Holds(Stored(buffer, a, n, u), sent[i].pos, HdrSize, sent[i].hdr)
        /\ Holds(Stored(buffer, a, n, u), sent[i].hdr.pos_const, sent[i].hdr.param_size,
                 Byte(sent[i].hdr.id, "const"))
        /\ Holds(Stored(buffer, a, n, u), sent[i].hdr.pos_str, sent[i].hdr.extra_len,
                 Byte(sent[i].hdr.id, "str"))
    BY <1>2, <1>3, <1>4, StoredApart DEF Intact
  <1> QED
    BY <1>5 DEF Intact

(* What the front-end does before it publishes does not move the queue. *)
LEMMA FrontKeepsQueue ==
  ASSUME IInv, UNCHANGED << capacity, w, r, sent, backVars >>
  PROVE  BackInv' /\ EndsMeetStarts' /\ HdrPlace' /\ UnreadInArc'
  <1> USE DEF IInv, released, Unread, StartOf, Reading, backVars
  <1>1. ReaderAt' /\ Formatted' /\ DeliveredInOrder'
    BY DEF BackInv, ReaderAt, Formatted, DeliveredInOrder
  <1>2. Snapshot'
    BY DEF BackInv, Snapshot
  <1>3. EndsMeetStarts' /\ HdrPlace'
    BY DEF QueueInv, EndsMeetStarts, HdrPlace
  <1>4. UnreadInArc'
    BY DEF QueueInv, UnreadInArc, InArc
  <1> QED
    BY <1>1, <1>2, <1>3, <1>4 DEF BackInv

-----------------------------------------------------------------------------
(* What a successful HACLOG_FETCH_W gives to the call. *)
LEMMA Claim ==
  ASSUME TypeOK, CachedReader, ClaimEnd, f_pc \in FetchPc, Fetched >= 0
  PROVE  /\ Fetched \in Nat /\ FetchSize \in Nat
         /\ Free(Fetched, FetchSize)
         /\ Free(Fetched + FetchSize, 0)
         /\ Fetched + FetchSize = capacity => f_r # 0
         /\ \/ Fetched = f_w
            \/ /\ Fetched = 0 /\ capacity - f_w < FetchSize /\ w <= f_w
               /\ FetchSize + WR_MIN_INTERVAL <= f_r /\ f_r <= w
  <1>1. /\ WR_MIN_INTERVAL \in Nat /\ capacity \in Nat /\ w \in Nat /\ f_r \in Nat
        /\ f_w \in Nat /\ w < capacity /\ WR_MIN_INTERVAL > 0
    BY Types
  <1>2. FetchSize \in Nat
    BY Types DEF FetchSize
  <1>3. Free(f_w, 0) /\ f_r < capacity
    BY DEF ClaimEnd, CachedReader, FetchPc
  <1>4. CASE Fetched = f_w /\ FitsUpToEnd(capacity, FetchSize, f_r, f_w)
    BY <1>1, <1>2, <1>3, <1>4 DEF FitsUpToEnd, Free
  <1>5. CASE Fetched = f_w /\ FitsBeforeReader(FetchSize, f_r, f_w)
    BY <1>1, <1>2, <1>3, <1>5 DEF FitsBeforeReader, Free
  <1>6. CASE Fetched = 0 /\ FitsAfterWrap(capacity, FetchSize, f_r, f_w)
    BY <1>1, <1>2, <1>3, <1>6 DEF FitsAfterWrap, Free
  <1> QED
    BY <1>4, <1>5, <1>6, FetchedType

(***************************************************************************)
(* The arc of the call grows by a claim: the header stays where it is, and *)
(* what was in the arc stays in it, apart from the new part.               *)
(***************************************************************************)
LEMMA ArcGrows ==
  ASSUME TypeOK, CachedReader, ClaimEnd, ClaimedHdr, f_pc \in FetchPc \ {"hdr"}, Fetched >= 0,
         NEW e, e = Fetched + FetchSize
  PROVE  /\ InArc(w_hdr, e, w_hdr, HdrSize)
         /\ InArc(w_hdr, e, Fetched, FetchSize)
         /\ Apart(w_hdr, HdrSize, Fetched, FetchSize)
         /\ w_hdr = w \/ (w_hdr = 0 /\ capacity - w < HdrSize /\ e < w)
         /\ \A b, m \in Nat : InArc(w_hdr, f_w, b, m) =>
                InArc(w_hdr, e, b, m) /\ Apart(Fetched, FetchSize, b, m)
  <1>1. /\ WR_MIN_INTERVAL \in Nat /\ capacity \in Nat /\ w \in Nat /\ f_r \in Nat
        /\ f_w \in Nat /\ w < capacity /\ WR_MIN_INTERVAL > 0
        /\ w_hdr \in Nat /\ HdrSize \in Nat /\ HdrSize > 0
    BY Types
  <1>2. /\ Free(f_w, 0) /\ f_r < capacity
        /\ Free(w_hdr, HdrSize) /\ InArc(w_hdr, f_w, w_hdr, HdrSize)
        /\ w_hdr = w \/ (w_hdr = 0 /\ capacity - w < HdrSize /\ f_w < w)
    BY DEF ClaimEnd, ClaimedHdr, CachedReader, FetchPc, AfterHdr
  <1>3. /\ Fetched \in Nat /\ FetchSize \in Nat
        /\ Free(Fetched, FetchSize)
        /\ \/ Fetched = f_w
           \/ /\ Fetched = 0 /\ capacity - f_w < FetchSize /\ w <= f_w
              /\ FetchSize + WR_MIN_INTERVAL <= f_r /\ f_r <= w
    BY Claim
  <1>4. CASE Fetched = f_w
    BY <1>1, <1>2, <1>3, <1>4 DEF Free, InArc, Apart
  <1>5. CASE /\ Fetched = 0 /\ capacity - f_w < FetchSize /\ w <= f_w
             /\ FetchSize + WR_MIN_INTERVAL <= f_r /\ f_r <= w
    BY <1>1, <1>2, <1>3, <1>5 DEF Free, InArc, Apart
  <1> QED
    BY <1>3, <1>4, <1>5

-----------------------------------------------------------------------------
(* The steps of the front-end preserve the inductive invariant. *)
LEMMA SerializeBeginInv ==
  ASSUME IInv, NEW p \in ParamSizes, NEW s \in StrSizes, SerializeBegin(p, s), TypeOK'
  PROVE  IInv'
  <1> USE DEF SerializeBegin, bufferVars, backVars
  <1>1. /\ capacity \in Nat /\ w \in Nat /\ f_r \in Nat /\ w < capacity
    BY Types DEF IInv
  <1>2. CachedReader' /\ ClaimEnd'
    BY <1>1 DEF IInv, FrontInv, CachedReader, MaybeReader, ClaimEnd, Free
  <1>3. ClaimedHdr' /\ ClaimedConst' /\ ClaimedStr' /\ ClaimedAll'
    BY DEF ClaimedHdr, ClaimedConst, ClaimedStr, ClaimedAll, AfterHdr, AfterConst, AfterStr
  <1>4. BackInv' /\ EndsMeetStarts' /\ HdrPlace' /\ UnreadInArc'
    BY FrontKeepsQueue
  <1>5. UnreadIntact'
    BY DEF IInv, QueueInv, UnreadIntact, Intact, Unread, released
  <1> QED
    BY <1>2, <1>3, <1>4, <1>5 DEF IInv, FrontInv, QueueInv

LEMMA FetchRetryInv ==
  ASSUME IInv, FetchRetry, TypeOK'
  PROVE  IInv'
  <1> USE DEF FetchRetry, bufferVars, backVars, callVars
  <1>1. /\ capacity \in Nat /\ w \in Nat /\ f_r \in Nat /\ w < capacity /\ f_w \in Nat
        /\ r \in Nat /\ r < capacity /\ w_hdr \in Nat /\ HdrSize \in Nat
        /\ WR_MIN_INTERVAL \in Nat /\ WR_MIN_INTERVAL > 0
    BY Types DEF IInv
  <1>2. CachedReader' /\ ClaimEnd'
    BY <1>1 DEF IInv, FrontInv, CachedReader, MaybeReader, ClaimEnd, Free
  <1>3. ASSUME AfterHdr PROVE Free(w_hdr, HdrSize)'
    BY <1>1, <1>3 DEF IInv, FrontInv, CachedReader, MaybeReader, ClaimedHdr, Free
  <1>4. ClaimedHdr'
    BY <1>3 DEF IInv, FrontInv, ClaimedHdr, AfterHdr, InArc
  <1>5. ClaimedConst' /\ ClaimedStr' /\ ClaimedAll'
    BY DEF IInv, FrontInv, ClaimedConst, ClaimedStr, ClaimedAll, AfterConst, AfterStr,
           InArc, Apart, Hdr
  <1>6. BackInv' /\ EndsMeetStarts' /\ HdrPlace' /\ UnreadInArc'
    BY FrontKeepsQueue
  <1>7. UnreadIntact'
    BY DEF IInv, QueueInv, UnreadIntact, Intact, Unread, released
  <1> QED
    BY <1>2, <1>4, <1>5, <1>6, <1>7 DEF IInv, FrontInv, QueueInv

LEMMA FetchRefuseInv ==
  ASSUME IInv, FetchRefuse, TypeOK'
  PROVE  IInv'
  <1> USE DEF FetchRefuse, bufferVars, backVars, callVars
  <1>1. FrontInv'
    BY DEF IInv, FrontInv, CachedReader, MaybeReader, ClaimEnd, ClaimedHdr, ClaimedConst, ClaimedStr,
           ClaimedAll, AfterHdr, AfterConst, AfterStr
  <1>2. BackInv' /\ EndsMeetStarts' /\ HdrPlace' /\ UnreadInArc'
    BY FrontKeepsQueue
  <1>3. UnreadIntact'
    BY DEF IInv, QueueInv, UnreadIntact, Intact, Unread, released
  <1> QED
    BY <1>1, <1>2, <1>3 DEF IInv, QueueInv

LEMMA FetchHdrInv ==
  ASSUME IInv, FetchHdr, TypeOK'
  PROVE  IInv'
  <1> USE DEF FetchHdr, bufferVars, backVars
  <1>1. /\ capacity \in Nat /\ w \in Nat /\ f_r \in Nat /\ w < capacity
        /\ WR_MIN_INTERVAL \in Nat /\ WR_MIN_INTERVAL > 0 /\ HdrSize \in Nat /\ HdrSize > 0
    BY Types DEF IInv
  <1>2. FetchSize = HdrSize /\ f_w = w
    BY DEF FetchSize, IInv, FrontInv, ClaimEnd
  <1>3. /\ Fetched \in Nat
        /\ Free(Fetched, HdrSize)
        /\ Free(Fetched + HdrSize, 0)
        /\ Fetched + HdrSize = capacity => f_r # 0
        /\ \/ Fetched = w
           \/ /\ Fetched = 0 /\ capacity - w < HdrSize
              /\ HdrSize + WR_MIN_INTERVAL <= f_r /\ f_r <= w
    BY <1>2, Claim DEF IInv, FrontInv, FetchPc
  <1>4. CachedReader' /\ ClaimEnd'
    BY <1>3 DEF IInv, FrontInv, CachedReader, MaybeReader, ClaimEnd, Free
  <1>5. ClaimedHdr'
    BY <1>1, <1>3 DEF ClaimedHdr, Free, InArc
  <1>6. ClaimedConst' /\ ClaimedStr' /\ ClaimedAll'
    BY DEF ClaimedConst, ClaimedStr, ClaimedAll, AfterConst, AfterStr
  <1>7. BackInv' /\ EndsMeetStarts' /\ HdrPlace' /\ UnreadInArc'
    BY FrontKeepsQueue
  <1>8. UnreadIntact'
    BY DEF IInv, QueueInv, UnreadIntact, Intact, Unread, released
  <1> QED
    BY <1>4, <1>5, <1>6, <1>7, <1>8 DEF IInv, FrontInv, QueueInv

(* The header part of the invariant after any later claim. *)
LEMMA LaterClaimInv ==
  ASSUME IInv, f_pc \in FetchPc \ {"hdr"}, f_pc' \notin {"idle", "hdr"}, Fetched >= 0,
         f_w' = Fetched + FetchSize, UNCHANGED << capacity, w, r, f_r, w_hdr >>
  PROVE  CachedReader' /\ ClaimEnd' /\ ClaimedHdr'
  <1>1. /\ Free(Fetched + FetchSize, 0)
        /\ Fetched + FetchSize = capacity => f_r # 0
    BY Claim DEF IInv, FrontInv
  <1>2. /\ InArc(w_hdr, f_w', w_hdr, HdrSize)
        /\ w_hdr = w \/ (w_hdr = 0 /\ capacity - w < HdrSize /\ f_w' < w)
    BY ArcGrows DEF IInv, FrontInv
  <1>3. Free(w_hdr, HdrSize)
    BY DEF IInv, FrontInv, ClaimedHdr, AfterHdr, FetchPc
  <1>4. CachedReader' /\ ClaimEnd'
    BY <1>1 DEF IInv, FrontInv, CachedReader, MaybeReader, ClaimEnd, Free
  <1>5. ClaimedHdr'
    BY <1>2, <1>3 DEF ClaimedHdr, Free, InArc
  <1> QED
    BY <1>4, <1>5

LEMMA FetchConstInv ==
  ASSUME IInv, FetchConst, TypeOK'
  PROVE  IInv'
  <1> USE DEF FetchConst, backVars
  <1>1. /\ FetchSize = param_size /\ f_pc \in FetchPc \ {"hdr"}
        /\ capacity \in Nat /\ param_size \in Nat
    BY Types DEF FetchSize, FetchPc, IInv
  <1>2. CachedReader' /\ ClaimEnd' /\ ClaimedHdr'
    BY <1>1, LaterClaimInv
  <1>3. Fetched \in Nat /\ Free(Fetched, param_size)
    BY <1>1, Claim DEF IInv, FrontInv
  <1>4. Fetched + param_size <= capacity
    BY <1>1, <1>3, FreeInside DEF IInv, FrontInv
  <1>5. Holds(Stored(buffer, Fetched, param_size, Byte(calls, "const")),
              Fetched, param_size, Byte(calls, "const"))
    BY <1>1, <1>3, <1>4, StoredHolds DEF IInv, TypeOK
  <1>6. /\ InArc(w_hdr, f_w', Fetched, param_size)
        /\ Apart(w_hdr, HdrSize, Fetched, param_size)
    BY <1>1, ArcGrows DEF IInv, FrontInv
  <1>7. ClaimedConst'
    BY <1>5, <1>6 DEF ClaimedConst, InArc, Apart
  <1>8. ClaimedStr' /\ ClaimedAll'
    BY DEF ClaimedStr, ClaimedAll, AfterStr
  <1>9. BackInv' /\ EndsMeetStarts' /\ HdrPlace' /\ UnreadInArc'
    BY FrontKeepsQueue
  <1>10. UnreadIntact'
    BY <1>1, <1>3, CopyKeepsUnread
  <1> QED
    BY <1>2, <1>7, <1>8, <1>9, <1>10 DEF IInv, FrontInv, QueueInv

LEMMA FetchStrInv ==
  ASSUME IInv, FetchStr, TypeOK'
  PROVE  IInv'
  <1> USE DEF FetchStr, backVars
  <1>1. /\ FetchSize = extra_len /\ f_pc \in FetchPc \ {"hdr"}
        /\ capacity \in Nat /\ extra_len \in Nat
        /\ w_const_args \in Nat /\ param_size \in Nat
    BY Types DEF FetchSize, FetchPc, IInv
  <1>2. CachedReader' /\ ClaimEnd' /\ ClaimedHdr'
    BY <1>1, LaterClaimInv
  <1>3. Fetched \in Nat /\ Free(Fetched, extra_len)
    BY <1>1, Claim DEF IInv, FrontInv
  <1>4. Fetched + extra_len <= capacity
    BY <1>1, <1>3, FreeInside DEF IInv, FrontInv
  <1>5. Holds(Stored(buffer, Fetched, extra_len, Byte(calls, "str")),
              Fetched, extra_len, Byte(calls, "str"))
    BY <1>1, <1>3, <1>4, StoredHolds DEF IInv, TypeOK
  <1>6. /\ InArc(w_hdr, f_w', Fetched, extra_len)
        /\ Apart(w_hdr, HdrSize, Fetched, extra_len)
    BY <1>1, ArcGrows DEF IInv, FrontInv
  <1>7. ClaimedStr'
    BY <1>5, <1>6 DEF ClaimedStr, InArc, Apart
  <1>8. ClaimedConst'
    <2>1. /\ InArc(w_hdr, f_w, w_const_args, param_size)
          /\ Apart(w_hdr, HdrSize, w_const_args, param_size)
          /\ Holds(buffer, w_const_args, param_size, Byte(calls, "const"))
      BY DEF IInv, FrontInv, ClaimedConst, AfterConst
    <2>2. /\ InArc(w_hdr, f_w', w_const_args, param_size)
          /\ Apart(Fetched, extra_len, w_const_args, param_size)
      BY <1>1, <2>1, ArcGrows DEF IInv, FrontInv
    <2>3. Holds(Stored(buffer, Fetched, extra_len, Byte(calls, "str")),
                w_const_args, param_size, Byte(calls, "const"))
      BY <1>1, <1>3, <2>1, <2>2, StoredApart
    <2> QED
      BY <2>1, <2>2, <2>3 DEF ClaimedConst, InArc, Apart
  <1>9. ClaimedAll'
    BY DEF ClaimedAll
  <1>10. BackInv' /\ EndsMeetStarts' /\ HdrPlace' /\ UnreadInArc'
    BY FrontKeepsQueue
  <1>11. UnreadIntact'
    BY <1>1, <1>3, CopyKeepsUnread
  <1> QED
    BY <1>2, <1>7, <1>8, <1>9, <1>10, <1>11 DEF IInv, FrontInv, QueueInv

LEMMA FetchGapInv ==
  ASSUME IInv, FetchGap, TypeOK'
  PROVE  IInv'
  <1> USE DEF FetchGap, bufferVars, backVars, callVars
  <1>1. /\ FetchSize = WR_MIN_INTERVAL /\ f_pc \in FetchPc \ {"hdr"}
        /\ capacity \in Nat /\ w \in Nat /\ f_r \in Nat /\ f_w \in Nat
        /\ WR_MIN_INTERVAL \in Nat /\ WR_MIN_INTERVAL > 0
        /\ w_const_args \in Nat /\ param_size \in Nat /\ w_str \in Nat /\ extra_len \in Nat
    BY Types DEF FetchSize, FetchPc, IInv
  <1>2. CachedReader' /\ ClaimEnd' /\ ClaimedHdr'
    BY <1>1, LaterClaimInv
  <1>3. /\ InArc(w_hdr, f_w, w_const_args, param_size)
        /\ Apart(w_hdr, HdrSize, w_const_args, param_size)
        /\ Holds(buffer, w_const_args, param_size, Byte(calls, "const"))
        /\ InArc(w_hdr, f_w, w_str, extra_len)
        /\ Apart(w_hdr, HdrSize, w_str, extra_len)
        /\ Holds(buffer, w_str, extra_len, Byte(calls, "str"))
    BY DEF IInv, FrontInv, ClaimedConst, ClaimedStr, AfterConst, AfterStr
  <1>4. /\ InArc(w_hdr, f_w', w_const_args, param_size)
        /\ InArc(w_hdr, f_w', w_str, extra_len)
    BY <1>1, <1>3, ArcGrows DEF IInv, FrontInv
  <1>5. ClaimedConst' /\ ClaimedStr'
    BY <1>3, <1>4 DEF ClaimedConst, ClaimedStr, InArc, Apart
  <1>6. ClaimedAll'
    <2>1. /\ Fetched \in Nat /\ Free(Fetched, WR_MIN_INTERVAL)
          /\ \/ Fetched = f_w
             \/ /\ Fetched = 0 /\ WR_MIN_INTERVAL + WR_MIN_INTERVAL <= f_r /\ f_r <= w
      BY <1>1, Claim DEF IInv, FrontInv
    <2>2. Fetched + WR_MIN_INTERVAL # w
      BY <1>1, <2>1 DEF Free
    <2> QED
      BY <2>2 DEF ClaimedAll
  <1>7. BackInv' /\ EndsMeetStarts' /\ HdrPlace' /\ UnreadInArc'
    BY FrontKeepsQueue
  <1>8. UnreadIntact'
    BY DEF IInv, QueueInv, UnreadIntact, Intact, Unread, released
  <1> QED
    BY <1>2, <1>5, <1>6, <1>7, <1>8 DEF IInv, FrontInv, QueueInv

LEMMA FillHdrInv ==
  ASSUME IInv, FillHdr, TypeOK'
  PROVE  IInv'
  <1> USE DEF FillHdr, backVars, callVars
  <1>1. /\ capacity \in Nat /\ w_hdr \in Nat /\ HdrSize \in Nat
        /\ w_const_args \in Nat /\ param_size \in Nat /\ w_str \in Nat /\ extra_len \in Nat
    BY Types DEF IInv
  <1>2. Free(w_hdr, HdrSize)
    BY DEF IInv, FrontInv, ClaimedHdr, AfterHdr
  <1>3. w_hdr + HdrSize <= capacity
    BY <1>1, <1>2, Types DEF IInv, FrontInv, CachedReader, Free
  <1>4. CachedReader' /\ ClaimEnd'
    BY DEF IInv, FrontInv, CachedReader, MaybeReader, ClaimEnd, Free
  <1>5. ClaimedHdr'
    BY DEF IInv, FrontInv, ClaimedHdr, AfterHdr, Free, InArc
  <1>6. ClaimedAll'
    <2>1. Holds(Stored(buffer, w_hdr, HdrSize, Hdr), w_hdr, HdrSize, Hdr)
      BY <1>1, <1>3, StoredHolds DEF IInv, TypeOK
    <2>2. Hdr' = Hdr
      BY DEF Hdr
    <2>3. f_w # w
      BY DEF IInv, FrontInv, ClaimedAll
    <2> QED
      BY <2>1, <2>2, <2>3 DEF ClaimedAll
  <1>7. ClaimedConst'
    <2>1. /\ InArc(w_hdr, f_w, w_const_args, param_size)
          /\ Apart(w_hdr, HdrSize, w_const_args, param_size)
          /\ Holds(buffer, w_const_args, param_size, Byte(calls, "const"))
      BY DEF IInv, FrontInv, ClaimedConst, AfterConst
    <2>2. Holds(Stored(buffer, w_hdr, HdrSize, Hdr),
                w_const_args, param_size, Byte(calls, "const"))
      BY <1>1, <2>1, StoredApart
    <2> QED
      BY <2>1, <2>2 DEF ClaimedConst, InArc, Apart
  <1>8. ClaimedStr'
    <2>1. /\ InArc(w_hdr, f_w, w_str, extra_len)
          /\ Apart(w_hdr, HdrSize, w_str, extra_len)
          /\ Holds(buffer, w_str, extra_len, Byte(calls, "str"))
      BY DEF IInv, FrontInv, ClaimedStr, AfterStr
    <2>2. Holds(Stored(buffer, w_hdr, HdrSize, Hdr), w_str, extra_len, Byte(calls, "str"))
      BY <1>1, <2>1, StoredApart
    <2> QED
      BY <2>1, <2>2 DEF ClaimedStr, InArc, Apart
  <1>9. BackInv' /\ EndsMeetStarts' /\ HdrPlace' /\ UnreadInArc'
    BY FrontKeepsQueue
  <1>10. UnreadIntact'
    BY <1>1, <1>2, CopyKeepsUnread
  <1> QED
    BY <1>4, <1>5, <1>6, <1>7, <1>8, <1>9, <1>10 DEF IInv, FrontInv, QueueInv

(* How the arcs of the ring change when w moves to the end of the call. *)
LEMMA PublishArc ==
  ASSUME TypeOK, CachedReader, ClaimEnd, ClaimedHdr, f_pc = "publish",
         NEW v, v = (IF f_w = capacity THEN 0 ELSE f_w)
  PROVE  /\ f_w <= capacity
         /\ \A x, b, m \in Nat : MaybeReader(x) =>
              /\ InArc(x, w, b, m) => InArc(x, v, b, m)
              /\ InArc(w_hdr, f_w, b, m) => InArc(x, v, b, m)
              /\ InArc(x, v, w, 0)
         /\ \A b, m \in Nat : InArc(w_hdr, f_w, b, m) => InArc(w_hdr, v, b, m)
         /\ w_hdr = w \/ (w_hdr = 0 /\ capacity - w < HdrSize /\ v < w)
         /\ \A x \in Nat : MaybeReader(x) /\ w < x => v < x
  <1>1. /\ WR_MIN_INTERVAL \in Nat /\ capacity \in Nat /\ w \in Nat /\ f_r \in Nat
        /\ f_w \in Nat /\ w < capacity /\ WR_MIN_INTERVAL > 0
        /\ w_hdr \in Nat /\ HdrSize \in Nat /\ HdrSize > 0
    BY Types
  <1>2. /\ Free(f_w, 0) /\ f_r < capacity
        /\ f_w = capacity => f_r # 0
        /\ w_hdr = w \/ (w_hdr = 0 /\ capacity - w < HdrSize /\ f_w < w)
    BY DEF ClaimEnd, ClaimedHdr, CachedReader, AfterHdr
  <1>3. f_w <= capacity /\ v \in Nat
    BY <1>1, <1>2 DEF Free
  <1>4. ASSUME NEW x \in Nat, NEW b \in Nat, NEW m \in Nat, MaybeReader(x)
        PROVE  /\ InArc(x, w, b, m) => InArc(x, v, b, m)
               /\ InArc(w_hdr, f_w, b, m) => InArc(x, v, b, m)
               /\ InArc(x, v, w, 0)
    <2>1. InArc(x, w, b, m) => InArc(x, v, b, m)
      BY <1>1, <1>2, <1>4 DEF Free, InArc, MaybeReader
    <2>2. InArc(w_hdr, f_w, b, m) => InArc(x, v, b, m)
      BY <1>1, <1>2, <1>4 DEF Free, InArc, MaybeReader
    <2>3. InArc(x, v, w, 0)
      BY <1>1, <1>2, <1>4 DEF Free, InArc, MaybeReader
    <2> QED
      BY <2>1, <2>2, <2>3
  <1>5. ASSUME NEW b \in Nat, NEW m \in Nat, InArc(w_hdr, f_w, b, m)
        PROVE  InArc(w_hdr, v, b, m)
    BY <1>1, <1>2, <1>5 DEF Free, InArc
  <1>6. w_hdr = w \/ (w_hdr = 0 /\ capacity - w < HdrSize /\ v < w)
    BY <1>1, <1>2
  <1>7. ASSUME NEW x \in Nat, MaybeReader(x), w < x
        PROVE  v < x
    BY <1>1, <1>2, <1>7 DEF Free, MaybeReader
  <1> QED
    BY <1>3, <1>4, <1>5, <1>6, <1>7

LEMMA WMoveInv ==
  ASSUME IInv, WMove, TypeOK'
  PROVE  IInv'
  <1> USE DEF WMove, backVars
  <1>0. PICK n : n = Len(sent) + 1
    OBVIOUS
  <1>1. /\ TypeOK /\ CachedReader /\ ClaimEnd /\ ClaimedHdr /\ ClaimedConst /\ ClaimedStr
        /\ ClaimedAll /\ ReaderAt /\ Snapshot /\ Formatted /\ DeliveredInOrder
        /\ EndsMeetStarts /\ HdrPlace /\ UnreadInArc /\ UnreadIntact
    BY DEF IInv, FrontInv, BackInv, QueueInv
  <1>2. /\ WR_MIN_INTERVAL \in Nat /\ capacity \in Nat /\ w \in Nat /\ f_r \in Nat
        /\ f_w \in Nat /\ w < capacity /\ WR_MIN_INTERVAL > 0 /\ r \in Nat
        /\ w_hdr \in Nat /\ HdrSize \in Nat /\ HdrSize > 0
        /\ w_const_args \in Nat /\ param_size \in Nat /\ w_str \in Nat /\ extra_len \in Nat
        /\ Len(sent) \in Nat /\ Len(handled) \in Nat /\ released \in Nat
        /\ n = Len(sent) + 1 /\ n \in Nat
    BY <1>0, <1>1, Types
  <1>3. f_w <= capacity
    BY <1>1, PublishArc
  <1>4. w' = IF f_w = capacity THEN 0 ELSE f_w
    BY <1>2, <1>3 DEF MovedTo
  <1>5. /\ sent' = Append(sent, Published)
        /\ Len(sent') = n
        /\ \A i \in 1 .. Len(sent) : sent'[i] = sent[i]
        /\ sent'[n] = Published
    <2>1. sent \in Seq(Message)
      BY <1>1 DEF TypeOK
    <2>2. sent' = Append(sent, Published)
      BY <1>2, <1>3
    <2> QED
      BY <1>0, <2>1, <2>2
  <1>6. /\ Published.start = w /\ Published.pos = w_hdr /\ Published.hdr = Hdr
        /\ Hdr.pos_const = w_const_args /\ Hdr.param_size = param_size /\ Hdr.id = calls
        /\ Hdr.pos_str = w_str /\ Hdr.extra_len = extra_len /\ Hdr.pos_end = f_w
    BY DEF Published, Hdr
  <1>7. /\ released' = released /\ Unread' = Unread \cup {n}
        /\ (Reading' <=> Reading)
        /\ Unread \subseteq 1 .. Len(sent) /\ n \notin 1 .. Len(sent)
    <2>1. released' = released /\ (Reading' <=> Reading)
      BY DEF released, Reading
    <2>2. released <= Len(sent)
      BY <1>1 DEF Formatted
    <2> QED
      BY <1>2, <1>5, <2>1, <2>2 DEF Unread
  <1>8. \A k \in 1 .. n : StartOf(k)' = StartOf(k)
    BY <1>2, <1>5, <1>6 DEF StartOf
  <1>9. FrontInv'
    <2>1. CachedReader'
      BY <1>1, <1>2, <1>4 DEF CachedReader, ClaimEnd, Free, MaybeReader
    <2> QED
      BY <2>1 DEF FrontInv, ClaimEnd, ClaimedHdr, ClaimedConst, ClaimedStr, ClaimedAll,
                  AfterHdr, AfterConst, AfterStr
  <1>10. ReaderAt'
    <2>1. CASE Reading
      BY <1>1, <1>2, <1>5, <1>7, <2>1 DEF ReaderAt
    <2>2. CASE ~Reading
      <3>1. r = StartOf(released + 1) /\ released + 1 \in 1 .. n
        BY <1>1, <1>2, <2>2 DEF ReaderAt, Formatted
      <3> QED
        BY <1>7, <1>8, <2>2, <3>1 DEF ReaderAt
    <2> QED
      BY <2>1, <2>2
  <1>11. Snapshot'
    <2> SUFFICES ASSUME b_pc # "idle"
                 PROVE  Snapshot'
      BY DEF Snapshot
    <2>1. PICK k \in released + (IF Reading THEN 1 ELSE 0) .. Len(sent) : b_w = StartOf(k + 1)
      BY <1>1 DEF Snapshot
    <2>2. k + 1 \in 1 .. n /\ k \in released + (IF Reading THEN 1 ELSE 0) .. n
      BY <1>2, <2>1
    <2>3. b_w' = StartOf(k + 1)'
      BY <1>8, <2>1, <2>2
    <2> QED
      BY <1>5, <1>7, <2>2, <2>3 DEF Snapshot
  <1>12. Formatted'
    <2>1. released' <= Len(sent')
      BY <1>1, <1>2, <1>5, <1>7 DEF Formatted
    <2>2. b_pc \in {"release", "write"} => Len(handled) + 1 \in 1 .. Len(sent)
      BY <1>1, <1>2 DEF Formatted, ReaderAt, Reading, released
    <2> QED
      BY <1>1, <1>5, <2>1, <2>2 DEF Formatted
  <1>13. DeliveredInOrder'
    BY <1>1, <1>2, <1>5 DEF DeliveredInOrder
  <1>14. EndsMeetStarts'
    <2>1. ASSUME NEW i \in Unread
          PROVE  StartOf(i + 1)' = IF sent'[i].hdr.pos_end = capacity' THEN 0
                                   ELSE sent'[i].hdr.pos_end
      <3>1. i \in 1 .. Len(sent) /\ i + 1 \in 1 .. n
        BY <1>2, <1>7
      <3> QED
        BY <1>1, <1>5, <1>8, <3>1 DEF EndsMeetStarts
    <2>2. StartOf(n + 1)' = IF sent'[n].hdr.pos_end = capacity' THEN 0
                            ELSE sent'[n].hdr.pos_end
      BY <1>2, <1>4, <1>5, <1>6 DEF StartOf
    <2> QED
      BY <1>7, <2>1, <2>2 DEF EndsMeetStarts
  <1>15. HdrPlace'
    <2>1. ASSUME NEW i \in Unread, sent[i].pos # sent[i].start, ~(Reading /\ i = released + 1)
          PROVE  w' < sent[i].start
      <3>1. /\ i \in 1 .. Len(sent) /\ sent[i].start \in Nat
            /\ w < sent[i].start
        BY <1>1, <1>7, <2>1, SentTypes DEF HdrPlace
      <3>2. CASE i = released + 1
        <4>1. r = sent[i].start
          BY <1>1, <2>1, <3>1, <3>2 DEF ReaderAt, StartOf
        <4>2. MaybeReader(sent[i].start)
          BY <1>1, <4>1 DEF CachedReader
        <4> QED
          BY <1>1, <1>4, <3>1, <4>2, PublishArc
      <3>3. CASE i # released + 1
        <4> DEFINE f == released + 1
        <4>1. f \in Unread /\ f \in 1 .. Len(sent) /\ i \in f .. Len(sent) /\ f < i
          BY <1>2, <1>7, <3>3 DEF Unread
        <4>2. InArc(sent[f].pos, w, sent[i].start, 0) /\ sent[f].pos \in Nat
          BY <1>1, <4>1, SentTypes DEF UnreadInArc
        <4>3. MaybeReader(sent[f].pos)
          BY <1>1, <4>1, UnreadAhead
        <4> HIDE DEF f
        <4>4. MaybeReader(sent[i].start)
          BY <1>2, <3>1, <4>2, <4>3 DEF MaybeReader, InArc
        <4> QED
          BY <1>1, <1>4, <3>1, <4>4, PublishArc
      <3> QED
        BY <3>2, <3>3
    <2>2. \/ sent'[n].pos = sent'[n].start
          \/ /\ sent'[n].pos = 0
             /\ capacity' - sent'[n].start < HdrSize
             /\ w' < sent'[n].start
      BY <1>1, <1>4, <1>5, <1>6, PublishArc
    <2>3. ASSUME NEW i \in Unread
          PROVE  \/ sent'[i].pos = sent'[i].start
                 \/ /\ sent'[i].pos = 0
                    /\ capacity' - sent'[i].start < HdrSize
                    /\ w' < sent'[i].start \/ (Reading' /\ i = released' + 1)
      BY <1>1, <1>5, <1>7, <2>1 DEF HdrPlace
    <2> QED
      BY <1>7, <2>2, <2>3 DEF HdrPlace
  <1>16. UnreadInArc'
    <2>1. ASSUME NEW i \in Unread, NEW j \in i .. Len(sent)
          PROVE  /\ InArc(sent[i].pos, w', sent[j].pos, HdrSize)
                 /\ InArc(sent[i].pos, w', sent[j].hdr.pos_const, sent[j].hdr.param_size)
                 /\ InArc(sent[i].pos, w', sent[j].hdr.pos_str, sent[j].hdr.extra_len)
                 /\ i < j => InArc(sent[i].pos, w', sent[j].start, 0)
      <3>1. i \in 1 .. Len(sent) /\ j \in 1 .. Len(sent)
        BY <1>2, <1>7
      <3>2. MaybeReader(sent[i].pos) /\ sent[i].pos \in Nat /\ 0 \in Nat
        BY <1>1, <3>1, UnreadAhead, SentTypes
      <3>3. \A b, m \in Nat : InArc(sent[i].pos, w, b, m) => InArc(sent[i].pos, w', b, m)
        BY <1>1, <1>4, <3>2, PublishArc
      <3>4. /\ InArc(sent[i].pos, w, sent[j].pos, HdrSize)
            /\ InArc(sent[i].pos, w, sent[j].hdr.pos_const, sent[j].hdr.param_size)
            /\ InArc(sent[i].pos, w, sent[j].hdr.pos_str, sent[j].hdr.extra_len)
            /\ i < j => InArc(sent[i].pos, w, sent[j].start, 0)
        BY <1>1, <2>1 DEF UnreadInArc
      <3> QED
        BY <1>1, <1>2, <3>1, <3>2, <3>3, <3>4, SentTypes
    <2>2. /\ InArc(w_hdr, f_w, w_hdr, HdrSize)
          /\ InArc(w_hdr, f_w, w_const_args, param_size)
          /\ InArc(w_hdr, f_w, w_str, extra_len)
      BY <1>1 DEF ClaimedHdr, ClaimedConst, ClaimedStr, AfterHdr, AfterConst, AfterStr
    <2>3. ASSUME NEW i \in Unread
          PROVE  /\ InArc(sent[i].pos, w', w_hdr, HdrSize)
                 /\ InArc(sent[i].pos, w', w_const_args, param_size)
                 /\ InArc(sent[i].pos, w', w_str, extra_len)
                 /\ InArc(sent[i].pos, w', w, 0)
      <3>1. MaybeReader(sent[i].pos) /\ sent[i].pos \in Nat
        BY <1>1, <1>7, UnreadAhead, SentTypes
      <3> QED
        BY <1>1, <1>2, <1>4, <2>2, <3>1, PublishArc
    <2>4. /\ InArc(w_hdr, w', w_hdr, HdrSize)
          /\ InArc(w_hdr, w', w_const_args, param_size)
          /\ InArc(w_hdr, w', w_str, extra_len)
      BY <1>1, <1>2, <1>4, <2>2, PublishArc
    <2>5. ASSUME NEW i \in Unread', NEW j \in i .. n
          PROVE  /\ InArc(sent'[i].pos, w', sent'[j].pos, HdrSize)
                 /\ InArc(sent'[i].pos, w', sent'[j].hdr.pos_const, sent'[j].hdr.param_size)
                 /\ InArc(sent'[i].pos, w', sent'[j].hdr.pos_str, sent'[j].hdr.extra_len)
                 /\ i < j => InArc(sent'[i].pos, w', sent'[j].start, 0)
      <3>1. CASE j # n
        <4>1. i \in Unread /\ j \in i .. Len(sent) /\ i \in 1 .. Len(sent) /\ j \in 1 .. Len(sent)
          BY <1>2, <1>7, <2>5, <3>1
        <4> QED
          BY <1>5, <2>1, <4>1
      <3>2. CASE j = n /\ i # n
        <4>1. i \in Unread /\ i \in 1 .. Len(sent)
          BY <1>7, <2>5, <3>2
        <4> QED
          BY <1>5, <1>6, <2>3, <3>2, <4>1
      <3>3. CASE j = n /\ i = n
        BY <1>2, <1>5, <1>6, <2>4, <3>3
      <3> QED
        BY <3>1, <3>2, <3>3
    <2> QED
      BY <1>5, <2>5, ZenonT(30) DEF UnreadInArc, InArc
  <1>17. UnreadIntact'
    <2>1. \A i \in Unread : Intact(sent[i])'
      BY <1>1, <1>5, <1>7 DEF UnreadIntact, Intact
    <2>2. Holds(buffer, w_hdr, HdrSize, Hdr)
      BY <1>1 DEF ClaimedAll
    <2>3. /\ Holds(buffer, w_const_args, param_size, Byte(calls, "const"))
          /\ Holds(buffer, w_str, extra_len, Byte(calls, "str"))
      BY <1>1 DEF ClaimedConst, ClaimedStr, AfterConst, AfterStr
    <2>4. Intact(sent[n])'
      BY <1>5, <1>6, <2>2, <2>3 DEF Intact
    <2> QED
      BY <1>7, <2>1, <2>4 DEF UnreadIntact
  <1> QED
    BY <1>9, <1>10, <1>11, <1>12, <1>13, <1>14, <1>15, <1>16, <1>17
    DEF IInv, BackInv, QueueInv

-----------------------------------------------------------------------------
(* The steps of the backend preserve the inductive invariant. *)

(* The backend writes nothing of the front-end but r. *)
LEMMA BackKeepsFront ==
  ASSUME FrontInv, UNCHANGED << capacity, w, buffer, frontVars >>, CachedReader'
  PROVE  FrontInv'
  <1> USE DEF FrontInv, frontVars, callVars
  <1>1. ClaimEnd'
    BY DEF ClaimEnd, Free
  <1>2. ClaimedHdr'
    BY DEF ClaimedHdr, AfterHdr, Free, InArc
  <1>3. ClaimedConst' /\ ClaimedStr'
    BY DEF ClaimedConst, ClaimedStr, AfterConst, AfterStr, InArc, Apart
  <1>4. ClaimedAll'
    BY DEF ClaimedAll, Hdr
  <1> QED
    BY <1>1, <1>2, <1>3, <1>4

LEMMA LaterSuffix ==
  ASSUME NEW p \in Nat, NEW q \in Nat, NEW n \in Nat, q >= p, NEW i \in q + 1 .. n
  PROVE  i \in p + 1 .. n /\ (i = p + 1 => q = p)
  OBVIOUS

(* Releasing messages takes them out of the queue and changes no other. *)
LEMMA BackKeepsQueue ==
  ASSUME TypeOK, QueueInv, UNCHANGED << capacity, w, buffer, sent >>,
         released' \in Nat, released' >= released,
         released' = released /\ Reading => Reading'
  PROVE  QueueInv'
  <1>1. ASSUME NEW i \in Unread'
        PROVE  i \in Unread /\ (i = released + 1 => released' = released)
    <2>1. released \in Nat /\ Len(sent) \in Nat /\ i \in released' + 1 .. Len(sent)
      BY Types DEF Unread
    <2> QED
      BY <2>1, LaterSuffix DEF Unread
  <1>2. EndsMeetStarts'
    BY <1>1 DEF QueueInv, EndsMeetStarts, StartOf
  <1>3. HdrPlace'
    BY <1>1 DEF QueueInv, HdrPlace
  <1>4. UnreadInArc'
    BY <1>1 DEF QueueInv, UnreadInArc, InArc
  <1>5. UnreadIntact'
    BY <1>1 DEF QueueInv, UnreadIntact, Intact
  <1> QED
    BY <1>2, <1>3, <1>4, <1>5 DEF QueueInv

LEMMA ConsumeBeginInv ==
  ASSUME IInv, ConsumeBegin, TypeOK'
  PROVE  IInv'
  <1> USE DEF ConsumeBegin, bufferVars
  <1>1. /\ Len(sent) \in Nat /\ released \in Nat /\ released <= Len(sent)
        /\ sent' = sent /\ w' = w
    BY Types DEF IInv, BackInv, Formatted, frontVars
  <1>2. released' = released /\ ~Reading /\ ~Reading'
    BY DEF released, Reading
  <1>3. FrontInv'
    BY BackKeepsFront DEF IInv, FrontInv, CachedReader, MaybeReader, frontVars
  <1>4. QueueInv'
    BY <1>1, <1>2, BackKeepsQueue DEF IInv
  <1>5. ReaderAt' /\ Formatted' /\ DeliveredInOrder'
    BY <1>1, <1>2 DEF IInv, BackInv, ReaderAt, Formatted, DeliveredInOrder, StartOf
  <1>6. Snapshot'
    <2>1. Len(sent) \in released .. Len(sent) /\ b_w' = StartOf(Len(sent) + 1)'
      BY <1>1 DEF StartOf
    <2> QED
      BY <1>1, <1>2, <2>1 DEF Snapshot
  <1> QED
    BY <1>3, <1>4, <1>5, <1>6 DEF IInv, BackInv

LEMMA FormatNoneInv ==
  ASSUME IInv, FormatNone, TypeOK'
  PROVE  IInv'
  <1> USE DEF FormatNone, bufferVars
  <1>1. /\ Len(sent) \in Nat /\ released \in Nat
        /\ sent' = sent /\ w' = w
    BY Types DEF IInv, frontVars
  <1>2. released' = released /\ ~Reading /\ ~Reading'
    BY DEF released, Reading
  <1>3. FrontInv'
    BY BackKeepsFront DEF IInv, FrontInv, CachedReader, MaybeReader, frontVars
  <1>4. QueueInv'
    BY <1>1, <1>2, BackKeepsQueue DEF IInv
  <1>5. BackInv'
    BY <1>1, <1>2 DEF IInv, BackInv, ReaderAt, Snapshot, Formatted, DeliveredInOrder, StartOf
  <1> QED
    BY <1>3, <1>4, <1>5 DEF IInv

LEMMA FormatBeginInv ==
  ASSUME IInv, FormatBegin, TypeOK'
  PROVE  IInv'
  <1> USE DEF FormatBegin
  <1>0. PICK f : f = released + 1
    OBVIOUS
  <1>1. /\ TypeOK /\ CachedReader /\ ReaderAt /\ Snapshot /\ Formatted /\ DeliveredInOrder
        /\ HdrPlace /\ UnreadInArc /\ UnreadIntact
    BY DEF IInv, FrontInv, BackInv, QueueInv
  <1>2. /\ Len(sent) \in Nat /\ released \in Nat /\ w \in Nat /\ r \in Nat /\ capacity \in Nat
        /\ HdrSize \in Nat /\ HdrSize > 0 /\ f_r \in Nat /\ w < capacity
        /\ sent' = sent /\ w' = w /\ capacity' = capacity /\ f_r' = f_r
    BY <1>1, Types DEF frontVars
  <1>3. released' = released /\ ~Reading /\ Reading'
    BY DEF released, Reading
  <1>4. PICK k \in released .. Len(sent) : b_w = StartOf(k + 1)
    BY <1>1, <1>2, <1>3 DEF Snapshot
  <1>5. r = StartOf(released + 1) /\ k # released
    BY <1>1, <1>3, <1>4 DEF ReaderAt
  <1>6. f \in Unread /\ f \in 1 .. Len(sent) /\ f \in f .. Len(sent) /\ r = sent[f].start
    BY <1>0, <1>2, <1>4, <1>5 DEF Unread, StartOf
  <1>7. /\ sent[f].pos \in Nat /\ sent[f].start \in Nat
        /\ InArc(sent[f].pos, w, sent[f].pos, HdrSize)
        /\ sent[f].pos = r \/ (sent[f].pos = 0 /\ capacity - r < HdrSize /\ w < r)
    BY <1>1, <1>3, <1>6, SentTypes DEF UnreadInArc, HdrPlace
  <1>8. r' = sent[f].pos
    BY <1>2, <1>7 DEF InArc
  <1>9. FrontInv'
    <2>1. CachedReader'
      BY <1>1, <1>2, <1>7, <1>8 DEF CachedReader, MaybeReader
    <2> QED
      BY <2>1, BackKeepsFront DEF IInv
  <1>10. QueueInv'
    BY <1>2, <1>3, BackKeepsQueue DEF IInv
  <1>11. ReaderAt'
    BY <1>0, <1>2, <1>3, <1>6, <1>8 DEF ReaderAt
  <1>12. Snapshot'
    <2>1. k \in released + 1 .. Len(sent) /\ b_w' = StartOf(k + 1)'
      BY <1>2, <1>4, <1>5 DEF StartOf
    <2> QED
      BY <1>2, <1>3, <2>1 DEF Snapshot
  <1>13. Formatted' /\ DeliveredInOrder'
    BY <1>1, <1>2, <1>3 DEF Formatted, DeliveredInOrder
  <1> QED
    BY <1>9, <1>10, <1>11, <1>12, <1>13 DEF IInv, BackInv

(* While the backend reads, r is at an intact header. *)
LEMMA HdrReadable ==
  ASSUME IInv, Reading
  PROVE  /\ released + 1 \in Unread /\ released + 1 \in 1 .. Len(sent)
         /\ Intact(sent[released + 1])
         /\ buffer[r] = sent[released + 1].hdr
         /\ HdrAt(buffer[r])
  <1>0. PICK f : f = released + 1
    OBVIOUS
  <1>1. /\ f \in Unread /\ f \in 1 .. Len(sent) /\ r = sent[f].pos
    BY <1>0, Types, SMTT(30) DEF IInv, BackInv, ReaderAt, Unread
  <1>2. Intact(sent[f])
    BY <1>1 DEF IInv, QueueInv, UnreadIntact
  <1>3. r \in Bytes(r, HdrSize)
    BY Types DEF Bytes, IInv
  <1>4. buffer[r] = sent[f].hdr
    BY <1>1, <1>2, <1>3 DEF Intact, Holds
  <1>5. HdrAt(buffer[r])
    BY <1>1, <1>2, <1>4, SentTypes DEF HdrAt, Intact, IInv
  <1> QED
    BY <1>0, <1>1, <1>2, <1>4, <1>5

LEMMA FormatReadInv ==
  ASSUME IInv, FormatRead, TypeOK'
  PROVE  IInv'
  <1> USE DEF FormatRead, bufferVars
  <1>1. /\ Len(sent) \in Nat /\ released \in Nat /\ sent' = sent /\ w' = w
        /\ released = Len(handled)
    BY Types DEF IInv, frontVars, released
  <1>2. /\ Reading
        /\ Intact(sent[released + 1])
        /\ buffer[r] = sent[released + 1].hdr
        /\ HdrAt(buffer[r])
    BY HdrReadable DEF Reading
  <1>3. msg' = sent[released + 1].hdr.id /\ b_pc' = "release"
    BY <1>2 DEF Intact
  <1>4. released' = released /\ Reading'
    BY <1>3 DEF released, Reading
  <1>5. FrontInv'
    BY BackKeepsFront DEF IInv, FrontInv, CachedReader, MaybeReader, frontVars
  <1>6. QueueInv'
    BY <1>1, <1>4, BackKeepsQueue DEF IInv
  <1>7. ReaderAt' /\ Formatted' /\ DeliveredInOrder'
    BY <1>1, <1>2, <1>3, <1>4 DEF IInv, BackInv, ReaderAt, Formatted, DeliveredInOrder
  <1>8. Snapshot'
    BY <1>1, <1>2, <1>4 DEF IInv, BackInv, Snapshot, StartOf
  <1> QED
    BY <1>5, <1>6, <1>7, <1>8 DEF IInv, BackInv

LEMMA RMoveInv ==
  ASSUME IInv, RMove, TypeOK'
  PROVE  IInv'
  <1> USE DEF RMove
  <1>0. PICK f : f = released + 1
    OBVIOUS
  <1>1. /\ TypeOK /\ CachedReader /\ ReaderAt /\ Snapshot /\ Formatted /\ DeliveredInOrder
        /\ EndsMeetStarts /\ HdrPlace /\ UnreadInArc /\ UnreadIntact
    BY DEF IInv, FrontInv, BackInv, QueueInv
  <1>2. /\ Len(sent) \in Nat /\ released \in Nat /\ w \in Nat /\ r \in Nat /\ capacity \in Nat
        /\ HdrSize \in Nat /\ HdrSize > 0 /\ f_r \in Nat /\ w < capacity /\ capacity > 0
        /\ sent' = sent /\ w' = w /\ capacity' = capacity /\ f_r' = f_r
        /\ handled' = handled /\ msg' = msg /\ b_w' = b_w
        /\ released = Len(handled)
    BY <1>1, Types DEF frontVars, released
  <1>3. /\ Reading /\ f \in Unread /\ f \in 1 .. Len(sent)
        /\ buffer[r] = sent[f].hdr /\ HdrAt(buffer[r])
    BY <1>0, HdrReadable DEF Reading
  <1>4. /\ r' = MovedTo(capacity, sent[f].hdr.pos_end, r)
        /\ b_pc' = "write"
    BY <1>3
  <1>5. released' = f /\ ~Reading'
    BY <1>0, <1>2, <1>4 DEF released, Reading
  <1>6. /\ r = sent[f].pos /\ sent[f].pos \in Nat /\ sent[f].hdr.pos_end \in Nat
        /\ MaybeReader(sent[f].pos)
        /\ InArc(sent[f].pos, w, sent[f].pos, HdrSize)
    BY <1>0, <1>1, <1>3, SentTypes, UnreadAhead DEF ReaderAt, UnreadInArc
  <1>7. StartOf(f + 1) \in Nat /\ StartOf(f + 1) < capacity /\ MaybeReader(StartOf(f + 1))
    <2>1. CASE f = Len(sent)
      <3>1. StartOf(f + 1) = w
        BY <1>2, <2>1 DEF StartOf
      <3> QED
        BY <1>2, <1>6, <3>1 DEF MaybeReader, CachedReader
    <2>2. CASE f # Len(sent)
      <3>1. /\ f + 1 \in f .. Len(sent) /\ f < f + 1 /\ f + 1 \in 1 .. Len(sent)
            /\ f + 1 \in Unread /\ f + 1 \in f + 1 .. Len(sent)
        BY <1>0, <1>2, <1>3, <2>2 DEF Unread
      <3>2. /\ StartOf(f + 1) = sent[f + 1].start /\ sent[f + 1].start \in Nat
            /\ sent[f + 1].pos \in Nat
            /\ InArc(sent[f].pos, w, sent[f + 1].start, 0)
        BY <1>1, <1>3, <3>1, SentTypes DEF StartOf, UnreadInArc
      <3>3. sent[f + 1].start < capacity
        <4>1. InArc(sent[f + 1].pos, w, sent[f + 1].pos, HdrSize)
          BY <1>1, <3>1 DEF UnreadInArc
        <4>2. \/ sent[f + 1].start = sent[f + 1].pos
              \/ StartOf(f + 1) = IF sent[f].hdr.pos_end = capacity THEN 0
                                  ELSE sent[f].hdr.pos_end
          BY <1>1, <1>3 DEF EndsMeetStarts
        <4> QED
          BY <1>2, <1>6, <3>2, <4>1, <4>2, SMTT(30) DEF InArc
      <3> QED
        BY <1>2, <1>6, <3>2, <3>3 DEF MaybeReader, InArc
    <2> QED
      BY <2>1, <2>2
  <1>8. r' = StartOf(f + 1)
    <2>1. StartOf(f + 1) = IF sent[f].hdr.pos_end = capacity THEN 0
                           ELSE sent[f].hdr.pos_end
      BY <1>1, <1>3 DEF EndsMeetStarts
    <2> QED
      BY <1>2, <1>4, <1>6, <1>7, <2>1 DEF MovedTo
  <1>9. FrontInv'
    <2>1. CachedReader'
      BY <1>1, <1>2, <1>7, <1>8 DEF CachedReader, MaybeReader
    <2> QED
      BY <2>1, BackKeepsFront DEF IInv
  <1>10. QueueInv'
    BY <1>0, <1>2, <1>5, BackKeepsQueue DEF IInv
  <1>11. ReaderAt'
    BY <1>2, <1>5, <1>8 DEF ReaderAt, StartOf
  <1>12. Snapshot'
    <2>1. PICK k \in released + 1 .. Len(sent) : b_w = StartOf(k + 1)
      BY <1>1, <1>3 DEF Snapshot
    <2>2. /\ k \in released' + (IF Reading' THEN 1 ELSE 0) .. Len(sent')
          /\ b_w' = StartOf(k + 1)'
      BY <1>0, <1>2, <1>5, <2>1 DEF StartOf
    <2> QED
      BY <2>2 DEF Snapshot
  <1>13. Formatted' /\ DeliveredInOrder'
    BY <1>1, <1>2, <1>3, <1>4, <1>5 DEF Formatted, DeliveredInOrder
  <1> QED
    BY <1>9, <1>10, <1>11, <1>12, <1>13 DEF IInv, BackInv

LEMMA HandlersWriteInv ==
  ASSUME IInv, HandlersWrite, TypeOK'
  PROVE  IInv'
  <1> USE DEF HandlersWrite, bufferVars
  <1>1. /\ Len(sent) \in Nat /\ released \in Nat /\ sent' = sent /\ w' = w
        /\ Len(handled) \in Nat /\ released = Len(handled) + 1
        /\ released <= Len(sent) /\ msg = sent[released].hdr.id
    BY Types DEF IInv, BackInv, Formatted, frontVars, released
  <1>2. /\ Len(handled') = released
        /\ \A i \in 1 .. Len(handled) : handled'[i] = handled[i]
        /\ handled'[released] = msg
    <2>1. handled \in Seq(Nat) /\ msg \in Nat /\ handled' = Append(handled, msg)
      BY DEF IInv, TypeOK
    <2> QED
      BY <1>1, <2>1
  <1>3. released' = released /\ ~Reading /\ ~Reading'
    BY <1>1, <1>2 DEF released, Reading
  <1>4. FrontInv'
    BY BackKeepsFront DEF IInv, FrontInv, CachedReader, MaybeReader, frontVars
  <1>5. QueueInv'
    BY <1>1, <1>3, BackKeepsQueue DEF IInv
  <1>6. ReaderAt' /\ Formatted'
    BY <1>1, <1>3 DEF IInv, BackInv, ReaderAt, Formatted, StartOf
  <1>7. Snapshot'
    BY <1>1, <1>3 DEF IInv, BackInv, Snapshot, StartOf
  <1>8. DeliveredInOrder'
    BY <1>1, <1>2 DEF IInv, BackInv, DeliveredInOrder
  <1> QED
    BY <1>4, <1>5, <1>6, <1>7, <1>8 DEF IInv, BackInv

(* A reader that stands at w has read everything: a message that is left   *)
(* has a header between the reader and w.                                  *)
LEMMA EmptyIsRead ==
  ASSUME IInv, r = w
  PROVE  released = Len(sent)
  <1> DEFINE f == released + 1
  <1>1. TypeOK /\ ReaderAt /\ Formatted /\ HdrPlace /\ UnreadInArc
    BY DEF IInv, BackInv, QueueInv
  <1>2. /\ capacity \in Nat /\ HdrSize \in Nat /\ HdrSize > 0 /\ w \in Nat
        /\ released \in Nat /\ Len(sent) \in Nat
    BY <1>1, Types DEF TypeOK, released
  <1> SUFFICES ASSUME released # Len(sent) PROVE FALSE
    OBVIOUS
  <1>3. f \in Unread /\ f \in 1 .. Len(sent) /\ f \in f .. Len(sent)
    BY <1>1, <1>2 DEF Formatted, Unread
  <1>4. /\ sent[f].start \in Nat /\ sent[f].pos \in Nat
        /\ InArc(sent[f].pos, w, sent[f].pos, HdrSize)
    BY <1>1, <1>3, SentTypes DEF UnreadInArc
  <1>5. sent[f].pos = w
    <2>1. CASE Reading
      BY <1>1, <2>1 DEF ReaderAt
    <2>2. CASE ~Reading
      <3>1. sent[f].start = w
        BY <1>1, <1>2, <1>3, <2>2 DEF ReaderAt, StartOf
      <3> QED
        BY <1>1, <1>2, <1>3, <1>4, <2>2, <3>1 DEF HdrPlace
    <2> QED
      BY <2>1, <2>2
  <1> QED
    BY <1>2, <1>4, <1>5 DEF InArc

(***************************************************************************)
(* A thread gets a new buffer only when the old one has no unread message, *)
(* and a reader position of the old buffer is a position of the new one.   *)
(***************************************************************************)
LEMMA RecreateInv ==
  ASSUME ~MayShrink, IInv, NEW c \in Capacities, Recreate(c), TypeOK'
  PROVE  IInv'
  <1> USE DEF Recreate
  <1>1. TypeOK /\ CachedReader /\ ReaderAt /\ Formatted /\ DeliveredInOrder
    BY DEF IInv, FrontInv, BackInv
  <1>2. /\ Len(sent) \in Nat /\ released \in Nat /\ w \in Nat /\ HdrSize \in Nat /\ HdrSize > 0
        /\ f_r \in Nat /\ capacity \in Nat /\ c \in Nat /\ c >= capacity
        /\ sent' = sent /\ f_r' = f_r
    BY <1>1, Types, CapacityType DEF frontVars
  <1>3. released' = released /\ ~Reading /\ ~Reading'
    BY DEF backVars, released, Reading
  <1>4. released = Len(sent)
    BY EmptyIsRead DEF Recreate
  <1>5. Unread' = {}
    BY <1>2, <1>3, <1>4 DEF Unread
  <1>6. FrontInv'
    <2>1. CachedReader'
      BY <1>1, <1>2 DEF CachedReader, MaybeReader
    <2> QED
      BY <2>1 DEF frontVars, FrontInv, ClaimEnd, ClaimedHdr, ClaimedConst, ClaimedStr,
                  ClaimedAll, AfterHdr, AfterConst, AfterStr
  <1>7. QueueInv'
    BY <1>5 DEF QueueInv, EndsMeetStarts, HdrPlace, UnreadInArc, UnreadIntact
  <1>8. BackInv'
    BY <1>1, <1>2, <1>3, <1>4 DEF backVars, BackInv, ReaderAt, Snapshot, Formatted,
                                  DeliveredInOrder, StartOf
  <1> QED
    BY <1>6, <1>7, <1>8 DEF IInv

-----------------------------------------------------------------------------
LEMMA IInvInit == Init => IInv
  <1> SUFFICES ASSUME Init PROVE IInv
    OBVIOUS
  <1> USE DEF Init
  <1>1. TypeOK
    BY TypeInit
  <1>2. capacity \in Nat /\ capacity > 0
    BY <1>1, Types
  <1>3. released = 0 /\ Len(sent) = 0 /\ Len(handled) = 0 /\ Unread = {} /\ ~Reading
    BY DEF released, Unread, Reading
  <1>4. FrontInv
    BY <1>2 DEF FrontInv, CachedReader, MaybeReader, ClaimEnd, ClaimedHdr, ClaimedConst,
                ClaimedStr, ClaimedAll, AfterHdr, AfterConst, AfterStr
  <1>5. BackInv
    BY <1>3 DEF BackInv, ReaderAt, StartOf, Snapshot, Formatted, DeliveredInOrder
  <1>6. QueueInv
    BY <1>3 DEF QueueInv, EndsMeetStarts, HdrPlace, UnreadInArc, UnreadIntact
  <1> QED
    BY <1>1, <1>4, <1>5, <1>6 DEF IInv

LEMMA IInvStutter ==
  ASSUME IInv, UNCHANGED vars, TypeOK'
  PROVE  IInv'
  <1> USE DEF vars, bufferVars, backVars
  <1>1. FrontInv'
    BY BackKeepsFront DEF IInv, FrontInv, CachedReader, MaybeReader, frontVars
  <1>2. BackInv' /\ EndsMeetStarts' /\ HdrPlace' /\ UnreadInArc'
    BY FrontKeepsQueue DEF frontVars
  <1>3. UnreadIntact'
    BY DEF IInv, QueueInv, UnreadIntact, Intact, Unread, released, frontVars
  <1> QED
    BY <1>1, <1>2, <1>3 DEF IInv, QueueInv

LEMMA IInvNext == ~MayShrink /\ IInv /\ [Next]_vars => IInv'
  <1> SUFFICES ASSUME ~MayShrink, IInv, [Next]_vars PROVE IInv'
    OBVIOUS
  <1>1. TypeOK'
    BY TypeNext DEF IInv
  <1>2. CASE \E p \in ParamSizes, s \in StrSizes : SerializeBegin(p, s)
    BY <1>1, <1>2, SerializeBeginInv
  <1>3. CASE FrontStep
    BY <1>1, <1>3, FetchRetryInv, FetchRefuseInv, FetchHdrInv, FetchConstInv, FetchStrInv,
       FetchGapInv, FillHdrInv, WMoveInv
    DEF FrontStep
  <1>4. CASE BackStep
    BY <1>1, <1>4, ConsumeBeginInv, FormatNoneInv, FormatBeginInv, FormatReadInv, RMoveInv,
       HandlersWriteInv
    DEF BackStep
  <1>5. CASE \E c \in Capacities : Recreate(c)
    BY <1>1, <1>5, RecreateInv
  <1>6. CASE UNCHANGED vars
    BY <1>1, <1>6, IInvStutter
  <1> QED
    BY <1>2, <1>3, <1>4, <1>5, <1>6 DEF Next

(* The inductive invariant holds for a thread whose buffers do not shrink. *)
THEOREM Invariance ==
  ASSUME ~MayShrink
  PROVE  Spec => []IInv
  <1>1. IInv /\ [Next]_vars => IInv'
    BY IInvNext
  <1> QED
    BY <1>1, IInvInit, PTL DEF Spec

(***************************************************************************)
(* No byte of a published message changes before the backend releases it,  *)
(* for every capacity, every size of header, arguments and strings, and    *)
(* every number of calls.                                                  *)
(***************************************************************************)
THEOREM PublishedStaysIntact ==
  ASSUME ~MayShrink
  PROVE  Spec => []UnreadIntact
  <1>1. IInv => UnreadIntact
    BY DEF IInv, QueueInv
  <1> QED
    BY <1>1, Invariance, PTL

(***************************************************************************)
(* The handlers get the published messages in order, each once and intact. *)
(***************************************************************************)
THEOREM DeliveryInOrder ==
  ASSUME ~MayShrink
  PROVE  Spec => []DeliveredInOrder
  <1>1. IInv => DeliveredInOrder
    BY DEF IInv, BackInv
  <1> QED
    BY <1>1, Invariance, PTL

(***************************************************************************)
(* The test r = w of the backend and of haclog_bytes_buffer_join never     *)
(* takes a full ring, or a message half read, for an empty one.            *)
(***************************************************************************)
THEOREM EmptyRingIsRead ==
  ASSUME ~MayShrink
  PROVE  Spec => []EmptyMeansRead
  <1>1. IInv => EmptyMeansRead
    <2> SUFFICES ASSUME IInv, r = w PROVE Unread = {}
      BY DEF EmptyMeansRead
    <2>1. released = Len(sent) /\ Len(sent) \in Nat
      BY EmptyIsRead DEF IInv, TypeOK
    <2> QED
      BY <2>1 DEF Unread
  <1> QED
    BY <1>1, Invariance, PTL

(* Every part that w_fc gives to a call lies inside the buffer. *)
THEOREM ClaimsStayInBounds ==
  ASSUME ~MayShrink
  PROVE  Spec => []ClaimsInBounds
  <1>1. IInv => ClaimsInBounds
    <2> SUFFICES ASSUME IInv PROVE ClaimsInBounds
      OBVIOUS
    <2>1. /\ WR_MIN_INTERVAL \in Nat /\ capacity \in Nat /\ w \in Nat /\ f_r \in Nat
          /\ f_w \in Nat /\ w < capacity /\ w_hdr \in Nat /\ HdrSize \in Nat
          /\ w_const_args \in Nat /\ param_size \in Nat /\ w_str \in Nat /\ extra_len \in Nat
      BY Types DEF IInv
    <2>2. f_pc # "idle" => f_w <= capacity
      BY <2>1 DEF IInv, FrontInv, CachedReader, ClaimEnd, Free
    <2>3. AfterHdr => w_hdr + HdrSize <= capacity
      BY <2>1 DEF IInv, FrontInv, CachedReader, ClaimedHdr, Free
    <2>4. AfterConst => w_const_args + param_size <= capacity
      BY <2>1, <2>2 DEF IInv, FrontInv, ClaimedConst, AfterConst, InArc
    <2>5. AfterStr => w_str + extra_len <= capacity
      BY <2>1, <2>2 DEF IInv, FrontInv, ClaimedStr, AfterStr, InArc
    <2> QED
      BY <2>2, <2>3, <2>4, <2>5 DEF ClaimsInBounds, AfterHdr, AfterConst, AfterStr
  <1> QED
    BY <1>1, Invariance, PTL

(***************************************************************************)
(* A call loses its message only because of the limit of w_fc on one of    *)
(* its parts, in every buffer that takes an interval under that limit.     *)
(***************************************************************************)
THEOREM DroppedOnlyWhenOversized ==
  ASSUME ~MayShrink, \A c \in Capacities : WR_MIN_INTERVAL <= (c \div 2) - WR_MIN_INTERVAL
  PROVE  Spec => OnlyOversizedDropped
  <1> DEFINE Lost == f_pc # "idle" /\ f_pc' = "idle" /\ Len(sent') = Len(sent)
             Oversized == \E n \in {HdrSize, param_size, extra_len} :
                            n > (capacity \div 2) - WR_MIN_INTERVAL
  <1>1. IInv /\ [Next]_vars => [Lost => Oversized]_vars
    <2> SUFFICES ASSUME IInv, Next, Lost PROVE Oversized
      OBVIOUS
    <2>1. FetchRefuse \/ WMove
      BY DEF Next, FrontStep, BackStep, SerializeBegin, FetchRetry, FetchHdr, FetchConst,
             FetchStr, FetchGap, FillHdr, ConsumeBegin, FormatNone, FormatBegin, FormatRead,
             RMove, HandlersWrite, Recreate, frontVars, FetchPc
    <2>2. /\ capacity \in Capacities /\ capacity \in Nat /\ f_w \in Nat /\ f_r \in Nat
          /\ w \in Nat /\ w < capacity /\ WR_MIN_INTERVAL \in Nat /\ sent \in Seq(Message)
      BY Types DEF IInv, TypeOK
    <2>3. CASE FetchRefuse
      <3>1. Fetched = Failed /\ f_pc \in FetchPc
        BY <2>3 DEF FetchRefuse
      <3>2. FetchSize > (capacity \div 2) - WR_MIN_INTERVAL
        BY <2>2, <3>1 DEF Fetched, haclog_bytes_buffer_w_fc, Failed, NeedWait
      <3>3. FetchSize # WR_MIN_INTERVAL
        BY <2>2, <3>2
      <3> QED
        BY <3>1, <3>2, <3>3 DEF FetchSize, FetchPc
    <2>4. CASE WMove
      <3>1. f_w <= capacity
        BY <2>2, <2>4 DEF IInv, FrontInv, CachedReader, ClaimEnd, Free, WMove
      <3>2. sent' = Append(sent, Published)
        BY <2>2, <2>4, <3>1 DEF WMove
      <3>3. Len(sent') = Len(sent) + 1 /\ Len(sent) \in Nat
        BY <2>2, <3>2
      <3> QED
        BY <3>3
    <2> QED
      BY <2>1, <2>3, <2>4
  <1> QED
    BY <1>1, Invariance, PTL DEF Spec, OnlyOversizedDropped

-----------------------------------------------------------------------------
(* The length of what a call has claimed. *)
LEMMA ClaimLengthNext ==
  ASSUME ~MayShrink, IInv, ClaimLength, [Next]_vars
  PROVE  ClaimLength'
  <1>1. /\ WR_MIN_INTERVAL \in Nat /\ capacity \in Nat /\ w \in Nat /\ f_r \in Nat
        /\ f_w \in Nat /\ w < capacity /\ WR_MIN_INTERVAL > 0
        /\ HdrSize \in Nat /\ HdrSize > 0 /\ param_size \in Nat /\ extra_len \in Nat
    BY Types DEF IInv
  <1>2. Claimed \in Nat
    BY <1>1 DEF Claimed
  <1>3. ASSUME f_pc \in FetchPc, Fetched >= 0, UNCHANGED << capacity, w >>,
               f_w' = Fetched + FetchSize, Claimed' = Claimed + FetchSize
        PROVE  ClaimLength'
    <2>1. /\ Fetched \in Nat /\ FetchSize \in Nat
          /\ Free(Fetched, FetchSize)
          /\ \/ Fetched = f_w
             \/ /\ Fetched = 0 /\ capacity - f_w < FetchSize /\ w <= f_w
                /\ FetchSize + WR_MIN_INTERVAL <= f_r /\ f_r <= w
      BY <1>3, Claim DEF IInv, FrontInv
    <2>2. \/ f_w = w + Claimed
          \/ f_w < w /\ f_w <= Claimed /\ w + Claimed > capacity
      BY <1>3 DEF ClaimLength
    <2>3. \/ Fetched + FetchSize = w + (Claimed + FetchSize)
          \/ /\ Fetched + FetchSize < w /\ Fetched + FetchSize <= Claimed + FetchSize
             /\ w + (Claimed + FetchSize) > capacity
      BY <1>1, <1>2, <2>1, <2>2 DEF Free
    <2> QED
      BY <1>3, <2>3 DEF ClaimLength
  <1>4. ASSUME f_pc' \notin FetchPc
        PROVE  ClaimLength'
    BY <1>4 DEF ClaimLength
  <1>5. ASSUME UNCHANGED << capacity, w, f_pc, f_w, param_size, extra_len >>
        PROVE  ClaimLength'
    BY <1>5 DEF ClaimLength, Claimed
  <1>6. ASSUME NEW p \in ParamSizes, NEW s \in StrSizes, SerializeBegin(p, s)
        PROVE  ClaimLength'
    BY <1>1, <1>6 DEF SerializeBegin, ClaimLength, Claimed, bufferVars
  <1>7. CASE FetchRetry
    BY <1>5, <1>7 DEF FetchRetry, bufferVars, callVars
  <1>8. CASE FetchRefuse \/ FetchGap \/ FillHdr \/ WMove
    BY <1>4, <1>8 DEF FetchRefuse, FetchGap, FillHdr, WMove, FetchPc
  <1>9. CASE FetchHdr
    <2>1. FetchSize = HdrSize /\ Claimed = 0 /\ Claimed' = HdrSize
      BY <1>9 DEF FetchHdr, FetchSize, Claimed
    <2> QED
      BY <1>1, <1>3, <1>9, <2>1 DEF FetchHdr, FetchPc, bufferVars
  <1>10. CASE FetchConst
    <2>1. FetchSize = param_size /\ Claimed = HdrSize /\ Claimed' = HdrSize + param_size
      BY <1>10 DEF FetchConst, FetchSize, Claimed
    <2> QED
      BY <1>1, <1>3, <1>10, <2>1 DEF FetchConst, FetchPc
  <1>11. CASE FetchStr
    <2>1. /\ FetchSize = extra_len /\ Claimed = HdrSize + param_size
          /\ Claimed' = HdrSize + param_size + extra_len
      BY <1>11 DEF FetchStr, FetchSize, Claimed
    <2> QED
      BY <1>1, <1>3, <1>11, <2>1 DEF FetchStr, FetchPc
  <1>12. CASE BackStep
    BY <1>5, <1>12 DEF BackStep, ConsumeBegin, FormatNone, FormatBegin, FormatRead, RMove,
                       HandlersWrite, bufferVars, frontVars, callVars
  <1>13. ASSUME NEW c \in Capacities, Recreate(c)
         PROVE  ClaimLength'
    BY <1>4, <1>13 DEF Recreate, frontVars, FetchPc
  <1>14. CASE UNCHANGED vars
    BY <1>5, <1>14 DEF vars, bufferVars, frontVars, callVars
  <1> QED
    BY <1>6, <1>7, <1>8, <1>9, <1>10, <1>11, <1>12, <1>13, <1>14 DEF Next, FrontStep

(***************************************************************************)
(* When every message fits twice into the buffer, a writer that has to     *)
(* wait waits for a reader with something to read.                         *)
(***************************************************************************)
THEOREM WaitingIsForReader ==
  ASSUME ~MayShrink, SizesFit
  PROVE  Spec => []WaitIsForReader
  <1>1. Init => ClaimLength
    BY DEF Init, ClaimLength, FetchPc
  <1>2. IInv /\ ClaimLength /\ [Next]_vars => ClaimLength'
    BY ClaimLengthNext
  <1>3. IInv /\ ClaimLength => WaitIsForReader
    <2> SUFFICES ASSUME IInv, ClaimLength, f_pc \in FetchPc, r = w,
                        haclog_bytes_buffer_w_fc(capacity, FetchSize, r, f_w) = NeedWait
                 PROVE  FALSE
      BY DEF WaitIsForReader
    <2>1. /\ WR_MIN_INTERVAL \in Nat /\ capacity \in Nat /\ w \in Nat
          /\ f_w \in Nat /\ w < capacity /\ WR_MIN_INTERVAL > 0
          /\ HdrSize \in Nat /\ HdrSize > 0 /\ param_size \in Nat /\ extra_len \in Nat
      BY Types DEF IInv
    <2>2. 2 * (HdrSize + param_size + extra_len + WR_MIN_INTERVAL) + WR_MIN_INTERVAL <= capacity
      BY SizesFit DEF SizesFit, IInv, TypeOK
    <2>3. /\ FetchSize \in Nat /\ Claimed \in Nat
          /\ Claimed + FetchSize <= HdrSize + param_size + extra_len + WR_MIN_INTERVAL
      BY <2>1 DEF FetchSize, Claimed, FetchPc
    <2>4. \/ f_w = w + Claimed
          \/ f_w < w /\ f_w <= Claimed /\ w + Claimed > capacity
      BY DEF ClaimLength
    <2>5. /\ ~FitsUpToEnd(capacity, FetchSize, w, f_w)
          /\ ~FitsBeforeReader(FetchSize, w, f_w)
          /\ ~FitsAfterWrap(capacity, FetchSize, w, f_w)
      BY <2>1 DEF haclog_bytes_buffer_w_fc, NeedWait, Failed
    <2> QED
      BY <2>1, <2>2, <2>3, <2>4, <2>5 DEF FitsUpToEnd, FitsBeforeReader, FitsAfterWrap
  <1> QED
    BY <1>1, <1>2, <1>3, Invariance, PTL DEF Spec

-----------------------------------------------------------------------------
(***************************************************************************)
(* The ring implements the safety part of LogChannel: every step of the    *)
(* two threads is a step of the abstract channel, or invisible in it.      *)
(***************************************************************************)
THEOREM ImplementsChannelSafety ==
  ASSUME ~MayShrink
  PROVE  Spec => Channel!SafeSpec
  <1> DEFINE pend == [i \in 1 .. Len(sent) - Len(handled) |-> sent[Len(handled) + i].hdr.id]
  <1>1. Init => Channel!Init
    BY DEF Init, Channel!Init
  <1>2. IInv /\ [Next]_vars => [Channel!Next]_(Channel!vars)
    <2> SUFFICES ASSUME IInv, [Next]_vars
                 PROVE  Channel!Next \/ UNCHANGED Channel!vars
      OBVIOUS
    <2>1. /\ Len(sent) \in Nat /\ Len(handled) \in Nat /\ Len(handled) <= Len(sent)
          /\ sent \in Seq(Message) /\ handled \in Seq(Nat)
      BY Types DEF IInv, TypeOK, BackInv, DeliveredInOrder
    <2>2. ASSUME NEW p \in ParamSizes, NEW s \in StrSizes, SerializeBegin(p, s)
          PROVE  Channel!Call
      BY <2>2 DEF SerializeBegin, Channel!Call, backVars
    <2>3. CASE FetchRefuse
      BY <2>3 DEF FetchRefuse, Channel!Next, Channel!Drop, FetchPc, backVars
    <2>4. CASE FetchRetry \/ FetchHdr \/ FetchConst \/ FetchStr \/ FetchGap \/ FillHdr
      BY <2>4 DEF FetchRetry, FetchHdr, FetchConst, FetchStr, FetchGap, FillHdr, FetchPc,
                  backVars, Channel!vars
    <2>5. CASE WMove
      <3>1. sent' = Append(sent, Published) /\ Published.hdr.id = calls
        BY <2>5, PublishArc, Types
           DEF WMove, IInv, FrontInv, Published, Hdr
      <3>2. pend' = Append(pend, calls)
        BY <2>1, <2>5, <3>1 DEF WMove, backVars
      <3> QED
        BY <2>5, <3>2 DEF WMove, Channel!Next, Channel!Publish, backVars
    <2>6. CASE ConsumeBegin \/ FormatNone \/ FormatBegin \/ FormatRead \/ RMove
      BY <2>6 DEF ConsumeBegin, FormatNone, FormatBegin, FormatRead, RMove, frontVars,
                  Channel!vars
    <2>7. CASE HandlersWrite
      <3>1. /\ Len(handled) < Len(sent) /\ msg = sent[Len(handled) + 1].hdr.id
        BY <2>1, <2>7 DEF HandlersWrite, IInv, BackInv, Formatted, released
      <3>2. sent' = sent /\ Len(handled') = Len(handled) + 1
        BY <2>1, <2>7 DEF HandlersWrite, frontVars, IInv, TypeOK
      <3>3. pend # << >> /\ Head(pend) = msg
        <4>1. 1 \in DOMAIN pend /\ pend[1] = msg
          BY <2>1, <3>1
        <4>2. Head(pend) = pend[1]
          BY SMTT(20)
        <4>3. pend # << >>
          <5>1. Len(pend) = Len(sent) - Len(handled)
            BY <2>1, <3>1
          <5>2. Len(<< >>) = 0
            OBVIOUS
          <5>3. Len(pend) # 0
            BY <2>1, <3>1, <5>1
          <5> HIDE DEF pend
          <5> QED
            BY <5>2, <5>3, Zenon
        <4> QED
          BY <4>1, <4>2, <4>3, Zenon
      <3>4. pend' = Tail(pend)
        BY <2>1, <3>1, <3>2, SMTT(20)
      <3> QED
        BY <2>7, <3>3, <3>4 DEF HandlersWrite, Channel!Next, Channel!Deliver, frontVars
    <2>8. ASSUME NEW c \in Capacities, Recreate(c)
          PROVE  UNCHANGED Channel!vars
      BY <2>8 DEF Recreate, frontVars, backVars, Channel!vars
    <2>9. CASE UNCHANGED vars
      BY <2>9 DEF vars, frontVars, backVars, Channel!vars
    <2> QED
      BY <2>2, <2>3, <2>4, <2>5, <2>6, <2>7, <2>8, <2>9
      DEF Next, FrontStep, BackStep, Channel!Next
  <1> QED
    BY <1>1, <1>2, Invariance, PTL DEF Spec, Channel!SafeSpec
=============================================================================
