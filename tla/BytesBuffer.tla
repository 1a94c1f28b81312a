---------------------------- MODULE BytesBuffer ----------------------------
(***************************************************************************)
(* The position arithmetic of haclog_bytes_buffer_t: the ring of bytes     *)
(* that carries the messages of one front-end thread to the backend.       *)
(*                                                                         *)
(* The buffer's fields live in the state machines that use these           *)
(* operators, so every operator takes the fields it reads as parameters.   *)
(***************************************************************************)
EXTENDS Integers

CONSTANT WR_MIN_INTERVAL
  (* HACLOG_BYTES_BUFFER_WR_MIN_INTERVAL, the distance the writer keeps    *)
  (* behind the reader; also the size of the gap after every message       *)

ASSUME IntervalAssumption == WR_MIN_INTERVAL \in Nat \ {0}

(* The negative results of haclog_bytes_buffer_w_fc. *)
Failed   == -1
NeedWait == -2

(***************************************************************************)
(* haclog_bytes_buffer_new accepts this capacity (the other reason for it  *)
(* to return NULL is a failing malloc).                                    *)
(***************************************************************************)
haclog_bytes_buffer_new(capacity) == capacity >= 2 * WR_MIN_INTERVAL

(***************************************************************************)
(* Variants with a mistake, for the runs that show what each check is for: *)
(* one byte too many at the end; an exact fit although the reader is at 0, *)
(* or never; a wrap that looks at w and not at r; a move to the end that   *)
(* is not a move to 0.                                                     *)
(***************************************************************************)
FitsUpToEnd_OffByOne(capacity, num_bytes, r, w) ==
  w >= r /\ capacity - w >= num_bytes - 1

FitsUpToEnd_AlwaysExact(capacity, num_bytes, r, w) ==
  w >= r /\ capacity - w >= num_bytes

FitsUpToEnd_NeverExact(capacity, num_bytes, r, w) ==
  w >= r /\ capacity - w > num_bytes

FitsAfterWrap_LooksAtW(capacity, num_bytes, r, w) ==
  /\ w >= r
  /\ capacity - w < num_bytes
  /\ num_bytes <= w - WR_MIN_INTERVAL

MovedTo_NoWrap(capacity, pos, old) == IF pos \in 0 .. capacity THEN pos ELSE old

(***************************************************************************)
(* The three places where num_bytes contiguous bytes can be found when the *)
(* reader is at r and the writer at w.  At the end of the buffer, an exact *)
(* fit moves the writer to position 0, which must not be the reader's.     *)
(***************************************************************************)
FitsUpToEnd(capacity, num_bytes, r, w) ==
  /\ w >= r
  /\ \/ capacity - w > num_bytes
     \/ capacity - w = num_bytes /\ r # 0

FitsAfterWrap(capacity, num_bytes, r, w) ==
  /\ w >= r
  /\ capacity - w < num_bytes
  /\ num_bytes <= r - WR_MIN_INTERVAL

FitsBeforeReader(num_bytes, r, w) ==
  /\ w < r
  /\ num_bytes <= r - w - WR_MIN_INTERVAL

(***************************************************************************)
(* haclog_bytes_buffer_w_fc: find contiguous memory for num_bytes from the *)
(* writer position w, given the reader position r.                         *)
(***************************************************************************)
haclog_bytes_buffer_w_fc(capacity, num_bytes, r, w) ==
  IF num_bytes > (capacity \div 2) - WR_MIN_INTERVAL
  THEN Failed
  ELSE IF FitsUpToEnd(capacity, num_bytes, r, w) \/ FitsBeforeReader(num_bytes, r, w)
  THEN w
  ELSE IF FitsAfterWrap(capacity, num_bytes, r, w)
  THEN 0
  ELSE NeedWait

(***************************************************************************)
(* The value haclog_bytes_buffer_w_move and haclog_bytes_buffer_r_move     *)
(* leave in their field, which held old: the end of the buffer is position *)
(* 0, and a position outside the buffer is refused.                        *)
(***************************************************************************)
MovedTo(capacity, pos, old) ==
  IF pos = capacity THEN 0
  ELSE IF pos \in 0 .. capacity - 1 THEN pos ELSE old
=============================================================================
