----------------------------- MODULE RingLogInv -----------------------------
(***************************************************************************)
(* The inductive invariant behind the safety properties of RingLog, for a  *)
(* thread whose buffers never shrink.                                      *)
(*                                                                         *)
(* The unread messages fill the arc of the ring from the reader to w.  The *)
(* call in progress fills an arc that starts at w.  The argument is that   *)
(* the reader position the writer works with, however old, bounds the      *)
(* second arc away from the first.                                         *)
(***************************************************************************)
EXTENDS RingLog

(* n bytes from a lie on the way from position x forward to position y. *)
InArc(x, y, a, n) ==
  IF x <= y THEN x <= a /\ a + n <= y
  ELSE (x <= a /\ a + n <= capacity) \/ a + n <= y

(* Two ranges of bytes with no byte in common. *)
Apart(a, n, b, m) == a + n <= b \/ b + m <= a

(* Where message k starts; the next message to be published starts at w. *)
StartOf(k) == IF k <= Len(sent) THEN sent[k].start ELSE w

AfterHdr   == f_pc \in {"const", "str", "gap", "fill", "publish"}
AfterConst == f_pc \in {"str", "gap", "fill", "publish"}
AfterStr   == f_pc \in {"gap", "fill", "publish"}
Reading    == b_pc \in {"read", "release"}

-----------------------------------------------------------------------------
(* A place where the reader can be by now, having been at f_r: it moved    *)
(* only forward, and not past w.                                           *)
MaybeReader(x) == IF f_r <= w THEN f_r <= x /\ x <= w ELSE f_r <= x \/ x <= w

CachedReader == f_r < capacity /\ MaybeReader(r)

(* n bytes from a are not part of any unread message, as far as a writer   *)
(* can tell that last saw the reader at f_r.                               *)
Free(a, n) ==
  IF f_r <= w
  THEN (w <= a /\ a + n <= capacity) \/ a + n + WR_MIN_INTERVAL <= f_r
  ELSE w <= a /\ a + n < f_r

(* The end of what the call has claimed so far, and its header. *)
ClaimEnd ==
  f_pc # "idle" =>
    /\ Free(f_w, 0)
    /\ f_w = capacity => f_r # 0
    /\ f_pc = "hdr" => f_w = w

ClaimedHdr ==
  AfterHdr =>
    /\ Free(w_hdr, HdrSize)
    /\ InArc(w_hdr, f_w, w_hdr, HdrSize)
    /\ \/ w_hdr = w
       \/ w_hdr = 0 /\ capacity - w < HdrSize /\ f_w < w

ClaimedConst ==
  AfterConst =>
    /\ InArc(w_hdr, f_w, w_const_args, param_size)
    /\ Apart(w_hdr, HdrSize, w_const_args, param_size)
    /\ Holds(buffer, w_const_args, param_size, Byte(calls, "const"))

ClaimedStr ==
  AfterStr =>
    /\ InArc(w_hdr, f_w, w_str, extra_len)
    /\ Apart(w_hdr, HdrSize, w_str, extra_len)
    /\ Holds(buffer, w_str, extra_len, Byte(calls, "str"))

(* The interval after the message keeps f_w off w, and the header is       *)
(* complete when the message is published.                                 *)
ClaimedAll ==
  /\ f_pc \in {"fill", "publish"} => f_w # w
  /\ f_pc = "publish" => Holds(buffer, w_hdr, HdrSize, Hdr)

-----------------------------------------------------------------------------
(* The reader stands at the first unread message, or at its header when    *)
(* that one was moved to the front of the buffer.                          *)
ReaderAt ==
  IF Reading THEN released < Len(sent) /\ r = sent[released + 1].pos
  ELSE r = StartOf(released + 1)

(* The w the backend works with is where some message ended that is not    *)
(* released, or the last released one.                                     *)
Snapshot ==
  b_pc # "idle" =>
    \E k \in released + (IF Reading THEN 1 ELSE 0) .. Len(sent) : b_w = StartOf(k + 1)

(* Each unread message ends where the next one starts. *)
EndsMeetStarts ==
  \A i \in Unread :
    StartOf(i + 1) = IF sent[i].hdr.pos_end = capacity THEN 0 ELSE sent[i].hdr.pos_end

(* The header is where the message starts, except when it did not fit:     *)
(* then it is at the front, and w stays behind the start of the message    *)
(* until the reader has left that place.                                   *)
HdrPlace ==
  \A i \in Unread :
    \/ sent[i].pos = sent[i].start
    \/ /\ sent[i].pos = 0
       /\ capacity - sent[i].start < HdrSize
       /\ w < sent[i].start \/ (Reading /\ i = released + 1)

(* Parts of an unread message lie between any earlier header and w. *)
UnreadInArc ==
  \A i \in Unread : \A j \in i .. Len(sent) :
    /\ InArc(sent[i].pos, w, sent[j].pos, HdrSize)
    /\ InArc(sent[i].pos, w, sent[j].hdr.pos_const, sent[j].hdr.param_size)
    /\ InArc(sent[i].pos, w, sent[j].hdr.pos_str, sent[j].hdr.extra_len)
    /\ i < j => InArc(sent[i].pos, w, sent[j].start, 0)

(* What the backend has formatted is the message it is about to write. *)
Formatted ==
  /\ released <= Len(sent)
  /\ b_pc \in {"release", "write"} => msg = sent[Len(handled) + 1].hdr.id

FrontInv == CachedReader /\ ClaimEnd /\ ClaimedHdr /\ ClaimedConst /\ ClaimedStr /\ ClaimedAll

BackInv == ReaderAt /\ Snapshot /\ Formatted /\ DeliveredInOrder

QueueInv == EndsMeetStarts /\ HdrPlace /\ UnreadInArc /\ UnreadIntact

(***************************************************************************)
(* The inductive invariant: what the writer's cached reader position       *)
(* guarantees, where the reader stands in the queue of messages, and how   *)
(* that queue lies in the ring.                                            *)
(***************************************************************************)
IInv == TypeOK /\ FrontInv /\ BackInv /\ QueueInv

-----------------------------------------------------------------------------
(***************************************************************************)
(* Messages small enough for a writer never to wait on a reader that has   *)
(* caught up: a message and its interval fit twice into the buffer, with   *)
(* one more interval.  w_fc itself checks each part against half the       *)
(* buffer, and not their sum.                                              *)
(***************************************************************************)
SizesFit ==
  \A c \in Capacities, p \in ParamSizes \cup {0}, s \in StrSizes \cup {0} :
    2 * (HdrSize + p + s + WR_MIN_INTERVAL) + WR_MIN_INTERVAL <= c

(* The bytes the call has claimed. *)
Claimed ==
  CASE f_pc = "hdr"   -> 0
    [] f_pc = "const" -> HdrSize
    [] f_pc = "str"   -> HdrSize + param_size
    [] OTHER          -> HdrSize + param_size + extra_len

(* They follow w without a hole, or did not fit before the end and go on   *)
(* at the front.                                                           *)
ClaimLength ==
  f_pc \in FetchPc =>
    \/ f_w = w + Claimed
    \/ f_w < w /\ f_w <= Claimed /\ w + Claimed > capacity
=============================================================================
