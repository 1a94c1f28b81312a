------------------------------ MODULE RingLog ------------------------------
(***************************************************************************)
(* One front-end thread, the backend thread, and the bytes buffer between  *)
(* them: haclog_printf_primitive_serialize against haclog_consume with     *)
(* haclog_printf_primitive_format.                                         *)
(*                                                                         *)
(* Every access of one thread that the other one can observe is a step of  *)
(* its own: the front-end reads w once, reads r only when it has no room,  *)
(* claims and fills the parts of a message one after the other, and        *)
(* publishes it with one store of w; the backend takes one snapshot of w,  *)
(* may store r = 0, reads a message, stores r, and only then calls the     *)
(* handlers.                                                               *)
(*                                                                         *)
(* A byte is abstracted to the log call and the part of its message that   *)
(* wrote it.  The bytes of a serialized header hold the header itself.     *)
(***************************************************************************)
EXTENDS BytesBuffer, Sequences

CONSTANTS
  Capacities,   \* capacities the application asks a buffer of, in some order
  HdrSize,      \* sizeof(haclog_serialize_hdr_t)
  ParamSizes,   \* primitive->param_size of the call sites
  StrSizes,     \* extra_len: the bytes of all string arguments of a call
  MaxCalls,     \* bound on the number of log calls
  MayShrink     \* whether a later buffer of a thread may be smaller

ASSUME SizesAssumption ==
  /\ HdrSize \in Nat \ {0}
  /\ ParamSizes \subseteq Nat
  /\ StrSizes \subseteq Nat

ASSUME CapacitiesAssumption ==
  \A c \in Capacities : c \in Nat /\ haclog_bytes_buffer_new(c)

ASSUME BoundsAssumption == MaxCalls \in Nat /\ MayShrink \in BOOLEAN

VARIABLES
  capacity, w, r, buffer,        \* haclog_bytes_buffer_t
  f_pc, f_r, f_w, w_hdr, w_const_args, w_str, param_size, extra_len,
                                 \* the front-end: where it is in the call, its
                                 \* thread-local r and the locals of the call
  b_pc, b_w, msg,                \* the backend: where it is, the w it loaded,
                                 \* the message it has formatted into buf
  calls,                         \* history: number of log calls so far,
  sent,                          \*   the published messages,
  handled                        \*   and the messages the handlers wrote

bufferVars == << capacity, w, r, buffer >>
callVars   == << w_hdr, w_const_args, w_str, param_size, extra_len >>
frontVars  == << f_pc, f_r, f_w, callVars, calls, sent >>
backVars   == << b_pc, b_w, msg, handled >>
vars       == << bufferVars, frontVars, backVars >>

FetchPc == {"hdr", "const", "str", "gap"}
FrontPc == {"idle", "fill", "publish"} \cup FetchPc
BackPc  == {"idle", "format", "read", "release", "write", "crash"}

Garbled == 0    \* the text of a message whose bytes were not all its own

(* What one byte of an argument holds, and what malloc left. *)
Byte(id, part) == [id |-> id, part |-> part]
Garbage        == Byte(0, "none")

(* haclog_serialize_hdr_t; id stands for the timestamp and the call site. *)
Header == [id : Nat, pos_const : Nat, pos_str : Nat, extra_len : Nat,
           pos_end : Nat, param_size : Nat]

(* A published message, with the value of w it was started at and the      *)
(* place of its header.                                                    *)
Message == [start : Nat, pos : Nat, hdr : Header]

Bytes(a, n) == a .. a + n - 1

(* The memory mem after v has been copied to the n bytes from position a. *)
Stored(mem, a, n, v) == [k \in DOMAIN mem |-> IF k \in Bytes(a, n) THEN v ELSE mem[k]]

(* The n bytes from position a are inside the memory and all hold v. *)
Holds(mem, a, n, v) == \A k \in Bytes(a, n) : k \in DOMAIN mem /\ mem[k] = v

-----------------------------------------------------------------------------
(* A thread starts with the buffer of its first haclog_thread_context_init. *)
Init ==
  /\ capacity \in Capacities
  /\ w = 0 /\ r = 0
  /\ buffer = [k \in 0 .. capacity - 1 |-> Garbage]
  /\ f_pc = "idle" /\ f_r = 0 /\ f_w = 0
  /\ w_hdr = 0 /\ w_const_args = 0 /\ w_str = 0 /\ param_size = 0 /\ extra_len = 0
  /\ b_pc = "idle" /\ b_w = 0 /\ msg = Garbled
  /\ calls = 0 /\ sent = << >> /\ handled = << >>

-----------------------------------------------------------------------------
(* The front-end thread: haclog_printf_primitive_serialize. *)

(* The call starts; the thread-local r keeps the value of the last call. *)
SerializeBegin(p, s) ==
  /\ f_pc = "idle"
  /\ calls < MaxCalls
  /\ calls' = calls + 1
  /\ param_size' = p /\ extra_len' = s
  /\ f_w' = w
  /\ w_hdr' = 0 /\ w_const_args' = 0 /\ w_str' = 0
  /\ f_pc' = "hdr"
  /\ UNCHANGED << bufferVars, f_r, sent, backVars >>

(* The num_bytes of the HACLOG_FETCH_W the call is in. *)
FetchSize ==
  CASE f_pc = "hdr"   -> HdrSize
    [] f_pc = "const" -> param_size
    [] f_pc = "str"   -> extra_len
    [] OTHER          -> WR_MIN_INTERVAL

Fetched == haclog_bytes_buffer_w_fc(capacity, FetchSize, f_r, f_w)

(* Variants of FetchRetry with a mistake: r is not loaded again, or w is   *)
(* loaded in its place.                                                    *)
FetchRetry_NoReload ==
  /\ f_pc \in FetchPc
  /\ Fetched = NeedWait
  /\ UNCHANGED vars

FetchRetry_LoadsW ==
  /\ f_pc \in FetchPc
  /\ Fetched = NeedWait
  /\ f_r' = w
  /\ UNCHANGED << bufferVars, f_pc, f_w, callVars, calls, sent, backVars >>

(* HACLOG_FETCH_W has to wait: it reloads r and tries again. *)
FetchRetry ==
  /\ f_pc \in FetchPc
  /\ Fetched = NeedWait
  /\ f_r' = r
  /\ UNCHANGED << bufferVars, f_pc, f_w, callVars, calls, sent, backVars >>

(* HACLOG_FETCH_W fails: the call returns and its message is dropped. *)
FetchRefuse ==
  /\ f_pc \in FetchPc
  /\ Fetched = Failed
  /\ f_pc' = "idle"
  /\ UNCHANGED << bufferVars, f_r, f_w, callVars, calls, sent, backVars >>

FetchHdr ==
  /\ f_pc = "hdr"
  /\ Fetched >= 0
  /\ w_hdr' = Fetched
  /\ f_w' = Fetched + HdrSize
  /\ f_pc' = "const"
  /\ UNCHANGED << bufferVars, f_r, w_const_args, w_str, param_size, extra_len,
                  calls, sent, backVars >>

(* Claim the constant arguments and serialize them. *)
FetchConst ==
  /\ f_pc = "const"
  /\ Fetched >= 0
  /\ w_const_args' = Fetched
  /\ f_w' = Fetched + param_size
  /\ buffer' = Stored(buffer, Fetched, param_size, Byte(calls, "const"))
  /\ f_pc' = "str"
  /\ UNCHANGED << capacity, w, r, f_r, w_hdr, w_str, param_size, extra_len,
                  calls, sent, backVars >>

(* Claim the string arguments and copy them. *)
FetchStr ==
  /\ f_pc = "str"
  /\ Fetched >= 0
  /\ w_str' = Fetched
  /\ f_w' = Fetched + extra_len
  /\ buffer' = Stored(buffer, Fetched, extra_len, Byte(calls, "str"))
  /\ f_pc' = "gap"
  /\ UNCHANGED << capacity, w, r, f_r, w_hdr, w_const_args, param_size, extra_len,
                  calls, sent, backVars >>

(* Claim the cache-line interval after the message. *)
FetchGap ==
  /\ f_pc = "gap"
  /\ Fetched >= 0
  /\ f_w' = Fetched + WR_MIN_INTERVAL
  /\ f_pc' = "fill"
  /\ UNCHANGED << bufferVars, f_r, callVars, calls, sent, backVars >>

(* The header of the call, complete once its last part is claimed. *)
Hdr == [id |-> calls, pos_const |-> w_const_args, pos_str |-> w_str,
        extra_len |-> extra_len, pos_end |-> f_w, param_size |-> param_size]

FillHdr ==
  /\ f_pc = "fill"
  /\ buffer' = Stored(buffer, w_hdr, HdrSize, Hdr)
  /\ f_pc' = "publish"
  /\ UNCHANGED << capacity, w, r, f_r, f_w, callVars, calls, sent, backVars >>

Published == [start |-> w, pos |-> w_hdr, hdr |-> Hdr]

(* A variant of WMove with a mistake: it refuses the end of the buffer. *)
WMove_RefusesEnd ==
  /\ f_pc = "publish"
  /\ w' = IF f_w < capacity THEN f_w ELSE w
  /\ sent' = IF f_w < capacity THEN Append(sent, Published) ELSE sent
  /\ f_pc' = "idle"
  /\ UNCHANGED << capacity, r, buffer, f_r, f_w, callVars, calls, backVars >>

(* haclog_bytes_buffer_w_move: the message is visible to the backend. *)
WMove ==
  /\ f_pc = "publish"
  /\ w' = MovedTo(capacity, f_w, w)
  /\ sent' = IF f_w \in 0 .. capacity THEN Append(sent, Published) ELSE sent
  /\ f_pc' = "idle"
  /\ UNCHANGED << capacity, r, buffer, f_r, f_w, callVars, calls, backVars >>

-----------------------------------------------------------------------------
(* The backend thread: haclog_consume and haclog_printf_primitive_format. *)

(* haclog_consume loads w once for all the messages it takes. *)
ConsumeBegin ==
  /\ b_pc = "idle"
  /\ b_w' = w
  /\ b_pc' = "format"
  /\ UNCHANGED << bufferVars, frontVars, msg, handled >>

(* Everything before the snapshot is read; the backend turns to the next   *)
(* thread.                                                                 *)
FormatNone ==
  /\ b_pc = "format"
  /\ r = b_w
  /\ b_pc' = "idle"
  /\ UNCHANGED << bufferVars, frontVars, b_w, msg, handled >>

(* A variant of FormatBegin with a mistake: r does not follow a header     *)
(* that was moved to the front.                                            *)
FormatBegin_NoWrap ==
  /\ b_pc = "format"
  /\ r # b_w
  /\ b_pc' = "read"
  /\ UNCHANGED << bufferVars, frontVars, b_w, msg, handled >>

(* A header never lies across the end of the buffer. *)
FormatBegin ==
  /\ b_pc = "format"
  /\ r # b_w
  /\ r' = IF capacity - r < HdrSize THEN 0 ELSE r
  /\ b_pc' = "read"
  /\ UNCHANGED << capacity, w, buffer, frontVars, b_w, msg, handled >>

(* The header the backend finds at r. *)
HdrAt(h) == h \in Header /\ Holds(buffer, r, HdrSize, h)

(* The arguments are read through the positions in the header.  Bytes that *)
(* another message has overwritten give a garbled text, and a header that  *)
(* is not one is a wild pointer to the primitive.                          *)
FormatRead ==
  /\ b_pc = "read"
  /\ LET h == buffer[r] IN
       IF HdrAt(h)
       THEN /\ msg' = IF /\ Holds(buffer, h.pos_const, h.param_size, Byte(h.id, "const"))
                         /\ Holds(buffer, h.pos_str, h.extra_len, Byte(h.id, "str"))
                      THEN h.id ELSE Garbled
            /\ b_pc' = "release"
       ELSE b_pc' = "crash" /\ msg' = msg
  /\ UNCHANGED << bufferVars, frontVars, b_w, handled >>

(* haclog_bytes_buffer_r_move to the end named by the header, which is     *)
(* still in the buffer at r: from here on the writer may reuse the bytes.  *)
RMove ==
  /\ b_pc = "release"
  /\ LET h == buffer[r] IN
       IF HdrAt(h)
       THEN r' = MovedTo(capacity, h.pos_end, r) /\ b_pc' = "write"
       ELSE r' = r /\ b_pc' = "crash"
  /\ UNCHANGED << capacity, w, buffer, frontVars, b_w, msg, handled >>

(* The handlers write the text, and haclog_consume goes on. *)
HandlersWrite ==
  /\ b_pc = "write"
  /\ handled' = Append(handled, msg)
  /\ b_pc' = "format"
  /\ UNCHANGED << bufferVars, frontVars, b_w, msg >>

-----------------------------------------------------------------------------
(* haclog_thread_context_cleanup and a later haclog_thread_context_init of *)
(* the same thread: once everything is read and the backend has let go of  *)
(* the context, the buffer is freed, and the thread gets a fresh one.  The *)
(* thread-local r of haclog_printf_primitive_serialize is not reset.       *)
Recreate(c) ==
  /\ f_pc = "idle"
  /\ r = w
  /\ b_pc = "idle"
  /\ c >= capacity \/ MayShrink
  /\ capacity' = c
  /\ w' = 0 /\ r' = 0
  /\ buffer' = [k \in 0 .. c - 1 |-> Garbage]
  /\ UNCHANGED << frontVars, backVars >>

-----------------------------------------------------------------------------
FrontStep ==
  \/ FetchRetry \/ FetchRefuse
  \/ FetchHdr \/ FetchConst \/ FetchStr \/ FetchGap
  \/ FillHdr \/ WMove

BackStep ==
  \/ ConsumeBegin \/ FormatNone \/ FormatBegin
  \/ FormatRead \/ RMove \/ HandlersWrite

Next ==
  \/ \E p \in ParamSizes, s \in StrSizes : SerializeBegin(p, s)
  \/ FrontStep
  \/ BackStep
  \/ \E c \in Capacities : Recreate(c)

Spec == Init /\ [][Next]_vars

(***************************************************************************)
(* A log call that has started is run by its thread, and the backend       *)
(* thread loops forever; nothing forces the application to log or to       *)
(* create buffers.                                                         *)
(***************************************************************************)
Fairness == WF_vars(FrontStep) /\ WF_vars(BackStep)

FairSpec == Spec /\ Fairness
-----------------------------------------------------------------------------
(* Properties. *)

TypeOK ==
  /\ capacity \in Capacities
  /\ w \in 0 .. capacity - 1 /\ r \in 0 .. capacity - 1
  /\ DOMAIN buffer = 0 .. capacity - 1
  /\ f_pc \in FrontPc /\ f_r \in Nat /\ f_w \in Nat
  /\ w_hdr \in Nat /\ w_const_args \in Nat /\ w_str \in Nat
  /\ param_size \in ParamSizes \cup {0} /\ extra_len \in StrSizes \cup {0}
  /\ b_pc \in BackPc /\ b_w \in Nat /\ msg \in Nat
  /\ calls \in 0 .. MaxCalls
  /\ sent \in Seq(Message)
  /\ handled \in Seq(Nat)

(* Messages released by r_move, and the published ones that are not. *)
released == Len(handled) + (IF b_pc = "write" THEN 1 ELSE 0)
Unread   == released + 1 .. Len(sent)

Intact(m) ==
  /\ Holds(buffer, m.pos, HdrSize, m.hdr)
  /\ Holds(buffer, m.hdr.pos_const, m.hdr.param_size, Byte(m.hdr.id, "const"))
  /\ Holds(buffer, m.hdr.pos_str, m.hdr.extra_len, Byte(m.hdr.id, "str"))

(***************************************************************************)
(* From the store of w that publishes a message to the store of r that     *)
(* releases it, no byte of its header, arguments or strings changes, even  *)
(* though the writer decides with a reader position it may have loaded     *)
(* many calls ago.                                                         *)
(***************************************************************************)
UnreadIntact == \A i \in Unread : Intact(sent[i])

(***************************************************************************)
(* The handlers get every published message once, in the order of the      *)
(* calls, with the text that was logged; the backend never follows a       *)
(* header that is not one.                                                 *)
(***************************************************************************)
DeliveredInOrder ==
  /\ b_pc # "crash"
  /\ Len(handled) <= Len(sent)
  /\ \A i \in 1 .. Len(handled) : handled[i] = sent[i].hdr.id

(***************************************************************************)
(* r = w means that everything is read, never that the ring is full: the   *)
(* backend skips the thread and haclog_bytes_buffer_join returns on that   *)
(* test, even in the middle of a message whose r was set back to 0.        *)
(***************************************************************************)
EmptyMeansRead == r = w => Unread = {}

(***************************************************************************)
(* "find contiguous memory": a part that w_fc has given to the call lies   *)
(* inside the buffer, from its first byte to its last.                     *)
(***************************************************************************)
ClaimsInBounds ==
  /\ f_pc \in {"const", "str", "gap", "fill", "publish"} => w_hdr + HdrSize <= capacity
  /\ f_pc \in {"str", "gap", "fill", "publish"} => w_const_args + param_size <= capacity
  /\ f_pc \in {"gap", "fill", "publish"} => w_str + extra_len <= capacity
  /\ f_pc \in {"fill", "publish"} => f_w <= capacity

(***************************************************************************)
(* "need wait reader move": when w_fc makes the writer wait for a reader   *)
(* that it sees where it is, the reader has something left to read, so it  *)
(* will move.                                                              *)
(***************************************************************************)
WaitIsForReader ==
  f_pc \in FetchPc /\ haclog_bytes_buffer_w_fc(capacity, FetchSize, r, f_w) = NeedWait
    => r # w

(***************************************************************************)
(* A log call ends without its message being published only when one part  *)
(* of the message is beyond the limit of w_fc: no other path loses it.     *)
(***************************************************************************)
OnlyOversizedDropped ==
  [][ (f_pc # "idle" /\ f_pc' = "idle" /\ Len(sent') = Len(sent))
        => \E n \in {HdrSize, param_size, extra_len} :
             n > (capacity \div 2) - WR_MIN_INTERVAL ]_vars

(***************************************************************************)
(* The ring implements LogChannel: a call is open between the read of w    *)
(* and the return of haclog_printf_primitive_serialize, a message is       *)
(* pending from the store of w to the write of the handlers.  With         *)
(* fairness this also says that a log call returns however full the buffer *)
(* is, and that everything published is written.                           *)
(***************************************************************************)
Channel == INSTANCE LogChannel WITH
  open      <- f_pc # "idle",
  pending   <- [i \in 1 .. Len(sent) - Len(handled) |-> sent[Len(handled) + i].hdr.id],
  delivered <- handled

ImplementsChannel == Channel!Spec
=============================================================================
