------------------------------ MODULE Handlers ------------------------------
(***************************************************************************)
(* Which message reaches which handler, and what a handler writes.         *)
(*                                                                         *)
(* A message passes two filters.  The caller compares its level with       *)
(* ctx->level, the least level a handler had when it was added; the        *)
(* backend compares it with the level each handler has by then.  In        *)
(* between the program may call haclog_handler_set_level.  A handler       *)
(* writes a line in four calls (before_write, write_meta, write,           *)
(* after_write) on a stream that the console handler chooses per message.  *)
(*                                                                         *)
(* Handlers are added, and the sizes set, before the backend runs (so do   *)
(* the examples and the tests); levels are set at any time.  Levels are    *)
(* 0..5 for TRACE..FATAL: the code's 1 << HACLOG_LEVEL_OFFSET keeps their  *)
(* order.                                                                  *)
(***************************************************************************)
EXTENDS Integers, Sequences

CONSTANTS HandlerSet,   \* handlers of the program
          Kind,         \* of each: "color", "plain" (console) or "file"
          MaxHandlers,  \* length of ctx->handlers (8)
          Levels,       \* levels in use
          Sizes,        \* arguments of the setters of sizes
          DefaultBytes, \* HACLOG_DEFAULT_BYTES_BUF_SIZE
          MaxCalls,     \* bound: log calls
          MaxSets       \* bound: calls of haclog_handler_set_level

INFO    == 2
WARNING == 3
FATAL   == 5

ASSUME HandlersAssumption ==
  /\ Kind \in [HandlerSet -> {"color", "plain", "file"}]
  /\ MaxHandlers \in Nat /\ Levels \subseteq 0..FATAL /\ Sizes \subseteq Nat
  /\ DefaultBytes \in Nat /\ MaxCalls \in Nat /\ MaxSets \in Nat

VARIABLES ctx,      \* haclog_context_t: handlers, level and the two sizes
          level,    \* handler->level
          fp,       \* handler->fp of a console handler
          bufsize,  \* message buffer of the backend; 0: it does not run
          queue,    \* messages serialized and not yet handled
          hi,       \* the backend's loop over the handlers
          step,     \* the next call of haclog_handler_write
          out,      \* the streams: what was written to them
          unflushed,\* streams with output in their stdio buffer
          calls,    \* history: every log call, those filtered out too, and
                    \* the handlers known at the time
          journal,  \* history: lines completed, as handler and message
          reset,    \* history: handlers whose level was set once added
          sets      \* calls of haclog_handler_set_level

vars == <<ctx, level, fp, bufsize, queue, hi, step, out, unflushed, calls,
          journal, reset, sets>>
output == <<fp, out, unflushed, journal>>

Streams == {"stdout", "stderr"} \cup {h \in HandlerSet : Kind[h] = "file"}

Init ==
  /\ ctx = [handlers |-> <<>>, level |-> FATAL,
            bytes_buf_size |-> DefaultBytes, msg_buf_size |-> 2048]
  /\ level = [h \in HandlerSet |-> INFO]      \* the _init of every handler
  /\ fp = [h \in HandlerSet |-> IF Kind[h] = "file" THEN h ELSE "none"]
  /\ bufsize = 0 /\ queue = <<>> /\ hi = 1 /\ step = "before"
  /\ out = [s \in Streams |-> <<>>] /\ unflushed = {}
  /\ calls = <<>> /\ journal = <<>> /\ reset = {} /\ sets = 0

Added == {ctx.handlers[k] : k \in DOMAIN ctx.handlers}
Running == bufsize > 0

-----------------------------------------------------------------------------
(* The program's calls.                                                    *)

(* Mutant: the level of the context is the one of the handler added last. *)
LevelWith_Last(lvl, h) == level[h]

(* The level of the context when h joins. *)
LevelWith(lvl, h) == IF level[h] < lvl THEN level[h] ELSE lvl

(* haclog_context_add_handler; the array may be full.                      *)
AddHandler(h) ==
  /\ ~Running /\ h \notin Added
  /\ Len(ctx.handlers) < MaxHandlers
  /\ ctx' = [ctx EXCEPT !.handlers = Append(@, h), !.level = LevelWith(@, h)]
  /\ UNCHANGED <<level, output, bufsize, queue, hi, step, calls, reset, sets>>

AddRefused(h) ==
  /\ ~Running /\ h \notin Added
  /\ Len(ctx.handlers) = MaxHandlers
  /\ UNCHANGED vars

SetLevel(h, l) ==
  /\ sets < MaxSets
  /\ level' = [level EXCEPT ![h] = l] /\ sets' = sets + 1
  /\ reset' = IF h \in Added THEN reset \cup {h} ELSE reset
  /\ UNCHANGED <<ctx, output, bufsize, queue, hi, step, calls>>

SetBytesBufSize(n) ==
  /\ ~Running
  /\ ctx' = [ctx EXCEPT !.bytes_buf_size = IF n < DefaultBytes THEN DefaultBytes
                                           ELSE n]
  /\ UNCHANGED <<level, output, bufsize, queue, hi, step, calls, reset, sets>>

SetMsgBufSize(n) ==
  /\ ~Running
  /\ ctx' = [ctx EXCEPT !.msg_buf_size = n]
  /\ UNCHANGED <<level, output, bufsize, queue, hi, step, calls, reset, sets>>

(* The start of s_haclog_backend_func. *)
BackendRun ==
  /\ ~Running
  /\ bufsize' = IF ctx.msg_buf_size < 8 THEN 8 ELSE ctx.msg_buf_size
  /\ UNCHANGED <<ctx, level, output, queue, hi, step, calls, reset, sets>>

(* The filter in HACLOG_LOG_DEFAULT. *)
Passes(l) == ctx.level <= l

(* A log call; a message may be empty.  It may come before the backend.    *)
Log(l, empty) ==
  /\ Len(calls) < MaxCalls
  /\ LET m == [id |-> Len(calls) + 1, level |-> l, empty |-> empty,
               known |-> Added]
     IN  /\ calls' = Append(calls, m)
         /\ queue' = IF Passes(l) THEN Append(queue, m) ELSE queue
  /\ UNCHANGED <<ctx, level, output, bufsize, hi, step, reset, sets>>

-----------------------------------------------------------------------------
(* The backend: haclog_consume hands a message to each handler in turn.    *)

Msg == Head(queue)
Cur == ctx.handlers[hi]
Handling == Running /\ queue /= <<>> /\ hi <= Len(ctx.handlers)

(* haclog_handler_should_write *)
ShouldWrite(h, l) == l >= level[h]

Colored(h, l) == Kind[h] = "color" /\ l >= WARNING

Put(s, what) ==
  /\ out' = [out EXCEPT ![s] = @ \o [k \in DOMAIN what |-> <<what[k], Msg.id, Cur>>]]
  /\ unflushed' = IF s = "stderr" THEN unflushed ELSE unflushed \cup {s}

Skip ==
  /\ Handling /\ step = "before" /\ ~ShouldWrite(Cur, Msg.level)
  /\ hi' = hi + 1
  /\ UNCHANGED <<ctx, level, output, bufsize, queue, step, calls, reset, sets>>

(* Mutant: the stream stays the one of the message before. *)
StreamFor_Sticky(h, l) ==
  IF Kind[h] = "file" THEN h
  ELSE IF Colored(h, l) \/ fp[h] = "stderr" THEN "stderr" ELSE "stdout"

(* The stream before_write chooses. *)
StreamFor(h, l) ==
  IF Kind[h] = "file" THEN h
  ELSE IF Colored(h, l) THEN "stderr" ELSE "stdout"

BeforeWrite ==
  /\ Handling /\ step = "before" /\ ShouldWrite(Cur, Msg.level)
  /\ fp' = [fp EXCEPT ![Cur] = StreamFor(Cur, Msg.level)]
  /\ IF Colored(Cur, Msg.level)
     THEN Put("stderr", <<"color">>)
     ELSE UNCHANGED <<out, unflushed>>
  /\ step' = "meta"
  /\ UNCHANGED <<ctx, level, bufsize, queue, hi, calls, journal, reset, sets>>

WriteMeta ==
  /\ step = "meta"
  /\ Put(fp[Cur], <<"meta">>)
  /\ step' = IF Msg.empty THEN "after" ELSE "write"     \* if (msglen > 0)
  /\ UNCHANGED <<ctx, level, fp, bufsize, queue, hi, calls, journal, reset, sets>>

Write ==
  /\ step = "write"
  /\ Put(fp[Cur], <<"msg">>)
  /\ step' = "after"
  /\ UNCHANGED <<ctx, level, fp, bufsize, queue, hi, calls, journal, reset, sets>>

AfterWrite ==
  /\ step = "after"
  /\ LET tail == IF Colored(Cur, Msg.level) THEN <<"nl", "rst">> ELSE <<"nl">>
     IN  out' = [out EXCEPT ![fp[Cur]] =
                   @ \o [k \in DOMAIN tail |-> <<tail[k], Msg.id, Cur>>]]
  /\ unflushed' = unflushed \ {fp[Cur]}          \* fflush(handler->fp)
  /\ journal' = Append(journal, [h |-> Cur, id |-> Msg.id])
  /\ step' = "before" /\ hi' = hi + 1
  /\ UNCHANGED <<ctx, level, fp, bufsize, queue, calls, reset, sets>>

(* The loop over the handlers is through: the next message. *)
NextMessage ==
  /\ Running /\ queue /= <<>> /\ hi > Len(ctx.handlers)
  /\ queue' = Tail(queue) /\ hi' = 1
  /\ UNCHANGED <<ctx, level, output, bufsize, step, calls, reset, sets>>

(* Nothing to do: the backend sleeps for a while. *)
Idle == Running /\ queue = <<>> /\ UNCHANGED vars

Backend == \/ Skip \/ BeforeWrite \/ WriteMeta \/ Write \/ AfterWrite
           \/ NextMessage \/ Idle

Next ==
  \/ \E h \in HandlerSet : AddHandler(h) \/ AddRefused(h)
  \/ \E h \in HandlerSet, l \in Levels : SetLevel(h, l)
  \/ \E n \in Sizes : SetBytesBufSize(n) \/ SetMsgBufSize(n)
  \/ \E l \in Levels, empty \in BOOLEAN : Log(l, empty)
  \/ BackendRun \/ Backend

Spec == Init /\ [][Next]_vars

-----------------------------------------------------------------------------
(* Properties.                                                             *)

(* The message of call c is still to come for h: it is in the queue, and   *)
(* if it is at the head the loop over the handlers is not past h.          *)
Pending(h, c) ==
  \E k \in DOMAIN queue, j \in DOMAIN ctx.handlers :
    queue[k].id = c /\ ctx.handlers[j] = h /\ (k > 1 \/ hi <= j)

(* A handler whose level is left alone once it is added gets, of the       *)
(* messages logged since, exactly those of its level or above, each once   *)
(* and in the order of the calls: neither the filter of the caller, which  *)
(* knows one level for all handlers, nor a handler before it in the loop,  *)
(* nor a level set for another handler takes one away.                     *)
DeliveredToEach ==
  \A h \in Added \ reset :
    /\ \A j, k \in DOMAIN journal :
         j < k /\ journal[j].h = h /\ journal[k].h = h => journal[j].id < journal[k].id
    /\ \A c \in DOMAIN calls : h \in calls[c].known =>
         ((\E k \in DOMAIN journal : journal[k] = [h |-> h, id |-> c])
            <=> calls[c].level >= level[h] /\ ~Pending(h, c))

(* haclog_context.h says of ctx->level "min level of handler": the caller  *)
(* filters out no message that a handler, with the level it has by now,    *)
(* would write.  haclog_handler_set_level leaves ctx->level as it was, so  *)
(* this fails once a handler is given a lower level than it was added      *)
(* with; no run checks it, and DeliveredToEach leaves such handlers out.   *)
WantedPasses ==
  \A l \in Levels : (\E h \in Added : ShouldWrite(h, l)) => Passes(l)

(* The line a handler writes for a message, as its stream must show it.    *)
Line(e) ==
  LET m == calls[e.id]
      c == Kind[e.h] = "color" /\ m.level >= WARNING
      parts == (IF c THEN <<"color">> ELSE <<>>)
               \o <<"meta">> \o (IF m.empty THEN <<>> ELSE <<"msg">>)
               \o <<"nl">> \o (IF c THEN <<"rst">> ELSE <<>>)
  IN  [stream |-> IF Kind[e.h] = "file" THEN e.h
                  ELSE IF c THEN "stderr" ELSE "stdout",
       text |-> [k \in DOMAIN parts |-> <<parts[k], e.id, e.h>>]]

(* The lines of the journal that belong to stream s, one behind the other. *)
Lines(s) ==
  LET lines[n \in 0..Len(journal)] ==
        IF n = 0 THEN <<>>
        ELSE lines[n - 1] \o (IF Line(journal[n]).stream = s THEN Line(journal[n]).text
                              ELSE <<>>)
  IN  lines[Len(journal)]

(* Between two lines every stream is a sequence of whole lines, those of   *)
(* handlers that share a stream included: no piece is in another stream    *)
(* than its line, every color is switched off again, and nothing waits in  *)
(* a buffer of stdio for a line to come.                                   *)
LinesWhole ==
  step = "before" => unflushed = {} /\ \A s \in Streams : out[s] = Lines(s)
=============================================================================
