--------------------------- MODULE HandlersProofs ---------------------------
(***************************************************************************)
(* Which message reaches which handler and what the streams show, for any  *)
(* number of handlers, levels, log calls and calls of the level setter:    *)
(* the inductive invariants and their proofs.                              *)
(***************************************************************************)
EXTENDS Handlers, SequenceTheorems, WellFoundedInduction, TLAPS

-----------------------------------------------------------------------------
(* Induction over the natural numbers, for a set: the provers cannot       *)
(* instantiate the theorems of the library, whose parameter is an operator.*)

(* A set of natural numbers that is not empty has a least element. *)
LEMMA LeastNat ==
  ASSUME NEW T \in SUBSET Nat, T # {}
  PROVE  \E x \in T : \A y \in T : x <= y
<1>1. PICK x \in T : \A y \in T : <<y, x>> \notin OpToRel(<, Nat)
  BY NatLessThanWellFounded, WFMin
<1>2. \A y \in T : ~(y < x)
  BY <1>1 DEF OpToRel
<1>3. QED
  BY <1>2

(* A set that has 0, and n + 1 with every n, has every natural number. *)
LEMMA NatInSet ==
  ASSUME NEW G, 0 \in G, \A n \in Nat : n \in G => n + 1 \in G
  PROVE  \A n \in Nat : n \in G
<1> SUFFICES ASSUME NEW n \in Nat, n \notin G PROVE FALSE
  OBVIOUS
<1> DEFINE T == {m \in Nat : m \notin G}
<1>1. T \in SUBSET Nat /\ n \in T
  OBVIOUS
<1>2. PICK x \in T : \A y \in T : x <= y
  BY <1>1, LeastNat
<1>3. x \in Nat /\ x # 0 /\ x \notin G
  OBVIOUS
<1>4. x - 1 \in Nat /\ x - 1 \in G
  BY <1>2, <1>3
<1>5. QED
  BY <1>3, <1>4

-----------------------------------------------------------------------------
(* Sequences joined one behind the other.                                  *)

(* g[k] is the first k parts of f, one behind the other. *)
Joins(g, f, n) == g = [k \in 0 .. n |-> IF k = 0 THEN <<>> ELSE g[k - 1] \o f[k]]

LEMMA JoinsFacts ==
  ASSUME NEW n \in Nat, NEW f, NEW g, Joins(g, f, n)
  PROVE  g[0] = <<>> /\ \A k \in 0 .. n - 1 : g[k + 1] = g[k] \o f[k + 1]
<1>1. \A k \in 0 .. n : g[k] = IF k = 0 THEN <<>> ELSE g[k - 1] \o f[k]
  BY Zenon DEF Joins
<1>2. ASSUME NEW k \in 0 .. n - 1 PROVE g[k + 1] = g[k] \o f[k + 1]
  <2>1. k + 1 \in 0 .. n /\ k + 1 # 0 /\ (k + 1) - 1 = k
    OBVIOUS
  <2>2. QED
    BY <1>1, <2>1
<1>3. 0 \in 0 .. n
  OBVIOUS
<1>4. QED
  BY <1>1, <1>2, <1>3

(* Joins of parts that agree up to j agree up to j. *)
Agree(f, e, j) == \A k \in 1 .. j : f[k] = e[k]

LEMMA JoinsAgree ==
  ASSUME NEW n \in Nat, NEW m \in Nat, NEW j \in Nat, j <= n, j <= m,
         NEW f, NEW e, NEW g, NEW h,
         Joins(g, f, n), Joins(h, e, m), Agree(f, e, j)
  PROVE  g[j] = h[j]
<1> DEFINE G == {k \in Nat : k <= j => g[k] = h[k]}
<1>1. g[0] = <<>> /\ \A k \in 0 .. n - 1 : g[k + 1] = g[k] \o f[k + 1]
  BY JoinsFacts, ZenonT(40)
<1>2. h[0] = <<>> /\ \A k \in 0 .. m - 1 : h[k + 1] = h[k] \o e[k + 1]
  BY JoinsFacts, ZenonT(40)
<1>3. 0 \in G
  BY <1>1, <1>2
<1>4. ASSUME NEW k \in Nat, k \in G PROVE k + 1 \in G
  <2>1. ASSUME k + 1 <= j PROVE g[k + 1] = h[k + 1]
    <3>1. k \in 0 .. n - 1 /\ k \in 0 .. m - 1 /\ k + 1 \in 1 .. j /\ k <= j
      BY <2>1
    <3>2. g[k] = h[k] /\ f[k + 1] = e[k + 1]
      BY <1>4, <3>1 DEF Agree
    <3>3. QED
      BY <1>1, <1>2, <3>1, <3>2
  <2>2. QED
    BY <2>1
<1>5. \A k \in Nat : k \in G
  <2> HIDE DEF G
  <2>1. QED
    BY <1>3, <1>4, NatInSet
<1>6. QED
  BY <1>5

LEMMA JoinsUnique ==
  ASSUME NEW n \in Nat, NEW m \in Nat, n <= m, NEW f, NEW e, NEW g, NEW h,
         Joins(g, f, n), Joins(h, e, m), \A k \in 1 .. n : f[k] = e[k]
  PROVE  g[n] = h[n]
<1>1. n <= n /\ Agree(f, e, n)
  BY DEF Agree
<1>2. QED
  BY <1>1, JoinsAgree

LEMMA JoinsExist ==
  ASSUME NEW S, NEW n \in Nat, NEW f, \A k \in 1 .. n : f[k] \in Seq(S)
  PROVE  \E g : Joins(g, f, n) /\ g[n] \in Seq(S)
<1> DEFINE G == {m \in Nat : m <= n => \E g : Joins(g, f, m) /\ g[m] \in Seq(S)}
<1>1. 0 \in G
  <2>1. PICK g : g = [k \in 0 .. 0 |-> <<>>]
    OBVIOUS
  <2>2. g[0] = <<>> /\ \A k \in 0 .. 0 : k = 0
    BY <2>1
  <2>3. Joins(g, f, 0)
    BY <2>1, <2>2 DEF Joins
  <2>4. g[0] \in Seq(S)
    BY <2>2, EmptySeq
  <2>5. QED
    BY <2>3, <2>4
<1>2. ASSUME NEW m \in Nat, m \in G PROVE m + 1 \in G
  <2>1. ASSUME m + 1 <= n PROVE \E g : Joins(g, f, m + 1) /\ g[m + 1] \in Seq(S)
    <3>1. PICK g : Joins(g, f, m) /\ g[m] \in Seq(S)
      BY <1>2, <2>1
    <3>2. PICK h : h = [k \in 0 .. m + 1 |-> IF k = m + 1 THEN g[m] \o f[m + 1] ELSE g[k]]
      OBVIOUS
    <3>3. /\ h[m + 1] = g[m] \o f[m + 1]
          /\ \A k \in 0 .. m : h[k] = g[k]
      BY <3>2
    <3>4. ASSUME NEW k \in 0 .. m + 1
          PROVE  h[k] = IF k = 0 THEN <<>> ELSE h[k - 1] \o f[k]
      <4>1. g[0] = <<>> /\ \A j \in 0 .. m - 1 : g[j + 1] = g[j] \o f[j + 1]
        BY <3>1, JoinsFacts
      <4>2. CASE k = 0
        BY <3>3, <4>1, <4>2
      <4>3. CASE k = m + 1
        <5>1. k - 1 = m /\ m \in 0 .. m /\ k # 0
          BY <4>3
        <5>2. QED
          BY <3>3, <4>3, <5>1
      <4>4. CASE k # 0 /\ k # m + 1
        <5>1. k \in 0 .. m /\ k - 1 \in 0 .. m - 1 /\ k - 1 \in 0 .. m /\ (k - 1) + 1 = k
          BY <4>4
        <5>2. QED
          BY <3>3, <4>1, <4>4, <5>1
      <4>5. QED
        BY <4>2, <4>3, <4>4
    <3>5. Joins(h, f, m + 1)
      BY <3>2, <3>4, Zenon DEF Joins
    <3>6. h[m + 1] \in Seq(S)
      <4>1. f[m + 1] \in Seq(S)
        BY <2>1
      <4>2. QED
        BY <3>1, <3>3, <4>1, ConcatProperties
    <3>7. QED
      BY <3>5, <3>6
  <2>2. QED
    BY <2>1
<1>3. \A m \in Nat : m \in G
  <2> HIDE DEF G
  <2>1. QED
    BY <1>1, <1>2, NatInSet
<1>4. QED
  BY <1>3


-----------------------------------------------------------------------------
Message == [id : Nat, level : 0 .. FATAL, empty : BOOLEAN, known : SUBSET HandlerSet]
Entry   == [h : HandlerSet, id : Nat]
Part    == {"color", "meta", "msg", "nl", "rst"}
Piece   == Part \X Nat \X HandlerSet
Steps   == {"before", "meta", "write", "after"}

Context == [handlers : Seq(HandlerSet), level : 0 .. FATAL,
            bytes_buf_size : Nat, msg_buf_size : Nat]

Types ==
  /\ ctx \in Context
  /\ level \in [HandlerSet -> 0 .. FATAL]
  /\ bufsize \in Nat /\ hi \in Nat \ {0} /\ step \in Steps
  /\ queue \in Seq(Message) /\ calls \in Seq(Message) /\ journal \in Seq(Entry)

(* A handler is added once, and before the backend handles a message. *)
Setup ==
  /\ \A j, k \in DOMAIN ctx.handlers : ctx.handlers[j] = ctx.handlers[k] => j = k
  /\ ~Running => hi = 1 /\ step = "before" /\ journal = <<>>
  /\ \A c \in DOMAIN calls : calls[c].id = c /\ calls[c].known \subseteq Added

(* The queue has messages of the log calls, in the order of the calls. *)
Queued ==
  /\ \A k \in DOMAIN queue :
       queue[k].id \in DOMAIN calls /\ queue[k] = calls[queue[k].id]
  /\ \A j, k \in DOMAIN queue : j < k => queue[j].id < queue[k].id

(* The loop over the handlers; the message at the head is written to those *)
(* before hi only, and a line is begun only for a message of its level.    *)
Loop ==
  /\ hi <= Len(ctx.handlers) + 1
  /\ queue = <<>> => hi = 1
  /\ step # "before" =>
       /\ Handling
       /\ Cur \notin reset => Msg.level >= level[Cur]
  /\ \A h \in Added \ reset : ctx.level <= level[h]

(* What is in the journal came before what is in the queue. *)
Past ==
  /\ \A k \in DOMAIN journal :
       /\ journal[k].id \in DOMAIN calls
       /\ queue # <<>> => journal[k].id <= Msg.id
       /\ queue # <<>> /\ journal[k].id = Msg.id =>
            \E j \in 1 .. hi - 1 : ctx.handlers[j] = journal[k].h
  /\ \A j, k \in DOMAIN journal :
       j < k /\ journal[j].h = journal[k].h => journal[j].id < journal[k].id

Written(h, c) == \E k \in DOMAIN journal : journal[k] = [h |-> h, id |-> c]

Delivery ==
  \A h \in Added \ reset : \A c \in DOMAIN calls : h \in calls[c].known =>
    (Written(h, c) <=> calls[c].level >= level[h] /\ ~Pending(h, c))

DeliveryInv == Types /\ Setup /\ Queued /\ Loop /\ Past /\ Delivery

(* The parts of the line that is begun, and as they are on the stream.     *)
Tag(parts, id, h) == [k \in DOMAIN parts |-> <<parts[k], id, h>>]
ColorOn == IF Colored(Cur, Msg.level) THEN <<"color">> ELSE <<>>
Text    == IF Msg.empty THEN <<>> ELSE <<"msg">>
Said == CASE step = "before" -> <<>>
          [] step = "meta"   -> ColorOn
          [] step = "write"  -> ColorOn \o <<"meta">>
          [] step = "after"  -> ColorOn \o <<"meta">> \o Text
Begun == Tag(Said, Msg.id, Cur)

(* Every stream has its whole lines and, while a handler writes, what is   *)
(* begun on the stream that it chose; only that one may be unflushed.      *)
Streamed ==
  /\ fp \in [HandlerSet -> Streams \cup {"none"}] /\ out \in [Streams -> Seq(Piece)]
  /\ step # "before" => fp[Cur] = StreamFor(Cur, Msg.level) /\ unflushed \subseteq {fp[Cur]}
  /\ step = "before" => unflushed = {}
  /\ step = "write" => ~Msg.empty
  /\ \A s \in Streams :
       out[s] = Lines(s) \o (IF step # "before" /\ fp[Cur] = s THEN Begun ELSE <<>>)

-----------------------------------------------------------------------------
(* What the steps do to sequences. *)

LEMMA HandlerFacts ==
  ASSUME Types
  PROVE  /\ ctx.handlers \in Seq(HandlerSet) /\ Len(ctx.handlers) \in Nat
         /\ DOMAIN ctx.handlers = 1 .. Len(ctx.handlers)
         /\ \A j \in 1 .. Len(ctx.handlers) : ctx.handlers[j] \in HandlerSet
         /\ \A h : h \in Added <=> \E j \in 1 .. Len(ctx.handlers) : ctx.handlers[j] = h
         /\ Added \subseteq HandlerSet
BY LenProperties, ElementOfSeq DEF Types, Context, Added

LEMMA SeqFacts ==
  ASSUME Types
  PROVE  /\ Len(queue) \in Nat /\ DOMAIN queue = 1 .. Len(queue)
         /\ Len(calls) \in Nat /\ DOMAIN calls = 1 .. Len(calls)
         /\ Len(journal) \in Nat /\ DOMAIN journal = 1 .. Len(journal)
         /\ \A k \in DOMAIN queue : queue[k] \in Message /\ queue[k].id \in Nat
         /\ \A k \in DOMAIN calls : calls[k] \in Message /\ calls[k].level \in Nat
         /\ \A k \in DOMAIN journal : journal[k] \in Entry /\ journal[k].id \in Nat
         /\ queue = <<>> <=> Len(queue) = 0
         /\ queue # <<>> => Msg = queue[1] /\ Msg \in Message /\ 1 \in DOMAIN queue
<1>1. queue \in Seq(Message) /\ calls \in Seq(Message) /\ journal \in Seq(Entry)
  BY DEF Types
<1>2. /\ Len(queue) \in Nat /\ DOMAIN queue = 1 .. Len(queue)
      /\ Len(calls) \in Nat /\ DOMAIN calls = 1 .. Len(calls)
      /\ Len(journal) \in Nat /\ DOMAIN journal = 1 .. Len(journal)
  BY <1>1, LenProperties
<1>3. /\ \A k \in DOMAIN queue : queue[k] \in Message
      /\ \A k \in DOMAIN calls : calls[k] \in Message
      /\ \A k \in DOMAIN journal : journal[k] \in Entry
  BY <1>1, <1>2, ElementOfSeq
<1>4. \A m \in Message : m.id \in Nat /\ m.level \in Nat
  BY DEF Message, FATAL
<1>5. \A e \in Entry : e.id \in Nat
  BY DEF Entry
<1>6. queue = <<>> <=> Len(queue) = 0
  BY <1>1, EmptySeq
<1>7. queue # <<>> => Msg = queue[1] /\ 1 \in DOMAIN queue
  BY <1>1, <1>2, <1>6 DEF Msg
<1>8. QED
  BY <1>2, <1>3, <1>4, <1>5, <1>6, <1>7

LEMMA CurFacts ==
  ASSUME Types, Handling
  PROVE  /\ queue # <<>> /\ hi \in 1 .. Len(ctx.handlers)
         /\ Cur \in HandlerSet /\ Cur \in Added /\ Cur = ctx.handlers[hi]
         /\ Msg \in Message /\ Msg.id \in Nat /\ Msg.level \in 0 .. FATAL /\ Msg = queue[1]
<1>1. hi \in 1 .. Len(ctx.handlers) /\ queue # <<>>
  BY HandlerFacts DEF Types, Handling
<1>2. Msg \in Message /\ Msg = queue[1]
  BY <1>1, SeqFacts
<1>3. Msg.id \in Nat /\ Msg.level \in 0 .. FATAL
  BY <1>2 DEF Message
<1>4. QED
  BY <1>1, <1>2, <1>3, HandlerFacts DEF Cur

LEMMA PendingFacts ==
  ASSUME Types, NEW h, NEW c
  PROVE  Pending(h, c) <=>
           \E k \in 1 .. Len(queue), j \in 1 .. Len(ctx.handlers) :
             queue[k].id = c /\ ctx.handlers[j] = h /\ (k > 1 \/ hi <= j)
BY SeqFacts, HandlerFacts DEF Pending

-----------------------------------------------------------------------------
(* Which message reaches which handler.                                    *)

LEMMA DeliveryInit ==
  ASSUME Init PROVE DeliveryInv
<1>1. /\ ctx.handlers = <<>> /\ queue = <<>> /\ calls = <<>> /\ journal = <<>>
      /\ hi = 1 /\ step = "before" /\ bufsize = 0
      /\ DOMAIN ctx.handlers = {} /\ DOMAIN queue = {} /\ DOMAIN calls = {} /\ DOMAIN journal = {}
  BY DEF Init
<1>2. Types
  BY <1>1, HandlersAssumption, EmptySeq
     DEF Init, Types, Context, Steps, INFO, FATAL
<1>3. Added = {} /\ Len(ctx.handlers) = 0
  BY <1>1 DEF Added
<1>4. QED
  BY <1>1, <1>2, <1>3 DEF DeliveryInv, Setup, Queued, Loop, Past, Delivery, Running

(* A step that leaves the handlers and their levels, the messages and the  *)
(* journal alone: the setters of sizes, the start of the backend and the   *)
(* calls that write a part of a line.                                      *)
Quiet ==
  /\ ctx'.handlers = ctx.handlers /\ ctx'.level = ctx.level
  /\ UNCHANGED <<level, queue, hi, calls, journal, reset>>

LEMMA QuietStep ==
  ASSUME DeliveryInv, Quiet, Types', Running => Running',
         step' # step => Running,
         step' # "before" => Handling /\ (Cur \notin reset => Msg.level >= level[Cur])
  PROVE  DeliveryInv'
<1>1. Added' = Added /\ Msg' = Msg /\ Cur' = Cur
  BY DEF Quiet, Added, Msg, Cur
<1>2. Setup'
  BY <1>1 DEF DeliveryInv, Setup, Quiet
<1>3. Queued'
  BY DEF DeliveryInv, Queued, Quiet
<1>4. Loop'
  BY <1>1 DEF DeliveryInv, Loop, Quiet, Handling
<1>5. Past'
  BY <1>1 DEF DeliveryInv, Past, Quiet
<1>6. \A h, c : (Pending(h, c)' <=> Pending(h, c)) /\ (Written(h, c)' <=> Written(h, c))
  BY DEF Quiet, Pending, Written
<1>7. Delivery'
  BY <1>1, <1>6 DEF DeliveryInv, Delivery, Quiet
<1>8. QED
  BY <1>2, <1>3, <1>4, <1>5, <1>7 DEF DeliveryInv

LEMMA AddHandlerStep ==
  ASSUME DeliveryInv, NEW h \in HandlerSet, AddHandler(h)
  PROVE  DeliveryInv'
<1>0. Types /\ Setup /\ Queued /\ Loop /\ Past /\ Delivery
  BY DEF DeliveryInv
<1> DEFINE n == Len(ctx.handlers)
<1>1. /\ ~Running /\ h \notin Added
      /\ ctx'.handlers = Append(ctx.handlers, h) /\ ctx'.level = LevelWith(ctx.level, h)
      /\ ctx' = [ctx EXCEPT !.handlers = Append(@, h), !.level = LevelWith(@, h)]
      /\ UNCHANGED <<level, bufsize, queue, hi, step, calls, journal, reset>>
      /\ hi = 1 /\ step = "before" /\ journal = <<>>
  BY <1>0 DEF AddHandler, Types, Context, Setup, output
<1>2. /\ n \in Nat /\ Len(ctx'.handlers) = n + 1 /\ ctx'.handlers \in Seq(HandlerSet)
      /\ DOMAIN ctx'.handlers = 1 .. n + 1
      /\ \A j \in 1 .. n : ctx'.handlers[j] = ctx.handlers[j]
      /\ ctx'.handlers[n + 1] = h
  BY <1>0, <1>1, HandlerFacts, AppendProperties, LenProperties
<1>3. ctx.level \in 0 .. FATAL /\ level[h] \in 0 .. FATAL
  BY <1>0 DEF Types, Context
<1>4. LevelWith(ctx.level, h) \in 0 .. FATAL
      /\ LevelWith(ctx.level, h) <= ctx.level /\ LevelWith(ctx.level, h) <= level[h]
  BY <1>3 DEF LevelWith, FATAL
<1>5. Types'
  BY <1>0, <1>1, <1>2, <1>4 DEF Types, Context
<1>6. Added' = Added \cup {h}
  <2>1. ASSUME NEW x PROVE x \in Added' <=> x \in Added \cup {h}
    <3>1. x \in Added' <=> \E j \in 1 .. n + 1 : ctx'.handlers[j] = x
      BY <1>2 DEF Added
    <3>2. x \in Added <=> \E j \in 1 .. n : ctx.handlers[j] = x
      BY <1>0, HandlerFacts
    <3>3. QED
      BY <1>2, <3>1, <3>2
  <2>2. QED
    BY <2>1
<1>7. Setup'
  <2>1. \A j \in 1 .. n : ctx.handlers[j] # h
    BY <1>0, <1>1, HandlerFacts
  <2>2. ASSUME NEW j \in 1 .. n + 1, NEW k \in 1 .. n + 1, ctx'.handlers[j] = ctx'.handlers[k]
        PROVE  j = k
    <3>1. j \in 1 .. n \/ j = n + 1
      BY <1>2
    <3>2. k \in 1 .. n \/ k = n + 1
      BY <1>2
    <3>3. CASE j \in 1 .. n /\ k \in 1 .. n
      <4>1. ctx.handlers[j] = ctx.handlers[k]
        BY <1>2, <2>2, <3>3
      <4>2. QED
        BY <1>0, <3>3, <4>1, HandlerFacts DEF Setup
    <3>4. QED
      BY <1>2, <2>1, <2>2, <3>1, <3>2, <3>3
  <2>3. \A c \in DOMAIN calls' : calls'[c].id = c /\ calls'[c].known \subseteq Added'
    BY <1>0, <1>1, <1>6 DEF Setup
  <2>4. \A j, k \in DOMAIN ctx'.handlers : ctx'.handlers[j] = ctx'.handlers[k] => j = k
    BY <1>2, <2>2
  <2>5. QED
    BY <1>1, <2>3, <2>4 DEF Setup
<1>8. Queued'
  BY <1>0, <1>1 DEF Queued
<1>9. Loop'
  <2>1. \A x \in Added' \ reset' : ctx'.level <= level'[x]
    <3>1. ASSUME NEW x \in Added, x \notin reset PROVE ctx'.level <= level'[x]
      <4>1. ctx.level <= level[x] /\ level[x] \in 0 .. FATAL
        BY <1>0, <3>1, HandlerFacts DEF Loop, Types
      <4>2. QED
        BY <1>1, <1>3, <1>4, <4>1 DEF FATAL
    <3>2. QED
      BY <1>1, <1>4, <1>6, <3>1
  <2>2. QED
    BY <1>0, <1>1, <1>2, <2>1 DEF Loop
<1>10. Past'
  BY <1>1 DEF Past
<1>11. Delivery'
  <2> SUFFICES ASSUME NEW x \in Added' \ reset', NEW c \in DOMAIN calls', x \in calls'[c].known
               PROVE  Written(x, c)' <=> calls'[c].level >= level'[x] /\ ~Pending(x, c)'
    BY DEF Delivery
  <2>1. x \in Added /\ x \notin reset /\ x # h
    BY <1>0, <1>1 DEF Setup
  <2>2. Pending(x, c)' <=> Pending(x, c)
    <3>1. Pending(x, c)' <=> \E k \in DOMAIN queue, j \in 1 .. n + 1 :
            queue[k].id = c /\ ctx'.handlers[j] = x /\ (k > 1 \/ hi <= j)
      BY <1>1, <1>2 DEF Pending
    <3>2. Pending(x, c) <=> \E k \in DOMAIN queue, j \in 1 .. n :
            queue[k].id = c /\ ctx.handlers[j] = x /\ (k > 1 \/ hi <= j)
      BY <1>0, HandlerFacts DEF Pending
    <3>3. QED
      BY <1>2, <2>1, <3>1, <3>2
  <2>3. Written(x, c)' <=> Written(x, c)
    BY <1>1 DEF Written
  <2>4. QED
    BY <1>0, <1>1, <2>1, <2>2, <2>3 DEF Delivery
<1>12. QED
  BY <1>5, <1>7, <1>8, <1>9, <1>10, <1>11 DEF DeliveryInv

LEMMA SetLevelStep ==
  ASSUME DeliveryInv, NEW h \in HandlerSet, NEW l \in Levels, SetLevel(h, l)
  PROVE  DeliveryInv'
<1>0. Types /\ Setup /\ Queued /\ Loop /\ Past /\ Delivery
  BY DEF DeliveryInv
<1>1. /\ level' = [level EXCEPT ![h] = l]
      /\ reset' = IF h \in Added THEN reset \cup {h} ELSE reset
      /\ UNCHANGED <<ctx, bufsize, queue, hi, step, calls, journal>>
  BY DEF SetLevel, output
<1>2. /\ Added' = Added /\ Msg' = Msg /\ Cur' = Cur
      /\ \A x \in Added \ reset' : x \in Added \ reset /\ level'[x] = level[x]
  BY <1>0, <1>1, HandlerFacts DEF Types, Added, Msg, Cur
<1>3. Types'
  BY <1>0, <1>1, HandlersAssumption DEF Types
<1>4. Setup' /\ Queued'
  BY <1>0, <1>1, <1>2 DEF Setup, Queued, Running
<1>5. Loop'
  <2>1. step # "before" => Cur \in Added
    BY <1>0, CurFacts DEF Loop
  <2>2. step' # "before" => Handling' /\ (Cur' \notin reset' => Msg'.level >= level'[Cur'])
    BY <1>0, <1>1, <1>2, <2>1 DEF Loop, Handling, Running
  <2>3. QED
    BY <1>0, <1>1, <1>2, <2>2 DEF Loop
<1>6. Past'
  BY <1>0, <1>1, <1>2 DEF Past
<1>7. \A x, c : (Pending(x, c)' <=> Pending(x, c)) /\ (Written(x, c)' <=> Written(x, c))
  BY <1>1 DEF Pending, Written
<1>8. Delivery'
  BY <1>0, <1>1, <1>2, <1>7 DEF Delivery
<1>9. QED
  BY <1>3, <1>4, <1>5, <1>6, <1>8 DEF DeliveryInv

LEMMA LogStep ==
  ASSUME DeliveryInv, NEW l \in Levels, NEW empty \in BOOLEAN, Log(l, empty)
  PROVE  DeliveryInv'
<1>0. Types /\ Setup /\ Queued /\ Loop /\ Past /\ Delivery
  BY DEF DeliveryInv
<1> DEFINE n == Len(calls)
           m == [id |-> n + 1, level |-> l, empty |-> empty, known |-> Added]
<1>1. /\ calls' = Append(calls, m) /\ queue' = IF Passes(l) THEN Append(queue, m) ELSE queue
      /\ UNCHANGED <<ctx, level, bufsize, hi, step, journal, reset>>
  BY DEF Log, output
<1>2. m \in Message /\ m.id = n + 1 /\ m.level = l /\ m.known = Added /\ n \in Nat /\ l \in 0 .. FATAL
  BY <1>0, HandlerFacts, SeqFacts, HandlersAssumption DEF Message
<1> HIDE DEF m
<1>3. /\ calls' \in Seq(Message) /\ DOMAIN calls' = 1 .. n + 1
      /\ \A c \in 1 .. n : calls'[c] = calls[c]
      /\ calls'[n + 1] = m
  BY <1>0, <1>1, <1>2, AppendProperties, LenProperties DEF Types
<1>4. /\ queue' \in Seq(Message)
      /\ \A k \in DOMAIN queue : k \in DOMAIN queue' /\ queue'[k] = queue[k]
      /\ ~Passes(l) => queue' = queue
      /\ Passes(l) => /\ DOMAIN queue' = 1 .. Len(queue) + 1
                      /\ queue'[Len(queue) + 1] = m
  BY <1>0, <1>1, <1>2, SeqFacts, AppendProperties, LenProperties DEF Types
<1>5. Types'
  BY <1>0, <1>1, <1>3, <1>4 DEF Types
<1>6. Added' = Added /\ Cur' = Cur /\ (Running' <=> Running)
  BY <1>1 DEF Added, Cur, Running
<1>7. queue # <<>> => queue' # <<>> /\ Msg' = Msg
  <2>1. queue # <<>> => 1 \in DOMAIN queue /\ Msg = queue[1]
    BY <1>0, SeqFacts
  <2>2. queue' # <<>> => Msg' = queue'[1]
    BY <1>5, <1>4 DEF Msg
  <2>3. queue # <<>> => queue' # <<>>
    BY <1>4, <2>1
  <2>4. QED
    BY <1>4, <2>1, <2>2, <2>3
<1>8. Setup'
  <2>1. ASSUME NEW c \in 1 .. n + 1 PROVE calls'[c].id = c /\ calls'[c].known \subseteq Added
    <3>1. CASE c \in 1 .. n
      BY <1>0, <1>3, <3>1, SeqFacts DEF Setup
    <3>2. CASE c = n + 1
      BY <1>2, <1>3, <3>2
    <3>3. QED
      BY <1>2, <3>1, <3>2
  <2>2. QED
    BY <1>0, <1>1, <1>3, <1>6, <2>1 DEF Setup
<1>9. \A k \in DOMAIN queue' : k \in DOMAIN queue \/ (Passes(l) /\ k = Len(queue) + 1)
  BY <1>0, <1>4, SeqFacts
<1>10. \A k \in DOMAIN queue : queue[k].id \in 1 .. n /\ queue[k] = calls[queue[k].id]
  BY <1>0, SeqFacts DEF Queued
<1>11. Queued'
  <2>1. ASSUME NEW k \in DOMAIN queue'
        PROVE  queue'[k].id \in DOMAIN calls' /\ queue'[k] = calls'[queue'[k].id]
    <3>1. CASE k \in DOMAIN queue
      BY <1>2, <1>3, <1>4, <1>10, <3>1
    <3>2. CASE Passes(l) /\ k = Len(queue) + 1
      BY <1>2, <1>3, <1>4, <3>2
    <3>3. QED
      BY <1>9, <3>1, <3>2
  <2>2. ASSUME NEW j \in DOMAIN queue', NEW k \in DOMAIN queue', j < k
        PROVE  queue'[j].id < queue'[k].id
    <3>1. CASE j \in DOMAIN queue /\ k \in DOMAIN queue
      BY <1>0, <1>4, <2>2, <3>1 DEF Queued
    <3>2. CASE j \in DOMAIN queue /\ Passes(l) /\ k = Len(queue) + 1
      BY <1>2, <1>4, <1>10, <3>2
    <3>3. CASE Passes(l) /\ j = Len(queue) + 1
      <4>1. k \in Nat /\ k <= Len(queue) + 1 /\ Len(queue) \in Nat
        BY <1>0, <1>4, <3>3, SeqFacts
      <4>2. QED
        BY <2>2, <3>3, <4>1
    <3>4. QED
      BY <1>9, <3>1, <3>2, <3>3
  <2>3. QED
    BY <2>1, <2>2 DEF Queued
<1>12. Loop'
  <2>1. queue' = <<>> => hi' = 1
    <3>1. queue' = <<>> => queue = <<>>
      BY <1>7
    <3>2. QED
      BY <1>0, <1>1, <3>1 DEF Loop
  <2>2. step' # "before" => Handling' /\ (Cur' \notin reset' => Msg'.level >= level'[Cur'])
    BY <1>0, <1>1, <1>6, <1>7 DEF Loop, Handling
  <2>3. QED
    BY <1>0, <1>1, <1>6, <2>1, <2>2 DEF Loop
<1>13. Past'
  <2>1. ASSUME NEW k \in DOMAIN journal
        PROVE  /\ journal[k].id \in DOMAIN calls'
               /\ queue' # <<>> => journal[k].id <= Msg'.id
               /\ queue' # <<>> /\ journal[k].id = Msg'.id =>
                    \E j \in 1 .. hi - 1 : ctx.handlers[j] = journal[k].h
    <3>1. journal[k].id \in 1 .. n
      BY <1>0, SeqFacts DEF Past
    <3>2. CASE queue # <<>>
      BY <1>0, <1>2, <1>3, <1>7, <3>1, <3>2 DEF Past
    <3>3. CASE queue = <<>> /\ queue' # <<>>
      <4>1. Passes(l) /\ Len(queue) = 0
        BY <1>0, <1>4, <3>3, SeqFacts
      <4>2. Msg' = m
        BY <1>4, <1>1, <3>3, <4>1 DEF Msg
      <4>3. QED
        BY <1>2, <1>3, <3>1, <4>2
    <3>4. QED
      BY <1>2, <1>3, <3>1, <3>2, <3>3
  <2>2. QED
    BY <1>0, <1>1, <2>1 DEF Past
<1>14. Delivery'
  <2> SUFFICES ASSUME NEW x \in Added' \ reset', NEW c \in DOMAIN calls', x \in calls'[c].known
               PROVE  Written(x, c)' <=> calls'[c].level >= level'[x] /\ ~Pending(x, c)'
    BY DEF Delivery
  <2>1. x \in Added \ reset /\ level' = level /\ (Written(x, c)' <=> Written(x, c))
    BY <1>1, <1>6 DEF Written
  <2>2. CASE c \in 1 .. n
    <3>1. c # n + 1
      BY <1>2, <2>2
    <3>2. Pending(x, c)' <=> Pending(x, c)
      BY <1>1, <1>2, <1>4, <1>9, <3>1 DEF Pending
    <3>3. QED
      BY <1>0, <1>3, <2>1, <2>2, <3>2, SeqFacts DEF Delivery
  <2>3. CASE c = n + 1
    <3>1. ~Written(x, c)
      <4>1. ASSUME NEW k \in DOMAIN journal, journal[k] = [h |-> x, id |-> c] PROVE FALSE
        <5>1. journal[k].id = n + 1 /\ journal[k].id \in 1 .. n
          BY <1>0, <2>3, <4>1, SeqFacts DEF Past
        <5>2. QED
          BY <1>2, <5>1
      <4>2. QED
        BY <4>1 DEF Written
    <3>2. CASE Passes(l)
      <4>1. PICK j \in 1 .. Len(ctx.handlers) : ctx.handlers[j] = x
        BY <1>0, <2>1, HandlerFacts
      <4>2. Len(queue) + 1 > 1 \/ hi <= j
        BY <1>0, SeqFacts DEF Loop
      <4>3. Pending(x, c)'
        <5>1. Len(queue) + 1 \in DOMAIN queue' /\ queue'[Len(queue) + 1].id = c
          BY <1>0, <1>2, <1>4, <2>3, <3>2, SeqFacts
        <5>2. j \in DOMAIN ctx'.handlers /\ ctx'.handlers[j] = x /\ hi' = hi
          BY <1>0, <1>1, <4>1, HandlerFacts
        <5>3. QED
          BY <4>2, <5>1, <5>2 DEF Pending
      <4>4. QED
        BY <2>1, <3>1, <4>3
    <3>3. CASE ~Passes(l)
      <4>1. ctx.level <= level[x] /\ ctx.level \in 0 .. FATAL /\ level[x] \in 0 .. FATAL
        BY <1>0, <2>1, HandlerFacts DEF Loop, Types, Context
      <4>2. ~(l >= level[x])
        BY <1>2, <3>3, <4>1 DEF Passes, FATAL
      <4>3. QED
        BY <1>2, <1>3, <2>1, <2>3, <3>1, <4>2
    <3>4. QED
      BY <3>2, <3>3
  <2>4. QED
    BY <1>2, <1>3, <2>2, <2>3
<1>15. QED
  BY <1>5, <1>8, <1>11, <1>12, <1>13, <1>14 DEF DeliveryInv

(* The loop goes on to the next handler: the message at the head is no     *)
(* longer to come for the one it leaves, and nothing else changes.         *)
LEMMA PendingPast ==
  ASSUME Types, Setup, Queued, Handling, NEW x, NEW c,
         ctx' = ctx, queue' = queue, hi' = hi + 1
  PROVE  /\ ~(x = Cur /\ c = Msg.id) => (Pending(x, c)' <=> Pending(x, c))
         /\ x = Cur /\ c = Msg.id => ~Pending(x, c)'
<1>1. /\ Msg = queue[1] /\ Cur = ctx.handlers[hi] /\ hi \in 1 .. Len(ctx.handlers)
      /\ Len(ctx.handlers) \in Nat /\ DOMAIN ctx.handlers = 1 .. Len(ctx.handlers)
      /\ 1 \in DOMAIN queue
  BY CurFacts, HandlerFacts, SeqFacts
<1>2. \A y, d : Pending(y, d)' <=>
        \E k \in DOMAIN queue, j \in DOMAIN ctx.handlers :
          queue[k].id = d /\ ctx.handlers[j] = y /\ (k > 1 \/ hi + 1 <= j)
  BY DEF Pending
<1>3. ASSUME x = Cur, c = Msg.id PROVE ~Pending(x, c)'
  <2>1. ASSUME NEW k \in DOMAIN queue, queue[k].id = Msg.id PROVE k = 1
    <3>1. k \in Nat /\ k >= 1 /\ queue[k].id \in Nat
      BY SeqFacts
    <3>2. 1 < k => Msg.id < queue[k].id
      BY <1>1 DEF Queued
    <3>3. QED
      BY <2>1, <3>1, <3>2
  <2>2. ASSUME NEW j \in DOMAIN ctx.handlers, ctx.handlers[j] = Cur PROVE j = hi
    BY <1>1, <2>2 DEF Setup
  <2>3. hi \in Nat /\ ~(1 > 1) /\ ~(hi + 1 <= hi)
    BY <1>1
  <2>4. ASSUME NEW k \in DOMAIN queue, NEW j \in DOMAIN ctx.handlers,
               queue[k].id = Msg.id, ctx.handlers[j] = Cur, k > 1 \/ hi + 1 <= j
        PROVE  FALSE
    BY <2>1, <2>2, <2>3, <2>4
  <2>5. QED
    BY <1>2, <1>3, <2>4
<1>4. ASSUME ~(x = Cur /\ c = Msg.id) PROVE Pending(x, c)' <=> Pending(x, c)
  <2>1. ASSUME NEW k \in DOMAIN queue, NEW j \in DOMAIN ctx.handlers,
               queue[k].id = c, ctx.handlers[j] = x
        PROVE  (k > 1 \/ hi + 1 <= j) <=> (k > 1 \/ hi <= j)
    <3>1. k \in Nat /\ k >= 1 /\ j \in Nat /\ hi \in Nat
      BY <1>1, SeqFacts
    <3>2. ~(k = 1 /\ j = hi)
      BY <1>1, <1>4, <2>1
    <3>3. QED
      BY <3>1, <3>2
  <2>2. QED
    BY <1>2, <2>1 DEF Pending
<1>5. QED
  BY <1>3, <1>4

LEMMA SkipStep ==
  ASSUME DeliveryInv, Skip
  PROVE  DeliveryInv'
<1>0. Types /\ Setup /\ Queued /\ Loop /\ Past /\ Delivery
  BY DEF DeliveryInv
<1>1. /\ Handling /\ step = "before" /\ ~(Msg.level >= level[Cur]) /\ hi' = hi + 1
      /\ UNCHANGED <<ctx, level, bufsize, queue, step, calls, journal, reset>>
  BY DEF Skip, ShouldWrite, output
<1>2. hi \in 1 .. Len(ctx.handlers) /\ hi \in Nat /\ Len(ctx.handlers) \in Nat /\ queue # <<>>
  BY <1>0, <1>1, CurFacts, HandlerFacts
<1>3. Added' = Added /\ Msg' = Msg /\ (Running' <=> Running) /\ Running
  BY <1>1 DEF Added, Msg, Running, Handling
<1>4. Types' /\ hi' <= Len(ctx.handlers) + 1
  BY <1>0, <1>1, <1>2 DEF Types
<1>5. Setup' /\ Queued' /\ Loop'
  BY <1>0, <1>1, <1>2, <1>3, <1>4 DEF Setup, Queued, Loop
<1>6. Past'
  <2>1. \A j \in 1 .. hi - 1 : j \in 1 .. hi' - 1
    BY <1>1, <1>2
  <2>2. QED
    BY <1>0, <1>1, <1>3, <2>1 DEF Past
<1>7. Delivery'
  <2> SUFFICES ASSUME NEW x \in Added' \ reset', NEW c \in DOMAIN calls', x \in calls'[c].known
               PROVE  Written(x, c)' <=> calls'[c].level >= level'[x] /\ ~Pending(x, c)'
    BY DEF Delivery
  <2>1. /\ x \in Added \ reset /\ c \in DOMAIN calls /\ x \in calls[c].known
        /\ (Written(x, c)' <=> Written(x, c)) /\ calls' = calls /\ level' = level
    BY <1>1, <1>3 DEF Written
  <2>2. Written(x, c) <=> calls[c].level >= level[x] /\ ~Pending(x, c)
    BY <1>0, <2>1 DEF Delivery
  <2>3. CASE x = Cur /\ c = Msg.id
    <3>1. calls[c] = Msg
      BY <1>0, <1>1, <2>3, CurFacts, SeqFacts DEF Queued
    <3>2. QED
      BY <1>1, <2>1, <2>2, <2>3, <3>1
  <2>4. CASE ~(x = Cur /\ c = Msg.id)
    BY <1>0, <1>1, <2>1, <2>2, <2>4, PendingPast
  <2>5. QED
    BY <2>3, <2>4
<1>8. QED
  BY <1>4, <1>5, <1>6, <1>7 DEF DeliveryInv

LEMMA AfterWriteStep ==
  ASSUME DeliveryInv, AfterWrite
  PROVE  DeliveryInv'
<1>0. Types /\ Setup /\ Queued /\ Loop /\ Past /\ Delivery
  BY DEF DeliveryInv
<1>1. /\ step = "after" /\ step' = "before" /\ hi' = hi + 1
      /\ journal' = Append(journal, [h |-> Cur, id |-> Msg.id])
      /\ UNCHANGED <<ctx, level, bufsize, queue, calls, reset>>
  BY DEF AfterWrite
<1>2. Handling /\ (Cur \notin reset => Msg.level >= level[Cur])
  BY <1>0, <1>1 DEF Loop
<1>3. /\ hi \in 1 .. Len(ctx.handlers) /\ hi \in Nat /\ Len(ctx.handlers) \in Nat /\ queue # <<>>
      /\ Msg.id \in DOMAIN calls /\ calls[Msg.id] = Msg /\ Msg.id \in Nat
  BY <1>0, <1>2, CurFacts, HandlerFacts, SeqFacts DEF Queued
<1>4. PICK n \in Nat, e \in Entry :
        n = Len(journal) /\ e = [h |-> Cur, id |-> Msg.id] /\ e.h = Cur /\ e.id = Msg.id
  <2>1. Cur \in HandlerSet /\ Msg.id \in Nat /\ Len(journal) \in Nat
    BY <1>0, <1>2, CurFacts, SeqFacts
  <2>2. [h |-> Cur, id |-> Msg.id] \in Entry
    BY <2>1 DEF Entry
  <2>3. QED
    BY <2>1, <2>2
<1>5. /\ journal' \in Seq(Entry) /\ DOMAIN journal' = 1 .. n + 1
      /\ DOMAIN journal = 1 .. n
      /\ \A k \in 1 .. n : journal'[k] = journal[k]
      /\ journal'[n + 1] = e
  BY <1>0, <1>1, <1>4, AppendProperties, LenProperties DEF Types
<1>6. Added' = Added /\ Msg' = Msg /\ (Running' <=> Running) /\ Running
  BY <1>1, <1>2 DEF Added, Msg, Running, Handling
<1>7. Types' /\ hi' <= Len(ctx.handlers) + 1
  BY <1>0, <1>1, <1>3, <1>5 DEF Types, Steps
<1>8. Setup' /\ Queued' /\ Loop'
  BY <1>0, <1>1, <1>3, <1>6, <1>7 DEF Setup, Queued, Loop
<1>9. ASSUME NEW k \in 1 .. n, journal[k].h = Cur PROVE journal[k].id < Msg.id
  <2>1. journal[k].id <= Msg.id /\ journal[k].id \in Nat
    BY <1>0, <1>3, <1>5, SeqFacts DEF Past
  <2>2. ASSUME journal[k].id = Msg.id PROVE FALSE
    <3>1. PICK j \in 1 .. hi - 1 : ctx.handlers[j] = Cur
      BY <1>0, <1>3, <1>5, <1>9, <2>2 DEF Past
    <3>2. j \in 1 .. Len(ctx.handlers) /\ j # hi
      BY <1>3
    <3>3. ctx.handlers[hi] = Cur
      BY DEF Cur
    <3>4. QED
      BY <1>0, <1>3, <3>1, <3>2, <3>3, HandlerFacts DEF Setup
  <2>3. QED
    BY <1>3, <2>1, <2>2
<1>10. Past'
  <2>1. ASSUME NEW k \in 1 .. n + 1
        PROVE  /\ journal'[k].id \in DOMAIN calls
               /\ journal'[k].id <= Msg.id
               /\ journal'[k].id = Msg.id => \E j \in 1 .. hi : ctx.handlers[j] = journal'[k].h
    <3>1. CASE k \in 1 .. n
      <4>1. \A j \in 1 .. hi - 1 : j \in 1 .. hi
        BY <1>3
      <4>2. QED
        BY <1>0, <1>3, <1>5, <3>1, <4>1 DEF Past
    <3>2. CASE k = n + 1
      <4>1. hi \in 1 .. hi /\ ctx.handlers[hi] = Cur
        BY <1>3 DEF Cur
      <4>2. QED
        BY <1>3, <1>4, <1>5, <3>2, <4>1
    <3>3. QED
      BY <3>1, <3>2
  <2>2. ASSUME NEW j \in 1 .. n + 1, NEW k \in 1 .. n + 1, j < k, journal'[j].h = journal'[k].h
        PROVE  journal'[j].id < journal'[k].id
    <3>1. j \in 1 .. n
      BY <2>2
    <3>2. CASE k \in 1 .. n
      <4>1. journal[j].h = journal[k].h
        BY <1>5, <2>2, <3>1, <3>2
      <4>2. QED
        BY <1>0, <1>5, <2>2, <3>1, <3>2, <4>1 DEF Past
    <3>3. CASE k = n + 1
      <4>1. journal[j].h = Cur /\ journal'[j] = journal[j] /\ journal'[k].id = Msg.id
        BY <1>4, <1>5, <2>2, <3>1, <3>3
      <4>2. QED
        BY <1>9, <3>1, <4>1
    <3>4. QED
      BY <3>2, <3>3
  <2>3. hi' - 1 = hi
    BY <1>1, <1>3
  <2>4. QED
    BY <1>1, <1>5, <1>6, <2>1, <2>2, <2>3 DEF Past
<1>11. Delivery'
  <2> SUFFICES ASSUME NEW x \in Added' \ reset', NEW c \in DOMAIN calls', x \in calls'[c].known
               PROVE  Written(x, c)' <=> calls'[c].level >= level'[x] /\ ~Pending(x, c)'
    BY DEF Delivery
  <2>1. /\ x \in Added \ reset /\ c \in DOMAIN calls /\ x \in calls[c].known
        /\ calls' = calls /\ level' = level
    BY <1>1, <1>6
  <2>2. Written(x, c) <=> calls[c].level >= level[x] /\ ~Pending(x, c)
    BY <1>0, <2>1 DEF Delivery
  <2>3. Written(x, c)' <=> Written(x, c) \/ [h |-> x, id |-> c] = e
    <3>1. Written(x, c)' <=> \E k \in 1 .. n + 1 : journal'[k] = [h |-> x, id |-> c]
      BY <1>5 DEF Written
    <3>2. Written(x, c) <=> \E k \in 1 .. n : journal[k] = [h |-> x, id |-> c]
      BY <1>5 DEF Written
    <3>3. QED
      BY <1>5, <3>1, <3>2
  <2>4. CASE x = Cur /\ c = Msg.id
    <3>1. ~Pending(x, c)'
      BY <1>0, <1>1, <1>2, <2>4, PendingPast
    <3>2. calls[c].level >= level[x]
      BY <1>2, <1>3, <2>1, <2>4
    <3>3. Written(x, c)'
      BY <1>4, <2>3, <2>4
    <3>4. QED
      BY <2>1, <3>1, <3>2, <3>3
  <2>5. CASE ~(x = Cur /\ c = Msg.id)
    <3>1. Pending(x, c)' <=> Pending(x, c)
      BY <1>0, <1>1, <1>2, <2>5, PendingPast
    <3>2. [h |-> x, id |-> c] # e
      BY <1>4, <2>5
    <3>3. QED
      BY <2>1, <2>2, <2>3, <3>1, <3>2
  <2>6. QED
    BY <2>4, <2>5
<1>12. QED
  BY <1>7, <1>8, <1>10, <1>11 DEF DeliveryInv

LEMMA NextMessageStep ==
  ASSUME DeliveryInv, NextMessage
  PROVE  DeliveryInv'
<1>0. Types /\ Setup /\ Queued /\ Loop /\ Past /\ Delivery
  BY DEF DeliveryInv
<1>1. /\ Running /\ queue # <<>> /\ hi > Len(ctx.handlers)
      /\ queue' = Tail(queue) /\ hi' = 1
      /\ UNCHANGED <<ctx, level, bufsize, step, calls, journal, reset>>
  BY DEF NextMessage, output
<1>2. step = "before" /\ Len(ctx.handlers) \in Nat /\ hi \in Nat
  BY <1>0, <1>1, HandlerFacts DEF Loop, Handling, Types
<1>3. PICK n \in Nat : n = Len(queue)
  BY <1>0, SeqFacts
<1>4. /\ n >= 1 /\ DOMAIN queue = 1 .. n /\ queue' \in Seq(Message)
      /\ DOMAIN queue' = 1 .. n - 1 /\ \A k \in 1 .. n - 1 : queue'[k] = queue[k + 1]
      /\ Len(queue') = n - 1
  BY <1>0, <1>1, <1>3, HeadTailProperties, LenProperties, SeqFacts DEF Types
<1>5. Types'
  BY <1>0, <1>1, <1>4 DEF Types
<1>6. Added' = Added /\ (Running' <=> Running)
  BY <1>1 DEF Added, Running
<1>7. Setup'
  BY <1>0, <1>1, <1>6 DEF Setup
<1>8. Queued'
  <2>1. \A k \in 1 .. n - 1 : k + 1 \in 1 .. n
    OBVIOUS
  <2>2. \A k \in DOMAIN queue' : queue'[k].id \in DOMAIN calls' /\ queue'[k] = calls'[queue'[k].id]
    BY <1>0, <1>1, <1>4, <2>1 DEF Queued
  <2>3. ASSUME NEW j \in DOMAIN queue', NEW k \in DOMAIN queue', j < k
        PROVE  queue'[j].id < queue'[k].id
    <3>1. j + 1 \in DOMAIN queue /\ k + 1 \in DOMAIN queue /\ j + 1 < k + 1
      BY <1>4, <2>3
    <3>2. QED
      BY <1>0, <1>4, <3>1 DEF Queued
  <2>4. QED
    BY <2>2, <2>3 DEF Queued
<1>9. Loop'
  BY <1>0, <1>1, <1>2, <1>6 DEF Loop
<1>10. Past'
  <2>1. ASSUME NEW k \in DOMAIN journal, queue' # <<>>
        PROVE  journal[k].id < Msg'.id
    <3>1. 1 \in DOMAIN queue' /\ Msg' = queue'[1]
      BY <1>4, <2>1 DEF Msg
    <3>2. Msg' = queue[2] /\ 2 \in DOMAIN queue /\ 1 \in DOMAIN queue
      BY <1>4, <3>1
    <3>3. queue[1].id < queue[2].id /\ journal[k].id <= queue[1].id
      <4>1. queue[1].id < queue[2].id
        BY <1>0, <3>2 DEF Queued
      <4>2. Msg = queue[1]
        BY <1>0, <1>1, SeqFacts
      <4>3. QED
        BY <1>0, <1>1, <4>1, <4>2 DEF Past
    <3>4. queue[1].id \in Nat /\ queue[2].id \in Nat /\ journal[k].id \in Nat
      BY <1>0, <3>2, SeqFacts
    <3>5. QED
      BY <3>2, <3>3, <3>4
  <2>2. \A k \in DOMAIN journal : journal[k].id \in Nat /\ journal[k].id \in DOMAIN calls
    BY <1>0, SeqFacts DEF Past
  <2>3. queue' # <<>> => Msg'.id \in Nat
    <3>1. queue' # <<>> => Msg' = queue'[1] /\ 1 \in DOMAIN queue'
      BY <1>4 DEF Msg
    <3>2. queue' # <<>> => 2 \in DOMAIN queue /\ Msg' = queue[2]
      BY <1>4, <3>1
    <3>3. QED
      BY <1>0, <3>2, SeqFacts
  <2>4. ASSUME NEW k \in DOMAIN journal, queue' # <<>>
        PROVE  journal[k].id <= Msg'.id /\ journal[k].id # Msg'.id
    BY <2>1, <2>2, <2>3, <2>4
  <2>5. QED
    BY <1>0, <1>1, <2>2, <2>4 DEF Past
<1>11. Delivery'
  <2> SUFFICES ASSUME NEW x \in Added' \ reset', NEW c \in DOMAIN calls', x \in calls'[c].known
               PROVE  Written(x, c)' <=> calls'[c].level >= level'[x] /\ ~Pending(x, c)'
    BY DEF Delivery
  <2>1. /\ x \in Added \ reset /\ c \in DOMAIN calls /\ x \in calls[c].known
        /\ calls' = calls /\ level' = level /\ (Written(x, c)' <=> Written(x, c))
    BY <1>1, <1>6 DEF Written
  <2>2. Pending(x, c)' <=> Pending(x, c)
    <3>1. ASSUME NEW k \in DOMAIN queue, NEW j \in DOMAIN ctx.handlers, queue[k].id = c,
                 ctx.handlers[j] = x, k > 1 \/ hi <= j
          PROVE  Pending(x, c)'
      <4>1. k - 1 \in DOMAIN queue' /\ queue'[k - 1] = queue[k]
        BY <1>0, <1>1, <1>2, <1>4, <3>1, HandlerFacts
      <4>2. hi' <= j /\ j \in DOMAIN ctx'.handlers /\ ctx'.handlers[j] = x
        BY <1>0, <1>1, <3>1, HandlerFacts
      <4>3. QED
        BY <3>1, <4>1, <4>2 DEF Pending
    <3>2. ASSUME NEW k \in DOMAIN queue', NEW j \in DOMAIN ctx.handlers, queue'[k].id = c,
                 ctx.handlers[j] = x
          PROVE  Pending(x, c)
      <4>1. k + 1 \in DOMAIN queue /\ queue[k + 1].id = c /\ k + 1 > 1
        BY <1>4, <3>2
      <4>2. QED
        BY <3>2, <4>1 DEF Pending
    <3>3. Pending(x, c)' => \E k \in DOMAIN queue', j \in DOMAIN ctx.handlers :
                              queue'[k].id = c /\ ctx.handlers[j] = x
      BY <1>1 DEF Pending
    <3>4. QED
      BY <3>1, <3>2, <3>3 DEF Pending
  <2>3. QED
    BY <1>0, <2>1, <2>2 DEF Delivery
<1>12. QED
  BY <1>5, <1>7, <1>8, <1>9, <1>10, <1>11 DEF DeliveryInv

LEMMA DeliveryStep ==
  ASSUME DeliveryInv, [Next]_vars
  PROVE  DeliveryInv'
<1>0. Types /\ Setup /\ Queued /\ Loop /\ Past /\ Delivery
  BY DEF DeliveryInv
<1>1. ASSUME NEW h \in HandlerSet, AddHandler(h) PROVE DeliveryInv'
  BY <1>1, AddHandlerStep
<1>2. ASSUME UNCHANGED vars PROVE DeliveryInv'
  <2>1. Quiet /\ Types' /\ (Running => Running') /\ step' = step
    BY <1>0, <1>2 DEF vars, Quiet, Types, Running
  <2>2. step' # "before" => Handling /\ (Cur \notin reset => Msg.level >= level[Cur])
    BY <1>0, <2>1 DEF Loop
  <2>3. QED
    BY <2>1, <2>2, QuietStep
<1>3. ASSUME NEW h \in HandlerSet, NEW l \in Levels, SetLevel(h, l) PROVE DeliveryInv'
  BY <1>3, SetLevelStep
<1>4. ASSUME NEW n \in Sizes, SetBytesBufSize(n) \/ SetMsgBufSize(n) PROVE DeliveryInv'
  <2>1. /\ ctx' \in Context /\ ctx'.handlers = ctx.handlers /\ ctx'.level = ctx.level
        /\ UNCHANGED <<level, bufsize, queue, hi, step, calls, journal, reset>>
    <3>1. ctx \in Context /\ n \in Nat /\ DefaultBytes \in Nat
      BY <1>0, HandlersAssumption DEF Types
    <3>2. QED
      BY <1>4, <3>1 DEF SetBytesBufSize, SetMsgBufSize, Context, output
  <2>2. Quiet /\ Types' /\ (Running => Running') /\ step' = step
    BY <1>0, <2>1 DEF Quiet, Types, Running
  <2>3. step' # "before" => Handling /\ (Cur \notin reset => Msg.level >= level[Cur])
    BY <1>0, <2>2 DEF Loop
  <2>4. QED
    BY <2>2, <2>3, QuietStep
<1>5. ASSUME NEW l \in Levels, NEW empty \in BOOLEAN, Log(l, empty) PROVE DeliveryInv'
  BY <1>5, LogStep
<1>6. ASSUME BackendRun PROVE DeliveryInv'
  <2>1. /\ ~Running /\ bufsize' \in Nat
        /\ UNCHANGED <<ctx, level, queue, hi, step, calls, journal, reset>>
    BY <1>0, <1>6 DEF BackendRun, Types, Context, output
  <2>2. Quiet /\ Types' /\ (Running => Running') /\ step' = step
    BY <1>0, <2>1 DEF Quiet, Types
  <2>3. step' # "before" => Handling /\ (Cur \notin reset => Msg.level >= level[Cur])
    BY <1>0, <2>2 DEF Loop
  <2>4. QED
    BY <2>2, <2>3, QuietStep
<1>7. ASSUME BeforeWrite \/ WriteMeta \/ Write PROVE DeliveryInv'
  <2>1. /\ step' \in Steps /\ Handling /\ (Cur \notin reset => Msg.level >= level[Cur])
        /\ UNCHANGED <<ctx, level, bufsize, queue, hi, calls, journal, reset>>
    <3>1. CASE BeforeWrite
      BY <3>1 DEF BeforeWrite, ShouldWrite, Steps
    <3>2. CASE WriteMeta \/ Write
      BY <1>0, <3>2 DEF WriteMeta, Write, Loop, Steps
    <3>3. QED
      BY <1>7, <3>1, <3>2
  <2>2. Quiet /\ Types' /\ (Running => Running') /\ Running
    BY <1>0, <2>1 DEF Quiet, Types, Running, Handling
  <2>3. QED
    BY <2>1, <2>2, QuietStep
<1>8. ASSUME Skip PROVE DeliveryInv'
  BY <1>8, SkipStep
<1>9. ASSUME AfterWrite PROVE DeliveryInv'
  BY <1>9, AfterWriteStep
<1>10. ASSUME NextMessage PROVE DeliveryInv'
  BY <1>10, NextMessageStep
<1>11. QED
  BY <1>1, <1>2, <1>3, <1>4, <1>5, <1>6, <1>7, <1>8, <1>9, <1>10
     DEF Next, Backend, AddRefused, Idle

(* A handler whose level is left alone once it is added gets exactly the   *)
(* messages of its level or above that were logged since, each once and in *)
(* the order of the calls, except those the backend has still to hand it;  *)
(* the levels of other handlers may be set meanwhile.  Nothing is said of  *)
(* a handler whose own level is set after it was added: the filter of the  *)
(* caller does not follow it (WantedPasses), and it may lose messages.     *)
THEOREM EachGetsItsMessages == Spec => []DeliveredToEach
<1>1. Init => DeliveryInv
  BY DeliveryInit
<1>2. DeliveryInv /\ [Next]_vars => DeliveryInv'
  BY DeliveryStep
<1>3. DeliveryInv => DeliveredToEach
  <2> SUFFICES ASSUME DeliveryInv, NEW h \in Added \ reset
               PROVE  /\ \A j, k \in DOMAIN journal :
                           j < k /\ journal[j].h = h /\ journal[k].h = h
                             => journal[j].id < journal[k].id
                      /\ \A c \in DOMAIN calls : h \in calls[c].known =>
                           (Written(h, c) <=> calls[c].level >= level[h] /\ ~Pending(h, c))
    BY DEF DeliveredToEach, Written
  <2>1. QED
    BY DEF DeliveryInv, Past, Delivery
<1>4. QED
  BY <1>1, <1>2, <1>3, PTL DEF Spec

-----------------------------------------------------------------------------
(* What the streams show.                                                  *)

(* The part of the line of e that belongs to stream s. *)
Share(s, e) == IF Line(e).stream = s THEN Line(e).text ELSE <<>>

Shares(s) == [k \in 1 .. Len(journal) |-> Share(s, journal[k])]

LEMMA LinesJoined ==
  ASSUME NEW s, NEW g, Len(journal) \in Nat, Joins(g, Shares(s), Len(journal))
  PROVE  Lines(s) = g[Len(journal)]
<1> DEFINE F(h) == [n \in 0 .. Len(journal) |->
                      IF n = 0 THEN <<>>
                      ELSE h[n - 1] \o (IF Line(journal[n]).stream = s THEN Line(journal[n]).text
                                        ELSE <<>>)]
           lines == CHOOSE h : h = F(h)
<1>1. Lines(s) = lines[Len(journal)]
  BY Zenon DEF Lines
<1>2. ASSUME NEW h PROVE Joins(h, Shares(s), Len(journal)) <=> h = F(h)
  <2>1. ASSUME NEW n \in 0 .. Len(journal), n # 0
        PROVE  Shares(s)[n] = IF Line(journal[n]).stream = s THEN Line(journal[n]).text ELSE <<>>
    <3>1. n \in 1 .. Len(journal)
      BY <2>1
    <3>2. QED
      BY <3>1, Zenon DEF Shares, Share
  <2>2. [k \in 0 .. Len(journal) |-> IF k = 0 THEN <<>> ELSE h[k - 1] \o Shares(s)[k]] = F(h)
    BY <2>1, Zenon
  <2>3. QED
    BY <2>2, Zenon DEF Joins
<1> HIDE DEF F
<1>3. g = F(g)
  BY <1>2
<1>4. lines = F(lines)
  BY <1>3, Zenon
<1> HIDE DEF lines
<1>5. Joins(lines, Shares(s), Len(journal))
  BY <1>2, <1>4
<1>6. lines[Len(journal)] = g[Len(journal)]
  BY <1>5, JoinsUnique
<1>7. QED
  BY <1>1, <1>6

LEMMA TagFacts ==
  ASSUME NEW a \in Seq(Part), NEW id \in Nat, NEW h \in HandlerSet
  PROVE  /\ Tag(a, id, h) \in Seq(Piece) /\ Len(Tag(a, id, h)) = Len(a)
         /\ \A k \in 1 .. Len(a) : Tag(a, id, h)[k] = <<a[k], id, h>>
<1>1. Len(a) \in Nat /\ DOMAIN a = 1 .. Len(a) /\ \A k \in 1 .. Len(a) : a[k] \in Part
  BY LenProperties, ElementOfSeq
<1>2. Tag(a, id, h) \in [1 .. Len(a) -> Piece]
  BY <1>1 DEF Tag, Piece
<1>3. Tag(a, id, h) \in Seq(Piece)
  BY <1>1, <1>2, SeqDef
<1>4. \A k \in 1 .. Len(a) : Tag(a, id, h)[k] = <<a[k], id, h>>
  BY <1>1 DEF Tag
<1>5. Len(Tag(a, id, h)) = Len(a)
  <2>1. DOMAIN Tag(a, id, h) = 1 .. Len(a)
    BY <1>2
  <2>2. DOMAIN Tag(a, id, h) = 1 .. Len(Tag(a, id, h)) /\ Len(Tag(a, id, h)) \in Nat
    BY <1>3, LenProperties
  <2>3. QED
    BY <1>1, <2>1, <2>2
<1>6. QED
  BY <1>3, <1>4, <1>5

LEMMA TagConcat ==
  ASSUME NEW a \in Seq(Part), NEW b \in Seq(Part), NEW id \in Nat, NEW h \in HandlerSet
  PROVE  Tag(a \o b, id, h) = Tag(a, id, h) \o Tag(b, id, h)
<1>1. PICK A \in Nat, B \in Nat : A = Len(a) /\ B = Len(b)
  BY LenProperties
<1>2. PICK x, y : x = Tag(a, id, h) /\ y = Tag(b, id, h)
  OBVIOUS
<1>3. /\ x \in Seq(Piece) /\ Len(x) = A /\ \A k \in 1 .. A : x[k] = <<a[k], id, h>>
      /\ y \in Seq(Piece) /\ Len(y) = B /\ \A k \in 1 .. B : y[k] = <<b[k], id, h>>
  BY <1>1, <1>2, TagFacts, Zenon
<1>4. PICK ab \in Seq(Part) : ab = a \o b
  BY ConcatProperties
<1>5. Len(ab) = A + B /\ \A k \in 1 .. A + B : ab[k] = IF k <= A THEN a[k] ELSE b[k - A]
  BY <1>1, <1>4, ConcatProperties
<1>6. PICK z : z = Tag(ab, id, h)
  OBVIOUS
<1>7. z \in Seq(Piece) /\ Len(z) = A + B /\ \A k \in 1 .. A + B : z[k] = <<ab[k], id, h>>
  BY <1>5, <1>6, TagFacts, ZenonT(40)
<1>8. PICK w : w = x \o y
  OBVIOUS
<1>9. w \in Seq(Piece) /\ Len(w) = A + B
      /\ \A k \in 1 .. A + B : w[k] = IF k <= A THEN x[k] ELSE y[k - A]
  BY <1>3, <1>8, ConcatProperties
<1>10. ASSUME NEW k \in 1 .. A + B PROVE z[k] = w[k]
  <2>1. CASE k <= A
    <3>1. k \in 1 .. A
      BY <2>1
    <3>2. z[k] = <<ab[k], id, h>> /\ ab[k] = a[k] /\ w[k] = x[k]
      BY <1>5, <1>7, <1>9, <2>1, Zenon
    <3>3. QED
      BY <1>3, <3>1, <3>2, Zenon
  <2>2. CASE ~(k <= A)
    <3>1. k - A \in 1 .. B
      BY <2>2
    <3>2. z[k] = <<ab[k], id, h>> /\ ab[k] = b[k - A] /\ w[k] = y[k - A]
      BY <1>5, <1>7, <1>9, <2>2, Zenon
    <3>3. QED
      BY <1>3, <3>1, <3>2, Zenon
  <2>3. QED
    BY <2>1, <2>2
<1>11. z = w
  BY <1>7, <1>9, <1>10, SeqEqual
<1>12. QED
  BY <1>2, <1>4, <1>6, <1>8, <1>11

LEMMA Words ==
  /\ <<"color">> \in Seq(Part) /\ <<"meta">> \in Seq(Part) /\ <<"msg">> \in Seq(Part)
  /\ <<"nl">> \in Seq(Part) /\ <<"rst">> \in Seq(Part) /\ <<"nl", "rst">> \in Seq(Part)
  /\ <<>> \in Seq(Part)
  /\ <<"nl">> \o <<"rst">> = <<"nl", "rst">>
  /\ \A a \in Seq(Part) : a \o <<>> = a /\ <<>> \o a = a
<1>1. /\ <<"color">> \in Seq(Part) /\ <<"meta">> \in Seq(Part) /\ <<"msg">> \in Seq(Part)
      /\ <<"nl">> \in Seq(Part) /\ <<"rst">> \in Seq(Part) /\ <<"nl", "rst">> \in Seq(Part)
      /\ <<>> \in Seq(Part)
  <2>1. \A S : \A x, y \in S : <<x>> \in Seq(S) /\ <<x, y>> \in Seq(S)
    OBVIOUS
  <2>2. /\ "color" \in Part /\ "meta" \in Part /\ "msg" \in Part
        /\ "nl" \in Part /\ "rst" \in Part
    BY DEF Part
  <2>3. QED
    BY <2>1, <2>2, EmptySeq, Zenon
<1>2. <<"nl">> \o <<"rst">> = <<"nl", "rst">>
  <2>1. PICK x, y, a, b, d : x = "nl" /\ y = "rst" /\ a = <<x>> /\ b = <<y>> /\ d = <<x, y>>
    OBVIOUS
  <2>2. a \in Seq({x, y}) /\ b \in Seq({x, y}) /\ d \in Seq({x, y}) /\ Len(a) = 1 /\ Len(b) = 1
        /\ Len(d) = 2 /\ a[1] = x /\ b[1] = y /\ d[1] = x /\ d[2] = y
    BY <2>1
  <2>3. a \o b \in Seq({x, y}) /\ Len(a \o b) = 2
        /\ \A k \in 1 .. 2 : (a \o b)[k] = IF k <= 1 THEN a[k] ELSE b[k - 1]
    BY <2>2, ConcatProperties
  <2>4. \A k \in 1 .. 2 : (a \o b)[k] = d[k]
    BY <2>2, <2>3
  <2>5. a \o b = d
    BY <2>2, <2>3, <2>4, SeqEqual
  <2>6. QED
    BY <2>1, <2>5
<1>3. \A a \in Seq(Part) : a \o <<>> = a /\ <<>> \o a = a
  BY ConcatEmptySeq
<1>4. QED
  BY <1>1, <1>2, <1>3

LEMMA ConcatTyped ==
  ASSUME NEW a \in Seq(Part), NEW b \in Seq(Part)
  PROVE  a \o b \in Seq(Part)
BY ConcatProperties

(* The line for the message of call c, for a handler. *)
LEMMA LineFacts ==
  ASSUME Types, Setup, NEW c \in DOMAIN calls, NEW h \in HandlerSet
  PROVE  LET e     == [h |-> h, id |-> c]
             m     == calls[c]
             color == IF Colored(h, m.level) THEN <<"color">> ELSE <<>>
             text  == IF m.empty THEN <<>> ELSE <<"msg">>
             tail  == IF Colored(h, m.level) THEN <<"nl", "rst">> ELSE <<"nl">>
         IN  /\ Line(e).stream = StreamFor(h, m.level)
             /\ Line(e).text = Tag((color \o <<"meta">> \o text) \o tail, c, h)
             /\ Line(e).text \in Seq(Piece)
<1> DEFINE e     == [h |-> h, id |-> c]
           m     == calls[c]
           col   == Colored(h, m.level)
           color == IF col THEN <<"color">> ELSE <<>>
           text  == IF m.empty THEN <<>> ELSE <<"msg">>
           rst   == IF col THEN <<"rst">> ELSE <<>>
           tail  == IF col THEN <<"nl", "rst">> ELSE <<"nl">>
           parts == color \o <<"meta">> \o text \o <<"nl">> \o rst
<1>1. e.h = h /\ e.id = c /\ c \in Nat
  BY SeqFacts
<1>2. Line(e).stream = StreamFor(h, m.level)
  BY <1>1 DEF Line, StreamFor, Colored
<1>3. Line(e).text = Tag(parts, c, h)
  BY <1>1 DEF Line, Colored, Tag
<1>4. PICK a \in Seq(Part) : a = color \o <<"meta">> \o text
  BY Words, ConcatTyped
<1>5. tail \in Seq(Part) /\ rst \in Seq(Part) /\ tail = <<"nl">> \o rst
  BY Words
<1>6. parts = a \o tail
  <2>1. parts = (a \o <<"nl">>) \o rst
    BY <1>4
  <2>2. (a \o <<"nl">>) \o rst = a \o (<<"nl">> \o rst)
    BY <1>5, Words, ConcatAssociative
  <2>3. QED
    BY <1>5, <2>1, <2>2
<1>7. Tag(a \o tail, c, h) \in Seq(Piece)
  BY <1>1, <1>5, ConcatTyped, TagFacts
<1>8. QED
  BY <1>2, <1>3, <1>4, <1>6, <1>7

(* The lines of a stream are its shares of the journal, joined. *)
LinesAreJoined ==
  Len(journal) \in Nat =>
    \A s, g : Joins(g, Shares(s), Len(journal)) => Lines(s) = g[Len(journal)]

LEMMA AreJoined == LinesAreJoined
BY LinesJoined DEF LinesAreJoined

LEMMA AreJoinedNext == LinesAreJoined'
BY AreJoined, PTL

LEMMA ShareTyped ==
  ASSUME Types, Setup, Past, NEW s, NEW k \in 1 .. Len(journal)
  PROVE  Share(s, journal[k]) \in Seq(Piece)
<1>1. PICK h \in HandlerSet, c \in DOMAIN calls : journal[k] = [h |-> h, id |-> c]
  <2>1. journal[k] \in Entry /\ journal[k].id \in DOMAIN calls
    BY SeqFacts DEF Past
  <2>2. QED
    BY <2>1 DEF Entry
<1>2. Line([h |-> h, id |-> c]).text \in Seq(Piece)
  BY LineFacts
<1>3. <<>> \in Seq(Piece)
  BY EmptySeq
<1>4. QED
  BY <1>1, <1>2, <1>3 DEF Share

(* The lines of a stream, joined. *)
LEMMA LinesTyped ==
  ASSUME Types, Setup, Past, NEW s
  PROVE  \E g : Joins(g, Shares(s), Len(journal)) /\ Lines(s) = g[Len(journal)]
                /\ Lines(s) \in Seq(Piece)
<1>1. Len(journal) \in Nat /\ \A k \in 1 .. Len(journal) : Shares(s)[k] \in Seq(Piece)
  BY SeqFacts, ShareTyped DEF Shares
<1>2. PICK g : Joins(g, Shares(s), Len(journal)) /\ g[Len(journal)] \in Seq(Piece)
  BY <1>1, JoinsExist
<1>3. Lines(s) = g[Len(journal)]
  BY <1>1, <1>2, LinesJoined
<1>4. QED
  BY <1>2, <1>3

(* A line is appended to the lines of its stream; the others stay. *)
LEMMA LinesAppend ==
  ASSUME Types, Setup, Past, calls' = calls, NEW e \in Entry, e.id \in DOMAIN calls,
         journal' = Append(journal, e), NEW s
  PROVE  Lines(s)' = Lines(s) \o Share(s, e)
<1>1. PICK n \in Nat : n = Len(journal)
  BY SeqFacts
<1>2. Len(journal') = n + 1 /\ journal'[n + 1] = e /\ \A k \in 1 .. n : journal'[k] = journal[k]
  BY <1>1, AppendProperties DEF Types
<1>3. PICK sh, sn : sh = Shares(s) /\ sn = Shares(s)'
  OBVIOUS
<1>4. \A x : Share(s, x)' = Share(s, x)
  BY DEF Share, Line
<1>5. /\ \A k \in 1 .. n : sh[k] = Share(s, journal[k])
      /\ \A k \in 1 .. n + 1 : sn[k] = Share(s, journal'[k])
  <2>1. sh = [k \in 1 .. n |-> Share(s, journal[k])]
    BY <1>1, <1>3 DEF Shares
  <2>2. sn = [k \in 1 .. n + 1 |-> Share(s, journal'[k])]
    <3>1. ASSUME NEW k PROVE Share(s, journal[k])' = Share(s, journal'[k])
      <4>1. PICK x : x = journal'[k]
        OBVIOUS
      <4>2. Share(s, journal[k])' = Share(s, x)'
        BY <4>1 DEF Share, Line
      <4>3. QED
        BY <1>4, <4>1, <4>2
    <3>2. sn = [k \in 1 .. Len(journal') |-> Share(s, journal[k])']
      BY <1>3, Zenon DEF Shares
    <3>3. QED
      BY <1>2, <3>1, <3>2, Zenon
  <2>3. QED
    BY <2>1, <2>2, Zenon
<1>6. PICK g : Joins(g, sh, n) /\ Lines(s) = g[n]
  BY <1>1, <1>3, LinesTyped
<1>7. ASSUME NEW k \in 1 .. n + 1 PROVE sn[k] \in Seq(Piece)
  <2>1. CASE k \in 1 .. n
    BY <1>1, <1>2, <1>5, <2>1, ShareTyped
  <2>2. CASE k = n + 1
    <3>1. PICK h \in HandlerSet, c \in DOMAIN calls : e = [h |-> h, id |-> c]
      BY DEF Entry
    <3>2. Share(s, e) \in Seq(Piece)
      BY <3>1, LineFacts, EmptySeq DEF Share
    <3>3. QED
      BY <1>2, <1>5, <2>2, <3>2
  <2>3. QED
    BY <2>1, <2>2
<1>8. PICK h : Joins(h, sn, n + 1)
  <2>1. n + 1 \in Nat
    OBVIOUS
  <2>2. QED
    BY <1>7, <2>1, JoinsExist, Zenon
<1>9. Lines(s)' = h[n + 1]
  <2>1. Len(journal') \in Nat /\ Len(journal') = n + 1
    BY <1>2
  <2>2. \A t, x : Joins(x, Shares(t)', Len(journal')) => Lines(t)' = x[Len(journal')]
    BY <2>1, AreJoinedNext DEF LinesAreJoined, Joins
  <2>3. QED
    BY <1>3, <1>8, <2>1, <2>2
<1>10. h[n] = g[n]
  <2>1. \A k \in 1 .. n : sh[k] = sn[k]
    BY <1>2, <1>5
  <2>2. QED
    BY <1>6, <1>8, <2>1, JoinsUnique
<1>11. h[n + 1] = h[n] \o sn[n + 1]
  <2>1. n + 1 \in Nat /\ n \in 0 .. (n + 1) - 1
    OBVIOUS
  <2>2. \A k \in 0 .. (n + 1) - 1 : h[k + 1] = h[k] \o sn[k + 1]
    BY <1>8, <2>1, JoinsFacts, Zenon
  <2>3. QED
    BY <2>1, <2>2, Zenon
<1>12. sn[n + 1] = Share(s, e)
  BY <1>2, <1>5
<1>13. QED
  BY <1>6, <1>9, <1>10, <1>11, <1>12

(* A log call adds to the calls and leaves the lines as they are. *)
LEMMA LinesKept ==
  ASSUME Types, Setup, Past, journal' = journal,
         \A c \in DOMAIN calls : calls'[c] = calls[c], NEW s
  PROVE  Lines(s)' = Lines(s)
<1>1. PICK n \in Nat : n = Len(journal)
  BY SeqFacts
<1>2. ASSUME NEW k \in 1 .. n PROVE Share(s, journal[k])' = Share(s, journal[k])
  <2>1. PICK e : e = journal[k] /\ e = journal'[k] /\ calls'[e.id] = calls[e.id]
    BY <1>1, SeqFacts DEF Past
  <2>2. Share(s, e)' = Share(s, e)
    BY <2>1 DEF Share, Line
  <2>3. Share(s, journal[k])' = Share(s, e)'
    BY <2>1 DEF Share, Line
  <2>4. QED
    BY <2>1, <2>2, <2>3
<1>3. PICK sh, sn : sh = Shares(s) /\ sn = Shares(s)'
  OBVIOUS
<1>4. sh = sn
  BY <1>1, <1>2, <1>3, Zenon DEF Shares
<1>5. PICK g : Joins(g, sh, n) /\ Lines(s) = g[n]
  BY <1>1, <1>3, LinesTyped
<1>6. Lines(s)' = g[n]
  <2>1. Len(journal') \in Nat /\ Len(journal') = n
    BY <1>1
  <2>2. \A t, x : Joins(x, Shares(t)', Len(journal')) => Lines(t)' = x[Len(journal')]
    BY <2>1, AreJoinedNext DEF LinesAreJoined, Joins
  <2>3. QED
    BY <1>3, <1>4, <1>5, <2>1, <2>2
<1>7. QED
  BY <1>5, <1>6

(* Every stream has its lines, and t the parts said of the next one. *)
Shows(o, said, t, id, h) ==
  \A s \in Streams : o[s] = Lines(s) \o (IF t = s THEN Tag(said, id, h) ELSE <<>>)

LEMMA Associative ==
  \A a, b, d \in Seq(Piece) : (a \o b) \o d = a \o (b \o d)
BY ConcatAssociative

(* Output that is appended to t says more of the line. *)
LEMMA MoreSaid ==
  ASSUME Types, Setup, Past, out \in [Streams -> Seq(Piece)],
         NEW id \in Nat, NEW h \in HandlerSet, NEW t \in Streams,
         NEW said \in Seq(Part), NEW more \in Seq(Part), NEW o,
         Shows(out, said, t, id, h), o = [out EXCEPT ![t] = @ \o Tag(more, id, h)]
  PROVE  Shows(o, said \o more, t, id, h) /\ o \in [Streams -> Seq(Piece)]
<1>1. /\ Tag(said, id, h) \in Seq(Piece) /\ Tag(more, id, h) \in Seq(Piece)
      /\ Tag(said \o more, id, h) = Tag(said, id, h) \o Tag(more, id, h)
  BY TagFacts, TagConcat
<1>2. o \in [Streams -> Seq(Piece)]
  <2>1. out[t] \o Tag(more, id, h) \in Seq(Piece)
    BY <1>1, ConcatProperties
  <2>2. QED
    BY <2>1
<1>3. o[t] = out[t] \o Tag(more, id, h) /\ \A s \in Streams \ {t} : o[s] = out[s]
  OBVIOUS
<1>4. ASSUME NEW s \in Streams
      PROVE  o[s] = Lines(s) \o (IF t = s THEN Tag(said \o more, id, h) ELSE <<>>)
  <2>1. Lines(s) \in Seq(Piece)
    BY LinesTyped
  <2>2. CASE s # t
    BY <1>3, <2>2 DEF Shows
  <2>3. CASE s = t
    <3>1. o[s] = (Lines(s) \o Tag(said, id, h)) \o Tag(more, id, h)
      <4>1. out[t] = Lines(t) \o Tag(said, id, h)
        BY Zenon DEF Shows
      <4>2. QED
        BY <1>3, <2>3, <4>1, Zenon
    <3>2. (Lines(s) \o Tag(said, id, h)) \o Tag(more, id, h)
            = Lines(s) \o (Tag(said, id, h) \o Tag(more, id, h))
      <4>1. PICK a \in Seq(Piece), b \in Seq(Piece), d \in Seq(Piece) :
              a = Lines(s) /\ b = Tag(said, id, h) /\ d = Tag(more, id, h)
        BY <1>1, <2>1
      <4>2. (a \o b) \o d = a \o (b \o d)
        BY Associative, Zenon
      <4>3. QED
        BY <4>1, <4>2, Zenon
    <3>3. QED
      BY <1>1, <2>3, <3>1, <3>2
  <2>4. QED
    BY <2>2, <2>3
<1>5. QED
  BY <1>2, <1>4 DEF Shows

LEMMA StreamForType ==
  ASSUME NEW h \in HandlerSet, NEW l
  PROVE  StreamFor(h, l) \in Streams /\ (Colored(h, l) => StreamFor(h, l) = "stderr")
BY HandlersAssumption DEF StreamFor, Streams, Colored

LEMMA StreamsInit ==
  ASSUME Init, DeliveryInv PROVE Streamed
<1>1. /\ step = "before" /\ unflushed = {} /\ journal = <<>>
      /\ out = [s \in Streams |-> <<>>]
      /\ fp = [h \in HandlerSet |-> IF Kind[h] = "file" THEN h ELSE "none"]
  BY DEF Init
<1>2. fp \in [HandlerSet -> Streams \cup {"none"}]
  BY <1>1 DEF Streams
<1>3. out \in [Streams -> Seq(Piece)]
  BY <1>1, EmptySeq
<1>4. ASSUME NEW s \in Streams PROVE out[s] = Lines(s) \o <<>>
  <2>1. Len(journal) = 0
    BY <1>1
  <2>2. PICK g : Joins(g, Shares(s), 0) /\ Lines(s) = g[0]
    BY <2>1, LinesTyped DEF DeliveryInv
  <2>3. Lines(s) = <<>>
    BY <2>2, JoinsFacts
  <2>4. <<>> \o <<>> = <<>>
    BY EmptySeq, ConcatEmptySeq
  <2>5. QED
    BY <1>1, <2>3, <2>4
<1>5. QED
  BY <1>1, <1>2, <1>3, <1>4 DEF Streamed

(* A step that writes nothing: the message and the handler stay the same   *)
(* while a line is begun.                                                  *)
LEMMA SilentStep ==
  ASSUME DeliveryInv, Streamed, UNCHANGED <<fp, out, unflushed, step>>, journal' = journal,
         \A c \in DOMAIN calls : calls'[c] = calls[c],
         step # "before" => Cur' = Cur /\ Msg' = Msg
  PROVE  Streamed'
<1>1. \A s : Lines(s)' = Lines(s)
  BY LinesKept DEF DeliveryInv
<1>2. step # "before" => Begun' = Begun
  <2> SUFFICES ASSUME step # "before" PROVE Begun' = Begun
    OBVIOUS
  <2>1. Cur' = Cur /\ Msg' = Msg /\ step' = step
    OBVIOUS
  <2>2. ColorOn' = ColorOn /\ Text' = Text
    BY <2>1, Zenon DEF ColorOn, Text, Colored
  <2>3. Said' = Said
    BY <2>1, <2>2, Zenon DEF Said
  <2>4. QED
    BY <2>1, <2>3, Zenon DEF Begun, Tag
<1>3. step # "before" => StreamFor(Cur, Msg.level)' = StreamFor(Cur, Msg.level)
  BY DEF StreamFor, Colored
<1>4. ASSUME NEW s \in Streams
      PROVE  out'[s] = Lines(s)' \o (IF step' # "before" /\ fp'[Cur'] = s THEN Begun' ELSE <<>>)
  BY <1>1, <1>2 DEF Streamed
<1>5. QED
  BY <1>3, <1>4 DEF Streamed

LEMMA SaidFacts ==
  /\ ColorOn \in Seq(Part) /\ Text \in Seq(Part)
  /\ ColorOn \o <<"meta">> \in Seq(Part) /\ ColorOn \o <<"meta">> \o Text \in Seq(Part)
  /\ step = "meta" => Said = ColorOn
  /\ step = "write" => Said = ColorOn \o <<"meta">>
  /\ step = "after" => Said = ColorOn \o <<"meta">> \o Text
<1>1. ColorOn \in Seq(Part) /\ Text \in Seq(Part)
  BY Words DEF ColorOn, Text
<1>2. ColorOn \o <<"meta">> \in Seq(Part)
  BY <1>1, Words, ConcatTyped
<1>3. ColorOn \o <<"meta">> \o Text \in Seq(Part)
  BY <1>1, <1>2, ConcatTyped
<1>4. QED
  BY <1>1, <1>2, <1>3 DEF Said

(* What Streamed says while a line is begun. *)
LEMMA StreamedShows ==
  ASSUME Streamed, step # "before"
  PROVE  Shows(out, Said, fp[Cur], Msg.id, Cur)
BY DEF Streamed, Shows, Begun

(* A call that writes a part of the line, and what it makes of the stream. *)
LEMMA PartWritten ==
  ASSUME DeliveryInv, Handling, step' \in {"meta", "write", "after"},
         UNCHANGED <<ctx, level, bufsize, queue, hi, calls, journal, reset>>,
         fp' \in [HandlerSet -> Streams \cup {"none"}], out' \in [Streams -> Seq(Piece)],
         fp'[Cur] = StreamFor(Cur, Msg.level), unflushed' \subseteq {fp'[Cur]},
         step' = "write" => ~Msg.empty,
         NEW said, said = Said', Shows(out', said, fp'[Cur], Msg.id, Cur)
  PROVE  Streamed'
<1>1. Cur' = Cur /\ Msg' = Msg
  BY DEF Cur, Msg
<1>2. StreamFor(Cur, Msg.level)' = StreamFor(Cur, Msg.level)
  BY <1>1 DEF StreamFor, Colored
<1>3. \A s : Lines(s)' = Lines(s)
  BY LinesKept DEF DeliveryInv
<1>4. Begun' = Tag(said, Msg.id, Cur)
  BY <1>1, Zenon DEF Begun, Tag
<1>5. ASSUME NEW s \in Streams
      PROVE  out'[s] = Lines(s)' \o (IF step' # "before" /\ fp'[Cur'] = s THEN Begun' ELSE <<>>)
  <2>1. out'[s] = Lines(s) \o (IF fp'[Cur] = s THEN Tag(said, Msg.id, Cur) ELSE <<>>)
    BY Zenon DEF Shows
  <2>2. step' # "before"
    OBVIOUS
  <2>3. QED
    BY <1>1, <1>3, <1>4, <2>1, <2>2, Zenon
<1>6. QED
  BY <1>1, <1>2, <1>5 DEF Streamed

LEMMA BeforeWriteStreams ==
  ASSUME DeliveryInv, Streamed, BeforeWrite
  PROVE  Streamed'
<1>0. Types /\ Setup /\ Queued /\ Loop /\ Past /\ Delivery
  BY DEF DeliveryInv
<1>1. /\ Handling /\ step = "before" /\ step' = "meta" /\ unflushed = {}
      /\ fp' = [fp EXCEPT ![Cur] = StreamFor(Cur, Msg.level)]
      /\ UNCHANGED <<ctx, level, bufsize, queue, hi, calls, journal, reset>>
      /\ fp \in [HandlerSet -> Streams \cup {"none"}] /\ out \in [Streams -> Seq(Piece)]
  BY DEF BeforeWrite, Streamed
<1>2. PICK h \in HandlerSet, id \in Nat, t \in Streams :
        h = Cur /\ id = Msg.id /\ t = StreamFor(Cur, Msg.level)
  BY <1>0, <1>1, CurFacts, StreamForType
<1>3. fp' \in [HandlerSet -> Streams \cup {"none"}] /\ fp'[h] = t
  BY <1>1, <1>2
<1>4. Shows(out, <<>>, t, id, h)
  <2>1. Tag(<<>>, id, h) = <<>>
    BY DEF Tag
  <2>2. QED
    BY <1>1, <2>1 DEF Shows, Streamed
<1>5. Cur' = Cur /\ Msg' = Msg
  BY <1>1 DEF Cur, Msg
<1>6. PICK said : said = Said'
  OBVIOUS
<1>7. said = IF Colored(Cur, Msg.level) THEN <<"color">> ELSE <<>>
  <2>1. Said' = ColorOn'
    BY <1>1 DEF Said
  <2>2. QED
    BY <1>5, <1>6, <2>1, Zenon DEF ColorOn, Colored
<1>8. /\ Shows(out', said, t, id, h) /\ out' \in [Streams -> Seq(Piece)]
      /\ unflushed' \subseteq {t}
  <2>1. CASE ~Colored(Cur, Msg.level)
    <3>1. out' = out /\ unflushed' = unflushed /\ said = <<>>
      BY <1>7, <2>1 DEF BeforeWrite
    <3>2. QED
      BY <1>1, <1>4, <3>1
  <2>2. CASE Colored(Cur, Msg.level)
    <3>1. Put("stderr", <<"color">>) /\ t = "stderr" /\ said = <<"color">>
      BY <1>2, <1>7, <2>2, StreamForType DEF BeforeWrite
    <3>2. out' = [out EXCEPT ![t] = @ \o Tag(<<"color">>, id, h)] /\ unflushed' = unflushed
      BY <1>2, <3>1 DEF Put, Tag
    <3>3. <<>> \in Seq(Part) /\ <<"color">> \in Seq(Part) /\ <<>> \o <<"color">> = <<"color">>
      BY Words
    <3>4. Shows(out', <<>> \o <<"color">>, t, id, h) /\ out' \in [Streams -> Seq(Piece)]
      <4>1. PICK o, a, b : o = out' /\ a = <<>> /\ b = <<"color">>
        OBVIOUS
      <4>2. /\ Types /\ Setup /\ Past /\ out \in [Streams -> Seq(Piece)]
            /\ a \in Seq(Part) /\ b \in Seq(Part)
            /\ Shows(out, a, t, id, h) /\ o = [out EXCEPT ![t] = @ \o Tag(b, id, h)]
        BY <1>0, <1>1, <1>4, <3>2, <3>3, <4>1, Zenon
      <4>3. Shows(o, a \o b, t, id, h) /\ o \in [Streams -> Seq(Piece)]
        BY <4>2, MoreSaid
      <4>4. QED
        BY <4>1, <4>3, Zenon
    <3>5. QED
      BY <1>1, <3>1, <3>2, <3>3, <3>4
  <2>3. QED
    BY <2>1, <2>2
<1>9. fp'[Cur] = StreamFor(Cur, Msg.level) /\ unflushed' \subseteq {fp'[Cur]}
      /\ Shows(out', said, fp'[Cur], Msg.id, Cur)
  BY <1>2, <1>3, <1>8, Zenon
<1>10. step' \in {"meta", "write", "after"} /\ (step' = "write" => ~Msg.empty)
  BY <1>1
<1>11. QED
  BY <1>1, <1>3, <1>6, <1>8, <1>9, <1>10, PartWritten

(* Put adds to what is said of the line. *)
LEMMA PutSays ==
  ASSUME DeliveryInv, Streamed, step # "before", NEW w \in Seq(Part), Put(fp[Cur], w)
  PROVE  /\ Handling /\ fp[Cur] = StreamFor(Cur, Msg.level) /\ unflushed' \subseteq {fp[Cur]}
         /\ out' \in [Streams -> Seq(Piece)]
         /\ Shows(out', Said \o w, fp[Cur], Msg.id, Cur)
<1>0. Types /\ Setup /\ Past /\ Loop /\ Handling
  BY DEF DeliveryInv, Loop
<1>1. PICK h \in HandlerSet, id \in Nat, t \in Streams : h = Cur /\ id = Msg.id /\ t = fp[Cur]
  BY <1>0, CurFacts, StreamForType DEF Streamed
<1>2. PICK o, a : o = out' /\ a = Said
  OBVIOUS
<1>3. a \in Seq(Part)
  <2>1. step \in {"meta", "write", "after"}
    BY <1>0 DEF Types, Steps
  <2>2. QED
    BY <1>2, <2>1, SaidFacts
<1>4. o = [out EXCEPT ![t] = @ \o Tag(w, id, h)]
  BY <1>1, <1>2 DEF Put, Tag
<1>5. Shows(out, a, t, id, h) /\ out \in [Streams -> Seq(Piece)]
  BY <1>1, <1>2, StreamedShows DEF Streamed
<1>6. Shows(o, a \o w, t, id, h) /\ o \in [Streams -> Seq(Piece)]
  BY <1>0, <1>3, <1>4, <1>5, MoreSaid
<1>7. unflushed' \subseteq {fp[Cur]} /\ fp[Cur] = StreamFor(Cur, Msg.level)
  BY DEF Put, Streamed
<1>8. QED
  BY <1>0, <1>1, <1>2, <1>6, <1>7, Zenon

LEMMA PartStreams ==
  ASSUME DeliveryInv, Streamed, WriteMeta \/ Write
  PROVE  Streamed'
<1>1. /\ step \in {"meta", "write"} /\ step' \in {"write", "after"}
      /\ UNCHANGED <<ctx, level, fp, bufsize, queue, hi, calls, journal, reset>>
      /\ step' = "write" => ~Msg.empty
      /\ step # "before" /\ step' \in {"meta", "write", "after"}
  BY DEF WriteMeta, Write
<1>2. PICK w \in Seq(Part) :
        w = (IF step = "meta" THEN <<"meta">> ELSE <<"msg">>) /\ Put(fp[Cur], w)
  BY Words DEF WriteMeta, Write
<1>3. /\ Handling /\ fp[Cur] = StreamFor(Cur, Msg.level) /\ unflushed' \subseteq {fp[Cur]}
      /\ out' \in [Streams -> Seq(Piece)]
      /\ Shows(out', Said \o w, fp[Cur], Msg.id, Cur)
  BY <1>1, <1>2, PutSays
<1>4. ColorOn' = ColorOn /\ Text' = Text
  <2>1. Cur' = Cur /\ Msg' = Msg
    BY <1>1 DEF Cur, Msg
  <2>2. QED
    BY <2>1, Zenon DEF ColorOn, Text, Colored
<1>5. Said \o w = Said'
  <2>1. CASE step = "meta" /\ ~Msg.empty
    <3>1. step' = "write"
      BY <2>1 DEF WriteMeta, Write
    <3>2. Said' = ColorOn' \o <<"meta">> /\ Said = ColorOn
      BY <2>1, <3>1 DEF Said
    <3>3. QED
      BY <1>2, <1>4, <2>1, <3>2, Zenon
  <2>2. CASE step = "meta" /\ Msg.empty
    <3>1. step' = "after"
      BY <2>2 DEF WriteMeta, Write
    <3>2. Said' = ColorOn' \o <<"meta">> \o Text' /\ Said = ColorOn
      BY <2>2, <3>1 DEF Said
    <3>3. Text = <<>> /\ (ColorOn \o <<"meta">>) \o <<>> = ColorOn \o <<"meta">>
      BY <2>2, SaidFacts, Words DEF Text
    <3>4. QED
      BY <1>2, <1>4, <2>2, <3>2, <3>3, Zenon
  <2>3. CASE step = "write"
    <3>1. step' = "after" /\ ~Msg.empty
      BY <2>3 DEF WriteMeta, Write, Streamed
    <3>2. Said' = ColorOn' \o <<"meta">> \o Text' /\ Said = ColorOn \o <<"meta">>
      BY <2>3, <3>1 DEF Said
    <3>3. Text = <<"msg">> /\ w = <<"msg">>
      BY <1>2, <2>3, <3>1 DEF Text
    <3>4. QED
      BY <1>4, <3>2, <3>3, Zenon
  <2>4. QED
    BY <1>1, <2>1, <2>2, <2>3
<1>6. PICK said : said = Said'
  OBVIOUS
<1>7. /\ fp' \in [HandlerSet -> Streams \cup {"none"}] /\ fp'[Cur] = StreamFor(Cur, Msg.level)
      /\ unflushed' \subseteq {fp'[Cur]}
  BY <1>1, <1>3 DEF Streamed
<1>8. Shows(out', said, fp'[Cur], Msg.id, Cur)
  <2>1. fp' = fp
    BY <1>1
  <2>2. QED
    BY <1>3, <1>5, <1>6, <2>1, Zenon
<1>9. QED
  BY <1>1, <1>3, <1>6, <1>7, <1>8, PartWritten

LEMMA AfterWriteStreams ==
  ASSUME DeliveryInv, Streamed, AfterWrite
  PROVE  Streamed'
<1>0. Types /\ Setup /\ Queued /\ Loop /\ Past
  BY DEF DeliveryInv
<1> DEFINE tail == IF Colored(Cur, Msg.level) THEN <<"nl", "rst">> ELSE <<"nl">>
<1>1. /\ step = "after" /\ step' = "before" /\ unflushed' = unflushed \ {fp[Cur]} /\ fp' = fp
      /\ out' = [out EXCEPT ![fp[Cur]] = @ \o Tag(tail, Msg.id, Cur)]
      /\ journal' = Append(journal, [h |-> Cur, id |-> Msg.id])
      /\ calls' = calls
  BY DEF AfterWrite, Tag
<1>2. Handling /\ fp[Cur] = StreamFor(Cur, Msg.level)
  BY <1>0, <1>1 DEF Loop, Streamed
<1>3. PICK h \in HandlerSet, id \in DOMAIN calls, t \in Streams, e \in Entry :
        /\ h = Cur /\ id = Msg.id /\ t = fp[Cur] /\ calls[id] = Msg /\ id \in Nat
        /\ e = [h |-> h, id |-> id] /\ e.id = id
  <2>1. /\ Cur \in HandlerSet /\ Msg.id \in DOMAIN calls /\ calls[Msg.id] = Msg /\ Msg.id \in Nat
        /\ fp[Cur] \in Streams
    BY <1>0, <1>2, CurFacts, SeqFacts, StreamForType DEF Queued
  <2>2. [h |-> Cur, id |-> Msg.id] \in Entry
    BY <2>1 DEF Entry
  <2>3. QED
    BY <2>1, <2>2
<1>4. PICK a \in Seq(Part), w \in Seq(Part) : a = Said /\ w = tail
  BY <1>1, SaidFacts, Words
<1>5. /\ Line(e).stream = t /\ Line(e).text = Tag(a \o w, id, h) /\ Line(e).text \in Seq(Piece)
  <2>1. /\ Line(e).stream = StreamFor(h, calls[id].level)
        /\ Line(e).text = Tag(((IF Colored(h, calls[id].level) THEN <<"color">> ELSE <<>>)
                                 \o <<"meta">> \o (IF calls[id].empty THEN <<>> ELSE <<"msg">>))
                              \o (IF Colored(h, calls[id].level) THEN <<"nl", "rst">> ELSE <<"nl">>),
                              id, h)
        /\ Line(e).text \in Seq(Piece)
    BY <1>0, <1>3, LineFacts
  <2>2. a = (IF Colored(h, calls[id].level) THEN <<"color">> ELSE <<>>)
              \o <<"meta">> \o (IF calls[id].empty THEN <<>> ELSE <<"msg">>)
    <3>1. a = ColorOn \o <<"meta">> \o Text
      BY <1>1, <1>4, SaidFacts
    <3>2. QED
      BY <1>3, <3>1, Zenon DEF ColorOn, Text
  <2>3. w = IF Colored(h, calls[id].level) THEN <<"nl", "rst">> ELSE <<"nl">>
    BY <1>3, <1>4, Zenon
  <2>4. QED
    BY <1>2, <1>3, <2>1, <2>2, <2>3, Zenon
<1>6. PICK o : o = out'
  OBVIOUS
<1>7. Shows(o, a \o w, t, id, h) /\ o \in [Streams -> Seq(Piece)]
  <2>1. o = [out EXCEPT ![t] = @ \o Tag(w, id, h)]
    BY <1>1, <1>3, <1>4, <1>6
  <2>2. Shows(out, a, t, id, h) /\ out \in [Streams -> Seq(Piece)]
    BY <1>1, <1>3, <1>4, StreamedShows DEF Streamed
  <2>3. QED
    BY <1>0, <1>3, <2>1, <2>2, MoreSaid
<1>8. ASSUME NEW s \in Streams PROVE out'[s] = Lines(s)' \o <<>>
  <2>1. Lines(s)' = Lines(s) \o Share(s, e)
    BY <1>0, <1>1, <1>3, LinesAppend
  <2>2. Share(s, e) = IF t = s THEN Tag(a \o w, id, h) ELSE <<>>
    BY <1>5, Zenon DEF Share
  <2>3. o[s] = Lines(s) \o (IF t = s THEN Tag(a \o w, id, h) ELSE <<>>)
    BY <1>7, Zenon DEF Shows
  <2>4. o[s] \in Seq(Piece)
    BY <1>7
  <2>5. o[s] \o <<>> = o[s]
    BY <2>4, ConcatEmptySeq
  <2>6. QED
    BY <1>6, <2>1, <2>2, <2>3, <2>5, Zenon
<1>9. unflushed' = {}
  BY <1>1 DEF Streamed
<1>10. fp' \in [HandlerSet -> Streams \cup {"none"}] /\ out' \in [Streams -> Seq(Piece)]
  BY <1>1, <1>6, <1>7 DEF Streamed
<1>11. QED
  BY <1>1, <1>8, <1>9, <1>10 DEF Streamed

LEMMA StreamsStep ==
  ASSUME DeliveryInv, Streamed, [Next]_vars
  PROVE  Streamed'
<1>0. Types /\ Setup /\ Loop
  BY DEF DeliveryInv
<1>1. CASE BeforeWrite
  BY <1>1, BeforeWriteStreams
<1>2. CASE WriteMeta \/ Write
  BY <1>2, PartStreams
<1>3. CASE AfterWrite
  BY <1>3, AfterWriteStreams
<1>4. CASE ~(BeforeWrite \/ WriteMeta \/ Write \/ AfterWrite)
  <2>1. UNCHANGED <<fp, out, unflushed, step, journal>>
    BY <1>4 DEF Next, Backend, vars, output, AddHandler, AddRefused, SetLevel, SetBytesBufSize,
                SetMsgBufSize, Log, BackendRun, Skip, NextMessage, Idle
  <2>2. \A c \in DOMAIN calls : calls'[c] = calls[c]
    <3>1. ASSUME NEW l \in Levels, NEW empty \in BOOLEAN, Log(l, empty)
          PROVE  \A c \in DOMAIN calls : calls'[c] = calls[c]
      <4>1. PICK m : calls' = Append(calls, m)
        BY <3>1 DEF Log
      <4>2. QED
        BY <1>0, <4>1, SeqFacts DEF Types
    <3>2. CASE calls' = calls
      BY <3>2
    <3>3. QED
      BY <1>4, <3>1, <3>2 DEF Next, Backend, vars, AddHandler, AddRefused, SetLevel,
           SetBytesBufSize, SetMsgBufSize, BackendRun, Skip, NextMessage, Idle
  <2>3. step # "before" => Cur' = Cur /\ Msg' = Msg
    <3> SUFFICES ASSUME step # "before" PROVE Cur' = Cur /\ Msg' = Msg
      OBVIOUS
    <3>1. Handling /\ Running /\ queue # <<>> /\ hi <= Len(ctx.handlers)
      BY <1>0 DEF Loop, Handling
    <3>2. Len(ctx.handlers) \in Nat /\ hi \in Nat
      BY <1>0, HandlerFacts DEF Types
    <3>3. ASSUME NEW l \in Levels, NEW empty \in BOOLEAN, Log(l, empty)
          PROVE  Cur' = Cur /\ Msg' = Msg
      <4>1. Cur' = Cur
        BY <3>3 DEF Log, Cur
      <4>2. PICK m : queue' = queue \/ queue' = Append(queue, m)
        BY <3>3 DEF Log
      <4>3. queue \in Seq(Message)
        BY <1>0 DEF Types
      <4>4. Head(queue') = Head(queue)
        BY <3>1, <4>2, <4>3, HeadTailAppend
      <4>5. QED
        BY <4>1, <4>4 DEF Msg
    <3>4. CASE UNCHANGED <<ctx, queue, hi>>
      BY <3>4 DEF Cur, Msg
    <3>5. QED
      BY <1>4, <3>1, <3>2, <3>3, <3>4 DEF Next, Backend, vars, AddHandler, AddRefused, SetLevel,
           SetBytesBufSize, SetMsgBufSize, BackendRun, Skip, NextMessage, Idle
  <2>4. QED
    BY <2>1, <2>2, <2>3, SilentStep
<1>5. QED
  BY <1>1, <1>2, <1>3, <1>4

(* Between two lines every stream is the lines of the journal that belong  *)
(* to it, each whole and in one piece, and stdio holds nothing back.       *)
THEOREM StreamsShowWholeLines == Spec => []LinesWhole
<1>1. Init => DeliveryInv /\ Streamed
  BY DeliveryInit, StreamsInit
<1>2. DeliveryInv /\ Streamed /\ [Next]_vars => (DeliveryInv /\ Streamed)'
  BY DeliveryStep, StreamsStep
<1>3. DeliveryInv /\ Streamed => LinesWhole
  <2> SUFFICES ASSUME DeliveryInv, Streamed, step = "before"
               PROVE  unflushed = {} /\ \A s \in Streams : out[s] = Lines(s)
    BY DEF LinesWhole
  <2>1. ASSUME NEW s \in Streams PROVE out[s] = Lines(s)
    <3>1. Lines(s) \in Seq(Piece)
      BY LinesTyped DEF DeliveryInv
    <3>2. out[s] = Lines(s) \o <<>>
      BY DEF Streamed
    <3>3. QED
      BY <3>1, <3>2, ConcatEmptySeq
  <2>2. QED
    BY <2>1 DEF Streamed
<1>4. QED
  BY <1>1, <1>2, <1>3, PTL DEF Spec

=============================================================================
