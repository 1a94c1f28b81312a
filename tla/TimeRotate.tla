----------------------------- MODULE TimeRotate -----------------------------
(***************************************************************************)
(* The time rotating file handler: a file per period of rotate_mod units,  *)
(* named after the time of the message that opened it.  The handler looks  *)
(* at the time of a message after it has written it, and only at times     *)
(* later than every one it has seen: the backend reads the threads'        *)
(* buffers one after the other, so messages come out of order.  The        *)
(* process may end at any time and start again on the same files; a file   *)
(* may fail to open.                                                       *)
(*                                                                         *)
(* Time is counted in seconds, and the calendar (UTC) is a mixed radix     *)
(* whose digits are tm_sec, tm_min, tm_hour, tm_mday and the month.        *)
(***************************************************************************)
EXTENDS Integers, Sequences

CONSTANTS SecPerMin, MinPerHour, HourPerDay, DayPerMonth,
          Mods,         \* values of rotate_mod
          Start,        \* the clock at first
          MaxTime,      \* bound: the clock
          MaxLag,       \* bound: age of a message when it is handled
          MaxMsgs,      \* bound: messages
          MaxStarts     \* bound: starts of the process

ASSUME TimeAssumption ==
  /\ {SecPerMin, MinPerHour, HourPerDay, DayPerMonth} \subseteq Nat \ {0}
  /\ Mods \subseteq Nat \ {0}
  /\ {MaxTime, MaxLag, MaxMsgs, MaxStarts} \subseteq Nat
  /\ Start \in 1..MaxTime

VARIABLES unit, mod,    \* rotate_unit, rotate_mod
          now,          \* the clock
          last_sec,     \* handler->last_sec; last_tm is its calendar form
          fp,           \* name of the open file, or Closed
          files,        \* the file system: names to the times written there
          up,           \* the process runs and its handler is initialised
          handled,      \* history: times of the messages written
          starts

vars == <<unit, mod, now, last_sec, fp, files, up, handled, starts>>

Units == {"s", "m", "h", "d"}
Closed == -1

-----------------------------------------------------------------------------
(* The calendar.                                                           *)

SecsPer(u) == CASE u = "s" -> 1
                [] u = "m" -> SecPerMin
                [] u = "h" -> SecPerMin * MinPerHour
                [] u = "d" -> SecPerMin * MinPerHour * HourPerDay

(* gmtime_r: a day of the month counts from 1.                             *)
Tm(t) ==
  [sec   |-> t % SecPerMin,
   min   |-> (t \div SecsPer("m")) % MinPerHour,
   hour  |-> (t \div SecsPer("h")) % HourPerDay,
   mday  |-> ((t \div SecsPer("d")) % DayPerMonth) + 1,
   month |-> t \div (SecsPer("d") * DayPerMonth)]

(* The file name of rotate: the calendar down to the unit.                 *)
Name(t) == t \div SecsPer(unit)

(* Mutant: the larger fields of the calendar are not compared. *)
Differ_UnitOnly(a, b) ==
  LET x == Tm(a)
      y == Tm(b)
  IN  CASE unit = "s" -> x.sec \div mod /= y.sec \div mod
        [] unit = "m" -> x.min \div mod /= y.min \div mod
        [] unit = "h" -> x.hour \div mod /= y.hour \div mod
        [] unit = "d" -> x.mday \div mod /= y.mday \div mod

(* The comparison of detect: the unit by rotate_mod, every larger field as *)
(* it is.                                                                  *)
Differ(a, b) ==
  LET x == Tm(a)
      y == Tm(b)
  IN  \/ x.month /= y.month
      \/ unit = "d" /\ x.mday \div mod /= y.mday \div mod
      \/ unit /= "d" /\ x.mday /= y.mday
      \/ unit = "h" /\ x.hour \div mod /= y.hour \div mod
      \/ unit \in {"s", "m"} /\ x.hour /= y.hour
      \/ unit = "m" /\ x.min \div mod /= y.min \div mod
      \/ unit = "s" /\ (x.min /= y.min \/ x.sec \div mod /= y.sec \div mod)

-----------------------------------------------------------------------------

Init ==
  /\ unit \in Units /\ mod \in Mods /\ now = Start
  /\ last_sec = 0 /\ fp = Closed /\ files = << >> /\ up = FALSE
  /\ handled = <<>> /\ starts = 0

Tick ==
  /\ now < MaxTime
  /\ now' \in (now + 1)..MaxTime
  /\ UNCHANGED <<unit, mod, last_sec, fp, files, up, handled, starts>>

(* Mutant: a file that exists is opened with "wb". *)
OpenFile_Truncates(f, name) ==
  [n \in DOMAIN f \cup {name} |-> IF n = name THEN <<>> ELSE f[n]]

(* haclog_os_fopen(name, "ab+"): what the file holds stays. *)
OpenFile(f, name) ==
  [n \in DOMAIN f \cup {name} |-> IF n \in DOMAIN f THEN f[n] ELSE <<>>]

(* haclog_file_time_rotate_handler_init. *)
HandlerInit ==
  /\ ~up /\ starts < MaxStarts
  /\ starts' = starts + 1 /\ last_sec' = now
  /\ \/ up' = TRUE /\ fp' = Name(now) /\ files' = OpenFile(files, Name(now))
     \/ UNCHANGED <<up, fp, files>>         \* the open fails, init too
  /\ UNCHANGED <<unit, mod, now, handled>>

(* Mutant: every message sets the time. *)
Later_Any(t) == TRUE

(* detect looks at times after the last one only. *)
Later(t) == last_sec < t

Rotates(t) == Later(t) /\ Differ(t, last_sec)

(* write_meta, write and after_write of a message with time ts: the line   *)
(* goes to the open file and is flushed, then detect and rotate.           *)
Handle(ts) ==
  /\ up /\ fp /= Closed /\ Len(handled) < MaxMsgs
  /\ LET t == IF ts = 0 THEN now ELSE ts
         f == [files EXCEPT ![fp] = Append(@, t)]
     IN  /\ last_sec' = IF Later(t) THEN t ELSE last_sec
         /\ handled' = Append(handled, t)
         /\ IF ~Rotates(t)
            THEN files' = f /\ UNCHANGED fp
            ELSE \/ fp' = Name(t) /\ files' = OpenFile(f, Name(t))
                 \/ fp' = Closed /\ files' = f         \* the open fails
  /\ UNCHANGED <<unit, mod, now, up, starts>>

(* Without a file nothing is written, and the time is not looked at.       *)
Drop == up /\ fp = Closed /\ UNCHANGED vars

(* The process ends. *)
Exit ==
  /\ up /\ up' = FALSE /\ fp' = Closed
  /\ UNCHANGED <<unit, mod, now, last_sec, files, handled, starts>>

Times == {0} \cup {t \in 1..now : t >= now - MaxLag}

Next == \/ Tick \/ HandlerInit \/ Drop \/ Exit
        \/ \E ts \in Times : Handle(ts)

Spec == Init /\ [][Next]_vars

-----------------------------------------------------------------------------
(* Properties.                                                             *)

(* The period of a time, by its number: days count from 1 within a month,  *)
(* and a month, a day, an hour or a minute starts a new period.            *)
Period(t) ==
  LET c == Tm(t)
      up1 == CASE unit = "s" -> t \div SecsPer("m")
               [] unit = "m" -> t \div SecsPer("h")
               [] unit = "h" -> t \div SecsPer("d")
               [] unit = "d" -> c.month
      digit == CASE unit = "s" -> c.sec [] unit = "m" -> c.min
                 [] unit = "h" -> c.hour [] unit = "d" -> c.mday
  IN  up1 * (MaxTime + 1) + digit \div mod

PeriodOfFile(n) == Period(n * SecsPer(unit))

(* A file holds no message of a period later than its own, but for its     *)
(* last one: the message that made the handler rotate.  Late messages do   *)
(* not turn the handler back, and no field of the calendar that comes      *)
(* round again (the same second of the next minute) hides a change.        *)
OneLineAhead ==
  \A n \in DOMAIN files : \A k \in DOMAIN files[n] :
    Period(files[n][k]) > PeriodOfFile(n) => k = Len(files[n])

(* The files f in the order of their names, read from end to end.          *)
ReadAll(f) ==
  LET read[n \in 0..(MaxTime + 1)] ==
        IF n = 0 THEN <<>>
        ELSE read[n - 1] \o (IF n - 1 \in DOMAIN f THEN f[n - 1] ELSE <<>>)
  IN  read[MaxTime + 1]

(* The files in the order of their names are the messages in the order     *)
(* they were handled, each once, across rotations and restarts.            *)
FilesInOrder == DOMAIN files \subseteq 0..MaxTime /\ ReadAll(files) = handled

(* A file the handler has left is never written again: neither a late      *)
(* message nor a restart takes it up.                                      *)
LeftForGood ==
  [][\A n \in DOMAIN files :
       (\E m \in DOMAIN files : m > n) => n \in DOMAIN files' /\ files'[n] = files[n]]_vars
=============================================================================
