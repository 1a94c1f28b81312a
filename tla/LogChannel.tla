----------------------------- MODULE LogChannel -----------------------------
(***************************************************************************)
(* What the asynchronous path promises to one thread that logs: its calls  *)
(* return, a call publishes its message or drops it, and the published     *)
(* messages reach the handlers one by one in the order of the calls, each  *)
(* once, unchanged.  Nothing is said of buffers, positions or parts.       *)
(***************************************************************************)
EXTENDS Naturals, Sequences

VARIABLES
  calls,       \* number of log calls made; a message is named by its call
  open,        \* a log call is running
  pending,     \* published and not yet written by the handlers
  delivered    \* written by the handlers

vars == << calls, open, pending, delivered >>

Init == calls = 0 /\ open = FALSE /\ pending = << >> /\ delivered = << >>

Call ==
  /\ ~open
  /\ calls' = calls + 1
  /\ open' = TRUE
  /\ UNCHANGED << pending, delivered >>

Publish ==
  /\ open
  /\ pending' = Append(pending, calls)
  /\ open' = FALSE
  /\ UNCHANGED << calls, delivered >>

Drop ==
  /\ open
  /\ open' = FALSE
  /\ UNCHANGED << calls, pending, delivered >>

Deliver ==
  /\ pending # << >>
  /\ delivered' = Append(delivered, Head(pending))
  /\ pending' = Tail(pending)
  /\ UNCHANGED << calls, open >>

Next == Call \/ Publish \/ Drop \/ Deliver

SafeSpec == Init /\ [][Next]_vars

(* A call that runs returns, and what is pending is delivered. *)
Spec == SafeSpec /\ WF_vars(Publish \/ Drop) /\ WF_vars(Deliver)
=============================================================================
