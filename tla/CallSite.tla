------------------------------ MODULE CallSite ------------------------------
(***************************************************************************)
(* HACLOG_SERIALIZE at one place of the program: the static pointer to its *)
(* primitive, created once by double-checked locking and read by every     *)
(* thread that logs there.                                                 *)
(*                                                                         *)
(* The pointer and the fields behind it are plain variables.  A store is   *)
(* seen by another thread at some later time, at the latest when it takes  *)
(* the lock after the storing thread has released it (acquire, release).   *)
(***************************************************************************)
EXTENDS Naturals

CONSTANTS
  Threads,      \* threads that log at this place
  GenMayFail    \* haclog_printf_primitive_gen may return NULL

ASSUME CallSiteAssumption == GenMayFail \in BOOLEAN

VARIABLES
  made,     \* number of primitives generated; primitive # NULL iff it is not 0
  seen,     \* the stores of the generating thread that each thread can see
  lock,     \* the threads that hold the static spinlock of the macro
  pc,       \* where each thread is in the macro
  failed    \* history: the threads whose gen returned NULL in this call

vars == << made, seen, lock, pc, failed >>

Stores == {"fields", "primitive"}
SitePc == {"idle", "check", "lock", "recheck", "gen", "unlock", "use", "dead"}

(* What there is to be seen. *)
Stored == IF made = 0 THEN {} ELSE Stores

Init ==
  /\ made = 0
  /\ seen = [t \in Threads |-> {}]
  /\ lock = {}
  /\ pc = [t \in Threads |-> "idle"]
  /\ failed = {}

Goto(t, label) == pc' = [pc EXCEPT ![t] = label]

(* The application logs. *)
Call(t) ==
  /\ pc[t] = "idle"
  /\ Goto(t, "check")
  /\ failed' = failed \ {t}
  /\ UNCHANGED << made, seen, lock >>

(* The first test, outside the lock. *)
Check(t) ==
  /\ pc[t] = "check"
  /\ Goto(t, IF "primitive" \in seen[t] THEN "use" ELSE "lock")
  /\ UNCHANGED << made, seen, lock, failed >>

(* A variant of Lock with a mistake: it does not acquire. *)
Lock_Relaxed(t) ==
  /\ pc[t] = "lock" /\ lock = {}
  /\ lock' = {t}
  /\ Goto(t, "recheck")
  /\ UNCHANGED << made, seen, failed >>

(* haclog_spinlock_lock: whatever was stored under the lock can be seen. *)
Lock(t) ==
  /\ pc[t] = "lock" /\ lock = {}
  /\ lock' = {t}
  /\ seen' = [seen EXCEPT ![t] = Stored]
  /\ Goto(t, "recheck")
  /\ UNCHANGED << made, failed >>

(* Variants of Recheck with a mistake: there is no second test, and the    *)
(* lock is kept when the primitive is there.                               *)
Recheck_Never(t) ==
  /\ pc[t] = "recheck"
  /\ Goto(t, "gen")
  /\ UNCHANGED << made, seen, lock, failed >>

Recheck_KeepsLock(t) ==
  /\ pc[t] = "recheck"
  /\ Goto(t, IF made = 0 THEN "gen" ELSE "use")
  /\ UNCHANGED << made, seen, lock, failed >>

(* The second test. *)
Recheck(t) ==
  /\ pc[t] = "recheck"
  /\ Goto(t, IF made = 0 THEN "gen" ELSE "unlock")
  /\ UNCHANGED << made, seen, lock, failed >>

(* haclog_printf_primitive_gen fills the fields and the macro stores the   *)
(* pointer; for now only this thread sees it.                              *)
Gen(t) ==
  /\ pc[t] = "gen"
  /\ made' = made + 1
  /\ seen' = [seen EXCEPT ![t] = Stores]
  /\ Goto(t, "unlock")
  /\ UNCHANGED << lock, failed >>

(* A bad format or no memory: the pointer stays NULL. *)
GenFails(t) ==
  /\ pc[t] = "gen" /\ GenMayFail
  /\ failed' = failed \cup {t}
  /\ Goto(t, "unlock")
  /\ UNCHANGED << made, seen, lock >>

Unlock(t) ==
  /\ pc[t] = "unlock"
  /\ lock' = lock \ {t}
  /\ Goto(t, "use")
  /\ UNCHANGED << made, seen, failed >>

(* The pointer is read again, as an argument of                            *)
(* haclog_printf_primitive_serialize, which does not test it: with NULL    *)
(* the process ends.                                                       *)
Use(t) ==
  /\ pc[t] = "use"
  /\ Goto(t, IF "primitive" \in seen[t] THEN "idle" ELSE "dead")
  /\ UNCHANGED << made, seen, lock, failed >>

(* A store of another thread is seen, in whatever order: nothing orders    *)
(* the accesses of the plain pointer and of the fields outside the lock.   *)
See(t, x) ==
  /\ x \in Stored \ seen[t]
  /\ seen' = [seen EXCEPT ![t] = @ \cup {x}]
  /\ UNCHANGED << made, lock, pc, failed >>

Alive == \A t \in Threads : pc[t] # "dead"

(* The steps of a thread inside the macro. *)
Step(t) ==
  \/ Check(t) \/ Lock(t) \/ Recheck(t) \/ Gen(t) \/ GenFails(t) \/ Unlock(t) \/ Use(t)

Next ==
  /\ Alive
  /\ \E t \in Threads :
       \/ Call(t) \/ Step(t)
       \/ \E x \in Stores : See(t, x)

Spec == Init /\ [][Next]_vars

(* Threads keep running, and one that finds the lock free again and again  *)
(* gets it.                                                                *)
FairSpec ==
  Spec /\ \A t \in Threads : WF_vars(Alive /\ Step(t)) /\ SF_vars(Alive /\ Lock(t))

-----------------------------------------------------------------------------
(* Properties. *)

TypeOK ==
  /\ made \in Nat
  /\ seen \in [Threads -> SUBSET Stored]
  /\ lock \in SUBSET Threads
  /\ pc \in [Threads -> SitePc]
  /\ failed \in SUBSET Threads

(* However many threads log here for the first time at once, one primitive *)
(* is generated: none is leaked, and all messages refer to the same one.   *)
GeneratedOnce == made <= 1

(***************************************************************************)
(* "for double-checked lock safe, min required c11" (haclog_log.h): a      *)
(* thread that goes past the first test, or that comes out of the lock,    *)
(* never follows the pointer to fields it cannot see.  C11 orders only     *)
(* atomic accesses, and the code does not keep this: see README.md.        *)
(***************************************************************************)
UsesComplete ==
  \A t \in Threads : pc[t] = "use" /\ "primitive" \in seen[t] => "fields" \in seen[t]

(* serialize gets NULL only in a call whose own gen failed: a failure in   *)
(* one thread is not passed on to those that wait for the lock.            *)
NullOnlyAfterFailure ==
  \A t \in Threads :
    /\ pc[t] = "dead" => t \in failed
    /\ pc[t] = "use" /\ t \notin failed => "primitive" \in seen[t]

(* Every log call returns, unless a primitive that could not be generated  *)
(* ends the process: nobody waits forever for the lock of the call site.   *)
CallReturns == \A t \in Threads : pc[t] = "check" ~> pc[t] = "idle" \/ ~Alive
=============================================================================
