--------------------------- MODULE CallSiteProofs ---------------------------
(***************************************************************************)
(* Theorems on the double-checked creation of a primitive, for any set of  *)
(* threads that log at the same place, any number of times.                *)
(***************************************************************************)
EXTENDS CallSite, TLAPS

Critical == {"recheck", "gen", "unlock"}

(* The lock is held by at most one thread, the one between lock and unlock, *)
(* and it sees all there is: nobody else can store.                         *)
OneInside ==
  /\ \A t \in Threads : t \in lock <=> pc[t] \in Critical
  /\ \A t, u \in lock : t = u
  /\ \A t \in lock : seen[t] = Stored

(* A thread generates only when there is none, and leaves with one unless  *)
(* it failed.                                                              *)
GenOnlyFirst ==
  /\ \A t \in Threads : pc[t] = "gen" => made = 0
  /\ \A t \in Threads : pc[t] = "unlock" => made # 0 \/ t \in failed

SiteInv == TypeOK /\ OneInside /\ GenOnlyFirst /\ GeneratedOnce /\ NullOnlyAfterFailure

-----------------------------------------------------------------------------
LEMMA SiteInit == Init => SiteInv
BY DEF Init, SiteInv, TypeOK, OneInside, GenOnlyFirst, GeneratedOnce,
       NullOnlyAfterFailure, Critical, SitePc, Stored

LEMMA SiteStep == SiteInv /\ [Next]_vars => SiteInv'
<1> SUFFICES ASSUME SiteInv, [Next]_vars PROVE SiteInv'
  OBVIOUS
<1> USE DEF SiteInv, TypeOK, OneInside, GenOnlyFirst, GeneratedOnce,
            NullOnlyAfterFailure, Critical, SitePc, Stored, Stores
<1>1. CASE UNCHANGED vars
  BY <1>1 DEF vars
<1>2. ASSUME NEW t \in Threads, Call(t) PROVE SiteInv'
  BY <1>2 DEF Call, Goto
<1>3. ASSUME NEW t \in Threads, Check(t) PROVE SiteInv'
  BY <1>3 DEF Check, Goto
<1>4. ASSUME NEW t \in Threads, Lock(t) PROVE SiteInv'
  BY <1>4 DEF Lock, Goto
<1>5. ASSUME NEW t \in Threads, Recheck(t) PROVE SiteInv'
  BY <1>5 DEF Recheck, Goto
<1>6. ASSUME NEW t \in Threads, Gen(t) PROVE SiteInv'
  BY <1>6 DEF Gen, Goto
<1>7. ASSUME NEW t \in Threads, GenFails(t) PROVE SiteInv'
  BY <1>7 DEF GenFails, Goto
<1>8. ASSUME NEW t \in Threads, Unlock(t) PROVE SiteInv'
  BY <1>8 DEF Unlock, Goto
<1>9. ASSUME NEW t \in Threads, Use(t) PROVE SiteInv'
  BY <1>9 DEF Use, Goto
<1>10. ASSUME NEW t \in Threads, NEW x \in Stores, See(t, x) PROVE SiteInv'
  BY <1>10 DEF See
<1>11. QED
  BY <1>1, <1>2, <1>3, <1>4, <1>5, <1>6, <1>7, <1>8, <1>9, <1>10 DEF Next, Step

LEMMA SiteInvariance == Spec => []SiteInv
BY SiteInit, SiteStep, PTL DEF Spec

(* The type invariant: nobody sees a store before it is made. *)
THEOREM TypeCorrect == Spec => []TypeOK
<1>1. SiteInv => TypeOK
  BY DEF SiteInv
<1>2. QED
  BY <1>1, SiteInvariance, PTL

(* The second test under the lock is enough: whatever the hardware does    *)
(* with the plain pointer, and whatever fails, there is one primitive.     *)
THEOREM OnePrimitive == Spec => []GeneratedOnce
<1>1. SiteInv => GeneratedOnce
  BY DEF SiteInv
<1>2. QED
  BY <1>1, SiteInvariance, PTL

(* serialize gets NULL only in a call whose own gen failed. *)
THEOREM NullIsOwnFailure == Spec => []NullOnlyAfterFailure
<1>1. SiteInv => NullOnlyAfterFailure
  BY DEF SiteInv
<1>2. QED
  BY <1>1, SiteInvariance, PTL
=============================================================================
