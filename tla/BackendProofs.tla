---------------------------- MODULE BackendProofs ----------------------------
(***************************************************************************)
(* Theorems on the life of the thread contexts, for any number of threads, *)
(* contexts and messages and whatever allocations fail.                    *)
(***************************************************************************)
EXTENDS Backend, FiniteSetTheorems, SequenceTheorems, TLAPS

Contexts == Threads \X (1 .. MaxContexts)

-----------------------------------------------------------------------------
(* The inductive invariant. *)

(* What a thread's position says of its context.  The backend answers only *)
(* a thread that waits, and a failed init never gets an answer.            *)
Local(t) ==
  /\ t_pc[t] # "null" => gen[t] > 0
  /\ t_pc[t] # "null" /\ ~failed[t] => has_buf[t]
  /\ failed[t] => t_pc[t] \in {"join", "mark", "wait"} /\ status[t] # DONE
  /\ status[t] = WAIT_REMOVE => t_pc[t] = "wait"
  /\ status[t] = DONE => t_pc[t] \in {"wait", "free", "null"}
  /\ t_pc[t] = "wait" => status[t] # NORMAL
  /\ t_pc[t] = "free" => status[t] = DONE
  /\ t_pc[t] = "exited" => ExitCall # "cleanup"

LocalInv == \A t \in Threads : Local(t)

(* The spinlock excludes: whoever works on the add list holds it, and what *)
(* a thread read there is still so when it stores.                         *)
LockInv ==
  /\ \A t \in Threads : t_pc[t] \in {"link", "store", "unlock"} <=> spinlock = t
  /\ b_pc = "drain" <=> spinlock = Back
  /\ \A t \in Threads : t_pc[t] = "store" => node_next[t] = th_ctx_add_list

(* The context of t is in a list: from the store of its node to the answer *)
(* of the backend.                                                         *)
Listed(t) ==
  /\ ~failed[t]
  /\ \/ t_pc[t] \in {"unlock", "ready", "exited", "join", "mark"}
     \/ t_pc[t] = "wait" /\ status[t] = WAIT_REMOVE

LiveEntry(c) == Listed(c[1]) /\ c[2] = gen[c[1]]

(* The entry the backend has answered and not unlinked yet: the context    *)
(* may be freed, and its thread may have another one.                      *)
StaleOf(u, g) ==
  g <= gen[u] /\ (g = gen[u] => t_pc[u] \in {"wait", "free", "null"} /\ status[u] = DONE)
StaleEntry(c) == StaleOf(c[1], c[2])

HeadEntry(i) ==
  IF b_pc = "unlink" /\ i = node THEN StaleEntry(th_ctx_head[i])
  ELSE LiveEntry(th_ctx_head[i])

Distinct(s) == \A i, j \in 1 .. Len(s) : s[i] = s[j] => i = j
In(c, s)    == \E i \in 1 .. Len(s) : s[i] = c

EntryInv ==
  /\ b_pc \in {"format", "write", "unlink"} => node <= Len(th_ctx_head)
  /\ \A i \in 1 .. Len(th_ctx_add_list) : LiveEntry(th_ctx_add_list[i])
  /\ \A i \in 1 .. Len(th_ctx_head) : HeadEntry(i)

OnceInv ==
  /\ Distinct(th_ctx_add_list) /\ Distinct(th_ctx_head)
  /\ \A i \in 1 .. Len(th_ctx_add_list), j \in 1 .. Len(th_ctx_head) :
       th_ctx_add_list[i] # th_ctx_head[j]
  /\ \A t \in Threads : Listed(t) =>
       In(Context(t), th_ctx_add_list) \/ In(Context(t), th_ctx_head)

(* The counters of a thread, and the messages the backend has seen. *)
CountInv ==
  /\ ReleasedThenWritten
  /\ b_pc = "write" => r[Owner(Current)] = handled[Owner(Current)] + 1
  /\ b_pc \in {"format", "write"} =>
       r[Owner(Current)] <= b_w /\ b_w <= w[Owner(Current)]

(* A thread past its join has nothing to be read, and one the backend has  *)
(* answered nothing to be written.                                         *)
ExitInv ==
  \A t \in Threads :
    /\ t_pc[t] \in {"mark", "wait", "free", "null"} \cup InitPc => r[t] = w[t]
    /\ t_pc[t] \in {"free", "null"} \/ (t_pc[t] = "wait" /\ status[t] = DONE) =>
         handled[t] = w[t]

IInv == LocalInv /\ LockInv /\ EntryInv /\ OnceInv /\ CountInv /\ ExitInv

-----------------------------------------------------------------------------
(* What the three operations on the lists do to them. *)

LEMMA Pushed ==
  ASSUME NEW S, NEW s \in Seq(S), NEW c \in S
  PROVE  LET q == << c >> \o s
         IN  /\ q \in Seq(S) /\ Len(q) = Len(s) + 1 /\ q[1] = c
             /\ \A i \in 1 .. Len(s) : q[i + 1] = s[i]
             /\ \A i \in 2 .. Len(q) : i - 1 \in 1 .. Len(s) /\ q[i] = s[i - 1]
<1>1. << c >> \in Seq(S) /\ Len(<< c >>) = 1 /\ << c >>[1] = c
  OBVIOUS
<1>2. QED
  BY <1>1

LEMMA Popped ==
  ASSUME NEW S, NEW s \in Seq(S), s # << >>
  PROVE  /\ Head(s) \in S /\ Head(s) = s[1] /\ 1 \in 1 .. Len(s)
         /\ Tail(s) \in Seq(S) /\ Len(Tail(s)) = Len(s) - 1
         /\ \A i \in 1 .. Len(Tail(s)) : i + 1 \in 1 .. Len(s) /\ Tail(s)[i] = s[i + 1]
OBVIOUS

LEMMA Joined ==
  ASSUME NEW S, NEW s \in Seq(S), NEW n \in 1 .. Len(s),
         NEW a \in Seq(S), Len(a) = n - 1, \A i \in 1 .. n - 1 : a[i] = s[i],
         NEW b \in Seq(S), Len(b) = Len(s) - n,
         \A i \in 1 .. Len(s) - n : b[i] = s[n + i]
  PROVE  /\ a \o b \in Seq(S) /\ Len(a \o b) = Len(s) - 1
         /\ \A i \in 1 .. Len(s) - 1 :
              (a \o b)[i] = IF i < n THEN s[i] ELSE s[i + 1]
<1>1. /\ a \o b \in Seq(S) /\ Len(a \o b) = Len(s) - 1
      /\ \A i \in 1 .. Len(s) - 1 :
           (a \o b)[i] = IF i < n THEN a[i] ELSE b[i - (n - 1)]
  <2>1. /\ a \o b \in Seq(S) /\ Len(a \o b) = Len(a) + Len(b)
        /\ \A i \in 1 .. Len(a) + Len(b) :
             (a \o b)[i] = IF i <= Len(a) THEN a[i] ELSE b[i - Len(a)]
    BY ConcatProperties, ZenonT(30)
  <2>2. Len(s) \in Nat /\ n \in Nat /\ Len(a) + Len(b) = Len(s) - 1
        /\ \A i \in 1 .. Len(s) - 1 : i <= n - 1 <=> i < n
    BY LenProperties
  <2>3. \A i \in 1 .. Len(s) - 1 : (a \o b)[i] = IF i <= n - 1 THEN a[i] ELSE b[i - (n - 1)]
    BY <2>1, <2>2, Zenon
  <2>4. QED
    BY <2>1, <2>2, <2>3, Zenon
<1>2. ASSUME NEW i \in 1 .. Len(s) - 1, ~(i < n)
      PROVE  b[i - (n - 1)] = s[i + 1]
  <2>1. i - (n - 1) \in 1 .. Len(s) - n /\ n + (i - (n - 1)) = i + 1
    BY <1>2
  <2>2. QED
    BY <2>1
<1>3. QED
  BY <1>1, <1>2

LEMMA Unlinked ==
  ASSUME NEW S, NEW s \in Seq(S), NEW n \in 1 .. Len(s)
  PROVE  LET q == SubSeq(s, 1, n - 1) \o SubSeq(s, n + 1, Len(s))
         IN  /\ q \in Seq(S) /\ Len(q) = Len(s) - 1
             /\ \A i \in 1 .. Len(s) - 1 :
                  q[i] = IF i < n THEN s[i] ELSE s[i + 1]
<1>1. /\ SubSeq(s, 1, n - 1) \in Seq(S)
      /\ Len(SubSeq(s, 1, n - 1)) = n - 1
      /\ \A i \in 1 .. n - 1 : SubSeq(s, 1, n - 1)[i] = s[i]
  OBVIOUS
<1>2. /\ SubSeq(s, n + 1, Len(s)) \in Seq(S)
      /\ Len(SubSeq(s, n + 1, Len(s))) = Len(s) - n
      /\ \A i \in 1 .. Len(s) - n : SubSeq(s, n + 1, Len(s))[i] = s[n + i]
  OBVIOUS
<1>3. PICK a : a = SubSeq(s, 1, n - 1)
  OBVIOUS
<1>4. PICK b : b = SubSeq(s, n + 1, Len(s))
  OBVIOUS
<1>5. /\ a \o b \in Seq(S) /\ Len(a \o b) = Len(s) - 1
      /\ \A i \in 1 .. Len(s) - 1 :
           (a \o b)[i] = IF i < n THEN s[i] ELSE s[i + 1]
  <2>1. a \in Seq(S) /\ Len(a) = n - 1 /\ \A i \in 1 .. n - 1 : a[i] = s[i]
    BY <1>1, <1>3, Zenon
  <2>2. b \in Seq(S) /\ Len(b) = Len(s) - n /\ \A i \in 1 .. Len(s) - n : b[i] = s[n + i]
    BY <1>2, <1>4, Zenon
  <2>3. QED
    BY <2>1, <2>2, Joined
<1>6. QED
  BY <1>3, <1>4, <1>5, Zenon

-----------------------------------------------------------------------------
(* The entry the backend is at belongs to a thread. *)
LEMMA CurrentType ==
  ASSUME TypeOK, node <= Len(th_ctx_head)
  PROVE  /\ node \in 1 .. Len(th_ctx_head)
         /\ Current \in Contexts /\ Owner(Current) \in Threads
         /\ Owner(Current) = th_ctx_head[node][1]
<1>1. th_ctx_head \in Seq(Contexts) /\ node \in Nat \ {0}
  BY DEF TypeOK, Contexts
<1>2. node \in 1 .. Len(th_ctx_head) /\ th_ctx_head[node] \in Contexts
  BY <1>1
<1>3. QED
  BY <1>2 DEF Current, Owner, Contexts

LEMMA ConstantFacts ==
  /\ MaxMsgs \in Nat /\ MaxContexts \in Nat
  /\ Unlocked # Back /\ Unlocked \notin Threads /\ Back \notin Threads
BY BackendAssumption DEF Unlocked, Back

LEMMA TypeInit == Init => TypeOK
BY ConstantFacts DEF Init, TypeOK, ThreadPc, BackendPc, NORMAL, WAIT_REMOVE, DONE

LEMMA TypeStep == TypeOK /\ IInv /\ [Next]_vars => TypeOK'
<1> SUFFICES ASSUME TypeOK, IInv, [Next]_vars PROVE TypeOK'
  OBVIOUS
<1> USE ConstantFacts DEF TypeOK, ThreadPc, InitPc, CleanupPc, BackendPc, NORMAL, WAIT_REMOVE, DONE,
          listVars, threadVars, msgVars, backVars
<1>1. ASSUME NEW t \in Threads, ContextInit(t) PROVE TypeOK'
  <2>1. gen' = [gen EXCEPT ![t] = gen[t] + 1] /\ gen[t] + 1 \in 0 .. MaxContexts
    BY <1>1, SMTT(30) DEF ContextInit
  <2>2. gen' \in [Threads -> 0 .. MaxContexts]
    BY <2>1
  <2>3. QED
    BY <1>1, <2>2 DEF ContextInit
<1>2. ASSUME NEW t \in Threads, NEW what, ContextInitFails(t, what) PROVE TypeOK'
  <2>1. gen' = [gen EXCEPT ![t] = gen[t] + 1] /\ gen[t] + 1 \in 0 .. MaxContexts
    BY <1>2 DEF ContextInitFails
  <2>2. gen' \in [Threads -> 0 .. MaxContexts]
    BY <2>1
  <2>3. has_buf' \in [Threads -> BOOLEAN]
    BY <1>2, Zenon DEF ContextInitFails
  <2>4. QED
    BY <1>2, <2>2, <2>3 DEF ContextInitFails
<1>3. ASSUME NEW t \in Threads, InsertLock(t) PROVE TypeOK'
  BY <1>3 DEF InsertLock
<1>4. ASSUME NEW t \in Threads, InsertLink(t) PROVE TypeOK'
  BY <1>4 DEF InsertLink
<1>5. ASSUME NEW t \in Threads, InsertStore(t) PROVE TypeOK'
  <2>1. Context(t) \in Threads \X (1 .. MaxContexts)
    <3>1. gen[t] \in 0 .. MaxContexts /\ gen[t] > 0
      BY <1>5 DEF InsertStore, IInv, LocalInv, Local
    <3>2. QED
      BY <3>1 DEF Context
  <2>2. th_ctx_add_list' \in Seq(Threads \X (1 .. MaxContexts))
    <3>1. node_next[t] \in Seq(Threads \X (1 .. MaxContexts))
      OBVIOUS
    <3>2. th_ctx_add_list' = << Context(t) >> \o node_next[t]
      BY <1>5 DEF InsertStore
    <3>3. QED
      BY <2>1, <3>1, <3>2, Pushed
  <2>3. node_next' \in [Threads -> Seq(Threads \X (1 .. MaxContexts))]
    BY <1>5 DEF InsertStore
  <2>4. t_pc' \in [Threads -> ThreadPc]
    BY <1>5 DEF InsertStore
  <2>5. UNCHANGED << spinlock, th_ctx_head, gen, has_buf, status, failed, w, r, handled,
                     b_pc, node, b_w >>
    BY <1>5 DEF InsertStore
  <2>6. QED
    BY <2>2, <2>3, <2>4, <2>5
<1>6. ASSUME NEW t \in Threads, InsertUnlock(t) PROVE TypeOK'
  BY <1>6 DEF InsertUnlock
<1>7. ASSUME NEW t \in Threads, Log(t) PROVE TypeOK'
  <2>1. w' = [w EXCEPT ![t] = w[t] + 1] /\ w[t] + 1 \in 0 .. MaxMsgs
    BY <1>7, SMTT(30) DEF Log
  <2>2. w' \in [Threads -> 0 .. MaxMsgs]
    BY <2>1
  <2>3. QED
    BY <1>7, <2>2 DEF Log
<1>8. ASSUME NEW t \in Threads, Exit(t) PROVE TypeOK'
  BY <1>8 DEF Exit
<1>9. ASSUME NEW t \in Threads, Join(t) PROVE TypeOK'
  BY <1>9 DEF Join
<1>10. ASSUME NEW t \in Threads, RemoveMark(t) PROVE TypeOK'
  BY <1>10 DEF RemoveMark
<1>11. ASSUME NEW t \in Threads, RemoveWait(t) PROVE TypeOK'
  BY <1>11 DEF RemoveWait
<1>12. ASSUME NEW t \in Threads, ContextFree(t) PROVE TypeOK'
  BY <1>12 DEF ContextFree
<1>13. CASE BackendRun
  BY <1>13 DEF BackendRun
<1>14. CASE BackendStart
  BY <1>14 DEF BackendStart
<1>15. CASE BackendStartFails
  BY <1>15 DEF BackendStartFails
<1>16. CASE DrainLock
  BY <1>16 DEF DrainLock
<1>17. CASE DrainUnlock
  BY <1>17 DEF DrainUnlock
<1>18. CASE DrainMove
  <2>1. th_ctx_add_list' = Tail(th_ctx_add_list) /\ th_ctx_add_list # << >>
    BY <1>18 DEF DrainMove
  <2>2. th_ctx_head' = << Head(th_ctx_add_list) >> \o th_ctx_head
    BY <1>18 DEF DrainMove
  <2>3. /\ th_ctx_add_list' \in Seq(Threads \X (1 .. MaxContexts))
        /\ Head(th_ctx_add_list) \in Threads \X (1 .. MaxContexts)
    BY <2>1, Popped
  <2>4. th_ctx_head' \in Seq(Threads \X (1 .. MaxContexts))
    BY <2>2, <2>3, Pushed
  <2>5. QED
    BY <1>18, <2>3, <2>4 DEF DrainMove
<1>19. CASE ConsumeBegin
  <2>1. Owner(Current) \in Threads
    BY <1>19, CurrentType DEF ConsumeBegin
  <2>2. b_w' = w[Owner(Current)] /\ w[Owner(Current)] \in Nat
    BY <1>19, <2>1 DEF ConsumeBegin
  <2>3. QED
    BY <1>19, <2>2 DEF ConsumeBegin
<1>20. CASE Format
  <2>1. Owner(Current) \in Threads
    BY <1>20, CurrentType DEF Format, IInv, EntryInv
  <2>2. r' \in [Threads -> Nat]
    BY <1>20, <2>1, SMTT(30) DEF Format
  <2>3. QED
    BY <1>20, <2>2 DEF Format
<1>21. CASE HandlersWrite
  <2>1. Owner(Current) \in Threads
    BY <1>21, CurrentType DEF HandlersWrite, IInv, EntryInv
  <2>2. handled' \in [Threads -> Nat]
    BY <1>21, <2>1, SMTT(30) DEF HandlersWrite
  <2>3. QED
    BY <1>21, <2>2 DEF HandlersWrite
<1>22. CASE ConsumeEnd
  <2>1. node' = node + 1 /\ node + 1 \in Nat \ {0}
    BY <1>22 DEF ConsumeEnd
  <2>2. QED
    BY <1>22, <2>1 DEF ConsumeEnd
<1>23. CASE ConsumedAll
  BY <1>23 DEF ConsumedAll
<1>24. CASE RemoveSkip
  <2>1. node' = node + 1 /\ node + 1 \in Nat \ {0}
    BY <1>24 DEF RemoveSkip
  <2>2. QED
    BY <1>24, <2>1 DEF RemoveSkip
<1>25. CASE RemovedAll
  BY <1>25 DEF RemovedAll
<1>26. CASE RemoveAnswer
  <2>1. Owner(Current) \in Threads
    BY <1>26, CurrentType DEF RemoveAnswer
  <2>2. QED
    BY <1>26, <2>1 DEF RemoveAnswer
<1>27. CASE RemoveUnlink
  <2>1. node \in 1 .. Len(th_ctx_head)
    BY <1>27, CurrentType DEF RemoveUnlink, IInv, EntryInv
  <2>2. th_ctx_head' \in Seq(Threads \X (1 .. MaxContexts))
    BY <1>27, <2>1, Unlinked DEF RemoveUnlink
  <2>3. QED
    BY <1>27, <2>2 DEF RemoveUnlink
<1>28. CASE UNCHANGED vars
  BY <1>28 DEF vars
<1>29. QED
  BY <1>1, <1>2, <1>3, <1>4, <1>5, <1>6, <1>7, <1>8, <1>9, <1>10, <1>11, <1>12, <1>13,
     <1>14, <1>15, <1>16, <1>17, <1>18, <1>19, <1>20, <1>21, <1>22, <1>23, <1>24, <1>25,
     <1>26, <1>27, <1>28 DEF Next, ThreadStep, BackStep

-----------------------------------------------------------------------------
(* The entry the backend looks at, unless it has answered it, is live. *)
LEMMA CurrentLive ==
  ASSUME TypeOK, EntryInv, node <= Len(th_ctx_head), b_pc # "unlink"
  PROVE  /\ node \in 1 .. Len(th_ctx_head)
         /\ Owner(Current) \in Threads /\ Listed(Owner(Current))
         /\ Current = Context(Owner(Current))
<1>1. node \in 1 .. Len(th_ctx_head) /\ Current \in Contexts /\ Owner(Current) \in Threads
  BY CurrentType
<1>2. LiveEntry(Current)
  BY <1>1 DEF EntryInv, HeadEntry, Current
<1>3. QED
  BY <1>1, <1>2 DEF LiveEntry, Owner, Context, Contexts

LEMMA LocalStep == TypeOK /\ IInv /\ [Next]_vars => LocalInv'
<1> SUFFICES ASSUME TypeOK, IInv, [Next]_vars, NEW u \in Threads PROVE Local(u)'
  BY DEF LocalInv
<1>0. Local(u)
  BY DEF IInv, LocalInv
<1> USE <1>0 DEF Local, NORMAL, WAIT_REMOVE, DONE
<1>1. ASSUME NEW t \in Threads, ContextInit(t) PROVE Local(u)'
  BY <1>1 DEF ContextInit, TypeOK
<1>2. ASSUME NEW t \in Threads, InsertLock(t) PROVE Local(u)'
  BY <1>2 DEF InsertLock, TypeOK
<1>3. ASSUME NEW t \in Threads, InsertLink(t) PROVE Local(u)'
  BY <1>3 DEF InsertLink, TypeOK
<1>4. ASSUME NEW t \in Threads, InsertStore(t) PROVE Local(u)'
  BY <1>4 DEF InsertStore, TypeOK
<1>5. ASSUME NEW t \in Threads, InsertUnlock(t) PROVE Local(u)'
  BY <1>5 DEF InsertUnlock, TypeOK
<1>6. ASSUME NEW t \in Threads, Log(t) PROVE Local(u)'
  BY <1>6 DEF Log, TypeOK, listVars, threadVars, msgVars, backVars
<1>7. ASSUME NEW t \in Threads, Exit(t) PROVE Local(u)'
  BY <1>7 DEF Exit, TypeOK
<1>8. ASSUME NEW t \in Threads, Join(t) PROVE Local(u)'
  BY <1>8 DEF Join, TypeOK
<1>9. ASSUME NEW t \in Threads, RemoveMark(t) PROVE Local(u)'
  BY <1>9 DEF RemoveMark, TypeOK
<1>10. ASSUME NEW t \in Threads, RemoveWait(t) PROVE Local(u)'
  BY <1>10 DEF RemoveWait, TypeOK
<1>11. ASSUME NEW t \in Threads, ContextFree(t) PROVE Local(u)'
  BY <1>11 DEF ContextFree, TypeOK
<1>12. ASSUME NEW t \in Threads, NEW what, ContextInitFails(t, what) PROVE Local(u)'
  BY <1>12 DEF ContextInitFails, TypeOK
<1>13. CASE RemoveAnswer
  <2>1. Owner(Current) \in Threads /\ Listed(Owner(Current))
    BY <1>13, CurrentLive DEF RemoveAnswer, IInv
  <2>2. t_pc[Owner(Current)] = "wait" /\ ~failed[Owner(Current)]
    BY <1>13, <2>1 DEF RemoveAnswer, Listed, IInv, LocalInv
  <2>3. QED
    BY <1>13, <2>1, <2>2 DEF RemoveAnswer, TypeOK
<1>14. CASE UNCHANGED threadVars
  BY <1>14 DEF threadVars
<1>15. BackStep => RemoveAnswer \/ UNCHANGED threadVars
  BY DEF BackStep, BackendRun, BackendStart, BackendStartFails, DrainLock, DrainMove,
     DrainUnlock, ConsumeBegin, Format, HandlersWrite, ConsumeEnd, ConsumedAll,
     RemoveUnlink, RemoveSkip, RemovedAll
<1>16. QED
  BY <1>1, <1>2, <1>3, <1>4, <1>5, <1>6, <1>7, <1>8, <1>9, <1>10, <1>11, <1>12, <1>13,
     <1>14, <1>15 DEF Next, ThreadStep, vars

-----------------------------------------------------------------------------
(* The spinlock: only its holder leaves the critical section. *)
LEMMA LockStep == TypeOK /\ IInv /\ [Next]_vars => LockInv'
<1> SUFFICES ASSUME TypeOK, IInv, [Next]_vars PROVE LockInv'
  OBVIOUS
<1>0. LockInv
  BY DEF IInv
<1> USE <1>0, ConstantFacts DEF LockInv
<1>1. ASSUME NEW t \in Threads, ContextInit(t) PROVE LockInv'
  BY <1>1 DEF ContextInit, TypeOK, listVars, backVars, threadVars
<1>2. ASSUME NEW t \in Threads, InsertLock(t) PROVE LockInv'
  BY <1>2 DEF InsertLock, TypeOK, listVars, backVars, threadVars
<1>3. ASSUME NEW t \in Threads, InsertLink(t) PROVE LockInv'
  BY <1>3 DEF InsertLink, TypeOK, listVars, backVars, threadVars
<1>4. ASSUME NEW t \in Threads, InsertStore(t) PROVE LockInv'
  BY <1>4 DEF InsertStore, TypeOK, listVars, backVars, threadVars
<1>5. ASSUME NEW t \in Threads, InsertUnlock(t) PROVE LockInv'
  BY <1>5 DEF InsertUnlock, TypeOK, listVars, backVars, threadVars
<1>6. ASSUME NEW t \in Threads, Log(t) PROVE LockInv'
  BY <1>6 DEF Log, TypeOK, listVars, backVars, threadVars
<1>7. ASSUME NEW t \in Threads, Exit(t) PROVE LockInv'
  BY <1>7 DEF Exit, TypeOK, listVars, backVars, threadVars
<1>8. ASSUME NEW t \in Threads, Join(t) PROVE LockInv'
  BY <1>8 DEF Join, TypeOK, listVars, backVars, threadVars
<1>9. ASSUME NEW t \in Threads, RemoveMark(t) PROVE LockInv'
  BY <1>9 DEF RemoveMark, TypeOK, listVars, backVars, threadVars
<1>10. ASSUME NEW t \in Threads, RemoveWait(t) PROVE LockInv'
  BY <1>10 DEF RemoveWait, TypeOK, listVars, backVars, threadVars
<1>11. ASSUME NEW t \in Threads, ContextFree(t) PROVE LockInv'
  BY <1>11 DEF ContextFree, TypeOK, listVars, backVars, threadVars
<1>12. ASSUME NEW t \in Threads, NEW what, ContextInitFails(t, what) PROVE LockInv'
  BY <1>12 DEF ContextInitFails, TypeOK, listVars, backVars
<1>13. CASE BackendRun
  BY <1>13 DEF BackendRun, TypeOK, listVars, threadVars, backVars
<1>14. CASE BackendStart
  BY <1>14 DEF BackendStart, TypeOK, listVars, threadVars, backVars
<1>15. CASE BackendStartFails
  BY <1>15 DEF BackendStartFails, TypeOK, listVars, threadVars, backVars
<1>16. CASE DrainLock
  BY <1>16 DEF DrainLock, TypeOK, listVars, threadVars, backVars
<1>17. CASE DrainMove
  BY <1>17 DEF DrainMove, TypeOK, listVars, threadVars, backVars
<1>18. CASE DrainUnlock
  BY <1>18 DEF DrainUnlock, TypeOK, listVars, threadVars, backVars
<1>19. CASE ConsumeBegin
  BY <1>19 DEF ConsumeBegin, TypeOK, listVars, threadVars, backVars
<1>20. CASE Format
  BY <1>20 DEF Format, TypeOK, listVars, threadVars, backVars
<1>21. CASE HandlersWrite
  BY <1>21 DEF HandlersWrite, TypeOK, listVars, threadVars, backVars
<1>22. CASE ConsumeEnd
  BY <1>22 DEF ConsumeEnd, TypeOK, listVars, threadVars, backVars
<1>23. CASE ConsumedAll
  BY <1>23 DEF ConsumedAll, TypeOK, listVars, threadVars, backVars
<1>24. CASE RemoveAnswer
  BY <1>24 DEF RemoveAnswer, TypeOK, listVars, threadVars, backVars
<1>25. CASE RemoveUnlink
  BY <1>25 DEF RemoveUnlink, TypeOK, listVars, threadVars, backVars
<1>26. CASE RemoveSkip
  BY <1>26 DEF RemoveSkip, TypeOK, listVars, threadVars, backVars
<1>27. CASE RemovedAll
  BY <1>27 DEF RemovedAll, TypeOK, listVars, threadVars, backVars
<1>28. CASE UNCHANGED vars
  BY <1>28 DEF vars, listVars, threadVars, backVars
<1>29. QED
  BY <1>1, <1>2, <1>3, <1>4, <1>5, <1>6, <1>7, <1>8, <1>9, <1>10, <1>11, <1>12, <1>13,
     <1>14, <1>15, <1>16, <1>17, <1>18, <1>19, <1>20, <1>21, <1>22, <1>23, <1>24, <1>25,
     <1>26, <1>27, <1>28 DEF Next, ThreadStep, BackStep

-----------------------------------------------------------------------------
(* The lists.  First the steps that leave them alone, and the backend's    *)
(* place in them: no context comes or goes.                                *)
Quiet ==
  /\ UNCHANGED << th_ctx_add_list, th_ctx_head, b_pc, node >>
  /\ \A u \in Threads :
       /\ Listed(u)' <=> Listed(u)
       /\ Listed(u) => gen'[u] = gen[u]
       /\ \A g \in Nat : StaleOf(u, g) => StaleOf(u, g)'

LEMMA QuietThread ==
  ASSUME TypeOK, LocalInv, NEW t \in Threads,
         ContextInit(t) \/ InsertLock(t) \/ InsertLink(t) \/ InsertUnlock(t) \/ Log(t)
         \/ Exit(t) \/ Join(t) \/ RemoveMark(t) \/ RemoveWait(t) \/ ContextFree(t) \/ \E
         what \in FailingAllocs : ContextInitFails(t, what)
  PROVE  Quiet
<1>1. UNCHANGED << th_ctx_add_list, th_ctx_head, b_pc, node >>
  BY DEF ContextInit, InsertLock, InsertLink, InsertUnlock, Log, Exit, Join, RemoveMark,
     RemoveWait, ContextFree, ContextInitFails, listVars, backVars
<1>2. ASSUME NEW u \in Threads, NEW g \in Nat
      PROVE  /\ Listed(u)' <=> Listed(u)
             /\ Listed(u) => gen'[u] = gen[u]
             /\ StaleOf(u, g) => StaleOf(u, g)'
  <2>0. Local(u) /\ Local(t) /\ gen[u] \in Nat
    BY DEF LocalInv, TypeOK
  <2> USE <2>0 DEF Listed, StaleOf, Local, NORMAL, WAIT_REMOVE, DONE
  <2>1. CASE ContextInit(t)
    BY <2>1 DEF ContextInit, TypeOK
  <2>2. CASE InsertLock(t)
    BY <2>2 DEF InsertLock, TypeOK
  <2>3. CASE InsertLink(t)
    BY <2>3 DEF InsertLink, TypeOK
  <2>4. CASE InsertUnlock(t)
    BY <2>4 DEF InsertUnlock, TypeOK
  <2>5. CASE Log(t)
    BY <2>5 DEF Log, TypeOK, threadVars
  <2>6. CASE Exit(t)
    BY <2>6 DEF Exit, TypeOK
  <2>7. CASE Join(t)
    BY <2>7 DEF Join, TypeOK
  <2>8. CASE RemoveMark(t)
    BY <2>8 DEF RemoveMark, TypeOK
  <2>9. CASE RemoveWait(t)
    BY <2>9 DEF RemoveWait, TypeOK
  <2>10. CASE ContextFree(t)
    BY <2>10 DEF ContextFree, TypeOK
  <2>11. ASSUME NEW what, ContextInitFails(t, what)
        PROVE  /\ Listed(u)' <=> Listed(u)
               /\ Listed(u) => gen'[u] = gen[u]
               /\ StaleOf(u, g) => StaleOf(u, g)'
    BY <2>11 DEF ContextInitFails, TypeOK
  <2>12. QED
    BY <2>1, <2>2, <2>3, <2>4, <2>5, <2>6, <2>7, <2>8, <2>9, <2>10, <2>11
<1>3. QED
  BY <1>1, <1>2 DEF Quiet

LEMMA EntryThread ==
  ASSUME TypeOK
  PROVE  /\ \A i \in 1 .. Len(th_ctx_add_list) :
              /\ th_ctx_add_list[i] \in Contexts
              /\ th_ctx_add_list[i][1] \in Threads /\ th_ctx_add_list[i][2] \in Nat
         /\ \A i \in 1 .. Len(th_ctx_head) :
              /\ th_ctx_head[i] \in Contexts
              /\ th_ctx_head[i][1] \in Threads /\ th_ctx_head[i][2] \in Nat
<1>1. /\ th_ctx_add_list \in Seq(Contexts) /\ th_ctx_head \in Seq(Contexts)
  BY DEF TypeOK, Contexts
<1>2. \A c \in Contexts : c[1] \in Threads /\ c[2] \in Nat
  BY DEF Contexts
<1>3. QED
  BY <1>1, <1>2

LEMMA QuietStep ==
  ASSUME TypeOK, EntryInv, OnceInv, Quiet
  PROVE  EntryInv' /\ OnceInv'
<1>1. \A i \in 1 .. Len(th_ctx_add_list) : LiveEntry(th_ctx_add_list[i])'
  BY EntryThread DEF EntryInv, LiveEntry, Quiet
<1>2. \A i \in 1 .. Len(th_ctx_head) : HeadEntry(i)'
  <2> TAKE i \in 1 .. Len(th_ctx_head)
  <2>1. CASE b_pc = "unlink" /\ i = node
    <3>1. StaleOf(th_ctx_head[i][1], th_ctx_head[i][2])
      BY <2>1 DEF EntryInv, HeadEntry, StaleEntry, StaleOf
    <3>2. StaleOf(th_ctx_head[i][1], th_ctx_head[i][2])'
      BY <3>1, EntryThread DEF Quiet
    <3>3. QED
      BY <2>1, <3>2 DEF HeadEntry, StaleEntry, StaleOf, Quiet
  <2>2. CASE ~(b_pc = "unlink" /\ i = node)
    <3>1. LiveEntry(th_ctx_head[i])
      BY <2>2 DEF EntryInv, HeadEntry
    <3>2. LiveEntry(th_ctx_head[i])'
      BY <3>1, EntryThread DEF LiveEntry, Quiet
    <3>3. QED
      BY <2>2, <3>2 DEF HeadEntry, Quiet
  <2>3. QED
    BY <2>1, <2>2
<1>3. EntryInv'
  BY <1>1, <1>2 DEF EntryInv, Quiet
<1>4. OnceInv'
  BY DEF OnceInv, Distinct, In, Context, Quiet
<1>5. QED
  BY <1>3, <1>4

(* The steps of the backend between two changes of the lists. *)
LEMMA WalkStep ==
  ASSUME TypeOK, EntryInv, OnceInv,
         UNCHANGED << th_ctx_add_list, th_ctx_head, threadVars >>,
         b_pc # "unlink", b_pc' # "unlink",
         b_pc' \in {"format", "write"} => node' <= Len(th_ctx_head)
  PROVE  EntryInv' /\ OnceInv'
<1>1. \A u \in Threads : Listed(u)' <=> Listed(u)
  BY DEF Listed, threadVars
<1>2. \A i \in 1 .. Len(th_ctx_head) : LiveEntry(th_ctx_head[i])'
  BY <1>1, EntryThread DEF EntryInv, HeadEntry, LiveEntry, threadVars
<1>3. \A i \in 1 .. Len(th_ctx_add_list) : LiveEntry(th_ctx_add_list[i])'
  BY <1>1, EntryThread DEF EntryInv, LiveEntry, threadVars
<1>4. EntryInv'
  BY <1>2, <1>3 DEF EntryInv, HeadEntry
<1>5. OnceInv'
  BY <1>1 DEF OnceInv, Distinct, In, Context, threadVars
<1>6. QED
  BY <1>4, <1>5

(* InsertStore puts the context of t, which was in no list, on the add     *)
(* list.                                                                   *)
LEMMA StoreStep ==
  ASSUME TypeOK, LocalInv, LockInv, EntryInv, OnceInv, NEW t \in Threads, InsertStore(t)
  PROVE  EntryInv' /\ OnceInv'
<1>1. /\ Context(t) \in Contexts /\ Context(t)[1] = t /\ Context(t)[2] = gen[t]
      /\ ~failed[t] /\ t_pc[t] = "store" /\ status[t] = NORMAL
  <2>1. Local(t) /\ gen[t] \in 0 .. MaxContexts /\ t_pc[t] = "store"
        /\ status[t] \in {NORMAL, WAIT_REMOVE, DONE}
    BY DEF LocalInv, TypeOK, InsertStore
  <2>2. gen[t] \in 1 .. MaxContexts
    BY <2>1, ConstantFacts DEF Local
  <2>3. QED
    BY <2>1, <2>2 DEF Local, Context, Contexts
<1>2. th_ctx_add_list \in Seq(Contexts) /\ th_ctx_head \in Seq(Contexts)
  BY DEF TypeOK, Contexts
<1>3. th_ctx_add_list' = << Context(t) >> \o th_ctx_add_list
  BY <1>1 DEF InsertStore, LockInv
<1>4. /\ Len(th_ctx_add_list') = Len(th_ctx_add_list) + 1
      /\ Len(th_ctx_add_list) \in Nat
      /\ th_ctx_add_list'[1] = Context(t)
      /\ \A i \in 1 .. Len(th_ctx_add_list) : th_ctx_add_list'[i + 1] = th_ctx_add_list[i]
      /\ \A i \in 2 .. Len(th_ctx_add_list') :
           i - 1 \in 1 .. Len(th_ctx_add_list) /\ th_ctx_add_list'[i] = th_ctx_add_list[i - 1]
  BY <1>1, <1>2, <1>3, Pushed
<1>5. UNCHANGED << th_ctx_head, b_pc, node, gen, status, failed >>
      /\ t_pc' = [t_pc EXCEPT ![t] = "unlock"]
  BY DEF InsertStore, backVars
<1>6. ~Listed(t) /\ Listed(t)' /\ Context(t)' = Context(t)
      /\ \A u \in Threads \ {t} : (Listed(u)' <=> Listed(u)) /\ Context(u)' = Context(u)
  BY <1>1, <1>5 DEF Listed, TypeOK, Context
<1>7. /\ \A i \in 1 .. Len(th_ctx_add_list) : th_ctx_add_list[i][1] # t
      /\ \A i \in 1 .. Len(th_ctx_head) : th_ctx_head[i] # Context(t)
      /\ \A i \in 1 .. Len(th_ctx_head) : LiveEntry(th_ctx_head[i]) => th_ctx_head[i][1] # t
  BY <1>1, <1>6 DEF EntryInv, LiveEntry, HeadEntry, StaleEntry, StaleOf
<1>8. \A i \in 1 .. Len(th_ctx_add_list') : LiveEntry(th_ctx_add_list[i])'
  <2> TAKE i \in 1 .. Len(th_ctx_add_list')
  <2>1. CASE i = 1
    BY <1>1, <1>4, <1>5, <1>6, <2>1 DEF LiveEntry
  <2>2. CASE i # 1
    <3>1. i - 1 \in 1 .. Len(th_ctx_add_list) /\ th_ctx_add_list'[i] = th_ctx_add_list[i - 1]
      BY <1>4, <2>2
    <3>2. LiveEntry(th_ctx_add_list[i - 1]) /\ th_ctx_add_list[i - 1][1] \in Threads \ {t}
      BY <1>7, <3>1, EntryThread DEF EntryInv
    <3>3. QED
      BY <1>5, <1>6, <3>1, <3>2 DEF LiveEntry
  <2>3. QED
    BY <2>1, <2>2
<1>9. \A i \in 1 .. Len(th_ctx_head) : HeadEntry(i)'
  <2> TAKE i \in 1 .. Len(th_ctx_head)
  <2>1. CASE b_pc = "unlink" /\ i = node
    <3>1. StaleEntry(th_ctx_head[i])
      BY <2>1 DEF EntryInv, HeadEntry
    <3>2. StaleEntry(th_ctx_head[i])'
      BY <1>1, <1>5, <3>1, EntryThread DEF StaleEntry, StaleOf, TypeOK, NORMAL, DONE
    <3>3. QED
      BY <1>5, <2>1, <3>2 DEF HeadEntry
  <2>2. CASE ~(b_pc = "unlink" /\ i = node)
    <3>1. LiveEntry(th_ctx_head[i]) /\ th_ctx_head[i][1] \in Threads \ {t}
      BY <1>7, <2>2, EntryThread DEF EntryInv, HeadEntry
    <3>2. QED
      BY <1>5, <1>6, <2>2, <3>1 DEF HeadEntry, LiveEntry
  <2>3. QED
    BY <2>1, <2>2
<1>10. EntryInv'
  BY <1>5, <1>8, <1>9 DEF EntryInv
<1>11. Distinct(th_ctx_add_list')
  <2> SUFFICES ASSUME NEW i \in 1 .. Len(th_ctx_add_list'), NEW j \in 1 .. Len(th_ctx_add_list'),
                      th_ctx_add_list'[i] = th_ctx_add_list'[j]
               PROVE  i = j
    BY DEF Distinct
  <2>1. CASE i = 1 \/ j = 1
    <3>1. \A k \in 2 .. Len(th_ctx_add_list') : th_ctx_add_list'[k] # Context(t)
      BY <1>1, <1>4, <1>7
    <3>2. QED
      BY <1>4, <2>1, <3>1
  <2>2. CASE i # 1 /\ j # 1
    <3>1. /\ i - 1 \in 1 .. Len(th_ctx_add_list) /\ th_ctx_add_list'[i] = th_ctx_add_list[i - 1]
          /\ j - 1 \in 1 .. Len(th_ctx_add_list) /\ th_ctx_add_list'[j] = th_ctx_add_list[j - 1]
      BY <1>4, <2>2
    <3>2. i - 1 = j - 1
      BY <3>1 DEF OnceInv, Distinct
    <3>3. QED
      BY <1>4, <3>2
  <2>3. QED
    BY <2>1, <2>2
<1>12. \A i \in 1 .. Len(th_ctx_add_list'), j \in 1 .. Len(th_ctx_head) :
         th_ctx_add_list'[i] # th_ctx_head[j]
  <2> TAKE i \in 1 .. Len(th_ctx_add_list'), j \in 1 .. Len(th_ctx_head)
  <2>1. CASE i = 1
    BY <1>4, <1>7, <2>1
  <2>2. CASE i # 1
    <3>1. i - 1 \in 1 .. Len(th_ctx_add_list) /\ th_ctx_add_list'[i] = th_ctx_add_list[i - 1]
      BY <1>4, <2>2
    <3>2. QED
      BY <3>1 DEF OnceInv
  <2>3. QED
    BY <2>1, <2>2
<1>13. \A u \in Threads : Listed(u)' =>
         In(Context(u)', th_ctx_add_list') \/ In(Context(u)', th_ctx_head)
  <2> SUFFICES ASSUME NEW u \in Threads, Listed(u)'
               PROVE  In(Context(u)', th_ctx_add_list') \/ In(Context(u)', th_ctx_head)
    OBVIOUS
  <2>1. CASE u = t
    BY <1>4, <1>6, <2>1 DEF In
  <2>2. CASE u # t
    <3>1. In(Context(u), th_ctx_add_list) \/ In(Context(u), th_ctx_head)
      BY <1>6, <2>2 DEF OnceInv
    <3>2. In(Context(u), th_ctx_add_list) => In(Context(u), th_ctx_add_list')
      <4>1. ASSUME NEW i \in 1 .. Len(th_ctx_add_list), th_ctx_add_list[i] = Context(u)
            PROVE  In(Context(u), th_ctx_add_list')
        <5>1. i + 1 \in 1 .. Len(th_ctx_add_list') /\ th_ctx_add_list'[i + 1] = Context(u)
          BY <1>4, <4>1
        <5>2. QED
          BY <5>1 DEF In
      <4>2. QED
        BY <4>1 DEF In
    <3>3. QED
      BY <1>6, <2>2, <3>1, <3>2
  <2>3. QED
    BY <2>1, <2>2
<1>14. OnceInv'
  BY <1>5, <1>11, <1>12, <1>13 DEF OnceInv, Distinct, In
<1>15. QED
  BY <1>10, <1>14

(* DrainMove takes the first context of the add list over. *)
LEMMA MoveStep ==
  ASSUME TypeOK, EntryInv, OnceInv, DrainMove
  PROVE  EntryInv' /\ OnceInv'
<1> DEFINE first == th_ctx_add_list[1]
<1>1. th_ctx_add_list \in Seq(Contexts) /\ th_ctx_head \in Seq(Contexts)
      /\ th_ctx_add_list # << >>
  BY DEF TypeOK, Contexts, DrainMove
<1>2. /\ th_ctx_add_list' = Tail(th_ctx_add_list)
      /\ th_ctx_head' = << Head(th_ctx_add_list) >> \o th_ctx_head
      /\ UNCHANGED << threadVars, b_pc, node >> /\ b_pc = "drain"
  BY DEF DrainMove, backVars
<1>3. /\ first \in Contexts /\ Head(th_ctx_add_list) = first /\ 1 \in 1 .. Len(th_ctx_add_list)
      /\ Len(th_ctx_add_list) \in Nat
      /\ Len(th_ctx_add_list') = Len(th_ctx_add_list) - 1
      /\ \A i \in 1 .. Len(th_ctx_add_list') :
           i + 1 \in 1 .. Len(th_ctx_add_list) /\ th_ctx_add_list'[i] = th_ctx_add_list[i + 1]
  BY <1>1, <1>2, Popped
<1>4. /\ Len(th_ctx_head') = Len(th_ctx_head) + 1 /\ Len(th_ctx_head) \in Nat
      /\ th_ctx_head'[1] = first
      /\ \A i \in 1 .. Len(th_ctx_head) : th_ctx_head'[i + 1] = th_ctx_head[i]
      /\ \A i \in 2 .. Len(th_ctx_head') :
           i - 1 \in 1 .. Len(th_ctx_head) /\ th_ctx_head'[i] = th_ctx_head[i - 1]
  BY <1>1, <1>2, <1>3, Pushed
<1> HIDE DEF first
<1>6. /\ \A i \in 1 .. Len(th_ctx_add_list) : LiveEntry(th_ctx_add_list[i])
      /\ \A i \in 1 .. Len(th_ctx_head) : LiveEntry(th_ctx_head[i])
  BY <1>2 DEF EntryInv, HeadEntry
<1>7. \A i \in 1 .. Len(th_ctx_add_list') :
        LiveEntry(th_ctx_add_list[i])'
  <2> TAKE i \in 1 .. Len(th_ctx_add_list')
  <2>1. LiveEntry(th_ctx_add_list'[i])
    BY <1>3, <1>6
  <2>2. QED
    BY <1>2, <2>1 DEF LiveEntry, Listed, threadVars
<1>8. \A i \in 1 .. Len(th_ctx_head') : LiveEntry(th_ctx_head[i])'
  <2> TAKE i \in 1 .. Len(th_ctx_head')
  <2>1. th_ctx_head'[i] \in Contexts /\ LiveEntry(th_ctx_head'[i])
    <3>1. CASE i = 1
      BY <1>3, <1>4, <1>6, <3>1 DEF first
    <3>2. CASE i # 1
      BY <1>4, <1>6, <3>2, EntryThread
    <3>3. QED
      BY <3>1, <3>2
  <2>2. QED
    BY <1>2, <2>1 DEF LiveEntry, Listed, threadVars
<1>9. EntryInv'
  BY <1>2, <1>7, <1>8 DEF EntryInv, HeadEntry
<1>10. Distinct(th_ctx_add_list')
  <2> SUFFICES ASSUME NEW i \in 1 .. Len(th_ctx_add_list'), NEW j \in 1 .. Len(th_ctx_add_list'),
                      th_ctx_add_list'[i] = th_ctx_add_list'[j]
               PROVE  i = j
    BY DEF Distinct
  <2>1. i + 1 = j + 1
    BY <1>3 DEF OnceInv, Distinct
  <2>2. QED
    BY <1>3, <2>1
<1>11. /\ \A i \in 1 .. Len(th_ctx_add_list') : th_ctx_add_list'[i] # first
       /\ \A i \in 1 .. Len(th_ctx_head) : th_ctx_head[i] # first
  <2>1. ASSUME NEW i \in 1 .. Len(th_ctx_add_list'), th_ctx_add_list'[i] = first
        PROVE  FALSE
    <3>1. i + 1 = 1
      BY <1>3, <2>1 DEF OnceInv, Distinct, first
    <3>2. QED
      BY <1>3, <3>1
  <2>2. QED
    BY <1>3, <2>1 DEF OnceInv, first
<1>12. Distinct(th_ctx_head')
  <2> SUFFICES ASSUME NEW i \in 1 .. Len(th_ctx_head'), NEW j \in 1 .. Len(th_ctx_head'),
                      th_ctx_head'[i] = th_ctx_head'[j]
               PROVE  i = j
    BY DEF Distinct
  <2>1. CASE i = 1 \/ j = 1
    BY <1>4, <1>11, <2>1
  <2>2. CASE i # 1 /\ j # 1
    <3>1. i - 1 = j - 1
      BY <1>4, <2>2 DEF OnceInv, Distinct
    <3>2. QED
      BY <1>4, <3>1
  <2>3. QED
    BY <2>1, <2>2
<1>13. \A i \in 1 .. Len(th_ctx_add_list'), j \in 1 .. Len(th_ctx_head') :
         th_ctx_add_list'[i] # th_ctx_head'[j]
  <2> TAKE i \in 1 .. Len(th_ctx_add_list'), j \in 1 .. Len(th_ctx_head')
  <2>1. CASE j = 1
    BY <1>4, <1>11, <2>1
  <2>2. CASE j # 1
    <3>1. /\ j - 1 \in 1 .. Len(th_ctx_head) /\ th_ctx_head'[j] = th_ctx_head[j - 1]
          /\ i + 1 \in 1 .. Len(th_ctx_add_list) /\ th_ctx_add_list'[i] = th_ctx_add_list[i + 1]
      BY <1>3, <1>4, <2>2
    <3>2. QED
      BY <3>1 DEF OnceInv
  <2>3. QED
    BY <2>1, <2>2
<1>14. ASSUME NEW c, In(c, th_ctx_add_list) \/ In(c, th_ctx_head)
       PROVE  In(c, th_ctx_add_list') \/ In(c, th_ctx_head')
  <2>1. ASSUME NEW i \in 1 .. Len(th_ctx_add_list), th_ctx_add_list[i] = c
        PROVE  In(c, th_ctx_add_list') \/ In(c, th_ctx_head')
    <3>1. CASE i = 1
      <4>1. 1 \in 1 .. Len(th_ctx_head') /\ th_ctx_head'[1] = c
        BY <1>4, <2>1, <3>1 DEF first
      <4>2. QED
        BY <4>1 DEF In
    <3>2. CASE i # 1
      <4>1. i - 1 \in 1 .. Len(th_ctx_add_list') /\ (i - 1) + 1 = i
        BY <1>3, <3>2
      <4>2. th_ctx_add_list'[i - 1] = c
        BY <1>3, <2>1, <4>1
      <4>3. QED
        BY <4>1, <4>2 DEF In
    <3>3. QED
      BY <3>1, <3>2
  <2>2. ASSUME NEW i \in 1 .. Len(th_ctx_head), th_ctx_head[i] = c
        PROVE  In(c, th_ctx_head')
    <3>1. i + 1 \in 1 .. Len(th_ctx_head') /\ th_ctx_head'[i + 1] = c
      BY <1>4, <2>2
    <3>2. QED
      BY <3>1 DEF In
  <2>3. QED
    BY <1>14, <2>1, <2>2 DEF In
<1>15. \A t \in Threads : Listed(t)' => Listed(t) /\ Context(t)' = Context(t)
  BY <1>2 DEF Listed, Context, threadVars
<1>16. \A t \in Threads : Listed(t)' =>
         In(Context(t)', th_ctx_add_list') \/ In(Context(t)', th_ctx_head')
  BY <1>14, <1>15 DEF OnceInv
<1>17. OnceInv'
  BY <1>10, <1>12, <1>13, <1>16 DEF OnceInv, Distinct, In
<1>18. QED
  BY <1>9, <1>17

(* RemoveAnswer: the answered context is listed no more, and the others    *)
(* are other threads'.                                                     *)
LEMMA AnswerStep ==
  ASSUME TypeOK, LocalInv, EntryInv, OnceInv, RemoveAnswer
  PROVE  EntryInv' /\ OnceInv'
<1>1. PICK o \in Threads :
        /\ o = Owner(Current) /\ node \in 1 .. Len(th_ctx_head) /\ Listed(o)
        /\ Current = Context(o) /\ o = th_ctx_head[node][1]
  BY CurrentLive, CurrentType DEF RemoveAnswer
<1>2. /\ status' = [status EXCEPT ![o] = DONE] /\ status[o] = WAIT_REMOVE
      /\ b_pc = "remove" /\ b_pc' = "unlink"
      /\ UNCHANGED << th_ctx_add_list, th_ctx_head, t_pc, gen, failed, node >>
  BY <1>1 DEF RemoveAnswer, listVars
<1>3. t_pc[o] = "wait"
  BY <1>1, <1>2 DEF LocalInv, Local
<1>4. \A u \in Threads \ {o} : Listed(u)' <=> Listed(u)
  BY <1>1, <1>2 DEF Listed, TypeOK
<1>5. ~Listed(o)'
  BY <1>1, <1>2, <1>3 DEF Listed, TypeOK, DONE, WAIT_REMOVE
<1>6. ASSUME NEW i \in 1 .. Len(th_ctx_head), i # node
      PROVE  LiveEntry(th_ctx_head[i])'
  <2>1. LiveEntry(th_ctx_head[i]) /\ th_ctx_head[i] \in Contexts
    BY <1>2, EntryThread DEF EntryInv, HeadEntry
  <2>2. th_ctx_head[i][1] # o
    <3>1. SUFFICES ASSUME th_ctx_head[i][1] = o PROVE FALSE
      OBVIOUS
    <3>2. th_ctx_head[i] = Context(o)
      BY <2>1, <3>1 DEF LiveEntry, Context, Contexts
    <3>3. th_ctx_head[i] = th_ctx_head[node]
      BY <1>1, <3>2 DEF Current
    <3>4. QED
      BY <1>1, <1>6, <3>3 DEF OnceInv, Distinct
  <2>3. QED
    BY <1>2, <1>4, <2>1, <2>2, EntryThread DEF LiveEntry
<1>7. ASSUME NEW i \in 1 .. Len(th_ctx_add_list)
      PROVE  LiveEntry(th_ctx_add_list[i])'
  <2>1. LiveEntry(th_ctx_add_list[i]) /\ th_ctx_add_list[i] \in Contexts
    BY EntryThread DEF EntryInv
  <2>2. th_ctx_add_list[i][1] # o
    <3>1. SUFFICES ASSUME th_ctx_add_list[i][1] = o PROVE FALSE
      OBVIOUS
    <3>2. th_ctx_add_list[i] = Context(o)
      BY <2>1, <3>1 DEF LiveEntry, Context, Contexts
    <3>3. QED
      BY <1>1, <3>2 DEF OnceInv, Current
  <2>3. QED
    BY <1>2, <1>4, <2>1, <2>2, EntryThread DEF LiveEntry
<1>8. StaleEntry(th_ctx_head[node])'
  <2>1. th_ctx_head[node][2] = gen[o] /\ gen[o] \in Nat
    BY <1>1 DEF Current, Context, TypeOK
  <2>2. status'[o] = DONE
    BY <1>1, <1>2 DEF TypeOK
  <2>3. QED
    BY <1>1, <1>2, <1>3, <2>1, <2>2 DEF StaleEntry, StaleOf
<1>9. EntryInv'
  <2>1. \A i \in 1 .. Len(th_ctx_head) : HeadEntry(i)'
    BY <1>2, <1>6, <1>8 DEF HeadEntry
  <2>2. node <= Len(th_ctx_head)
    BY <1>1
  <2>3. QED
    BY <1>2, <1>7, <2>1, <2>2 DEF EntryInv
<1>10. OnceInv'
  <2>1. \A u \in Threads : Listed(u)' => Listed(u) /\ Context(u)' = Context(u)
    BY <1>2, <1>4, <1>5 DEF Context
  <2>2. QED
    BY <1>2, <2>1 DEF OnceInv, Distinct, In
<1>11. QED
  BY <1>9, <1>10

(* RemoveUnlink takes the answered entry out, which no listed thread       *)
(* needs: its thread may be listed again only with a later context.        *)
LEMMA UnlinkStep ==
  ASSUME TypeOK, EntryInv, OnceInv, RemoveUnlink
  PROVE  EntryInv' /\ OnceInv'
<1>1. /\ th_ctx_head \in Seq(Contexts) /\ Len(th_ctx_head) \in Nat
      /\ node \in 1 .. Len(th_ctx_head) /\ StaleEntry(th_ctx_head[node])
  BY CurrentType DEF TypeOK, Contexts, RemoveUnlink, EntryInv, HeadEntry
<1>2. /\ UNCHANGED << th_ctx_add_list, threadVars, node >>
      /\ b_pc = "unlink" /\ b_pc' = "remove"
  BY DEF RemoveUnlink
<1>3. /\ Len(th_ctx_head') = Len(th_ctx_head) - 1
      /\ \A i \in 1 .. Len(th_ctx_head) - 1 :
           th_ctx_head'[i] = IF i < node THEN th_ctx_head[i] ELSE th_ctx_head[i + 1]
  BY <1>1, Unlinked DEF RemoveUnlink
<1> DEFINE old(i) == IF i < node THEN i ELSE i + 1
<1>4. \A i \in 1 .. Len(th_ctx_head') :
        /\ old(i) \in 1 .. Len(th_ctx_head) /\ old(i) # node
        /\ th_ctx_head'[i] = th_ctx_head[old(i)]
  BY <1>1, <1>3
<1>5. \A i, j \in 1 .. Len(th_ctx_head') : old(i) = old(j) => i = j
  BY <1>1, <1>3
<1>6. \A k \in 1 .. Len(th_ctx_head) : k # node =>
        \E i \in 1 .. Len(th_ctx_head') : old(i) = k
  <2> SUFFICES ASSUME NEW k \in 1 .. Len(th_ctx_head), k # node
               PROVE  \E i \in 1 .. Len(th_ctx_head') : old(i) = k
    OBVIOUS
  <2>1. CASE k < node
    <3>1. k \in 1 .. Len(th_ctx_head') /\ old(k) = k
      BY <1>1, <1>3, <2>1
    <3>2. QED
      BY <3>1
  <2>2. CASE k > node
    <3>1. k - 1 \in 1 .. Len(th_ctx_head') /\ old(k - 1) = k
      BY <1>1, <1>3, <2>2
    <3>2. QED
      BY <3>1
  <2>3. QED
    BY <1>1, <2>1, <2>2
<1> HIDE DEF old
<1>8. \A i \in 1 .. Len(th_ctx_head') : LiveEntry(th_ctx_head[i])'
  <2> TAKE i \in 1 .. Len(th_ctx_head')
  <2>1. LiveEntry(th_ctx_head'[i])
    BY <1>2, <1>4 DEF EntryInv, HeadEntry
  <2>2. QED
    BY <1>2, <2>1 DEF LiveEntry, Listed, threadVars
<1>9. \A i \in 1 .. Len(th_ctx_add_list) : LiveEntry(th_ctx_add_list[i])'
  BY <1>2 DEF EntryInv, LiveEntry, Listed, threadVars
<1>10. EntryInv'
  BY <1>2, <1>8, <1>9 DEF EntryInv, HeadEntry
<1>11. Distinct(th_ctx_head')
  BY <1>4, <1>5 DEF OnceInv, Distinct
<1>12. \A i \in 1 .. Len(th_ctx_add_list'), j \in 1 .. Len(th_ctx_head') :
         th_ctx_add_list'[i] # th_ctx_head'[j]
  BY <1>2, <1>4 DEF OnceInv
<1>13. \A t \in Threads : Listed(t)' => Listed(t) /\ Context(t)' = Context(t)
  BY <1>2 DEF Listed, Context, threadVars
<1>14. ASSUME NEW t \in Threads, Listed(t), In(Context(t), th_ctx_head)
       PROVE  In(Context(t), th_ctx_head')
  <2>1. PICK k \in 1 .. Len(th_ctx_head) : th_ctx_head[k] = Context(t)
    BY <1>14 DEF In
  <2>2. k # node
    BY <1>1, <1>14, <2>1 DEF StaleEntry, StaleOf, Listed, Context, WAIT_REMOVE, DONE
  <2>3. PICK i \in 1 .. Len(th_ctx_head') : old(i) = k
    BY <1>6, <2>2
  <2>4. th_ctx_head'[i] = Context(t)
    BY <1>4, <2>1, <2>3
  <2>5. QED
    BY <2>4 DEF In
<1>15. \A t \in Threads : Listed(t)' =>
         In(Context(t)', th_ctx_add_list') \/ In(Context(t)', th_ctx_head')
  BY <1>2, <1>13, <1>14 DEF OnceInv
<1>16. OnceInv'
  BY <1>2, <1>11, <1>12, <1>15 DEF OnceInv, Distinct, In
<1>17. QED
  BY <1>10, <1>16

LEMMA ListStep == TypeOK /\ IInv /\ [Next]_vars => EntryInv' /\ OnceInv'
<1> SUFFICES ASSUME TypeOK, IInv, [Next]_vars PROVE EntryInv' /\ OnceInv'
  OBVIOUS
<1>0. LocalInv /\ LockInv /\ EntryInv /\ OnceInv
  BY DEF IInv
<1>1. ASSUME NEW t \in Threads, InsertStore(t) PROVE EntryInv' /\ OnceInv'
  BY <1>0, <1>1, StoreStep
<1>2. ASSUME NEW t \in Threads,
             ContextInit(t) \/ InsertLock(t) \/ InsertLink(t) \/ InsertUnlock(t) \/ Log(t)
                \/ Exit(t) \/ Join(t) \/ RemoveMark(t) \/ RemoveWait(t) \/ ContextFree(t) \/
                \E what \in FailingAllocs : ContextInitFails(t, what)
      PROVE  EntryInv' /\ OnceInv'
  BY <1>0, <1>2, QuietThread, QuietStep
<1>3. CASE DrainMove
  BY <1>0, <1>3, MoveStep
<1>4. CASE RemoveAnswer
  BY <1>0, <1>4, AnswerStep
<1>5. CASE RemoveUnlink
  BY <1>0, <1>5, UnlinkStep
<1>6. CASE BackendRun
  <2>1. /\ UNCHANGED << th_ctx_add_list, th_ctx_head, threadVars >>
        /\ b_pc # "unlink" /\ b_pc' # "unlink"
        /\ b_pc' \in {"format", "write"} => node' <= Len(th_ctx_head)
    BY <1>6 DEF BackendRun, listVars
  <2>2. QED
    BY <1>0, <2>1, WalkStep
<1>7. CASE BackendStart
  <2>1. /\ UNCHANGED << th_ctx_add_list, th_ctx_head, threadVars >>
        /\ b_pc # "unlink" /\ b_pc' # "unlink"
        /\ b_pc' \in {"format", "write"} => node' <= Len(th_ctx_head)
    BY <1>7 DEF BackendStart, listVars
  <2>2. QED
    BY <1>0, <2>1, WalkStep
<1>8. CASE BackendStartFails
  <2>1. /\ UNCHANGED << th_ctx_add_list, th_ctx_head, threadVars >>
        /\ b_pc # "unlink" /\ b_pc' # "unlink"
        /\ b_pc' \in {"format", "write"} => node' <= Len(th_ctx_head)
    BY <1>8 DEF BackendStartFails, listVars
  <2>2. QED
    BY <1>0, <2>1, WalkStep
<1>9. CASE DrainLock
  <2>1. /\ UNCHANGED << th_ctx_add_list, th_ctx_head, threadVars >>
        /\ b_pc # "unlink" /\ b_pc' # "unlink"
        /\ b_pc' \in {"format", "write"} => node' <= Len(th_ctx_head)
    BY <1>9 DEF DrainLock, listVars
  <2>2. QED
    BY <1>0, <2>1, WalkStep
<1>10. CASE DrainUnlock
  <2>1. /\ UNCHANGED << th_ctx_add_list, th_ctx_head, threadVars >>
        /\ b_pc # "unlink" /\ b_pc' # "unlink"
        /\ b_pc' \in {"format", "write"} => node' <= Len(th_ctx_head)
    BY <1>10 DEF DrainUnlock, listVars
  <2>2. QED
    BY <1>0, <2>1, WalkStep
<1>11. CASE ConsumeBegin
  <2>1. /\ UNCHANGED << th_ctx_add_list, th_ctx_head, threadVars >>
        /\ b_pc # "unlink" /\ b_pc' # "unlink"
        /\ b_pc' \in {"format", "write"} => node' <= Len(th_ctx_head)
    BY <1>11 DEF ConsumeBegin, listVars
  <2>2. QED
    BY <1>0, <2>1, WalkStep
<1>12. CASE Format
  <2>1. /\ UNCHANGED << th_ctx_add_list, th_ctx_head, threadVars >>
        /\ b_pc # "unlink" /\ b_pc' # "unlink"
        /\ b_pc' \in {"format", "write"} => node' <= Len(th_ctx_head)
    BY <1>12, <1>0 DEF Format, listVars, EntryInv
  <2>2. QED
    BY <1>0, <2>1, WalkStep
<1>13. CASE HandlersWrite
  <2>1. /\ UNCHANGED << th_ctx_add_list, th_ctx_head, threadVars >>
        /\ b_pc # "unlink" /\ b_pc' # "unlink"
        /\ b_pc' \in {"format", "write"} => node' <= Len(th_ctx_head)
    BY <1>13, <1>0 DEF HandlersWrite, listVars, EntryInv
  <2>2. QED
    BY <1>0, <2>1, WalkStep
<1>14. CASE ConsumeEnd
  <2>1. /\ UNCHANGED << th_ctx_add_list, th_ctx_head, threadVars >>
        /\ b_pc # "unlink" /\ b_pc' # "unlink"
        /\ b_pc' \in {"format", "write"} => node' <= Len(th_ctx_head)
    BY <1>14 DEF ConsumeEnd, listVars
  <2>2. QED
    BY <1>0, <2>1, WalkStep
<1>15. CASE ConsumedAll
  <2>1. /\ UNCHANGED << th_ctx_add_list, th_ctx_head, threadVars >>
        /\ b_pc # "unlink" /\ b_pc' # "unlink"
        /\ b_pc' \in {"format", "write"} => node' <= Len(th_ctx_head)
    BY <1>15 DEF ConsumedAll, listVars
  <2>2. QED
    BY <1>0, <2>1, WalkStep
<1>16. CASE RemoveSkip
  <2>1. /\ UNCHANGED << th_ctx_add_list, th_ctx_head, threadVars >>
        /\ b_pc # "unlink" /\ b_pc' # "unlink"
        /\ b_pc' \in {"format", "write"} => node' <= Len(th_ctx_head)
    BY <1>16 DEF RemoveSkip, listVars
  <2>2. QED
    BY <1>0, <2>1, WalkStep
<1>17. CASE RemovedAll
  <2>1. /\ UNCHANGED << th_ctx_add_list, th_ctx_head, threadVars >>
        /\ b_pc # "unlink" /\ b_pc' # "unlink"
        /\ b_pc' \in {"format", "write"} => node' <= Len(th_ctx_head)
    BY <1>17 DEF RemovedAll, listVars
  <2>2. QED
    BY <1>0, <2>1, WalkStep
<1>18. CASE UNCHANGED vars
  <2>1. Quiet
    BY <1>18 DEF vars, listVars, threadVars, backVars, Quiet, Listed, StaleOf
  <2>2. QED
    BY <1>0, <2>1, QuietStep
<1>19. QED
  BY <1>1, <1>2, <1>3, <1>4, <1>5, <1>6, <1>7, <1>8, <1>9, <1>10, <1>11, <1>12, <1>13,
     <1>14, <1>15, <1>16, <1>17, <1>18 DEF Next, ThreadStep, BackStep

-----------------------------------------------------------------------------
(* The counters.  Only the backend's current message is between release    *)
(* and write.                                                              *)
LEMMA CountStep == TypeOK /\ IInv /\ [Next]_vars => CountInv'
<1> SUFFICES ASSUME TypeOK, IInv, [Next]_vars PROVE CountInv'
  OBVIOUS
<1>0. CountInv /\ EntryInv /\ r \in [Threads -> Nat] /\ handled \in [Threads -> Nat]
      /\ \A u \in Threads : w[u] \in Nat
  BY ConstantFacts DEF IInv, TypeOK
<1> USE <1>0 DEF CountInv, ReleasedThenWritten
<1>1. CASE UNCHANGED << msgVars, th_ctx_head, backVars >>
  BY <1>1 DEF msgVars, backVars, Current, Owner
<1>2. ASSUME NEW t \in Threads, Log(t) PROVE CountInv'
  <2>1. UNCHANGED << r, handled, th_ctx_head, b_pc, node, b_w >>
        /\ w' = [w EXCEPT ![t] = w[t] + 1]
    BY <1>2 DEF Log, listVars, backVars
  <2>2. Current' = Current /\ \A u \in Threads : w[u] <= w'[u] /\ w'[u] \in Nat
    BY <2>1 DEF Current, TypeOK
  <2>3. b_pc \in {"format", "write"} => Owner(Current) \in Threads
    BY CurrentType DEF EntryInv
  <2>4. b_w \in Nat
    BY DEF TypeOK
  <2>5. QED
    BY <2>1, <2>2, <2>3, <2>4 DEF Owner
<1>3. ASSUME b_pc # "write", b_pc' \notin {"format", "write"}, UNCHANGED msgVars PROVE CountInv'
  BY <1>3 DEF msgVars
<1>4. CASE ConsumeBegin
  <2>1. Owner(Current) \in Threads /\ Owner(Current)' = Owner(Current)
    BY <1>4, CurrentType DEF ConsumeBegin, listVars, Current
  <2>2. QED
    BY <1>4, <2>1 DEF ConsumeBegin, msgVars
<1>5. CASE Format
  <2>1. PICK o \in Threads : o = Owner(Current) /\ Owner(Current)' = o
    BY <1>5, CurrentType DEF Format, listVars, EntryInv, Current, Owner
  <2>2. /\ r' = [r EXCEPT ![o] = r[o] + 1] /\ r[o] # b_w /\ b_pc = "format" /\ b_pc' = "write"
        /\ UNCHANGED << w, handled, b_w >> /\ b_w \in Nat
    BY <1>5, <2>1 DEF Format, TypeOK
  <2>3. r[o] < b_w /\ b_w <= w[o] /\ \A u \in Threads : r[u] = handled[u]
    BY <2>1, <2>2
  <2>4. r'[o] = handled[o] + 1 /\ r'[o] <= b_w /\ r'[o] <= w[o]
    BY <2>2, <2>3
  <2>5. \A u \in Threads \ {o} : r'[u] = r[u]
    BY <2>2
  <2>6. QED
    BY <2>1, <2>2, <2>3, <2>4, <2>5
<1>6. CASE HandlersWrite
  <2>1. PICK o \in Threads : o = Owner(Current) /\ Owner(Current)' = o
    BY <1>6, CurrentType DEF HandlersWrite, listVars, EntryInv, Current, Owner
  <2>2. /\ handled' = [handled EXCEPT ![o] = handled[o] + 1] /\ b_pc = "write" /\ b_pc' = "format"
        /\ UNCHANGED << w, r, b_w >>
    BY <1>6, <2>1 DEF HandlersWrite
  <2>3. r[o] = handled[o] + 1 /\ \A u \in Threads \ {o} : r[u] = handled[u]
    BY <2>1, <2>2
  <2>4. \A u \in Threads : handled'[u] = r[u]
    BY <2>2, <2>3
  <2>5. QED
    BY <2>1, <2>2, <2>4
<1>7. ASSUME NEW t \in Threads,
             ContextInit(t) \/ InsertLock(t) \/ InsertLink(t) \/ InsertStore(t) \/
                InsertUnlock(t) \/ Exit(t) \/ Join(t) \/ RemoveMark(t) \/ RemoveWait(t) \/
                ContextFree(t) \/ \E what \in FailingAllocs : ContextInitFails(t, what)
      PROVE  UNCHANGED << msgVars, th_ctx_head, backVars >>
  BY <1>7 DEF ContextInit, InsertLock, InsertLink, InsertStore, InsertUnlock, Exit, Join,
     RemoveMark, RemoveWait, ContextFree, ContextInitFails, listVars
<1>8. ASSUME
             BackendRun \/ BackendStart \/ BackendStartFails \/ DrainLock \/ DrainMove \/
                DrainUnlock \/ ConsumeEnd \/ ConsumedAll \/ RemoveAnswer \/ RemoveUnlink \/
                RemoveSkip \/ RemovedAll
      PROVE  b_pc # "write" /\ b_pc' \notin {"format", "write"} /\ UNCHANGED msgVars
  BY <1>8 DEF BackendRun, BackendStart, BackendStartFails, DrainLock, DrainMove,
     DrainUnlock, ConsumeEnd, ConsumedAll, RemoveAnswer, RemoveUnlink, RemoveSkip,
     RemovedAll, backVars
<1>9. UNCHANGED vars => UNCHANGED << msgVars, th_ctx_head, backVars >>
  BY DEF vars, listVars
<1>10. QED
  BY <1>1, <1>2, <1>3, <1>4, <1>5, <1>6, <1>7, <1>8, <1>9 DEF Next, ThreadStep, BackStep

-----------------------------------------------------------------------------
(* What a thread that is past its join may rely on. *)
LEMMA ExitStep == TypeOK /\ IInv /\ [Next]_vars => ExitInv'
<1> SUFFICES ASSUME TypeOK, IInv, [Next]_vars, NEW u \in Threads
             PROVE  /\ t_pc'[u] \in {"mark", "wait", "free", "null"} \cup InitPc => r'[u] = w'[u]
                    /\ t_pc'[u] \in {"free", "null"} \/ (t_pc'[u] = "wait" /\ status'[u] = DONE)
                         => handled'[u] = w'[u]
  BY DEF ExitInv
<1> DEFINE Past == t_pc[u] \in {"mark", "wait", "free", "null"} \cup InitPc
           Answered == t_pc[u] \in {"free", "null"} \/ (t_pc[u] = "wait" /\ status[u] = DONE)
           Goal == (Past' => r'[u] = w'[u]) /\ (Answered' => handled'[u] = w'[u])
<1>0. /\ Past => r[u] = w[u]
      /\ Answered => handled[u] = w[u]
      /\ Local(u)
      /\ EntryInv
  BY DEF IInv, ExitInv, LocalInv
<1> USE <1>0 DEF InitPc, NORMAL, WAIT_REMOVE, DONE, Local
<1>1. ASSUME NEW t \in Threads, ContextInit(t) PROVE Goal
  BY <1>1 DEF ContextInit, TypeOK, msgVars
<1>2. ASSUME NEW t \in Threads, InsertLock(t) PROVE Goal
  BY <1>2 DEF InsertLock, TypeOK, msgVars
<1>3. ASSUME NEW t \in Threads, InsertLink(t) PROVE Goal
  BY <1>3 DEF InsertLink, TypeOK, msgVars
<1>4. ASSUME NEW t \in Threads, InsertStore(t) PROVE Goal
  BY <1>4 DEF InsertStore, TypeOK, msgVars
<1>5. ASSUME NEW t \in Threads, InsertUnlock(t) PROVE Goal
  BY <1>5 DEF InsertUnlock, TypeOK, msgVars
<1>6. ASSUME NEW t \in Threads, Log(t) PROVE Goal
  BY <1>6 DEF Log, TypeOK, msgVars, threadVars
<1>7. ASSUME NEW t \in Threads, Exit(t) PROVE Goal
  BY <1>7 DEF Exit, TypeOK, msgVars
<1>8. ASSUME NEW t \in Threads, Join(t) PROVE Goal
  BY <1>8 DEF Join, TypeOK, msgVars
<1>9. ASSUME NEW t \in Threads, RemoveMark(t) PROVE Goal
  BY <1>9 DEF RemoveMark, TypeOK, msgVars
<1>10. ASSUME NEW t \in Threads, RemoveWait(t) PROVE Goal
  BY <1>10 DEF RemoveWait, TypeOK, msgVars
<1>11. ASSUME NEW t \in Threads, ContextFree(t) PROVE Goal
  BY <1>11 DEF ContextFree, TypeOK, msgVars
<1>12. ASSUME NEW t \in Threads, NEW what, ContextInitFails(t, what) PROVE Goal
  BY <1>12 DEF ContextInitFails, TypeOK, msgVars
<1>13. CASE Format
  <2>1. PICK o \in Threads : o = Owner(Current) /\ r[o] \in Nat /\ w[o] \in Nat
    <3>1. Owner(Current) \in Threads
      BY <1>13, CurrentType DEF Format, EntryInv
    <3>2. QED
      BY <3>1, ConstantFacts DEF TypeOK
  <2>2. r[o] < w[o]
    <3>1. r[o] <= b_w /\ b_w <= w[o] /\ r[o] # b_w
      BY <1>13, <2>1 DEF Format, IInv, CountInv
    <3>2. b_w \in Nat
      BY DEF TypeOK
    <3>3. QED
      BY <2>1, <3>1, <3>2
  <2>3. o = u => ~Past /\ ~Answered
    BY <2>1, <2>2
  <2>4. QED
    BY <1>13, <2>1, <2>3 DEF Format, TypeOK, threadVars
<1>14. CASE HandlersWrite
  <2>1. PICK o \in Threads : o = Owner(Current) /\ Listed(o)
    BY <1>14, CurrentLive DEF HandlersWrite, EntryInv
  <2>2. o = u => ~Answered
    BY <2>1 DEF Listed
  <2>3. QED
    BY <1>14, <2>1, <2>2 DEF HandlersWrite, TypeOK, threadVars
<1>15. CASE RemoveAnswer
  <2>1. PICK o \in Threads : o = Owner(Current)
    BY <1>15, CurrentLive DEF RemoveAnswer
  <2>2. r[u] = handled[u]
    BY <1>15 DEF RemoveAnswer, IInv, CountInv, ReleasedThenWritten
  <2>3. QED
    BY <1>15, <2>1, <2>2 DEF RemoveAnswer, TypeOK, msgVars
<1>16. CASE UNCHANGED << threadVars, msgVars >>
  BY <1>16 DEF threadVars, msgVars
<1>17. ASSUME
             BackendRun \/ BackendStart \/ BackendStartFails \/ DrainLock \/ DrainMove \/
                DrainUnlock \/ ConsumeBegin \/ ConsumeEnd \/ ConsumedAll \/ RemoveUnlink \/
                RemoveSkip \/ RemovedAll \/ UNCHANGED vars
      PROVE  UNCHANGED << threadVars, msgVars >>
  BY <1>17 DEF BackendRun, BackendStart, BackendStartFails, DrainLock, DrainMove,
     DrainUnlock, ConsumeBegin, ConsumeEnd, ConsumedAll, RemoveUnlink, RemoveSkip,
     RemovedAll, vars
<1>18. Goal
  BY <1>1, <1>2, <1>3, <1>4, <1>5, <1>6, <1>7, <1>8, <1>9, <1>10, <1>11, <1>12, <1>13,
     <1>14, <1>15, <1>16, <1>17 DEF Next, ThreadStep, BackStep
<1>19. QED
  BY <1>18

-----------------------------------------------------------------------------
LEMMA InvInit == Init => IInv
<1> SUFFICES ASSUME Init PROVE IInv
  OBVIOUS
<1>1. LocalInv /\ LockInv
  BY ConstantFacts DEF Init, LocalInv, Local, LockInv, NORMAL, WAIT_REMOVE, DONE
<1>2. EntryInv /\ OnceInv
  BY DEF Init, EntryInv, OnceInv, Distinct, In, Listed, HeadEntry
<1>3. CountInv /\ ExitInv
  BY DEF Init, CountInv, ReleasedThenWritten, ExitInv
<1>4. QED
  BY <1>1, <1>2, <1>3 DEF IInv

(* The state of the threads, of the lists and of the backend is well typed *)
(* and the inductive invariant holds, whatever the threads do and whatever *)
(* allocation fails.                                                       *)
THEOREM Invariance == Spec => [](TypeOK /\ IInv)
<1>1. Init => TypeOK /\ IInv
  BY TypeInit, InvInit
<1>2. TypeOK /\ IInv /\ [Next]_vars => (TypeOK /\ IInv)'
  <2> SUFFICES ASSUME TypeOK, IInv, [Next]_vars PROVE TypeOK' /\ IInv'
    OBVIOUS
  <2>1. TypeOK'
    BY TypeStep
  <2>2. LocalInv' /\ LockInv'
    BY LocalStep, LockStep
  <2>3. EntryInv' /\ OnceInv'
    BY ListStep
  <2>4. CountInv' /\ ExitInv'
    BY CountStep, ExitStep
  <2>5. QED
    BY <2>1, <2>2, <2>3, <2>4 DEF IInv
<1>3. QED
  BY <1>1, <1>2, PTL DEF Spec

(* The type invariant, for every set of threads. *)
THEOREM TypeCorrect == Spec => []TypeOK
BY Invariance, PTL

(* The backend never follows a pointer to a freed context or its buffer:   *)
(* what it serves is live until it has answered, and the answered entry is *)
(* only unlinked.                                                          *)
THEOREM BackendUsesLiveContexts == Spec => []NoUseAfterFree
<1>1. TypeOK /\ IInv => NoUseAfterFree
  <2> SUFFICES ASSUME TypeOK, IInv, node <= Len(th_ctx_head), b_pc # "unlink"
               PROVE  Alive(Current) /\ has_buf[Owner(Current)]
    BY DEF NoUseAfterFree, IInv, EntryInv
  <2>1. PICK o \in Threads : o = Owner(Current) /\ Listed(o) /\ Current = Context(o)
    BY CurrentLive DEF IInv
  <2>2. Local(o)
    BY DEF IInv, LocalInv
  <2>3. t_pc[o] # "null" /\ has_buf[o] /\ Current[2] = gen[o]
    BY <2>1, <2>2 DEF Local, Listed, Context
  <2>4. QED
    BY <2>1, <2>3 DEF Alive
<1>2. QED
  BY <1>1, Invariance, PTL

(* The context of a thread that may have messages is in one of the lists,  *)
(* exactly once, however the insertions and the backend's passes           *)
(* interleave.                                                             *)
THEOREM ListedExactlyOnce == Spec => []Registered
<1>1. ASSUME TypeOK, IInv, NEW t \in Threads, Listed(t)
      PROVE  LET both == th_ctx_add_list \o th_ctx_head
             IN  Cardinality({i \in DOMAIN both : both[i] = Context(t)}) = 1
  <2> DEFINE both == th_ctx_add_list \o th_ctx_head
             n == Len(th_ctx_add_list)
             m == Len(th_ctx_head)
  <2>1. th_ctx_add_list \in Seq(Contexts) /\ th_ctx_head \in Seq(Contexts)
    BY <1>1 DEF TypeOK, Contexts
  <2>2. /\ n \in Nat /\ m \in Nat /\ DOMAIN both = 1 .. n + m
        /\ \A i \in 1 .. n : both[i] = th_ctx_add_list[i]
        /\ \A i \in n + 1 .. n + m : i - n \in 1 .. m /\ both[i] = th_ctx_head[i - n]
    BY <2>1
  <2>3. \A j \in 1 .. m : j + n \in n + 1 .. n + m /\ both[j + n] = th_ctx_head[j]
    BY <2>1
  <2> HIDE DEF both, n, m
  <2>4. PICK k \in 1 .. n + m : both[k] = Context(t)
    <3>1. In(Context(t), th_ctx_add_list) \/ In(Context(t), th_ctx_head)
      BY <1>1 DEF IInv, OnceInv
    <3>2. CASE In(Context(t), th_ctx_add_list)
      <4>1. PICK i \in 1 .. n : th_ctx_add_list[i] = Context(t)
        BY <3>2 DEF In, n
      <4>2. i \in 1 .. n + m /\ both[i] = Context(t)
        BY <2>2, <4>1
      <4>3. QED
        BY <4>2
    <3>3. CASE In(Context(t), th_ctx_head)
      <4>1. PICK j \in 1 .. m : th_ctx_head[j] = Context(t)
        BY <3>3 DEF In, m
      <4>2. j + n \in 1 .. n + m /\ both[j + n] = Context(t)
        BY <2>2, <2>3, <4>1
      <4>3. QED
        BY <4>2
    <3>4. QED
      BY <3>1, <3>2, <3>3
  <2>5. ASSUME NEW i \in 1 .. n + m, NEW j \in 1 .. n + m, both[i] = both[j]
        PROVE  i = j
    <3>1. CASE i \in 1 .. n /\ j \in 1 .. n
      BY <1>1, <2>2, <2>5, <3>1 DEF IInv, OnceInv, Distinct, n
    <3>2. CASE i \notin 1 .. n /\ j \notin 1 .. n
      <4>1. /\ i - n \in 1 .. m /\ both[i] = th_ctx_head[i - n]
            /\ j - n \in 1 .. m /\ both[j] = th_ctx_head[j - n]
        BY <2>2, <3>2
      <4>2. i - n = j - n
        BY <1>1, <2>5, <4>1 DEF IInv, OnceInv, Distinct, m
      <4>3. QED
        BY <2>2, <4>2
    <3>3. CASE i \in 1 .. n /\ j \notin 1 .. n
      <4>1. both[i] = th_ctx_add_list[i] /\ j - n \in 1 .. m /\ both[j] = th_ctx_head[j - n]
        BY <2>2, <3>3
      <4>2. QED
        BY <1>1, <2>5, <3>3, <4>1 DEF IInv, OnceInv, n, m
    <3>4. CASE i \notin 1 .. n /\ j \in 1 .. n
      <4>1. both[j] = th_ctx_add_list[j] /\ i - n \in 1 .. m /\ both[i] = th_ctx_head[i - n]
        BY <2>2, <3>4
      <4>2. QED
        BY <1>1, <2>5, <3>4, <4>1 DEF IInv, OnceInv, n, m
    <3>5. QED
      BY <3>1, <3>2, <3>3, <3>4
  <2>6. {i \in DOMAIN both : both[i] = Context(t)} = {k}
    BY <2>2, <2>4, <2>5
  <2>7. Cardinality({i \in DOMAIN both : both[i] = Context(t)}) = 1
    BY <2>6, FS_Singleton
  <2>8. QED
    BY <2>7 DEF both
<1>2. TypeOK /\ IInv => Registered
  BY <1>1 DEF Registered, Listed
<1>3. QED
  BY <1>2, Invariance, PTL

(* When haclog_thread_context_cleanup has returned, the handlers have      *)
(* written everything the thread logged.                                   *)
THEOREM CleanupDelivers ==
  ASSUME ExitCall = "cleanup"
  PROVE  Spec => []ExitDelivers
<1>1. IInv => ExitDelivers
  BY DEF IInv, ExitInv, ExitDelivers, LocalInv, Local
<1>2. QED
  BY <1>1, Invariance, PTL

(* At most one message at a time is released and not yet written, and it   *)
(* is one of the context the backend is serving.                           *)
THEOREM WrittenAfterRelease == Spec => []ReleasedThenWritten
<1>1. IInv => ReleasedThenWritten
  BY DEF IInv, CountInv
<1>2. QED
  BY <1>1, Invariance, PTL
=============================================================================
