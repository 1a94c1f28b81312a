------------------------------ MODULE Backend ------------------------------
(***************************************************************************)
(* The life of the thread contexts: haclog_thread_context_init and         *)
(* _cleanup in the front-end threads, the shared context with its add list *)
(* and its list of contexts, and the loop of the backend thread over them. *)
(*                                                                         *)
(* A bytes buffer is reduced to what RingLog establishes for it: a thread  *)
(* publishes messages, the backend releases them in order and hands each   *)
(* to the handlers after it has released it.  Messages are counted.        *)
(*                                                                         *)
(* A context is named by its thread and a generation, so that a pointer to *)
(* a freed context is told apart from one to the next context of the same  *)
(* thread.                                                                 *)
(***************************************************************************)
EXTENDS Integers, Sequences, FiniteSets

CONSTANTS
  Threads,
  BufMsgs,       \* messages that fit into a bytes buffer
  MaxMsgs,       \* bound on the messages of a thread
  MaxContexts,   \* bound on the contexts a thread creates
  FailingAllocs, \* the allocations that may fail
  ExitCall       \* what a thread calls when it exits: "cleanup" or "init"

Unlocked == "unlocked"
Back     == "backend"

ASSUME BackendAssumption ==
  /\ IsFiniteSet(Threads) /\ Threads \cap {Unlocked, Back} = {}
  /\ BufMsgs \in Nat \ {0} /\ MaxMsgs \in Nat /\ MaxContexts \in Nat
  /\ FailingAllocs \subseteq {"bytes_buf", "node", "msg_buf"}
  /\ ExitCall \in {"cleanup", "init"}

VARIABLES
  spinlock,          \* ctx->spinlock: who holds it
  th_ctx_add_list,   \* contexts to be taken over by the backend, first to last
  th_ctx_head,       \* contexts the backend serves, first to last
  t_pc,              \* where each front-end thread is
  gen,               \* the generation of its context
  has_buf,           \* its context has a bytes buffer
  status,            \* th_ctx->status
  node_next,         \* node->next of the node it is inserting
  failed,            \* its haclog_thread_context_init is going to return NULL
  w, r, handled,     \* messages published, released, written by the handlers
  b_pc, node, b_w    \* the backend: where it is, the list position of its
                     \* node, the w it loaded

listVars   == << spinlock, th_ctx_add_list, th_ctx_head >>
threadVars == << t_pc, gen, has_buf, status, node_next, failed >>
msgVars    == << w, r, handled >>
backVars   == << b_pc, node, b_w >>
vars       == << listVars, threadVars, msgVars, backVars >>

NORMAL == "normal"
WAIT_REMOVE == "wait_remove"
DONE == "done"

(* The steps of a thread inside haclog_thread_context_init and _cleanup. *)
InitPc    == {"lock", "link", "store", "unlock"}
CleanupPc == {"join", "mark", "wait", "free"}
ThreadPc  == {"null", "ready", "exited"} \cup InitPc \cup CleanupPc
BackendPc == {"off", "start", "dead", "lock", "drain", "consume", "format", "write",
              "remove", "unlink"}

Context(t) == << t, gen[t] >>
Owner(c)   == c[1]

(* The context is allocated; any other pointer to it dangles. *)
Alive(c) == gen[Owner(c)] = c[2] /\ t_pc[Owner(c)] # "null"

-----------------------------------------------------------------------------
Init ==
  /\ spinlock = Unlocked /\ th_ctx_add_list = << >> /\ th_ctx_head = << >>
  /\ t_pc = [t \in Threads |-> "null"]
  /\ gen = [t \in Threads |-> 0]
  /\ has_buf = [t \in Threads |-> FALSE]
  /\ status = [t \in Threads |-> NORMAL]
  /\ node_next = [t \in Threads |-> << >>]
  /\ failed = [t \in Threads |-> FALSE]
  /\ w = [t \in Threads |-> 0] /\ r = [t \in Threads |-> 0]
  /\ handled = [t \in Threads |-> 0]
  /\ b_pc = "off" /\ node = 1 /\ b_w = 0

-----------------------------------------------------------------------------
(* haclog_thread_context_init. *)

(* The context, its buffer and its list node are allocated.  (When the     *)
(* context itself cannot be, init returns NULL and nothing has changed.)   *)
ContextInit(t) ==
  /\ t_pc[t] = "null"
  /\ gen[t] < MaxContexts
  /\ gen' = [gen EXCEPT ![t] = @ + 1]
  /\ status' = [status EXCEPT ![t] = NORMAL]
  /\ has_buf' = [has_buf EXCEPT ![t] = TRUE]
  /\ failed' = [failed EXCEPT ![t] = FALSE]
  /\ t_pc' = [t_pc EXCEPT ![t] = "lock"]
  /\ UNCHANGED << listVars, node_next, msgVars, backVars >>

(* The buffer or the node cannot be allocated: init calls                  *)
(* haclog_thread_context_cleanup, which joins the buffer if there is one.  *)
ContextInitFails(t, what) ==
  /\ t_pc[t] = "null"
  /\ gen[t] < MaxContexts
  /\ gen' = [gen EXCEPT ![t] = @ + 1]
  /\ status' = [status EXCEPT ![t] = NORMAL]
  /\ has_buf' = [has_buf EXCEPT ![t] = what = "node"]
  /\ failed' = [failed EXCEPT ![t] = TRUE]
  /\ t_pc' = [t_pc EXCEPT ![t] = IF what = "node" THEN "join" ELSE "mark"]
  /\ UNCHANGED << listVars, node_next, msgVars, backVars >>

(* A variant of InsertLock with a mistake: the lock is not waited for. *)
InsertLock_NoWait(t) ==
  /\ t_pc[t] = "lock"
  /\ spinlock' = t
  /\ t_pc' = [t_pc EXCEPT ![t] = "link"]
  /\ UNCHANGED << th_ctx_add_list, th_ctx_head, gen, has_buf, status, node_next, failed, msgVars, backVars >>

(* haclog_context_insert_thread_context pushes the node on the add list,   *)
(* under the spinlock.                                                     *)
InsertLock(t) ==
  /\ t_pc[t] = "lock"
  /\ spinlock = Unlocked
  /\ spinlock' = t
  /\ t_pc' = [t_pc EXCEPT ![t] = "link"]
  /\ UNCHANGED << th_ctx_add_list, th_ctx_head, gen, has_buf, status, node_next, failed, msgVars, backVars >>

InsertLink(t) ==
  /\ t_pc[t] = "link"
  /\ node_next' = [node_next EXCEPT ![t] = th_ctx_add_list]
  /\ t_pc' = [t_pc EXCEPT ![t] = "store"]
  /\ UNCHANGED << listVars, gen, has_buf, status, failed, msgVars, backVars >>

InsertStore(t) ==
  /\ t_pc[t] = "store"
  /\ th_ctx_add_list' = << Context(t) >> \o node_next[t]
  /\ node_next' = [node_next EXCEPT ![t] = << >>]
  /\ t_pc' = [t_pc EXCEPT ![t] = "unlock"]
  /\ UNCHANGED << spinlock, th_ctx_head, gen, has_buf, status, failed, msgVars, backVars >>

InsertUnlock(t) ==
  /\ t_pc[t] = "unlock"
  /\ spinlock' = Unlocked
  /\ t_pc' = [t_pc EXCEPT ![t] = "ready"]
  /\ UNCHANGED << th_ctx_add_list, th_ctx_head, gen, has_buf, status, node_next, failed, msgVars, backVars >>

-----------------------------------------------------------------------------
(* A log call of a thread with a context; it waits while the buffer is     *)
(* full.                                                                   *)
Log(t) ==
  /\ t_pc[t] = "ready"
  /\ w[t] < MaxMsgs
  /\ w[t] - r[t] < BufMsgs
  /\ w' = [w EXCEPT ![t] = @ + 1]
  /\ UNCHANGED << listVars, threadVars, r, handled, backVars >>

(* The thread makes its last call to haclog: _cleanup starts with the      *)
(* join; _init finds the thread's context and returns it.                  *)
Exit(t) ==
  /\ t_pc[t] = "ready"
  /\ t_pc' = [t_pc EXCEPT ![t] = IF ExitCall = "cleanup" THEN "join" ELSE "exited"]
  /\ UNCHANGED << listVars, gen, has_buf, status, node_next, failed, msgVars, backVars >>

-----------------------------------------------------------------------------
(* haclog_thread_context_cleanup. *)

(* haclog_bytes_buffer_join returns. *)
Join(t) ==
  /\ t_pc[t] = "join"
  /\ r[t] = w[t]
  /\ t_pc' = [t_pc EXCEPT ![t] = "mark"]
  /\ UNCHANGED << listVars, gen, has_buf, status, node_next, failed, msgVars, backVars >>

(* haclog_context_remove_thread_context asks the backend and waits. *)
RemoveMark(t) ==
  /\ t_pc[t] = "mark"
  /\ status' = [status EXCEPT ![t] = WAIT_REMOVE]
  /\ t_pc' = [t_pc EXCEPT ![t] = "wait"]
  /\ UNCHANGED << listVars, gen, has_buf, node_next, failed, msgVars, backVars >>

(* A variant of RemoveWait with a mistake: it does not wait for DONE. *)
RemoveWait_Returns(t) ==
  /\ t_pc[t] = "wait"
  /\ t_pc' = [t_pc EXCEPT ![t] = "free"]
  /\ UNCHANGED << listVars, gen, has_buf, status, node_next, failed, msgVars, backVars >>

RemoveWait(t) ==
  /\ t_pc[t] = "wait"
  /\ status[t] = DONE
  /\ t_pc' = [t_pc EXCEPT ![t] = "free"]
  /\ UNCHANGED << listVars, gen, has_buf, status, node_next, failed, msgVars, backVars >>

(* The buffer and the context are freed and the thread-local is NULL.  The *)
(* thread may then exit, or log again with a new context.                  *)
ContextFree(t) ==
  /\ t_pc[t] = "free"
  /\ has_buf' = [has_buf EXCEPT ![t] = FALSE]
  /\ t_pc' = [t_pc EXCEPT ![t] = "null"]
  /\ UNCHANGED << listVars, gen, status, node_next, failed, msgVars, backVars >>

-----------------------------------------------------------------------------
(* The backend thread. *)

(* haclog_backend_run *)
BackendRun ==
  /\ b_pc = "off"
  /\ b_pc' = "start"
  /\ UNCHANGED << listVars, threadVars, msgVars, node, b_w >>

(* The message buffer is allocated, or the backend ends here. *)
BackendStart ==
  /\ b_pc = "start"
  /\ b_pc' = "lock"
  /\ UNCHANGED << listVars, threadVars, msgVars, node, b_w >>

BackendStartFails ==
  /\ b_pc = "start"
  /\ "msg_buf" \in FailingAllocs
  /\ b_pc' = "dead"
  /\ UNCHANGED << listVars, threadVars, msgVars, node, b_w >>

(* haclog_handle_new_thread_ctx moves every new context to the list. *)
DrainLock ==
  /\ b_pc = "lock"
  /\ spinlock = Unlocked
  /\ spinlock' = Back
  /\ b_pc' = "drain"
  /\ UNCHANGED << th_ctx_add_list, th_ctx_head, threadVars, msgVars, node, b_w >>

(* Variants of DrainMove and DrainUnlock with a mistake: the list is       *)
(* replaced by the new context; the pass starts at the list's head, which  *)
(* holds no context.                                                       *)
DrainMove_Replaces ==
  /\ b_pc = "drain"
  /\ th_ctx_add_list # << >>
  /\ th_ctx_add_list' = Tail(th_ctx_add_list)
  /\ th_ctx_head' = << Head(th_ctx_add_list) >>
  /\ UNCHANGED << spinlock, threadVars, msgVars, backVars >>

DrainUnlock_AtHead ==
  /\ b_pc = "drain"
  /\ th_ctx_add_list = << >>
  /\ spinlock' = Unlocked
  /\ b_pc' = "consume" /\ node' = 0
  /\ UNCHANGED << th_ctx_add_list, th_ctx_head, threadVars, msgVars, b_w >>

DrainMove ==
  /\ b_pc = "drain"
  /\ th_ctx_add_list # << >>
  /\ th_ctx_add_list' = Tail(th_ctx_add_list)
  /\ th_ctx_head' = << Head(th_ctx_add_list) >> \o th_ctx_head
  /\ UNCHANGED << spinlock, threadVars, msgVars, backVars >>

DrainUnlock ==
  /\ b_pc = "drain"
  /\ th_ctx_add_list = << >>
  /\ spinlock' = Unlocked
  /\ b_pc' = "consume" /\ node' = 1
  /\ UNCHANGED << th_ctx_add_list, th_ctx_head, threadVars, msgVars, b_w >>

Current == th_ctx_head[node]

(* haclog_consume of the current context loads w. *)
ConsumeBegin ==
  /\ b_pc = "consume"
  /\ node <= Len(th_ctx_head)
  /\ b_w' = w[Owner(Current)]
  /\ b_pc' = "format"
  /\ UNCHANGED << listVars, threadVars, msgVars, node >>

(* A variant of Format with a mistake: it releases all it has seen. *)
Format_ReleasesAll ==
  /\ b_pc = "format"
  /\ r[Owner(Current)] # b_w
  /\ r' = [r EXCEPT ![Owner(Current)] = b_w]
  /\ b_pc' = "write"
  /\ UNCHANGED << listVars, threadVars, w, handled, node, b_w >>

(* haclog_printf_primitive_format reads a message and releases it. *)
Format ==
  /\ b_pc = "format"
  /\ r[Owner(Current)] # b_w
  /\ r' = [r EXCEPT ![Owner(Current)] = @ + 1]
  /\ b_pc' = "write"
  /\ UNCHANGED << listVars, threadVars, w, handled, node, b_w >>

HandlersWrite ==
  /\ b_pc = "write"
  /\ handled' = [handled EXCEPT ![Owner(Current)] = @ + 1]
  /\ b_pc' = "format"
  /\ UNCHANGED << listVars, threadVars, w, r, node, b_w >>

ConsumeEnd ==
  /\ b_pc = "format"
  /\ r[Owner(Current)] = b_w
  /\ node' = node + 1
  /\ b_pc' = "consume"
  /\ UNCHANGED << listVars, threadVars, msgVars, b_w >>

ConsumedAll ==
  /\ b_pc = "consume"
  /\ node > Len(th_ctx_head)
  /\ b_pc' = "remove" /\ node' = 1
  /\ UNCHANGED << listVars, threadVars, msgVars, b_w >>

(* Variants of RemoveAnswer and RemoveUnlink with a mistake: the node is   *)
(* unlinked and the thread not told; the node of a freed context stays.    *)
RemoveAnswer_Silent ==
  /\ b_pc = "remove"
  /\ node <= Len(th_ctx_head)
  /\ status[Owner(Current)] = WAIT_REMOVE
  /\ b_pc' = "unlink"
  /\ UNCHANGED << listVars, threadVars, msgVars, node, b_w >>

RemoveUnlink_Keeps ==
  /\ b_pc = "unlink"
  /\ node' = node + 1
  /\ b_pc' = "remove"
  /\ UNCHANGED << listVars, threadVars, msgVars, b_w >>

(* haclog_handle_remove_thread_ctx answers the contexts that wait for it,  *)
(* and unlinks their nodes.                                                *)
RemoveAnswer ==
  /\ b_pc = "remove"
  /\ node <= Len(th_ctx_head)
  /\ status[Owner(Current)] = WAIT_REMOVE
  /\ status' = [status EXCEPT ![Owner(Current)] = DONE]
  /\ b_pc' = "unlink"
  /\ UNCHANGED << listVars, t_pc, gen, has_buf, node_next, failed, msgVars, node, b_w >>

RemoveUnlink ==
  /\ b_pc = "unlink"
  /\ th_ctx_head' = SubSeq(th_ctx_head, 1, node - 1)
                      \o SubSeq(th_ctx_head, node + 1, Len(th_ctx_head))
  /\ b_pc' = "remove"
  /\ UNCHANGED << spinlock, th_ctx_add_list, threadVars, msgVars, node, b_w >>

RemoveSkip ==
  /\ b_pc = "remove"
  /\ node <= Len(th_ctx_head)
  /\ status[Owner(Current)] # WAIT_REMOVE
  /\ node' = node + 1
  /\ UNCHANGED << listVars, threadVars, msgVars, b_pc, b_w >>

(* The pass is over; the loop starts again. *)
RemovedAll ==
  /\ b_pc = "remove"
  /\ node > Len(th_ctx_head)
  /\ b_pc' = "lock"
  /\ UNCHANGED << listVars, threadVars, msgVars, node, b_w >>

-----------------------------------------------------------------------------
(* The steps a thread takes inside a call; the lock is apart. *)
ThreadStep(t) ==
  \/ InsertLink(t) \/ InsertStore(t) \/ InsertUnlock(t)
  \/ Join(t) \/ RemoveMark(t) \/ RemoveWait(t) \/ ContextFree(t)

BackStep ==
  \/ BackendRun \/ BackendStart \/ BackendStartFails
  \/ DrainLock \/ DrainMove \/ DrainUnlock
  \/ ConsumeBegin \/ Format \/ HandlersWrite \/ ConsumeEnd \/ ConsumedAll
  \/ RemoveAnswer \/ RemoveUnlink \/ RemoveSkip \/ RemovedAll

Next ==
  \/ \E t \in Threads :
       \/ ContextInit(t)
       \/ \E what \in FailingAllocs \ {"msg_buf"} : ContextInitFails(t, what)
       \/ InsertLock(t) \/ ThreadStep(t)
       \/ Log(t) \/ Exit(t)
  \/ BackStep

Spec == Init /\ [][Next]_vars

(***************************************************************************)
(* The threads and the backend keep running inside their calls.  A thread  *)
(* that spins on the lock tries again and again, so it gets it if it is    *)
(* free infinitely often.  The application starts the backend, and is not  *)
(* forced to log, to create contexts or to clean up.                       *)
(***************************************************************************)
Fairness ==
  /\ \A t \in Threads : WF_vars(ThreadStep(t)) /\ SF_vars(InsertLock(t))
  /\ WF_vars(BackStep) /\ SF_vars(DrainLock)

FairSpec == Spec /\ Fairness

-----------------------------------------------------------------------------
(* Properties. *)

TypeOK ==
  /\ spinlock \in Threads \cup {Unlocked, Back}
  /\ th_ctx_add_list \in Seq(Threads \X (1 .. MaxContexts))
  /\ th_ctx_head \in Seq(Threads \X (1 .. MaxContexts))
  /\ t_pc \in [Threads -> ThreadPc]
  /\ gen \in [Threads -> 0 .. MaxContexts]
  /\ has_buf \in [Threads -> BOOLEAN]
  /\ status \in [Threads -> {NORMAL, WAIT_REMOVE, DONE}]
  /\ node_next \in [Threads -> Seq(Threads \X (1 .. MaxContexts))]
  /\ failed \in [Threads -> BOOLEAN]
  /\ w \in [Threads -> 0 .. MaxMsgs]
  /\ r \in [Threads -> Nat] /\ handled \in [Threads -> Nat]
  /\ b_pc \in BackendPc /\ node \in Nat \ {0} /\ b_w \in Nat

(***************************************************************************)
(* The backend follows node->th_ctx and th_ctx->bytes_buf only while the   *)
(* thread has not freed them: the answer DONE, which lets the thread free  *)
(* its context, is the last access the backend makes to it.                *)
(***************************************************************************)
NoUseAfterFree ==
  /\ b_pc \in {"format", "write"} =>
       Alive(Current) /\ has_buf[Owner(Current)]
  /\ b_pc \in {"consume", "remove"} /\ node <= Len(th_ctx_head) => Alive(Current)

(***************************************************************************)
(* A thread with a context that may hold messages is in exactly one of the *)
(* two lists, once, however many threads insert and are taken over at the  *)
(* same time: its messages are not forgotten and not served twice.         *)
(***************************************************************************)
Registered ==
  \A t \in Threads :
    t_pc[t] \in {"ready", "exited", "join", "mark"} /\ ~failed[t] =>
    LET both == th_ctx_add_list \o th_ctx_head
    IN  Cardinality({i \in DOMAIN both : both[i] = Context(t)}) = 1

(***************************************************************************)
(* When a thread's exit call has returned, the handlers have written all   *)
(* it logged: the join alone does not say so, the answer of the backend    *)
(* does.                                                                   *)
(***************************************************************************)
ExitDelivers ==
  \A t \in Threads : t_pc[t] \in {"free", "null", "exited"} => handled[t] = w[t]

(* A published message is released by the backend before it is written,    *)
(* one message at a time and only while its context is being served.       *)
ReleasedThenWritten ==
  \A t \in Threads :
    /\ handled[t] <= r[t] /\ r[t] <= w[t]
    /\ r[t] # handled[t] =>
         r[t] = handled[t] + 1 /\ b_pc = "write" /\ Owner(Current) = t

(* Everything that is logged is written, whatever the other threads do. *)
EventuallyWritten == \A t \in Threads : \A n \in 1 .. MaxMsgs : w[t] = n ~> handled[t] >= n

(* haclog_thread_context_cleanup of a thread that exits returns. *)
CleanupReturns ==
  \A t \in Threads : t_pc[t] \in CleanupPc /\ ~failed[t] ~> t_pc[t] = "null"

(* "otherwise, return NULL and set haclog last error": a                   *)
(* haclog_thread_context_init that cannot allocate what it needs returns.  *)
FailedInitReturns ==
  \A t \in Threads : t_pc[t] \in CleanupPc /\ failed[t] ~> t_pc[t] = "null"
=============================================================================
