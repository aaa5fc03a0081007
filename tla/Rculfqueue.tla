---------------------------- MODULE Rculfqueue -----------------------------
(***************************************************************************)
(* rculfqueue: the lock-free queue whose nodes RCU protects (include/urcu/ *)
(* static/rculfqueue.h; src/rculfqueue.c exports the same functions).      *)
(*                                                                         *)
(* The queue always has a node.  An enqueuer links its node to the last    *)
(* one by compare-and-swap and then moves the tail, or helps to move it;   *)
(* a dequeuer moves the head.  One that would take the last node enqueues  *)
(* a dummy first, and dummies at the head are dropped and freed by         *)
(* call_rcu().  Every call runs in a read-side critical section; a         *)
(* dequeued node and a dropped dummy are reused after a grace period.      *)
(***************************************************************************)
EXTENDS Sequences

CONSTANTS
    LfqThreads,    \* the callers
    LfqNodes,      \* the nodes of the callers
    Dummies,       \* the dummy nodes that malloc() can provide
    FirstDummy,    \* the one of cds_lfq_init_rcu()
    LfqPrograms,   \* the programs: who calls, and do grace periods end?
    LfqQueue,      \* the queue
    LfqNull        \* NULL

ASSUME RculfqueueAssumption ==
    /\ FirstDummy \in Dummies
    /\ LfqNodes \cap Dummies = {} /\ LfqNull \notin LfqNodes \cup Dummies
    /\ LfqPrograms \subseteq [who : SUBSET LfqThreads, grace : BOOLEAN]

VARIABLES
    lq_program,   \* the program of this run
    lq_head,      \* q->head, NULL once the queue is destroyed
    lq_tail,      \* q->tail
    lq_next,      \* node->next
    lq_where,     \* "out": with its owner, or free; "in": in the queue or on
                  \* its way there; "limbo": waits for a grace period
    lq_grace,     \* the sections that a node in limbo still waits for
    lq_pc,        \* what each thread does next
    lq_frame,     \* the locals of its call
    lq_fifo,      \* history: the enqueued nodes in order, no dummies
    lq_ret        \* the result of the call

lfqvars == <<lq_program, lq_head, lq_tail, lq_next, lq_where, lq_grace, lq_pc,
             lq_frame, lq_fifo, lq_ret>>

LfqNoFrame == [node |-> LfqNull, tail |-> LfqNull, head |-> LfqNull,
               next |-> LfqNull]

(* cds_lfq_init_rcu() with its make_dummy().                               *)
RculfqueueInit ==
    /\ lq_program \in LfqPrograms
    /\ lq_head = FirstDummy /\ lq_tail = FirstDummy
    /\ lq_next = [n \in LfqNodes \cup Dummies |-> LfqNull]
    /\ lq_where = [n \in LfqNodes \cup Dummies |->
                      IF n = FirstDummy THEN "in" ELSE "out"]
    /\ lq_grace = [n \in LfqNodes \cup Dummies |-> {}]
    /\ lq_pc = [t \in LfqThreads |-> "idle"]
    /\ lq_frame = [t \in LfqThreads |-> LfqNoFrame]
    /\ lq_fifo = << >>
    /\ lq_ret = [t \in LfqThreads |-> LfqNull]

LfqGoto(t, l) == lq_pc' = [lq_pc EXCEPT ![t] = l]

LfqResult(t, result, l) ==
    /\ lq_ret' = [lq_ret EXCEPT ![t] = result]
    /\ LfqGoto(t, l)

(* The read-side critical sections that run.                               *)
LfqSections == {t \in LfqThreads : lq_pc[t] # "idle"}

(* rcu_read_lock() in a thread of the program, while there is a queue.     *)
LfqMayCall(t) ==
    /\ t \in lq_program.who /\ lq_pc[t] = "idle" /\ lq_head # LfqNull

(* The node waits for a grace period: free_dummy_cb() or its owner's.      *)
ToLimbo(n) ==
    /\ lq_where' = [lq_where EXCEPT ![n] = "limbo"]
    /\ lq_grace' = [lq_grace EXCEPT ![n] = LfqSections]

(* rcu_read_unlock() and return.                                           *)
LfqReturn(t) ==
    /\ lq_pc[t] = "return"
    /\ lq_grace' = [n \in LfqNodes \cup Dummies |-> lq_grace[n] \ {t}]
    /\ lq_frame' = [lq_frame EXCEPT ![t] = LfqNoFrame]
    /\ LfqResult(t, LfqNull, "idle")
    /\ UNCHANGED <<lq_program, lq_head, lq_tail, lq_next, lq_where, lq_fifo>>

(* The grace period of a node ends: free_dummy_cb(), or the owner may      *)
(* modify and enqueue the node again.                                      *)
free_dummy_cb(n) ==
    /\ lq_program.grace /\ lq_where[n] = "limbo" /\ lq_grace[n] = {}
    /\ lq_where' = [lq_where EXCEPT ![n] = "out"]
    /\ UNCHANGED <<lq_program, lq_head, lq_tail, lq_next, lq_grace, lq_pc,
                   lq_frame, lq_fifo, lq_ret>>

-----------------------------------------------------------------------------
(* _cds_lfq_enqueue_rcu().                                                 *)

(* cds_lfq_node_init_rcu() of a node, or make_dummy(q, NULL).              *)
PrepareNode(t, n) ==
    /\ lq_where[n] = "out"
    /\ lq_where' = [lq_where EXCEPT ![n] = "in"]
    /\ lq_next' = [lq_next EXCEPT ![n] = LfqNull]
    /\ lq_frame' = [lq_frame EXCEPT ![t].node = n]
    /\ LfqGoto(t, "load_tail")

cds_lfq_enqueue_rcu(t, n) ==
    /\ LfqMayCall(t) /\ PrepareNode(t, n)
    /\ UNCHANGED <<lq_program, lq_head, lq_tail, lq_grace, lq_fifo, lq_ret>>

LoadTail(t) ==
    /\ lq_pc[t] = "load_tail"
    /\ lq_frame' = [lq_frame EXCEPT ![t].tail = lq_tail]
    /\ LfqGoto(t, "cas_next")
    /\ UNCHANGED <<lq_program, lq_head, lq_tail, lq_next, lq_where, lq_grace,
                   lq_fifo, lq_ret>>

(* next = uatomic_cmpxchg(&tail->next, NULL, node)                         *)
CasNext(t) ==
    LET f == lq_frame[t] IN
    /\ lq_pc[t] = "cas_next"
    /\ \/ /\ lq_next[f.tail] = LfqNull
          /\ lq_next' = [lq_next EXCEPT ![f.tail] = f.node]
          /\ \/ /\ f.node \in LfqNodes
                /\ lq_fifo' = Append(lq_fifo, f.node)
                /\ LfqResult(t, <<"put", lq_fifo # << >>>>, "move_tail")
             \/ /\ f.node \in Dummies
                /\ LfqGoto(t, "move_tail")
                /\ UNCHANGED <<lq_fifo, lq_ret>>
          /\ UNCHANGED lq_frame
       \/ /\ lq_next[f.tail] # LfqNull
          /\ lq_frame' = [lq_frame EXCEPT ![t].next = lq_next[f.tail]]
          /\ LfqGoto(t, "help_tail")
          /\ UNCHANGED <<lq_next, lq_fifo, lq_ret>>
    /\ UNCHANGED <<lq_program, lq_head, lq_tail, lq_where, lq_grace>>

(* uatomic_cmpxchg(&q->tail, tail, node): another thread may have been     *)
(* faster.  A dequeuer that enqueued a dummy goes on.                      *)
MoveTail(t) ==
    LET f == lq_frame[t] IN
    /\ lq_pc[t] = "move_tail"
    /\ lq_tail' = IF lq_tail = f.tail THEN f.node ELSE lq_tail
    /\ LfqGoto(t, IF f.node \in Dummies THEN "reload_next" ELSE "return")
    /\ UNCHANGED <<lq_program, lq_head, lq_next, lq_where, lq_grace, lq_frame,
                   lq_fifo, lq_ret>>

(* uatomic_cmpxchg(&q->tail, tail, next), and retry.                       *)
HelpTail(t) ==
    LET f == lq_frame[t] IN
    /\ lq_pc[t] = "help_tail"
    /\ lq_tail' = IF lq_tail = f.tail THEN f.next ELSE lq_tail
    /\ LfqGoto(t, "load_tail")
    /\ UNCHANGED <<lq_program, lq_head, lq_next, lq_where, lq_grace, lq_frame,
                   lq_fifo, lq_ret>>

-----------------------------------------------------------------------------
(* _cds_lfq_dequeue_rcu().                                                 *)

cds_lfq_dequeue_rcu(t) ==
    /\ LfqMayCall(t)
    /\ LfqGoto(t, "load_head")
    /\ UNCHANGED <<lq_program, lq_head, lq_tail, lq_next, lq_where, lq_grace,
                   lq_frame, lq_fifo, lq_ret>>

LfqLoadHead(t) ==
    /\ lq_pc[t] = "load_head"
    /\ lq_frame' = [lq_frame EXCEPT ![t].head = lq_head]
    /\ LfqGoto(t, "load_next")
    /\ UNCHANGED <<lq_program, lq_head, lq_tail, lq_next, lq_where, lq_grace,
                   lq_fifo, lq_ret>>

(* Empty; or a last node, before which a dummy must be enqueued; or more.  *)
LfqLoadNext(t) ==
    LET head == lq_frame[t].head
        next == lq_next[head]
    IN
    /\ lq_pc[t] = "load_next"
    /\ \/ /\ head \in Dummies /\ next = LfqNull
          /\ LfqResult(t, <<"nothing">>, "return")
          /\ UNCHANGED <<lq_frame, lq_where, lq_next>>
       \/ /\ head \notin Dummies /\ next = LfqNull
          /\ \E d \in Dummies : PrepareNode(t, d)
          /\ UNCHANGED lq_ret
       \/ /\ next # LfqNull
          /\ lq_frame' = [lq_frame EXCEPT ![t].next = next]
          /\ LfqGoto(t, "cas_head")
          /\ UNCHANGED <<lq_ret, lq_where, lq_next>>
    /\ UNCHANGED <<lq_program, lq_head, lq_tail, lq_grace, lq_fifo>>

ReloadNext(t) ==
    /\ lq_pc[t] = "reload_next"
    /\ lq_frame' = [lq_frame EXCEPT ![t].next = lq_next[lq_frame[t].head]]
    /\ LfqGoto(t, "cas_head")
    /\ UNCHANGED <<lq_program, lq_head, lq_tail, lq_next, lq_where, lq_grace,
                   lq_fifo, lq_ret>>

(* Mutant: the head moves although another dequeuer moved it before.       *)
HeadMatches(t) == TRUE

HeadUnchanged(t) == lq_head = lq_frame[t].head

(* uatomic_cmpxchg(&q->head, head, next).  A dummy goes to call_rcu() and  *)
(* the dequeuer tries again; a node is the result.                         *)
LfqCasHead(t) ==
    LET f == lq_frame[t] IN
    /\ lq_pc[t] = "cas_head"
    /\ \/ /\ HeadUnchanged(t)
          /\ lq_head' = f.next
          /\ ToLimbo(f.head)
          /\ \/ /\ f.head \in Dummies
                /\ LfqGoto(t, "load_head")
                /\ UNCHANGED <<lq_fifo, lq_ret>>
             \/ /\ f.head \in LfqNodes
                /\ lq_fifo' = SelectSeq(lq_fifo, LAMBDA n : n # f.head)
                /\ LfqResult(t, <<"took", f.head>>, "return")
       \/ /\ ~HeadUnchanged(t)
          /\ LfqGoto(t, "load_head")
          /\ UNCHANGED <<lq_head, lq_where, lq_grace, lq_fifo, lq_ret>>
    /\ UNCHANGED <<lq_program, lq_tail, lq_next, lq_frame>>

(* _cds_lfq_destroy_rcu(), when nobody else uses the queue: it succeeds    *)
(* when a dummy is alone in it.  -EPERM does not mean that there are nodes *)
(* left to dequeue: there may be two dummies, until a dequeue drops one.   *)
cds_lfq_destroy_rcu(t) ==
    /\ LfqMayCall(t) /\ LfqSections = {}
    /\ \/ /\ lq_head \in Dummies /\ lq_next[lq_head] = LfqNull
          /\ lq_where' = [lq_where EXCEPT ![lq_head] = "out"]
          /\ lq_head' = LfqNull /\ lq_tail' = LfqNull
          /\ LfqResult(t, <<"nothing">>, "return")
       \/ /\ ~(lq_head \in Dummies /\ lq_next[lq_head] = LfqNull)
          /\ LfqResult(t, <<"interfered">>, "return")
          /\ UNCHANGED <<lq_where, lq_head, lq_tail>>
    /\ UNCHANGED <<lq_program, lq_next, lq_grace, lq_frame, lq_fifo>>

-----------------------------------------------------------------------------
LfqStep(t) ==
    \/ \E n \in LfqNodes : cds_lfq_enqueue_rcu(t, n)
    \/ cds_lfq_dequeue_rcu(t) \/ cds_lfq_destroy_rcu(t) \/ LfqReturn(t)
    \/ LoadTail(t) \/ CasNext(t) \/ MoveTail(t) \/ HelpTail(t)
    \/ LfqLoadHead(t) \/ LfqLoadNext(t) \/ ReloadNext(t) \/ LfqCasHead(t)

RculfqueueNext ==
    \/ \E t \in LfqThreads : LfqStep(t)
    \/ \E n \in LfqNodes \cup Dummies : free_dummy_cb(n)

RculfqueueSpec == RculfqueueInit /\ [][RculfqueueNext]_lfqvars

-----------------------------------------------------------------------------
LockFreeFifo == INSTANCE Container WITH
    Threads <- LfqThreads, Containers <- {LfqQueue}, Nodes <- LfqNodes,
    Fifo <- TRUE, NULL <- LfqNull,
    content <- [q \in {LfqQueue} |-> lq_fifo],
    hand <- [t \in LfqThreads |-> << >>], ret <- lq_ret

(* Every rculfqueue call takes effect at one instant, on a first-in first- *)
(* out queue, whatever dummies dequeuers insert and drop at the same time  *)
(* and however far the tail lags behind; only an empty queue can be        *)
(* destroyed.                                                              *)
LfqImplementsFifo == LockFreeFifo!Spec

(* No call touches a node whose grace period has ended: the owner of a     *)
(* dequeued node and call_rcu() of a dummy "must wait for a grace period   *)
(* to pass before freeing the returned node", and need not do more.        *)
LfqTouchesLiveNodes ==
    \A t \in LfqThreads :
        /\ lq_pc[t] = "cas_next" => lq_where[lq_frame[t].tail] # "out"
        /\ lq_pc[t] \in {"load_next", "reload_next"} =>
              lq_where[lq_frame[t].head] # "out"

=============================================================================
