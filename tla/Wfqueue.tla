------------------------------ MODULE Wfqueue ------------------------------
(***************************************************************************)
(* wfqueue: the deprecated queue with a wait-free enqueue and a blocking   *)
(* dequeue (include/urcu/static/wfqueue.h; src/wfqueue.c exports the same  *)
(* functions).                                                             *)
(*                                                                         *)
(* An enqueuer exchanges the tail pointer and then stores through the old  *)
(* one.  The queue is never without a node: a dequeuer that finds the      *)
(* dummy in front enqueues it again behind the others.  A dequeued node    *)
(* may be reused at once.                                                  *)
(***************************************************************************)
EXTENDS Sequences

CONSTANTS
    WfqThreads,   \* the callers
    WfqNodes,     \* the nodes
    WfqDummy,     \* &q->dummy
    WfqQueue,     \* the queue
    WfqNull       \* NULL

ASSUME WfqueueAssumption ==
    /\ WfqDummy \notin WfqNodes
    /\ WfqNull \notin WfqNodes \cup WfqThreads \cup {WfqDummy}
    /\ WfqNull # <<"nothing">>
    /\ \A b \in BOOLEAN : WfqNull # <<"put", b>>
    /\ \A n \in WfqNodes : WfqNull # <<"took", n>>

VARIABLES
    fq_head,    \* q->head
    fq_tail,    \* the node whose next pointer q->tail points to
    fq_next,    \* node->next
    fq_lock,    \* the owner of q->lock
    fq_pc,      \* what each thread does next
    fq_old,     \* old_tail of _cds_wfq_enqueue(), a node, too
    fq_node,    \* the node it enqueues
    fq_fifo,    \* history: the enqueued nodes in order, no dummy
    fq_ret      \* the result of the call

wfqvars == <<fq_head, fq_tail, fq_next, fq_lock, fq_pc, fq_old, fq_node,
             fq_fifo, fq_ret>>

(* _cds_wfq_init()                                                         *)
WfqueueInit ==
    /\ fq_head = WfqDummy /\ fq_tail = WfqDummy
    /\ fq_next = [n \in WfqNodes \cup {WfqDummy} |-> WfqNull]
    /\ fq_lock = WfqNull
    /\ fq_pc = [t \in WfqThreads |-> "idle"]
    /\ fq_old = [t \in WfqThreads |-> WfqNull]
    /\ fq_node = [t \in WfqThreads |-> WfqNull]
    /\ fq_fifo = << >>
    /\ fq_ret = [t \in WfqThreads |-> WfqNull]

WfqGoto(t, l) == fq_pc' = [fq_pc EXCEPT ![t] = l]

WfqResult(t, result, l) ==
    /\ fq_ret' = [fq_ret EXCEPT ![t] = result]
    /\ WfqGoto(t, l)

(* old_tail = uatomic_xchg(&q->tail, &node->next)                          *)
XchgTail(t, n) ==
    /\ fq_tail' = n
    /\ fq_old' = [fq_old EXCEPT ![t] = fq_tail]
    /\ fq_node' = [fq_node EXCEPT ![t] = n]

(* _cds_wfq_node_init() and the exchange of _cds_wfq_enqueue().            *)
cds_wfq_enqueue(t, n) ==
    /\ fq_pc[t] = "idle" /\ \A i \in DOMAIN fq_fifo : fq_fifo[i] # n
    /\ XchgTail(t, n)
    /\ fq_next' = [fq_next EXCEPT ![n] = WfqNull]
    /\ fq_fifo' = Append(fq_fifo, n)
    /\ WfqResult(t, <<"put", fq_fifo # << >>>>, "link")
    /\ UNCHANGED <<fq_head, fq_lock>>

(* The store through old_tail; a dequeuer that enqueued the dummy starts   *)
(* again.                                                                  *)
WfqLink(t) ==
    /\ fq_pc[t] \in {"link", "relink"}
    /\ fq_next' = [fq_next EXCEPT ![fq_old[t]] = fq_node[t]]
    /\ WfqGoto(t, IF fq_pc[t] = "link" THEN "return" ELSE "test")
    /\ UNCHANGED <<fq_head, fq_tail, fq_lock, fq_old, fq_node, fq_fifo, fq_ret>>

(* cds_wfq_dequeue_blocking(): lock.                                       *)
cds_wfq_dequeue_blocking(t) ==
    /\ fq_pc[t] = "idle" /\ fq_lock = WfqNull
    /\ fq_lock' = t
    /\ WfqGoto(t, "test")
    /\ UNCHANGED <<fq_head, fq_tail, fq_next, fq_old, fq_node, fq_fifo, fq_ret>>

(* Mutant: a queue whose first node is the dummy is taken for empty.       *)
DummyInFront == fq_head = WfqDummy

(* "Queue is empty if it only contains the dummy node."                    *)
OnlyDummy == fq_head = WfqDummy /\ fq_tail = WfqDummy

TestEmpty(t) ==
    /\ fq_pc[t] = "test"
    /\ \/ OnlyDummy /\ WfqResult(t, <<"nothing">>, "return")
       \/ ~OnlyDummy /\ WfqGoto(t, "sync") /\ UNCHANGED fq_ret
    /\ UNCHANGED <<fq_head, fq_tail, fq_next, fq_lock, fq_old, fq_node, fq_fifo>>

(* ___cds_wfq_node_sync_next() waits for the link of the first node; then  *)
(* the head moves.  A node is the result, the dummy is enqueued again.     *)
WfqAdvance(t) ==
    /\ fq_pc[t] = "sync" /\ fq_next[fq_head] # WfqNull
    /\ fq_head' = fq_next[fq_head]
    /\ \/ /\ fq_head = WfqDummy
          /\ fq_next' = [fq_next EXCEPT ![WfqDummy] = WfqNull]
          /\ WfqGoto(t, "requeue")
          /\ UNCHANGED <<fq_fifo, fq_ret>>
       \/ /\ fq_head # WfqDummy
          /\ fq_fifo' = Tail(fq_fifo)
          /\ WfqResult(t, <<"took", fq_head>>, "return")
          /\ UNCHANGED fq_next
    /\ UNCHANGED <<fq_tail, fq_lock, fq_old, fq_node>>

RequeueDummy(t) ==
    /\ fq_pc[t] = "requeue"
    /\ XchgTail(t, WfqDummy)
    /\ WfqGoto(t, "relink")
    /\ UNCHANGED <<fq_head, fq_next, fq_lock, fq_fifo, fq_ret>>

(* Return; a dequeuer unlocks.                                             *)
WfqReturn(t) ==
    /\ fq_pc[t] = "return"
    /\ fq_lock' = IF fq_lock = t THEN WfqNull ELSE fq_lock
    /\ fq_old' = [fq_old EXCEPT ![t] = WfqNull]
    /\ fq_node' = [fq_node EXCEPT ![t] = WfqNull]
    /\ WfqResult(t, WfqNull, "idle")
    /\ UNCHANGED <<fq_head, fq_tail, fq_next, fq_fifo>>

WfqStep(t) ==
    \/ \E n \in WfqNodes : cds_wfq_enqueue(t, n)
    \/ cds_wfq_dequeue_blocking(t) \/ WfqReturn(t)
    \/ WfqLink(t) \/ TestEmpty(t) \/ WfqAdvance(t) \/ RequeueDummy(t)

WfqueueNext == \E t \in WfqThreads : WfqStep(t)

WfqueueSpec == WfqueueInit /\ [][WfqueueNext]_wfqvars

-----------------------------------------------------------------------------
DummyFifo == INSTANCE Container WITH
    Threads <- WfqThreads, Containers <- {WfqQueue}, Nodes <- WfqNodes,
    Fifo <- TRUE, NULL <- WfqNull,
    content <- [q \in {WfqQueue} |-> fq_fifo],
    hand <- [t \in WfqThreads |-> << >>], ret <- fq_ret

(* Every wfqueue call takes effect at one instant, on a first-in first-out *)
(* queue, while the dummy moves through it and nodes are reused as soon as *)
(* they are dequeued; NULL is returned only when the queue is empty.       *)
WfqImplementsFifo == DummyFifo!Spec

=============================================================================
