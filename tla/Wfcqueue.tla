------------------------------ MODULE Wfcqueue ------------------------------
(***************************************************************************)
(* wfcqueue: the queue of call_rcu() and of the work queue (include/urcu/  *)
(* static/wfcqueue.h; src/wfcqueue.c exports the same functions).          *)
(*                                                                         *)
(* A queue is a dummy node, the head, and a pointer to the last node.  An  *)
(* enqueuer exchanges the pointer and only then links its node from the    *)
(* previous last one; until it has, whoever follows the links must wait or *)
(* give up.  Enqueuers need no synchronisation.  Dequeue and iteration     *)
(* exclude each other and splice by the dequeue lock; splices need no lock *)
(* among themselves.  Each shared access is a step; the full barriers      *)
(* around them are what makes a sequentially consistent model faithful.    *)
(*                                                                         *)
(* A node is free again when its dequeue has taken effect: "It is valid to *)
(* reuse and free a dequeued node immediately."                            *)
(***************************************************************************)
EXTENDS Naturals, Sequences

CONSTANTS
    WfcqThreads,   \* the callers
    Queues,        \* the queues: q stands for &head->node of q, too
    WfcqNodes,     \* the nodes
    WfcqUses,      \* the programs: who calls, and how each queue is used:
                   \* not at all, its consumers take the lock, or they only
                   \* splice, which needs no lock
    NoNode         \* NULL

ASSUME WfcqueueAssumption ==
    /\ NoNode \notin WfcqNodes \cup Queues \cup WfcqThreads
    /\ WfcqNodes \cap Queues = {}
    /\ WfcqUses \subseteq [who : SUBSET WfcqThreads,
                          queues : [Queues -> {"unused", "locked", "splice"}]]
    /\ \A b \in BOOLEAN : NoNode # <<"put", b>>
    /\ \A n \in WfcqNodes, b \in BOOLEAN : NoNode # <<"took", n, b>>

VARIABLES
    wq_next,    \* node->next, of nodes and of heads
    wq_tail,    \* tail->p
    wq_lock,    \* the owner of head->lock
    wq_use,     \* the program
    wq_pc,      \* what each thread does next
    wq_frame,   \* the locals of its call
    wq_fifo,    \* history: the queued nodes, in the order of their enqueues
    wq_hand,    \* history: the nodes that a splice took from its source
    wq_ret      \* the result of the call

wfcqvars == <<wq_next, wq_tail, wq_lock, wq_use, wq_pc, wq_frame, wq_fifo,
              wq_hand, wq_ret>>

NoFrame == [op |-> "none", blocking |-> TRUE, q |-> NoNode, dest |-> NoNode,
            node |-> NoNode, next |-> NoNode, seen |-> << >>]

(* cds_wfcq_init(), __cds_wfcq_init().                                     *)
WfcqueueInit ==
    /\ wq_next = [n \in WfcqNodes \cup Queues |-> NoNode]
    /\ wq_tail = [q \in Queues |-> q]
    /\ wq_lock = [q \in Queues |-> NoNode]
    /\ wq_use \in WfcqUses
    /\ wq_pc = [t \in WfcqThreads |-> "idle"]
    /\ wq_frame = [t \in WfcqThreads |-> NoFrame]
    /\ wq_fifo = [q \in Queues |-> << >>]
    /\ wq_hand = [t \in WfcqThreads |-> << >>]
    /\ wq_ret = [t \in WfcqThreads |-> NoNode]

Goto(t, l) == wq_pc' = [wq_pc EXCEPT ![t] = l]

(* The call takes effect with this result and goes on at l.                *)
Result(t, result, l) ==
    /\ wq_ret' = [wq_ret EXCEPT ![t] = result]
    /\ Goto(t, l)

InSeq(n, s) == \E i \in DOMAIN s : s[i] = n

(* The caller owns the node: nothing of the queues refers to it.           *)
NodeFree(n) ==
    /\ \A q \in Queues : ~InSeq(n, wq_fifo[q])
    /\ \A t \in WfcqThreads : ~InSeq(n, wq_hand[t])

-----------------------------------------------------------------------------
(* Enqueue.                                                                *)

(* The exchange of ___cds_wfcq_append(): the nodes from first to last are  *)
(* in the queue; the link to them is the next step.                        *)
___cds_wfcq_append(t, q, first, last, nodes) ==
    /\ wq_tail' = [wq_tail EXCEPT ![q] = last]
    /\ wq_frame' = [wq_frame EXCEPT ![t].node = wq_tail[q],
                                    ![t].next = first]
    /\ wq_fifo' = [wq_fifo EXCEPT ![q] = @ \o nodes]
    /\ Result(t, <<"put", wq_tail[q] # q>>, "link")

(* cds_wfcq_node_init() and cds_wfcq_enqueue().                            *)
cds_wfcq_enqueue(t, q, n) ==
    /\ wq_pc[t] = "idle" /\ NodeFree(n)
    /\ wq_next' = [wq_next EXCEPT ![n] = NoNode]
    /\ ___cds_wfcq_append(t, q, n, n, <<n>>)
    /\ UNCHANGED <<wq_lock, wq_use, wq_hand>>

(* CMM_STORE_SHARED(old_tail->next, new_head)                              *)
AppendLink(t) ==
    /\ wq_pc[t] = "link"
    /\ wq_next' = [wq_next EXCEPT ![wq_frame[t].node] = wq_frame[t].next]
    /\ Goto(t, "return")
    /\ UNCHANGED <<wq_tail, wq_lock, wq_use, wq_frame, wq_fifo, wq_hand, wq_ret>>

-----------------------------------------------------------------------------
(* Calls of the consumers, and cds_wfcq_empty() of anybody.                *)

(* cds_wfcq_dequeue_lock(), by cds_wfcq_dequeue_with_state_blocking(),     *)
(* cds_wfcq_splice_blocking() or a caller of the nonblocking functions and *)
(* of the iterators.                                                       *)
MayConsume(t, q, op) ==
    \/ op = "empty"
    \/ wq_use.queues[q] = "splice" /\ op = "splice"
    \/ wq_use.queues[q] = "locked" /\ wq_lock[q] = NoNode

TakesLock(q, op) == op # "empty" /\ wq_use.queues[q] = "locked"

ConsumerCall(t, q, dest, op, blocking) ==
    /\ wq_pc[t] = "idle" /\ MayConsume(t, q, op)
    /\ wq_lock' = IF TakesLock(q, op) THEN [wq_lock EXCEPT ![q] = t]
                                      ELSE wq_lock
    /\ wq_frame' = [wq_frame EXCEPT ![t] = [NoFrame EXCEPT
                       !.op = op, !.blocking = blocking, !.q = q, !.dest = dest]]
    /\ Goto(t, "empty_head")
    /\ UNCHANGED <<wq_next, wq_tail, wq_use, wq_fifo, wq_hand, wq_ret>>

(* __cds_wfcq_dequeue_*(), __cds_wfcq_first_*() and then __cds_wfcq_next_* *)
(* (), cds_wfcq_empty().                                                   *)
cds_wfcq_dequeue(t, q, blocking) ==
    ConsumerCall(t, q, NoNode, "dequeue", blocking)
cds_wfcq_for_each(t, q, blocking) ==
    ConsumerCall(t, q, NoNode, "iterate", blocking)
cds_wfcq_empty(t, q) ==
    ConsumerCall(t, q, NoNode, "empty", TRUE)
cds_wfcq_splice(t, src, dest, blocking) ==
    /\ src # dest
    /\ ConsumerCall(t, src, dest, "splice", blocking)

(* The call returns; cds_wfcq_dequeue_unlock() when it holds the lock.     *)
WfcqReturn(t) ==
    /\ wq_pc[t] = "return"
    /\ wq_lock' = [q \in Queues |-> IF wq_lock[q] = t THEN NoNode ELSE wq_lock[q]]
    /\ wq_frame' = [wq_frame EXCEPT ![t] = NoFrame]
    /\ Result(t, NoNode, "idle")
    /\ UNCHANGED <<wq_next, wq_tail, wq_use, wq_fifo, wq_hand>>

(* _cds_wfcq_empty() is false: what the caller does then.                  *)
AfterNonEmpty(t) ==
    CASE wq_frame[t].op = "empty" -> "return"
      [] wq_frame[t].op = "splice" -> "take_head"
      [] OTHER -> "sync_head"

NonEmpty(t) ==
    /\ IF wq_frame[t].op = "empty"
       THEN Result(t, <<"something">>, "return")
       ELSE Goto(t, AfterNonEmpty(t)) /\ UNCHANGED wq_ret
    /\ UNCHANGED <<wq_next, wq_tail, wq_lock, wq_use, wq_frame, wq_fifo, wq_hand>>

(* head->node.next == NULL, the first half of _cds_wfcq_empty().           *)
EmptyHead(t) ==
    /\ wq_pc[t] = "empty_head"
    /\ \/ wq_next[wq_frame[t].q] # NoNode /\ NonEmpty(t)
       \/ /\ wq_next[wq_frame[t].q] = NoNode
          /\ Goto(t, "empty_tail")
          /\ UNCHANGED <<wq_next, wq_tail, wq_lock, wq_use, wq_frame, wq_fifo,
                         wq_hand, wq_ret>>

(* Mutant: the head alone decides.                                         *)
HeadDecides(q) == TRUE

(* tail->p == &head->node, the second half.                                *)
TailIsHead(q) == wq_tail[q] = q

EmptyTail(t) ==
    /\ wq_pc[t] = "empty_tail"
    /\ \/ /\ TailIsHead(wq_frame[t].q)
          /\ Result(t, <<"nothing">>, "return")
          /\ UNCHANGED <<wq_next, wq_tail, wq_lock, wq_use, wq_frame, wq_fifo,
                         wq_hand>>
       \/ ~TailIsHead(wq_frame[t].q) /\ NonEmpty(t)

(* ___cds_wfcq_node_sync_next() of a nonblocking call, on a missing link.  *)
GiveUp(t, node) ==
    /\ ~wq_frame[t].blocking /\ wq_next[node] = NoNode
    /\ Result(t, <<"would_block">>, "return")

-----------------------------------------------------------------------------
(* ___cds_wfcq_dequeue_with_state() and the iteration.                     *)

(* The first node, once it is linked.  While it is not, a blocking call    *)
(* polls: it is not enabled.                                               *)
SyncHead(t) ==
    LET f == wq_frame[t] IN
    /\ wq_pc[t] = "sync_head"
    /\ \/ /\ wq_next[f.q] # NoNode
          /\ wq_frame' = [wq_frame EXCEPT ![t].node = wq_next[f.q],
                             ![t].seen = IF f.op = "iterate"
                                         THEN <<wq_next[f.q]>> ELSE << >>]
          /\ Goto(t, IF f.op = "iterate" THEN "iter_next" ELSE "load_next")
          /\ UNCHANGED wq_ret
       \/ GiveUp(t, f.q) /\ UNCHANGED wq_frame
    /\ UNCHANGED <<wq_next, wq_tail, wq_lock, wq_use, wq_fifo, wq_hand>>

LoadNext(t) ==
    LET next == wq_next[wq_frame[t].node] IN
    /\ wq_pc[t] = "load_next"
    /\ wq_frame' = [wq_frame EXCEPT ![t].next = next]
    /\ Goto(t, IF next = NoNode THEN "reset_head" ELSE "advance")
    /\ UNCHANGED <<wq_next, wq_tail, wq_lock, wq_use, wq_fifo, wq_hand, wq_ret>>

(* _cds_wfcq_node_init(&head->node)                                        *)
ResetHead(t) ==
    /\ wq_pc[t] = "reset_head"
    /\ wq_next' = [wq_next EXCEPT ![wq_frame[t].q] = NoNode]
    /\ Goto(t, "cas_tail")
    /\ UNCHANGED <<wq_tail, wq_lock, wq_use, wq_frame, wq_fifo, wq_hand, wq_ret>>

(* The node leaves the queue; last is CDS_WFCQ_STATE_LAST.                 *)
Dequeued(t, last) ==
    /\ wq_fifo' = [wq_fifo EXCEPT ![wq_frame[t].q] = Tail(@)]
    /\ Result(t, <<"took", wq_frame[t].node, last>>, "return")

(* uatomic_cmpxchg(&tail->p, node, &head->node)                            *)
CasTail(t) ==
    LET f == wq_frame[t] IN
    /\ wq_pc[t] = "cas_tail"
    /\ \/ /\ wq_tail[f.q] = f.node
          /\ wq_tail' = [wq_tail EXCEPT ![f.q] = f.q]
          /\ Dequeued(t, TRUE)
       \/ /\ wq_tail[f.q] # f.node
          /\ Goto(t, "sync_next")
          /\ UNCHANGED <<wq_tail, wq_fifo, wq_ret>>
    /\ UNCHANGED <<wq_next, wq_lock, wq_use, wq_frame, wq_hand>>

(* The successor that the failed cmpxchg revealed; a nonblocking call that *)
(* cannot wait for its link restores the head first.                       *)
SyncNext(t) ==
    LET f == wq_frame[t] IN
    /\ wq_pc[t] = "sync_next"
    /\ \/ /\ wq_next[f.node] # NoNode
          /\ wq_frame' = [wq_frame EXCEPT ![t].next = wq_next[f.node]]
          /\ Goto(t, "advance")
       \/ /\ wq_next[f.node] = NoNode /\ ~f.blocking
          /\ Goto(t, "restore_head")
          /\ UNCHANGED wq_frame
    /\ UNCHANGED <<wq_next, wq_tail, wq_lock, wq_use, wq_fifo, wq_hand, wq_ret>>

RestoreHead(t) ==
    /\ wq_pc[t] = "restore_head"
    /\ wq_next' = [wq_next EXCEPT ![wq_frame[t].q] = wq_frame[t].node]
    /\ Result(t, <<"would_block">>, "return")
    /\ UNCHANGED <<wq_tail, wq_lock, wq_use, wq_frame, wq_fifo, wq_hand>>

(* head->node.next = next                                                  *)
Advance(t) ==
    /\ wq_pc[t] = "advance"
    /\ wq_next' = [wq_next EXCEPT ![wq_frame[t].q] = wq_frame[t].next]
    /\ Dequeued(t, FALSE)
    /\ UNCHANGED <<wq_tail, wq_lock, wq_use, wq_frame, wq_hand>>

-----------------------------------------------------------------------------
(* ___cds_wfcq_next(), once per node that follows the first.               *)

Visit(t, n) ==
    /\ wq_frame' = [wq_frame EXCEPT ![t].node = n,
                                    ![t].seen = Append(@, n)]
    /\ Goto(t, "iter_next")

IterNext(t) ==
    LET next == wq_next[wq_frame[t].node] IN
    /\ wq_pc[t] = "iter_next"
    /\ \/ next # NoNode /\ Visit(t, next)
       \/ next = NoNode /\ Goto(t, "iter_tail") /\ UNCHANGED wq_frame
    /\ UNCHANGED <<wq_next, wq_tail, wq_lock, wq_use, wq_fifo, wq_hand, wq_ret>>

IterTail(t) ==
    LET f == wq_frame[t] IN
    /\ wq_pc[t] = "iter_tail"
    /\ \/ wq_tail[f.q] = f.node /\ Result(t, <<"walked">> \o f.seen, "return")
       \/ wq_tail[f.q] # f.node /\ Goto(t, "iter_sync") /\ UNCHANGED wq_ret
    /\ UNCHANGED <<wq_next, wq_tail, wq_lock, wq_use, wq_frame, wq_fifo, wq_hand>>

IterSync(t) ==
    LET next == wq_next[wq_frame[t].node] IN
    /\ wq_pc[t] = "iter_sync"
    /\ \/ next # NoNode /\ Visit(t, next) /\ UNCHANGED wq_ret
       \/ GiveUp(t, wq_frame[t].node) /\ UNCHANGED wq_frame
    /\ UNCHANGED <<wq_next, wq_tail, wq_lock, wq_use, wq_fifo, wq_hand>>

-----------------------------------------------------------------------------
(* ___cds_wfcq_splice().                                                   *)

(* head = uatomic_xchg(&src_q_head->node.next, NULL)                       *)
TakeHead(t) ==
    LET q == wq_frame[t].q IN
    /\ wq_pc[t] = "take_head"
    /\ wq_next' = [wq_next EXCEPT ![q] = NoNode]
    /\ wq_frame' = [wq_frame EXCEPT ![t].next = wq_next[q]]
    /\ Goto(t, IF wq_next[q] # NoNode THEN "take_tail" ELSE "test_tail")
    /\ UNCHANGED <<wq_tail, wq_lock, wq_use, wq_fifo, wq_hand, wq_ret>>

(* Nothing to take: the source is empty, or an enqueue or another splice   *)
(* is half done.                                                           *)
TestTail(t) ==
    LET f == wq_frame[t] IN
    /\ wq_pc[t] = "test_tail"
    /\ \/ TailIsHead(f.q) /\ Result(t, <<"nothing">>, "return")
       \/ ~TailIsHead(f.q) /\ f.blocking /\ Goto(t, "take_head") /\ UNCHANGED wq_ret
       \/ ~TailIsHead(f.q) /\ ~f.blocking /\ Result(t, <<"would_block">>, "return")
    /\ UNCHANGED <<wq_next, wq_tail, wq_lock, wq_use, wq_frame, wq_fifo, wq_hand>>

(* tail = uatomic_xchg(&src_q_tail->p, &src_q_head->node)                  *)
TakeTail(t) ==
    LET q == wq_frame[t].q IN
    /\ wq_pc[t] = "take_tail"
    /\ wq_tail' = [wq_tail EXCEPT ![q] = q]
    /\ wq_frame' = [wq_frame EXCEPT ![t].node = wq_tail[q]]
    /\ wq_hand' = [wq_hand EXCEPT ![t] = wq_fifo[q]]
    /\ wq_fifo' = [wq_fifo EXCEPT ![q] = << >>]
    /\ Goto(t, "append")
    /\ UNCHANGED <<wq_next, wq_lock, wq_use, wq_ret>>

SpliceAppend(t) ==
    LET f == wq_frame[t] IN
    /\ wq_pc[t] = "append"
    /\ ___cds_wfcq_append(t, f.dest, f.next, f.node, wq_hand[t])
    /\ wq_hand' = [wq_hand EXCEPT ![t] = << >>]
    /\ UNCHANGED <<wq_next, wq_lock, wq_use>>

-----------------------------------------------------------------------------
UsedQueues == {q \in Queues : wq_use.queues[q] # "unused"}

WfcqStep(t) ==
    \/ \E q \in UsedQueues, n \in WfcqNodes : cds_wfcq_enqueue(t, q, n)
    \/ \E q \in UsedQueues, b \in BOOLEAN :
          cds_wfcq_dequeue(t, q, b) \/ cds_wfcq_for_each(t, q, b)
    \/ \E q \in UsedQueues : cds_wfcq_empty(t, q)
    \/ \E src, dest \in UsedQueues, b \in BOOLEAN : cds_wfcq_splice(t, src, dest, b)
    \/ AppendLink(t) \/ WfcqReturn(t) \/ EmptyHead(t) \/ EmptyTail(t)
    \/ SyncHead(t) \/ LoadNext(t) \/ ResetHead(t) \/ CasTail(t) \/ SyncNext(t)
    \/ RestoreHead(t) \/ Advance(t) \/ IterNext(t) \/ IterTail(t) \/ IterSync(t)
    \/ TakeHead(t) \/ TestTail(t) \/ TakeTail(t) \/ SpliceAppend(t)

WfcqueueNext == \E t \in wq_use.who : WfcqStep(t)

WfcqueueSpec == WfcqueueInit /\ [][WfcqueueNext]_wfcqvars

-----------------------------------------------------------------------------
FifoQueues == INSTANCE Container WITH
    Threads <- WfcqThreads, Containers <- Queues, Nodes <- WfcqNodes,
    Fifo <- TRUE, NULL <- NoNode,
    content <- wq_fifo, hand <- wq_hand, ret <- wq_ret

(* Every wfcqueue call takes effect at one instant, on a first-in first-   *)
(* out queue: no node is lost, doubled or overtaken while enqueuers sit    *)
(* between their exchange and their link, nodes are reused as soon as they *)
(* are dequeued and whole queues are spliced; a queue is reported empty    *)
(* only when it is, and the state flags tell the truth.                    *)
WfcqImplementsFifo == FifoQueues!Spec

=============================================================================
