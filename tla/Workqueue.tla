------------------------------ MODULE Workqueue ------------------------------
(***************************************************************************)
(* The work queue of the library, src/workqueue.c, as rculfhash.c uses it. *)
(*                                                                         *)
(* Hash tables that resize themselves share one queue with one worker.     *)
(* The first table creates them, each table flushes its own work before it *)
(* goes, the last one stops the worker and frees the queue.  The worker is *)
(* paused around fork(), and created anew in the child.                    *)
(*                                                                         *)
(* The queue is a wfcqueue (module Wfcqueue).  The barriers around the     *)
(* futex are full ones.  The worker is not a real-time one, and none of    *)
(* the optional hooks touches the state.                                   *)
(***************************************************************************)
EXTENDS Integers, Sequences, SequencesExt, FiniteSets

CONSTANTS
    WqThreads,      \* threads, each with a hash table
    WqForkers,      \* those that may fork
    Works,          \* struct urcu_work
    WqFutexHalf,    \* half the range of a futex: 2^31 in the code
    MaxWqForks,     \* bound on the forks that are followed into the child
    Nobody

ASSUME WorkqueueAssumption ==
    /\ WqForkers \subseteq WqThreads
    /\ Works \cap WqThreads = {}
    /\ WqFutexHalf \in Nat \ {0, 1}
    /\ MaxWqForks \in Nat
    /\ Nobody \notin WqThreads
    /\ IsFiniteSet(WqThreads)

VARIABLES
    wq,             \* cds_lfht_workqueue and its worker: see NewQueue
    user_count,     \* cds_lfht_workqueue_user_count
    fork_mutex,     \* cds_lfht_fork_mutex, by owner
    wcomp,          \* the struct urcu_workqueue_completion of each thread
    wth,            \* each thread: pc, return point, is its table open?
    wq_alive,       \* the threads of the process
    wq_forks,       \* forks followed into the child so far
    queued          \* queued[t]: works that t queued and that have not run

wqvars == <<wq, user_count, fork_mutex, wcomp, wth, wq_alive, wq_forks, queued>>
wqrest == <<user_count, fork_mutex, wq_alive, wq_forks>>

(* The queue (of works, and of completions named by their thread), flags   *)
(* and futex; the program counter and the batch of the worker.             *)
NoQueue == [live |-> FALSE, q |-> << >>, flags |-> {}, futex |-> 0,
            pc |-> "none", batch |-> << >>]
NewQueue == [NoQueue EXCEPT !.live = TRUE, !.pc = "start"]

WorkqueueInit ==
    /\ wq = NoQueue
    /\ user_count = 0
    /\ fork_mutex = Nobody
    /\ wcomp = [t \in WqThreads |-> [count |-> 0, futex |-> 0, ref |-> 0]]
    /\ wth = [t \in WqThreads |-> [pc |-> "idle", ret |-> "idle", open |-> FALSE]]
    /\ wq_alive = WqThreads
    /\ wq_forks = 0
    /\ queued = [t \in WqThreads |-> {}]

(* uatomic_dec() on an int32_t.                                            *)
wqdec(n) == IF n = -WqFutexHalf THEN WqFutexHalf - 1 ELSE n - 1

uat(t, pc) == t \in wq_alive /\ wth[t].pc = pc
ugo(t, pc) == wth' = [wth EXCEPT ![t].pc = pc]
close(t) == wth' = [wth EXCEPT ![t].pc = "idle", ![t].open = FALSE]
ucall(t, pc, ret) == wth' = [wth EXCEPT ![t].pc = pc, ![t].ret = ret]

-----------------------------------------------------------------------------
(* Users.                                                                  *)

(* cds_lfht_init_worker(): the first user creates queue and worker.        *)
urcu_workqueue_create(t) ==
    /\ uat(t, "idle") /\ ~ wth[t].open
    /\ fork_mutex = Nobody
    /\ user_count' = user_count + 1
    /\ wq' = IF user_count = 0 THEN NewQueue ELSE wq
    /\ wth' = [wth EXCEPT ![t].open = TRUE]
    /\ UNCHANGED <<fork_mutex, wcomp, wq_alive, wq_forks, queued>>

urcu_workqueue_queue_work(t, w) ==
    /\ uat(t, "idle") /\ wth[t].open
    /\ \A u \in WqThreads : w \notin queued[u]
    /\ wq' = [wq EXCEPT !.q = Append(@, w)]
    /\ queued' = [queued EXCEPT ![t] = @ \cup {w}]
    /\ ucall(t, "wake", "idle")
    /\ UNCHANGED <<wqrest, wcomp>>

(* wake_worker_thread(): test, reset, FUTEX_WAKE.                          *)
wake_worker_thread(t) ==
    /\ uat(t, "wake")
    /\ ugo(t, IF wq.futex = -1 THEN "wake_set" ELSE wth[t].ret)
    /\ UNCHANGED <<wq, wqrest, wcomp, queued>>

WqWakeSet(t) ==
    /\ uat(t, "wake_set")
    /\ wq' = [wq EXCEPT !.futex = 0]
    /\ ugo(t, "wake_futex")
    /\ UNCHANGED <<wqrest, wcomp, queued>>

WqWakeFutex(t) ==
    /\ uat(t, "wake_futex")
    /\ wq' = [wq EXCEPT !.pc = IF @ = "asleep" THEN "dec" ELSE @]
    /\ ugo(t, wth[t].ret)
    /\ UNCHANGED <<wqrest, wcomp, queued>>

(* Mutant: the completion overtakes the work it has to wait for.           *)
FlushFirst(t) == <<t>> \o wq.q

FlushLast(t) == Append(wq.q, t)

(* cds_lfht_destroy(): urcu_workqueue_flush_queued_work(), with a          *)
(* completion that the caller and the queued work refer to.                *)
urcu_workqueue_queue_completion(t) ==
    /\ uat(t, "idle") /\ wth[t].open
    /\ wcomp[t].ref = 0
    /\ wcomp' = [wcomp EXCEPT ![t] = [count |-> 1, futex |-> 0, ref |-> 2]]
    /\ wq' = [wq EXCEPT !.q = FlushLast(t)]
    /\ ucall(t, "wake", "comp_dec")
    /\ UNCHANGED <<wqrest, queued>>

urcu_workqueue_wait_completion(t) ==
    /\ uat(t, "comp_dec")
    /\ wcomp' = [wcomp EXCEPT ![t].futex = wqdec(@)]
    /\ ugo(t, "comp_count")
    /\ UNCHANGED <<wq, wqrest, queued>>

WqCount(t) ==
    /\ uat(t, "comp_count")
    /\ ugo(t, IF wcomp[t].count = 0 THEN "comp_put" ELSE "comp_wait")
    /\ UNCHANGED <<wq, wqrest, wcomp, queued>>

futex_wait_completion(t) ==
    /\ uat(t, "comp_wait")
    /\ ugo(t, IF wcomp[t].futex = -1 THEN "comp_futex" ELSE "comp_dec")
    /\ UNCHANGED <<wq, wqrest, wcomp, queued>>

WqCompletionFutexWait(t) ==
    /\ uat(t, "comp_futex")
    /\ ugo(t, IF wcomp[t].futex = -1 THEN "comp_asleep" ELSE "comp_dec")
    /\ UNCHANGED <<wq, wqrest, wcomp, queued>>

urcu_workqueue_destroy_completion(t) ==
    /\ uat(t, "comp_put")
    /\ wcomp' = [wcomp EXCEPT ![t].ref = @ - 1]
    /\ ugo(t, "fini")
    /\ UNCHANGED <<wq, wqrest, queued>>

(* cds_lfht_fini_worker(): the last user tells the worker to stop.         *)
cds_lfht_fini_worker(t) ==
    /\ uat(t, "fini")
    /\ fork_mutex = Nobody
    /\ user_count' = user_count - 1
    /\ IF user_count = 1
       THEN /\ fork_mutex' = t
            /\ wq' = [wq EXCEPT !.flags = @ \cup {"STOP"}]
            /\ ucall(t, "wake", "join")
       ELSE close(t) /\ UNCHANGED <<wq, fork_mutex>>
    /\ UNCHANGED <<wcomp, wq_alive, wq_forks, queued>>

(* The worker has returned: the queue, asserted to be empty, is freed.     *)
urcu_workqueue_destroy(t) ==
    /\ uat(t, "join")
    /\ wq.pc = "none"
    /\ wq' = NoQueue
    /\ fork_mutex' = Nobody
    /\ close(t)
    /\ UNCHANGED <<user_count, wcomp, wq_alive, wq_forks, queued>>

-----------------------------------------------------------------------------
(* workqueue_thread().                                                     *)

kgo(pc) == wq' = [wq EXCEPT !.pc = pc]
kquiet == UNCHANGED <<wqrest, wcomp, wth, queued>>

workqueue_thread ==
    /\ wq.pc \in {"start", "dec"}
    /\ wq' = [wq EXCEPT !.futex = wqdec(@), !.pc = "top"]
    /\ kquiet

WqPause ==
    /\ wq.pc = "top"
    /\ IF "PAUSE" \in wq.flags
       THEN wq' = [wq EXCEPT !.flags = @ \cup {"PAUSED"}, !.pc = "paused"]
       ELSE kgo("splice")
    /\ kquiet

WqResume ==
    /\ wq.pc = "paused"
    /\ "PAUSE" \notin wq.flags
    /\ wq' = [wq EXCEPT !.flags = @ \ {"PAUSED"}, !.pc = "splice"]
    /\ kquiet

WqSplice ==
    /\ wq.pc = "splice"
    /\ wq' = [wq EXCEPT !.batch = wq.q, !.q = << >>, !.pc = "run"]
    /\ kquiet

WqRunWork ==
    /\ wq.pc = "run"
    /\ wq.batch # << >> /\ Head(wq.batch) \in Works
    /\ queued' = [t \in WqThreads |-> queued[t] \ {Head(wq.batch)}]
    /\ wq' = [wq EXCEPT !.batch = Tail(@)]
    /\ UNCHANGED <<wqrest, wcomp, wth>>

(* Count down, wake the waiter up at zero, drop the reference.             *)
_urcu_workqueue_wait_complete ==
    /\ wq.pc = "run"
    /\ wq.batch # << >> /\ Head(wq.batch) \in WqThreads
    /\ wcomp' = [wcomp EXCEPT ![Head(wq.batch)].count = @ - 1]
    /\ kgo(IF wcomp[Head(wq.batch)].count = 1 THEN "comp_test" ELSE "comp_put")
    /\ UNCHANGED <<wqrest, wth, queued>>

futex_wake_up_completion ==
    /\ wq.pc = "comp_test"
    /\ kgo(IF wcomp[Head(wq.batch)].futex = -1 THEN "comp_set" ELSE "comp_put")
    /\ kquiet

WqCompletionSet ==
    /\ wq.pc = "comp_set"
    /\ wcomp' = [wcomp EXCEPT ![Head(wq.batch)].futex = 0]
    /\ kgo("comp_wake")
    /\ UNCHANGED <<wqrest, wth, queued>>

WqCompletionWake ==
    /\ wq.pc = "comp_wake"
    /\ LET t == Head(wq.batch)
       IN  wth' = [wth EXCEPT ![t].pc = IF @ = "comp_asleep" THEN "comp_dec" ELSE @]
    /\ kgo("comp_put")
    /\ UNCHANGED <<wqrest, wcomp, queued>>

WqCompletionPut ==
    /\ wq.pc = "comp_put"
    /\ wcomp' = [wcomp EXCEPT ![Head(wq.batch)].ref = @ - 1]
    /\ wq' = [wq EXCEPT !.batch = Tail(@), !.pc = "run"]
    /\ UNCHANGED <<wqrest, wth, queued>>

WqStopTest ==
    /\ wq.pc = "run"
    /\ wq.batch = << >>
    /\ kgo(IF "STOP" \in wq.flags THEN "stop" ELSE "empty_test")
    /\ kquiet

WqEmptyTest ==
    /\ wq.pc = "empty_test"
    /\ kgo(IF wq.q = << >> THEN "wait" ELSE "top")
    /\ kquiet

futex_wait ==
    /\ wq.pc = "wait"
    /\ kgo(IF wq.futex = -1 THEN "futex" ELSE "dec")
    /\ kquiet

(* Mutant: FUTEX_WAIT without the comparison in the kernel.                *)
WqSleepAnyway ==
    /\ wq.pc = "futex"
    /\ kgo("asleep")
    /\ kquiet

WqFutexWait ==
    /\ wq.pc = "futex"
    /\ kgo(IF wq.futex = -1 THEN "asleep" ELSE "dec")
    /\ kquiet

WqStop ==
    /\ wq.pc = "stop"
    /\ wq' = [wq EXCEPT !.futex = 0, !.pc = "none"]
    /\ kquiet

-----------------------------------------------------------------------------
(* fork(): cds_lfht_before_fork() and its companions.                      *)

urcu_workqueue_pause_worker(t) ==
    /\ t \in WqForkers
    /\ wq_forks < MaxWqForks
    /\ uat(t, "idle")
    /\ fork_mutex = Nobody
    /\ fork_mutex' = t
    /\ IF wq.live THEN /\ wq' = [wq EXCEPT !.flags = @ \cup {"PAUSE"}]
                       /\ ucall(t, "wake", "pausing")
                  ELSE wq' = wq /\ ugo(t, "fork")
    /\ UNCHANGED <<user_count, wcomp, wq_alive, wq_forks, queued>>

(* Mutant: fork() does not wait for the worker to pause.                   *)
WqDontWait == TRUE

WorkerPaused == "PAUSED" \in wq.flags

WqPaused(t) ==
    /\ uat(t, "pausing")
    /\ WorkerPaused
    /\ ugo(t, "fork")
    /\ UNCHANGED <<wq, wqrest, wcomp, queued>>

urcu_workqueue_resume_worker(t) ==
    /\ uat(t, "fork")
    /\ wq' = [wq EXCEPT !.flags = @ \ {"PAUSE"}]
    /\ ugo(t, "resuming")
    /\ UNCHANGED <<wqrest, wcomp, queued>>

WqResumed(t) ==
    /\ uat(t, "resuming")
    /\ "PAUSED" \notin wq.flags
    /\ fork_mutex' = Nobody
    /\ ugo(t, "idle")
    /\ UNCHANGED <<wq, user_count, wcomp, wq_alive, wq_forks, queued>>

(* The child: the flags are cleared and a new worker starts, on the futex  *)
(* as the paused one left it.  The tables of other threads remain.         *)
urcu_workqueue_create_worker(t) ==
    /\ uat(t, "fork")
    /\ wq_alive' = {t}
    /\ wq_forks' = wq_forks + 1
    /\ wq' = [wq EXCEPT !.flags = {}, !.batch = << >>,
                        !.pc = IF wq.live THEN "start" ELSE @]
    /\ fork_mutex' = Nobody
    /\ wth' = [u \in WqThreads |-> IF u = t THEN [wth[t] EXCEPT !.pc = "idle"]
                                   ELSE [wth[u] EXCEPT !.pc = "gone"]]
    /\ UNCHANGED <<user_count, wcomp, queued>>

-----------------------------------------------------------------------------
WqWorkerStep ==
    \/ workqueue_thread \/ WqPause \/ WqResume \/ WqSplice \/ WqRunWork
    \/ _urcu_workqueue_wait_complete \/ futex_wake_up_completion
    \/ WqCompletionSet \/ WqCompletionWake \/ WqCompletionPut
    \/ WqStopTest \/ WqEmptyTest \/ futex_wait \/ WqFutexWait \/ WqStop

WqUserStep(t) ==
    \/ wake_worker_thread(t) \/ WqWakeSet(t) \/ WqWakeFutex(t)
    \/ urcu_workqueue_wait_completion(t) \/ WqCount(t) \/ futex_wait_completion(t)
    \/ WqCompletionFutexWait(t) \/ urcu_workqueue_destroy_completion(t)
    \/ cds_lfht_fini_worker(t) \/ urcu_workqueue_destroy(t) \/ WqPaused(t)
    \/ urcu_workqueue_resume_worker(t) \/ WqResumed(t)
    \/ urcu_workqueue_create_worker(t)

WqCall(t) ==
    \/ urcu_workqueue_create(t) \/ (\E w \in Works : urcu_workqueue_queue_work(t, w))
    \/ urcu_workqueue_queue_completion(t) \/ urcu_workqueue_pause_worker(t)

WorkqueueNext ==
    WqWorkerStep \/ \E t \in WqThreads : WqUserStep(t) \/ WqCall(t)

WorkqueueSpec == WorkqueueInit /\ [][WorkqueueNext]_wqvars

(* The worker and the users are scheduled.  A mutex that is released again *)
(* and again is acquired in the end.                                       *)
WorkqueueFairness ==
    /\ WF_wqvars(WqWorkerStep)
    /\ \A t \in WqThreads : /\ WF_wqvars(WqUserStep(t))
                           /\ SF_wqvars(cds_lfht_fini_worker(t))

WorkqueueFairSpec == WorkqueueSpec /\ WorkqueueFairness

-----------------------------------------------------------------------------
WqItems == wq.q \o wq.batch

(* A work that was queued and has not run is in the queue or in the batch, *)
(* exactly once, across flushes, worker restarts and forks; and nothing is *)
(* left in a queue that is destroyed (urcu_workqueue_destroy() asserts it  *)
(* once it has joined the worker), though the worker stops without looking *)
(* at the queue again.                                                     *)
EveryWorkOnce ==
    /\ \A w \in Works :
           Cardinality({i \in DOMAIN WqItems : WqItems[i] = w}) =
           IF \E t \in WqThreads : w \in queued[t] THEN 1 ELSE 0
    /\ \A t \in wq_alive : wth[t].pc = "join" /\ wq.pc = "none" => wq.q = << >>

(* A flush returns when the works that the thread queued have run, and the *)
(* completion is alive as long as the worker or the caller may touch it.   *)
FlushCoversWork ==
    /\ \A t \in wq_alive : wth[t].pc = "comp_put" => queued[t] = {}
    /\ \A t \in Range(WqItems) \cap wq_alive : wcomp[t].ref > 0

(* Work gets done, and flush, destroy and pause return.                    *)
WorkGetsDone ==
    \A t \in WqThreads : /\ queued[t] # {} ~> queued[t] = {}
                         /\ uat(t, "wake") ~> uat(t, "idle") \/ t \notin wq_alive
=============================================================================
