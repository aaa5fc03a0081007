------------------------------- MODULE CallRcu -------------------------------
(***************************************************************************)
(* call_rcu(), rcu_barrier() and the worker threads that run callbacks:    *)
(* src/urcu-call-rcu-impl.h, compiled into every flavor.                   *)
(*                                                                         *)
(* A callback is queued on a call_rcu_data (crdp): the one of the thread,  *)
(* of the CPU or the default one.  Its worker takes the whole queue, waits *)
(* for a grace period and runs what it took; it sleeps on a futex while    *)
(* the queue is empty.  Workers are created and stopped at any time, and   *)
(* paused around fork().                                                   *)
(*                                                                         *)
(* The grace period is the promise of module GracePeriod, the queue (a     *)
(* wfcqueue) that of module Wfcqueue.  The barriers around the futex are   *)
(* full ones, so memory is sequentially consistent.  There is one CPU.     *)
(***************************************************************************)
EXTENDS Integers, Sequences, SequencesExt, FiniteSets

CONSTANTS
    CThreads,       \* threads of the program
    CPrograms,      \* what they may call: functions CThreads -> SUBSET Calls,
                    \* where a head stands for its call_rcu()
    Crdps,          \* memory for struct call_rcu_data
    Heads,          \* struct rcu_head, each with its function
    FutexHalf,      \* half the range of a futex: 2^31 in the code
    MaxCForks,      \* bound on the forks that are followed into the child
    NULL

Calls == {"read", "create", "create_rt", "free", "thread", "barrier", "fork"}
            \cup Heads

(* Nothing in free_all_cpu_call_rcu_data() keeps two callers from reading  *)
(* and freeing the same crdp: a program leaves it to one thread.           *)
ASSUME CallRcuAssumption ==
    /\ CPrograms \subseteq [CThreads -> SUBSET Calls]
    /\ \A p \in CPrograms : \A t, u \in CThreads :
          "free" \in p[t] /\ "free" \in p[u] => t = u
    /\ FutexHalf \in Nat \ {0, 1}
    /\ MaxCForks \in Nat
    /\ IsFiniteSet(Crdps)
    /\ NULL \notin CThreads \cup Crdps \cup Heads
    /\ Heads \cap CThreads = {}

VARIABLES
    calls,              \* the program that runs
    crd,                \* each crdp, with its worker: see FreshCrdp
    call_rcu_data_list, \* the crdps, last created first
    default_crd,        \* default_call_rcu_data
    cpu_crd,            \* per_cpu_call_rcu_data[0]
    thread_crd,         \* thread_call_rcu_data of each thread
    call_rcu_mutex,     \* its owner
    completion,         \* the struct call_rcu_completion of each thread
    cth,                \* each thread: see NewThread
    living,             \* the threads of the process
    cforks,             \* forks followed into the child so far
    pending,            \* callbacks queued and not yet run
    hold,               \* hold[h]: sections that h has to wait for
    owed                \* owed[t]: callbacks that t's rcu_barrier() waits for

cpointers == <<call_rcu_data_list, default_crd, cpu_crd, thread_crd>>
cghosts == <<pending, hold, owed>>
cprocess == <<calls, living, cforks>>
cvars == <<crd, cpointers, call_rcu_mutex, completion, cth, cprocess, cghosts>>

(* A crdp: rt and flags, its queue q of callbacks and of the completions   *)
(* of barriers (named by their thread), and its futex; its worker: program *)
(* counter, the batch it took, the sections its grace period waits for.    *)
Unused == [live |-> FALSE, rt |-> FALSE, flags |-> {}, q |-> << >>,
           futex |-> 0, wpc |-> "none", batch |-> << >>, wpre |-> {}]
FreshCrdp(rt) == [Unused EXCEPT !.live = TRUE, !.rt = rt, !.wpc = "start"]

(* A thread: program counter and stack of return points; nesting of its    *)
(* read-side sections; the callback h, the crdp w it uses, the crdp f it   *)
(* frees, the crdps it has to visit, the sections it waits for.            *)
NewThread == [pc |-> "idle", ret |-> << >>, nest |-> 0, h |-> NULL, w |-> NULL,
              f |-> NULL, todo |-> << >>, tpre |-> {}]
NoCompletion == [count |-> 0, futex |-> 0, ref |-> 0]

CallRcuInit ==
    /\ calls \in CPrograms
    /\ crd = [c \in Crdps |-> Unused]
    /\ call_rcu_data_list = << >>
    /\ default_crd = NULL
    /\ cpu_crd = NULL
    /\ thread_crd = [t \in CThreads |-> NULL]
    /\ call_rcu_mutex = NULL
    /\ completion = [t \in CThreads |-> NoCompletion]
    /\ cth = [t \in CThreads |-> NewThread]
    /\ living = CThreads
    /\ cforks = 0
    /\ pending = {}
    /\ hold = [h \in Heads |-> {}]
    /\ owed = [t \in CThreads |-> {}]

(* uatomic_dec() on an int32_t.  A FUTEX_WAKE that comes late, after the    *)
(* futex has been armed again, makes it count down below -1; the wait is   *)
(* then skipped until it has gone round.                                   *)
dec(n) == IF n = -FutexHalf THEN FutexHalf - 1 ELSE n - 1

cat(t, pc) == t \in living /\ cth[t].pc = pc
may(t, call) == cat(t, "idle") /\ call \in calls[t]

(* The next state of t: at pc; in a function entered at pc that returns to *)
(* r; or back from the function it is in.                                  *)
At(rec, pc) == [rec EXCEPT !.pc = pc]
Enter(rec, pc, r) == [rec EXCEPT !.pc = pc, !.ret = <<r>> \o @]
Back(rec) == [rec EXCEPT !.pc = Head(rec.ret), !.ret = Tail(@)]
thread(t, rec) == cth' = [cth EXCEPT ![t] = rec]

Reading == {t \in living : cth[t].nest > 0}

-----------------------------------------------------------------------------
(* Read-side sections: those of the program, and those of call_rcu().      *)

Lock(rec) == [rec EXCEPT !.nest = @ + 1]

(* t, whose next state is rec, leaves a section.                           *)
Unlock(t, rec) ==
    IF rec.nest > 1 THEN thread(t, [rec EXCEPT !.nest = @ - 1])
                         /\ UNCHANGED <<crd, hold>>
    ELSE /\ crd' = [c \in Crdps |-> [crd[c] EXCEPT !.wpre = @ \ {t}]]
         /\ hold' = [h \in Heads |-> hold[h] \ {t}]
         /\ cth' = [u \in CThreads |->
                      IF u = t THEN [rec EXCEPT !.nest = 0]
                               ELSE [cth[u] EXCEPT !.tpre = @ \ {t}]]

ReadLock(t) ==
    /\ may(t, "read")
    /\ cth[t].nest = 0
    /\ thread(t, Lock(cth[t]))
    /\ UNCHANGED <<crd, cpointers, call_rcu_mutex, completion, cprocess, cghosts>>

ReadUnlock(t) ==
    /\ cat(t, "idle")
    /\ cth[t].nest = 1
    /\ Unlock(t, cth[t])
    /\ UNCHANGED <<cpointers, call_rcu_mutex, completion, cprocess, pending, owed>>

-----------------------------------------------------------------------------
(* call_rcu().                                                             *)

(* A head is handed over by a thread that owns it.                         *)
call_rcu(t, h) ==
    /\ may(t, h)
    /\ h \notin pending
    /\ \A u \in living : cth[u].h # h
    /\ thread(t, [Lock(At(cth[t], "get")) EXCEPT !.h = h])
    /\ UNCHANGED <<crd, cpointers, call_rcu_mutex, completion, cprocess, cghosts>>

(* The crdp of the thread, of the CPU, or the default one.                 *)
get_call_rcu_data(t) ==
    /\ cat(t, "get")
    /\ LET own == IF thread_crd[t] # NULL THEN thread_crd[t]
                  ELSE IF cpu_crd # NULL THEN cpu_crd ELSE default_crd
       IN  thread(t, IF own # NULL THEN [At(cth[t], "enqueue") EXCEPT !.w = own]
                     ELSE Enter(cth[t], "default", "enqueue"))
    /\ UNCHANGED <<crd, cpointers, call_rcu_mutex, completion, cprocess, cghosts>>

(* call_rcu_data_init(), under the mutex; malloc() reuses memory.          *)
malloc == CHOOSE c \in Crdps : ~ crd[c].live
call_rcu_data_init(rt) ==
    /\ \E c \in Crdps : ~ crd[c].live
    /\ crd' = [crd EXCEPT ![malloc] = FreshCrdp(rt)]
    /\ call_rcu_data_list' = <<malloc>> \o call_rcu_data_list

(* Slow path of get_default_call_rcu_data().                               *)
get_default_call_rcu_data(t) ==
    /\ cat(t, "default")
    /\ call_rcu_mutex = NULL
    /\ \/ /\ default_crd # NULL
          /\ thread(t, [Back(cth[t]) EXCEPT !.w = default_crd])
          /\ UNCHANGED <<crd, cpointers>>
       \/ /\ default_crd = NULL
          /\ call_rcu_data_init(FALSE)
          /\ default_crd' = malloc
          /\ thread(t, [Back(cth[t]) EXCEPT !.w = malloc])
          /\ UNCHANGED <<cpu_crd, thread_crd>>
    /\ UNCHANGED <<call_rcu_mutex, completion, cprocess, cghosts>>

(* _call_rcu(): from here on the callback waits for the sections that run. *)
_call_rcu(t) ==
    /\ cat(t, "enqueue")
    /\ LET h == cth[t].h
       IN  /\ crd' = [crd EXCEPT ![cth[t].w].q = Append(@, h)]
           /\ pending' = pending \cup {h}
           /\ hold' = [hold EXCEPT ![h] = Reading]
           /\ thread(t, [Enter(cth[t], "wake", "call_out") EXCEPT !.h = NULL])
    /\ UNCHANGED <<cpointers, call_rcu_mutex, completion, cprocess, owed>>

(* wake_call_rcu_thread(), call_rcu_wake_up(): test, reset, FUTEX_WAKE.    *)
wake_call_rcu_thread(t) ==
    /\ cat(t, "wake")
    /\ LET w == crd[cth[t].w]
       IN  thread(t, IF ~ w.rt /\ w.futex = -1 THEN At(cth[t], "wake_set")
                                              ELSE Back(cth[t]))
    /\ UNCHANGED <<crd, cpointers, call_rcu_mutex, completion, cprocess, cghosts>>

CWakeSet(t) ==
    /\ cat(t, "wake_set")
    /\ crd' = [crd EXCEPT ![cth[t].w].futex = 0]
    /\ thread(t, At(cth[t], "wake_futex"))
    /\ UNCHANGED <<cpointers, call_rcu_mutex, completion, cprocess, cghosts>>

CWakeFutex(t) ==
    /\ cat(t, "wake_futex")
    /\ crd' = [crd EXCEPT ![cth[t].w].wpc = IF @ = "asleep" THEN "dec" ELSE @]
    /\ thread(t, Back(cth[t]))
    /\ UNCHANGED <<cpointers, call_rcu_mutex, completion, cprocess, cghosts>>

call_rcu_return(t) ==
    /\ cat(t, "call_out")
    /\ Unlock(t, [At(cth[t], "idle") EXCEPT !.w = NULL])
    /\ UNCHANGED <<cpointers, call_rcu_mutex, completion, cprocess, pending, owed>>

-----------------------------------------------------------------------------
(* call_rcu_thread(), the worker of crdp c.                                *)

wat(c, pc) == crd[c].live /\ crd[c].wpc = pc
worker(c, rec) == crd' = [crd EXCEPT ![c] = rec]
wgo(c, pc) == worker(c, [crd[c] EXCEPT !.wpc = pc])
wquiet == UNCHANGED <<cpointers, call_rcu_mutex, completion, cth, cprocess, cghosts>>

call_rcu_thread(c) ==
    /\ wat(c, "start")
    /\ worker(c, [crd[c] EXCEPT !.futex = IF crd[c].rt THEN @ ELSE dec(@),
                                !.wpc = "top"])
    /\ wquiet

(* Nothing is in the batch of a worker that pauses.                        *)
CPause(c) ==
    /\ wat(c, "top")
    /\ IF "PAUSE" \in crd[c].flags
       THEN worker(c, [crd[c] EXCEPT !.flags = @ \cup {"PAUSED"}, !.wpc = "paused"])
       ELSE wgo(c, "splice")
    /\ wquiet

CResume(c) ==
    /\ wat(c, "paused")
    /\ "PAUSE" \notin crd[c].flags
    /\ worker(c, [crd[c] EXCEPT !.flags = @ \ {"PAUSED"}, !.wpc = "splice"])
    /\ wquiet

CSplice(c) ==
    /\ wat(c, "splice")
    /\ worker(c, [crd[c] EXCEPT !.batch = crd[c].q, !.q = << >>,
                    !.wpc = IF crd[c].q = << >> THEN "stop_test" ELSE "synchronize"])
    /\ wquiet

(* Mutant: the grace period does not wait for the sections under way.      *)
NoReaders == {}

(* The sections that a grace period waits for.                             *)
Waited == Reading

CSynchronize(c) ==
    /\ wat(c, "synchronize")
    /\ worker(c, [crd[c] EXCEPT !.wpre = Waited, !.wpc = "grace"])
    /\ wquiet

CGracePeriodEnds(c) ==
    /\ wat(c, "grace")
    /\ crd[c].wpre = {}
    /\ wgo(c, "run")
    /\ wquiet

(* The function of a callback runs; the head belongs to the program again. *)
CRunCallback(c) ==
    /\ wat(c, "run")
    /\ crd[c].batch # << >>
    /\ LET h == Head(crd[c].batch)
       IN  /\ h \in Heads
           /\ pending' = pending \ {h}
           /\ owed' = [t \in CThreads |-> owed[t] \ {h}]
    /\ worker(c, [crd[c] EXCEPT !.batch = Tail(@)])
    /\ UNCHANGED <<cpointers, call_rcu_mutex, completion, cth, cprocess, hold>>

(* _rcu_barrier_complete(): count down, wake the caller up at zero, drop   *)
(* the reference.  The batch keeps the completion until then.              *)
_rcu_barrier_complete(c) ==
    /\ wat(c, "run")
    /\ crd[c].batch # << >>
    /\ LET t == Head(crd[c].batch)
       IN  /\ t \in CThreads
           /\ completion' = [completion EXCEPT ![t].count = @ - 1]
           /\ wgo(c, IF completion[t].count = 1 THEN "bar_test" ELSE "bar_put")
    /\ UNCHANGED <<cpointers, call_rcu_mutex, cth, cprocess, cghosts>>

call_rcu_completion_wake_up(c) ==
    /\ wat(c, "bar_test")
    /\ wgo(c, IF completion[Head(crd[c].batch)].futex = -1 THEN "bar_set" ELSE "bar_put")
    /\ wquiet

CompletionWakeSet(c) ==
    /\ wat(c, "bar_set")
    /\ completion' = [completion EXCEPT ![Head(crd[c].batch)].futex = 0]
    /\ wgo(c, "bar_wake")
    /\ UNCHANGED <<cpointers, call_rcu_mutex, cth, cprocess, cghosts>>

CompletionWakeFutex(c) ==
    /\ wat(c, "bar_wake")
    /\ LET t == Head(crd[c].batch)
       IN  thread(t, IF cat(t, "bar_asleep") THEN At(cth[t], "bar_dec") ELSE cth[t])
    /\ wgo(c, "bar_put")
    /\ UNCHANGED <<cpointers, call_rcu_mutex, completion, cprocess, cghosts>>

CompletionPut(c) ==
    /\ wat(c, "bar_put")
    /\ completion' = [completion EXCEPT ![Head(crd[c].batch)].ref = @ - 1]
    /\ worker(c, [crd[c] EXCEPT !.batch = Tail(@), !.wpc = "run"])
    /\ UNCHANGED <<cpointers, call_rcu_mutex, cth, cprocess, cghosts>>

CBatchDone(c) ==
    /\ wat(c, "run")
    /\ crd[c].batch = << >>
    /\ wgo(c, "stop_test")
    /\ wquiet

(* Stop; or look for more at once (a real-time worker always), or wait.    *)
CStopTest(c) ==
    /\ wat(c, "stop_test")
    /\ wgo(c, IF "STOP" \in crd[c].flags THEN "stop"
              ELSE IF crd[c].rt \/ crd[c].q # << >> THEN "top" ELSE "wait")
    /\ wquiet

call_rcu_wait(c) ==
    /\ wat(c, "wait")
    /\ wgo(c, IF crd[c].futex = -1 THEN "futex_wait" ELSE "dec")
    /\ wquiet

(* Mutant: FUTEX_WAIT without the comparison in the kernel.                *)
SleepAnyway(c) ==
    /\ wat(c, "futex_wait")
    /\ wgo(c, "asleep")
    /\ wquiet

CFutexWait(c) ==
    /\ wat(c, "futex_wait")
    /\ wgo(c, IF crd[c].futex = -1 THEN "asleep" ELSE "dec")
    /\ wquiet

CDecrement(c) ==
    /\ wat(c, "dec")
    /\ worker(c, [crd[c] EXCEPT !.futex = dec(@), !.wpc = "top"])
    /\ wquiet

CStop(c) ==
    /\ wat(c, "stop")
    /\ worker(c, [crd[c] EXCEPT !.futex = IF crd[c].rt THEN @ ELSE 0, !.wpc = "stopped"])
    /\ wquiet

CStopped(c) ==
    /\ wat(c, "stopped")
    /\ worker(c, [crd[c] EXCEPT !.flags = @ \cup {"STOPPED"}, !.wpc = "none"])
    /\ wquiet

-----------------------------------------------------------------------------
(* Creation of crdps.                                                      *)

(* create_all_cpu_call_rcu_data(): nothing to do if the CPU has one; else  *)
(* create it, and only then try to assign it.                              *)
create_all_cpu_call_rcu_data(t) ==
    /\ \/ may(t, "create") /\ call_rcu_data_init(FALSE)
       \/ may(t, "create_rt") /\ call_rcu_data_init(TRUE)
    /\ call_rcu_mutex = NULL
    /\ cpu_crd = NULL
    /\ thread(t, [At(cth[t], "set_cpu") EXCEPT !.f = malloc])
    /\ UNCHANGED <<default_crd, cpu_crd, thread_crd, call_rcu_mutex, completion,
                   cprocess, cghosts>>

(* set_cpu_call_rcu_data(): a CPU that got one meanwhile (EEXIST) keeps    *)
(* it, and the new one is freed.                                           *)
set_cpu_call_rcu_data(t) ==
    /\ cat(t, "set_cpu")
    /\ call_rcu_mutex = NULL
    /\ IF cpu_crd # NULL THEN thread(t, Enter(cth[t], "free", "idle")) /\ cpu_crd' = cpu_crd
       ELSE thread(t, [At(cth[t], "idle") EXCEPT !.f = NULL]) /\ cpu_crd' = cth[t].f
    /\ UNCHANGED <<crd, call_rcu_data_list, default_crd, thread_crd, call_rcu_mutex,
                   completion, cprocess, cghosts>>

(* set_thread_call_rcu_data(create_call_rcu_data()).                       *)
create_call_rcu_data(t) ==
    /\ may(t, "thread")
    /\ thread_crd[t] = NULL
    /\ call_rcu_mutex = NULL
    /\ call_rcu_data_init(FALSE)
    /\ thread_crd' = [thread_crd EXCEPT ![t] = malloc]
    /\ UNCHANGED <<default_crd, cpu_crd, call_rcu_mutex, completion, cth, cprocess, cghosts>>

(* set_thread_call_rcu_data(NULL), then free what it was.                  *)
set_thread_call_rcu_data(t) ==
    /\ may(t, "thread")
    /\ thread_crd[t] # NULL
    /\ thread_crd' = [thread_crd EXCEPT ![t] = NULL]
    /\ thread(t, [Enter(cth[t], "free", "idle") EXCEPT !.f = thread_crd[t]])
    /\ UNCHANGED <<crd, call_rcu_data_list, default_crd, cpu_crd, call_rcu_mutex,
                   completion, cprocess, cghosts>>

-----------------------------------------------------------------------------
(* call_rcu_data_free(), by the callers above and below.                   *)

(* free_all_cpu_call_rcu_data(): see which crdp the CPU has, without the   *)
(* mutex; take it away from the CPU; wait for the call_rcu() calls that    *)
(* may use it; free it.                                                    *)
free_all_cpu_call_rcu_data(t) ==
    /\ may(t, "free")
    /\ cth[t].nest = 0
    /\ cpu_crd # NULL
    /\ thread(t, [At(cth[t], "free_set") EXCEPT !.f = cpu_crd])
    /\ UNCHANGED <<crd, cpointers, call_rcu_mutex, completion, cprocess, cghosts>>

(* set_cpu_call_rcu_data(cpu, NULL), whatever the CPU has by now.          *)
FreeSetCpu(t) ==
    /\ cat(t, "free_set")
    /\ call_rcu_mutex = NULL
    /\ cpu_crd' = NULL
    /\ thread(t, At(cth[t], "synchronize"))
    /\ UNCHANGED <<crd, call_rcu_data_list, default_crd, thread_crd, call_rcu_mutex,
                   completion, cprocess, cghosts>>

(* Mutant: no grace period before the crdp is freed.                       *)
FreeAtOnce(t) == {}

ReadersOfCrdp(t) == Reading

FreeSynchronize(t) ==
    /\ cat(t, "synchronize")
    /\ thread(t, [At(cth[t], "grace") EXCEPT !.tpre = ReadersOfCrdp(t)])
    /\ UNCHANGED <<crd, cpointers, call_rcu_mutex, completion, cprocess, cghosts>>

FreeGracePeriodEnds(t) ==
    /\ cat(t, "grace")
    /\ cth[t].tpre = {}
    /\ thread(t, Enter(cth[t], "free", "idle"))
    /\ UNCHANGED <<crd, cpointers, call_rcu_mutex, completion, cprocess, cghosts>>

(* Tell the worker to stop, unless it has (in the child of a fork).        *)
call_rcu_data_free(t) ==
    /\ cat(t, "free")
    /\ LET f == cth[t].f
       IN  IF "STOPPED" \in crd[f].flags
           THEN thread(t, At(cth[t], "leftover")) /\ crd' = crd
           ELSE /\ crd' = [crd EXCEPT ![f].flags = @ \cup {"STOP"}]
                /\ thread(t, [Enter(cth[t], "wake", "stopping") EXCEPT !.w = f])
    /\ UNCHANGED <<cpointers, call_rcu_mutex, completion, cprocess, cghosts>>

WorkerStopped(t) ==
    /\ cat(t, "stopping")
    /\ "STOPPED" \in crd[cth[t].f].flags
    /\ thread(t, At(cth[t], "leftover"))
    /\ UNCHANGED <<crd, cpointers, call_rcu_mutex, completion, cprocess, cghosts>>

(* Callbacks that the worker did not run go to the default crdp.           *)
Leftover(t) ==
    /\ cat(t, "leftover")
    /\ thread(t, IF crd[cth[t].f].q = << >> THEN At(cth[t], "unlink")
                 ELSE IF default_crd = NULL THEN Enter(cth[t], "default", "migrate")
                 ELSE [At(cth[t], "migrate") EXCEPT !.w = default_crd])
    /\ UNCHANGED <<crd, cpointers, call_rcu_mutex, completion, cprocess, cghosts>>

MigrateCallbacks(t) ==
    /\ cat(t, "migrate")
    /\ LET f == cth[t].f
       IN  crd' = [crd EXCEPT ![default_crd].q = @ \o crd[f].q, ![f].q = << >>]
    /\ thread(t, Enter(cth[t], "wake", "unlink"))
    /\ UNCHANGED <<cpointers, call_rcu_mutex, completion, cprocess, cghosts>>

(* cds_list_del().                                                         *)
Without(list, c) == RemoveAt(list, CHOOSE i \in DOMAIN list : list[i] = c)

UnlinkAndFree(t) ==
    /\ cat(t, "unlink")
    /\ call_rcu_mutex = NULL
    /\ LET f == cth[t].f
       IN  /\ call_rcu_data_list' = Without(call_rcu_data_list, f)
           /\ crd' = [crd EXCEPT ![f] = Unused]
    /\ thread(t, [Back(cth[t]) EXCEPT !.f = NULL, !.w = NULL])
    /\ UNCHANGED <<default_crd, cpu_crd, thread_crd, call_rcu_mutex, completion,
                   cprocess, cghosts>>

-----------------------------------------------------------------------------
(* rcu_barrier(), outside read-side sections.                              *)

(* Mutant: only the default worker is waited for.                          *)
DefaultOnly == IF default_crd = NULL THEN << >> ELSE <<default_crd>>

BarrierCrdps == call_rcu_data_list

(* Under the mutex: count the crdps, and queue the completion on each.     *)
rcu_barrier(t) ==
    /\ may(t, "barrier")
    /\ cth[t].nest = 0
    /\ completion[t].ref = 0
    /\ call_rcu_mutex = NULL
    /\ call_rcu_mutex' = t
    /\ LET n == Len(BarrierCrdps)
       IN  completion' = [completion EXCEPT ![t] =
                            [count |-> n, futex |-> 0, ref |-> n + 1]]
    /\ owed' = [owed EXCEPT ![t] = pending]
    /\ thread(t, [At(cth[t], "bar_queue") EXCEPT !.todo = BarrierCrdps])
    /\ UNCHANGED <<crd, cpointers, cprocess, pending, hold>>

BarrierQueue(t) ==
    /\ cat(t, "bar_queue")
    /\ cth[t].todo # << >>
    /\ LET c == Head(cth[t].todo)
       IN  /\ crd' = [crd EXCEPT ![c].q = Append(@, t)]
           /\ thread(t, [Enter(cth[t], "wake", "bar_queue") EXCEPT
                           !.w = c, !.todo = Tail(@)])
    /\ UNCHANGED <<cpointers, call_rcu_mutex, completion, cprocess, cghosts>>

BarrierUnlock(t) ==
    /\ cat(t, "bar_queue")
    /\ cth[t].todo = << >>
    /\ call_rcu_mutex' = NULL
    /\ thread(t, [At(cth[t], "bar_dec") EXCEPT !.w = NULL])
    /\ UNCHANGED <<crd, cpointers, completion, cprocess, cghosts>>

BarrierDecrement(t) ==
    /\ cat(t, "bar_dec")
    /\ completion' = [completion EXCEPT ![t].futex = dec(@)]
    /\ thread(t, At(cth[t], "bar_count"))
    /\ UNCHANGED <<crd, cpointers, call_rcu_mutex, cprocess, cghosts>>

BarrierCount(t) ==
    /\ cat(t, "bar_count")
    /\ thread(t, At(cth[t], IF completion[t].count = 0 THEN "bar_return" ELSE "bar_wait"))
    /\ UNCHANGED <<crd, cpointers, call_rcu_mutex, completion, cprocess, cghosts>>

(* call_rcu_completion_wait(): test, then FUTEX_WAIT.                      *)
call_rcu_completion_wait(t) ==
    /\ cat(t, "bar_wait")
    /\ thread(t, At(cth[t], IF completion[t].futex = -1 THEN "bar_futex" ELSE "bar_dec"))
    /\ UNCHANGED <<crd, cpointers, call_rcu_mutex, completion, cprocess, cghosts>>

CompletionFutexWait(t) ==
    /\ cat(t, "bar_futex")
    /\ thread(t, At(cth[t], IF completion[t].futex = -1 THEN "bar_asleep" ELSE "bar_dec"))
    /\ UNCHANGED <<crd, cpointers, call_rcu_mutex, completion, cprocess, cghosts>>

BarrierReturn(t) ==
    /\ cat(t, "bar_return")
    /\ completion' = [completion EXCEPT ![t].ref = @ - 1]
    /\ thread(t, At(cth[t], "idle"))
    /\ UNCHANGED <<crd, cpointers, call_rcu_mutex, cprocess, cghosts>>

-----------------------------------------------------------------------------
(* fork().                                                                 *)

call_rcu_before_fork(t) ==
    /\ may(t, "fork")
    /\ cth[t].nest = 0
    /\ cforks < MaxCForks
    /\ call_rcu_mutex = NULL
    /\ call_rcu_mutex' = t
    /\ thread(t, [At(cth[t], "fork_pause") EXCEPT !.todo = call_rcu_data_list])
    /\ UNCHANGED <<crd, cpointers, completion, cprocess, cghosts>>

ForkPause(t) ==
    /\ cat(t, "fork_pause")
    /\ cth[t].todo # << >>
    /\ LET c == Head(cth[t].todo)
       IN  /\ crd' = [crd EXCEPT ![c].flags = @ \cup {"PAUSE"}]
           /\ thread(t, [Enter(cth[t], "wake", "fork_pause") EXCEPT
                           !.w = c, !.todo = Tail(@)])
    /\ UNCHANGED <<cpointers, call_rcu_mutex, completion, cprocess, cghosts>>

Listed == Range(call_rcu_data_list)

(* Mutant: fork without waiting until the workers have paused.             *)
DontWait == TRUE

AllPaused == \A c \in Listed : "PAUSED" \in crd[c].flags

ForkPaused(t) ==
    /\ cat(t, "fork_pause")
    /\ cth[t].todo = << >>
    /\ AllPaused
    /\ thread(t, [At(cth[t], "fork") EXCEPT !.w = NULL])
    /\ UNCHANGED <<crd, cpointers, call_rcu_mutex, completion, cprocess, cghosts>>

(* In the parent: let the workers go on, and wait until they do.           *)
call_rcu_after_fork_parent(t) ==
    /\ cat(t, "fork")
    /\ crd' = [c \in Crdps |-> [crd[c] EXCEPT !.flags = @ \ {"PAUSE"}]]
    /\ thread(t, At(cth[t], "fork_parent"))
    /\ UNCHANGED <<cpointers, call_rcu_mutex, completion, cprocess, cghosts>>

AfterForkParentUnlock(t) ==
    /\ cat(t, "fork_parent")
    /\ \A c \in Listed : "PAUSED" \notin crd[c].flags
    /\ call_rcu_mutex' = NULL
    /\ thread(t, At(cth[t], "idle"))
    /\ UNCHANGED <<crd, cpointers, completion, cprocess, cghosts>>

(* In the child there is one thread: no worker, and no other reader.  It   *)
(* releases the mutex and needs a default crdp with a worker, if there is  *)
(* any crdp at all.  What other threads were to hand over is not queued.   *)
call_rcu_after_fork_child(t) ==
    /\ cat(t, "fork")
    /\ living' = {t}
    /\ cforks' = cforks + 1
    /\ call_rcu_mutex' = NULL
    /\ crd' = [c \in Crdps |-> [crd[c] EXCEPT !.wpc = "none", !.wpre = {},
                                              !.batch = << >>]]
    /\ hold' = [h \in Heads |-> {}]
    /\ default_crd' = NULL
    /\ cth' = [u \in CThreads |->
                 IF u # t THEN NewThread
                 ELSE IF call_rcu_data_list = << >> THEN At(cth[t], "idle")
                 ELSE Enter(cth[t], "default", "child")]
    /\ UNCHANGED <<call_rcu_data_list, cpu_crd, thread_crd, completion, calls,
                   pending, owed>>

(* The pointers to the crdps of the parent go, and then the crdps.         *)
ChildCleanup(t) ==
    /\ cat(t, "child")
    /\ cpu_crd' = NULL
    /\ thread_crd' = [thread_crd EXCEPT ![t] = NULL]
    /\ thread(t, [At(cth[t], "child_free") EXCEPT
                    !.todo = Without(call_rcu_data_list, default_crd)])
    /\ UNCHANGED <<crd, call_rcu_data_list, default_crd, call_rcu_mutex, completion,
                   cprocess, cghosts>>

ChildFree(t) ==
    /\ cat(t, "child_free")
    /\ cth[t].todo # << >>
    /\ LET c == Head(cth[t].todo)
       IN  /\ crd' = [crd EXCEPT ![c].flags = {"STOPPED"}]
           /\ thread(t, [Enter(cth[t], "free", "child_free") EXCEPT
                           !.f = c, !.todo = Tail(@)])
    /\ UNCHANGED <<cpointers, call_rcu_mutex, completion, cprocess, cghosts>>

ChildDone(t) ==
    /\ cat(t, "child_free")
    /\ cth[t].todo = << >>
    /\ thread(t, [At(cth[t], "idle") EXCEPT !.w = NULL])
    /\ UNCHANGED <<crd, cpointers, call_rcu_mutex, completion, cprocess, cghosts>>

-----------------------------------------------------------------------------
CWorkerStep(c) ==
    \/ call_rcu_thread(c) \/ CPause(c) \/ CResume(c) \/ CSplice(c)
    \/ CSynchronize(c) \/ CGracePeriodEnds(c) \/ CRunCallback(c)
    \/ _rcu_barrier_complete(c) \/ call_rcu_completion_wake_up(c)
    \/ CompletionWakeSet(c) \/ CompletionWakeFutex(c) \/ CompletionPut(c)
    \/ CBatchDone(c) \/ CStopTest(c) \/ call_rcu_wait(c) \/ CFutexWait(c)
    \/ CDecrement(c) \/ CStop(c) \/ CStopped(c)

CThreadStep(t) ==
    \/ get_call_rcu_data(t) \/ get_default_call_rcu_data(t) \/ _call_rcu(t)
    \/ wake_call_rcu_thread(t) \/ CWakeSet(t) \/ CWakeFutex(t) \/ call_rcu_return(t)
    \/ set_cpu_call_rcu_data(t)
    \/ FreeSetCpu(t) \/ FreeSynchronize(t) \/ FreeGracePeriodEnds(t)
    \/ call_rcu_data_free(t) \/ WorkerStopped(t) \/ Leftover(t)
    \/ MigrateCallbacks(t) \/ UnlinkAndFree(t) \/ BarrierQueue(t) \/ BarrierUnlock(t)
    \/ BarrierDecrement(t) \/ BarrierCount(t) \/ call_rcu_completion_wait(t)
    \/ CompletionFutexWait(t) \/ BarrierReturn(t) \/ ForkPause(t) \/ ForkPaused(t)
    \/ call_rcu_after_fork_parent(t) \/ AfterForkParentUnlock(t)
    \/ call_rcu_after_fork_child(t) \/ ChildCleanup(t) \/ ChildFree(t) \/ ChildDone(t)

CCall(t) ==
    \/ ReadLock(t) \/ ReadUnlock(t) \/ (\E h \in Heads : call_rcu(t, h))
    \/ create_all_cpu_call_rcu_data(t) \/ create_call_rcu_data(t)
    \/ set_thread_call_rcu_data(t) \/ free_all_cpu_call_rcu_data(t)
    \/ rcu_barrier(t) \/ call_rcu_before_fork(t)

CallRcuNext ==
    \/ \E c \in Crdps : CWorkerStep(c)
    \/ \E t \in CThreads : CThreadStep(t) \/ CCall(t)

CallRcuSpec == CallRcuInit /\ [][CallRcuNext]_cvars

(* Workers and threads are scheduled, and sections end.                    *)
CallRcuFairness ==
    /\ \A c \in Crdps : WF_cvars(CWorkerStep(c))
    /\ \A t \in CThreads : WF_cvars(CThreadStep(t)) /\ WF_cvars(ReadUnlock(t))

CallRcuFairSpec == CallRcuSpec /\ CallRcuFairness

-----------------------------------------------------------------------------
InQueue(c) == crd[c].q \o crd[c].batch
Occurrences(h) ==
    UNION {{c} \X {i \in DOMAIN InQueue(c) : InQueue(c)[i] = h} : c \in Crdps}

(* A callback that was handed over and has not run is in exactly one place *)
(* of the queues and batches, and no other is: none is lost or run twice   *)
(* when crdps come and go, callbacks migrate and the process forks.        *)
EveryCallbackOnce ==
    \A h \in Heads : Cardinality(Occurrences(h)) = IF h \in pending THEN 1 ELSE 0

(* A callback that is about to run waits for no section any more, although *)
(* it may have moved between crdps since call_rcu().                       *)
CallbackAfterGracePeriod ==
    \A c \in Crdps : crd[c].wpc = "run" =>
        \A h \in Range(crd[c].batch) \cap Heads : hold[h] = {}

(* Nobody touches a crdp that has been freed: not a thread that queues or  *)
(* wakes up, nor one that is about to free it itself (call_rcu_data_free() *)
(* frees once).  Nor a completion whose last reference is gone.            *)
UsedMemoryIsLive ==
    /\ \A t \in living :
         cth[t].pc \in {"enqueue", "wake", "wake_set", "wake_futex", "migrate"}
         => crd[cth[t].w].live
    /\ \A t \in living :
         cth[t].pc \in {"set_cpu", "free_set", "synchronize", "grace", "free",
                        "stopping", "leftover", "migrate", "unlink"}
         => crd[cth[t].f].live
    /\ \A c \in Crdps : \A t \in Range(InQueue(c)) \cap living : completion[t].ref > 0
    /\ \A t \in living : cth[t].pc \in {"bar_dec", "bar_count", "bar_wait", "bar_futex",
                                        "bar_asleep", "bar_return"}
                         => completion[t].ref > 0

(* When rcu_barrier() returns, the callbacks that were pending when it was *)
(* called have run.                                                        *)
BarrierCoversPending == \A t \in living : cat(t, "bar_return") => owed[t] = {}

(* Every callback runs in the end, and rcu_barrier(), call_rcu_data_free() *)
(* and the fork handlers return.                                           *)
CallRcuProgress ==
    /\ \A h \in Heads : h \in pending ~> h \notin pending
    /\ \A t \in CThreads :
         cat(t, "bar_count") \/ cat(t, "stopping") \/ cat(t, "fork_pause") ~> cat(t, "idle")

=============================================================================
