-------------------------------- MODULE Defer --------------------------------
(***************************************************************************)
(* defer_rcu(): src/urcu-defer-impl.h, compiled into every flavor.         *)
(*                                                                         *)
(* Each thread that defers has a ring of words, filled by the thread alone *)
(* and drained, after a grace period, under rcu_defer_mutex: by the thread *)
(* when the ring is nearly full, by rcu_defer_barrier(), or by a common    *)
(* reclamation thread that sleeps on a futex while all rings are empty.    *)
(* The first thread that registers starts it, the last one stops it.       *)
(*                                                                         *)
(* A callback takes one to three words: bit 0 of a word, and the word with *)
(* all bits but that one, tell what it is.  Words have a few bits here,    *)
(* and so has the count of words written: both wrap as in the code.        *)
(***************************************************************************)
EXTENDS Integers, Sequences, SequencesExt, FiniteSets

CONSTANTS
    DThreads,       \* threads that defer
    DReaders,       \* threads that read
    DCallbacks,     \* what they defer: pairs of words <<function, data>>
    DQSize,         \* DEFER_QUEUE_SIZE
    WordRange,      \* 2^64 for the code: words and counters are below it
    DFutexHalf,     \* half the range of the futex: 2^31 in the code
    DRegisters,     \* bound on the registrations of a thread
    DPrograms,      \* programs: their threads, and the calls of defer_rcu() in all
    DNobody

ASSUME DeferAssumption ==
    /\ DQSize \in Nat /\ DQSize > 3
    /\ WordRange \in Nat /\ WordRange % DQSize = 0 /\ WordRange > DQSize
    /\ WordRange % 2 = 0
    /\ DCallbacks \subseteq (0 .. WordRange - 1) \X (0 .. WordRange - 1)
    /\ DFutexHalf \in Nat \ {0, 1}
    /\ DRegisters \in Nat
    /\ DPrograms \subseteq [who : SUBSET DThreads, max : Nat]
    /\ "thr_defer" \notin DThreads
    /\ DNobody \notin DThreads \cup {"thr_defer"}

Actors == DThreads \cup {"thr_defer"}

VARIABLES
    dq,                 \* struct defer_queue of each thread: see NoRing
    registry_defer,     \* the threads that are registered, last one first
    rcu_defer_mutex,    \* its owner
    defer_thread_mutex, \* its owner
    defer_thread_futex,
    defer_thread_stop,
    dact,               \* each actor: pc, return point, queues to drain
    dcs,                \* readers inside a section
    dgp,                \* those that the grace period under way waits for
    deferred,           \* deferred[t]: what t deferred and has not run
    registered,         \* how often a thread has registered
    defers,             \* calls of defer_rcu() so far
    dprogram            \* the program that runs

dlocks == <<rcu_defer_mutex, defer_thread_mutex>>
dfutex == <<defer_thread_futex, defer_thread_stop>>
dreaders == <<dcs, dgp>>
dbounds == <<registered, defers, dprogram>>
dvars == <<dq, registry_defer, dlocks, dfutex, dact, dreaders, deferred, dbounds>>

NoRing == [q |-> << >>, head |-> 0, tail |-> 0, last_head |-> 0,
           fct_in |-> 0, fct_out |-> 0]
NewRing == [i \in 1 .. DQSize |-> 0]

DeferInit ==
    /\ dq = [t \in DThreads |-> NoRing]
    /\ registry_defer = << >>
    /\ rcu_defer_mutex = DNobody
    /\ defer_thread_mutex = DNobody
    /\ defer_thread_futex = 0
    /\ defer_thread_stop = FALSE
    /\ dact = [a \in Actors |-> [pc |-> IF a = "thr_defer" THEN "none" ELSE "idle",
                                 ret |-> "idle", todo |-> << >>, cb |-> << >>]]
    /\ dcs = {}
    /\ dgp = {}
    /\ deferred = [t \in DThreads |-> << >>]
    /\ registered = [t \in DThreads |-> 0]
    /\ defers = 0
    /\ dprogram \in DPrograms

dat(a, pc) == dact[a].pc = pc
dgo(a, pc) == dact' = [dact EXCEPT ![a].pc = pc]
dcall(a, pc, ret) == dact' = [dact EXCEPT ![a].pc = pc, ![a].ret = ret]
dback(a) == dgo(a, dact[a].ret)

-----------------------------------------------------------------------------
(* Words and counters.                                                     *)

plus(n, k) == (n + k) % WordRange
minus(n, k) == (n - k) % WordRange
slot(n) == (n % DQSize) + 1

DQ_FCT_MARK == WordRange - 2
DQ_IS_FCT_BIT(x) == x % 2 = 1
DQ_SET_FCT_BIT(x) == IF DQ_IS_FCT_BIT(x) THEN x ELSE x + 1
DQ_CLEAR_FCT_BIT(x) == IF DQ_IS_FCT_BIT(x) THEN x - 1 ELSE x

(* The words for function f with data p, after function last.              *)
Encode(last, f, p) ==
    IF last = f /\ ~ DQ_IS_FCT_BIT(p) /\ p # DQ_FCT_MARK THEN <<p>>
    ELSE IF DQ_IS_FCT_BIT(f) \/ f = DQ_FCT_MARK THEN <<DQ_FCT_MARK, f, p>>
    ELSE <<DQ_SET_FCT_BIT(f), p>>

(* What the words at position i mean, after function last.                 *)
Decode(d, i) ==
    LET w(k) == d.q[slot(i + k)]
    IN  IF DQ_IS_FCT_BIT(w(0)) THEN [f |-> DQ_CLEAR_FCT_BIT(w(0)), p |-> w(1), n |-> 2]
        ELSE IF w(0) = DQ_FCT_MARK THEN [f |-> w(1), p |-> w(2), n |-> 3]
        ELSE [f |-> d.fct_out, p |-> w(0), n |-> 1]

-----------------------------------------------------------------------------
(* Readers, and the grace period of the actor that holds rcu_defer_mutex.  *)

DEnter(r) ==
    /\ r \notin dcs
    /\ dcs' = dcs \cup {r}
    /\ UNCHANGED <<dq, registry_defer, dlocks, dfutex, dact, dgp, deferred, dbounds>>

DLeave(r) ==
    /\ r \in dcs
    /\ dcs' = dcs \ {r}
    /\ dgp' = dgp \ {r}
    /\ deferred' = [t \in DThreads |->
                      [k \in DOMAIN deferred[t] |->
                         [deferred[t][k] EXCEPT !.hold = @ \ {r}]]]
    /\ UNCHANGED <<dq, registry_defer, dlocks, dfutex, dact, dbounds>>

(* Mutant: the callbacks run at once.                                      *)
NoGracePeriod == {}

DWaited == dcs

DSynchronize(a) ==
    /\ dat(a, "synchronize")
    /\ dgp' = DWaited
    /\ dgo(a, "grace")
    /\ UNCHANGED <<dq, registry_defer, dlocks, dfutex, dcs, deferred, dbounds>>

DGracePeriodEnds(a) ==
    /\ dat(a, "grace")
    /\ dgp = {}
    /\ dgo(a, "drain")
    /\ UNCHANGED <<dq, registry_defer, dlocks, dfutex, dreaders, deferred, dbounds>>

(* rcu_defer_barrier_queue(): the position of the first queue to drain     *)
(* moves up to its end; the tail follows when it is there.  The words that *)
(* have been read are dead, and are cleared.                               *)
Live(d, to) == {slot(plus(to, k)) : k \in 0 .. minus(d.head, to) - 1}

rcu_defer_barrier_queue(a) ==
    /\ dat(a, "drain")
    /\ dact[a].todo # << >>
    /\ LET w == Head(dact[a].todo)
           t == w.t
           c == Decode(dq[t], w.i)
       IN  IF w.i # w.to
           THEN /\ dact' = [dact EXCEPT ![a].todo = <<[w EXCEPT !.i = plus(w.i, c.n)]>>
                                                    \o Tail(@)]
                /\ dq' = [dq EXCEPT ![t].fct_out = c.f]
                /\ deferred' = [deferred EXCEPT ![t] = Tail(@)]
           ELSE /\ dq' = [dq EXCEPT ![t].tail = w.i,
                                    ![t].q = [k \in 1 .. DQSize |->
                                       IF k \in Live(dq[t], w.i) THEN @[k] ELSE 0]]
                /\ dact' = [dact EXCEPT ![a].todo = Tail(@)]
                /\ deferred' = deferred
    /\ UNCHANGED <<registry_defer, dlocks, dfutex, dreaders, dbounds>>

(* The caller goes on, with rcu_defer_mutex released.                      *)
Drained(a) ==
    /\ dat(a, "drain")
    /\ dact[a].todo = << >>
    /\ rcu_defer_mutex' = DNobody
    /\ dback(a)
    /\ UNCHANGED <<dq, registry_defer, defer_thread_mutex, dfutex, dreaders, deferred, dbounds>>

ToHead(t) == [t |-> t, i |-> dq[t].tail, to |-> dq[t].head]

(* rcu_defer_barrier(): note the heads; without callbacks, no more to do.  *)
rcu_defer_barrier(a) ==
    /\ dat(a, "barrier")
    /\ rcu_defer_mutex = DNobody
    /\ LET todo == [k \in DOMAIN registry_defer |-> ToHead(registry_defer[k])]
       IN  /\ dq' = [t \in DThreads |->
                       IF t \in Range(registry_defer)
                       THEN [dq[t] EXCEPT !.last_head = dq[t].head] ELSE dq[t]]
           /\ IF \E k \in DOMAIN todo : todo[k].i # todo[k].to
              THEN /\ dact' = [dact EXCEPT ![a].pc = "synchronize", ![a].todo = todo]
                   /\ rcu_defer_mutex' = a
              ELSE dback(a) /\ UNCHANGED rcu_defer_mutex
    /\ UNCHANGED <<registry_defer, defer_thread_mutex, dfutex, dreaders, deferred, dbounds>>

(* rcu_defer_barrier_thread(): the same for the queue of the caller.       *)
rcu_defer_barrier_thread(t) ==
    /\ dat(t, "barrier_thread")
    /\ rcu_defer_mutex = DNobody
    /\ IF dq[t].head = dq[t].tail THEN dback(t) /\ UNCHANGED rcu_defer_mutex
       ELSE /\ dact' = [dact EXCEPT ![t].pc = "synchronize", ![t].todo = <<ToHead(t)>>]
            /\ rcu_defer_mutex' = t
    /\ UNCHANGED <<dq, registry_defer, defer_thread_mutex, dfutex, dreaders, deferred, dbounds>>

-----------------------------------------------------------------------------
(* defer_rcu().                                                            *)

(* Mutant: room for two words is deemed enough.                            *)
TwoWordsLeft(t) == minus(dq[t].head, dq[t].tail) >= DQSize - 1

(* A ring with less room than a callback may need is drained first.        *)
NearlyFull(t) == minus(dq[t].head, dq[t].tail) >= DQSize - 2

defer_rcu(t, cb) ==
    /\ dat(t, "idle")
    /\ t \in Range(registry_defer)
    /\ defers < dprogram.max
    /\ defers' = defers + 1
    /\ dact' = [dact EXCEPT ![t].pc = IF NearlyFull(t) THEN "barrier_thread" ELSE "encode",
                            ![t].ret = "encode", ![t].cb = cb]
    /\ UNCHANGED <<dq, registry_defer, dlocks, dfutex, dreaders, deferred, registered, dprogram>>

(* The words, then the head: a drain reads no word beyond the head.        *)
DStore(t) ==
    /\ dat(t, "encode")
    /\ LET f == dact[t].cb[1]
           p == dact[t].cb[2]
           words == Encode(dq[t].fct_in, f, p)
           h == dq[t].head
       IN  /\ dq' = [dq EXCEPT ![t] = [dq[t] EXCEPT
                       !.fct_in = f,
                       !.q = [k \in 1 .. DQSize |->
                                LET j == CHOOSE j \in 0 .. DQSize - 1 : slot(h + j) = k
                                IN  IF j < Len(words) THEN words[j + 1] ELSE dq[t].q[k]],
                       !.head = plus(h, Len(words))]]
           /\ deferred' = [deferred EXCEPT ![t] =
                             Append(@, [f |-> f, p |-> p, hold |-> dcs])]
    /\ dact' = [dact EXCEPT ![t].pc = "wake", ![t].ret = "idle", ![t].cb = << >>]
    /\ UNCHANGED <<registry_defer, dlocks, dfutex, dreaders, dbounds>>

wake_up_defer(t) ==
    /\ dat(t, "wake")
    /\ IF defer_thread_futex = -1 THEN dgo(t, "wake_set") ELSE dback(t)
    /\ UNCHANGED <<dq, registry_defer, dlocks, dfutex, dreaders, deferred, dbounds>>

DWakeSet(t) ==
    /\ dat(t, "wake_set")
    /\ defer_thread_futex' = 0
    /\ dgo(t, "wake_futex")
    /\ UNCHANGED <<dq, registry_defer, dlocks, defer_thread_stop, dreaders, deferred, dbounds>>

DWakeFutex(t) ==
    /\ dat(t, "wake_futex")
    /\ dact' = [dact EXCEPT !["thr_defer"].pc = IF @ = "asleep" THEN "barrier" ELSE @,
                            ![t].pc = dact[t].ret]
    /\ UNCHANGED <<dq, registry_defer, dlocks, dfutex, dreaders, deferred, dbounds>>

(* Calls of the two barriers by the program.                               *)
CallBarrier(t) ==
    /\ dat(t, "idle")
    /\ t \in Range(registry_defer)
    /\ \E pc \in {"barrier", "barrier_thread"} : dcall(t, pc, "idle")
    /\ UNCHANGED <<dq, registry_defer, dlocks, dfutex, dreaders, deferred, dbounds>>

-----------------------------------------------------------------------------
(* The reclamation thread.                                                 *)

(* wait_defer(): arm the futex; leave if told to; do not sleep if there    *)
(* are callbacks; sleep if nobody has reset the futex.                     *)
wait_defer ==
    /\ dat("thr_defer", "dec")
    /\ defer_thread_futex' = IF defer_thread_futex = -DFutexHalf THEN DFutexHalf - 1
                             ELSE defer_thread_futex - 1
    /\ dgo("thr_defer", "stop_test")
    /\ UNCHANGED <<dq, registry_defer, dlocks, defer_thread_stop, dreaders, deferred, dbounds>>

DStopTest ==
    /\ dat("thr_defer", "stop_test")
    /\ defer_thread_futex' = IF defer_thread_stop THEN 0 ELSE defer_thread_futex
    /\ dgo("thr_defer", IF defer_thread_stop THEN "none" ELSE "count")
    /\ UNCHANGED <<dq, registry_defer, dlocks, defer_thread_stop, dreaders, deferred, dbounds>>

rcu_defer_num_callbacks ==
    /\ dat("thr_defer", "count")
    /\ rcu_defer_mutex = DNobody
    /\ dgo("thr_defer", IF \E t \in Range(registry_defer) : dq[t].head # dq[t].tail
                        THEN "disarm" ELSE "test")
    /\ UNCHANGED <<dq, registry_defer, dlocks, dfutex, dreaders, deferred, dbounds>>

DDisarm ==
    /\ dat("thr_defer", "disarm")
    /\ defer_thread_futex' = 0
    /\ dgo("thr_defer", "barrier")
    /\ UNCHANGED <<dq, registry_defer, dlocks, defer_thread_stop, dreaders, deferred, dbounds>>

DTestFutex ==
    /\ dat("thr_defer", "test")
    /\ dgo("thr_defer", IF defer_thread_futex = -1 THEN "futex_wait" ELSE "barrier")
    /\ UNCHANGED <<dq, registry_defer, dlocks, dfutex, dreaders, deferred, dbounds>>

(* Mutant: FUTEX_WAIT without the comparison in the kernel.                *)
DSleepAnyway ==
    /\ dat("thr_defer", "futex_wait")
    /\ dgo("thr_defer", "asleep")
    /\ UNCHANGED <<dq, registry_defer, dlocks, dfutex, dreaders, deferred, dbounds>>

DFutexWait ==
    /\ dat("thr_defer", "futex_wait")
    /\ dgo("thr_defer", IF defer_thread_futex = -1 THEN "asleep" ELSE "barrier")
    /\ UNCHANGED <<dq, registry_defer, dlocks, dfutex, dreaders, deferred, dbounds>>

-----------------------------------------------------------------------------
(* Registration.                                                           *)

(* The assertions at the top come first: a thread for which they fail ends *)
(* the process, and does not go on here.                                   *)
rcu_defer_register_thread(t) ==
    /\ dat(t, "idle")
    /\ t \notin Range(registry_defer)
    /\ t \in dprogram.who
    /\ registered[t] < DRegisters
    /\ registered' = [registered EXCEPT ![t] = @ + 1]
    /\ dgo(t, "register")
    /\ UNCHANGED <<dq, registry_defer, dlocks, dfutex, dreaders, deferred, defers, dprogram>>

RegisterLock(t) ==
    /\ dat(t, "register")
    /\ dq[t].last_head = 0 /\ dq[t].q = << >>
    /\ defer_thread_mutex = DNobody
    /\ defer_thread_mutex' = t
    /\ dgo(t, "register_add")
    /\ UNCHANGED <<dq, registry_defer, rcu_defer_mutex, dfutex, dreaders, deferred, dbounds>>

(* Join the registry; the first one starts the reclamation thread.         *)
start_defer_thread(t) ==
    /\ dat(t, "register_add")
    /\ rcu_defer_mutex = DNobody
    /\ registry_defer' = <<t>> \o registry_defer
    /\ dq' = [dq EXCEPT ![t].q = NewRing]
    /\ dact' = [dact EXCEPT ![t].pc = "idle",
                   !["thr_defer"] = IF registry_defer = << >>
                                    THEN [@ EXCEPT !.pc = "dec", !.ret = "dec"] ELSE @]
    /\ defer_thread_mutex' = DNobody
    /\ UNCHANGED <<rcu_defer_mutex, dfutex, dreaders, deferred, dbounds>>

rcu_defer_unregister_thread(t) ==
    /\ dat(t, "idle")
    /\ t \in Range(registry_defer)
    /\ dgo(t, "unregister")
    /\ UNCHANGED <<dq, registry_defer, dlocks, dfutex, dreaders, deferred, dbounds>>

UnregisterLock(t) ==
    /\ dat(t, "unregister")
    /\ defer_thread_mutex = DNobody
    /\ defer_thread_mutex' = t
    /\ dgo(t, "unregister_del")
    /\ UNCHANGED <<dq, registry_defer, rcu_defer_mutex, dfutex, dreaders, deferred, dbounds>>

(* Leave the registry, then drain the queue as its owner.                  *)
UnregisterDel(t) ==
    /\ dat(t, "unregister_del")
    /\ rcu_defer_mutex = DNobody
    /\ \E k \in DOMAIN registry_defer : /\ registry_defer[k] = t
                                       /\ registry_defer' = RemoveAt(registry_defer, k)
    /\ IF dq[t].head # dq[t].tail
       THEN /\ dact' = [dact EXCEPT ![t].pc = "synchronize", ![t].ret = "unregister_free",
                                    ![t].todo = <<ToHead(t)>>]
            /\ rcu_defer_mutex' = t
       ELSE dgo(t, "unregister_free") /\ UNCHANGED rcu_defer_mutex
    /\ UNCHANGED <<dq, defer_thread_mutex, dfutex, dreaders, deferred, dbounds>>

(* Free the ring; the last one stops the reclamation thread.               *)
stop_defer_thread(t) ==
    /\ dat(t, "unregister_free")
    /\ dq' = [dq EXCEPT ![t].q = << >>]
    /\ IF registry_defer = << >>
       THEN /\ defer_thread_stop' = TRUE
            /\ dcall(t, "wake", "join")
            /\ UNCHANGED defer_thread_mutex
       ELSE /\ defer_thread_mutex' = DNobody
            /\ dgo(t, "idle")
            /\ UNCHANGED defer_thread_stop
    /\ UNCHANGED <<registry_defer, rcu_defer_mutex, defer_thread_futex, dreaders, deferred, dbounds>>

JoinDeferThread(t) ==
    /\ dat(t, "join")
    /\ dat("thr_defer", "none")
    /\ defer_thread_stop' = FALSE
    /\ defer_thread_mutex' = DNobody
    /\ dgo(t, "idle")
    /\ UNCHANGED <<dq, registry_defer, rcu_defer_mutex, defer_thread_futex, dreaders,
                   deferred, dbounds>>

-----------------------------------------------------------------------------
Draining(a) ==
    \/ DSynchronize(a) \/ DGracePeriodEnds(a) \/ rcu_defer_barrier_queue(a)
    \/ Drained(a) \/ rcu_defer_barrier(a)

DThreadStep(t) ==
    \/ Draining(t) \/ rcu_defer_barrier_thread(t) \/ DStore(t) \/ wake_up_defer(t)
    \/ DWakeSet(t) \/ DWakeFutex(t) \/ RegisterLock(t) \/ start_defer_thread(t)
    \/ UnregisterLock(t) \/ UnregisterDel(t) \/ stop_defer_thread(t) \/ JoinDeferThread(t)

DCall(t) ==
    \/ (\E cb \in DCallbacks : defer_rcu(t, cb)) \/ CallBarrier(t)
    \/ rcu_defer_register_thread(t) \/ rcu_defer_unregister_thread(t)

thr_defer ==
    \/ wait_defer \/ DStopTest \/ rcu_defer_num_callbacks \/ DDisarm \/ DTestFutex
    \/ DFutexWait \/ Draining("thr_defer")

DeferNext ==
    \/ thr_defer
    \/ \E t \in DThreads : DThreadStep(t) \/ DCall(t)
    \/ \E r \in DReaders : DEnter(r) \/ DLeave(r)

DeferSpec == DeferInit /\ [][DeferNext]_dvars

(* Threads are scheduled, sections end, and the reclamation thread gets    *)
(* the mutex although others take it again and again.                      *)
DeferFairness ==
    /\ WF_dvars(thr_defer)
    /\ SF_dvars(rcu_defer_num_callbacks)
    /\ SF_dvars(rcu_defer_barrier("thr_defer"))
    /\ \A t \in DThreads : WF_dvars(DThreadStep(t))
    /\ \A r \in DReaders : WF_dvars(DLeave(r))

DeferFairSpec == DeferSpec /\ DeferFairness

-----------------------------------------------------------------------------
(* Where the callbacks of a ring that have not run begin: at the position  *)
(* of a drain under way, or at the tail.                                   *)
DrainPosition(t) ==
    LET at == {a \in Actors : /\ dat(a, "drain") /\ dact[a].todo # << >>
                              /\ Head(dact[a].todo).t = t}
    IN  IF at = {} THEN dq[t].tail ELSE Head(dact[CHOOSE a \in at : TRUE].todo).i

(* The words after the function last read as callback e; n of them.        *)
Reads(d, i, last, e, n) ==
    LET c == Decode([d EXCEPT !.fct_out = last], i)
    IN  c.f = e.f /\ c.p = e.p /\ c.n = n

(* The function in force before the k-th callback.                         *)
LastFct(d, todo, k) == IF k = 1 THEN d.fct_out ELSE todo[k - 1].f

(* The ring holds exactly the callbacks that were deferred and have not    *)
(* run, in order, whatever their functions and data look like, however     *)
(* often it wraps, and while another thread drains it: decoded from where  *)
(* the drain is, its words are these callbacks, up to the head.  An        *)
(* unregistered thread has left nothing behind.                            *)
RingHoldsDeferred ==
    \A t \in DThreads :
        LET n == Len(deferred[t])
            start == DrainPosition(t)
        IN  /\ dq[t].q = << >> => n = 0
            /\ minus(dq[t].head, dq[t].tail) <= DQSize
            /\ \E at \in [1 .. n + 1 -> 0 .. DQSize] :
                  /\ at[1] = 0
                  /\ at[n + 1] = minus(dq[t].head, start)
                  /\ \A k \in 1 .. n :
                       Reads(dq[t], plus(start, at[k]), LastFct(dq[t], deferred[t], k),
                             deferred[t][k], at[k + 1] - at[k])

(* A callback runs when the sections that ran when it was deferred have    *)
(* ended, the reclamation being done for several threads at once.          *)
DeferAfterGracePeriod ==
    \A a \in Actors : dat(a, "drain") /\ dact[a].todo # << >> =>
        LET w == Head(dact[a].todo)
        IN  w.i # w.to => deferred[w.t] # << >> /\ Head(deferred[w.t]).hold = {}

(* What a thread defers is run in the end, even if it defers nothing more, *)
(* and unregistering returns.                                              *)
DeferredRuns ==
    \A t \in DThreads : /\ deferred[t] # << >> ~> deferred[t] = << >>
                        /\ dat(t, "unregister_free") ~> dat(t, "idle")

=============================================================================
