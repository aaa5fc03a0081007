---------------------------- MODULE CompatFutex -----------------------------
(***************************************************************************)
(* futex_noasync() and futex_async() (include/urcu/futex.h) on a kernel    *)
(* with futexes, on one without them, and on one whose FUTEX_WAIT at times *)
(* returns ENOSYS; and the fallbacks of src/compat_futex.c: a mutex and a  *)
(* condition variable shared by all addresses, and polling.  They are used *)
(* as everywhere in the library: a waiter stores -1 and waits for another  *)
(* value, a waker that reads -1 stores 0 and wakes.                        *)
(***************************************************************************)
EXTENDS FiniteSets, Naturals

CONSTANTS
    FxThreads,    \* the threads
    FxWords,      \* the addresses, each with one waiter at a time
    FxNobody      \* a free mutex

ASSUME FxAssumption == FxNobody \notin FxThreads

VARIABLES
    fx_build,     \* CONFIG_RCU_HAVE_FUTEX and the kernel, see FxBuilds
    fx_api,       \* which of the two functions is used on each address
    fx_word,      \* "-1" or "0" at each address
    fx_pc,        \* where each thread is
    fx_uaddr,     \* uaddr
    fx_lock       \* __urcu_compat_futex_lock

fxvars == <<fx_build, fx_api, fx_word, fx_pc, fx_uaddr, fx_lock>>

FxBuilds == {"futex", "spurious_enosys", "enosys", "compat"}

CompatFutexInit ==
    /\ fx_build \in FxBuilds
    /\ fx_api \in [FxWords -> {"noasync", "async"}]
    /\ fx_word = [w \in FxWords |-> "0"]
    /\ fx_pc = [t \in FxThreads |-> "idle"]
    /\ fx_uaddr \in {[t \in FxThreads |-> w] : w \in FxWords}
    /\ fx_lock = FxNobody

FxGoto(t, l) == fx_pc' = [fx_pc EXCEPT ![t] = l]

Waiting(t) == fx_pc[t] \in {"wait", "sys_wait", "poll", "lock_wait", "test", "cond"}

(* The waiter announces itself and calls FUTEX_WAIT.                       *)
CallWait(t, w) ==
    /\ fx_pc[t] = "idle" /\ \A u \in FxThreads : Waiting(u) => fx_uaddr[u] # w
    /\ fx_word' = [fx_word EXCEPT ![w] = "-1"]
    /\ fx_uaddr' = [fx_uaddr EXCEPT ![t] = w]
    /\ FxGoto(t, "wait")
    /\ UNCHANGED <<fx_build, fx_api, fx_lock>>

(* The waker stores 0 and calls FUTEX_WAKE.                                *)
CallWake(t, w) ==
    /\ fx_pc[t] = "idle" /\ fx_word[w] = "-1"
    /\ fx_word' = [fx_word EXCEPT ![w] = "0"]
    /\ fx_uaddr' = [fx_uaddr EXCEPT ![t] = w]
    /\ FxGoto(t, "wake")
    /\ UNCHANGED <<fx_build, fx_api, fx_lock>>

Changed(t) == fx_word[fx_uaddr[t]] # "-1"
Noasync(t) == fx_api[fx_uaddr[t]] = "noasync"

-----------------------------------------------------------------------------
(* futex(), the system call.                                               *)

futex_wait(t) ==
    /\ fx_pc[t] = "wait" /\ fx_build \in {"futex", "spurious_enosys"}
    /\ FxGoto(t, IF Changed(t) THEN "idle" ELSE "sys_wait")
    /\ UNCHANGED <<fx_build, fx_api, fx_word, fx_uaddr, fx_lock>>

(* FUTEX_WAKE of one thread.                                               *)
futex_wake(t) ==
    /\ fx_pc[t] = "wake" /\ fx_build \in {"futex", "spurious_enosys"}
    /\ LET sleeps == {u \in FxThreads : fx_pc[u] = "sys_wait" /\ fx_uaddr[u] = fx_uaddr[t]}
       IN  \/ \E u \in sleeps : fx_pc' = [fx_pc EXCEPT ![t] = "idle", ![u] = "idle"]
           \/ sleeps = {} /\ FxGoto(t, "idle")
    /\ UNCHANGED <<fx_build, fx_api, fx_word, fx_uaddr, fx_lock>>

(* The waiter is interrupted by a signal, EINTR, and calls again.          *)
Interrupted(t) ==
    /\ fx_pc[t] \in {"sys_wait", "poll"}
    /\ FxGoto(t, "wait")
    /\ UNCHANGED <<fx_build, fx_api, fx_word, fx_uaddr, fx_lock>>

(* ENOSYS: both functions fall back on compat_futex_async().               *)
futex_enosys(t) ==
    /\ \/ fx_pc[t] = "wait" /\ fx_build = "spurious_enosys"
       \/ fx_pc[t] \in {"wait", "wake"} /\ fx_build = "enosys"
    /\ FxGoto(t, IF fx_pc[t] = "wait" THEN "poll" ELSE "idle")
    /\ UNCHANGED <<fx_build, fx_api, fx_word, fx_uaddr, fx_lock>>

-----------------------------------------------------------------------------
(* compat_futex_async(): FUTEX_WAIT polls, FUTEX_WAKE does nothing.        *)

compat_futex_async(t) ==
    /\ fx_build = "compat" /\ ~Noasync(t)
    /\ \/ fx_pc[t] = "wait" /\ FxGoto(t, "poll")
       \/ fx_pc[t] = "wake" /\ FxGoto(t, "idle")
    /\ UNCHANGED <<fx_build, fx_api, fx_word, fx_uaddr, fx_lock>>

(* A poll that finds the value changed; the others change nothing.         *)
PollReturns(t) ==
    /\ fx_pc[t] = "poll" /\ Changed(t)
    /\ FxGoto(t, "idle")
    /\ UNCHANGED <<fx_build, fx_api, fx_word, fx_uaddr, fx_lock>>

-----------------------------------------------------------------------------
(* compat_futex_noasync().                                                 *)

(* pthread_mutex_lock(&__urcu_compat_futex_lock), also when the wait for   *)
(* the condition ends.                                                     *)
compat_futex_noasync(t) ==
    /\ fx_lock = FxNobody
    /\ \/ fx_build = "compat" /\ Noasync(t) /\ fx_pc[t] = "wait" /\ FxGoto(t, "test")
       \/ fx_build = "compat" /\ Noasync(t) /\ fx_pc[t] = "wake" /\ FxGoto(t, "broadcast")
       \/ fx_pc[t] = "lock_wait" /\ FxGoto(t, "test")
    /\ fx_lock' = t
    /\ UNCHANGED <<fx_build, fx_api, fx_word, fx_uaddr>>

(* while (CMM_LOAD_SHARED(...) == val) pthread_cond_wait(...), which gives *)
(* up the mutex, or the end of the call.                                   *)
CompatWait(t) ==
    /\ fx_pc[t] = "test"
    /\ FxGoto(t, IF Changed(t) THEN "idle" ELSE "cond")
    /\ fx_lock' = FxNobody
    /\ UNCHANGED <<fx_build, fx_api, fx_word, fx_uaddr>>

CondWakeup(t) ==
    /\ fx_pc[t] = "cond"
    /\ FxGoto(t, "lock_wait")
    /\ UNCHANGED <<fx_build, fx_api, fx_word, fx_uaddr, fx_lock>>

(* Mutant: pthread_cond_signal() wakes one of them.                        *)
SignalOne(t) ==
    \E some \in SUBSET FxThreads :
        /\ Cardinality(some) <= 1
        /\ (\E u \in FxThreads : fx_pc[u] = "cond") => some # {}
        /\ \A u \in some : fx_pc[u] = "cond"
        /\ fx_pc' = [u \in FxThreads |-> IF u \in some THEN "lock_wait"
                                         ELSE IF u = t THEN "idle" ELSE fx_pc[u]]

(* pthread_cond_broadcast(), for the waiters of every address.             *)
Broadcast(t) ==
    fx_pc' = [u \in FxThreads |-> IF fx_pc[u] = "cond" THEN "lock_wait"
                                  ELSE IF u = t THEN "idle" ELSE fx_pc[u]]

CompatWake(t) ==
    /\ fx_pc[t] = "broadcast"
    /\ Broadcast(t)
    /\ fx_lock' = FxNobody
    /\ UNCHANGED <<fx_build, fx_api, fx_word, fx_uaddr>>

-----------------------------------------------------------------------------
CompatFutexNext ==
    \E t \in FxThreads :
        \/ \E w \in FxWords : CallWait(t, w) \/ CallWake(t, w)
        \/ futex_wait(t) \/ futex_wake(t) \/ Interrupted(t) \/ futex_enosys(t)
        \/ compat_futex_async(t) \/ PollReturns(t)
        \/ compat_futex_noasync(t) \/ CompatWait(t) \/ CondWakeup(t) \/ CompatWake(t)

CompatFutexSpec == CompatFutexInit /\ [][CompatFutexNext]_fxvars

(* A thread that sleeps on a value that has changed is about to be woken:  *)
(* the thread that changed it has not finished its FUTEX_WAKE.  It holds   *)
(* although the condition variable is shared by all addresses, a kernel    *)
(* wakes one thread per call, and a waiter may have fallen back on polling *)
(* while its waker uses the system call.                                   *)
FutexNoLostWakeup ==
    \A t \in FxThreads : fx_pc[t] \in {"sys_wait", "cond"} /\ Changed(t) =>
        \E u \in FxThreads : /\ fx_pc[u] \in {"wake", "broadcast"}
                             /\ fx_uaddr[u] = fx_uaddr[t]

=============================================================================
