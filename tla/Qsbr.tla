-------------------------------- MODULE Qsbr ---------------------------------
(***************************************************************************)
(* Grace-period detection of liburcu-qsbr: src/urcu-qsbr.c and             *)
(* include/urcu/static/urcu-qsbr.h.                                        *)
(*                                                                         *)
(* A read-side critical section costs nothing here: an online thread is    *)
(* taken to be inside one until it reports a quiescent state or goes       *)
(* offline.  Its counter is a copy of rcu_gp.ctr, or 0 when it is offline. *)
(* On 64 bits rcu_gp.ctr counts grace periods; on 32 bits, where it could  *)
(* wrap around, it is a parity and there are two passes over the readers.  *)
(*                                                                         *)
(* Every store a reader makes is followed by a full barrier before its     *)
(* next load, and so is every store of the leader, so that memory is       *)
(* sequentially consistent here.  As in module Urcu the leader is the one  *)
(* thread that holds rcu_gp_lock; it may itself be a registered reader.    *)
(***************************************************************************)
EXTENDS Integers

CONSTANTS
    QThreads,       \* threads that register
    QBits,          \* sizes of a long to consider, a subset of {32, 64}
    QMaxCtr,        \* bound on the values of rcu_gp.ctr on 64 bits
    QQsAttempts     \* RCU_QS_ACTIVE_ATTEMPTS, scans before sleeping

ASSUME QsbrAssumption ==
    /\ QBits \subseteq {32, 64}
    /\ QMaxCtr \in Nat \ {0}
    /\ QQsAttempts \in Nat \ {0}
    /\ "other" \notin QThreads

VARIABLES
    qbits,          \* CAA_BITS_PER_LONG; fixed by Init
    qgp,            \* rcu_gp.ctr without RCU_GP_ONLINE: 1, 2, ...
    qfutex,         \* rcu_gp.futex
    qctr,           \* qctr[t]: rcu_reader.ctr of t, 0 when offline
    waiting,        \* waiting[t]: rcu_reader.waiting of t
    qpc,            \* program counter of each thread
    qret,           \* where t goes when its quiescent state is reported
    qtmp,           \* the rcu_gp.ctr that t loaded
    qlist,          \* the list that t's node is on
    qlock,          \* does the leader hold rcu_registry_lock?
    caller,         \* the thread in synchronize_rcu(), "other": not a reader
    qupc,           \* program counter of the leader
    qpass,          \* which wait_for_readers() call
    qloops,         \* wait_loops
    qscan,          \* readers the current loop over the list has yet to visit
    qcs,            \* threads inside a critical section
    qpre            \* those that were there when the grace period began

qrvars == <<qctr, waiting, qpc, qret, qtmp>>
qlvars == <<qlock, caller, qupc, qpass, qloops, qscan>>
qvars == <<qbits, qgp, qfutex, qrvars, qlist, qlvars, qcs, qpre>>

QsbrInit ==
    /\ qbits \in QBits
    /\ qgp = 1
    /\ qfutex = 0
    /\ qctr = [t \in QThreads |-> 0]
    /\ waiting = [t \in QThreads |-> FALSE]
    /\ qpc = [t \in QThreads |-> "ready"]
    /\ qret = [t \in QThreads |-> "ready"]
    /\ qtmp = [t \in QThreads |-> 0]
    /\ qlist = [t \in QThreads |-> "none"]
    /\ qlock = FALSE
    /\ caller = "other"
    /\ qupc = "idle"
    /\ qpass = 1
    /\ qloops = 0
    /\ qscan = {}
    /\ qcs = {}
    /\ qpre = {}

qgoto(t, pc) == qpc' = [qpc EXCEPT ![t] = pc]
qreturn(t) == qgoto(t, qret[t]) /\ qret' = [qret EXCEPT ![t] = "ready"]

-----------------------------------------------------------------------------
(* Readers.                                                                *)

(* Sections exist in the program only; both calls assert that the thread   *)
(* is online.                                                              *)
rcu_read_lock_qsbr(t) ==
    /\ qpc[t] = "ready"
    /\ qctr[t] # 0
    /\ t \notin qcs
    /\ qcs' = qcs \cup {t}
    /\ UNCHANGED <<qbits, qgp, qfutex, qrvars, qlist, qlvars, qpre>>

rcu_read_unlock_qsbr(t) ==
    /\ t \in qcs
    /\ qcs' = qcs \ {t}
    /\ qpre' = qpre \ {t}
    /\ UNCHANGED <<qbits, qgp, qfutex, qrvars, qlist, qlvars>>

(* A call that reports a quiescent state or changes the thread's own state *)
(* is made outside critical sections.                                      *)
Outside(t) == qpc[t] = "ready" /\ t \notin qcs

(* The node joins the list under rcu_registry_lock; then the thread goes   *)
(* online.                                                                 *)
rcu_register_thread_qsbr(t) ==
    /\ Outside(t)
    /\ qlist[t] = "none"
    /\ ~ qlock
    /\ qlist' = [qlist EXCEPT ![t] = "registry"]
    /\ qgoto(t, "on_load")
    /\ UNCHANGED <<qbits, qgp, qfutex, qctr, waiting, qret, qtmp, qlvars, qcs, qpre>>

rcu_thread_online(t) ==
    /\ Outside(t)
    /\ qlist[t] # "none"
    /\ qctr[t] = 0
    /\ qgoto(t, "on_load")
    /\ UNCHANGED <<qbits, qgp, qfutex, qctr, waiting, qret, qtmp, qlist, qlvars, qcs, qpre>>

OnlineLoad(t) ==
    /\ qpc[t] = "on_load"
    /\ qtmp' = [qtmp EXCEPT ![t] = qgp]
    /\ qgoto(t, "on_store")
    /\ UNCHANGED <<qbits, qgp, qfutex, qctr, waiting, qret, qlist, qlvars, qcs, qpre>>

OnlineStore(t) ==
    /\ qpc[t] = "on_store"
    /\ qctr' = [qctr EXCEPT ![t] = qtmp[t]]
    /\ qtmp' = [qtmp EXCEPT ![t] = 0]
    /\ qgoto(t, "ready")
    /\ UNCHANGED <<qbits, qgp, qfutex, waiting, qret, qlist, qlvars, qcs, qpre>>

(* Nothing to report when the counter is up to date: the call returns.  An *)
(* offline thread that reports a quiescent state is online again.          *)
rcu_quiescent_state(t) ==
    /\ Outside(t)
    /\ qlist[t] # "none"
    /\ qgp # qctr[t]
    /\ qtmp' = [qtmp EXCEPT ![t] = qgp]
    /\ qgoto(t, "qs_store")
    /\ UNCHANGED <<qbits, qgp, qfutex, qctr, waiting, qret, qlist, qlvars, qcs, qpre>>

QuiescentStore(t) ==
    /\ qpc[t] = "qs_store"
    /\ qctr' = [qctr EXCEPT ![t] = qtmp[t]]
    /\ qtmp' = [qtmp EXCEPT ![t] = 0]
    /\ qgoto(t, "wake_flag")
    /\ UNCHANGED <<qbits, qgp, qfutex, waiting, qret, qlist, qlvars, qcs, qpre>>

(* rcu_thread_offline(), on its own or as the first thing that             *)
(* rcu_unregister_thread() does.                                           *)
rcu_thread_offline(t) ==
    /\ Outside(t)
    /\ qctr[t] # 0
    /\ qgoto(t, "off_store")
    /\ UNCHANGED <<qbits, qgp, qfutex, qctr, waiting, qret, qtmp, qlist, qlvars, qcs, qpre>>

rcu_unregister_thread_qsbr(t) ==
    /\ Outside(t)
    /\ qlist[t] # "none"
    /\ qret' = [qret EXCEPT ![t] = "unregister"]
    /\ qgoto(t, "off_store")
    /\ UNCHANGED <<qbits, qgp, qfutex, qctr, waiting, qtmp, qlist, qlvars, qcs, qpre>>

OfflineStore(t) ==
    /\ qpc[t] = "off_store"
    /\ qctr' = [qctr EXCEPT ![t] = 0]
    /\ qgoto(t, "wake_flag")
    /\ UNCHANGED <<qbits, qgp, qfutex, waiting, qret, qtmp, qlist, qlvars, qcs, qpre>>

(* wake_up_gp(): the thread's own flag first, cleared before the futex is  *)
(* looked at ...                                                           *)
wake_up_gp_qsbr(t) ==
    /\ qpc[t] = "wake_flag"
    /\ IF waiting[t] THEN qgoto(t, "wake_clear") /\ qret' = qret
                     ELSE qreturn(t)
    /\ UNCHANGED <<qbits, qgp, qfutex, qctr, waiting, qtmp, qlist, qlvars, qcs, qpre>>

ClearWaiting(t) ==
    /\ qpc[t] = "wake_clear"
    /\ waiting' = [waiting EXCEPT ![t] = FALSE]
    /\ qgoto(t, "wake_test")
    /\ UNCHANGED <<qbits, qgp, qfutex, qctr, qret, qtmp, qlist, qlvars, qcs, qpre>>

WakeTestFutex(t) ==
    /\ qpc[t] = "wake_test"
    /\ IF qfutex = -1 THEN qgoto(t, "wake_set") /\ qret' = qret
                      ELSE qreturn(t)
    /\ UNCHANGED <<qbits, qgp, qfutex, qctr, waiting, qtmp, qlist, qlvars, qcs, qpre>>

WakeSetFutex(t) ==
    /\ qpc[t] = "wake_set"
    /\ qfutex' = 0
    /\ qgoto(t, "wake_futex")
    /\ UNCHANGED <<qbits, qgp, qctr, waiting, qret, qtmp, qlist, qlvars, qcs, qpre>>

(* ... FUTEX_WAKE.                                                         *)
WakeLeader(t) ==
    /\ qpc[t] = "wake_futex"
    /\ qupc' = IF qupc = "asleep" THEN "relock" ELSE qupc
    /\ qreturn(t)
    /\ UNCHANGED <<qbits, qgp, qfutex, qctr, waiting, qtmp, qlist,
                   qlock, caller, qpass, qloops, qscan, qcs, qpre>>

(* The end of rcu_unregister_thread(): the node leaves its list.           *)
Unregister(t) ==
    /\ qpc[t] = "unregister"
    /\ ~ qlock
    /\ qlist' = [qlist EXCEPT ![t] = "none"]
    /\ qgoto(t, "ready")
    /\ UNCHANGED <<qbits, qgp, qfutex, qctr, waiting, qret, qtmp, qlvars, qcs, qpre>>

-----------------------------------------------------------------------------
(* The leader.                                                             *)

QOnList(l) == {t \in QThreads : qlist[t] = l}

(* QMaxCtr bounds the grace periods that are looked at on 64 bits.         *)
CtrLeft == qbits = 64 => qgp < QMaxCtr

(* A call by an online reader takes it offline first, so that it does not  *)
(* wait for itself.                                                        *)
SynchronizeOnline(t) ==
    /\ qupc = "idle"
    /\ CtrLeft
    /\ Outside(t)
    /\ qctr[t] # 0
    /\ caller' = t
    /\ qupc' = "offline"
    /\ qret' = [qret EXCEPT ![t] = "sync"]
    /\ qgoto(t, "off_store")
    /\ UNCHANGED <<qbits, qgp, qfutex, qctr, waiting, qtmp, qlist,
                   qlock, qpass, qloops, qscan, qcs, qpre>>

(* The grace period begins when the leader has moved the waiters to its    *)
(* own queue.                                                              *)
BeginOffline ==
    /\ qupc = "offline"
    /\ qpc[caller] = "sync"
    /\ qupc' = "lock"
    /\ qpre' = qcs
    /\ UNCHANGED <<qbits, qgp, qfutex, qrvars, qlist,
                   qlock, caller, qpass, qloops, qscan, qcs>>

(* A call by a thread that is not online, or not a reader at all.          *)
synchronize_rcu_qsbr ==
    /\ qupc = "idle"
    /\ CtrLeft
    /\ qupc' = "lock"
    /\ qpre' = qcs
    /\ UNCHANGED <<qbits, qgp, qfutex, qrvars, qlist,
                   qlock, caller, qpass, qloops, qscan, qcs>>

QLockRegistry ==
    /\ qupc = "lock"
    /\ qlock' = TRUE
    /\ qupc' = IF QOnList("registry") = {} THEN "out"
               ELSE IF qbits = 32 THEN "iterate" ELSE "increment"
    /\ UNCHANGED <<qbits, qgp, qfutex, qrvars, qlist,
                   caller, qpass, qloops, qscan, qcs, qpre>>

(* 64 bits: rcu_gp.ctr += RCU_GP_CTR, before the only pass.                *)
IncrementCtr ==
    /\ qupc = "increment"
    /\ qgp' = qgp + 1
    /\ qpass' = 2
    /\ qupc' = "iterate"
    /\ UNCHANGED <<qbits, qfutex, qrvars, qlist,
                   qlock, caller, qloops, qscan, qcs, qpre>>

(* The registry in the first pass of 32 bits and the only one of 64, the   *)
(* readers that were set aside in the second of 32.                        *)
QInputReaders == IF qpass = 2 /\ qbits = 32 THEN "cur_snap" ELSE "registry"
QSleepNow == qloops >= QQsAttempts

QCountLoop == IF qloops < QQsAttempts THEN qloops + 1 ELSE qloops

(* An iteration of wait_for_readers().  Before it sleeps, the leader arms  *)
(* the futex and then flags every reader it waits for.                     *)
QIterate ==
    /\ qupc = "iterate"
    /\ qloops' = QCountLoop
    /\ IF qloops' >= QQsAttempts
       THEN qfutex' = -1     /\ qupc' = "set_waiting"
       ELSE qfutex' = qfutex /\ qupc' = "scan"
    /\ qscan' = QOnList(QInputReaders)
    /\ UNCHANGED <<qbits, qgp, qrvars, qlist, qlock, caller, qpass, qcs, qpre>>

SetWaiting(t) ==
    /\ qupc = "set_waiting"
    /\ t \in qscan
    /\ qscan' = qscan \ {t}
    /\ waiting' = [waiting EXCEPT ![t] = TRUE]
    /\ UNCHANGED <<qbits, qgp, qfutex, qctr, qpc, qret, qtmp, qlist,
                   qlock, caller, qupc, qpass, qloops, qcs, qpre>>

WaitingSet ==
    /\ qupc = "set_waiting"
    /\ qscan = {}
    /\ qscan' = QOnList(QInputReaders)
    /\ qupc' = "scan"
    /\ UNCHANGED <<qbits, qgp, qfutex, qrvars, qlist,
                   qlock, caller, qpass, qloops, qcs, qpre>>

rcu_reader_state_qsbr(t) ==
    CASE qctr[t] = 0                    -> "INACTIVE"
      [] qctr[t] = qgp                  -> "ACTIVE_CURRENT"
      [] qctr[t] # 0 /\ qctr[t] # qgp   -> "ACTIVE_OLD"

QScanReader(t) ==
    /\ qupc = "scan"
    /\ t \in qscan
    /\ qscan' = qscan \ {t}
    /\ qlist' = [qlist EXCEPT ![t] =
                   CASE rcu_reader_state_qsbr(t) = "INACTIVE"       -> "qs"
                     [] rcu_reader_state_qsbr(t) = "ACTIVE_CURRENT" ->
                          IF qpass = 1 THEN "cur_snap" ELSE "qs"
                     [] rcu_reader_state_qsbr(t) = "ACTIVE_OLD"     -> @]
    /\ UNCHANGED <<qbits, qgp, qfutex, qrvars,
                   qlock, caller, qupc, qpass, qloops, qcs, qpre>>

(* Mutant: the 32-bit code without its second pass.                        *)
OnePassOnly == "splice"

QAfterPass == IF qpass = 1 THEN "flip" ELSE "splice"

(* Nobody left: the futex is disarmed and the pass is over.  Otherwise the *)
(* registry lock is released until the next iteration.                     *)
QScanDone ==
    /\ qupc = "scan"
    /\ qscan = {}
    /\ IF QOnList(QInputReaders) = {}
       THEN /\ qupc' = QAfterPass
            /\ qfutex' = IF QSleepNow THEN 0 ELSE qfutex
       ELSE /\ qupc' = "unlock"
            /\ qfutex' = qfutex
    /\ UNCHANGED <<qbits, qgp, qrvars, qlist,
                   qlock, caller, qpass, qloops, qscan, qcs, qpre>>

QUnlockRegistry ==
    /\ qupc = "unlock"
    /\ qlock' = FALSE
    /\ qupc' = IF QSleepNow THEN "test_futex" ELSE "relock"
    /\ UNCHANGED <<qbits, qgp, qfutex, qrvars, qlist,
                   caller, qpass, qloops, qscan, qcs, qpre>>

wait_gp_qsbr ==
    /\ qupc = "test_futex"
    /\ qupc' = IF qfutex = -1 THEN "futex_wait" ELSE "relock"
    /\ UNCHANGED <<qbits, qgp, qfutex, qrvars, qlist,
                   qlock, caller, qpass, qloops, qscan, qcs, qpre>>

(* Mutant: sleeps whatever the futex holds by now.                         *)
QWaitUnconditionally ==
    /\ qupc = "futex_wait"
    /\ qupc' = "asleep"
    /\ UNCHANGED <<qbits, qgp, qfutex, qrvars, qlist,
                   qlock, caller, qpass, qloops, qscan, qcs, qpre>>

(* FUTEX_WAIT sleeps if the value is still -1, EWOULDBLOCK otherwise.      *)
QFutexWait ==
    /\ qupc = "futex_wait"
    /\ qupc' = IF qfutex = -1 THEN "asleep" ELSE "relock"
    /\ UNCHANGED <<qbits, qgp, qfutex, qrvars, qlist,
                   qlock, caller, qpass, qloops, qscan, qcs, qpre>>

(* EINTR: FUTEX_WAIT is called again; or it returns 0 for no reason.       *)
QSpuriousWakeup ==
    /\ qupc = "asleep"
    /\ qupc' \in {"futex_wait", "relock"}
    /\ UNCHANGED <<qbits, qgp, qfutex, qrvars, qlist,
                   qlock, caller, qpass, qloops, qscan, qcs, qpre>>

QRelockRegistry ==
    /\ qupc = "relock"
    /\ qlock' = TRUE
    /\ qupc' = "iterate"
    /\ UNCHANGED <<qbits, qgp, qfutex, qrvars, qlist,
                   caller, qpass, qloops, qscan, qcs, qpre>>

(* 32 bits: switch parity between the passes.                              *)
FlipParity ==
    /\ qupc = "flip"
    /\ qgp' = 3 - qgp
    /\ qpass' = 2
    /\ qloops' = 0
    /\ qupc' = "iterate"
    /\ UNCHANGED <<qbits, qfutex, qrvars, qlist, qlock, caller, qscan, qcs, qpre>>

QSplice ==
    /\ qupc = "splice"
    /\ qlist' = [t \in QThreads |-> IF qlist[t] = "qs" THEN "registry" ELSE qlist[t]]
    /\ qupc' = "out"
    /\ UNCHANGED <<qbits, qgp, qfutex, qrvars,
                   qlock, caller, qpass, qloops, qscan, qcs, qpre>>

(* Both locks are released; a caller that was online goes online again.    *)
QSynchronizeReturn ==
    /\ qupc = "out"
    /\ qlock' = FALSE
    /\ qupc' = "idle"
    /\ qpass' = 1
    /\ qloops' = 0
    /\ caller' = "other"
    /\ qpc' = [t \in QThreads |-> IF t = caller THEN "on_load" ELSE qpc[t]]
    /\ UNCHANGED <<qbits, qgp, qfutex, qctr, waiting, qret, qtmp, qlist,
                   qscan, qcs, qpre>>

-----------------------------------------------------------------------------
QReaderStep(t) ==
    \/ OnlineLoad(t) \/ OnlineStore(t) \/ QuiescentStore(t) \/ OfflineStore(t)
    \/ wake_up_gp_qsbr(t) \/ ClearWaiting(t) \/ WakeTestFutex(t)
    \/ WakeSetFutex(t) \/ WakeLeader(t) \/ Unregister(t)

QReaderCall(t) ==
    \/ rcu_read_lock_qsbr(t) \/ rcu_read_unlock_qsbr(t)
    \/ rcu_register_thread_qsbr(t) \/ rcu_unregister_thread_qsbr(t)
    \/ rcu_quiescent_state(t) \/ rcu_thread_online(t) \/ rcu_thread_offline(t)

QLeaderStep ==
    \/ BeginOffline \/ QLockRegistry \/ IncrementCtr \/ QIterate
    \/ (\E t \in QThreads : SetWaiting(t) \/ QScanReader(t))
    \/ WaitingSet \/ QScanDone \/ QUnlockRegistry \/ wait_gp_qsbr \/ QFutexWait
    \/ QRelockRegistry \/ FlipParity \/ QSplice \/ QSynchronizeReturn

QsbrNext ==
    \/ \E t \in QThreads : QReaderStep(t) \/ QReaderCall(t) \/ SynchronizeOnline(t)
    \/ synchronize_rcu_qsbr \/ QLeaderStep \/ QSpuriousWakeup

QsbrSpec == QsbrInit /\ [][QsbrNext]_qvars

(* A thread inside a call goes on, sections end, and an online thread      *)
(* reports a quiescent state from time to time, as the API demands of it.  *)
(* Nothing is demanded of one that is offline: it may stay so for good.    *)
QsbrFairness ==
    /\ WF_qvars(QLeaderStep)
    /\ \A t \in QThreads : /\ WF_qvars(QReaderStep(t))
                           /\ WF_qvars(rcu_read_unlock_qsbr(t))
                           /\ SF_qvars(qctr[t] # 0 /\ rcu_quiescent_state(t))

QsbrFairSpec == QsbrSpec /\ QsbrFairness

-----------------------------------------------------------------------------
(* The promise: synchronize_rcu() returns only when every section that ran *)
(* when the grace period began has ended, on 32 and on 64 bits, whoever    *)
(* goes online or registers meanwhile.                                     *)
QGP == INSTANCE GracePeriod WITH
         Readers  <- QThreads,
         Updaters <- {"leader"},
         cs       <- qcs,
         pre      <- [u \in {"leader"} |-> qpre],
         sync     <- [u \in {"leader"} |-> qupc \notin {"idle", "offline"}]
QsbrImplementsGracePeriod == QGP!GPSpec

(* A grace period ends as long as the online threads report quiescent      *)
(* states, however they come and go.                                       *)
QsbrSynchronizeReturns == (qupc = "lock") ~> (qupc = "idle")

=============================================================================
