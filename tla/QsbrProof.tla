------------------------------ MODULE QsbrProof ------------------------------
(***************************************************************************)
(* Proof that liburcu-qsbr (module Qsbr) implements GracePeriod, for any   *)
(* set of threads, for both sizes of a long and any number of scans before *)
(* the leader sleeps.                                                      *)
(*                                                                         *)
(* The argument.  Inside a section a thread is registered and online, and  *)
(* it does not store to its counter.  On 64 bits a thread that was inside  *)
(* one when the grace period began has a counter older than the value that *)
(* the leader writes to rcu_gp.ctr, so it is never taken for quiescent.    *)
(* On 32 bits the counters only show a parity, which may be the current    *)
(* one: the first pass sets such a thread aside, and after the change of   *)
(* parity the second pass waits for it.                                    *)
(***************************************************************************)
EXTENDS Qsbr, TLAPS

-----------------------------------------------------------------------------
(* The inductive invariant.                                                *)

QWakePC == {"wake_flag", "wake_clear", "wake_test", "wake_set", "wake_futex"}
QThreadPC == {"ready", "on_load", "on_store", "qs_store", "off_store", "unregister",
              "sync"} \cup QWakePC
QUnlocked == {"idle", "offline", "lock", "test_futex", "futex_wait", "asleep", "relock"}
QLeaderPC == {"increment", "iterate", "set_waiting", "scan", "unlock", "flip", "splice",
              "out"} \cup QUnlocked

QTypeOK ==
    /\ qbits \in {32, 64}
    /\ qgp \in Nat \ {0}
    /\ qfutex \in {-1, 0}
    /\ qctr \in [QThreads -> Nat]
    /\ waiting \in [QThreads -> BOOLEAN]
    /\ qpc \in [QThreads -> QThreadPC]
    /\ qret \in [QThreads -> {"ready", "unregister", "sync"}]
    /\ qtmp \in [QThreads -> Nat]
    /\ qlist \in [QThreads -> {"none", "registry", "cur_snap", "qs"}]
    /\ qlock \in BOOLEAN
    /\ caller \in QThreads \cup {"other"}
    /\ qupc \in QLeaderPC
    /\ qpass \in {1, 2}
    /\ qloops \in 0 .. QQsAttempts
    /\ qscan \subseteq QThreads
    /\ qcs \subseteq QThreads
    /\ qpre \subseteq QThreads

(* No counter is ahead of rcu_gp.ctr; on 32 bits it is a parity.           *)
QCounters ==
    /\ qbits = 64 => \A t \in QThreads : qctr[t] <= qgp /\ qtmp[t] <= qgp
    /\ qbits = 32 =>
          qgp \in {1, 2} /\ \A t \in QThreads : qctr[t] \in 0 .. 2 /\ qtmp[t] \in 0 .. 2

(* A thread inside a section is online and executes nothing of the         *)
(* library; an online thread, and one inside a call, is registered; one    *)
(* that unregisters, or waits for a grace period, has gone offline.        *)
QThreadStates ==
    /\ qpre \subseteq qcs
    /\ \A t \in qcs : qpc[t] = "ready" /\ qctr[t] # 0
    /\ \A t \in QThreads :
          /\ qctr[t] # 0 \/ qpc[t] # "ready" => qlist[t] # "none"
          /\ qret[t] # "ready" => qpc[t] \in QWakePC \cup {"off_store"}
          /\ qret[t] # "ready" /\ qpc[t] \in QWakePC => qctr[t] = 0
          /\ qpc[t] \in {"unregister", "sync"} => qctr[t] = 0

(* The caller is where synchronize_rcu() left it.                          *)
QCaller ==
    /\ qupc = "idle" => caller = "other"
    /\ caller # "other" /\ qupc # "offline" => qpc[caller] = "sync"
    /\ \A t \in QThreads : qpc[t] = "sync" \/ qret[t] = "sync" => caller = t
    /\ qupc = "offline" =>
          caller # "other" /\ (qpc[caller] = "sync" \/ qret[caller] = "sync")

(* The leader's locks, passes and lists.                                   *)
QControl ==
    /\ qlock <=> qupc \notin QUnlocked
    /\ qupc \in {"idle", "offline", "lock", "increment", "flip"} => qpass = 1
    /\ qupc = "splice" => qpass = 2
    /\ qupc = "increment" => qbits = 64
    /\ qbits = 64 /\ qupc \notin {"idle", "offline", "lock", "increment", "out"} => qpass = 2

QSettled ==
    /\ qupc \in {"idle", "offline", "lock", "increment", "out"} =>
          \A t \in QThreads : qlist[t] \in {"none", "registry"}
    /\ qbits = 64 => \A t \in QThreads : qlist[t] # "cur_snap"
    /\ qupc \in {"flip", "splice"} => \A t \in QThreads : qlist[t] # QInputReaders
    /\ qupc \in {"set_waiting", "scan"} => \A t \in qscan : qlist[t] = QInputReaders

(* The threads that the grace period waits for.                            *)
QAwaited(t) ==
    \/ qpass = 1 /\ qlist[t] = "registry"
    \/ qpass = 1 /\ qlist[t] = "cur_snap" /\ qctr[t] = qgp
    \/ qpass = 2 /\ qlist[t] = QInputReaders /\ qctr[t] # qgp

QPreAwaited ==
    /\ qupc \notin {"idle", "offline", "out"} => \A t \in qpre : QAwaited(t)
    /\ qupc = "out" => qpre = {}

QIInv ==
    /\ QTypeOK
    /\ QCounters
    /\ QThreadStates
    /\ QCaller
    /\ QControl
    /\ QSettled
    /\ QPreAwaited
-----------------------------------------------------------------------------
(* Nobody is registered and no grace period runs.                          *)
LEMMA QInitIInv == QsbrInit => QIInv
<1> SUFFICES ASSUME QsbrInit PROVE QIInv
  OBVIOUS
<1>1. QTypeOK
  <2>1. 0 \in 0 .. QQsAttempts
    BY QsbrAssumption
  <2>2. qbits \in {32, 64} /\ qgp \in Nat \ {0} /\ qfutex \in {-1, 0} /\ qpass \in {1, 2}
    BY QsbrAssumption DEF QsbrInit
  <2>3. qctr \in [QThreads -> Nat] /\ qtmp \in [QThreads -> Nat]
    BY DEF QsbrInit
  <2> QED BY <2>1, <2>2, <2>3 DEF QsbrInit, QTypeOK, QThreadPC, QLeaderPC, QUnlocked
<1>2. QCounters /\ QThreadStates /\ QCaller
  BY QsbrAssumption DEF QsbrInit, QCounters, QThreadStates, QCaller
<1>3. QControl /\ QSettled /\ QPreAwaited
  BY DEF QsbrInit, QControl, QSettled, QPreAwaited, QUnlocked
<1> QED BY <1>1, <1>2, <1>3 DEF QIInv

(* A step of a thread.  Inside a section it takes none but the one that    *)
(* ends the section, so the threads that are waited for stay where the     *)
(* leader has put them.                                                    *)
LEMMA QThreadPreserves ==
    ASSUME QIInv, NEW t \in QThreads,
           QReaderStep(t) \/ QReaderCall(t) \/ SynchronizeOnline(t)
    PROVE  QIInv'
<1> USE DEF QWakePC, QThreadPC, QUnlocked, QLeaderPC
<1>1. CASE rcu_read_lock_qsbr(t)
  <2>1. QTypeOK'
    BY <1>1 DEF QIInv, QTypeOK, rcu_read_lock_qsbr, qrvars, qlvars
  <2>2. (QCounters /\ QThreadStates /\ QCaller)'
    BY <1>1 DEF QIInv, QCounters, QThreadStates, QCaller, rcu_read_lock_qsbr,
       qrvars, qlvars
  <2>3. (QControl /\ QSettled /\ QPreAwaited)'
    BY <1>1 DEF QIInv, QControl, QSettled, QPreAwaited, QAwaited,
       QInputReaders, rcu_read_lock_qsbr, qrvars, qlvars
  <2> QED BY <2>1, <2>2, <2>3 DEF QIInv
<1>2. CASE rcu_read_unlock_qsbr(t)
  <2>1. QTypeOK'
    BY <1>2 DEF QIInv, QTypeOK, rcu_read_unlock_qsbr, qrvars, qlvars
  <2>2. (QCounters /\ QThreadStates /\ QCaller)'
    BY <1>2 DEF QIInv, QCounters, QThreadStates, QCaller,
       rcu_read_unlock_qsbr, qrvars, qlvars
  <2>3. (QControl /\ QSettled /\ QPreAwaited)'
    BY <1>2 DEF QIInv, QControl, QSettled, QPreAwaited, QAwaited,
       QInputReaders, rcu_read_unlock_qsbr, qrvars, qlvars
  <2> QED BY <2>1, <2>2, <2>3 DEF QIInv
<1>3. CASE rcu_register_thread_qsbr(t)
  <2>1. QTypeOK'
    BY <1>3 DEF QIInv, QTypeOK, rcu_register_thread_qsbr, qgoto, qlvars
  <2>2. (QCounters /\ QThreadStates /\ QCaller)'
    BY <1>3 DEF QIInv, QTypeOK, QCounters, QThreadStates, QCaller,
       rcu_register_thread_qsbr, qgoto, qlvars
  <2>3. (QControl /\ QSettled /\ QPreAwaited)'
    BY <1>3 DEF QIInv, QControl, QSettled, QPreAwaited, QAwaited,
       QInputReaders, rcu_register_thread_qsbr, qlvars
  <2> QED BY <2>1, <2>2, <2>3 DEF QIInv
<1>4. CASE rcu_unregister_thread_qsbr(t)
  <2>1. QTypeOK'
    BY <1>4 DEF QIInv, QTypeOK, rcu_unregister_thread_qsbr, qgoto, qlvars
  <2>2. (QCounters /\ QThreadStates /\ QCaller)'
    BY <1>4 DEF QIInv, QTypeOK, QCounters, QThreadStates, QCaller,
       rcu_unregister_thread_qsbr, qgoto, Outside, qlvars
  <2>3. (QControl /\ QSettled /\ QPreAwaited)'
    BY <1>4 DEF QIInv, QControl, QSettled, QPreAwaited, QAwaited,
       QInputReaders, rcu_unregister_thread_qsbr, qlvars
  <2> QED BY <2>1, <2>2, <2>3 DEF QIInv
<1>5. CASE rcu_quiescent_state(t)
  <2>1. QTypeOK'
    BY <1>5 DEF QIInv, QTypeOK, rcu_quiescent_state, qgoto, qlvars
  <2>2. (QCounters /\ QThreadStates /\ QCaller)'
    BY <1>5 DEF QIInv, QTypeOK, QCounters, QThreadStates, QCaller,
       rcu_quiescent_state, qgoto, Outside, qlvars
  <2>3. (QControl /\ QSettled /\ QPreAwaited)'
    BY <1>5 DEF QIInv, QControl, QSettled, QPreAwaited, QAwaited,
       QInputReaders, rcu_quiescent_state, qlvars
  <2> QED BY <2>1, <2>2, <2>3 DEF QIInv
<1>6. CASE rcu_thread_online(t)
  <2>1. QTypeOK'
    BY <1>6 DEF QIInv, QTypeOK, rcu_thread_online, qgoto, qlvars
  <2>2. (QCounters /\ QThreadStates /\ QCaller)'
    BY <1>6 DEF QIInv, QCounters, QThreadStates, QCaller, rcu_thread_online,
       qgoto, Outside, qlvars
  <2>3. (QControl /\ QSettled /\ QPreAwaited)'
    BY <1>6 DEF QIInv, QControl, QSettled, QPreAwaited, QAwaited,
       QInputReaders, rcu_thread_online, qlvars
  <2> QED BY <2>1, <2>2, <2>3 DEF QIInv
<1>7. CASE rcu_thread_offline(t)
  <2>1. QTypeOK'
    BY <1>7 DEF QIInv, QTypeOK, rcu_thread_offline, qgoto, qlvars
  <2>2. (QCounters /\ QThreadStates /\ QCaller)'
    BY <1>7 DEF QIInv, QCounters, QThreadStates, QCaller, rcu_thread_offline,
       qgoto, Outside, qlvars
  <2>3. (QControl /\ QSettled /\ QPreAwaited)'
    BY <1>7 DEF QIInv, QControl, QSettled, QPreAwaited, QAwaited,
       QInputReaders, rcu_thread_offline, qlvars
  <2> QED BY <2>1, <2>2, <2>3 DEF QIInv
<1>8. CASE OnlineLoad(t)
  <2>1. QTypeOK'
    BY <1>8 DEF QIInv, QTypeOK, OnlineLoad, qgoto, qlvars
  <2>2. (QCounters /\ QThreadStates /\ QCaller)'
    BY <1>8 DEF QIInv, QTypeOK, QCounters, QThreadStates, QCaller, OnlineLoad,
       qgoto, qlvars
  <2>3. (QControl /\ QSettled /\ QPreAwaited)'
    BY <1>8 DEF QIInv, QControl, QSettled, QPreAwaited, QAwaited,
       QInputReaders, OnlineLoad, qlvars
  <2> QED BY <2>1, <2>2, <2>3 DEF QIInv
<1>9. CASE OnlineStore(t)
  <2>1. QTypeOK'
    BY <1>9 DEF QIInv, QTypeOK, OnlineStore, qgoto, qlvars
  <2>2. (QCounters /\ QThreadStates /\ QCaller)'
    BY <1>9 DEF QIInv, QTypeOK, QCounters, QThreadStates, QCaller,
       OnlineStore, qgoto, qlvars
  <2>3. (QControl /\ QSettled /\ QPreAwaited)'
    BY <1>9 DEF QIInv, QThreadStates, QControl, QSettled, QPreAwaited,
       QAwaited, QInputReaders, OnlineStore, qlvars
  <2> QED BY <2>1, <2>2, <2>3 DEF QIInv
<1>10. CASE QuiescentStore(t)
  <2>1. QTypeOK'
    BY <1>10 DEF QIInv, QTypeOK, QuiescentStore, qgoto, qlvars
  <2>2. (QCounters /\ QThreadStates /\ QCaller)'
    BY <1>10 DEF QIInv, QTypeOK, QCounters, QThreadStates, QCaller,
       QuiescentStore, qgoto, qlvars
  <2>3. (QControl /\ QSettled /\ QPreAwaited)'
    BY <1>10 DEF QIInv, QThreadStates, QControl, QSettled, QPreAwaited,
       QAwaited, QInputReaders, QuiescentStore, qlvars
  <2> QED BY <2>1, <2>2, <2>3 DEF QIInv
<1>11. CASE OfflineStore(t)
  <2>1. QTypeOK'
    BY <1>11 DEF QIInv, QTypeOK, OfflineStore, qgoto, qlvars
  <2>2. (QCounters /\ QThreadStates /\ QCaller)'
    BY <1>11 DEF QIInv, QTypeOK, QCounters, QThreadStates, QCaller,
       OfflineStore, qgoto, qlvars
  <2>3. (QControl /\ QSettled /\ QPreAwaited)'
    BY <1>11 DEF QIInv, QThreadStates, QControl, QSettled, QPreAwaited,
       QAwaited, QInputReaders, OfflineStore, qlvars
  <2> QED BY <2>1, <2>2, <2>3 DEF QIInv
<1>12. CASE wake_up_gp_qsbr(t)
  <2>1. QTypeOK'
    BY <1>12 DEF QIInv, QTypeOK, wake_up_gp_qsbr, qgoto, qreturn, qlvars
  <2>2. (QCounters /\ QThreadStates /\ QCaller)'
    BY <1>12 DEF QIInv, QTypeOK, QCounters, QThreadStates, QCaller,
       wake_up_gp_qsbr, qgoto, qreturn, qlvars
  <2>3. (QControl /\ QSettled /\ QPreAwaited)'
    BY <1>12 DEF QIInv, QControl, QSettled, QPreAwaited, QAwaited,
       QInputReaders, wake_up_gp_qsbr, qlvars
  <2> QED BY <2>1, <2>2, <2>3 DEF QIInv
<1>13. CASE ClearWaiting(t)
  <2>1. QTypeOK'
    BY <1>13 DEF QIInv, QTypeOK, ClearWaiting, qgoto, qlvars
  <2>2. (QCounters /\ QThreadStates /\ QCaller)'
    BY <1>13 DEF QIInv, QCounters, QThreadStates, QCaller, ClearWaiting,
       qgoto, qlvars
  <2>3. (QControl /\ QSettled /\ QPreAwaited)'
    BY <1>13 DEF QIInv, QControl, QSettled, QPreAwaited, QAwaited,
       QInputReaders, ClearWaiting, qlvars
  <2> QED BY <2>1, <2>2, <2>3 DEF QIInv
<1>14. CASE WakeTestFutex(t)
  <2>1. QTypeOK'
    BY <1>14 DEF QIInv, QTypeOK, WakeTestFutex, qgoto, qreturn, qlvars
  <2>2. (QCounters /\ QThreadStates /\ QCaller)'
    BY <1>14 DEF QIInv, QTypeOK, QCounters, QThreadStates, QCaller,
       WakeTestFutex, qgoto, qreturn, qlvars
  <2>3. (QControl /\ QSettled /\ QPreAwaited)'
    BY <1>14 DEF QIInv, QControl, QSettled, QPreAwaited, QAwaited,
       QInputReaders, WakeTestFutex, qlvars
  <2> QED BY <2>1, <2>2, <2>3 DEF QIInv
<1>15. CASE WakeSetFutex(t)
  <2>1. QTypeOK'
    BY <1>15 DEF QIInv, QTypeOK, WakeSetFutex, qgoto, qlvars
  <2>2. (QCounters /\ QThreadStates /\ QCaller)'
    BY <1>15 DEF QIInv, QCounters, QThreadStates, QCaller, WakeSetFutex,
       qgoto, qlvars
  <2>3. (QControl /\ QSettled /\ QPreAwaited)'
    BY <1>15 DEF QIInv, QControl, QSettled, QPreAwaited, QAwaited,
       QInputReaders, WakeSetFutex, qlvars
  <2> QED BY <2>1, <2>2, <2>3 DEF QIInv
<1>16. CASE WakeLeader(t)
  <2>1. QTypeOK'
    BY <1>16 DEF QIInv, QTypeOK, WakeLeader, qgoto, qreturn
  <2>2. (QCounters /\ QThreadStates /\ QCaller)'
    BY <1>16 DEF QIInv, QTypeOK, QCounters, QThreadStates, QCaller,
       WakeLeader, qgoto, qreturn
  <2>3. (QControl /\ QSettled /\ QPreAwaited)'
    BY <1>16 DEF QIInv, QControl, QSettled, QPreAwaited, QAwaited,
       QInputReaders, WakeLeader
  <2> QED BY <2>1, <2>2, <2>3 DEF QIInv
<1>17. CASE Unregister(t)
  <2>1. QTypeOK'
    BY <1>17 DEF QIInv, QTypeOK, Unregister, qgoto, qlvars
  <2>2. (QCounters /\ QThreadStates /\ QCaller)'
    BY <1>17 DEF QIInv, QTypeOK, QCounters, QThreadStates, QCaller,
       Unregister, qgoto, qlvars
  <2>3. (QControl /\ QSettled /\ QPreAwaited)'
    BY <1>17 DEF QIInv, QThreadStates, QControl, QSettled, QPreAwaited,
       QAwaited, QInputReaders, Unregister, qlvars
  <2> QED BY <2>1, <2>2, <2>3 DEF QIInv
<1>18. CASE SynchronizeOnline(t)
  <2>1. QTypeOK'
    BY <1>18 DEF QIInv, QTypeOK, SynchronizeOnline, qgoto
  <2>2. (QCounters /\ QThreadStates /\ QCaller)'
    BY <1>18, QsbrAssumption DEF QIInv, QTypeOK, QCounters, QThreadStates,
       QCaller, SynchronizeOnline, qgoto, Outside
  <2>3. (QControl /\ QSettled /\ QPreAwaited)'
    BY <1>18 DEF QIInv, QControl, QSettled, QPreAwaited, SynchronizeOnline
  <2> QED BY <2>1, <2>2, <2>3 DEF QIInv
<1> QED
  BY <1>1, <1>2, <1>3, <1>4, <1>5, <1>6, <1>7, <1>8, <1>9, <1>10, <1>11,
     <1>12, <1>13, <1>14, <1>15, <1>16, <1>17, <1>18 DEF QReaderStep,
     QReaderCall

(* A step of the leader.  An awaited thread is online with a counter that  *)
(* is not the one the pass lets go of, so no scan takes it off the list    *)
(* that the last pass waits for.                                           *)
LEMMA QLeaderPreserves ==
    ASSUME QIInv,
           synchronize_rcu_qsbr \/ QLeaderStep \/ QSpuriousWakeup
    PROVE  QIInv'
<1> USE DEF QWakePC, QThreadPC, QUnlocked, QLeaderPC
<1>1. CASE synchronize_rcu_qsbr
  <2>1. QTypeOK'
    BY <1>1 DEF QIInv, QTypeOK, synchronize_rcu_qsbr, qrvars
  <2>2. (QCounters /\ QThreadStates /\ QCaller)'
    BY <1>1 DEF QIInv, QCounters, QThreadStates, QCaller,
       synchronize_rcu_qsbr, qrvars
  <2>3. (QControl /\ QSettled /\ QPreAwaited)'
    BY <1>1 DEF QIInv, QTypeOK, QThreadStates, QControl, QSettled,
       QPreAwaited, QAwaited, synchronize_rcu_qsbr
  <2> QED BY <2>1, <2>2, <2>3 DEF QIInv
<1>2. CASE BeginOffline
  <2>1. QTypeOK'
    BY <1>2 DEF QIInv, QTypeOK, BeginOffline, qrvars
  <2>2. (QCounters /\ QThreadStates /\ QCaller)'
    BY <1>2 DEF QIInv, QCounters, QThreadStates, QCaller, BeginOffline, qrvars
  <2>3. (QControl /\ QSettled /\ QPreAwaited)'
    BY <1>2 DEF QIInv, QTypeOK, QThreadStates, QControl, QSettled,
       QPreAwaited, QAwaited, BeginOffline
  <2> QED BY <2>1, <2>2, <2>3 DEF QIInv
<1>3. CASE QLockRegistry
  <2>1. QTypeOK'
    BY <1>3 DEF QIInv, QTypeOK, QLockRegistry, qrvars
  <2>2. (QCounters /\ QThreadStates /\ QCaller)'
    BY <1>3 DEF QIInv, QCounters, QThreadStates, QCaller, QLockRegistry,
       qrvars
  <2>3. (QControl /\ QSettled /\ QPreAwaited)'
    BY <1>3 DEF QIInv, QTypeOK, QControl, QSettled, QPreAwaited, QAwaited,
       QLockRegistry, QOnList
  <2> QED BY <2>1, <2>2, <2>3 DEF QIInv
<1>4. CASE IncrementCtr
  <2>1. QTypeOK'
    BY <1>4 DEF QIInv, QTypeOK, IncrementCtr, qrvars
  <2>2. (QCounters /\ QThreadStates /\ QCaller)'
    BY <1>4 DEF QIInv, QTypeOK, QCounters, QThreadStates, QCaller, QControl,
       IncrementCtr, qrvars
  <2>3. (QControl /\ QSettled /\ QPreAwaited)'
    BY <1>4 DEF QIInv, QTypeOK, QCounters, QControl, QSettled, QPreAwaited,
       QAwaited, QInputReaders, IncrementCtr, qrvars
  <2> QED BY <2>1, <2>2, <2>3 DEF QIInv
<1>5. CASE QIterate
  <2>1. QTypeOK'
    BY <1>5, QsbrAssumption DEF QIInv, QTypeOK, QIterate, QOnList, QCountLoop,
       qrvars
  <2>2. (QCounters /\ QThreadStates /\ QCaller)'
    BY <1>5 DEF QIInv, QCounters, QThreadStates, QCaller, QIterate, qrvars
  <2>3. (QControl /\ QSettled /\ QPreAwaited)'
    BY <1>5 DEF QIInv, QControl, QSettled, QPreAwaited, QAwaited,
       QInputReaders, QIterate, QOnList, qrvars
  <2> QED BY <2>1, <2>2, <2>3 DEF QIInv
<1>6. ASSUME NEW t \in QThreads, SetWaiting(t) PROVE QIInv'
  <2>1. QTypeOK'
    BY <1>6 DEF QIInv, QTypeOK, SetWaiting
  <2>2. (QCounters /\ QThreadStates /\ QCaller)'
    BY <1>6 DEF QIInv, QCounters, QThreadStates, QCaller, SetWaiting
  <2>3. (QControl /\ QSettled /\ QPreAwaited)'
    BY <1>6 DEF QIInv, QControl, QSettled, QPreAwaited, QAwaited,
       QInputReaders, SetWaiting
  <2> QED BY <2>1, <2>2, <2>3 DEF QIInv
<1>7. ASSUME NEW t \in QThreads, QScanReader(t) PROVE QIInv'
  <2>1. QTypeOK'
    BY <1>7 DEF QIInv, QTypeOK, QScanReader, rcu_reader_state_qsbr, qrvars
  <2>2. (QCounters /\ QThreadStates /\ QCaller)'
    BY <1>7 DEF QIInv, QCounters, QThreadStates, QCaller, QScanReader,
       rcu_reader_state_qsbr, qrvars
  <2>3. (QControl /\ QSettled /\ QPreAwaited)'
    BY <1>7 DEF QIInv, QThreadStates, QControl, QSettled, QPreAwaited,
       QAwaited, QInputReaders, QScanReader, rcu_reader_state_qsbr, qrvars
  <2> QED BY <2>1, <2>2, <2>3 DEF QIInv
<1>8. CASE WaitingSet
  <2>1. QTypeOK'
    BY <1>8 DEF QIInv, QTypeOK, WaitingSet, QOnList, qrvars
  <2>2. (QCounters /\ QThreadStates /\ QCaller)'
    BY <1>8 DEF QIInv, QCounters, QThreadStates, QCaller, WaitingSet, qrvars
  <2>3. (QControl /\ QSettled /\ QPreAwaited)'
    BY <1>8 DEF QIInv, QControl, QSettled, QPreAwaited, QAwaited,
       QInputReaders, WaitingSet, QOnList, qrvars
  <2> QED BY <2>1, <2>2, <2>3 DEF QIInv
<1>9. CASE QScanDone
  <2>1. QTypeOK'
    BY <1>9 DEF QIInv, QTypeOK, QScanDone, QAfterPass, qrvars
  <2>2. (QCounters /\ QThreadStates /\ QCaller)'
    BY <1>9 DEF QIInv, QCounters, QThreadStates, QCaller, QScanDone,
       QAfterPass, qrvars
  <2>3. (QControl /\ QSettled /\ QPreAwaited)'
    BY <1>9 DEF QIInv, QTypeOK, QControl, QSettled, QPreAwaited, QAwaited,
       QInputReaders, QScanDone, QOnList, QAfterPass, qrvars
  <2> QED BY <2>1, <2>2, <2>3 DEF QIInv
<1>10. CASE QUnlockRegistry
  <2>1. QTypeOK'
    BY <1>10, QsbrAssumption DEF QIInv, QTypeOK, QUnlockRegistry, QSleepNow,
       qrvars
  <2>2. (QCounters /\ QThreadStates /\ QCaller)'
    BY <1>10 DEF QIInv, QCounters, QThreadStates, QCaller, QUnlockRegistry,
       qrvars
  <2>3. (QControl /\ QSettled /\ QPreAwaited)'
    BY <1>10 DEF QIInv, QControl, QSettled, QPreAwaited, QAwaited,
       QInputReaders, QUnlockRegistry, qrvars
  <2> QED BY <2>1, <2>2, <2>3 DEF QIInv
<1>11. CASE wait_gp_qsbr
  <2>1. QTypeOK'
    BY <1>11 DEF QIInv, QTypeOK, wait_gp_qsbr, qrvars
  <2>2. (QCounters /\ QThreadStates /\ QCaller)'
    BY <1>11 DEF QIInv, QCounters, QThreadStates, QCaller, wait_gp_qsbr,
       qrvars
  <2>3. (QControl /\ QSettled /\ QPreAwaited)'
    BY <1>11 DEF QIInv, QControl, QSettled, QPreAwaited, QAwaited,
       QInputReaders, wait_gp_qsbr, qrvars
  <2> QED BY <2>1, <2>2, <2>3 DEF QIInv
<1>12. CASE QFutexWait
  <2>1. QTypeOK'
    BY <1>12 DEF QIInv, QTypeOK, QFutexWait, qrvars
  <2>2. (QCounters /\ QThreadStates /\ QCaller)'
    BY <1>12 DEF QIInv, QCounters, QThreadStates, QCaller, QFutexWait, qrvars
  <2>3. (QControl /\ QSettled /\ QPreAwaited)'
    BY <1>12 DEF QIInv, QControl, QSettled, QPreAwaited, QAwaited,
       QInputReaders, QFutexWait, qrvars
  <2> QED BY <2>1, <2>2, <2>3 DEF QIInv
<1>13. CASE QSpuriousWakeup
  <2>1. QTypeOK'
    BY <1>13 DEF QIInv, QTypeOK, QSpuriousWakeup, qrvars
  <2>2. (QCounters /\ QThreadStates /\ QCaller)'
    BY <1>13 DEF QIInv, QCounters, QThreadStates, QCaller, QSpuriousWakeup,
       qrvars
  <2>3. (QControl /\ QSettled /\ QPreAwaited)'
    BY <1>13 DEF QIInv, QControl, QSettled, QPreAwaited, QAwaited,
       QInputReaders, QSpuriousWakeup, qrvars
  <2> QED BY <2>1, <2>2, <2>3 DEF QIInv
<1>14. CASE QRelockRegistry
  <2>1. QTypeOK'
    BY <1>14 DEF QIInv, QTypeOK, QRelockRegistry, qrvars
  <2>2. (QCounters /\ QThreadStates /\ QCaller)'
    BY <1>14 DEF QIInv, QCounters, QThreadStates, QCaller, QRelockRegistry,
       qrvars
  <2>3. (QControl /\ QSettled /\ QPreAwaited)'
    BY <1>14 DEF QIInv, QControl, QSettled, QPreAwaited, QAwaited,
       QInputReaders, QRelockRegistry, qrvars
  <2> QED BY <2>1, <2>2, <2>3 DEF QIInv
<1>15. CASE FlipParity
  <2>1. QTypeOK'
    BY <1>15, QsbrAssumption DEF QIInv, QTypeOK, QCounters, QControl,
       FlipParity, qrvars
  <2>2. (QCounters /\ QThreadStates /\ QCaller)'
    BY <1>15 DEF QIInv, QCounters, QThreadStates, QCaller, QControl,
       FlipParity, qrvars
  <2>3. (QControl /\ QSettled /\ QPreAwaited)'
    BY <1>15 DEF QIInv, QTypeOK, QControl, QSettled, QPreAwaited, QAwaited,
       QInputReaders, FlipParity, qrvars
  <2> QED BY <2>1, <2>2, <2>3 DEF QIInv
<1>16. CASE QSplice
  <2>1. QTypeOK'
    BY <1>16 DEF QIInv, QTypeOK, QSplice, qrvars
  <2>2. (QCounters /\ QThreadStates /\ QCaller)'
    BY <1>16 DEF QIInv, QCounters, QThreadStates, QCaller, QSplice, qrvars
  <2>3. (QControl /\ QSettled /\ QPreAwaited)'
    BY <1>16 DEF QIInv, QTypeOK, QControl, QSettled, QPreAwaited, QAwaited,
       QInputReaders, QSplice
  <2> QED BY <2>1, <2>2, <2>3 DEF QIInv
<1>17. CASE QSynchronizeReturn
  <2>1. QTypeOK'
    <3>1. 0 \in 0 .. QQsAttempts
      BY QsbrAssumption
    <3> QED BY <1>17, <3>1 DEF QIInv, QTypeOK, QSynchronizeReturn
  <2>2. (QCounters /\ QThreadStates /\ QCaller)'
    BY <1>17, QsbrAssumption DEF QIInv, QTypeOK, QCounters, QThreadStates,
       QCaller, QSynchronizeReturn
  <2>3. (QControl /\ QSettled /\ QPreAwaited)'
    BY <1>17 DEF QIInv, QControl, QSettled, QPreAwaited, QSynchronizeReturn
  <2> QED BY <2>1, <2>2, <2>3 DEF QIInv
<1> QED
  BY <1>1, <1>2, <1>3, <1>4, <1>5, <1>6, <1>7, <1>8, <1>9, <1>10, <1>11,
     <1>12, <1>13, <1>14, <1>15, <1>16, <1>17 DEF QLeaderStep

LEMMA QStutterPreserves == QIInv /\ UNCHANGED qvars => QIInv'
<1> SUFFICES ASSUME QIInv, UNCHANGED qvars PROVE QIInv'
  OBVIOUS
<1>1. QTypeOK'
  BY DEF QIInv, QTypeOK, qvars, qrvars, qlvars
<1>2. (QCounters /\ QThreadStates /\ QCaller)'
  BY DEF QIInv, QCounters, QThreadStates, QCaller, qvars, qrvars, qlvars
<1>3. (QControl /\ QSettled /\ QPreAwaited)'
  BY DEF QIInv, QControl, QSettled, QPreAwaited, QAwaited, QInputReaders, qvars,
     qrvars, qlvars
<1> QED BY <1>1, <1>2, <1>3 DEF QIInv

LEMMA QNextIInv == QIInv /\ [QsbrNext]_qvars => QIInv'
<1> QED BY QThreadPreserves, QLeaderPreserves, QStutterPreserves DEF QsbrNext

LEMMA QIInvHolds == QsbrSpec => []QIInv
<1> QED BY QInitIInv, QNextIInv, PTL DEF QsbrSpec

-----------------------------------------------------------------------------
(* Counters, lists and program counters stay within their types; in        *)
(* particular the parity of 32 bits is always 1 or 2 (QCounters).          *)
THEOREM QsbrTypeCorrect == QsbrSpec => [](QTypeOK /\ QCounters)
<1>1. QIInv => QTypeOK /\ QCounters
  BY DEF QIInv
<1> QED BY <1>1, QIInvHolds, PTL

-----------------------------------------------------------------------------
(* The refinement of GracePeriod.  The call begins, for GracePeriod, when  *)
(* a caller that was online has gone offline.                              *)

QInside == qupc \notin {"idle", "offline"}

LEMMA QInvisible ==
    ASSUME UNCHANGED <<qcs, qpre>>, QInside' <=> QInside
    PROVE  UNCHANGED QGP!gpvars
<1>1. [u \in {"leader"} |-> qupc' \notin {"idle", "offline"}] =
      [u \in {"leader"} |-> qupc \notin {"idle", "offline"}]
  BY DEF QInside
<1> QED BY <1>1 DEF QGP!gpvars

LEMMA QSectionStarts ==
    ASSUME NEW t \in QThreads, t \notin qcs, qcs' = qcs \cup {t}, UNCHANGED <<qpre, qupc>>
    PROVE  QGP!GPNext
<1>1. QGP!ReadLock(t)
  BY DEF QGP!ReadLock
<1> QED BY <1>1 DEF QGP!GPNext

LEMMA QSectionEnds ==
    ASSUME NEW t \in QThreads, t \in qcs, qcs' = qcs \ {t}, qpre' = qpre \ {t},
           UNCHANGED qupc
    PROVE  QGP!GPNext
<1>1. [u \in {"leader"} |-> qpre'] =
         [u \in {"leader"} |-> [w \in {"leader"} |-> qpre][u] \ {t}]
  OBVIOUS
<1>2. QGP!ReadUnlock(t)
  BY <1>1 DEF QGP!ReadUnlock
<1> QED BY <1>2 DEF QGP!GPNext

LEMMA QCallBegins ==
    ASSUME ~ QInside, QInside', qpre' = qcs, qcs' = qcs
    PROVE  QGP!GPNext
<1> DEFINE sync == [u \in {"leader"} |-> qupc \notin {"idle", "offline"}]
           sync1 == [u \in {"leader"} |-> qupc' \notin {"idle", "offline"}]
<1>1. ~ sync["leader"]
  BY DEF QInside
<1>2. sync1 = [sync EXCEPT !["leader"] = TRUE]
  BY DEF QInside
<1>3. [u \in {"leader"} |-> qpre'] = [[u \in {"leader"} |-> qpre] EXCEPT !["leader"] = qcs]
  OBVIOUS
<1>4. QGP!SyncCall("leader")
  BY <1>1, <1>2, <1>3 DEF QGP!SyncCall
<1> QED BY <1>4 DEF QGP!GPNext

LEMMA QCallReturns ==
    ASSUME QInside, ~ QInside', qpre = {}, UNCHANGED <<qcs, qpre>>
    PROVE  QGP!GPNext
<1> DEFINE sync == [u \in {"leader"} |-> qupc \notin {"idle", "offline"}]
           sync1 == [u \in {"leader"} |-> qupc' \notin {"idle", "offline"}]
<1>1. sync["leader"]
  BY DEF QInside
<1>2. sync1 = [sync EXCEPT !["leader"] = FALSE]
  BY DEF QInside
<1>3. QGP!SyncReturn("leader")
  BY <1>1, <1>2 DEF QGP!SyncReturn
<1> QED BY <1>3 DEF QGP!GPNext

LEMMA QStepRefines == QIInv /\ [QsbrNext]_qvars => [QGP!GPNext]_(QGP!gpvars)
<1> SUFFICES ASSUME QIInv, [QsbrNext]_qvars
             PROVE  QGP!GPNext \/ UNCHANGED QGP!gpvars
  OBVIOUS
<1>1. ASSUME NEW t \in QThreads, QReaderCall(t)
      PROVE  QGP!GPNext \/ UNCHANGED QGP!gpvars
  <2>1. CASE rcu_read_lock_qsbr(t)
    BY <2>1, QSectionStarts DEF rcu_read_lock_qsbr, qlvars
  <2>2. CASE rcu_read_unlock_qsbr(t)
    BY <2>2, QSectionEnds DEF rcu_read_unlock_qsbr, qlvars
  <2>3. CASE \/ rcu_register_thread_qsbr(t) \/ rcu_unregister_thread_qsbr(t)
             \/ rcu_quiescent_state(t) \/ rcu_thread_online(t) \/ rcu_thread_offline(t)
    BY <2>3, QInvisible DEF rcu_register_thread_qsbr, rcu_unregister_thread_qsbr,
       rcu_quiescent_state, rcu_thread_online, rcu_thread_offline, qlvars, QInside
  <2> QED BY <1>1, <2>1, <2>2, <2>3 DEF QReaderCall
<1>2. ASSUME NEW t \in QThreads, QReaderStep(t) \/ SynchronizeOnline(t)
      PROVE  UNCHANGED QGP!gpvars
  BY <1>2, QInvisible DEF QReaderStep, OnlineLoad, OnlineStore, QuiescentStore,
     OfflineStore, wake_up_gp_qsbr, ClearWaiting, WakeTestFutex, WakeSetFutex,
     WakeLeader, Unregister, SynchronizeOnline, qlvars, QInside
<1>3. CASE synchronize_rcu_qsbr \/ BeginOffline
  BY <1>3, QCallBegins DEF synchronize_rcu_qsbr, BeginOffline, QInside
<1>4. CASE QSynchronizeReturn
  <2>1. qpre = {}
    BY <1>4 DEF QIInv, QPreAwaited, QSynchronizeReturn
  <2> QED BY <1>4, <2>1, QCallReturns DEF QSynchronizeReturn, QInside
<1>5. CASE \/ QLeaderStep /\ ~ BeginOffline /\ ~ QSynchronizeReturn
           \/ QSpuriousWakeup
  BY <1>5, QInvisible DEF QLeaderStep, QLockRegistry, IncrementCtr, QIterate,
     SetWaiting, QScanReader, WaitingSet, QScanDone, QAfterPass, QUnlockRegistry,
     wait_gp_qsbr, QFutexWait, QRelockRegistry, FlipParity, QSplice, QSpuriousWakeup,
     QInside
<1>6. CASE UNCHANGED qvars
  BY <1>6, QInvisible DEF qvars, qlvars, QInside
<1> QED BY <1>1, <1>2, <1>3, <1>4, <1>5, <1>6 DEF QsbrNext

(* liburcu-qsbr (urcu-qsbr.c) keeps the promise of GracePeriod on 32 and   *)
(* on 64 bits, while threads register, unregister, go offline and online,  *)
(* and when the caller is itself an online reader: synchronize_rcu()       *)
(* returns only after the sections that ran when the grace period began.   *)
THEOREM QsbrRefinement == QsbrSpec => QsbrImplementsGracePeriod
<1>1. QsbrInit => QGP!GPInit
  <2> SUFFICES ASSUME QsbrInit PROVE QGP!GPInit
    OBVIOUS
  <2>1. [u \in {"leader"} |-> qupc \notin {"idle", "offline"}] =
        [u \in {"leader"} |-> FALSE]
    BY DEF QsbrInit
  <2> QED BY <2>1 DEF QsbrInit, QGP!GPInit
<1> QED
  BY <1>1, QStepRefines, QIInvHolds, PTL
     DEF QsbrSpec, QsbrImplementsGracePeriod, QGP!GPSpec

=============================================================================
