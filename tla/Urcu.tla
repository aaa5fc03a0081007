-------------------------------- MODULE Urcu ---------------------------------
(***************************************************************************)
(* Grace-period detection of the memory-barrier flavors of liburcu:        *)
(* src/urcu.c and include/urcu/static/urcu.h, built as liburcu-mb,         *)
(* liburcu (sys_membarrier) and liburcu-signal.                            *)
(*                                                                         *)
(* Readers are the registered threads.  Each owns a counter whose low half *)
(* is the nesting depth of its read-side critical sections and whose upper *)
(* half holds one phase bit, copied from rcu_gp.ctr by the outermost       *)
(* rcu_read_lock().  The leader is the thread inside synchronize_rcu() that*)
(* holds rcu_gp_lock; that mutex admits one thread at a time, so the       *)
(* leader's locals appear once.  How callers share the leader's grace      *)
(* period is the subject of module UrcuWait.                               *)
(*                                                                         *)
(* Memory.  Readers run without barriers in the membarrier and signal      *)
(* flavors, so a sequentially consistent memory would hide what makes this *)
(* code hard.  The model is total store order: a reader's stores to its    *)
(* counter queue up in buf[r] and reach memory later, in order; its loads  *)
(* come from memory, or from its own buffer.  A barrier waits for the      *)
(* buffer to drain.  The leader's stores are all followed by a locked      *)
(* instruction or a full barrier before its next load, and are immediate.  *)
(***************************************************************************)
EXTENDS Integers, Sequences

CONSTANTS
    Readers,        \* reader threads
    Flavors,        \* flavors to consider, a subset of AllFlavors
    NestMax,        \* deepest nesting of critical sections considered
    BufSize,        \* stores a reader's store buffer can hold
    QsAttempts      \* RCU_QS_ACTIVE_ATTEMPTS, scans before sleeping

AllFlavors == {"mb", "memb", "signal"}

ASSUME UrcuAssumption ==
    /\ Flavors \subseteq AllFlavors
    /\ NestMax \in Nat \ {0}
    /\ BufSize \in Nat \ {0}
    /\ QsAttempts \in Nat \ {0}

VARIABLES
    flavor,         \* the flavor that was built; fixed by Init
    gp_phase,       \* phase bit of rcu_gp.ctr
    futex,          \* rcu_gp.futex: 0, -1, or -2 for anything below -1
    ctr,            \* ctr[r]: rcu_reader.ctr of r, in memory
    buf,            \* buf[r]: r's stores to it that are not yet in memory
    rpc,            \* program counter of each reader
    tmp,            \* tmp[r]: phase r loaded from rcu_gp.ctr
    list,           \* list[r]: the list r's node is on
    mbpend,         \* readers that still have to execute a forced barrier
    registry_lock,  \* does the leader hold rcu_registry_lock?
    upc,            \* program counter of the leader
    ret,            \* where smp_mb_master() returns to
    pass,           \* which wait_for_readers() call of synchronize_rcu()
    loops,          \* wait_loops
    scan,           \* readers the current iteration has not looked at yet
    cs,             \* readers inside a critical section, as the program sees it
    pre             \* those that were there when the grace period began

rvars == <<ctr, buf, rpc, tmp>>
uvars == <<registry_lock, upc, ret, pass, loops, scan>>
ghosts == <<cs, pre>>
vars == <<flavor, gp_phase, futex, rvars, list, mbpend, uvars, ghosts>>

Phase == {0, 1}
Counter == [phase : Phase, nest : 0 .. NestMax]

(* A counter whose nesting depth is 0.  The phase bit that the last        *)
(* section left in it is never looked at again, and is cleared here.       *)
Quiescent == [phase |-> 0, nest |-> 0]

Lists == {"none", "registry", "cur_snap", "qs"}
ReaderPC == {"ready", "lock_store", "lock_mb",
             "wake_test", "wake_set", "wake_futex"}
LeaderPC == {"idle", "lock", "mb", "mb_wait", "iterate", "scan", "reset_futex",
             "unlock", "test_futex", "futex_wait", "asleep", "relock",
             "flip", "splice", "out"}

TypeOK ==
    /\ flavor \in Flavors
    /\ gp_phase \in Phase
    /\ futex \in -2 .. 0
    /\ ctr \in [Readers -> Counter]
    /\ buf \in [Readers -> Seq(Counter)]
    /\ \A r \in Readers : Len(buf[r]) <= BufSize
    /\ rpc \in [Readers -> ReaderPC]
    /\ tmp \in [Readers -> Phase]
    /\ list \in [Readers -> Lists]
    /\ mbpend \in SUBSET Readers
    /\ registry_lock \in BOOLEAN
    /\ upc \in LeaderPC
    /\ ret \in LeaderPC
    /\ pass \in {1, 2}
    /\ loops \in 0 .. QsAttempts
    /\ scan \in SUBSET Readers
    /\ cs \in SUBSET Readers
    /\ pre \in SUBSET Readers

Init ==
    /\ flavor \in Flavors
    /\ gp_phase = 0
    /\ futex = 0
    /\ ctr = [r \in Readers |-> Quiescent]
    /\ buf = [r \in Readers |-> << >>]
    /\ rpc = [r \in Readers |-> "ready"]
    /\ tmp = [r \in Readers |-> 0]
    /\ list = [r \in Readers |-> "none"]
    /\ mbpend = {}
    /\ registry_lock = FALSE
    /\ upc = "idle"
    /\ ret = "idle"
    /\ pass = 1
    /\ loops = 0
    /\ scan = {}
    /\ cs = {}
    /\ pre = {}

-----------------------------------------------------------------------------
(* The reader's side of the memory model.                                  *)

(* r's own counter as r reads it: its youngest store, in memory or not.    *)
View(r) == IF buf[r] = << >> THEN ctr[r] ELSE buf[r][Len(buf[r])]

(* r stores v to its counter.                                              *)
Store(r, v) ==
    /\ Len(buf[r]) < BufSize
    /\ buf' = [buf EXCEPT ![r] = Append(@, v)]
    /\ ctr' = ctr

(* The oldest buffered store of r reaches memory.                          *)
Commit(r) ==
    /\ buf[r] # << >>
    /\ ctr' = [ctr EXCEPT ![r] = Head(buf[r])]
    /\ buf' = [buf EXCEPT ![r] = Tail(@)]
    /\ UNCHANGED <<flavor, gp_phase, futex, rpc, tmp, list, mbpend, uvars, ghosts>>

(* A full barrier has nothing to wait for once the buffer is empty.        *)
smp_mb(r) == buf[r] = << >>

(* A real barrier in the mb flavor only, a compiler barrier in the others. *)
smp_mb_slave(r) == flavor = "mb" => smp_mb(r)

(* The barrier that the leader forces on r: the SIGRCU handler, or the     *)
(* interrupt that sys_membarrier() sends.                                  *)
sigrcu_handler(r) ==
    /\ r \in mbpend
    /\ mbpend' = mbpend \ {r}
    /\ ctr' = [ctr EXCEPT ![r] = View(r)]
    /\ buf' = [buf EXCEPT ![r] = << >>]
    /\ UNCHANGED <<flavor, gp_phase, futex, rpc, tmp, list, uvars, ghosts>>

-----------------------------------------------------------------------------
(* Readers.                                                                *)

goto(r, pc) == rpc' = [rpc EXCEPT ![r] = pc]

(* Registration takes rcu_registry_lock for its whole duration, which the  *)
(* leader holds except between two iterations.  The lock is a barrier.     *)
rcu_register_thread(r) ==
    /\ list[r] = "none"
    /\ ~ registry_lock
    /\ list' = [list EXCEPT ![r] = "registry"]
    /\ UNCHANGED <<flavor, gp_phase, futex, rvars, mbpend, uvars, ghosts>>

rcu_unregister_thread(r) ==
    /\ list[r] # "none"
    /\ rpc[r] = "ready"
    /\ View(r).nest = 0
    /\ ~ registry_lock
    /\ smp_mb(r)
    /\ list' = [list EXCEPT ![r] = "none"]
    /\ UNCHANGED <<flavor, gp_phase, futex, rvars, mbpend, uvars, ghosts>>

(* rcu_read_lock(), outermost: load rcu_gp.ctr ...                         *)
rcu_read_lock(r) ==
    /\ rpc[r] = "ready"
    /\ list[r] # "none"
    /\ View(r).nest = 0
    /\ tmp' = [tmp EXCEPT ![r] = gp_phase]
    /\ goto(r, "lock_store")
    /\ UNCHANGED <<flavor, gp_phase, futex, ctr, buf, list, mbpend, uvars, ghosts>>

(* ... store it, with RCU_GP_COUNT, to the reader's counter (tmp is dead   *)
(* from here on) and enter the critical section ...                        *)
ReadLockStore(r) ==
    /\ rpc[r] = "lock_store"
    /\ Store(r, [phase |-> tmp[r], nest |-> 1])
    /\ tmp' = [tmp EXCEPT ![r] = 0]
    /\ IF flavor = "mb"
       THEN goto(r, "lock_mb") /\ cs' = cs
       ELSE goto(r, "ready")   /\ cs' = cs \cup {r}
    /\ UNCHANGED <<flavor, gp_phase, futex, list, mbpend, uvars, pre>>

(* ... in the mb flavor, after a barrier.                                  *)
ReadLockBarrier(r) ==
    /\ rpc[r] = "lock_mb"
    /\ smp_mb_slave(r)
    /\ goto(r, "ready")
    /\ cs' = cs \cup {r}
    /\ UNCHANGED <<flavor, gp_phase, futex, ctr, buf, tmp, list, mbpend, uvars, pre>>

(* Nested rcu_read_lock() and rcu_read_unlock(): one store, no barrier.    *)
rcu_read_lock_nested(r) ==
    /\ rpc[r] = "ready"
    /\ View(r).nest \in 1 .. NestMax - 1
    /\ Store(r, [View(r) EXCEPT !.nest = @ + 1])
    /\ UNCHANGED <<flavor, gp_phase, futex, rpc, tmp, list, mbpend, uvars, ghosts>>

rcu_read_unlock_nested(r) ==
    /\ rpc[r] = "ready"
    /\ View(r).nest > 1
    /\ Store(r, [View(r) EXCEPT !.nest = @ - 1])
    /\ UNCHANGED <<flavor, gp_phase, futex, rpc, tmp, list, mbpend, uvars, ghosts>>

(* rcu_read_unlock(), outermost: behind a barrier, the critical section is *)
(* over and the counter says so ...                                        *)
rcu_read_unlock(r) ==
    /\ rpc[r] = "ready"
    /\ View(r).nest = 1
    /\ smp_mb_slave(r)
    /\ Store(r, Quiescent)
    /\ cs' = cs \ {r}
    /\ pre' = pre \ {r}
    /\ goto(r, "wake_test")
    /\ UNCHANGED <<flavor, gp_phase, futex, tmp, list, mbpend, uvars>>

(* ... and, after another barrier, a leader that sleeps is woken up.        *)
wake_up_gp(r) ==
    /\ rpc[r] = "wake_test"
    /\ smp_mb_slave(r)
    /\ goto(r, IF futex = -1 THEN "wake_set" ELSE "ready")
    /\ UNCHANGED <<flavor, gp_phase, futex, ctr, buf, tmp, list, mbpend, uvars, ghosts>>

(* uatomic_set(): a plain store, it follows the buffered ones to memory.   *)
WakeSet(r) ==
    /\ rpc[r] = "wake_set"
    /\ buf[r] = << >>
    /\ futex' = 0
    /\ goto(r, "wake_futex")
    /\ UNCHANGED <<flavor, gp_phase, ctr, buf, tmp, list, mbpend, uvars, ghosts>>

(* FUTEX_WAKE.                                                             *)
WakeFutex(r) ==
    /\ rpc[r] = "wake_futex"
    /\ upc' = IF upc = "asleep" THEN "relock" ELSE upc
    /\ goto(r, "ready")
    /\ UNCHANGED <<flavor, gp_phase, futex, ctr, buf, tmp, list, mbpend,
                   registry_lock, ret, pass, loops, scan, ghosts>>

-----------------------------------------------------------------------------
(* The leader.                                                             *)

OnList(l) == {r \in Readers : list[r] = l}

(* rcu_gp_lock is taken and the waiters are moved to a local queue: this   *)
(* is where the grace period begins.                                       *)
synchronize_rcu ==
    /\ upc = "idle"
    /\ upc' = "lock"
    /\ pre' = cs
    /\ UNCHANGED <<flavor, gp_phase, futex, rvars, list, mbpend,
                   registry_lock, ret, pass, loops, scan, cs>>

LockRegistry ==
    /\ upc = "lock"
    /\ registry_lock' = TRUE
    /\ IF OnList("registry") = {}
       THEN upc' = "out" /\ ret' = ret
       ELSE upc' = "mb" /\ ret' = "iterate"
    /\ UNCHANGED <<flavor, gp_phase, futex, rvars, list, mbpend,
                   pass, loops, scan, ghosts>>

(* Mutant: sys_membarrier() is not available, and nothing replaces it.     *)
NoBarrierTargets == {}

(* smp_mb_master() asks every reader for a barrier ...  The signal flavor  *)
(* signals the threads on the registry list.  A reader with no store       *)
(* pending has nothing that a barrier could order.                         *)
BarrierTargets ==
    CASE flavor = "mb"     -> {}
      [] flavor = "memb"   -> Readers
      [] flavor = "signal" -> OnList("registry")

smp_mb_master ==
    /\ upc = "mb"
    /\ mbpend' = {r \in BarrierTargets : ~ smp_mb(r)}
    /\ upc' = "mb_wait"
    /\ UNCHANGED <<flavor, gp_phase, futex, rvars, list,
                   registry_lock, ret, pass, loops, scan, ghosts>>

(* ... and waits until all have executed it.                               *)
MasterBarrierReturn ==
    /\ upc = "mb_wait"
    /\ mbpend = {}
    /\ upc' = ret
    /\ ret' = "idle"
    /\ UNCHANGED <<flavor, gp_phase, futex, rvars, list, mbpend,
                   registry_lock, pass, loops, scan, ghosts>>

(* wait_for_readers(): one iteration.  After QsAttempts scans the futex is *)
(* decremented before each scan, to tell the readers to wake us up.        *)
InputReaders == IF pass = 1 THEN "registry" ELSE "cur_snap"
SleepNow == loops >= QsAttempts

CountLoop == IF loops < QsAttempts THEN loops + 1 ELSE loops

Iterate ==
    /\ upc = "iterate"
    /\ loops' = CountLoop
    /\ IF loops' >= QsAttempts
       THEN /\ futex' = IF futex = -2 THEN -2 ELSE futex - 1
            /\ upc' = "mb"
            /\ ret' = "scan"
       ELSE /\ upc' = "scan"
            /\ UNCHANGED <<futex, ret>>
    /\ scan' = OnList(InputReaders)
    /\ UNCHANGED <<flavor, gp_phase, rvars, list, mbpend, registry_lock, pass, ghosts>>

rcu_reader_state(r) ==
    CASE ctr[r].nest = 0                                  -> "INACTIVE"
      [] ctr[r].nest # 0 /\ ctr[r].phase = gp_phase       -> "ACTIVE_CURRENT"
      [] ctr[r].nest # 0 /\ ctr[r].phase # gp_phase       -> "ACTIVE_OLD"

(* A reader seen in the current phase is set aside for the second pass in  *)
(* the first, is done with in the second; one in the old phase stays.      *)
ScanReader(r) ==
    /\ upc = "scan"
    /\ r \in scan
    /\ scan' = scan \ {r}
    /\ list' = [list EXCEPT ![r] =
                  CASE rcu_reader_state(r) = "INACTIVE"       -> "qs"
                    [] rcu_reader_state(r) = "ACTIVE_CURRENT" ->
                         IF pass = 1 THEN "cur_snap" ELSE "qs"
                    [] rcu_reader_state(r) = "ACTIVE_OLD"     -> @]
    /\ UNCHANGED <<flavor, gp_phase, futex, rvars, mbpend,
                   registry_lock, upc, ret, pass, loops, ghosts>>

(* Mutant: one pass over the readers, no parity flip.                      *)
OnePass == "splice"

AfterPass == IF pass = 1 THEN "flip" ELSE "splice"

ScanDone ==
    /\ upc = "scan"
    /\ scan = {}
    /\ IF OnList(InputReaders) = {}
       THEN IF SleepNow THEN upc' = "mb" /\ ret' = "reset_futex"
                        ELSE upc' = AfterPass /\ ret' = ret
       ELSE IF SleepNow THEN upc' = "mb" /\ ret' = "unlock"
                        ELSE upc' = "unlock" /\ ret' = ret
    /\ UNCHANGED <<flavor, gp_phase, futex, rvars, list, mbpend,
                   registry_lock, pass, loops, scan, ghosts>>

ResetFutex ==
    /\ upc = "reset_futex"
    /\ futex' = 0
    /\ upc' = AfterPass
    /\ UNCHANGED <<flavor, gp_phase, rvars, list, mbpend,
                   registry_lock, ret, pass, loops, scan, ghosts>>

(* The registry lock is released between two iterations, with or without   *)
(* a sleep on the futex: wait_gp().                                        *)
UnlockRegistry ==
    /\ upc = "unlock"
    /\ registry_lock' = FALSE
    /\ upc' = IF SleepNow THEN "test_futex" ELSE "relock"
    /\ UNCHANGED <<flavor, gp_phase, futex, rvars, list, mbpend,
                   ret, pass, loops, scan, ghosts>>

wait_gp ==
    /\ upc = "test_futex"
    /\ upc' = IF futex = -1 THEN "futex_wait" ELSE "relock"
    /\ UNCHANGED <<flavor, gp_phase, futex, rvars, list, mbpend,
                   registry_lock, ret, pass, loops, scan, ghosts>>

(* Mutant: sleeps whatever the futex holds by now.                         *)
WaitUnconditionally ==
    /\ upc = "futex_wait"
    /\ upc' = "asleep"
    /\ UNCHANGED <<flavor, gp_phase, futex, rvars, list, mbpend,
                   registry_lock, ret, pass, loops, scan, ghosts>>

(* FUTEX_WAIT sleeps if the value is still -1, EWOULDBLOCK otherwise.      *)
FutexWait ==
    /\ upc = "futex_wait"
    /\ upc' = IF futex = -1 THEN "asleep" ELSE "relock"
    /\ UNCHANGED <<flavor, gp_phase, futex, rvars, list, mbpend,
                   registry_lock, ret, pass, loops, scan, ghosts>>

(* FUTEX_WAIT is interrupted by a signal (EINTR: it is called again), or   *)
(* returns 0 without a FUTEX_WAKE, as futex(2) allows it to.               *)
SpuriousWakeup ==
    /\ upc = "asleep"
    /\ upc' \in {"futex_wait", "relock"}
    /\ UNCHANGED <<flavor, gp_phase, futex, rvars, list, mbpend,
                   registry_lock, ret, pass, loops, scan, ghosts>>

RelockRegistry ==
    /\ upc = "relock"
    /\ registry_lock' = TRUE
    /\ upc' = "iterate"
    /\ UNCHANGED <<flavor, gp_phase, futex, rvars, list, mbpend,
                   ret, pass, loops, scan, ghosts>>

(* Switch parity: rcu_gp.ctr ^= RCU_GP_CTR_PHASE.                          *)
FlipPhase ==
    /\ upc = "flip"
    /\ gp_phase' = 1 - gp_phase
    /\ pass' = 2
    /\ loops' = 0
    /\ upc' = "iterate"
    /\ UNCHANGED <<flavor, futex, rvars, list, mbpend,
                   registry_lock, ret, scan, ghosts>>

(* Put the quiescent readers back into the registry, last barrier.         *)
SpliceReaders ==
    /\ upc = "splice"
    /\ list' = [r \in Readers |-> IF list[r] = "qs" THEN "registry" ELSE list[r]]
    /\ upc' = "mb"
    /\ ret' = "out"
    /\ UNCHANGED <<flavor, gp_phase, futex, rvars, mbpend,
                   registry_lock, pass, loops, scan, ghosts>>

(* Both locks are released and synchronize_rcu() returns; its locals are   *)
(* back at the values the next call starts with.                           *)
SynchronizeReturn ==
    /\ upc = "out"
    /\ registry_lock' = FALSE
    /\ upc' = "idle"
    /\ pass' = 1
    /\ loops' = 0
    /\ UNCHANGED <<flavor, gp_phase, futex, rvars, list, mbpend,
                   ret, scan, ghosts>>

-----------------------------------------------------------------------------
(* A reader inside a library call goes on by itself; starting one is up    *)
(* to the program.                                                         *)
ReaderStep(r) ==
    \/ ReadLockStore(r) \/ ReadLockBarrier(r)
    \/ wake_up_gp(r) \/ WakeSet(r) \/ WakeFutex(r)

ReaderCall(r) ==
    \/ rcu_register_thread(r) \/ rcu_unregister_thread(r)
    \/ rcu_read_lock(r) \/ rcu_read_lock_nested(r)
    \/ rcu_read_unlock_nested(r) \/ rcu_read_unlock(r)

LeaderStep ==
    \/ LockRegistry \/ smp_mb_master \/ MasterBarrierReturn
    \/ Iterate \/ (\E r \in Readers : ScanReader(r)) \/ ScanDone \/ ResetFutex
    \/ UnlockRegistry \/ wait_gp \/ FutexWait \/ RelockRegistry
    \/ FlipPhase \/ SpliceReaders \/ SynchronizeReturn

Next ==
    \/ \E r \in Readers : Commit(r) \/ sigrcu_handler(r)
    \/ \E r \in Readers : ReaderStep(r) \/ ReaderCall(r)
    \/ synchronize_rcu \/ LeaderStep \/ SpuriousWakeup

Spec == Init /\ [][Next]_vars

(* A thread that can go on does: it takes the next step of the call it is  *)
(* in, leaves a nested section, or its store buffer drains.  Forced        *)
(* barriers are executed, and critical sections end, however often they    *)
(* nest inside.  Nothing forces a thread to enter a critical section, to   *)
(* register or to call synchronize_rcu(), nor the kernel to end a sleep    *)
(* spuriously.                                                             *)
ReaderProgress(r) == Commit(r) \/ ReaderStep(r) \/ rcu_read_unlock_nested(r)

Fairness ==
    /\ WF_vars(LeaderStep)
    /\ \A r \in Readers : /\ WF_vars(ReaderProgress(r))
                          /\ WF_vars(sigrcu_handler(r))
                          /\ SF_vars(rcu_read_unlock(r))

FairSpec == Spec /\ Fairness

-----------------------------------------------------------------------------
(* The grace-period guarantee: synchronize_rcu() returns only when every   *)
(* critical section that was running when the grace period began has       *)
(* ended, whatever the readers' store buffers still held back (urcu.c,     *)
(* synchronize_rcu()).                                                     *)
GracePeriodGuarantee == upc = "out" => pre = {}

(* The same as a refinement: with one caller, the leader, this module      *)
(* implements GracePeriod.                                                 *)
GP == INSTANCE GracePeriod WITH
        Updaters <- {"leader"},
        pre      <- [u \in {"leader"} |-> pre],
        sync     <- [u \in {"leader"} |-> upc # "idle"]
ImplementsGracePeriod == GP!GPSpec

(* A grace period ends, however the readers come and go, as long as each   *)
(* of their critical sections does.                                        *)
SynchronizeReturns == (upc # "idle") ~> (upc = "idle")

=============================================================================
