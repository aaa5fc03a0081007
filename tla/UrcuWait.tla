------------------------------ MODULE UrcuWait -------------------------------
(***************************************************************************)
(* How concurrent synchronize_rcu() callers share a grace period:          *)
(* src/urcu-wait.h, the wait-free stack it is built on                     *)
(* (include/urcu/static/wfstack.h, push, pop_all and blocking iteration)   *)
(* and the part of synchronize_rcu() around the detection of the grace     *)
(* period (src/urcu.c).                                                    *)
(*                                                                         *)
(* A caller pushes a node that lives in its stack frame on gp_waiters.     *)
(* The one that finds the stack empty leads: it takes rcu_gp_lock, pops    *)
(* everybody, runs one grace period for all and wakes them up.  The others *)
(* spin for a while, sleep on a futex in their node, and may return, which *)
(* destroys the node, only once the waker has set URCU_WAIT_TEARDOWN.      *)
(*                                                                         *)
(* The leader's grace period is GracePeriod's promise for one caller       *)
(* (module Urcu implements it): it waits for the critical sections that    *)
(* run when it begins.  The state words and the stack are only accessed    *)
(* with atomic read-modify-writes, or by plain accesses that barriers      *)
(* separate from them, so memory is sequentially consistent here.          *)
(***************************************************************************)
EXTENDS Integers

CONSTANTS
    Readers,        \* threads with read-side critical sections
    Updaters,       \* threads that call synchronize_rcu()
    END,            \* CDS_WFS_END, the bottom of a stack
    NULL

ASSUME WaitAssumption ==
    /\ END \notin Updaters
    /\ NULL \notin Updaters
    /\ END # NULL

VARIABLES
    head,           \* gp_waiters.stack.head: a node (named by its owner) or END
    next,           \* next[u]: link of u's node, NULL until push completes
    state,          \* state[u]: flags set in u's node; {} is URCU_WAIT_WAITING
    gp_lock,        \* owner of rcu_gp_lock, or NULL
    gpre,           \* sections the leader's grace period still waits for
    upc,            \* program counter of each caller
    iter,           \* iter[u]: old head in push; then u's place in its waiters
    iter_n,         \* iter_n[u]: the node after it, read before waking it
    cs,             \* readers inside a critical section
    pre             \* pre[u]: sections that ran at u's call and still run

nodes == <<head, next, state>>
locals == <<iter, iter_n>>
vars == <<nodes, gp_lock, gpre, upc, locals, cs, pre>>

WaiterPC == {"wait", "futex", "asleep", "run", "teardown_wait"}
WakerPC == {"wake_check", "wake_assert", "wake_set", "wake_test", "wake_futex",
            "teardown"}

Init ==
    /\ head = END
    /\ next = [u \in Updaters |-> NULL]
    /\ state = [u \in Updaters |-> {}]
    /\ gp_lock = NULL
    /\ gpre = {}
    /\ upc = [u \in Updaters |-> "idle"]
    /\ iter = [u \in Updaters |-> NULL]
    /\ iter_n = [u \in Updaters |-> NULL]
    /\ cs = {}
    /\ pre = [u \in Updaters |-> {}]

goto(u, pc) == upc' = [upc EXCEPT ![u] = pc]

-----------------------------------------------------------------------------
(* Readers, as far as synchronize_rcu() is concerned.                      *)

Enter(r) ==
    /\ r \notin cs
    /\ cs' = cs \cup {r}
    /\ UNCHANGED <<nodes, gp_lock, gpre, upc, locals, pre>>

Leave(r) ==
    /\ r \in cs
    /\ cs' = cs \ {r}
    /\ gpre' = gpre \ {r}
    /\ pre' = [u \in Updaters |-> pre[u] \ {r}]
    /\ UNCHANGED <<nodes, gp_lock, upc, locals>>

-----------------------------------------------------------------------------
(* Joining the batch.                                                      *)

(* DEFINE_URCU_WAIT_NODE: a fresh node, in state URCU_WAIT_WAITING.        *)
synchronize_rcu(u) ==
    /\ upc[u] = "idle"
    /\ state' = [state EXCEPT ![u] = {}]
    /\ next' = [next EXCEPT ![u] = NULL]
    /\ pre' = [pre EXCEPT ![u] = cs]
    /\ goto(u, "push")
    /\ UNCHANGED <<head, gp_lock, gpre, locals, cs>>

(* cds_wfs_push(): exchange the head ...                                   *)
cds_wfs_push(u) ==
    /\ upc[u] = "push"
    /\ iter' = [iter EXCEPT ![u] = head]
    /\ head' = u
    /\ goto(u, "link")
    /\ UNCHANGED <<next, state, gp_lock, gpre, iter_n, cs, pre>>

(* ... then link the node.  Whoever pushed on an empty stack leads.        *)
PushLink(u) ==
    /\ upc[u] = "link"
    /\ next' = [next EXCEPT ![u] = iter[u]]
    /\ goto(u, IF iter[u] = END THEN "lead" ELSE "wait")
    /\ iter' = [iter EXCEPT ![u] = NULL]
    /\ UNCHANGED <<head, state, gp_lock, gpre, iter_n, cs, pre>>

-----------------------------------------------------------------------------
(* The leader.                                                             *)

(* urcu_wait_set_state(&wait, URCU_WAIT_RUNNING).                          *)
LeaderRunning(u) ==
    /\ upc[u] = "lead"
    /\ state' = [state EXCEPT ![u] = {"RUNNING"}]
    /\ goto(u, "gp_lock")
    /\ UNCHANGED <<head, next, gp_lock, gpre, locals, cs, pre>>

LockGP(u) ==
    /\ upc[u] = "gp_lock"
    /\ gp_lock = NULL
    /\ gp_lock' = u
    /\ goto(u, "move")
    /\ UNCHANGED <<nodes, gpre, locals, cs, pre>>

(* Mutant: the leader moves the waiters after its grace period has begun.  *)
MoveLate(u) ==
    /\ upc[u] = "move"
    /\ iter' = [iter EXCEPT ![u] = head]
    /\ head' = END
    /\ gpre' = pre[u]
    /\ goto(u, "gp")
    /\ UNCHANGED <<next, state, gp_lock, iter_n, cs, pre>>

(* urcu_move_waiters(): the waiters are taken off the stack, and then the  *)
(* grace period begins.                                                    *)
urcu_move_waiters(u) ==
    /\ upc[u] = "move"
    /\ iter' = [iter EXCEPT ![u] = head]
    /\ head' = END
    /\ gpre' = cs
    /\ goto(u, "gp")
    /\ UNCHANGED <<next, state, gp_lock, iter_n, cs, pre>>

(* The grace period is over, rcu_gp_lock is released.                      *)
GracePeriodEnd(u) ==
    /\ upc[u] = "gp"
    /\ gpre = {}
    /\ gp_lock' = NULL
    /\ goto(u, "wake")
    /\ UNCHANGED <<nodes, gpre, locals, cs, pre>>

(* urcu_wake_all_waiters(): the next node is read before this one is       *)
(* woken, once its push has completed.                                     *)
urcu_wake_all_waiters(u) ==
    /\ upc[u] = "wake"
    /\ iter[u] # END
    /\ next[iter[u]] # NULL
    /\ iter_n' = [iter_n EXCEPT ![u] = next[iter[u]]]
    /\ goto(u, "wake_check")
    /\ UNCHANGED <<nodes, gp_lock, gpre, iter, cs, pre>>

WakeAllDone(u) ==
    /\ upc[u] = "wake"
    /\ iter[u] = END
    /\ iter' = [iter EXCEPT ![u] = NULL]
    /\ goto(u, "idle")
    /\ UNCHANGED <<nodes, gp_lock, gpre, iter_n, cs, pre>>

NextWaiter(u) ==
    /\ iter' = [iter EXCEPT ![u] = iter_n[u]]
    /\ iter_n' = [iter_n EXCEPT ![u] = NULL]
    /\ goto(u, "wake")

(* "Don't wake already running threads".                                   *)
WakeSkip(u) ==
    /\ upc[u] = "wake_check"
    /\ "RUNNING" \in state[iter[u]]
    /\ NextWaiter(u)
    /\ UNCHANGED <<nodes, gp_lock, gpre, cs, pre>>

(* Mutant: threads that run already are woken up, too.                     *)
WakeEverybody(u) ==
    /\ upc[u] = "wake_check"
    /\ goto(u, "wake_assert")
    /\ UNCHANGED <<nodes, gp_lock, gpre, locals, cs, pre>>

WakeNotRunning(u) ==
    /\ upc[u] = "wake_check"
    /\ "RUNNING" \notin state[iter[u]]
    /\ goto(u, "wake_assert")
    /\ UNCHANGED <<nodes, gp_lock, gpre, locals, cs, pre>>

(* urcu_adaptative_wake_up(): assert that the waiter waits ...             *)
urcu_adaptative_wake_up(u) ==
    /\ upc[u] = "wake_assert"
    /\ goto(u, IF state[iter[u]] = {} THEN "wake_set" ELSE "assert_failed")
    /\ UNCHANGED <<nodes, gp_lock, gpre, locals, cs, pre>>

(* ... tell it to stop waiting ...                                         *)
WakeSet(u) ==
    /\ upc[u] = "wake_set"
    /\ state' = [state EXCEPT ![iter[u]] = {"WAKEUP"}]
    /\ goto(u, "wake_test")
    /\ UNCHANGED <<head, next, gp_lock, gpre, locals, cs, pre>>

(* Mutant: FUTEX_WAKE for the waiter that runs, not for the one that sleeps.*)
WakeTestInverted(u) ==
    /\ upc[u] = "wake_test"
    /\ goto(u, IF "RUNNING" \in state[iter[u]] THEN "wake_futex" ELSE "teardown")
    /\ UNCHANGED <<nodes, gp_lock, gpre, locals, cs, pre>>

(* ... wake it up unless it is seen running by now ...                     *)
WakeTest(u) ==
    /\ upc[u] = "wake_test"
    /\ goto(u, IF "RUNNING" \in state[iter[u]] THEN "teardown" ELSE "wake_futex")
    /\ UNCHANGED <<nodes, gp_lock, gpre, locals, cs, pre>>

WakeFutex(u) ==
    /\ upc[u] = "wake_futex"
    /\ upc' = [upc EXCEPT ![u] = "teardown",
                          ![iter[u]] = IF @ = "asleep" THEN "run" ELSE @]
    /\ UNCHANGED <<nodes, gp_lock, gpre, locals, cs, pre>>

(* ... and let it destroy its node.                                        *)
Teardown(u) ==
    /\ upc[u] = "teardown"
    /\ state' = [state EXCEPT ![iter[u]] = @ \cup {"TEARDOWN"}]
    /\ NextWaiter(u)
    /\ UNCHANGED <<head, next, gp_lock, gpre, cs, pre>>

-----------------------------------------------------------------------------
(* The waiters: urcu_adaptative_busy_wait().                               *)

(* The busy-waiting loop ends when the state changes or, after             *)
(* URCU_WAIT_ATTEMPTS turns, with a sleep.                                 *)
urcu_adaptative_busy_wait(u) ==
    /\ upc[u] = "wait"
    /\ goto(u, IF state[u] # {} THEN "run" ELSE "futex")
    /\ UNCHANGED <<nodes, gp_lock, gpre, locals, cs, pre>>

(* FUTEX_WAIT sleeps if the state is still URCU_WAIT_WAITING.              *)
FutexWait(u) ==
    /\ upc[u] = "futex"
    /\ goto(u, IF state[u] = {} THEN "asleep" ELSE "run")
    /\ UNCHANGED <<nodes, gp_lock, gpre, locals, cs, pre>>

(* EINTR: the loop calls FUTEX_WAIT again.                                 *)
Interrupted(u) ==
    /\ upc[u] = "asleep"
    /\ goto(u, "futex")
    /\ UNCHANGED <<nodes, gp_lock, gpre, locals, cs, pre>>

(* FUTEX_WAIT returns 0 spuriously, which futex(2) warns of: the loop ends.*)
SpuriousWakeup(u) ==
    /\ upc[u] = "asleep"
    /\ goto(u, "run")
    /\ UNCHANGED <<nodes, gp_lock, gpre, locals, cs, pre>>

WaiterRunning(u) ==
    /\ upc[u] = "run"
    /\ state' = [state EXCEPT ![u] = @ \cup {"RUNNING"}]
    /\ goto(u, "teardown_wait")
    /\ UNCHANGED <<head, next, gp_lock, gpre, locals, cs, pre>>

(* Mutant: the waiter returns without waiting for URCU_WAIT_TEARDOWN.      *)
ReturnEarly(u) ==
    /\ upc[u] = "teardown_wait"
    /\ goto(u, "idle")
    /\ UNCHANGED <<nodes, gp_lock, gpre, locals, cs, pre>>

WaiterReturn(u) ==
    /\ upc[u] = "teardown_wait"
    /\ "TEARDOWN" \in state[u]
    /\ goto(u, "idle")
    /\ UNCHANGED <<nodes, gp_lock, gpre, locals, cs, pre>>

-----------------------------------------------------------------------------
UpdaterStep(u) ==
    \/ cds_wfs_push(u) \/ PushLink(u)
    \/ LeaderRunning(u) \/ LockGP(u) \/ urcu_move_waiters(u) \/ GracePeriodEnd(u)
    \/ urcu_wake_all_waiters(u) \/ WakeAllDone(u) \/ WakeSkip(u)
    \/ WakeNotRunning(u) \/ urcu_adaptative_wake_up(u) \/ WakeSet(u)
    \/ WakeTest(u) \/ WakeFutex(u) \/ Teardown(u)
    \/ urcu_adaptative_busy_wait(u) \/ FutexWait(u)
    \/ WaiterRunning(u) \/ WaiterReturn(u)

Next ==
    \/ \E r \in Readers : Enter(r) \/ Leave(r)
    \/ \E u \in Updaters : synchronize_rcu(u) \/ UpdaterStep(u)
                             \/ Interrupted(u)

Spec == Init /\ [][Next]_vars

(* The same on a kernel whose FUTEX_WAIT may also return 0 spuriously.     *)
SpuriousNext == Next \/ \E u \in Updaters : SpuriousWakeup(u)
SpuriousSpec == Init /\ [][SpuriousNext]_vars

(* Threads inside the library run, the mutex is handed to a thread that    *)
(* keeps asking for it, and critical sections end.                         *)
Fairness ==
    /\ \A u \in Updaters : WF_vars(UpdaterStep(u)) /\ SF_vars(LockGP(u))
    /\ \A r \in Readers : WF_vars(Leave(r))

FairSpec == Spec /\ Fairness

-----------------------------------------------------------------------------
(* The promise survives the sharing: whether a caller led or was woken up  *)
(* by another caller's grace period, the sections that ran when it called  *)
(* synchronize_rcu() have ended when it returns.                           *)
GP == INSTANCE GracePeriod WITH sync <- [u \in Updaters |-> upc[u] # "idle"]
ImplementsGracePeriod == GP!GPSpec

(* A waker never looks at, and never writes to, the node of a caller that  *)
(* has returned ("the waiter owns the node memory, and we only allow it to *)
(* free this memory when it receives the URCU_WAIT_TEARDOWN flag",         *)
(* urcu-wait.h:116).                                                       *)
Touches(u) == IF upc[u] \in WakerPC \cup {"wake"} THEN {iter[u]} \ {END} ELSE {}
WakersTouchLiveNodes ==
    \A u \in Updaters : \A v \in Touches(u) :
        v = u \/ upc[v] \in WaiterPC \cup {"link"}

(* assert(uatomic_read(&wait->state) == URCU_WAIT_WAITING) holds whenever  *)
(* urcu_adaptative_wake_up() evaluates it (urcu-wait.h:124).               *)
WakeUpAssertHolds == \A u \in Updaters : upc[u] # "assert_failed"

(* Every synchronize_rcu() call returns.                                   *)
EveryCallReturns == \A u \in Updaters : upc[u] = "push" ~> upc[u] = "idle"

=============================================================================
