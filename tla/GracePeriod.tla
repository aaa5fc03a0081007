----------------------------- MODULE GracePeriod -----------------------------
(***************************************************************************)
(* The promise every flavor of liburcu makes to its callers, without any   *)
(* of the machinery that keeps it: a synchronize_rcu() call returns only   *)
(* when every read-side critical section that was running when the call    *)
(* was made has ended.  Sections that start later are not waited for (doc/ *)
(* rcu-api.md: "this is not a reader-writer lock").                        *)
(*                                                                         *)
(* The flavors (module Urcu and, through module UrcuWait, the batching of  *)
(* concurrent callers) are shown to implement this module; the clients     *)
(* (module RcuPointer) are proved correct on top of it.                    *)
(***************************************************************************)

CONSTANTS
    Readers,    \* threads that enter read-side critical sections
    Updaters    \* threads that call synchronize_rcu()

VARIABLES
    cs,         \* the readers inside an outermost read-side critical section
    pre,        \* pre[u]: sections that ran when u made its call and still run
    sync        \* sync[u]: is u inside synchronize_rcu()?

gpvars == <<cs, pre, sync>>

GPTypeOK ==
    /\ cs \in SUBSET Readers
    /\ pre \in [Updaters -> SUBSET Readers]
    /\ sync \in [Updaters -> BOOLEAN]

GPInit ==
    /\ cs = {}
    /\ pre = [u \in Updaters |-> {}]
    /\ sync = [u \in Updaters |-> FALSE]

(* rcu_read_lock() returned, outermost nesting level.                      *)
ReadLock(r) ==
    /\ r \notin cs
    /\ cs' = cs \cup {r}
    /\ UNCHANGED <<pre, sync>>

(* rcu_read_unlock() is called at the outermost nesting level: nobody has  *)
(* to wait for this section any longer.                                    *)
ReadUnlock(r) ==
    /\ r \in cs
    /\ cs' = cs \ {r}
    /\ pre' = [u \in Updaters |-> pre[u] \ {r}]
    /\ UNCHANGED sync

(* u calls synchronize_rcu().                                              *)
SyncCall(u) ==
    /\ ~ sync[u]
    /\ sync' = [sync EXCEPT ![u] = TRUE]
    /\ pre' = [pre EXCEPT ![u] = cs]
    /\ UNCHANGED cs

(* synchronize_rcu() returns to u.                                         *)
SyncReturn(u) ==
    /\ sync[u]
    /\ pre[u] = {}
    /\ sync' = [sync EXCEPT ![u] = FALSE]
    /\ UNCHANGED <<cs, pre>>

(* The process forks while nobody is inside synchronize_rcu() (the fork    *)
(* handlers see to that): the child has no thread but r, so that the       *)
(* sections of all others are over.                                        *)
ForkChild(r) ==
    /\ \A u \in Updaters : ~ sync[u]
    /\ cs' = cs \cap {r}
    /\ pre' = [u \in Updaters |-> pre[u] \cap {r}]
    /\ UNCHANGED sync

GPNext ==
    \/ \E r \in Readers : ReadLock(r) \/ ReadUnlock(r) \/ ForkChild(r)
    \/ \E u \in Updaters : SyncCall(u) \/ SyncReturn(u)

GPSpec == GPInit /\ [][GPNext]_gpvars

=============================================================================
