----------------------------- MODULE RcuPointer ------------------------------
(***************************************************************************)
(* RCU-protected publication of a node through one shared pointer          *)
(* (include/urcu/static/urcu-pointer.h), used the way the repository's own *)
(* tests use it: a writer allocates and fills a node, publishes it, waits  *)
(* for a grace period with synchronize_rcu() and frees the node it         *)
(* replaced; readers fetch the pointer with rcu_dereference() inside a     *)
(* read-side critical section and use what they fetched until they leave   *)
(* it.  Freed nodes are allocated again, so a stale reference would meet   *)
(* recycled memory.                                                        *)
(*                                                                         *)
(* Grace periods are taken at their promise: this module extends           *)
(* GracePeriod, and its own steps are conjoined with GracePeriod's.        *)
(*                                                                         *)
(* Two publication styles occur in the tests and are chosen by "style":    *)
(*   "atomic"  rcu_xchg_pointer() (test_urcu.c) or rcu_cmpxchg_pointer(),  *)
(*             writers run concurrently;                                   *)
(*   "assign"  a load of the old pointer and rcu_assign_pointer() under a  *)
(*             writer mutex that is held until the old node is freed       *)
(*             (test_urcu_assign.c).                                       *)
(***************************************************************************)
EXTENDS GracePeriod

CONSTANTS Nodes, NULL

ASSUME NodesAssumption == NULL \notin Nodes \cup Updaters

VARIABLES
    style,      \* how the writers publish; fixed by Init
    ptr,        \* the shared RCU pointer: a node or NULL
    mem,        \* mem[n]: free, allocated but not yet filled ("raw"), filled
    ref,        \* ref[r]: nodes r fetched in its current critical section
    upc,        \* program counter of each writer
    new,        \* new[u]: the node u allocated
    old,        \* old[u]: the pointer u replaces, or will compare with
    mutex       \* owner of the writers' mutex ("assign" style), or NULL

ptrvars == <<style, ptr, mem, ref, upc, new, old, mutex>>
vars == <<gpvars, ptrvars>>

Styles == {"atomic", "assign"}
WriterPC == {"idle", "alloc", "compare", "unpublished", "waiting", "free"}

TypeOK ==
    /\ GPTypeOK
    /\ style \in Styles
    /\ ptr \in Nodes \cup {NULL}
    /\ mem \in [Nodes -> {"free", "raw", "filled"}]
    /\ ref \in [Readers -> SUBSET Nodes]
    /\ upc \in [Updaters -> WriterPC]
    /\ new \in [Updaters -> Nodes \cup {NULL}]
    /\ old \in [Updaters -> Nodes \cup {NULL}]
    /\ mutex \in Updaters \cup {NULL}

Init ==
    /\ GPInit
    /\ style \in Styles
    /\ ptr = NULL
    /\ mem = [n \in Nodes |-> "free"]
    /\ ref = [r \in Readers |-> {}]
    /\ upc = [u \in Updaters |-> "idle"]
    /\ new = [u \in Updaters |-> NULL]
    /\ old = [u \in Updaters |-> NULL]
    /\ mutex = NULL

-----------------------------------------------------------------------------
(* Readers.                                                                *)

Enter(r) ==
    /\ ReadLock(r)
    /\ UNCHANGED ptrvars

(* rcu_dereference() inside the critical section; the copy may be used     *)
(* until the section ends.                                                 *)
Dereference(r) ==
    /\ r \in cs
    /\ ref' = [ref EXCEPT ![r] = @ \cup ({ptr} \ {NULL})]
    /\ UNCHANGED <<gpvars, style, ptr, mem, upc, new, old, mutex>>

Leave(r) ==
    /\ ReadUnlock(r)
    /\ ref' = [ref EXCEPT ![r] = {}]
    /\ UNCHANGED <<style, ptr, mem, upc, new, old, mutex>>

-----------------------------------------------------------------------------
(* Writers.                                                                *)

(* malloc(), or test_array_alloc() under the writers' mutex.               *)
Allocate(u, n) ==
    /\ upc[u] = "idle"
    /\ mem[n] = "free"
    /\ style = "assign" => mutex = NULL
    /\ mutex' = IF style = "assign" THEN u ELSE mutex
    /\ mem' = [mem EXCEPT ![n] = "raw"]
    /\ new' = [new EXCEPT ![u] = n]
    /\ upc' = [upc EXCEPT ![u] = "alloc"]
    /\ UNCHANGED <<gpvars, style, ptr, ref, old>>

(* The stores that fill the new node reach memory.  They may still be      *)
(* pending when the writer goes on, up to its next write barrier.          *)
Fill(u) ==
    /\ new[u] # NULL
    /\ mem[new[u]] = "raw"
    /\ mem' = [mem EXCEPT ![new[u]] = "filled"]
    /\ UNCHANGED <<gpvars, style, ptr, ref, upc, new, old, mutex>>

(* Mutant: no write barrier before the pointer is published.               *)
NoBarrier(u) == TRUE

(* A barrier orders u's stores to its new node before what follows: the    *)
(* cmm_wmb() of rcu_set_pointer(), the implicit ones of the atomics.       *)
Barrier(u) == mem[new[u]] = "filled"

(* The new node is published: u owns what it replaced, NULL included.      *)
Published(u) ==
    /\ ptr' = new[u]
    /\ new' = [new EXCEPT ![u] = NULL]
    /\ upc' = [upc EXCEPT ![u] = "unpublished"]

rcu_xchg_pointer(u) ==
    /\ style = "atomic"
    /\ upc[u] = "alloc"
    /\ Barrier(u)
    /\ old' = [old EXCEPT ![u] = ptr]
    /\ Published(u)
    /\ UNCHANGED <<gpvars, style, mem, ref, mutex>>

(* The value a later rcu_cmpxchg_pointer() or rcu_assign_pointer() is      *)
(* meant to replace is read first; only the mutex keeps it current.        *)
LoadOld(u) ==
    /\ upc[u] = "alloc"
    /\ old' = [old EXCEPT ![u] = ptr]
    /\ upc' = [upc EXCEPT ![u] = "compare"]
    /\ UNCHANGED <<gpvars, style, ptr, mem, ref, new, mutex>>

rcu_cmpxchg_pointer(u) ==
    /\ style = "atomic"
    /\ upc[u] = "compare"
    /\ Barrier(u)
    /\ ptr = old[u]
    /\ Published(u)
    /\ UNCHANGED <<gpvars, style, mem, ref, old, mutex>>

(* The exchange failed: "returns old (which should not be freed !)"; the   *)
(* writer drops its own, never published node.                             *)
rcu_cmpxchg_pointer_fails(u) ==
    /\ style = "atomic"
    /\ upc[u] = "compare"
    /\ Barrier(u)
    /\ ptr # old[u]
    /\ mem' = [mem EXCEPT ![new[u]] = "free"]
    /\ new' = [new EXCEPT ![u] = NULL]
    /\ old' = [old EXCEPT ![u] = NULL]
    /\ upc' = [upc EXCEPT ![u] = "idle"]
    /\ UNCHANGED <<gpvars, style, ptr, ref, mutex>>

rcu_set_pointer(u) ==
    /\ style = "assign"
    /\ upc[u] = "compare"
    /\ Barrier(u)
    /\ Published(u)
    /\ UNCHANGED <<gpvars, style, mem, ref, old, mutex>>

Synchronize(u) ==
    /\ upc[u] = "unpublished"
    /\ SyncCall(u)
    /\ upc' = [upc EXCEPT ![u] = "waiting"]
    /\ UNCHANGED <<style, ptr, mem, ref, new, old, mutex>>

Synchronized(u) ==
    /\ upc[u] = "waiting"
    /\ SyncReturn(u)
    /\ upc' = [upc EXCEPT ![u] = "free"]
    /\ UNCHANGED <<style, ptr, mem, ref, new, old, mutex>>

(* free(old), a no-op for NULL, and the release of the writers' mutex.     *)
Free(u) ==
    /\ upc[u] = "free"
    /\ mem' = [n \in Nodes |-> IF n = old[u] THEN "free" ELSE mem[n]]
    /\ old' = [old EXCEPT ![u] = NULL]
    /\ mutex' = IF style = "assign" THEN NULL ELSE mutex
    /\ upc' = [upc EXCEPT ![u] = "idle"]
    /\ UNCHANGED <<gpvars, style, ptr, ref, new>>

Reader(r) == Enter(r) \/ Dereference(r) \/ Leave(r)

Writer(u) ==
    \/ \E n \in Nodes : Allocate(u, n)
    \/ Fill(u) \/ LoadOld(u)
    \/ rcu_xchg_pointer(u)
    \/ rcu_cmpxchg_pointer(u) \/ rcu_cmpxchg_pointer_fails(u)
    \/ rcu_set_pointer(u)
    \/ Synchronize(u) \/ Synchronized(u) \/ Free(u)

Next ==
    \/ \E r \in Readers : Reader(r)
    \/ \E u \in Updaters : Writer(u)

Spec == Init /\ [][Next]_vars

-----------------------------------------------------------------------------
(* What the tests assert of every node a reader looks at                   *)
(* ("assert(local_ptr->a == 8)", test_urcu_assign.c:216): a node that a    *)
(* reader fetched with rcu_dereference() is completely filled, and is not  *)
(* freed before the reader's rcu_read_unlock().                            *)
ReadersSeeLiveNodes ==
    \A r \in Readers : \A n \in ref[r] : mem[n] = "filled"

(* A node is freed by one writer only: two writers that replaced the       *)
(* pointer concurrently never both own the node they took out of it, and   *)
(* none of them owns the node that is published ("can be safely freed      *)
(* after waiting for a quiescent state", urcu-pointer.h:78).               *)
Owned(u) == IF upc[u] \in {"unpublished", "waiting", "free"}
            THEN {old[u]} \ {NULL} ELSE {}
RetiredOnce ==
    \A u \in Updaters :
        /\ ptr \notin Owned(u)
        /\ \A v \in Updaters \ {u} : Owned(u) \cap Owned(v) = {}

=============================================================================
