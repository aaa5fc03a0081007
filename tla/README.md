# TLA+ models of liburcu

This directory holds TLA+ specifications of the userspace RCU library
(liburcu), the TLC configurations that check them on small instances, and
TLAPS proofs of the results that matter most. `PROJECT.json` lists the parts of
the library, the runs, the source lines behind each definition, the mutants
that show each property can fail, the hazards and the theorems.

    tlc -workers 2 -config FlavorsSafety.cfg MCFlavors   # a run
    tlapm UrcuProof.tla                                  # a proof

## The library

liburcu lets readers look at shared data without locks. An updater unpublishes
a datum, calls `synchronize_rcu()` and then frees it: the call returns only
when every read-side critical section that could still hold a reference has
ended. Everything else is built on that promise.

| Part | State | Operations | Hard because | Correct when | Module |
|---|---|---|---|---|---|
| flavors mb / memb / signal (`src/urcu.c`, `static/urcu.h`) | `rcu_gp.ctr` (phase bit), `rcu_gp.futex`, per-reader counter, three lists of readers, two mutexes | read lock/unlock (nested), register/unregister, `synchronize_rcu()` | readers run without barriers; the registry lock is dropped during a wait; sleep and wake-up race | no grace period ends early; every grace period ends | `Urcu` |
| qsbr flavor (`src/urcu-qsbr.c`) | counter, per-reader `waiting` flag, futex | online, offline, quiescent state, `synchronize_rcu()` | flag and futex are written and read in opposite orders; 32 and 64 bits differ | as above | `Qsbr` |
| bp flavor (`src/urcu-bp.c`) | arena of readers, thread key, reference count | automatic registration, exit notifier, fork handlers | signals, fork, destructor order | as above, and slots are not shared or lost | `UrcuBp` |
| caller batching (`src/urcu-wait.h`) | stack of waiters, a state word per waiter | join, lead, wait, wake | nodes live in the stack frames of callers that return | each caller has its own guarantee; no node is touched after its owner returned; nobody is forgotten | `UrcuWait` |
| RCU pointers (`static/urcu-pointer.h`) | a pointer and the nodes | dereference, assign, xchg, cmpxchg | publication order, concurrent writers | no use after free, no double free | `RcuPointer` |
| `call_rcu` / `rcu_barrier` (`src/urcu-call-rcu-impl.h`) | per-thread, per-CPU and default workers with a callback queue | enqueue, worker loop, create, free, barrier, fork | wake-up races, migration of callbacks, fork | each callback runs once, after a grace period; the barrier waits for all; freed workers are not used | `CallRcu` |
| `defer_rcu` (`src/urcu-defer-impl.h`) | a ring per thread, one reclamation thread | defer, barrier, register, unregister | encoded entries, full ring, stop races sleep | entries decode to what was encoded and run after a grace period | `Defer` |
| work queue (`src/workqueue.c`) | worker thread, queue | queue, flush, pause, resume, create in child | fork, destruction | queued work is run once; a flush waits for it | `Workqueue` |
| wfcqueue, wfqueue, rculfqueue | linked nodes, head and tail | enqueue, dequeue, splice, iterate | half-linked nodes, dummies, reclamation | linearisable to a queue | `Wfcqueue`, `Wfqueue`, `Rculfqueue` |
| wfstack, lfstack, rculfstack | linked nodes, head | push, pop, pop all, iterate | half-linked nodes, ABA | linearisable to a stack | `Wfstack`, `Lfstack` |
| rculfhash (`src/rculfhash.c`) and its memory backends | split-ordered list, bucket tables, resize target | add, lookup, replace, del, traverse, resize, destroy | logical and physical removal, resize during a traversal, resize against destroy | a node present throughout a lookup is found; unique keys stay unique; nothing freed is touched | `Lfht`, `LfhtResize`, `LfhtMm` |
| lists, reference counts (`list.h`, `hlist.h`, `rculist.h`, `rcuhlist.h`, `ref.h`) | links; a count | insertions, removals, moves; get, put | a reader between any two stores; overflow, get after zero | readers see a list at any time; one release | `Rculist`, `Ref` |
| uatomic (`uatomic/*.h`, `compat_arch_x86.c`) | a word | read, set, cmpxchg, xchg, add, and, or | each architecture builds them otherwise; operand sizes | atomic, on the operand alone | `Uatomic` |
| futex and fallbacks (`futex.h`, `compat_futex.c`) | a mutex and a condition shared by all addresses | wait, wake | missing or failing system call | no lost wake-up | `CompatFutex` |

Interactions: clients call a flavor's read side and `synchronize_rcu()`; the
flavors share the batching of `urcu-wait.h`, which is built on wfstack;
`call_rcu` and `defer_rcu` call `synchronize_rcu()` from worker threads, and
`call_rcu` and the work queue hold their work in a wfcqueue; rculfhash uses
`call_rcu`, the work queue and RCU pointers; rculfqueue frees its dummies by
`call_rcu`; the fork handlers of `call_rcu`, bp and rculfhash call one another.

## Modules

    GracePeriod            the promise: synchronize_rcu() as callers see it
      ^ refined by   Urcu          detection of a grace period (mb, memb, signal)
      ^ refined by   Qsbr          the qsbr flavor
      ^ refined by   UrcuBp        the bp flavor
      ^ refined by   UrcuWait      batching of concurrent callers
      ^ extended by  RcuPointer    publish / wait / free on top of the promise
    Container              the promise of a queue or stack
      ^ refined by   Wfcqueue, Wfqueue, Rculfqueue, Wfstack, Lfstack
    AtomicMemory           the promise of the atomic operations
      ^ refined by   Uatomic
    CallRcu, Workqueue, Defer          deferred work
    Lfht, LfhtResize, LfhtMm           the hash table
    Rculist, Ref, CompatFutex          lists, reference counts, futexes
    UrcuProof, QsbrProof, UrcuBpProof, UrcuWaitProof,
    ReclaimProof, ContainersProof, CallRcuProof,
    LfhtProof                          theorems
    CallRcuInvariant                   the invariant of CallRcuProof
    MCFlavors, MCUrcu, MCWaiting, MCUrcuWait,
    MCDeferred, MCContainers, MCLfht   the instances TLC checks

The layers fit as follows. `UrcuWait` takes the leader's grace period at its
promise, which `Urcu` is proved to keep; `RcuPointer` takes the promise for
every caller, which `UrcuWait` is proved to keep: the three together go from
the store buffers to the absence of a use after free. The leader's grace period
of the qsbr and bp flavors keeps the same promise, by proof. `CallRcu`, `Defer`, the
containers and the hash table take grace periods at the same promise, in the
form of the sections that ran when the wait began; `CallRcu` and `Workqueue`
take their queue as the FIFO that `Wfcqueue` is proved to be; `LfhtResize`
takes the work queue at the promise of `Workqueue`, and `Lfht` the moments at
which a resize may start and stop at that of `LfhtResize`.

An MC module that extends several components has a variable (`unit`, `linked`
or `waited`) that says which of them a behavior is about: components that share
no state are explored one after the other and not as a product, and those not
chosen stay in one initial state. In a run a *program* (`CPrograms`,
`DPrograms`, `LfqPrograms`, `LfhtPrograms`, `RzPrograms`, `WfcqUses`) is a choice of
which thread makes which calls; all interleavings of the calls of a program are
explored, any number of times unless a bound below says otherwise.

### GracePeriod

`cs` is the set of readers inside an outermost section, `pre[u]` the sections
that ran when `u` called `synchronize_rcu()` and still run, `sync[u]` whether
`u` is in the call. The only guard that matters is `pre[u] = {}` in
`SyncReturn`. Sections that start later are not waited for. `ForkChild` is the
view of a child process: the sections of all threads but the one that forked are
over. It asks that nobody is in the call, which is what the fork handlers of bp
obtain by holding the lock.

### Urcu

One action per step of a reader or of the leader (the thread that holds
`rcu_gp_lock`) that another thread can observe. Names are those of the code:
`rcu_read_lock`, `wake_up_gp`, `wait_gp`, `smp_mb_master`, `sigrcu_handler`.

* **Memory.** Total store order, the x86 model. A reader's stores to its own
  counter wait in `buf[r]`, in order; `Commit` moves the oldest to memory. A
  full barrier waits until the buffer is empty. `smp_mb_slave` is such a barrier
  in the mb flavor only. In the memb flavor the leader's `smp_mb_master` makes
  every reader drain its buffer; in the signal flavor it does so for the readers
  on the `registry` list, as `force_mb_all_readers()` does. The leader's own
  stores are each followed by a locked instruction or a full barrier and are
  immediate. Loads are not reordered with each other on TSO; weaker processors
  are out of the model. A memb build on a kernel without `sys_membarrier` uses
  real barriers on both sides and is the mb flavor of the model.
* **Counters.** A counter is a phase and a nesting depth. At depth 0 the phase
  left behind is dead (`_rcu_read_lock_update()` overwrites it without looking)
  and is cleared.
* **Lists.** The registry, `cur_snap_readers` and `qsreaders` are the values of
  `list[r]`. Registration and unregistration are atomic because they hold
  `rcu_registry_lock`; they are possible whenever the leader has dropped it.
* **wait_for_readers** is `Iterate`, one `ScanReader` per reader (readers move
  between two of them), `ScanDone`, and then either the end of the pass or
  `UnlockRegistry`, `wait_gp`, `FutexWait`, `RelockRegistry`. `pass` tells the
  two calls apart. The decision to sleep, the barriers before and after a scan,
  and the reset of the futex are where the code has them.
* **Futex.** Values below -1 are all represented by -2: the code only compares
  with -1, decrements, and sets 0. `SpuriousWakeup` covers `EINTR` and a return
  of 0 without a wake-up.
* `pre` is a history variable: the sections that ran when the leader started.
* Left out: the `HAS_INCOHERENT_CACHES` branch, library constructors, errors
  that end in `urcu_die()`, and read-side sections in signal handlers.

### UrcuWait

Each caller's node is named by the caller. `state[u]` is the set of flags in
it; `{}` is `URCU_WAIT_WAITING`. `cds_wfs_push` is two steps (exchange the head,
link), so that a waker can meet a node whose link is missing. The waker's
assertion is a step that goes to `assert_failed` when it does not hold. The
busy-waiting loops are one test each: a loop that fails its test repeats it. A
`FUTEX_WAIT` that returns 0 spuriously is only in `SpuriousSpec`, because the
code does not survive it (see Findings). Accesses are atomic read-modify-writes
or separated from them by barriers, so memory is sequentially consistent here.

### RcuPointer

`mem[n]` is free, allocated but not filled (`raw`), or filled; freed nodes are
allocated again. `Fill` is a separate step because the stores that initialise a
node may still be pending when the writer goes on; the barrier in
`rcu_set_pointer()` and the atomic operations waits for it. `style` selects the
two ways the benchmarks publish: `rcu_xchg_pointer()` or
`rcu_cmpxchg_pointer()` without a lock (`test_urcu.c`), and
`rcu_assign_pointer()` under a mutex held from the allocation to the free
(`test_urcu_assign.c`). The reaction to a failed `rcu_cmpxchg_pointer()` (drop
the new node) follows the comment in `urcu-pointer.h`, as no test uses it.

### Qsbr

An online thread is taken to be in a section until it reports a quiescent state
or goes offline. `QBits` selects the variant: with 64 bits the counter counts
grace periods, with 32 bits it is a parity and there are two passes. The
`waiting` flags and the futex are separate steps on both sides, in the order of
`urcu_qsbr_wake_up_gp()` and of `wait_for_readers()`. Readers follow each store
with a full barrier, so memory is sequentially consistent. The leader may be a
registered online thread, which goes offline for the call.

### UrcuBp

`_rcu_bp_read_lock()` registers the thread on first use. The arena is a sequence
of chunks that grows as `expand_arena()` does: in place when the mapping can be
extended, or with a new chunk. `cleanup_thread()`, the reference count of
`rcu_bp_init()` / `urcu_bp_exit()`, and the key's destructor are actions;
`urcu_bp_thread_exit_notifier()` can be overtaken by a signal handler or a
later destructor that registers again. Signals are delivered at any step of a
thread in `Signalled` unless the code has them blocked, so also in
`rcu_bp_exit()`, which runs after the mask has been restored: a handler may
register again there, and one that has to register while its own thread holds
`init_lock` waits for itself, in the model as in the code. `fork` leaves the
calling thread alone in the child, which prunes the registry. Polling has no
futex, so liveness rests on the polls.

### CallRcu

`crdp` structures are allocated, set as the thread's or the CPU's, and freed.
The worker's loop is cut where another thread can come in between: the futex
decrement, the splice, the grace period, each callback, the emptiness test, the
sleep. `free_all_cpu_call_rcu_data()` reads the crdp of the CPU without the
mutex, takes it away from the CPU under the mutex (`FreeSetCpu`), waits for a
grace period and frees what it has read. Two callers at once would free one crdp
twice, and nothing in the code excludes them: `CallRcuAssumption` leaves the
call to one thread of a program. `call_rcu_data_free()` stops the worker,
splices what is left into the default queue and then takes the mutex to leave
the list, in that order; `rcu_barrier()` queues one completion per `crdp` and
sleeps on its count; `call_rcu_before_fork()` pauses the workers, and parent and
child go on from there. The futex of a worker is an integer with the wrap-around
range `FutexHalf`. Callbacks that call `call_rcu()` themselves are not
enumerated.

### Workqueue

As rculfhash uses it: the first table creates the queue and its worker, each
table queues and flushes its works, the last one destroys it; the atfork
handlers pause, resume and recreate the worker. The mutex of
`cds_lfht_init_worker()` and `cds_lfht_fini_worker()` and the count of users are
part of it.

### Defer

The ring is an array of `DQSize` words with free-running `head` and `tail` modulo
`WordRange`, and a callback is encoded to one, two or three words as in
`_defer_rcu()`: a change of function is marked by bit 0 or by `DQ_FCT_MARK`.
`rcu_defer_barrier_queue()` decodes. A history of what was deferred is compared
with what the drain calls. The last thread that unregisters stops the
reclamation thread, which may be about to sleep.

### Container, Wfcqueue, Wfqueue, Rculfqueue, Wfstack, Lfstack

`Container` has sequences of nodes and, per thread, the call under way; a call
takes effect in one step between its call and its return. The refinement
mappings of the five modules give the sequence as a history variable that
changes at the linearisation point of the code (the exchange or the
compare-and-swap), so a wrong order of the links shows as a return that the
sequence does not allow. Each shared access is one step. Blocking calls repeat
their tests; nonblocking ones return `WOULDBLOCK`. `Wfstack` and `Lfstack` follow
one of the documented synchronization techniques in each behavior (RCU, a mutex,
a single consumer); `Lfstack` with technique `rculfstack` is the deprecated API.
A node is reused as soon as the documentation allows it.

### Lfht, LfhtResize, LfhtMm

`Lfht` is the list at the level of single reads and compare-and-swaps of `next`
pointers, with the flags REMOVED, BUCKET and REMOVAL_OWNER: add, add unique, add
replace, replace, del, lookup, next duplicate, traversal, and the addition and
removal of bucket nodes of an order by the resizer, with garbage collection by
whoever meets a removed node. A removed node is reused after a grace period.
`LfhtResize` has the counters and thresholds, `resize_target`,
`resize_initiated`, the works, the loop under the resize mutex and destruction;
`ht->count` is signed, and compared as the unsigned long that `check_resize()`
reads.
`LfhtMm` computes the cell of each bucket in the three backends with the
arithmetic of the code (`fls` is taken by its result) and compares cells of
buckets in use: allocated and pairwise different.

### Rculist, Ref, Uatomic, CompatFutex

`Rculist` makes each update store by store; `ListsAreSound` says that
the links in both directions are what the calls ask for, and that a reader that
runs between any two stores meets every item that stays in the list once.
`Ref` has
the count with the largest long as a constant, and readers that find the object
until `release()` unpublishes it. `Uatomic` builds each operation as its
architecture does and refines `AtomicMemory`. `CompatFutex` runs the waker and
waiter protocol of the library over the system call, the condition variable and
the polling loop, and over a system call that fails with `ENOSYS` now and then.

## Runs

| Run | Instance | Shows |
|---|---|---|
| `flavors_safety` | `MCFlavors`: 2 threads in each flavor, nesting 2, all five flavors and both widths of qsbr, symmetry | `GracePeriodGuarantee` and the three refinements: no grace period ends before a section it must wait for. `BpSlotsOwned`, `BpRegistryIsCurrent`: a reader of bp neither shares nor loses its slot, after a fork too |
| `urcu_liveness` | `MCUrcu`: 2 readers, mb with nesting 2 and memb with nesting 1 | `SynchronizeReturns`: the futex loses no wake-up; deadlock is checked |
| `waiting` | `MCWaiting`: 3 callers and 1 reader; qsbr with 1 thread; bp with 2 threads and a fork | batching: `WakersTouchLiveNodes`, `WakeUpAssertHolds`, `ImplementsGracePeriod`, `EveryCallReturns`; `QsbrSynchronizeReturns`, `BpSynchronizeReturns` |
| `deferred_safety` | `MCDeferred`: 2 threads; 3 crdps, 1 callback head (2 when both threads call); 1 work; rings of 4 words; 1 fork | `EveryCallbackOnce`, `CallbackAfterGracePeriod`, `UsedMemoryIsLive`, `BarrierCoversPending`; `EveryWorkOnce`, `FlushCoversWork`; `RingHoldsDeferred`, `DeferAfterGracePeriod` |
| `deferred_progress` | `MCDeferred`: smaller programs, fairness | `CallRcuProgress`, `WorkGetsDone`, `DeferredRuns`: nothing queued is forgotten and every call returns |
| `containers` | `MCContainers`: 3 threads (2 in rculfqueue), 2 nodes, symmetry | the five refinements of `Container`; `UatomicIsAtomic`; `ReadersSeeLiveNodes` (RCU pointers); `ReleaseIsFinal` (reference counts); `FutexNoLostWakeup` |
| `lfht` | `MCLfht`: 2 threads and a resizer, up to 5 nodes, 2-bit hashes, up to 4 buckets (8 in the resize control); lists of 3 entries with a reader, symmetry | `LfhtFindsKeys`, `LfhtNoDuplicates`, `LfhtOneOwner`, `LfhtTouchesLiveNodes`; `LfhtNoResizeAfterDestroy`; `LfhtMmBucketsHaveMemory`; `ListsAreSound` |
| `urcu_signal` | `MCUrcu`: 1 reader, signal | `SynchronizeReturns` is violated |
| `urcu_wait_spurious` | `MCUrcuWait`: 1 reader, 2 callers | `WakeUpAssertHolds` is violated |
| `rcu_barrier_hangs` | `MCDeferred`: a barrier against a thread that frees its crdp | `CallRcuProgress` is violated |
| `rculfqueue_frees` | `MCContainers`: 2 threads, 3 nodes | `LfqTouchesLiveNodes` is violated |
| `lfht_auto_resize` | `MCLfht`: automatic resizes | `LfhtAutoResizeDone` is violated |

### Bounds

* Flavors. `QsAttempts` = 2 stands for `RCU_QS_ACTIVE_ATTEMPTS` = 100: one scan
  without and any number with the futex armed. Nesting 2 has an inner lock and
  unlock. With two readers one can be in the old and one in the new phase, and
  one can come and go while the other is waited for. `BufSize` = 1 lets one
  store be late; the proof of `GracePeriodHolds` covers any size, nesting and
  number of readers. `QMaxCtr` = 3 grace periods of the 64-bit counter: readers
  can be up to two behind. `InitSlots` = 1 with `SlotSize` = 2 makes the second
  thread of bp expand the arena.
* Batching. Three callers give a leader, a waiter in its batch and the leader of
  the next batch, with the mutex contended. Readers do not interact with each
  other there, so one is enough.
* Deferred work. Three crdps are the default one, one that is being freed and
  its successor. A callback head is queued again after it ran, so that runs
  and callbacks of several generations meet; two heads let two threads race for
  the creation of the default crdp. A ring of 4 words holds an entry of
  3 words and is then full to within its margin; indexes of 8 values wrap.
* Containers. Two nodes are enough for ABA (a node leaves and comes back while
  another one takes its place) and for half-linked successors. `LONG_MAX` = 3
  and 4-bit words bring overflow into reach.
* Hash table. Five nodes of three keys give equal keys, equal hashes of
  different keys, and a key that moves to a bucket of its own. One commit is two
  operations (`COUNT_COMMIT_ORDER` = 1). At most one work is in the queue.
* In `deferred_safety` and `deferred_progress` no program frees a crdp while
  another thread is in `rcu_barrier()` or forks, in `containers` no two
  threads use rculfqueue while grace periods end: the findings below are about
  these cases and would end the exploration.

`CHECK_DEADLOCK FALSE` is in the runs whose programs are bounded and end: bounded
counters, forks and registrations leave threads with nothing to call. Progress of
calls under way is the subject of the liveness properties instead. Symmetry is
used in runs without liveness only.

### Fairness

In the liveness runs only. Nobody has to enter a section, to register or to make
a call, and no sleep has to end by itself.

* `Urcu`: `WF(LeaderStep)`, `WF(ReaderProgress)`: a thread inside the library is
  scheduled, and store buffers drain. `WF(sigrcu_handler)`: a signal or a
  membarrier interrupt is delivered (`force_mb_all_readers()` repeats the signal
  until it is). `SF(rcu_read_unlock)`: a section ends, however often it nests,
  which RCU demands of its users.
* `UrcuWait`: `WF(UpdaterStep)`; `SF(LockGP)`: a thread that waits for the mutex
  gets it in the end; `WF(Leave)`: sections end.
* `Qsbr`: `WF` of the leader's and the readers' steps inside the library and of
  the end of sections; `SF(qctr[t] # 0 /\ rcu_quiescent_state(t))`: an online
  thread reports quiescent states again and again, which `doc/rcu-api.md`
  demands. A thread that is offline has to do nothing any more.
* `UrcuBp`: `WF(BpStep)`: threads inside the library are scheduled; a handler
  ends its sections and returns (`WF`), and so does the thread it interrupts
  however often it is interrupted (`SF`).
* `CallRcu`: `WF` of each worker's and each thread's steps inside the library, of
  the end of sections.
* `Workqueue`: `WF` of the worker and of the users inside a call;
  `SF(cds_lfht_fini_worker)`, which waits for a mutex.
* `Defer`: `WF(thr_defer)`, `WF(DThreadStep)`, `WF(DLeave)`; `SF` of the two
  steps of the reclamation thread that wait for `rcu_defer_mutex`.

## Findings

* **Signal flavor, second pass** (`urcu_signal`). During the second
  `wait_for_readers()` the readers waited for are on `cur_snap_readers`, but
  `force_mb_all_readers()` signals the `registry` list. A reader that left its
  section, read `futex` as 0, and whose counter store has not yet reached memory
  when the leader decrements the futex and scans, is taken for active; the
  leader sleeps and the reader has already done its test. On real processors the
  window is the time a store stays in the store buffer, so this is rare; the
  ordering the comments rely on is nevertheless not there. The grace-period
  guarantee is not affected: the proof covers this flavor.
* **Spurious futex return** (`urcu_wait_spurious`). A `FUTEX_WAIT` that returns
  0 without a wake-up makes the waiter set `URCU_WAIT_RUNNING` itself. The waker
  then fails its assertion or, if it sees the flag earlier, skips the waiter,
  which waits for `URCU_WAIT_TEARDOWN` for ever. `wait_gp()` in `urcu.c` has the
  same loop and is safe, because the leader scans again.
* **rcu_barrier() against call_rcu_data_free()** (`rcu_barrier_hangs`). The freer
  stops the worker and moves the leftover callbacks away before it takes
  `call_rcu_mutex` and leaves the list. A barrier in between queues a completion
  on a queue without a worker; the structure is freed and the barrier waits for
  ever.
* **rculfqueue, tail behind head** (`rculfqueue_frees`). Dequeuers do not look at
  `tail`. A node can be dequeued, and a grace period for it begun, while `tail`
  still points at it; a thread that enters its section after that finds it there,
  and the grace period does not wait for it.
* **Lazy resize** (`lfht_auto_resize`). `resize_initiated` is set after the work
  was queued. A worker that is done before leaves the flag set for good, and
  automatic resizing stops until a forced `cds_lfht_resize()`.

Met while reading and not the subject of a run:

* `call_rcu_before_fork()` waits for `URCU_CALL_RCU_PAUSED`
  (`urcu-call-rcu-impl.h:927`) from every crdp on the list, also from one whose
  worker has stopped and whose freer waits for the mutex that the forking thread
  holds.
* `rcu_defer_register_thread()` asserts `last_head == 0`
  (`urcu-defer-impl.h:430`), but a thread that registers a second time has the
  value of its first registration.
* `_uatomic_and()` for 2 bytes in the compare-and-swap half of
  `uatomic/generic.h` has no `return` and falls through to 4 bytes. No
  architecture that uses this half has operands of 2 bytes.
* `cds_lfq_destroy_rcu()` returns `-EPERM` for an empty queue that has two
  dummies, as left by racing dequeuers.
* `cds_lfht_resize()` with a size that is no power of two never finds its target
  reached. `cds_lfht_destroy()` that returns `-EPERM` leaves
  `in_progress_destroy` set. `cds_list_replace_init()` with an empty head gives
  the new head links to the old one.

## Proofs

Proved by TLAPS, for every value of the constants that satisfies the named
assumptions. Each proof has an inductive invariant, a conjunction of named parts;
TLC checked the parts on small instances before they were proved.

| Module | Theorem | States |
|---|---|---|
| `UrcuProof` | `TypeCorrect`, `GracePeriodHolds`, `Refinement` | mb, memb, signal: `GracePeriodGuarantee`, `ImplementsGracePeriod` |
| `QsbrProof` | `QsbrTypeCorrect`, `QsbrRefinement` | qsbr on 32 and 64 bits: `QsbrImplementsGracePeriod` |
| `UrcuBpProof` | `BpTypeCorrect`, `BpSlotsAreOwned`, `BpRegistryStaysCurrent`, `BpRefinement` | bp: `BpSlotsOwned`, `BpRegistryIsCurrent`, `BpImplementsGracePeriod` |
| `UrcuWaitProof` | `TypeCorrect`, `WakersTouchLiveMemory`, `AssertionNeverFails`, `Refinement` | batching: `WakersTouchLiveNodes`, `WakeUpAssertHolds`, `ImplementsGracePeriod` |
| `ReclaimProof` | `TypeCorrect`, `NoUseAfterFree`, `NoDoubleFree` | RCU pointers: `ReadersSeeLiveNodes`, `RetiredOnce` |
| `ReclaimProof` | `DeferWaits`, `DeferRings` | defer_rcu: `DeferAfterGracePeriod`, `RingHoldsDeferred` |
| `CallRcuProof` | `EveryCallbackOnceHolds`, `CallbackAfterGracePeriodHolds`, `UsedMemoryIsLiveHolds`, `BarrierCoversPendingHolds` | call_rcu: `EveryCallbackOnce`, `CallbackAfterGracePeriod`, `UsedMemoryIsLive`, `BarrierCoversPending` |
| `ContainersProof` | `RefReleaseIsFinal`, `FutexWakeupsArrive` | `ReleaseIsFinal`, `FutexNoLostWakeup` |
| `ContainersProof` | `LfstackRefinement`, `WfstackRefinement` | stacks: `LfsImplementsLifo`, `WfsImplementsLifo` |
| `ContainersProof` | `WfcqueueRefinement`, `WfqueueRefinement` | queues: `WfcqImplementsFifo`, `WfqImplementsFifo` |
| `ContainersProof` | `UatomicRefinement` | uatomic on every build: `UatomicIsAtomic` |
| `LfhtProof` | `WorkRunsOnce`, `FlushesCoverWork` | work queue: `EveryWorkOnce`, `FlushCoversWork` |
| `LfhtProof` | `NoResizeAfterDestroy` | resize control: `LfhtNoResizeAfterDestroy` |

Assumptions. The sets of threads, readers, nodes and works are arbitrary, and
the values that stand for "nobody" or `NULL` are not members of them. Threads are
finitely many where the code counts them (`BpAssumption`,
`WorkqueueAssumption`), and so are the crdps, whose number the references of a
barrier count (`CallRcuAssumption`). Bounds are positive numbers of any
size. `LfstackAssumption`, `WfstackAssumption`, `WfcqueueAssumption` and
`WfqueueAssumption` also separate `NULL` from the tuples the models use for
answers, `UatomicAssumption` from calls and results. `DeferAssumption`
has a ring of at least four words whose size divides the range of a word, which
is even: 4096 and a power of two in the code. `UatomicAssumption` fixes a long of
four bits, on which operands of one, two and four bits stand for those of a byte
and more; the proof needs the powers of two as numbers. None of them restricts what the
code may do.

### UrcuProof

The guarantee speaks of the last step only; the inductive invariant `IInv` says
why it is so:

* `ViewInSection`: a reader's own view of its counter, buffered stores included,
  tells whether it is in a section. `Registered`, `PreInSection`: readers in a
  section are on a list, and `pre` is a part of `cs`.
* `Visible(r)`: memory shows `r` active and no store in its buffer says
  otherwise or changes the phase. `VisibleMB` has it for every section of the mb
  flavor. In the others `BarrierCovers` obtains it, for the readers in `pre`,
  from the first forced barrier; it lasts until the section ends.
* `Control`, `Settled`: what the program counter of the leader says about the
  lock, the pass and the lists.
* `PreAwaited`: after the first barrier each reader in `pre` is visible and is
  still on the list where a pass will wait for it: the registry in the first
  pass, or set aside with the phase that the flip turns into the old one.

The lemmas `StoreView`, `CommitView`, `FlushView` say what the memory model does
to a view and to visibility; `MemoryStep`, `ReaderStepKeeps` and
`LeaderStepKeeps` are the frame arguments; `ReaderPreserves` and
`LeaderPreserves` go through the actions. The proof of the first barrier in the
signal flavor rests on `Settled`: at that moment no reader is set aside, so
`registry` holds them all.

### QsbrProof

A thread inside a section stores nothing to its counter. On 64 bits `QCounters`
(no counter is ahead of `rcu_gp.ctr`) makes a counter from before the increment
differ from the new value, so one pass is enough; on 32 bits the counter is a
parity and `QPreAwaited` follows a thread from the registry over
`cur_snap_readers` to the pass that waits for it. `QCaller` is needed because
the caller may itself be a registered thread that goes offline and back online.

### UrcuBpProof

Three arguments share the invariant `BpIInv`.

* Arena. `BpArena`: slots lie inside their chunk and `used` is exactly the room
  they take, so `arena_alloc()` finds a free slot whenever `used` leaves room for
  one (`RoomFits`: chunks with fewer slots taken than they hold), also after
  `expand_arena()` in place.
* Life of the library. `BpReferences`: the count of `urcu_bp_init()` is at least
  the number of references held (the constructor's, those of registered or
  registering threads, those that an exit is about to drop), hence
  `urcu_bp_exit()` frees the arena only when no thread has a slot in it.
* Grace period. `BpThreads`, `BpLocks`, `BpLists` and `BpPreAwaited`, as in
  `UrcuProof` but without store buffers, and with the contexts that signal
  handlers interrupt. After a fork a slot without a thread exists only while
  the child has not pruned its registry (`BpSlots`).

The refinement used to be stated against a promise without `ForkChild`. The proof
attempt showed that a fork with two other threads inside sections ends both
sections in one step, which is no step of that promise; instances with two
threads cannot show it.

### UrcuWaitProof

The invariant says that a partition `B` of the pushed nodes exists: each is on
the stack, or in the batch of one leader. Within a list no two nodes have the
same successor (`Links`), so a leader meets each node of its batch once (`Place`)
and nobody else has its address. `Flags` then ties the flags of a node to the
step its leader is at: a waiter that has not seen `TEARDOWN` is still in its
call, which is `WakersTouchLiveNodes`. `Sections` bounds what a caller must wait
for by what its leader waits for.

### ReclaimProof

*RCU pointers.* The invariant relates a writer that owns a node to the readers
that can hold it: once the node is unpublished, only readers whose section
already ran can have it among their references, `SyncCall` puts them all into
`pre`, and `SyncReturn` waits until they have left.

*defer_rcu.* The counters of a ring wrap, its slots are used again and again, and
what a word means depends on the words before it. The proof therefore speaks of
*positions*, which count the words ever written and do not wrap. `RingOk(t, ...)`
says that a position `v` of the tail and positions `s[1] < s[2] < ...` of the
callbacks exist such that

* `DBounds`: the last one, the head's, is within one round of `v`, and the
  counters are the remainders of the positions;
* `DLayout`: from `s[k]` to `s[k + 1]` lie the words that `Encode` gives for the
  k-th callback after the function of the one before it;
* `JobOk`: every drain under way starts at `s[1]` and ends at one of the `s[m]`;
  the callbacks in between wait only for readers its grace period waits for, and
  for none when it is over;
* a thread that is about to store has room for three words.

The lemmas on remainders (`DPlus`, `DMinus`, `DSlot`, `DSlotApart`, from
`DDivision`) take positions to counters and slots; `DDecodes` says that `Decode`
inverts `Encode`. `DCutAdvance`, `DCutFinish`, `DCutStore` are what a step of the
drain, its end, and `_defer_rcu()` do to the layout; the `Ring...` lemmas add the
drains. `DInv` joins to this that rings are drained under `rcu_defer_mutex`, each
once (`DMutex`), that a thread that empties its own ring does so up to the head
(`DOwn`), and that a thread that is not registered has left nothing behind
(`DGone`). There is one lemma for each action; `DMove` is the frame argument for
those that leave the rings alone.

### CallRcuProof

All four properties follow from one invariant, `CIInv /\ CSetting`, which is
stated in module `CallRcuInvariant`. The programs are arbitrary but for the one
thread that may free (`CallRcuAssumption`): any thread may create, call, wait and
fork at any time, also beside the freer and in the combinations that the runs
leave out.

* Control. `CThreadsPlaced`: the stack of return points of a thread, who owns
  `call_rcu_mutex`, and when a callback is in a thread's hands. `CWorkers`: a
  worker has a batch only between splice and dispatch, and is gone or parked
  when its flags say so. `CChild`: after a fork one thread is left, no worker
  but the new default one runs, and the crdps to be freed are live.
* Life of a crdp. `CList` and `CRoles`: a crdp is on the list as long as it
  exists, and has one role: the default one, the CPU's, one thread's, or taken
  by one thread that frees it. `CSetting`: between the freer's read of the CPU's
  crdp and its store of NULL the CPU keeps that crdp, since only a freer
  takes one away. `CUses` says why a crdp in use is not freed: the
  user is the freeing thread itself, holds the mutex that the unlinking needs,
  uses the default crdp, which is never freed, or is in a section that the
  `synchronize_rcu()` before the freeing has to wait for. It is what the grace
  period of `free_all_cpu_call_rcu_data()` and the section of `call_rcu()` are
  for.
* Callbacks. `CCallbacks`: each pending callback is in one queue or batch, once;
  when a crdp is unlinked its queue has none. `CHolds`: the sections that a
  callback of a batch still has to wait for are among those the worker waits
  for.
* Barriers. A barrier's completion has one *token* for each place where it is
  to be queued, queued, or in a batch (`CTokens`); `CRefs` bounds their number by
  the reference count. `CCover` bounds those that will still be counted down by
  `count`, and says that each callback the caller waits for has a token behind
  it, or else `count` is too large ever to reach zero. The latter is a barrier
  whose token was in the queue of a crdp that is unlinked: it hangs, as
  `RcuBarrierHangs.cfg` shows, but does not return early.

In a batch places are counted from the end, so that taking the first item leaves
the tokens of the others alone; most steps then leave `CTokens` as it was or
add or remove one (`CPops`, `CAppendsTokens`, `CMigratedTokens`), and the
cardinalities follow from the theorems on finite sets. `CMove`, `CMoveThread`,
`CWorkAny`, `CKeepsOther` and `CAssemble` are the frame arguments; then comes one
lemma for each action.

### ContainersProof

Seven components without common state. *Reference counts*: `RefCounted` equates
the count with the number of references held, so it reaches zero once and nobody
is left who may call `urcu_ref_get()`. *Futexes*: `FutexNoLostWakeup` is
inductive once one knows that each word has one waiter (`FxOneWaiter`) and that a
waiter and its waker use the same mechanism (`FxMethods`).

The refinements of the containers have one shape: next pointers chain exactly
the nodes of the abstract container. The first three share the lemmas on `Items`,
chains and concatenation.

* *lfstack*. `LfsChains` is the chain, and `LfsOnce` says that a node is in one
  place. `LfsPopping` excludes ABA: the node that a popper has read is still on
  the stack, where its next pointer does not change, or has left it and waits for
  the end of the popper's section; under a mutex or with a single consumer it
  cannot have left.
* *wfstack*. A pushed node is on the stack before it is linked. `WfsAhead` is
  where a node will point once all pushes under way have linked; these pointers
  chain the stack and every popped list (`WfsChains`). `WfsLinkers`: an unlinked
  node has one pusher that will link it. `WfsPopping` is as for lfstack, and
  `WfsWalking` has iterators pass linked nodes only.
* *wfcqueue*. `WfcqAhead` is where a cell will point once enqueuers and splices
  have linked and a dequeuer has restored the head it reset; the tail is the last
  node of that chain. `WfcqConsumers`: dequeuers exclude each other by the lock.
  `WfcqHolding`: a dequeuer knows the first node, and nobody else changes the
  head it has reset. `WfcqWalking`: an iteration has visited a prefix.
* *wfqueue*. `WfqLine` is the sequence of the nodes and the dummy from head to
  tail, and `WfqHeld` says that it is the abstract queue once the dummy is left
  out. `WfqPoints`: a cell points to the one behind it or to nothing yet, and a
  thread that has still to store points its cell at the right one;
  `WfqOneLinker`: no two threads store through the same cell. `WfqAway`: the
  dummy is out of the line exactly while the dequeuer that took it is about to
  queue it again, and only the owner of the lock can be.

*Atomic operations*. `UaCurrent`: while a reservation or the mutex of the compat
build holds, the operand is what was loaded, and the compat build stores nothing
without the mutex. A compare-and-swap needs no such fact: it compares. Each call
takes effect at its last instruction on the memory (`UaTakesEffect`), which changes
the bits of its operand only (`UaBits`); `UaNegated` says that adding the
negated argument subtracts, modulo the size of the operand.

### LfhtProof

*Work queue.* `WqContents`: an item is in the queue or in the worker's batch,
once. `WqCounted` ties `user_count` to the tables that are open, so the queue is
alive as long as somebody can queue a work. `WqFlushes`: a completion that is
not counted down yet stands behind the works of its thread, in the queue and in
the batch, and when the completion has gone over to the batch none of these
works is left in the queue; the splice, the worker of a child and a pause keep
this. `WqRefs` is what keeps a completion allocated.

*Resize control.* `RzLocked` (the mutex is held by whoever is in the resize
loop), `RzPositive` (a resize never stores a size of zero), `RzAutomatic` (the
worker only resizes, and only tables that asked for it) and `RzFlushing`
(whoever destroys the table is alone with the worker).

### Only model-checked

* Liveness under fairness: `SynchronizeReturns`, `EveryCallReturns`,
  `QsbrSynchronizeReturns`, `BpSynchronizeReturns`, `CallRcuProgress`,
  `WorkGetsDone`, `DeferredRuns`. It is out of the prover's reach.
* `LfhtMmBucketsHaveMemory`: it rests on laws of powers of two, a recursive
  function, for arguments that are not known.
* `LfqImplementsFifo` of `Rculfqueue`: it holds for the programs the run has, and
  not for all of them: a tail that stays behind the head (`rculfqueue_frees`) can
  lead an enqueuer to a node that was freed.
* The four invariants of `Lfht` at the level of its list,
  `ListsAreSound`: not attempted. `Lfht` needs reachability along a list
  in which marked nodes stay linked, `Rculist` the operators of sequences with an
  operator as parameter, about which the library has no theorems.

## Not modelled

* Thread-local storage, `urcu_die()`, process support, barriers and cache-line
  constants of `arch/`: wrappers without a protocol of their own.
* Processors weaker than total store order. `Urcu` has store buffers; in the
  other modules the code separates the accesses that matter by full barriers or
  read-modify-writes, as the module headers say.
* `KICK_READER_LOOPS` of `HAS_INCOHERENT_CACHES`; signal handlers with sections
  in `Urcu` (they are in `UrcuBp`).
* `call_rcu`: queue lengths, CPU affinity, more than one CPU, the refusal of
  `rcu_barrier()` inside a section.
* rculfhash: `cds_lfht_count_nodes()`, which promises approximate numbers; the
  helper threads of `partition_resize_helper()`; the implementations of `fls`.
* The safe variants of the list iteration macros, which differ in the cursor
  only; `EINVAL` of unknown futex operations.

## Plan

Every component with a protocol of its own has a module. What is left is to
prove more, in this order: `LfhtTouchesLiveNodes` and `LfhtOneOwner` of `Lfht`;
`ListsAreSound`.
