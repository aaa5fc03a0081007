----------------------------- MODULE LfhtResize ----------------------------
(***************************************************************************)
(* When rculfhash resizes (src/rculfhash.c): the split counters and chain  *)
(* lengths that ask for a size, the resize target, the flag that says that *)
(* a resize is under way, the work handed to the workqueue, the loop under *)
(* the resize mutex, cds_lfht_resize() and cds_lfht_destroy().             *)
(*                                                                         *)
(* What a resize does to the list is the subject of module Lfht: here an   *)
(* order is added or removed in one step.  The workqueue runs every work   *)
(* once (module Workqueue).                                                *)
(***************************************************************************)
EXTENDS Integers, FiniteSetsExt

CONSTANTS
    RzThreads,             \* the callers
    RzWorker,              \* the worker of cds_lfht_workqueue
    RzPrograms,            \* the programs: flags of the table, calls, sizes
                           \* asked for, initial size and max_nr_buckets,
                           \* most nodes in it, may malloc() fail?
    RzMaxBuckets,          \* bound: the buckets of a table
    RzMaxItems,            \* bound: the nodes in it
    RzMaxWorks,            \* bound: the works that wait for the worker
    COUNT_COMMIT_ORDER,
    CHAIN_LEN_RESIZE_THRESHOLD,
    split_count_order,     \* the order of split_count_mask + 1
    RzNobody               \* the owner of a free mutex

ASSUME LfhtResizeAssumption ==
    /\ RzWorker \notin RzThreads /\ RzNobody \notin RzThreads \cup {RzWorker}
    /\ {RzMaxBuckets, RzMaxItems, COUNT_COMMIT_ORDER, CHAIN_LEN_RESIZE_THRESHOLD,
        split_count_order} \subseteq Nat
    /\ RzMaxBuckets \in {2^i : i \in 0..RzMaxBuckets}
    /\ \A p \in RzPrograms :
          /\ {p.auto, p.accounting, p.oom} \subseteq BOOLEAN
          /\ p.calls \subseteq {"add", "del", "resize", "destroy"}
          /\ p.sizes \subseteq 1..p.max /\ p.init \in 1..p.max
          /\ p.max \in 1..RzMaxBuckets /\ p.items \in 0..RzMaxItems

VARIABLES
    rz_program,     \* the program of this run
    rz_size,        \* ht->size, 0 once ht is freed
    rz_target,      \* ht->resize_target
    rz_initiated,   \* ht->resize_initiated
    rz_destroy,     \* ht->in_progress_destroy
    rz_mutex,       \* the owner of ht->resize_mutex
    rz_works,       \* the works in cds_lfht_workqueue
    rz_items,       \* the nodes in the table
    rz_split,       \* the split counters, modulo 2^COUNT_COMMIT_ORDER
    rz_count,       \* ht->count
    rz_pc,          \* what each thread does next
    rz_frame        \* the locals of its call

rzvars == <<rz_program, rz_size, rz_target, rz_initiated, rz_destroy, rz_mutex,
            rz_works, rz_items, rz_split, rz_count, rz_pc, rz_frame>>

RzAgents == RzThreads \cup {RzWorker}
RzSizes == {2^i : i \in 0..RzMaxBuckets} \cap 1..RzMaxBuckets
(* cds_lfht_get_count_order_ulong(): the least i such that x <= 2^i, which *)
(* is the number of the powers of two below x.                             *)
CountOrder(x) == Cardinality({i \in 0..(RzMaxBuckets + RzMaxItems) : 2^i < x})
Commit == 2^COUNT_COMMIT_ORDER
SplitCounters == 2^split_count_order

(* The size that the call has read, the size that it wants, what it does   *)
(* after it asked for it, and the sizes that the resize loop works on.     *)
RzNoFrame == [size |-> 0, count |-> 0, then |-> "idle", from |-> 0, to |-> 0]

LfhtResizeInit ==
    /\ rz_program \in RzPrograms
    /\ rz_size = rz_program.init /\ rz_target = rz_program.init
    /\ rz_initiated = 0 /\ rz_destroy = 0
    /\ rz_mutex = RzNobody
    /\ rz_works = 0 /\ rz_items = 0
    /\ rz_split = [add |-> 0, del |-> 0] /\ rz_count = 0
    /\ rz_pc = [t \in RzAgents |-> "idle"]
    /\ rz_frame = [t \in RzAgents |-> RzNoFrame]

RzGoto(t, l) == rz_pc' = [rz_pc EXCEPT ![t] = l]
RzSet(t, f) == rz_frame' = [rz_frame EXCEPT ![t] = f]

(* The call ends.                                                          *)
RzFinish(t) == RzGoto(t, "idle") /\ RzSet(t, RzNoFrame)

(* A caller may use the table until somebody destroys it.                  *)
RzMayCall(t, call) ==
    /\ rz_pc[t] = "idle" /\ call \in rz_program.calls
    /\ rz_size # 0 /\ \A a \in RzThreads : rz_pc[a] # "flush"

-----------------------------------------------------------------------------
(* Additions and removals.                                                 *)

(* cds_lfht_add(): the size is read first; check_resize() may see a long   *)
(* chain before the node is counted.                                       *)
cds_lfht_count_add(t) ==
    /\ RzMayCall(t, "add") /\ rz_items < rz_program.items
    /\ rz_items' = rz_items + 1
    /\ RzSet(t, [RzNoFrame EXCEPT !.size = rz_size])
    /\ \/ RzGoto(t, "chain") \/ RzGoto(t, "split_add")
    /\ UNCHANGED <<rz_program, rz_size, rz_target, rz_initiated, rz_destroy,
                   rz_mutex, rz_works, rz_split, rz_count>>

cds_lfht_count_del(t) ==
    /\ RzMayCall(t, "del") /\ rz_items > 0
    /\ rz_items' = rz_items - 1
    /\ RzSet(t, [RzNoFrame EXCEPT !.size = rz_size])
    /\ RzGoto(t, "split_del")
    /\ UNCHANGED <<rz_program, rz_size, rz_target, rz_initiated, rz_destroy,
                   rz_mutex, rz_works, rz_split, rz_count>>

(* The growth that check_resize() asks for: that of the chain length, but  *)
(* with accounting not beyond the sizes that the counters do not see.      *)
Growth(size, chain) ==
    IF rz_program.accounting
          /\ size * 2^CountOrder(chain) >= Commit * SplitCounters
    THEN COUNT_COMMIT_ORDER + split_count_order - CountOrder(size)
    ELSE CountOrder(chain)

(* The nodes counted are too few for the counters alone.  ht->count is     *)
(* read as an unsigned long: a negative count is a great one.              *)
FewNodes == rz_count \in 0..(Commit * SplitCounters - 1)

(* check_resize() with some length of the chain.                           *)
check_resize(t) ==
    LET size == rz_frame[t].size IN
    /\ rz_pc[t] = "chain"
    /\ \/ /\ rz_program.auto /\ FewNodes
          /\ \E chain \in CHAIN_LEN_RESIZE_THRESHOLD..rz_items :
                /\ Growth(size, chain) > 0
                /\ RzSet(t, [rz_frame[t] EXCEPT
                       !.count = Min({size * 2^Growth(size, chain), rz_program.max}),
                       !.then = "split_add"])
          /\ RzGoto(t, "grow")
       \/ RzGoto(t, "split_add") /\ UNCHANGED rz_frame
    /\ UNCHANGED <<rz_program, rz_size, rz_target, rz_initiated, rz_destroy,
                   rz_mutex, rz_works, rz_items, rz_split, rz_count>>

(* ht_count_add() and ht_count_del(): uatomic_add_return() of the split    *)
(* counter, and every 2^COUNT_COMMIT_ORDER times of ht->count.             *)
SplitCount(t, which, split, count) ==
    /\ rz_pc[t] = split
    /\ \/ /\ ~rz_program.accounting
          /\ RzFinish(t) /\ UNCHANGED rz_split
       \/ /\ rz_program.accounting
          /\ rz_split' = [rz_split EXCEPT ![which] = (@ + 1) % Commit]
          /\ \/ rz_split'[which] # 0 /\ RzFinish(t)
             \/ /\ rz_split'[which] = 0
                /\ RzGoto(t, count) /\ UNCHANGED rz_frame
    /\ UNCHANGED <<rz_program, rz_size, rz_target, rz_initiated, rz_destroy,
                   rz_mutex, rz_works, rz_items, rz_count>>

(* count & (count - 1) is zero.                                            *)
PowerOfTwoOrZero(n) == n = 0 \/ \E i \in 0..RzMaxItems : n = 2^i

(* cds_lfht_resize_lazy_count(): the size wanted, if the table resizes     *)
(* itself and has not got it already.                                      *)
LazyCount(t, count) ==
    LET want == Min({Max({count, 1}), rz_program.max})
        size == rz_frame[t].size
    IN  IF ~rz_program.auto \/ want = size
        THEN RzFinish(t)
        ELSE /\ RzSet(t, [rz_frame[t] EXCEPT !.count = want])
             /\ RzGoto(t, IF want > size THEN "grow" ELSE "shrink")

ht_count_add(t) ==
    LET count == rz_count + Commit IN
    /\ rz_pc[t] = "count_add"
    /\ rz_count' = count
    /\ IF PowerOfTwoOrZero(count)
             /\ count \div 2^CHAIN_LEN_RESIZE_THRESHOLD >= rz_frame[t].size
       THEN LazyCount(t, count)
       ELSE RzFinish(t)
    /\ UNCHANGED <<rz_program, rz_size, rz_target, rz_initiated, rz_destroy,
                   rz_mutex, rz_works, rz_items, rz_split>>

(* A table with few nodes is not shrunk; a negative count is a great       *)
(* unsigned one.                                                           *)
ht_count_del(t) ==
    LET count == rz_count - Commit IN
    /\ rz_pc[t] = "count_del"
    /\ rz_count' = count
    /\ IF PowerOfTwoOrZero(count)
             /\ count \div 2^CHAIN_LEN_RESIZE_THRESHOLD < rz_frame[t].size
             /\ count >= Commit * SplitCounters
       THEN LazyCount(t, count)
       ELSE RzFinish(t)
    /\ UNCHANGED <<rz_program, rz_size, rz_target, rz_initiated, rz_destroy,
                   rz_mutex, rz_works, rz_items, rz_split>>

-----------------------------------------------------------------------------
(* The resize target, and the work that is launched once it has changed.   *)

(* The call has done what it could about the size.                         *)
Asked(t) ==
    /\ RzGoto(t, rz_frame[t].then)
    /\ RzSet(t, IF rz_frame[t].then = "idle" THEN RzNoFrame
                ELSE [rz_frame[t] EXCEPT !.count = 0, !.then = "idle"])

(* resize_target_grow(): _uatomic_xchg_monotonic_increase() takes effect   *)
(* by its compare-and-swap, or not at all.                                 *)
resize_target_grow(t) ==
    LET want == rz_frame[t].count IN
    /\ rz_pc[t] = "grow"
    /\ rz_target' = Max({rz_target, want})
    /\ \/ rz_target >= want /\ Asked(t)
       \/ rz_target < want /\ RzGoto(t, "launch") /\ UNCHANGED rz_frame
    /\ UNCHANGED <<rz_program, rz_size, rz_initiated, rz_destroy, rz_mutex,
                   rz_works, rz_items, rz_split, rz_count>>

(* One uatomic_cmpxchg(&ht->resize_target, size, count) of the lazy        *)
(* shrink: a greater target is a grow under way, and one that is not above *)
(* the count is another shrink.                                            *)
LazyShrink(t) ==
    LET f == rz_frame[t] IN
    /\ rz_pc[t] = "shrink"
    /\ \/ /\ rz_target = f.size
          /\ rz_target' = f.count
          /\ RzGoto(t, "launch") /\ UNCHANGED rz_frame
       \/ /\ rz_target > f.size \/ rz_target <= f.count
          /\ Asked(t) /\ UNCHANGED rz_target
       \/ /\ f.count < rz_target /\ rz_target < f.size
          /\ RzSet(t, [f EXCEPT !.size = rz_target])
          /\ UNCHANGED <<rz_target, rz_pc>>
    /\ UNCHANGED <<rz_program, rz_size, rz_initiated, rz_destroy, rz_mutex,
                   rz_works, rz_items, rz_split, rz_count>>

(* __cds_lfht_resize_lazy_launch(): nothing if a resize is said to be      *)
(* under way, if the table is being destroyed or without memory ...        *)
lazy_launch(t) ==
    /\ rz_pc[t] = "launch"
    /\ \/ /\ rz_initiated = 1 \/ rz_destroy = 1 \/ rz_program.oom
          /\ Asked(t)
       \/ /\ rz_initiated = 0 /\ rz_destroy = 0
          /\ RzGoto(t, "queue") /\ UNCHANGED rz_frame
    /\ UNCHANGED <<rz_program, rz_size, rz_target, rz_initiated, rz_destroy,
                   rz_mutex, rz_works, rz_items, rz_split, rz_count>>

(* ... else urcu_workqueue_queue_work() ...                                *)
LaunchQueue(t) ==
    /\ rz_pc[t] = "queue" /\ rz_works < RzMaxWorks
    /\ rz_works' = rz_works + 1
    /\ RzGoto(t, "launched")
    /\ UNCHANGED <<rz_program, rz_size, rz_target, rz_initiated, rz_destroy,
                   rz_mutex, rz_items, rz_split, rz_count, rz_frame>>

(* ... and CMM_STORE_SHARED(ht->resize_initiated, 1).                      *)
LaunchStore(t) ==
    /\ rz_pc[t] = "launched"
    /\ rz_initiated' = 1
    /\ Asked(t)
    /\ UNCHANGED <<rz_program, rz_size, rz_target, rz_destroy, rz_mutex,
                   rz_works, rz_items, rz_split, rz_count>>

(* cds_lfht_resize(): resize_target_update_count(), then the flag, then    *)
(* the mutex.                                                              *)
cds_lfht_resize(t, new_size) ==
    /\ RzMayCall(t, "resize")
    /\ rz_target' = new_size
    /\ RzGoto(t, "initiate")
    /\ UNCHANGED <<rz_program, rz_size, rz_initiated, rz_destroy, rz_mutex,
                   rz_works, rz_items, rz_split, rz_count, rz_frame>>

ResizeInitiated(t) ==
    /\ rz_pc[t] = "initiate"
    /\ rz_initiated' = 1
    /\ RzGoto(t, "lock")
    /\ UNCHANGED <<rz_program, rz_size, rz_target, rz_destroy, rz_mutex,
                   rz_works, rz_items, rz_split, rz_count, rz_frame>>

(* do_resize_cb(): the worker takes a work.                                *)
do_resize_cb ==
    /\ rz_pc[RzWorker] = "idle" /\ rz_works > 0
    /\ rz_works' = rz_works - 1
    /\ RzGoto(RzWorker, "lock")
    /\ UNCHANGED <<rz_program, rz_size, rz_target, rz_initiated, rz_destroy,
                   rz_mutex, rz_items, rz_split, rz_count, rz_frame>>

-----------------------------------------------------------------------------
(* _do_cds_lfht_resize(), under the mutex.                                 *)

ResizeLock(t) ==
    /\ rz_pc[t] = "lock" /\ rz_mutex = RzNobody
    /\ rz_mutex' = t
    /\ RzGoto(t, "loop")
    /\ UNCHANGED <<rz_program, rz_size, rz_target, rz_initiated, rz_destroy,
                   rz_works, rz_items, rz_split, rz_count, rz_frame>>

(* A table that is being destroyed is not resized any more.                *)
ResizeLoop(t) ==
    /\ rz_pc[t] = "loop"
    /\ \/ /\ rz_destroy = 1
          /\ rz_mutex' = RzNobody /\ RzFinish(t)
          /\ UNCHANGED rz_initiated
       \/ /\ rz_destroy = 0
          /\ rz_initiated' = 1
          /\ RzGoto(t, "sizes") /\ UNCHANGED <<rz_mutex, rz_frame>>
    /\ UNCHANGED <<rz_program, rz_size, rz_target, rz_destroy, rz_works,
                   rz_items, rz_split, rz_count>>

(* old_size = ht->size; new_size = CMM_LOAD_SHARED(ht->resize_target)      *)
ResizeSizes(t) ==
    /\ rz_pc[t] = "sizes"
    /\ RzSet(t, [RzNoFrame EXCEPT !.from = rz_size, !.to = rz_target])
    /\ RzGoto(t, IF rz_size < rz_target THEN "init"
                 ELSE IF rz_size > rz_target THEN "fini" ELSE "clear")
    /\ UNCHANGED <<rz_program, rz_size, rz_target, rz_initiated, rz_destroy,
                   rz_mutex, rz_works, rz_items, rz_split, rz_count>>

(* _do_cds_lfht_grow(): an order of init_table(), unless the target has    *)
(* become smaller.  _cds_lfht_add() of its bucket nodes may see a long     *)
(* chain itself, and raise the target while resize_initiated is set.       *)
_do_cds_lfht_grow(t) ==
    LET f == rz_frame[t] IN
    /\ rz_pc[t] = "init"
    /\ \/ /\ rz_target < 2 * f.from
          /\ RzGoto(t, "clear")
          /\ UNCHANGED rz_target
       \/ /\ rz_target >= 2 * f.from
          /\ RzGoto(t, "grown")
          /\ \/ /\ rz_program.auto /\ FewNodes
                /\ rz_items >= CHAIN_LEN_RESIZE_THRESHOLD
                /\ rz_target' = Max({rz_target, Min({4 * f.from, rz_program.max})})
             \/ UNCHANGED rz_target
    /\ UNCHANGED <<rz_program, rz_size, rz_initiated, rz_destroy, rz_mutex,
                   rz_works, rz_items, rz_split, rz_count, rz_frame>>

(* CMM_STORE_SHARED(ht->size, 1UL << i), and go on to the next order.      *)
GrownOrder(t) ==
    LET f == rz_frame[t] IN
    /\ rz_pc[t] = "grown"
    /\ rz_size' = 2 * f.from
    /\ RzSet(t, [f EXCEPT !.from = 2 * f.from])
    /\ RzGoto(t, IF 2 * f.from < f.to /\ rz_destroy = 0 THEN "init" ELSE "clear")
    /\ UNCHANGED <<rz_program, rz_target, rz_initiated, rz_destroy, rz_mutex,
                   rz_works, rz_items, rz_split, rz_count>>

(* _do_cds_lfht_shrink(): an order of fini_table(), unless the target has  *)
(* become greater.                                                         *)
_do_cds_lfht_shrink(t) ==
    LET f == rz_frame[t] IN
    /\ rz_pc[t] = "fini"
    /\ \/ /\ rz_target > f.from \div 2
          /\ RzGoto(t, "clear")
          /\ UNCHANGED <<rz_size, rz_frame>>
       \/ /\ rz_target <= f.from \div 2
          /\ rz_size' = f.from \div 2
          /\ RzSet(t, [f EXCEPT !.from = f.from \div 2])
          /\ RzGoto(t, IF f.from \div 2 > f.to /\ rz_destroy = 0 THEN "fini"
                       ELSE "clear")
    /\ UNCHANGED <<rz_program, rz_target, rz_initiated, rz_destroy, rz_mutex,
                   rz_works, rz_items, rz_split, rz_count>>

(* ht->resize_initiated = 0, before the target is read again.              *)
ResizeClear(t) ==
    /\ rz_pc[t] = "clear"
    /\ rz_initiated' = 0
    /\ RzSet(t, RzNoFrame)
    /\ RzGoto(t, "test")
    /\ UNCHANGED <<rz_program, rz_size, rz_target, rz_destroy, rz_mutex,
                   rz_works, rz_items, rz_split, rz_count>>

(* while (ht->size != CMM_LOAD_SHARED(ht->resize_target))                  *)
ResizeTest(t) ==
    /\ rz_pc[t] = "test"
    /\ \/ /\ rz_size = rz_target
          /\ rz_mutex' = RzNobody /\ RzGoto(t, "idle")
       \/ /\ rz_size # rz_target
          /\ RzGoto(t, "loop") /\ UNCHANGED rz_mutex
    /\ UNCHANGED <<rz_program, rz_size, rz_target, rz_initiated, rz_destroy,
                   rz_works, rz_items, rz_split, rz_count, rz_frame>>

-----------------------------------------------------------------------------
(* cds_lfht_destroy(), when nobody else uses the table: no more resizes,   *)
(* and those queued or under way are waited for.                           *)
cds_lfht_destroy_table(t) ==
    /\ RzMayCall(t, "destroy") /\ \A a \in RzThreads : rz_pc[a] = "idle"
    /\ rz_destroy' = IF rz_program.auto THEN 1 ELSE rz_destroy
    /\ RzGoto(t, "flush")
    /\ UNCHANGED <<rz_program, rz_size, rz_target, rz_initiated, rz_mutex,
                   rz_works, rz_items, rz_split, rz_count, rz_frame>>

(* Mutant: only the works that no worker has taken yet are waited for.     *)
QueueEmpty == rz_works = 0

(* urcu_workqueue_flush_queued_work()                                      *)
flush_queued_work == rz_works = 0 /\ rz_pc[RzWorker] = "idle"

(* -EPERM if there are nodes left; else the table and ht are freed.        *)
DestroyTable(t) ==
    /\ rz_pc[t] = "flush" /\ (rz_program.auto => flush_queued_work)
    /\ rz_size' = IF rz_items > 0 THEN rz_size ELSE 0
    /\ RzGoto(t, "idle")
    /\ UNCHANGED <<rz_program, rz_target, rz_initiated, rz_destroy, rz_mutex,
                   rz_works, rz_items, rz_split, rz_count, rz_frame>>

-----------------------------------------------------------------------------
RzCall(t) ==
    \/ cds_lfht_count_add(t) \/ cds_lfht_count_del(t) \/ check_resize(t)
    \/ SplitCount(t, "add", "split_add", "count_add")
    \/ SplitCount(t, "del", "split_del", "count_del")
    \/ ht_count_add(t) \/ ht_count_del(t)
    \/ resize_target_grow(t) \/ LazyShrink(t)
    \/ lazy_launch(t) \/ LaunchQueue(t) \/ LaunchStore(t)
    \/ \E n \in rz_program.sizes : cds_lfht_resize(t, n)
    \/ ResizeInitiated(t)
    \/ cds_lfht_destroy_table(t) \/ DestroyTable(t)

RzResize(t) ==
    \/ ResizeLock(t) \/ ResizeLoop(t) \/ ResizeSizes(t)
    \/ _do_cds_lfht_grow(t) \/ GrownOrder(t) \/ _do_cds_lfht_shrink(t)
    \/ ResizeClear(t) \/ ResizeTest(t)

LfhtResizeNext ==
    \/ \E t \in RzThreads : RzCall(t)
    \/ \E t \in RzAgents : RzResize(t)
    \/ do_resize_cb

LfhtResizeSpec == LfhtResizeInit /\ [][LfhtResizeNext]_rzvars

-----------------------------------------------------------------------------
(* Nobody works on the table any more.                                     *)
RzQuiet ==
    /\ rz_size # 0 /\ rz_destroy = 0 /\ rz_works = 0
    /\ \A t \in RzAgents : rz_pc[t] = "idle"

(* No resize touches a table that cds_lfht_destroy() has freed: none is    *)
(* queued and none is under way.                                           *)
LfhtNoResizeAfterDestroy ==
    rz_size = 0 => /\ rz_works = 0 /\ rz_mutex = RzNobody
                   /\ \A t \in RzAgents : rz_pc[t] = "idle"

(* A table that resizes itself gets the size that was asked for when all   *)
(* calls and works are done.                                               *)
LfhtAutoResizeDone ==
    RzQuiet /\ rz_program.auto /\ ~rz_program.oom => rz_size = rz_target

=============================================================================
