------------------------------- MODULE UrcuBp --------------------------------
(***************************************************************************)
(* liburcu-bp, the "bulletproof" flavor: src/urcu-bp.c and                 *)
(* include/urcu/static/urcu-bp.h.                                          *)
(*                                                                         *)
(* Threads do not register.  The first rcu_read_lock() of a thread takes a *)
(* slot in an arena that only grows while it is in use; the destructor of  *)
(* a pthread key gives the slot back when the thread exits.  The library   *)
(* is reference counted: the constructor and each registered thread hold a *)
(* reference, and the arena is unmapped with the last one.  Read-side      *)
(* sections may run in signal handlers, and the process may fork.          *)
(*                                                                         *)
(* The build without sys_membarrier, the default, has full barriers on     *)
(* both sides, so memory is sequentially consistent here; module Urcu has  *)
(* the flavor that forces them.  wait_for_readers() polls: there is no     *)
(* futex, and no batching of callers.                                      *)
(***************************************************************************)
EXTENDS Integers, Sequences, FiniteSets

CONSTANTS
    BThreads,       \* threads
    Signalled,      \* those among them that take signals
    InitSlots,      \* INIT_NR_THREADS
    SlotSize,       \* sizeof(struct rcu_reader)
    HdrSize,        \* sizeof(struct registry_chunk)
    MaxForks,       \* bound on the forks that are followed into the child
    NoThread        \* nobody: a free mutex, a thread without a slot

ASSUME BpAssumption ==
    /\ InitSlots \in Nat \ {0}
    /\ SlotSize \in Nat \ {0}
    /\ HdrSize \in 1 .. SlotSize - 1
    /\ MaxForks \in Nat
    /\ IsFiniteSet(BThreads)
    /\ NoThread \notin BThreads \cup (Nat \X Nat)
    /\ Signalled \subseteq BThreads

VARIABLES
    bphase,         \* phase bit of rcu_gp.ctr
    chunks,         \* the arena: data_len and used of each chunk
    slots,          \* the allocated slots, each with its ctr, list and tid
    tls,            \* tls[t]: URCU_TLS(rcu_reader), the slot of t
    refcount,       \* rcu_bp_refcount
    init_lock, bgp_lock, reg_lock,  \* the three mutexes, by owner
    bpc,            \* program counter of each thread
    btmp,           \* the phase that t loaded from rcu_gp.ctr
    saved,          \* what a signal handler of t interrupted
    alive,          \* the threads of the process
    forks,          \* forks followed into the child so far
    dtor,           \* has the library destructor run?
    bpass, bscan,   \* locals of the thread in synchronize_rcu()
    bcs,            \* threads inside a critical section
    bpre            \* those that were there when the grace period began

barena == <<chunks, slots>>
blocks == <<init_lock, bgp_lock, reg_lock>>
bproc == <<alive, forks, dtor>>
bsync == <<bpass, bscan>>
bghosts == <<bcs, bpre>>
bvars == <<bphase, barena, tls, refcount, blocks, bpc, btmp, saved, bproc,
           bsync, bghosts>>

(* What a handler returns to: the interrupted program counter, its local,  *)
(* the nesting depth; and whether the handler has yet to run its section.  *)
NoContext == [pc |-> "none", tmp |-> 0, nest |-> 0, todo |-> TRUE]

BpInit ==
    /\ bphase = 0
    /\ chunks = << >>
    /\ slots = << >>
    /\ tls = [t \in BThreads |-> NoThread]
    /\ refcount = 1
    /\ init_lock = NoThread
    /\ bgp_lock = NoThread
    /\ reg_lock = NoThread
    /\ bpc = [t \in BThreads |-> "idle"]
    /\ btmp = [t \in BThreads |-> 0]
    /\ saved = [t \in BThreads |-> NoContext]
    /\ alive = BThreads
    /\ forks = 0
    /\ dtor = FALSE
    /\ bpass = 1
    /\ bscan = {}
    /\ bcs = {}
    /\ bpre = {}

bgoto(t, pc) == bpc' = [bpc EXCEPT ![t] = pc]
bat(t, pc) == t \in alive /\ bpc[t] = pc

-----------------------------------------------------------------------------
(* The arena.                                                              *)

(* Slot i of chunk c starts inside the chunk.                              *)
SlotsOf(ch, c) == {i \in 0 .. ch[c].data_len : i * SlotSize < ch[c].data_len}
FreeIn(ch, c) == {i \in SlotsOf(ch, c) : <<c, i>> \notin DOMAIN slots}

(* Chunks where arena_alloc() finds a slot.                                *)
ChunksWithRoom(ch) ==
    {c \in DOMAIN ch : /\ ch[c].data_len - ch[c].used >= SlotSize
                       /\ FreeIn(ch, c) # {}}

Least(S) == CHOOSE i \in S : \A j \in S : i <= j

(* expand_arena(): the first chunk, the last one made twice as big in      *)
(* place, or a new one of that size when mremap() cannot.                  *)
expand_arena ==
    IF chunks = << >> THEN {<<[data_len |-> InitSlots * SlotSize, used |-> 0]>>}
    ELSE LET n   == Len(chunks)
             len == 2 * (chunks[n].data_len + HdrSize) - HdrSize
         IN  {[chunks EXCEPT ![n].data_len = len],
              Append(chunks, [data_len |-> len, used |-> 0])}

(* add_thread(): the first free slot, in an arena that is expanded if it   *)
(* has none, goes to t and joins the registry.                             *)
add_thread(t) ==
    \E ch \in IF ChunksWithRoom(chunks) # {} THEN {chunks} ELSE expand_arena :
        LET c == Least(ChunksWithRoom(ch))
            s == <<c, Least(FreeIn(ch, c))>>
        IN  /\ chunks' = [ch EXCEPT ![c].used = @ + SlotSize]
            /\ slots' = [x \in DOMAIN slots \cup {s} |->
                           IF x = s THEN [phase |-> 0, nest |-> 0,
                                          list |-> "registry", tid |-> t]
                                    ELSE slots[x]]
            /\ tls' = [tls EXCEPT ![t] = s]

(* cleanup_thread() for the slots of a set.                                *)
cleanup_thread(S) ==
    /\ slots' = [x \in DOMAIN slots \ S |-> slots[x]]
    /\ chunks' = [c \in DOMAIN chunks |->
                    [chunks[c] EXCEPT !.used =
                       @ - SlotSize * Cardinality({x \in S : x[1] = c})]]

-----------------------------------------------------------------------------
(* Read side.  Nest(t) counts the sections t is in, handler included.      *)

Nest(t) == IF tls[t] = NoThread THEN 0 ELSE slots[tls[t]].nest
InHandler(t) == saved[t].pc # "none"

(* At most one section at a time in the program, and one in a handler.     *)
rcu_read_lock_bp(t) ==
    /\ bat(t, "idle")
    /\ Nest(t) = saved[t].nest
    /\ saved[t].todo
    /\ saved' = [saved EXCEPT ![t].todo = ~ InHandler(t)]
    /\ bgoto(t, IF tls[t] = NoThread THEN "reg_check" ELSE "lock_load")
    /\ UNCHANGED <<bphase, barena, tls, refcount, blocks, btmp, bproc, bsync, bghosts>>

(* rcu_bp_register(): once the signals are blocked, see whether a handler  *)
(* has registered the thread meanwhile.                                    *)
RegisterCheck(t) ==
    /\ bat(t, "reg_check")
    /\ bgoto(t, IF tls[t] = NoThread THEN "init_lock" ELSE "lock_load")
    /\ UNCHANGED <<bphase, barena, tls, refcount, blocks, btmp, saved, bproc,
                   bsync, bghosts>>

InitLock(t) ==
    /\ bat(t, "init_lock")
    /\ init_lock = NoThread
    /\ init_lock' = t
    /\ bgoto(t, "init")
    /\ UNCHANGED <<bphase, barena, tls, refcount, bgp_lock, reg_lock, btmp, saved,
                   bproc, bsync, bghosts>>

(* Mutant: a registered thread holds no reference on the arena.            *)
NoReference(t) ==
    /\ bat(t, "init")
    /\ init_lock' = NoThread
    /\ bgoto(t, "add")
    /\ UNCHANGED <<bphase, barena, tls, refcount, bgp_lock, reg_lock, btmp, saved,
                   bproc, bsync, bghosts>>

rcu_bp_init(t) ==
    /\ bat(t, "init")
    /\ refcount' = refcount + 1
    /\ init_lock' = NoThread
    /\ bgoto(t, "add")
    /\ UNCHANGED <<bphase, barena, tls, bgp_lock, reg_lock, btmp, saved,
                   bproc, bsync, bghosts>>

(* The registration itself, under rcu_registry_lock.                       *)
rcu_bp_register(t) ==
    /\ bat(t, "add")
    /\ reg_lock = NoThread
    /\ add_thread(t)
    /\ bgoto(t, "lock_load")
    /\ UNCHANGED <<bphase, refcount, blocks, btmp, saved, bproc, bsync, bghosts>>

(* Load rcu_gp.ctr (for the outermost section), then store the counter.    *)
ReadLockLoad(t) ==
    /\ bat(t, "lock_load")
    /\ btmp' = [btmp EXCEPT ![t] = IF Nest(t) = 0 THEN bphase ELSE 0]
    /\ bgoto(t, "lock_store")
    /\ UNCHANGED <<bphase, barena, tls, refcount, blocks, saved, bproc, bsync, bghosts>>

BpReadLockStore(t) ==
    /\ bat(t, "lock_store")
    /\ slots' = [slots EXCEPT
                   ![tls[t]].phase = IF Nest(t) = 0 THEN btmp[t] ELSE @,
                   ![tls[t]].nest = @ + 1]
    /\ btmp' = [btmp EXCEPT ![t] = 0]
    /\ bcs' = bcs \cup {t}
    /\ bgoto(t, "idle")
    /\ UNCHANGED <<bphase, chunks, tls, refcount, blocks, saved, bproc, bsync, bpre>>

(* The phase that the last section leaves behind is dead, and is cleared.  *)
rcu_read_unlock_bp(t) ==
    /\ bat(t, "idle")
    /\ Nest(t) > saved[t].nest
    /\ LET n == Nest(t) - 1
       IN  /\ slots' = [slots EXCEPT
                          ![tls[t]].phase = IF n = 0 THEN 0 ELSE @,
                          ![tls[t]].nest = n]
           /\ bcs' = IF n = 0 THEN bcs \ {t} ELSE bcs
           /\ bpre' = IF n = 0 THEN bpre \ {t} ELSE bpre
    /\ UNCHANGED <<bphase, chunks, tls, refcount, blocks, bpc, btmp, saved,
                   bproc, bsync>>

(* A signal is delivered wherever the library has not blocked it: in the   *)
(* program, in rcu_read_lock() and in rcu_bp_exit(), which runs with the   *)
(* mask restored.  The handler may use RCU, and returns with its sections  *)
(* closed.  One that has to register while its thread holds init_lock, at  *)
(* "exit", waits for itself for ever.                                      *)
Signal(t) ==
    /\ t \in alive \cap Signalled
    /\ ~ InHandler(t)
    /\ bpc[t] \in {"idle", "reg_check", "lock_load", "lock_store", "exit_lock", "exit"}
    /\ saved' = [saved EXCEPT ![t] = [pc |-> bpc[t], tmp |-> btmp[t],
                                      nest |-> Nest(t), todo |-> TRUE]]
    /\ btmp' = [btmp EXCEPT ![t] = 0]
    /\ bgoto(t, "idle")
    /\ UNCHANGED <<bphase, barena, tls, refcount, blocks, bproc, bsync, bghosts>>

SignalReturn(t) ==
    /\ bat(t, "idle")
    /\ InHandler(t)
    /\ Nest(t) = saved[t].nest
    /\ bgoto(t, saved[t].pc)
    /\ btmp' = [btmp EXCEPT ![t] = saved[t].tmp]
    /\ saved' = [saved EXCEPT ![t] = NoContext]
    /\ UNCHANGED <<bphase, barena, tls, refcount, blocks, bproc, bsync, bghosts>>

-----------------------------------------------------------------------------
(* The end of a thread and of the process.                                 *)

(* The thread runs its own code, outside handlers and critical sections.   *)
Calm(t) == bat(t, "idle") /\ ~ InHandler(t) /\ Nest(t) = 0

(* The pthread key destructor: rcu_bp_unregister() under                   *)
(* rcu_registry_lock, then the reference is dropped.  A later destructor   *)
(* of the same thread, like a new thread, may register again.              *)
urcu_bp_thread_exit_notifier(t) ==
    /\ Calm(t)
    /\ tls[t] # NoThread
    /\ reg_lock = NoThread
    /\ cleanup_thread({tls[t]})
    /\ tls' = [tls EXCEPT ![t] = NoThread]
    /\ bgoto(t, "exit_lock")
    /\ UNCHANGED <<bphase, refcount, blocks, btmp, saved, bproc, bsync, bghosts>>

(* The library destructor: exit() is called and other threads still run.   *)
LibraryExit(t) ==
    /\ Calm(t)
    /\ ~ dtor
    /\ dtor' = TRUE
    /\ bgoto(t, "exit_lock")
    /\ UNCHANGED <<bphase, barena, tls, refcount, blocks, btmp, saved, alive, forks,
                   bsync, bghosts>>

ExitLock(t) ==
    /\ bat(t, "exit_lock")
    /\ init_lock = NoThread
    /\ init_lock' = t
    /\ bgoto(t, "exit")
    /\ UNCHANGED <<bphase, barena, tls, refcount, bgp_lock, reg_lock, btmp, saved,
                   bproc, bsync, bghosts>>

(* The last reference: the chunks are unmapped, whatever they hold.        *)
rcu_bp_exit(t) ==
    /\ bat(t, "exit")
    /\ refcount' = refcount - 1
    /\ IF refcount' = 0 THEN chunks' = << >> /\ slots' = << >>
                        ELSE UNCHANGED barena
    /\ init_lock' = NoThread
    /\ bgoto(t, "idle")
    /\ UNCHANGED <<bphase, tls, bgp_lock, reg_lock, btmp, saved, bproc, bsync, bghosts>>

-----------------------------------------------------------------------------
(* fork(), with signals blocked and both mutexes held.                     *)

rcu_bp_before_fork(t) ==
    /\ bat(t, "idle")
    /\ ~ InHandler(t)
    /\ forks < MaxForks
    /\ bgp_lock = NoThread
    /\ bgp_lock' = t
    /\ bgoto(t, "fork_reg")
    /\ UNCHANGED <<bphase, barena, tls, refcount, init_lock, reg_lock, btmp, saved,
                   bproc, bsync, bghosts>>

ForkLockRegistry(t) ==
    /\ bat(t, "fork_reg")
    /\ reg_lock = NoThread
    /\ reg_lock' = t
    /\ bgoto(t, "fork")
    /\ UNCHANGED <<bphase, barena, tls, refcount, init_lock, bgp_lock, btmp, saved,
                   bproc, bsync, bghosts>>

rcu_bp_after_fork_parent(t) ==
    /\ bat(t, "fork")
    /\ bgp_lock' = NoThread
    /\ reg_lock' = NoThread
    /\ bgoto(t, "idle")
    /\ UNCHANGED <<bphase, barena, tls, refcount, init_lock, btmp, saved,
                   bproc, bsync, bghosts>>

(* The child has the memory of the parent and one thread, the caller.      *)
fork_child(t) ==
    /\ bat(t, "fork")
    /\ alive' = {t}
    /\ forks' = forks + 1
    /\ tls' = [u \in BThreads |-> IF u = t THEN tls[u] ELSE NoThread]
    /\ bcs' = bcs \cap {t}
    /\ bpc' = [u \in BThreads |-> IF u = t THEN "child" ELSE "idle"]
    /\ btmp' = [u \in BThreads |-> IF u = t THEN btmp[u] ELSE 0]
    /\ saved' = [u \in BThreads |-> IF u = t THEN saved[u] ELSE NoContext]
    /\ UNCHANGED <<bphase, barena, refcount, blocks, dtor, bsync, bpre>>

(* Mutant: the child keeps the registry of its parent.                     *)
KeepRegistry(t) == {}

(* The slots that urcu_bp_prune_registry() gives back.                     *)
urcu_bp_prune_registry(t) == {s \in DOMAIN slots : slots[s].tid # t}

rcu_bp_after_fork_child(t) ==
    /\ bat(t, "child")
    /\ cleanup_thread(urcu_bp_prune_registry(t))
    /\ bgp_lock' = NoThread
    /\ reg_lock' = NoThread
    /\ bgoto(t, "idle")
    /\ UNCHANGED <<bphase, tls, refcount, init_lock, btmp, saved, bproc, bsync, bghosts>>

(* The child creates a thread.                                             *)
ThreadStart(t) ==
    /\ t \notin alive
    /\ \A u \in alive : bpc[u] # "child"
    /\ alive' = alive \cup {t}
    /\ UNCHANGED <<bphase, barena, tls, refcount, blocks, bpc, btmp, saved, forks,
                   dtor, bsync, bghosts>>

-----------------------------------------------------------------------------
(* synchronize_rcu(), with signals blocked.                                *)

BpOnList(l) == {s \in DOMAIN slots : slots[s].list = l}
BpInput == IF bpass = 1 THEN "registry" ELSE "cur_snap"

(* The grace period begins when the caller has rcu_gp_lock.                *)
synchronize_rcu_bp(t) ==
    /\ Calm(t)
    /\ bgp_lock = NoThread
    /\ bgp_lock' = t
    /\ bpre' = bcs
    /\ bgoto(t, "sync_lock")
    /\ UNCHANGED <<bphase, barena, tls, refcount, init_lock, reg_lock, btmp, saved,
                   bproc, bsync, bcs>>

BpLockRegistry(t) ==
    /\ bat(t, "sync_lock")
    /\ reg_lock = NoThread
    /\ reg_lock' = t
    /\ bscan' = BpOnList(BpInput)
    /\ bgoto(t, IF bscan' = {} THEN "sync_out" ELSE "scan")
    /\ UNCHANGED <<bphase, barena, tls, refcount, init_lock, bgp_lock, btmp, saved,
                   bproc, bpass, bghosts>>

rcu_reader_state_bp(s) ==
    IF slots[s].nest = 0 THEN "INACTIVE"
    ELSE IF slots[s].phase = bphase THEN "ACTIVE_CURRENT" ELSE "ACTIVE_OLD"

BpScanReader(t, s) ==
    /\ bat(t, "scan")
    /\ s \in bscan
    /\ bscan' = bscan \ {s}
    /\ slots' = [slots EXCEPT ![s].list =
                   CASE rcu_reader_state_bp(s) = "INACTIVE"       -> "qs"
                     [] rcu_reader_state_bp(s) = "ACTIVE_CURRENT" ->
                          IF bpass = 1 THEN "cur_snap" ELSE "qs"
                     [] rcu_reader_state_bp(s) = "ACTIVE_OLD"     -> @]
    /\ UNCHANGED <<bphase, chunks, tls, refcount, blocks, bpc, btmp, saved,
                   bproc, bpass, bghosts>>

(* Mutant: the second pass is dropped.                                     *)
SinglePass == FALSE

SecondPassDue == bpass = 1

(* Nobody left in the first pass: switch parity and look at the readers    *)
(* that were set aside.                                                    *)
BpFlipPhase(t) ==
    /\ bat(t, "scan")
    /\ bscan = {} /\ BpOnList(BpInput) = {}
    /\ SecondPassDue
    /\ bphase' = 1 - bphase
    /\ bpass' = 2
    /\ bscan' = BpOnList("cur_snap")
    /\ UNCHANGED <<barena, tls, refcount, blocks, bpc, btmp, saved, bproc, bghosts>>

(* Nobody left in the second: the readers go back to the registry.         *)
BpSplice(t) ==
    /\ bat(t, "scan")
    /\ bscan = {} /\ BpOnList(BpInput) = {}
    /\ ~ SecondPassDue
    /\ slots' = [s \in DOMAIN slots |->
                   [slots[s] EXCEPT !.list = IF @ = "qs" THEN "registry" ELSE @]]
    /\ bgoto(t, "sync_out")
    /\ UNCHANGED <<bphase, chunks, tls, refcount, blocks, btmp, saved, bproc,
                   bsync, bghosts>>

(* Somebody left: release the registry, poll or relax, and take it again.  *)
BpUnlockRegistry(t) ==
    /\ bat(t, "scan")
    /\ bscan = {} /\ BpOnList(BpInput) # {}
    /\ reg_lock' = NoThread
    /\ bgoto(t, "relock")
    /\ UNCHANGED <<bphase, barena, tls, refcount, init_lock, bgp_lock, btmp, saved,
                   bproc, bsync, bghosts>>

BpRelockRegistry(t) ==
    /\ bat(t, "relock")
    /\ reg_lock = NoThread
    /\ reg_lock' = t
    /\ bscan' = BpOnList(BpInput)
    /\ bgoto(t, "scan")
    /\ UNCHANGED <<bphase, barena, tls, refcount, init_lock, bgp_lock, btmp, saved,
                   bproc, bpass, bghosts>>

BpSynchronizeReturn(t) ==
    /\ bat(t, "sync_out")
    /\ bgp_lock' = NoThread
    /\ reg_lock' = NoThread
    /\ bpass' = 1
    /\ bgoto(t, "idle")
    /\ UNCHANGED <<bphase, barena, tls, refcount, init_lock, btmp, saved, bproc,
                   bscan, bghosts>>

-----------------------------------------------------------------------------
(* A thread goes on with the call it is in.                                *)
BpStep(t) ==
    \/ RegisterCheck(t) \/ InitLock(t) \/ rcu_bp_init(t) \/ rcu_bp_register(t)
    \/ ReadLockLoad(t) \/ BpReadLockStore(t) \/ ExitLock(t) \/ rcu_bp_exit(t)
    \/ ForkLockRegistry(t) \/ rcu_bp_after_fork_parent(t)
    \/ fork_child(t) \/ rcu_bp_after_fork_child(t)
    \/ BpLockRegistry(t) \/ (\E s \in bscan : BpScanReader(t, s))
    \/ BpFlipPhase(t) \/ BpSplice(t) \/ BpUnlockRegistry(t)
    \/ BpRelockRegistry(t) \/ BpSynchronizeReturn(t)

BpCall(t) ==
    \/ rcu_read_lock_bp(t) \/ rcu_read_unlock_bp(t)
    \/ Signal(t) \/ SignalReturn(t)
    \/ urcu_bp_thread_exit_notifier(t) \/ LibraryExit(t) \/ ThreadStart(t)
    \/ rcu_bp_before_fork(t) \/ synchronize_rcu_bp(t)

BpNext == \E t \in BThreads : BpStep(t) \/ BpCall(t)

BpSpec == BpInit /\ [][BpNext]_bvars

(* Threads are scheduled; handlers end, and so do sections, however many   *)
(* signals come in.                                                        *)
BpFairness ==
    \A t \in BThreads :
        /\ WF_bvars(BpStep(t))
        /\ WF_bvars(InHandler(t) /\ (rcu_read_unlock_bp(t) \/ SignalReturn(t)))
        /\ SF_bvars(~ InHandler(t) /\ rcu_read_unlock_bp(t))

BpFairSpec == BpSpec /\ BpFairness

-----------------------------------------------------------------------------
(* Does the owner of rcu_gp_lock run a grace period, rather than a fork?   *)
BpInside ==
    /\ bgp_lock # NoThread
    /\ bpc[bgp_lock] \in {"sync_lock", "scan", "relock", "sync_out"}

(* The promise of GracePeriod, with handlers, late registrations, exiting  *)
(* threads and forks in between.                                           *)
BGP == INSTANCE GracePeriod WITH
         Readers  <- BThreads,
         Updaters <- {"leader"},
         cs       <- bcs,
         pre      <- [u \in {"leader"} |-> bpre],
         sync     <- [u \in {"leader"} |-> BpInside]
BpImplementsGracePeriod == BGP!GPSpec

(* A thread that holds a slot holds one that is mapped, allocated to it    *)
(* alone and wholly inside its chunk, even though the doubled chunk sizes  *)
(* leave room for a fraction of a slot at the end, and threads and the     *)
(* library come and go (arena_alloc(), rcu_bp_exit()).                     *)
BpSlotsOwned ==
    /\ \A t \in alive : tls[t] # NoThread =>
         /\ tls[t] \in DOMAIN slots
         /\ slots[tls[t]].tid = t
         /\ tls[t][1] \in DOMAIN chunks
         /\ (tls[t][2] + 1) * SlotSize <= chunks[tls[t][1]].data_len
    /\ \A t, u \in alive : tls[t] = tls[u] /\ t # u => tls[t] = NoThread

(* The registry and the arena describe the process as it is: each          *)
(* allocated slot belongs to a thread that exists and knows it, except in  *)
(* a child that has not yet pruned its registry.                           *)
BpRegistryIsCurrent ==
    \/ \E t \in alive : bpc[t] = "child"
    \/ \A s \in DOMAIN slots : slots[s].tid \in alive /\ tls[slots[s].tid] = s

(* A grace period ends, in the child of a fork too.                        *)
BpInSync == \E t \in alive : bpc[t] \in {"sync_lock", "scan", "relock", "sync_out"}
BpSynchronizeReturns == BpInSync ~> ~ BpInSync

=============================================================================
