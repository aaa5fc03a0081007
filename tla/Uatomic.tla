------------------------------ MODULE Uatomic ------------------------------
(***************************************************************************)
(* The atomic operations (include/urcu/uatomic/), as they are built on     *)
(*   x86       locked instructions (x86.h);                                *)
(*   compat    i386 without cmpxchg: a mutex, with signals blocked         *)
(*             (src/compat_arch_x86.c);                                    *)
(*   gcc       the compiler's __sync builtins (generic.h, first half);     *)
(*   ppc       load-and-reserve and store-conditional (ppc.h);             *)
(*   s390      compare-and-swap, from an unset register (s390.h);          *)
(*   sparc64   compare-and-swap loops (sparc64.h; generic.h, second half). *)
(* Where an architecture does not provide an operation it is a             *)
(* compare-and-swap loop of generic.h.                                     *)
(*                                                                         *)
(* The values of the operands and the meaning of an instruction are those  *)
(* of module AtomicMemory; what is modelled is how operations are put      *)
(* together from instructions that other threads can come between.  On the *)
(* last three only operands of the size of an int and a long exist.        *)
(***************************************************************************)
EXTENDS Integers

CONSTANTS
    UaThreads,    \* the callers
    UaArchs,      \* the builds
    UaFields,     \* the operands: records of at and size
    UaValues,     \* the arguments, as longs
    UaInitial,    \* what the memory holds at first
    UaCalls,      \* bound: the calls of each thread
    UaLongBits,   \* the bits of a long
    UaNone        \* no call, no result, no owner

UaOps == {"set", "read", "xchg", "cmpxchg", "and", "or", "add_return",
          "sub_return", "dec"}

ASSUME UatomicAssumption ==
    /\ UaArchs \subseteq {"x86", "compat", "gcc", "ppc", "s390", "sparc64"}
    /\ UaLongBits = 4
    /\ UaValues \cup UaInitial \subseteq 0..(2^UaLongBits - 1)
    /\ UaCalls \in Nat
    /\ UaFields \subseteq [at : 0..(UaLongBits - 1), size : 1..UaLongBits]
    /\ \A f \in UaFields : f.at + f.size <= UaLongBits
    /\ UaNone \notin Int \cup UaThreads
    /\ UaNone \notin [op : UaOps, at : 0..(UaLongBits - 1), size : 1..UaLongBits,
                      v : 0..(2^UaLongBits - 1), old : 0..(2^UaLongBits - 1)]

VARIABLES
    ua_arch,      \* the build
    ua_mem,       \* the memory
    ua_call,      \* the call each thread is in
    ua_left,      \* the calls it has left
    ua_pc,        \* its next step
    ua_old,       \* the value it found (old, oldt, result)
    ua_reserve,   \* the threads whose reservation holds
    ua_mutex,     \* the owner of __urcu_x86_compat_mutex
    ua_ret        \* the result

uavars == <<ua_arch, ua_mem, ua_call, ua_left, ua_pc, ua_old, ua_reserve,
            ua_mutex, ua_ret>>

Atomic == INSTANCE AtomicMemory WITH
    Threads <- UaThreads, LongBits <- UaLongBits, NoCall <- UaNone,
    mem <- ua_mem, call <- ua_call, ret <- ua_ret

UatomicInit ==
    /\ ua_arch \in UaArchs
    /\ ua_mem \in UaInitial
    /\ ua_call = [t \in UaThreads |-> UaNone]
    /\ ua_left = [t \in UaThreads |-> UaCalls]
    /\ ua_pc = [t \in UaThreads |-> "idle"]
    /\ ua_old = [t \in UaThreads |-> 0]
    /\ ua_reserve = {}
    /\ ua_mutex = UaNone
    /\ ua_ret = [t \in UaThreads |-> UaNone]

Found(t) == Atomic!Field(ua_mem, ua_call[t])

(* uatomic_sub_return() and uatomic_dec() add the negated argument, as an  *)
(* unsigned long.                                                          *)
AsAddition(c) ==
    CASE c.op = "sub_return" ->
            [c EXCEPT !.op = "add_return", !.v = (-c.v) % 2^UaLongBits]
      [] c.op = "dec" -> [c EXCEPT !.op = "add_return", !.v = 2^UaLongBits - 1]
      [] OTHER -> c

(* The value that the operation stores when it found x.                    *)
NewValue(t, x) == Atomic!Updated(AsAddition(ua_call[t]), x)

(* A store to the operand; every other reservation is lost.  With it, or   *)
(* with the load of a call that does not store, the call has its result.   *)
Store(t, v) ==
    /\ ua_mem' = Atomic!WithField(ua_mem, ua_call[t], v)
    /\ ua_reserve' = {}

Finish(t, x, l) ==
    /\ ua_ret' = [ua_ret EXCEPT ![t] = IF ua_call[t].op = "dec" THEN 0
                                       ELSE Atomic!Returned(AsAddition(ua_call[t]), x)]
    /\ ua_pc' = [ua_pc EXCEPT ![t] = l]

-----------------------------------------------------------------------------
(* How each build makes its operations.                                    *)

(* x86.h: every operation is one instruction.                              *)
X86Method(op) == "insn"

(* generic.h without an architecture's cmpxchg: builtins, and a loop for   *)
(* the exchange.                                                           *)
SyncMethod(op) == IF op = "xchg" THEN "read_cas" ELSE "insn"

(* ppc.h; and, or come from generic.h.                                     *)
PpcMethod(op) == IF op \in {"and", "or"} THEN "read_cas" ELSE "reserve"

(* s390.h; and, or, add_return come from generic.h.                        *)
S390Method(op) ==
    CASE op = "cmpxchg" -> "insn" [] op = "xchg" -> "cs" [] OTHER -> "read_cas"

(* sparc64.h has cmpxchg only.                                             *)
Sparc64Method(op) == IF op = "cmpxchg" THEN "insn" ELSE "read_cas"

(* uatomic_read() is a load everywhere, "Read is atomic even in compat     *)
(* mode"; uatomic_set() is a store except there.                           *)
Method(op) ==
    CASE op = "read" \/ (op = "set" /\ ua_arch # "compat") -> "insn"
      [] ua_arch = "compat" -> "mutex"
      [] ua_arch = "x86" -> X86Method(op)
      [] ua_arch = "gcc" -> SyncMethod(op)
      [] ua_arch = "ppc" -> PpcMethod(op)
      [] ua_arch = "s390" -> S390Method(op)
      [] ua_arch = "sparc64" -> Sparc64Method(op)

SmallOperands == ua_arch \in {"x86", "compat", "gcc"}

UaCall(t, op, f, v, old) ==
    /\ ua_pc[t] = "idle" /\ ua_left[t] > 0
    /\ ua_left' = [ua_left EXCEPT ![t] = @ - 1]
    /\ SmallOperands \/ f.size = UaLongBits
    /\ op \in {"read", "dec"} => v = 0
    /\ op # "cmpxchg" => old = 0
    /\ ua_call' = [ua_call EXCEPT ![t] =
          [op |-> op, at |-> f.at, size |-> f.size, v |-> v, old |-> old]]
    /\ ua_pc' = [ua_pc EXCEPT ![t] = Method(op)]
    /\ UNCHANGED <<ua_arch, ua_mem, ua_old, ua_reserve, ua_mutex, ua_ret>>

UaReturn(t) ==
    /\ ua_pc[t] = "return"
    /\ ua_call' = [ua_call EXCEPT ![t] = UaNone]
    /\ ua_ret' = [ua_ret EXCEPT ![t] = UaNone]
    /\ ua_old' = [ua_old EXCEPT ![t] = 0]
    /\ ua_pc' = [ua_pc EXCEPT ![t] = "idle"]
    /\ UNCHANGED <<ua_arch, ua_left, ua_mem, ua_reserve, ua_mutex>>

(* One instruction: lock cmpxchg, xchg, lock xadd, lock and, lock or, lock *)
(* dec; a builtin; a plain load or store.                                  *)
Instruction(t) ==
    /\ ua_pc[t] = "insn"
    /\ \/ ua_call[t].op = "read" /\ UNCHANGED <<ua_mem, ua_reserve>>
       \/ ua_call[t].op # "read" /\ Store(t, NewValue(t, Found(t)))
    /\ Finish(t, Found(t), "return")
    /\ UNCHANGED <<ua_arch, ua_left, ua_call, ua_old, ua_mutex>>

-----------------------------------------------------------------------------
(* Compare-and-swap loops: _uatomic_and(), _or(), _add_return() and        *)
(* _exchange() of generic.h.                                               *)

(* oldt = uatomic_read(addr)                                               *)
LoopRead(t) ==
    /\ ua_pc[t] = "read_cas"
    /\ ua_old' = [ua_old EXCEPT ![t] = Found(t)]
    /\ ua_pc' = [ua_pc EXCEPT ![t] = "cas"]
    /\ UNCHANGED <<ua_arch, ua_left, ua_mem, ua_call, ua_reserve, ua_mutex, ua_ret>>

(* s390.h starts its loop with whatever is in the register.                *)
CsStart(t) ==
    /\ ua_pc[t] = "cs"
    /\ \E junk \in 0..(2^UaLongBits - 1) : ua_old' = [ua_old EXCEPT ![t] = junk]
    /\ ua_pc' = [ua_pc EXCEPT ![t] = "cas"]
    /\ UNCHANGED <<ua_arch, ua_left, ua_mem, ua_call, ua_reserve, ua_mutex, ua_ret>>

(* Mutant: the swap does not compare.                                      *)
SwapAnyway(t) == TRUE

CasMatches(t) == Found(t) = ua_old[t]

(* oldt = _uatomic_cmpxchg(addr, old, ...); while (oldt != old).  The loop *)
(* around a builtin reads again, the others go on with what they found.    *)
LoopCas(t) ==
    /\ ua_pc[t] = "cas"
    /\ \/ /\ CasMatches(t)
          /\ Store(t, NewValue(t, ua_old[t]))
          /\ Finish(t, ua_old[t], "return")
          /\ UNCHANGED ua_old
       \/ /\ ~CasMatches(t)
          /\ ua_old' = [ua_old EXCEPT ![t] = Found(t)]
          /\ ua_pc' = [ua_pc EXCEPT ![t] =
                          IF ua_arch = "gcc" THEN "read_cas" ELSE "cas"]
          /\ UNCHANGED <<ua_mem, ua_reserve, ua_ret>>
    /\ UNCHANGED <<ua_arch, ua_left, ua_call, ua_mutex>>

-----------------------------------------------------------------------------
(* ppc.h: lwarx, and a store that succeeds when nobody stored since.       *)

LoadReserve(t) ==
    LET c == ua_call[t] IN
    /\ ua_pc[t] = "reserve"
    /\ \/ /\ c.op = "cmpxchg" /\ Found(t) # c.old % 2^c.size
          /\ Finish(t, Found(t), "return")
          /\ UNCHANGED <<ua_old, ua_reserve>>
       \/ /\ ~(c.op = "cmpxchg" /\ Found(t) # c.old % 2^c.size)
          /\ ua_old' = [ua_old EXCEPT ![t] = Found(t)]
          /\ ua_reserve' = ua_reserve \cup {t}
          /\ ua_pc' = [ua_pc EXCEPT ![t] = "store_conditional"]
          /\ UNCHANGED ua_ret
    /\ UNCHANGED <<ua_arch, ua_left, ua_mem, ua_call, ua_mutex>>

(* stwcx.; bne- 1b.  A reservation may also be lost for no reason.         *)
StoreConditional(t) ==
    /\ ua_pc[t] = "store_conditional"
    /\ \/ /\ t \in ua_reserve
          /\ Store(t, NewValue(t, ua_old[t]))
          /\ Finish(t, ua_old[t], "return")
       \/ /\ ua_pc' = [ua_pc EXCEPT ![t] = "reserve"]
          /\ ua_reserve' = ua_reserve \ {t}
          /\ UNCHANGED <<ua_mem, ua_ret>>
    /\ UNCHANGED <<ua_arch, ua_left, ua_call, ua_old, ua_mutex>>

-----------------------------------------------------------------------------
(* compat_arch_x86.c: a load and a store under a mutex.                    *)

(* mutex_lock_signal_save() and the load.                                  *)
CompatLoad(t) ==
    /\ ua_pc[t] = "mutex" /\ ua_mutex = UaNone
    /\ ua_mutex' = t
    /\ ua_old' = [ua_old EXCEPT ![t] = Found(t)]
    /\ ua_pc' = [ua_pc EXCEPT ![t] = "compat_store"]
    /\ UNCHANGED <<ua_arch, ua_left, ua_mem, ua_call, ua_reserve, ua_ret>>

(* The store; a failing _compat_uatomic_cmpxchg() stores nothing.          *)
CompatStore(t) ==
    /\ ua_pc[t] = "compat_store"
    /\ Store(t, NewValue(t, ua_old[t]))
    /\ Finish(t, ua_old[t], "compat_unlock")
    /\ UNCHANGED <<ua_arch, ua_left, ua_call, ua_old, ua_mutex>>

(* mutex_lock_signal_restore()                                             *)
CompatUnlock(t) ==
    /\ ua_pc[t] = "compat_unlock"
    /\ ua_mutex' = UaNone
    /\ ua_pc' = [ua_pc EXCEPT ![t] = "return"]
    /\ UNCHANGED <<ua_arch, ua_left, ua_mem, ua_call, ua_old, ua_reserve, ua_ret>>

-----------------------------------------------------------------------------
UaStep(t) ==
    \/ \E op \in UaOps, f \in UaFields, v \in UaValues \cup {0},
          old \in UaValues \cup {0} : UaCall(t, op, f, v, old)
    \/ UaReturn(t) \/ Instruction(t) \/ LoopRead(t) \/ CsStart(t) \/ LoopCas(t)
    \/ LoadReserve(t) \/ StoreConditional(t)
    \/ CompatLoad(t) \/ CompatStore(t) \/ CompatUnlock(t)

UatomicNext == \E t \in UaThreads : UaStep(t)

UatomicSpec == UatomicInit /\ [][UatomicNext]_uavars

(* On every build each uatomic operation takes effect at one instant, on   *)
(* its operand only and modulo its size, and returns what it found or what *)
(* it left there: no update is lost between the load and the store of      *)
(* another thread, on overlapping operands of different sizes either.      *)
UatomicIsAtomic == Atomic!Spec

=============================================================================
