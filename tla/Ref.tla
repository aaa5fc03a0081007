-------------------------------- MODULE Ref ---------------------------------
(***************************************************************************)
(* Reference counts (include/urcu/ref.h).  The owner of a reference may    *)
(* take another one for somebody (urcu_ref_get) and drops it once          *)
(* (urcu_ref_put); whoever found the object through a pointer, inside a    *)
(* read-side critical section, takes one only if the count is not zero     *)
(* (urcu_ref_get_unless_zero).  The last put calls release(), which        *)
(* removes that pointer.                                                   *)
(***************************************************************************)
EXTENDS Integers, FiniteSets

CONSTANTS
    RefThreads,   \* the threads
    Creator,      \* the one that owns the first reference
    LONG_MAX      \* the largest long

ASSUME RefAssumption == Creator \in RefThreads /\ LONG_MAX \in Nat \ {0}

VARIABLES
    refcount,     \* ref->refcount
    ref_owned,    \* history: the references each thread owns
    ref_pc,       \* what each thread does next
    ref_old,      \* old
    ref_released, \* how often release() was called
    ref_aborted   \* urcu_ref_get() called abort()

refvars == <<refcount, ref_owned, ref_pc, ref_old, ref_released, ref_aborted>>

(* urcu_ref_init(), urcu_ref_set(ref, 1).                                  *)
RefInit ==
    /\ refcount = 1
    /\ ref_owned = [t \in RefThreads |-> IF t = Creator THEN 1 ELSE 0]
    /\ ref_pc = [t \in RefThreads |-> "idle"]
    /\ ref_old = [t \in RefThreads |-> 0]
    /\ ref_released = 0
    /\ ref_aborted = FALSE

(* Arithmetic on longs.                                                    *)
Long(n) == ((n + LONG_MAX + 1) % (2 * (LONG_MAX + 1))) - (LONG_MAX + 1)

RefGoto(t, l) == ref_pc' = [ref_pc EXCEPT ![t] = l]

(* old = uatomic_read(&ref->refcount), by an owner.                        *)
urcu_ref_get(t) ==
    /\ ref_pc[t] = "idle" /\ ref_owned[t] > 0 /\ ~ref_aborted
    /\ ref_old' = [ref_old EXCEPT ![t] = refcount]
    /\ RefGoto(t, "get")
    /\ UNCHANGED <<refcount, ref_owned, ref_released, ref_aborted>>

(* The same by a reader, who finds the object as long as it is published.  *)
urcu_ref_get_unless_zero(t) ==
    /\ ref_pc[t] = "idle" /\ ref_released = 0 /\ ~ref_aborted
    /\ ref_old' = [ref_old EXCEPT ![t] = refcount]
    /\ RefGoto(t, "get_unless_zero")
    /\ UNCHANGED <<refcount, ref_owned, ref_released, ref_aborted>>

(* Mutant: zero is not refused.                                            *)
OnlyOverflow(t) == ref_old[t] = LONG_MAX

Refused(t) ==
    ref_old[t] = LONG_MAX \/ (ref_pc[t] = "get_unless_zero" /\ ref_old[t] = 0)

(* urcu_ref_get() aborts when urcu_ref_get_safe() fails.                   *)
GetFails(t) ==
    /\ ref_pc[t] \in {"get", "get_unless_zero"} /\ Refused(t) /\ ~ref_aborted
    /\ ref_aborted' = (ref_pc[t] = "get")
    /\ RefGoto(t, "idle")
    /\ UNCHANGED <<refcount, ref_owned, ref_old, ref_released>>

(* res = uatomic_cmpxchg(&ref->refcount, old, old + 1); on failure again,  *)
(* with what it found.                                                     *)
GetCas(t) ==
    /\ ref_pc[t] \in {"get", "get_unless_zero"} /\ ~Refused(t) /\ ~ref_aborted
    /\ \/ /\ refcount = ref_old[t]
          /\ refcount' = Long(ref_old[t] + 1)
          /\ ref_owned' = [ref_owned EXCEPT ![t] = @ + 1]
          /\ RefGoto(t, "idle")
          /\ UNCHANGED ref_old
       \/ /\ refcount # ref_old[t]
          /\ ref_old' = [ref_old EXCEPT ![t] = refcount]
          /\ UNCHANGED <<refcount, ref_owned, ref_pc>>
    /\ UNCHANGED <<ref_released, ref_aborted>>

(* uatomic_sub_return(&ref->refcount, 1); who gets 0 calls release().      *)
urcu_ref_put(t) ==
    /\ ref_pc[t] = "idle" /\ ref_owned[t] > 0 /\ ~ref_aborted
    /\ refcount' = Long(refcount - 1)
    /\ ref_owned' = [ref_owned EXCEPT ![t] = @ - 1]
    /\ RefGoto(t, IF refcount' = 0 THEN "release" ELSE "idle")
    /\ UNCHANGED <<ref_old, ref_released, ref_aborted>>

Release(t) ==
    /\ ref_pc[t] = "release" /\ ~ref_aborted
    /\ ref_released' = ref_released + 1
    /\ RefGoto(t, "idle")
    /\ UNCHANGED <<refcount, ref_owned, ref_old, ref_aborted>>

RefNext ==
    \E t \in RefThreads :
        \/ urcu_ref_get(t) \/ urcu_ref_get_unless_zero(t) \/ GetFails(t)
        \/ GetCas(t) \/ urcu_ref_put(t) \/ Release(t)

RefSpec == RefInit /\ [][RefNext]_refvars

(* The references that exist, those of each thread numbered from 1.        *)
RefHeld == UNION {{t} \X (1 .. ref_owned[t]) : t \in RefThreads}

(* release() runs once, after the last owner dropped its reference, and no *)
(* reference exists from then on: a reader that found the object before    *)
(* cannot bring it back, and a count at LONG_MAX is not wrapped into one   *)
(* that ends early.                                                        *)
ReleaseIsFinal ==
    /\ ref_released + Cardinality({t \in RefThreads : ref_pc[t] = "release"}) <= 1
    /\ ref_released > 0 \/ (\E t \in RefThreads : ref_pc[t] = "release") =>
           \A t \in RefThreads : ref_owned[t] = 0
    /\ refcount = Cardinality(RefHeld)

=============================================================================
