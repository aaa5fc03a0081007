-------------------------- MODULE ContainersProof ---------------------------
(***************************************************************************)
(* Reference counts, futexes, stacks, the wait-free queues and the atomic  *)
(* operations: release() runs once and for good, no wake-up is lost,       *)
(* lfstack, rculfstack and wfstack are stacks, wfcqueue and wfqueue are    *)
(* first-in first-out, and each build of uatomic is an atomic memory. They *)
(* share no state; each has an inductive invariant of its own, and the     *)
(* containers share the lemmas about linked lists.                         *)
(***************************************************************************)
EXTENDS Ref, CompatFutex, Uatomic, Lfstack, Wfstack, Wfcqueue, Wfqueue, Integers,
        FiniteSetTheorems, SequenceTheorems, TLAPS

-----------------------------------------------------------------------------
(* Reference counts (include/urcu/ref.h).                                  *)

(* The inductive invariant of the reference counts: a count of zero is     *)
(* final, and whoever is between the read and the compare-and-swap of      *)
(* urcu_ref_get() still owns the reference it started from.                *)
RefTypeOK ==
    /\ refcount \in 0 .. LONG_MAX
    /\ ref_owned \in [RefThreads -> Nat]
    /\ ref_pc \in [RefThreads -> {"idle", "get", "get_unless_zero", "release"}]
    /\ ref_old \in [RefThreads -> 0 .. LONG_MAX]
    /\ ref_released \in Nat
    /\ ref_aborted \in BOOLEAN

(* The count is the number of references that threads hold.                *)
RefCounted == IsFiniteSet(RefHeld) /\ refcount = Cardinality(RefHeld)

(* A thread in urcu_ref_get() holds the reference it starts from;          *)
(* release() runs at a count of zero, once.                                *)
RefReleases ==
    /\ \A t \in RefThreads : ref_pc[t] = "get" => ref_owned[t] > 0
    /\ ref_released > 0 => refcount = 0
    /\ \A t \in RefThreads : ref_pc[t] = "release" =>
          /\ refcount = 0 /\ ref_released = 0
          /\ \A u \in RefThreads : ref_pc[u] = "release" => u = t
    /\ ref_released <= 1

(* The inductive invariant of the reference counts.                        *)
RefIInv == RefTypeOK /\ RefCounted /\ RefReleases

(* Who holds a reference sees a count that is not zero.                    *)
LEMMA RefHolder ==
    ASSUME RefCounted, NEW t \in RefThreads, ref_owned \in [RefThreads -> Nat], ref_owned[t] > 0
    PROVE  refcount # 0
<1>1. <<t, 1>> \in RefHeld
  BY DEF RefHeld
<1> QED BY <1>1, FS_EmptySet DEF RefCounted

(* At a count of zero nobody holds a reference.                            *)
LEMMA RefNobody ==
    ASSUME RefCounted, refcount = 0, ref_owned \in [RefThreads -> Nat]
    PROVE  \A t \in RefThreads : ref_owned[t] = 0
BY RefHolder

(* A successful get: one more reference, one more in the count.            *)
LEMMA RefTaken ==
    ASSUME RefCounted, RefTypeOK, NEW t \in RefThreads,
           ref_owned' = [ref_owned EXCEPT ![t] = @ + 1], refcount' = refcount + 1
    PROVE  RefCounted'
<1> DEFINE x == <<t, ref_owned[t] + 1>>
<1>1. RefHeld' = RefHeld \cup {x} /\ x \notin RefHeld
  BY DEF RefHeld, RefTypeOK
<1> HIDE DEF x
<1>2. IsFiniteSet(RefHeld \cup {x}) /\ Cardinality(RefHeld \cup {x}) = Cardinality(RefHeld) + 1
  BY <1>1, FS_AddElement DEF RefCounted
<1> QED BY <1>1, <1>2 DEF RefCounted

(* A put: one reference less, one less in the count.                       *)
LEMMA RefGivenBack ==
    ASSUME RefCounted, RefTypeOK, NEW t \in RefThreads, ref_owned[t] > 0,
           ref_owned' = [ref_owned EXCEPT ![t] = @ - 1], refcount' = refcount - 1
    PROVE  RefCounted'
<1> DEFINE x == <<t, ref_owned[t]>>
<1>1. RefHeld' = RefHeld \ {x} /\ x \in RefHeld
  BY DEF RefHeld, RefTypeOK
<1> HIDE DEF x
<1>2. IsFiniteSet(RefHeld \ {x}) /\ Cardinality(RefHeld \ {x}) = Cardinality(RefHeld) - 1
  BY <1>1, FS_RemoveElement DEF RefCounted
<1> QED BY <1>1, <1>2 DEF RefCounted

(* A count that fits a long is not changed by the conversion to it.        *)
LEMMA LongFits ==
    ASSUME NEW n \in 0 .. LONG_MAX
    PROVE  Long(n) = n
<1> DEFINE m == LONG_MAX + 1
           k == n + LONG_MAX + 1
<1>1. LONG_MAX \in Nat
  BY RefAssumption
<1>2. k \in Nat /\ k < 2 * m /\ m \in Nat \ {0} /\ k - m = n
  BY <1>1
<1>3. k % (2 * m) = k
  BY <1>2
<1> QED BY <1>2, <1>3 DEF Long

(* The initial state satisfies the invariant.                              *)
LEMMA RefInitIInv == RefInit => RefIInv
<1> SUFFICES ASSUME RefInit PROVE RefIInv
  OBVIOUS
<1>1. RefHeld = {<<Creator, 1>>}
  BY RefAssumption DEF RefInit, RefHeld
<1>2. RefCounted
  BY <1>1, FS_Singleton DEF RefCounted, RefInit
<1>3. 0 \in 0 .. LONG_MAX /\ 1 \in 0 .. LONG_MAX
  BY RefAssumption
<1>4. RefTypeOK
  BY <1>3 DEF RefInit, RefTypeOK
<1>5. RefReleases
  BY DEF RefInit, RefReleases
<1> QED BY <1>2, <1>4, <1>5 DEF RefIInv

(* Every step keeps the invariant.                                         *)
LEMMA RefNextIInv == RefIInv /\ [RefNext]_refvars => RefIInv'
<1> SUFFICES ASSUME RefIInv, [RefNext]_refvars PROVE RefIInv'
  OBVIOUS
<1>0. RefTypeOK /\ RefCounted /\ RefReleases /\ LONG_MAX \in Nat \ {0}
  BY RefAssumption DEF RefIInv
<1>1. ASSUME UNCHANGED <<refcount, ref_owned>> PROVE RefCounted'
  BY <1>0, <1>1 DEF RefCounted, RefHeld
<1>2. CASE UNCHANGED refvars
  BY <1>0, <1>1, <1>2 DEF refvars, RefIInv, RefTypeOK, RefReleases
<1>3. ASSUME NEW t \in RefThreads, urcu_ref_get(t) PROVE RefIInv'
  BY <1>0, <1>1, <1>3 DEF urcu_ref_get, RefGoto, RefIInv, RefTypeOK, RefReleases
<1>4. ASSUME NEW t \in RefThreads, urcu_ref_get_unless_zero(t) PROVE RefIInv'
  BY <1>0, <1>1, <1>4 DEF urcu_ref_get_unless_zero, RefGoto, RefIInv, RefTypeOK, RefReleases
<1>5. ASSUME NEW t \in RefThreads, GetFails(t) PROVE RefIInv'
  BY <1>0, <1>1, <1>5 DEF GetFails, RefGoto, RefIInv, RefTypeOK, RefReleases
<1>6. ASSUME NEW t \in RefThreads, GetCas(t) PROVE RefIInv'
  <2>1. CASE refcount # ref_old[t]
    BY <1>0, <1>1, <1>6, <2>1 DEF GetCas, RefIInv, RefTypeOK, RefReleases
  <2>2. CASE refcount = ref_old[t]
    <3>1. refcount # 0 /\ refcount # LONG_MAX
      <4>1. CASE ref_pc[t] = "get"
        BY <1>0, <1>6, <2>2, <4>1, RefHolder DEF GetCas, Refused, RefReleases, RefTypeOK
      <4>2. CASE ref_pc[t] = "get_unless_zero"
        BY <1>6, <2>2, <4>2 DEF GetCas, Refused
      <4> QED BY <1>6, <4>1, <4>2 DEF GetCas
    <3>2. refcount + 1 \in 0 .. LONG_MAX
      BY <1>0, <3>1 DEF RefTypeOK
    <3>3. refcount' = refcount + 1
      BY <1>6, <2>2, <3>2, LongFits DEF GetCas
    <3>4. RefCounted'
      BY <1>0, <1>6, <2>2, <3>3, RefTaken DEF GetCas
    <3>5. RefTypeOK'
      BY <1>0, <1>6, <2>2, <3>2, <3>3 DEF GetCas, RefGoto, RefTypeOK
    <3>6. RefReleases'
      BY <1>0, <1>6, <2>2, <3>1 DEF GetCas, RefGoto, RefTypeOK, RefReleases
    <3> QED BY <3>4, <3>5, <3>6 DEF RefIInv
  <2> QED BY <2>1, <2>2
<1>7. ASSUME NEW t \in RefThreads, urcu_ref_put(t) PROVE RefIInv'
  <2>1. refcount # 0
    BY <1>0, <1>7, RefHolder DEF urcu_ref_put, RefTypeOK
  <2>2. refcount - 1 \in 0 .. LONG_MAX
    BY <1>0, <2>1 DEF RefTypeOK
  <2>3. refcount' = refcount - 1
    BY <1>7, <2>2, LongFits DEF urcu_ref_put
  <2>4. RefCounted'
    BY <1>0, <1>7, <2>3, RefGivenBack DEF urcu_ref_put
  <2>5. RefTypeOK'
    BY <1>0, <1>7, <2>2, <2>3 DEF urcu_ref_put, RefGoto, RefTypeOK
  <2>6. RefReleases'
    BY <1>0, <1>7, <2>1 DEF urcu_ref_put, RefGoto, RefTypeOK, RefReleases
  <2> QED BY <2>4, <2>5, <2>6 DEF RefIInv
<1>8. ASSUME NEW t \in RefThreads, Release(t) PROVE RefIInv'
  BY <1>0, <1>1, <1>8 DEF Release, RefGoto, RefIInv, RefTypeOK, RefReleases
<1> QED BY <1>2, <1>3, <1>4, <1>5, <1>6, <1>7, <1>8 DEF RefNext

(* release() of urcu_ref_put() runs at most once, after the last reference *)
(* is gone and for good, and the count is that of the references that      *)
(* exist, for any number of threads and any width of the counter.          *)
THEOREM RefReleaseIsFinal == RefSpec => []ReleaseIsFinal
<1>1. RefIInv => ReleaseIsFinal
  <2> SUFFICES ASSUME RefIInv PROVE ReleaseIsFinal
    OBVIOUS
  <2> DEFINE R == {t \in RefThreads : ref_pc[t] = "release"}
  <2>1. RefTypeOK /\ RefCounted /\ RefReleases
    BY DEF RefIInv
  <2>2. CASE R = {}
    <3>1. Cardinality(R) = 0
      BY <2>2, FS_EmptySet
    <3>2. ref_released + Cardinality(R) <= 1
      BY <2>1, <3>1 DEF RefTypeOK, RefReleases
    <3>3. ref_released > 0 => \A t \in RefThreads : ref_owned[t] = 0
      BY <2>1, RefNobody DEF RefTypeOK, RefReleases
    <3> QED BY <2>1, <2>2, <3>2, <3>3 DEF ReleaseIsFinal, RefCounted
  <2>3. ASSUME NEW t \in R PROVE ReleaseIsFinal
    <3>1. R = {t} /\ refcount = 0 /\ ref_released = 0
      BY <2>1, <2>3 DEF RefReleases
    <3>2. Cardinality(R) = 1
      BY <3>1, FS_Singleton
    <3>3. ref_released + Cardinality(R) <= 1
      BY <3>1, <3>2
    <3>4. \A u \in RefThreads : ref_owned[u] = 0
      BY <2>1, <3>1, RefNobody DEF RefTypeOK
    <3> QED BY <2>1, <3>3, <3>4 DEF ReleaseIsFinal, RefCounted
  <2> QED BY <2>2, <2>3
<1> QED BY <1>1, RefInitIInv, RefNextIInv, PTL DEF RefSpec

-----------------------------------------------------------------------------
(* Futexes (include/urcu/futex.h, src/compat_futex.c).                     *)

(* The inductive invariant of the futex: each address has one waiter, and  *)
(* a thread is where its build and the function of its address can take    *)
(* it, so that a sleeper and the waker of its address use the same way to  *)
(* sleep and to wake.                                                      *)
FxTypeOK ==
    /\ fx_build \in FxBuilds
    /\ fx_api \in [FxWords -> {"noasync", "async"}]
    /\ fx_word \in [FxWords -> {"0", "-1"}]
    /\ fx_pc \in [FxThreads -> {"idle", "wait", "wake", "sys_wait", "poll", "lock_wait",
                                "test", "cond", "broadcast"}]
    /\ fx_uaddr \in [FxThreads -> FxWords]

FxOneWaiter ==
    \A t, u \in FxThreads : Waiting(t) /\ Waiting(u) /\ fx_uaddr[t] = fx_uaddr[u] => t = u

FxMethods ==
    \A t \in FxThreads :
        /\ fx_pc[t] = "sys_wait" => fx_build \in {"futex", "spurious_enosys"}
        /\ fx_pc[t] \in {"cond", "lock_wait", "test", "broadcast"} =>
              fx_build = "compat" /\ Noasync(t)

FxIInv == FxTypeOK /\ FxOneWaiter /\ FxMethods /\ FutexNoLostWakeup

(* The initial state satisfies the invariant.                              *)
LEMMA FxInitIInv == CompatFutexInit => FxIInv
BY DEF CompatFutexInit, FxIInv, FxTypeOK, FxOneWaiter, FxMethods, FutexNoLostWakeup, Waiting

(* Every step keeps the invariant.                                         *)
LEMMA FxNextIInv == FxIInv /\ [CompatFutexNext]_fxvars => FxIInv'
<1> SUFFICES ASSUME FxIInv, [CompatFutexNext]_fxvars PROVE FxIInv'
  OBVIOUS
<1>0. FxTypeOK /\ FxOneWaiter /\ FxMethods /\ FutexNoLostWakeup
  BY DEF FxIInv
<1> USE DEF FxTypeOK, FxBuilds, Waiting, Noasync, Changed, FxGoto
<1>1. CASE UNCHANGED fxvars
  BY <1>0, <1>1 DEF fxvars, FxIInv, FxOneWaiter, FxMethods, FutexNoLostWakeup
<1>2. ASSUME NEW t \in FxThreads, NEW w \in FxWords, CallWait(t, w) PROVE FxIInv'
  <2>1. FxTypeOK'
    BY <1>0, <1>2 DEF CallWait, FxOneWaiter, FxMethods, FutexNoLostWakeup
  <2>2. FxOneWaiter'
    BY <1>0, <1>2 DEF CallWait, FxOneWaiter, FxMethods, FutexNoLostWakeup
  <2>3. FxMethods'
    BY <1>0, <1>2 DEF CallWait, FxOneWaiter, FxMethods, FutexNoLostWakeup
  <2>4. FutexNoLostWakeup'
    BY <1>0, <1>2 DEF CallWait, FxOneWaiter, FxMethods, FutexNoLostWakeup
  <2> QED BY <2>1, <2>2, <2>3, <2>4 DEF FxIInv
<1>3. ASSUME NEW t \in FxThreads, NEW w \in FxWords, CallWake(t, w) PROVE FxIInv'
  <2>1. FxTypeOK'
    BY <1>0, <1>3 DEF CallWake, FxOneWaiter, FxMethods, FutexNoLostWakeup
  <2>2. FxOneWaiter'
    BY <1>0, <1>3 DEF CallWake, FxOneWaiter, FxMethods, FutexNoLostWakeup
  <2>3. FxMethods'
    BY <1>0, <1>3 DEF CallWake, FxOneWaiter, FxMethods, FutexNoLostWakeup
  <2>4. FutexNoLostWakeup'
    BY <1>0, <1>3 DEF CallWake, FxOneWaiter, FxMethods, FutexNoLostWakeup
  <2> QED BY <2>1, <2>2, <2>3, <2>4 DEF FxIInv
<1>4. ASSUME NEW t \in FxThreads, futex_wait(t) PROVE FxIInv'
  <2>1. FxTypeOK'
    BY <1>0, <1>4 DEF futex_wait, FxOneWaiter, FxMethods, FutexNoLostWakeup
  <2>2. FxOneWaiter'
    BY <1>0, <1>4 DEF futex_wait, FxOneWaiter, FxMethods, FutexNoLostWakeup
  <2>3. FxMethods'
    BY <1>0, <1>4 DEF futex_wait, FxOneWaiter, FxMethods, FutexNoLostWakeup
  <2>4. FutexNoLostWakeup'
    BY <1>0, <1>4 DEF futex_wait, FxOneWaiter, FxMethods, FutexNoLostWakeup
  <2> QED BY <2>1, <2>2, <2>3, <2>4 DEF FxIInv
<1>5. ASSUME NEW t \in FxThreads, futex_wake(t) PROVE FxIInv'
  <2>1. FxTypeOK'
    BY <1>0, <1>5 DEF futex_wake, FxOneWaiter, FxMethods, FutexNoLostWakeup
  <2>2. FxOneWaiter'
    BY <1>0, <1>5 DEF futex_wake, FxOneWaiter, FxMethods, FutexNoLostWakeup
  <2>3. FxMethods'
    BY <1>0, <1>5 DEF futex_wake, FxOneWaiter, FxMethods, FutexNoLostWakeup
  <2>4. FutexNoLostWakeup'
    BY <1>0, <1>5 DEF futex_wake, FxOneWaiter, FxMethods, FutexNoLostWakeup
  <2> QED BY <2>1, <2>2, <2>3, <2>4 DEF FxIInv
<1>6. ASSUME NEW t \in FxThreads, Interrupted(t) PROVE FxIInv'
  <2>1. FxTypeOK'
    BY <1>0, <1>6 DEF Interrupted, FxOneWaiter, FxMethods, FutexNoLostWakeup
  <2>2. FxOneWaiter'
    BY <1>0, <1>6 DEF Interrupted, FxOneWaiter, FxMethods, FutexNoLostWakeup
  <2>3. FxMethods'
    BY <1>0, <1>6 DEF Interrupted, FxOneWaiter, FxMethods, FutexNoLostWakeup
  <2>4. FutexNoLostWakeup'
    BY <1>0, <1>6 DEF Interrupted, FxOneWaiter, FxMethods, FutexNoLostWakeup
  <2> QED BY <2>1, <2>2, <2>3, <2>4 DEF FxIInv
<1>7. ASSUME NEW t \in FxThreads, futex_enosys(t) PROVE FxIInv'
  <2>1. FxTypeOK'
    BY <1>0, <1>7 DEF futex_enosys, FxOneWaiter, FxMethods, FutexNoLostWakeup
  <2>2. FxOneWaiter'
    BY <1>0, <1>7 DEF futex_enosys, FxOneWaiter, FxMethods, FutexNoLostWakeup
  <2>3. FxMethods'
    BY <1>0, <1>7 DEF futex_enosys, FxOneWaiter, FxMethods, FutexNoLostWakeup
  <2>4. FutexNoLostWakeup'
    BY <1>0, <1>7 DEF futex_enosys, FxOneWaiter, FxMethods, FutexNoLostWakeup
  <2> QED BY <2>1, <2>2, <2>3, <2>4 DEF FxIInv
<1>8. ASSUME NEW t \in FxThreads, compat_futex_async(t) PROVE FxIInv'
  <2>1. FxTypeOK'
    BY <1>0, <1>8 DEF compat_futex_async, FxOneWaiter, FxMethods, FutexNoLostWakeup
  <2>2. FxOneWaiter'
    BY <1>0, <1>8 DEF compat_futex_async, FxOneWaiter, FxMethods, FutexNoLostWakeup
  <2>3. FxMethods'
    BY <1>0, <1>8 DEF compat_futex_async, FxOneWaiter, FxMethods, FutexNoLostWakeup
  <2>4. FutexNoLostWakeup'
    BY <1>0, <1>8 DEF compat_futex_async, FxOneWaiter, FxMethods, FutexNoLostWakeup
  <2> QED BY <2>1, <2>2, <2>3, <2>4 DEF FxIInv
<1>9. ASSUME NEW t \in FxThreads, PollReturns(t) PROVE FxIInv'
  <2>1. FxTypeOK'
    BY <1>0, <1>9 DEF PollReturns, FxOneWaiter, FxMethods, FutexNoLostWakeup
  <2>2. FxOneWaiter'
    BY <1>0, <1>9 DEF PollReturns, FxOneWaiter, FxMethods, FutexNoLostWakeup
  <2>3. FxMethods'
    BY <1>0, <1>9 DEF PollReturns, FxOneWaiter, FxMethods, FutexNoLostWakeup
  <2>4. FutexNoLostWakeup'
    BY <1>0, <1>9 DEF PollReturns, FxOneWaiter, FxMethods, FutexNoLostWakeup
  <2> QED BY <2>1, <2>2, <2>3, <2>4 DEF FxIInv
<1>10. ASSUME NEW t \in FxThreads, compat_futex_noasync(t) PROVE FxIInv'
  <2>1. FxTypeOK'
    BY <1>0, <1>10 DEF compat_futex_noasync, FxOneWaiter, FxMethods, FutexNoLostWakeup
  <2>2. FxOneWaiter'
    BY <1>0, <1>10 DEF compat_futex_noasync, FxOneWaiter, FxMethods, FutexNoLostWakeup
  <2>3. FxMethods'
    BY <1>0, <1>10 DEF compat_futex_noasync, FxOneWaiter, FxMethods, FutexNoLostWakeup
  <2>4. FutexNoLostWakeup'
    BY <1>0, <1>10 DEF compat_futex_noasync, FxOneWaiter, FxMethods, FutexNoLostWakeup
  <2> QED BY <2>1, <2>2, <2>3, <2>4 DEF FxIInv
<1>11. ASSUME NEW t \in FxThreads, CompatWait(t) PROVE FxIInv'
  <2>1. FxTypeOK'
    BY <1>0, <1>11 DEF CompatWait, FxOneWaiter, FxMethods, FutexNoLostWakeup
  <2>2. FxOneWaiter'
    BY <1>0, <1>11 DEF CompatWait, FxOneWaiter, FxMethods, FutexNoLostWakeup
  <2>3. FxMethods'
    BY <1>0, <1>11 DEF CompatWait, FxOneWaiter, FxMethods, FutexNoLostWakeup
  <2>4. FutexNoLostWakeup'
    BY <1>0, <1>11 DEF CompatWait, FxOneWaiter, FxMethods, FutexNoLostWakeup
  <2> QED BY <2>1, <2>2, <2>3, <2>4 DEF FxIInv
<1>12. ASSUME NEW t \in FxThreads, CondWakeup(t) PROVE FxIInv'
  <2>1. FxTypeOK'
    BY <1>0, <1>12 DEF CondWakeup, FxOneWaiter, FxMethods, FutexNoLostWakeup
  <2>2. FxOneWaiter'
    BY <1>0, <1>12 DEF CondWakeup, FxOneWaiter, FxMethods, FutexNoLostWakeup
  <2>3. FxMethods'
    BY <1>0, <1>12 DEF CondWakeup, FxOneWaiter, FxMethods, FutexNoLostWakeup
  <2>4. FutexNoLostWakeup'
    BY <1>0, <1>12 DEF CondWakeup, FxOneWaiter, FxMethods, FutexNoLostWakeup
  <2> QED BY <2>1, <2>2, <2>3, <2>4 DEF FxIInv
<1>13. ASSUME NEW t \in FxThreads, CompatWake(t) PROVE FxIInv'
  <2>1. FxTypeOK'
    BY <1>0, <1>13 DEF CompatWake, Broadcast, FxOneWaiter, FxMethods, FutexNoLostWakeup
  <2>2. FxOneWaiter'
    BY <1>0, <1>13 DEF CompatWake, Broadcast, FxOneWaiter, FxMethods, FutexNoLostWakeup
  <2>3. FxMethods'
    BY <1>0, <1>13 DEF CompatWake, Broadcast, FxOneWaiter, FxMethods, FutexNoLostWakeup
  <2>4. FutexNoLostWakeup'
    BY <1>0, <1>13 DEF CompatWake, Broadcast, FxOneWaiter, FxMethods, FutexNoLostWakeup
  <2> QED BY <2>1, <2>2, <2>3, <2>4 DEF FxIInv
<1> QED BY <1>1, <1>2, <1>3, <1>4, <1>5, <1>6, <1>7, <1>8, <1>9, <1>10, <1>11, <1>12, <1>13 DEF CompatFutexNext

(* A thread that sleeps in futex_noasync() or futex_async() on a value     *)
(* that has changed is about to be woken, in every build and for any       *)
(* number of threads and addresses.                                        *)
THEOREM FutexWakeupsArrive == CompatFutexSpec => []FutexNoLostWakeup
<1>1. FxIInv => FutexNoLostWakeup
  BY DEF FxIInv
<1> QED BY <1>1, FxInitIInv, FxNextIInv, PTL DEF CompatFutexSpec

-----------------------------------------------------------------------------
(* Linked lists, for the containers below.                                 *)

(* What a sequence holds.                                                  *)
Items(s) == {s[i] : i \in DOMAIN s}

(* The pointers link the items of a sequence, each once, up to an end.     *)
Chain(next, s, e) ==
    /\ \A i, j \in 1 .. Len(s) : s[i] = s[j] => i = j
    /\ \A i \in 1 .. Len(s) : next[s[i]] = IF i < Len(s) THEN s[i + 1] ELSE e

(* A node in front of a sequence.                                          *)
LEMMA ConsFacts ==
    ASSUME NEW N, NEW s \in Seq(N), NEW n \in N
    PROVE  /\ <<n>> \o s \in Seq(N) /\ Len(<<n>> \o s) = Len(s) + 1
           /\ (<<n>> \o s)[1] = n
           /\ \A i \in 1 .. Len(s) : (<<n>> \o s)[i + 1] = s[i]
           /\ <<n>> \o s # << >>
<1>1. <<n>> \o s \in Seq(N) /\ Len(<<n>> \o s) = Len(s) + 1 /\ Len(s) \in Nat
  OBVIOUS
<1>2. (<<n>> \o s)[1] = n
  OBVIOUS
<1>3. \A i \in 1 .. Len(s) : (<<n>> \o s)[i + 1] = s[i]
  OBVIOUS
<1> QED BY <1>1, <1>2, <1>3

(* The elements of a sequence of nodes are nodes.                          *)
LEMMA ItemsType == \A N : \A s \in Seq(N) : Items(s) \subseteq N
BY DEF Items

(* The elements of a sequence with a node in front.                        *)
LEMMA ConsItems ==
    ASSUME NEW N, NEW s \in Seq(N), NEW n \in N
    PROVE  Items(<<n>> \o s) = Items(s) \cup {n}
<1> DEFINE c == <<n>> \o s
<1>1. /\ c \in Seq(N) /\ Len(c) = Len(s) + 1 /\ c[1] = n
      /\ \A i \in 1 .. Len(s) : c[i + 1] = s[i]
  BY ConsFacts
<1> HIDE DEF c
<1>2. DOMAIN c = 1 .. Len(s) + 1 /\ DOMAIN s = 1 .. Len(s) /\ Len(s) \in Nat
  BY <1>1
<1>3. ASSUME NEW i \in DOMAIN c PROVE c[i] \in Items(s) \cup {n}
  <2>1. CASE i = 1
    BY <1>1, <2>1
  <2>2. CASE i # 1
    <3>1. i - 1 \in 1 .. Len(s) /\ (i - 1) + 1 = i
      BY <1>2, <2>2
    <3> QED BY <1>1, <1>2, <3>1 DEF Items
  <2> QED BY <2>1, <2>2
<1>4. ASSUME NEW i \in DOMAIN s PROVE s[i] \in Items(c)
  <2>1. i + 1 \in DOMAIN c /\ c[i + 1] = s[i]
    BY <1>1, <1>2
  <2> QED BY <2>1 DEF Items
<1>5. n \in Items(c)
  BY <1>1, <1>2 DEF Items
<1> QED BY <1>3, <1>4, <1>5 DEF Items, c

(* A sequence without its first node.                                      *)
LEMMA TailFacts ==
    ASSUME NEW N, NEW s \in Seq(N), s # << >>
    PROVE  /\ Tail(s) \in Seq(N) /\ Len(Tail(s)) = Len(s) - 1 /\ Len(s) \in Nat \ {0}
           /\ s[1] \in N /\ \A i \in 1 .. Len(s) - 1 : Tail(s)[i] = s[i + 1]
OBVIOUS

(* The elements of a sequence without its first node.                      *)
LEMMA TailItems ==
    ASSUME NEW N, NEW s \in Seq(N), s # << >>
    PROVE  Items(s) = Items(Tail(s)) \cup {s[1]}
<1> DEFINE c == Tail(s)
<1>1. /\ c \in Seq(N) /\ Len(c) = Len(s) - 1 /\ Len(s) \in Nat \ {0}
      /\ \A i \in 1 .. Len(s) - 1 : c[i] = s[i + 1]
  BY TailFacts
<1> HIDE DEF c
<1>2. DOMAIN c = 1 .. Len(s) - 1 /\ DOMAIN s = 1 .. Len(s)
  BY <1>1
<1>3. ASSUME NEW i \in DOMAIN s PROVE s[i] \in Items(c) \cup {s[1]}
  <2>1. CASE i # 1
    <3>1. i - 1 \in DOMAIN c /\ c[i - 1] = s[(i - 1) + 1] /\ (i - 1) + 1 = i
      BY <1>1, <1>2, <2>1
    <3> QED BY <3>1 DEF Items
  <2> QED BY <2>1
<1>4. ASSUME NEW i \in DOMAIN c PROVE c[i] \in Items(s)
  <2>1. i + 1 \in DOMAIN s /\ c[i] = s[i + 1]
    BY <1>1, <1>2
  <2> QED BY <2>1 DEF Items
<1>5. s[1] \in Items(s)
  BY <1>1, <1>2 DEF Items
<1> QED BY <1>3, <1>4, <1>5 DEF Items, c

(* A node that points to the first one of a chain makes a longer chain.    *)
LEMMA ChainCons ==
    ASSUME NEW e, NEW next, NEW N, NEW s \in Seq(N), NEW n \in N, Chain(next, s, e),
           n \notin Items(s), next[n] = IF s = << >> THEN e ELSE s[1]
    PROVE  Chain(next, <<n>> \o s, e)
<1> DEFINE c == <<n>> \o s
<1>1. /\ Len(c) = Len(s) + 1 /\ Len(s) \in Nat /\ c[1] = n
      /\ \A i \in 1 .. Len(s) : c[i + 1] = s[i]
  BY ConsFacts
<1>2. \A i \in 1 .. Len(c) : i = 1 \/ (i - 1 \in 1 .. Len(s) /\ c[i] = s[i - 1])
  <2> SUFFICES ASSUME NEW i \in 1 .. Len(c), i # 1
               PROVE  i - 1 \in 1 .. Len(s) /\ c[i] = s[i - 1]
    OBVIOUS
  <2>1. i - 1 \in 1 .. Len(s) /\ (i - 1) + 1 = i
    BY <1>1
  <2> QED BY <1>1, <2>1
<1> HIDE DEF c
<1>3. \A i \in 1 .. Len(s) : s[i] # n
  BY DEF Items
<1>4. ASSUME NEW i \in 1 .. Len(c), NEW j \in 1 .. Len(c), c[i] = c[j] PROVE i = j
  <2>1. CASE i = 1 \/ j = 1
    BY <1>1, <1>2, <1>3, <1>4, <2>1
  <2>2. CASE i # 1 /\ j # 1
    <3>1. i - 1 \in 1 .. Len(s) /\ j - 1 \in 1 .. Len(s) /\ s[i - 1] = s[j - 1]
      BY <1>2, <1>4, <2>2
    <3>2. i - 1 = j - 1
      BY <3>1 DEF Chain
    <3> QED BY <3>2
  <2> QED BY <2>1, <2>2
<1>5. ASSUME NEW i \in 1 .. Len(c)
      PROVE  next[c[i]] = IF i < Len(c) THEN c[i + 1] ELSE e
  <2>1. CASE i = 1 /\ s = << >>
    BY <1>1, <2>1
  <2>2. CASE i = 1 /\ s # << >>
    <3>1. Len(s) \in Nat \ {0}
      BY <2>2, TailFacts
    <3>2. c[i] = n /\ c[i + 1] = s[1] /\ i < Len(c)
      BY <1>1, <2>2, <3>1
    <3> QED BY <2>2, <3>2
  <2>3. CASE i # 1
    <3>1. i - 1 \in 1 .. Len(s) /\ c[i] = s[i - 1]
      BY <1>2, <2>3
    <3>2. next[s[i - 1]] = IF i - 1 < Len(s) THEN s[(i - 1) + 1] ELSE e
      BY <3>1 DEF Chain
    <3>3. (i - 1) + 1 = i /\ (i - 1 < Len(s) <=> i < Len(c))
      BY <1>1
    <3>4. i < Len(c) => c[i + 1] = s[i]
      BY <1>1, <3>1
    <3> QED BY <3>1, <3>2, <3>3, <3>4
  <2> QED BY <2>1, <2>2, <2>3
<1>6. Chain(next, c, e)
  BY <1>4, <1>5 DEF Chain
<1> QED BY <1>6 DEF c

(* A chain without its first node is a chain, and starts where the first   *)
(* one points.                                                             *)
LEMMA ChainTail ==
    ASSUME NEW e, NEW next, NEW N, NEW s \in Seq(N), s # << >>, Chain(next, s, e),
           NEW c, c = Tail(s), NEW n, n = s[1]
    PROVE  /\ Chain(next, c, e) /\ n \notin Items(c)
           /\ Len(c) = 0 => next[n] = e
           /\ Len(c) # 0 => next[n] = c[1]
<1>1. /\ c \in Seq(N) /\ Len(c) = Len(s) - 1 /\ Len(s) \in Nat \ {0}
      /\ \A i \in 1 .. Len(s) - 1 : c[i] = s[i + 1]
  BY TailFacts
<1>2. ASSUME NEW i \in 1 .. Len(c), NEW j \in 1 .. Len(c), c[i] = c[j] PROVE i = j
  <2>1. i + 1 \in 1 .. Len(s) /\ j + 1 \in 1 .. Len(s) /\ s[i + 1] = s[j + 1]
    BY <1>1, <1>2
  <2>2. i + 1 = j + 1
    BY <2>1 DEF Chain
  <2> QED BY <2>2
<1>3. ASSUME NEW i \in 1 .. Len(c)
      PROVE  next[c[i]] = IF i < Len(c) THEN c[i + 1] ELSE e
  <2>1. i + 1 \in 1 .. Len(s) /\ c[i] = s[i + 1]
    BY <1>1
  <2>2. next[s[i + 1]] = IF i + 1 < Len(s) THEN s[(i + 1) + 1] ELSE e
    BY <2>1 DEF Chain
  <2>3. i < Len(c) <=> i + 1 < Len(s)
    BY <1>1
  <2>4. i < Len(c) => c[i + 1] = s[(i + 1) + 1]
    BY <1>1
  <2> QED BY <2>1, <2>2, <2>3, <2>4
<1>4. s[1] \notin Items(c)
  <2> SUFFICES ASSUME NEW i \in DOMAIN c, c[i] = s[1] PROVE FALSE
    BY DEF Items
  <2>1. i \in 1 .. Len(s) - 1 /\ i + 1 \in 1 .. Len(s) /\ 1 \in 1 .. Len(s) /\ s[i + 1] = s[1]
    BY <1>1
  <2>2. i + 1 = 1
    BY <2>1 DEF Chain
  <2> QED BY <2>1, <2>2
<1>5. (Len(c) = 0 => next[s[1]] = e) /\ (Len(c) # 0 => next[s[1]] = c[1])
  <2>1. next[s[1]] = IF 1 < Len(s) THEN s[1 + 1] ELSE e
    BY <1>1 DEF Chain
  <2>2. CASE Len(c) = 0
    BY <1>1, <2>1, <2>2
  <2>3. CASE Len(c) # 0
    BY <1>1, <2>1, <2>3
  <2> QED BY <2>2, <2>3
<1> QED BY <1>2, <1>3, <1>4, <1>5 DEF Chain

(* A chain depends on the next pointers of its nodes only.                 *)
LEMMA ChainKept ==
    ASSUME NEW e, NEW next, NEW next2, NEW N, NEW s \in Seq(N), Chain(next, s, e),
           \A n \in Items(s) : next2[n] = next[n]
    PROVE  Chain(next2, s, e)
BY DEF Chain, Items

(* The empty chain.                                                        *)
LEMMA ChainEmpty == \A next, e : Chain(next, << >>, e) /\ Items(<< >>) = {}
BY DEF Chain, Items

(* A sequence behind another one.                                          *)
LEMMA ConcatFacts ==
    ASSUME NEW N, NEW s \in Seq(N), NEW r \in Seq(N)
    PROVE  /\ s \o r \in Seq(N) /\ Len(s \o r) = Len(s) + Len(r)
           /\ Len(s) \in Nat /\ Len(r) \in Nat
           /\ \A i \in 1 .. Len(s) : (s \o r)[i] = s[i]
           /\ \A i \in 1 .. Len(r) : (s \o r)[Len(s) + i] = r[i]
<1>1. s \o r \in Seq(N) /\ Len(s \o r) = Len(s) + Len(r) /\ Len(s) \in Nat /\ Len(r) \in Nat
  OBVIOUS
<1>2. \A i \in 1 .. Len(s) : (s \o r)[i] = s[i]
  OBVIOUS
<1>3. \A i \in 1 .. Len(r) : (s \o r)[Len(s) + i] = r[i]
  OBVIOUS
<1> QED BY <1>1, <1>2, <1>3

(* A concatenation holds what its parts hold.                              *)
LEMMA ConcatItems ==
    ASSUME NEW N, NEW s \in Seq(N), NEW r \in Seq(N)
    PROVE  Items(s \o r) = Items(s) \cup Items(r)
<1> DEFINE c == s \o r
<1>1. /\ c \in Seq(N) /\ Len(c) = Len(s) + Len(r) /\ Len(s) \in Nat /\ Len(r) \in Nat
      /\ \A i \in 1 .. Len(s) : c[i] = s[i]
      /\ \A i \in 1 .. Len(r) : c[Len(s) + i] = r[i]
  BY ConcatFacts
<1> HIDE DEF c
<1>2. DOMAIN c = 1 .. Len(s) + Len(r) /\ DOMAIN s = 1 .. Len(s) /\ DOMAIN r = 1 .. Len(r)
  BY <1>1
<1>3. ASSUME NEW i \in DOMAIN c PROVE c[i] \in Items(s) \cup Items(r)
  <2>1. CASE i <= Len(s)
    BY <1>1, <1>2, <2>1 DEF Items
  <2>2. CASE ~ (i <= Len(s))
    <3>1. i - Len(s) \in 1 .. Len(r) /\ Len(s) + (i - Len(s)) = i
      BY <1>1, <1>2, <2>2
    <3> QED BY <1>1, <1>2, <3>1 DEF Items
  <2> QED BY <2>1, <2>2
<1>4. ASSUME NEW i \in DOMAIN s PROVE s[i] \in Items(c)
  <2>1. i \in DOMAIN c /\ c[i] = s[i]
    BY <1>1, <1>2
  <2> QED BY <2>1 DEF Items
<1>5. ASSUME NEW i \in DOMAIN r PROVE r[i] \in Items(c)
  <2>1. Len(s) + i \in DOMAIN c /\ c[Len(s) + i] = r[i]
    BY <1>1, <1>2
  <2> QED BY <2>1 DEF Items
<1> QED BY <1>3, <1>4, <1>5 DEF Items, c

(* The last item of one chain is linked to the first item of another.      *)
LEMMA ChainConcat ==
    ASSUME NEW e, NEW next, NEW next2, NEW N, NEW s \in Seq(N), NEW r \in Seq(N),
           Chain(next, s, e), Chain(next, r, e), Items(s) \cap Items(r) = {},
           s # << >>, r # << >>, next2[s[Len(s)]] = r[1],
           \A i \in 1 .. Len(s) - 1 : next2[s[i]] = next[s[i]],
           \A n \in Items(r) : next2[n] = next[n]
    PROVE  Chain(next2, s \o r, e)
<1> DEFINE c == s \o r
<1>1. /\ c \in Seq(N) /\ Len(c) = Len(s) + Len(r)
      /\ \A i \in 1 .. Len(s) : c[i] = s[i]
      /\ \A i \in 1 .. Len(r) : c[Len(s) + i] = r[i]
  BY ConcatFacts
<1>2. Len(s) \in Nat \ {0} /\ Len(r) \in Nat \ {0}
  BY TailFacts
<1> HIDE DEF c
<1>3. \A i \in 1 .. Len(c) :
         i \in 1 .. Len(s) \/ (i - Len(s) \in 1 .. Len(r) /\ c[i] = r[i - Len(s)])
  <2> SUFFICES ASSUME NEW i \in 1 .. Len(c), i \notin 1 .. Len(s)
               PROVE  i - Len(s) \in 1 .. Len(r) /\ c[i] = r[i - Len(s)]
    OBVIOUS
  <2>1. i - Len(s) \in 1 .. Len(r) /\ Len(s) + (i - Len(s)) = i
    BY <1>1, <1>2
  <2> QED BY <1>1, <2>1
<1>4. \A i \in 1 .. Len(s), j \in 1 .. Len(r) : s[i] # r[j]
  <2> SUFFICES ASSUME NEW i \in 1 .. Len(s), NEW j \in 1 .. Len(r) PROVE s[i] # r[j]
    OBVIOUS
  <2>1. s[i] \in Items(s) /\ r[j] \in Items(r)
    BY <1>2 DEF Items
  <2> QED BY <2>1
<1>5. ASSUME NEW i \in 1 .. Len(c), NEW j \in 1 .. Len(c), c[i] = c[j] PROVE i = j
  <2>1. CASE i \in 1 .. Len(s) /\ j \in 1 .. Len(s)
    <3>1. s[i] = s[j]
      BY <1>1, <1>5, <2>1
    <3> QED BY <2>1, <3>1 DEF Chain
  <2>2. CASE i \notin 1 .. Len(s) /\ j \notin 1 .. Len(s)
    <3>1. i - Len(s) \in 1 .. Len(r) /\ j - Len(s) \in 1 .. Len(r)
          /\ r[i - Len(s)] = r[j - Len(s)]
      BY <1>3, <1>5, <2>2
    <3>2. i - Len(s) = j - Len(s)
      BY <3>1 DEF Chain
    <3> QED BY <1>1, <1>2, <3>2
  <2>3. CASE i \in 1 .. Len(s) /\ j \notin 1 .. Len(s)
    <3>1. j - Len(s) \in 1 .. Len(r) /\ c[j] = r[j - Len(s)] /\ c[i] = s[i]
      BY <1>1, <1>3, <2>3
    <3> QED BY <1>4, <1>5, <2>3, <3>1
  <2>4. CASE i \notin 1 .. Len(s) /\ j \in 1 .. Len(s)
    <3>1. i - Len(s) \in 1 .. Len(r) /\ c[i] = r[i - Len(s)] /\ c[j] = s[j]
      BY <1>1, <1>3, <2>4
    <3> QED BY <1>4, <1>5, <2>4, <3>1
  <2> QED BY <2>1, <2>2, <2>3, <2>4
<1>6. ASSUME NEW i \in 1 .. Len(c)
      PROVE  next2[c[i]] = IF i < Len(c) THEN c[i + 1] ELSE e
  <2>1. CASE i \in 1 .. Len(s) - 1
    <3>1. i \in 1 .. Len(s) /\ i + 1 \in 1 .. Len(s) /\ i < Len(s) /\ i < Len(c)
      BY <1>1, <1>2, <2>1
    <3>2. next[s[i]] = s[i + 1]
      BY <3>1 DEF Chain
    <3>3. c[i] = s[i] /\ c[i + 1] = s[i + 1]
      BY <1>1, <3>1
    <3> QED BY <2>1, <3>1, <3>2, <3>3
  <2>2. CASE i = Len(s)
    <3>1. i \in 1 .. Len(s) /\ 1 \in 1 .. Len(r) /\ i < Len(c)
      BY <1>1, <1>2, <2>2
    <3>2. c[i] = s[Len(s)] /\ c[i + 1] = r[1]
      BY <1>1, <2>2, <3>1
    <3> QED BY <3>1, <3>2
  <2>3. CASE i \notin 1 .. Len(s)
    <3>1. i - Len(s) \in 1 .. Len(r) /\ c[i] = r[i - Len(s)]
      BY <1>3, <2>3
    <3>2. next[r[i - Len(s)]] = IF i - Len(s) < Len(r) THEN r[(i - Len(s)) + 1] ELSE e
      BY <3>1 DEF Chain
    <3>3. next2[r[i - Len(s)]] = next[r[i - Len(s)]]
      BY <1>2, <3>1 DEF Items
    <3>4. i - Len(s) < Len(r) <=> i < Len(c)
      BY <1>1, <1>2
    <3>5. ASSUME i < Len(c) PROVE c[i + 1] = r[(i - Len(s)) + 1]
      <4>1. (i - Len(s)) + 1 \in 1 .. Len(r)
        BY <1>1, <1>2, <3>1, <3>5
      <4>2. c[Len(s) + ((i - Len(s)) + 1)] = r[(i - Len(s)) + 1]
        BY <1>1, <4>1
      <4>3. Len(s) + ((i - Len(s)) + 1) = i + 1
        BY <1>2
      <4> QED BY <4>2, <4>3
    <3> QED BY <3>1, <3>2, <3>3, <3>4, <3>5
  <2> QED BY <1>1, <1>2, <2>1, <2>2, <2>3
<1>7. Chain(next2, c, e)
  BY <1>5, <1>6 DEF Chain
<1> QED BY <1>7 DEF c

(* The chain of one item.                                                  *)
LEMMA ChainOne ==
    ASSUME NEW e, NEW next, NEW n, next[n] = e
    PROVE  Chain(next, <<n>>, e) /\ Items(<<n>>) = {n}
BY DEF Chain, Items

-----------------------------------------------------------------------------
(* lfstack and rculfstack (static/lfstack.h, static/rculfstack.h).         *)

(* Where a thread is, and its local variables.                             *)
LfsPC == {"idle", "push_cas", "load_head", "load_next", "cas_head", "xchg_head",
          "walk", "return", "pop_return"}
LfsMaybe == LfsNodes \cup {LfsNull}

LfsFrames == [node : LfsMaybe, next : LfsMaybe, seen : Seq(LfsNodes)]

(* Every variable has its type.                                            *)
LfsTypeOK ==
    /\ ls_head \in LfsMaybe
    /\ ls_next \in [LfsNodes -> LfsMaybe]
    /\ ls_lock \in LfsThreads \cup {LfsNull}
    /\ ls_technique \in {"rcu", "mutex", "single", "rculfstack"}
    /\ ls_pc \in [LfsThreads -> LfsPC]
    /\ ls_frame \in [LfsThreads -> LfsFrames]
    /\ ls_grace \in [LfsNodes -> SUBSET LfsThreads]
    /\ ls_lifo \in Seq(LfsNodes)
    /\ ls_hand \in [LfsThreads -> Seq(LfsNodes)]
    /\ DOMAIN ls_ret = LfsThreads
    /\ ls_ret = [t \in LfsThreads |-> ls_ret[t]]

(* The pointers link the nodes of a sequence, each once, up to NULL.       *)
LfsLinked(next, s) ==
    /\ \A i, j \in 1 .. Len(s) : s[i] = s[j] => i = j
    /\ \A i \in 1 .. Len(s) : next[s[i]] = IF i < Len(s) THEN s[i + 1] ELSE LfsNull

(* The pointers in memory link the nodes of the stack, from its head, and  *)
(* those of each list that cds_lfs_pop_all() returned.                     *)
LfsChains ==
    /\ LfsLinked(ls_next, ls_lifo)
    /\ \A t \in LfsThreads : LfsLinked(ls_next, ls_hand[t])
    /\ ls_head = IF ls_lifo = << >> THEN LfsNull ELSE ls_lifo[1]

(* A node is in one place: the stack, a hand or a push.                    *)
LfsTaken(t) ==
    \A n \in LfsElements(ls_hand[t]) :
        /\ n \notin LfsElements(ls_lifo)
        /\ \A u \in LfsThreads : u # t => n \notin LfsElements(ls_hand[u])
LfsPushing(t) ==
    ls_pc[t] = "push_cas" =>
        /\ ls_frame[t].node \in LfsNodes
        /\ ls_next[ls_frame[t].node] = ls_frame[t].next
        /\ ls_grace[ls_frame[t].node] = {}
        /\ ls_frame[t].node \notin LfsElements(ls_lifo)
        /\ \A u \in LfsThreads :
              /\ ls_frame[t].node \notin LfsElements(ls_hand[u])
              /\ u # t /\ ls_pc[u] = "push_cas" => ls_frame[u].node # ls_frame[t].node
LfsOnce == \A t \in LfsThreads : LfsTaken(t) /\ LfsPushing(t)

(* The node a popper has seen is on the stack, where its next pointer does *)
(* not change, or waits for the end of the popper's section.               *)
LfsReads(t) == ls_pc[t] \in {"load_next", "cas_head"}
LfsPopping(t) ==
    LfsReads(t) =>
        /\ ls_frame[t].node \in LfsNodes
        /\ \/ ls_frame[t].node \in LfsElements(ls_lifo)
           \/ UsesRcu /\ t \in ls_grace[ls_frame[t].node]
           \/ UsesRcu /\ \E u \in LfsThreads :
                            ls_frame[t].node \in LfsElements(ls_hand[u])
        /\ ls_pc[t] = "cas_head" /\ ls_frame[t].node \in LfsElements(ls_lifo) =>
              ls_frame[t].next = ls_next[ls_frame[t].node]
LfsPoppers == \A t \in LfsThreads : LfsPopping(t)

(* Consumers exclude each other unless they rely on RCU.                   *)
LfsConsumers ==
    \A t \in LfsThreads :
        ls_pc[t] \in {"load_head", "load_next", "cas_head", "xchg_head", "pop_return"} =>
            /\ ls_technique = "mutex" => ls_lock = t
            /\ ls_technique = "single" => t = LfsConsumer

(* Who took all walks through it, in order.                                *)
LfsWalking(t) ==
    /\ ls_hand[t] # << >> <=> ls_pc[t] = "walk"
    /\ ls_pc[t] = "walk" =>
          /\ Len(ls_frame[t].seen) \in 1 .. Len(ls_hand[t])
          /\ \A i \in 1 .. Len(ls_frame[t].seen) : ls_frame[t].seen[i] = ls_hand[t][i]
          /\ ls_frame[t].node = ls_hand[t][Len(ls_frame[t].seen)]
    /\ ls_pc[t] \notin {"return", "pop_return"} => ls_ret[t] = LfsNull
LfsWalkers == \A t \in LfsThreads : LfsWalking(t)

(* The inductive invariant of the stacks.                                  *)
LfsIInv ==
    /\ LfsTypeOK /\ LfsChains /\ LfsOnce /\ LfsPoppers /\ LfsConsumers /\ LfsWalkers

(* The facts about chains above, for the nodes of lfstack.                 *)
LEMMA LfsChainOf == \A next, s : LfsLinked(next, s) <=> Chain(next, s, LfsNull)
BY DEF LfsLinked, Chain

(* What a stack holds, in the words of the generic lemmas.                 *)
LEMMA LfsItemsOf == \A s : LfsElements(s) = Items(s)
BY DEF LfsElements, Items

(* A node in front of a sequence.                                          *)
LEMMA LfsConsFacts ==
    ASSUME NEW s \in Seq(LfsNodes), NEW n \in LfsNodes
    PROVE  /\ <<n>> \o s \in Seq(LfsNodes) /\ Len(<<n>> \o s) = Len(s) + 1
           /\ (<<n>> \o s)[1] = n
           /\ \A i \in 1 .. Len(s) : (<<n>> \o s)[i + 1] = s[i]
           /\ <<n>> \o s # << >>
BY ConsFacts

(* The elements of a sequence of nodes are nodes.                          *)
LEMMA LfsElementsType == \A s \in Seq(LfsNodes) : LfsElements(s) \subseteq LfsNodes
BY ItemsType, LfsItemsOf

(* The elements of a sequence with a node in front.                        *)
LEMMA LfsConsElements ==
    ASSUME NEW s \in Seq(LfsNodes), NEW n \in LfsNodes
    PROVE  LfsElements(<<n>> \o s) = LfsElements(s) \cup {n}
BY ConsItems, LfsItemsOf

(* A sequence without its first node.                                      *)
LEMMA LfsTailFacts ==
    ASSUME NEW s \in Seq(LfsNodes), s # << >>
    PROVE  /\ Tail(s) \in Seq(LfsNodes) /\ Len(Tail(s)) = Len(s) - 1 /\ Len(s) \in Nat \ {0}
           /\ s[1] \in LfsNodes /\ \A i \in 1 .. Len(s) - 1 : Tail(s)[i] = s[i + 1]
BY TailFacts

(* The elements of a sequence without its first node.                      *)
LEMMA LfsTailElements ==
    ASSUME NEW s \in Seq(LfsNodes), s # << >>
    PROVE  LfsElements(s) = LfsElements(Tail(s)) \cup {s[1]}
BY TailItems, LfsItemsOf

(* A node that points to the first one of a chain makes a longer chain.    *)
LEMMA LfsLinkedCons ==
    ASSUME NEW next, NEW s \in Seq(LfsNodes), NEW n \in LfsNodes, LfsLinked(next, s),
           n \notin LfsElements(s), next[n] = IF s = << >> THEN LfsNull ELSE s[1]
    PROVE  LfsLinked(next, <<n>> \o s)
<1>1. Chain(next, s, LfsNull) /\ n \notin Items(s)
  BY LfsChainOf, LfsItemsOf
<1>2. Chain(next, <<n>> \o s, LfsNull)
  BY <1>1, ChainCons
<1> QED BY <1>2, LfsChainOf

(* A chain without its first node is a chain, and starts where the first   *)
(* one points.                                                             *)
LEMMA LfsLinkedTail ==
    ASSUME NEW next, NEW s \in Seq(LfsNodes), s # << >>, LfsLinked(next, s)
    PROVE  /\ LfsLinked(next, Tail(s)) /\ s[1] \notin LfsElements(Tail(s))
           /\ next[s[1]] = IF Tail(s) = << >> THEN LfsNull ELSE Tail(s)[1]
<1>1. Chain(next, s, LfsNull)
  BY LfsChainOf
<1> DEFINE c == Tail(s)
<1>2. /\ c \in Seq(LfsNodes) /\ Len(c) = Len(s) - 1 /\ Len(s) \in Nat \ {0}
      /\ \A i \in 1 .. Len(s) - 1 : c[i] = s[i + 1]
  BY LfsTailFacts
<1>3. Chain(next, c, LfsNull) /\ s[1] \notin Items(c)
  BY <1>1, ChainTail
<1> HIDE DEF c
<1>4. next[s[1]] = IF 1 < Len(s) THEN s[1 + 1] ELSE LfsNull
  BY <1>1, <1>2 DEF Chain
<1>5. next[s[1]] = IF c = << >> THEN LfsNull ELSE c[1]
  <2>1. CASE c = << >>
    <3>1. Len(c) = 0
      BY <2>1
    <3>2. Len(s) = 1
      BY <1>2, <3>1
    <3>3. next[s[1]] = LfsNull
      BY <1>4, <3>2
    <3> QED BY <2>1, <3>3
  <2>2. CASE c # << >>
    <3>1. Len(c) # 0
      BY <1>2, <2>2
    <3>2. 1 < Len(s) /\ c[1] = s[1 + 1]
      BY <1>2, <3>1
    <3> QED BY <1>4, <2>2, <3>2
  <2> QED BY <2>1, <2>2
<1> QED BY <1>3, <1>5, LfsChainOf, LfsItemsOf DEF c

(* A chain depends on the next pointers of its nodes only.                 *)
LEMMA LfsLinkedKept ==
    ASSUME NEW next, NEW next2, NEW s \in Seq(LfsNodes), LfsLinked(next, s),
           \A n \in LfsElements(s) : next2[n] = next[n]
    PROVE  LfsLinked(next2, s)
BY DEF LfsLinked, LfsElements

(* The empty chain.                                                        *)
LEMMA LfsLinkedEmpty == \A next : LfsLinked(next, << >>) /\ LfsElements(<< >>) = {}
BY DEF LfsLinked, LfsElements

(* Every step keeps the invariant.                                         *)
LEMMA LfsPreserves ==
    ASSUME LfsIInv, [LfstackNext]_lfsvars
    PROVE  LfsIInv'
<1>0. LfsTypeOK /\ LfsChains /\ LfsOnce /\ LfsPoppers /\ LfsConsumers /\ LfsWalkers
  BY DEF LfsIInv
<1>1. ASSUME NEW t \in LfsThreads, NEW n \in LfsNodes, PushCall(t, n)
      PROVE  LfsIInv'
  <2>1. /\ ls_head' = ls_head
        /\ ls_lock' = ls_lock
        /\ ls_technique' = ls_technique
        /\ ls_grace' = ls_grace
        /\ ls_lifo' = ls_lifo
        /\ ls_hand' = ls_hand
        /\ ls_ret' = ls_ret
        /\ ls_pc[t] = "idle"
        /\ ls_pc'[t] = "push_cas"
        /\ \A u \in LfsThreads : u # t => ls_pc'[u] = ls_pc[u]
        /\ ls_next'[n] = LfsNull /\ \A m \in LfsNodes : m # n => ls_next'[m] = ls_next[m]
        /\ ls_frame'[t].node = n /\ ls_frame'[t].next = LfsNull
        /\ \A u \in LfsThreads : u # t => ls_frame'[u] = ls_frame[u]
        /\ ls_grace[n] = {}
    BY <1>0, <1>1 DEF LfsTypeOK, LfsFrames, PushCall, LfsGoto
  <2>2. n \notin LfsElements(ls_lifo)
        /\ (\A u \in LfsThreads : n \notin LfsElements(ls_hand[u]))
        /\ (\A u \in LfsThreads : ls_pc[u] = "push_cas" => ls_frame[u].node # n)
    BY <1>1 DEF PushCall, LfsPopped
  <2>3. \A u \in LfsThreads : ls_pc[u] \in {"load_next", "cas_head"} => ls_frame[u].node # n
    BY <1>0, <2>1, <2>2 DEF LfsPoppers, LfsPopping, LfsReads
  <2>4. LfsTypeOK'
    <3>1. ls_next' \in [LfsNodes -> LfsMaybe]
      BY <1>0, <1>1 DEF LfsTypeOK, LfsMaybe, PushCall, LfsGoto
    <3>2. ls_pc' \in [LfsThreads -> LfsPC]
      BY <1>0, <1>1 DEF LfsTypeOK, LfsMaybe, PushCall, LfsGoto, LfsPC
    <3>3. ls_frame' \in [LfsThreads -> LfsFrames]
      <4>1. n \in LfsMaybe /\ LfsNull \in LfsMaybe
        BY DEF LfsMaybe
      <4>2. ls_frame' = [ls_frame EXCEPT ![t].node = n, ![t].next = LfsNull] /\ ls_frame \in [LfsThreads -> LfsFrames]
        BY <1>0, <1>1 DEF LfsTypeOK, PushCall
      <4> QED BY <4>1, <4>2 DEF LfsFrames
    <3> QED BY <1>0, <2>1, <3>1, <3>2, <3>3 DEF LfsTypeOK
  <2>5. LfsChains'
    <3>1. LfsLinked(ls_next', ls_lifo)
      <4>1. ls_lifo \in Seq(LfsNodes) /\ \A m \in LfsElements(ls_lifo) : ls_next'[m] = ls_next[m]
        BY <1>0, <2>1, <2>2, <2>3, LfsElementsType DEF LfsTypeOK, LfsOnce,
           LfsPushing
      <4> QED BY <1>0, <4>1, LfsLinkedKept DEF LfsChains
    <3>2. ASSUME NEW u \in LfsThreads PROVE LfsLinked(ls_next', ls_hand[u])
      <4>1. ls_hand[u] \in Seq(LfsNodes) /\ \A m \in LfsElements(ls_hand[u]) : ls_next'[m] = ls_next[m]
        BY <1>0, <2>1, <2>2, <2>3, LfsElementsType DEF LfsTypeOK, LfsOnce,
           LfsPushing
      <4> QED BY <1>0, <4>1, LfsLinkedKept DEF LfsChains
    <3> QED BY <1>0, <2>1, <3>1, <3>2 DEF LfsChains
  <2>6. ASSUME NEW u \in LfsThreads PROVE LfsTaken(u)'
    <3>1. CASE u = t
      BY <1>0, <3>1, <2>1, <2>2, <2>3 DEF LfsTaken, LfsOnce
    <3>2. CASE u # t
      BY <1>0, <3>2, <2>1, <2>2, <2>3 DEF LfsTaken, LfsOnce
    <3> QED BY <3>1, <3>2
  <2>7. ASSUME NEW u \in LfsThreads PROVE LfsPushing(u)'
    <3>1. CASE u = t
      BY <1>0, <3>1, <2>1, <2>2, <2>3 DEF LfsPushing, LfsOnce
    <3>2. CASE u # t
      BY <1>0, <3>2, <2>1, <2>2, <2>3 DEF LfsPushing, LfsOnce
    <3> QED BY <3>1, <3>2
  <2>8. LfsOnce'
    BY <2>6, <2>7 DEF LfsOnce
  <2>9. ASSUME NEW u \in LfsThreads PROVE LfsPopping(u)'
    <3>1. CASE u = t
      BY <1>0, <3>1, <2>1, <2>2, <2>3 DEF LfsPopping, LfsPoppers, LfsReads,
         UsesRcu
    <3>2. CASE u # t
      BY <1>0, <3>2, <2>1, <2>2, <2>3 DEF LfsPopping, LfsPoppers, LfsReads,
         UsesRcu
    <3> QED BY <3>1, <3>2
  <2>10. LfsPoppers'
    BY <2>9 DEF LfsPoppers
  <2>11. LfsConsumers'
    BY <1>0, <2>1, LfstackAssumption DEF LfsTypeOK, LfsConsumers
  <2>12. ASSUME NEW u \in LfsThreads PROVE LfsWalking(u)'
    <3>1. CASE u = t
      BY <1>0, <3>1, <2>1, <2>2, <2>3 DEF LfsWalking, LfsWalkers
    <3>2. CASE u # t
      BY <1>0, <3>2, <2>1, <2>2, <2>3 DEF LfsWalking, LfsWalkers
    <3> QED BY <3>1, <3>2
  <2>13. LfsWalkers'
    BY <2>12 DEF LfsWalkers
  <2> QED BY <2>4, <2>5, <2>8, <2>10, <2>11, <2>13 DEF LfsIInv
<1>2. ASSUME NEW t \in LfsThreads, PushCas(t), ls_head = ls_frame[t].next
      PROVE  LfsIInv'
  <2>1. /\ ls_next' = ls_next
        /\ ls_lock' = ls_lock
        /\ ls_technique' = ls_technique
        /\ ls_grace' = ls_grace
        /\ ls_hand' = ls_hand
        /\ ls_frame' = ls_frame
        /\ ls_pc[t] = "push_cas"
        /\ ls_pc'[t] = "return"
        /\ \A u \in LfsThreads : u # t => ls_pc'[u] = ls_pc[u]
        /\ ls_head' = ls_frame[t].node
        /\ ls_lifo' = <<ls_frame[t].node>> \o ls_lifo
        /\ \A u \in LfsThreads : u # t => ls_ret'[u] = ls_ret[u]
    BY <1>0, <1>2 DEF LfsTypeOK, PushCas, LfsGoto, LfsResult
  <2>2. ls_frame[t].node \in LfsNodes /\ ls_lifo' \in Seq(LfsNodes)
        /\ LfsElements(ls_lifo') = LfsElements(ls_lifo) \cup {ls_frame[t].node}
        /\ ls_lifo' # << >> /\ ls_lifo'[1] = ls_frame[t].node
    BY <1>0, <2>1, LfsConsFacts, LfsConsElements DEF LfsTypeOK, LfsOnce,
       LfsPushing
  <2>3. ls_lifo \in Seq(LfsNodes) /\ LfsLinked(ls_next, ls_lifo) /\ ls_frame[t].node \notin LfsElements(ls_lifo)
        /\ ls_next[ls_frame[t].node] = IF ls_lifo = << >> THEN LfsNull ELSE ls_lifo[1]
    BY <1>0, <2>1, <1>2 DEF LfsTypeOK, LfsChains, LfsOnce, LfsPushing
  <2>4. LfsLinked(ls_next, ls_lifo')
    BY <2>1, <2>2, <2>3, LfsLinkedCons
  <2>5. \A u \in LfsThreads : LfsReads(u) => ls_frame[u].node # ls_frame[t].node
    BY <1>0, <2>1 DEF LfsOnce, LfsPushing, LfsPoppers, LfsPopping
  <2>6. LfsTypeOK'
    <3>1. ls_head' \in LfsMaybe
      BY <1>0, <1>2, <2>1, <2>2, <2>3, <2>4, <2>5 DEF LfsTypeOK, LfsMaybe,
         PushCas, LfsGoto, LfsResult
    <3>2. ls_pc' \in [LfsThreads -> LfsPC]
      BY <1>0, <1>2 DEF LfsTypeOK, LfsMaybe, PushCas, LfsGoto, LfsResult,
         LfsPC
    <3>3. ls_lifo' \in Seq(LfsNodes)
      BY <1>0, <1>2, <2>1, <2>2, <2>3, <2>4, <2>5 DEF LfsTypeOK, LfsMaybe,
         PushCas, LfsGoto, LfsResult
    <3>4. DOMAIN ls_ret' = LfsThreads /\ ls_ret' = [v \in LfsThreads |-> ls_ret'[v]]
      BY <1>0, <1>2 DEF LfsTypeOK, PushCas, LfsGoto, LfsResult
    <3> QED BY <1>0, <2>1, <3>1, <3>2, <3>3, <3>4 DEF LfsTypeOK
  <2>7. LfsChains'
    BY <1>0, <2>1, <2>2, <2>3, <2>4, <2>5, LfsLinkedKept DEF LfsTypeOK,
       LfsChains, LfsOnce, LfsTaken, LfsPushing
  <2>8. ASSUME NEW u \in LfsThreads PROVE LfsTaken(u)'
    <3>1. CASE u = t
      BY <1>0, <3>1, <2>1, <2>2, <2>3, <2>4, <2>5 DEF LfsTaken, LfsOnce,
         LfsPushing
    <3>2. CASE u # t
      BY <1>0, <3>2, <2>1, <2>2, <2>3, <2>4, <2>5 DEF LfsTaken, LfsOnce,
         LfsPushing
    <3> QED BY <3>1, <3>2
  <2>9. ASSUME NEW u \in LfsThreads PROVE LfsPushing(u)'
    <3>1. CASE u = t
      BY <1>0, <3>1, <2>1, <2>2, <2>3, <2>4, <2>5 DEF LfsPushing, LfsOnce
    <3>2. CASE u # t
      BY <1>0, <3>2, <2>1, <2>2, <2>3, <2>4, <2>5 DEF LfsPushing, LfsOnce
    <3> QED BY <3>1, <3>2
  <2>10. LfsOnce'
    BY <2>8, <2>9 DEF LfsOnce
  <2>11. ASSUME NEW u \in LfsThreads PROVE LfsPopping(u)'
    <3>1. CASE u = t
      BY <1>0, <3>1, <2>1, <2>2, <2>3, <2>4, <2>5 DEF LfsPopping, LfsPoppers,
         LfsReads, UsesRcu
    <3>2. CASE u # t
      BY <1>0, <3>2, <2>1, <2>2, <2>3, <2>4, <2>5 DEF LfsPopping, LfsPoppers,
         LfsReads, UsesRcu
    <3> QED BY <3>1, <3>2
  <2>12. LfsPoppers'
    BY <2>11 DEF LfsPoppers
  <2>13. LfsConsumers'
    BY <1>0, <2>1, LfstackAssumption DEF LfsTypeOK, LfsConsumers
  <2>14. ASSUME NEW u \in LfsThreads PROVE LfsWalking(u)'
    <3>1. CASE u = t
      BY <1>0, <3>1, <2>1, <2>2, <2>3, <2>4, <2>5 DEF LfsWalking, LfsWalkers
    <3>2. CASE u # t
      <4>1. LfsWalking(u)
        BY <1>0 DEF LfsWalkers
      <4>2. /\ ls_hand'[u] = ls_hand[u] /\ ls_frame'[u] = ls_frame[u] /\ ls_pc'[u] = ls_pc[u]
            /\ ls_ret'[u] = ls_ret[u]
        BY <2>1, <3>2
      <4> QED BY <4>1, <4>2 DEF LfsWalking
    <3> QED BY <3>1, <3>2
  <2>15. LfsWalkers'
    BY <2>14 DEF LfsWalkers
  <2> QED BY <2>6, <2>7, <2>10, <2>12, <2>13, <2>15 DEF LfsIInv
<1>3. ASSUME NEW t \in LfsThreads, PushCas(t), ls_head # ls_frame[t].next
      PROVE  LfsIInv'
  <2>1. /\ ls_head' = ls_head
        /\ ls_lock' = ls_lock
        /\ ls_technique' = ls_technique
        /\ ls_grace' = ls_grace
        /\ ls_lifo' = ls_lifo
        /\ ls_hand' = ls_hand
        /\ ls_pc' = ls_pc
        /\ ls_ret' = ls_ret
        /\ ls_pc[t] = "push_cas"
        /\ ls_frame'[t].node = ls_frame[t].node /\ ls_frame'[t].next = ls_head
        /\ \A u \in LfsThreads : u # t => ls_frame'[u] = ls_frame[u]
        /\ \A m \in LfsNodes : ls_next'[m] = IF m = ls_frame[t].node THEN ls_head ELSE ls_next[m]
    BY <1>0, <1>3 DEF LfsTypeOK, LfsFrames, PushCas
  <2>2. \A u \in LfsThreads : LfsReads(u) => ls_frame[u].node # ls_frame[t].node
    BY <1>0, <2>1 DEF LfsOnce, LfsPushing, LfsPoppers, LfsPopping
  <2>3. LfsTypeOK'
    <3>1. ls_next' \in [LfsNodes -> LfsMaybe]
      BY <1>0, <1>3 DEF LfsTypeOK, LfsMaybe, PushCas
    <3>2. ls_frame' \in [LfsThreads -> LfsFrames]
      <4>1. ls_head \in LfsMaybe
        BY <1>0 DEF LfsTypeOK
      <4>2. ls_frame' = [ls_frame EXCEPT ![t].next = ls_head] /\ ls_frame \in [LfsThreads -> LfsFrames]
        BY <1>0, <1>3 DEF LfsTypeOK, PushCas
      <4> QED BY <4>1, <4>2 DEF LfsFrames
    <3> QED BY <1>0, <2>1, <3>1, <3>2 DEF LfsTypeOK
  <2>4. LfsChains'
    <3>1. LfsLinked(ls_next', ls_lifo)
      <4>1. ls_lifo \in Seq(LfsNodes) /\ \A m \in LfsElements(ls_lifo) : ls_next'[m] = ls_next[m]
        BY <1>0, <2>1, <2>2, LfsElementsType DEF LfsTypeOK, LfsOnce,
           LfsPushing
      <4> QED BY <1>0, <4>1, LfsLinkedKept DEF LfsChains
    <3>2. ASSUME NEW u \in LfsThreads PROVE LfsLinked(ls_next', ls_hand[u])
      <4>1. ls_hand[u] \in Seq(LfsNodes) /\ \A m \in LfsElements(ls_hand[u]) : ls_next'[m] = ls_next[m]
        BY <1>0, <2>1, <2>2, LfsElementsType DEF LfsTypeOK, LfsOnce,
           LfsPushing
      <4> QED BY <1>0, <4>1, LfsLinkedKept DEF LfsChains
    <3> QED BY <1>0, <2>1, <3>1, <3>2 DEF LfsChains
  <2>5. ASSUME NEW u \in LfsThreads PROVE LfsTaken(u)'
    <3>1. CASE u = t
      BY <1>0, <3>1, <2>1, <2>2 DEF LfsTaken, LfsOnce
    <3>2. CASE u # t
      BY <1>0, <3>2, <2>1, <2>2 DEF LfsTaken, LfsOnce
    <3> QED BY <3>1, <3>2
  <2>6. ASSUME NEW u \in LfsThreads PROVE LfsPushing(u)'
    <3>1. CASE u = t
      BY <1>0, <3>1, <2>1, <2>2 DEF LfsPushing, LfsOnce
    <3>2. CASE u # t
      BY <1>0, <3>2, <2>1, <2>2 DEF LfsPushing, LfsOnce
    <3> QED BY <3>1, <3>2
  <2>7. LfsOnce'
    BY <2>5, <2>6 DEF LfsOnce
  <2>8. ASSUME NEW u \in LfsThreads PROVE LfsPopping(u)'
    <3>1. CASE u = t
      BY <1>0, <3>1, <2>1, <2>2 DEF LfsPopping, LfsPoppers, LfsReads, UsesRcu
    <3>2. CASE u # t
      BY <1>0, <3>2, <2>1, <2>2 DEF LfsPopping, LfsPoppers, LfsReads, UsesRcu
    <3> QED BY <3>1, <3>2
  <2>9. LfsPoppers'
    BY <2>8 DEF LfsPoppers
  <2>10. LfsConsumers'
    BY <1>0, <2>1, LfstackAssumption DEF LfsTypeOK, LfsConsumers
  <2>11. ASSUME NEW u \in LfsThreads PROVE LfsWalking(u)'
    <3>1. CASE u = t
      BY <1>0, <3>1, <2>1, <2>2 DEF LfsWalking, LfsWalkers
    <3>2. CASE u # t
      BY <1>0, <3>2, <2>1, <2>2 DEF LfsWalking, LfsWalkers
    <3> QED BY <3>1, <3>2
  <2>12. LfsWalkers'
    BY <2>11 DEF LfsWalkers
  <2> QED BY <2>3, <2>4, <2>7, <2>9, <2>10, <2>12 DEF LfsIInv
<1>4. ASSUME NEW t \in LfsThreads, cds_lfs_empty(t)
      PROVE  LfsIInv'
  <2>1. /\ ls_head' = ls_head
        /\ ls_next' = ls_next
        /\ ls_lock' = ls_lock
        /\ ls_technique' = ls_technique
        /\ ls_grace' = ls_grace
        /\ ls_lifo' = ls_lifo
        /\ ls_hand' = ls_hand
        /\ ls_frame' = ls_frame
        /\ ls_pc[t] = "idle"
        /\ ls_pc'[t] = "return"
        /\ \A u \in LfsThreads : u # t => ls_pc'[u] = ls_pc[u]
        /\ \A u \in LfsThreads : u # t => ls_ret'[u] = ls_ret[u]
    BY <1>0, <1>4 DEF LfsTypeOK, cds_lfs_empty, LfsGoto, LfsResult
  <2>2. LfsTypeOK'
    <3>1. ls_pc' \in [LfsThreads -> LfsPC]
      BY <1>0, <1>4 DEF LfsTypeOK, LfsMaybe, cds_lfs_empty, LfsGoto,
         LfsResult, LfsPC
    <3>2. DOMAIN ls_ret' = LfsThreads /\ ls_ret' = [v \in LfsThreads |-> ls_ret'[v]]
      BY <1>0, <1>4 DEF LfsTypeOK, cds_lfs_empty, LfsGoto, LfsResult
    <3> QED BY <1>0, <2>1, <3>1, <3>2 DEF LfsTypeOK
  <2>3. LfsChains'
    BY <1>0, <2>1, LfsLinkedKept DEF LfsTypeOK, LfsChains, LfsOnce, LfsTaken,
       LfsPushing
  <2>4. ASSUME NEW u \in LfsThreads PROVE LfsTaken(u)'
    <3>1. CASE u = t
      BY <1>0, <3>1, <2>1 DEF LfsTaken, LfsOnce
    <3>2. CASE u # t
      BY <1>0, <3>2, <2>1 DEF LfsTaken, LfsOnce
    <3> QED BY <3>1, <3>2
  <2>5. ASSUME NEW u \in LfsThreads PROVE LfsPushing(u)'
    <3>1. CASE u = t
      BY <1>0, <3>1, <2>1 DEF LfsPushing, LfsOnce
    <3>2. CASE u # t
      BY <1>0, <3>2, <2>1 DEF LfsPushing, LfsOnce
    <3> QED BY <3>1, <3>2
  <2>6. LfsOnce'
    BY <2>4, <2>5 DEF LfsOnce
  <2>7. ASSUME NEW u \in LfsThreads PROVE LfsPopping(u)'
    <3>1. CASE u = t
      BY <1>0, <3>1, <2>1 DEF LfsPopping, LfsPoppers, LfsReads, UsesRcu
    <3>2. CASE u # t
      BY <1>0, <3>2, <2>1 DEF LfsPopping, LfsPoppers, LfsReads, UsesRcu
    <3> QED BY <3>1, <3>2
  <2>8. LfsPoppers'
    BY <2>7 DEF LfsPoppers
  <2>9. LfsConsumers'
    BY <1>0, <2>1, LfstackAssumption DEF LfsTypeOK, LfsConsumers
  <2>10. ASSUME NEW u \in LfsThreads PROVE LfsWalking(u)'
    <3>1. CASE u = t
      BY <1>0, <3>1, <2>1 DEF LfsWalking, LfsWalkers
    <3>2. CASE u # t
      BY <1>0, <3>2, <2>1 DEF LfsWalking, LfsWalkers
    <3> QED BY <3>1, <3>2
  <2>11. LfsWalkers'
    BY <2>10 DEF LfsWalkers
  <2> QED BY <2>2, <2>3, <2>6, <2>8, <2>9, <2>11 DEF LfsIInv
<1>5. ASSUME NEW t \in LfsThreads, NEW l \in {"load_head", "xchg_head"}, LfsConsume(t, l)
      PROVE  LfsIInv'
  <2>1. /\ ls_head' = ls_head
        /\ ls_next' = ls_next
        /\ ls_technique' = ls_technique
        /\ ls_grace' = ls_grace
        /\ ls_lifo' = ls_lifo
        /\ ls_hand' = ls_hand
        /\ ls_frame' = ls_frame
        /\ ls_ret' = ls_ret
        /\ ls_pc[t] = "idle"
        /\ ls_pc'[t] = l
        /\ \A u \in LfsThreads : u # t => ls_pc'[u] = ls_pc[u]
        /\ ls_technique = "mutex" => ls_lock = LfsNull /\ ls_lock' = t
        /\ ls_technique = "single" => t = LfsConsumer
        /\ ls_technique # "mutex" => ls_lock' = ls_lock
    BY <1>0, <1>5 DEF LfsTypeOK, LfsConsume, LfsGoto, LfsMayPop, UsesRcu
  <2>2. LfsTypeOK'
    <3>1. ls_lock' \in LfsThreads \cup {LfsNull}
      BY <1>0, <1>5 DEF LfsTypeOK, LfsMaybe, LfsConsume, LfsGoto, LfsMayPop,
         UsesRcu
    <3>2. ls_pc' \in [LfsThreads -> LfsPC]
      BY <1>0, <1>5 DEF LfsTypeOK, LfsMaybe, LfsConsume, LfsGoto, LfsMayPop,
         UsesRcu, LfsPC
    <3> QED BY <1>0, <2>1, <3>1, <3>2 DEF LfsTypeOK
  <2>3. LfsChains'
    BY <1>0, <2>1, LfsLinkedKept DEF LfsTypeOK, LfsChains, LfsOnce, LfsTaken,
       LfsPushing
  <2>4. ASSUME NEW u \in LfsThreads PROVE LfsTaken(u)'
    <3>1. CASE u = t
      BY <1>0, <3>1, <2>1 DEF LfsTaken, LfsOnce
    <3>2. CASE u # t
      BY <1>0, <3>2, <2>1 DEF LfsTaken, LfsOnce
    <3> QED BY <3>1, <3>2
  <2>5. ASSUME NEW u \in LfsThreads PROVE LfsPushing(u)'
    <3>1. CASE u = t
      BY <1>0, <3>1, <2>1 DEF LfsPushing, LfsOnce
    <3>2. CASE u # t
      BY <1>0, <3>2, <2>1 DEF LfsPushing, LfsOnce
    <3> QED BY <3>1, <3>2
  <2>6. LfsOnce'
    BY <2>4, <2>5 DEF LfsOnce
  <2>7. ASSUME NEW u \in LfsThreads PROVE LfsPopping(u)'
    <3>1. CASE u = t
      BY <1>0, <3>1, <2>1 DEF LfsPopping, LfsPoppers, LfsReads, UsesRcu
    <3>2. CASE u # t
      BY <1>0, <3>2, <2>1 DEF LfsPopping, LfsPoppers, LfsReads, UsesRcu
    <3> QED BY <3>1, <3>2
  <2>8. LfsPoppers'
    BY <2>7 DEF LfsPoppers
  <2>9. LfsConsumers'
    BY <1>0, <2>1, LfstackAssumption DEF LfsTypeOK, LfsConsumers
  <2>10. ASSUME NEW u \in LfsThreads PROVE LfsWalking(u)'
    <3>1. CASE u = t
      BY <1>0, <3>1, <2>1 DEF LfsWalking, LfsWalkers
    <3>2. CASE u # t
      BY <1>0, <3>2, <2>1 DEF LfsWalking, LfsWalkers
    <3> QED BY <3>1, <3>2
  <2>11. LfsWalkers'
    BY <2>10 DEF LfsWalkers
  <2> QED BY <2>2, <2>3, <2>6, <2>8, <2>9, <2>11 DEF LfsIInv
<1>6. ASSUME NEW t \in LfsThreads, LfsReturn(t)
      PROVE  LfsIInv'
  <2>1. /\ ls_head' = ls_head
        /\ ls_next' = ls_next
        /\ ls_technique' = ls_technique
        /\ ls_lifo' = ls_lifo
        /\ ls_hand' = ls_hand
        /\ ls_pc[t] \in {"return", "pop_return"}
        /\ ls_pc'[t] = "idle"
        /\ \A u \in LfsThreads : u # t => ls_pc'[u] = ls_pc[u]
        /\ \A u \in LfsThreads : u # t => ls_ret'[u] = ls_ret[u]
        /\ ls_ret'[t] = LfsNull
        /\ \A u \in LfsThreads : u # t => ls_frame'[u] = ls_frame[u]
        /\ \A m \in LfsNodes : ls_grace'[m] = ls_grace[m] \ {t}
        /\ ls_lock' = IF ls_lock = t THEN LfsNull ELSE ls_lock
    BY <1>0, <1>6 DEF LfsTypeOK, LfsFrames, LfsReturn, LfsGoto, LfsResult,
       LfsNoFrame
  <2>2. LfsTypeOK'
    <3>1. ls_lock' \in LfsThreads \cup {LfsNull}
      BY <1>0, <1>6 DEF LfsTypeOK, LfsMaybe, LfsReturn, LfsGoto, LfsResult,
         LfsNoFrame
    <3>2. ls_pc' \in [LfsThreads -> LfsPC]
      BY <1>0, <1>6 DEF LfsTypeOK, LfsMaybe, LfsReturn, LfsGoto, LfsResult,
         LfsNoFrame, LfsPC
    <3>3. ls_frame' \in [LfsThreads -> LfsFrames]
      BY <1>0, <1>6, <2>1 DEF LfsTypeOK, LfsMaybe, LfsReturn, LfsGoto,
         LfsResult, LfsNoFrame, LfsFrames
    <3>4. ls_grace' \in [LfsNodes -> SUBSET LfsThreads]
      BY <1>0, <1>6 DEF LfsTypeOK, LfsMaybe, LfsReturn, LfsGoto, LfsResult,
         LfsNoFrame, GraceAfterPop, LfsSections
    <3>5. DOMAIN ls_ret' = LfsThreads /\ ls_ret' = [v \in LfsThreads |-> ls_ret'[v]]
      BY <1>0, <1>6 DEF LfsTypeOK, LfsReturn, LfsGoto, LfsResult, LfsNoFrame
    <3> QED BY <1>0, <2>1, <3>1, <3>2, <3>3, <3>4, <3>5 DEF LfsTypeOK
  <2>3. LfsChains'
    BY <1>0, <2>1, LfsLinkedKept DEF LfsTypeOK, LfsChains, LfsOnce, LfsTaken,
       LfsPushing
  <2>4. ASSUME NEW u \in LfsThreads PROVE LfsTaken(u)'
    <3>1. CASE u = t
      BY <1>0, <3>1, <2>1 DEF LfsTaken, LfsOnce
    <3>2. CASE u # t
      BY <1>0, <3>2, <2>1 DEF LfsTaken, LfsOnce
    <3> QED BY <3>1, <3>2
  <2>5. ASSUME NEW u \in LfsThreads PROVE LfsPushing(u)'
    <3>1. CASE u = t
      BY <1>0, <3>1, <2>1 DEF LfsPushing, LfsOnce
    <3>2. CASE u # t
      BY <1>0, <3>2, <2>1 DEF LfsPushing, LfsOnce
    <3> QED BY <3>1, <3>2
  <2>6. LfsOnce'
    BY <2>4, <2>5 DEF LfsOnce
  <2>7. ASSUME NEW u \in LfsThreads PROVE LfsPopping(u)'
    <3>1. CASE u = t
      BY <1>0, <3>1, <2>1 DEF LfsPopping, LfsPoppers, LfsReads, UsesRcu
    <3>2. CASE u # t
      BY <1>0, <3>2, <2>1 DEF LfsPopping, LfsPoppers, LfsReads, UsesRcu
    <3> QED BY <3>1, <3>2
  <2>8. LfsPoppers'
    BY <2>7 DEF LfsPoppers
  <2>9. LfsConsumers'
    BY <1>0, <2>1, LfstackAssumption DEF LfsTypeOK, LfsConsumers
  <2>10. ASSUME NEW u \in LfsThreads PROVE LfsWalking(u)'
    <3>1. CASE u = t
      BY <1>0, <3>1, <2>1 DEF LfsWalking, LfsWalkers
    <3>2. CASE u # t
      BY <1>0, <3>2, <2>1 DEF LfsWalking, LfsWalkers
    <3> QED BY <3>1, <3>2
  <2>11. LfsWalkers'
    BY <2>10 DEF LfsWalkers
  <2> QED BY <2>2, <2>3, <2>6, <2>8, <2>9, <2>11 DEF LfsIInv
<1>7. ASSUME NEW t \in LfsThreads, LfsLoadHead(t), ls_head = LfsNull
      PROVE  LfsIInv'
  <2>1. /\ ls_head' = ls_head
        /\ ls_next' = ls_next
        /\ ls_lock' = ls_lock
        /\ ls_technique' = ls_technique
        /\ ls_grace' = ls_grace
        /\ ls_lifo' = ls_lifo
        /\ ls_hand' = ls_hand
        /\ ls_frame' = ls_frame
        /\ ls_pc[t] = "load_head"
        /\ ls_pc'[t] = "pop_return"
        /\ \A u \in LfsThreads : u # t => ls_pc'[u] = ls_pc[u]
        /\ \A u \in LfsThreads : u # t => ls_ret'[u] = ls_ret[u]
    BY <1>0, <1>7 DEF LfsTypeOK, LfsLoadHead, LfsGoto, LfsResult
  <2>2. LfsTypeOK'
    <3>1. ls_pc' \in [LfsThreads -> LfsPC]
      BY <1>0, <1>7 DEF LfsTypeOK, LfsMaybe, LfsLoadHead, LfsGoto, LfsResult,
         LfsPC
    <3>2. DOMAIN ls_ret' = LfsThreads /\ ls_ret' = [v \in LfsThreads |-> ls_ret'[v]]
      BY <1>0, <1>7 DEF LfsTypeOK, LfsLoadHead, LfsGoto, LfsResult
    <3> QED BY <1>0, <2>1, <3>1, <3>2 DEF LfsTypeOK
  <2>3. LfsChains'
    BY <1>0, <2>1, LfsLinkedKept DEF LfsTypeOK, LfsChains, LfsOnce, LfsTaken,
       LfsPushing
  <2>4. ASSUME NEW u \in LfsThreads PROVE LfsTaken(u)'
    <3>1. CASE u = t
      BY <1>0, <3>1, <2>1 DEF LfsTaken, LfsOnce
    <3>2. CASE u # t
      BY <1>0, <3>2, <2>1 DEF LfsTaken, LfsOnce
    <3> QED BY <3>1, <3>2
  <2>5. ASSUME NEW u \in LfsThreads PROVE LfsPushing(u)'
    <3>1. CASE u = t
      BY <1>0, <3>1, <2>1 DEF LfsPushing, LfsOnce
    <3>2. CASE u # t
      BY <1>0, <3>2, <2>1 DEF LfsPushing, LfsOnce
    <3> QED BY <3>1, <3>2
  <2>6. LfsOnce'
    BY <2>4, <2>5 DEF LfsOnce
  <2>7. ASSUME NEW u \in LfsThreads PROVE LfsPopping(u)'
    <3>1. CASE u = t
      BY <1>0, <3>1, <2>1 DEF LfsPopping, LfsPoppers, LfsReads, UsesRcu
    <3>2. CASE u # t
      BY <1>0, <3>2, <2>1 DEF LfsPopping, LfsPoppers, LfsReads, UsesRcu
    <3> QED BY <3>1, <3>2
  <2>8. LfsPoppers'
    BY <2>7 DEF LfsPoppers
  <2>9. LfsConsumers'
    BY <1>0, <2>1, LfstackAssumption DEF LfsTypeOK, LfsConsumers
  <2>10. ASSUME NEW u \in LfsThreads PROVE LfsWalking(u)'
    <3>1. CASE u = t
      BY <1>0, <3>1, <2>1 DEF LfsWalking, LfsWalkers
    <3>2. CASE u # t
      BY <1>0, <3>2, <2>1 DEF LfsWalking, LfsWalkers
    <3> QED BY <3>1, <3>2
  <2>11. LfsWalkers'
    BY <2>10 DEF LfsWalkers
  <2> QED BY <2>2, <2>3, <2>6, <2>8, <2>9, <2>11 DEF LfsIInv
<1>8. ASSUME NEW t \in LfsThreads, LfsLoadHead(t), ls_head # LfsNull
      PROVE  LfsIInv'
  <2>1. /\ ls_head' = ls_head
        /\ ls_next' = ls_next
        /\ ls_lock' = ls_lock
        /\ ls_technique' = ls_technique
        /\ ls_grace' = ls_grace
        /\ ls_lifo' = ls_lifo
        /\ ls_hand' = ls_hand
        /\ ls_ret' = ls_ret
        /\ ls_pc[t] = "load_head"
        /\ ls_pc'[t] = "load_next"
        /\ \A u \in LfsThreads : u # t => ls_pc'[u] = ls_pc[u]
        /\ ls_frame'[t].node = ls_head
        /\ \A u \in LfsThreads : u # t => ls_frame'[u] = ls_frame[u]
    BY <1>0, <1>8 DEF LfsTypeOK, LfsFrames, LfsLoadHead, LfsGoto
  <2>2. ls_head \in LfsNodes /\ ls_head \in LfsElements(ls_lifo)
    BY <1>0, <1>8, LfsTailElements DEF LfsTypeOK, LfsChains, LfsMaybe
  <2>3. LfsTypeOK'
    <3>1. ls_pc' \in [LfsThreads -> LfsPC]
      BY <1>0, <1>8 DEF LfsTypeOK, LfsMaybe, LfsLoadHead, LfsGoto, LfsPC
    <3>2. ls_frame' \in [LfsThreads -> LfsFrames]
      <4>1. ls_head \in LfsMaybe
        BY <1>0 DEF LfsTypeOK
      <4>2. ls_frame' = [ls_frame EXCEPT ![t].node = ls_head] /\ ls_frame \in [LfsThreads -> LfsFrames]
        BY <1>0, <1>8 DEF LfsTypeOK, LfsLoadHead
      <4> QED BY <4>1, <4>2 DEF LfsFrames
    <3> QED BY <1>0, <2>1, <3>1, <3>2 DEF LfsTypeOK
  <2>4. LfsChains'
    BY <1>0, <2>1, <2>2, LfsLinkedKept DEF LfsTypeOK, LfsChains, LfsOnce,
       LfsTaken, LfsPushing
  <2>5. ASSUME NEW u \in LfsThreads PROVE LfsTaken(u)'
    <3>1. CASE u = t
      BY <1>0, <3>1, <2>1, <2>2 DEF LfsTaken, LfsOnce
    <3>2. CASE u # t
      BY <1>0, <3>2, <2>1, <2>2 DEF LfsTaken, LfsOnce
    <3> QED BY <3>1, <3>2
  <2>6. ASSUME NEW u \in LfsThreads PROVE LfsPushing(u)'
    <3>1. CASE u = t
      BY <1>0, <3>1, <2>1, <2>2 DEF LfsPushing, LfsOnce
    <3>2. CASE u # t
      BY <1>0, <3>2, <2>1, <2>2 DEF LfsPushing, LfsOnce
    <3> QED BY <3>1, <3>2
  <2>7. LfsOnce'
    BY <2>5, <2>6 DEF LfsOnce
  <2>8. ASSUME NEW u \in LfsThreads PROVE LfsPopping(u)'
    <3>1. CASE u = t
      BY <1>0, <3>1, <2>1, <2>2 DEF LfsPopping, LfsPoppers, LfsReads, UsesRcu
    <3>2. CASE u # t
      BY <1>0, <3>2, <2>1, <2>2 DEF LfsPopping, LfsPoppers, LfsReads, UsesRcu
    <3> QED BY <3>1, <3>2
  <2>9. LfsPoppers'
    BY <2>8 DEF LfsPoppers
  <2>10. LfsConsumers'
    BY <1>0, <2>1, LfstackAssumption DEF LfsTypeOK, LfsConsumers
  <2>11. ASSUME NEW u \in LfsThreads PROVE LfsWalking(u)'
    <3>1. CASE u = t
      BY <1>0, <3>1, <2>1, <2>2 DEF LfsWalking, LfsWalkers
    <3>2. CASE u # t
      BY <1>0, <3>2, <2>1, <2>2 DEF LfsWalking, LfsWalkers
    <3> QED BY <3>1, <3>2
  <2>12. LfsWalkers'
    BY <2>11 DEF LfsWalkers
  <2> QED BY <2>3, <2>4, <2>7, <2>9, <2>10, <2>12 DEF LfsIInv
<1>9. ASSUME NEW t \in LfsThreads, LfsLoadNext(t)
      PROVE  LfsIInv'
  <2>1. /\ ls_head' = ls_head
        /\ ls_next' = ls_next
        /\ ls_lock' = ls_lock
        /\ ls_technique' = ls_technique
        /\ ls_grace' = ls_grace
        /\ ls_lifo' = ls_lifo
        /\ ls_hand' = ls_hand
        /\ ls_ret' = ls_ret
        /\ ls_pc[t] = "load_next"
        /\ ls_pc'[t] = "cas_head"
        /\ \A u \in LfsThreads : u # t => ls_pc'[u] = ls_pc[u]
        /\ ls_frame'[t].node = ls_frame[t].node /\ ls_frame'[t].next = ls_next[ls_frame[t].node]
        /\ \A u \in LfsThreads : u # t => ls_frame'[u] = ls_frame[u]
    BY <1>0, <1>9 DEF LfsTypeOK, LfsFrames, LfsLoadNext, LfsGoto
  <2>2. LfsTypeOK'
    <3>1. ls_pc' \in [LfsThreads -> LfsPC]
      BY <1>0, <1>9 DEF LfsTypeOK, LfsMaybe, LfsLoadNext, LfsGoto, LfsPC
    <3>2. ls_frame' \in [LfsThreads -> LfsFrames]
      <4>1. ls_frame[t].node \in LfsNodes
        BY <1>0, <1>9 DEF LfsPoppers, LfsPopping, LfsReads, LfsLoadNext
      <4>2. ls_next[ls_frame[t].node] \in LfsMaybe
        BY <1>0, <4>1 DEF LfsTypeOK
      <4>3. ls_frame' = [ls_frame EXCEPT ![t].next = ls_next[ls_frame[t].node]] /\ ls_frame \in [LfsThreads -> LfsFrames]
        BY <1>0, <1>9 DEF LfsTypeOK, LfsLoadNext
      <4> QED BY <4>1, <4>2, <4>3 DEF LfsFrames
    <3> QED BY <1>0, <2>1, <3>1, <3>2 DEF LfsTypeOK
  <2>3. LfsChains'
    BY <1>0, <2>1, LfsLinkedKept DEF LfsTypeOK, LfsChains, LfsOnce, LfsTaken,
       LfsPushing
  <2>4. ASSUME NEW u \in LfsThreads PROVE LfsTaken(u)'
    <3>1. CASE u = t
      BY <1>0, <3>1, <2>1 DEF LfsTaken, LfsOnce
    <3>2. CASE u # t
      BY <1>0, <3>2, <2>1 DEF LfsTaken, LfsOnce
    <3> QED BY <3>1, <3>2
  <2>5. ASSUME NEW u \in LfsThreads PROVE LfsPushing(u)'
    <3>1. CASE u = t
      BY <1>0, <3>1, <2>1 DEF LfsPushing, LfsOnce
    <3>2. CASE u # t
      BY <1>0, <3>2, <2>1 DEF LfsPushing, LfsOnce
    <3> QED BY <3>1, <3>2
  <2>6. LfsOnce'
    BY <2>4, <2>5 DEF LfsOnce
  <2>7. ASSUME NEW u \in LfsThreads PROVE LfsPopping(u)'
    <3>1. CASE u = t
      BY <1>0, <3>1, <2>1 DEF LfsPopping, LfsPoppers, LfsReads, UsesRcu
    <3>2. CASE u # t
      BY <1>0, <3>2, <2>1 DEF LfsPopping, LfsPoppers, LfsReads, UsesRcu
    <3> QED BY <3>1, <3>2
  <2>8. LfsPoppers'
    BY <2>7 DEF LfsPoppers
  <2>9. LfsConsumers'
    BY <1>0, <2>1, LfstackAssumption DEF LfsTypeOK, LfsConsumers
  <2>10. ASSUME NEW u \in LfsThreads PROVE LfsWalking(u)'
    <3>1. CASE u = t
      BY <1>0, <3>1, <2>1 DEF LfsWalking, LfsWalkers
    <3>2. CASE u # t
      BY <1>0, <3>2, <2>1 DEF LfsWalking, LfsWalkers
    <3> QED BY <3>1, <3>2
  <2>11. LfsWalkers'
    BY <2>10 DEF LfsWalkers
  <2> QED BY <2>2, <2>3, <2>6, <2>8, <2>9, <2>11 DEF LfsIInv
<1>10. ASSUME NEW t \in LfsThreads, LfsCasHead(t), ls_head = ls_frame[t].node
      PROVE  LfsIInv'
  <2>1. /\ ls_next' = ls_next
        /\ ls_lock' = ls_lock
        /\ ls_technique' = ls_technique
        /\ ls_hand' = ls_hand
        /\ ls_frame' = ls_frame
        /\ ls_pc[t] = "cas_head"
        /\ ls_pc'[t] = "pop_return"
        /\ \A u \in LfsThreads : u # t => ls_pc'[u] = ls_pc[u]
        /\ \A u \in LfsThreads : u # t => ls_ret'[u] = ls_ret[u]
        /\ ls_head' = ls_frame[t].next
        /\ ls_lifo' = Tail(ls_lifo)
        /\ \A m \in LfsNodes : ls_grace'[m] = IF m = ls_head THEN GraceAfterPop(t) ELSE ls_grace[m]
    BY <1>0, <1>10 DEF LfsTypeOK, LfsCasHead, LfsGoto, LfsResult
  <2>2. ls_head \in LfsNodes /\ ls_lifo # << >> /\ ls_head = ls_lifo[1]
    BY <1>0, <2>1, <1>10, LfstackAssumption DEF LfsTypeOK, LfsChains,
       LfsPoppers, LfsPopping, LfsReads
  <2>3. ls_lifo' \in Seq(LfsNodes) /\ LfsLinked(ls_next, ls_lifo') /\ ls_head \notin LfsElements(ls_lifo')
        /\ ls_next[ls_head] = IF ls_lifo' = << >> THEN LfsNull ELSE ls_lifo'[1]
    <3>1. ls_lifo \in Seq(LfsNodes) /\ ls_lifo # << >> /\ LfsLinked(ls_next, ls_lifo)
      BY <1>0, <2>2 DEF LfsTypeOK, LfsChains
    <3>2. ls_lifo' = Tail(ls_lifo) /\ ls_head = ls_lifo[1] /\ Tail(ls_lifo) \in Seq(LfsNodes)
      BY <2>1, <2>2, <3>1, LfsTailFacts
    <3>3. /\ LfsLinked(ls_next, Tail(ls_lifo)) /\ ls_lifo[1] \notin LfsElements(Tail(ls_lifo))
          /\ ls_next[ls_lifo[1]] = IF Tail(ls_lifo) = << >> THEN LfsNull ELSE Tail(ls_lifo)[1]
      BY <3>1, LfsLinkedTail
    <3> QED BY <3>2, <3>3
  <2>4. LfsElements(ls_lifo) = LfsElements(ls_lifo') \cup {ls_head}
    BY <1>0, <2>1, <2>2, LfsTailElements DEF LfsTypeOK
  <2>5. ls_frame[t].next = ls_next[ls_head]
    BY <1>0, <2>1, <1>10, <2>4 DEF LfsPoppers, LfsPopping, LfsReads
  <2>6. \A u \in LfsThreads : u # t /\ ls_pc[u] \in {"load_next", "cas_head"} => UsesRcu /\ u \in GraceAfterPop(t)
    BY <1>0, <2>1, LfstackAssumption DEF LfsTypeOK, LfsConsumers, UsesRcu,
       GraceAfterPop, LfsSections
  <2>7. \A u \in LfsThreads : ls_pc[u] = "push_cas" => ls_frame[u].node # ls_head
    BY <1>0, <2>4 DEF LfsOnce, LfsPushing
  <2>8. LfsTypeOK'
    <3>1. ls_head' \in LfsMaybe
      BY <1>0, <1>10, <2>1, <2>2, <2>3, <2>4, <2>5, <2>6, <2>7 DEF LfsTypeOK,
         LfsMaybe, LfsCasHead, LfsGoto, LfsResult
    <3>2. ls_pc' \in [LfsThreads -> LfsPC]
      BY <1>0, <1>10 DEF LfsTypeOK, LfsMaybe, LfsCasHead, LfsGoto, LfsResult,
         LfsPC
    <3>3. ls_grace' \in [LfsNodes -> SUBSET LfsThreads]
      <4>1. GraceAfterPop(t) \subseteq LfsThreads
        BY DEF GraceAfterPop, LfsSections
      <4>2. ls_grace' = [ls_grace EXCEPT ![ls_frame[t].node] = GraceAfterPop(t)] /\ ls_grace \in [LfsNodes -> SUBSET LfsThreads]
        BY <1>0, <1>10 DEF LfsTypeOK, LfsCasHead
      <4> QED BY <4>1, <4>2
    <3>4. ls_lifo' \in Seq(LfsNodes)
      BY <1>0, <1>10, <2>1, <2>2, <2>3, <2>4, <2>5, <2>6, <2>7 DEF LfsTypeOK,
         LfsMaybe, LfsCasHead, LfsGoto, LfsResult
    <3>5. DOMAIN ls_ret' = LfsThreads /\ ls_ret' = [v \in LfsThreads |-> ls_ret'[v]]
      BY <1>0, <1>10 DEF LfsTypeOK, LfsCasHead, LfsGoto, LfsResult
    <3> QED BY <1>0, <2>1, <3>1, <3>2, <3>3, <3>4, <3>5 DEF LfsTypeOK
  <2>9. LfsChains'
    BY <1>0, <2>1, <2>2, <2>3, <2>4, <2>5, <2>6, <2>7, LfsLinkedKept DEF
       LfsTypeOK, LfsChains, LfsOnce, LfsTaken, LfsPushing
  <2>10. ASSUME NEW u \in LfsThreads PROVE LfsTaken(u)'
    <3>1. CASE u = t
      BY <1>0, <3>1, <2>1, <2>4 DEF LfsTaken, LfsOnce
    <3>2. CASE u # t
      BY <1>0, <3>2, <2>1, <2>4 DEF LfsTaken, LfsOnce
    <3> QED BY <3>1, <3>2
  <2>11. ASSUME NEW u \in LfsThreads PROVE LfsPushing(u)'
    <3>1. CASE u = t
      BY <1>0, <3>1, <2>1, <2>4, <2>7 DEF LfsPushing, LfsOnce
    <3>2. CASE u # t
      BY <1>0, <3>2, <2>1, <2>4, <2>7 DEF LfsPushing, LfsOnce
    <3> QED BY <3>1, <3>2
  <2>12. LfsOnce'
    BY <2>10, <2>11 DEF LfsOnce
  <2>13. ASSUME NEW u \in LfsThreads PROVE LfsPopping(u)'
    <3>1. CASE u = t
      BY <1>0, <3>1, <2>1, <2>2, <2>3, <2>4, <2>5, <2>6, <2>7 DEF LfsPopping,
         LfsPoppers, LfsReads, UsesRcu
    <3>2. CASE u # t
      <4> SUFFICES ASSUME LfsReads(u)'
                   PROVE  /\ ls_frame'[u].node \in LfsNodes
                          /\ \/ ls_frame'[u].node \in LfsElements(ls_lifo')
                             \/ UsesRcu' /\ u \in ls_grace'[ls_frame'[u].node]
                             \/ UsesRcu' /\ \E v \in LfsThreads :
                                              ls_frame'[u].node \in LfsElements(ls_hand'[v])
                          /\ ls_pc'[u] = "cas_head" /\ ls_frame'[u].node \in LfsElements(ls_lifo') =>
                                ls_frame'[u].next = ls_next'[ls_frame'[u].node]
        BY DEF LfsPopping
      <4>1. LfsReads(u) /\ LfsPopping(u)
        BY <1>0, <2>1, <3>2 DEF LfsReads, LfsPoppers
      <4>2. UNCHANGED <<ls_frame, ls_next, ls_hand>> /\ ls_pc'[u] = ls_pc[u] /\ UsesRcu' = UsesRcu
        BY <2>1, <3>2 DEF UsesRcu
      <4>3. UsesRcu /\ u \in GraceAfterPop(t)
        BY <2>6, <3>2, <4>1 DEF LfsReads
      <4>4. CASE ls_frame[u].node = ls_head
        BY <2>1, <2>2, <2>3, <4>2, <4>3, <4>4
      <4>5. CASE ls_frame[u].node # ls_head
        <5>1. /\ ls_frame[u].node \in LfsNodes /\ ls_grace'[ls_frame[u].node] = ls_grace[ls_frame[u].node]
              /\ ls_frame[u].node \in LfsElements(ls_lifo) <=> ls_frame[u].node \in LfsElements(ls_lifo')
          BY <2>1, <2>4, <4>1, <4>5 DEF LfsPopping
        <5> QED BY <4>1, <4>2, <5>1 DEF LfsPopping
      <4> QED BY <4>4, <4>5
    <3> QED BY <3>1, <3>2
  <2>14. LfsPoppers'
    BY <2>13 DEF LfsPoppers
  <2>15. LfsConsumers'
    BY <1>0, <2>1, LfstackAssumption DEF LfsTypeOK, LfsConsumers
  <2>16. ASSUME NEW u \in LfsThreads PROVE LfsWalking(u)'
    <3>1. CASE u = t
      BY <1>0, <3>1, <2>1 DEF LfsWalking, LfsWalkers
    <3>2. CASE u # t
      BY <1>0, <3>2, <2>1 DEF LfsWalking, LfsWalkers
    <3> QED BY <3>1, <3>2
  <2>17. LfsWalkers'
    BY <2>16 DEF LfsWalkers
  <2> QED BY <2>8, <2>9, <2>12, <2>14, <2>15, <2>17 DEF LfsIInv
<1>11. ASSUME NEW t \in LfsThreads, LfsCasHead(t), ls_head # ls_frame[t].node
      PROVE  LfsIInv'
  <2>1. /\ ls_head' = ls_head
        /\ ls_next' = ls_next
        /\ ls_lock' = ls_lock
        /\ ls_technique' = ls_technique
        /\ ls_grace' = ls_grace
        /\ ls_lifo' = ls_lifo
        /\ ls_hand' = ls_hand
        /\ ls_frame' = ls_frame
        /\ ls_ret' = ls_ret
        /\ ls_pc[t] = "cas_head"
        /\ ls_pc'[t] = "load_head"
        /\ \A u \in LfsThreads : u # t => ls_pc'[u] = ls_pc[u]
    BY <1>0, <1>11 DEF LfsTypeOK, LfsCasHead, LfsGoto
  <2>2. LfsTypeOK'
    <3>1. ls_pc' \in [LfsThreads -> LfsPC]
      BY <1>0, <1>11 DEF LfsTypeOK, LfsMaybe, LfsCasHead, LfsGoto, LfsPC
    <3> QED BY <1>0, <2>1, <3>1 DEF LfsTypeOK
  <2>3. LfsChains'
    BY <1>0, <2>1, LfsLinkedKept DEF LfsTypeOK, LfsChains, LfsOnce, LfsTaken,
       LfsPushing
  <2>4. ASSUME NEW u \in LfsThreads PROVE LfsTaken(u)'
    <3>1. CASE u = t
      BY <1>0, <3>1, <2>1 DEF LfsTaken, LfsOnce
    <3>2. CASE u # t
      BY <1>0, <3>2, <2>1 DEF LfsTaken, LfsOnce
    <3> QED BY <3>1, <3>2
  <2>5. ASSUME NEW u \in LfsThreads PROVE LfsPushing(u)'
    <3>1. CASE u = t
      BY <1>0, <3>1, <2>1 DEF LfsPushing, LfsOnce
    <3>2. CASE u # t
      BY <1>0, <3>2, <2>1 DEF LfsPushing, LfsOnce
    <3> QED BY <3>1, <3>2
  <2>6. LfsOnce'
    BY <2>4, <2>5 DEF LfsOnce
  <2>7. ASSUME NEW u \in LfsThreads PROVE LfsPopping(u)'
    <3>1. CASE u = t
      BY <1>0, <3>1, <2>1 DEF LfsPopping, LfsPoppers, LfsReads, UsesRcu
    <3>2. CASE u # t
      BY <1>0, <3>2, <2>1 DEF LfsPopping, LfsPoppers, LfsReads, UsesRcu
    <3> QED BY <3>1, <3>2
  <2>8. LfsPoppers'
    BY <2>7 DEF LfsPoppers
  <2>9. LfsConsumers'
    BY <1>0, <2>1, LfstackAssumption DEF LfsTypeOK, LfsConsumers
  <2>10. ASSUME NEW u \in LfsThreads PROVE LfsWalking(u)'
    <3>1. CASE u = t
      BY <1>0, <3>1, <2>1 DEF LfsWalking, LfsWalkers
    <3>2. CASE u # t
      BY <1>0, <3>2, <2>1 DEF LfsWalking, LfsWalkers
    <3> QED BY <3>1, <3>2
  <2>11. LfsWalkers'
    BY <2>10 DEF LfsWalkers
  <2> QED BY <2>2, <2>3, <2>6, <2>8, <2>9, <2>11 DEF LfsIInv
<1>12. ASSUME NEW t \in LfsThreads, LfsPopAll(t), ls_head = LfsNull
      PROVE  LfsIInv'
  <2>1. /\ ls_head' = ls_head
        /\ ls_next' = ls_next
        /\ ls_lock' = ls_lock
        /\ ls_technique' = ls_technique
        /\ ls_grace' = ls_grace
        /\ ls_frame' = ls_frame
        /\ ls_pc[t] = "xchg_head"
        /\ ls_pc'[t] = "return"
        /\ \A u \in LfsThreads : u # t => ls_pc'[u] = ls_pc[u]
        /\ \A u \in LfsThreads : u # t => ls_ret'[u] = ls_ret[u]
        /\ ls_lifo' = << >> /\ ls_hand'[t] = ls_lifo
        /\ \A u \in LfsThreads : u # t => ls_hand'[u] = ls_hand[u]
    BY <1>0, <1>12 DEF LfsTypeOK, LfsPopAll, LfsGoto, LfsResult
  <2>2. ls_lifo = << >> /\ ls_hand[t] = << >>
    BY <1>0, <2>1, <1>12, LfstackAssumption DEF LfsTypeOK, LfsChains,
       LfsWalkers, LfsWalking
  <2>3. \A u \in LfsThreads : ls_hand'[u] = ls_hand[u]
    BY <2>1, <2>2
  <2>4. LfsTypeOK'
    <3>1. ls_pc' \in [LfsThreads -> LfsPC]
      BY <1>0, <1>12 DEF LfsTypeOK, LfsMaybe, LfsPopAll, LfsGoto, LfsResult,
         LfsPC
    <3>2. ls_lifo' \in Seq(LfsNodes)
      BY <1>0, <1>12, <2>1, <2>2, <2>3 DEF LfsTypeOK, LfsMaybe, LfsPopAll,
         LfsGoto, LfsResult
    <3>3. ls_hand' \in [LfsThreads -> Seq(LfsNodes)]
      BY <1>0, <1>12 DEF LfsTypeOK, LfsMaybe, LfsPopAll, LfsGoto, LfsResult
    <3>4. DOMAIN ls_ret' = LfsThreads /\ ls_ret' = [v \in LfsThreads |-> ls_ret'[v]]
      BY <1>0, <1>12 DEF LfsTypeOK, LfsPopAll, LfsGoto, LfsResult
    <3> QED BY <1>0, <2>1, <3>1, <3>2, <3>3, <3>4 DEF LfsTypeOK
  <2>5. LfsChains'
    BY <1>0, <2>1, <2>2, <2>3, LfsLinkedKept DEF LfsTypeOK, LfsChains,
       LfsOnce, LfsTaken, LfsPushing
  <2>6. ASSUME NEW u \in LfsThreads PROVE LfsTaken(u)'
    <3>1. CASE u = t
      BY <1>0, <3>1, <2>1, <2>2, <2>3 DEF LfsTaken, LfsOnce
    <3>2. CASE u # t
      BY <1>0, <3>2, <2>1, <2>2, <2>3 DEF LfsTaken, LfsOnce
    <3> QED BY <3>1, <3>2
  <2>7. ASSUME NEW u \in LfsThreads PROVE LfsPushing(u)'
    <3>1. CASE u = t
      BY <1>0, <3>1, <2>1, <2>2, <2>3 DEF LfsPushing, LfsOnce
    <3>2. CASE u # t
      BY <1>0, <3>2, <2>1, <2>2, <2>3 DEF LfsPushing, LfsOnce
    <3> QED BY <3>1, <3>2
  <2>8. LfsOnce'
    BY <2>6, <2>7 DEF LfsOnce
  <2>9. ASSUME NEW u \in LfsThreads PROVE LfsPopping(u)'
    <3>1. CASE u = t
      BY <1>0, <3>1, <2>1, <2>2, <2>3 DEF LfsPopping, LfsPoppers, LfsReads,
         UsesRcu
    <3>2. CASE u # t
      BY <1>0, <3>2, <2>1, <2>2, <2>3 DEF LfsPopping, LfsPoppers, LfsReads,
         UsesRcu
    <3> QED BY <3>1, <3>2
  <2>10. LfsPoppers'
    BY <2>9 DEF LfsPoppers
  <2>11. LfsConsumers'
    BY <1>0, <2>1, LfstackAssumption DEF LfsTypeOK, LfsConsumers
  <2>12. ASSUME NEW u \in LfsThreads PROVE LfsWalking(u)'
    <3>1. CASE u = t
      BY <1>0, <3>1, <2>1, <2>2, <2>3 DEF LfsWalking, LfsWalkers
    <3>2. CASE u # t
      BY <1>0, <3>2, <2>1, <2>2, <2>3 DEF LfsWalking, LfsWalkers
    <3> QED BY <3>1, <3>2
  <2>13. LfsWalkers'
    BY <2>12 DEF LfsWalkers
  <2> QED BY <2>4, <2>5, <2>8, <2>10, <2>11, <2>13 DEF LfsIInv
<1>13. ASSUME NEW t \in LfsThreads, LfsPopAll(t), ls_head # LfsNull
      PROVE  LfsIInv'
  <2>1. /\ ls_next' = ls_next
        /\ ls_technique' = ls_technique
        /\ ls_grace' = ls_grace
        /\ ls_ret' = ls_ret
        /\ ls_pc[t] = "xchg_head"
        /\ ls_pc'[t] = "walk"
        /\ \A u \in LfsThreads : u # t => ls_pc'[u] = ls_pc[u]
        /\ ls_head' = LfsNull /\ ls_lifo' = << >> /\ ls_hand'[t] = ls_lifo
        /\ \A u \in LfsThreads : u # t => ls_hand'[u] = ls_hand[u]
        /\ ls_frame'[t].node = ls_head /\ ls_frame'[t].seen = <<ls_head>>
        /\ \A u \in LfsThreads : u # t => ls_frame'[u] = ls_frame[u]
        /\ ls_lock' = IF ls_lock = t THEN LfsNull ELSE ls_lock
    BY <1>0, <1>13 DEF LfsTypeOK, LfsFrames, LfsPopAll, LfsGoto
  <2>2. ls_lifo # << >> /\ ls_head = ls_lifo[1] /\ ls_hand[t] = << >> /\ ls_head \in LfsNodes
    BY <1>0, <2>1, <1>13 DEF LfsTypeOK, LfsChains, LfsWalkers, LfsWalking,
       LfsMaybe
  <2>3. LfsElements(ls_lifo') = {} /\ LfsElements(ls_hand[t]) = {} /\ LfsLinked(ls_next, ls_lifo')
    BY <2>1, <2>2, LfsLinkedEmpty
  <2>4. \A u \in LfsThreads : u # t /\ ls_pc[u] \in {"load_next", "cas_head"} => UsesRcu
    BY <1>0, <2>1, LfstackAssumption DEF LfsTypeOK, LfsConsumers, UsesRcu
  <2>5. Len(<<ls_head>>) = 1 /\ <<ls_head>>[1] = ls_head /\ Len(ls_lifo) \in Nat \ {0}
    BY <1>0, <2>2, LfsTailFacts DEF LfsTypeOK
  <2>6. LfsTypeOK'
    <3>1. ls_head' \in LfsMaybe
      BY <1>0, <1>13, <2>1, <2>2, <2>3, <2>4, <2>5 DEF LfsTypeOK, LfsMaybe,
         LfsPopAll, LfsGoto
    <3>2. ls_lock' \in LfsThreads \cup {LfsNull}
      BY <1>0, <1>13 DEF LfsTypeOK, LfsMaybe, LfsPopAll, LfsGoto
    <3>3. ls_pc' \in [LfsThreads -> LfsPC]
      BY <1>0, <1>13 DEF LfsTypeOK, LfsMaybe, LfsPopAll, LfsGoto, LfsPC
    <3>4. ls_frame' \in [LfsThreads -> LfsFrames]
      <4>1. ls_head \in LfsMaybe /\ <<ls_head>> \in Seq(LfsNodes)
        BY <1>0, <2>2 DEF LfsTypeOK
      <4>2. ls_frame' = [ls_frame EXCEPT ![t].node = ls_head, ![t].seen = <<ls_head>>] /\ ls_frame \in [LfsThreads -> LfsFrames]
        BY <1>0, <1>13 DEF LfsTypeOK, LfsPopAll
      <4> QED BY <4>1, <4>2 DEF LfsFrames
    <3>5. ls_lifo' \in Seq(LfsNodes)
      BY <1>0, <1>13, <2>1, <2>2, <2>3, <2>4, <2>5 DEF LfsTypeOK, LfsMaybe,
         LfsPopAll, LfsGoto
    <3>6. ls_hand' \in [LfsThreads -> Seq(LfsNodes)]
      BY <1>0, <1>13 DEF LfsTypeOK, LfsMaybe, LfsPopAll, LfsGoto
    <3> QED BY <1>0, <2>1, <3>1, <3>2, <3>3, <3>4, <3>5, <3>6 DEF LfsTypeOK
  <2>7. LfsChains'
    BY <1>0, <2>1, <2>2, <2>3, <2>4, <2>5, LfsLinkedKept DEF LfsTypeOK,
       LfsChains, LfsOnce, LfsTaken, LfsPushing
  <2>8. ASSUME NEW u \in LfsThreads PROVE LfsTaken(u)'
    <3>1. CASE u = t
      BY <1>0, <3>1, <2>1, <2>2, <2>3, <2>4, <2>5 DEF LfsTaken, LfsOnce
    <3>2. CASE u # t
      BY <1>0, <3>2, <2>1, <2>2, <2>3, <2>4, <2>5 DEF LfsTaken, LfsOnce
    <3> QED BY <3>1, <3>2
  <2>9. ASSUME NEW u \in LfsThreads PROVE LfsPushing(u)'
    <3>1. CASE u = t
      BY <1>0, <3>1, <2>1, <2>2, <2>3, <2>4, <2>5 DEF LfsPushing, LfsOnce
    <3>2. CASE u # t
      BY <1>0, <3>2, <2>1, <2>2, <2>3, <2>4, <2>5 DEF LfsPushing, LfsOnce
    <3> QED BY <3>1, <3>2
  <2>10. LfsOnce'
    BY <2>8, <2>9 DEF LfsOnce
  <2>11. ASSUME NEW u \in LfsThreads PROVE LfsPopping(u)'
    <3>1. CASE u = t
      BY <1>0, <3>1, <2>1, <2>2, <2>3, <2>4, <2>5 DEF LfsPopping, LfsPoppers,
         LfsReads, UsesRcu
    <3>2. CASE u # t
      BY <1>0, <3>2, <2>1, <2>2, <2>3, <2>4, <2>5 DEF LfsPopping, LfsPoppers,
         LfsReads, UsesRcu
    <3> QED BY <3>1, <3>2
  <2>12. LfsPoppers'
    BY <2>11 DEF LfsPoppers
  <2>13. LfsConsumers'
    BY <1>0, <2>1, LfstackAssumption DEF LfsTypeOK, LfsConsumers
  <2>14. ASSUME NEW u \in LfsThreads PROVE LfsWalking(u)'
    <3>1. CASE u = t
      BY <1>0, <3>1, <2>1, <2>2, <2>3, <2>4, <2>5 DEF LfsWalking, LfsWalkers
    <3>2. CASE u # t
      <4>1. LfsWalking(u)
        BY <1>0 DEF LfsWalkers
      <4>2. /\ ls_hand'[u] = ls_hand[u] /\ ls_frame'[u] = ls_frame[u] /\ ls_pc'[u] = ls_pc[u]
            /\ ls_ret'[u] = ls_ret[u]
        BY <2>1, <3>2
      <4> QED BY <4>1, <4>2 DEF LfsWalking
    <3> QED BY <3>1, <3>2
  <2>15. LfsWalkers'
    BY <2>14 DEF LfsWalkers
  <2> QED BY <2>6, <2>7, <2>10, <2>12, <2>13, <2>15 DEF LfsIInv
<1>14. ASSUME NEW t \in LfsThreads, cds_lfs_for_each(t), ls_next[ls_frame[t].node] = LfsNull
      PROVE  LfsIInv'
  <2>1. /\ ls_head' = ls_head
        /\ ls_next' = ls_next
        /\ ls_lock' = ls_lock
        /\ ls_technique' = ls_technique
        /\ ls_lifo' = ls_lifo
        /\ ls_frame' = ls_frame
        /\ ls_pc[t] = "walk"
        /\ ls_pc'[t] = "return"
        /\ \A u \in LfsThreads : u # t => ls_pc'[u] = ls_pc[u]
        /\ \A u \in LfsThreads : u # t => ls_ret'[u] = ls_ret[u]
        /\ ls_hand'[t] = << >>
        /\ \A u \in LfsThreads : u # t => ls_hand'[u] = ls_hand[u]
        /\ \A m \in LfsNodes : ls_grace'[m] = IF m \in LfsElements(ls_hand[t]) THEN GraceAfterPop(t) ELSE ls_grace[m]
    <3>1. /\ UNCHANGED <<ls_head, ls_next, ls_lock, ls_technique, ls_lifo, ls_frame>> /\ ls_pc[t] = "walk"
          /\ ls_pc' = [ls_pc EXCEPT ![t] = "return"] /\ ls_hand' = [ls_hand EXCEPT ![t] = << >>]
          /\ ls_ret' = [ls_ret EXCEPT ![t] = <<"walked">> \o ls_frame[t].seen]
          /\ ls_grace' = [m \in LfsNodes |->
                IF m \in LfsElements(ls_hand[t]) THEN GraceAfterPop(t) ELSE ls_grace[m]]
      BY <1>14 DEF cds_lfs_for_each, LfsGoto, LfsResult
    <3>2. /\ ls_pc \in [LfsThreads -> LfsPC] /\ ls_hand \in [LfsThreads -> Seq(LfsNodes)]
          /\ ls_ret = [u \in LfsThreads |-> ls_ret[u]]
      BY <1>0 DEF LfsTypeOK
    <3>3. ls_hand'[t] = << >> /\ \A u \in LfsThreads : u # t => ls_hand'[u] = ls_hand[u]
      BY <3>1, <3>2
    <3>4. \A u \in LfsThreads : u # t => ls_ret'[u] = ls_ret[u]
      BY <3>1, <3>2
    <3>5. ls_pc'[t] = "return" /\ \A u \in LfsThreads : u # t => ls_pc'[u] = ls_pc[u]
      BY <3>1, <3>2
    <3> QED BY <3>1, <3>3, <3>4, <3>5
  <2>2. LfsElements(ls_hand'[t]) = {} /\ LfsLinked(ls_next, ls_hand'[t])
    BY <2>1, LfsLinkedEmpty
  <2>3. \A u \in LfsThreads : u # t /\ ls_pc[u] \in {"load_next", "cas_head"} /\ UsesRcu => u \in GraceAfterPop(t)
    BY DEF UsesRcu, GraceAfterPop, LfsSections
  <2>4. LfsTypeOK'
    <3>1. ls_pc' \in [LfsThreads -> LfsPC]
      BY <1>0, <1>14 DEF LfsTypeOK, LfsMaybe, cds_lfs_for_each, LfsGoto,
         LfsResult, LfsPC
    <3>2. ls_grace' \in [LfsNodes -> SUBSET LfsThreads]
      <4>1. GraceAfterPop(t) \subseteq LfsThreads
        BY DEF GraceAfterPop, LfsSections
      <4>2. ls_grace' = [m \in LfsNodes |-> IF m \in LfsElements(ls_hand[t]) THEN GraceAfterPop(t) ELSE ls_grace[m]] /\ ls_grace \in [LfsNodes -> SUBSET LfsThreads]
        BY <1>0, <1>14 DEF LfsTypeOK, cds_lfs_for_each
      <4> QED BY <4>1, <4>2
    <3>3. ls_hand' \in [LfsThreads -> Seq(LfsNodes)]
      <4>1. << >> \in Seq(LfsNodes)
        OBVIOUS
      <4>2. ls_hand' = [ls_hand EXCEPT ![t] = << >>] /\ ls_hand \in [LfsThreads -> Seq(LfsNodes)]
        BY <1>0, <1>14 DEF LfsTypeOK, cds_lfs_for_each
      <4> QED BY <4>1, <4>2
    <3>4. DOMAIN ls_ret' = LfsThreads /\ ls_ret' = [v \in LfsThreads |-> ls_ret'[v]]
      <4>1. PICK x : ls_ret' = [ls_ret EXCEPT ![t] = x]
        BY <1>14 DEF cds_lfs_for_each, LfsResult
      <4>2. ls_ret = [v \in LfsThreads |-> ls_ret[v]]
        BY <1>0 DEF LfsTypeOK
      <4> QED BY ONLY <4>1, <4>2
    <3> QED BY <1>0, <2>1, <3>1, <3>2, <3>3, <3>4 DEF LfsTypeOK
  <2>5. LfsChains'
    BY <1>0, <2>1, <2>2, <2>3, LfsLinkedKept DEF LfsTypeOK, LfsChains,
       LfsOnce, LfsTaken, LfsPushing
  <2>6. ASSUME NEW u \in LfsThreads PROVE LfsTaken(u)'
    <3>1. CASE u = t
      BY <1>0, <3>1, <2>1, <2>2, <2>3 DEF LfsTaken, LfsOnce
    <3>2. CASE u # t
      BY <1>0, <3>2, <2>1, <2>2, <2>3 DEF LfsTaken, LfsOnce
    <3> QED BY <3>1, <3>2
  <2>7. ASSUME NEW u \in LfsThreads PROVE LfsPushing(u)'
    <3>1. CASE u = t
      BY <1>0, <3>1, <2>1, <2>2, <2>3 DEF LfsPushing, LfsOnce
    <3>2. CASE u # t
      BY <1>0, <3>2, <2>1, <2>2, <2>3 DEF LfsPushing, LfsOnce
    <3> QED BY <3>1, <3>2
  <2>8. LfsOnce'
    BY <2>6, <2>7 DEF LfsOnce
  <2>9. ASSUME NEW u \in LfsThreads PROVE LfsPopping(u)'
    <3>1. CASE u = t
      BY <1>0, <3>1, <2>1, <2>2, <2>3 DEF LfsPopping, LfsPoppers, LfsReads,
         UsesRcu
    <3>2. CASE u # t
      BY <1>0, <3>2, <2>1, <2>2, <2>3 DEF LfsPopping, LfsPoppers, LfsReads,
         UsesRcu
    <3> QED BY <3>1, <3>2
  <2>10. LfsPoppers'
    BY <2>9 DEF LfsPoppers
  <2>11. LfsConsumers'
    BY <1>0, <2>1, LfstackAssumption DEF LfsTypeOK, LfsConsumers
  <2>12. ASSUME NEW u \in LfsThreads PROVE LfsWalking(u)'
    <3>1. CASE u = t
      BY <1>0, <3>1, <2>1, <2>2, <2>3 DEF LfsWalking, LfsWalkers
    <3>2. CASE u # t
      BY <1>0, <3>2, <2>1, <2>2, <2>3 DEF LfsWalking, LfsWalkers
    <3> QED BY <3>1, <3>2
  <2>13. LfsWalkers'
    BY <2>12 DEF LfsWalkers
  <2> QED BY <2>4, <2>5, <2>8, <2>10, <2>11, <2>13 DEF LfsIInv
<1>15. ASSUME NEW t \in LfsThreads, cds_lfs_for_each(t), ls_next[ls_frame[t].node] # LfsNull
      PROVE  LfsIInv'
  <2>1. /\ ls_head' = ls_head
        /\ ls_next' = ls_next
        /\ ls_lock' = ls_lock
        /\ ls_technique' = ls_technique
        /\ ls_lifo' = ls_lifo
        /\ ls_hand' = ls_hand
        /\ ls_grace' = ls_grace
        /\ ls_pc' = ls_pc
        /\ ls_ret' = ls_ret
        /\ ls_pc[t] = "walk"
        /\ ls_frame'[t].node = ls_next[ls_frame[t].node]
        /\ ls_frame'[t].seen = Append(ls_frame[t].seen, ls_next[ls_frame[t].node])
        /\ \A u \in LfsThreads : u # t => ls_frame'[u] = ls_frame[u]
    BY <1>0, <1>15 DEF LfsTypeOK, LfsFrames, cds_lfs_for_each
  <2>2. ls_frame[t].seen \in Seq(LfsNodes) /\ ls_hand[t] \in Seq(LfsNodes)
    BY <1>0 DEF LfsTypeOK, LfsFrames
  <2>3. PICK k \in Nat : k = Len(ls_frame[t].seen) /\ k \in 1 .. Len(ls_hand[t]) /\ ls_frame[t].node = ls_hand[t][k]
    BY <1>0, <2>1, <2>2 DEF LfsWalkers, LfsWalking
  <2>4. k < Len(ls_hand[t]) /\ ls_next[ls_frame[t].node] = ls_hand[t][k + 1]
    BY <1>0, <1>15, <2>2, <2>3 DEF LfsChains, LfsLinked
  <2>5. ls_hand[t][k + 1] \in LfsNodes /\ k + 1 \in 1 .. Len(ls_hand[t])
    BY <2>2, <2>3, <2>4
  <2>6. Len(ls_frame'[t].seen) = k + 1 /\ \A i \in 1 .. k + 1 : ls_frame'[t].seen[i] = IF i = k + 1 THEN ls_hand[t][k + 1] ELSE ls_frame[t].seen[i]
    BY <2>1, <2>2, <2>3, <2>4, <2>5
  <2>7. LfsTypeOK'
    <3>1. ls_frame' \in [LfsThreads -> LfsFrames]
      <4>1. ls_next[ls_frame[t].node] \in LfsMaybe
        BY <2>4, <2>5 DEF LfsMaybe
      <4>2. Append(ls_frame[t].seen, ls_next[ls_frame[t].node]) \in Seq(LfsNodes)
        BY <2>2, <2>4, <2>5
      <4>3. ls_frame' = [ls_frame EXCEPT ![t].node = ls_next[ls_frame[t].node],
                                        ![t].seen = Append(ls_frame[t].seen, ls_next[ls_frame[t].node])] /\ ls_frame \in [LfsThreads -> LfsFrames]
        BY <1>0, <1>15 DEF LfsTypeOK, cds_lfs_for_each
      <4> QED BY <4>1, <4>2, <4>3 DEF LfsFrames
    <3> QED BY <1>0, <2>1, <3>1 DEF LfsTypeOK
  <2>8. LfsChains'
    BY <1>0, <2>1, <2>2, <2>3, <2>4, <2>5, <2>6, LfsLinkedKept DEF LfsTypeOK,
       LfsChains, LfsOnce, LfsTaken, LfsPushing
  <2>9. ASSUME NEW u \in LfsThreads PROVE LfsTaken(u)'
    <3>1. CASE u = t
      BY <1>0, <3>1, <2>1 DEF LfsTaken, LfsOnce
    <3>2. CASE u # t
      BY <1>0, <3>2, <2>1 DEF LfsTaken, LfsOnce
    <3> QED BY <3>1, <3>2
  <2>10. ASSUME NEW u \in LfsThreads PROVE LfsPushing(u)'
    <3>1. CASE u = t
      BY <1>0, <3>1, <2>1 DEF LfsPushing, LfsOnce
    <3>2. CASE u # t
      BY <1>0, <3>2, <2>1 DEF LfsPushing, LfsOnce
    <3> QED BY <3>1, <3>2
  <2>11. LfsOnce'
    BY <2>9, <2>10 DEF LfsOnce
  <2>12. ASSUME NEW u \in LfsThreads PROVE LfsPopping(u)'
    <3>1. CASE u = t
      BY <1>0, <3>1, <2>1 DEF LfsPopping, LfsPoppers, LfsReads, UsesRcu
    <3>2. CASE u # t
      BY <1>0, <3>2, <2>1 DEF LfsPopping, LfsPoppers, LfsReads, UsesRcu
    <3> QED BY <3>1, <3>2
  <2>13. LfsPoppers'
    BY <2>12 DEF LfsPoppers
  <2>14. LfsConsumers'
    BY <1>0, <2>1, LfstackAssumption DEF LfsTypeOK, LfsConsumers
  <2>15. ASSUME NEW u \in LfsThreads PROVE LfsWalking(u)'
    <3>1. CASE u = t
      <4>1. /\ ls_hand[t] # << >> <=> ls_pc[t] = "walk"
            /\ \A i \in 1 .. k : ls_frame[t].seen[i] = ls_hand[t][i]
            /\ ls_pc[t] \notin {"return", "pop_return"} => ls_ret[t] = LfsNull
        BY <1>0, <2>1, <2>3 DEF LfsWalking, LfsWalkers
      <4>2. \A i \in 1 .. k + 1 : ls_frame'[t].seen[i] = ls_hand[t][i]
        <5> SUFFICES ASSUME NEW i \in 1 .. k + 1 PROVE ls_frame'[t].seen[i] = ls_hand[t][i]
          OBVIOUS
        <5>1. CASE i = k + 1
          BY <2>6, <5>1
        <5>2. CASE i # k + 1
          <6>1. i \in 1 .. k BY <5>2
          <6> QED BY <2>6, <4>1, <5>2, <6>1
        <5> QED BY <5>1, <5>2
      <4>3. ls_frame'[t].node = ls_hand[t][k + 1] /\ Len(ls_frame'[t].seen) = k + 1
        BY <2>1, <2>4, <2>6
      <4> QED BY <3>1, <2>1, <2>5, <4>1, <4>2, <4>3 DEF LfsWalking
    <3>2. CASE u # t
      BY <1>0, <3>2, <2>1, <2>2, <2>3, <2>4, <2>5, <2>6 DEF LfsWalking,
         LfsWalkers
    <3> QED BY <3>1, <3>2
  <2>16. LfsWalkers'
    BY <2>15 DEF LfsWalkers
  <2> QED BY <2>7, <2>8, <2>11, <2>13, <2>14, <2>16 DEF LfsIInv
<1>16. ASSUME NEW n \in LfsNodes, Overwrite(n)
      PROVE  LfsIInv'
  <2>1. /\ ls_head' = ls_head
        /\ ls_lock' = ls_lock
        /\ ls_technique' = ls_technique
        /\ ls_grace' = ls_grace
        /\ ls_lifo' = ls_lifo
        /\ ls_hand' = ls_hand
        /\ ls_frame' = ls_frame
        /\ ls_pc' = ls_pc
        /\ ls_ret' = ls_ret
        /\ \A m \in LfsNodes : m # n => ls_next'[m] = ls_next[m]
    BY <1>0, <1>16 DEF LfsTypeOK, Overwrite
  <2>2. n \notin LfsElements(ls_lifo)
        /\ (\A u \in LfsThreads : n \notin LfsElements(ls_hand[u]))
        /\ (\A u \in LfsThreads : ls_pc[u] = "push_cas" => ls_frame[u].node # n)
    BY <1>16 DEF Overwrite, LfsPopped
  <2>3. LfsTypeOK'
    <3>1. ls_next' \in [LfsNodes -> LfsMaybe]
      BY <1>0, <1>16 DEF LfsTypeOK, LfsMaybe, Overwrite
    <3> QED BY <1>0, <2>1, <3>1 DEF LfsTypeOK
  <2>4. LfsChains'
    <3>1. LfsLinked(ls_next', ls_lifo)
      <4>1. ls_lifo \in Seq(LfsNodes) /\ \A m \in LfsElements(ls_lifo) : ls_next'[m] = ls_next[m]
        BY <1>0, <2>1, <2>2, LfsElementsType DEF LfsTypeOK, LfsOnce,
           LfsPushing
      <4> QED BY <1>0, <4>1, LfsLinkedKept DEF LfsChains
    <3>2. ASSUME NEW u \in LfsThreads PROVE LfsLinked(ls_next', ls_hand[u])
      <4>1. ls_hand[u] \in Seq(LfsNodes) /\ \A m \in LfsElements(ls_hand[u]) : ls_next'[m] = ls_next[m]
        BY <1>0, <2>1, <2>2, LfsElementsType DEF LfsTypeOK, LfsOnce,
           LfsPushing
      <4> QED BY <1>0, <4>1, LfsLinkedKept DEF LfsChains
    <3> QED BY <1>0, <2>1, <3>1, <3>2 DEF LfsChains
  <2>5. ASSUME NEW u \in LfsThreads PROVE LfsTaken(u)'
    BY <1>0, <2>1, <2>2 DEF LfsTaken, LfsOnce
  <2>6. ASSUME NEW u \in LfsThreads PROVE LfsPushing(u)'
    BY <1>0, <2>1, <2>2 DEF LfsPushing, LfsOnce
  <2>7. LfsOnce'
    BY <2>5, <2>6 DEF LfsOnce
  <2>8. ASSUME NEW u \in LfsThreads PROVE LfsPopping(u)'
    BY <1>0, <2>1, <2>2 DEF LfsPopping, LfsPoppers, LfsReads, UsesRcu
  <2>9. LfsPoppers'
    BY <2>8 DEF LfsPoppers
  <2>10. LfsConsumers'
    BY <1>0, <2>1, LfstackAssumption DEF LfsTypeOK, LfsConsumers
  <2>11. ASSUME NEW u \in LfsThreads PROVE LfsWalking(u)'
    BY <1>0, <2>1, <2>2 DEF LfsWalking, LfsWalkers
  <2>12. LfsWalkers'
    BY <2>11 DEF LfsWalkers
  <2> QED BY <2>3, <2>4, <2>7, <2>9, <2>10, <2>12 DEF LfsIInv
<1>17. CASE UNCHANGED lfsvars
  <2>1. /\ ls_head' = ls_head
        /\ ls_next' = ls_next
        /\ ls_lock' = ls_lock
        /\ ls_technique' = ls_technique
        /\ ls_grace' = ls_grace
        /\ ls_lifo' = ls_lifo
        /\ ls_hand' = ls_hand
        /\ ls_frame' = ls_frame
        /\ ls_pc' = ls_pc
        /\ ls_ret' = ls_ret
    BY <1>0, <1>17 DEF LfsTypeOK, lfsvars
  <2>2. LfsTypeOK'
    <3> QED BY <1>0, <2>1 DEF LfsTypeOK
  <2>3. LfsChains'
    BY <1>0, <2>1, LfsLinkedKept DEF LfsTypeOK, LfsChains, LfsOnce, LfsTaken,
       LfsPushing
  <2>4. ASSUME NEW u \in LfsThreads PROVE LfsTaken(u)'
    BY <1>0, <2>1 DEF LfsTaken, LfsOnce
  <2>5. ASSUME NEW u \in LfsThreads PROVE LfsPushing(u)'
    BY <1>0, <2>1 DEF LfsPushing, LfsOnce
  <2>6. LfsOnce'
    BY <2>4, <2>5 DEF LfsOnce
  <2>7. ASSUME NEW u \in LfsThreads PROVE LfsPopping(u)'
    BY <1>0, <2>1 DEF LfsPopping, LfsPoppers, LfsReads, UsesRcu
  <2>8. LfsPoppers'
    BY <2>7 DEF LfsPoppers
  <2>9. LfsConsumers'
    BY <1>0, <2>1, LfstackAssumption DEF LfsTypeOK, LfsConsumers
  <2>10. ASSUME NEW u \in LfsThreads PROVE LfsWalking(u)'
    BY <1>0, <2>1 DEF LfsWalking, LfsWalkers
  <2>11. LfsWalkers'
    BY <2>10 DEF LfsWalkers
  <2> QED BY <2>2, <2>3, <2>6, <2>8, <2>9, <2>11 DEF LfsIInv
<1> QED
  BY <1>1, <1>2, <1>3, <1>4, <1>5, <1>6, <1>7, <1>8, <1>9, <1>10, <1>11,
     <1>12, <1>13, <1>14, <1>15, <1>16, <1>17 DEF LfstackNext, LfsStep,
     cds_lfs_push, cds_lfs_push_rcu, cds_lfs_pop, cds_lfs_pop_rcu,
     cds_lfs_pop_all

(* The initial state satisfies the invariant.                              *)
LEMMA LfsInitIInv == LfstackInit => LfsIInv
<1> SUFFICES ASSUME LfstackInit PROVE LfsIInv
  OBVIOUS
<1> USE LfstackAssumption DEF LfstackInit
<1>1. /\ << >> \in Seq(LfsNodes) /\ LfsNull \in LfsMaybe /\ "idle" \in LfsPC
      /\ LfsNoFrame \in LfsFrames
  BY DEF LfsMaybe, LfsPC, LfsFrames, LfsNoFrame
<1>2. LfsTypeOK
  <2>1. ls_technique \in {"rcu", "mutex", "single", "rculfstack"}
    OBVIOUS
  <2>2. DOMAIN ls_ret = LfsThreads /\ ls_ret = [t \in LfsThreads |-> ls_ret[t]]
    OBVIOUS
  <2> QED BY <1>1, <2>1, <2>2 DEF LfsTypeOK
<1>3. LfsChains
  BY LfsLinkedEmpty DEF LfsChains
<1>4. LfsOnce
  BY LfsLinkedEmpty DEF LfsOnce, LfsTaken, LfsPushing
<1>5. LfsPoppers /\ LfsConsumers
  BY DEF LfsPoppers, LfsPopping, LfsReads, LfsConsumers
<1>6. LfsWalkers
  BY DEF LfsWalkers, LfsWalking
<1> QED BY <1>2, <1>3, <1>4, <1>5, <1>6 DEF LfsIInv

(* A step that changes neither the sequences nor the answers is invisible. *)
LEMMA LfsInvisible ==
    ASSUME ls_lifo' = ls_lifo, ls_hand' = ls_hand, ls_ret' = ls_ret
    PROVE  UNCHANGED LockFreeLifo!vars
BY DEF LockFreeLifo!vars

(* A thread that has not answered yet may do so.                           *)
LEMMA LfsAnswered ==
    ASSUME NEW t \in LfsThreads, LfsTypeOK, LfsWalkers, NEW r,
           ls_pc[t] \notin {"return", "pop_return"},
           ls_ret' = [ls_ret EXCEPT ![t] = r]
    PROVE  /\ LockFreeLifo!Answer(t, r) /\ ls_ret[t] = LfsNull /\ ls_ret'[t] = r
           /\ r = LfsNull => ls_ret' = ls_ret
<1>1. ls_ret[t] = LfsNull
  BY DEF LfsWalkers, LfsWalking
<1>2. ls_ret'[t] = r
  BY DEF LfsTypeOK
<1>3. r = LfsNull => ls_ret' = ls_ret
  BY <1>1 DEF LfsTypeOK
<1> QED BY <1>1, <1>2, <1>3 DEF LockFreeLifo!Answer

(* The head pointer is NULL if and only if the stack is empty, and else    *)
(* its first node.                                                         *)
LEMMA LfsHeadFacts ==
    ASSUME LfsTypeOK, LfsChains
    PROVE  /\ ls_head = LfsNull <=> ls_lifo = << >>
           /\ ls_lifo # << >> => ls_head = Head(ls_lifo) /\ ls_head \in LfsNodes
<1>1. CASE ls_lifo = << >>
  BY <1>1 DEF LfsChains
<1>2. CASE ls_lifo # << >>
  <2>1. ls_head = ls_lifo[1] /\ ls_lifo \in Seq(LfsNodes)
    BY <1>2 DEF LfsChains, LfsTypeOK
  <2>2. ls_lifo[1] \in LfsNodes /\ Head(ls_lifo) = ls_lifo[1]
    BY <1>2, <2>1
  <2> QED BY <1>2, <2>1, <2>2, LfstackAssumption
<1> QED BY <1>1, <1>2

(* cds_lfs_empty(), a pop from an empty stack and the like see the stack   *)
(* as it is.                                                               *)
LEMMA LfsLooks ==
    ASSUME NEW t \in LfsThreads, LfsTypeOK, LfsChains, LfsWalkers,
           ls_pc[t] \notin {"return", "pop_return"}, UNCHANGED <<ls_lifo, ls_hand>>,
           \/ ls_head = LfsNull /\ ls_ret' = [ls_ret EXCEPT ![t] = <<"nothing">>]
           \/ ls_head # LfsNull /\ ls_ret' = [ls_ret EXCEPT ![t] = <<"something">>]
    PROVE  [LockFreeLifo!Next]_(LockFreeLifo!vars)
<1>1. ls_head = LfsNull <=> ls_lifo = << >>
  BY LfsHeadFacts
<1>2. CASE ls_ret' = ls_ret
  BY <1>2, LfsInvisible
<1>3. CASE ls_ret' # ls_ret
  <2>1. ls_ret'[t] # ls_ret[t]
    BY <1>3, LfsAnswered
  <2>2. LockFreeLifo!Moves(t)
    BY <2>1 DEF LockFreeLifo!Moves
  <2>3. LockFreeLifo!Nothing(t, LfsStack) \/ LockFreeLifo!Something(t, LfsStack)
    BY <1>1, LfsAnswered DEF LockFreeLifo!Nothing, LockFreeLifo!Something
  <2> QED BY <2>2, <2>3 DEF LockFreeLifo!Next
<1> QED BY <1>2, <1>3

(* A successful compare-and-swap of cds_lfs_push() puts the node on the    *)
(* stack and reports whether the stack was empty.                          *)
LEMMA LfsPuts ==
    ASSUME NEW t \in LfsThreads, LfsTypeOK, LfsChains, LfsOnce, LfsWalkers,
           PushCas(t), ls_head = ls_frame[t].next
    PROVE  LockFreeLifo!Next
<1> DEFINE n == ls_frame[t].node
<1>1. /\ ls_pc[t] = "push_cas" /\ ls_lifo' = <<n>> \o ls_lifo /\ ls_hand' = ls_hand
      /\ ls_ret' = [ls_ret EXCEPT ![t] = <<"put", ls_frame[t].next # LfsNull>>]
  BY DEF PushCas, LfsResult
<1>2. (ls_frame[t].next # LfsNull) = (ls_lifo # << >>)
  BY LfsHeadFacts
<1>3. ls_ret' = [ls_ret EXCEPT ![t] = <<"put", ls_lifo # << >>>>]
  BY <1>1, <1>2
<1>4. /\ n \in LfsNodes /\ n \notin LfsElements(ls_lifo)
      /\ \A u \in LfsThreads : n \notin LfsElements(ls_hand[u])
  BY <1>1 DEF LfsOnce, LfsPushing
<1>5. /\ \A i \in DOMAIN ls_lifo : ls_lifo[i] # n
      /\ \A u \in LfsThreads : \A i \in DOMAIN ls_hand[u] : ls_hand[u][i] # n
  BY <1>4 DEF LfsElements
<1>6. /\ LockFreeLifo!Answer(t, <<"put", ls_lifo # << >>>>) /\ ls_ret[t] = LfsNull
      /\ ls_ret'[t] = <<"put", ls_lifo # << >>>>
  BY <1>1, <1>3, LfsAnswered
<1>7. LockFreeLifo!Moves(t)
  <2>1. (ls_lifo # << >>) \in BOOLEAN
    OBVIOUS
  <2>2. <<"put", ls_lifo # << >>>> # LfsNull
    BY <2>1, LfstackAssumption
  <2> QED BY <1>6, <2>2 DEF LockFreeLifo!Moves
<1>8. LockFreeLifo!Put(t, LfsStack, n)
  BY <1>1, <1>5, <1>6 DEF LockFreeLifo!Put, LockFreeLifo!Added
<1> QED BY <1>4, <1>7, <1>8 DEF LockFreeLifo!Next

(* A successful compare-and-swap of the head takes the first node and      *)
(* leaves the rest: the next pointer read before is still the right one.   *)
LEMMA LfsTakes ==
    ASSUME NEW t \in LfsThreads, LfsTypeOK, LfsChains, LfsPoppers, LfsWalkers,
           LfsCasHead(t), ls_head = ls_frame[t].node
    PROVE  LockFreeLifo!Next
<1>1. /\ ls_pc[t] = "cas_head" /\ ls_lifo' = Tail(ls_lifo) /\ ls_hand' = ls_hand
      /\ ls_ret' = [ls_ret EXCEPT ![t] = <<"took", ls_head>>]
  BY DEF LfsCasHead, LfsResult
<1>2. ls_head \in LfsNodes
  BY <1>1 DEF LfsPoppers, LfsPopping, LfsReads
<1>3. ls_lifo # << >> /\ ls_head = Head(ls_lifo)
  BY <1>2, LfsHeadFacts, LfstackAssumption
<1>4. /\ LockFreeLifo!Answer(t, <<"took", ls_head>>) /\ ls_ret[t] = LfsNull
      /\ ls_ret'[t] = <<"took", ls_head>>
  BY <1>1, LfsAnswered
<1>5. LockFreeLifo!Moves(t)
  BY <1>2, <1>4, LfstackAssumption DEF LockFreeLifo!Moves
<1>6. LockFreeLifo!TakeStateless(t, LfsStack)
  BY <1>1, <1>3, <1>4 DEF LockFreeLifo!TakeStateless
<1> QED BY <1>5, <1>6 DEF LockFreeLifo!Next

(* The exchange of cds_lfs_pop_all() takes the whole stack.                *)
LEMMA LfsTakesAll ==
    ASSUME NEW t \in LfsThreads, LfsTypeOK, LfsChains, LfsWalkers,
           LfsPopAll(t), ls_head # LfsNull
    PROVE  LockFreeLifo!Next
<1>1. /\ ls_pc[t] = "xchg_head" /\ ls_lifo' = << >>
      /\ ls_hand' = [ls_hand EXCEPT ![t] = ls_lifo] /\ ls_ret' = ls_ret
  BY DEF LfsPopAll
<1>2. ls_lifo # << >>
  BY LfsHeadFacts
<1>3. ls_hand[t] = << >> /\ ls_ret[t] = LfsNull
  BY <1>1 DEF LfsWalkers, LfsWalking
<1>4. LockFreeLifo!Moves(t)
  BY <1>1, <1>2, <1>3 DEF LockFreeLifo!Moves, LfsTypeOK
<1>5. LockFreeLifo!TakeAll(t, LfsStack)
  BY <1>1, <1>2, <1>3 DEF LockFreeLifo!TakeAll
<1> QED BY <1>4, <1>5 DEF LockFreeLifo!Next

(* The iteration over what was taken ends with all of it, in order.        *)
LEMMA LfsWalks ==
    ASSUME NEW t \in LfsThreads, LfsTypeOK, LfsChains, LfsWalkers,
           cds_lfs_for_each(t), ls_next[ls_frame[t].node] = LfsNull
    PROVE  LockFreeLifo!Next
<1> DEFINE seen == ls_frame[t].seen
<1>1. /\ ls_pc[t] = "walk" /\ ls_lifo' = ls_lifo /\ ls_hand' = [ls_hand EXCEPT ![t] = << >>]
      /\ ls_ret' = [ls_ret EXCEPT ![t] = <<"walked">> \o seen]
  BY DEF cds_lfs_for_each, LfsResult
<1>2. /\ ls_hand[t] # << >> /\ Len(seen) \in 1 .. Len(ls_hand[t])
      /\ \A i \in 1 .. Len(seen) : seen[i] = ls_hand[t][i]
      /\ ls_frame[t].node = ls_hand[t][Len(seen)]
  BY <1>1 DEF LfsWalkers, LfsWalking
<1>3. seen \in Seq(LfsNodes) /\ ls_hand[t] \in Seq(LfsNodes)
  BY DEF LfsTypeOK, LfsFrames
<1>4. Len(seen) = Len(ls_hand[t])
  <2>1. ls_next[ls_hand[t][Len(seen)]]
           = IF Len(seen) < Len(ls_hand[t]) THEN ls_hand[t][Len(seen) + 1] ELSE LfsNull
    BY <1>2 DEF LfsChains, LfsLinked
  <2>2. ASSUME Len(seen) < Len(ls_hand[t]) PROVE ls_hand[t][Len(seen) + 1] \in LfsNodes
    BY <1>2, <1>3, <2>2
  <2> HIDE DEF seen
  <2> QED BY <1>2, <1>3, <2>1, <2>2, LfstackAssumption
<1>5. seen = ls_hand[t]
  <2> HIDE DEF seen
  <2> QED BY <1>2, <1>3, <1>4, SeqEqual
<1>6. ls_ret' = [ls_ret EXCEPT ![t] = <<"walked">> \o ls_hand[t]]
  BY <1>1, <1>5
<1>7. LockFreeLifo!Moves(t)
  BY <1>1, <1>2 DEF LockFreeLifo!Moves, LfsTypeOK
<1>8. LockFreeLifo!Answer(t, <<"walked">> \o ls_hand[t])
  BY <1>1, <1>6, LfsAnswered
<1>9. LockFreeLifo!WalkHand(t)
  BY <1>1, <1>2, <1>8 DEF LockFreeLifo!WalkHand
<1> QED BY <1>7, <1>9 DEF LockFreeLifo!Next

(* A call returns what it answered.                                        *)
LEMMA LfsReturns ==
    ASSUME NEW t \in LfsThreads, LfsTypeOK, LfsReturn(t)
    PROVE  [LockFreeLifo!Next]_(LockFreeLifo!vars)
<1>1. /\ ls_lifo' = ls_lifo /\ ls_hand' = ls_hand
      /\ ls_ret' = [ls_ret EXCEPT ![t] = LfsNull]
  BY DEF LfsReturn, LfsResult
<1>2. CASE ls_ret[t] = LfsNull
  <2>1. ls_ret' = ls_ret
    BY <1>1, <1>2 DEF LfsTypeOK
  <2> QED BY <1>1, <2>1, LfsInvisible
<1>3. CASE ls_ret[t] # LfsNull
  <2>1. LockFreeLifo!Moves(t)
    BY <1>1, <1>3 DEF LockFreeLifo!Moves, LfsTypeOK
  <2>2. LockFreeLifo!Return(t)
    BY <1>1, <1>3 DEF LockFreeLifo!Return
  <2> QED BY <2>1, <2>2 DEF LockFreeLifo!Next
<1> QED BY <1>2, <1>3

(* Every step of the stacks is a step of the container, or invisible.      *)
LEMMA LfsStepRefines ==
    ASSUME LfsIInv, [LfstackNext]_lfsvars
    PROVE  [LockFreeLifo!Next]_(LockFreeLifo!vars)
<1>0. LfsTypeOK /\ LfsChains /\ LfsOnce /\ LfsPoppers /\ LfsWalkers
  BY DEF LfsIInv
<1>1. ASSUME NEW t \in LfsThreads, PushCas(t)
      PROVE  [LockFreeLifo!Next]_(LockFreeLifo!vars)
  <2>1. CASE ls_head = ls_frame[t].next
    BY <1>0, <1>1, <2>1, LfsPuts
  <2>2. CASE ls_head # ls_frame[t].next
    BY <1>1, <2>2, LfsInvisible DEF PushCas
  <2> QED BY <2>1, <2>2
<1>2. ASSUME NEW t \in LfsThreads, cds_lfs_empty(t)
      PROVE  [LockFreeLifo!Next]_(LockFreeLifo!vars)
  BY <1>0, <1>2, LfsLooks DEF cds_lfs_empty, LfsResult
<1>3. ASSUME NEW t \in LfsThreads, LfsLoadHead(t)
      PROVE  [LockFreeLifo!Next]_(LockFreeLifo!vars)
  <2>1. CASE ls_head = LfsNull
    BY <1>0, <1>3, <2>1, LfsLooks DEF LfsLoadHead, LfsResult
  <2>2. CASE ls_head # LfsNull
    BY <1>3, <2>2, LfsInvisible DEF LfsLoadHead
  <2> QED BY <2>1, <2>2
<1>4. ASSUME NEW t \in LfsThreads, LfsCasHead(t)
      PROVE  [LockFreeLifo!Next]_(LockFreeLifo!vars)
  <2>1. CASE ls_head = ls_frame[t].node
    BY <1>0, <1>4, <2>1, LfsTakes
  <2>2. CASE ls_head # ls_frame[t].node
    BY <1>4, <2>2, LfsInvisible DEF LfsCasHead
  <2> QED BY <2>1, <2>2
<1>5. ASSUME NEW t \in LfsThreads, LfsPopAll(t)
      PROVE  [LockFreeLifo!Next]_(LockFreeLifo!vars)
  <2>1. CASE ls_head = LfsNull
    <3>1. ls_lifo = << >> /\ ls_hand[t] = << >>
      BY <1>0, <1>5, <2>1, LfsHeadFacts DEF LfsPopAll, LfsWalkers, LfsWalking
    <3>2. ls_lifo' = ls_lifo /\ ls_hand' = ls_hand
      BY <1>0, <1>5, <3>1 DEF LfsPopAll, LfsTypeOK
    <3>3. ls_pc[t] = "xchg_head" /\ ls_ret' = [ls_ret EXCEPT ![t] = <<"nothing">>]
      BY <1>5, <2>1 DEF LfsPopAll, LfsResult
    <3> QED BY <1>0, <2>1, <3>2, <3>3, LfsLooks
  <2>2. CASE ls_head # LfsNull
    BY <1>0, <1>5, <2>2, LfsTakesAll
  <2> QED BY <2>1, <2>2
<1>6. ASSUME NEW t \in LfsThreads, cds_lfs_for_each(t)
      PROVE  [LockFreeLifo!Next]_(LockFreeLifo!vars)
  <2>1. CASE ls_next[ls_frame[t].node] = LfsNull
    BY <1>0, <1>6, <2>1, LfsWalks
  <2>2. CASE ls_next[ls_frame[t].node] # LfsNull
    BY <1>6, <2>2, LfsInvisible DEF cds_lfs_for_each
  <2> QED BY <2>1, <2>2
<1>7. ASSUME NEW t \in LfsThreads, LfsReturn(t)
      PROVE  [LockFreeLifo!Next]_(LockFreeLifo!vars)
  BY <1>0, <1>7, LfsReturns
<1>8. ASSUME NEW t \in LfsThreads, LfsLoadNext(t)
      PROVE  [LockFreeLifo!Next]_(LockFreeLifo!vars)
  BY <1>8, LfsInvisible DEF LfsLoadNext
<1>9. ASSUME NEW t \in LfsThreads, NEW n \in LfsNodes, PushCall(t, n)
      PROVE  [LockFreeLifo!Next]_(LockFreeLifo!vars)
  BY <1>9, LfsInvisible DEF PushCall
<1>10. ASSUME NEW t \in LfsThreads, NEW l, LfsConsume(t, l)
      PROVE  [LockFreeLifo!Next]_(LockFreeLifo!vars)
  BY <1>10, LfsInvisible DEF LfsConsume
<1>11. ASSUME NEW n \in LfsNodes, Overwrite(n)
      PROVE  [LockFreeLifo!Next]_(LockFreeLifo!vars)
  BY <1>11, LfsInvisible DEF Overwrite
<1>12. CASE UNCHANGED lfsvars
  BY <1>12, LfsInvisible DEF lfsvars
<1> QED
  BY <1>1, <1>2, <1>3, <1>4, <1>5, <1>6, <1>7, <1>8, <1>9, <1>10, <1>11, <1>12
     DEF LfstackNext, LfsStep, cds_lfs_push, cds_lfs_push_rcu, cds_lfs_pop,
         cds_lfs_pop_rcu, cds_lfs_pop_all

(* The invariant holds at all times.                                       *)
LEMMA LfsIInvHolds == LfstackSpec => []LfsIInv
<1>1. LfsIInv /\ [LfstackNext]_lfsvars => LfsIInv'
  BY LfsPreserves
<1> QED BY LfsInitIInv, <1>1, PTL DEF LfstackSpec

(* lfstack and rculfstack are linearisable to a stack under every          *)
(* synchronization technique that lfstack.h documents: no push is lost, no *)
(* node is popped twice, pop_all takes everything, and a node that is      *)
(* popped and pushed again while another thread is between its read of the *)
(* head and its compare-and-swap (ABA) does no harm.                       *)
THEOREM LfstackRefinement == LfstackSpec => LfsImplementsLifo
<1>1. LfstackInit => LockFreeLifo!Init
  BY DEF LfstackInit, LockFreeLifo!Init
<1>2. LfsIInv /\ [LfstackNext]_lfsvars => [LockFreeLifo!Next]_(LockFreeLifo!vars)
  BY LfsStepRefines
<1> QED
  BY <1>1, <1>2, LfsIInvHolds, PTL DEF LfstackSpec, LfsImplementsLifo, LockFreeLifo!Spec

-----------------------------------------------------------------------------
(* wfstack: the inductive invariant.                                       *)

(* Where a thread is, and its local variables.                             *)
WfsPC == {"idle", "push_link", "load_head", "sync_next", "cas_head", "xchg_head",
          "walk", "return", "pop_return"}
WfsMaybe == WfsNodes \cup {WfsNull, WfsEnd}
WfsFrames == [node : WfsMaybe, next : WfsMaybe, blocking : BOOLEAN, seen : Seq(WfsNodes)]

(* Every variable has its type.                                            *)
WfsTypeOK ==
    /\ ws_head \in WfsNodes \cup {WfsEnd}
    /\ ws_next \in [WfsNodes -> WfsMaybe]
    /\ ws_lock \in WfsThreads \cup {WfsNull}
    /\ ws_technique \in {"rcu", "mutex", "single"}
    /\ ws_pc \in [WfsThreads -> WfsPC]
    /\ ws_frame \in [WfsThreads -> WfsFrames]
    /\ ws_grace \in [WfsNodes -> SUBSET WfsThreads]
    /\ ws_lifo \in Seq(WfsNodes)
    /\ ws_hand \in [WfsThreads -> Seq(WfsNodes)]
    /\ ws_ret = [t \in WfsThreads |-> ws_ret[t]]

(* A push that has exchanged the head but not yet linked its node: the     *)
(* node is on the stack, or was taken from it with all others.             *)
WfsPlaced(n) == n \in Items(ws_lifo) \/ \E u \in WfsThreads : n \in Items(ws_hand[u])
WfsLinking(t) ==
    ws_pc[t] = "push_link" =>
        /\ ws_frame[t].node \in WfsNodes /\ ws_frame[t].next \in WfsNodes \cup {WfsEnd}
        /\ ws_next[ws_frame[t].node] = WfsNull /\ WfsPlaced(ws_frame[t].node)
        /\ \A u \in WfsThreads :
              u # t /\ ws_pc[u] = "push_link" => ws_frame[u].node # ws_frame[t].node
WfsLinkers == \A t \in WfsThreads : WfsLinking(t)

(* Where each node points once the pushes have linked their nodes.  These  *)
(* pointers link the nodes of the stack and of each popped list.           *)
WfsAhead(ahead) ==
    \A n \in WfsNodes :
        \/ /\ \A t \in WfsThreads : ws_pc[t] = "push_link" => ws_frame[t].node # n
           /\ ahead[n] = ws_next[n]
        \/ \E t \in WfsThreads : /\ ws_pc[t] = "push_link" /\ ws_frame[t].node = n
                                 /\ ahead[n] = ws_frame[t].next
WfsLinked(ahead) ==
    /\ Chain(ahead, ws_lifo, WfsEnd)
    /\ \A t \in WfsThreads : Chain(ahead, ws_hand[t], WfsEnd)
WfsChains ==
    /\ \E ahead \in [WfsNodes -> WfsMaybe] : WfsAhead(ahead) /\ WfsLinked(ahead)
    /\ ws_head = IF ws_lifo = << >> THEN WfsEnd ELSE ws_lifo[1]

(* A node is in one place.                                                 *)
WfsTaken(t) ==
    \A n \in Items(ws_hand[t]) :
        /\ n \notin Items(ws_lifo)
        /\ \A u \in WfsThreads : u # t => n \notin Items(ws_hand[u])
WfsOnce == \A t \in WfsThreads : WfsTaken(t)

(* The node a popper has seen is on the stack, where its next pointer does *)
(* not change, or waits for the end of the popper's section.               *)
WfsPopping(t) ==
    ws_pc[t] \in {"sync_next", "cas_head"} =>
        /\ ws_frame[t].node \in WfsNodes
        /\ \/ ws_frame[t].node \in Items(ws_lifo)
           \/ /\ ws_technique = "rcu"
              /\ \/ t \in ws_grace[ws_frame[t].node]
                 \/ \E u \in WfsThreads : ws_frame[t].node \in Items(ws_hand[u])
        /\ ws_pc[t] = "cas_head" /\ ws_frame[t].node \in Items(ws_lifo) =>
              ws_frame[t].next = ws_next[ws_frame[t].node] /\ ws_frame[t].next # WfsNull
WfsPoppers == \A t \in WfsThreads : WfsPopping(t)

(* Consumers exclude each other unless they rely on RCU.                   *)
WfsConsuming(t) ==
    ws_pc[t] \in {"load_head", "sync_next", "cas_head", "xchg_head", "pop_return"} =>
        /\ ws_technique = "mutex" => ws_lock = t
        /\ ws_technique = "single" => t = WfsConsumer
WfsConsumers == \A t \in WfsThreads : WfsConsuming(t)

(* Who took all walks through it, in order, past linked nodes only.        *)
WfsWalking(t) ==
    /\ ws_hand[t] # << >> <=> ws_pc[t] = "walk"
    /\ ws_pc[t] = "walk" =>
          /\ Len(ws_frame[t].seen) \in 1 .. Len(ws_hand[t])
          /\ \A i \in 1 .. Len(ws_frame[t].seen) : ws_frame[t].seen[i] = ws_hand[t][i]
          /\ \A i \in 1 .. Len(ws_frame[t].seen) - 1 : ws_next[ws_hand[t][i]] # WfsNull
          /\ ws_frame[t].node = ws_hand[t][Len(ws_frame[t].seen)]
    /\ ws_pc[t] \notin {"return", "pop_return", "push_link"} => ws_ret[t] = WfsNull
WfsWalkers == \A t \in WfsThreads : WfsWalking(t)

(* The inductive invariant of wfstack.                                     *)
WfsIInv ==
    /\ WfsTypeOK /\ WfsLinkers /\ WfsChains /\ WfsOnce /\ WfsPoppers /\ WfsConsumers
    /\ WfsWalkers

(* A step of t that changes neither nodes nor sequences and is no part of  *)
(* a push: only what is said of t itself has to be checked.                *)
LEMMA WfsQuiet ==
    ASSUME WfsIInv, NEW t \in WfsThreads, WfsTypeOK',
           UNCHANGED <<ws_head, ws_next, ws_technique, ws_lifo, ws_hand>>,
           ws_pc[t] # "push_link", ws_pc'[t] # "push_link",
           \A u \in WfsThreads : u # t =>
              /\ ws_pc'[u] = ws_pc[u] /\ ws_frame'[u] = ws_frame[u] /\ ws_ret'[u] = ws_ret[u]
              /\ ws_lock = u => ws_lock' = u,
           \A n \in WfsNodes : ws_grace[n] \subseteq ws_grace'[n] \cup {t},
           WfsPopping(t)', WfsConsuming(t)', WfsWalking(t)'
    PROVE  WfsIInv'
<1>0. WfsTypeOK /\ WfsLinkers /\ WfsChains /\ WfsOnce /\ WfsPoppers /\ WfsConsumers /\ WfsWalkers
  BY DEF WfsIInv
<1>1. WfsLinkers'
  BY <1>0 DEF WfsLinkers, WfsLinking, WfsPlaced
<1>2. WfsChains'
  <2>1. PICK ahead \in [WfsNodes -> WfsMaybe] : WfsAhead(ahead) /\ WfsLinked(ahead)
    BY <1>0 DEF WfsChains
  <2>2. WfsAhead(ahead)'
    BY <2>1 DEF WfsAhead
  <2>3. WfsLinked(ahead)'
    BY <2>1 DEF WfsLinked
  <2>4. ws_head' = IF ws_lifo' = << >> THEN WfsEnd ELSE ws_lifo'[1]
    BY <1>0 DEF WfsChains
  <2> QED BY <2>2, <2>3, <2>4 DEF WfsChains
<1>3. WfsOnce'
  BY <1>0 DEF WfsOnce, WfsTaken
<1>4. ASSUME NEW u \in WfsThreads, u # t
      PROVE  WfsPopping(u)' /\ WfsConsuming(u)' /\ WfsWalking(u)'
  <2>1. WfsPopping(u)'
    BY <1>0, <1>4 DEF WfsPoppers, WfsPopping
  <2>2. WfsConsuming(u)'
    BY <1>0, <1>4 DEF WfsConsumers, WfsConsuming
  <2>3. WfsWalking(u)'
    BY <1>0, <1>4 DEF WfsWalkers, WfsWalking
  <2> QED BY <2>1, <2>2, <2>3
<1> QED BY <1>1, <1>2, <1>3, <1>4 DEF WfsIInv, WfsPoppers, WfsConsumers, WfsWalkers

(* cds_wfs_empty() looks at the head.                                      *)
LEMMA WfsEmptyKeeps ==
    ASSUME WfsIInv, NEW t \in WfsThreads, cds_wfs_empty(t)
    PROVE  WfsIInv'
<1>0. WfsTypeOK /\ WfsWalkers
  BY DEF WfsIInv
<1>1. /\ ws_pc[t] = "idle" /\ ws_pc' = [ws_pc EXCEPT ![t] = "return"]
      /\ ws_ret' = [ws_ret EXCEPT ![t] = IF ws_head = WfsEnd THEN <<"nothing">> ELSE <<"something">>]
      /\ UNCHANGED <<ws_head, ws_next, ws_lock, ws_technique, ws_frame, ws_grace, ws_lifo, ws_hand>>
  BY DEF cds_wfs_empty, WfsResult, WfsGoto
<1>2. /\ ws_pc'[t] = "return"
      /\ \A u \in WfsThreads : u # t => ws_pc'[u] = ws_pc[u] /\ ws_ret'[u] = ws_ret[u]
  BY <1>0, <1>1 DEF WfsTypeOK
<1>3. WfsTypeOK'
  BY <1>0, <1>1 DEF WfsTypeOK, WfsPC
<1>4. WfsPopping(t)' /\ WfsConsuming(t)' /\ WfsWalking(t)'
  BY <1>0, <1>1, <1>2 DEF WfsPopping, WfsConsuming, WfsWalking, WfsWalkers
<1> QED BY <1>1, <1>2, <1>3, <1>4, WfsQuiet

(* A pop or pop_all starts.                                                *)
LEMMA WfsConsumeKeeps ==
    ASSUME WfsIInv, NEW t \in WfsThreads, NEW b \in BOOLEAN,
           NEW l \in {"load_head", "xchg_head"}, Consume(t, l, b)
    PROVE  WfsIInv'
<1>0. WfsTypeOK /\ WfsWalkers
  BY DEF WfsIInv
<1>1. /\ ws_pc[t] = "idle" /\ ws_pc' = [ws_pc EXCEPT ![t] = l]
      /\ ws_lock' = (IF ws_technique = "mutex" THEN t ELSE ws_lock)
      /\ ws_frame' = [ws_frame EXCEPT ![t].blocking = b]
      /\ ws_technique = "mutex" => ws_lock = WfsNull
      /\ ws_technique = "single" => t = WfsConsumer
      /\ UNCHANGED <<ws_head, ws_next, ws_technique, ws_grace, ws_lifo, ws_hand, ws_ret>>
  BY <1>0 DEF Consume, MayPop, WfsGoto, WfsTypeOK
<1>2. /\ ws_pc'[t] = l
      /\ \A u \in WfsThreads : u # t => ws_pc'[u] = ws_pc[u] /\ ws_frame'[u] = ws_frame[u]
  BY <1>0, <1>1 DEF WfsTypeOK
<1>3. WfsTypeOK'
  <2>1. ws_frame' \in [WfsThreads -> WfsFrames]
    BY <1>0, <1>1 DEF WfsTypeOK, WfsFrames
  <2>2. ws_pc' \in [WfsThreads -> WfsPC] /\ ws_lock' \in WfsThreads \cup {WfsNull}
    BY <1>0, <1>1 DEF WfsTypeOK, WfsPC
  <2> QED BY <1>0, <1>1, <2>1, <2>2 DEF WfsTypeOK
<1>4. WfsPopping(t)' /\ WfsConsuming(t)' /\ WfsWalking(t)'
  BY <1>0, <1>1, <1>2 DEF WfsPopping, WfsConsuming, WfsWalking, WfsWalkers
<1>5. \A u \in WfsThreads : ws_lock = u /\ u # t => ws_lock' = u
  BY <1>1, WfstackAssumption
<1> QED BY <1>1, <1>2, <1>3, <1>4, <1>5, WfsQuiet

(* A call returns.                                                         *)
LEMMA WfsReturnKeeps ==
    ASSUME WfsIInv, NEW t \in WfsThreads, WfsReturn(t)
    PROVE  WfsIInv'
<1>0. WfsTypeOK /\ WfsWalkers
  BY DEF WfsIInv
<1>1. /\ ws_pc[t] \in {"return", "pop_return"} /\ ws_pc' = [ws_pc EXCEPT ![t] = "idle"]
      /\ ws_lock' = (IF ws_lock = t THEN WfsNull ELSE ws_lock)
      /\ ws_grace' = [n \in WfsNodes |-> ws_grace[n] \ {t}]
      /\ ws_frame' = [ws_frame EXCEPT ![t] = WfsNoFrame]
      /\ ws_ret' = [ws_ret EXCEPT ![t] = WfsNull]
      /\ UNCHANGED <<ws_head, ws_next, ws_technique, ws_lifo, ws_hand>>
  BY DEF WfsReturn, WfsResult, WfsGoto
<1>2. /\ ws_pc'[t] = "idle" /\ ws_ret'[t] = WfsNull
      /\ \A u \in WfsThreads : u # t =>
            ws_pc'[u] = ws_pc[u] /\ ws_frame'[u] = ws_frame[u] /\ ws_ret'[u] = ws_ret[u]
  BY <1>0, <1>1 DEF WfsTypeOK
<1>3. WfsTypeOK'
  <2>1. WfsNoFrame \in WfsFrames
    BY DEF WfsNoFrame, WfsFrames, WfsMaybe
  <2>2. ws_frame' \in [WfsThreads -> WfsFrames] /\ ws_pc' \in [WfsThreads -> WfsPC]
    BY <1>0, <1>1, <2>1 DEF WfsTypeOK, WfsPC
  <2>3. /\ ws_grace' \in [WfsNodes -> SUBSET WfsThreads] /\ ws_lock' \in WfsThreads \cup {WfsNull}
        /\ ws_ret' = [u \in WfsThreads |-> ws_ret'[u]]
    BY <1>0, <1>1 DEF WfsTypeOK
  <2> QED BY <1>0, <1>1, <2>2, <2>3 DEF WfsTypeOK
<1>4. WfsPopping(t)' /\ WfsConsuming(t)' /\ WfsWalking(t)'
  BY <1>0, <1>1, <1>2 DEF WfsPopping, WfsConsuming, WfsWalking, WfsWalkers
<1>5. \A n \in WfsNodes : ws_grace[n] \subseteq ws_grace'[n] \cup {t}
  BY <1>1
<1>6. \A u \in WfsThreads : ws_lock = u /\ u # t => ws_lock' = u
  BY <1>1
<1> QED BY <1>1, <1>2, <1>3, <1>4, <1>5, <1>6, WfsQuiet

(* The head pointer is the end of the list if and only if the stack is     *)
(* empty, and else its first node.                                         *)
LEMMA WfsHeadFacts ==
    ASSUME WfsTypeOK, WfsChains
    PROVE  /\ ws_head = WfsEnd <=> ws_lifo = << >>
           /\ ws_lifo # << >> =>
                 ws_head = Head(ws_lifo) /\ ws_head \in WfsNodes /\ ws_head \in Items(ws_lifo)
<1>1. CASE ws_lifo = << >>
  BY <1>1 DEF WfsChains
<1>2. CASE ws_lifo # << >>
  <2>1. ws_head = ws_lifo[1] /\ ws_lifo \in Seq(WfsNodes)
    BY <1>2 DEF WfsChains, WfsTypeOK
  <2>2. ws_lifo[1] \in WfsNodes /\ Head(ws_lifo) = ws_lifo[1] /\ 1 \in DOMAIN ws_lifo
    BY <1>2, <2>1
  <2> QED BY <1>2, <2>1, <2>2, WfstackAssumption DEF Items
<1> QED BY <1>1, <1>2

(* A pop loads the head, or finds the stack empty.                         *)
LEMMA WfsLoadHeadKeeps ==
    ASSUME WfsIInv, NEW t \in WfsThreads, LoadHead(t)
    PROVE  WfsIInv'
<1>0. WfsTypeOK /\ WfsChains /\ WfsConsumers /\ WfsWalkers
  BY DEF WfsIInv
<1>1. ws_pc[t] = "load_head" /\ UNCHANGED <<ws_head, ws_next, ws_lock, ws_technique, ws_grace,
                                            ws_lifo, ws_hand>>
  BY DEF LoadHead
<1>2. CASE /\ ws_head = WfsEnd /\ ws_pc' = [ws_pc EXCEPT ![t] = "pop_return"]
           /\ ws_ret' = [ws_ret EXCEPT ![t] = <<"nothing">>] /\ ws_frame' = ws_frame
  <2>1. /\ ws_pc'[t] = "pop_return"
        /\ \A u \in WfsThreads : u # t => ws_pc'[u] = ws_pc[u] /\ ws_ret'[u] = ws_ret[u]
    BY <1>0, <1>2 DEF WfsTypeOK
  <2>2. WfsTypeOK'
    BY <1>0, <1>1, <1>2 DEF WfsTypeOK, WfsPC
  <2>3. WfsPopping(t)' /\ WfsConsuming(t)' /\ WfsWalking(t)'
    BY <1>0, <1>1, <1>2, <2>1
       DEF WfsPopping, WfsConsuming, WfsWalking, WfsWalkers, WfsConsumers
  <2> QED BY <1>1, <1>2, <2>1, <2>2, <2>3, WfsQuiet
<1>3. CASE /\ ws_head # WfsEnd /\ ws_pc' = [ws_pc EXCEPT ![t] = "sync_next"]
           /\ ws_frame' = [ws_frame EXCEPT ![t].node = ws_head] /\ ws_ret' = ws_ret
  <2>1. /\ ws_pc'[t] = "sync_next" /\ ws_frame'[t].node = ws_head
        /\ \A u \in WfsThreads : u # t => ws_pc'[u] = ws_pc[u] /\ ws_frame'[u] = ws_frame[u]
    BY <1>0, <1>3 DEF WfsTypeOK, WfsFrames
  <2>2. WfsTypeOK'
    <3>1. ws_head \in WfsMaybe
      BY <1>0 DEF WfsTypeOK, WfsMaybe
    <3>2. ws_frame' \in [WfsThreads -> WfsFrames]
      BY <1>0, <1>3, <3>1 DEF WfsTypeOK, WfsFrames
    <3>3. ws_pc' \in [WfsThreads -> WfsPC]
      BY <1>0, <1>3 DEF WfsTypeOK, WfsPC
    <3> QED BY <1>0, <1>1, <1>3, <3>2, <3>3 DEF WfsTypeOK
  <2>3. WfsPopping(t)'
    BY <1>0, <1>1, <1>3, <2>1, WfsHeadFacts DEF WfsPopping
  <2>4. WfsConsuming(t)' /\ WfsWalking(t)'
    BY <1>0, <1>1, <1>3, <2>1 DEF WfsConsuming, WfsWalking, WfsWalkers, WfsConsumers
  <2> QED BY <1>1, <1>3, <2>1, <2>2, <2>3, <2>4, WfsQuiet
<1> QED BY <1>2, <1>3 DEF LoadHead, WfsResult, WfsGoto

(* A nonblocking pop gives up.                                             *)
LEMMA WfsGivesUp ==
    ASSUME WfsIInv, NEW t \in WfsThreads, ws_pc[t] \in {"sync_next", "cas_head"},
           ws_pc' = [ws_pc EXCEPT ![t] = "pop_return"],
           ws_ret' = [ws_ret EXCEPT ![t] = <<"interfered">>],
           UNCHANGED <<ws_head, ws_next, ws_lock, ws_technique, ws_frame, ws_grace, ws_lifo, ws_hand>>
    PROVE  WfsIInv'
<1>0. WfsTypeOK /\ WfsConsumers /\ WfsWalkers
  BY DEF WfsIInv
<1>1. /\ ws_pc'[t] = "pop_return"
      /\ \A u \in WfsThreads : u # t => ws_pc'[u] = ws_pc[u] /\ ws_ret'[u] = ws_ret[u]
  BY <1>0 DEF WfsTypeOK
<1>2. WfsTypeOK'
  BY <1>0 DEF WfsTypeOK, WfsPC
<1>3. WfsPopping(t)' /\ WfsConsuming(t)' /\ WfsWalking(t)'
  BY <1>0, <1>1 DEF WfsPopping, WfsConsuming, WfsWalking, WfsWalkers, WfsConsumers
<1> QED BY <1>1, <1>2, <1>3, WfsQuiet

(* A pop reads the next pointer.                                           *)
LEMMA WfsSyncNextKeeps ==
    ASSUME WfsIInv, NEW t \in WfsThreads, WfsSyncNext(t)
    PROVE  WfsIInv'
<1>0. WfsTypeOK /\ WfsPoppers /\ WfsConsumers /\ WfsWalkers
  BY DEF WfsIInv
<1>1. ws_pc[t] = "sync_next" /\ UNCHANGED <<ws_head, ws_next, ws_lock, ws_technique, ws_grace,
                                            ws_lifo, ws_hand>>
  BY DEF WfsSyncNext
<1>2. CASE /\ ws_next[ws_frame[t].node] # WfsNull /\ ws_pc' = [ws_pc EXCEPT ![t] = "cas_head"]
           /\ ws_frame' = [ws_frame EXCEPT ![t].next = ws_next[ws_frame[t].node]]
           /\ ws_ret' = ws_ret
  <2>1. /\ ws_pc'[t] = "cas_head"
        /\ ws_frame'[t].node = ws_frame[t].node /\ ws_frame'[t].next = ws_next[ws_frame[t].node]
        /\ \A u \in WfsThreads : u # t => ws_pc'[u] = ws_pc[u] /\ ws_frame'[u] = ws_frame[u]
    BY <1>0, <1>2 DEF WfsTypeOK, WfsFrames
  <2>2. WfsTypeOK'
    <3>1. ws_next[ws_frame[t].node] \in WfsMaybe
      BY <1>0, <1>1 DEF WfsTypeOK, WfsPoppers, WfsPopping
    <3>2. ws_frame' \in [WfsThreads -> WfsFrames]
      BY <1>0, <1>2, <3>1 DEF WfsTypeOK, WfsFrames
    <3>3. ws_pc' \in [WfsThreads -> WfsPC]
      BY <1>0, <1>2 DEF WfsTypeOK, WfsPC
    <3> QED BY <1>0, <1>1, <1>2, <3>2, <3>3 DEF WfsTypeOK
  <2>3. WfsPopping(t)'
    BY <1>0, <1>1, <1>2, <2>1 DEF WfsPopping, WfsPoppers
  <2>4. WfsConsuming(t)' /\ WfsWalking(t)'
    BY <1>0, <1>1, <1>2, <2>1 DEF WfsConsuming, WfsWalking, WfsWalkers, WfsConsumers
  <2> QED BY <1>1, <1>2, <2>1, <2>2, <2>3, <2>4, WfsQuiet
<1>3. CASE /\ ws_pc' = [ws_pc EXCEPT ![t] = "pop_return"]
           /\ ws_ret' = [ws_ret EXCEPT ![t] = <<"interfered">>] /\ ws_frame' = ws_frame
  BY <1>1, <1>3, WfsGivesUp
<1> QED BY <1>2, <1>3 DEF WfsSyncNext, WfsResult, WfsGoto

(* A thread sets two local variables of its call.                          *)
LEMMA WfsSetSeen ==
    ASSUME WfsTypeOK, NEW t \in WfsThreads, NEW m \in WfsMaybe, NEW x \in Seq(WfsNodes),
           ws_frame' = [ws_frame EXCEPT ![t].node = m, ![t].seen = x]
    PROVE  /\ ws_frame' \in [WfsThreads -> WfsFrames]
           /\ ws_frame'[t].node = m /\ ws_frame'[t].seen = x
           /\ \A u \in WfsThreads : u # t => ws_frame'[u] = ws_frame[u]
<1> DEFINE r == [ws_frame[t] EXCEPT !.node = m, !.seen = x]
<1>1. ws_frame' = [ws_frame EXCEPT ![t] = r] /\ ws_frame \in [WfsThreads -> WfsFrames]
  BY DEF WfsTypeOK
<1>2. r \in WfsFrames /\ r.node = m /\ r.seen = x
  <2>1. PICK y \in WfsFrames : y = ws_frame[t]
    BY <1>1
  <2>2. [y EXCEPT !.node = m, !.seen = x] \in WfsFrames /\ r = [y EXCEPT !.node = m, !.seen = x]
    BY <2>1 DEF WfsFrames
  <2> QED BY <2>2 DEF WfsFrames
<1> HIDE DEF r
<1> QED BY <1>1, <1>2

(* The exchange of cds_wfs_push().                                         *)
LEMMA WfsPushKeeps ==
    ASSUME WfsIInv, NEW t \in WfsThreads, NEW n \in WfsNodes, cds_wfs_push(t, n)
    PROVE  WfsIInv'
<1>0. WfsTypeOK /\ WfsLinkers /\ WfsChains /\ WfsOnce /\ WfsPoppers /\ WfsConsumers /\ WfsWalkers
  BY DEF WfsIInv
<1>1. /\ ws_pc[t] = "idle" /\ ws_grace[n] = {} /\ ws_head' = n /\ ws_lifo' = <<n>> \o ws_lifo
      /\ ws_next' = [ws_next EXCEPT ![n] = WfsNull] /\ ws_pc' = [ws_pc EXCEPT ![t] = "push_link"]
      /\ ws_frame' = [ws_frame EXCEPT ![t].node = n, ![t].next = ws_head]
      /\ ws_ret' = [ws_ret EXCEPT ![t] = <<"put", ws_head # WfsEnd>>]
      /\ UNCHANGED <<ws_lock, ws_technique, ws_grace, ws_hand>>
  BY DEF cds_wfs_push, WfsFree, WfsResult, WfsGoto
<1>2. /\ ws_pc'[t] = "push_link" /\ ws_frame'[t].node = n /\ ws_frame'[t].next = ws_head
      /\ ws_next'[n] = WfsNull /\ \A m \in WfsNodes : m # n => ws_next'[m] = ws_next[m]
      /\ \A u \in WfsThreads : u # t =>
            ws_pc'[u] = ws_pc[u] /\ ws_frame'[u] = ws_frame[u] /\ ws_ret'[u] = ws_ret[u]
  BY <1>0, <1>1 DEF WfsTypeOK, WfsFrames
<1>3. n \notin Items(ws_lifo) /\ \A u \in WfsThreads : n \notin Items(ws_hand[u])
  BY DEF cds_wfs_push, WfsFree, WfsElements, Items
<1>4. Items(ws_lifo') = Items(ws_lifo) \cup {n} /\ ws_lifo \in Seq(WfsNodes)
  BY <1>0, <1>1, ConsItems DEF WfsTypeOK
<1>5. ASSUME NEW u \in WfsThreads, ws_pc[u] \in {"push_link", "sync_next", "cas_head"}
      PROVE  ws_frame[u].node # n
  BY <1>0, <1>1, <1>3, <1>5 DEF WfsLinkers, WfsLinking, WfsPlaced, WfsPoppers, WfsPopping
<1>e. ws_grace[n] = {} /\ UNCHANGED <<ws_lock, ws_technique, ws_grace, ws_hand>>
  BY <1>1
<1>6. WfsTypeOK'
  <2>1. ws_head \in WfsMaybe /\ n \in WfsMaybe /\ WfsNull \in WfsMaybe
    BY <1>0 DEF WfsTypeOK, WfsMaybe
  <2>2. ws_frame' \in [WfsThreads -> WfsFrames]
    BY <1>0, <1>1, <2>1 DEF WfsTypeOK, WfsFrames
  <2>3. ws_pc' \in [WfsThreads -> WfsPC] /\ ws_next' \in [WfsNodes -> WfsMaybe]
    BY <1>0, <1>1, <2>1 DEF WfsTypeOK, WfsPC
  <2>4. ws_lifo' \in Seq(WfsNodes)
    BY <1>1, <1>4, ConsFacts
  <2>5. ws_ret' = [u \in WfsThreads |-> ws_ret'[u]] /\ ws_head' \in WfsNodes \cup {WfsEnd}
    BY <1>0, <1>1 DEF WfsTypeOK
  <2> QED BY <1>0, <1>1, <2>2, <2>3, <2>4, <2>5 DEF WfsTypeOK
<1>7. WfsLinkers'
  <2>1. WfsLinking(t)'
    <3>1. ws_head \in WfsNodes \cup {WfsEnd} /\ WfsPlaced(n)'
      BY <1>0, <1>4 DEF WfsTypeOK, WfsPlaced
    <3> QED BY <1>2, <1>5, <3>1 DEF WfsLinking
  <2>2. ASSUME NEW u \in WfsThreads, u # t PROVE WfsLinking(u)'
    <3>1. WfsPlaced(ws_frame[u].node) => WfsPlaced(ws_frame[u].node)'
      BY <1>2, <1>4, <1>e, <2>2 DEF WfsPlaced
    <3>2. WfsLinking(u)
      BY <1>0 DEF WfsLinkers
    <3> QED BY <1>2, <1>5, <2>2, <3>1, <3>2 DEF WfsLinking
  <2> QED BY <2>1, <2>2 DEF WfsLinkers
<1>8. WfsChains'
  <2>1. PICK ahead \in [WfsNodes -> WfsMaybe] : WfsAhead(ahead) /\ WfsLinked(ahead)
    BY <1>0 DEF WfsChains
  <2>2. PICK new \in [WfsNodes -> WfsMaybe] :
           new[n] = ws_head /\ \A m \in WfsNodes : m # n => new[m] = ahead[m]
    <3>1. [ahead EXCEPT ![n] = ws_head] \in [WfsNodes -> WfsMaybe]
      BY <1>0 DEF WfsTypeOK, WfsMaybe
    <3> QED BY <3>1
  <2>3. WfsAhead(new)'
    <3> SUFFICES ASSUME NEW m \in WfsNodes
                 PROVE  \/ /\ \A u \in WfsThreads : ws_pc'[u] = "push_link" => ws_frame'[u].node # m
                           /\ new[m] = ws_next'[m]
                        \/ \E u \in WfsThreads : /\ ws_pc'[u] = "push_link" /\ ws_frame'[u].node = m
                                                 /\ new[m] = ws_frame'[u].next
      BY DEF WfsAhead
    <3>1. CASE m = n
      BY <1>2, <2>2, <3>1
    <3>2. CASE m # n
      <4>1. \/ /\ \A u \in WfsThreads : ws_pc[u] = "push_link" => ws_frame[u].node # m
               /\ ahead[m] = ws_next[m]
            \/ \E u \in WfsThreads : /\ ws_pc[u] = "push_link" /\ ws_frame[u].node = m
                                     /\ ahead[m] = ws_frame[u].next
        BY <2>1 DEF WfsAhead
      <4>2. new[m] = ahead[m] /\ ws_next'[m] = ws_next[m]
        BY <1>2, <2>2, <3>2
      <4>3. ASSUME NEW u \in WfsThreads
            PROVE  ws_pc'[u] = "push_link" /\ ws_frame'[u].node = m <=> ws_pc[u] = "push_link" /\ ws_frame[u].node = m
        BY <1>1, <1>2, <3>2
      <4>4. ASSUME NEW u \in WfsThreads, ws_pc[u] = "push_link" PROVE ws_frame'[u].next = ws_frame[u].next
        BY <1>1, <1>2, <4>4
      <4> QED BY <4>1, <4>2, <4>3, <4>4
    <3> QED BY <3>1, <3>2
  <2>4. ASSUME NEW s \in Seq(WfsNodes), n \notin Items(s), Chain(ahead, s, WfsEnd)
        PROVE  Chain(new, s, WfsEnd)
    <3>1. \A m \in Items(s) : new[m] = ahead[m]
      BY <2>2, <2>4, ItemsType
    <3> QED BY <2>4, <3>1, ChainKept
  <2>5. Chain(new, ws_lifo', WfsEnd)
    <3>1. Chain(new, ws_lifo, WfsEnd)
      BY <1>3, <1>4, <2>1, <2>4 DEF WfsLinked
    <3>2. new[n] = IF ws_lifo = << >> THEN WfsEnd ELSE ws_lifo[1]
      BY <1>0, <2>2 DEF WfsChains
    <3>3. Chain(new, <<n>> \o ws_lifo, WfsEnd)
      BY <1>3, <1>4, <3>1, <3>2, ChainCons
    <3> QED BY <1>1, <3>3
  <2>6. \A u \in WfsThreads : Chain(new, ws_hand'[u], WfsEnd)
    BY <1>0, <1>1, <1>3, <2>1, <2>4 DEF WfsLinked, WfsTypeOK
  <2>7. ws_head' = IF ws_lifo' = << >> THEN WfsEnd ELSE ws_lifo'[1]
    <3>1. <<n>> \o ws_lifo # << >> /\ (<<n>> \o ws_lifo)[1] = n
      BY <1>4, ConsFacts
    <3> QED BY <1>1, <3>1
  <2> QED BY <2>2, <2>3, <2>5, <2>6, <2>7 DEF WfsChains, WfsLinked
<1>9. WfsOnce'
  BY <1>0, <1>1, <1>3, <1>4 DEF WfsOnce, WfsTaken
<1>10. WfsPoppers'
  <2> SUFFICES ASSUME NEW u \in WfsThreads PROVE WfsPopping(u)'
    BY DEF WfsPoppers
  <2>1. CASE u = t
    BY <1>2, <2>1 DEF WfsPopping
  <2>2. CASE u # t
    <3>1. WfsPopping(u)
      BY <1>0 DEF WfsPoppers
    <3> QED BY <1>2, <1>4, <1>5, <1>e, <2>2, <3>1 DEF WfsPopping
  <2> QED BY <2>1, <2>2
<1>11. WfsConsumers'
  BY <1>0, <1>1, <1>2 DEF WfsConsumers, WfsConsuming
<1>12. WfsWalkers'
  <2> SUFFICES ASSUME NEW u \in WfsThreads PROVE WfsWalking(u)'
    BY DEF WfsWalkers
  <2>1. CASE u = t
    BY <1>0, <1>1, <1>2, <2>1 DEF WfsWalkers, WfsWalking
  <2>2. CASE u # t
    <3>0. ws_hand[u] \in Seq(WfsNodes) /\ n \notin Items(ws_hand[u])
      BY <1>0, <1>3 DEF WfsTypeOK
    <3>1. \A i \in 1 .. Len(ws_hand[u]) : ws_next'[ws_hand[u][i]] = ws_next[ws_hand[u][i]]
      BY <1>2, <3>0 DEF Items
    <3>2. \A i \in 1 .. Len(ws_frame[u].seen) - 1 :
             Len(ws_frame[u].seen) \in 1 .. Len(ws_hand[u]) => i \in 1 .. Len(ws_hand[u])
      BY <3>0
    <3>3. WfsWalking(u)
      BY <1>0 DEF WfsWalkers
    <3>4. /\ ws_pc'[u] = ws_pc[u] /\ ws_frame'[u] = ws_frame[u] /\ ws_ret'[u] = ws_ret[u]
          /\ ws_hand'[u] = ws_hand[u]
      BY <1>2, <1>e, <2>2
    <3>5. ws_pc[u] = "walk" => \A i \in 1 .. Len(ws_frame[u].seen) - 1 : ws_next'[ws_hand[u][i]] # WfsNull
      BY <3>1, <3>2, <3>3 DEF WfsWalking
    <3> QED BY <3>3, <3>4, <3>5 DEF WfsWalking
  <2> QED BY <2>1, <2>2
<1> QED BY <1>6, <1>7, <1>8, <1>9, <1>10, <1>11, <1>12 DEF WfsIInv

(* The push links its node.                                                *)
LEMMA WfsPushLinkKeeps ==
    ASSUME WfsIInv, NEW t \in WfsThreads, PushLink(t)
    PROVE  WfsIInv'
<1>0. WfsTypeOK /\ WfsLinkers /\ WfsChains /\ WfsOnce /\ WfsPoppers /\ WfsConsumers /\ WfsWalkers
  BY DEF WfsIInv
<1>1. PICK n \in WfsNodes :
        /\ ws_pc[t] = "push_link" /\ ws_frame[t].node = n
        /\ ws_frame[t].next \in WfsNodes \cup {WfsEnd} /\ ws_next[n] = WfsNull
        /\ \A u \in WfsThreads : u # t /\ ws_pc[u] = "push_link" => ws_frame[u].node # n
  BY <1>0 DEF PushLink, WfsLinkers, WfsLinking
<1>2. /\ ws_next' = [ws_next EXCEPT ![n] = ws_frame[t].next]
      /\ ws_pc' = [ws_pc EXCEPT ![t] = "return"]
      /\ UNCHANGED <<ws_head, ws_lock, ws_technique, ws_frame, ws_grace, ws_lifo, ws_hand, ws_ret>>
  BY <1>1 DEF PushLink, WfsGoto
<1>3. /\ ws_pc'[t] = "return" /\ \A u \in WfsThreads : u # t => ws_pc'[u] = ws_pc[u]
      /\ ws_next'[n] = ws_frame[t].next /\ ws_next'[n] # WfsNull
      /\ \A m \in WfsNodes : m # n => ws_next'[m] = ws_next[m]
  BY <1>0, <1>1, <1>2, WfstackAssumption DEF WfsTypeOK
<1>4. WfsTypeOK'
  <2>1. ws_next' \in [WfsNodes -> WfsMaybe] /\ ws_pc' \in [WfsThreads -> WfsPC]
    BY <1>0, <1>1, <1>2 DEF WfsTypeOK, WfsMaybe, WfsPC
  <2> QED BY <1>0, <1>2, <2>1 DEF WfsTypeOK
<1>5. WfsLinkers'
  BY <1>0, <1>1, <1>2, <1>3 DEF WfsLinkers, WfsLinking, WfsPlaced
<1>6. WfsChains'
  <2>1. PICK ahead \in [WfsNodes -> WfsMaybe] : WfsAhead(ahead) /\ WfsLinked(ahead)
    BY <1>0 DEF WfsChains
  <2>2. ASSUME NEW m \in WfsNodes
        PROVE  \/ /\ \A u \in WfsThreads : ws_pc'[u] = "push_link" => ws_frame'[u].node # m
                  /\ ahead[m] = ws_next'[m]
               \/ \E u \in WfsThreads : /\ ws_pc'[u] = "push_link" /\ ws_frame'[u].node = m
                                        /\ ahead[m] = ws_frame'[u].next
    <3>1. \/ /\ \A u \in WfsThreads : ws_pc[u] = "push_link" => ws_frame[u].node # m
             /\ ahead[m] = ws_next[m]
          \/ \E u \in WfsThreads : /\ ws_pc[u] = "push_link" /\ ws_frame[u].node = m
                                   /\ ahead[m] = ws_frame[u].next
      BY <2>1 DEF WfsAhead
    <3>2. CASE m = n
      BY <1>1, <1>2, <1>3, <3>1, <3>2
    <3>3. CASE m # n
      BY <1>1, <1>2, <1>3, <3>1, <3>3
    <3> QED BY <3>2, <3>3
  <2>3. WfsAhead(ahead)'
    BY <2>2 DEF WfsAhead
  <2>4. WfsLinked(ahead)' /\ ws_head' = IF ws_lifo' = << >> THEN WfsEnd ELSE ws_lifo'[1]
    BY <1>0, <1>2, <2>1 DEF WfsLinked, WfsChains
  <2> QED BY <2>3, <2>4 DEF WfsChains
<1>7. WfsOnce'
  BY <1>0, <1>2 DEF WfsOnce, WfsTaken
<1>8. WfsPoppers'
  BY <1>0, <1>1, <1>2, <1>3 DEF WfsPoppers, WfsPopping
<1>9. WfsConsumers'
  BY <1>0, <1>1, <1>2, <1>3 DEF WfsConsumers, WfsConsuming
<1>10. WfsWalkers'
  <2> SUFFICES ASSUME NEW u \in WfsThreads PROVE WfsWalking(u)'
    BY DEF WfsWalkers
  <2>1. CASE u = t
    BY <1>0, <1>1, <1>2, <1>3, <2>1 DEF WfsWalkers, WfsWalking
  <2>2. CASE u # t
    <3>1. \A i \in 1 .. Len(ws_hand[u]) :
             ws_next[ws_hand[u][i]] # WfsNull => ws_next'[ws_hand[u][i]] # WfsNull
      BY <1>0, <1>3 DEF WfsTypeOK
    <3>2. \A i \in 1 .. Len(ws_frame[u].seen) - 1 :
             Len(ws_frame[u].seen) \in 1 .. Len(ws_hand[u]) => i \in 1 .. Len(ws_hand[u])
      BY <1>0 DEF WfsTypeOK
    <3> QED BY <1>0, <1>2, <1>3, <2>2, <3>1, <3>2 DEF WfsWalkers, WfsWalking
  <2> QED BY <2>1, <2>2
<1> QED BY <1>4, <1>5, <1>6, <1>7, <1>8, <1>9, <1>10 DEF WfsIInv

(* A pop's compare-and-swap.                                               *)
LEMMA WfsCasHeadKeeps ==
    ASSUME WfsIInv, NEW t \in WfsThreads, CasHead(t)
    PROVE  WfsIInv'
<1>0. WfsTypeOK /\ WfsLinkers /\ WfsChains /\ WfsOnce /\ WfsPoppers /\ WfsConsumers /\ WfsWalkers
  BY DEF WfsIInv
<1>1. ws_pc[t] = "cas_head" /\ UNCHANGED <<ws_next, ws_lock, ws_technique, ws_frame, ws_hand>>
  BY DEF CasHead
<1>2. CASE /\ ws_pc' = [ws_pc EXCEPT ![t] = "load_head"]
           /\ UNCHANGED <<ws_head, ws_lifo, ws_grace, ws_ret>>
  <2>1. /\ ws_pc'[t] = "load_head" /\ \A u \in WfsThreads : u # t => ws_pc'[u] = ws_pc[u]
    BY <1>0, <1>2 DEF WfsTypeOK
  <2>2. WfsTypeOK'
    BY <1>0, <1>1, <1>2 DEF WfsTypeOK, WfsPC
  <2>3. WfsPopping(t)' /\ WfsConsuming(t)' /\ WfsWalking(t)'
    BY <1>0, <1>1, <1>2, <2>1
       DEF WfsPopping, WfsConsuming, WfsWalking, WfsWalkers, WfsConsumers
  <2> QED BY <1>1, <1>2, <2>1, <2>2, <2>3, WfsQuiet
<1>3. CASE /\ ws_pc' = [ws_pc EXCEPT ![t] = "pop_return"]
           /\ ws_ret' = [ws_ret EXCEPT ![t] = <<"interfered">>]
           /\ UNCHANGED <<ws_head, ws_lifo, ws_grace>>
  BY <1>1, <1>3, WfsGivesUp
<1>4. CASE /\ ws_head = ws_frame[t].node /\ ws_head' = ws_frame[t].next /\ ws_lifo' = Tail(ws_lifo)
           /\ ws_grace' = [ws_grace EXCEPT ![ws_frame[t].node] = PopSections]
           /\ ws_pc' = [ws_pc EXCEPT ![t] = "pop_return"]
           /\ ws_ret' = [ws_ret EXCEPT ![t] = <<"took", ws_frame[t].node, ws_frame[t].next = WfsEnd>>]
  <2>1. PICK n \in WfsNodes : n = ws_head /\ n = ws_frame[t].node
    BY <1>0, <1>1, <1>4 DEF WfsPoppers, WfsPopping
  <2>2. ws_lifo # << >> /\ n \in Items(ws_lifo) /\ n = ws_lifo[1] /\ ws_lifo \in Seq(WfsNodes)
    BY <1>0, <2>1, WfsHeadFacts, WfstackAssumption DEF WfsChains, WfsTypeOK
  <2>3. ws_head' = ws_next[n] /\ ws_next[n] # WfsNull
    BY <1>0, <1>1, <1>4, <2>1, <2>2 DEF WfsPoppers, WfsPopping
  <2>4. \A u \in WfsThreads : ws_pc[u] = "push_link" => ws_frame[u].node # n
    BY <1>0, <2>3 DEF WfsLinkers, WfsLinking
  <2>5. /\ ws_pc'[t] = "pop_return"
        /\ \A u \in WfsThreads : u # t => ws_pc'[u] = ws_pc[u] /\ ws_ret'[u] = ws_ret[u]
        /\ ws_grace'[n] = PopSections /\ \A m \in WfsNodes : m # n => ws_grace'[m] = ws_grace[m]
    BY <1>0, <1>4, <2>1 DEF WfsTypeOK
  <2>6. Items(ws_lifo) = Items(ws_lifo') \cup {n} /\ ws_lifo' \in Seq(WfsNodes)
    BY <1>4, <2>2, TailItems, TailFacts
  <2>7. PICK ahead : /\ ahead \in [WfsNodes -> WfsMaybe]
                     /\ WfsAhead(ahead) /\ WfsLinked(ahead)
    BY <1>0 DEF WfsChains
  <2>8. /\ Chain(ahead, ws_lifo', WfsEnd) /\ n \notin Items(ws_lifo')
        /\ ahead[n] = IF ws_lifo' = << >> THEN WfsEnd ELSE ws_lifo'[1]
    <3>1. Chain(ahead, ws_lifo, WfsEnd)
      BY <2>7 DEF WfsLinked
    <3>2. /\ ws_lifo \in Seq(WfsNodes) /\ ws_lifo # << >>
          /\ ws_lifo' = Tail(ws_lifo) /\ n = ws_lifo[1]
      BY <1>4, <2>2
    <3>3. Chain(ahead, ws_lifo', WfsEnd) /\ n \notin Items(ws_lifo')
      BY <3>1, <3>2, ChainTail
    <3>4. ahead[n] = IF 1 < Len(ws_lifo) THEN ws_lifo[2] ELSE WfsEnd
      <4>1. 1 \in 1 .. Len(ws_lifo)
        BY <3>2
      <4> QED BY <3>1, <3>2, <4>1 DEF Chain
    <3>5. /\ ws_lifo' = << >> <=> ~ (1 < Len(ws_lifo))
          /\ 1 < Len(ws_lifo) => ws_lifo'[1] = ws_lifo[2]
      <4>1. Len(ws_lifo') = Len(ws_lifo) - 1 /\ Len(ws_lifo) \in Nat \ {0}
        BY <3>2
      <4>2. ws_lifo' = << >> <=> Len(ws_lifo') = 0
        BY <2>6, EmptySeq
      <4>3. 1 < Len(ws_lifo) => ws_lifo'[1] = ws_lifo[2]
        BY <3>2
      <4> QED BY <4>1, <4>2, <4>3
    <3> QED BY <3>3, <3>4, <3>5
  <2>9. ws_head' = IF ws_lifo' = << >> THEN WfsEnd ELSE ws_lifo'[1]
    BY <2>3, <2>4, <2>7, <2>8 DEF WfsAhead
  <2>10. WfsTypeOK'
    <3>1. ws_head' \in WfsNodes \cup {WfsEnd}
      BY <2>6, <2>9
    <3>2. PopSections \subseteq WfsThreads
      BY DEF PopSections
    <3>3. ws_grace' \in [WfsNodes -> SUBSET WfsThreads]
      BY <1>0, <1>4, <3>2 DEF WfsTypeOK
    <3>4. ws_pc' \in [WfsThreads -> WfsPC] /\ ws_ret' = [u \in WfsThreads |-> ws_ret'[u]]
      BY <1>0, <1>4 DEF WfsTypeOK, WfsPC
    <3> QED BY <1>0, <1>1, <2>6, <3>1, <3>3, <3>4 DEF WfsTypeOK
  <2>11. WfsLinkers'
    <3> SUFFICES ASSUME NEW u \in WfsThreads, ws_pc'[u] = "push_link" PROVE WfsLinking(u)'
      BY DEF WfsLinkers, WfsLinking
    <3>1. u # t /\ ws_pc[u] = "push_link" /\ WfsLinking(u)
      BY <1>0, <2>5 DEF WfsLinkers
    <3>2. WfsPlaced(ws_frame[u].node)'
      BY <1>1, <2>4, <2>6, <3>1 DEF WfsLinking, WfsPlaced
    <3>3. \A v \in WfsThreads : ws_pc'[v] = "push_link" => ws_pc[v] = "push_link"
      BY <2>5
    <3> QED BY <1>1, <3>1, <3>2, <3>3 DEF WfsLinking
  <2>12. WfsChains'
    <3>1. WfsAhead(ahead)'
      <4>1. \A u \in WfsThreads : ws_pc'[u] = "push_link" <=> ws_pc[u] = "push_link"
        BY <1>1, <2>5
      <4> QED BY <1>1, <2>7, <4>1 DEF WfsAhead
    <3>2. WfsLinked(ahead)'
      BY <1>1, <2>7, <2>8 DEF WfsLinked
    <3> QED BY <2>7, <2>9, <3>1, <3>2 DEF WfsChains
  <2>13. WfsOnce'
    BY <1>0, <1>1, <2>6 DEF WfsOnce, WfsTaken
  <2>14. WfsPoppers'
    <3> SUFFICES ASSUME NEW u \in WfsThreads, ws_pc'[u] \in {"sync_next", "cas_head"}
                 PROVE  WfsPopping(u)'
      BY DEF WfsPoppers, WfsPopping
    <3>1. u # t /\ ws_pc'[u] = ws_pc[u]
      BY <2>5
    <3>2. WfsPopping(u)
      BY <1>0 DEF WfsPoppers
    <3>3. CASE ws_frame[u].node # n
      BY <1>1, <2>5, <2>6, <3>1, <3>2, <3>3 DEF WfsPopping
    <3>4. CASE ws_frame[u].node = n
      <4>1. ws_technique = "rcu"
        BY <1>0, <1>1, <3>1 DEF WfsConsumers, WfsConsuming, WfsTypeOK
      <4>2. u \in ws_grace'[n]
        BY <2>5, <3>1, <4>1 DEF PopSections
      <4> QED BY <1>1, <2>8, <3>4, <4>1, <4>2 DEF WfsPopping
    <3> QED BY <3>3, <3>4
  <2>15. WfsConsumers'
    BY <1>0, <1>1, <2>5 DEF WfsConsumers, WfsConsuming
  <2>16. WfsWalkers'
    BY <1>0, <1>1, <2>5 DEF WfsWalkers, WfsWalking
  <2> QED BY <2>10, <2>11, <2>12, <2>13, <2>14, <2>15, <2>16 DEF WfsIInv
<1> QED BY <1>2, <1>3, <1>4 DEF CasHead, WfsResult, WfsGoto

(* The exchange of ___cds_wfs_pop_all().                                   *)
LEMMA WfsPopAllKeeps ==
    ASSUME WfsIInv, NEW t \in WfsThreads, PopAll(t)
    PROVE  WfsIInv'
<1>0. WfsTypeOK /\ WfsLinkers /\ WfsChains /\ WfsOnce /\ WfsPoppers /\ WfsConsumers /\ WfsWalkers
  BY DEF WfsIInv
<1>1. /\ ws_pc[t] = "xchg_head" /\ UNCHANGED <<ws_next, ws_technique, ws_grace>>
      /\ ws_head' = WfsEnd /\ ws_lifo' = << >> /\ ws_hand' = [ws_hand EXCEPT ![t] = ws_lifo]
  BY DEF PopAll
<1>2. ws_hand[t] = << >> /\ ws_ret[t] = WfsNull
  BY <1>0, <1>1 DEF WfsWalkers, WfsWalking
<1>3. CASE /\ ws_head = WfsEnd /\ ws_pc' = [ws_pc EXCEPT ![t] = "return"]
           /\ ws_ret' = [ws_ret EXCEPT ![t] = <<"nothing">>] /\ UNCHANGED <<ws_frame, ws_lock>>
  <2>1. ws_lifo = << >> /\ ws_lifo' = ws_lifo /\ ws_head' = ws_head
    BY <1>0, <1>1, <1>3, WfsHeadFacts
  <2>2. ws_hand' = ws_hand
    BY <1>0, <1>1, <1>2, <2>1 DEF WfsTypeOK
  <2>3. /\ ws_pc'[t] = "return"
        /\ \A u \in WfsThreads : u # t => ws_pc'[u] = ws_pc[u] /\ ws_ret'[u] = ws_ret[u]
    BY <1>0, <1>3 DEF WfsTypeOK
  <2>4. WfsTypeOK'
    BY <1>0, <1>1, <1>3, <2>1, <2>2 DEF WfsTypeOK, WfsPC
  <2>5. WfsPopping(t)' /\ WfsConsuming(t)' /\ WfsWalking(t)'
    BY <1>2, <2>2, <2>3 DEF WfsPopping, WfsConsuming, WfsWalking
  <2> QED BY <1>1, <1>3, <2>1, <2>2, <2>3, <2>4, <2>5, WfsQuiet
<1>4. CASE /\ ws_head # WfsEnd /\ ws_pc' = [ws_pc EXCEPT ![t] = "walk"]
           /\ ws_frame' = [ws_frame EXCEPT ![t].node = ws_head, ![t].seen = <<ws_head>>]
           /\ ws_lock' = (IF ws_lock = t THEN WfsNull ELSE ws_lock) /\ ws_ret' = ws_ret
  <2>1. /\ ws_lifo # << >> /\ ws_head = ws_lifo[1] /\ ws_head \in WfsNodes
        /\ ws_lifo \in Seq(WfsNodes)
    BY <1>0, <1>4, WfsHeadFacts DEF WfsChains, WfsTypeOK
  <2>2. /\ ws_pc'[t] = "walk" /\ \A u \in WfsThreads : u # t => ws_pc'[u] = ws_pc[u]
        /\ ws_frame'[t].node = ws_head /\ ws_frame'[t].seen = <<ws_head>>
        /\ \A u \in WfsThreads : u # t => ws_frame'[u] = ws_frame[u]
    BY <1>0, <1>4 DEF WfsTypeOK, WfsFrames
  <2>3. ws_hand'[t] = ws_lifo /\ \A u \in WfsThreads : u # t => ws_hand'[u] = ws_hand[u]
    BY <1>0, <1>1 DEF WfsTypeOK
  <2>4. Items(ws_lifo') = {} /\ Items(ws_hand[t]) = {}
    BY <1>1, <1>2 DEF Items
  <2>5. WfsTypeOK'
    <3>1. <<ws_head>> \in Seq(WfsNodes) /\ ws_head \in WfsMaybe
      BY <2>1 DEF WfsMaybe
    <3>2. ws_frame' \in [WfsThreads -> WfsFrames]
      BY <1>0, <1>4, <3>1, WfsSetSeen
    <3>3. ws_pc' \in [WfsThreads -> WfsPC] /\ ws_lock' \in WfsThreads \cup {WfsNull}
      BY <1>0, <1>4 DEF WfsTypeOK, WfsPC
    <3>4. /\ ws_hand' \in [WfsThreads -> Seq(WfsNodes)] /\ ws_lifo' \in Seq(WfsNodes)
          /\ ws_head' \in WfsNodes \cup {WfsEnd}
      BY <1>0, <1>1, <2>1 DEF WfsTypeOK
    <3> QED BY <1>0, <1>1, <1>4, <3>2, <3>3, <3>4 DEF WfsTypeOK
  <2>6. ASSUME NEW n, WfsPlaced(n) PROVE \E u \in WfsThreads : n \in Items(ws_hand'[u])
    BY <2>3, <2>4, <2>6 DEF WfsPlaced
  <2>7. WfsLinkers'
    <3> SUFFICES ASSUME NEW u \in WfsThreads, ws_pc'[u] = "push_link" PROVE WfsLinking(u)'
      BY DEF WfsLinkers, WfsLinking
    <3>1. u # t /\ ws_pc[u] = "push_link" /\ WfsLinking(u) /\ ws_frame'[u] = ws_frame[u]
      BY <1>0, <2>2 DEF WfsLinkers
    <3>2. \E v \in WfsThreads : ws_frame[u].node \in Items(ws_hand'[v])
      BY <2>6, <3>1 DEF WfsLinking
    <3>3. \A v \in WfsThreads : ws_pc'[v] = "push_link" =>
             ws_pc[v] = "push_link" /\ ws_frame'[v] = ws_frame[v]
      BY <2>2
    <3>4. ws_next' = ws_next
      BY <1>1
    <3> QED BY <3>1, <3>2, <3>3, <3>4 DEF WfsLinking, WfsPlaced
  <2>8. WfsChains'
    <3>1. PICK ahead \in [WfsNodes -> WfsMaybe] : WfsAhead(ahead) /\ WfsLinked(ahead)
      BY <1>0 DEF WfsChains
    <3>2. WfsAhead(ahead)'
      <4>1. /\ \A u \in WfsThreads : ws_pc'[u] = "push_link" <=> ws_pc[u] = "push_link"
            /\ \A u \in WfsThreads : ws_pc[u] = "push_link" => ws_frame'[u] = ws_frame[u]
        BY <1>1, <2>2
      <4>2. ws_next' = ws_next
        BY <1>1
      <4> QED BY <3>1, <4>1, <4>2 DEF WfsAhead
    <3>3. WfsLinked(ahead)'
      <4>1. Chain(ahead, ws_lifo', WfsEnd)
        BY <1>1, ChainEmpty
      <4> QED BY <2>3, <3>1, <4>1 DEF WfsLinked
    <3> QED BY <1>1, <3>2, <3>3 DEF WfsChains
  <2>9. WfsOnce'
    <3> SUFFICES ASSUME NEW u \in WfsThreads, NEW n \in Items(ws_hand'[u]),
                        NEW v \in WfsThreads, v # u
                 PROVE  n \notin Items(ws_lifo') /\ n \notin Items(ws_hand'[v])
      BY <2>4 DEF WfsOnce, WfsTaken
    <3> QED BY <1>0, <2>3, <2>4 DEF WfsOnce, WfsTaken
  <2>10. WfsPoppers'
    <3> SUFFICES ASSUME NEW u \in WfsThreads, ws_pc'[u] \in {"sync_next", "cas_head"}
                 PROVE  WfsPopping(u)'
      BY DEF WfsPoppers, WfsPopping
    <3>1. u # t /\ ws_pc'[u] = ws_pc[u] /\ WfsPopping(u) /\ ws_frame'[u] = ws_frame[u]
      BY <1>0, <2>2 DEF WfsPoppers
    <3>2. ws_technique = "rcu"
      BY <1>0, <1>1, <3>1 DEF WfsConsumers, WfsConsuming, WfsTypeOK
    <3>3. UNCHANGED <<ws_next, ws_technique, ws_grace>>
      BY <1>1
    <3> QED BY <2>4, <2>6, <3>1, <3>2, <3>3 DEF WfsPopping, WfsPlaced
  <2>11. WfsConsumers'
    BY <1>0, <1>1, <1>4, <2>2 DEF WfsConsumers, WfsConsuming
  <2>12. WfsWalkers'
    <3> SUFFICES ASSUME NEW u \in WfsThreads PROVE WfsWalking(u)'
      BY DEF WfsWalkers
    <3>1. CASE u = t
      <4>1. Len(<<ws_head>>) = 1 /\ <<ws_head>>[1] = ws_head /\ 1 \in 1 .. Len(ws_lifo)
        BY <2>1
      <4>2. ws_ret'[t] = WfsNull /\ ws_pc'[t] = "walk" /\ ws_hand'[t] # << >>
        BY <1>2, <1>4, <2>1, <2>2, <2>3
      <4>3. /\ Len(ws_frame'[t].seen) = 1 /\ Len(ws_frame'[t].seen) \in 1 .. Len(ws_hand'[t])
            /\ ws_frame'[t].seen[1] = ws_hand'[t][1] /\ ws_frame'[t].node = ws_hand'[t][1]
        BY <2>1, <2>2, <2>3, <4>1
      <4>4. /\ \A i \in 1 .. Len(ws_frame'[t].seen) : i = 1
            /\ \A i \in 1 .. Len(ws_frame'[t].seen) - 1 : FALSE
        BY <4>3
      <4> QED BY <3>1, <4>2, <4>3, <4>4 DEF WfsWalking
    <3>2. CASE u # t
      <4>1. ws_next' = ws_next /\ ws_ret' = ws_ret /\ WfsWalking(u)
        BY <1>0, <1>1, <1>4 DEF WfsWalkers
      <4> QED BY <2>2, <2>3, <3>2, <4>1 DEF WfsWalking
    <3> QED BY <3>1, <3>2
  <2> QED BY <2>5, <2>7, <2>8, <2>9, <2>10, <2>11, <2>12 DEF WfsIInv
<1> QED BY <1>3, <1>4 DEF PopAll, WfsResult, WfsGoto

(* A walker that finds the end of the list has met all nodes, and all of   *)
(* them are linked.                                                        *)
LEMMA WfsWalked ==
    ASSUME WfsTypeOK, WfsLinkers, WfsChains, WfsWalkers, NEW t \in WfsThreads,
           ws_pc[t] = "walk", ws_next[ws_frame[t].node] = WfsEnd
    PROVE  /\ ws_frame[t].seen = ws_hand[t]
           /\ \A n \in Items(ws_hand[t]) : ws_next[n] # WfsNull
<1> DEFINE s == ws_frame[t].seen
           h == ws_hand[t]
<1>1. s \in Seq(WfsNodes) /\ h \in Seq(WfsNodes)
  BY DEF WfsTypeOK, WfsFrames
<1>2. /\ Len(s) \in 1 .. Len(h) /\ \A i \in 1 .. Len(s) : s[i] = h[i]
      /\ \A i \in 1 .. Len(s) - 1 : ws_next[h[i]] # WfsNull
      /\ ws_next[h[Len(s)]] = WfsEnd
  BY DEF WfsWalkers, WfsWalking
<1>3. PICK ahead \in [WfsNodes -> WfsMaybe] : WfsAhead(ahead) /\ Chain(ahead, h, WfsEnd)
  BY DEF WfsChains, WfsLinked
<1> HIDE DEF s, h
<1>4. h[Len(s)] \in WfsNodes
  BY <1>1, <1>2
<1>5. ahead[h[Len(s)]] = WfsEnd
  BY <1>2, <1>3, <1>4, WfstackAssumption DEF WfsAhead, WfsLinkers, WfsLinking
<1>6. Len(s) = Len(h)
  <2>1. ahead[h[Len(s)]] = IF Len(s) < Len(h) THEN h[Len(s) + 1] ELSE WfsEnd
    BY <1>2, <1>3 DEF Chain
  <2>2. Len(s) < Len(h) => h[Len(s) + 1] \in WfsNodes
    BY <1>1, <1>2
  <2> QED BY <1>1, <1>2, <1>5, <2>1, <2>2, WfstackAssumption
<1>7. s = h
  BY <1>1, <1>2, <1>6, SeqEqual
<1>8. ASSUME NEW n \in Items(h) PROVE ws_next[n] # WfsNull
  <2>1. PICK i \in 1 .. Len(h) : n = h[i]
    BY <1>1 DEF Items
  <2>2. CASE i = Len(s)
    BY <1>2, <2>1, <2>2, WfstackAssumption
  <2>3. CASE i # Len(s)
    <3>1. i \in 1 .. Len(s) - 1
      BY <1>1, <1>6, <2>3
    <3> QED BY <1>2, <2>1, <3>1
  <2> QED BY <2>2, <2>3
<1> QED BY <1>7, <1>8 DEF s, h

(* A step of the iteration over a popped list.                             *)
LEMMA WfsWalkKeeps ==
    ASSUME WfsIInv, NEW t \in WfsThreads, WalkPopped(t)
    PROVE  WfsIInv'
<1>0. WfsTypeOK /\ WfsLinkers /\ WfsChains /\ WfsOnce /\ WfsPoppers /\ WfsConsumers /\ WfsWalkers
  BY DEF WfsIInv
<1>1. ws_pc[t] = "walk" /\ UNCHANGED <<ws_head, ws_next, ws_lock, ws_technique, ws_lifo>>
  BY DEF WalkPopped
<1> DEFINE next == ws_next[ws_frame[t].node]
           h == ws_hand[t]
           s == ws_frame[t].seen
<1>2. CASE /\ next # WfsNull /\ next # WfsEnd
           /\ ws_frame' = [ws_frame EXCEPT ![t].node = next, ![t].seen = Append(s, next)]
           /\ UNCHANGED <<ws_hand, ws_grace, ws_pc, ws_ret>>
  <2>1. /\ h # << >> /\ Len(s) \in 1 .. Len(h) /\ \A i \in 1 .. Len(s) : s[i] = h[i]
        /\ \A i \in 1 .. Len(s) - 1 : ws_next[h[i]] # WfsNull
        /\ ws_frame[t].node = h[Len(s)] /\ ws_ret[t] = WfsNull
    BY <1>0, <1>1 DEF WfsWalkers, WfsWalking
  <2>2. s \in Seq(WfsNodes) /\ h \in Seq(WfsNodes) /\ h[Len(s)] \in WfsNodes
    BY <1>0, <2>1 DEF WfsTypeOK, WfsFrames
  <2>3. Len(s) < Len(h) /\ next = h[Len(s) + 1] /\ next \in WfsNodes
    <3>1. PICK ahead \in [WfsNodes -> WfsMaybe] : WfsAhead(ahead) /\ Chain(ahead, h, WfsEnd)
      BY <1>0 DEF WfsChains, WfsLinked
    <3>2. ahead[h[Len(s)]] = next
      BY <1>0, <1>2, <2>1, <2>2, <3>1 DEF WfsAhead, WfsLinkers, WfsLinking
    <3>3. next = IF Len(s) < Len(h) THEN h[Len(s) + 1] ELSE WfsEnd
      BY <2>1, <3>1, <3>2 DEF Chain
    <3>4. Len(s) < Len(h) /\ next = h[Len(s) + 1]
      BY <1>2, <3>3
    <3>5. Len(s) + 1 \in 1 .. Len(h)
      BY <2>1, <2>2, <3>4
    <3> QED BY <2>2, <3>4, <3>5
  <2>4. /\ ws_frame'[t].node = next /\ ws_frame'[t].seen = Append(s, next)
        /\ \A u \in WfsThreads : u # t => ws_frame'[u] = ws_frame[u]
    BY <1>0, <1>2 DEF WfsTypeOK, WfsFrames
  <2>5. WfsTypeOK'
    <3>1. Append(s, next) \in Seq(WfsNodes) /\ next \in WfsMaybe
      BY <2>2, <2>3 DEF WfsMaybe
    <3>2. ws_frame' \in [WfsThreads -> WfsFrames]
      <4> HIDE DEF s, next
      <4> QED BY <1>0, <1>2, <3>1, WfsSetSeen
    <3> QED BY <1>0, <1>1, <1>2, <3>2 DEF WfsTypeOK
  <2>6. WfsWalking(t)'
    <3> DEFINE s2 == Append(s, next)
    <3> HIDE DEF s, h, next
    <3>1. /\ Len(s2) = Len(s) + 1 /\ s2[Len(s) + 1] = next /\ \A i \in 1 .. Len(s) : s2[i] = s[i]
      BY <2>2, <2>3
    <3> HIDE DEF s2
    <3>2. Len(s2) \in 1 .. Len(h) /\ next = h[Len(s2)] /\ Len(s) \in Nat
      BY <2>2, <2>1, <2>3, <3>1
    <3>3. ASSUME NEW i \in 1 .. Len(s2) PROVE s2[i] = h[i]
      <4>1. CASE i = Len(s) + 1
        BY <2>3, <3>1, <4>1
      <4>2. CASE i # Len(s) + 1
        <5>1. i \in 1 .. Len(s)
          BY <3>1, <3>2, <4>2
        <5> QED BY <2>1, <3>1, <5>1
      <4> QED BY <4>1, <4>2
    <3>4. ASSUME NEW i \in 1 .. Len(s2) - 1 PROVE ws_next[h[i]] # WfsNull
      <4>1. CASE i = Len(s)
        BY <1>2, <2>1, <4>1 DEF next
      <4>2. CASE i # Len(s)
        <5>1. i \in 1 .. Len(s) - 1
          BY <3>1, <3>2, <4>2
        <5> QED BY <2>1, <5>1
      <4> QED BY <4>1, <4>2
    <3>5. /\ ws_frame'[t].seen = s2 /\ ws_frame'[t].node = next /\ ws_hand'[t] = h /\ ws_next' = ws_next
          /\ ws_pc'[t] = "walk" /\ ws_ret'[t] = WfsNull /\ h # << >>
      BY <1>1, <1>2, <2>1, <2>4 DEF s2, h
    <3> QED BY <3>2, <3>3, <3>4, <3>5 DEF WfsWalking
  <2>7. WfsPopping(t)' /\ WfsConsuming(t)'
    BY <1>1, <1>2 DEF WfsPopping, WfsConsuming
  <2> QED BY <1>1, <1>2, <2>4, <2>5, <2>6, <2>7, WfsQuiet
<1>3. CASE /\ next = WfsEnd /\ ws_hand' = [ws_hand EXCEPT ![t] = << >>]
           /\ ws_grace' = [n \in WfsNodes |->
                 IF n \in WfsElements(h) THEN PopSections ELSE ws_grace[n]]
           /\ ws_pc' = [ws_pc EXCEPT ![t] = "return"]
           /\ ws_ret' = [ws_ret EXCEPT ![t] = <<"walked">> \o s] /\ ws_frame' = ws_frame
  <2>1. \A n \in Items(h) : ws_next[n] # WfsNull
    BY <1>0, <1>1, <1>3, WfsWalked
  <2>2. /\ ws_pc'[t] = "return" /\ ws_hand'[t] = << >>
        /\ \A u \in WfsThreads : u # t =>
              ws_pc'[u] = ws_pc[u] /\ ws_hand'[u] = ws_hand[u] /\ ws_ret'[u] = ws_ret[u]
    BY <1>0, <1>3 DEF WfsTypeOK
  <2>3. \A n \in WfsNodes : ws_grace'[n] = IF n \in Items(h) THEN PopSections ELSE ws_grace[n]
    BY <1>3 DEF WfsElements, Items
  <2>4. Items(ws_hand'[t]) = {}
    BY <2>2 DEF Items
  <2>5. WfsTypeOK'
    <3>1. PopSections \subseteq WfsThreads
      BY DEF PopSections
    <3>2. ws_grace' \in [WfsNodes -> SUBSET WfsThreads]
      BY <1>0, <1>3, <3>1 DEF WfsTypeOK
    <3>3. ws_pc' \in [WfsThreads -> WfsPC] /\ ws_hand' \in [WfsThreads -> Seq(WfsNodes)]
      BY <1>0, <1>3 DEF WfsTypeOK, WfsPC
    <3>4. ws_ret' = [u \in WfsThreads |-> ws_ret'[u]]
      BY <1>0, <1>3 DEF WfsTypeOK
    <3> QED BY <1>0, <1>1, <1>3, <3>2, <3>3, <3>4 DEF WfsTypeOK
  <2>6. WfsLinkers'
    <3> SUFFICES ASSUME NEW u \in WfsThreads, ws_pc'[u] = "push_link" PROVE WfsLinking(u)'
      BY DEF WfsLinkers, WfsLinking
    <3>1. u # t /\ ws_pc[u] = "push_link" /\ WfsLinking(u) /\ ws_frame' = ws_frame
      BY <1>0, <1>3, <2>2 DEF WfsLinkers
    <3>2. ws_frame[u].node \notin Items(h)
      BY <2>1, <3>1 DEF WfsLinking
    <3>3. WfsPlaced(ws_frame[u].node)'
      BY <1>1, <2>2, <3>1, <3>2 DEF WfsLinking, WfsPlaced
    <3>4. \A v \in WfsThreads : ws_pc'[v] = "push_link" => ws_pc[v] = "push_link"
      BY <2>2
    <3> QED BY <1>1, <3>1, <3>3, <3>4 DEF WfsLinking
  <2>7. WfsChains'
    <3>1. PICK ahead \in [WfsNodes -> WfsMaybe] : WfsAhead(ahead) /\ WfsLinked(ahead)
      BY <1>0 DEF WfsChains
    <3>2. WfsAhead(ahead)'
      <4>1. \A u \in WfsThreads : ws_pc'[u] = "push_link" <=> ws_pc[u] = "push_link"
        BY <1>1, <2>2
      <4>2. ws_frame' = ws_frame
        BY <1>3
      <4> QED BY <1>1, <3>1, <4>1, <4>2 DEF WfsAhead
    <3>3. WfsLinked(ahead)'
      <4>1. Chain(ahead, ws_hand'[t], WfsEnd)
        BY <2>2, ChainEmpty
      <4> QED BY <1>1, <2>2, <3>1, <4>1 DEF WfsLinked
    <3> QED BY <1>0, <1>1, <3>2, <3>3 DEF WfsChains
  <2>8. WfsOnce'
    BY <1>0, <1>1, <2>2, <2>4 DEF WfsOnce, WfsTaken
  <2>9. WfsPoppers'
    <3> SUFFICES ASSUME NEW u \in WfsThreads, ws_pc'[u] \in {"sync_next", "cas_head"}
                 PROVE  WfsPopping(u)'
      BY DEF WfsPoppers, WfsPopping
    <3>1. u # t /\ ws_pc'[u] = ws_pc[u] /\ WfsPopping(u) /\ ws_frame' = ws_frame
      BY <1>0, <1>3, <2>2 DEF WfsPoppers
    <3>2. CASE ws_frame[u].node \notin Items(h)
      BY <1>1, <2>2, <2>3, <3>1, <3>2 DEF WfsPopping
    <3>3. CASE ws_frame[u].node \in Items(h)
      <4>1. ws_frame[u].node \in WfsNodes /\ ws_frame[u].node \notin Items(ws_lifo)
        BY <1>0, <3>1, <3>3 DEF WfsPopping, WfsOnce, WfsTaken
      <4>2. ws_technique = "rcu"
        BY <3>1, <4>1 DEF WfsPopping
      <4>3. u \in ws_grace'[ws_frame[u].node]
        BY <2>3, <3>1, <3>3, <4>1, <4>2 DEF PopSections
      <4> QED BY <1>1, <3>1, <4>1, <4>2, <4>3 DEF WfsPopping
    <3> QED BY <3>2, <3>3
  <2>10. WfsConsumers'
    BY <1>0, <1>1, <2>2 DEF WfsConsumers, WfsConsuming
  <2>11. WfsWalkers'
    <3>1. ws_next' = ws_next /\ ws_frame' = ws_frame
      BY <1>1, <1>3
    <3> QED BY <1>0, <2>2, <3>1 DEF WfsWalkers, WfsWalking
  <2> QED BY <2>5, <2>6, <2>7, <2>8, <2>9, <2>10, <2>11 DEF WfsIInv
<1> QED BY <1>2, <1>3 DEF WalkPopped, WfsResult, WfsGoto

(* Every step keeps the invariant.                                         *)
LEMMA WfsPreserves ==
    ASSUME WfsIInv, [WfstackNext]_wfsvars
    PROVE  WfsIInv'
<1>1. CASE UNCHANGED wfsvars
  <2>1. WfsTypeOK'
    BY <1>1 DEF wfsvars, WfsIInv, WfsTypeOK
  <2>2. WfsLinkers' /\ WfsOnce'
    BY <1>1 DEF wfsvars, WfsIInv, WfsLinkers, WfsLinking, WfsPlaced, WfsOnce, WfsTaken
  <2>3. WfsChains'
    BY <1>1 DEF wfsvars, WfsIInv, WfsChains, WfsAhead, WfsLinked
  <2>4. WfsPoppers' /\ WfsConsumers'
    BY <1>1 DEF wfsvars, WfsIInv, WfsPoppers, WfsPopping, WfsConsumers, WfsConsuming
  <2>5. WfsWalkers'
    BY <1>1 DEF wfsvars, WfsIInv, WfsWalkers, WfsWalking
  <2> QED BY <2>1, <2>2, <2>3, <2>4, <2>5 DEF WfsIInv
<1>2. ASSUME NEW t \in WfsThreads, WfsStep(t) PROVE WfsIInv'
  <2>1. ASSUME NEW n \in WfsNodes, cds_wfs_push(t, n) PROVE WfsIInv'
    BY <2>1, WfsPushKeeps
  <2>2. ASSUME NEW b \in BOOLEAN, cds_wfs_pop(t, b) PROVE WfsIInv'
    BY <2>2, WfsConsumeKeeps DEF cds_wfs_pop
  <2>3. CASE cds_wfs_pop_all(t)
    BY <2>3, WfsConsumeKeeps DEF cds_wfs_pop_all
  <2> QED
    BY <1>2, <2>1, <2>2, <2>3, WfsEmptyKeeps, WfsPushLinkKeeps, WfsReturnKeeps, WfsLoadHeadKeeps,
       WfsSyncNextKeeps, WfsCasHeadKeeps, WfsPopAllKeeps, WfsWalkKeeps DEF WfsStep
<1> QED BY <1>1, <1>2 DEF WfstackNext

(* The initial state satisfies the invariant.                              *)
LEMMA WfsInitIInv == WfstackInit => WfsIInv
<1> SUFFICES ASSUME WfstackInit PROVE WfsIInv
  OBVIOUS
<1>1. /\ << >> \in Seq(WfsNodes) /\ WfsNull \in WfsMaybe /\ "idle" \in WfsPC
      /\ WfsNoFrame \in WfsFrames
  BY DEF WfsMaybe, WfsPC, WfsFrames, WfsNoFrame
<1>2. WfsTypeOK
  BY <1>1, WfstackAssumption DEF WfstackInit, WfsTypeOK
<1>3. Items(<< >>) = {} /\ \A next : Chain(next, << >>, WfsEnd)
  BY ChainEmpty
<1>4. WfsChains
  <2>1. WfsAhead(ws_next) /\ ws_next \in [WfsNodes -> WfsMaybe]
    BY <1>1 DEF WfstackInit, WfsAhead
  <2>2. WfsLinked(ws_next)
    BY <1>3 DEF WfstackInit, WfsLinked
  <2> QED BY <2>1, <2>2 DEF WfstackInit, WfsChains
<1>5. WfsLinkers /\ WfsOnce /\ WfsPoppers /\ WfsConsumers
  BY <1>3 DEF WfstackInit, WfsLinkers, WfsLinking, WfsOnce, WfsTaken, WfsPoppers, WfsPopping,
     WfsConsumers, WfsConsuming
<1>6. WfsWalkers
  BY DEF WfstackInit, WfsWalkers, WfsWalking
<1> QED BY <1>2, <1>4, <1>5, <1>6 DEF WfsIInv

(* A step that changes neither the sequences nor the answers is invisible. *)
LEMMA WfsInvisible ==
    ASSUME ws_lifo' = ws_lifo, ws_hand' = ws_hand, ws_ret' = ws_ret
    PROVE  UNCHANGED LifoStack!vars
BY DEF LifoStack!vars

(* A thread that has not answered yet may do so.                           *)
LEMMA WfsAnswered ==
    ASSUME NEW t \in WfsThreads, WfsTypeOK, WfsWalkers, NEW r,
           ws_pc[t] \notin {"return", "pop_return", "push_link"},
           ws_ret' = [ws_ret EXCEPT ![t] = r]
    PROVE  /\ LifoStack!Answer(t, r) /\ ws_ret[t] = WfsNull /\ ws_ret'[t] = r
           /\ r = WfsNull => ws_ret' = ws_ret
<1>1. ws_ret[t] = WfsNull
  BY DEF WfsWalkers, WfsWalking
<1>2. ws_ret'[t] = r
  BY DEF WfsTypeOK
<1>3. r = WfsNull => ws_ret' = ws_ret
  BY <1>1 DEF WfsTypeOK
<1> QED BY <1>1, <1>2, <1>3 DEF LifoStack!Answer

(* cds_wfs_empty() and calls on an empty stack see the stack as it is.     *)
LEMMA WfsLooks ==
    ASSUME NEW t \in WfsThreads, WfsTypeOK, WfsChains, WfsWalkers,
           ws_pc[t] \notin {"return", "pop_return", "push_link"}, UNCHANGED <<ws_lifo, ws_hand>>,
           \/ ws_head = WfsEnd /\ ws_ret' = [ws_ret EXCEPT ![t] = <<"nothing">>]
           \/ ws_head # WfsEnd /\ ws_ret' = [ws_ret EXCEPT ![t] = <<"something">>]
           \/ ws_ret' = [ws_ret EXCEPT ![t] = <<"interfered">>]
    PROVE  [LifoStack!Next]_(LifoStack!vars)
<1>1. ws_head = WfsEnd <=> ws_lifo = << >>
  BY WfsHeadFacts
<1>2. CASE ws_ret' = ws_ret
  BY <1>2, WfsInvisible
<1>3. CASE ws_ret' # ws_ret
  <2>1. ws_ret'[t] # ws_ret[t]
    BY <1>3, WfsAnswered
  <2>2. LifoStack!Moves(t)
    BY <2>1 DEF LifoStack!Moves
  <2>3. \/ LifoStack!Nothing(t, WfsStack) \/ LifoStack!Something(t, WfsStack)
        \/ LifoStack!Interfered(t)
    BY <1>1, WfsAnswered DEF LifoStack!Nothing, LifoStack!Something, LifoStack!Interfered
  <2> QED BY <2>2, <2>3 DEF LifoStack!Next
<1> QED BY <1>2, <1>3

(* The exchange of cds_wfs_push() puts the node on the stack and reports   *)
(* whether the stack was empty.                                            *)
LEMMA WfsPuts ==
    ASSUME NEW t \in WfsThreads, NEW n \in WfsNodes, WfsTypeOK, WfsChains, WfsWalkers,
           cds_wfs_push(t, n)
    PROVE  LifoStack!Next
<1>1. /\ ws_pc[t] = "idle" /\ ws_lifo' = <<n>> \o ws_lifo /\ ws_hand' = ws_hand
      /\ ws_ret' = [ws_ret EXCEPT ![t] = <<"put", ws_head # WfsEnd>>]
  BY DEF cds_wfs_push, WfsResult
<1>2. (ws_head # WfsEnd) = (ws_lifo # << >>)
  BY WfsHeadFacts
<1>3. ws_ret' = [ws_ret EXCEPT ![t] = <<"put", ws_lifo # << >>>>]
  BY <1>1, <1>2
<1>4. /\ \A i \in DOMAIN ws_lifo : ws_lifo[i] # n
      /\ \A u \in WfsThreads : \A i \in DOMAIN ws_hand[u] : ws_hand[u][i] # n
  BY DEF cds_wfs_push, WfsFree, WfsElements
<1>5. /\ LifoStack!Answer(t, <<"put", ws_lifo # << >>>>) /\ ws_ret[t] = WfsNull
      /\ ws_ret'[t] = <<"put", ws_lifo # << >>>>
  BY <1>1, <1>3, WfsAnswered
<1>6. LifoStack!Moves(t)
  <2>1. (ws_lifo # << >>) \in BOOLEAN
    OBVIOUS
  <2>2. <<"put", ws_lifo # << >>>> # WfsNull
    BY <2>1, WfstackAssumption
  <2> QED BY <1>5, <2>2 DEF LifoStack!Moves
<1>7. LifoStack!Put(t, WfsStack, n)
  BY <1>1, <1>4, <1>5 DEF LifoStack!Put, LifoStack!Added
<1> QED BY <1>6, <1>7 DEF LifoStack!Next

(* A successful compare-and-swap of the head takes the first node, and     *)
(* tells rightly whether it was the last.                                  *)
LEMMA WfsTakes ==
    ASSUME NEW t \in WfsThreads, WfsIInv, CasHead(t), ws_head = ws_frame[t].node
    PROVE  LifoStack!Next
<1>0. WfsTypeOK /\ WfsLinkers /\ WfsChains /\ WfsPoppers /\ WfsWalkers
  BY DEF WfsIInv
<1>1. /\ ws_pc[t] = "cas_head" /\ ws_lifo' = Tail(ws_lifo) /\ ws_hand' = ws_hand
      /\ ws_ret' = [ws_ret EXCEPT ![t] = <<"took", ws_head, ws_frame[t].next = WfsEnd>>]
  BY DEF CasHead, WfsResult
<1>2. ws_head \in WfsNodes
  BY <1>0, <1>1 DEF WfsPoppers, WfsPopping
<1>3. /\ ws_lifo # << >> /\ ws_head = Head(ws_lifo) /\ ws_head \in Items(ws_lifo)
      /\ ws_head = ws_lifo[1] /\ ws_lifo \in Seq(WfsNodes)
  BY <1>0, <1>2, WfsHeadFacts, WfstackAssumption DEF WfsChains, WfsTypeOK
<1>4. ws_frame[t].next = ws_next[ws_head] /\ ws_next[ws_head] # WfsNull
  BY <1>0, <1>1, <1>3 DEF WfsPoppers, WfsPopping
<1>5. ws_frame[t].next = WfsEnd <=> Len(ws_lifo) = 1
  <2>1. PICK ahead \in [WfsNodes -> WfsMaybe] : WfsAhead(ahead) /\ Chain(ahead, ws_lifo, WfsEnd)
    BY <1>0 DEF WfsChains, WfsLinked
  <2>2. ahead[ws_head] = ws_next[ws_head]
    BY <1>0, <1>2, <1>4, <2>1 DEF WfsAhead, WfsLinkers, WfsLinking
  <2>3. 1 \in 1 .. Len(ws_lifo) /\ (1 < Len(ws_lifo) => ws_lifo[2] \in WfsNodes)
    BY <1>3
  <2>4. ahead[ws_lifo[1]] = IF 1 < Len(ws_lifo) THEN ws_lifo[2] ELSE WfsEnd
    BY <2>1, <2>3 DEF Chain
  <2>5. ahead[ws_lifo[1]] = WfsEnd <=> Len(ws_lifo) = 1
    <3>1. Len(ws_lifo) = 1 \/ 1 < Len(ws_lifo)
      <4>1. Len(ws_lifo) \in Nat /\ Len(ws_lifo) # 0
        BY <1>3, EmptySeq, LenProperties
      <4>2. \A k \in Nat : k # 0 => k = 1 \/ 1 < k
        OBVIOUS
      <4> QED BY <4>1, <4>2, Zenon
    <3>2. CASE Len(ws_lifo) = 1
      BY <2>4, <3>2
    <3>3. CASE Len(ws_lifo) # 1
      <4>1. 1 < Len(ws_lifo)
        BY <3>1, <3>3
      <4>2. WfsEnd \notin WfsNodes
        BY WfstackAssumption
      <4>3. ws_lifo[2] \in WfsNodes
        BY <2>3, <4>1
      <4> QED BY <2>4, <3>3, <4>1, <4>2, <4>3
    <3> QED BY <3>2, <3>3
  <2>6. ws_frame[t].next = ahead[ws_lifo[1]]
    BY <1>3, <1>4, <2>2
  <2> QED BY <2>5, <2>6
<1>6. ws_ret' = [ws_ret EXCEPT ![t] = <<"took", Head(ws_lifo), Len(ws_lifo) = 1>>]
  <2>1. (ws_frame[t].next = WfsEnd) = (Len(ws_lifo) = 1)
    BY <1>5
  <2> QED BY <1>1, <1>3, <2>1
<1>7. /\ LifoStack!Answer(t, <<"took", Head(ws_lifo), Len(ws_lifo) = 1>>) /\ ws_ret[t] = WfsNull
      /\ ws_ret'[t] = <<"took", Head(ws_lifo), Len(ws_lifo) = 1>>
  <2>1. ws_pc[t] \notin {"return", "pop_return", "push_link"}
    BY <1>1
  <2> QED BY <1>0, <1>6, <2>1, WfsAnswered
<1>8. LifoStack!Moves(t)
  <2>1. (Len(ws_lifo) = 1) \in BOOLEAN /\ Head(ws_lifo) \in WfsNodes
    BY <1>2, <1>3
  <2>2. <<"took", Head(ws_lifo), Len(ws_lifo) = 1>> # WfsNull
    BY <2>1, WfstackAssumption
  <2> QED BY <1>7, <2>2 DEF LifoStack!Moves
<1>9. LifoStack!Take(t, WfsStack)
  BY <1>1, <1>3, <1>7 DEF LifoStack!Take
<1> QED BY <1>8, <1>9 DEF LifoStack!Next

(* The exchange of cds_wfs_pop_all() takes the whole stack.                *)
LEMMA WfsTakesAll ==
    ASSUME NEW t \in WfsThreads, WfsTypeOK, WfsChains, WfsWalkers, PopAll(t), ws_head # WfsEnd
    PROVE  LifoStack!Next
<1>1. /\ ws_pc[t] = "xchg_head" /\ ws_lifo' = << >>
      /\ ws_hand' = [ws_hand EXCEPT ![t] = ws_lifo] /\ ws_ret' = ws_ret
  BY DEF PopAll
<1>2. ws_lifo # << >>
  BY WfsHeadFacts
<1>3. ws_hand[t] = << >> /\ ws_ret[t] = WfsNull
  BY <1>1 DEF WfsWalkers, WfsWalking
<1>4. LifoStack!Moves(t)
  BY <1>1, <1>2, <1>3 DEF LifoStack!Moves, WfsTypeOK
<1>5. LifoStack!TakeAll(t, WfsStack)
  BY <1>1, <1>2, <1>3 DEF LifoStack!TakeAll
<1> QED BY <1>4, <1>5 DEF LifoStack!Next

(* The iteration over what was taken ends with all of it, in order.        *)
LEMMA WfsWalks ==
    ASSUME NEW t \in WfsThreads, WfsTypeOK, WfsLinkers, WfsChains, WfsWalkers,
           WalkPopped(t), ws_next[ws_frame[t].node] = WfsEnd
    PROVE  LifoStack!Next
<1>1. /\ ws_pc[t] = "walk" /\ ws_lifo' = ws_lifo /\ ws_hand' = [ws_hand EXCEPT ![t] = << >>]
      /\ ws_ret' = [ws_ret EXCEPT ![t] = <<"walked">> \o ws_frame[t].seen]
  BY DEF WalkPopped, WfsResult
<1>2. ws_hand[t] # << >> /\ ws_frame[t].seen = ws_hand[t]
  BY <1>1, WfsWalked DEF WfsWalkers, WfsWalking
<1>3. ws_ret' = [ws_ret EXCEPT ![t] = <<"walked">> \o ws_hand[t]]
  BY <1>1, <1>2
<1>4. LifoStack!Moves(t)
  BY <1>1, <1>2 DEF LifoStack!Moves, WfsTypeOK
<1>5. LifoStack!Answer(t, <<"walked">> \o ws_hand[t])
  BY <1>1, <1>3, WfsAnswered
<1>6. LifoStack!WalkHand(t)
  BY <1>1, <1>2, <1>5 DEF LifoStack!WalkHand
<1> QED BY <1>4, <1>6 DEF LifoStack!Next

(* A call returns what it answered.                                        *)
LEMMA WfsReturns ==
    ASSUME NEW t \in WfsThreads, WfsTypeOK, WfsReturn(t)
    PROVE  [LifoStack!Next]_(LifoStack!vars)
<1>1. /\ ws_lifo' = ws_lifo /\ ws_hand' = ws_hand
      /\ ws_ret' = [ws_ret EXCEPT ![t] = WfsNull]
  BY DEF WfsReturn, WfsResult
<1>2. CASE ws_ret[t] = WfsNull
  <2>1. ws_ret' = ws_ret
    BY <1>1, <1>2 DEF WfsTypeOK
  <2> QED BY <1>1, <2>1, WfsInvisible
<1>3. CASE ws_ret[t] # WfsNull
  <2>1. LifoStack!Moves(t)
    BY <1>1, <1>3 DEF LifoStack!Moves, WfsTypeOK
  <2>2. LifoStack!Return(t)
    BY <1>1, <1>3 DEF LifoStack!Return
  <2> QED BY <2>1, <2>2 DEF LifoStack!Next
<1> QED BY <1>2, <1>3

(* Every step of wfstack is a step of the container, or invisible.         *)
LEMMA WfsStepRefines ==
    ASSUME WfsIInv, [WfstackNext]_wfsvars
    PROVE  [LifoStack!Next]_(LifoStack!vars)
<1>0. WfsTypeOK /\ WfsLinkers /\ WfsChains /\ WfsWalkers
  BY DEF WfsIInv
<1>1. CASE UNCHANGED wfsvars
  BY <1>1, WfsInvisible DEF wfsvars
<1>2. ASSUME NEW t \in WfsThreads, WfsStep(t) PROVE [LifoStack!Next]_(LifoStack!vars)
  <2>1. ASSUME NEW n \in WfsNodes, cds_wfs_push(t, n) PROVE LifoStack!Next
    BY <1>0, <2>1, WfsPuts
  <2>2. ASSUME NEW b \in BOOLEAN, cds_wfs_pop(t, b) PROVE UNCHANGED LifoStack!vars
    BY <2>2, WfsInvisible DEF cds_wfs_pop, Consume
  <2>3. CASE cds_wfs_pop_all(t)
    BY <2>3, WfsInvisible DEF cds_wfs_pop_all, Consume
  <2>4. CASE cds_wfs_empty(t)
    BY <1>0, <2>4, WfsLooks DEF cds_wfs_empty, WfsResult
  <2>5. CASE PushLink(t)
    BY <2>5, WfsInvisible DEF PushLink
  <2>6. CASE WfsReturn(t)
    BY <1>0, <2>6, WfsReturns
  <2>7. CASE LoadHead(t)
    <3>1. CASE ws_head = WfsEnd
      BY <1>0, <2>7, <3>1, WfsLooks DEF LoadHead, WfsResult
    <3>2. CASE ws_head # WfsEnd
      BY <2>7, <3>2, WfsInvisible DEF LoadHead
    <3> QED BY <3>1, <3>2
  <2>8. CASE WfsSyncNext(t)
    <3>1. CASE ws_ret' = ws_ret
      BY <2>8, <3>1, WfsInvisible DEF WfsSyncNext
    <3>2. CASE ws_ret' # ws_ret
      BY <1>0, <2>8, <3>2, WfsLooks DEF WfsSyncNext, WfsResult
    <3> QED BY <3>1, <3>2
  <2>9. CASE CasHead(t)
    <3>1. CASE ws_head = ws_frame[t].node
      BY <2>9, <3>1, WfsTakes
    <3>2. CASE ws_head # ws_frame[t].node /\ ws_ret' = ws_ret
      BY <2>9, <3>2, WfsInvisible DEF CasHead
    <3>3. CASE ws_head # ws_frame[t].node /\ ws_ret' # ws_ret
      BY <1>0, <2>9, <3>3, WfsLooks DEF CasHead, WfsResult
    <3> QED BY <3>1, <3>2, <3>3
  <2>10. CASE PopAll(t)
    <3>1. CASE ws_head = WfsEnd
      <4>1. ws_lifo = << >> /\ ws_hand[t] = << >>
        BY <1>0, <2>10, <3>1, WfsHeadFacts DEF PopAll, WfsWalkers, WfsWalking
      <4>2. ws_lifo' = ws_lifo /\ ws_hand' = ws_hand
        BY <1>0, <2>10, <4>1 DEF PopAll, WfsTypeOK
      <4>3. ws_pc[t] = "xchg_head" /\ ws_ret' = [ws_ret EXCEPT ![t] = <<"nothing">>]
        BY <2>10, <3>1 DEF PopAll, WfsResult
      <4> QED BY <1>0, <3>1, <4>2, <4>3, WfsLooks
    <3>2. CASE ws_head # WfsEnd
      BY <1>0, <2>10, <3>2, WfsTakesAll
    <3> QED BY <3>1, <3>2
  <2>11. CASE WalkPopped(t)
    <3>1. CASE ws_next[ws_frame[t].node] = WfsEnd
      BY <1>0, <2>11, <3>1, WfsWalks
    <3>2. CASE ws_next[ws_frame[t].node] # WfsEnd
      BY <2>11, <3>2, WfsInvisible DEF WalkPopped
    <3> QED BY <3>1, <3>2
  <2> QED BY <1>2, <2>1, <2>2, <2>3, <2>4, <2>5, <2>6, <2>7, <2>8, <2>9, <2>10, <2>11 DEF WfsStep
<1> QED BY <1>1, <1>2 DEF WfstackNext

(* The invariant holds at all times.                                       *)
LEMMA WfsIInvHolds == WfstackSpec => []WfsIInv
<1>1. WfsIInv /\ [WfstackNext]_wfsvars => WfsIInv'
  BY WfsPreserves
<1> QED BY WfsInitIInv, <1>1, PTL DEF WfstackSpec

(* wfstack is linearisable to a stack under each technique that wfstack.h  *)
(* documents, although a push links its node only after it is on the       *)
(* stack: no node is lost or popped twice, pop_all returns the whole       *)
(* stack, also nodes that are not linked yet, and CDS_WFS_STATE_LAST is    *)
(* reported exactly for the last node.                                     *)
THEOREM WfstackRefinement == WfstackSpec => WfsImplementsLifo
<1>1. WfstackInit => LifoStack!Init
  BY DEF WfstackInit, LifoStack!Init
<1>2. WfsIInv /\ [WfstackNext]_wfsvars => [LifoStack!Next]_(LifoStack!vars)
  BY WfsStepRefines
<1> QED BY <1>1, <1>2, WfsIInvHolds, PTL DEF WfstackSpec, WfsImplementsLifo, LifoStack!Spec

-----------------------------------------------------------------------------
(* wfcqueue: the inductive invariant.                                      *)

(* The nodes and the heads, whose next pointers make the queues.           *)
WfcqCells == WfcqNodes \cup Queues
WfcqMaybe == WfcqNodes \cup {NoNode}

(* Where a thread is, and its local variables.                             *)
WfcqPC == {"idle", "link", "return", "empty_head", "empty_tail", "sync_head",
           "load_next", "reset_head", "cas_tail", "sync_next", "restore_head",
           "advance", "iter_next", "iter_tail", "iter_sync", "take_head",
           "test_tail", "take_tail", "append"}
WfcqFrames == [op : {"none", "dequeue", "iterate", "empty", "splice"},
               blocking : BOOLEAN, q : Queues \cup {NoNode},
               dest : Queues \cup {NoNode}, node : WfcqCells \cup {NoNode},
               next : WfcqMaybe, seen : Seq(WfcqNodes)]

(* Every variable has its type.                                            *)
WfcqTypeOK ==
    /\ wq_next \in [WfcqCells -> WfcqMaybe]
    /\ wq_tail \in [Queues -> WfcqCells]
    /\ wq_lock \in [Queues -> WfcqThreads \cup {NoNode}]
    /\ wq_use \in WfcqUses
    /\ wq_pc \in [WfcqThreads -> WfcqPC]
    /\ wq_frame \in [WfcqThreads -> WfcqFrames]
    /\ wq_fifo \in [Queues -> Seq(WfcqNodes)]
    /\ wq_hand \in [WfcqThreads -> Seq(WfcqNodes)]
    /\ wq_ret = [t \in WfcqThreads |-> wq_ret[t]]

(* The first and the last cell of a list of nodes that starts at a head.   *)
WfcqFirst(s) == IF s = << >> THEN NoNode ELSE s[1]
WfcqLast(q, s) == IF s = << >> THEN q ELSE s[Len(s)]

(* Where each cell points once those that exchanged a tail have linked     *)
(* their nodes and those that reset a head have restored or moved it.      *)
(* These pointers link the nodes of every queue and of every spliced list. *)
WfcqAhead(ahead) ==
    /\ \A m \in WfcqCells : wq_next[m] # NoNode => ahead[m] = wq_next[m]
    /\ \A t \in WfcqThreads :
          wq_pc[t] = "link" => ahead[wq_frame[t].node] = wq_frame[t].next
WfcqLinked(ahead) ==
    /\ \A q \in Queues :
          Chain(ahead, wq_fifo[q], NoNode) /\ ahead[q] = WfcqFirst(wq_fifo[q])
    /\ \A t \in WfcqThreads : Chain(ahead, wq_hand[t], NoNode)
WfcqChains ==
    /\ \E ahead \in [WfcqCells -> WfcqMaybe] : WfcqAhead(ahead) /\ WfcqLinked(ahead)
    /\ \A q \in Queues : wq_tail[q] = WfcqLast(q, wq_fifo[q])

(* A node is in one place.                                                 *)
WfcqOnce ==
    /\ \A p, q \in Queues : p # q => Items(wq_fifo[p]) \cap Items(wq_fifo[q]) = {}
    /\ \A t \in WfcqThreads, q \in Queues : Items(wq_hand[t]) \cap Items(wq_fifo[q]) = {}
    /\ \A t, u \in WfcqThreads : t # u => Items(wq_hand[t]) \cap Items(wq_hand[u]) = {}

(* The cell that is still to be linked is not free, has no next pointer    *)
(* yet, and is one thread's to link.                                       *)
WfcqPlaced(m) ==
    \/ m \in Queues
    \/ \E q \in Queues : m \in Items(wq_fifo[q])
    \/ \E u \in WfcqThreads : m \in Items(wq_hand[u])
WfcqLinking(t) ==
    wq_pc[t] = "link" =>
        /\ wq_frame[t].node \in WfcqCells /\ wq_frame[t].next \in WfcqNodes
        /\ WfcqPlaced(wq_frame[t].node) /\ wq_next[wq_frame[t].node] = NoNode
        /\ \A u \in WfcqThreads :
              u # t /\ wq_pc[u] = "link" => wq_frame[u].node # wq_frame[t].node
WfcqLinkers == \A t \in WfcqThreads : WfcqLinking(t)

(* Consumers exclude each other, except splices of a queue that is only    *)
(* spliced.                                                                *)
WfcqDequeue == {"load_next", "reset_head", "cas_tail", "sync_next", "restore_head",
                "advance"}
WfcqIterate == {"iter_next", "iter_tail", "iter_sync"}
WfcqSplice == {"take_head", "test_tail", "take_tail"}
WfcqConsume == {"empty_head", "empty_tail", "sync_head"} \cup WfcqDequeue \cup WfcqIterate
                  \cup WfcqSplice
WfcqConsuming(t) ==
    LET f == wq_frame[t] IN
    /\ wq_pc[t] \in WfcqConsume =>
          /\ f.q \in Queues
          /\ f.op \in {"dequeue", "iterate"} =>
                wq_use.queues[f.q] = "locked" /\ wq_lock[f.q] = t
          /\ f.op = "splice" =>
                /\ f.dest \in Queues
                /\ \/ wq_use.queues[f.q] = "splice"
                   \/ wq_use.queues[f.q] = "locked" /\ wq_lock[f.q] = t
          /\ f.op # "none"
    /\ wq_pc[t] = "sync_head" => f.op \in {"dequeue", "iterate"}
    /\ wq_pc[t] \in WfcqDequeue => f.op = "dequeue"
    /\ wq_pc[t] \in WfcqIterate => f.op = "iterate"
    /\ wq_pc[t] \in WfcqSplice => f.op = "splice"
WfcqConsumers == \A t \in WfcqThreads : WfcqConsuming(t)

(* What a consumer knows of its queue: the node it dequeues is the first   *)
(* one, and nobody else changes the head that it has reset.                *)
WfcqReset == {"cas_tail", "sync_next", "restore_head", "take_tail"}
WfcqHolding(t) ==
    LET f == wq_frame[t] IN
    /\ wq_pc[t] \in {"sync_head", "take_tail"} \cup WfcqDequeue => wq_fifo[f.q] # << >>
    /\ wq_pc[t] \in WfcqDequeue => f.node = wq_fifo[f.q][1]
    /\ wq_pc[t] \in {"load_next", "reset_head"} => wq_next[f.q] = f.node
    /\ wq_pc[t] \in WfcqReset => wq_next[f.q] = NoNode
    /\ wq_pc[t] \in WfcqReset \cup {"advance"} =>
          \A u \in WfcqThreads : wq_pc[u] = "link" => wq_frame[u].node # f.q
    /\ wq_pc[t] = "advance" => f.next = wq_next[f.node] /\ f.next # NoNode
    /\ wq_pc[t] = "take_tail" =>
          /\ f.next = wq_fifo[f.q][1]
          /\ \A u \in WfcqThreads :
                u # t /\ wq_pc[u] = "take_tail" => wq_frame[u].q # f.q
WfcqHolders == \A t \in WfcqThreads : WfcqHolding(t)

(* An iteration has visited the first nodes of the queue, in order; what a *)
(* splice took from its source goes to its destination.                    *)
WfcqWalking(t) ==
    LET f == wq_frame[t] IN
    /\ wq_pc[t] \in WfcqIterate =>
          /\ Len(f.seen) \in 1 .. Len(wq_fifo[f.q])
          /\ \A i \in 1 .. Len(f.seen) : f.seen[i] = wq_fifo[f.q][i]
          /\ f.node = wq_fifo[f.q][Len(f.seen)]
    /\ wq_hand[t] # << >> <=> wq_pc[t] = "append"
    /\ wq_pc[t] = "append" =>
          /\ f.dest \in Queues /\ f.next = wq_hand[t][1]
          /\ f.node = wq_hand[t][Len(wq_hand[t])]
    /\ wq_pc[t] \notin {"link", "return"} => wq_ret[t] = NoNode
WfcqWalkers == \A t \in WfcqThreads : WfcqWalking(t)

(* The inductive invariant of wfcqueue.                                    *)
WfcqIInv ==
    /\ WfcqTypeOK /\ WfcqChains /\ WfcqOnce /\ WfcqLinkers /\ WfcqConsumers
    /\ WfcqHolders /\ WfcqWalkers

(* A step of t that changes neither pointers nor queues and is no part of  *)
(* an append: only what is said of t itself has to be checked.             *)
LEMMA WfcqQuiet ==
    ASSUME WfcqIInv, NEW t \in WfcqThreads, WfcqTypeOK',
           UNCHANGED <<wq_next, wq_tail, wq_use, wq_fifo, wq_hand>>,
           wq_pc[t] # "link", wq_pc'[t] \notin {"link", "take_tail"},
           \A u \in WfcqThreads : u # t =>
              /\ wq_pc'[u] = wq_pc[u] /\ wq_frame'[u] = wq_frame[u] /\ wq_ret'[u] = wq_ret[u]
              /\ \A q \in Queues : wq_lock[q] = u => wq_lock'[q] = u,
           WfcqConsuming(t)', WfcqHolding(t)', WfcqWalking(t)'
    PROVE  WfcqIInv'
<1>0. /\ WfcqTypeOK /\ WfcqChains /\ WfcqOnce /\ WfcqLinkers /\ WfcqConsumers /\ WfcqHolders
      /\ WfcqWalkers
  BY DEF WfcqIInv
<1>1. WfcqLinkers'
  BY <1>0 DEF WfcqLinkers, WfcqLinking, WfcqPlaced
<1>2. WfcqChains'
  <2>1. PICK ahead \in [WfcqCells -> WfcqMaybe] : WfcqAhead(ahead) /\ WfcqLinked(ahead)
    BY <1>0 DEF WfcqChains
  <2>2. WfcqAhead(ahead)'
    BY <2>1 DEF WfcqAhead
  <2>3. WfcqLinked(ahead)'
    BY <2>1 DEF WfcqLinked
  <2>4. \A q \in Queues : wq_tail'[q] = WfcqLast(q, wq_fifo'[q])
    BY <1>0 DEF WfcqChains
  <2> QED BY <2>1, <2>2, <2>3, <2>4 DEF WfcqChains
<1>3. WfcqOnce'
  BY <1>0 DEF WfcqOnce
<1>4. ASSUME NEW u \in WfcqThreads, u # t
      PROVE  WfcqConsuming(u)' /\ WfcqHolding(u)' /\ WfcqWalking(u)'
  <2>1. WfcqConsuming(u)'
    BY <1>0, <1>4 DEF WfcqConsumers, WfcqConsuming
  <2>2. WfcqHolding(u)'
    BY <1>0, <1>4 DEF WfcqHolders, WfcqHolding
  <2>3. WfcqWalking(u)'
    BY <1>0, <1>4 DEF WfcqWalkers, WfcqWalking
  <2> QED BY <2>1, <2>2, <2>3
<1> QED BY <1>1, <1>2, <1>3, <1>4 DEF WfcqIInv, WfcqConsumers, WfcqHolders, WfcqWalkers

(* A consumer, or cds_wfcq_empty(), starts.                                *)
LEMMA WfcqCallKeeps ==
    ASSUME WfcqIInv, NEW t \in WfcqThreads, NEW q \in Queues,
           NEW dest \in Queues \cup {NoNode}, NEW b \in BOOLEAN,
           NEW op \in {"dequeue", "iterate", "empty", "splice"},
           op = "splice" => dest \in Queues, ConsumerCall(t, q, dest, op, b)
    PROVE  WfcqIInv'
<1>0. WfcqTypeOK /\ WfcqWalkers
  BY DEF WfcqIInv
<1>1. /\ wq_pc[t] = "idle" /\ wq_pc' = [wq_pc EXCEPT ![t] = "empty_head"]
      /\ wq_lock' = IF TakesLock(q, op) THEN [wq_lock EXCEPT ![q] = t] ELSE wq_lock
      /\ UNCHANGED <<wq_next, wq_tail, wq_use, wq_fifo, wq_hand, wq_ret>>
  BY DEF ConsumerCall, Goto
<1>2. MayConsume(t, q, op)
  BY DEF ConsumerCall
<1>3. PICK f \in WfcqFrames : f.q = q /\ f.op = op /\ f.dest = dest
                              /\ wq_frame' = [wq_frame EXCEPT ![t] = f]
  <2>1. NoFrame \in WfcqFrames
    BY EmptySeq DEF NoFrame, WfcqFrames, WfcqMaybe
  <2>2. \A f \in WfcqFrames : LET g == [f EXCEPT !.op = op, !.blocking = b, !.q = q, !.dest = dest]
                              IN  g \in WfcqFrames /\ g.q = q /\ g.op = op /\ g.dest = dest
    BY DEF WfcqFrames
  <2> QED BY <2>1, <2>2 DEF ConsumerCall
<1>4. /\ wq_pc'[t] = "empty_head" /\ wq_frame'[t].q = q /\ wq_frame'[t].op = op
      /\ wq_frame'[t].dest = dest
      /\ \A u \in WfcqThreads : u # t => wq_pc'[u] = wq_pc[u] /\ wq_frame'[u] = wq_frame[u]
  BY <1>0, <1>1, <1>3 DEF WfcqTypeOK
<1>5. WfcqTypeOK'
  <2>1. wq_frame' \in [WfcqThreads -> WfcqFrames]
    BY <1>0, <1>3 DEF WfcqTypeOK
  <2>2. wq_pc' \in [WfcqThreads -> WfcqPC]
    BY <1>0, <1>1 DEF WfcqTypeOK, WfcqPC
  <2>3. wq_lock' \in [Queues -> WfcqThreads \cup {NoNode}]
    BY <1>0, <1>1 DEF WfcqTypeOK
  <2> QED BY <1>0, <1>1, <2>1, <2>2, <2>3 DEF WfcqTypeOK
<1>6. /\ TakesLock(q, op) => wq_lock[q] = NoNode /\ wq_lock'[q] = t
      /\ \A p \in Queues : p # q => wq_lock'[p] = wq_lock[p]
      /\ ~ TakesLock(q, op) => wq_lock' = wq_lock
  BY <1>0, <1>1, <1>2 DEF WfcqTypeOK, TakesLock, MayConsume
<1>7. WfcqConsuming(t)'
  BY <1>1, <1>2, <1>4, <1>6
     DEF WfcqConsuming, MayConsume, TakesLock, WfcqDequeue, WfcqIterate, WfcqSplice
<1>8. WfcqHolding(t)' /\ WfcqWalking(t)'
  BY <1>0, <1>1, <1>4
     DEF WfcqHolding, WfcqWalking, WfcqWalkers, WfcqDequeue, WfcqIterate, WfcqReset
<1>9. \A u \in WfcqThreads, p \in Queues : u # t /\ wq_lock[p] = u => wq_lock'[p] = u
  BY <1>6, WfcqueueAssumption
<1> QED BY <1>1, <1>4, <1>5, <1>7, <1>8, <1>9, WfcqQuiet

(* A call returns.                                                         *)
LEMMA WfcqReturnKeeps ==
    ASSUME WfcqIInv, NEW t \in WfcqThreads, WfcqReturn(t)
    PROVE  WfcqIInv'
<1>0. WfcqTypeOK /\ WfcqWalkers
  BY DEF WfcqIInv
<1>1. /\ wq_pc[t] = "return" /\ wq_pc' = [wq_pc EXCEPT ![t] = "idle"]
      /\ wq_lock' = [q \in Queues |-> IF wq_lock[q] = t THEN NoNode ELSE wq_lock[q]]
      /\ wq_ret' = [wq_ret EXCEPT ![t] = NoNode]
      /\ UNCHANGED <<wq_next, wq_tail, wq_use, wq_fifo, wq_hand>>
  BY DEF WfcqReturn, Result, Goto
<1>2. wq_frame' = [wq_frame EXCEPT ![t] = NoFrame]
  BY DEF WfcqReturn
<1>3. /\ wq_pc'[t] = "idle" /\ wq_ret'[t] = NoNode
      /\ \A u \in WfcqThreads : u # t => /\ wq_pc'[u] = wq_pc[u] /\ wq_frame'[u] = wq_frame[u]
                                         /\ wq_ret'[u] = wq_ret[u]
  BY <1>0, <1>1, <1>2 DEF WfcqTypeOK
<1>4. WfcqTypeOK'
  <2>1. wq_frame' \in [WfcqThreads -> WfcqFrames]
    BY <1>0, <1>2 DEF WfcqTypeOK, WfcqFrames, WfcqMaybe, NoFrame
  <2>2. wq_pc' \in [WfcqThreads -> WfcqPC] /\ wq_ret' = [u \in WfcqThreads |-> wq_ret'[u]]
    BY <1>0, <1>1 DEF WfcqTypeOK, WfcqPC
  <2>3. wq_lock' \in [Queues -> WfcqThreads \cup {NoNode}]
    BY <1>0, <1>1 DEF WfcqTypeOK
  <2> QED BY <1>0, <1>1, <2>1, <2>2, <2>3 DEF WfcqTypeOK
<1>5. WfcqConsuming(t)' /\ WfcqHolding(t)' /\ WfcqWalking(t)'
  BY <1>0, <1>1, <1>3 DEF WfcqConsuming, WfcqHolding, WfcqWalking, WfcqWalkers, WfcqConsume,
     WfcqDequeue, WfcqIterate, WfcqSplice, WfcqReset
<1>6. \A u \in WfcqThreads, p \in Queues : u # t /\ wq_lock[p] = u => wq_lock'[p] = u
  BY <1>1
<1> QED BY <1>1, <1>3, <1>4, <1>5, <1>6, WfcqQuiet

(* A call of t has its result; nothing else changes.                       *)
LEMMA WfcqAnswerKeeps ==
    ASSUME WfcqIInv, NEW t \in WfcqThreads, NEW r, wq_pc[t] \notin {"link", "append"},
           wq_pc' = [wq_pc EXCEPT ![t] = "return"], wq_ret' = [wq_ret EXCEPT ![t] = r],
           UNCHANGED <<wq_next, wq_tail, wq_lock, wq_use, wq_frame, wq_fifo, wq_hand>>
    PROVE  WfcqIInv'
<1>0. WfcqTypeOK /\ WfcqWalkers
  BY DEF WfcqIInv
<1>1. /\ wq_pc'[t] = "return"
      /\ \A u \in WfcqThreads : u # t => wq_pc'[u] = wq_pc[u] /\ wq_ret'[u] = wq_ret[u]
  BY <1>0 DEF WfcqTypeOK
<1>2. WfcqTypeOK'
  BY <1>0 DEF WfcqTypeOK, WfcqPC
<1>3. WfcqConsuming(t)' /\ WfcqHolding(t)' /\ WfcqWalking(t)'
  BY <1>0, <1>1 DEF WfcqConsuming, WfcqHolding, WfcqWalking, WfcqWalkers, WfcqConsume,
     WfcqDequeue, WfcqIterate, WfcqSplice, WfcqReset
<1> QED BY <1>1, <1>2, <1>3, WfcqQuiet

(* A step of t to l that only moves t.                                     *)
LEMMA WfcqMoveKeeps ==
    ASSUME WfcqIInv, NEW t \in WfcqThreads, NEW l \in WfcqPC \ {"link", "take_tail"},
           wq_pc[t] # "link", wq_pc' = [wq_pc EXCEPT ![t] = l],
           UNCHANGED <<wq_next, wq_tail, wq_lock, wq_use, wq_frame, wq_fifo, wq_hand, wq_ret>>,
           WfcqConsuming(t)', WfcqHolding(t)', WfcqWalking(t)'
    PROVE  WfcqIInv'
<1>0. WfcqTypeOK
  BY DEF WfcqIInv
<1>1. wq_pc'[t] = l /\ \A u \in WfcqThreads : u # t => wq_pc'[u] = wq_pc[u]
  BY <1>0 DEF WfcqTypeOK
<1>2. WfcqTypeOK'
  BY <1>0 DEF WfcqTypeOK
<1> QED BY <1>1, <1>2, WfcqQuiet

(* Where the head points, once it points.                                  *)
LEMMA WfcqHeadFacts ==
    ASSUME WfcqIInv, NEW q \in Queues
    PROVE  /\ wq_fifo[q] \in Seq(WfcqNodes) /\ Len(wq_fifo[q]) \in Nat
           /\ wq_next[q] # NoNode => wq_fifo[q] # << >> /\ wq_next[q] = wq_fifo[q][1]
<1>1. wq_fifo[q] \in Seq(WfcqNodes) /\ Len(wq_fifo[q]) \in Nat
  BY LenProperties DEF WfcqIInv, WfcqTypeOK
<1>2. PICK ahead \in [WfcqCells -> WfcqMaybe] : WfcqAhead(ahead) /\ WfcqLinked(ahead)
  BY DEF WfcqIInv, WfcqChains
<1>3. wq_next[q] # NoNode => WfcqFirst(wq_fifo[q]) = wq_next[q]
  BY <1>2 DEF WfcqAhead, WfcqLinked, WfcqCells
<1> QED BY <1>1, <1>3 DEF WfcqFirst

(* Where a queued node points, once it points.                             *)
LEMMA WfcqNextFacts ==
    ASSUME WfcqIInv, NEW q \in Queues, NEW i \in 1 .. Len(wq_fifo[q])
    PROVE  /\ wq_fifo[q][i] \in WfcqNodes
           /\ wq_next[wq_fifo[q][i]] # NoNode =>
                 i < Len(wq_fifo[q]) /\ wq_next[wq_fifo[q][i]] = wq_fifo[q][i + 1]
<1>1. wq_fifo[q] \in Seq(WfcqNodes) /\ Len(wq_fifo[q]) \in Nat
  BY WfcqHeadFacts
<1>2. wq_fifo[q][i] \in WfcqNodes
  BY <1>1
<1>3. PICK ahead \in [WfcqCells -> WfcqMaybe] : WfcqAhead(ahead) /\ WfcqLinked(ahead)
  BY DEF WfcqIInv, WfcqChains
<1>4. wq_next[wq_fifo[q][i]] # NoNode => ahead[wq_fifo[q][i]] = wq_next[wq_fifo[q][i]]
  BY <1>2, <1>3 DEF WfcqAhead, WfcqCells
<1>5. ahead[wq_fifo[q][i]] = IF i < Len(wq_fifo[q]) THEN wq_fifo[q][i + 1] ELSE NoNode
  BY <1>3 DEF WfcqLinked, Chain
<1> QED BY <1>2, <1>4, <1>5

(* Where the tail is.                                                      *)
LEMMA WfcqTailFacts ==
    ASSUME WfcqIInv, NEW q \in Queues
    PROVE  /\ wq_tail[q] = q <=> wq_fifo[q] = << >>
           /\ wq_fifo[q] # << >> =>
                 /\ Len(wq_fifo[q]) \in Nat \ {0} /\ wq_tail[q] = wq_fifo[q][Len(wq_fifo[q])]
                 /\ \A i \in 1 .. Len(wq_fifo[q]) :
                       wq_tail[q] = wq_fifo[q][i] => i = Len(wq_fifo[q])
<1>1. wq_fifo[q] \in Seq(WfcqNodes) /\ Len(wq_fifo[q]) \in Nat
  BY WfcqHeadFacts
<1>2. wq_tail[q] = WfcqLast(q, wq_fifo[q])
  BY DEF WfcqIInv, WfcqChains
<1>3. wq_fifo[q] # << >> => Len(wq_fifo[q]) \in Nat \ {0} /\ wq_fifo[q][Len(wq_fifo[q])] \in WfcqNodes
  BY <1>1, EmptySeq
<1>4. PICK ahead \in [WfcqCells -> WfcqMaybe] : WfcqLinked(ahead)
  BY DEF WfcqIInv, WfcqChains
<1>5. \A i, j \in 1 .. Len(wq_fifo[q]) : wq_fifo[q][i] = wq_fifo[q][j] => i = j
  BY <1>4 DEF WfcqLinked, Chain
<1>6. wq_fifo[q] # << >> => Len(wq_fifo[q]) \in 1 .. Len(wq_fifo[q])
  BY <1>3
<1>7. wq_fifo[q] # << >> => wq_tail[q] = wq_fifo[q][Len(wq_fifo[q])] /\ wq_tail[q] # q
  BY <1>2, <1>3, WfcqueueAssumption DEF WfcqLast
<1>8. wq_fifo[q] = << >> => wq_tail[q] = q
  BY <1>2 DEF WfcqLast
<1> QED BY <1>3, <1>5, <1>6, <1>7, <1>8

(* A thread sets local variables of its call.                              *)
LEMMA WfcqSetSeen ==
    ASSUME WfcqTypeOK, NEW t \in WfcqThreads, NEW n \in WfcqCells \cup {NoNode},
           NEW s \in Seq(WfcqNodes),
           wq_frame' = [wq_frame EXCEPT ![t].node = n, ![t].seen = s]
    PROVE  /\ wq_frame' \in [WfcqThreads -> WfcqFrames]
           /\ \A u \in WfcqThreads : u # t => wq_frame'[u] = wq_frame[u]
           /\ wq_frame'[t].node = n /\ wq_frame'[t].seen = s
           /\ wq_frame'[t].q = wq_frame[t].q /\ wq_frame'[t].op = wq_frame[t].op
           /\ wq_frame'[t].dest = wq_frame[t].dest /\ wq_frame'[t].next = wq_frame[t].next
<1> DEFINE r == [wq_frame[t] EXCEPT !.node = n, !.seen = s]
<1>1. wq_frame' = [wq_frame EXCEPT ![t] = r] /\ wq_frame \in [WfcqThreads -> WfcqFrames]
  BY DEF WfcqTypeOK
<1>2. /\ r \in WfcqFrames /\ r.node = n /\ r.seen = s
      /\ r.q = wq_frame[t].q /\ r.op = wq_frame[t].op /\ r.dest = wq_frame[t].dest /\ r.next = wq_frame[t].next
  <2>1. PICK y \in WfcqFrames : y = wq_frame[t]
    BY <1>1
  <2>2. r = [y EXCEPT !.node = n, !.seen = s]
    BY <2>1
  <2> HIDE DEF r
  <2>3. r \in WfcqFrames
    BY <2>2 DEF WfcqFrames
  <2> QED BY <2>1, <2>2, <2>3 DEF WfcqFrames
<1> HIDE DEF r
<1> QED BY <1>1, <1>2

(* A thread sets the next pointer it has read.                             *)
LEMMA WfcqSetNext ==
    ASSUME WfcqTypeOK, NEW t \in WfcqThreads, NEW n \in WfcqMaybe,
           wq_frame' = [wq_frame EXCEPT ![t].next = n]
    PROVE  /\ wq_frame' \in [WfcqThreads -> WfcqFrames]
           /\ \A u \in WfcqThreads : u # t => wq_frame'[u] = wq_frame[u]
           /\ wq_frame'[t].node = wq_frame[t].node /\ wq_frame'[t].next = n
           /\ wq_frame'[t].q = wq_frame[t].q /\ wq_frame'[t].op = wq_frame[t].op
           /\ wq_frame'[t].dest = wq_frame[t].dest
  BY DEF WfcqTypeOK, WfcqFrames

(* A thread sets the node it has read.                                     *)
LEMMA WfcqSetNode ==
    ASSUME WfcqTypeOK, NEW t \in WfcqThreads, NEW n \in WfcqCells,
           wq_frame' = [wq_frame EXCEPT ![t].node = n]
    PROVE  /\ wq_frame' \in [WfcqThreads -> WfcqFrames]
           /\ \A u \in WfcqThreads : u # t => wq_frame'[u] = wq_frame[u]
           /\ wq_frame'[t].node = n /\ wq_frame'[t].next = wq_frame[t].next
           /\ wq_frame'[t].q = wq_frame[t].q /\ wq_frame'[t].op = wq_frame[t].op
           /\ wq_frame'[t].dest = wq_frame[t].dest
  BY DEF WfcqTypeOK, WfcqFrames

(* The exchange of an append sets both.                                    *)
LEMMA WfcqSetBoth ==
    ASSUME WfcqTypeOK, NEW t \in WfcqThreads, NEW n \in WfcqCells, NEW m \in WfcqMaybe,
           wq_frame' = [wq_frame EXCEPT ![t].node = n, ![t].next = m]
    PROVE  /\ wq_frame' \in [WfcqThreads -> WfcqFrames]
           /\ \A u \in WfcqThreads : u # t => wq_frame'[u] = wq_frame[u]
           /\ wq_frame'[t].node = n /\ wq_frame'[t].next = m
<1> DEFINE r == [wq_frame[t] EXCEPT !.node = n, !.next = m]
<1>1. wq_frame' = [wq_frame EXCEPT ![t] = r] /\ wq_frame \in [WfcqThreads -> WfcqFrames]
  BY DEF WfcqTypeOK
<1>2. r \in WfcqFrames /\ r.node = n /\ r.next = m
  <2>1. PICK y \in WfcqFrames : y = wq_frame[t]
    BY <1>1
  <2>2. r = [y EXCEPT !.node = n, !.next = m]
    BY <2>1
  <2> HIDE DEF r
  <2> QED BY <2>2 DEF WfcqFrames
<1> HIDE DEF r
<1> QED BY <1>1, <1>2

(* A step of t to l that changes local variables only.                     *)
LEMMA WfcqLocalKeeps ==
    ASSUME WfcqIInv, NEW t \in WfcqThreads, NEW l \in WfcqPC \ {"link", "take_tail"},
           wq_pc[t] # "link", wq_pc' = [wq_pc EXCEPT ![t] = l],
           wq_frame' \in [WfcqThreads -> WfcqFrames],
           \A u \in WfcqThreads : u # t => wq_frame'[u] = wq_frame[u],
           UNCHANGED <<wq_next, wq_tail, wq_lock, wq_use, wq_fifo, wq_hand, wq_ret>>,
           WfcqConsuming(t)', WfcqHolding(t)', WfcqWalking(t)'
    PROVE  WfcqIInv'
<1>0. WfcqTypeOK
  BY DEF WfcqIInv
<1>1. wq_pc'[t] = l /\ \A u \in WfcqThreads : u # t => wq_pc'[u] = wq_pc[u]
  BY <1>0 DEF WfcqTypeOK
<1>2. WfcqTypeOK'
  BY <1>0 DEF WfcqTypeOK
<1> QED BY <1>1, <1>2, WfcqQuiet

(* _cds_wfcq_empty() was false.                                            *)
LEMMA WfcqNonEmptyKeeps ==
    ASSUME WfcqIInv, NEW t \in WfcqThreads, wq_pc[t] \in {"empty_head", "empty_tail"},
           wq_fifo[wq_frame[t].q] # << >>, NonEmpty(t)
    PROVE  WfcqIInv'
<1>0. WfcqTypeOK /\ WfcqWalking(t) /\ WfcqConsuming(t)
  BY DEF WfcqIInv, WfcqWalkers, WfcqConsumers
<1>1. UNCHANGED <<wq_next, wq_tail, wq_lock, wq_use, wq_frame, wq_fifo, wq_hand>>
  BY DEF NonEmpty
<1>2. CASE wq_frame[t].op = "empty"
  <2>1. /\ wq_pc' = [wq_pc EXCEPT ![t] = "return"]
        /\ wq_ret' = [wq_ret EXCEPT ![t] = <<"something">>]
    BY <1>2 DEF NonEmpty, Result, Goto
  <2> QED BY <1>1, <2>1, WfcqAnswerKeeps
<1>3. CASE wq_frame[t].op # "empty"
  <2>1. PICK l : l = AfterNonEmpty(t)
    OBVIOUS
  <2>2. wq_pc' = [wq_pc EXCEPT ![t] = l] /\ UNCHANGED wq_ret
    BY <1>3, <2>1 DEF NonEmpty, Goto
  <2>3. wq_frame[t].op \in {"dequeue", "iterate", "splice"}
    BY <1>0, <1>3 DEF WfcqTypeOK, WfcqFrames, WfcqConsuming, WfcqConsume
  <2>4. /\ wq_frame[t].op = "splice" => l = "take_head"
        /\ wq_frame[t].op # "splice" => l = "sync_head"
    BY <1>3, <2>1 DEF AfterNonEmpty
  <2>5. wq_pc'[t] = l
    BY <1>0, <2>2 DEF WfcqTypeOK
  <2>6. WfcqConsuming(t)'
    BY <1>0, <1>1, <2>3, <2>4, <2>5
       DEF WfcqConsuming, WfcqConsume, WfcqDequeue, WfcqIterate, WfcqSplice
  <2>7. WfcqHolding(t)' /\ WfcqWalking(t)'
    BY <1>0, <1>1, <2>2, <2>4, <2>5
       DEF WfcqHolding, WfcqWalking, WfcqDequeue, WfcqIterate, WfcqReset
  <2> QED BY <1>1, <2>2, <2>4, <2>6, <2>7, WfcqMoveKeeps DEF WfcqPC
<1> QED BY <1>2, <1>3

(* _cds_wfcq_empty() reads the head.                                       *)
LEMMA WfcqEmptyHeadKeeps ==
    ASSUME WfcqIInv, NEW t \in WfcqThreads, EmptyHead(t)
    PROVE  WfcqIInv'
<1>0. WfcqTypeOK /\ WfcqWalking(t) /\ WfcqConsuming(t) /\ wq_pc[t] = "empty_head"
  BY DEF WfcqIInv, WfcqWalkers, WfcqConsumers, EmptyHead
<1>1. wq_frame[t].q \in Queues
  BY <1>0 DEF WfcqConsuming, WfcqConsume
<1>2. CASE wq_next[wq_frame[t].q] # NoNode /\ NonEmpty(t)
  BY <1>0, <1>1, <1>2, WfcqHeadFacts, WfcqNonEmptyKeeps
<1>3. CASE ~ (wq_next[wq_frame[t].q] # NoNode /\ NonEmpty(t))
  <2>1. /\ wq_pc' = [wq_pc EXCEPT ![t] = "empty_tail"]
        /\ UNCHANGED <<wq_next, wq_tail, wq_lock, wq_use, wq_frame, wq_fifo, wq_hand, wq_ret>>
    BY <1>3 DEF EmptyHead, Goto
  <2>2. wq_pc'[t] = "empty_tail"
    BY <1>0, <2>1 DEF WfcqTypeOK
  <2>3. WfcqConsuming(t)' /\ WfcqHolding(t)' /\ WfcqWalking(t)'
    BY <1>0, <2>1, <2>2 DEF WfcqConsuming, WfcqHolding, WfcqWalking, WfcqConsume,
       WfcqDequeue, WfcqIterate, WfcqSplice, WfcqReset
  <2> QED BY <1>0, <2>1, <2>3, WfcqMoveKeeps DEF WfcqPC
<1> QED BY <1>2, <1>3

(* _cds_wfcq_empty() reads the tail.                                       *)
LEMMA WfcqEmptyTailKeeps ==
    ASSUME WfcqIInv, NEW t \in WfcqThreads, EmptyTail(t)
    PROVE  WfcqIInv'
<1>0. WfcqTypeOK /\ WfcqConsuming(t) /\ wq_pc[t] = "empty_tail"
  BY DEF WfcqIInv, WfcqConsumers, EmptyTail
<1>1. wq_frame[t].q \in Queues
  BY <1>0 DEF WfcqConsuming, WfcqConsume
<1>2. CASE ~ TailIsHead(wq_frame[t].q) /\ NonEmpty(t)
  BY <1>0, <1>1, <1>2, WfcqTailFacts, WfcqNonEmptyKeeps DEF TailIsHead
<1>3. CASE ~ (~ TailIsHead(wq_frame[t].q) /\ NonEmpty(t))
  <2>1. /\ wq_pc' = [wq_pc EXCEPT ![t] = "return"]
        /\ wq_ret' = [wq_ret EXCEPT ![t] = <<"nothing">>]
        /\ UNCHANGED <<wq_next, wq_tail, wq_lock, wq_use, wq_frame, wq_fifo, wq_hand>>
    BY <1>3 DEF EmptyTail, Result, Goto
  <2> QED BY <1>0, <2>1, WfcqAnswerKeeps
<1> QED BY <1>2, <1>3

(* A nonblocking call gives up.                                            *)
LEMMA WfcqGiveUpKeeps ==
    ASSUME WfcqIInv, NEW t \in WfcqThreads, NEW n, wq_pc[t] \notin {"link", "append"},
           GiveUp(t, n), UNCHANGED <<wq_next, wq_tail, wq_lock, wq_use, wq_frame, wq_fifo, wq_hand>>
    PROVE  WfcqIInv'
<1>1. /\ wq_pc' = [wq_pc EXCEPT ![t] = "return"]
      /\ wq_ret' = [wq_ret EXCEPT ![t] = <<"would_block">>]
  BY DEF GiveUp, Result, Goto
<1> QED BY <1>1, WfcqAnswerKeeps

(* A dequeue or an iteration reads the head.                               *)
LEMMA WfcqSyncHeadKeeps ==
    ASSUME WfcqIInv, NEW t \in WfcqThreads, SyncHead(t)
    PROVE  WfcqIInv'
<1>0. WfcqTypeOK /\ WfcqConsuming(t) /\ WfcqHolding(t) /\ WfcqWalking(t) /\ wq_pc[t] = "sync_head"
  BY DEF WfcqIInv, WfcqConsumers, WfcqHolders, WfcqWalkers, SyncHead
<1>1. PICK q \in Queues : q = wq_frame[t].q
  BY <1>0 DEF WfcqConsuming, WfcqConsume
<1>2. UNCHANGED <<wq_next, wq_tail, wq_lock, wq_use, wq_fifo, wq_hand>>
  BY DEF SyncHead
<1>3. CASE GiveUp(t, q) /\ UNCHANGED wq_frame
  BY <1>0, <1>2, <1>3, WfcqGiveUpKeeps
<1>4. CASE ~ (GiveUp(t, q) /\ UNCHANGED wq_frame)
  <2>1. wq_next[q] # NoNode /\ UNCHANGED wq_ret
    BY <1>1, <1>4 DEF SyncHead
  <2>2. PICK n \in WfcqNodes : n = wq_next[q] /\ n = wq_fifo[q][1]
    BY <1>0, <1>1, <2>1, WfcqHeadFacts DEF WfcqTypeOK, WfcqCells, WfcqMaybe
  <2>3. wq_fifo[q] # << >> /\ Len(wq_fifo[q]) \in Nat \ {0}
    BY <2>1, WfcqHeadFacts, WfcqTailFacts
  <2>4. CASE wq_frame[t].op = "iterate"
    <3>1. /\ wq_frame' = [wq_frame EXCEPT ![t].node = n, ![t].seen = <<n>>]
          /\ wq_pc' = [wq_pc EXCEPT ![t] = "iter_next"]
      BY <1>1, <1>4, <2>2, <2>4 DEF SyncHead, Goto
    <3>2. PICK s \in Seq(WfcqNodes) : s = <<n>>
      <4>1. <<n>> \in Seq(WfcqNodes)
        OBVIOUS
      <4> QED BY <4>1
    <3>3. /\ wq_frame' \in [WfcqThreads -> WfcqFrames]
          /\ \A u \in WfcqThreads : u # t => wq_frame'[u] = wq_frame[u]
          /\ wq_frame'[t].node = n /\ wq_frame'[t].seen = s /\ wq_frame'[t].q = q
          /\ wq_frame'[t].op = "iterate"
      <4>1. wq_frame' = [wq_frame EXCEPT ![t].node = n, ![t].seen = s]
        BY <3>1, <3>2
      <4> HIDE <3>1, <3>2
      <4>2. wq_frame'[t].seen = s
        BY <1>0, <4>1 DEF WfcqTypeOK, WfcqFrames
      <4> QED BY <1>0, <1>1, <2>4, <4>1, <4>2, WfcqSetSeen DEF WfcqCells
    <3>4. wq_pc'[t] = "iter_next"
      BY <1>0, <3>1 DEF WfcqTypeOK
    <3>5. WfcqConsuming(t)' /\ WfcqHolding(t)'
      BY <1>0, <1>1, <1>2, <2>4, <3>3, <3>4 DEF WfcqConsuming, WfcqHolding, WfcqConsume,
         WfcqDequeue, WfcqIterate, WfcqSplice, WfcqReset
    <3>6. WfcqWalking(t)'
      <4>1. Len(s) = 1 /\ s[1] = n /\ \A i \in 1 .. 1 : i = 1
        BY <3>2
      <4>2. 1 \in 1 .. Len(wq_fifo[q]) /\ \A i \in 1 .. Len(s) : s[i] = wq_fifo[q][i]
        BY <2>2, <2>3, <4>1
      <4> QED BY <1>0, <1>2, <2>1, <2>2, <3>3, <3>4, <4>1, <4>2 DEF WfcqWalking
    <3> QED BY <1>0, <1>2, <2>1, <3>1, <3>3, <3>5, <3>6, WfcqLocalKeeps DEF WfcqPC
  <2>5. CASE wq_frame[t].op = "dequeue"
    <3>1. /\ wq_frame' = [wq_frame EXCEPT ![t].node = n, ![t].seen = << >>]
          /\ wq_pc' = [wq_pc EXCEPT ![t] = "load_next"]
      BY <1>1, <1>4, <2>2, <2>5 DEF SyncHead, Goto
    <3>2. PICK s \in Seq(WfcqNodes) : wq_frame' = [wq_frame EXCEPT ![t].node = n, ![t].seen = s]
      BY <3>1, EmptySeq
    <3>3. /\ wq_frame' \in [WfcqThreads -> WfcqFrames]
          /\ \A u \in WfcqThreads : u # t => wq_frame'[u] = wq_frame[u]
          /\ wq_frame'[t].node = n /\ wq_frame'[t].q = q /\ wq_frame'[t].op = "dequeue"
      BY <1>0, <1>1, <2>5, <3>2, WfcqSetSeen DEF WfcqCells
    <3>4. wq_pc'[t] = "load_next"
      BY <1>0, <3>1 DEF WfcqTypeOK
    <3>5. WfcqConsuming(t)'
      BY <1>0, <1>1, <1>2, <2>5, <3>3, <3>4 DEF WfcqConsuming, WfcqConsume,
         WfcqDequeue, WfcqIterate, WfcqSplice
    <3>6. WfcqHolding(t)' /\ WfcqWalking(t)'
      BY <1>0, <1>2, <2>1, <2>2, <2>3, <3>3, <3>4
         DEF WfcqHolding, WfcqWalking, WfcqDequeue, WfcqIterate, WfcqReset
    <3> QED BY <1>0, <1>2, <2>1, <3>1, <3>3, <3>5, <3>6, WfcqLocalKeeps DEF WfcqPC
  <2> QED BY <1>0, <2>4, <2>5 DEF WfcqConsuming
<1> QED BY <1>3, <1>4

(* A dequeue has read the next pointer of the first node.                  *)
LEMMA WfcqToAdvance ==
    ASSUME WfcqIInv, NEW t \in WfcqThreads, wq_pc[t] \in {"load_next", "sync_next"},
           wq_next[wq_frame[t].node] # NoNode,
           wq_frame' = [wq_frame EXCEPT ![t].next = wq_next[wq_frame[t].node]],
           wq_pc' = [wq_pc EXCEPT ![t] = "advance"],
           UNCHANGED <<wq_next, wq_tail, wq_lock, wq_use, wq_fifo, wq_hand, wq_ret>>
    PROVE  WfcqIInv'
<1>0. WfcqTypeOK /\ WfcqConsuming(t) /\ WfcqHolding(t) /\ WfcqWalking(t) /\ WfcqLinkers
  BY DEF WfcqIInv, WfcqConsumers, WfcqHolders, WfcqWalkers
<1>1. PICK q \in Queues : q = wq_frame[t].q
  BY <1>0 DEF WfcqConsuming, WfcqConsume, WfcqDequeue
<1>2. wq_frame[t].node = wq_fifo[q][1] /\ wq_fifo[q] # << >>
  BY <1>0, <1>1 DEF WfcqHolding, WfcqDequeue
<1>3. wq_frame[t].node \in WfcqNodes
  BY <1>2, WfcqNextFacts, WfcqTailFacts
<1>4. wq_next[wq_frame[t].node] \in WfcqMaybe
  BY <1>0, <1>3 DEF WfcqTypeOK, WfcqCells
<1>5. /\ wq_frame' \in [WfcqThreads -> WfcqFrames]
      /\ \A u \in WfcqThreads : u # t => wq_frame'[u] = wq_frame[u]
      /\ wq_frame'[t].node = wq_frame[t].node /\ wq_frame'[t].next = wq_next[wq_frame[t].node]
      /\ wq_frame'[t].q = q /\ wq_frame'[t].op = wq_frame[t].op
  BY <1>0, <1>1, <1>4, WfcqSetNext
<1>6. wq_pc'[t] = "advance" /\ \A u \in WfcqThreads : u # t => wq_pc'[u] = wq_pc[u]
  BY <1>0 DEF WfcqTypeOK
<1>7. \A u \in WfcqThreads : wq_pc[u] = "link" => wq_frame[u].node # q
  <2>1. CASE wq_pc[t] = "load_next"
    <3>1. wq_next[q] # NoNode
      BY <1>0, <1>1, <1>3, <2>1, WfcqueueAssumption DEF WfcqHolding
    <3> QED BY <1>0, <3>1 DEF WfcqLinkers, WfcqLinking
  <2>2. CASE wq_pc[t] = "sync_next"
    BY <1>0, <1>1, <2>2 DEF WfcqHolding, WfcqReset
  <2> QED BY <2>1, <2>2
<1>8. \A u \in WfcqThreads : wq_pc'[u] = "link" => wq_frame'[u].node # q
  BY <1>5, <1>6, <1>7
<1>9. WfcqConsuming(t)'
  BY <1>0, <1>1, <1>5, <1>6 DEF WfcqConsuming, WfcqConsume, WfcqDequeue, WfcqIterate, WfcqSplice
<1>10. WfcqHolding(t)'
  BY <1>2, <1>5, <1>6, <1>8 DEF WfcqHolding, WfcqDequeue, WfcqReset
<1>11. WfcqWalking(t)'
  BY <1>0, <1>6 DEF WfcqWalking, WfcqIterate
<1> QED BY <1>5, <1>9, <1>10, <1>11, WfcqLocalKeeps DEF WfcqPC

(* A dequeue reads the next pointer of the first node.                     *)
LEMMA WfcqLoadNextKeeps ==
    ASSUME WfcqIInv, NEW t \in WfcqThreads, LoadNext(t)
    PROVE  WfcqIInv'
<1>0. WfcqTypeOK /\ WfcqConsuming(t) /\ WfcqHolding(t) /\ WfcqWalking(t) /\ wq_pc[t] = "load_next"
  BY DEF WfcqIInv, WfcqConsumers, WfcqHolders, WfcqWalkers, LoadNext
<1>1. UNCHANGED <<wq_next, wq_tail, wq_lock, wq_use, wq_fifo, wq_hand, wq_ret>>
  BY DEF LoadNext
<1>2. wq_frame' = [wq_frame EXCEPT ![t].next = wq_next[wq_frame[t].node]]
  BY DEF LoadNext
<1>3. CASE wq_next[wq_frame[t].node] # NoNode
  <2>1. wq_pc' = [wq_pc EXCEPT ![t] = "advance"]
    BY <1>3 DEF LoadNext, Goto
  <2> QED BY <1>0, <1>1, <1>2, <1>3, <2>1, WfcqToAdvance
<1>4. CASE wq_next[wq_frame[t].node] = NoNode
  <2>1. wq_pc' = [wq_pc EXCEPT ![t] = "reset_head"]
    BY <1>4 DEF LoadNext, Goto
  <2>2. wq_pc'[t] = "reset_head"
    BY <1>0, <2>1 DEF WfcqTypeOK
  <2>3. /\ wq_frame' \in [WfcqThreads -> WfcqFrames]
        /\ \A u \in WfcqThreads : u # t => wq_frame'[u] = wq_frame[u]
        /\ wq_frame'[t].node = wq_frame[t].node
        /\ wq_frame'[t].q = wq_frame[t].q /\ wq_frame'[t].op = wq_frame[t].op
    BY <1>0, <1>2, <1>4, WfcqSetNext DEF WfcqMaybe
  <2>4. WfcqConsuming(t)'
    BY <1>0, <1>1, <2>2, <2>3
       DEF WfcqConsuming, WfcqConsume, WfcqDequeue, WfcqIterate, WfcqSplice
  <2>5. WfcqHolding(t)' /\ WfcqWalking(t)'
    BY <1>0, <1>1, <2>2, <2>3 DEF WfcqHolding, WfcqWalking, WfcqDequeue, WfcqReset, WfcqIterate
  <2> QED BY <1>0, <1>1, <2>1, <2>3, <2>4, <2>5, WfcqLocalKeeps DEF WfcqPC
<1> QED BY <1>3, <1>4

(* A dequeue whose cmpxchg failed reads the next pointer again.            *)
LEMMA WfcqSyncNextKeeps ==
    ASSUME WfcqIInv, NEW t \in WfcqThreads, SyncNext(t)
    PROVE  WfcqIInv'
<1>0. WfcqTypeOK /\ WfcqConsuming(t) /\ WfcqHolding(t) /\ WfcqWalking(t) /\ wq_pc[t] = "sync_next"
  BY DEF WfcqIInv, WfcqConsumers, WfcqHolders, WfcqWalkers, SyncNext
<1>1. UNCHANGED <<wq_next, wq_tail, wq_lock, wq_use, wq_fifo, wq_hand, wq_ret>>
  BY DEF SyncNext
<1>2. CASE wq_next[wq_frame[t].node] # NoNode
  <2>1. /\ wq_pc' = [wq_pc EXCEPT ![t] = "advance"]
        /\ wq_frame' = [wq_frame EXCEPT ![t].next = wq_next[wq_frame[t].node]]
    BY <1>2 DEF SyncNext, Goto
  <2> QED BY <1>0, <1>1, <1>2, <2>1, WfcqToAdvance
<1>3. CASE wq_next[wq_frame[t].node] = NoNode
  <2>1. wq_pc' = [wq_pc EXCEPT ![t] = "restore_head"] /\ UNCHANGED wq_frame
    BY <1>3 DEF SyncNext, Goto
  <2>2. wq_pc'[t] = "restore_head" /\ \A u \in WfcqThreads : u # t => wq_pc'[u] = wq_pc[u]
    BY <1>0, <2>1 DEF WfcqTypeOK
  <2>3. WfcqConsuming(t)'
    BY <1>0, <1>1, <2>1, <2>2
       DEF WfcqConsuming, WfcqConsume, WfcqDequeue, WfcqIterate, WfcqSplice
  <2>4. WfcqHolding(t)' /\ WfcqWalking(t)'
    BY <1>0, <1>1, <2>1, <2>2 DEF WfcqHolding, WfcqWalking, WfcqDequeue, WfcqReset, WfcqIterate
  <2> QED BY <1>0, <1>1, <2>1, <2>3, <2>4, WfcqMoveKeeps DEF WfcqPC
<1> QED BY <1>2, <1>3

(* An iteration goes to the next node.                                     *)
LEMMA WfcqVisitKeeps ==
    ASSUME WfcqIInv, NEW t \in WfcqThreads, wq_pc[t] \in {"iter_next", "iter_sync"},
           wq_next[wq_frame[t].node] # NoNode, Visit(t, wq_next[wq_frame[t].node]),
           UNCHANGED <<wq_next, wq_tail, wq_lock, wq_use, wq_fifo, wq_hand, wq_ret>>
    PROVE  WfcqIInv'
<1>0. WfcqTypeOK /\ WfcqConsuming(t) /\ WfcqWalking(t)
  BY DEF WfcqIInv, WfcqConsumers, WfcqWalkers
<1>1. PICK q \in Queues : q = wq_frame[t].q
  BY <1>0 DEF WfcqConsuming, WfcqConsume, WfcqIterate
<1>2. PICK s \in Seq(WfcqNodes) : s = wq_frame[t].seen
  BY <1>0 DEF WfcqTypeOK, WfcqFrames
<1>3. PICK k : k = Len(s)
  OBVIOUS
<1>4. /\ Len(wq_fifo[q]) \in Nat /\ k \in 1 .. Len(wq_fifo[q])
      /\ wq_frame[t].node = wq_fifo[q][k] /\ \A i \in 1 .. k : s[i] = wq_fifo[q][i]
  BY <1>0, <1>1, <1>2, <1>3, WfcqHeadFacts DEF WfcqWalking, WfcqIterate
<1>5. PICK n \in WfcqNodes : /\ n = wq_next[wq_frame[t].node] /\ n = wq_fifo[q][k + 1]
                             /\ k + 1 \in 1 .. Len(wq_fifo[q])
  <2>1. k < Len(wq_fifo[q]) /\ wq_next[wq_frame[t].node] = wq_fifo[q][k + 1]
    BY <1>4, WfcqNextFacts
  <2>2. k + 1 \in 1 .. Len(wq_fifo[q])
    BY <1>4, <2>1
  <2> QED BY <2>1, <2>2, WfcqNextFacts
<1>6. PICK r \in Seq(WfcqNodes) : r = Append(s, n)
  BY AppendProperties
<1>7. /\ Len(r) = k + 1 /\ r[k + 1] = n /\ \A i \in 1 .. k : r[i] = s[i]
  BY <1>3, <1>6, AppendProperties
<1>8. wq_frame' = [wq_frame EXCEPT ![t].node = n, ![t].seen = r] /\ wq_pc' = [wq_pc EXCEPT ![t] = "iter_next"]
  BY <1>0, <1>2, <1>5, <1>6 DEF Visit, Goto, WfcqTypeOK
<1> HIDE <1>6
<1>9. wq_frame'[t].seen = r
  BY <1>0, <1>8 DEF WfcqTypeOK, WfcqFrames
<1>10. /\ wq_frame' \in [WfcqThreads -> WfcqFrames]
       /\ \A u \in WfcqThreads : u # t => wq_frame'[u] = wq_frame[u]
       /\ wq_frame'[t].node = n /\ wq_frame'[t].q = q /\ wq_frame'[t].op = wq_frame[t].op
  BY <1>0, <1>1, <1>8, WfcqSetSeen DEF WfcqCells
<1>11. wq_pc'[t] = "iter_next"
  BY <1>0, <1>8 DEF WfcqTypeOK
<1>12. WfcqConsuming(t)' /\ WfcqHolding(t)'
  BY <1>0, <1>1, <1>10, <1>11 DEF WfcqConsuming, WfcqHolding, WfcqConsume,
     WfcqDequeue, WfcqIterate, WfcqSplice, WfcqReset
<1>13. WfcqWalking(t)'
  <2>1. \A i \in 1 .. k + 1 : r[i] = wq_fifo[q][i]
    <3>1. \A i \in 1 .. k + 1 : i \in 1 .. k \/ i = k + 1
      BY <1>4
    <3> QED BY <1>4, <1>5, <1>7, <3>1
  <2>2. Len(r) \in 1 .. Len(wq_fifo[q]) /\ n = wq_fifo[q][Len(r)]
    BY <1>5, <1>7
  <2> QED BY <1>0, <1>7, <1>9, <1>10, <1>11, <2>1, <2>2 DEF WfcqWalking, WfcqIterate
<1> QED BY <1>8, <1>10, <1>12, <1>13, WfcqLocalKeeps DEF WfcqPC

(* An iteration that finds no next node moves on to l.                     *)
LEMMA WfcqIterMoveKeeps ==
    ASSUME WfcqIInv, NEW t \in WfcqThreads, NEW l \in WfcqIterate, wq_pc[t] \in WfcqIterate,
           wq_pc' = [wq_pc EXCEPT ![t] = l],
           UNCHANGED <<wq_next, wq_tail, wq_lock, wq_use, wq_frame, wq_fifo, wq_hand, wq_ret>>
    PROVE  WfcqIInv'
<1>0. WfcqTypeOK /\ WfcqConsuming(t) /\ WfcqWalking(t)
  BY DEF WfcqIInv, WfcqConsumers, WfcqWalkers
<1>1. wq_pc'[t] = l
  BY <1>0 DEF WfcqTypeOK
<1>2. WfcqConsuming(t)' /\ WfcqHolding(t)'
  BY <1>0, <1>1 DEF WfcqConsuming, WfcqHolding, WfcqConsume,
     WfcqDequeue, WfcqIterate, WfcqSplice, WfcqReset
<1>3. WfcqWalking(t)'
  BY <1>0, <1>1 DEF WfcqWalking, WfcqIterate
<1> QED BY <1>2, <1>3, WfcqMoveKeeps DEF WfcqPC, WfcqIterate

(* An iteration reads the next pointer of its node.                        *)
LEMMA WfcqIterNextKeeps ==
    ASSUME WfcqIInv, NEW t \in WfcqThreads, IterNext(t)
    PROVE  WfcqIInv'
<1>1. wq_pc[t] = "iter_next" /\ UNCHANGED <<wq_next, wq_tail, wq_lock, wq_use, wq_fifo, wq_hand, wq_ret>>
  BY DEF IterNext
<1>2. CASE wq_next[wq_frame[t].node] # NoNode
  BY <1>1, <1>2, WfcqVisitKeeps DEF IterNext
<1>3. CASE wq_next[wq_frame[t].node] = NoNode
  <2>1. wq_pc' = [wq_pc EXCEPT ![t] = "iter_tail"] /\ UNCHANGED wq_frame
    BY <1>3 DEF IterNext, Goto
  <2> QED BY <1>1, <2>1, WfcqIterMoveKeeps DEF WfcqIterate
<1> QED BY <1>2, <1>3

(* An iteration compares its node with the tail.                           *)
LEMMA WfcqIterTailKeeps ==
    ASSUME WfcqIInv, NEW t \in WfcqThreads, IterTail(t)
    PROVE  WfcqIInv'
<1>1. /\ wq_pc[t] = "iter_tail"
      /\ UNCHANGED <<wq_next, wq_tail, wq_lock, wq_use, wq_frame, wq_fifo, wq_hand>>
  BY DEF IterTail
<1>2. CASE wq_tail[wq_frame[t].q] = wq_frame[t].node
  <2>1. /\ wq_pc' = [wq_pc EXCEPT ![t] = "return"]
        /\ wq_ret' = [wq_ret EXCEPT ![t] = <<"walked">> \o wq_frame[t].seen]
    BY <1>2 DEF IterTail, Result, Goto
  <2> QED BY <1>1, <2>1, WfcqAnswerKeeps
<1>3. CASE wq_tail[wq_frame[t].q] # wq_frame[t].node
  <2>1. wq_pc' = [wq_pc EXCEPT ![t] = "iter_sync"] /\ UNCHANGED wq_ret
    BY <1>3 DEF IterTail, Goto
  <2> QED BY <1>1, <2>1, WfcqIterMoveKeeps DEF WfcqIterate
<1> QED BY <1>2, <1>3

(* An iteration waits for a link, or gives up.                             *)
LEMMA WfcqIterSyncKeeps ==
    ASSUME WfcqIInv, NEW t \in WfcqThreads, IterSync(t)
    PROVE  WfcqIInv'
<1>1. wq_pc[t] = "iter_sync" /\ UNCHANGED <<wq_next, wq_tail, wq_lock, wq_use, wq_fifo, wq_hand>>
  BY DEF IterSync
<1>2. CASE GiveUp(t, wq_frame[t].node) /\ UNCHANGED wq_frame
  BY <1>1, <1>2, WfcqGiveUpKeeps
<1>3. CASE ~ (GiveUp(t, wq_frame[t].node) /\ UNCHANGED wq_frame)
  BY <1>1, <1>3, WfcqVisitKeeps DEF IterSync
<1> QED BY <1>2, <1>3

(* A splice that found no first node tests the tail.                       *)
LEMMA WfcqTestTailKeeps ==
    ASSUME WfcqIInv, NEW t \in WfcqThreads, TestTail(t)
    PROVE  WfcqIInv'
<1>0. WfcqTypeOK /\ WfcqConsuming(t) /\ WfcqWalking(t) /\ wq_pc[t] = "test_tail"
  BY DEF WfcqIInv, WfcqConsumers, WfcqWalkers, TestTail
<1>1. UNCHANGED <<wq_next, wq_tail, wq_lock, wq_use, wq_frame, wq_fifo, wq_hand>>
  BY DEF TestTail
<1>2. ASSUME NEW r, Result(t, r, "return") PROVE WfcqIInv'
  <2>1. wq_pc' = [wq_pc EXCEPT ![t] = "return"] /\ wq_ret' = [wq_ret EXCEPT ![t] = r]
    BY <1>2 DEF Result, Goto
  <2> QED BY <1>0, <1>1, <2>1, WfcqAnswerKeeps
<1>3. ASSUME Goto(t, "take_head"), UNCHANGED wq_ret PROVE WfcqIInv'
  <2>1. wq_pc' = [wq_pc EXCEPT ![t] = "take_head"]
    BY <1>3 DEF Goto
  <2>2. wq_pc'[t] = "take_head"
    BY <1>0, <2>1 DEF WfcqTypeOK
  <2>3. WfcqConsuming(t)' /\ WfcqHolding(t)' /\ WfcqWalking(t)'
    BY <1>0, <1>1, <1>3, <2>2 DEF WfcqConsuming, WfcqHolding, WfcqWalking, WfcqConsume,
       WfcqDequeue, WfcqIterate, WfcqSplice, WfcqReset
  <2> QED BY <1>0, <1>1, <1>3, <2>1, <2>3, WfcqMoveKeeps DEF WfcqPC
<1> QED BY <1>2, <1>3 DEF TestTail

(* The lock keeps others from a queue that a thread dequeues from or       *)
(* walks.                                                                  *)
LEMMA WfcqExclusive ==
    ASSUME WfcqIInv, NEW t \in WfcqThreads, NEW u \in WfcqThreads, t # u,
           wq_pc[t] \in {"sync_head"} \cup WfcqDequeue \cup WfcqIterate,
           wq_pc[u] \in {"sync_head"} \cup WfcqDequeue \cup WfcqIterate \cup WfcqSplice
    PROVE  wq_frame[t].q # wq_frame[u].q
<1>1. WfcqConsuming(t) /\ WfcqConsuming(u)
  BY DEF WfcqIInv, WfcqConsumers
<1>2. wq_use.queues[wq_frame[t].q] = "locked" /\ wq_lock[wq_frame[t].q] = t
  BY <1>1 DEF WfcqConsuming, WfcqConsume, WfcqDequeue, WfcqIterate
<1>3. \/ wq_use.queues[wq_frame[u].q] = "splice"
      \/ wq_use.queues[wq_frame[u].q] = "locked" /\ wq_lock[wq_frame[u].q] = u
  BY <1>1 DEF WfcqConsuming, WfcqConsume, WfcqDequeue, WfcqIterate, WfcqSplice
<1> QED BY <1>2, <1>3

(* A step of t that changes a head, which its consumers agree with.        *)
LEMMA WfcqHeadKeeps ==
    ASSUME WfcqIInv, NEW t \in WfcqThreads, NEW q \in Queues, NEW x \in WfcqMaybe, WfcqTypeOK',
           wq_next' = [wq_next EXCEPT ![q] = x],
           x # NoNode => /\ x = WfcqFirst(wq_fifo[q])
                         /\ \A u \in WfcqThreads : wq_pc[u] = "link" => wq_frame[u].node # q,
           UNCHANGED <<wq_tail, wq_lock, wq_use, wq_fifo, wq_hand>>,
           wq_pc[t] # "link", wq_pc'[t] # "link", wq_pc'[t] = "take_tail" => wq_frame'[t].q = q,
           \A u \in WfcqThreads : u # t =>
              /\ wq_pc'[u] = wq_pc[u] /\ wq_frame'[u] = wq_frame[u] /\ wq_ret'[u] = wq_ret[u]
              /\ wq_pc[u] \in WfcqDequeue \cup {"take_tail"} => wq_frame[u].q # q,
           WfcqConsuming(t)', WfcqHolding(t)', WfcqWalking(t)'
    PROVE  WfcqIInv'
<1>0. /\ WfcqTypeOK /\ WfcqChains /\ WfcqOnce /\ WfcqLinkers /\ WfcqConsumers /\ WfcqHolders
      /\ WfcqWalkers
  BY DEF WfcqIInv
<1>1. /\ wq_next'[q] = x /\ \A m \in WfcqCells : m # q => wq_next'[m] = wq_next[m]
      /\ q \in WfcqCells /\ q \notin WfcqNodes
  BY <1>0, WfcqueueAssumption DEF WfcqTypeOK, WfcqCells
<1>2. WfcqLinkers'
  BY <1>0, <1>1 DEF WfcqLinkers, WfcqLinking, WfcqPlaced
<1>3. WfcqChains'
  <2>1. PICK ahead \in [WfcqCells -> WfcqMaybe] : WfcqAhead(ahead) /\ WfcqLinked(ahead)
    BY <1>0 DEF WfcqChains
  <2>2. WfcqAhead(ahead)'
    <3>1. ASSUME NEW m \in WfcqCells, wq_next'[m] # NoNode PROVE ahead[m] = wq_next'[m]
      BY <1>1, <2>1, <3>1 DEF WfcqAhead, WfcqLinked
    <3>2. ASSUME NEW u \in WfcqThreads, wq_pc'[u] = "link"
          PROVE  ahead[wq_frame'[u].node] = wq_frame'[u].next
      BY <2>1, <3>2 DEF WfcqAhead
    <3> QED BY <3>1, <3>2 DEF WfcqAhead
  <2>3. WfcqLinked(ahead)'
    BY <2>1 DEF WfcqLinked
  <2>4. \A p \in Queues : wq_tail'[p] = WfcqLast(p, wq_fifo'[p])
    BY <1>0 DEF WfcqChains
  <2> QED BY <2>1, <2>2, <2>3, <2>4 DEF WfcqChains
<1>4. WfcqOnce'
  BY <1>0 DEF WfcqOnce
<1>5. ASSUME NEW u \in WfcqThreads, u # t
      PROVE  WfcqConsuming(u)' /\ WfcqHolding(u)' /\ WfcqWalking(u)'
  <2>1. WfcqConsuming(u)'
    BY <1>0, <1>5 DEF WfcqConsumers, WfcqConsuming
  <2>2. WfcqWalking(u)'
    BY <1>0, <1>5 DEF WfcqWalkers, WfcqWalking
  <2>3. wq_pc[u] \in WfcqDequeue \cup {"take_tail"} =>
           /\ wq_frame[u].q \in Queues /\ wq_frame[u].q # q
           /\ wq_next'[wq_frame[u].q] = wq_next[wq_frame[u].q]
    BY <1>0, <1>1, <1>5 DEF WfcqConsumers, WfcqConsuming, WfcqConsume, WfcqSplice, WfcqCells
  <2>4. wq_pc[u] = "advance" => wq_next'[wq_frame[u].node] = wq_next[wq_frame[u].node]
    <3>1. wq_pc[u] = "advance" => wq_frame[u].node \in WfcqNodes
      BY <1>0, <2>3, WfcqNextFacts, WfcqTailFacts DEF WfcqHolders, WfcqHolding, WfcqDequeue
    <3> QED BY <1>1, <3>1 DEF WfcqCells
  <2>5. \A v \in WfcqThreads : wq_pc'[v] = "link" => wq_pc[v] = "link" /\ wq_frame'[v] = wq_frame[v]
    OBVIOUS
  <2>6. WfcqHolding(u)
    BY <1>0 DEF WfcqHolders
  <2>7. WfcqHolding(u)'
    BY <1>5, <2>3, <2>4, <2>5, <2>6 DEF WfcqHolding, WfcqDequeue, WfcqReset
  <2> QED BY <2>1, <2>2, <2>7
<1> QED BY <1>2, <1>3, <1>4, <1>5 DEF WfcqIInv, WfcqConsumers, WfcqHolders, WfcqWalkers

(* A dequeue resets the head.                                              *)
LEMMA WfcqResetHeadKeeps ==
    ASSUME WfcqIInv, NEW t \in WfcqThreads, ResetHead(t)
    PROVE  WfcqIInv'
<1>0. /\ WfcqTypeOK /\ WfcqConsuming(t) /\ WfcqHolding(t) /\ WfcqWalking(t) /\ WfcqLinkers
      /\ wq_pc[t] = "reset_head"
  BY DEF WfcqIInv, WfcqConsumers, WfcqHolders, WfcqWalkers, ResetHead
<1>1. PICK q \in Queues : q = wq_frame[t].q
  BY <1>0 DEF WfcqConsuming, WfcqConsume, WfcqDequeue
<1>2. /\ wq_next' = [wq_next EXCEPT ![q] = NoNode] /\ wq_pc' = [wq_pc EXCEPT ![t] = "cas_tail"]
      /\ UNCHANGED <<wq_tail, wq_lock, wq_use, wq_frame, wq_fifo, wq_hand, wq_ret>>
  BY <1>1 DEF ResetHead, Goto
<1>3. wq_pc'[t] = "cas_tail" /\ \A u \in WfcqThreads : u # t => wq_pc'[u] = wq_pc[u]
  BY <1>0, <1>2 DEF WfcqTypeOK
<1>4. WfcqTypeOK'
  BY <1>0, <1>2 DEF WfcqTypeOK, WfcqPC, WfcqMaybe
<1>5. \A u \in WfcqThreads : u # t =>
         (wq_pc[u] \in WfcqDequeue \cup {"take_tail"} => wq_frame[u].q # q)
  BY <1>0, <1>1, WfcqExclusive DEF WfcqDequeue, WfcqSplice
<1>6. \A u \in WfcqThreads : wq_pc[u] = "link" => wq_frame[u].node # q
  <2>1. wq_next[q] = wq_fifo[q][1] /\ wq_fifo[q] # << >>
    BY <1>0, <1>1 DEF WfcqHolding, WfcqDequeue
  <2>2. wq_next[q] # NoNode
    BY <2>1, WfcqNextFacts, WfcqTailFacts, WfcqueueAssumption
  <2> QED BY <1>0, <2>2 DEF WfcqLinkers, WfcqLinking
<1>7. WfcqConsuming(t)'
  BY <1>0, <1>2, <1>3 DEF WfcqConsuming, WfcqConsume, WfcqDequeue, WfcqIterate, WfcqSplice
<1>8. wq_next'[q] = NoNode
  BY <1>0, <1>2 DEF WfcqTypeOK, WfcqCells
<1>9. WfcqHolding(t)'
  BY <1>0, <1>1, <1>2, <1>3, <1>6, <1>8 DEF WfcqHolding, WfcqDequeue, WfcqReset
<1>10. WfcqWalking(t)'
  BY <1>0, <1>2, <1>3 DEF WfcqWalking, WfcqIterate
<1>11. NoNode \in WfcqMaybe
  BY DEF WfcqMaybe
<1> QED BY <1>0, <1>2, <1>3, <1>4, <1>5, <1>7, <1>9, <1>10, <1>11, WfcqHeadKeeps

(* A nonblocking dequeue restores the head.                                *)
LEMMA WfcqRestoreHeadKeeps ==
    ASSUME WfcqIInv, NEW t \in WfcqThreads, RestoreHead(t)
    PROVE  WfcqIInv'
<1>0. /\ WfcqTypeOK /\ WfcqConsuming(t) /\ WfcqHolding(t) /\ WfcqWalking(t) /\ WfcqLinkers
      /\ wq_pc[t] = "restore_head"
  BY DEF WfcqIInv, WfcqConsumers, WfcqHolders, WfcqWalkers, RestoreHead
<1>1. PICK q \in Queues : q = wq_frame[t].q
  BY <1>0 DEF WfcqConsuming, WfcqConsume, WfcqDequeue
<1>2. PICK x \in WfcqMaybe : x = wq_frame[t].node /\ x = WfcqFirst(wq_fifo[q])
  <2>1. wq_frame[t].node = wq_fifo[q][1] /\ wq_fifo[q] # << >>
    BY <1>0, <1>1 DEF WfcqHolding, WfcqDequeue
  <2> QED BY <2>1, WfcqNextFacts, WfcqTailFacts DEF WfcqFirst, WfcqMaybe
<1>3. /\ wq_next' = [wq_next EXCEPT ![q] = x] /\ wq_pc' = [wq_pc EXCEPT ![t] = "return"]
      /\ wq_ret' = [wq_ret EXCEPT ![t] = <<"would_block">>]
      /\ UNCHANGED <<wq_tail, wq_lock, wq_use, wq_frame, wq_fifo, wq_hand>>
  BY <1>1, <1>2 DEF RestoreHead, Result, Goto
<1>4. /\ wq_pc'[t] = "return"
      /\ \A u \in WfcqThreads : u # t => wq_pc'[u] = wq_pc[u] /\ wq_ret'[u] = wq_ret[u]
  BY <1>0, <1>3 DEF WfcqTypeOK
<1>5. WfcqTypeOK'
  BY <1>0, <1>3 DEF WfcqTypeOK, WfcqPC
<1>6. \A u \in WfcqThreads : u # t =>
         (wq_pc[u] \in WfcqDequeue \cup {"take_tail"} => wq_frame[u].q # q)
  BY <1>0, <1>1, WfcqExclusive DEF WfcqDequeue, WfcqSplice
<1>7. \A u \in WfcqThreads : wq_pc[u] = "link" => wq_frame[u].node # q
  BY <1>0, <1>1 DEF WfcqHolding, WfcqReset
<1>8. WfcqConsuming(t)' /\ WfcqHolding(t)' /\ WfcqWalking(t)'
  BY <1>0, <1>3, <1>4 DEF WfcqConsuming, WfcqHolding, WfcqWalking, WfcqConsume,
     WfcqDequeue, WfcqIterate, WfcqSplice, WfcqReset
<1> QED BY <1>0, <1>2, <1>3, <1>4, <1>5, <1>6, <1>7, <1>8, WfcqHeadKeeps

(* A splice takes the first node.                                          *)
LEMMA WfcqTakeHeadKeeps ==
    ASSUME WfcqIInv, NEW t \in WfcqThreads, TakeHead(t)
    PROVE  WfcqIInv'
<1>0. /\ WfcqTypeOK /\ WfcqConsuming(t) /\ WfcqWalking(t) /\ WfcqLinkers /\ WfcqHolders
      /\ wq_pc[t] = "take_head"
  BY DEF WfcqIInv, WfcqConsumers, WfcqWalkers, TakeHead
<1>1. PICK q \in Queues : q = wq_frame[t].q
  BY <1>0 DEF WfcqConsuming, WfcqConsume, WfcqSplice
<1>2. PICK x \in WfcqMaybe : x = wq_next[q]
  BY <1>0 DEF WfcqTypeOK, WfcqCells
<1>3. PICK l \in {"take_tail", "test_tail"} : l = IF x # NoNode THEN "take_tail" ELSE "test_tail"
  OBVIOUS
<1>4. /\ wq_next' = [wq_next EXCEPT ![q] = NoNode] /\ wq_pc' = [wq_pc EXCEPT ![t] = l]
      /\ wq_frame' = [wq_frame EXCEPT ![t].next = x]
      /\ UNCHANGED <<wq_tail, wq_lock, wq_use, wq_fifo, wq_hand, wq_ret>>
  BY <1>1, <1>2, <1>3 DEF TakeHead, Goto
<1>5. wq_pc'[t] = l /\ \A u \in WfcqThreads : u # t => wq_pc'[u] = wq_pc[u]
  BY <1>0, <1>4 DEF WfcqTypeOK
<1>6. /\ wq_frame' \in [WfcqThreads -> WfcqFrames]
      /\ \A u \in WfcqThreads : u # t => wq_frame'[u] = wq_frame[u]
      /\ wq_frame'[t].next = x /\ wq_frame'[t].q = q /\ wq_frame'[t].op = wq_frame[t].op
      /\ wq_frame'[t].dest = wq_frame[t].dest
  BY <1>0, <1>1, <1>4, WfcqSetNext
<1>7. WfcqTypeOK'
  <2>1. wq_next' \in [WfcqCells -> WfcqMaybe] /\ wq_pc' \in [WfcqThreads -> WfcqPC]
    BY <1>0, <1>4 DEF WfcqTypeOK, WfcqPC, WfcqMaybe
  <2> QED BY <1>0, <1>4, <1>6, <2>1 DEF WfcqTypeOK
<1>8. WfcqConsuming(t)'
  BY <1>0, <1>1, <1>4, <1>5, <1>6
     DEF WfcqConsuming, WfcqConsume, WfcqDequeue, WfcqIterate, WfcqSplice
<1>9. WfcqWalking(t)'
  BY <1>0, <1>3, <1>4, <1>5 DEF WfcqWalking, WfcqIterate
<1>10. CASE x = NoNode
  <2>1. wq_next' = wq_next
    BY <1>0, <1>2, <1>4, <1>10 DEF WfcqTypeOK, WfcqCells
  <2>2. l = "test_tail"
    BY <1>3, <1>10
  <2>3. WfcqHolding(t)'
    BY <1>5, <2>2 DEF WfcqHolding, WfcqDequeue, WfcqReset
  <2> QED BY <1>0, <1>4, <1>6, <1>8, <1>9, <2>1, <2>2, <2>3, WfcqLocalKeeps DEF WfcqPC
<1>11. CASE x # NoNode
  <2>1. l = "take_tail"
    BY <1>3, <1>11
  <2>2. \A u \in WfcqThreads : u # t =>
           (wq_pc[u] \in WfcqDequeue \cup {"take_tail"} => wq_frame[u].q # q)
    <3>1. \A u \in WfcqThreads : u # t /\ wq_pc[u] \in WfcqDequeue => wq_frame[u].q # q
      BY <1>0, <1>1, WfcqExclusive DEF WfcqSplice
    <3>2. \A u \in WfcqThreads : wq_pc[u] = "take_tail" => wq_frame[u].q # q
      BY <1>0, <1>2, <1>11 DEF WfcqHolders, WfcqHolding, WfcqReset
    <3> QED BY <3>1, <3>2
  <2>3. \A u \in WfcqThreads : wq_pc[u] = "link" => wq_frame[u].node # q
    BY <1>0, <1>2, <1>11 DEF WfcqLinkers, WfcqLinking
  <2>4. wq_next'[q] = NoNode
    BY <1>0, <1>4 DEF WfcqTypeOK, WfcqCells
  <2>5. wq_fifo[q] # << >> /\ x = wq_fifo[q][1]
    BY <1>2, <1>11, WfcqHeadFacts
  <2>6. /\ \A u \in WfcqThreads : wq_pc'[u] = "link" => wq_frame'[u].node # q
        /\ \A u \in WfcqThreads : u # t /\ wq_pc'[u] = "take_tail" => wq_frame'[u].q # q
    BY <1>5, <1>6, <2>1, <2>2, <2>3
  <2>7. WfcqHolding(t)'
    BY <1>4, <1>5, <1>6, <2>1, <2>4, <2>5, <2>6 DEF WfcqHolding, WfcqDequeue, WfcqReset
  <2>8. NoNode \in WfcqMaybe
    BY DEF WfcqMaybe
  <2>9. /\ UNCHANGED <<wq_tail, wq_lock, wq_use, wq_fifo, wq_hand>>
        /\ wq_next' = [wq_next EXCEPT ![q] = NoNode]
        /\ wq_pc[t] # "link" /\ wq_pc'[t] # "link" /\ wq_frame'[t].q = q
    BY <1>0, <1>4, <1>5, <1>6, <2>1
  <2>10. \A u \in WfcqThreads : u # t =>
              /\ wq_pc'[u] = wq_pc[u] /\ wq_frame'[u] = wq_frame[u] /\ wq_ret'[u] = wq_ret[u]
              /\ wq_pc[u] \in WfcqDequeue \cup {"take_tail"} => wq_frame[u].q # q
    BY <1>4, <1>5, <1>6, <2>2
  <2> QED BY <1>7, <1>8, <1>9, <2>7, <2>8, <2>9, <2>10, WfcqHeadKeeps
<1> QED BY <1>10, <1>11

(* An append links its nodes.                                              *)
LEMMA WfcqAppendLinkKeeps ==
    ASSUME WfcqIInv, NEW t \in WfcqThreads, AppendLink(t)
    PROVE  WfcqIInv'
<1>0. /\ WfcqTypeOK /\ WfcqChains /\ WfcqOnce /\ WfcqLinkers /\ WfcqConsumers /\ WfcqHolders
      /\ WfcqWalkers /\ wq_pc[t] = "link"
  BY DEF WfcqIInv, AppendLink
<1>1. PICK m \in WfcqCells : m = wq_frame[t].node
  BY <1>0 DEF WfcqLinkers, WfcqLinking
<1>2. PICK x \in WfcqNodes : x = wq_frame[t].next
  BY <1>0 DEF WfcqLinkers, WfcqLinking
<1>3. wq_next[m] = NoNode /\ x # NoNode
  BY <1>0, <1>1, WfcqueueAssumption DEF WfcqLinkers, WfcqLinking
<1>4. /\ wq_next' = [wq_next EXCEPT ![m] = x] /\ wq_pc' = [wq_pc EXCEPT ![t] = "return"]
      /\ UNCHANGED <<wq_tail, wq_lock, wq_use, wq_frame, wq_fifo, wq_hand, wq_ret>>
  BY <1>1, <1>2 DEF AppendLink, Goto
<1>5. /\ wq_next'[m] = x /\ \A n \in WfcqCells : n # m => wq_next'[n] = wq_next[n]
      /\ wq_pc'[t] = "return" /\ \A u \in WfcqThreads : u # t => wq_pc'[u] = wq_pc[u]
  BY <1>0, <1>4 DEF WfcqTypeOK
<1>6. WfcqTypeOK'
  BY <1>0, <1>4 DEF WfcqTypeOK, WfcqPC, WfcqMaybe
<1>7. UNCHANGED <<wq_tail, wq_lock, wq_use, wq_frame, wq_fifo, wq_hand, wq_ret>>
  BY <1>4
<1>8. WfcqChains'
  <2>1. PICK ahead \in [WfcqCells -> WfcqMaybe] : WfcqAhead(ahead) /\ WfcqLinked(ahead)
    BY <1>0 DEF WfcqChains
  <2>2. WfcqAhead(ahead)'
    BY <1>0, <1>1, <1>2, <1>5, <1>7, <2>1 DEF WfcqAhead
  <2>3. WfcqLinked(ahead)'
    BY <1>7, <2>1 DEF WfcqLinked
  <2>4. \A p \in Queues : wq_tail'[p] = WfcqLast(p, wq_fifo'[p])
    BY <1>0, <1>7 DEF WfcqChains
  <2> QED BY <2>1, <2>2, <2>3, <2>4 DEF WfcqChains
<1>9. WfcqOnce'
  BY <1>0, <1>7 DEF WfcqOnce
<1>10. WfcqLinkers'
  BY <1>0, <1>1, <1>5, <1>7 DEF WfcqLinkers, WfcqLinking, WfcqPlaced
<1>11. ASSUME NEW u \in WfcqThreads PROVE WfcqConsuming(u)' /\ WfcqWalking(u)'
  <2>1. u # t \/ (wq_pc'[u] = "return" /\ wq_pc[u] = "link")
    BY <1>0, <1>5
  <2>2. WfcqConsuming(u)'
    BY <1>0, <1>5, <1>7, <2>1 DEF WfcqConsumers, WfcqConsuming, WfcqConsume,
       WfcqDequeue, WfcqIterate, WfcqSplice
  <2>3. WfcqWalking(u)'
    BY <1>0, <1>5, <1>7, <2>1 DEF WfcqWalkers, WfcqWalking, WfcqIterate
  <2> QED BY <2>2, <2>3
<1>12. ASSUME NEW u \in WfcqThreads PROVE WfcqHolding(u)'
  <2>1. CASE u = t
    BY <1>5, <2>1 DEF WfcqHolding, WfcqDequeue, WfcqReset
  <2>2. CASE u # t
    <3>0. WfcqHolding(u) /\ WfcqConsuming(u) /\ wq_pc'[u] = wq_pc[u]
      BY <1>0, <1>5, <2>2 DEF WfcqHolders, WfcqConsumers
    <3>1. wq_pc[u] \in WfcqDequeue \cup {"take_tail"} => wq_frame[u].q \in Queues
      BY <3>0 DEF WfcqConsuming, WfcqConsume, WfcqSplice
    <3>2. wq_pc[u] \in WfcqDequeue => wq_frame[u].node \in WfcqNodes
      BY <3>0, <3>1, WfcqNextFacts, WfcqTailFacts DEF WfcqHolding
    <3>3. wq_pc[u] \in WfcqReset \cup {"load_next", "reset_head"} =>
             wq_next'[wq_frame[u].q] = wq_next[wq_frame[u].q]
      <4>1. CASE wq_pc[u] \in {"load_next", "reset_head"}
        <5>1. wq_next[wq_frame[u].q] # NoNode
          BY <3>0, <3>2, <4>1, WfcqueueAssumption DEF WfcqHolding, WfcqDequeue
        <5> QED BY <1>3, <1>5, <3>1, <4>1, <5>1 DEF WfcqCells, WfcqDequeue
      <4>2. CASE wq_pc[u] \in WfcqReset
        <5>1. wq_frame[u].q # m
          BY <1>0, <1>1, <3>0, <4>2 DEF WfcqHolding
        <5> QED BY <1>5, <3>1, <4>2, <5>1 DEF WfcqCells, WfcqDequeue, WfcqReset
      <4> QED BY <4>1, <4>2
    <3>4. wq_pc[u] = "advance" => wq_next'[wq_frame[u].node] = wq_next[wq_frame[u].node]
      <4>1. wq_pc[u] = "advance" => wq_next[wq_frame[u].node] # NoNode
        BY <3>0 DEF WfcqHolding
      <4> QED BY <1>3, <1>5, <3>2, <4>1 DEF WfcqCells, WfcqDequeue
    <3>5. \A v \in WfcqThreads : wq_pc'[v] = "link" => wq_pc[v] = "link"
      BY <1>5
    <3>6. \A v \in WfcqThreads : wq_pc'[v] = "take_tail" => wq_pc[v] = "take_tail"
      BY <1>5
    <3> QED BY <1>7, <3>0, <3>3, <3>4, <3>5, <3>6 DEF WfcqHolding, WfcqDequeue, WfcqReset
  <2> QED BY <2>1, <2>2
<1> QED BY <1>6, <1>8, <1>9, <1>10, <1>11, <1>12 DEF WfcqIInv, WfcqConsumers, WfcqHolders, WfcqWalkers

(* Nobody links from the last cell of a queue, which points nowhere.       *)
LEMMA WfcqLastFree ==
    ASSUME WfcqIInv, NEW q \in Queues,
           NEW ahead \in [WfcqCells -> WfcqMaybe], WfcqAhead(ahead), WfcqLinked(ahead)
    PROVE  /\ wq_tail[q] \in WfcqCells /\ WfcqPlaced(wq_tail[q])
           /\ ahead[wq_tail[q]] = NoNode /\ wq_next[wq_tail[q]] = NoNode
           /\ \A u \in WfcqThreads : wq_pc[u] = "link" => wq_frame[u].node # wq_tail[q]
<1>1. wq_tail[q] \in WfcqCells
  BY DEF WfcqIInv, WfcqTypeOK
<1>2. /\ wq_fifo[q] = << >> => wq_tail[q] = q
      /\ wq_fifo[q] # << >> => /\ Len(wq_fifo[q]) \in Nat \ {0}
                               /\ wq_tail[q] = wq_fifo[q][Len(wq_fifo[q])]
  BY WfcqTailFacts
<1>3. ahead[wq_tail[q]] = NoNode
  <2>1. CASE wq_fifo[q] = << >>
    BY <1>2, <2>1 DEF WfcqLinked, WfcqFirst
  <2>2. CASE wq_fifo[q] # << >>
    <3>1. Len(wq_fifo[q]) \in 1 .. Len(wq_fifo[q]) /\ ~ (Len(wq_fifo[q]) < Len(wq_fifo[q]))
      BY <1>2, <2>2
    <3> QED BY <1>2, <2>2, <3>1 DEF WfcqLinked, Chain
  <2> QED BY <2>1, <2>2
<1>4. WfcqPlaced(wq_tail[q])
  <2>1. CASE wq_fifo[q] = << >>
    BY <1>2, <2>1 DEF WfcqPlaced
  <2>2. CASE wq_fifo[q] # << >>
    <3>1. Len(wq_fifo[q]) \in DOMAIN wq_fifo[q]
      BY <1>2, <2>2, WfcqHeadFacts
    <3> QED BY <1>2, <2>2, <3>1 DEF WfcqPlaced, Items
  <2> QED BY <2>1, <2>2
<1>5. \A u \in WfcqThreads : wq_pc[u] = "link" => wq_frame[u].node # wq_tail[q]
  BY <1>3, WfcqueueAssumption DEF WfcqAhead, WfcqIInv, WfcqLinkers, WfcqLinking
<1>6. wq_next[wq_tail[q]] = NoNode
  BY <1>1, <1>3 DEF WfcqAhead
<1> QED BY <1>1, <1>3, <1>4, <1>5, <1>6

(* A node that is in no place is not linked from.                          *)
LEMMA WfcqInPlace ==
    ASSUME WfcqIInv, NEW u \in WfcqThreads, wq_pc[u] = "link"
    PROVE  WfcqPlaced(wq_frame[u].node) /\ wq_next[wq_frame[u].node] = NoNode
  BY DEF WfcqIInv, WfcqLinkers, WfcqLinking

(* The first node leaves a queue.                                          *)
LEMMA WfcqDequeuedKeeps ==
    ASSUME WfcqIInv, NEW t \in WfcqThreads, wq_pc[t] \in {"cas_tail", "advance"},
           NEW q \in Queues, q = wq_frame[t].q, NEW x \in WfcqMaybe, NEW r,
           wq_next' = [wq_next EXCEPT ![q] = x], x # NoNode => x = WfcqFirst(Tail(wq_fifo[q])),
           wq_fifo' = [wq_fifo EXCEPT ![q] = Tail(@)], wq_tail' \in [Queues -> WfcqCells],
           \A p \in Queues : wq_tail'[p] = WfcqLast(p, wq_fifo'[p]),
           \A u \in WfcqThreads : wq_pc[u] = "link" => wq_frame[u].node # wq_frame[t].node,
           wq_pc' = [wq_pc EXCEPT ![t] = "return"], wq_ret' = [wq_ret EXCEPT ![t] = r],
           UNCHANGED <<wq_lock, wq_use, wq_frame, wq_hand>>
    PROVE  WfcqIInv'
<1>0. /\ WfcqTypeOK /\ WfcqChains /\ WfcqOnce /\ WfcqLinkers /\ WfcqConsumers /\ WfcqHolders
      /\ WfcqWalkers /\ WfcqHolding(t)
  BY DEF WfcqIInv, WfcqHolders
<1>1. PICK s \in Seq(WfcqNodes) : s = wq_fifo[q] /\ s # << >>
  BY <1>0, WfcqHeadFacts DEF WfcqHolding, WfcqDequeue
<1>2. PICK c \in Seq(WfcqNodes) : c = Tail(s)
  BY <1>1, TailFacts
<1>3. PICK n \in WfcqNodes : n = s[1] /\ n = wq_frame[t].node
  BY <1>0, <1>1, TailFacts DEF WfcqHolding, WfcqDequeue
<1>4. Items(s) = Items(c) \cup {n}
  <2>1. Items(s) = Items(Tail(s)) \cup {s[1]}
    BY <1>1, TailItems
  <2> QED BY <1>2, <1>3, <2>1
<1>5. /\ wq_fifo'[q] = c /\ \A p \in Queues : p # q => wq_fifo'[p] = wq_fifo[p]
      /\ wq_next'[q] = x /\ \A m \in WfcqCells : m # q => wq_next'[m] = wq_next[m]
      /\ wq_pc'[t] = "return"
      /\ \A u \in WfcqThreads : u # t => wq_pc'[u] = wq_pc[u] /\ wq_ret'[u] = wq_ret[u]
  BY <1>0, <1>1, <1>2 DEF WfcqTypeOK, WfcqCells
<1>6. WfcqTypeOK'
  <2>1. wq_fifo' \in [Queues -> Seq(WfcqNodes)]
    BY <1>0, <1>1, <1>2 DEF WfcqTypeOK
  <2>2. wq_next' \in [WfcqCells -> WfcqMaybe] /\ wq_pc' \in [WfcqThreads -> WfcqPC]
    BY <1>0 DEF WfcqTypeOK, WfcqPC
  <2>3. wq_ret' = [u \in WfcqThreads |-> wq_ret'[u]]
    BY <1>0 DEF WfcqTypeOK
  <2> QED BY <1>0, <2>1, <2>2, <2>3 DEF WfcqTypeOK
<1>7. x # NoNode => x = WfcqFirst(c)
  BY <1>1, <1>2
<1>8. UNCHANGED <<wq_lock, wq_use, wq_frame, wq_hand>>
  OBVIOUS
<1>9. \A u \in WfcqThreads : wq_pc[u] = "link" => wq_frame[u].node # q /\ wq_frame[u].node # n
  BY <1>0, <1>3 DEF WfcqHolding, WfcqReset
<1>10. \A p \in Queues : wq_tail'[p] = WfcqLast(p, wq_fifo'[p])
  OBVIOUS
<1>11. q \in WfcqCells /\ q \notin WfcqNodes
  BY WfcqueueAssumption DEF WfcqCells
<1>12. \A u \in WfcqThreads : u # t /\ wq_pc[u] \in {"sync_head", "take_tail"} \cup WfcqDequeue \cup WfcqIterate
          => wq_frame[u].q \in Queues /\ wq_frame[u].q # q
  <2>1. \A u \in WfcqThreads : u # t /\ wq_pc[u] \in {"sync_head", "take_tail"} \cup WfcqDequeue \cup WfcqIterate
          => wq_frame[u].q \in Queues
    BY <1>0 DEF WfcqConsumers, WfcqConsuming, WfcqConsume, WfcqSplice
  <2>2. \A u \in WfcqThreads : u # t /\ wq_pc[u] \in {"sync_head", "take_tail"} \cup WfcqDequeue \cup WfcqIterate
          => wq_frame[u].q # q
    BY WfcqExclusive DEF WfcqDequeue, WfcqSplice
  <2> QED BY <2>1, <2>2
<1>13. WfcqChains'
  <2>1. PICK ahead \in [WfcqCells -> WfcqMaybe] : WfcqAhead(ahead) /\ WfcqLinked(ahead)
    BY <1>0 DEF WfcqChains
  <2>2. WfcqFirst(c) \in WfcqMaybe
    BY EmptySeq DEF WfcqFirst, WfcqMaybe
  <2>3. PICK ahead2 \in [WfcqCells -> WfcqMaybe] :
           ahead2[q] = WfcqFirst(c) /\ \A m \in WfcqCells : m # q => ahead2[m] = ahead[m]
    <3>1. [ahead EXCEPT ![q] = WfcqFirst(c)] \in [WfcqCells -> WfcqMaybe]
      BY <2>2
    <3> QED BY <1>11, <3>1
  <2>4. WfcqAhead(ahead2)'
    <3>1. ASSUME NEW m \in WfcqCells, wq_next'[m] # NoNode PROVE ahead2[m] = wq_next'[m]
      BY <1>5, <1>7, <2>1, <2>3, <3>1 DEF WfcqAhead
    <3>2. ASSUME NEW u \in WfcqThreads, wq_pc'[u] = "link"
          PROVE  ahead2[wq_frame'[u].node] = wq_frame'[u].next
      BY <1>0, <1>5, <1>8, <1>9, <2>1, <2>3, <3>2 DEF WfcqAhead, WfcqLinkers, WfcqLinking
    <3> QED BY <3>1, <3>2 DEF WfcqAhead
  <2>5. \A m \in WfcqNodes : ahead2[m] = ahead[m]
    BY <1>11, <2>3 DEF WfcqCells
  <2>6. WfcqLinked(ahead2)'
    <3>1. Chain(ahead2, c, NoNode)
      <4>1. Chain(ahead, s, NoNode)
        BY <1>1, <2>1 DEF WfcqLinked
      <4>2. Chain(ahead, c, NoNode)
        BY <1>1, <1>2, <4>1, ChainTail
      <4> QED BY <2>5, <4>2, ChainKept, ItemsType
    <3>2. ASSUME NEW p \in Queues, p # q
          PROVE  Chain(ahead2, wq_fifo'[p], NoNode) /\ ahead2[p] = WfcqFirst(wq_fifo'[p])
      <4>1. /\ Chain(ahead, wq_fifo[p], NoNode) /\ ahead[p] = WfcqFirst(wq_fifo[p])
            /\ wq_fifo'[p] = wq_fifo[p] /\ wq_fifo[p] \in Seq(WfcqNodes)
        BY <1>5, <2>1, <3>2, WfcqHeadFacts DEF WfcqLinked
      <4>2. Chain(ahead2, wq_fifo[p], NoNode)
        BY <2>5, <4>1, ChainKept, ItemsType
      <4> QED BY <2>3, <3>2, <4>1, <4>2 DEF WfcqCells
    <3>3. ASSUME NEW u \in WfcqThreads PROVE Chain(ahead2, wq_hand'[u], NoNode)
      <4>1. Chain(ahead, wq_hand[u], NoNode) /\ wq_hand[u] \in Seq(WfcqNodes)
        BY <1>0, <2>1 DEF WfcqLinked, WfcqTypeOK
      <4>2. Chain(ahead2, wq_hand[u], NoNode)
        BY <2>5, <4>1, ChainKept, ItemsType
      <4> QED BY <1>8, <4>2
    <3> QED BY <1>5, <2>3, <3>1, <3>2, <3>3 DEF WfcqLinked
  <2> QED BY <1>10, <2>3, <2>4, <2>6 DEF WfcqChains
<1>14. \A p \in Queues : Items(wq_fifo'[p]) \subseteq Items(wq_fifo[p])
  BY <1>1, <1>4, <1>5
<1>15. WfcqOnce'
  <2>1. \A a, b \in Queues : a # b => Items(wq_fifo'[a]) \cap Items(wq_fifo'[b]) = {}
    BY <1>0, <1>14 DEF WfcqOnce
  <2>2. \A u \in WfcqThreads, p \in Queues : Items(wq_hand[u]) \cap Items(wq_fifo'[p]) = {}
    BY <1>0, <1>14 DEF WfcqOnce
  <2>3. \A u, v \in WfcqThreads : u # v => Items(wq_hand[u]) \cap Items(wq_hand[v]) = {}
    BY <1>0 DEF WfcqOnce
  <2> QED BY <1>8, <2>1, <2>2, <2>3 DEF WfcqOnce
<1>16. \A m \in WfcqCells : WfcqPlaced(m) /\ m # n => WfcqPlaced(m)'
  BY <1>1, <1>4, <1>5, <1>8 DEF WfcqPlaced
<1>17. WfcqLinkers'
  BY <1>0, <1>5, <1>8, <1>9, <1>16 DEF WfcqLinkers, WfcqLinking
<1>18. ASSUME NEW u \in WfcqThreads PROVE WfcqConsuming(u)' /\ WfcqWalking(u)'
  <2>1. WfcqConsuming(u) /\ WfcqWalking(u)
    BY <1>0 DEF WfcqConsumers, WfcqWalkers
  <2>2. CASE u = t
    <3>1. WfcqConsuming(u)'
      BY <1>5, <2>2 DEF WfcqConsuming, WfcqConsume, WfcqDequeue, WfcqIterate, WfcqSplice
    <3>2. WfcqWalking(u)'
      BY <1>5, <1>8, <2>1, <2>2 DEF WfcqWalking, WfcqIterate
    <3> QED BY <3>1, <3>2
  <2>3. CASE u # t
    <3>1. WfcqConsuming(u)'
      BY <1>5, <1>8, <2>1, <2>3 DEF WfcqConsuming
    <3>2. wq_pc[u] \in WfcqIterate => wq_fifo'[wq_frame[u].q] = wq_fifo[wq_frame[u].q]
      BY <1>5, <1>12, <2>3
    <3>3. WfcqWalking(u)'
      <4>1. /\ wq_pc'[u] = wq_pc[u] /\ wq_ret'[u] = wq_ret[u] /\ wq_frame'[u] = wq_frame[u]
            /\ wq_hand'[u] = wq_hand[u]
        BY <1>5, <1>8, <2>3
      <4> QED BY <2>1, <3>2, <4>1 DEF WfcqWalking
    <3> QED BY <3>1, <3>3
  <2> QED BY <2>2, <2>3
<1>19. ASSUME NEW u \in WfcqThreads PROVE WfcqHolding(u)'
  <2>1. CASE u = t
    BY <1>5, <2>1 DEF WfcqHolding, WfcqDequeue, WfcqReset
  <2>2. CASE u # t
    <3>0. WfcqHolding(u) /\ wq_pc'[u] = wq_pc[u]
      BY <1>0, <1>5, <2>2 DEF WfcqHolders
    <3>1. wq_pc[u] \in {"sync_head", "take_tail"} \cup WfcqDequeue =>
             /\ wq_frame[u].q \in Queues /\ wq_frame[u].q # q
             /\ wq_fifo'[wq_frame[u].q] = wq_fifo[wq_frame[u].q]
             /\ wq_next'[wq_frame[u].q] = wq_next[wq_frame[u].q]
      BY <1>5, <1>12, <2>2 DEF WfcqCells
    <3>2. wq_pc[u] \in WfcqDequeue => wq_frame[u].node \in WfcqNodes
      BY <3>0, <3>1, WfcqNextFacts, WfcqTailFacts DEF WfcqHolding
    <3>3. wq_pc[u] = "advance" => wq_next'[wq_frame[u].node] = wq_next[wq_frame[u].node]
      BY <1>5, <1>11, <3>2 DEF WfcqCells, WfcqDequeue
    <3>4. \A v \in WfcqThreads : wq_pc'[v] = "link" => wq_pc[v] = "link"
      BY <1>5
    <3>5. \A v \in WfcqThreads : wq_pc'[v] = "take_tail" => wq_pc[v] = "take_tail"
      BY <1>5
    <3> QED BY <1>8, <3>0, <3>1, <3>3, <3>4, <3>5 DEF WfcqHolding, WfcqDequeue, WfcqReset
  <2> QED BY <2>1, <2>2
<1> QED BY <1>6, <1>13, <1>15, <1>17, <1>18, <1>19
        DEF WfcqIInv, WfcqConsumers, WfcqHolders, WfcqWalkers

(* The last item of a queue that loses its first one.                      *)
LEMMA WfcqLastTail ==
    ASSUME NEW s \in Seq(WfcqNodes), Len(s) > 1, NEW q
    PROVE  /\ WfcqLast(q, Tail(s)) = s[Len(s)] /\ WfcqFirst(Tail(s)) = s[2]
           /\ WfcqLast(q, s) = s[Len(s)]
<1>0. s # << >> /\ Len(s) \in Nat
  BY EmptySeq, LenProperties
<1>1. PICK c \in Seq(WfcqNodes) : c = Tail(s)
  BY <1>0, TailFacts
<1>2. Len(c) = Len(s) - 1 /\ \A i \in 1 .. Len(s) - 1 : c[i] = s[i + 1]
  BY <1>0, <1>1, TailFacts
<1>3. Len(s) - 1 \in 1 .. Len(s) - 1 /\ 1 \in 1 .. Len(s) - 1 /\ (Len(s) - 1) + 1 = Len(s) /\ 1 + 1 = 2
  BY <1>0
<1>4. c[Len(c)] = s[Len(s)] /\ c[1] = s[2]
  BY <1>2, <1>3
<1>5. c # << >>
  BY <1>0, <1>2, EmptySeq
<1> QED BY <1>0, <1>1, <1>4, <1>5 DEF WfcqLast, WfcqFirst

(* head->node.next = next                                                  *)
LEMMA WfcqAdvanceKeeps ==
    ASSUME WfcqIInv, NEW t \in WfcqThreads, Advance(t)
    PROVE  WfcqIInv'
<1>0. WfcqTypeOK /\ WfcqConsuming(t) /\ WfcqHolding(t) /\ WfcqChains /\ wq_pc[t] = "advance"
  BY DEF WfcqIInv, WfcqConsumers, WfcqHolders, Advance
<1>1. PICK q \in Queues : q = wq_frame[t].q
  BY <1>0 DEF WfcqConsuming, WfcqConsume, WfcqDequeue
<1>2. /\ wq_fifo[q] # << >> /\ wq_frame[t].node = wq_fifo[q][1]
      /\ wq_frame[t].next = wq_next[wq_frame[t].node] /\ wq_frame[t].next # NoNode
  BY <1>0, <1>1 DEF WfcqHolding, WfcqDequeue
<1>3. /\ wq_fifo[q] \in Seq(WfcqNodes) /\ Len(wq_fifo[q]) > 1 /\ wq_frame[t].next = wq_fifo[q][2]
      /\ wq_frame[t].next \in WfcqMaybe
  <2>1. 1 \in 1 .. Len(wq_fifo[q]) /\ wq_fifo[q] \in Seq(WfcqNodes) /\ Len(wq_fifo[q]) \in Nat
    BY <1>2, WfcqHeadFacts, WfcqTailFacts
  <2>2. 1 < Len(wq_fifo[q]) /\ wq_frame[t].next = wq_fifo[q][1 + 1]
    BY <1>2, <2>1, WfcqNextFacts
  <2>3. wq_frame[t].next \in WfcqMaybe
    BY <1>0 DEF WfcqTypeOK, WfcqFrames
  <2> QED BY <2>1, <2>2, <2>3
<1>4. PICK x \in WfcqMaybe : x = wq_frame[t].next
  BY <1>3
<1>5. PICK r : r = <<"took", wq_frame[t].node, FALSE>>
  OBVIOUS
<1>6. /\ wq_next' = [wq_next EXCEPT ![q] = x] /\ wq_fifo' = [wq_fifo EXCEPT ![q] = Tail(@)]
      /\ wq_pc' = [wq_pc EXCEPT ![t] = "return"] /\ wq_ret' = [wq_ret EXCEPT ![t] = r]
      /\ UNCHANGED <<wq_tail, wq_lock, wq_use, wq_frame, wq_hand>>
  BY <1>1, <1>4, <1>5 DEF Advance, Dequeued, Result, Goto
<1>7. x = WfcqFirst(Tail(wq_fifo[q]))
  BY <1>3, <1>4, WfcqLastTail
<1>8. wq_tail' \in [Queues -> WfcqCells] /\ wq_tail' = wq_tail
  BY <1>0, <1>6 DEF WfcqTypeOK
<1>9. ASSUME NEW p \in Queues PROVE wq_tail'[p] = WfcqLast(p, wq_fifo'[p])
  <2>1. wq_tail[p] = WfcqLast(p, wq_fifo[p])
    BY <1>0 DEF WfcqChains
  <2>2. CASE p = q
    <3>1. wq_fifo'[p] = Tail(wq_fifo[q])
      BY <1>0, <1>6, <2>2 DEF WfcqTypeOK
    <3> QED BY <1>3, <1>8, <2>1, <2>2, <3>1, WfcqLastTail
  <2>3. CASE p # q
    <3>1. wq_fifo'[p] = wq_fifo[p]
      BY <1>0, <1>6, <2>3 DEF WfcqTypeOK
    <3> QED BY <1>8, <2>1, <3>1
  <2> QED BY <2>2, <2>3
<1>10. \A u \in WfcqThreads : wq_pc[u] = "link" => wq_frame[u].node # wq_frame[t].node
  BY <1>2, WfcqInPlace
<1>11. UNCHANGED <<wq_lock, wq_use, wq_frame, wq_hand>>
  BY <1>6
<1> QED BY <1>0, <1>1, <1>6, <1>7, <1>8, <1>9, <1>10, <1>11, WfcqDequeuedKeeps

(* uatomic_cmpxchg(&tail->p, node, &head->node)                            *)
LEMMA WfcqCasTailKeeps ==
    ASSUME WfcqIInv, NEW t \in WfcqThreads, CasTail(t)
    PROVE  WfcqIInv'
<1>0. /\ WfcqTypeOK /\ WfcqConsuming(t) /\ WfcqHolding(t) /\ WfcqWalking(t) /\ WfcqChains
      /\ wq_pc[t] = "cas_tail"
  BY DEF WfcqIInv, WfcqConsumers, WfcqHolders, WfcqWalkers, CasTail
<1>1. PICK q \in Queues : q = wq_frame[t].q
  BY <1>0 DEF WfcqConsuming, WfcqConsume, WfcqDequeue
<1>2. CASE wq_tail[q] # wq_frame[t].node
  <2>1. /\ wq_pc' = [wq_pc EXCEPT ![t] = "sync_next"]
        /\ UNCHANGED <<wq_next, wq_tail, wq_lock, wq_use, wq_frame, wq_fifo, wq_hand, wq_ret>>
    BY <1>1, <1>2 DEF CasTail, Goto
  <2>2. wq_pc'[t] = "sync_next" /\ \A u \in WfcqThreads : u # t => wq_pc'[u] = wq_pc[u]
    BY <1>0, <2>1 DEF WfcqTypeOK
  <2>3. WfcqConsuming(t)'
    BY <1>0, <2>1, <2>2 DEF WfcqConsuming, WfcqConsume, WfcqDequeue, WfcqIterate, WfcqSplice
  <2>4. WfcqHolding(t)' /\ WfcqWalking(t)'
    BY <1>0, <2>1, <2>2 DEF WfcqHolding, WfcqWalking, WfcqDequeue, WfcqReset, WfcqIterate
  <2> QED BY <1>0, <2>1, <2>3, <2>4, WfcqMoveKeeps DEF WfcqPC
<1>3. CASE wq_tail[q] = wq_frame[t].node
  <2>1. /\ wq_fifo[q] # << >> /\ wq_frame[t].node = wq_fifo[q][1] /\ wq_next[q] = NoNode
    BY <1>0, <1>1 DEF WfcqHolding, WfcqDequeue, WfcqReset
  <2>2. wq_fifo[q] \in Seq(WfcqNodes) /\ Len(wq_fifo[q]) = 1
    <3>1. wq_fifo[q] \in Seq(WfcqNodes) /\ Len(wq_fifo[q]) \in Nat \ {0}
      BY <2>1, WfcqHeadFacts, WfcqTailFacts
    <3>2. 1 \in 1 .. Len(wq_fifo[q])
      BY <3>1
    <3>3. wq_tail[q] = wq_fifo[q][1] => 1 = Len(wq_fifo[q])
      BY <2>1, <3>2, WfcqTailFacts
    <3> QED BY <1>3, <2>1, <3>1, <3>3
  <2>3. Tail(wq_fifo[q]) = << >>
    <3>1. Tail(wq_fifo[q]) \in Seq(WfcqNodes) /\ Len(Tail(wq_fifo[q])) = 0
      BY <2>1, <2>2, TailFacts
    <3> QED BY <3>1, EmptySeq
  <2>4. PICK r : r = <<"took", wq_frame[t].node, TRUE>>
    OBVIOUS
  <2>5. /\ wq_next' = wq_next /\ wq_fifo' = [wq_fifo EXCEPT ![q] = Tail(@)]
        /\ wq_tail' = [wq_tail EXCEPT ![q] = q]
        /\ wq_pc' = [wq_pc EXCEPT ![t] = "return"] /\ wq_ret' = [wq_ret EXCEPT ![t] = r]
        /\ UNCHANGED <<wq_lock, wq_use, wq_frame, wq_hand>>
    BY <1>1, <1>3, <2>4 DEF CasTail, Dequeued, Result, Goto
  <2>6. wq_next' = [wq_next EXCEPT ![q] = NoNode]
    BY <1>0, <2>1, <2>5 DEF WfcqTypeOK, WfcqCells
  <2>7. wq_tail' \in [Queues -> WfcqCells]
    BY <1>0, <2>5 DEF WfcqTypeOK, WfcqCells
  <2>8. ASSUME NEW p \in Queues PROVE wq_tail'[p] = WfcqLast(p, wq_fifo'[p])
    <3>1. wq_tail[p] = WfcqLast(p, wq_fifo[p])
      BY <1>0 DEF WfcqChains
    <3>2. CASE p = q
      <4>1. wq_fifo'[p] = << >> /\ wq_tail'[p] = q
        BY <1>0, <2>3, <2>5, <3>2 DEF WfcqTypeOK
      <4> QED BY <3>2, <4>1 DEF WfcqLast
    <3>3. CASE p # q
      <4>1. wq_fifo'[p] = wq_fifo[p] /\ wq_tail'[p] = wq_tail[p]
        BY <1>0, <2>5, <3>3 DEF WfcqTypeOK
      <4> QED BY <3>1, <4>1
    <3> QED BY <3>2, <3>3
  <2>9. \A u \in WfcqThreads : wq_pc[u] = "link" => wq_frame[u].node # wq_frame[t].node
    BY <1>0, <1>3, WfcqLastFree DEF WfcqChains
  <2>10. NoNode \in WfcqMaybe
    BY DEF WfcqMaybe
  <2>11. /\ UNCHANGED <<wq_lock, wq_use, wq_frame, wq_hand>>
         /\ wq_fifo' = [wq_fifo EXCEPT ![q] = Tail(@)]
         /\ wq_pc' = [wq_pc EXCEPT ![t] = "return"] /\ wq_ret' = [wq_ret EXCEPT ![t] = r]
    BY <2>5
  <2> QED BY <1>0, <1>1, <2>6, <2>7, <2>8, <2>9, <2>10, <2>11, WfcqDequeuedKeeps
<1> QED BY <1>2, <1>3

(* A splice takes the tail, and with it the nodes of its source.           *)
LEMMA WfcqTakeTailKeeps ==
    ASSUME WfcqIInv, NEW t \in WfcqThreads, TakeTail(t)
    PROVE  WfcqIInv'
<1>0. /\ WfcqTypeOK /\ WfcqChains /\ WfcqOnce /\ WfcqLinkers /\ WfcqConsumers /\ WfcqHolders
      /\ WfcqWalkers /\ WfcqConsuming(t) /\ WfcqHolding(t) /\ WfcqWalking(t) /\ wq_pc[t] = "take_tail"
  BY DEF WfcqIInv, WfcqConsumers, WfcqHolders, WfcqWalkers, TakeTail
<1>1. PICK q \in Queues : q = wq_frame[t].q
  BY <1>0 DEF WfcqConsuming, WfcqConsume, WfcqSplice
<1>2. PICK s \in Seq(WfcqNodes) : s = wq_fifo[q] /\ s # << >>
  BY <1>0, <1>1, WfcqHeadFacts DEF WfcqHolding
<1>3. /\ wq_frame[t].next = s[1] /\ wq_next[q] = NoNode /\ wq_frame[t].dest \in Queues
      /\ wq_hand[t] = << >>
      /\ \A u \in WfcqThreads : wq_pc[u] = "link" => wq_frame[u].node # q
      /\ \A u \in WfcqThreads : u # t /\ wq_pc[u] = "take_tail" => wq_frame[u].q # q
  BY <1>0, <1>1, <1>2 DEF WfcqHolding, WfcqReset, WfcqConsuming, WfcqConsume, WfcqSplice, WfcqWalking
<1>4. PICK m \in WfcqCells : m = wq_tail[q] /\ m = s[Len(s)]
  BY <1>0, <1>2, WfcqTailFacts DEF WfcqTypeOK
<1>5. /\ wq_tail' = [wq_tail EXCEPT ![q] = q] /\ wq_frame' = [wq_frame EXCEPT ![t].node = m]
      /\ wq_hand' = [wq_hand EXCEPT ![t] = s] /\ wq_fifo' = [wq_fifo EXCEPT ![q] = << >>]
      /\ wq_pc' = [wq_pc EXCEPT ![t] = "append"]
      /\ UNCHANGED <<wq_next, wq_lock, wq_use, wq_ret>>
  BY <1>1, <1>2, <1>4 DEF TakeTail, Goto
<1>6. /\ wq_frame' \in [WfcqThreads -> WfcqFrames]
      /\ \A u \in WfcqThreads : u # t => wq_frame'[u] = wq_frame[u]
      /\ wq_frame'[t].node = m /\ wq_frame'[t].next = s[1] /\ wq_frame'[t].dest \in Queues
  BY <1>0, <1>3, <1>5, WfcqSetNode
<1>7. /\ wq_pc'[t] = "append" /\ wq_hand'[t] = s
      /\ \A u \in WfcqThreads : u # t => wq_pc'[u] = wq_pc[u] /\ wq_hand'[u] = wq_hand[u]
      /\ wq_fifo'[q] = << >> /\ wq_tail'[q] = q
      /\ \A p \in Queues : p # q => wq_fifo'[p] = wq_fifo[p] /\ wq_tail'[p] = wq_tail[p]
  BY <1>0, <1>5 DEF WfcqTypeOK
<1>8. UNCHANGED <<wq_next, wq_lock, wq_use, wq_ret>>
  BY <1>5
<1>9. WfcqTypeOK'
  <2>1. wq_tail' \in [Queues -> WfcqCells] /\ wq_pc' \in [WfcqThreads -> WfcqPC]
    BY <1>0, <1>5 DEF WfcqTypeOK, WfcqCells, WfcqPC
  <2>2. wq_hand' \in [WfcqThreads -> Seq(WfcqNodes)]
    BY <1>0, <1>5 DEF WfcqTypeOK
  <2>3. wq_fifo' \in [Queues -> Seq(WfcqNodes)]
    <3>1. << >> \in Seq(WfcqNodes)
      BY EmptySeq
    <3> QED BY <1>0, <1>5, <3>1 DEF WfcqTypeOK
  <2> QED BY <1>0, <1>6, <1>8, <2>1, <2>2, <2>3 DEF WfcqTypeOK
<1>10. q \in WfcqCells /\ q \notin WfcqNodes
  BY WfcqueueAssumption DEF WfcqCells
<1>11. WfcqChains'
  <2>1. PICK ahead \in [WfcqCells -> WfcqMaybe] : WfcqAhead(ahead) /\ WfcqLinked(ahead)
    BY <1>0 DEF WfcqChains
  <2>2. PICK ahead2 \in [WfcqCells -> WfcqMaybe] :
           ahead2[q] = NoNode /\ \A n \in WfcqCells : n # q => ahead2[n] = ahead[n]
    <3>1. [ahead EXCEPT ![q] = NoNode] \in [WfcqCells -> WfcqMaybe]
      BY DEF WfcqMaybe
    <3> QED BY <1>10, <3>1
  <2>3. WfcqAhead(ahead2)'
    <3>1. ASSUME NEW n \in WfcqCells, wq_next'[n] # NoNode PROVE ahead2[n] = wq_next'[n]
      BY <1>3, <1>8, <2>1, <2>2, <3>1 DEF WfcqAhead
    <3>2. ASSUME NEW u \in WfcqThreads, wq_pc'[u] = "link"
          PROVE  ahead2[wq_frame'[u].node] = wq_frame'[u].next
      <4>1. wq_pc[u] = "link" /\ wq_frame'[u] = wq_frame[u]
        BY <1>6, <1>7, <3>2
      <4> QED BY <1>0, <1>3, <2>1, <2>2, <4>1 DEF WfcqAhead, WfcqLinkers, WfcqLinking
    <3> QED BY <3>1, <3>2 DEF WfcqAhead
  <2>4. \A n \in WfcqNodes : ahead2[n] = ahead[n]
    BY <1>10, <2>2 DEF WfcqCells
  <2>5. ASSUME NEW r \in Seq(WfcqNodes), Chain(ahead, r, NoNode) PROVE Chain(ahead2, r, NoNode)
    BY <2>4, <2>5, ChainKept, ItemsType
  <2>6. WfcqLinked(ahead2)'
    <3>1. Chain(ahead2, wq_fifo'[q], NoNode) /\ ahead2[q] = WfcqFirst(wq_fifo'[q])
      BY <1>7, <2>2, ChainEmpty DEF WfcqFirst
    <3>2. ASSUME NEW p \in Queues, p # q
          PROVE  Chain(ahead2, wq_fifo'[p], NoNode) /\ ahead2[p] = WfcqFirst(wq_fifo'[p])
      <4>1. /\ Chain(ahead, wq_fifo[p], NoNode) /\ ahead[p] = WfcqFirst(wq_fifo[p])
            /\ wq_fifo'[p] = wq_fifo[p] /\ wq_fifo[p] \in Seq(WfcqNodes)
        BY <1>7, <2>1, <3>2, WfcqHeadFacts DEF WfcqLinked
      <4> QED BY <2>2, <2>5, <3>2, <4>1 DEF WfcqCells
    <3>3. ASSUME NEW u \in WfcqThreads PROVE Chain(ahead2, wq_hand'[u], NoNode)
      <4>1. CASE u = t
        <5>1. Chain(ahead, s, NoNode)
          BY <1>2, <2>1 DEF WfcqLinked
        <5> QED BY <1>7, <2>5, <4>1, <5>1
      <4>2. CASE u # t
        <5>1. Chain(ahead, wq_hand[u], NoNode) /\ wq_hand[u] \in Seq(WfcqNodes)
          BY <1>0, <2>1 DEF WfcqLinked, WfcqTypeOK
        <5> QED BY <1>7, <2>5, <4>2, <5>1
      <4> QED BY <4>1, <4>2
    <3> QED BY <3>1, <3>2, <3>3 DEF WfcqLinked
  <2>7. ASSUME NEW p \in Queues PROVE wq_tail'[p] = WfcqLast(p, wq_fifo'[p])
    <3>1. wq_tail[p] = WfcqLast(p, wq_fifo[p])
      BY <1>0 DEF WfcqChains
    <3> QED BY <1>7, <3>1 DEF WfcqLast
  <2> QED BY <2>2, <2>3, <2>6, <2>7 DEF WfcqChains
<1>12. /\ Items(wq_fifo'[q]) = {} /\ \A p \in Queues : p # q => Items(wq_fifo'[p]) = Items(wq_fifo[p])
       /\ Items(wq_hand'[t]) = Items(wq_fifo[q])
       /\ \A u \in WfcqThreads : u # t => Items(wq_hand'[u]) = Items(wq_hand[u])
  BY <1>2, <1>7, ChainEmpty
<1>13. WfcqOnce'
  <2>1. \A a, b \in Queues : a # b => Items(wq_fifo'[a]) \cap Items(wq_fifo'[b]) = {}
    BY <1>0, <1>12 DEF WfcqOnce
  <2>2. ASSUME NEW u \in WfcqThreads, NEW p \in Queues
        PROVE  Items(wq_hand'[u]) \cap Items(wq_fifo'[p]) = {}
    <3>1. CASE p = q
      BY <1>12, <3>1
    <3>2. CASE p # q /\ u = t
      <4>1. Items(wq_fifo[q]) \cap Items(wq_fifo[p]) = {}
        BY <1>0, <3>2 DEF WfcqOnce
      <4> QED BY <1>12, <3>2, <4>1
    <3>3. CASE p # q /\ u # t
      <4>1. Items(wq_hand[u]) \cap Items(wq_fifo[p]) = {}
        BY <1>0 DEF WfcqOnce
      <4> QED BY <1>12, <3>3, <4>1
    <3> QED BY <3>1, <3>2, <3>3
  <2>3. ASSUME NEW u \in WfcqThreads, NEW v \in WfcqThreads, u # v
        PROVE  Items(wq_hand'[u]) \cap Items(wq_hand'[v]) = {}
    <3>1. /\ Items(wq_hand[u]) \cap Items(wq_hand[v]) = {}
          /\ Items(wq_hand[u]) \cap Items(wq_fifo[q]) = {} /\ Items(wq_hand[v]) \cap Items(wq_fifo[q]) = {}
      BY <1>0, <2>3 DEF WfcqOnce
    <3> QED BY <1>12, <2>3, <3>1
  <2> QED BY <2>1, <2>2, <2>3 DEF WfcqOnce
<1>14. \A n \in WfcqCells : WfcqPlaced(n) => WfcqPlaced(n)'
  <2>1. Items(wq_hand[t]) = {}
    BY <1>3, ChainEmpty
  <2> QED BY <1>12, <2>1 DEF WfcqPlaced
<1>15. WfcqLinkers'
  BY <1>0, <1>6, <1>7, <1>8, <1>14 DEF WfcqLinkers, WfcqLinking
<1>16. \A u \in WfcqThreads : u # t /\ wq_pc[u] \in {"sync_head", "take_tail"} \cup WfcqDequeue \cup WfcqIterate
          => wq_frame[u].q \in Queues /\ wq_frame[u].q # q
  <2>1. \A u \in WfcqThreads : wq_pc[u] \in {"sync_head", "take_tail"} \cup WfcqDequeue \cup WfcqIterate
          => wq_frame[u].q \in Queues
    BY <1>0 DEF WfcqConsumers, WfcqConsuming, WfcqConsume, WfcqSplice
  <2>2. \A u \in WfcqThreads : u # t /\ wq_pc[u] \in {"sync_head"} \cup WfcqDequeue \cup WfcqIterate
          => wq_frame[u].q # q
    BY <1>0, <1>1, WfcqExclusive DEF WfcqSplice
  <2> QED BY <1>3, <2>1, <2>2
<1>17. ASSUME NEW u \in WfcqThreads PROVE WfcqConsuming(u)' /\ WfcqWalking(u)'
  <2>1. WfcqConsuming(u) /\ WfcqWalking(u)
    BY <1>0 DEF WfcqConsumers, WfcqWalkers
  <2>2. CASE u = t
    <3>1. WfcqConsuming(u)'
      BY <1>7, <2>2 DEF WfcqConsuming, WfcqConsume, WfcqDequeue, WfcqIterate, WfcqSplice
    <3>2. WfcqWalking(u)'
      BY <1>0, <1>2, <1>4, <1>6, <1>7, <1>8, <2>1, <2>2 DEF WfcqWalking, WfcqIterate
    <3> QED BY <3>1, <3>2
  <2>3. CASE u # t
    <3>1. WfcqConsuming(u)'
      BY <1>6, <1>7, <1>8, <2>1, <2>3 DEF WfcqConsuming
    <3>2. wq_pc[u] \in WfcqIterate => wq_fifo'[wq_frame[u].q] = wq_fifo[wq_frame[u].q]
      BY <1>7, <1>16, <2>3
    <3>3. WfcqWalking(u)'
      BY <1>6, <1>7, <1>8, <2>1, <2>3, <3>2 DEF WfcqWalking
    <3> QED BY <3>1, <3>3
  <2> QED BY <2>2, <2>3
<1>18. ASSUME NEW u \in WfcqThreads PROVE WfcqHolding(u)'
  <2>1. CASE u = t
    BY <1>7, <2>1 DEF WfcqHolding, WfcqDequeue, WfcqReset
  <2>2. CASE u # t
    <3>0. WfcqHolding(u) /\ wq_pc'[u] = wq_pc[u] /\ wq_frame'[u] = wq_frame[u]
      BY <1>0, <1>6, <1>7, <2>2 DEF WfcqHolders
    <3>1. wq_pc[u] \in {"sync_head", "take_tail"} \cup WfcqDequeue =>
             wq_fifo'[wq_frame[u].q] = wq_fifo[wq_frame[u].q]
      BY <1>7, <1>16, <2>2
    <3>2. \A v \in WfcqThreads : wq_pc'[v] \in {"link", "take_tail"} =>
             wq_pc[v] = wq_pc'[v] /\ wq_frame'[v] = wq_frame[v]
      BY <1>6, <1>7
    <3> QED BY <1>8, <3>0, <3>1, <3>2 DEF WfcqHolding, WfcqDequeue, WfcqReset
  <2> QED BY <2>1, <2>2
<1> QED BY <1>9, <1>11, <1>13, <1>15, <1>17, <1>18
        DEF WfcqIInv, WfcqConsumers, WfcqHolders, WfcqWalkers

(* The exchange of an append: r is behind the nodes of q, and its link is  *)
(* to come.                                                                *)
WfcqAppended(t, q, r) ==
    /\ wq_pc[t] # "link" /\ wq_pc' = [wq_pc EXCEPT ![t] = "link"]
    /\ wq_tail' = [wq_tail EXCEPT ![q] = r[Len(r)]]
    /\ wq_frame' = [wq_frame EXCEPT ![t].node = wq_tail[q], ![t].next = r[1]]
    /\ wq_fifo' = [wq_fifo EXCEPT ![q] = wq_fifo[q] \o r]
    /\ wq_hand' = [wq_hand EXCEPT ![t] = << >>]
    /\ wq_next' \in [WfcqCells -> WfcqMaybe]
    /\ wq_ret' = [u \in WfcqThreads |-> wq_ret'[u]]
    /\ \A u \in WfcqThreads : u # t => wq_ret'[u] = wq_ret[u]
    /\ \A m \in WfcqCells : WfcqPlaced(m) => wq_next'[m] = wq_next[m]
    /\ Items(wq_hand[t]) \subseteq Items(r)
    /\ \A p \in Queues : Items(r) \cap Items(wq_fifo[p]) = {}
    /\ \A u \in WfcqThreads : u # t => Items(r) \cap Items(wq_hand[u]) = {}
    /\ UNCHANGED <<wq_lock, wq_use>>

(* What changes with it.                                                   *)
LEMMA WfcqAppendedFacts ==
    ASSUME WfcqIInv, NEW t \in WfcqThreads, NEW q \in Queues, NEW r \in Seq(WfcqNodes),
           r # << >>, WfcqAppended(t, q, r)
    PROVE  /\ r[1] \in WfcqNodes /\ r[Len(r)] \in WfcqNodes /\ Len(r) \in Nat \ {0}
           /\ wq_pc'[t] = "link" /\ wq_hand'[t] = << >>
           /\ \A u \in WfcqThreads : u # t =>
                 /\ wq_pc'[u] = wq_pc[u] /\ wq_hand'[u] = wq_hand[u]
                 /\ wq_frame'[u] = wq_frame[u]
           /\ wq_frame'[t].node = wq_tail[q] /\ wq_frame'[t].next = r[1]
           /\ wq_fifo'[q] = wq_fifo[q] \o r /\ wq_tail'[q] = r[Len(r)]
           /\ \A p \in Queues : p # q => wq_fifo'[p] = wq_fifo[p] /\ wq_tail'[p] = wq_tail[p]
           /\ WfcqTypeOK'
<1>0. WfcqTypeOK
  BY DEF WfcqIInv
<1>1. r[1] \in WfcqNodes /\ r[Len(r)] \in WfcqNodes /\ Len(r) \in Nat \ {0}
  BY EmptySeq
<1>2. /\ wq_pc'[t] = "link" /\ wq_hand'[t] = << >>
      /\ \A u \in WfcqThreads : u # t => wq_pc'[u] = wq_pc[u] /\ wq_hand'[u] = wq_hand[u]
  BY <1>0 DEF WfcqAppended, WfcqTypeOK
<1>3. wq_tail[q] \in WfcqCells /\ r[1] \in WfcqMaybe
  BY <1>0, <1>1 DEF WfcqTypeOK, WfcqMaybe
<1>4. /\ wq_frame' \in [WfcqThreads -> WfcqFrames]
      /\ \A u \in WfcqThreads : u # t => wq_frame'[u] = wq_frame[u]
      /\ wq_frame'[t].node = wq_tail[q] /\ wq_frame'[t].next = r[1]
  <2>1. PICK n \in WfcqCells : n = wq_tail[q]
    BY <1>3
  <2>2. PICK m \in WfcqMaybe : m = r[1]
    BY <1>3
  <2>3. wq_frame' = [wq_frame EXCEPT ![t].node = n, ![t].next = m]
    BY <2>1, <2>2 DEF WfcqAppended
  <2>4. wq_frame'[t].node = n
    BY <1>0, <2>3 DEF WfcqTypeOK, WfcqFrames
  <2>5. wq_frame'[t].next = m
    BY <1>0, <2>3 DEF WfcqTypeOK, WfcqFrames
  <2>6. /\ wq_frame' \in [WfcqThreads -> WfcqFrames]
        /\ \A u \in WfcqThreads : u # t => wq_frame'[u] = wq_frame[u]
    BY <1>0, <2>3, WfcqSetBoth
  <2> QED BY <2>1, <2>2, <2>4, <2>5, <2>6
<1>5. /\ wq_fifo'[q] = wq_fifo[q] \o r /\ wq_tail'[q] = r[Len(r)]
      /\ \A p \in Queues : p # q => wq_fifo'[p] = wq_fifo[p] /\ wq_tail'[p] = wq_tail[p]
  BY <1>0 DEF WfcqAppended, WfcqTypeOK
<1>6. WfcqTypeOK'
  <2>1. wq_tail' \in [Queues -> WfcqCells] /\ wq_pc' \in [WfcqThreads -> WfcqPC]
    BY <1>0, <1>1 DEF WfcqAppended, WfcqTypeOK, WfcqCells, WfcqPC
  <2>2. wq_fifo' \in [Queues -> Seq(WfcqNodes)]
    <3>1. wq_fifo[q] \o r \in Seq(WfcqNodes)
      BY WfcqHeadFacts, ConcatFacts
    <3> QED BY <1>0, <3>1 DEF WfcqAppended, WfcqTypeOK
  <2>3. wq_hand' \in [WfcqThreads -> Seq(WfcqNodes)]
    <3>1. << >> \in Seq(WfcqNodes)
      BY EmptySeq
    <3> QED BY <1>0, <3>1 DEF WfcqAppended, WfcqTypeOK
  <2> QED BY <1>0, <1>4, <2>1, <2>2, <2>3 DEF WfcqAppended, WfcqTypeOK
<1> QED BY <1>1, <1>2, <1>4, <1>5, <1>6

(* The chains of an append.                                                *)
LEMMA WfcqAppendedChains ==
    ASSUME WfcqIInv, NEW t \in WfcqThreads, NEW q \in Queues, NEW r \in Seq(WfcqNodes),
           r # << >>, WfcqAppended(t, q, r),
           NEW ahead \in [WfcqCells -> WfcqMaybe], WfcqAhead(ahead), WfcqLinked(ahead),
           NEW ahead1 \in [WfcqCells -> WfcqMaybe], Chain(ahead1, r, NoNode),
           \A m \in WfcqCells : wq_next'[m] # NoNode => ahead1[m] = wq_next'[m],
           \A m \in WfcqCells : WfcqPlaced(m) => ahead1[m] = ahead[m]
    PROVE  WfcqChains'
<1>0. WfcqTypeOK /\ WfcqChains /\ WfcqLinkers
  BY DEF WfcqIInv
<1> DEFINE s == wq_fifo[q]
           l == wq_tail[q]
<1>1. /\ r[1] \in WfcqNodes /\ Len(r) \in Nat \ {0}
      /\ wq_pc'[t] = "link" /\ wq_hand'[t] = << >>
      /\ \A u \in WfcqThreads : u # t =>
            /\ wq_pc'[u] = wq_pc[u] /\ wq_hand'[u] = wq_hand[u] /\ wq_frame'[u] = wq_frame[u]
      /\ wq_frame'[t].node = l /\ wq_frame'[t].next = r[1]
      /\ wq_fifo'[q] = s \o r /\ wq_tail'[q] = r[Len(r)]
      /\ \A p \in Queues : p # q => wq_fifo'[p] = wq_fifo[p] /\ wq_tail'[p] = wq_tail[p]
  BY WfcqAppendedFacts
<1>2. /\ l \in WfcqCells /\ WfcqPlaced(l) /\ ahead[l] = NoNode /\ wq_next[l] = NoNode
      /\ \A u \in WfcqThreads : wq_pc[u] = "link" => wq_frame[u].node # l
  BY WfcqLastFree
<1>3. s \in Seq(WfcqNodes) /\ Len(s) \in Nat
  BY WfcqHeadFacts
<1>4. wq_next'[l] = NoNode
  BY <1>2 DEF WfcqAppended
<1>5. /\ s = << >> => l = q
      /\ s # << >> => Len(s) \in Nat \ {0} /\ l = s[Len(s)] /\ \A i \in 1 .. Len(s) : l = s[i] => i = Len(s)
  BY WfcqTailFacts
<1>6. l = q \/ l \in Items(s)
  BY <1>3, <1>5 DEF Items
<1>7. /\ Items(r) \subseteq WfcqNodes /\ Items(s) \subseteq WfcqNodes /\ Items(s) \cap Items(r) = {}
      /\ \A p \in Queues : Items(r) \cap Items(wq_fifo[p]) = {}
      /\ \A u \in WfcqThreads : u # t => Items(r) \cap Items(wq_hand[u]) = {}
  BY <1>3, ItemsType DEF WfcqAppended
<1>8. PICK ahead2 \in [WfcqCells -> WfcqMaybe] :
         ahead2[l] = r[1] /\ \A m \in WfcqCells : m # l => ahead2[m] = ahead1[m]
  <2>1. [ahead1 EXCEPT ![l] = r[1]] \in [WfcqCells -> WfcqMaybe]
    BY <1>1 DEF WfcqMaybe
  <2> QED BY <1>2, <2>1
<1>9. \A p \in Queues : Chain(ahead, wq_fifo[p], NoNode) /\ ahead[p] = WfcqFirst(wq_fifo[p])
  BY DEF WfcqLinked
<1> HIDE DEF s, l
<1>10. WfcqAhead(ahead2)'
  <2>1. ASSUME NEW m \in WfcqCells, wq_next'[m] # NoNode PROVE ahead2[m] = wq_next'[m]
    BY <1>4, <1>8, <2>1
  <2>2. ASSUME NEW u \in WfcqThreads, wq_pc'[u] = "link"
        PROVE  ahead2[wq_frame'[u].node] = wq_frame'[u].next
    <3>1. CASE u = t
      BY <1>1, <1>8, <3>1
    <3>2. CASE u # t
      <4>1. /\ wq_pc[u] = "link" /\ wq_frame'[u] = wq_frame[u] /\ wq_frame[u].node \in WfcqCells
            /\ WfcqPlaced(wq_frame[u].node) /\ wq_frame[u].node # l
        BY <1>0, <1>1, <1>2, <2>2, <3>2 DEF WfcqLinkers, WfcqLinking
      <4>2. ahead[wq_frame[u].node] = wq_frame[u].next
        BY <4>1 DEF WfcqAhead
      <4> QED BY <1>8, <4>1, <4>2
    <3> QED BY <3>1, <3>2
  <2> QED BY <2>1, <2>2 DEF WfcqAhead
<1>11. ASSUME NEW p \in Queues, p # q
       PROVE  Chain(ahead2, wq_fifo'[p], NoNode) /\ ahead2[p] = WfcqFirst(wq_fifo'[p])
  <2>1. wq_fifo[p] \in Seq(WfcqNodes) /\ wq_fifo'[p] = wq_fifo[p]
    BY <1>1, <1>11, WfcqHeadFacts
  <2>2. l \notin Items(wq_fifo[p]) /\ p # l
    <3>1. Items(wq_fifo[p]) \cap Items(s) = {} /\ Items(wq_fifo[p]) \subseteq WfcqNodes
      BY <1>11, <2>1, ItemsType DEF WfcqIInv, WfcqOnce, s
    <3> QED BY <1>6, <1>7, <1>11, <3>1, WfcqueueAssumption
  <2>3. \A m \in Items(wq_fifo[p]) : ahead2[m] = ahead[m]
    <3>1. \A m \in Items(wq_fifo[p]) : m \in WfcqCells /\ WfcqPlaced(m)
      BY <2>1, ItemsType DEF WfcqPlaced, WfcqCells
    <3> QED BY <1>8, <2>2, <3>1
  <2>4. Chain(ahead2, wq_fifo[p], NoNode)
    BY <1>9, <2>1, <2>3, ChainKept
  <2>5. p \in WfcqCells /\ WfcqPlaced(p)
    BY DEF WfcqCells, WfcqPlaced
  <2> QED BY <1>8, <1>9, <2>1, <2>2, <2>4, <2>5
<1>12. ASSUME NEW u \in WfcqThreads PROVE Chain(ahead2, wq_hand'[u], NoNode)
  <2>1. CASE u = t
    BY <1>1, <2>1, ChainEmpty
  <2>2. CASE u # t
    <3>1. /\ wq_hand[u] \in Seq(WfcqNodes) /\ wq_hand'[u] = wq_hand[u]
          /\ Chain(ahead, wq_hand[u], NoNode)
      BY <1>0, <1>1, <2>2 DEF WfcqTypeOK, WfcqLinked
    <3>2. l \notin Items(wq_hand[u])
      <4>1. Items(wq_hand[u]) \cap Items(s) = {} /\ Items(wq_hand[u]) \subseteq WfcqNodes
        BY <3>1, ItemsType DEF WfcqIInv, WfcqOnce, s
      <4> QED BY <1>6, <4>1, WfcqueueAssumption
    <3>3. \A m \in Items(wq_hand[u]) : m \in WfcqCells /\ WfcqPlaced(m)
      BY <3>1, ItemsType DEF WfcqPlaced, WfcqCells
    <3>4. \A m \in Items(wq_hand[u]) : ahead2[m] = ahead[m]
      BY <1>8, <3>2, <3>3
    <3> QED BY <3>1, <3>4, ChainKept
  <2> QED BY <2>1, <2>2
<1>13. \A m \in Items(r) : ahead2[m] = ahead1[m]
  <2>1. l \notin Items(r)
    BY <1>6, <1>7, WfcqueueAssumption
  <2> QED BY <1>7, <1>8, <2>1 DEF WfcqCells
<1>14. Chain(ahead2, s \o r, NoNode) /\ ahead2[q] = WfcqFirst(s \o r) /\ r[Len(r)] = WfcqLast(q, s \o r)
  <2>0. q \in WfcqCells /\ WfcqPlaced(q) /\ q \notin WfcqNodes
    BY WfcqueueAssumption DEF WfcqCells, WfcqPlaced
  <2>1. CASE s = << >>
    <3>1. s \o r = r
      BY <2>1, ConcatEmptySeq
    <3>2. Chain(ahead2, r, NoNode)
      BY <1>13, ChainKept
    <3> QED BY <1>5, <1>8, <2>1, <3>1, <3>2 DEF WfcqFirst, WfcqLast
  <2>2. CASE s # << >>
    <3>1. \A m \in Items(s) : m \in WfcqCells /\ WfcqPlaced(m) /\ ahead1[m] = ahead[m]
      BY <1>7 DEF WfcqPlaced, WfcqCells, s
    <3>2. Chain(ahead1, s, NoNode)
      BY <1>3, <1>9, <3>1, ChainKept DEF s
    <3>3. \A i \in 1 .. Len(s) - 1 : s[i] \in Items(s) /\ s[i] # l
      BY <1>3, <1>5, <2>2 DEF Items
    <3>4. \A i \in 1 .. Len(s) - 1 : ahead2[s[i]] = ahead1[s[i]]
      BY <1>8, <3>1, <3>3
    <3>5. ahead2[s[Len(s)]] = r[1]
      BY <1>5, <1>8, <2>2
    <3>6. Chain(ahead2, s \o r, NoNode)
      BY <1>3, <1>7, <1>13, <2>2, <3>2, <3>4, <3>5, ChainConcat
    <3>7. /\ Len(s \o r) = Len(s) + Len(r) /\ (s \o r)[1] = s[1]
          /\ (s \o r)[Len(s) + Len(r)] = r[Len(r)]
      <4>1. 1 \in 1 .. Len(s) /\ Len(r) \in 1 .. Len(r)
        BY <1>1, <1>5, <2>2
      <4> QED BY <1>3, <4>1, ConcatFacts
    <3>8. s \o r # << >>
      BY <1>1, <1>3, <3>7, ConcatFacts, EmptySeq
    <3>9. ahead2[q] = ahead[q]
      <4>1. l # q
        <5>1. s[Len(s)] \in WfcqNodes
          BY <1>3, <1>5, <2>2
        <5> QED BY <1>5, <2>0, <2>2, <5>1
      <4> QED BY <1>8, <2>0, <4>1
    <3>10. ahead[q] = s[1]
      BY <1>9, <2>2 DEF WfcqFirst, s
    <3> QED BY <3>6, <3>7, <3>8, <3>9, <3>10 DEF WfcqFirst, WfcqLast
  <2> QED BY <2>1, <2>2
<1>15. WfcqLinked(ahead2)'
  BY <1>1, <1>11, <1>12, <1>14 DEF WfcqLinked
<1>16. \A p \in Queues : wq_tail'[p] = WfcqLast(p, wq_fifo'[p])
  <2>1. \A p \in Queues : wq_tail[p] = WfcqLast(p, wq_fifo[p])
    BY <1>0 DEF WfcqChains
  <2> QED BY <1>1, <1>14, <2>1
<1> QED BY <1>8, <1>10, <1>15, <1>16 DEF WfcqChains

(* The exchange of an append keeps the invariant.                          *)
LEMMA WfcqAppendedKeeps ==
    ASSUME WfcqIInv, NEW t \in WfcqThreads, NEW q \in Queues, NEW r \in Seq(WfcqNodes),
           r # << >>, WfcqAppended(t, q, r), WfcqChains'
    PROVE  WfcqIInv'
<1>0. /\ WfcqTypeOK /\ WfcqChains /\ WfcqOnce /\ WfcqLinkers /\ WfcqConsumers /\ WfcqHolders
      /\ WfcqWalkers
  BY DEF WfcqIInv
<1> DEFINE s == wq_fifo[q]
           l == wq_tail[q]
<1>1. /\ r[1] \in WfcqNodes /\ Len(r) \in Nat \ {0}
      /\ wq_pc'[t] = "link" /\ wq_hand'[t] = << >>
      /\ \A u \in WfcqThreads : u # t =>
            /\ wq_pc'[u] = wq_pc[u] /\ wq_hand'[u] = wq_hand[u] /\ wq_frame'[u] = wq_frame[u]
      /\ wq_frame'[t].node = l /\ wq_frame'[t].next = r[1]
      /\ wq_fifo'[q] = s \o r
      /\ \A p \in Queues : p # q => wq_fifo'[p] = wq_fifo[p]
  BY WfcqAppendedFacts
<1>2. WfcqTypeOK'
  BY WfcqAppendedFacts
<1>3. /\ l \in WfcqCells /\ WfcqPlaced(l) /\ wq_next[l] = NoNode
      /\ \A u \in WfcqThreads : wq_pc[u] = "link" => wq_frame[u].node # l
  <2>1. PICK ahead \in [WfcqCells -> WfcqMaybe] : WfcqAhead(ahead) /\ WfcqLinked(ahead)
    BY <1>0 DEF WfcqChains
  <2> QED BY <2>1, WfcqLastFree
<1>4. s \in Seq(WfcqNodes) /\ Len(s) \in Nat
  BY WfcqHeadFacts
<1>5. /\ wq_pc[t] # "link" /\ \A u \in WfcqThreads : u # t => wq_ret'[u] = wq_ret[u]
      /\ \A m \in WfcqCells : WfcqPlaced(m) => wq_next'[m] = wq_next[m]
      /\ UNCHANGED <<wq_lock, wq_use>>
  BY DEF WfcqAppended
<1>6. /\ Items(wq_hand[t]) \subseteq Items(r)
      /\ \A p \in Queues : Items(r) \cap Items(wq_fifo[p]) = {}
      /\ \A u \in WfcqThreads : u # t => Items(r) \cap Items(wq_hand[u]) = {}
  BY DEF WfcqAppended
<1>7. /\ Len(s \o r) = Len(s) + Len(r) /\ \A i \in 1 .. Len(s) : (s \o r)[i] = s[i]
  BY <1>4, ConcatFacts
<1>8. Items(s \o r) = Items(s) \cup Items(r)
  BY <1>4, ConcatItems
<1>9. /\ s = << >> => l = q
      /\ s # << >> => Len(s) \in Nat \ {0} /\ l \in WfcqNodes /\ l # q
  BY <1>4, WfcqTailFacts
<1> HIDE DEF s, l
<1>10. /\ Items(wq_fifo'[q]) = Items(wq_fifo[q]) \cup Items(r) /\ Items(wq_hand'[t]) = {}
       /\ \A p \in Queues : p # q => Items(wq_fifo'[p]) = Items(wq_fifo[p])
       /\ \A u \in WfcqThreads : u # t => Items(wq_hand'[u]) = Items(wq_hand[u])
  BY <1>1, <1>8, ChainEmpty DEF s
<1>11. WfcqOnce'
  <2>1. \A a, b \in Queues : a # b => Items(wq_fifo'[a]) \cap Items(wq_fifo'[b]) = {}
    BY <1>0, <1>6, <1>10 DEF WfcqOnce
  <2>2. \A u \in WfcqThreads, p \in Queues : Items(wq_hand'[u]) \cap Items(wq_fifo'[p]) = {}
    BY <1>0, <1>6, <1>10 DEF WfcqOnce
  <2>3. \A u, v \in WfcqThreads : u # v => Items(wq_hand'[u]) \cap Items(wq_hand'[v]) = {}
    BY <1>0, <1>10 DEF WfcqOnce
  <2> QED BY <2>1, <2>2, <2>3 DEF WfcqOnce
<1>12. \A m \in WfcqCells : WfcqPlaced(m) => WfcqPlaced(m)'
  BY <1>6, <1>10 DEF WfcqPlaced
<1>13. WfcqLinkers'
  <2>1. WfcqLinking(t)'
    BY <1>1, <1>3, <1>5, <1>12 DEF WfcqLinking
  <2>2. ASSUME NEW u \in WfcqThreads, u # t PROVE WfcqLinking(u)'
    <3>1. WfcqLinking(u) /\ wq_pc'[u] = wq_pc[u] /\ wq_frame'[u] = wq_frame[u]
      BY <1>0, <1>1, <2>2 DEF WfcqLinkers
    <3> QED BY <1>1, <1>3, <1>5, <1>12, <3>1 DEF WfcqLinking
  <2> QED BY <2>1, <2>2 DEF WfcqLinkers
<1>14. \A p \in Queues : wq_fifo[p] # << >> =>
          /\ wq_fifo'[p] # << >> /\ wq_fifo'[p][1] = wq_fifo[p][1]
          /\ Len(wq_fifo[p]) \in Nat /\ Len(wq_fifo'[p]) \in Nat /\ Len(wq_fifo[p]) <= Len(wq_fifo'[p])
          /\ \A i \in 1 .. Len(wq_fifo[p]) : wq_fifo'[p][i] = wq_fifo[p][i]
  <2>1. \A p \in Queues : wq_fifo[p] \in Seq(WfcqNodes) /\ Len(wq_fifo[p]) \in Nat
    BY WfcqHeadFacts
  <2>2. s # << >> => 1 \in 1 .. Len(s)
    BY <1>9
  <2>3. s \o r # << >>
    BY <1>1, <1>4, <1>7, ConcatFacts, EmptySeq
  <2>4. Len(s) + Len(r) \in Nat /\ Len(s) <= Len(s) + Len(r)
    BY <1>1, <1>4
  <2>5. s # << >> => (s \o r)[1] = s[1]
    BY <1>7, <2>2
  <2>6. \A p \in Queues : p # q => wq_fifo'[p] = wq_fifo[p]
    BY <1>1
  <2>7. wq_fifo'[q] = s \o r /\ wq_fifo[q] = s
    BY <1>1 DEF s
  <2>8. \A n \in Nat : n <= n
    OBVIOUS
  <2>9. ASSUME NEW p \in Queues, wq_fifo[p] # << >>
        PROVE  /\ wq_fifo'[p] # << >> /\ wq_fifo'[p][1] = wq_fifo[p][1]
               /\ Len(wq_fifo[p]) \in Nat /\ Len(wq_fifo'[p]) \in Nat
               /\ Len(wq_fifo[p]) <= Len(wq_fifo'[p])
               /\ \A i \in 1 .. Len(wq_fifo[p]) : wq_fifo'[p][i] = wq_fifo[p][i]
    <3>1. CASE p = q
      BY <1>4, <1>7, <2>3, <2>4, <2>5, <2>7, <2>9, <3>1
    <3>2. CASE p # q
      BY <2>1, <2>6, <2>8, <2>9, <3>2
    <3> QED BY <3>1, <3>2
  <2> QED BY <2>9
<1>15. ASSUME NEW u \in WfcqThreads PROVE WfcqConsuming(u)' /\ WfcqWalking(u)'
  <2>1. WfcqConsuming(u) /\ WfcqWalking(u)
    BY <1>0 DEF WfcqConsumers, WfcqWalkers
  <2>2. CASE u = t
    <3>1. WfcqConsuming(u)'
      BY <1>1, <2>2 DEF WfcqConsuming, WfcqConsume, WfcqDequeue, WfcqIterate, WfcqSplice
    <3>2. WfcqWalking(u)'
      BY <1>1, <2>2 DEF WfcqWalking, WfcqIterate
    <3> QED BY <3>1, <3>2
  <2>3. CASE u # t
    <3>0. /\ wq_pc'[u] = wq_pc[u] /\ wq_hand'[u] = wq_hand[u] /\ wq_frame'[u] = wq_frame[u]
          /\ wq_ret'[u] = wq_ret[u]
      BY <1>1, <1>5, <2>3
    <3>1. WfcqConsuming(u)'
      BY <1>5, <2>1, <3>0 DEF WfcqConsuming
    <3>2. ASSUME wq_pc[u] \in WfcqIterate
          PROVE  /\ Len(wq_frame[u].seen) \in 1 .. Len(wq_fifo'[wq_frame[u].q])
                 /\ \A i \in 1 .. Len(wq_frame[u].seen) :
                       wq_frame[u].seen[i] = wq_fifo'[wq_frame[u].q][i]
                 /\ wq_frame[u].node = wq_fifo'[wq_frame[u].q][Len(wq_frame[u].seen)]
      <4>1. PICK p \in Queues : p = wq_frame[u].q
        BY <2>1, <3>2 DEF WfcqConsuming, WfcqConsume
      <4>2. PICK k : k = Len(wq_frame[u].seen)
        OBVIOUS
      <4>3. /\ k \in 1 .. Len(wq_fifo[p]) /\ wq_frame[u].node = wq_fifo[p][k]
            /\ \A i \in 1 .. k : wq_frame[u].seen[i] = wq_fifo[p][i]
        BY <2>1, <3>2, <4>1, <4>2 DEF WfcqWalking
      <4>4. wq_fifo[p] # << >> /\ Len(wq_fifo[p]) \in Nat
        BY <4>3, WfcqHeadFacts, EmptySeq
      <4>5. /\ Len(wq_fifo'[p]) \in Nat /\ Len(wq_fifo[p]) <= Len(wq_fifo'[p])
            /\ \A i \in 1 .. Len(wq_fifo[p]) : wq_fifo'[p][i] = wq_fifo[p][i]
        BY <1>14, <4>4
      <4>6. k \in 1 .. Len(wq_fifo'[p]) /\ \A i \in 1 .. k : i \in 1 .. Len(wq_fifo[p])
        BY <4>3, <4>4, <4>5
      <4> QED BY <4>1, <4>2, <4>3, <4>5, <4>6
    <3>3. WfcqWalking(u)'
      BY <2>1, <3>0, <3>2 DEF WfcqWalking
    <3> QED BY <3>1, <3>3
  <2> QED BY <2>2, <2>3
<1>16. ASSUME NEW u \in WfcqThreads PROVE WfcqHolding(u)'
  <2>1. CASE u = t
    BY <1>1, <2>1 DEF WfcqHolding, WfcqDequeue, WfcqReset
  <2>2. CASE u # t
    <3>0. WfcqHolding(u) /\ WfcqConsuming(u) /\ wq_pc'[u] = wq_pc[u] /\ wq_frame'[u] = wq_frame[u]
      BY <1>0, <1>1, <2>2 DEF WfcqHolders, WfcqConsumers
    <3>1. wq_pc[u] \in {"sync_head", "take_tail"} \cup WfcqDequeue =>
             /\ wq_frame[u].q \in Queues /\ wq_fifo[wq_frame[u].q] # << >>
             /\ wq_fifo'[wq_frame[u].q] # << >>
             /\ wq_fifo'[wq_frame[u].q][1] = wq_fifo[wq_frame[u].q][1]
             /\ wq_next'[wq_frame[u].q] = wq_next[wq_frame[u].q]
      <4>1. wq_pc[u] \in {"sync_head", "take_tail"} \cup WfcqDequeue =>
               wq_frame[u].q \in Queues /\ wq_fifo[wq_frame[u].q] # << >>
        BY <3>0 DEF WfcqHolding, WfcqConsuming, WfcqConsume, WfcqSplice
      <4>2. \A p \in Queues : p \in WfcqCells /\ WfcqPlaced(p)
        BY DEF WfcqCells, WfcqPlaced
      <4> QED BY <1>5, <1>14, <4>1, <4>2
    <3>2. wq_pc[u] = "advance" => wq_next'[wq_frame[u].node] = wq_next[wq_frame[u].node]
      <4>1. wq_pc[u] = "advance" =>
               /\ wq_frame[u].node = wq_fifo[wq_frame[u].q][1]
               /\ 1 \in DOMAIN wq_fifo[wq_frame[u].q] /\ wq_frame[u].node \in WfcqNodes
        BY <3>0, <3>1, WfcqHeadFacts, WfcqTailFacts, WfcqNextFacts DEF WfcqHolding, WfcqDequeue
      <4>2. wq_pc[u] = "advance" => wq_frame[u].node \in WfcqCells /\ WfcqPlaced(wq_frame[u].node)
        BY <3>1, <4>1 DEF WfcqCells, WfcqPlaced, Items, WfcqDequeue
      <4> QED BY <1>5, <4>2
    <3>3. wq_pc[u] \in WfcqReset \cup {"advance"} =>
             \A v \in WfcqThreads : wq_pc'[v] = "link" => wq_frame'[v].node # wq_frame[u].q
      <4>1. wq_pc[u] \in WfcqReset \cup {"advance"} => l # wq_frame[u].q
        <5>1. wq_pc[u] \in WfcqReset \cup {"advance"} => wq_frame[u].q \in Queues /\ wq_fifo[wq_frame[u].q] # << >>
          BY <3>1 DEF WfcqReset, WfcqDequeue
        <5>2. \A p \in Queues : wq_fifo[p] # << >> => l # p
          BY <1>9, WfcqueueAssumption DEF s
        <5> QED BY <5>1, <5>2
      <4>2. wq_pc[u] \in WfcqReset \cup {"advance"} =>
               \A v \in WfcqThreads : wq_pc[v] = "link" => wq_frame[v].node # wq_frame[u].q
        BY <3>0 DEF WfcqHolding
      <4> QED BY <1>1, <4>1, <4>2
    <3>4. \A v \in WfcqThreads : wq_pc'[v] = "take_tail" => wq_pc[v] = "take_tail" /\ wq_frame'[v] = wq_frame[v]
      BY <1>1
    <3> QED BY <3>0, <3>1, <3>2, <3>3, <3>4 DEF WfcqHolding, WfcqDequeue, WfcqReset
  <2> QED BY <2>1, <2>2
<1> QED BY <1>2, <1>11, <1>13, <1>15, <1>16
        DEF WfcqIInv, WfcqConsumers, WfcqHolders, WfcqWalkers

(* cds_wfcq_enqueue() exchanges the tail.                                  *)
LEMMA WfcqEnqueueAppends ==
    ASSUME WfcqIInv, NEW t \in WfcqThreads, NEW q \in Queues, NEW n \in WfcqNodes,
           cds_wfcq_enqueue(t, q, n)
    PROVE  WfcqAppended(t, q, <<n>>) /\ WfcqChains'
<1>0. WfcqTypeOK /\ WfcqWalking(t) /\ WfcqChains /\ wq_pc[t] = "idle"
  BY DEF WfcqIInv, WfcqWalkers, cds_wfcq_enqueue
<1>1. PICK r \in Seq(WfcqNodes) : r = <<n>>
  <2>1. <<n>> \in Seq(WfcqNodes)
    OBVIOUS
  <2> QED BY <2>1
<1>2. Len(r) = 1 /\ r[1] = n /\ r # << >>
  BY <1>1
<1>3. Items(r) = {n}
  <2>1. \A i \in 1 .. 1 : i = 1
    OBVIOUS
  <2>2. DOMAIN r = 1 .. 1 /\ 1 \in 1 .. 1
    BY <1>2
  <2> QED BY <1>2, <2>1, <2>2 DEF Items
<1>4. ~ WfcqPlaced(n) /\ \A p \in Queues : n \notin Items(wq_fifo[p])
      /\ \A u \in WfcqThreads : n \notin Items(wq_hand[u])
  <2>1. /\ \A p \in Queues : n \notin Items(wq_fifo[p])
        /\ \A u \in WfcqThreads : n \notin Items(wq_hand[u])
    BY DEF cds_wfcq_enqueue, NodeFree, InSeq, Items
  <2> QED BY <2>1, WfcqueueAssumption DEF WfcqPlaced
<1>5. /\ wq_next' = [wq_next EXCEPT ![n] = NoNode] /\ wq_hand' = wq_hand
      /\ UNCHANGED <<wq_lock, wq_use>>
  BY DEF cds_wfcq_enqueue
<1>6. /\ wq_tail' = [wq_tail EXCEPT ![q] = n]
      /\ wq_frame' = [wq_frame EXCEPT ![t].node = wq_tail[q], ![t].next = n]
      /\ wq_fifo' = [wq_fifo EXCEPT ![q] = wq_fifo[q] \o <<n>>]
      /\ wq_ret' = [wq_ret EXCEPT ![t] = <<"put", wq_tail[q] # q>>]
      /\ wq_pc' = [wq_pc EXCEPT ![t] = "link"]
  BY DEF cds_wfcq_enqueue, ___cds_wfcq_append, Result, Goto
<1>7. /\ wq_next'[n] = NoNode /\ \A m \in WfcqCells : m # n => wq_next'[m] = wq_next[m]
      /\ wq_next' \in [WfcqCells -> WfcqMaybe]
  BY <1>0, <1>5 DEF WfcqTypeOK, WfcqCells, WfcqMaybe
<1>8. wq_hand' = [wq_hand EXCEPT ![t] = << >>] /\ Items(wq_hand[t]) = {}
  <2>1. wq_hand[t] = << >>
    BY <1>0 DEF WfcqWalking
  <2> QED BY <1>0, <1>5, <2>1, ChainEmpty DEF WfcqTypeOK
<1>9. /\ wq_ret' = [u \in WfcqThreads |-> wq_ret'[u]]
      /\ \A u \in WfcqThreads : u # t => wq_ret'[u] = wq_ret[u]
  BY <1>0, <1>6 DEF WfcqTypeOK
<1>10. WfcqAppended(t, q, r)
  <2>1. /\ wq_tail' = [wq_tail EXCEPT ![q] = r[Len(r)]]
        /\ wq_frame' = [wq_frame EXCEPT ![t].node = wq_tail[q], ![t].next = r[1]]
        /\ wq_fifo' = [wq_fifo EXCEPT ![q] = wq_fifo[q] \o r]
    BY <1>1, <1>2, <1>6
  <2>2. wq_pc[t] # "link" /\ wq_pc' = [wq_pc EXCEPT ![t] = "link"]
    BY <1>0, <1>6
  <2>3. \A m \in WfcqCells : WfcqPlaced(m) => wq_next'[m] = wq_next[m]
    BY <1>4, <1>7
  <2>4. /\ Items(wq_hand[t]) \subseteq Items(r)
        /\ \A p \in Queues : Items(r) \cap Items(wq_fifo[p]) = {}
        /\ \A u \in WfcqThreads : u # t => Items(r) \cap Items(wq_hand[u]) = {}
    BY <1>3, <1>4, <1>8
  <2> QED BY <1>5, <1>7, <1>8, <1>9, <2>1, <2>2, <2>3, <2>4 DEF WfcqAppended
<1>11. WfcqChains'
  <2>1. PICK ahead \in [WfcqCells -> WfcqMaybe] : WfcqAhead(ahead) /\ WfcqLinked(ahead)
    BY <1>0 DEF WfcqChains
  <2>2. PICK ahead1 \in [WfcqCells -> WfcqMaybe] :
           ahead1[n] = NoNode /\ \A m \in WfcqCells : m # n => ahead1[m] = ahead[m]
    <3>1. [ahead EXCEPT ![n] = NoNode] \in [WfcqCells -> WfcqMaybe] /\ n \in WfcqCells
      BY DEF WfcqMaybe, WfcqCells
    <3> QED BY <3>1
  <2>3. Chain(ahead1, r, NoNode)
    BY <1>1, <2>2, ChainOne
  <2>4. \A m \in WfcqCells : wq_next'[m] # NoNode => ahead1[m] = wq_next'[m]
    BY <1>7, <2>1, <2>2 DEF WfcqAhead
  <2>5. \A m \in WfcqCells : WfcqPlaced(m) => ahead1[m] = ahead[m]
    BY <1>4, <2>2
  <2> QED BY <1>2, <1>10, <2>1, <2>2, <2>3, <2>4, <2>5, WfcqAppendedChains
<1> QED BY <1>1, <1>10, <1>11

(* An enqueue keeps the invariant.                                         *)
LEMMA WfcqEnqueueKeeps ==
    ASSUME WfcqIInv, NEW t \in WfcqThreads, NEW q \in Queues, NEW n \in WfcqNodes,
           cds_wfcq_enqueue(t, q, n)
    PROVE  WfcqIInv'
<1>1. WfcqAppended(t, q, <<n>>) /\ WfcqChains'
  BY WfcqEnqueueAppends
<1>2. PICK r \in Seq(WfcqNodes) : r = <<n>>
  <2>1. <<n>> \in Seq(WfcqNodes)
    OBVIOUS
  <2> QED BY <2>1
<1>3. r # << >> /\ WfcqAppended(t, q, r)
  BY <1>1, <1>2
<1> QED BY <1>1, <1>3, WfcqAppendedKeeps

(* A splice exchanges the tail of its destination.                         *)
LEMMA WfcqSpliceAppends ==
    ASSUME WfcqIInv, NEW t \in WfcqThreads, SpliceAppend(t)
    PROVE  /\ wq_frame[t].dest \in Queues /\ wq_hand[t] \in Seq(WfcqNodes) /\ wq_hand[t] # << >>
           /\ WfcqAppended(t, wq_frame[t].dest, wq_hand[t]) /\ WfcqChains'
<1>0. WfcqTypeOK /\ WfcqWalking(t) /\ WfcqChains /\ WfcqOnce /\ wq_pc[t] = "append"
  BY DEF WfcqIInv, WfcqWalkers, SpliceAppend
<1>1. PICK q \in Queues : q = wq_frame[t].dest
  BY <1>0 DEF WfcqWalking
<1>2. PICK r \in Seq(WfcqNodes) : r = wq_hand[t]
  BY <1>0 DEF WfcqTypeOK
<1>3. r # << >> /\ wq_frame[t].next = r[1] /\ wq_frame[t].node = r[Len(r)]
  BY <1>0, <1>2 DEF WfcqWalking
<1>4. UNCHANGED <<wq_next, wq_lock, wq_use>> /\ wq_hand' = [wq_hand EXCEPT ![t] = << >>]
  BY DEF SpliceAppend
<1>5. /\ wq_tail' = [wq_tail EXCEPT ![q] = wq_frame[t].node]
      /\ wq_frame' = [wq_frame EXCEPT ![t].node = wq_tail[q], ![t].next = wq_frame[t].next]
      /\ wq_fifo' = [wq_fifo EXCEPT ![q] = wq_fifo[q] \o r]
      /\ wq_ret' = [wq_ret EXCEPT ![t] = <<"put", wq_tail[q] # q>>]
      /\ wq_pc' = [wq_pc EXCEPT ![t] = "link"]
  BY <1>1, <1>2 DEF SpliceAppend, ___cds_wfcq_append, Result, Goto
<1>6. /\ wq_ret' = [u \in WfcqThreads |-> wq_ret'[u]]
      /\ \A u \in WfcqThreads : u # t => wq_ret'[u] = wq_ret[u]
  BY <1>0, <1>5 DEF WfcqTypeOK
<1>7. WfcqAppended(t, q, r)
  <2>1. /\ wq_tail' = [wq_tail EXCEPT ![q] = r[Len(r)]]
        /\ wq_frame' = [wq_frame EXCEPT ![t].node = wq_tail[q], ![t].next = r[1]]
        /\ wq_fifo' = [wq_fifo EXCEPT ![q] = wq_fifo[q] \o r]
    BY <1>3, <1>5
  <2>2. wq_pc[t] # "link" /\ wq_pc' = [wq_pc EXCEPT ![t] = "link"]
    BY <1>0, <1>5
  <2>3. wq_next' = wq_next /\ wq_next \in [WfcqCells -> WfcqMaybe]
    BY <1>0, <1>4 DEF WfcqTypeOK
  <2>4. /\ Items(wq_hand[t]) \subseteq Items(r)
        /\ \A p \in Queues : Items(r) \cap Items(wq_fifo[p]) = {}
        /\ \A u \in WfcqThreads : u # t => Items(r) \cap Items(wq_hand[u]) = {}
    BY <1>0, <1>2 DEF WfcqOnce
  <2> QED BY <1>4, <1>6, <2>1, <2>2, <2>3, <2>4 DEF WfcqAppended
<1>8. WfcqChains'
  <2>1. PICK ahead \in [WfcqCells -> WfcqMaybe] : WfcqAhead(ahead) /\ WfcqLinked(ahead)
    BY <1>0 DEF WfcqChains
  <2>2. Chain(ahead, r, NoNode)
    BY <1>2, <2>1 DEF WfcqLinked
  <2>3. \A m \in WfcqCells : wq_next'[m] # NoNode => ahead[m] = wq_next'[m]
    BY <1>4, <2>1 DEF WfcqAhead
  <2> QED BY <1>3, <1>7, <2>1, <2>2, <2>3, WfcqAppendedChains
<1> QED BY <1>1, <1>2, <1>3, <1>7, <1>8

(* A splice that appends keeps the invariant.                              *)
LEMMA WfcqSpliceAppendKeeps ==
    ASSUME WfcqIInv, NEW t \in WfcqThreads, SpliceAppend(t)
    PROVE  WfcqIInv'
  BY WfcqSpliceAppends, WfcqAppendedKeeps

(* The initial states.                                                     *)
LEMMA WfcqInitially == WfcqueueInit => WfcqIInv
<1> SUFFICES ASSUME WfcqueueInit PROVE WfcqIInv
  OBVIOUS
<1>1. /\ wq_next = [n \in WfcqCells |-> NoNode] /\ wq_tail = [q \in Queues |-> q]
      /\ wq_lock = [q \in Queues |-> NoNode] /\ wq_use \in WfcqUses
      /\ wq_pc = [t \in WfcqThreads |-> "idle"] /\ wq_fifo = [q \in Queues |-> << >>]
      /\ wq_hand = [t \in WfcqThreads |-> << >>] /\ wq_ret = [t \in WfcqThreads |-> NoNode]
  BY DEF WfcqueueInit, WfcqCells
<1>2. wq_frame = [t \in WfcqThreads |-> NoFrame]
  BY DEF WfcqueueInit
<1>3. << >> \in Seq(WfcqNodes)
  BY EmptySeq
<1>4. WfcqTypeOK
  <2>1. NoFrame \in WfcqFrames
    BY <1>3 DEF NoFrame, WfcqFrames, WfcqMaybe
  <2> QED BY <1>1, <1>2, <1>3, <2>1 DEF WfcqTypeOK, WfcqCells, WfcqMaybe, WfcqPC
<1>5. WfcqChains
  <2>1. wq_next \in [WfcqCells -> WfcqMaybe]
    BY <1>4 DEF WfcqTypeOK
  <2>2. WfcqAhead(wq_next)
    BY <1>1 DEF WfcqAhead
  <2>3. WfcqLinked(wq_next)
    BY <1>1, ChainEmpty DEF WfcqLinked, WfcqFirst, WfcqCells
  <2>4. \A q \in Queues : wq_tail[q] = WfcqLast(q, wq_fifo[q])
    BY <1>1 DEF WfcqLast
  <2> QED BY <2>1, <2>2, <2>3, <2>4 DEF WfcqChains
<1>6. WfcqOnce
  BY <1>1, ChainEmpty DEF WfcqOnce
<1>7. WfcqLinkers /\ WfcqConsumers /\ WfcqHolders /\ WfcqWalkers
  BY <1>1 DEF WfcqLinkers, WfcqLinking, WfcqConsumers, WfcqConsuming, WfcqHolders, WfcqHolding,
     WfcqWalkers, WfcqWalking, WfcqConsume, WfcqDequeue, WfcqIterate, WfcqSplice, WfcqReset
<1> QED BY <1>4, <1>5, <1>6, <1>7 DEF WfcqIInv

(* Every step keeps the invariant.                                         *)
LEMMA WfcqPreserves == WfcqIInv /\ [WfcqueueNext]_wfcqvars => WfcqIInv'
<1> SUFFICES ASSUME WfcqIInv, [WfcqueueNext]_wfcqvars PROVE WfcqIInv'
  OBVIOUS
<1>1. CASE UNCHANGED wfcqvars
  <2>0. UNCHANGED <<wq_next, wq_tail, wq_lock, wq_use, wq_pc, wq_frame, wq_fifo, wq_hand, wq_ret>>
    BY <1>1 DEF wfcqvars
  <2>1. WfcqTypeOK' /\ WfcqOnce' /\ WfcqLinkers'
    BY <2>0 DEF WfcqIInv, WfcqTypeOK, WfcqOnce, WfcqLinkers, WfcqLinking, WfcqPlaced
  <2>2. WfcqChains'
    BY <2>0 DEF WfcqIInv, WfcqChains, WfcqAhead, WfcqLinked
  <2>3. WfcqConsumers' /\ WfcqHolders'
    BY <2>0 DEF WfcqIInv, WfcqConsumers, WfcqConsuming, WfcqHolders, WfcqHolding
  <2>4. WfcqWalkers'
    BY <2>0 DEF WfcqIInv, WfcqWalkers, WfcqWalking
  <2> QED BY <2>1, <2>2, <2>3, <2>4 DEF WfcqIInv
<1>2. CASE WfcqueueNext
  <2>1. PICK t \in WfcqThreads : WfcqStep(t)
    BY <1>2, WfcqueueAssumption DEF WfcqueueNext, WfcqIInv, WfcqTypeOK
  <2>2. UsedQueues \subseteq Queues
    BY DEF UsedQueues
  <2>3. ASSUME NEW q \in Queues, NEW n \in WfcqNodes, cds_wfcq_enqueue(t, q, n) PROVE WfcqIInv'
    BY <2>3, WfcqEnqueueKeeps
  <2>4. ASSUME NEW q \in Queues, NEW b \in BOOLEAN,
               cds_wfcq_dequeue(t, q, b) \/ cds_wfcq_for_each(t, q, b)
        PROVE  WfcqIInv'
    BY <2>4, WfcqCallKeeps DEF cds_wfcq_dequeue, cds_wfcq_for_each
  <2>5. ASSUME NEW q \in Queues, cds_wfcq_empty(t, q) PROVE WfcqIInv'
    BY <2>5, WfcqCallKeeps DEF cds_wfcq_empty
  <2>6. ASSUME NEW src \in Queues, NEW dest \in Queues, NEW b \in BOOLEAN, cds_wfcq_splice(t, src, dest, b)
        PROVE  WfcqIInv'
    BY <2>6, WfcqCallKeeps DEF cds_wfcq_splice
  <2>7. CASE AppendLink(t) \/ WfcqReturn(t) \/ EmptyHead(t) \/ EmptyTail(t) \/ SyncHead(t)
    BY <2>7, WfcqAppendLinkKeeps, WfcqReturnKeeps, WfcqEmptyHeadKeeps, WfcqEmptyTailKeeps,
       WfcqSyncHeadKeeps
  <2>8. CASE LoadNext(t) \/ ResetHead(t) \/ CasTail(t) \/ SyncNext(t) \/ RestoreHead(t) \/ Advance(t)
    BY <2>8, WfcqLoadNextKeeps, WfcqResetHeadKeeps, WfcqCasTailKeeps, WfcqSyncNextKeeps,
       WfcqRestoreHeadKeeps, WfcqAdvanceKeeps
  <2>9. CASE IterNext(t) \/ IterTail(t) \/ IterSync(t)
    BY <2>9, WfcqIterNextKeeps, WfcqIterTailKeeps, WfcqIterSyncKeeps
  <2>10. CASE TakeHead(t) \/ TestTail(t) \/ TakeTail(t) \/ SpliceAppend(t)
    BY <2>10, WfcqTakeHeadKeeps, WfcqTestTailKeeps, WfcqTakeTailKeeps, WfcqSpliceAppendKeeps
  <2> QED BY <2>1, <2>2, <2>3, <2>4, <2>5, <2>6, <2>7, <2>8, <2>9, <2>10 DEF WfcqStep
<1> QED BY <1>1, <1>2

(* A step that changes neither the queues nor the answers is invisible.    *)
LEMMA WfcqInvisible ==
    ASSUME wq_fifo' = wq_fifo, wq_hand' = wq_hand, wq_ret' = wq_ret
    PROVE  UNCHANGED FifoQueues!vars
BY DEF FifoQueues!vars

(* A thread that has not answered yet may do so.                           *)
LEMMA WfcqAnswered ==
    ASSUME WfcqIInv, NEW t \in WfcqThreads, NEW r, wq_pc[t] \notin {"link", "return"},
           wq_ret' = [wq_ret EXCEPT ![t] = r]
    PROVE  /\ FifoQueues!Answer(t, r) /\ wq_ret[t] = NoNode /\ wq_ret'[t] = r
           /\ r = NoNode => wq_ret' = wq_ret
<1>1. wq_ret[t] = NoNode
  BY DEF WfcqIInv, WfcqWalkers, WfcqWalking
<1>2. wq_ret'[t] = r /\ (r = NoNode => wq_ret' = wq_ret)
  BY <1>1 DEF WfcqIInv, WfcqTypeOK
<1> QED BY <1>1, <1>2 DEF FifoQueues!Answer

(* Answers that change no queue and tell what is true of it.               *)
LEMMA WfcqLooks ==
    ASSUME WfcqIInv, NEW t \in WfcqThreads, NEW q \in Queues, wq_pc[t] \notin {"link", "return"},
           UNCHANGED <<wq_fifo, wq_hand>>,
           \/ wq_fifo[q] = << >> /\ wq_ret' = [wq_ret EXCEPT ![t] = <<"nothing">>]
           \/ wq_fifo[q] # << >> /\ wq_ret' = [wq_ret EXCEPT ![t] = <<"something">>]
           \/ wq_fifo[q] # << >> /\ wq_ret' = [wq_ret EXCEPT ![t] = <<"would_block">>]
           \/ wq_ret' = [wq_ret EXCEPT ![t] = <<"walked">> \o wq_fifo[q]]
    PROVE  [FifoQueues!Next]_(FifoQueues!vars)
<1>1. CASE wq_ret' = wq_ret
  BY <1>1, WfcqInvisible
<1>2. CASE wq_ret' # wq_ret
  <2>1. wq_ret'[t] # wq_ret[t]
    BY <1>2, WfcqAnswered
  <2>2. FifoQueues!Moves(t)
    BY <2>1 DEF FifoQueues!Moves
  <2>3. \/ FifoQueues!Nothing(t, q) \/ FifoQueues!Something(t, q)
        \/ FifoQueues!WouldBlock(t, q) \/ FifoQueues!Walk(t, q)
    BY WfcqAnswered
       DEF FifoQueues!Nothing, FifoQueues!Something, FifoQueues!WouldBlock, FifoQueues!Walk
  <2> QED BY <2>2, <2>3 DEF FifoQueues!Next
<1> QED BY <1>1, <1>2

(* _cds_wfcq_empty() that is false.                                        *)
LEMMA WfcqNonEmptyRefines ==
    ASSUME WfcqIInv, NEW t \in WfcqThreads, NEW q \in Queues, wq_pc[t] \notin {"link", "return"},
           wq_fifo[q] # << >>, NonEmpty(t)
    PROVE  [FifoQueues!Next]_(FifoQueues!vars)
<1>1. UNCHANGED <<wq_fifo, wq_hand>>
  BY DEF NonEmpty
<1>2. CASE wq_frame[t].op = "empty"
  <2>1. wq_ret' = [wq_ret EXCEPT ![t] = <<"something">>]
    BY <1>2 DEF NonEmpty, Result
  <2> QED BY <1>1, <2>1, WfcqLooks
<1>3. CASE wq_frame[t].op # "empty"
  <2>1. wq_ret' = wq_ret
    BY <1>3 DEF NonEmpty
  <2> QED BY <1>1, <2>1, WfcqInvisible
<1> QED BY <1>2, <1>3

(* The reads of _cds_wfcq_empty().                                         *)
LEMMA WfcqEmptyRefines ==
    ASSUME WfcqIInv, NEW t \in WfcqThreads, EmptyHead(t) \/ EmptyTail(t)
    PROVE  [FifoQueues!Next]_(FifoQueues!vars)
<1>1. wq_pc[t] \in {"empty_head", "empty_tail"}
  BY DEF EmptyHead, EmptyTail
<1>2. PICK q \in Queues : q = wq_frame[t].q
  BY <1>1 DEF WfcqIInv, WfcqConsumers, WfcqConsuming, WfcqConsume
<1>3. CASE NonEmpty(t) /\ (wq_next[q] # NoNode \/ ~ TailIsHead(q))
  <2>1. wq_fifo[q] # << >>
    BY <1>3, WfcqHeadFacts, WfcqTailFacts DEF TailIsHead
  <2> QED BY <1>1, <1>3, <2>1, WfcqNonEmptyRefines
<1>4. CASE EmptyHead(t) /\ ~ (NonEmpty(t) /\ (wq_next[q] # NoNode \/ ~ TailIsHead(q)))
  <2>1. UNCHANGED <<wq_fifo, wq_hand, wq_ret>>
    BY <1>2, <1>4 DEF EmptyHead
  <2> QED BY <2>1, WfcqInvisible
<1>5. CASE EmptyTail(t) /\ ~ (NonEmpty(t) /\ (wq_next[q] # NoNode \/ ~ TailIsHead(q)))
  <2>1. TailIsHead(q) /\ UNCHANGED <<wq_fifo, wq_hand>> /\ wq_ret' = [wq_ret EXCEPT ![t] = <<"nothing">>]
    BY <1>2, <1>5 DEF EmptyTail, Result
  <2>2. wq_fifo[q] = << >>
    BY <2>1, WfcqTailFacts DEF TailIsHead
  <2> QED BY <1>1, <2>1, <2>2, WfcqLooks
<1> QED BY <1>3, <1>4, <1>5

(* Calls that give up, and a splice that finds no first node.              *)
LEMMA WfcqGivesUp ==
    ASSUME WfcqIInv, NEW t \in WfcqThreads,
           SyncHead(t) \/ IterSync(t) \/ RestoreHead(t) \/ TestTail(t)
    PROVE  [FifoQueues!Next]_(FifoQueues!vars)
<1>0. WfcqConsuming(t) /\ WfcqHolding(t) /\ WfcqWalking(t)
  BY DEF WfcqIInv, WfcqConsumers, WfcqHolders, WfcqWalkers
<1>1. wq_pc[t] \in {"sync_head", "iter_sync", "restore_head", "test_tail"}
  BY DEF SyncHead, IterSync, RestoreHead, TestTail
<1>2. PICK q \in Queues : q = wq_frame[t].q
  BY <1>0, <1>1 DEF WfcqConsuming, WfcqConsume, WfcqDequeue, WfcqIterate, WfcqSplice
<1>3. UNCHANGED <<wq_fifo, wq_hand>>
  BY DEF SyncHead, IterSync, RestoreHead, TestTail
<1>4. wq_pc[t] # "test_tail" => wq_fifo[q] # << >>
  <2>1. wq_pc[t] \in {"sync_head", "restore_head"} => wq_fifo[q] # << >>
    BY <1>0, <1>2 DEF WfcqHolding, WfcqDequeue
  <2>2. wq_pc[t] = "iter_sync" => wq_fifo[q] # << >>
    BY <1>0, <1>2, EmptySeq, WfcqHeadFacts DEF WfcqWalking, WfcqIterate
  <2> QED BY <1>1, <2>1, <2>2
<1>5. wq_pc[t] = "test_tail" =>
         \/ wq_ret' = wq_ret
         \/ wq_fifo[q] = << >> /\ wq_ret' = [wq_ret EXCEPT ![t] = <<"nothing">>]
         \/ wq_fifo[q] # << >> /\ wq_ret' = [wq_ret EXCEPT ![t] = <<"would_block">>]
  <2>1. wq_pc[t] = "test_tail" => TestTail(t)
    BY DEF SyncHead, IterSync, RestoreHead
  <2>2. TailIsHead(q) <=> wq_fifo[q] = << >>
    BY WfcqTailFacts DEF TailIsHead
  <2> QED BY <1>2, <2>1, <2>2 DEF TestTail, Result
<1>6. wq_pc[t] # "test_tail" => wq_ret' = wq_ret \/ wq_ret' = [wq_ret EXCEPT ![t] = <<"would_block">>]
  BY DEF SyncHead, IterSync, RestoreHead, TestTail, GiveUp, Result
<1>7. CASE wq_ret' = wq_ret
  BY <1>3, <1>7, WfcqInvisible
<1>8. CASE wq_ret' # wq_ret
  BY <1>1, <1>3, <1>4, <1>5, <1>6, <1>8, WfcqLooks
<1> QED BY <1>7, <1>8

(* The end of an iteration: it has visited every node, in order.           *)
LEMMA WfcqWalks ==
    ASSUME WfcqIInv, NEW t \in WfcqThreads, IterTail(t)
    PROVE  [FifoQueues!Next]_(FifoQueues!vars)
<1>0. WfcqConsuming(t) /\ WfcqWalking(t) /\ wq_pc[t] = "iter_tail" /\ UNCHANGED <<wq_fifo, wq_hand>>
  BY DEF WfcqIInv, WfcqConsumers, WfcqWalkers, IterTail
<1>1. PICK q \in Queues : q = wq_frame[t].q
  BY <1>0 DEF WfcqConsuming, WfcqConsume, WfcqIterate
<1>2. CASE wq_tail[q] # wq_frame[t].node
  <2>1. wq_ret' = wq_ret
    BY <1>1, <1>2 DEF IterTail
  <2> QED BY <1>0, <2>1, WfcqInvisible
<1>3. CASE wq_tail[q] = wq_frame[t].node
  <2>1. PICK s \in Seq(WfcqNodes) : s = wq_frame[t].seen
    BY DEF WfcqIInv, WfcqTypeOK, WfcqFrames
  <2>2. wq_ret' = [wq_ret EXCEPT ![t] = <<"walked">> \o s]
    BY <1>1, <1>3, <2>1 DEF IterTail, Result
  <2>3. /\ Len(s) \in 1 .. Len(wq_fifo[q]) /\ wq_frame[t].node = wq_fifo[q][Len(s)]
        /\ \A i \in 1 .. Len(s) : s[i] = wq_fifo[q][i]
    BY <1>0, <1>1, <2>1 DEF WfcqWalking, WfcqIterate
  <2>4. wq_fifo[q] \in Seq(WfcqNodes) /\ wq_fifo[q] # << >>
    BY <2>3, WfcqHeadFacts, EmptySeq
  <2>5. Len(s) = Len(wq_fifo[q])
    BY <1>3, <2>3, <2>4, WfcqTailFacts
  <2>6. s = wq_fifo[q]
    BY <2>3, <2>4, <2>5, SeqEqual
  <2> QED BY <1>0, <2>2, <2>6, WfcqLooks
<1> QED BY <1>2, <1>3

(* The exchange of an append reports whether the queue was empty.          *)
LEMMA WfcqPutAnswers ==
    ASSUME WfcqIInv, NEW t \in WfcqThreads, NEW q \in Queues, wq_pc[t] \notin {"link", "return"},
           wq_ret' = [wq_ret EXCEPT ![t] = <<"put", wq_tail[q] # q>>]
    PROVE  FifoQueues!Answer(t, <<"put", wq_fifo[q] # << >>>>) /\ FifoQueues!Moves(t)
<1>1. PICK b \in BOOLEAN : b = (wq_tail[q] # q)
  OBVIOUS
<1>2. b = (wq_fifo[q] # << >>)
  BY <1>1, WfcqTailFacts
<1>3. wq_ret' = [wq_ret EXCEPT ![t] = <<"put", b>>]
  BY <1>1
<1>4. FifoQueues!Answer(t, <<"put", b>>) /\ wq_ret[t] = NoNode /\ wq_ret'[t] = <<"put", b>>
  BY <1>3, WfcqAnswered
<1>5. FifoQueues!Moves(t)
  BY <1>4, WfcqueueAssumption DEF FifoQueues!Moves
<1> QED BY <1>2, <1>4, <1>5

(* cds_wfcq_enqueue() takes effect with its exchange.                      *)
LEMMA WfcqPuts ==
    ASSUME WfcqIInv, NEW t \in WfcqThreads, NEW q \in Queues, NEW n \in WfcqNodes,
           cds_wfcq_enqueue(t, q, n)
    PROVE  FifoQueues!Next
<1>1. /\ wq_pc[t] = "idle" /\ wq_hand' = wq_hand
      /\ wq_fifo' = [wq_fifo EXCEPT ![q] = @ \o <<n>>]
      /\ wq_ret' = [wq_ret EXCEPT ![t] = <<"put", wq_tail[q] # q>>]
  BY DEF cds_wfcq_enqueue, ___cds_wfcq_append, Result
<1>2. /\ \A p \in Queues : \A i \in DOMAIN wq_fifo[p] : wq_fifo[p][i] # n
      /\ \A u \in WfcqThreads : \A i \in DOMAIN wq_hand[u] : wq_hand[u][i] # n
  BY DEF cds_wfcq_enqueue, NodeFree, InSeq
<1>3. FifoQueues!Answer(t, <<"put", wq_fifo[q] # << >>>>) /\ FifoQueues!Moves(t)
  BY <1>1, WfcqPutAnswers
<1>4. FifoQueues!Put(t, q, n)
  BY <1>1, <1>2, <1>3 DEF FifoQueues!Put, FifoQueues!Added
<1> QED BY <1>3, <1>4 DEF FifoQueues!Next

(* A splice takes effect on its destination with the same exchange.        *)
LEMMA WfcqPutsAll ==
    ASSUME WfcqIInv, NEW t \in WfcqThreads, SpliceAppend(t)
    PROVE  FifoQueues!Next
<1>1. PICK q \in Queues : q = wq_frame[t].dest
  BY WfcqSpliceAppends
<1>2. /\ wq_pc[t] = "append" /\ wq_hand' = [wq_hand EXCEPT ![t] = << >>]
      /\ wq_fifo' = [wq_fifo EXCEPT ![q] = @ \o wq_hand[t]]
      /\ wq_ret' = [wq_ret EXCEPT ![t] = <<"put", wq_tail[q] # q>>]
  BY <1>1 DEF SpliceAppend, ___cds_wfcq_append, Result
<1>3. wq_hand[t] # << >>
  BY WfcqSpliceAppends
<1>4. FifoQueues!Answer(t, <<"put", wq_fifo[q] # << >>>>) /\ FifoQueues!Moves(t)
  BY <1>2, WfcqPutAnswers
<1>5. FifoQueues!PutAll(t, q)
  BY <1>2, <1>3, <1>4 DEF FifoQueues!PutAll, FifoQueues!Added
<1> QED BY <1>4, <1>5 DEF FifoQueues!Next

(* A splice takes effect on its source with the exchange of the tail.      *)
LEMMA WfcqTakesAll ==
    ASSUME WfcqIInv, NEW t \in WfcqThreads, TakeTail(t)
    PROVE  FifoQueues!Next
<1>0. WfcqTypeOK /\ WfcqConsuming(t) /\ WfcqHolding(t) /\ WfcqWalking(t) /\ wq_pc[t] = "take_tail"
  BY DEF WfcqIInv, WfcqConsumers, WfcqHolders, WfcqWalkers, TakeTail
<1>1. PICK q \in Queues : q = wq_frame[t].q
  BY <1>0 DEF WfcqConsuming, WfcqConsume, WfcqSplice
<1>2. wq_fifo[q] # << >> /\ wq_hand[t] = << >> /\ wq_ret[t] = NoNode
  BY <1>0, <1>1 DEF WfcqHolding, WfcqWalking
<1>3. /\ wq_hand' = [wq_hand EXCEPT ![t] = wq_fifo[q]]
      /\ wq_fifo' = [wq_fifo EXCEPT ![q] = << >>] /\ wq_ret' = wq_ret
  BY <1>1 DEF TakeTail
<1>4. wq_hand'[t] = wq_fifo[q]
  BY <1>0, <1>3 DEF WfcqTypeOK
<1>5. FifoQueues!Moves(t)
  BY <1>2, <1>4 DEF FifoQueues!Moves
<1>6. FifoQueues!TakeAll(t, q)
  BY <1>2, <1>3 DEF FifoQueues!TakeAll
<1> QED BY <1>5, <1>6 DEF FifoQueues!Next

(* A dequeue takes the first node and tells rightly whether it was the     *)
(* last.                                                                   *)
LEMMA WfcqTakes ==
    ASSUME WfcqIInv, NEW t \in WfcqThreads, NEW last \in BOOLEAN,
           wq_pc[t] \in {"cas_tail", "advance"}, Dequeued(t, last), wq_hand' = wq_hand,
           last = (Len(wq_fifo[wq_frame[t].q]) = 1)
    PROVE  FifoQueues!Next
<1>0. WfcqTypeOK /\ WfcqConsuming(t) /\ WfcqHolding(t)
  BY DEF WfcqIInv, WfcqConsumers, WfcqHolders
<1>1. PICK q \in Queues : q = wq_frame[t].q
  BY <1>0 DEF WfcqConsuming, WfcqConsume, WfcqDequeue
<1>2. wq_fifo[q] # << >> /\ wq_frame[t].node = wq_fifo[q][1] /\ wq_fifo[q] \in Seq(WfcqNodes)
  BY <1>0, <1>1, WfcqHeadFacts DEF WfcqHolding, WfcqDequeue
<1>3. PICK n \in WfcqNodes : n = wq_frame[t].node /\ n = Head(wq_fifo[q])
  <2>1. Len(wq_fifo[q]) \in Nat \ {0} /\ Head(wq_fifo[q]) = wq_fifo[q][1]
    BY <1>2, EmptySeq
  <2>2. wq_fifo[q][1] \in WfcqNodes
    BY <1>2, <2>1
  <2> QED BY <1>2, <2>1, <2>2
<1>4. /\ wq_fifo' = [wq_fifo EXCEPT ![q] = Tail(@)]
      /\ wq_ret' = [wq_ret EXCEPT ![t] = <<"took", n, last>>]
  BY <1>1, <1>3 DEF Dequeued, Result
<1>5. /\ FifoQueues!Answer(t, <<"took", n, last>>) /\ wq_ret[t] = NoNode
      /\ wq_ret'[t] = <<"took", n, last>>
  BY <1>4, WfcqAnswered
<1>6. FifoQueues!Moves(t)
  BY <1>5, WfcqueueAssumption DEF FifoQueues!Moves
<1>7. FifoQueues!Answer(t, <<"took", Head(wq_fifo[q]), Len(wq_fifo[q]) = 1>>)
  BY <1>1, <1>3, <1>5
<1>8. FifoQueues!Take(t, q)
  BY <1>2, <1>4, <1>7 DEF FifoQueues!Take
<1> QED BY <1>6, <1>8 DEF FifoQueues!Next

(* Both ways in which a dequeue takes effect.                              *)
LEMMA WfcqDequeueRefines ==
    ASSUME WfcqIInv, NEW t \in WfcqThreads, CasTail(t) \/ Advance(t)
    PROVE  [FifoQueues!Next]_(FifoQueues!vars)
<1>0. /\ WfcqConsuming(t) /\ WfcqHolding(t) /\ wq_pc[t] \in {"cas_tail", "advance"}
      /\ wq_hand' = wq_hand
  BY DEF WfcqIInv, WfcqConsumers, WfcqHolders, CasTail, Advance
<1>1. PICK q \in Queues : q = wq_frame[t].q
  BY <1>0 DEF WfcqConsuming, WfcqConsume, WfcqDequeue
<1>2. wq_fifo[q] # << >> /\ wq_frame[t].node = wq_fifo[q][1]
  BY <1>0, <1>1 DEF WfcqHolding, WfcqDequeue
<1>3. Len(wq_fifo[q]) \in Nat \ {0} /\ 1 \in 1 .. Len(wq_fifo[q])
  BY <1>2, WfcqTailFacts
<1>4. CASE Advance(t)
  <2>1. /\ wq_frame[t].next = wq_next[wq_frame[t].node] /\ wq_frame[t].next # NoNode
        /\ Dequeued(t, FALSE)
    BY <1>0, <1>4 DEF WfcqHolding, Advance
  <2>2. 1 < Len(wq_fifo[q])
    BY <1>2, <1>3, <2>1, WfcqNextFacts
  <2>3. FALSE = (Len(wq_fifo[q]) = 1)
    <3>1. \A k \in Nat \ {0} : 1 < k => k # 1
      OBVIOUS
    <3> QED BY <1>3, <2>2, <3>1, Zenon
  <2> QED BY <1>0, <1>1, <2>1, <2>3, WfcqTakes
<1>5. CASE CasTail(t) /\ wq_tail[q] = wq_frame[t].node
  <2>1. Dequeued(t, TRUE)
    BY <1>1, <1>5 DEF CasTail
  <2>2. TRUE = (Len(wq_fifo[q]) = 1)
    BY <1>2, <1>3, <1>5, WfcqTailFacts
  <2> QED BY <1>0, <1>1, <2>1, <2>2, WfcqTakes
<1>6. CASE CasTail(t) /\ wq_tail[q] # wq_frame[t].node
  <2>1. wq_fifo' = wq_fifo /\ wq_ret' = wq_ret
    BY <1>1, <1>6 DEF CasTail
  <2> QED BY <1>0, <2>1, WfcqInvisible
<1> QED BY <1>4, <1>5, <1>6

(* A call returns what it answered.                                        *)
LEMMA WfcqReturns ==
    ASSUME WfcqIInv, NEW t \in WfcqThreads, WfcqReturn(t)
    PROVE  [FifoQueues!Next]_(FifoQueues!vars)
<1>0. WfcqTypeOK
  BY DEF WfcqIInv
<1>1. UNCHANGED <<wq_fifo, wq_hand>> /\ wq_ret' = [wq_ret EXCEPT ![t] = NoNode]
  BY DEF WfcqReturn, Result
<1>2. CASE wq_ret[t] = NoNode
  <2>1. wq_ret' = wq_ret
    BY <1>0, <1>1, <1>2 DEF WfcqTypeOK
  <2> QED BY <1>1, <2>1, WfcqInvisible
<1>3. CASE wq_ret[t] # NoNode
  <2>1. wq_ret'[t] = NoNode
    BY <1>0, <1>1 DEF WfcqTypeOK
  <2>2. FifoQueues!Moves(t) /\ FifoQueues!Return(t)
    BY <1>1, <1>3, <2>1 DEF FifoQueues!Moves, FifoQueues!Return
  <2> QED BY <2>2 DEF FifoQueues!Next
<1> QED BY <1>2, <1>3

(* Every step of wfcqueue is a step of the queues, or invisible.           *)
LEMMA WfcqStepRefines ==
    ASSUME WfcqIInv, [WfcqueueNext]_wfcqvars
    PROVE  [FifoQueues!Next]_(FifoQueues!vars)
<1>1. CASE UNCHANGED wfcqvars
  BY <1>1, WfcqInvisible DEF wfcqvars
<1>2. CASE WfcqueueNext
  <2>1. PICK t \in WfcqThreads : WfcqStep(t)
    BY <1>2, WfcqueueAssumption DEF WfcqueueNext, WfcqIInv, WfcqTypeOK
  <2>2. UsedQueues \subseteq Queues
    BY DEF UsedQueues
  <2>3. ASSUME NEW q \in Queues, NEW n \in WfcqNodes, cds_wfcq_enqueue(t, q, n)
        PROVE  FifoQueues!Next
    BY <2>3, WfcqPuts
  <2>4. ASSUME NEW q, NEW dest, NEW op, NEW b, ConsumerCall(t, q, dest, op, b)
        PROVE  UNCHANGED FifoQueues!vars
    BY <2>4, WfcqInvisible DEF ConsumerCall
  <2>5. ASSUME NEW q, NEW b, cds_wfcq_dequeue(t, q, b) \/ cds_wfcq_for_each(t, q, b)
        PROVE  UNCHANGED FifoQueues!vars
    BY <2>4, <2>5 DEF cds_wfcq_dequeue, cds_wfcq_for_each
  <2>6. ASSUME NEW q, cds_wfcq_empty(t, q) PROVE UNCHANGED FifoQueues!vars
    BY <2>4, <2>6 DEF cds_wfcq_empty
  <2>7. ASSUME NEW src, NEW dest, NEW b, cds_wfcq_splice(t, src, dest, b)
        PROVE  UNCHANGED FifoQueues!vars
    BY <2>4, <2>7 DEF cds_wfcq_splice
  <2>8. CASE AppendLink(t) \/ LoadNext(t) \/ ResetHead(t) \/ SyncNext(t)
    BY <2>8, WfcqInvisible DEF AppendLink, LoadNext, ResetHead, SyncNext
  <2>9. CASE IterNext(t) \/ TakeHead(t)
    BY <2>9, WfcqInvisible DEF IterNext, TakeHead
  <2>10. CASE \/ EmptyHead(t) \/ EmptyTail(t) \/ SyncHead(t) \/ IterSync(t) \/ RestoreHead(t)
              \/ TestTail(t) \/ IterTail(t)
    BY <2>10, WfcqEmptyRefines, WfcqGivesUp, WfcqWalks
  <2>11. CASE WfcqReturn(t) \/ CasTail(t) \/ Advance(t) \/ TakeTail(t) \/ SpliceAppend(t)
    BY <2>11, WfcqReturns, WfcqDequeueRefines, WfcqTakesAll, WfcqPutsAll
  <2> QED BY <2>1, <2>2, <2>3, <2>5, <2>6, <2>7, <2>8, <2>9, <2>10, <2>11 DEF WfcqStep
<1> QED BY <1>1, <1>2

(* The invariant holds at all times.                                       *)
LEMMA WfcqIInvHolds == WfcqueueSpec => []WfcqIInv
BY WfcqInitially, WfcqPreserves, PTL DEF WfcqueueSpec

(* wfcqueue is linearisable to first-in first-out queues, with any number  *)
(* of enqueuers that sit between their exchange of the tail and their link *)
(* and of splices that hold a queue in their hands: no node is lost,       *)
(* doubled or overtaken, a queue is reported empty only when it is, a node *)
(* is reported last exactly when it is, and an iteration visits every node *)
(* in order.                                                               *)
THEOREM WfcqueueRefinement == WfcqueueSpec => WfcqImplementsFifo
<1>1. WfcqueueInit => FifoQueues!Init
  BY DEF WfcqueueInit, FifoQueues!Init
<1>2. WfcqIInv /\ [WfcqueueNext]_wfcqvars => [FifoQueues!Next]_(FifoQueues!vars)
  BY WfcqStepRefines
<1> QED BY <1>1, <1>2, WfcqIInvHolds, PTL DEF WfcqueueSpec, WfcqImplementsFifo, FifoQueues!Spec

-----------------------------------------------------------------------------
(* wfqueue (include/urcu/static/wfqueue.h).                                *)

(* The cells of the queue, and the places in its code.                    *)
WfqCells == WfqNodes \cup {WfqDummy}
WfqPC == {"idle", "link", "return", "test", "sync", "requeue", "relink"}

(* The values of the variables.                                            *)
WfqTypeOK ==
    /\ fq_next \in [WfqCells -> WfqCells \cup {WfqNull}]
    /\ fq_pc \in [WfqThreads -> WfqPC]
    /\ fq_old \in [WfqThreads -> WfqCells \cup {WfqNull}]
    /\ fq_node \in [WfqThreads -> WfqCells \cup {WfqNull}]
    /\ fq_fifo \in Seq(WfqNodes)
    /\ DOMAIN fq_ret = WfqThreads

(* A dequeuer holds the lock; a result is there once the call has taken    *)
(* effect.                                                                 *)
WfqControl(t) ==
    /\ fq_pc[t] \in {"test", "sync", "requeue", "relink"} => fq_lock = t
    /\ fq_pc[t] \in {"link", "return"} <=> fq_ret[t] # WfqNull

(* A thread between its exchange of the tail and its store.                *)
WfqLinking(t) == fq_pc[t] \in {"link", "relink"}

(* The nodes and the dummy in the order of their enqueues: d is the place  *)
(* of the dummy, zero while a dequeuer has it in its hands.                *)
WfqLine(L, d) ==
    /\ L \in Seq(WfqCells) /\ Len(L) >= 1
    /\ \A i, j \in 1..Len(L) : L[i] = L[j] => i = j
    /\ d \in 0..Len(L)
    /\ \A i \in 1..Len(L) : L[i] = WfqDummy <=> i = d
    /\ fq_head = L[1] /\ fq_tail = L[Len(L)]

(* The queue promised to the callers is that line without the dummy.       *)
WfqHeld(L, d) ==
    /\ Len(fq_fifo) = IF d = 0 THEN Len(L) ELSE Len(L) - 1
    /\ \A i \in 1..Len(L) : d = 0 \/ i < d => fq_fifo[i] = L[i]
    /\ \A i \in 1..Len(L) : d # 0 /\ i > d => fq_fifo[i - 1] = L[i]

(* A cell points to the one behind it, or somebody is about to store that. *)
WfqPoints(L) ==
    /\ fq_next[L[Len(L)]] = WfqNull
    /\ \A i \in 1..(Len(L) - 1) :
          \/ fq_next[L[i]] = L[i + 1]
          \/ fq_next[L[i]] = WfqNull
    /\ \A t \in WfqThreads : WfqLinking(t) =>
          \E i \in 1..(Len(L) - 1) :
              fq_old[t] = L[i] /\ fq_node[t] = L[i + 1] /\ fq_next[L[i]] = WfqNull

(* The dummy is out of the line while its dequeuer is about to enqueue it. *)
WfqAway(d) ==
    /\ d = 0 => fq_next[WfqDummy] = WfqNull
    /\ d = 0 <=> \E t \in WfqThreads : fq_pc[t] = "requeue"

WfqShape(L, d) == WfqLine(L, d) /\ WfqHeld(L, d) /\ WfqPoints(L) /\ WfqAway(d)

(* No two threads store through the same cell.                             *)
WfqOneLinker ==
    \A t, u \in WfqThreads :
        WfqLinking(t) /\ WfqLinking(u) /\ fq_old[t] = fq_old[u] => t = u

(* The inductive invariant of wfqueue.                                     *)
WfqIInv ==
    /\ WfqTypeOK
    /\ \A t \in WfqThreads : WfqControl(t)
    /\ WfqOneLinker
    /\ \E L, d : WfqShape(L, d)

(* _cds_wfq_init(): the dummy alone.                                       *)
LEMMA WfqInitially == WfqueueInit => WfqIInv
<1> SUFFICES ASSUME WfqueueInit PROVE WfqIInv OBVIOUS
<1>1. WfqTypeOK /\ \A t \in WfqThreads : WfqControl(t)
  BY DEF WfqueueInit, WfqTypeOK, WfqControl, WfqCells, WfqPC
<1>2. \A t \in WfqThreads : ~WfqLinking(t) /\ fq_pc[t] # "requeue"
  BY DEF WfqueueInit, WfqLinking
<1>3. WfqShape(<<WfqDummy>>, 1)
  <2> DEFINE L == <<WfqDummy>>
  <2>1. L \in Seq(WfqCells) /\ Len(L) = 1 /\ L[1] = WfqDummy BY DEF WfqCells
  <2> HIDE DEF L
  <2>2. /\ fq_head = WfqDummy /\ fq_tail = WfqDummy /\ fq_next[WfqDummy] = WfqNull
        /\ fq_fifo = << >>
    BY DEF WfqueueInit
  <2>3. WfqLine(L, 1) BY <2>1, <2>2 DEF WfqLine
  <2>4. WfqHeld(L, 1) BY <2>1, <2>2 DEF WfqHeld
  <2>5. WfqPoints(L) BY <1>2, <2>1, <2>2 DEF WfqPoints
  <2>6. WfqAway(1) BY <1>2 DEF WfqAway
  <2>7. WfqShape(L, 1) BY <2>3, <2>4, <2>5, <2>6 DEF WfqShape
  <2> QED BY <2>7 DEF L
<1> QED BY <1>1, <1>2, <1>3 DEF WfqIInv, WfqOneLinker

(* A step of t that leaves the cells and what is stored through them.      *)
LEMMA WfqMoves ==
    ASSUME WfqIInv, NEW t \in WfqThreads, NEW l \in WfqPC \ {"link", "relink", "requeue"},
           fq_pc[t] \notin {"link", "relink", "requeue"},
           fq_pc' = [fq_pc EXCEPT ![t] = l],
           fq_head' = fq_head, fq_tail' = fq_tail, fq_next' = fq_next, fq_fifo' = fq_fifo,
           \A u \in WfqThreads : u # t => fq_old'[u] = fq_old[u] /\ fq_node'[u] = fq_node[u]
    PROVE  WfqOneLinker' /\ \E L, d : WfqShape(L, d)'
<1>1. \A u \in WfqThreads : WfqLinking(u)' => WfqLinking(u) /\ u # t
  BY DEF WfqIInv, WfqTypeOK, WfqLinking
<1>2. WfqOneLinker'
  BY <1>1 DEF WfqIInv, WfqOneLinker
<1>3. PICK L, d : WfqShape(L, d)
  BY DEF WfqIInv
<1>4. WfqLine(L, d)' /\ WfqHeld(L, d)'
  BY <1>3 DEF WfqShape, WfqLine, WfqHeld
<1>5. WfqPoints(L)'
  BY <1>1, <1>3 DEF WfqShape, WfqPoints
<1>6. \A u \in WfqThreads : fq_pc'[u] = "requeue" <=> fq_pc[u] = "requeue"
  BY DEF WfqIInv, WfqTypeOK, WfqPC
<1>7. WfqAway(d)'
  BY <1>3, <1>6 DEF WfqShape, WfqAway
<1>8. WfqShape(L, d)'
  BY <1>4, <1>5, <1>7 DEF WfqShape
<1> QED BY <1>2, <1>8

(* The control of the others.                                              *)
LEMMA WfqOthers ==
    ASSUME WfqIInv, NEW t \in WfqThreads, NEW l \in WfqPC,
           fq_pc' = [fq_pc EXCEPT ![t] = l],
           \A u \in WfqThreads : u # t => fq_ret'[u] = fq_ret[u],
           fq_lock' = fq_lock \/ fq_lock \in {WfqNull, t},
           l \in {"test", "sync", "requeue", "relink"} => fq_lock' = t,
           l \in {"link", "return"} <=> fq_ret'[t] # WfqNull
    PROVE  \A u \in WfqThreads : WfqControl(u)'
BY WfqueueAssumption DEF WfqIInv, WfqTypeOK, WfqControl

(* t exchanges the tail and becomes a linker.                              *)
WfqExchange(t, n) ==
    /\ ~WfqLinking(t) /\ WfqLinking(t)'
    /\ XchgTail(t, n)
    /\ fq_next' = [fq_next EXCEPT ![n] = WfqNull] /\ fq_head' = fq_head
    /\ \A u \in WfqThreads : u # t => fq_pc'[u] = fq_pc[u]

(* M is L with n behind it, and what holds of M after the exchange.        *)
WfqLonger(L, k, M, n) ==
    /\ M \in Seq(WfqCells) /\ Len(M) = k + 1
    /\ \A i \in 1..k : M[i] = L[i]
    /\ M[k + 1] = n
    /\ \A i, j \in 1..(k + 1) : M[i] = M[j] => i = j
    /\ fq_head' = M[1] /\ fq_tail' = n
    /\ WfqPoints(M)' /\ WfqOneLinker'

(* A cell more at the end of the line, and a linker for it.                *)
LEMMA WfqAppended ==
    ASSUME WfqIInv, NEW L, NEW d, WfqShape(L, d), NEW t \in WfqThreads, NEW n \in WfqCells,
           NEW k \in Nat, k = Len(L), NEW M, M = Append(L, n),
           \A i \in 1..k : L[i] # n, WfqExchange(t, n)
    PROVE  WfqLonger(L, k, M, n)
<1>0. /\ ~WfqLinking(t) /\ WfqLinking(t)'
      /\ XchgTail(t, n)
      /\ fq_next' = [fq_next EXCEPT ![n] = WfqNull] /\ fq_head' = fq_head
      /\ \A u \in WfqThreads : u # t => fq_pc'[u] = fq_pc[u]
  BY DEF WfqExchange
<1>1. L \in Seq(WfqCells) /\ Len(L) \in Nat /\ Len(L) >= 1
  BY DEF WfqShape, WfqLine
<1>3. /\ M \in Seq(WfqCells) /\ Len(M) = k + 1
      /\ \A i \in 1..k : M[i] = L[i]
      /\ M[k + 1] = n
  BY <1>1
<1>4. k \in Nat /\ k = Len(L) /\ k >= 1 BY <1>1
<1>5. /\ \A i, j \in 1..k : L[i] = L[j] => i = j
      /\ \A i \in 1..k : L[i] # n /\ L[i] \in WfqCells
      /\ fq_head = L[1] /\ fq_tail = L[k]
  BY <1>1, <1>4 DEF WfqShape, WfqLine
<1>6. \A i, j \in 1..(k + 1) : M[i] = M[j] => i = j
  BY <1>3, <1>4, <1>5
<1>7. fq_head' = M[1] /\ fq_tail' = n
  BY <1>0, <1>3, <1>4, <1>5 DEF XchgTail
<1>8. \A u \in WfqThreads : u # t => (WfqLinking(u)' <=> WfqLinking(u))
  BY <1>0 DEF WfqLinking
<1>9. /\ fq_old'[t] = L[k] /\ fq_node'[t] = n
      /\ \A u \in WfqThreads : u # t => fq_old'[u] = fq_old[u] /\ fq_node'[u] = fq_node[u]
  BY <1>0, <1>5 DEF XchgTail, WfqIInv, WfqTypeOK
<1>10. fq_next'[n] = WfqNull /\ \A c \in WfqCells : c # n => fq_next'[c] = fq_next[c]
  BY <1>0 DEF WfqIInv, WfqTypeOK
<1>11. /\ fq_next[L[k]] = WfqNull
       /\ \A i \in 1..(k - 1) : fq_next[L[i]] = L[i + 1] \/ fq_next[L[i]] = WfqNull
       /\ \A u \in WfqThreads : WfqLinking(u) =>
            \E i \in 1..(k - 1) :
                fq_old[u] = L[i] /\ fq_node[u] = L[i + 1] /\ fq_next[L[i]] = WfqNull
  BY <1>4 DEF WfqShape, WfqPoints
<1>12. fq_next'[M[k]] = WfqNull /\ fq_next'[M[k + 1]] = WfqNull
  BY <1>3, <1>4, <1>5, <1>10, <1>11
<1>13. \A i \in 1..k : fq_next'[M[i]] = M[i + 1] \/ fq_next'[M[i]] = WfqNull
  <2> SUFFICES ASSUME NEW i \in 1..k
               PROVE  fq_next'[M[i]] = M[i + 1] \/ fq_next'[M[i]] = WfqNull
    OBVIOUS
  <2>1. CASE i = k BY <2>1, <1>12
  <2>2. CASE i # k
    <3>1. i \in 1..(k - 1) /\ i + 1 \in 1..k BY <2>2
    <3>2. M[i] = L[i] /\ M[i + 1] = L[i + 1] BY <3>1, <1>3, <1>4
    <3> QED BY <3>1, <3>2, <1>5, <1>10, <1>11
  <2> QED BY <2>1, <2>2
<1>14. \A u \in WfqThreads : WfqLinking(u)' =>
         \E i \in 1..k : fq_old'[u] = M[i] /\ fq_node'[u] = M[i + 1] /\ fq_next'[M[i]] = WfqNull
  <2> SUFFICES ASSUME NEW u \in WfqThreads, WfqLinking(u)'
               PROVE  \E i \in 1..k : /\ fq_old'[u] = M[i] /\ fq_node'[u] = M[i + 1]
                                      /\ fq_next'[M[i]] = WfqNull
    OBVIOUS
  <2>1. CASE u = t
    BY <2>1, <1>3, <1>4, <1>9, <1>12
  <2>2. CASE u # t
    <3>1. PICK i \in 1..(k - 1) :
              fq_old[u] = L[i] /\ fq_node[u] = L[i + 1] /\ fq_next[L[i]] = WfqNull
      BY <2>2, <1>8, <1>11
    <3>2. i \in 1..k /\ i + 1 \in 1..k BY <3>1
    <3>3. M[i] = L[i] /\ M[i + 1] = L[i + 1] BY <3>2, <1>3, <1>4
    <3>4. fq_next'[M[i]] = WfqNull BY <3>1, <3>2, <3>3, <1>5, <1>10
    <3> QED BY <2>2, <3>1, <3>2, <3>3, <3>4, <1>9
  <2> QED BY <2>1, <2>2
<1>15. WfqPoints(M)'
  BY <1>3, <1>4, <1>12, <1>13, <1>14 DEF WfqPoints
<1>16. \A u \in WfqThreads : u # t /\ WfqLinking(u) => fq_old[u] # L[k]
  BY <1>4, <1>5, <1>11
<1>17. WfqOneLinker'
  BY <1>8, <1>9, <1>16 DEF WfqOneLinker, WfqIInv
<1> QED BY <1>3, <1>6, <1>7, <1>15, <1>17 DEF WfqLonger

(* cds_wfq_enqueue(), the exchange.                                        *)
LEMMA WfqEnqueueKeeps ==
    ASSUME WfqIInv, NEW t \in WfqThreads, NEW n \in WfqNodes, cds_wfq_enqueue(t, n)
    PROVE  WfqIInv'
<1>0. WfqTypeOK BY DEF WfqIInv
<1>1. /\ fq_pc[t] = "idle" /\ \A i \in DOMAIN fq_fifo : fq_fifo[i] # n
      /\ XchgTail(t, n) /\ fq_next' = [fq_next EXCEPT ![n] = WfqNull]
      /\ fq_fifo' = Append(fq_fifo, n) /\ fq_pc' = [fq_pc EXCEPT ![t] = "link"]
      /\ fq_head' = fq_head /\ fq_lock' = fq_lock
  BY DEF cds_wfq_enqueue, WfqResult, WfqGoto
<1>2. PICK b \in BOOLEAN : b = (fq_fifo # << >>) OBVIOUS
<1>3. fq_ret' = [fq_ret EXCEPT ![t] = <<"put", b>>]
  BY <1>2 DEF cds_wfq_enqueue, WfqResult
<1>4. WfqTypeOK'
  <2>1. PICK L, d : WfqShape(L, d) BY DEF WfqIInv
  <2>2. fq_tail \in WfqCells BY <2>1 DEF WfqShape, WfqLine
  <2> QED BY <1>0, <1>1, <1>3, <2>2 DEF WfqTypeOK, WfqCells, WfqPC, XchgTail
<1>5. \A u \in WfqThreads : WfqControl(u)'
  <2>1. <<"put", b>> # WfqNull BY WfqueueAssumption
  <2>2. fq_ret'[t] # WfqNull /\ \A u \in WfqThreads : u # t => fq_ret'[u] = fq_ret[u]
    BY <1>0, <1>3, <2>1 DEF WfqTypeOK
  <2> QED BY <1>1, <2>2, WfqOthers DEF WfqPC
<1>6. PICK L, d : WfqShape(L, d) BY DEF WfqIInv
<1>7. PICK k \in Nat : k = Len(L) /\ k >= 1 /\ L \in Seq(WfqCells)
  BY <1>6 DEF WfqShape, WfqLine
<1>8. /\ d \in 0..k /\ \A i \in 1..k : L[i] = WfqDummy <=> i = d
      /\ Len(fq_fifo) = IF d = 0 THEN k ELSE k - 1
      /\ \A i \in 1..k : d = 0 \/ i < d => fq_fifo[i] = L[i]
      /\ \A i \in 1..k : d # 0 /\ i > d => fq_fifo[i - 1] = L[i]
  BY <1>6, <1>7 DEF WfqShape, WfqLine, WfqHeld
<1>9. PICK f \in Nat : f = Len(fq_fifo) /\ fq_fifo \in Seq(WfqNodes)
  BY <1>0 DEF WfqTypeOK
<1>10. n # WfqDummy /\ n \in WfqCells BY WfqueueAssumption DEF WfqCells
<1>11. \A i \in 1..f : fq_fifo[i] # n
  BY <1>1, <1>9
<1>12. \A i \in 1..k : L[i] # n
  <2> SUFFICES ASSUME NEW i \in 1..k PROVE L[i] # n OBVIOUS
  <2>1. CASE d = 0 \/ i < d
    <3>1. i \in 1..f /\ fq_fifo[i] = L[i] BY <1>8, <1>9, <2>1
    <3> QED BY <1>11, <3>1
  <2>2. CASE i = d BY <1>8, <1>10, <2>2
  <2>3. CASE d # 0 /\ i > d
    <3>1. i - 1 \in 1..f /\ fq_fifo[i - 1] = L[i] BY <1>8, <1>9, <2>3
    <3> QED BY <1>11, <3>1
  <2> QED BY <1>8, <2>1, <2>2, <2>3
<1>13. ~WfqLinking(t) /\ WfqLinking(t)' /\ fq_pc' \in [WfqThreads -> WfqPC]
  BY <1>0, <1>1 DEF WfqLinking, WfqTypeOK, WfqPC
<1>14. \A u \in WfqThreads : u # t => fq_pc'[u] = fq_pc[u]
  BY <1>0, <1>1 DEF WfqTypeOK
<1>15. PICK M : M = Append(L, n) OBVIOUS
<1>16. /\ M \in Seq(WfqCells) /\ Len(M) = k + 1
       /\ \A i \in 1..k : M[i] = L[i]
       /\ M[k + 1] = n
       /\ \A i, j \in 1..(k + 1) : M[i] = M[j] => i = j
       /\ fq_head' = M[1] /\ fq_tail' = n
       /\ WfqPoints(M)' /\ WfqOneLinker'
  <2>1. WfqExchange(t, n) BY <1>1, <1>13, <1>14 DEF WfqExchange
  <2>2. WfqLonger(L, k, M, n)
    BY ONLY WfqIInv, t \in WfqThreads, k \in Nat, <1>6, <1>7, <1>10, <1>12, <1>15, <2>1, WfqAppended
  <2> QED BY <2>2 DEF WfqLonger
<1>17. WfqLine(M, d)'
  BY <1>7, <1>8, <1>10, <1>16 DEF WfqLine
<1>18. /\ Len(fq_fifo') = f + 1 /\ fq_fifo'[f + 1] = n
       /\ \A i \in 1..f : fq_fifo'[i] = fq_fifo[i]
  BY <1>1, <1>9
<1>19. WfqHeld(M, d)'
  <2>1. Len(fq_fifo') = IF d = 0 THEN k + 1 ELSE k
    BY <1>8, <1>9, <1>18
  <2>2. ASSUME NEW i \in 1..(k + 1), d = 0 \/ i < d PROVE fq_fifo'[i] = M[i]
    <3>1. CASE i = k + 1
      <4>1. d = 0 /\ f = k BY <1>8, <1>9, <2>2, <3>1
      <4> QED BY <1>16, <1>18, <3>1, <4>1
    <3>2. CASE i # k + 1
      <4>1. i \in 1..k /\ i \in 1..f BY <1>8, <1>9, <2>2, <3>2
      <4> QED BY <1>8, <1>16, <1>18, <2>2, <4>1
    <3> QED BY <3>1, <3>2
  <2>3. ASSUME NEW i \in 1..(k + 1), d # 0, i > d PROVE fq_fifo'[i - 1] = M[i]
    <3>1. CASE i = k + 1
      <4>1. i - 1 = f + 1 BY <1>8, <1>9, <2>3, <3>1
      <4> QED BY <1>16, <1>18, <3>1, <4>1
    <3>2. CASE i # k + 1
      <4>1. i \in 1..k /\ i - 1 \in 1..f BY <1>8, <1>9, <2>3, <3>2
      <4> QED BY <1>8, <1>16, <1>18, <2>3, <4>1
    <3> QED BY <3>1, <3>2
  <2> QED BY <1>16, <2>1, <2>2, <2>3 DEF WfqHeld
<1>20. WfqAway(d)'
  <2>1. fq_next'[WfqDummy] = fq_next[WfqDummy]
    BY <1>0, <1>1, <1>10 DEF WfqTypeOK, WfqCells
  <2>2. \A u \in WfqThreads : fq_pc'[u] = "requeue" <=> fq_pc[u] = "requeue"
    BY <1>0, <1>1 DEF WfqTypeOK
  <2> QED BY <1>6, <2>1, <2>2 DEF WfqShape, WfqAway
<1>21. WfqShape(M, d)' BY <1>16, <1>17, <1>19, <1>20 DEF WfqShape
<1> QED BY <1>4, <1>5, <1>16, <1>21 DEF WfqIInv

(* A dequeuer that enqueues the dummy.                                     *)
LEMMA WfqRequeueKeeps ==
    ASSUME WfqIInv, NEW t \in WfqThreads, RequeueDummy(t)
    PROVE  WfqIInv'
<1>0. WfqTypeOK BY DEF WfqIInv
<1>1. /\ fq_pc[t] = "requeue" /\ XchgTail(t, WfqDummy)
      /\ fq_pc' = [fq_pc EXCEPT ![t] = "relink"]
      /\ fq_head' = fq_head /\ fq_next' = fq_next /\ fq_lock' = fq_lock
      /\ fq_fifo' = fq_fifo /\ fq_ret' = fq_ret
  BY DEF RequeueDummy, WfqGoto
<1>2. PICK L, d : WfqShape(L, d) BY DEF WfqIInv
<1>3. PICK k \in Nat : k = Len(L) /\ k >= 1 /\ L \in Seq(WfqCells)
  BY <1>2 DEF WfqShape, WfqLine
<1>4. d = 0 /\ fq_next[WfqDummy] = WfqNull /\ fq_lock = t
  BY <1>1, <1>2 DEF WfqShape, WfqAway, WfqIInv, WfqControl
<1>5. /\ \A i \in 1..k : L[i] # WfqDummy /\ fq_fifo[i] = L[i]
      /\ Len(fq_fifo) = k
  BY <1>2, <1>3, <1>4 DEF WfqShape, WfqLine, WfqHeld
<1>6. WfqTypeOK'
  <2>1. fq_tail \in WfqCells BY <1>2, <1>3 DEF WfqShape, WfqLine
  <2> QED BY <1>0, <1>1, <2>1 DEF WfqTypeOK, WfqCells, WfqPC, XchgTail
<1>7. \A u \in WfqThreads : WfqControl(u)'
  <2>1. fq_ret[t] = WfqNull BY <1>1 DEF WfqIInv, WfqControl
  <2> QED BY <1>1, <1>4, <2>1, WfqOthers DEF WfqPC
<1>8. fq_next' = [fq_next EXCEPT ![WfqDummy] = WfqNull]
  BY <1>0, <1>1, <1>4 DEF WfqTypeOK
<1>9. ~WfqLinking(t) /\ WfqLinking(t)' /\ fq_pc' \in [WfqThreads -> WfqPC]
  BY <1>0, <1>1 DEF WfqLinking, WfqTypeOK, WfqPC
<1>10. \A u \in WfqThreads : u # t => fq_pc'[u] = fq_pc[u]
  BY <1>0, <1>1 DEF WfqTypeOK
<1>11. PICK M : M = Append(L, WfqDummy) OBVIOUS
<1>12. /\ M \in Seq(WfqCells) /\ Len(M) = k + 1
       /\ \A i \in 1..k : M[i] = L[i]
       /\ M[k + 1] = WfqDummy
       /\ \A i, j \in 1..(k + 1) : M[i] = M[j] => i = j
       /\ fq_head' = M[1] /\ fq_tail' = WfqDummy
       /\ WfqPoints(M)' /\ WfqOneLinker'
  <2>1. WfqDummy \in WfqCells BY DEF WfqCells
  <2>2. WfqExchange(t, WfqDummy) BY <1>1, <1>8, <1>9, <1>10 DEF WfqExchange
  <2>3. \A i \in 1..k : L[i] # WfqDummy BY <1>5
  <2>4. WfqLonger(L, k, M, WfqDummy)
    BY ONLY WfqIInv, t \in WfqThreads, k \in Nat, <1>2, <1>3, <1>11, <2>1, <2>2, <2>3, WfqAppended
  <2> QED BY <2>4 DEF WfqLonger
<1>13. WfqLine(M, k + 1)'
  BY <1>3, <1>5, <1>12 DEF WfqLine
<1>14. WfqHeld(M, k + 1)'
  BY <1>1, <1>3, <1>5, <1>12 DEF WfqHeld
<1>15. WfqAway(k + 1)'
  <2>1. \A u \in WfqThreads : fq_pc'[u] # "requeue"
    BY <1>0, <1>1, <1>4 DEF WfqTypeOK, WfqIInv, WfqControl
  <2> QED BY <1>3, <2>1 DEF WfqAway
<1>16. WfqShape(M, k + 1)' BY <1>12, <1>13, <1>14, <1>15 DEF WfqShape
<1> QED BY <1>6, <1>7, <1>12, <1>16 DEF WfqIInv

(* The store through old_tail.                                             *)
LEMMA WfqLinkKeeps ==
    ASSUME WfqIInv, NEW t \in WfqThreads, WfqLink(t)
    PROVE  WfqIInv'
<1>0. WfqTypeOK BY DEF WfqIInv
<1>1. PICK l \in {"return", "test"} :
      /\ l = IF fq_pc[t] = "link" THEN "return" ELSE "test"
      /\ WfqLinking(t) /\ fq_pc[t] \in {"link", "relink"}
      /\ fq_next' = [fq_next EXCEPT ![fq_old[t]] = fq_node[t]]
      /\ fq_pc' = [fq_pc EXCEPT ![t] = l]
      /\ fq_head' = fq_head /\ fq_tail' = fq_tail /\ fq_lock' = fq_lock
      /\ fq_old' = fq_old /\ fq_node' = fq_node /\ fq_fifo' = fq_fifo /\ fq_ret' = fq_ret
  BY DEF WfqLink, WfqGoto, WfqLinking
<1>2. PICK L, d : WfqShape(L, d) BY DEF WfqIInv
<1>3. PICK k \in Nat : k = Len(L) /\ k >= 1 /\ L \in Seq(WfqCells)
  BY <1>2 DEF WfqShape, WfqLine
<1>4. /\ fq_next[L[k]] = WfqNull
      /\ \A i \in 1..(k - 1) : fq_next[L[i]] = L[i + 1] \/ fq_next[L[i]] = WfqNull
      /\ \A u \in WfqThreads : WfqLinking(u) =>
            \E i \in 1..(k - 1) :
                fq_old[u] = L[i] /\ fq_node[u] = L[i + 1] /\ fq_next[L[i]] = WfqNull
  BY <1>2, <1>3 DEF WfqShape, WfqPoints
<1>5. PICK j \in 1..(k - 1) : fq_old[t] = L[j] /\ fq_node[t] = L[j + 1]
  BY <1>1, <1>4
<1>6. \A i \in 1..k : (L[i] = L[j] => i = j) /\ L[i] \in WfqCells
  BY <1>2, <1>3 DEF WfqShape, WfqLine
<1>7. /\ fq_next'[L[j]] = L[j + 1]
      /\ \A c \in WfqCells : c # L[j] => fq_next'[c] = fq_next[c]
  BY <1>0, <1>1, <1>5, <1>6 DEF WfqTypeOK
<1>8. WfqTypeOK'
  <2>1. fq_old[t] \in WfqCells /\ fq_node[t] \in WfqCells BY <1>5, <1>6
  <2> QED BY <1>0, <1>1, <2>1 DEF WfqTypeOK, WfqPC
<1>9. \A u \in WfqThreads : WfqControl(u)'
  <2>1. /\ l \in {"link", "return"} <=> fq_ret[t] # WfqNull
        /\ l \in {"test", "sync", "requeue", "relink"} => fq_lock' = t
    BY <1>1 DEF WfqIInv, WfqControl
  <2> QED BY <1>1, <2>1, WfqOthers DEF WfqPC
<1>10. \A u \in WfqThreads : WfqLinking(u)' => u # t /\ WfqLinking(u) /\ fq_old[u] # fq_old[t]
  BY <1>0, <1>1 DEF WfqTypeOK, WfqLinking, WfqIInv, WfqOneLinker
<1>11. WfqOneLinker'
  BY <1>1, <1>10 DEF WfqIInv, WfqOneLinker
<1>12. WfqPoints(L)'
  <2>1. fq_next'[L[k]] = WfqNull
    BY <1>3, <1>4, <1>5, <1>6, <1>7
  <2>2. \A i \in 1..(k - 1) : fq_next'[L[i]] = L[i + 1] \/ fq_next'[L[i]] = WfqNull
    BY <1>3, <1>4, <1>5, <1>6, <1>7
  <2>3. \A u \in WfqThreads : WfqLinking(u)' =>
          \E i \in 1..(k - 1) :
              fq_old[u] = L[i] /\ fq_node[u] = L[i + 1] /\ fq_next'[L[i]] = WfqNull
    BY <1>4, <1>5, <1>6, <1>7, <1>10
  <2> QED BY <1>1, <1>3, <2>1, <2>2, <2>3 DEF WfqPoints
<1>13. WfqLine(L, d)' /\ WfqHeld(L, d)'
  BY <1>1, <1>2 DEF WfqShape, WfqLine, WfqHeld
<1>14. WfqAway(d)'
  <2>1. \A u \in WfqThreads : fq_pc'[u] = "requeue" <=> fq_pc[u] = "requeue"
    BY <1>0, <1>1 DEF WfqTypeOK
  <2>2. d = 0 => fq_next'[WfqDummy] = fq_next[WfqDummy]
    <3>1. d = 0 => L[j] # WfqDummy BY <1>2, <1>3 DEF WfqShape, WfqLine
    <3> QED BY <1>7, <3>1 DEF WfqCells
  <2> QED BY <1>2, <2>1, <2>2 DEF WfqShape, WfqAway
<1>15. WfqShape(L, d)' BY <1>12, <1>13, <1>14 DEF WfqShape
<1> QED BY <1>8, <1>9, <1>11, <1>15 DEF WfqIInv

(* M is L without its first cell, and what holds of M after the step.      *)
WfqShorter(L, k, M) ==
    /\ M \in Seq(WfqCells) /\ Len(M) = k - 1 /\ k - 1 >= 1
    /\ \A i \in 1..(k - 1) : M[i] = L[i + 1]
    /\ \A i, j \in 1..(k - 1) : M[i] = M[j] => i = j
    /\ fq_head' = M[1] /\ fq_tail' = M[k - 1]
    /\ WfqPoints(M)' /\ WfqOneLinker'

(* The first cell leaves the line once it points to the second.            *)
LEMMA WfqRemoved ==
    ASSUME WfqIInv, NEW L, NEW d, WfqShape(L, d), NEW t \in WfqThreads, WfqAdvance(t),
           NEW k \in Nat, k = Len(L), NEW M, M = Tail(L)
    PROVE  WfqShorter(L, k, M)
<1>0. WfqTypeOK BY DEF WfqIInv
<1>1. /\ fq_pc[t] = "sync" /\ fq_next[fq_head] # WfqNull /\ fq_head' = fq_next[fq_head]
      /\ fq_tail' = fq_tail /\ fq_old' = fq_old /\ fq_node' = fq_node
      /\ \A c \in WfqCells : c # fq_head => fq_next'[c] = fq_next[c]
      /\ \A u \in WfqThreads : WfqLinking(u)' <=> WfqLinking(u)
  BY <1>0 DEF WfqAdvance, WfqGoto, WfqResult, WfqLinking, WfqTypeOK
<1>2. /\ L \in Seq(WfqCells) /\ k >= 1 /\ fq_head = L[1] /\ fq_tail = L[k]
      /\ \A i, j \in 1..k : L[i] = L[j] => i = j
      /\ \A i \in 1..k : L[i] \in WfqCells
  BY DEF WfqShape, WfqLine
<1>3. /\ fq_next[L[k]] = WfqNull
      /\ \A i \in 1..(k - 1) : fq_next[L[i]] = L[i + 1] \/ fq_next[L[i]] = WfqNull
      /\ \A u \in WfqThreads : WfqLinking(u) =>
            \E i \in 1..(k - 1) :
                fq_old[u] = L[i] /\ fq_node[u] = L[i + 1] /\ fq_next[L[i]] = WfqNull
  BY DEF WfqShape, WfqPoints
<1>4. k >= 2 /\ k - 1 >= 1 /\ k - 1 \in Nat BY <1>1, <1>2, <1>3
<1>5. fq_head' = L[2] BY <1>1, <1>2, <1>3, <1>4
<1>6. M \in Seq(WfqCells) /\ Len(M) = k - 1 /\ \A i \in 1..(k - 1) : M[i] = L[i + 1]
  BY <1>2, <1>4
<1>7. \A i, j \in 1..(k - 1) : M[i] = M[j] => i = j
  BY <1>2, <1>6
<1>8. fq_head' = M[1] /\ fq_tail' = M[k - 1]
  BY <1>1, <1>2, <1>4, <1>5, <1>6
<1>9. \A i \in 1..(k - 1) : fq_next'[M[i]] = fq_next[L[i + 1]]
  BY <1>1, <1>2, <1>6
<1>10. WfqPoints(M)'
  <2>1. fq_next'[M[k - 1]] = WfqNull
    <3>1. k - 1 \in 1..(k - 1) /\ (k - 1) + 1 = k BY <1>4
    <3>2. fq_next'[M[k - 1]] = fq_next[L[(k - 1) + 1]] BY <3>1, <1>9
    <3> QED BY <3>1, <3>2, <1>3
  <2>2. ASSUME NEW i \in 1..(k - 1 - 1)
        PROVE  fq_next'[M[i]] = M[i + 1] \/ fq_next'[M[i]] = WfqNull
    <3>1. i \in 1..(k - 1) /\ i + 1 \in 1..(k - 1) OBVIOUS
    <3>2. M[i + 1] = L[i + 1 + 1] BY <3>1, <1>6
    <3> QED BY <3>1, <3>2, <1>3, <1>9
  <2>3. ASSUME NEW u \in WfqThreads, WfqLinking(u)
        PROVE  \E i \in 1..(k - 1 - 1) :
                   fq_old[u] = M[i] /\ fq_node[u] = M[i + 1] /\ fq_next'[M[i]] = WfqNull
    <3>1. PICK j \in 1..(k - 1) :
              fq_old[u] = L[j] /\ fq_node[u] = L[j + 1] /\ fq_next[L[j]] = WfqNull
      BY <2>3, <1>3
    <3>2. j # 1 BY <3>1, <1>1, <1>2
    <3>3. PICK i \in 1..(k - 1 - 1) : j = i + 1
      <4>1. j - 1 \in 1..(k - 1 - 1) /\ j = (j - 1) + 1 BY <3>2
      <4> QED BY <4>1
    <3>4. i \in 1..(k - 1) /\ i + 1 \in 1..(k - 1) OBVIOUS
    <3>5. M[i] = L[j] /\ M[i + 1] = L[j + 1] BY <3>3, <3>4, <1>6
    <3>6. fq_next'[M[i]] = WfqNull BY <3>1, <3>3, <3>4, <1>9
    <3> QED BY <3>1, <3>5, <3>6
  <2>4. Len(M) = k - 1 BY <1>6
  <2>5. \A u \in WfqThreads : WfqLinking(u)' =>
          \E i \in 1..(k - 1 - 1) :
              fq_old'[u] = M[i] /\ fq_node'[u] = M[i + 1] /\ fq_next'[M[i]] = WfqNull
    BY <1>1, <2>3
  <2>6. \A i \in 1..(k - 1 - 1) : fq_next'[M[i]] = M[i + 1] \/ fq_next'[M[i]] = WfqNull
    BY <2>2
  <2> QED BY ONLY <2>1, <2>4, <2>5, <2>6 DEF WfqPoints
<1>11. WfqOneLinker'
  BY <1>1 DEF WfqIInv, WfqOneLinker
<1> QED BY <1>4, <1>6, <1>7, <1>8, <1>10, <1>11 DEF WfqShorter

(* What a dequeuer finds in front: the dummy, or the oldest node.          *)
LEMMA WfqFront ==
    ASSUME WfqIInv, NEW t \in WfqThreads, fq_pc[t] = "sync", NEW L, NEW d, WfqShape(L, d)
    PROVE  /\ d # 0 /\ fq_lock = t /\ fq_ret[t] = WfqNull
           /\ fq_head = WfqDummy <=> d = 1
           /\ fq_head # WfqDummy =>
                 /\ fq_fifo # << >> /\ fq_head = Head(fq_fifo) /\ fq_head \in WfqNodes
<1>1. fq_lock = t /\ fq_ret[t] = WfqNull BY DEF WfqIInv, WfqControl
<1>2. d # 0
  BY <1>1 DEF WfqShape, WfqAway, WfqIInv, WfqControl
<1>3. fq_head = WfqDummy <=> d = 1
  BY DEF WfqShape, WfqLine
<1>4. ASSUME fq_head # WfqDummy
      PROVE  fq_fifo # << >> /\ fq_head = Head(fq_fifo) /\ fq_head \in WfqNodes
  <2>1. /\ L \in Seq(WfqCells) /\ Len(L) >= 1 /\ d \in 0..Len(L) /\ fq_head = L[1]
        /\ Len(fq_fifo) = Len(L) - 1
        /\ 1 < d => fq_fifo[1] = L[1]
    BY <1>2 DEF WfqShape, WfqLine, WfqHeld
  <2>2. d > 1 BY <1>2, <1>3, <1>4, <2>1
  <2>3. fq_fifo \in Seq(WfqNodes) BY DEF WfqIInv, WfqTypeOK
  <2>4. Len(fq_fifo) >= 1 /\ fq_head = fq_fifo[1] BY <2>1, <2>2
  <2>5. fq_fifo # << >> /\ Head(fq_fifo) = fq_fifo[1] /\ fq_fifo[1] \in WfqNodes
    BY <2>3, <2>4
  <2> QED BY <2>4, <2>5
<1> QED BY <1>1, <1>2, <1>3, <1>4

(* The dummy leaves the front.                                             *)
LEMMA WfqPassDummyKeeps ==
    ASSUME WfqIInv, NEW t \in WfqThreads, WfqAdvance(t), fq_head = WfqDummy
    PROVE  WfqIInv'
<1>0. WfqTypeOK BY DEF WfqIInv
<1>1. /\ fq_pc[t] = "sync" /\ fq_head' = fq_next[fq_head]
      /\ fq_next' = [fq_next EXCEPT ![WfqDummy] = WfqNull]
      /\ fq_pc' = [fq_pc EXCEPT ![t] = "requeue"]
      /\ fq_fifo' = fq_fifo /\ fq_ret' = fq_ret /\ fq_lock' = fq_lock
      /\ fq_old' = fq_old /\ fq_node' = fq_node
  BY DEF WfqAdvance, WfqGoto
<1>2. PICK L, d : WfqShape(L, d) BY DEF WfqIInv
<1>3. d = 1 /\ fq_lock = t /\ fq_ret[t] = WfqNull BY <1>1, <1>2, WfqFront
<1>4. PICK k \in Nat : k = Len(L) /\ k >= 1 BY <1>2 DEF WfqShape, WfqLine
<1>5. PICK M : M = Tail(L) OBVIOUS
<1>6. WfqShorter(L, k, M) BY <1>2, <1>4, <1>5, WfqRemoved
<1>7. /\ M \in Seq(WfqCells) /\ Len(M) = k - 1 /\ k - 1 >= 1
      /\ \A i \in 1..(k - 1) : M[i] = L[i + 1]
      /\ \A i, j \in 1..(k - 1) : M[i] = M[j] => i = j
      /\ fq_head' = M[1] /\ fq_tail' = M[k - 1]
      /\ WfqPoints(M)' /\ WfqOneLinker'
  BY <1>6 DEF WfqShorter
<1>8. WfqTypeOK' BY <1>0, <1>1 DEF WfqTypeOK, WfqCells, WfqPC
<1>9. \A u \in WfqThreads : WfqControl(u)'
  BY <1>1, <1>3, WfqOthers DEF WfqPC
<1>10. /\ \A i \in 1..k : L[i] = WfqDummy <=> i = 1
       /\ Len(fq_fifo) = k - 1
       /\ \A i \in 1..k : i > 1 => fq_fifo[i - 1] = L[i]
  BY <1>2, <1>3, <1>4 DEF WfqShape, WfqLine, WfqHeld
<1>11. WfqLine(M, 0)' BY <1>4, <1>7, <1>10 DEF WfqLine
<1>12. WfqHeld(M, 0)'
  <2>1. ASSUME NEW i \in 1..(k - 1) PROVE fq_fifo[i] = M[i]
    <3>1. i + 1 \in 1..k /\ i + 1 > 1 /\ (i + 1) - 1 = i OBVIOUS
    <3> QED BY <3>1, <1>7, <1>10
  <2> QED BY <1>1, <1>7, <1>10, <2>1 DEF WfqHeld
<1>13. WfqAway(0)' BY <1>0, <1>1 DEF WfqAway, WfqTypeOK, WfqCells
<1>14. WfqShape(M, 0)' BY <1>7, <1>11, <1>12, <1>13 DEF WfqShape
<1> QED BY <1>7, <1>8, <1>9, <1>14 DEF WfqIInv

(* A node leaves the front: the dequeue takes effect.                      *)
LEMMA WfqTakeKeeps ==
    ASSUME WfqIInv, NEW t \in WfqThreads, WfqAdvance(t), fq_head # WfqDummy
    PROVE  WfqIInv'
<1>0. WfqTypeOK BY DEF WfqIInv
<1>1. /\ fq_pc[t] = "sync" /\ fq_head' = fq_next[fq_head] /\ fq_next' = fq_next
      /\ fq_pc' = [fq_pc EXCEPT ![t] = "return"]
      /\ fq_ret' = [fq_ret EXCEPT ![t] = <<"took", fq_head>>]
      /\ fq_fifo' = Tail(fq_fifo) /\ fq_lock' = fq_lock
      /\ fq_old' = fq_old /\ fq_node' = fq_node
  BY DEF WfqAdvance, WfqGoto, WfqResult
<1>2. PICK L, d : WfqShape(L, d) BY DEF WfqIInv
<1>3. d # 0 /\ d # 1 /\ fq_lock = t /\ fq_fifo # << >> /\ fq_head \in WfqNodes
  BY <1>1, <1>2, WfqFront
<1>4. PICK k \in Nat : k = Len(L) /\ k >= 1 BY <1>2 DEF WfqShape, WfqLine
<1>5. PICK M : M = Tail(L) OBVIOUS
<1>6. WfqShorter(L, k, M) BY <1>2, <1>4, <1>5, WfqRemoved
<1>7. /\ M \in Seq(WfqCells) /\ Len(M) = k - 1 /\ k - 1 >= 1
      /\ \A i \in 1..(k - 1) : M[i] = L[i + 1]
      /\ \A i, j \in 1..(k - 1) : M[i] = M[j] => i = j
      /\ fq_head' = M[1] /\ fq_tail' = M[k - 1]
      /\ WfqPoints(M)' /\ WfqOneLinker'
  BY <1>6 DEF WfqShorter
<1>8. WfqTypeOK'
  <2>1. Tail(fq_fifo) \in Seq(WfqNodes) BY <1>0, <1>3 DEF WfqTypeOK
  <2> QED BY <1>0, <1>1, <2>1 DEF WfqTypeOK, WfqPC
<1>9. \A u \in WfqThreads : WfqControl(u)'
  <2>1. PICK r : r = <<"took", fq_head>> OBVIOUS
  <2>2. r # WfqNull BY <1>3, <2>1, WfqueueAssumption
  <2>3. fq_ret'[t] # WfqNull /\ \A u \in WfqThreads : u # t => fq_ret'[u] = fq_ret[u]
    BY <1>0, <1>1, <2>1, <2>2 DEF WfqTypeOK
  <2> QED BY <1>1, <2>3, WfqOthers DEF WfqPC
<1>10. /\ d \in 2..k
       /\ \A i \in 1..k : L[i] = WfqDummy <=> i = d
       /\ Len(fq_fifo) = k - 1
       /\ \A i \in 1..k : i < d => fq_fifo[i] = L[i]
       /\ \A i \in 1..k : i > d => fq_fifo[i - 1] = L[i]
  BY <1>2, <1>3, <1>4 DEF WfqShape, WfqLine, WfqHeld
<1>11. WfqLine(M, d - 1)'
  <2>1. d - 1 \in 0..(k - 1) BY <1>4, <1>10
  <2>2. \A i \in 1..(k - 1) : M[i] = WfqDummy <=> i = d - 1
    BY <1>4, <1>7, <1>10
  <2> QED BY <1>4, <1>7, <2>1, <2>2 DEF WfqLine
<1>12. Len(fq_fifo') = k - 2 /\ \A i \in 1..(k - 2) : fq_fifo'[i] = fq_fifo[i + 1]
  BY <1>0, <1>1, <1>3, <1>4, <1>7, <1>10 DEF WfqTypeOK
<1>13. WfqHeld(M, d - 1)'
  <2>1. ASSUME NEW i \in 1..(k - 1), i < d - 1 PROVE fq_fifo'[i] = M[i]
    <3>1. i \in 1..(k - 2) /\ i + 1 \in 1..k /\ i + 1 < d BY <2>1, <1>4, <1>10
    <3>2. M[i] = L[i + 1] BY <1>7
    <3>3. fq_fifo[i + 1] = L[i + 1] BY <3>1, <1>10
    <3>4. fq_fifo'[i] = fq_fifo[i + 1] BY <3>1, <1>12
    <3> QED BY ONLY <3>2, <3>3, <3>4
  <2>2. ASSUME NEW i \in 1..(k - 1), i > d - 1 PROVE fq_fifo'[i - 1] = M[i]
    <3>1. /\ i - 1 \in 1..(k - 2) /\ i + 1 \in 1..k /\ i + 1 > d
          /\ (i - 1) + 1 = i /\ (i + 1) - 1 = i
      BY <2>2, <1>4, <1>10
    <3>2. M[i] = L[i + 1] BY <1>7
    <3>3. fq_fifo[(i + 1) - 1] = L[i + 1] BY <3>1, <1>10
    <3>4. fq_fifo'[i - 1] = fq_fifo[(i - 1) + 1] BY <3>1, <1>12
    <3> QED BY ONLY <3>1, <3>2, <3>3, <3>4
  <2> QED BY <1>7, <1>10, <1>12, <2>1, <2>2 DEF WfqHeld
<1>14. WfqAway(d - 1)'
  <2>1. \A u \in WfqThreads : fq_pc'[u] # "requeue"
    <3>1. \A u \in WfqThreads : fq_pc[u] # "requeue"
      BY <1>2, <1>3 DEF WfqShape, WfqAway
    <3> QED BY <1>0, <1>1, <3>1 DEF WfqTypeOK
  <2>2. d - 1 # 0 BY <1>10
  <2> QED BY <2>1, <2>2 DEF WfqAway
<1>15. WfqShape(M, d - 1)' BY <1>7, <1>11, <1>13, <1>14 DEF WfqShape
<1> QED BY <1>7, <1>8, <1>9, <1>15 DEF WfqIInv

(* Steps that leave the queue alone: the lock, the test, the return.       *)
LEMMA WfqQuietKeeps ==
    ASSUME WfqIInv, NEW t \in WfqThreads,
           cds_wfq_dequeue_blocking(t) \/ TestEmpty(t) \/ WfqReturn(t)
    PROVE  WfqIInv'
<1>0. WfqTypeOK /\ \A u \in WfqThreads : WfqControl(u) BY DEF WfqIInv
<1>1. PICK l \in {"test", "return", "sync", "idle"} :
      /\ fq_pc[t] \in {"idle", "test", "return"}
      /\ fq_pc' = [fq_pc EXCEPT ![t] = l]
      /\ fq_head' = fq_head /\ fq_tail' = fq_tail /\ fq_next' = fq_next /\ fq_fifo' = fq_fifo
  BY DEF cds_wfq_dequeue_blocking, TestEmpty, WfqReturn, WfqGoto, WfqResult
<1>2. \A u \in WfqThreads : u # t => fq_old'[u] = fq_old[u] /\ fq_node'[u] = fq_node[u]
  BY <1>0 DEF cds_wfq_dequeue_blocking, TestEmpty, WfqReturn, WfqTypeOK
<1>3. WfqTypeOK'
  <2>1. /\ fq_old' \in [WfqThreads -> WfqCells \cup {WfqNull}]
        /\ fq_node' \in [WfqThreads -> WfqCells \cup {WfqNull}]
    BY <1>0 DEF cds_wfq_dequeue_blocking, TestEmpty, WfqReturn, WfqTypeOK
  <2>2. DOMAIN fq_ret' = WfqThreads
    BY <1>0 DEF cds_wfq_dequeue_blocking, TestEmpty, WfqReturn, WfqResult, WfqTypeOK
  <2> QED BY <1>0, <1>1, <2>1, <2>2 DEF WfqTypeOK, WfqPC
<1>4. WfqOneLinker' /\ \E L, d : WfqShape(L, d)'
  BY <1>1, <1>2, WfqMoves DEF WfqPC
<1>5. \A u \in WfqThreads : WfqControl(u)'
  <2>1. CASE cds_wfq_dequeue_blocking(t)
    <3>1. /\ fq_pc' = [fq_pc EXCEPT ![t] = "test"] /\ fq_lock = WfqNull /\ fq_lock' = t
          /\ fq_ret' = fq_ret /\ fq_pc[t] = "idle"
      BY <2>1 DEF cds_wfq_dequeue_blocking, WfqGoto
    <3>2. fq_ret'[t] = WfqNull BY <1>0, <3>1 DEF WfqControl
    <3> QED BY <3>1, <3>2, WfqOthers DEF WfqPC
  <2>2. CASE TestEmpty(t) /\ OnlyDummy
    <3>1. /\ fq_pc' = [fq_pc EXCEPT ![t] = "return"] /\ fq_lock' = fq_lock
          /\ fq_ret' = [fq_ret EXCEPT ![t] = <<"nothing">>]
      BY <2>2 DEF TestEmpty, WfqResult, WfqGoto
    <3>2. /\ fq_ret'[t] # WfqNull
          /\ \A u \in WfqThreads : u # t => fq_ret'[u] = fq_ret[u]
      BY <1>0, <3>1, WfqueueAssumption DEF WfqTypeOK
    <3> QED BY <3>1, <3>2, WfqOthers DEF WfqPC
  <2>3. CASE TestEmpty(t) /\ ~OnlyDummy
    <3>1. /\ fq_pc' = [fq_pc EXCEPT ![t] = "sync"] /\ fq_lock' = fq_lock
          /\ fq_ret' = fq_ret /\ fq_pc[t] = "test"
      BY <2>3 DEF TestEmpty, WfqGoto
    <3>2. fq_ret'[t] = WfqNull /\ fq_lock = t BY <1>0, <3>1 DEF WfqControl
    <3> QED BY <3>1, <3>2, WfqOthers DEF WfqPC
  <2>4. CASE WfqReturn(t)
    <3>1. /\ fq_pc' = [fq_pc EXCEPT ![t] = "idle"] /\ (fq_lock' = fq_lock \/ fq_lock = t)
          /\ fq_ret' = [fq_ret EXCEPT ![t] = WfqNull]
      BY <2>4 DEF WfqReturn, WfqResult, WfqGoto
    <3>2. /\ fq_ret'[t] = WfqNull
          /\ \A u \in WfqThreads : u # t => fq_ret'[u] = fq_ret[u]
      BY <1>0, <3>1 DEF WfqTypeOK
    <3> QED BY <3>1, <3>2, WfqOthers DEF WfqPC
  <2> QED BY <2>1, <2>2, <2>3, <2>4
<1> QED BY <1>3, <1>4, <1>5 DEF WfqIInv

(* Every step keeps the invariant.                                         *)
LEMMA WfqPreserves == WfqIInv /\ [WfqueueNext]_wfqvars => WfqIInv'
<1> SUFFICES ASSUME WfqIInv, [WfqueueNext]_wfqvars PROVE WfqIInv' OBVIOUS
<1>1. CASE UNCHANGED wfqvars
  <2>1. WfqTypeOK' BY <1>1 DEF WfqIInv, WfqTypeOK, wfqvars
  <2>2. WfqOneLinker' /\ \A u \in WfqThreads : WfqControl(u)'
    BY <1>1 DEF WfqIInv, WfqOneLinker, WfqControl, WfqLinking, wfqvars
  <2>3. PICK L, d : WfqShape(L, d) BY DEF WfqIInv
  <2>4. WfqShape(L, d)'
    BY <1>1, <2>3 DEF WfqShape, WfqLine, WfqHeld, WfqPoints, WfqAway, WfqLinking, wfqvars
  <2> QED BY <2>1, <2>2, <2>4 DEF WfqIInv
<1>2. ASSUME NEW t \in WfqThreads, WfqStep(t) PROVE WfqIInv'
  BY <1>2, WfqEnqueueKeeps, WfqQuietKeeps, WfqLinkKeeps, WfqRequeueKeeps, WfqPassDummyKeeps,
     WfqTakeKeeps DEF WfqStep
<1> QED BY <1>1, <1>2 DEF WfqueueNext

(* What the callers do not see.                                            *)
LEMMA WfqInvisible ==
    ASSUME fq_fifo' = fq_fifo, fq_ret' = fq_ret
    PROVE  UNCHANGED DummyFifo!vars
BY DEF DummyFifo!vars

(* A thread that has not answered yet may do so.                           *)
LEMMA WfqAnswered ==
    ASSUME WfqIInv, NEW t \in WfqThreads, NEW r, fq_pc[t] \notin {"link", "return"},
           r # WfqNull, fq_ret' = [fq_ret EXCEPT ![t] = r]
    PROVE  DummyFifo!Answer(t, r) /\ DummyFifo!Moves(t)
<1>1. fq_ret[t] = WfqNull /\ fq_ret'[t] = r
  BY DEF WfqIInv, WfqControl, WfqTypeOK
<1> QED BY <1>1 DEF DummyFifo!Answer, DummyFifo!Moves

(* Every step is one of the abstract queue, or invisible.                  *)
LEMMA WfqStepRefines ==
    ASSUME WfqIInv, NEW t \in WfqThreads, WfqStep(t)
    PROVE  [DummyFifo!Next]_(DummyFifo!vars)
<1>1. CASE cds_wfq_dequeue_blocking(t) \/ WfqLink(t) \/ RequeueDummy(t)
  BY <1>1, WfqInvisible DEF cds_wfq_dequeue_blocking, WfqLink, RequeueDummy
<1>2. ASSUME NEW n \in WfqNodes, cds_wfq_enqueue(t, n) PROVE DummyFifo!Next
  <2>1. PICK b \in BOOLEAN : b = (fq_fifo # << >>) OBVIOUS
  <2>2. /\ fq_pc[t] = "idle" /\ \A i \in DOMAIN fq_fifo : fq_fifo[i] # n
        /\ fq_fifo' = Append(fq_fifo, n)
        /\ fq_ret' = [fq_ret EXCEPT ![t] = <<"put", b>>]
    BY <1>2, <2>1 DEF cds_wfq_enqueue, WfqResult
  <2>3. PICK r : r = <<"put", b>> OBVIOUS
  <2>4. DummyFifo!Answer(t, r) /\ DummyFifo!Moves(t)
    BY <2>2, <2>3, WfqAnswered, WfqueueAssumption
  <2>5. Append(fq_fifo, n) = fq_fifo \o <<n>>
    BY DEF WfqIInv, WfqTypeOK
  <2>6. DummyFifo!Put(t, WfqQueue, n)
    BY <2>1, <2>2, <2>3, <2>4, <2>5 DEF DummyFifo!Put, DummyFifo!Added
  <2> QED BY <2>4, <2>6 DEF DummyFifo!Next
<1>3. CASE TestEmpty(t)
  <2>1. CASE OnlyDummy
    <3>1. /\ fq_pc[t] = "test" /\ fq_fifo' = fq_fifo
          /\ fq_ret' = [fq_ret EXCEPT ![t] = <<"nothing">>]
      BY <1>3, <2>1 DEF TestEmpty, WfqResult
    <3>2. fq_fifo = << >>
      <4>1. PICK L, d : WfqShape(L, d) BY DEF WfqIInv
      <4>2. /\ L \in Seq(WfqCells) /\ Len(L) >= 1 /\ L[1] = WfqDummy /\ L[Len(L)] = WfqDummy
            /\ d \in 0..Len(L) /\ \A i \in 1..Len(L) : L[i] = WfqDummy <=> i = d
            /\ d # 0 => Len(fq_fifo) = Len(L) - 1
        BY <2>1, <4>1 DEF OnlyDummy, WfqShape, WfqLine, WfqHeld
      <4>3. d = 1 /\ Len(L) = 1
        <5>1. PICK k \in Nat : k = Len(L) /\ k >= 1 BY <4>2
        <5>2. 1 \in 1..k /\ k \in 1..k BY <5>1
        <5> QED BY <4>2, <5>1, <5>2
      <4>4. Len(fq_fifo) = 0 /\ fq_fifo \in Seq(WfqNodes)
        BY <4>2, <4>3 DEF WfqIInv, WfqTypeOK
      <4> QED BY <4>4, EmptySeq
    <3>3. DummyFifo!Answer(t, <<"nothing">>) /\ DummyFifo!Moves(t)
      BY <3>1, WfqAnswered, WfqueueAssumption
    <3>4. DummyFifo!Nothing(t, WfqQueue)
      BY <3>1, <3>2, <3>3 DEF DummyFifo!Nothing
    <3> QED BY <3>3, <3>4 DEF DummyFifo!Next
  <2>2. CASE ~OnlyDummy
    BY <1>3, <2>2, WfqInvisible DEF TestEmpty
  <2> QED BY <2>1, <2>2
<1>4. CASE WfqAdvance(t)
  <2>1. CASE fq_head = WfqDummy
    BY <1>4, <2>1, WfqInvisible DEF WfqAdvance
  <2>2. CASE fq_head # WfqDummy
    <3>1. /\ fq_pc[t] = "sync" /\ fq_fifo' = Tail(fq_fifo)
          /\ fq_ret' = [fq_ret EXCEPT ![t] = <<"took", fq_head>>]
      BY <1>4, <2>2 DEF WfqAdvance, WfqResult
    <3>2. PICK L, d : WfqShape(L, d) BY DEF WfqIInv
    <3>3. fq_fifo # << >> /\ fq_head = Head(fq_fifo) /\ fq_head \in WfqNodes
      BY <2>2, <3>1, <3>2, WfqFront
    <3>4. PICK r : r = <<"took", Head(fq_fifo)>> OBVIOUS
    <3>5. DummyFifo!Answer(t, r) /\ DummyFifo!Moves(t)
      <4>1. r # WfqNull BY <3>3, <3>4, WfqueueAssumption
      <4>2. fq_ret' = [fq_ret EXCEPT ![t] = r] BY <3>1, <3>3, <3>4
      <4> QED BY <3>1, <4>1, <4>2, WfqAnswered
    <3>6. DummyFifo!TakeStateless(t, WfqQueue)
      BY <3>1, <3>3, <3>4, <3>5 DEF DummyFifo!TakeStateless
    <3> QED BY <3>5, <3>6 DEF DummyFifo!Next
  <2> QED BY <2>1, <2>2
<1>5. CASE WfqReturn(t)
  <2>1. /\ fq_pc[t] = "return" /\ fq_fifo' = fq_fifo
        /\ fq_ret' = [fq_ret EXCEPT ![t] = WfqNull]
    BY <1>5 DEF WfqReturn, WfqResult
  <2>2. fq_ret[t] # WfqNull /\ fq_ret'[t] = WfqNull
    BY <2>1 DEF WfqIInv, WfqControl, WfqTypeOK
  <2>3. DummyFifo!Moves(t) /\ DummyFifo!Return(t)
    BY <2>1, <2>2 DEF DummyFifo!Moves, DummyFifo!Return
  <2> QED BY <2>3 DEF DummyFifo!Next
<1> QED BY <1>1, <1>2, <1>3, <1>4, <1>5 DEF WfqStep

(* wfqueue is linearisable to a first-in first-out queue, with any number  *)
(* of enqueuers between their exchange of the tail and their store and     *)
(* with the dummy anywhere in the queue: no node is lost, doubled or       *)
(* overtaken, and NULL is returned only when the queue is empty.           *)
THEOREM WfqueueRefinement == WfqueueSpec => WfqImplementsFifo
<1>1. WfqueueInit => DummyFifo!Init
  BY DEF WfqueueInit, DummyFifo!Init
<1>2. WfqIInv /\ [WfqueueNext]_wfqvars => [DummyFifo!Next]_(DummyFifo!vars)
  <2>1. WfqIInv /\ WfqueueNext => [DummyFifo!Next]_(DummyFifo!vars)
    BY WfqStepRefines DEF WfqueueNext
  <2>2. UNCHANGED wfqvars => UNCHANGED DummyFifo!vars
    BY WfqInvisible DEF wfqvars
  <2> QED BY <2>1, <2>2
<1> QED BY <1>1, <1>2, WfqInitially, WfqPreserves, PTL
        DEF WfqueueSpec, WfqImplementsFifo, DummyFifo!Spec

-----------------------------------------------------------------------------
(* Atomic operations (include/urcu/uatomic/, compat_arch_x86.c).           *)

UaCallType == [op : UaOps, at : 0..3, size : 1..4, v : 0..15, old : 0..15]
UaPC == {"idle", "insn", "read_cas", "reserve", "cs", "mutex", "cas", "store_conditional",
         "compat_store", "compat_unlock", "return"}
UaTypeOK ==
    /\ ua_arch \in UaArchs
    /\ ua_mem \in Int
    /\ ua_call \in [UaThreads -> UaCallType \cup {UaNone}]
    /\ ua_pc \in [UaThreads -> UaPC]
    /\ DOMAIN ua_old = UaThreads /\ DOMAIN ua_left = UaThreads
    /\ ua_ret \in [UaThreads -> Int \cup {UaNone}]
    /\ ua_reserve \subseteq UaThreads

(* A thread has a call when it is not idle, and a result once the call has *)
(* taken effect.                                                           *)
UaControl(t) ==
    /\ ua_pc[t] = "idle" <=> ua_call[t] = UaNone
    /\ ua_pc[t] \in {"compat_unlock", "return"} <=> ua_ret[t] # UaNone

(* While a reservation holds, and while the mutex of the compat build is   *)
(* held, the operand is as it was when it was loaded.  The compat build    *)
(* stores nothing without the mutex.                                       *)
UaCurrent(t) ==
    /\ t \in ua_reserve => ua_pc[t] = "store_conditional" /\ ua_old[t] = Found(t)
    /\ ua_pc[t] = "compat_store" => ua_old[t] = Found(t)
    /\ ua_pc[t] \in {"compat_store", "compat_unlock"} => ua_mutex = t
    /\ ua_arch = "compat" =>
          /\ ua_pc[t] \in {"idle", "insn", "mutex", "compat_store", "compat_unlock", "return"}
          /\ ua_pc[t] = "insn" => ua_call[t].op = "read"
    /\ ua_arch # "compat" => ua_pc[t] \notin {"mutex", "compat_store", "compat_unlock"}

UaIInv == UaTypeOK /\ \A t \in UaThreads : UaControl(t) /\ UaCurrent(t)

(* The powers of two that occur.                                           *)
LEMMA UaPowers ==
    /\ 2^0 = 1 /\ 2^1 = 2 /\ 2^2 = 4 /\ 2^3 = 8 /\ 2^4 = 16
    /\ \A k \in 0..4 : 2^k \in {1, 2, 4, 8, 16}
<1>1. 2^0 = 1 /\ 2^1 = 2 /\ 2^2 = 4 /\ 2^3 = 8 /\ 2^4 = 16 OBVIOUS
<1>2. ASSUME NEW k \in 0..4 PROVE 2^k \in {1, 2, 4, 8, 16}
  <2>1. k = 0 \/ k = 1 \/ k = 2 \/ k = 3 \/ k = 4 OBVIOUS
  <2> QED BY <1>1, <2>1, Zenon
<1> QED BY <1>1, <1>2

LEMMA UaFieldOf ==
    ASSUME NEW m \in Int, NEW c \in UaCallType
    PROVE  /\ Atomic!Field(m, c) \in Int
           /\ Atomic!Field(m, c) % 2^c.size = Atomic!Field(m, c)
           /\ \A v \in Int : Atomic!WithField(m, c, v) \in Int
           /\ Atomic!WithField(m, c, Atomic!Field(m, c)) = m
<1>1. c.at \in 0..4 /\ c.size \in 0..4 BY DEF UaCallType
<1>2. PICK x \in {1, 2, 4, 8, 16}, y \in {1, 2, 4, 8, 16} : x = 2^c.at /\ y = 2^c.size
  BY <1>1, UaPowers
<1>3. PICK f \in Int : f = (m \div x) % y OBVIOUS
<1>4. f % y = f BY <1>3
<1>5. f = Atomic!Field(m, c) BY <1>2, <1>3 DEF Atomic!Field
<1>6. ASSUME NEW v \in Int PROVE Atomic!WithField(m, c, v) = m + ((v % y) - f) * x
  BY <1>2, <1>5 DEF Atomic!WithField
<1>7. ASSUME NEW v \in Int PROVE m + ((v % y) - f) * x \in Int
  OBVIOUS
<1>8. m + ((f % y) - f) * x = m BY <1>4
<1> QED BY <1>2, <1>4, <1>5, <1>6, <1>7, <1>8

LEMMA UaBits ==
    ASSUME NEW v \in Int, NEW w \in Int
    PROVE  Atomic!BitAnd(v, w) \in Int /\ Atomic!BitOr(v, w) \in Int
<1>1. ASSUME NEW u \in Int, NEW k \in 0..3 PROVE Atomic!Bit(u, k) \in 0..1
  <2>0. k \in 0..4 OBVIOUS
  <2>1. PICK p \in {1, 2, 4, 8, 16} : p = 2^k BY <2>0, UaPowers
  <2>2. PICK z \in Int : z = u \div p OBVIOUS
  <2>3. z % 2 \in 0..1 OBVIOUS
  <2> QED BY <2>1, <2>2, <2>3 DEF Atomic!Bit
<1>2. ASSUME NEW b \in [0..3 -> 0..1] PROVE Atomic!FromBits(b) \in Int
  <2>1. b[0] \in 0..1 /\ b[1] \in 0..1 /\ b[2] \in 0..1 /\ b[3] \in 0..1 OBVIOUS
  <2> QED BY <2>1 DEF Atomic!FromBits
<1>3. \A k \in 0..3 : Atomic!Bit(v, k) * Atomic!Bit(w, k) \in 0..1
  <2>1. \A i, j \in 0..1 : i * j \in 0..1 OBVIOUS
  <2> QED BY <1>1, <2>1
<1>4. [k \in 0..3 |-> Atomic!Bit(v, k) * Atomic!Bit(w, k)] \in [0..3 -> 0..1] BY <1>3
<1>5. [k \in 0..3 |-> IF Atomic!Bit(v, k) + Atomic!Bit(w, k) > 0 THEN 1 ELSE 0]
         \in [0..3 -> 0..1]
  OBVIOUS
<1> QED BY <1>2, <1>4, <1>5 DEF Atomic!BitAnd, Atomic!BitOr

(* Adding the negated argument as an unsigned long is subtracting it,      *)
(* modulo the size of the operand.                                         *)
LEMMA UaNegated ==
    ASSUME NEW c \in UaCallType, NEW x \in Int
    PROVE  /\ Atomic!Updated(AsAddition(c), x) = Atomic!Updated(c, x)
           /\ (IF c.op = "dec" THEN 0 ELSE Atomic!Returned(AsAddition(c), x))
                 = Atomic!Returned(c, x)
           /\ Atomic!Updated(c, x) \in Int /\ Atomic!Returned(c, x) \in Int
<1>1. c.op \in UaOps /\ c.size \in 0..4 /\ c.v \in 0..15 /\ c.old \in 0..15 BY DEF UaCallType
<1>2. PICK y \in {1, 2, 4, 8, 16} : y = 2^c.size BY <1>1, UaPowers
<1>3. UaLongBits = 4 /\ 2^UaLongBits = 16 BY UatomicAssumption, UaPowers
<1>4. CASE c.op = "sub_return"
  <2>1. PICK d : d = [c EXCEPT !.op = "add_return", !.v = (-c.v) % 16] OBVIOUS
  <2>2. AsAddition(c) = d BY <1>3, <1>4, <2>1 DEF AsAddition
  <2>3. d.op = "add_return" /\ d.size = c.size /\ d.v = (-c.v) % 16
    BY <2>1 DEF UaCallType
  <2>4. (x + ((-c.v) % 16)) % y = (x - c.v) % y BY <1>1
  <2>5. Atomic!Updated(d, x) = (x + d.v) % y BY <1>2, <2>3 DEF Atomic!Updated
  <2>6. Atomic!Updated(c, x) = (x - c.v) % y BY <1>2, <1>4 DEF Atomic!Updated
  <2>7. Atomic!Returned(d, x) = Atomic!Updated(d, x) BY <2>3 DEF Atomic!Returned
  <2>8. Atomic!Returned(c, x) = Atomic!Updated(c, x) BY <1>4 DEF Atomic!Returned
  <2>9. (x - c.v) % y \in Int BY <1>1
  <2> QED BY ONLY <1>4, <2>2, <2>3, <2>4, <2>5, <2>6, <2>7, <2>8, <2>9
<1>5. CASE c.op = "dec"
  <2>1. PICK d : d = [c EXCEPT !.op = "add_return", !.v = 15] OBVIOUS
  <2>2. AsAddition(c) = d BY <1>3, <1>5, <2>1 DEF AsAddition
  <2>3. d.op = "add_return" /\ d.size = c.size /\ d.v = 15 BY <2>1 DEF UaCallType
  <2>4. (x + 15) % y = (x - 1) % y OBVIOUS
  <2>5. Atomic!Updated(d, x) = (x + d.v) % y BY <1>2, <2>3 DEF Atomic!Updated
  <2>6. Atomic!Updated(c, x) = (x - 1) % y BY <1>2, <1>5 DEF Atomic!Updated
  <2>7. Atomic!Returned(c, x) = 0 BY <1>5 DEF Atomic!Returned
  <2>8. (x - 1) % y \in Int OBVIOUS
  <2> QED BY ONLY <1>5, <2>2, <2>3, <2>4, <2>5, <2>6, <2>7, <2>8
<1>6. CASE c.op \notin {"sub_return", "dec"}
  <2>1. AsAddition(c) = c BY <1>6 DEF AsAddition
  <2>2. Atomic!Updated(c, x) \in Int
    <3>0. c.v \in Int BY <1>1
    <3>1. Atomic!BitAnd(x, c.v) \in Int /\ Atomic!BitOr(x, c.v) \in Int BY <3>0, UaBits
    <3>2. PICK b \in Int, v \in Int : b = Atomic!BitOr(x, c.v) /\ v = c.v BY <1>1, <3>1
    <3>3. b % y \in Int /\ v % y \in Int /\ (x + v) % y \in Int OBVIOUS
    <3> QED BY <1>1, <1>2, <1>6, <3>1, <3>2, <3>3 DEF Atomic!Updated, UaOps
  <2>3. Atomic!Returned(c, x) \in Int BY <1>1, <1>6, <2>2 DEF Atomic!Returned, UaOps
  <2> QED BY <1>6, <2>1, <2>2, <2>3
<1> QED BY <1>4, <1>5, <1>6

LEMMA UaInitially == UatomicInit => UaIInv
<1> SUFFICES ASSUME UatomicInit PROVE UaIInv OBVIOUS
<1>1. ua_mem \in Int
  <2>1. 2^UaLongBits = 16 BY UatomicAssumption, UaPowers
  <2> QED BY <2>1, UatomicAssumption DEF UatomicInit
<1>2. UaTypeOK BY <1>1 DEF UatomicInit, UaTypeOK, UaPC
<1>3. ASSUME NEW t \in UaThreads PROVE UaControl(t) /\ UaCurrent(t)
  BY DEF UatomicInit, UaControl, UaCurrent
<1> QED BY <1>2, <1>3 DEF UaIInv

(* A call that takes effect: what it found and what it leaves.             *)
UaEffect(t) ==
    /\ ua_mem' = Atomic!WithField(ua_mem, ua_call[t], Atomic!Updated(ua_call[t], Found(t)))
    /\ ua_ret' = [ua_ret EXCEPT ![t] = Atomic!Returned(ua_call[t], Found(t))]
    /\ ua_call' = ua_call

LEMMA UaTakesEffect ==
    ASSUME UaIInv, NEW t \in UaThreads, ua_pc[t] \notin {"idle", "compat_unlock", "return"},
           NEW l, Finish(t, Found(t), l), ua_call' = ua_call,
           \/ Store(t, NewValue(t, Found(t)))
           \/ ua_mem' = ua_mem /\ Atomic!Updated(ua_call[t], Found(t)) = Found(t)
    PROVE  /\ UaEffect(t)
           /\ ua_mem' \in Int /\ ua_ret' \in [UaThreads -> Int \cup {UaNone}]
           /\ ua_ret'[t] \in Int
           /\ ua_call[t] \in UaCallType /\ ua_call[t] # UaNone /\ ua_ret[t] = UaNone
<1>1. ua_call[t] \in UaCallType /\ ua_call[t] # UaNone /\ ua_ret[t] = UaNone
  BY DEF UaIInv, UaControl, UaTypeOK
<1>2. ua_mem \in Int /\ DOMAIN ua_ret = UaThreads BY DEF UaIInv, UaTypeOK
<1>3. Found(t) \in Int /\ \A v \in Int : Atomic!WithField(ua_mem, ua_call[t], v) \in Int
  BY <1>1, <1>2, UaFieldOf DEF Found
<1>4. Atomic!WithField(ua_mem, ua_call[t], Found(t)) = ua_mem
  BY <1>1, <1>2, UaFieldOf DEF Found
<1>5. PICK c, x : c = ua_call[t] /\ x = Found(t) OBVIOUS
<1>6. /\ Atomic!Updated(AsAddition(c), x) = Atomic!Updated(c, x)
      /\ (IF c.op = "dec" THEN 0 ELSE Atomic!Returned(AsAddition(c), x))
            = Atomic!Returned(c, x)
      /\ Atomic!Updated(c, x) \in Int /\ Atomic!Returned(c, x) \in Int
  <2>1. c \in UaCallType /\ x \in Int BY ONLY <1>1, <1>3, <1>5
  <2> QED BY ONLY <2>1, UaNegated
<1>7. ua_ret' = [ua_ret EXCEPT ![t] = Atomic!Returned(c, x)]
  BY ONLY <1>5, <1>6, Finish(t, Found(t), l) DEF Finish
<1>8. ua_mem' = Atomic!WithField(ua_mem, c, Atomic!Updated(c, x))
  <2>1. CASE Store(t, NewValue(t, Found(t)))
    BY ONLY <1>5, <1>6, <2>1 DEF Store, NewValue
  <2>2. CASE ua_mem' = ua_mem /\ Atomic!Updated(ua_call[t], Found(t)) = Found(t)
    BY ONLY <1>4, <1>5, <2>2
  <2> QED BY <2>1, <2>2
<1>9. UaEffect(t) BY ONLY <1>5, <1>7, <1>8, ua_call' = ua_call DEF UaEffect
<1>10. ua_mem' \in Int BY ONLY <1>3, <1>5, <1>6, <1>8
<1>11. ua_ret' \in [UaThreads -> Int \cup {UaNone}] /\ ua_ret'[t] \in Int
  <2>1. ua_ret \in [UaThreads -> Int \cup {UaNone}] BY DEF UaIInv, UaTypeOK
  <2>2. PICK r \in Int : r = Atomic!Returned(c, x) BY ONLY <1>6
  <2> QED BY ONLY <1>7, <2>1, <2>2, t \in UaThreads
<1> QED BY ONLY <1>1, <1>9, <1>10, <1>11

UaOthersKept(t) ==
    \A u \in UaThreads \ {t} :
        /\ ua_pc'[u] = ua_pc[u] /\ ua_call'[u] = ua_call[u]
        /\ ua_old'[u] = ua_old[u] /\ ua_ret'[u] = ua_ret[u]
        /\ ua_mutex = u => ua_mutex' = u

(* A step of t leaves the other threads alone: if it stores, no            *)
(* reservation is left and t has the mutex of the compat build.            *)
LEMMA UaKeeps ==
    ASSUME UaIInv, NEW t \in UaThreads, UaTypeOK', ua_arch' = ua_arch,
           UaOthersKept(t),
           ua_reserve' \subseteq ua_reserve \cup {t},
           \/ ua_mem' = ua_mem
           \/ ua_reserve' = {} /\ (ua_arch = "compat" => ua_mutex = t),
           UaControl(t)', UaCurrent(t)'
    PROVE  UaIInv'
<1>1. ASSUME NEW u \in UaThreads \ {t} PROVE UaControl(u)' /\ UaCurrent(u)'
  <2>1. UaControl(u) /\ UaCurrent(u) BY DEF UaIInv
  <2>2. /\ ua_pc'[u] = ua_pc[u] /\ ua_call'[u] = ua_call[u]
        /\ ua_old'[u] = ua_old[u] /\ ua_ret'[u] = ua_ret[u]
        /\ ua_mutex = u => ua_mutex' = u
    BY DEF UaOthersKept
  <2>3. UaControl(u)' BY ONLY <2>1, <2>2 DEF UaControl
  <2>4. ua_mem' = ua_mem => Found(u)' = Found(u) BY ONLY <2>2 DEF Found, Atomic!Field
  <2>5. ua_mem' # ua_mem => ua_reserve' = {} /\ ua_pc[u] # "compat_store"
    BY ONLY <2>1, u \in UaThreads \ {t},
       \/ ua_mem' = ua_mem
       \/ ua_reserve' = {} /\ (ua_arch = "compat" => ua_mutex = t) DEF UaCurrent
  <2>6. UaCurrent(u)'
    BY ONLY <2>1, <2>2, <2>4, <2>5, ua_arch' = ua_arch, ua_reserve' \subseteq ua_reserve \cup {t},
            u \in UaThreads \ {t}
       DEF UaCurrent
  <2> QED BY <2>3, <2>6
<1> QED BY <1>1 DEF UaIInv

(* A step that shows neither in the memory nor in a result.                *)
LEMMA UaMoves ==
    ASSUME UaIInv, NEW t \in UaThreads, ua_arch' = ua_arch, ua_left' = ua_left,
           ua_mem' = ua_mem, ua_call' = ua_call, ua_ret' = ua_ret,
           NEW l \in UaPC, ua_pc' = [ua_pc EXCEPT ![t] = l],
           l \in {"compat_unlock", "return"} <=> ua_pc[t] \in {"compat_unlock", "return"},
           ua_pc[t] # "idle", l # "idle",
           DOMAIN ua_old' = UaThreads,
           \A u \in UaThreads \ {t} : ua_old'[u] = ua_old[u] /\ (ua_mutex = u => ua_mutex' = u),
           ua_reserve' \subseteq ua_reserve \cup {t},
           UaCurrent(t)'
    PROVE  UaIInv' /\ [Atomic!Next]_Atomic!memvars
<1>1. UaTypeOK /\ UaControl(t) BY DEF UaIInv
<1>2. UaTypeOK' BY <1>1 DEF UaTypeOK
<1>3. ua_pc'[t] = l /\ \A u \in UaThreads \ {t} : ua_pc'[u] = ua_pc[u]
  BY <1>1 DEF UaTypeOK
<1>4. UaControl(t)' BY <1>1, <1>3 DEF UaControl
<1>5. UaIInv'
  <2>1. UaOthersKept(t) BY <1>3 DEF UaOthersKept
  <2> QED BY <1>2, <1>4, <2>1, UaKeeps
<1>6. UNCHANGED Atomic!memvars BY DEF Atomic!memvars
<1> QED BY <1>5, <1>6

LEMMA UaEffects ==
    ASSUME UaIInv, NEW t \in UaThreads, ua_pc[t] \notin {"idle", "compat_unlock", "return"},
           ua_arch' = ua_arch, ua_left' = ua_left, ua_call' = ua_call, ua_mutex' = ua_mutex,
           ua_old' = ua_old,
           NEW l \in {"compat_unlock", "return"}, Finish(t, Found(t), l),
           l = "compat_unlock" => ua_pc[t] = "compat_store",
           \/ /\ Store(t, NewValue(t, Found(t)))
              /\ ua_arch = "compat" => ua_mutex = t
           \/ /\ ua_mem' = ua_mem /\ Atomic!Updated(ua_call[t], Found(t)) = Found(t)
              /\ ua_reserve' = ua_reserve /\ ua_pc[t] # "store_conditional"
    PROVE  UaIInv' /\ [Atomic!Next]_Atomic!memvars
<1>1. UaTypeOK /\ UaControl(t) /\ UaCurrent(t) BY DEF UaIInv
<1>2. /\ UaEffect(t)
      /\ ua_mem' \in Int /\ ua_ret' \in [UaThreads -> Int \cup {UaNone}]
      /\ ua_ret'[t] \in Int
      /\ ua_call[t] \in UaCallType /\ ua_call[t] # UaNone /\ ua_ret[t] = UaNone
  BY UaTakesEffect
<1>3. ua_pc' = [ua_pc EXCEPT ![t] = l] BY DEF Finish
<1>4. ua_pc'[t] = l /\ \A u \in UaThreads \ {t} : ua_pc'[u] = ua_pc[u]
  BY <1>1, <1>3 DEF UaTypeOK
<1>5. \A u \in UaThreads \ {t} : ua_ret'[u] = ua_ret[u] BY <1>1, <1>2 DEF UaTypeOK, UaEffect
<1>6. ua_reserve' \subseteq ua_reserve /\ t \notin ua_reserve'
  BY <1>1 DEF UaCurrent, Store
<1>7. UaTypeOK'
  <2>1. ua_pc' \in [UaThreads -> UaPC] BY <1>1, <1>3 DEF UaTypeOK, UaPC
  <2> QED BY <1>1, <1>2, <1>6, <2>1 DEF UaTypeOK
<1>8. UaControl(t)'
  <2>1. ua_ret'[t] # UaNone BY <1>2, UatomicAssumption
  <2> QED BY <1>1, <1>2, <1>4, <2>1 DEF UaControl
<1>9. UaCurrent(t)'
  <2>1. ua_arch = "compat" => l \in {"compat_unlock", "return"} OBVIOUS
  <2> QED BY <1>1, <1>4, <1>6 DEF UaCurrent
<1>10. \/ ua_mem' = ua_mem
       \/ ua_reserve' = {} /\ (ua_arch = "compat" => ua_mutex = t)
  BY DEF Store
<1>11. UaIInv' 
  <2>1. UaOthersKept(t)
    BY ONLY <1>4, <1>5, ua_call' = ua_call, ua_old' = ua_old, ua_mutex' = ua_mutex
       DEF UaOthersKept
  <2>2. ua_reserve' \subseteq ua_reserve \cup {t} BY ONLY <1>6
  <2> QED BY ONLY UaIInv, t \in UaThreads, ua_arch' = ua_arch, <1>7, <1>8, <1>9, <1>10,
                  <2>1, <2>2, UaKeeps
<1>12. Atomic!TakeEffect(t) BY ONLY <1>2 DEF UaEffect, Atomic!TakeEffect, Found
<1> QED BY <1>11, <1>12 DEF Atomic!Next

LEMMA UaCalled ==
    ASSUME UaIInv, NEW t \in UaThreads, NEW op \in UaOps, NEW f \in UaFields,
           NEW v \in UaValues \cup {0}, NEW old \in UaValues \cup {0}, UaCall(t, op, f, v, old)
    PROVE  UaIInv' /\ [Atomic!Next]_Atomic!memvars
<1>1. UaTypeOK /\ UaControl(t) /\ UaCurrent(t) BY DEF UaIInv
<1>2. PICK c : c = [op |-> op, at |-> f.at, size |-> f.size, v |-> v, old |-> old] OBVIOUS
<1>3. c \in UaCallType /\ c.op = op
  <2>1. 2^UaLongBits = 16 /\ UaLongBits = 4 BY UatomicAssumption, UaPowers
  <2>2. UaFields \subseteq [at : 0..3, size : 1..4] /\ UaValues \subseteq 0..15
    BY <2>1, UatomicAssumption
  <2>3. f.at \in 0..3 /\ f.size \in 1..4 /\ v \in 0..15 /\ old \in 0..15 BY <2>2
  <2> QED BY ONLY <1>2, <2>3, op \in UaOps DEF UaCallType
<1>4. c # UaNone
  <2>1. 2^UaLongBits = 16 /\ UaLongBits = 4 BY UatomicAssumption, UaPowers
  <2>2. UaNone \notin UaCallType BY <2>1, UatomicAssumption DEF UaCallType
  <2> QED BY <1>3, <2>2
<1>5. PICK l : l = Method(op) OBVIOUS
<1>6. /\ ua_pc[t] = "idle" /\ ua_call' = [ua_call EXCEPT ![t] = c]
      /\ ua_pc' = [ua_pc EXCEPT ![t] = l] /\ DOMAIN ua_left' = DOMAIN ua_left
      /\ ua_arch' = ua_arch /\ ua_mem' = ua_mem /\ ua_old' = ua_old
      /\ ua_reserve' = ua_reserve /\ ua_mutex' = ua_mutex /\ ua_ret' = ua_ret
  BY <1>2, <1>5 DEF UaCall
<1>7. /\ l \in {"insn", "read_cas", "reserve", "cs", "mutex"}
      /\ ua_arch = "compat" => l \in {"insn", "mutex"} /\ (l = "insn" => op = "read")
      /\ ua_arch # "compat" => l # "mutex"
  BY <1>1, <1>5, UatomicAssumption
     DEF Method, X86Method, SyncMethod, PpcMethod, S390Method, Sparc64Method, UaTypeOK
<1>8. UaTypeOK' BY <1>1, <1>3, <1>6, <1>7 DEF UaTypeOK, UaPC
<1>9. /\ ua_pc'[t] = l /\ ua_call'[t] = c
      /\ \A u \in UaThreads \ {t} : ua_pc'[u] = ua_pc[u] /\ ua_call'[u] = ua_call[u]
  BY <1>1, <1>6 DEF UaTypeOK
<1>10. UaControl(t)' BY ONLY <1>1, <1>4, <1>6, <1>7, <1>9 DEF UaControl
<1>11. UaCurrent(t)' BY ONLY <1>1, <1>3, <1>6, <1>7, <1>9 DEF UaCurrent
<1>12. UaIInv'
  <2>1. UaOthersKept(t) BY ONLY <1>6, <1>9 DEF UaOthersKept
  <2> QED BY ONLY UaIInv, t \in UaThreads, <1>6, <1>8, <1>10, <1>11, <2>1, UaKeeps
<1>13. Atomic!Call(t)
  <2>1. ua_call[t] = UaNone BY <1>1, <1>6 DEF UaControl
  <2> QED BY ONLY <1>4, <1>6, <1>9, <2>1 DEF Atomic!Call
<1> QED BY <1>12, <1>13 DEF Atomic!Next

LEMMA UaReturned ==
    ASSUME UaIInv, NEW t \in UaThreads, UaReturn(t)
    PROVE  UaIInv' /\ [Atomic!Next]_Atomic!memvars
<1>1. UaTypeOK /\ UaControl(t) /\ UaCurrent(t) BY DEF UaIInv
<1>2. UaTypeOK' BY <1>1 DEF UaReturn, UaTypeOK, UaPC
<1>3. /\ ua_pc'[t] = "idle" /\ ua_call'[t] = UaNone /\ ua_ret'[t] = UaNone
      /\ \A u \in UaThreads \ {t} : /\ ua_pc'[u] = ua_pc[u] /\ ua_call'[u] = ua_call[u]
                                     /\ ua_old'[u] = ua_old[u] /\ ua_ret'[u] = ua_ret[u]
  BY <1>1 DEF UaReturn, UaTypeOK
<1>4. /\ ua_pc[t] = "return" /\ ua_arch' = ua_arch /\ ua_mem' = ua_mem
      /\ ua_reserve' = ua_reserve /\ ua_mutex' = ua_mutex
  BY DEF UaReturn
<1>5. UaControl(t)' BY ONLY <1>3 DEF UaControl
<1>6. UaCurrent(t)' BY ONLY <1>1, <1>3, <1>4 DEF UaCurrent
<1>7. UaIInv'
  <2>1. UaOthersKept(t) BY ONLY <1>3, <1>4 DEF UaOthersKept
  <2> QED BY ONLY UaIInv, t \in UaThreads, <1>2, <1>4, <1>5, <1>6, <2>1, UaKeeps
<1>8. Atomic!Return(t)
  <2>1. ua_ret[t] # UaNone BY <1>1, <1>4 DEF UaControl
  <2> QED BY <2>1 DEF UaReturn, Atomic!Return
<1> QED BY <1>7, <1>8 DEF Atomic!Next

LEMMA UaStepRefines ==
    ASSUME UaIInv, NEW t \in UaThreads, UaStep(t)
    PROVE  UaIInv' /\ [Atomic!Next]_Atomic!memvars
<1>0. UaTypeOK /\ UaControl(t) /\ UaCurrent(t) BY DEF UaIInv
<1>1. ASSUME NEW op \in UaOps, NEW f \in UaFields, NEW v \in UaValues \cup {0},
             NEW old \in UaValues \cup {0}, UaCall(t, op, f, v, old)
      PROVE  UaIInv' /\ [Atomic!Next]_Atomic!memvars
  BY <1>1, UaCalled
<1>2. CASE UaReturn(t) BY <1>2, UaReturned
<1>3. CASE Instruction(t)
  <2>1. /\ ua_pc[t] = "insn" /\ Finish(t, Found(t), "return")
        /\ ua_arch' = ua_arch /\ ua_left' = ua_left /\ ua_call' = ua_call
        /\ ua_mutex' = ua_mutex /\ ua_old' = ua_old
    BY <1>3 DEF Instruction
  <2>2. CASE ua_call[t].op = "read"
    <3>1. ua_mem' = ua_mem /\ ua_reserve' = ua_reserve BY <1>3, <2>2 DEF Instruction
    <3>2. Atomic!Updated(ua_call[t], Found(t)) = Found(t) BY <2>2 DEF Atomic!Updated
    <3> QED BY <2>1, <3>1, <3>2, UaEffects
  <2>3. CASE ua_call[t].op # "read"
    <3>1. Store(t, NewValue(t, Found(t))) BY <1>3, <2>3 DEF Instruction
    <3>2. ua_arch # "compat" BY <1>0, <2>1, <2>3 DEF UaCurrent
    <3> QED BY <2>1, <3>1, <3>2, UaEffects
  <2> QED BY <2>2, <2>3
<1>4. CASE LoopRead(t) \/ CsStart(t)
  <2>1. /\ ua_pc[t] \in {"read_cas", "cs"} /\ ua_pc' = [ua_pc EXCEPT ![t] = "cas"]
        /\ ua_arch' = ua_arch /\ ua_left' = ua_left /\ ua_mem' = ua_mem /\ ua_call' = ua_call
        /\ ua_reserve' = ua_reserve /\ ua_mutex' = ua_mutex /\ ua_ret' = ua_ret
        /\ \E x : ua_old' = [ua_old EXCEPT ![t] = x]
    BY <1>4 DEF LoopRead, CsStart
  <2>2. DOMAIN ua_old' = UaThreads /\ \A u \in UaThreads \ {t} : ua_old'[u] = ua_old[u]
    BY <1>0, <2>1 DEF UaTypeOK
  <2>3. UaCurrent(t)'
    <3>1. ua_pc'[t] = "cas" BY <1>0, <2>1 DEF UaTypeOK
    <3> QED BY ONLY <1>0, <2>1, <3>1 DEF UaCurrent
  <2>4. "cas" \in UaPC BY DEF UaPC
  <2> QED BY <2>1, <2>2, <2>3, <2>4, UaMoves
<1>5. CASE LoopCas(t)
  <2>1. /\ ua_pc[t] = "cas" /\ ua_arch' = ua_arch /\ ua_left' = ua_left
        /\ ua_call' = ua_call /\ ua_mutex' = ua_mutex
    BY <1>5 DEF LoopCas
  <2>2. ua_arch # "compat" BY <1>0, <2>1 DEF UaCurrent
  <2>3. CASE CasMatches(t)
    <3>1. /\ Store(t, NewValue(t, Found(t))) /\ Finish(t, Found(t), "return")
          /\ ua_old' = ua_old
      BY <1>5, <2>3 DEF LoopCas, CasMatches
    <3> QED BY <2>1, <2>2, <3>1, UaEffects
  <2>4. CASE ~ CasMatches(t)
    <3>1. PICK l \in {"read_cas", "cas"} : ua_pc' = [ua_pc EXCEPT ![t] = l]
      BY <1>5, <2>4 DEF LoopCas
    <3>2. /\ ua_old' = [ua_old EXCEPT ![t] = Found(t)]
          /\ ua_mem' = ua_mem /\ ua_reserve' = ua_reserve /\ ua_ret' = ua_ret
      BY <1>5, <2>4 DEF LoopCas
    <3>3. DOMAIN ua_old' = UaThreads /\ \A u \in UaThreads \ {t} : ua_old'[u] = ua_old[u]
      BY <1>0, <3>2 DEF UaTypeOK
    <3>4. UaCurrent(t)'
      <4>1. ua_pc'[t] = l BY <1>0, <3>1 DEF UaTypeOK
      <4> QED BY ONLY <1>0, <2>1, <2>2, <3>2, <4>1, l \in {"read_cas", "cas"} DEF UaCurrent
    <3>5. l \in UaPC BY DEF UaPC
    <3> QED BY <2>1, <3>1, <3>2, <3>3, <3>4, <3>5, UaMoves
  <2> QED BY <2>3, <2>4
<1>6. CASE LoadReserve(t)
  <2> DEFINE c == ua_call[t]
             fails == c.op = "cmpxchg" /\ Found(t) # c.old % 2^c.size
  <2>1. /\ ua_pc[t] = "reserve" /\ ua_arch' = ua_arch /\ ua_left' = ua_left
        /\ ua_mem' = ua_mem /\ ua_call' = ua_call /\ ua_mutex' = ua_mutex
    BY <1>6 DEF LoadReserve
  <2>2. CASE fails
    <3>1. /\ Finish(t, Found(t), "return") /\ ua_old' = ua_old /\ ua_reserve' = ua_reserve
      BY <1>6, <2>2 DEF LoadReserve
    <3>2. Atomic!Updated(ua_call[t], Found(t)) = Found(t) BY <2>2 DEF Atomic!Updated
    <3> QED BY <2>1, <3>1, <3>2, UaEffects
  <2>3. CASE ~ fails
    <3>1. /\ ua_old' = [ua_old EXCEPT ![t] = Found(t)] /\ ua_reserve' = ua_reserve \cup {t}
          /\ ua_pc' = [ua_pc EXCEPT ![t] = "store_conditional"] /\ ua_ret' = ua_ret
      BY <1>6, <2>3 DEF LoadReserve
    <3>2. /\ DOMAIN ua_old' = UaThreads /\ \A u \in UaThreads \ {t} : ua_old'[u] = ua_old[u]
          /\ ua_old'[t] = Found(t)
      BY <1>0, <3>1 DEF UaTypeOK
    <3>3. UaCurrent(t)'
      <4>1. ua_pc'[t] = "store_conditional" BY <1>0, <3>1 DEF UaTypeOK
      <4>2. Found(t)' = Found(t) BY ONLY <2>1 DEF Found, Atomic!Field
      <4>3. ua_arch # "compat" BY <1>0, <2>1 DEF UaCurrent
      <4> QED BY ONLY <1>0, <2>1, <3>1, <3>2, <4>1, <4>2, <4>3 DEF UaCurrent
    <3>4. "store_conditional" \in UaPC BY DEF UaPC
    <3> QED BY <2>1, <3>1, <3>2, <3>3, <3>4, UaMoves
  <2> QED BY <2>2, <2>3
<1>7. CASE StoreConditional(t)
  <2>1. /\ ua_pc[t] = "store_conditional" /\ ua_arch' = ua_arch /\ ua_left' = ua_left
        /\ ua_call' = ua_call /\ ua_mutex' = ua_mutex /\ ua_old' = ua_old
    BY <1>7 DEF StoreConditional
  <2>2. ua_arch # "compat" BY <1>0, <2>1 DEF UaCurrent
  <2>3. CASE /\ t \in ua_reserve /\ Store(t, NewValue(t, ua_old[t]))
             /\ Finish(t, ua_old[t], "return")
    <3>1. ua_old[t] = Found(t) BY <1>0, <2>3 DEF UaCurrent
    <3>2. Store(t, NewValue(t, Found(t))) /\ Finish(t, Found(t), "return")
      BY ONLY <2>3, <3>1
    <3> QED BY <2>1, <2>2, <3>2, UaEffects
  <2>4. CASE /\ ua_pc' = [ua_pc EXCEPT ![t] = "reserve"] /\ ua_reserve' = ua_reserve \ {t}
             /\ ua_mem' = ua_mem /\ ua_ret' = ua_ret
    <3>1. UaCurrent(t)'
      <4>1. ua_pc'[t] = "reserve" BY <1>0, <2>4 DEF UaTypeOK
      <4> QED BY ONLY <2>1, <2>2, <2>4, <4>1 DEF UaCurrent
    <3>2. "reserve" \in UaPC /\ DOMAIN ua_old' = UaThreads BY <1>0, <2>1 DEF UaPC, UaTypeOK
    <3> QED BY <2>1, <2>4, <3>1, <3>2, UaMoves
  <2> QED BY <1>7, <2>3, <2>4 DEF StoreConditional
<1>8. CASE CompatLoad(t)
  <2>1. /\ ua_pc[t] = "mutex" /\ ua_mutex = UaNone /\ ua_mutex' = t
        /\ ua_old' = [ua_old EXCEPT ![t] = Found(t)]
        /\ ua_pc' = [ua_pc EXCEPT ![t] = "compat_store"]
        /\ ua_arch' = ua_arch /\ ua_left' = ua_left /\ ua_mem' = ua_mem /\ ua_call' = ua_call
        /\ ua_reserve' = ua_reserve /\ ua_ret' = ua_ret
    BY <1>8 DEF CompatLoad
  <2>2. /\ DOMAIN ua_old' = UaThreads /\ \A u \in UaThreads \ {t} : ua_old'[u] = ua_old[u]
        /\ ua_old'[t] = Found(t) /\ ua_pc'[t] = "compat_store"
    BY <1>0, <2>1 DEF UaTypeOK
  <2>3. Found(t)' = Found(t) BY ONLY <2>1 DEF Found, Atomic!Field
  <2>4. UaCurrent(t)' BY ONLY <1>0, <2>1, <2>2, <2>3 DEF UaCurrent
  <2>5. \A u \in UaThreads : ua_mutex # u BY <2>1, UatomicAssumption
  <2>6. "compat_store" \in UaPC BY DEF UaPC
  <2> QED BY <2>1, <2>2, <2>4, <2>5, <2>6, UaMoves
<1>9. CASE CompatStore(t)
  <2>1. /\ ua_pc[t] = "compat_store" /\ ua_arch' = ua_arch /\ ua_left' = ua_left
        /\ ua_call' = ua_call /\ ua_mutex' = ua_mutex /\ ua_old' = ua_old
        /\ Store(t, NewValue(t, ua_old[t])) /\ Finish(t, ua_old[t], "compat_unlock")
    BY <1>9 DEF CompatStore
  <2>2. ua_old[t] = Found(t) /\ ua_mutex = t BY <1>0, <2>1 DEF UaCurrent
  <2>3. Store(t, NewValue(t, Found(t))) /\ Finish(t, Found(t), "compat_unlock")
    BY ONLY <2>1, <2>2
  <2> QED BY <2>1, <2>2, <2>3, UaEffects
<1>10. CASE CompatUnlock(t)
  <2>1. /\ ua_pc[t] = "compat_unlock" /\ ua_pc' = [ua_pc EXCEPT ![t] = "return"]
        /\ ua_arch' = ua_arch /\ ua_left' = ua_left /\ ua_mem' = ua_mem /\ ua_call' = ua_call
        /\ ua_old' = ua_old /\ ua_reserve' = ua_reserve /\ ua_ret' = ua_ret
    BY <1>10 DEF CompatUnlock
  <2>2. ua_mutex = t BY <1>0, <2>1 DEF UaCurrent
  <2>3. UaCurrent(t)'
    <3>1. ua_pc'[t] = "return" BY <1>0, <2>1 DEF UaTypeOK
    <3> QED BY ONLY <1>0, <2>1, <3>1 DEF UaCurrent
  <2>4. "return" \in UaPC /\ DOMAIN ua_old' = UaThreads BY <1>0, <2>1 DEF UaPC, UaTypeOK
  <2> QED BY <2>1, <2>2, <2>3, <2>4, UaMoves
<1> QED
  BY ONLY UaStep(t), <1>1, <1>2, <1>3, <1>4, <1>5, <1>6, <1>7, <1>8, <1>9, <1>10 DEF UaStep

(* On every build each uatomic operation takes effect at one instant, on   *)
(* its operand only, whoever loads and stores in between.                  *)
THEOREM UatomicRefinement == UatomicSpec => UatomicIsAtomic
<1>1. UatomicInit => Atomic!Init
  <2>1. 2^UaLongBits = 16 BY UatomicAssumption, UaPowers
  <2> QED BY <2>1, UatomicAssumption DEF UatomicInit, Atomic!Init
<1>2. UaIInv /\ [UatomicNext]_uavars => UaIInv' /\ [Atomic!Next]_Atomic!memvars
  <2> SUFFICES ASSUME UaIInv, [UatomicNext]_uavars
               PROVE  UaIInv' /\ [Atomic!Next]_Atomic!memvars
    OBVIOUS
  <2>1. CASE UatomicNext BY <2>1, UaStepRefines DEF UatomicNext
  <2>2. CASE UNCHANGED uavars
    <3>1. UaIInv' BY <2>2 DEF uavars, UaIInv, UaTypeOK, UaControl, UaCurrent, Found, Atomic!Field
    <3>2. UNCHANGED Atomic!memvars BY <2>2 DEF uavars, Atomic!memvars
    <3> QED BY <3>1, <3>2
  <2> QED BY <2>1, <2>2
<1> QED BY <1>1, <1>2, UaInitially, PTL DEF UatomicSpec, UatomicIsAtomic, Atomic!Spec

=============================================================================
