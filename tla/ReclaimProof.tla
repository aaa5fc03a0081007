---------------------------- MODULE ReclaimProof ----------------------------
(***************************************************************************)
(* What is reclaimed after a grace period is reclaimed safely.             *)
(*                                                                         *)
(* RcuPointer: for any number of readers, writers and nodes, a node that   *)
(* is retired through synchronize_rcu() is never freed under a reader.     *)
(*                                                                         *)
(* Defer: for any number of threads, any ring size that divides the range  *)
(* of a word and any callbacks, the ring of defer_rcu() holds what was     *)
(* deferred and has not run, and what runs has waited for its readers.     *)
(***************************************************************************)
EXTENDS RcuPointer, Defer, TLAPS, SequenceTheorems

(***************************************************************************)
(* RcuPointer.                                                             *)
(***************************************************************************)

(* A reader holds references only inside its critical section.             *)
RefsInSections == \A r \in Readers : r \notin cs => ref[r] = {}

(* A referenced node is either published or retired by a writer that has   *)
(* yet to see the reader's critical section end: the writer has not begun  *)
(* to wait, or waits for that section.                                     *)
Protects(u, r, n) ==
    /\ n \in Owned(u)
    /\ \/ upc[u] = "unpublished"
       \/ upc[u] = "waiting" /\ r \in pre[u]
RefsProtected ==
    \A r \in Readers : \A n \in ref[r] :
        n = ptr \/ \E u \in Updaters : Protects(u, r, n)

(* Published and retired nodes are filled.                                 *)
LiveFilled ==
    /\ ptr \in Nodes => mem[ptr] = "filled"
    /\ \A u \in Updaters : \A n \in Owned(u) : mem[n] = "filled"

(* A writer has a new node from its allocation to its publication, and has *)
(* it for itself.                                                          *)
Preparing(u) == upc[u] \in {"alloc", "compare"}
NewIsPrivate ==
    \A u \in Updaters :
        /\ Preparing(u) <=> new[u] # NULL
        /\ new[u] # NULL =>
              /\ new[u] # ptr
              /\ mem[new[u]] # "free"
              /\ \A v \in Updaters : new[u] \notin Owned(v)
              /\ \A v \in Updaters \ {u} : new[u] # new[v]

(* In the "assign" style the mutex covers the whole update, so the value   *)
(* loaded before rcu_assign_pointer() is still the one it replaces.        *)
MutexHeld ==
    style = "assign" =>
        \A u \in Updaters :
            /\ upc[u] # "idle" => mutex = u
            /\ upc[u] = "compare" => old[u] = ptr

IInv ==
    /\ TypeOK
    /\ RefsInSections
    /\ RefsProtected
    /\ LiveFilled
    /\ RetiredOnce
    /\ NewIsPrivate
    /\ MutexHeld

-----------------------------------------------------------------------------

LEMMA InitIInv == Init => IInv
  BY NodesAssumption
     DEF Init, GPInit, IInv, TypeOK, GPTypeOK, Styles, WriterPC, RefsInSections,
         RefsProtected, LiveFilled, RetiredOnce, Owned, NewIsPrivate, Preparing,
         MutexHeld

(* One step per action of Next and, under it, one per part of the          *)
(* invariant; the parts a step cannot disturb are dealt with together.     *)
LEMMA NextIInv == IInv /\ [Next]_vars => IInv'
<1> SUFFICES ASSUME IInv, [Next]_vars PROVE IInv'
  OBVIOUS
<1> USE NodesAssumption DEF IInv, TypeOK, GPTypeOK, gpvars
<1>1. ASSUME NEW r \in Readers, Enter(r) PROVE IInv'
  <2>1. TypeOK' /\ RefsInSections'
    BY <1>1 DEF Enter, ReadLock, ptrvars, RefsInSections
  <2>2. RefsProtected'
    BY <1>1 DEF Enter, ReadLock, ptrvars, RefsInSections, RefsProtected,
       Protects, Owned
  <2>3. LiveFilled' /\ RetiredOnce' /\ NewIsPrivate' /\ MutexHeld'
    BY <1>1 DEF Enter, ReadLock, ptrvars, LiveFilled, RetiredOnce,
       NewIsPrivate, Preparing, MutexHeld, Owned
  <2> QED BY <2>1, <2>2, <2>3
<1>2. ASSUME NEW r \in Readers, Dereference(r) PROVE IInv'
  <2>1. TypeOK' /\ RefsInSections'
    BY <1>2 DEF Dereference, RefsInSections
  <2>2. RefsProtected'
    BY <1>2 DEF Dereference, RefsInSections, RefsProtected, Protects, Owned
  <2>3. LiveFilled' /\ RetiredOnce' /\ NewIsPrivate' /\ MutexHeld'
    BY <1>2 DEF Dereference, LiveFilled, RetiredOnce, NewIsPrivate,
       Preparing, MutexHeld, Owned
  <2> QED BY <2>1, <2>2, <2>3
<1>3. ASSUME NEW r \in Readers, Leave(r) PROVE IInv'
  <2>1. TypeOK' /\ RefsInSections'
    BY <1>3 DEF Leave, ReadUnlock, RefsInSections
  <2>2. RefsProtected'
    BY <1>3 DEF Leave, ReadUnlock, RefsInSections, RefsProtected, Protects,
       Owned
  <2>3. LiveFilled' /\ RetiredOnce' /\ NewIsPrivate' /\ MutexHeld'
    BY <1>3 DEF Leave, ReadUnlock, LiveFilled, RetiredOnce, NewIsPrivate,
       Preparing, MutexHeld, Owned
  <2> QED BY <2>1, <2>2, <2>3
<1>4. ASSUME NEW u \in Updaters, NEW n \in Nodes, Allocate(u, n) PROVE IInv'
  <2>1. TypeOK' /\ RefsInSections'
    BY <1>4 DEF Allocate, Styles, WriterPC, RefsInSections
  <2>2. RefsProtected'
    BY <1>4 DEF Allocate, RefsInSections, RefsProtected, RetiredOnce,
       MutexHeld, Protects, Owned
  <2>3. LiveFilled'
    BY <1>4 DEF Allocate, LiveFilled, RetiredOnce, NewIsPrivate, Preparing,
       MutexHeld, Owned
  <2>4. RetiredOnce'
    BY <1>4 DEF Allocate, RetiredOnce, NewIsPrivate, Preparing, MutexHeld,
       LiveFilled, Owned
  <2>5. NewIsPrivate'
    BY <1>4 DEF Allocate, NewIsPrivate, Preparing, LiveFilled, RetiredOnce,
       MutexHeld, Owned
  <2>6. MutexHeld'
    BY <1>4 DEF Allocate, MutexHeld
  <2> QED BY <2>1, <2>2, <2>3, <2>4, <2>5, <2>6
<1>5. ASSUME NEW u \in Updaters, Fill(u) PROVE IInv'
  <2>1. TypeOK' /\ RefsInSections'
    BY <1>5 DEF Fill, Styles, WriterPC, RefsInSections
  <2>2. RefsProtected'
    BY <1>5 DEF Fill, RefsInSections, RefsProtected, RetiredOnce, MutexHeld,
       Protects, Owned
  <2>3. LiveFilled'
    BY <1>5 DEF Fill, LiveFilled, RetiredOnce, NewIsPrivate, Preparing,
       MutexHeld, Owned
  <2>4. RetiredOnce'
    BY <1>5 DEF Fill, RetiredOnce, NewIsPrivate, Preparing, MutexHeld,
       LiveFilled, Owned
  <2>5. NewIsPrivate'
    BY <1>5 DEF Fill, NewIsPrivate, Preparing, LiveFilled, RetiredOnce,
       MutexHeld, Owned
  <2>6. MutexHeld'
    BY <1>5 DEF Fill, MutexHeld
  <2> QED BY <2>1, <2>2, <2>3, <2>4, <2>5, <2>6
<1>6. ASSUME NEW u \in Updaters, LoadOld(u) PROVE IInv'
  <2>1. TypeOK' /\ RefsInSections'
    BY <1>6 DEF LoadOld, Styles, WriterPC, RefsInSections
  <2>2. RefsProtected'
    BY <1>6 DEF LoadOld, RefsInSections, RefsProtected, RetiredOnce,
       MutexHeld, Protects, Owned
  <2>3. LiveFilled'
    BY <1>6 DEF LoadOld, LiveFilled, RetiredOnce, NewIsPrivate, Preparing,
       MutexHeld, Owned
  <2>4. RetiredOnce'
    BY <1>6 DEF LoadOld, RetiredOnce, NewIsPrivate, Preparing, MutexHeld,
       LiveFilled, Owned
  <2>5. NewIsPrivate'
    BY <1>6 DEF LoadOld, NewIsPrivate, Preparing, LiveFilled, RetiredOnce,
       MutexHeld, Owned
  <2>6. MutexHeld'
    BY <1>6 DEF LoadOld, MutexHeld
  <2> QED BY <2>1, <2>2, <2>3, <2>4, <2>5, <2>6
<1>7. ASSUME NEW u \in Updaters, rcu_xchg_pointer(u) PROVE IInv'
  <2>1. TypeOK' /\ RefsInSections'
    BY <1>7 DEF rcu_xchg_pointer, Barrier, Published, Styles, WriterPC,
       RefsInSections
  <2>2. RefsProtected'
    BY <1>7 DEF rcu_xchg_pointer, Barrier, Published, RefsInSections,
       RefsProtected, RetiredOnce, MutexHeld, Protects, Owned
  <2>3. LiveFilled'
    BY <1>7 DEF rcu_xchg_pointer, Barrier, Published, LiveFilled,
       RetiredOnce, NewIsPrivate, Preparing, MutexHeld, Owned
  <2>4. RetiredOnce'
    BY <1>7 DEF rcu_xchg_pointer, Barrier, Published, RetiredOnce,
       NewIsPrivate, Preparing, MutexHeld, LiveFilled, Owned
  <2>5. NewIsPrivate'
    BY <1>7 DEF rcu_xchg_pointer, Barrier, Published, NewIsPrivate,
       Preparing, LiveFilled, RetiredOnce, MutexHeld, Owned
  <2>6. MutexHeld'
    BY <1>7 DEF rcu_xchg_pointer, Barrier, Published, MutexHeld
  <2> QED BY <2>1, <2>2, <2>3, <2>4, <2>5, <2>6
<1>8. ASSUME NEW u \in Updaters, rcu_cmpxchg_pointer(u) PROVE IInv'
  <2>1. TypeOK' /\ RefsInSections'
    BY <1>8 DEF rcu_cmpxchg_pointer, Barrier, Published, Styles, WriterPC,
       RefsInSections
  <2>2. RefsProtected'
    BY <1>8 DEF rcu_cmpxchg_pointer, Barrier, Published, RefsInSections,
       RefsProtected, RetiredOnce, MutexHeld, Protects, Owned
  <2>3. LiveFilled'
    BY <1>8 DEF rcu_cmpxchg_pointer, Barrier, Published, LiveFilled,
       RetiredOnce, NewIsPrivate, Preparing, MutexHeld, Owned
  <2>4. RetiredOnce'
    BY <1>8 DEF rcu_cmpxchg_pointer, Barrier, Published, RetiredOnce,
       NewIsPrivate, Preparing, MutexHeld, LiveFilled, Owned
  <2>5. NewIsPrivate'
    BY <1>8 DEF rcu_cmpxchg_pointer, Barrier, Published, NewIsPrivate,
       Preparing, LiveFilled, RetiredOnce, MutexHeld, Owned
  <2>6. MutexHeld'
    BY <1>8 DEF rcu_cmpxchg_pointer, Barrier, Published, MutexHeld
  <2> QED BY <2>1, <2>2, <2>3, <2>4, <2>5, <2>6
<1>9. ASSUME NEW u \in Updaters, rcu_cmpxchg_pointer_fails(u) PROVE IInv'
  <2>1. TypeOK' /\ RefsInSections'
    BY <1>9 DEF rcu_cmpxchg_pointer_fails, Barrier, Styles, WriterPC,
       RefsInSections
  <2>2. RefsProtected'
    BY <1>9 DEF rcu_cmpxchg_pointer_fails, Barrier, RefsInSections,
       RefsProtected, RetiredOnce, MutexHeld, Protects, Owned
  <2>3. LiveFilled'
    BY <1>9 DEF rcu_cmpxchg_pointer_fails, Barrier, LiveFilled, RetiredOnce,
       NewIsPrivate, Preparing, MutexHeld, Owned
  <2>4. RetiredOnce'
    BY <1>9 DEF rcu_cmpxchg_pointer_fails, Barrier, RetiredOnce,
       NewIsPrivate, Preparing, MutexHeld, LiveFilled, Owned
  <2>5. NewIsPrivate'
    BY <1>9 DEF rcu_cmpxchg_pointer_fails, Barrier, NewIsPrivate, Preparing,
       LiveFilled, RetiredOnce, MutexHeld, Owned
  <2>6. MutexHeld'
    BY <1>9 DEF rcu_cmpxchg_pointer_fails, Barrier, MutexHeld
  <2> QED BY <2>1, <2>2, <2>3, <2>4, <2>5, <2>6
<1>10. ASSUME NEW u \in Updaters, rcu_set_pointer(u) PROVE IInv'
  <2>1. TypeOK' /\ RefsInSections'
    BY <1>10 DEF rcu_set_pointer, Barrier, Published, Styles, WriterPC,
       RefsInSections
  <2>2. RefsProtected'
    BY <1>10 DEF rcu_set_pointer, Barrier, Published, RefsInSections,
       RefsProtected, RetiredOnce, MutexHeld, Protects, Owned
  <2>3. LiveFilled'
    BY <1>10 DEF rcu_set_pointer, Barrier, Published, LiveFilled,
       RetiredOnce, NewIsPrivate, Preparing, MutexHeld, Owned
  <2>4. RetiredOnce'
    BY <1>10 DEF rcu_set_pointer, Barrier, Published, RetiredOnce,
       NewIsPrivate, Preparing, MutexHeld, LiveFilled, Owned
  <2>5. NewIsPrivate'
    BY <1>10 DEF rcu_set_pointer, Barrier, Published, NewIsPrivate,
       Preparing, LiveFilled, RetiredOnce, MutexHeld, Owned
  <2>6. MutexHeld'
    BY <1>10 DEF rcu_set_pointer, Barrier, Published, MutexHeld
  <2> QED BY <2>1, <2>2, <2>3, <2>4, <2>5, <2>6
<1>11. ASSUME NEW u \in Updaters, Synchronize(u) PROVE IInv'
  <2>1. TypeOK' /\ RefsInSections'
    BY <1>11 DEF Synchronize, SyncCall, Styles, WriterPC, RefsInSections
  <2>2. RefsProtected'
    BY <1>11 DEF Synchronize, SyncCall, RefsInSections, RefsProtected,
       RetiredOnce, MutexHeld, Protects, Owned
  <2>3. LiveFilled'
    BY <1>11 DEF Synchronize, SyncCall, LiveFilled, RetiredOnce,
       NewIsPrivate, Preparing, MutexHeld, Owned
  <2>4. RetiredOnce'
    BY <1>11 DEF Synchronize, SyncCall, RetiredOnce, NewIsPrivate,
       Preparing, MutexHeld, LiveFilled, Owned
  <2>5. NewIsPrivate'
    BY <1>11 DEF Synchronize, SyncCall, NewIsPrivate, Preparing, LiveFilled,
       RetiredOnce, MutexHeld, Owned
  <2>6. MutexHeld'
    BY <1>11 DEF Synchronize, SyncCall, MutexHeld
  <2> QED BY <2>1, <2>2, <2>3, <2>4, <2>5, <2>6
<1>12. ASSUME NEW u \in Updaters, Synchronized(u) PROVE IInv'
  <2>1. TypeOK' /\ RefsInSections'
    BY <1>12 DEF Synchronized, SyncReturn, Styles, WriterPC, RefsInSections
  <2>2. RefsProtected'
    BY <1>12 DEF Synchronized, SyncReturn, RefsInSections, RefsProtected,
       RetiredOnce, MutexHeld, Protects, Owned
  <2>3. LiveFilled'
    BY <1>12 DEF Synchronized, SyncReturn, LiveFilled, RetiredOnce,
       NewIsPrivate, Preparing, MutexHeld, Owned
  <2>4. RetiredOnce'
    BY <1>12 DEF Synchronized, SyncReturn, RetiredOnce, NewIsPrivate,
       Preparing, MutexHeld, LiveFilled, Owned
  <2>5. NewIsPrivate'
    BY <1>12 DEF Synchronized, SyncReturn, NewIsPrivate, Preparing,
       LiveFilled, RetiredOnce, MutexHeld, Owned
  <2>6. MutexHeld'
    BY <1>12 DEF Synchronized, SyncReturn, MutexHeld
  <2> QED BY <2>1, <2>2, <2>3, <2>4, <2>5, <2>6
<1>13. ASSUME NEW u \in Updaters, Free(u) PROVE IInv'
  <2>1. TypeOK' /\ RefsInSections'
    BY <1>13 DEF Free, Styles, WriterPC, RefsInSections
  <2>2. RefsProtected'
    BY <1>13 DEF Free, RefsInSections, RefsProtected, RetiredOnce,
       MutexHeld, Protects, Owned
  <2>3. LiveFilled'
    BY <1>13 DEF Free, LiveFilled, RetiredOnce, NewIsPrivate, Preparing,
       MutexHeld, Owned
  <2>4. RetiredOnce'
    BY <1>13 DEF Free, RetiredOnce, NewIsPrivate, Preparing, MutexHeld,
       LiveFilled, Owned
  <2>5. NewIsPrivate'
    BY <1>13 DEF Free, NewIsPrivate, Preparing, LiveFilled, RetiredOnce,
       MutexHeld, Owned
  <2>6. MutexHeld'
    BY <1>13 DEF Free, MutexHeld
  <2> QED BY <2>1, <2>2, <2>3, <2>4, <2>5, <2>6
<1>14. CASE UNCHANGED vars
  BY <1>14 DEF vars, ptrvars, RefsInSections, RefsProtected, LiveFilled, RetiredOnce,
     NewIsPrivate, Preparing, MutexHeld, Protects, Owned
<1> QED
  BY <1>1, <1>2, <1>3, <1>4, <1>5, <1>6, <1>7, <1>8, <1>9, <1>10, <1>11, <1>12, <1>13, <1>14
     DEF Next, Reader, Writer

LEMMA IInvHolds == Spec => []IInv
  BY InitIInv, NextIInv, PTL DEF Spec

-----------------------------------------------------------------------------
(* Type correctness of the pointer protocol.                               *)
THEOREM TypeCorrect == Spec => []TypeOK
<1>1. IInv => TypeOK
  BY DEF IInv
<1> QED
  BY IInvHolds, <1>1, PTL

(* No use after free: whatever the number of readers and writers, and      *)
(* whichever primitive publishes (rcu_xchg_pointer, rcu_cmpxchg_pointer,   *)
(* rcu_assign_pointer), what a reader fetched with rcu_dereference() stays *)
(* filled and allocated until its rcu_read_unlock().  It is published, or  *)
(* its writer still has to wait for that very section.                     *)
THEOREM NoUseAfterFree == Spec => []ReadersSeeLiveNodes
<1>1. IInv => ReadersSeeLiveNodes
  BY DEF IInv, TypeOK, RefsProtected, LiveFilled, Protects, ReadersSeeLiveNodes
<1> QED
  BY IInvHolds, <1>1, PTL

(* No double free: concurrent writers never retire the same node, and      *)
(* never the published one.                                                *)
THEOREM NoDoubleFree == Spec => []RetiredOnce
<1>1. IInv => RetiredOnce
  BY DEF IInv
<1> QED
  BY IInvHolds, <1>1, PTL

-----------------------------------------------------------------------------
(***************************************************************************)
(* Defer.                                                                  *)
(***************************************************************************)

(***************************************************************************)
(* Remainders by a number that is not known.                               *)
(***************************************************************************)

LEMMA DDivision ==
    ASSUME NEW a \in Int, NEW W \in Nat, W > 0
    PROVE  /\ a = W * (a \div W) + (a % W)
           /\ a \div W \in Int
           /\ a % W \in 0 .. W - 1
  OBVIOUS

LEMMA DDivisionUnique ==
    ASSUME NEW W \in Nat, W > 0, NEW k \in Int, NEW r \in 0 .. W - 1,
           NEW l \in Int, NEW s \in 0 .. W - 1, W * k + r = W * l + s
    PROVE  k = l /\ r = s
<1>1. CASE k >= l + 1
  <2>1. W * k >= W * (l + 1) BY <1>1
  <2>2. W * (l + 1) = W * l + W OBVIOUS
  <2> QED BY <2>1, <2>2
<1>2. CASE l >= k + 1
  <2>1. W * l >= W * (k + 1) BY <1>2
  <2>2. W * (k + 1) = W * k + W OBVIOUS
  <2> QED BY <2>1, <2>2
<1> QED BY <1>1, <1>2

(* Numbers that differ by a multiple of W have the same remainder.         *)
LEMMA DModShift ==
    ASSUME NEW W \in Nat, W > 0, NEW a \in Int, NEW b \in Int, NEW k \in Int,
           a = W * k + b
    PROVE  a % W = b % W
<1>1. /\ a = W * (a \div W) + (a % W) /\ a \div W \in Int /\ a % W \in 0 .. W - 1
  BY DDivision
<1>2. /\ b = W * (b \div W) + (b % W) /\ b \div W \in Int /\ b % W \in 0 .. W - 1
  BY DDivision
<1>3. W * (k + (b \div W)) = W * k + W * (b \div W) BY <1>2
<1>4. W * (a \div W) + (a % W) = W * (k + (b \div W)) + (b % W)
  BY <1>1, <1>2, <1>3
<1>5. k + (b \div W) \in Int BY <1>2
<1>6. ASSUME NEW i \in Int, NEW r \in 0 .. W - 1, NEW j \in Int, NEW s \in 0 .. W - 1,
             W * i + r = W * j + s
      PROVE  r = s
  BY <1>6, DDivisionUnique
<1> QED BY ONLY <1>1, <1>2, <1>4, <1>5, <1>6

(* Two numbers with the same remainder are at least W apart.               *)
LEMMA DModApart ==
    ASSUME NEW W \in Nat, W > 0, NEW a \in Int, NEW b \in Int,
           a % W = b % W, a - b < W, b - a < W
    PROVE  a = b
<1>1. /\ a = W * (a \div W) + (a % W) /\ a \div W \in Int /\ a % W \in 0 .. W - 1
  BY DDivision
<1>2. /\ b = W * (b \div W) + (b % W) /\ b \div W \in Int /\ b % W \in 0 .. W - 1
  BY DDivision
<1> DEFINE k == a \div W
           l == b \div W
<1>3. a - b = W * k - W * l BY <1>1, <1>2
<1> HIDE DEF k, l
<1>4. k \in Int /\ l \in Int BY <1>1, <1>2 DEF k, l
<1>5. CASE k >= l + 1
  <2>1. W * k >= W * (l + 1) BY <1>4, <1>5
  <2>2. W * (l + 1) = W * l + W BY <1>4
  <2> QED BY <2>1, <2>2, <1>3, <1>4
<1>6. CASE l >= k + 1
  <2>1. W * l >= W * (k + 1) BY <1>4, <1>6
  <2>2. W * (k + 1) = W * k + W BY <1>4
  <2> QED BY <2>1, <2>2, <1>3, <1>4
<1>7. CASE k = l
  BY <1>1, <1>2, <1>7 DEF k, l
<1> QED BY <1>4, <1>5, <1>6, <1>7

(* What plus() and minus() do to the remainders of numbers that do not     *)
(* wrap, the positions below.                                              *)
LEMMA DPlus ==
    ASSUME NEW a \in Nat, NEW n \in Nat
    PROVE  plus(a % WordRange, n) = (a + n) % WordRange
<1> DEFINE W == WordRange
<1>0. W \in Nat /\ W > 0 BY DeferAssumption
<1>1. a = W * (a \div W) + (a % W) /\ a \div W \in Int /\ a % W \in Int
  BY <1>0, DDivision
<1> HIDE DEF W
<1>2. a + n = W * (a \div W) + ((a % W) + n) BY <1>0, <1>1
<1>3. (a + n) % W = ((a % W) + n) % W
  <2> DEFINE x == a + n  y == (a % W) + n  k == a \div W
  <2>1. x \in Int /\ y \in Int /\ k \in Int BY <1>1
  <2>2. x = W * k + y BY <1>2
  <2> HIDE DEF x, y, k
  <2>3. x % W = y % W BY ONLY <2>1, <2>2, <1>0, DModShift
  <2> QED BY <2>3 DEF x, y
<1> QED BY <1>3 DEF plus, W

LEMMA DMinus ==
    ASSUME NEW a \in Nat, NEW b \in Nat, b <= a, a - b < WordRange
    PROVE  minus(a % WordRange, b % WordRange) = a - b
<1> DEFINE W == WordRange
<1>0. W \in Nat /\ W > 0 BY DeferAssumption
<1>1. a = W * (a \div W) + (a % W) /\ a \div W \in Int /\ a % W \in Int
  BY <1>0, DDivision
<1>2. b = W * (b \div W) + (b % W) /\ b \div W \in Int /\ b % W \in Int
  BY <1>0, DDivision
<1> HIDE DEF W
<1> DEFINE k == (a \div W) - (b \div W)
           c == (a % W) - (b % W)
<1>3. W * k = W * (a \div W) - W * (b \div W) BY <1>0, <1>1, <1>2
<1>4. a - b = W * k + c BY <1>0, <1>1, <1>2, <1>3
<1>5. k \in Int /\ c \in Int BY <1>1, <1>2
<1> HIDE DEF k, c
<1>6. (a - b) % W = c % W
  <2>1. a - b \in Int OBVIOUS
  <2> QED BY ONLY <2>1, <1>0, <1>4, <1>5, DModShift
<1>7. (a - b) % W = a - b
  <2>1. a - b \in 0 .. W - 1 BY <1>0 DEF W
  <2> QED BY <2>1, <1>0
<1> QED BY <1>6, <1>7 DEF minus, W, c

(* The slot of a position is that of the word counter.                     *)
LEMMA DSlot ==
    ASSUME NEW a \in Nat, NEW n \in Nat
    PROVE  slot((a % WordRange) + n) = slot(a + n)
<1> DEFINE W == WordRange  D == DQSize
<1>0. W \in Nat /\ W > 0 /\ D \in Nat /\ D > 0 /\ W % D = 0 BY DeferAssumption
<1>1. a = W * (a \div W) + (a % W) /\ a \div W \in Int /\ a % W \in Int
  BY <1>0, DDivision
<1>2. W = D * (W \div D) + (W % D) /\ W \div D \in Int BY <1>0, DDivision
<1> HIDE DEF W, D
<1>3. W * (a \div W) = D * ((W \div D) * (a \div W)) 
  <2>1. W = D * (W \div D) BY <1>0, <1>2
  <2>2. \A x, y, z \in Int : x = D * y => x * z = D * (y * z) BY <1>0
  <2> QED BY <2>1, <2>2, <1>0, <1>1, <1>2
<1>4. a + n = D * ((W \div D) * (a \div W)) + ((a % W) + n)
  BY <1>0, <1>1, <1>3
<1>5. (W \div D) * (a \div W) \in Int BY <1>1, <1>2
<1>6. (a + n) % D = ((a % W) + n) % D
  <2> DEFINE x == a + n  y == (a % W) + n  k == (W \div D) * (a \div W)
  <2>1. x \in Int /\ y \in Int /\ k \in Int BY <1>1, <1>5
  <2>2. x = D * k + y BY <1>4
  <2> HIDE DEF x, y, k
  <2>3. x % D = y % D BY ONLY <2>1, <2>2, <1>0, DModShift
  <2> QED BY <2>3 DEF x, y
<1> QED BY <1>6 DEF slot, W, D

(* Positions within one round of the ring have slots of their own.         *)
LEMMA DSlotApart ==
    ASSUME NEW a \in Nat, NEW b \in Nat, slot(a) = slot(b),
           a - b < DQSize, b - a < DQSize
    PROVE  a = b
<1>1. DQSize \in Nat /\ DQSize > 0 BY DeferAssumption
<1>2. a % DQSize = b % DQSize
  <2>1. a % DQSize \in Int /\ b % DQSize \in Int BY <1>1
  <2> QED BY <2>1 DEF slot
<1> QED BY <1>1, <1>2, DModApart

LEMMA DSlotType ==
    ASSUME NEW a \in Nat
    PROVE  slot(a) \in 1 .. DQSize
  BY DeferAssumption DEF slot

-----------------------------------------------------------------------------
(***************************************************************************)
(* A ring and the callbacks it holds.                                      *)
(***************************************************************************)

Word == 0 .. WordRange - 1
Entry == [f : Word, p : Word, hold : SUBSET DReaders]
RingType == [q : {<< >>} \cup [1 .. DQSize -> Word], head : Nat, tail : Nat,
             last_head : Nat, fct_in : Word, fct_out : Word]

(* The words ws lie in the ring q from position x on.                      *)
Lies(q, x, ws) == \A j \in 1 .. Len(ws) : q[slot(x + j - 1)] = ws[j]

EntryWords(d, df, k) == Encode(LastFct(d, df, k), df[k].f, df[k].p)

(* The positions s cut the ring d into the callbacks df: positions count   *)
(* the words ever written and do not wrap; v is that of the tail.          *)
Positions == [Nat -> Nat]

DBounds(d, df, v, s) ==
    /\ v <= s[1] /\ s[Len(df) + 1] <= v + DQSize
    /\ \A j, k \in 1 .. Len(df) + 1 : j < k => s[j] < s[k]
    /\ d.tail = v % WordRange
    /\ d.head = s[Len(df) + 1] % WordRange

DLayout(d, df, s) ==
    /\ \A k \in 1 .. Len(df) :
         /\ s[k + 1] = s[k] + Len(EntryWords(d, df, k))
         /\ Lies(d.q, s[k], EntryWords(d, df, k))
    /\ d.fct_in = LastFct(d, df, Len(df) + 1)

DCut(d, df, v, s) == DBounds(d, df, v, s) /\ DLayout(d, df, s)

LEMMA DPosition ==
    ASSUME NEW s \in Positions, NEW k \in Nat
    PROVE  s[k] \in Nat
  BY DEF Positions

LEMMA DEncodeType ==
    ASSUME NEW last \in Word, NEW f \in Word, NEW p \in Word
    PROVE  /\ Encode(last, f, p) \in Seq(Word)
           /\ Len(Encode(last, f, p)) \in 1 .. 3
<1>0. WordRange \in Nat /\ WordRange > 4 /\ WordRange % 2 = 0 BY DeferAssumption
<1>1. CASE last = f /\ ~ DQ_IS_FCT_BIT(p) /\ p # DQ_FCT_MARK
  <2>1. Encode(last, f, p) = <<p>> BY <1>1 DEF Encode
  <2> QED BY <2>1
<1>2. CASE /\ ~ (last = f /\ ~ DQ_IS_FCT_BIT(p) /\ p # DQ_FCT_MARK)
           /\ DQ_IS_FCT_BIT(f) \/ f = DQ_FCT_MARK
  <2>1. Encode(last, f, p) = <<DQ_FCT_MARK, f, p>> BY <1>2 DEF Encode
  <2>2. DQ_FCT_MARK \in Word BY <1>0 DEF DQ_FCT_MARK, Word
  <2> QED BY <2>1, <2>2
<1>3. CASE /\ ~ (last = f /\ ~ DQ_IS_FCT_BIT(p) /\ p # DQ_FCT_MARK)
           /\ ~ (DQ_IS_FCT_BIT(f) \/ f = DQ_FCT_MARK)
  <2>1. Encode(last, f, p) = <<DQ_SET_FCT_BIT(f), p>> BY <1>3 DEF Encode
  <2>2. DQ_SET_FCT_BIT(f) \in Word
    BY <1>0, <1>3 DEF DQ_SET_FCT_BIT, DQ_IS_FCT_BIT, Word
  <2> QED BY <2>1, <2>2
<1> QED BY <1>1, <1>2, <1>3

(* Decoding undoes encoding, whatever bits the function and the data have. *)
LEMMA DDecodes ==
    ASSUME NEW d, NEW q, NEW last \in Word, NEW f \in Word, NEW p \in Word,
           NEW x \in Nat, d.fct_out = last, d.q = q, Lies(q, x, Encode(last, f, p))
    PROVE  /\ Decode(d, x % WordRange).f = f
           /\ Decode(d, x % WordRange).p = p
           /\ Decode(d, x % WordRange).n = Len(Encode(last, f, p))
<1>0. WordRange \in Nat /\ WordRange > 4 /\ WordRange % 2 = 0 BY DeferAssumption
<1> DEFINE w(k) == d.q[slot((x % WordRange) + k)]
<1>1. Decode(d, x % WordRange) =
        IF DQ_IS_FCT_BIT(w(0)) THEN [f |-> DQ_CLEAR_FCT_BIT(w(0)), p |-> w(1), n |-> 2]
        ELSE IF w(0) = DQ_FCT_MARK THEN [f |-> w(1), p |-> w(2), n |-> 3]
        ELSE [f |-> last, p |-> w(0), n |-> 1]
  BY DEF Decode
<1>2. /\ slot((x % WordRange) + 0) = slot(x + 1 - 1)
      /\ slot((x % WordRange) + 1) = slot(x + 2 - 1)
      /\ slot((x % WordRange) + 2) = slot(x + 3 - 1)
  <2>1. \A n \in Nat : slot((x % WordRange) + n) = slot(x + n) BY DSlot
  <2>2. x + 1 - 1 = x + 0 /\ x + 2 - 1 = x + 1 /\ x + 3 - 1 = x + 2 OBVIOUS
  <2> QED BY <2>1, <2>2
<1>3. \A j \in 1 .. Len(Encode(last, f, p)) :
          d.q[slot(x + j - 1)] = Encode(last, f, p)[j]
  BY DEF Lies
<1>4. CASE last = f /\ ~ DQ_IS_FCT_BIT(p) /\ p # DQ_FCT_MARK
  <2>1. Encode(last, f, p) = <<p>> BY <1>4 DEF Encode
  <2>2. w(0) = p BY <2>1, <1>2, <1>3
  <2> QED BY <1>1, <1>4, <2>1, <2>2
<1>5. CASE /\ ~ (last = f /\ ~ DQ_IS_FCT_BIT(p) /\ p # DQ_FCT_MARK)
           /\ DQ_IS_FCT_BIT(f) \/ f = DQ_FCT_MARK
  <2>1. Encode(last, f, p) = <<DQ_FCT_MARK, f, p>> BY <1>5 DEF Encode
  <2>2. w(0) = DQ_FCT_MARK /\ w(1) = f /\ w(2) = p BY <2>1, <1>2, <1>3
  <2>3. ~ DQ_IS_FCT_BIT(DQ_FCT_MARK) BY <1>0 DEF DQ_IS_FCT_BIT, DQ_FCT_MARK
  <2> QED BY <1>1, <2>1, <2>2, <2>3
<1>6. CASE /\ ~ (last = f /\ ~ DQ_IS_FCT_BIT(p) /\ p # DQ_FCT_MARK)
           /\ ~ (DQ_IS_FCT_BIT(f) \/ f = DQ_FCT_MARK)
  <2>1. Encode(last, f, p) = <<DQ_SET_FCT_BIT(f), p>> BY <1>6 DEF Encode
  <2>2. w(0) = DQ_SET_FCT_BIT(f) /\ w(1) = p BY <2>1, <1>2, <1>3
  <2>3. /\ DQ_IS_FCT_BIT(DQ_SET_FCT_BIT(f))
        /\ DQ_CLEAR_FCT_BIT(DQ_SET_FCT_BIT(f)) = f
    BY <1>0, <1>6 DEF DQ_IS_FCT_BIT, DQ_SET_FCT_BIT, DQ_CLEAR_FCT_BIT, Word
  <2> QED BY <1>1, <2>1, <2>2, <2>3
<1> QED BY <1>4, <1>5, <1>6

LEMMA DEntryWords ==
    ASSUME NEW d \in RingType, NEW df \in Seq(Entry), NEW k \in 1 .. Len(df)
    PROVE  /\ df[k].f \in Word /\ df[k].p \in Word
           /\ LastFct(d, df, k) \in Word
           /\ EntryWords(d, df, k) \in Seq(Word)
           /\ Len(EntryWords(d, df, k)) \in 1 .. 3
<1>1. df[k] \in Entry OBVIOUS
<1>2. df[k].f \in Word /\ df[k].p \in Word BY <1>1 DEF Entry
<1>3. LastFct(d, df, k) \in Word
  <2>1. CASE k = 1
    BY <2>1 DEF LastFct, RingType
  <2>2. CASE k # 1
    <3>1. k - 1 \in 1 .. Len(df) BY <2>2
    <3>2. df[k - 1] \in Entry BY <3>1
    <3> QED BY <2>2, <3>2 DEF LastFct, Entry
  <2> QED BY <2>1, <2>2
<1> QED BY <1>2, <1>3, DEncodeType DEF EntryWords

(* The k-th callback is what the words at its position say.                *)
LEMMA DEntryDecodes ==
    ASSUME NEW d \in RingType, NEW df \in Seq(Entry), NEW k \in 1 .. Len(df),
           NEW x \in Nat, Lies(d.q, x, EntryWords(d, df, k)),
           NEW e, e.q = d.q, e.fct_out = LastFct(d, df, k)
    PROVE  /\ Decode(e, x % WordRange).f = df[k].f
           /\ Decode(e, x % WordRange).p = df[k].p
           /\ Decode(e, x % WordRange).n = Len(EntryWords(d, df, k))
<1>1. PICK f \in Word, p \in Word, last \in Word :
        f = df[k].f /\ p = df[k].p /\ last = LastFct(d, df, k)
  BY DEntryWords
<1>2. EntryWords(d, df, k) = Encode(last, f, p) BY <1>1 DEF EntryWords
<1>3. Lies(d.q, x, Encode(last, f, p)) /\ e.q = d.q /\ e.fct_out = last
  BY ONLY <1>1, <1>2, Lies(d.q, x, EntryWords(d, df, k)), e.q = d.q,
          e.fct_out = LastFct(d, df, k)
<1>4. /\ Decode(e, x % WordRange).f = f
      /\ Decode(e, x % WordRange).p = p
      /\ Decode(e, x % WordRange).n = Len(Encode(last, f, p))
  BY ONLY <1>3, DDecodes
<1> QED BY ONLY <1>1, <1>2, <1>4

LEMMA DCutReads ==
    ASSUME NEW d \in RingType, NEW df \in Seq(Entry), NEW v \in Nat,
           NEW s \in Positions, DCut(d, df, v, s), NEW k \in 1 .. Len(df)
    PROVE  Reads(d, s[k] % WordRange, LastFct(d, df, k), df[k], s[k + 1] - s[k])
<1> DEFINE e == [d EXCEPT !.fct_out = LastFct(d, df, k)]
<1>1. /\ e.q = d.q /\ e.fct_out = LastFct(d, df, k)
  BY DEF RingType
<1>2. k \in Nat /\ k + 1 \in Nat /\ Len(EntryWords(d, df, k)) \in Nat BY DEntryWords
<1>3. PICK x \in Nat, y \in Nat : x = s[k] /\ y = s[k + 1] BY <1>2, DPosition
<1>4. y = x + Len(EntryWords(d, df, k)) /\ Lies(d.q, x, EntryWords(d, df, k))
  BY <1>3 DEF DCut, DLayout
<1> HIDE DEF e
<1>5. /\ Decode(e, x % WordRange).f = df[k].f
      /\ Decode(e, x % WordRange).p = df[k].p
      /\ Decode(e, x % WordRange).n = Len(EntryWords(d, df, k))
  BY <1>1, <1>4, DEntryDecodes
<1>6. y - x = Len(EntryWords(d, df, k)) BY <1>2, <1>4
<1> QED BY <1>3, <1>5, <1>6 DEF Reads, e

Shifted(s) == [k \in Nat |-> s[k + 1]]

(* The drain moves over the first callback.                                *)
LEMMA DCutAdvance ==
    ASSUME NEW d \in RingType, NEW df \in Seq(Entry), NEW v \in Nat,
           NEW s \in Positions, DCut(d, df, v, s), df # << >>, NEW c,
           c = Decode(d, s[1] % WordRange), NEW e, e.q = d.q, e.head = d.head,
           e.tail = d.tail, e.fct_in = d.fct_in, e.fct_out = c.f
    PROVE  /\ c.f = df[1].f
           /\ plus(s[1] % WordRange, c.n) = s[2] % WordRange
           /\ DCut(e, Tail(df), v, Shifted(s))
<1> DEFINE n == Len(df)
           r == Shifted(s)
<1>1. n \in Nat /\ n >= 1 BY EmptySeq
<1>2. /\ df[1].f \in Word /\ df[1].p \in Word /\ LastFct(d, df, 1) \in Word
      /\ Len(EntryWords(d, df, 1)) \in 1 .. 3
  BY <1>1, DEntryWords
<1>3. d.fct_out = LastFct(d, df, 1) BY DEF LastFct
<1>4. s[2] = s[1] + Len(EntryWords(d, df, 1)) /\ Lies(d.q, s[1], EntryWords(d, df, 1))
  <2>1. 1 \in 1 .. Len(df) /\ 1 + 1 = 2 BY <1>1
  <2> QED BY <2>1 DEF DCut, DLayout
<1>5. c.f = df[1].f /\ c.p = df[1].p /\ c.n = Len(EntryWords(d, df, 1))
  <2>1. PICK x \in Nat : x = s[1] BY DPosition
  <2>2. Lies(d.q, x, EntryWords(d, df, 1)) /\ 1 \in 1 .. Len(df) BY <1>1, <1>4, <2>1
  <2>3. /\ Decode(d, x % WordRange).f = df[1].f
        /\ Decode(d, x % WordRange).p = df[1].p
        /\ Decode(d, x % WordRange).n = Len(EntryWords(d, df, 1))
    BY <1>3, <2>2, DEntryDecodes
  <2> QED BY ONLY <2>1, <2>3, c = Decode(d, s[1] % WordRange)
<1>6. plus(s[1] % WordRange, c.n) = s[2] % WordRange
  <2>0. s[1] \in Nat BY DPosition
  <2>1. s[1] \in Nat /\ c.n \in Nat /\ s[2] = s[1] + c.n
    BY ONLY <2>0, <1>2, <1>4, <1>5
  <2> QED BY <2>1, DPlus
<1>7. Len(Tail(df)) = n - 1 /\ \A k \in 1 .. n - 1 : Tail(df)[k] = df[k + 1]
  BY <1>1
<1>8. /\ e.q = d.q /\ e.head = d.head /\ e.tail = d.tail /\ e.fct_in = d.fct_in
      /\ e.fct_out = df[1].f
  BY <1>5
<1>9. \A k \in 1 .. n : LastFct(e, Tail(df), k) = LastFct(d, df, k + 1)
  <2> SUFFICES ASSUME NEW k \in 1 .. n PROVE LastFct(e, Tail(df), k) = LastFct(d, df, k + 1)
    OBVIOUS
  <2>1. CASE k = 1 BY <2>1, <1>8 DEF LastFct
  <2>2. CASE k # 1
    <3>1. k - 1 \in 1 .. n - 1 /\ (k - 1) + 1 = k /\ (k + 1) - 1 = k /\ k + 1 # 1
      BY <1>1, <2>2
    <3>2. Tail(df)[k - 1] = df[k] BY <1>7, <3>1
    <3> QED BY <2>2, <3>1, <3>2 DEF LastFct
  <2> QED BY <2>1, <2>2
<1>10. \A k \in Nat : r[k] = s[k + 1] BY DEF Shifted
<1> HIDE DEF r
<1>11. DBounds(e, Tail(df), v, r)
  <2>1. r[Len(Tail(df)) + 1] = s[n + 1] BY <1>1, <1>7, <1>10
  <2>2. DBounds(d, df, v, s) BY DEF DCut
  <2>3. v <= r[1]
    <3>1. r[1] = s[2] /\ s[1] \in Nat /\ s[2] \in Nat
      <4>1. 1 \in Nat /\ 2 \in Nat /\ 1 + 1 = 2 OBVIOUS
      <4>2. r[1] = s[1 + 1] BY ONLY <4>1, <1>10
      <4>3. s[1] \in Nat /\ s[2] \in Nat BY <4>1, DPosition
      <4> QED BY ONLY <4>1, <4>2, <4>3
    <3>2. v <= s[1] /\ s[2] >= s[1]
      <4>1. v <= s[1] BY ONLY <2>2 DEF DBounds
      <4> QED BY ONLY <4>1, <3>1, <1>2, <1>4
    <3> QED BY <3>1, <3>2
  <2>4. \A j, k \in 1 .. n : j < k => r[j] < r[k]
    <3>1. \A j, k \in 1 .. n + 1 : j < k => s[j] < s[k] BY ONLY <2>2 DEF DBounds
    <3> SUFFICES ASSUME NEW j \in 1 .. n, NEW k \in 1 .. n, j < k PROVE r[j] < r[k]
      OBVIOUS
    <3>2. /\ j + 1 \in 1 .. n + 1 /\ k + 1 \in 1 .. n + 1 /\ j + 1 < k + 1
          /\ j \in Nat /\ k \in Nat
      BY <1>1
    <3> QED BY ONLY <3>1, <3>2, <1>10
  <2> QED BY <1>1, <1>7, <1>8, <2>1, <2>2, <2>3, <2>4 DEF DBounds
<1>12. DLayout(e, Tail(df), r)
  <2>1. ASSUME NEW k \in 1 .. n - 1
        PROVE  /\ r[k + 1] = r[k] + Len(EntryWords(e, Tail(df), k))
               /\ Lies(e.q, r[k], EntryWords(e, Tail(df), k))
    <3>1. k + 1 \in 1 .. n /\ k \in 1 .. n /\ k \in Nat /\ k + 1 \in Nat BY <1>1
    <3>2. EntryWords(e, Tail(df), k) = EntryWords(d, df, k + 1)
      BY <1>7, <1>9, <3>1 DEF EntryWords
    <3>3. /\ s[(k + 1) + 1] = s[k + 1] + Len(EntryWords(d, df, k + 1))
          /\ Lies(d.q, s[k + 1], EntryWords(d, df, k + 1))
      BY <3>1 DEF DCut, DLayout
    <3> QED BY <1>8, <1>10, <3>1, <3>2, <3>3
  <2>2. e.fct_in = LastFct(e, Tail(df), Len(Tail(df)) + 1)
    <3>1. Len(Tail(df)) + 1 = n /\ n \in 1 .. n BY <1>1, <1>7
    <3>2. d.fct_in = LastFct(d, df, n + 1) BY DEF DCut, DLayout
    <3> QED BY <1>8, <1>9, <3>1, <3>2
  <2> QED BY <1>7, <2>1, <2>2 DEF DLayout
<1>13. DCut(e, Tail(df), v, r) BY <1>11, <1>12 DEF DCut
<1>14. c.f = df[1].f BY ONLY <1>5
<1> QED BY ONLY <1>6, <1>13, <1>14 DEF r

LEMMA DShift ==
    ASSUME NEW s \in Positions
    PROVE  Shifted(s) \in Positions
<1>1. \A k \in Nat : s[k + 1] \in Nat
  <2> SUFFICES ASSUME NEW k \in Nat PROVE s[k + 1] \in Nat OBVIOUS
  <2>1. k + 1 \in Nat OBVIOUS
  <2> QED BY <2>1, DPosition
<1> QED BY ONLY <1>1 DEF Positions, Shifted

(* The distance between two positions of a ring.                           *)
LEMMA DDistance ==
    ASSUME NEW d, NEW df \in Seq(Entry), NEW v \in Nat, NEW s \in Positions,
           DBounds(d, df, v, s), NEW k \in 1 .. Len(df) + 1
    PROVE  /\ s[1] \in Nat /\ s[k] \in Nat /\ s[Len(df) + 1] \in Nat
           /\ v <= s[1] /\ s[1] <= s[k] /\ s[k] <= s[Len(df) + 1]
           /\ s[Len(df) + 1] <= v + DQSize
           /\ k # 1 => s[1] < s[k]
<1>1. Len(df) \in Nat /\ k \in Nat /\ Len(df) + 1 \in Nat OBVIOUS
<1>2. s[1] \in Nat /\ s[k] \in Nat /\ s[Len(df) + 1] \in Nat BY <1>1, DPosition
<1>3. \A i, j \in 1 .. Len(df) + 1 : i < j => s[i] < s[j] BY DEF DBounds
<1>4. v <= s[1] /\ s[Len(df) + 1] <= v + DQSize BY DEF DBounds
<1>5. 1 \in 1 .. Len(df) + 1 /\ Len(df) + 1 \in 1 .. Len(df) + 1 BY <1>1
<1>6. k = 1 \/ 1 < k BY <1>1
<1>7. k = Len(df) + 1 \/ k < Len(df) + 1 BY <1>1
<1>8. k # 1 => s[1] < s[k] BY ONLY <1>3, <1>5, <1>6, k \in 1 .. Len(df) + 1
<1>9. k # Len(df) + 1 => s[k] < s[Len(df) + 1]
  BY ONLY <1>3, <1>5, <1>7, k \in 1 .. Len(df) + 1
<1> QED BY <1>2, <1>4, <1>8, <1>9

(* Position m is where the drain is only if m is 1.                        *)
LEMMA DAtEnd ==
    ASSUME NEW d, NEW df \in Seq(Entry), NEW v \in Nat, NEW s \in Positions,
           DBounds(d, df, v, s), NEW m \in 1 .. Len(df) + 1,
           s[1] % WordRange = s[m] % WordRange
    PROVE  m = 1
<1>1. /\ s[1] \in Nat /\ s[m] \in Nat /\ s[Len(df) + 1] \in Nat
      /\ v <= s[1] /\ s[1] <= s[m] /\ s[m] <= s[Len(df) + 1]
      /\ s[Len(df) + 1] <= v + DQSize
      /\ m # 1 => s[1] < s[m]
  BY DDistance
<1>2. WordRange \in Nat /\ DQSize \in Nat /\ DQSize < WordRange /\ WordRange > 0
  BY DeferAssumption
<1>3. PICK x \in Nat, y \in Nat, z \in Nat : x = s[1] /\ y = s[m] /\ z = s[Len(df) + 1]
  BY <1>1
<1>4. x - y < WordRange /\ y - x < WordRange /\ x \in Int /\ y \in Int
  <2>1. v <= x /\ x <= y /\ y <= z /\ z <= v + DQSize BY ONLY <1>1, <1>3
  <2> QED BY <1>2, <2>1
<1>5. x % WordRange = y % WordRange BY <1>3
<1>6. x = y BY ONLY <1>2, <1>4, <1>5, DModApart
<1> QED BY <1>1, <1>3, <1>6

(* The ring without the words before the position to.                      *)
Cleared(d, to) == [k \in 1 .. DQSize |-> IF k \in Live(d, to) THEN d.q[k] ELSE 0]

(* The tail moves up to where the drain is; the words behind it go.        *)
LEMMA DCutFinish ==
    ASSUME NEW d \in RingType, NEW df \in Seq(Entry), NEW v \in Nat,
           NEW s \in Positions, DCut(d, df, v, s), NEW e \in RingType,
           e.head = d.head, e.fct_in = d.fct_in, e.fct_out = d.fct_out,
           e.tail = s[1] % WordRange,
           e.q = Cleared(d, s[1] % WordRange)
    PROVE  DCut(e, df, s[1], s)
<1> DEFINE n == Len(df)
<1>1. n \in Nat OBVIOUS
<1>2. DBounds(d, df, v, s) BY DEF DCut
<1>3. /\ s[1] \in Nat /\ s[n + 1] \in Nat /\ v <= s[1] /\ s[1] <= s[n + 1]
      /\ s[n + 1] <= v + DQSize
  <2>1. n + 1 \in 1 .. n + 1 BY <1>1
  <2> QED BY <1>2, <2>1, DDistance
<1>4. WordRange \in Nat /\ DQSize \in Nat /\ DQSize < WordRange BY DeferAssumption
<1>10. PICK a \in Nat, z \in Nat : a = s[1] /\ z = s[n + 1] BY ONLY <1>3
<1>11. v <= a /\ a <= z /\ z <= v + DQSize BY ONLY <1>3, <1>10
<1>12. z <= a + DQSize /\ z - a < WordRange BY <1>4, <1>11
<1>5. DBounds(e, df, s[1], s)
  <2>1. s[n + 1] <= s[1] + DQSize BY ONLY <1>10, <1>12
  <2> QED BY <1>2, <1>3, <2>1 DEF DBounds
<1>6. minus(d.head, s[1] % WordRange) = s[n + 1] - s[1]
  <2>1. d.head = z % WordRange BY <1>2, <1>10 DEF DBounds
  <2>2. minus(z % WordRange, a % WordRange) = z - a BY <1>11, <1>12, DMinus
  <2> QED BY ONLY <1>10, <2>1, <2>2
<1>7. ASSUME NEW x \in Nat, s[1] <= x, x < s[n + 1]
      PROVE  e.q[slot(x)] = d.q[slot(x)]
  <2>1. PICK y \in Nat : y = s[1] BY ONLY <1>3
  <2>2. x - y \in Nat /\ x - y \in 0 .. (s[n + 1] - s[1]) - 1 /\ y + (x - y) = x
    <3>1. y <= x /\ x < z /\ y = a BY ONLY <1>7, <1>10, <2>1
    <3>2. x - y \in Nat /\ x - y \in 0 .. (z - a) - 1 /\ y + (x - y) = x BY <3>1
    <3> QED BY ONLY <3>2, <1>10
  <2>3. plus(y % WordRange, x - y) = x % WordRange
    <3>1. plus(y % WordRange, x - y) = (y + (x - y)) % WordRange BY <2>2, DPlus
    <3> QED BY <3>1, <2>2
  <2>4. slot(x % WordRange) = slot(x)
    <3>1. slot((x % WordRange) + 0) = slot(x + 0) BY DSlot
    <3>2. x % WordRange \in Int BY <1>4
    <3> QED BY <3>1, <3>2
  <2>5. slot(x) \in Live(d, s[1] % WordRange)
    <3>1. slot(plus(s[1] % WordRange, x - y)) = slot(x) BY <2>1, <2>3, <2>4
    <3>2. x - y \in 0 .. minus(d.head, s[1] % WordRange) - 1 BY <1>6, <2>2
    <3> QED BY <3>1, <3>2 DEF Live
  <2>6. slot(x) \in 1 .. DQSize BY DSlotType
  <2> QED BY <2>5, <2>6 DEF Cleared
<1>8. ASSUME NEW k \in 1 .. n
      PROVE  /\ s[k + 1] = s[k] + Len(EntryWords(e, df, k))
             /\ Lies(e.q, s[k], EntryWords(e, df, k))
  <2>1. EntryWords(e, df, k) = EntryWords(d, df, k) BY DEF EntryWords, LastFct
  <2>2. /\ s[k + 1] = s[k] + Len(EntryWords(d, df, k))
        /\ Lies(d.q, s[k], EntryWords(d, df, k))
    BY DEF DCut, DLayout
  <2>3. Len(EntryWords(d, df, k)) \in 1 .. 3 BY DEntryWords
  <2>4. k \in 1 .. n + 1 /\ k + 1 \in 1 .. n + 1 BY <1>1
  <2>5. s[k] \in Nat /\ s[1] <= s[k] /\ s[k + 1] \in Nat /\ s[k + 1] <= s[n + 1]
    BY <1>2, <2>4, DDistance
  <2>6. ASSUME NEW j \in 1 .. Len(EntryWords(d, df, k))
        PROVE  e.q[slot(s[k] + j - 1)] = EntryWords(d, df, k)[j]
    <3>0. PICK y \in Nat : y = s[k] BY ONLY <2>5
    <3>1. PICK x \in Nat : x = s[k] + j - 1
      <4>1. Len(EntryWords(d, df, k)) \in Nat BY ONLY <2>3
      <4>2. j \in Nat /\ j >= 1 BY ONLY <4>1, j \in 1 .. Len(EntryWords(d, df, k))
      <4>3. y + j - 1 \in Nat BY <4>2
      <4> QED BY ONLY <3>0, <4>3
    <3>2. s[1] <= x /\ x < s[n + 1]
      <4>1. PICK l \in Nat, u \in Nat, g \in Nat, w \in Nat :
              /\ l = Len(EntryWords(d, df, k)) /\ u = s[1] /\ g = s[k + 1] /\ w = s[n + 1]
        BY ONLY <1>3, <2>3, <2>5
      <4>2. j \in 1 .. l /\ x = y + j - 1 /\ g = y + l /\ u <= y /\ g <= w
        BY ONLY <2>2, <2>5, <3>0, <3>1, <4>1, j \in 1 .. Len(EntryWords(d, df, k))
      <4>3. u <= x /\ x < w BY <4>2
      <4> QED BY ONLY <4>1, <4>3
    <3>3. d.q[slot(s[k] + j - 1)] = EntryWords(d, df, k)[j] BY <2>2 DEF Lies
    <3> QED BY <1>7, <3>1, <3>2, <3>3
  <2> QED BY <2>1, <2>2, <2>6 DEF Lies
<1>9. e.fct_in = LastFct(e, df, n + 1) BY DEF DCut, DLayout, LastFct
<1> QED BY <1>5, <1>8, <1>9 DEF DCut, DLayout

(* The ring with the words ws at its head.                                 *)
Stored(d, ws) ==
    [k \in 1 .. DQSize |->
       LET j == CHOOSE j \in 0 .. DQSize - 1 : slot(d.head + j) = k
       IN  IF j < Len(ws) THEN ws[j + 1] ELSE d.q[k]]

(* A callback is stored: its words go behind those of the others, and into *)
(* free slots if there is room for them.                                   *)
LEMMA DCutStore ==
    ASSUME NEW d \in RingType, NEW df \in Seq(Entry), NEW v \in Nat,
           NEW s \in Positions, DCut(d, df, v, s), NEW en \in Entry,
           NEW ws, ws = Encode(d.fct_in, en.f, en.p),
           s[Len(df) + 1] + 3 <= v + DQSize, NEW e \in RingType,
           e.tail = d.tail, e.fct_in = en.f, e.fct_out = d.fct_out,
           e.head = plus(d.head, Len(ws)),
           e.q = Stored(d, ws)
    PROVE  DCut(e, Append(df, en), v,
                [s EXCEPT ![Len(df) + 2] = s[Len(df) + 1] + Len(ws)])
<1> DEFINE n == Len(df)
           dg == Append(df, en)
           r == [s EXCEPT ![n + 2] = s[n + 1] + Len(ws)]
<1>1. n \in Nat OBVIOUS
<1>2. DBounds(d, df, v, s) BY DEF DCut
<1>3. /\ s[1] \in Nat /\ s[n + 1] \in Nat /\ v <= s[1] /\ s[1] <= s[n + 1]
  <2>1. n + 1 \in 1 .. n + 1 BY <1>1
  <2> QED BY <1>2, <2>1, DDistance
<1>4. WordRange \in Nat /\ DQSize \in Nat /\ DQSize < WordRange /\ DQSize > 3
  BY DeferAssumption
<1>5. ws \in Seq(Word) /\ Len(ws) \in 1 .. 3
  BY DEncodeType DEF RingType, Entry
<1>6. PICK h \in Nat, l \in Nat : h = s[n + 1] /\ l = Len(ws) BY <1>3, <1>5
<1>7. h + l <= v + DQSize /\ l \in 1 .. 3 /\ d.head = h % WordRange
  <2>1. h + 3 <= v + DQSize BY <1>6
  <2>2. l \in 1 .. 3 BY <1>5, <1>6
  <2>3. d.head = h % WordRange BY <1>2, <1>6 DEF DBounds
  <2> QED BY <1>4, <2>1, <2>2, <2>3
<1>8. e.head = (h + l) % WordRange BY <1>6, <1>7, DPlus
<1>9. /\ r[n + 2] = h + l
      /\ \A k \in 1 .. n + 1 : r[k] = s[k]
  <2>1. n + 2 \in Nat /\ DOMAIN s = Nat BY <1>1 DEF Positions
  <2>2. \A k \in 1 .. n + 1 : k \in Nat /\ k # n + 2 BY <1>1
  <2> QED BY <1>6, <2>1, <2>2
<1>10. /\ Len(dg) = n + 1 /\ dg[n + 1] = en /\ \A k \in 1 .. n : dg[k] = df[k]
  OBVIOUS
<1> HIDE DEF r, dg
<1>11. /\ r[n + 1] = h /\ r[1] = s[1]
  <2>1. n + 1 \in 1 .. n + 1 /\ 1 \in 1 .. n + 1 BY <1>1
  <2> QED BY ONLY <2>1, <1>6, <1>9
<1>12. \A k \in 1 .. n + 1 : s[k] \in Nat /\ s[k] <= h
  BY <1>2, <1>6, DDistance
<1>13. DBounds(e, dg, v, r)
  <2>1. \A j, k \in 1 .. (n + 1) + 1 : j < k => r[j] < r[k]
    <3> SUFFICES ASSUME NEW j \in 1 .. (n + 1) + 1, NEW k \in 1 .. (n + 1) + 1, j < k
                 PROVE  r[j] < r[k]
      OBVIOUS
    <3>1. j \in 1 .. n + 1 /\ (k \in 1 .. n + 1 \/ k = n + 2) BY <1>1
    <3>2. CASE k \in 1 .. n + 1
      <4>1. s[j] < s[k] BY <1>2, <3>1, <3>2 DEF DBounds
      <4> QED BY ONLY <4>1, <3>1, <3>2, <1>9
    <3>3. CASE k = n + 2
      <4>1. PICK x \in Nat : x = s[j] BY <3>1, <1>12
      <4>2. x <= h BY ONLY <4>1, <3>1, <1>12
      <4>3. x < h + l BY <4>2, <1>7
      <4> QED BY ONLY <4>1, <4>3, <3>1, <3>3, <1>9
    <3> QED BY <3>1, <3>2, <3>3
  <2>2. (n + 1) + 1 = n + 2 BY <1>1
  <2>3. v <= r[1] BY ONLY <1>3, <1>11
  <2>4. r[Len(dg) + 1] = h + l BY ONLY <1>9, <1>10, <2>2
  <2>5. e.tail = v % WordRange BY <1>2 DEF DBounds
  <2> QED BY ONLY <2>1, <2>3, <2>4, <2>5, <1>7, <1>8, <1>10 DEF DBounds
(* The word that slot k of the new ring has.                               *)
<1>14. ASSUME NEW i \in 0 .. DQSize - 1
       PROVE  e.q[slot(h + i)] = IF i < l THEN ws[i + 1] ELSE d.q[slot(h + i)]
  <2>1. PICK k : k = slot(h + i) OBVIOUS
  <2>2. i \in Nat /\ h + i \in Nat BY <1>4
  <2>3. k \in 1 .. DQSize BY <2>1, <2>2, DSlotType
  <2>4. \A j \in 0 .. DQSize - 1 : slot(d.head + j) = k <=> j = i
    <3> SUFFICES ASSUME NEW j \in 0 .. DQSize - 1 PROVE slot(d.head + j) = k <=> j = i
      OBVIOUS
    <3>1. j \in Nat /\ h + j \in Nat /\ (h + i) - (h + j) < DQSize
          /\ (h + j) - (h + i) < DQSize
      BY <1>4
    <3>2. slot(d.head + j) = slot(h + j)
      <4>1. slot((h % WordRange) + j) = slot(h + j) BY <3>1, DSlot
      <4> QED BY ONLY <4>1, <1>7
    <3>3. slot(h + i) = slot(h + j) => h + i = h + j
      BY <2>2, <3>1, DSlotApart
    <3>4. h + i = h + j => i = j BY <2>2, <3>1
    <3> QED BY ONLY <2>1, <3>2, <3>3, <3>4
  <2>5. (CHOOSE j \in 0 .. DQSize - 1 : slot(d.head + j) = k) = i BY <2>4
  <2>6. e.q[k] = IF i < Len(ws) THEN ws[i + 1] ELSE d.q[k] BY <2>3, <2>5 DEF Stored
  <2> QED BY ONLY <2>1, <2>6, <1>6
<1>15. ASSUME NEW x \in Nat, v <= x, x < h
       PROVE  e.q[slot(x)] = d.q[slot(x)]
  <2>0. v + DQSize \in Nat BY <1>4
  <2>1. PICK i \in Nat : i = (x + DQSize) - h
    <3>1. (x + DQSize) - h \in Nat BY <1>15, <1>4, <1>7
    <3> QED BY <3>1
  <2>2. i \in 0 .. DQSize - 1 /\ h + i = x + DQSize /\ l <= i
    BY <2>1, <1>15, <1>4, <1>7
  <2>3. slot(h + i) = slot(x)
    <3>1. x + DQSize = DQSize * 1 + x /\ x + DQSize \in Int /\ x \in Int /\ 1 \in Int
      BY <1>4
    <3>2. (x + DQSize) % DQSize = x % DQSize
      <4>1. PICK a \in Int, k \in Int : a = x + DQSize /\ k = 1 BY <3>1
      <4>2. a = DQSize * k + x /\ DQSize > 0 BY <3>1, <4>1, <1>4
      <4>3. a % DQSize = x % DQSize BY <4>2, <1>4, <3>1, DModShift
      <4> QED BY ONLY <4>1, <4>3
    <3> QED BY <2>2, <3>2 DEF slot
  <2>4. ~ (i < l) BY <2>2
  <2> QED BY ONLY <1>14, <2>2, <2>3, <2>4
<1>16. \A k \in 1 .. n : EntryWords(e, dg, k) = EntryWords(d, df, k)
  <2> SUFFICES ASSUME NEW k \in 1 .. n PROVE EntryWords(e, dg, k) = EntryWords(d, df, k)
    OBVIOUS
  <2>1. k # 1 => k - 1 \in 1 .. n BY <1>1
  <2>2. LastFct(e, dg, k) = LastFct(d, df, k) BY <1>10, <2>1 DEF LastFct
  <2> QED BY <1>10, <2>2 DEF EntryWords
<1>17. EntryWords(e, dg, n + 1) = ws
  <2>1. d.fct_in = LastFct(d, df, n + 1) BY DEF DCut, DLayout
  <2>2. LastFct(e, dg, n + 1) = LastFct(d, df, n + 1)
    <3>1. n + 1 # 1 => (n + 1) - 1 \in 1 .. n BY <1>1
    <3> QED BY <3>1, <1>10 DEF LastFct
  <2> QED BY <2>1, <2>2, <1>10 DEF EntryWords
<1>18. ASSUME NEW k \in 1 .. n
       PROVE  /\ r[k + 1] = r[k] + Len(EntryWords(e, dg, k))
              /\ Lies(e.q, r[k], EntryWords(e, dg, k))
  <2>1. k \in 1 .. n + 1 /\ k + 1 \in 1 .. n + 1 BY <1>1
  <2>2. r[k] = s[k] /\ r[k + 1] = s[k + 1] BY ONLY <2>1, <1>9
  <2>3. /\ s[k + 1] = s[k] + Len(EntryWords(d, df, k))
        /\ Lies(d.q, s[k], EntryWords(d, df, k))
    BY DEF DCut, DLayout
  <2>4. PICK m \in Nat : m = Len(EntryWords(d, df, k)) BY DEntryWords
  <2>5. PICK y \in Nat, z \in Nat : y = s[k] /\ z = s[k + 1] BY ONLY <2>1, <1>12
  <2>6. v <= y /\ z <= h /\ z = y + m
    <3>1. v <= s[k]
      <4>1. s[1] <= s[k] BY <1>2, <2>1, DDistance
      <4>2. PICK a \in Nat : a = s[1] BY ONLY <1>3
      <4>3. v <= a /\ a <= y BY ONLY <4>1, <4>2, <1>3, <2>5
      <4>4. v <= y BY <4>3
      <4> QED BY ONLY <4>4, <2>5
    <3> QED BY ONLY <3>1, <2>1, <2>3, <2>4, <2>5, <1>12
  <2>7. ASSUME NEW j \in 1 .. m
        PROVE  e.q[slot(s[k] + j - 1)] = EntryWords(d, df, k)[j]
    <3>1. PICK x \in Nat : x = y + j - 1
      <4>1. y + j - 1 \in Nat OBVIOUS
      <4> QED BY <4>1
    <3>2. v <= x /\ x < h BY <2>6, <3>1
    <3>3. d.q[slot(s[k] + j - 1)] = EntryWords(d, df, k)[j]
      BY ONLY <2>3, <2>4, j \in 1 .. m DEF Lies
    <3>4. e.q[slot(x)] = d.q[slot(x)] BY <3>2, <1>15
    <3> QED BY ONLY <2>5, <3>1, <3>3, <3>4
  <2>8. Lies(e.q, s[k], EntryWords(d, df, k)) BY ONLY <2>4, <2>7 DEF Lies
  <2> QED BY ONLY <2>2, <2>3, <2>8, <1>16, k \in 1 .. n
<1>19. /\ r[(n + 1) + 1] = r[n + 1] + Len(EntryWords(e, dg, n + 1))
       /\ Lies(e.q, r[n + 1], EntryWords(e, dg, n + 1))
  <2>1. (n + 1) + 1 = n + 2 BY <1>1
  <2>2. r[(n + 1) + 1] = r[n + 1] + Len(EntryWords(e, dg, n + 1))
    BY ONLY <2>1, <1>6, <1>9, <1>11, <1>17
  <2>3. ASSUME NEW j \in 1 .. l PROVE e.q[slot(h + j - 1)] = ws[j]
    <3>1. PICK i \in Nat : i = j - 1
      <4>1. j - 1 \in Nat OBVIOUS
      <4> QED BY <4>1
    <3>2. i \in 0 .. DQSize - 1 /\ i < l /\ i + 1 = j /\ h + i = h + j - 1
      BY <3>1, <1>4, <1>7
    <3> QED BY ONLY <3>2, <1>14
  <2>4. Lies(e.q, h, ws) BY ONLY <2>3, <1>6 DEF Lies
  <2> QED BY ONLY <2>2, <2>4, <1>11, <1>17
<1>20. DLayout(e, dg, r)
  <2>1. \A k \in 1 .. Len(dg) : k \in 1 .. n \/ k = n + 1 BY <1>1, <1>10
  <2>2. e.fct_in = LastFct(e, dg, Len(dg) + 1)
    <3>1. Len(dg) + 1 # 1 /\ (Len(dg) + 1) - 1 = n + 1 BY <1>1, <1>10
    <3> QED BY <3>1, <1>10 DEF LastFct
  <2> QED BY ONLY <2>1, <2>2, <1>18, <1>19 DEF DLayout
<1> QED BY <1>13, <1>20 DEF DCut, dg, r

(* The words lie where they lay if what they depend on is the same.        *)
LEMMA DCutSame ==
    ASSUME NEW d, NEW e, NEW df, NEW dg, NEW v, NEW s, DCut(d, df, v, s),
           e.q = d.q \/ Len(df) = 0,
           e.head = d.head, e.tail = d.tail, e.fct_in = d.fct_in, e.fct_out = d.fct_out,
           Len(dg) = Len(df), Len(df) \in Nat,
           \A k \in 1 .. Len(df) : dg[k].f = df[k].f /\ dg[k].p = df[k].p
    PROVE  DCut(e, dg, v, s)
<1>1. \A k \in 1 .. Len(df) + 1 : LastFct(e, dg, k) = LastFct(d, df, k)
  <2> SUFFICES ASSUME NEW k \in 1 .. Len(df) + 1
               PROVE  LastFct(e, dg, k) = LastFct(d, df, k)
    OBVIOUS
  <2>1. k # 1 => k - 1 \in 1 .. Len(df) OBVIOUS
  <2> QED BY <2>1 DEF LastFct
<1>2. DBounds(e, dg, v, s) BY DEF DCut, DBounds
<1>3. ASSUME NEW k \in 1 .. Len(dg)
      PROVE  /\ s[k + 1] = s[k] + Len(EntryWords(e, dg, k))
             /\ Lies(e.q, s[k], EntryWords(e, dg, k))
  <2>1. k \in 1 .. Len(df) /\ k \in 1 .. Len(df) + 1 /\ Len(df) # 0 OBVIOUS
  <2>2. EntryWords(e, dg, k) = EntryWords(d, df, k) BY <1>1, <2>1 DEF EntryWords
  <2>3. /\ s[k + 1] = s[k] + Len(EntryWords(d, df, k))
        /\ Lies(d.q, s[k], EntryWords(d, df, k))
    BY <2>1 DEF DCut, DLayout
  <2>4. e.q = d.q BY <2>1
  <2> QED BY ONLY <2>2, <2>3, <2>4
<1>4. e.fct_in = LastFct(e, dg, Len(dg) + 1)
  <2>1. Len(df) + 1 \in 1 .. Len(df) + 1 OBVIOUS
  <2>2. d.fct_in = LastFct(d, df, Len(df) + 1) BY DEF DCut, DLayout
  <2> QED BY <1>1, <2>1, <2>2
<1> QED BY <1>2, <1>3, <1>4 DEF DCut, DLayout

(***************************************************************************)
(* A ring, the callbacks it holds and those who drain it.                  *)
(***************************************************************************)

Job == [t : DThreads, i : Nat, to : Nat]

(* A drain w is to go from where the callbacks begin to the end of one of  *)
(* them; those in between wait only for readers that its grace period      *)
(* waits for, and for none when it is over.                                *)
JobOk(w, pc, df, s, gp) ==
    /\ w.i = s[1] % WordRange
    /\ \E m \in 1 .. Len(df) + 1 :
         /\ w.to = s[m] % WordRange
         /\ \A k \in 1 .. m - 1 : /\ pc = "grace" => df[k].hold \subseteq gp
                                  /\ pc = "drain" => df[k].hold = {}

Busy(t, act) ==
    \E a \in Actors : /\ act[a].pc = "drain" /\ act[a].todo # << >>
                      /\ Head(act[a].todo).t = t

RingAt(t, d, df, act, gp, v, s) ==
    /\ DCut(d, df, v, s)
    /\ act[t].pc = "encode" => s[Len(df) + 1] + 3 <= v + DQSize
    /\ \A a \in Actors : \A j \in DOMAIN act[a].todo :
         act[a].todo[j].t = t => JobOk(act[a].todo[j], act[a].pc, df, s, gp)
    /\ s[1] = v \/ Busy(t, act)

RingOk(t, d, df, act, gp) ==
    \E v \in Nat, s \in Positions : RingAt(t, d, df, act, gp, v, s)

(* The jobs of act2 on the ring of t are jobs of act.                      *)
JobsKept(t, act, act2) ==
    \A a \in Actors : \A j \in DOMAIN act2[a].todo :
        act2[a].todo[j].t = t =>
            /\ act2[a].pc = act[a].pc
            /\ \E k \in DOMAIN act[a].todo : act[a].todo[k] = act2[a].todo[j]

LEMMA RingKeep ==
    ASSUME NEW t, NEW d, NEW e, NEW df \in Seq(Entry), NEW act, NEW act2, NEW gp,
           RingOk(t, d, df, act, gp),
           e.q = d.q \/ Len(df) = 0,
           e.head = d.head, e.tail = d.tail, e.fct_in = d.fct_in, e.fct_out = d.fct_out,
           act2[t].pc = "encode" => act[t].pc = "encode",
           JobsKept(t, act, act2), Busy(t, act) => Busy(t, act2)
    PROVE  RingOk(t, e, df, act2, gp)
<1>1. PICK v \in Nat, s \in Positions : RingAt(t, d, df, act, gp, v, s) BY DEF RingOk
<1>2. DCut(d, df, v, s) BY ONLY <1>1 DEF RingAt
<1>3. DCut(e, df, v, s)
  <2>1. Len(df) \in Nat OBVIOUS
  <2> QED BY <1>2, <2>1, DCutSame
<1>4. act2[t].pc = "encode" => s[Len(df) + 1] + 3 <= v + DQSize BY <1>1 DEF RingAt
<1>5. ASSUME NEW a \in Actors, NEW j \in DOMAIN act2[a].todo, act2[a].todo[j].t = t
      PROVE  JobOk(act2[a].todo[j], act2[a].pc, df, s, gp)
  <2>1. act2[a].pc = act[a].pc
        /\ \E k \in DOMAIN act[a].todo : act[a].todo[k] = act2[a].todo[j]
    BY <1>5 DEF JobsKept
  <2>2. PICK k \in DOMAIN act[a].todo : act[a].todo[k] = act2[a].todo[j] BY <2>1
  <2>3. JobOk(act[a].todo[k], act[a].pc, df, s, gp) BY <1>1, <1>5, <2>2 DEF RingAt
  <2> QED BY ONLY <2>1, <2>2, <2>3
<1>6. s[1] = v \/ Busy(t, act2) BY <1>1 DEF RingAt
<1>7. RingAt(t, e, df, act2, gp, v, s) BY ONLY <1>3, <1>4, <1>5, <1>6 DEF RingAt
<1> QED BY <1>7 DEF RingOk

(* A reader leaves.                                                        *)
LEMMA RingLeave ==
    ASSUME NEW t, NEW d, NEW df \in Seq(Entry), NEW dg \in Seq(Entry), NEW act,
           NEW gp, NEW r, RingOk(t, d, df, act, gp), Len(dg) = Len(df),
           \A k \in 1 .. Len(df) : /\ dg[k].f = df[k].f /\ dg[k].p = df[k].p
                                   /\ dg[k].hold = df[k].hold \ {r}
    PROVE  RingOk(t, d, dg, act, gp \ {r})
<1>0. Len(df) \in Nat OBVIOUS
<1>1. PICK v \in Nat, s \in Positions : RingAt(t, d, df, act, gp, v, s) BY DEF RingOk
<1>2. DCut(d, df, v, s) BY ONLY <1>1 DEF RingAt
<1>3. DCut(d, dg, v, s) BY <1>0, <1>2, DCutSame
<1>4. act[t].pc = "encode" => s[Len(dg) + 1] + 3 <= v + DQSize BY <1>1 DEF RingAt
<1>5. ASSUME NEW a \in Actors, NEW j \in DOMAIN act[a].todo, act[a].todo[j].t = t
      PROVE  JobOk(act[a].todo[j], act[a].pc, dg, s, gp \ {r})
  <2>1. JobOk(act[a].todo[j], act[a].pc, df, s, gp) BY ONLY <1>1, <1>5 DEF RingAt
  <2>2. PICK m \in 1 .. Len(df) + 1 :
          /\ act[a].todo[j].to = s[m] % WordRange
          /\ \A k \in 1 .. m - 1 : /\ act[a].pc = "grace" => df[k].hold \subseteq gp
                                   /\ act[a].pc = "drain" => df[k].hold = {}
    BY ONLY <2>1 DEF JobOk
  <2>3. \A k \in 1 .. m - 1 : k \in 1 .. Len(df) BY <1>0
  <2>4. \A k \in 1 .. m - 1 :
          /\ act[a].pc = "grace" => dg[k].hold \subseteq gp \ {r}
          /\ act[a].pc = "drain" => dg[k].hold = {}
    BY <2>2, <2>3
  <2>5. m \in 1 .. Len(dg) + 1 OBVIOUS
  <2>6. act[a].todo[j].i = s[1] % WordRange BY ONLY <2>1 DEF JobOk
  <2> QED BY ONLY <2>2, <2>4, <2>5, <2>6 DEF JobOk
<1>6. s[1] = v \/ Busy(t, act) BY <1>1 DEF RingAt
<1>7. RingAt(t, d, dg, act, gp \ {r}, v, s) BY ONLY <1>3, <1>4, <1>5, <1>6 DEF RingAt
<1> QED BY <1>7 DEF RingOk

(* The actor a that drains enters another phase of its drain.              *)
LEMMA RingPhase ==
    ASSUME NEW t, NEW d, NEW df \in Seq(Entry), NEW act, NEW act2, NEW gp, NEW gp2,
           NEW a \in Actors, RingOk(t, d, df, act, gp),
           \A b \in Actors : act2[b].todo = act[b].todo,
           \A b \in Actors \ {a} : act2[b].todo = << >> /\ act2[b].pc = act[b].pc,
           act2[t].pc = "encode" => act[t].pc = "encode", act[a].pc # "drain",
           \/ /\ act2[a].pc = "grace"
              /\ \A k \in 1 .. Len(df) : df[k].hold \subseteq gp2
           \/ act[a].pc = "grace" /\ act2[a].pc = "drain" /\ gp = {}
    PROVE  RingOk(t, d, df, act2, gp2)
<1>0. Len(df) \in Nat OBVIOUS
<1>1. PICK v \in Nat, s \in Positions : RingAt(t, d, df, act, gp, v, s) BY DEF RingOk
<1>2. DCut(d, df, v, s) BY ONLY <1>1 DEF RingAt
<1>3. act2[t].pc = "encode" => s[Len(df) + 1] + 3 <= v + DQSize BY <1>1 DEF RingAt
<1>4. ASSUME NEW b \in Actors, NEW j \in DOMAIN act2[b].todo, act2[b].todo[j].t = t
      PROVE  JobOk(act2[b].todo[j], act2[b].pc, df, s, gp2)
  <2>1. b = a
    <3>1. b # a => act2[b].todo = << >> OBVIOUS
    <3>2. DOMAIN << >> = {} OBVIOUS
    <3> QED BY <3>1, <3>2
  <2>2. PICK w : w = act2[b].todo[j] OBVIOUS
  <2>3. JobOk(w, act[a].pc, df, s, gp) BY <1>1, <1>4, <2>1, <2>2 DEF RingAt
  <2>4. PICK m \in 1 .. Len(df) + 1 :
          /\ w.to = s[m] % WordRange
          /\ \A k \in 1 .. m - 1 : /\ act[a].pc = "grace" => df[k].hold \subseteq gp
                                   /\ act[a].pc = "drain" => df[k].hold = {}
    BY ONLY <2>3 DEF JobOk
  <2>5. \A k \in 1 .. m - 1 : k \in 1 .. Len(df) BY <1>0
  <2>6. \A k \in 1 .. m - 1 :
          /\ act2[a].pc = "grace" => df[k].hold \subseteq gp2
          /\ act2[a].pc = "drain" => df[k].hold = {}
    BY <2>4, <2>5
  <2>7. w.i = s[1] % WordRange BY ONLY <2>3 DEF JobOk
  <2>8. JobOk(w, act2[a].pc, df, s, gp2) BY <2>4, <2>6, <2>7 DEF JobOk
  <2> QED BY ONLY <2>1, <2>2, <2>8
<1>5. s[1] = v
  <2>1. ~ Busy(t, act) BY DEF Busy
  <2> QED BY <1>1, <2>1 DEF RingAt
<1>6. RingAt(t, d, df, act2, gp2, v, s) BY ONLY <1>2, <1>3, <1>4, <1>5 DEF RingAt
<1> QED BY <1>6 DEF RingOk

(* The empty ring, and the ring without room, told by head and tail.       *)
LEMMA RingEmpty ==
    ASSUME NEW t, NEW d, NEW df \in Seq(Entry), NEW act, NEW gp,
           RingOk(t, d, df, act, gp), d.head = d.tail
    PROVE  df = << >>
<1>0. Len(df) \in Nat OBVIOUS
<1>1. PICK v \in Nat, s \in Positions : RingAt(t, d, df, act, gp, v, s) BY DEF RingOk
<1>2. DBounds(d, df, v, s) BY ONLY <1>1 DEF RingAt, DCut
<1>3. Len(df) + 1 \in 1 .. Len(df) + 1 BY <1>0
<1>4. /\ s[1] \in Nat /\ s[Len(df) + 1] \in Nat /\ v <= s[1] /\ s[1] <= s[Len(df) + 1]
      /\ s[Len(df) + 1] <= v + DQSize
      /\ Len(df) + 1 # 1 => s[1] < s[Len(df) + 1]
  BY <1>2, <1>3, DDistance
<1>5. PICK x \in Nat, h \in Nat : x = s[1] /\ h = s[Len(df) + 1] BY ONLY <1>4
<1>6. WordRange \in Nat /\ WordRange > 0 /\ DQSize \in Nat /\ DQSize < WordRange
  BY DeferAssumption
<1>7. v <= x /\ x <= h /\ h <= v + DQSize /\ (Len(df) + 1 # 1 => x < h)
  BY ONLY <1>4, <1>5
<1>8. h % WordRange = v % WordRange BY <1>2, <1>5 DEF DBounds
<1>9. h \in Int /\ v \in Int /\ h - v < WordRange /\ v - h < WordRange BY <1>6, <1>7
<1>10. h = v BY ONLY <1>6, <1>8, <1>9, DModApart
<1>11. Len(df) = 0 BY <1>0, <1>7, <1>10
<1> QED BY <1>11, EmptySeq

(* The number of words between tail and head.                              *)
LEMMA RingFill ==
    ASSUME NEW d, NEW df \in Seq(Entry), NEW v \in Nat, NEW s \in Positions,
           DCut(d, df, v, s)
    PROVE  /\ s[Len(df) + 1] \in Nat
           /\ minus(d.head, d.tail) = s[Len(df) + 1] - v
           /\ minus(d.head, d.tail) <= DQSize
           /\ minus(d.head, s[1] % WordRange) = s[Len(df) + 1] - s[1]
<1>0. Len(df) \in Nat OBVIOUS
<1>2. DBounds(d, df, v, s) BY DEF DCut
<1>3. Len(df) + 1 \in 1 .. Len(df) + 1 BY <1>0
<1>4. /\ s[1] \in Nat /\ s[Len(df) + 1] \in Nat /\ v <= s[1] /\ s[1] <= s[Len(df) + 1]
      /\ s[Len(df) + 1] <= v + DQSize
  BY <1>2, <1>3, DDistance
<1>5. PICK x \in Nat, h \in Nat : x = s[1] /\ h = s[Len(df) + 1] BY ONLY <1>4
<1>6. WordRange \in Nat /\ DQSize \in Nat /\ DQSize < WordRange BY DeferAssumption
<1>7. v <= x /\ x <= h /\ h <= v + DQSize BY ONLY <1>4, <1>5
<1>8. v <= h /\ h - v < WordRange /\ h - x < WordRange /\ h - v <= DQSize BY <1>6, <1>7
<1>9. d.head = h % WordRange /\ d.tail = v % WordRange BY <1>2, <1>5 DEF DBounds
<1>10. minus(h % WordRange, v % WordRange) = h - v BY <1>8, DMinus
<1>11. minus(h % WordRange, x % WordRange) = h - x BY <1>7, <1>8, DMinus
<1> QED BY ONLY <1>5, <1>8, <1>9, <1>10, <1>11

(* The owner of a ring with room for a callback goes on to store it.       *)
LEMMA RingRoom ==
    ASSUME NEW t, NEW d, NEW df \in Seq(Entry), NEW act, NEW act2, NEW gp,
           RingOk(t, d, df, act, gp), minus(d.head, d.tail) < DQSize - 2,
           \A a \in Actors : /\ act2[a].todo = act[a].todo
                             /\ act2[a].pc = act[a].pc \/ act[a].todo = << >>
    PROVE  RingOk(t, d, df, act2, gp)
<1>1. PICK v \in Nat, s \in Positions : RingAt(t, d, df, act, gp, v, s) BY DEF RingOk
<1>2. DCut(d, df, v, s) BY ONLY <1>1 DEF RingAt
<1>3. s[Len(df) + 1] + 3 <= v + DQSize
  <2>1. s[Len(df) + 1] \in Nat /\ minus(d.head, d.tail) = s[Len(df) + 1] - v
    BY <1>2, RingFill
  <2>2. PICK h \in Nat : h = s[Len(df) + 1] BY ONLY <2>1
  <2>3. h - v < DQSize - 2 BY <2>1, <2>2
  <2>4. h + 3 <= v + DQSize BY <2>3, DeferAssumption
  <2> QED BY ONLY <2>2, <2>4
<1>4. ASSUME NEW a \in Actors, NEW j \in DOMAIN act2[a].todo, act2[a].todo[j].t = t
      PROVE  JobOk(act2[a].todo[j], act2[a].pc, df, s, gp)
  <2>1. act2[a].todo = act[a].todo /\ act2[a].pc = act[a].pc BY <1>4
  <2> QED BY <1>1, <1>4, <2>1 DEF RingAt
<1>5. Busy(t, act) => Busy(t, act2) BY DEF Busy
<1>6. s[1] = v \/ Busy(t, act2) BY <1>1, <1>5 DEF RingAt
<1>7. RingAt(t, d, df, act2, gp, v, s) BY ONLY <1>2, <1>3, <1>4, <1>6 DEF RingAt
<1> QED BY <1>7 DEF RingOk

(* Jobs are made when nobody drains.                                       *)
LEMMA RingJob ==
    ASSUME NEW t, NEW d, NEW e, NEW df \in Seq(Entry), NEW act, NEW act2, NEW gp,
           RingOk(t, d, df, act, gp), e.q = d.q, e.head = d.head, e.tail = d.tail,
           e.fct_in = d.fct_in, e.fct_out = d.fct_out,
           \A a \in Actors : act[a].todo = << >>,
           act2[t].pc = "encode" => act[t].pc = "encode",
           \A a \in Actors : \A j \in DOMAIN act2[a].todo :
              act2[a].todo[j].t = t => /\ act2[a].todo[j].i = d.tail
                                       /\ act2[a].todo[j].to = d.head
                                       /\ act2[a].pc = "synchronize"
    PROVE  RingOk(t, e, df, act2, gp)
<1>0. Len(df) \in Nat OBVIOUS
<1>1. PICK v \in Nat, s \in Positions : RingAt(t, d, df, act, gp, v, s) BY DEF RingOk
<1>2. DCut(d, df, v, s) BY ONLY <1>1 DEF RingAt
<1>3. DCut(e, df, v, s) BY <1>0, <1>2, DCutSame
<1>4. act2[t].pc = "encode" => s[Len(df) + 1] + 3 <= v + DQSize BY <1>1 DEF RingAt
<1>5. s[1] = v
  <2>1. ~ Busy(t, act) BY DEF Busy
  <2> QED BY <1>1, <2>1 DEF RingAt
<1>6. ASSUME NEW a \in Actors, NEW j \in DOMAIN act2[a].todo, act2[a].todo[j].t = t
      PROVE  JobOk(act2[a].todo[j], act2[a].pc, df, s, gp)
  <2>1. d.tail = s[1] % WordRange /\ d.head = s[Len(df) + 1] % WordRange
    BY <1>2, <1>5 DEF DCut, DBounds
  <2>2. /\ act2[a].todo[j].i = d.tail /\ act2[a].todo[j].to = d.head
        /\ act2[a].pc = "synchronize"
    BY <1>6
  <2>3. Len(df) + 1 \in 1 .. Len(df) + 1 BY <1>0
  <2> QED BY ONLY <2>1, <2>2, <2>3 DEF JobOk
<1>7. RingAt(t, e, df, act2, gp, v, s) BY ONLY <1>3, <1>4, <1>5, <1>6 DEF RingAt
<1> QED BY <1>7 DEF RingOk

(* A callback is stored.                                                   *)
Stores(t, d, df, act, act2, gp, en, ws, e) ==
    /\ RingOk(t, d, df, act, gp)
    /\ act[t].pc = "encode" /\ act2[t].pc # "encode"
    /\ \A a \in Actors : /\ act2[a].todo = act[a].todo
                         /\ act2[a].pc = act[a].pc \/ act[a].todo = << >>
    /\ ws = Encode(d.fct_in, en.f, en.p)
    /\ e.tail = d.tail /\ e.fct_in = en.f /\ e.fct_out = d.fct_out
    /\ e.head = plus(d.head, Len(ws)) /\ e.q = Stored(d, ws)

LEMMA RingStore ==
    ASSUME NEW t, NEW d \in RingType, NEW df \in Seq(Entry), NEW act, NEW act2, NEW gp,
           NEW en \in Entry, NEW ws, NEW e \in RingType,
           Stores(t, d, df, act, act2, gp, en, ws, e)
    PROVE  RingOk(t, e, Append(df, en), act2, gp)
<1>a. /\ RingOk(t, d, df, act, gp)
      /\ act[t].pc = "encode" /\ act2[t].pc # "encode"
      /\ \A a \in Actors : /\ act2[a].todo = act[a].todo
                           /\ act2[a].pc = act[a].pc \/ act[a].todo = << >>
      /\ ws = Encode(d.fct_in, en.f, en.p)
      /\ e.tail = d.tail /\ e.fct_in = en.f /\ e.fct_out = d.fct_out
      /\ e.head = plus(d.head, Len(ws)) /\ e.q = Stored(d, ws)
  BY ONLY Stores(t, d, df, act, act2, gp, en, ws, e) DEF Stores
<1> USE <1>a
<1>0. Len(df) \in Nat OBVIOUS
<1>1. PICK v \in Nat, s \in Positions : RingAt(t, d, df, act, gp, v, s) BY DEF RingOk
<1>2. DCut(d, df, v, s) BY ONLY <1>1 DEF RingAt
<1>3. s[Len(df) + 1] + 3 <= v + DQSize BY <1>1 DEF RingAt
<1> DEFINE r == [s EXCEPT ![Len(df) + 2] = s[Len(df) + 1] + Len(ws)]
           dg == Append(df, en)
<1>4. DCut(e, dg, v, r) BY <1>2, <1>3, DCutStore
<1>5. r \in Positions
  <2>1. Len(ws) \in Nat BY DEncodeType DEF RingType, Entry
  <2>2. PICK h \in Nat : h = s[Len(df) + 1]
    <3>1. Len(df) + 1 \in Nat BY <1>0
    <3> QED BY <3>1, DPosition
  <2>3. s[Len(df) + 1] + Len(ws) \in Nat BY <2>1, <2>2
  <2> QED BY <2>3 DEF Positions
<1>6. \A k \in 1 .. Len(df) + 1 : r[k] = s[k]
  <2>1. \A k \in 1 .. Len(df) + 1 : k \in Nat /\ k # Len(df) + 2 BY <1>0
  <2>2. DOMAIN s = Nat BY DEF Positions
  <2> QED BY <2>1, <2>2
<1>7. Len(dg) = Len(df) + 1 /\ \A k \in 1 .. Len(df) : dg[k] = df[k] OBVIOUS
<1> HIDE DEF r, dg
<1>8. r[1] = s[1]
  <2>1. 1 \in 1 .. Len(df) + 1 BY <1>0
  <2> QED BY <1>6, <2>1
<1>9. ASSUME NEW a \in Actors, NEW j \in DOMAIN act2[a].todo, act2[a].todo[j].t = t
      PROVE  JobOk(act2[a].todo[j], act2[a].pc, dg, r, gp)
  <2>1. PICK w : w = act2[a].todo[j] OBVIOUS
  <2>2. act2[a].todo = act[a].todo /\ act2[a].pc = act[a].pc BY <1>9
  <2>3. JobOk(w, act[a].pc, df, s, gp) BY <1>1, <1>9, <2>1, <2>2 DEF RingAt
  <2>4. PICK m \in 1 .. Len(df) + 1 :
          /\ w.to = s[m] % WordRange
          /\ \A k \in 1 .. m - 1 : /\ act[a].pc = "grace" => df[k].hold \subseteq gp
                                   /\ act[a].pc = "drain" => df[k].hold = {}
    BY ONLY <2>3 DEF JobOk
  <2>5. \A k \in 1 .. m - 1 : k \in 1 .. Len(df) BY <1>0
  <2>6. m \in 1 .. Len(dg) + 1 BY <1>0, <1>7
  <2>7. w.to = r[m] % WordRange BY <2>4, <1>6
  <2>8. w.i = r[1] % WordRange BY <2>3, <1>8 DEF JobOk
  <2>9. \A k \in 1 .. m - 1 : /\ act[a].pc = "grace" => dg[k].hold \subseteq gp
                              /\ act[a].pc = "drain" => dg[k].hold = {}
    BY ONLY <2>4, <2>5, <1>7
  <2>10. JobOk(w, act[a].pc, dg, r, gp) BY ONLY <2>6, <2>7, <2>8, <2>9 DEF JobOk
  <2> QED BY ONLY <2>1, <2>2, <2>10
<1>10. Busy(t, act) => Busy(t, act2) BY DEF Busy
<1>11. r[1] = v \/ Busy(t, act2) BY <1>1, <1>8, <1>10 DEF RingAt
<1>12. RingAt(t, e, dg, act2, gp, v, r) BY ONLY <1>4, <1>9, <1>11, act2[t].pc # "encode" DEF RingAt
<1> QED BY <1>5, <1>12 DEF RingOk, dg

(* The drain at the head of a's list moves over a callback.                *)
Advances(t, d, df, act, act2, gp, a, w, c, e) ==
    /\ RingOk(t, d, df, act, gp)
    /\ act[a].todo # << >> /\ act[a].todo \in Seq(Job) /\ w = act[a].todo[1]
    /\ w.t = t /\ w.i # w.to /\ act[a].pc = "drain" /\ c = Decode(d, w.i)
    /\ act2[a].pc = "drain" /\ (act2[t].pc = "encode" => act[t].pc = "encode")
    /\ act2[a].todo # << >> /\ Head(act2[a].todo).t = t
    /\ act2[a].todo[1].i = plus(w.i, c.n) /\ act2[a].todo[1].to = w.to
    /\ \A j \in DOMAIN act2[a].todo : act2[a].todo[j].t = t => j = 1
    /\ \A b \in Actors \ {a} : act2[b].todo = << >>
    /\ e.q = d.q /\ e.head = d.head /\ e.tail = d.tail /\ e.fct_in = d.fct_in
    /\ e.fct_out = c.f

LEMMA RingAdvance ==
    ASSUME NEW t, NEW d \in RingType, NEW df \in Seq(Entry), NEW act, NEW act2, NEW gp,
           NEW a \in Actors, NEW w, NEW c, NEW e,
           Advances(t, d, df, act, act2, gp, a, w, c, e)
    PROVE  /\ df # << >> /\ df[1].hold = {} /\ c.f = df[1].f
           /\ RingOk(t, e, Tail(df), act2, gp)
<1>a. /\ RingOk(t, d, df, act, gp)
      /\ act[a].todo # << >> /\ act[a].todo \in Seq(Job) /\ w = act[a].todo[1]
      /\ w.t = t /\ w.i # w.to /\ act[a].pc = "drain" /\ c = Decode(d, w.i)
      /\ act2[a].pc = "drain" /\ (act2[t].pc = "encode" => act[t].pc = "encode")
      /\ act2[a].todo # << >> /\ Head(act2[a].todo).t = t
      /\ act2[a].todo[1].i = plus(w.i, c.n) /\ act2[a].todo[1].to = w.to
      /\ \A j \in DOMAIN act2[a].todo : act2[a].todo[j].t = t => j = 1
      /\ \A b \in Actors \ {a} : act2[b].todo = << >>
      /\ e.q = d.q /\ e.head = d.head /\ e.tail = d.tail /\ e.fct_in = d.fct_in
      /\ e.fct_out = c.f
  BY ONLY Advances(t, d, df, act, act2, gp, a, w, c, e) DEF Advances
<1> USE <1>a
<1>0. Len(df) \in Nat OBVIOUS
<1>1. PICK v \in Nat, s \in Positions : RingAt(t, d, df, act, gp, v, s) BY DEF RingOk
<1>2. DCut(d, df, v, s) BY ONLY <1>1 DEF RingAt
<1>3. JobOk(w, "drain", df, s, gp)
  <2>1. 1 \in DOMAIN act[a].todo BY EmptySeq
  <2>2. act[a].todo[1].t = t OBVIOUS
  <2>3. JobOk(act[a].todo[1], act[a].pc, df, s, gp) BY ONLY <1>1, <2>1, <2>2, a \in Actors DEF RingAt
  <2> QED BY ONLY <2>3, w = act[a].todo[1], act[a].pc = "drain"
<1>4. PICK m \in 1 .. Len(df) + 1 : /\ w.to = s[m] % WordRange
                                   /\ \A k \in 1 .. m - 1 : df[k].hold = {}
  BY ONLY <1>3 DEF JobOk
<1>5. w.i = s[1] % WordRange BY ONLY <1>3 DEF JobOk
<1>6. m # 1
  BY <1>4, <1>5
<1>7. 1 \in 1 .. m - 1 /\ Len(df) # 0 /\ m - 1 \in 1 .. Len(df) /\ (m - 1) + 1 = m
  BY <1>0, <1>6
<1>8. df # << >> /\ df[1].hold = {} BY <1>4, <1>7
<1> DEFINE r == Shifted(s)
           dg == Tail(df)
<1>9. c = Decode(d, s[1] % WordRange) BY ONLY <1>5, c = Decode(d, w.i)
<1>10. /\ c.f = df[1].f
       /\ plus(s[1] % WordRange, c.n) = s[2] % WordRange
       /\ DCut(e, dg, v, r)
  BY <1>2, <1>8, <1>9, DCutAdvance
<1>11. r \in Positions BY DShift
<1>13. Len(dg) = Len(df) - 1 /\ Len(dg) \in Nat /\ \A k \in 1 .. Len(df) - 1 : dg[k] = df[k + 1]
  BY <1>0, <1>7
<1>14. \A k \in Nat : r[k] = s[k + 1] BY DEF Shifted
<1> HIDE DEF r, dg
<1>16. r[1] = s[2] /\ r[m - 1] = s[m] /\ r[Len(dg) + 1] = s[Len(df) + 1]
  <2>1. 1 \in Nat /\ m - 1 \in Nat /\ Len(dg) + 1 \in Nat BY <1>0, <1>7, <1>13
  <2>2. 1 + 1 = 2 /\ (m - 1) + 1 = m /\ (Len(dg) + 1) + 1 = Len(df) + 1 BY <1>0, <1>7, <1>13
  <2>3. r[1] = s[1 + 1] BY ONLY <2>1, <1>14
  <2>4. r[m - 1] = s[(m - 1) + 1] BY ONLY <2>1, <1>14
  <2>5. r[Len(dg) + 1] = s[(Len(dg) + 1) + 1] BY ONLY <2>1, <1>14
  <2> QED BY ONLY <2>2, <2>3, <2>4, <2>5
<1>17. act2[t].pc = "encode" => r[Len(dg) + 1] + 3 <= v + DQSize
  <2>1. act2[t].pc = "encode" => s[Len(df) + 1] + 3 <= v + DQSize BY <1>1 DEF RingAt
  <2> QED BY ONLY <2>1, <1>16
<1>18. ASSUME NEW b \in Actors, NEW j \in DOMAIN act2[b].todo, act2[b].todo[j].t = t
       PROVE  JobOk(act2[b].todo[j], act2[b].pc, dg, r, gp)
  <2>1. b = a
    <3>1. b # a => act2[b].todo = << >> OBVIOUS
    <3>2. DOMAIN << >> = {} OBVIOUS
    <3> QED BY <3>1, <3>2
  <2>2. j = 1 BY <1>18, <2>1
  <2>3. PICK x : x = act2[b].todo[j] OBVIOUS
  <2>4. x.i = r[1] % WordRange /\ x.to = r[m - 1] % WordRange
    BY <2>1, <2>2, <2>3, <1>4, <1>5, <1>10, <1>16
  <2>5. \A k \in 1 .. (m - 1) - 1 : dg[k].hold = {}
    <3>1. \A k \in 1 .. (m - 1) - 1 : k \in 1 .. Len(df) - 1 /\ k + 1 \in 1 .. m - 1
      BY <1>0
    <3> QED BY ONLY <3>1, <1>4, <1>13
  <2>6. m - 1 \in 1 .. Len(dg) + 1 BY <1>0, <1>7, <1>13
  <2>7. JobOk(x, "drain", dg, r, gp) BY ONLY <2>4, <2>5, <2>6 DEF JobOk
  <2> QED BY <2>1, <2>3, <2>7
<1>19. Busy(t, act2) BY DEF Busy
<1>20. RingAt(t, e, dg, act2, gp, v, r) BY ONLY <1>10, <1>17, <1>18, <1>19 DEF RingAt
<1>21. RingOk(t, e, dg, act2, gp) BY <1>11, <1>20 DEF RingOk
<1> QED BY <1>8, <1>10, <1>21 DEF dg

(* The drain is at its end: the tail follows.                              *)
Finishes(t, d, df, act, act2, gp, a, w, e) ==
    /\ RingOk(t, d, df, act, gp)
    /\ act[a].todo # << >> /\ act[a].todo \in Seq(Job) /\ w = act[a].todo[1]
    /\ w.t = t /\ w.i = w.to /\ act[a].pc = "drain"
    /\ act2[t].pc = "encode" => act[t].pc = "encode"
    /\ \A b \in Actors : \A j \in DOMAIN act2[b].todo : act2[b].todo[j].t # t
    /\ e.q = Cleared(d, w.i) /\ e.head = d.head /\ e.tail = w.i
    /\ e.fct_in = d.fct_in /\ e.fct_out = d.fct_out

LEMMA RingFinish ==
    ASSUME NEW t, NEW d \in RingType, NEW df \in Seq(Entry), NEW act, NEW act2, NEW gp,
           NEW a \in Actors, NEW w, NEW e \in RingType,
           Finishes(t, d, df, act, act2, gp, a, w, e)
    PROVE  RingOk(t, e, df, act2, gp)
<1>a. /\ RingOk(t, d, df, act, gp)
      /\ act[a].todo # << >> /\ act[a].todo \in Seq(Job) /\ w = act[a].todo[1]
      /\ w.t = t /\ w.i = w.to /\ act[a].pc = "drain"
      /\ act2[t].pc = "encode" => act[t].pc = "encode"
      /\ \A b \in Actors : \A j \in DOMAIN act2[b].todo : act2[b].todo[j].t # t
      /\ e.q = Cleared(d, w.i) /\ e.head = d.head /\ e.tail = w.i
      /\ e.fct_in = d.fct_in /\ e.fct_out = d.fct_out
  BY ONLY Finishes(t, d, df, act, act2, gp, a, w, e) DEF Finishes
<1> USE <1>a
<1>0. Len(df) \in Nat OBVIOUS
<1>1. PICK v \in Nat, s \in Positions : RingAt(t, d, df, act, gp, v, s) BY DEF RingOk
<1>2. DCut(d, df, v, s) BY ONLY <1>1 DEF RingAt
<1>3. JobOk(w, "drain", df, s, gp)
  <2>1. 1 \in DOMAIN act[a].todo BY EmptySeq
  <2>2. act[a].todo[1].t = t OBVIOUS
  <2>3. JobOk(act[a].todo[1], act[a].pc, df, s, gp) BY ONLY <1>1, <2>1, <2>2, a \in Actors DEF RingAt
  <2> QED BY ONLY <2>3, w = act[a].todo[1], act[a].pc = "drain"
<1>5. w.i = s[1] % WordRange BY ONLY <1>3 DEF JobOk
<1>6. DCut(e, df, s[1], s)
  <2>1. e.q = Cleared(d, s[1] % WordRange) /\ e.tail = s[1] % WordRange BY <1>5
  <2> QED BY <1>2, <2>1, DCutFinish
<1>7. s[1] \in Nat BY DPosition
<1>8. act2[t].pc = "encode" => s[Len(df) + 1] + 3 <= s[1] + DQSize
  <2>1. act2[t].pc = "encode" => s[Len(df) + 1] + 3 <= v + DQSize BY <1>1 DEF RingAt
  <2>2. v <= s[1] BY ONLY <1>2 DEF DCut, DBounds
  <2>3. s[Len(df) + 1] \in Nat BY <1>2, RingFill
  <2>4. PICK h \in Nat, x \in Nat : h = s[Len(df) + 1] /\ x = s[1] BY ONLY <1>7, <2>3
  <2>5. h + 3 <= v + DQSize /\ v <= x => h + 3 <= x + DQSize BY DeferAssumption
  <2> QED BY ONLY <2>1, <2>2, <2>4, <2>5
<1>9. RingAt(t, e, df, act2, gp, s[1], s) BY <1>6, <1>8 DEF RingAt
<1> QED BY <1>7, <1>9 DEF RingOk

-----------------------------------------------------------------------------
(***************************************************************************)
(* The inductive invariant.                                                *)
(***************************************************************************)

PCs == {"idle", "encode", "wake", "wake_set", "wake_futex", "barrier", "barrier_thread",
        "synchronize", "grace", "drain", "register", "register_add", "unregister",
        "unregister_del", "unregister_free", "join", "none", "dec", "stop_test", "count",
        "disarm", "test", "futex_wait", "asleep"}
ActorType == [pc : PCs, ret : PCs, todo : Seq(Job), cb : DCallbacks \cup {<< >>}]

DTypes ==
    /\ dq \in [DThreads -> RingType]
    /\ registry_defer \in Seq(DThreads)
    /\ dact \in [Actors -> ActorType]
    /\ dcs \in SUBSET DReaders
    /\ dgp \in SUBSET DReaders
    /\ deferred \in [DThreads -> Seq(Entry)]

Phases == {"synchronize", "grace", "drain"}

(* Rings are drained under rcu_defer_mutex, each once.                     *)
DMutex ==
    \A a \in Actors :
        /\ dact[a].pc \in Phases => rcu_defer_mutex = a
        /\ dact[a].pc \notin Phases => dact[a].todo = << >>
        /\ \A j, k \in DOMAIN dact[a].todo :
              dact[a].todo[j].t = dact[a].todo[k].t => j = k

DRegistry ==
    \A j, k \in DOMAIN registry_defer : registry_defer[j] = registry_defer[k] => j = k

(* Where a thread is in its calls, and whether it is registered then.      *)
DControl(t) ==
    /\ dact[t].pc = "encode" => dact[t].ret = "encode"
    /\ dact[t].pc = "barrier" => dact[t].ret = "idle"
    /\ dact[t].pc = "barrier_thread" => dact[t].ret \in {"idle", "encode"}
    /\ dact[t].pc \in Phases => dact[t].ret \in {"idle", "encode", "unregister_free"}
    /\ dact[t].pc \in {"wake", "wake_set", "wake_futex"} => dact[t].ret \in {"idle", "join"}
    /\ dact[t].pc \in {"encode", "barrier_thread"} \cup Phases /\ dact[t].ret = "encode"
         => dact[t].cb \in DCallbacks
    /\ dact[t].pc \in {"encode", "barrier", "barrier_thread"} => t \in Range(registry_defer)
    /\ dact[t].pc \in Phases =>
         t \in Range(registry_defer) \/ dact[t].ret = "unregister_free"
    /\ dact[t].pc \in {"register", "register_add"} => t \notin Range(registry_defer)
    /\ dact[t].pc \in Phases /\ dact[t].ret = "unregister_free" => t \notin Range(registry_defer)
    /\ dact[t].pc = "unregister_free" => t \notin Range(registry_defer)

DReclaimer == dact["thr_defer"].ret \in {"idle", "dec"}

(* A thread that empties its own ring empties it up to the head.           *)
DOwn(t) ==
    dact[t].pc \in Phases /\ dact[t].ret \in {"encode", "unregister_free"} =>
        IF dact[t].todo = << >> THEN dq[t].head = dq[t].tail
        ELSE /\ Len(dact[t].todo) = 1
             /\ dact[t].todo[1].t = t
             /\ dact[t].todo[1].to = dq[t].head

(* Who is not registered has no callbacks left.                            *)
DGone(t) ==
    /\ t \notin Range(registry_defer) /\ dact[t].pc \notin Phases => deferred[t] = << >>
    /\ dact[t].pc = "unregister_free" => deferred[t] = << >>
    /\ dq[t].q = << >> => deferred[t] = << >> /\ t \notin Range(registry_defer)

(* A callback waits for readers that have not left.                        *)
DHolds == \A t \in DThreads : \A k \in 1 .. Len(deferred[t]) : deferred[t][k].hold \subseteq dcs

DRing(t) == RingOk(t, dq[t], deferred[t], dact, dgp)

DThread(t) == DControl(t) /\ DOwn(t) /\ DGone(t) /\ DRing(t)

DInv ==
    /\ DTypes /\ DMutex /\ DRegistry /\ DReclaimer /\ DHolds
    /\ \A t \in DThreads : DThread(t)

(***************************************************************************)
(* Steps that leave the rings and the drains alone.                        *)
(***************************************************************************)

SameRing(d, e) ==
    /\ e.q = d.q /\ e.head = d.head /\ e.tail = d.tail
    /\ e.fct_in = d.fct_in /\ e.fct_out = d.fct_out

(* Thread t goes where its ring allows it to go.                           *)
MayGo(t) ==
    /\ DControl(t)'
    /\ dact'[t].pc = "encode" => minus(dq[t].head, dq[t].tail) < DQSize - 2
    /\ \/ deferred[t] = << >>
       \/ /\ dact[t].pc \notin Phases \/ t \in Range(registry_defer)
          /\ dact'[t].pc # "unregister_free"

LEMMA DMove ==
    ASSUME DInv, dact' \in [Actors -> ActorType],
           \A a \in Actors : /\ dact'[a].todo = dact[a].todo
                             /\ \/ dact'[a] = dact[a]
                                \/ dact[a].todo = << >> /\ dact'[a].pc \notin Phases
                             /\ dact'[a].pc \in Phases => rcu_defer_mutex' = a,
           \A t \in DThreads : dact'[t] = dact[t] \/ MayGo(t),
           DReclaimer', dq' \in [DThreads -> RingType],
           \A t \in DThreads : SameRing(dq[t], dq'[t]),
           registry_defer' = registry_defer, dgp' = dgp, deferred' = deferred,
           dcs \subseteq dcs', dcs' \in SUBSET DReaders
    PROVE  DInv'
<1>1. DTypes' BY DEF DInv, DTypes
<1>2. DMutex'
  <2> SUFFICES ASSUME NEW a \in Actors
               PROVE  /\ dact'[a].pc \in Phases => rcu_defer_mutex' = a
                      /\ dact'[a].pc \notin Phases => dact'[a].todo = << >>
                      /\ \A j, k \in DOMAIN dact'[a].todo :
                            dact'[a].todo[j].t = dact'[a].todo[k].t => j = k
    BY DEF DMutex
  <2>1. /\ dact[a].pc \notin Phases => dact[a].todo = << >>
        /\ \A j, k \in DOMAIN dact[a].todo :
              dact[a].todo[j].t = dact[a].todo[k].t => j = k
    BY DEF DInv, DMutex
  <2>2. /\ dact'[a].todo = dact[a].todo
        /\ dact'[a] = dact[a] \/ dact[a].todo = << >>
        /\ dact'[a].pc \in Phases => rcu_defer_mutex' = a
    OBVIOUS
  <2> QED BY ONLY <2>1, <2>2
<1>3. DRegistry' BY DEF DInv, DRegistry
<1>4. DHolds'
  <2>1. \A t \in DThreads : \A k \in 1 .. Len(deferred[t]) : deferred[t][k].hold \subseteq dcs
    BY DEF DInv, DHolds
  <2>2. deferred' = deferred /\ dcs \subseteq dcs' OBVIOUS
  <2> QED BY ONLY <2>1, <2>2 DEF DHolds
<1>5. ASSUME NEW t \in DThreads PROVE DThread(t)'
  <2>0. DThread(t) /\ t \in Actors BY DEF DInv, Actors
  <2>1. SameRing(dq[t], dq'[t]) OBVIOUS
  <2>2. deferred[t] \in Seq(Entry) BY DEF DInv, DTypes
  <2>3. \A a \in Actors : /\ dact'[a].todo = dact[a].todo
                          /\ dact'[a] = dact[a] \/ dact[a].todo = << >>
    OBVIOUS
  <2>4. Busy(t, dact) => Busy(t, dact')
    <3>1. \A a \in Actors : dact[a].todo # << >> => dact'[a] = dact[a] BY ONLY <2>3
    <3> QED BY ONLY <3>1 DEF Busy
  <2>5. \A a \in Actors : \A j \in DOMAIN dact'[a].todo :
              /\ dact'[a].pc = dact[a].pc
              /\ j \in DOMAIN dact[a].todo /\ dact[a].todo[j] = dact'[a].todo[j]
    <3> SUFFICES ASSUME NEW a \in Actors, NEW j \in DOMAIN dact'[a].todo
                 PROVE  /\ dact'[a].pc = dact[a].pc
                        /\ j \in DOMAIN dact[a].todo /\ dact[a].todo[j] = dact'[a].todo[j]
      OBVIOUS
    <3>1. dact'[a].todo = dact[a].todo /\ (dact'[a] = dact[a] \/ dact[a].todo = << >>)
      BY <2>3, Zenon
    <3>2. DOMAIN << >> = {} OBVIOUS
    <3> QED BY ONLY <3>1, <3>2, j \in DOMAIN dact'[a].todo
  <2>6. RingOk(t, dq[t], deferred[t], dact, dgp) BY ONLY <2>0 DEF DThread, DRing
  <2>7. dact'[t].pc # "encode" \/ dact'[t] = dact[t] => RingOk(t, dq'[t], deferred[t], dact', dgp)
    <3>1. PICK d, e, df, ac, ad : d = dq[t] /\ e = dq'[t] /\ df = deferred[t] /\ ac = dact /\ ad = dact'
      OBVIOUS
    <3>2. SUFFICES ASSUME dact'[t].pc # "encode" \/ dact'[t] = dact[t]
                   PROVE  RingOk(t, dq'[t], deferred[t], dact', dgp)
      OBVIOUS
    <3>3. /\ df \in Seq(Entry) /\ RingOk(t, d, df, ac, dgp)
          /\ ad[t].pc = "encode" => ac[t].pc = "encode"
      BY ONLY <2>2, <2>6, <3>1, <3>2
    <3>4. /\ e.q = d.q /\ e.head = d.head /\ e.tail = d.tail
          /\ e.fct_in = d.fct_in /\ e.fct_out = d.fct_out
      BY ONLY <2>1, <3>1 DEF SameRing
    <3>5. JobsKept(t, ac, ad) BY ONLY <2>5, <3>1 DEF JobsKept
    <3>6. Busy(t, ac) => Busy(t, ad) BY ONLY <2>4, <3>1
    <3>7. RingOk(t, e, df, ad, dgp) BY ONLY <3>3, <3>4, <3>5, <3>6, RingKeep
    <3> QED BY ONLY <3>1, <3>7
  <2>8. RingOk(t, dq'[t], deferred[t], dact', dgp)
    <3>1. CASE dact'[t].pc # "encode" \/ dact'[t] = dact[t] BY ONLY <3>1, <2>7
    <3>2. CASE dact'[t].pc = "encode" /\ dact'[t] # dact[t]
      <4>1. MayGo(t) BY <3>2
      <4>2. minus(dq[t].head, dq[t].tail) < DQSize - 2 BY ONLY <3>2, <4>1 DEF MayGo
      <4>3. PICK d, e, df, ac, ad : d = dq[t] /\ e = dq'[t] /\ df = deferred[t] /\ ac = dact /\ ad = dact'
        OBVIOUS
      <4>4. df \in Seq(Entry) /\ RingOk(t, d, df, ac, dgp) BY ONLY <2>2, <2>6, <4>3
      <4>5. \A a \in Actors : /\ ad[a].todo = ac[a].todo
                              /\ ad[a].pc = ac[a].pc \/ ac[a].todo = << >>
        <5> SUFFICES ASSUME NEW a \in Actors
                     PROVE  /\ ad[a].todo = ac[a].todo
                            /\ ad[a].pc = ac[a].pc \/ ac[a].todo = << >>
          OBVIOUS
        <5>1. /\ dact'[a].todo = dact[a].todo
              /\ dact'[a] = dact[a] \/ dact[a].todo = << >>
          BY <2>3, Zenon
        <5>2. dact'[a] = dact[a] => dact'[a].pc = dact[a].pc OBVIOUS
        <5> QED BY ONLY <5>1, <5>2, <4>3
      <4>6. minus(d.head, d.tail) < DQSize - 2 BY ONLY <4>2, <4>3
      <4>7. RingOk(t, d, df, ad, dgp) BY ONLY <4>4, <4>5, <4>6, RingRoom
      <4>8. /\ e.q = d.q /\ e.head = d.head /\ e.tail = d.tail
            /\ e.fct_in = d.fct_in /\ e.fct_out = d.fct_out
        BY ONLY <2>1, <4>3 DEF SameRing
      <4>9. JobsKept(t, ad, ad) BY ONLY TRUE DEF JobsKept
      <4>10. RingOk(t, e, df, ad, dgp) BY ONLY <4>4, <4>7, <4>8, <4>9, RingKeep
      <4> QED BY ONLY <4>3, <4>10
    <3> QED BY <3>1, <3>2
  <2>9. DRing(t)' 
    <3>1. dgp' = dgp /\ deferred' = deferred OBVIOUS
    <3> QED BY ONLY <2>8, <3>1 DEF DRing
  <2>10. DControl(t)'
    <3>1. dact'[t] = dact[t] => DControl(t)'
      <4>1. DControl(t) BY ONLY <2>0 DEF DThread
      <4>2. registry_defer' = registry_defer OBVIOUS
      <4> QED BY ONLY <4>1, <4>2 DEF DControl
    <3> QED BY <3>1 DEF MayGo
  <2>11. DOwn(t)'
    <3>1. dq'[t].head = dq[t].head /\ dq'[t].tail = dq[t].tail BY ONLY <2>1 DEF SameRing
    <3>2. DOwn(t) BY ONLY <2>0 DEF DThread
    <3>3. dact'[t].pc \in Phases => dact'[t] = dact[t] BY <2>0
    <3> QED BY ONLY <3>1, <3>2, <3>3 DEF DOwn
  <2>12. DGone(t)'
    <3>1. DGone(t) BY ONLY <2>0 DEF DThread
    <3>2. dq'[t].q = dq[t].q BY ONLY <2>1 DEF SameRing
    <3>3. \/ dact'[t] = dact[t] \/ deferred[t] = << >>
          \/ /\ dact[t].pc \notin Phases \/ t \in Range(registry_defer)
             /\ dact'[t].pc # "unregister_free"
      BY DEF MayGo
    <3>4. deferred' = deferred /\ registry_defer' = registry_defer OBVIOUS
    <3> QED BY ONLY <3>1, <3>2, <3>3, <3>4 DEF DGone
  <2> QED BY <2>9, <2>10, <2>11, <2>12 DEF DThread
<1> QED BY <1>1, <1>2, <1>3, <1>4, <1>5 DEF DInv

(* What dgo() and dcall() do.                                              *)
LEMMA DGoes ==
    ASSUME DTypes, NEW a \in Actors, NEW pc \in PCs, dgo(a, pc)
    PROVE  /\ dact' \in [Actors -> ActorType]
           /\ \A b \in Actors \ {a} : dact'[b] = dact[b]
           /\ dact'[a].pc = pc /\ dact'[a].ret = dact[a].ret
           /\ dact'[a].todo = dact[a].todo /\ dact'[a].cb = dact[a].cb
<1>1. dact \in [Actors -> ActorType] BY DEF DTypes
<1>2. dact' = [dact EXCEPT ![a] = [dact[a] EXCEPT !.pc = pc]] BY DEF dgo
<1>3. PICK y \in ActorType : y = dact[a] BY <1>1
<1>4. PICK z : z = [y EXCEPT !.pc = pc] OBVIOUS
<1>5. z \in ActorType /\ z.pc = pc /\ z.ret = y.ret /\ z.todo = y.todo /\ z.cb = y.cb
  BY <1>4 DEF ActorType
<1>6. dact' = [dact EXCEPT ![a] = z] BY ONLY <1>2, <1>3, <1>4
<1>7. dact' \in [Actors -> ActorType] /\ dact'[a] = z /\ \A b \in Actors \ {a} : dact'[b] = dact[b]
  BY <1>1, <1>5, <1>6
<1> QED BY ONLY <1>3, <1>5, <1>7

LEMMA DCalls ==
    ASSUME DTypes, NEW a \in Actors, NEW pc \in PCs, NEW ret \in PCs, dcall(a, pc, ret)
    PROVE  /\ dact' \in [Actors -> ActorType]
           /\ \A b \in Actors \ {a} : dact'[b] = dact[b]
           /\ dact'[a].pc = pc /\ dact'[a].ret = ret
           /\ dact'[a].todo = dact[a].todo /\ dact'[a].cb = dact[a].cb
<1>1. dact \in [Actors -> ActorType] BY DEF DTypes
<1>2. dact' = [dact EXCEPT ![a] = [dact[a] EXCEPT !.pc = pc, !.ret = ret]] BY <1>1 DEF dcall
<1>3. PICK y \in ActorType : y = dact[a] BY <1>1
<1>4. PICK z : z = [y EXCEPT !.pc = pc, !.ret = ret] OBVIOUS
<1>5. z \in ActorType /\ z.pc = pc /\ z.ret = ret /\ z.todo = y.todo /\ z.cb = y.cb
  BY <1>4 DEF ActorType
<1>6. dact' = [dact EXCEPT ![a] = z] BY ONLY <1>2, <1>3, <1>4
<1>7. dact' \in [Actors -> ActorType] /\ dact'[a] = z /\ \A b \in Actors \ {a} : dact'[b] = dact[b]
  BY <1>1, <1>5, <1>6
<1> QED BY ONLY <1>3, <1>5, <1>7

(* One actor goes on, outside of any drain.                                *)
LEMMA DGo ==
    ASSUME DInv, NEW a \in Actors, dact' \in [Actors -> ActorType],
           \A b \in Actors \ {a} : dact'[b] = dact[b],
           dact'[a].todo = dact[a].todo, dact[a].pc \notin Phases, dact'[a].pc \notin Phases,
           IF a = "thr_defer" THEN dact'[a].ret = dact[a].ret ELSE MayGo(a),
           dq' = dq, registry_defer' = registry_defer, rcu_defer_mutex' = rcu_defer_mutex,
           dcs' = dcs, dgp' = dgp, deferred' = deferred
    PROVE  DInv'
<1>1. \A b \in Actors : /\ dact'[b].todo = dact[b].todo
                        /\ \/ dact'[b] = dact[b]
                           \/ dact[b].todo = << >> /\ dact'[b].pc \notin Phases
                        /\ dact'[b].pc \in Phases => rcu_defer_mutex' = b
  <2> SUFFICES ASSUME NEW b \in Actors
               PROVE  /\ dact'[b].todo = dact[b].todo
                      /\ \/ dact'[b] = dact[b]
                         \/ dact[b].todo = << >> /\ dact'[b].pc \notin Phases
                      /\ dact'[b].pc \in Phases => rcu_defer_mutex' = b
    OBVIOUS
  <2>1. /\ dact[b].pc \in Phases => rcu_defer_mutex = b
        /\ dact[b].pc \notin Phases => dact[b].todo = << >>
    BY DEF DInv, DMutex
  <2>2. CASE b = a BY <2>1, <2>2
  <2>3. CASE b # a
    <3>1. dact'[b] = dact[b] BY <2>3
    <3> QED BY <2>1, <3>1
  <2> QED BY <2>2, <2>3
<1>2. \A t \in DThreads : dact'[t] = dact[t] \/ MayGo(t)
  <2> SUFFICES ASSUME NEW t \in DThreads PROVE dact'[t] = dact[t] \/ MayGo(t) OBVIOUS
  <2>1. t \in Actors /\ t # "thr_defer" BY DeferAssumption DEF Actors
  <2> QED BY <2>1
<1>3. DReclaimer'
  <2>1. "thr_defer" \in Actors BY DEF Actors
  <2>2. dact'["thr_defer"].ret = dact["thr_defer"].ret BY <2>1
  <2> QED BY <2>2 DEF DReclaimer, DInv
<1>4. dq' \in [DThreads -> RingType] /\ \A t \in DThreads : SameRing(dq[t], dq'[t])
  BY DEF DInv, DTypes, SameRing
<1>5. dcs \subseteq dcs' /\ dcs' \in SUBSET DReaders BY DEF DInv, DTypes
<1>6. dact' \in [Actors -> ActorType] /\ registry_defer' = registry_defer /\ dgp' = dgp
      /\ deferred' = deferred
  OBVIOUS
<1> QED BY ONLY DInv, <1>1, <1>2, <1>3, <1>4, <1>5, <1>6, DMove

LEMMA DThreadOf ==
    ASSUME DInv, NEW t \in DThreads
    PROVE  /\ DTypes /\ t \in Actors /\ t # "thr_defer"
           /\ DControl(t) /\ DOwn(t) /\ DGone(t) /\ DRing(t)
           /\ dact[t] \in ActorType /\ dact[t].pc \in PCs /\ dact[t].ret \in PCs
           /\ deferred[t] \in Seq(Entry) /\ dq[t] \in RingType
<1>1. DTypes /\ DThread(t) BY DEF DInv
<1>2. t \in Actors /\ t # "thr_defer" BY DeferAssumption DEF Actors
<1>3. dact[t] \in ActorType /\ deferred[t] \in Seq(Entry) /\ dq[t] \in RingType BY <1>1, <1>2 DEF DTypes
<1>4. dact[t].pc \in PCs /\ dact[t].ret \in PCs BY <1>3 DEF ActorType
<1> QED BY <1>1, <1>2, <1>3, <1>4 DEF DThread

(* A thread goes on to pc, where it needs nothing of its ring.             *)
LEMMA DThreadGoes ==
    ASSUME DInv, NEW t \in DThreads, NEW pc \in PCs, dgo(t, pc),
           dact[t].pc \notin Phases,
           pc \notin Phases \cup {"encode", "barrier", "barrier_thread", "unregister_free"},
           pc \in {"wake", "wake_set", "wake_futex"} => dact[t].ret \in {"idle", "join"},
           pc \in {"register", "register_add"} => t \notin Range(registry_defer),
           dq' = dq, registry_defer' = registry_defer, rcu_defer_mutex' = rcu_defer_mutex,
           dcs' = dcs, dgp' = dgp, deferred' = deferred
    PROVE  DInv'
<1>1. DTypes /\ t \in Actors /\ t # "thr_defer" /\ DControl(t) BY DThreadOf
<1>2. /\ dact' \in [Actors -> ActorType]
      /\ \A b \in Actors \ {t} : dact'[b] = dact[b]
      /\ dact'[t].pc = pc /\ dact'[t].ret = dact[t].ret
      /\ dact'[t].todo = dact[t].todo /\ dact'[t].cb = dact[t].cb
  BY <1>1, DGoes
<1>3. DControl(t)' BY <1>2 DEF DControl
<1>4. MayGo(t) BY <1>2, <1>3 DEF MayGo
<1>5. dact'[t].pc \notin Phases BY <1>2
<1> QED BY <1>1, <1>2, <1>4, <1>5, DGo

LEMMA DWakeUp ==
    ASSUME DInv, NEW t \in DThreads, wake_up_defer(t) \/ DWakeSet(t)
    PROVE  DInv'
<1>1. DControl(t) /\ dact[t].ret \in PCs BY DThreadOf
<1>2. dact[t].pc \in {"wake", "wake_set"} /\ dact[t].pc \notin Phases
  BY DEF wake_up_defer, DWakeSet, dat, Phases
<1>3. dact[t].ret \in {"idle", "join"} BY <1>1, <1>2 DEF DControl
<1>4. /\ dq' = dq /\ registry_defer' = registry_defer /\ rcu_defer_mutex' = rcu_defer_mutex
      /\ dcs' = dcs /\ dgp' = dgp /\ deferred' = deferred
  BY DEF wake_up_defer, DWakeSet, dlocks, dreaders
<1>5. PICK pc : pc \in {"wake_set", "wake_futex", "idle", "join"} /\ dgo(t, pc)
  <2>1. dgo(t, "wake_set") \/ dgo(t, "wake_futex") \/ dgo(t, dact[t].ret)
    BY DEF wake_up_defer, DWakeSet, dback
  <2>2. \A pc : dgo(t, pc) /\ pc \in {"wake_set", "wake_futex", "idle", "join"} =>
               \E q : q \in {"wake_set", "wake_futex", "idle", "join"} /\ dgo(t, q)
    OBVIOUS
  <2> QED BY ONLY <1>3, <2>1, <2>2
<1>6. /\ pc \in PCs
      /\ pc \notin Phases \cup {"encode", "barrier", "barrier_thread", "unregister_free"}
      /\ pc \notin {"register", "register_add"}
  BY ONLY <1>5 DEF Phases, PCs
<1> QED BY <1>2, <1>3, <1>4, <1>5, <1>6, DThreadGoes

LEMMA DRegisters1 ==
    ASSUME DInv, NEW t \in DThreads,
           rcu_defer_register_thread(t) \/ RegisterLock(t) \/ rcu_defer_unregister_thread(t)
           \/ UnregisterLock(t) \/ JoinDeferThread(t)
    PROVE  DInv'
<1>1. DControl(t) BY DThreadOf
<1>2. dact[t].pc \in {"idle", "register", "unregister", "join"} /\ dact[t].pc \notin Phases
  BY DEF rcu_defer_register_thread, RegisterLock, rcu_defer_unregister_thread,
         UnregisterLock, JoinDeferThread, dat, Phases
<1>3. /\ dq' = dq /\ registry_defer' = registry_defer /\ rcu_defer_mutex' = rcu_defer_mutex
      /\ dcs' = dcs /\ dgp' = dgp /\ deferred' = deferred
  BY DEF rcu_defer_register_thread, RegisterLock, rcu_defer_unregister_thread,
         UnregisterLock, JoinDeferThread, dlocks, dreaders
<1>4. CASE rcu_defer_register_thread(t) \/ RegisterLock(t)
  <2>1. t \notin Range(registry_defer)
    <3>1. CASE rcu_defer_register_thread(t) BY <3>1 DEF rcu_defer_register_thread
    <3>2. CASE RegisterLock(t) BY <1>1, <3>2 DEF RegisterLock, DControl, dat
    <3> QED BY <1>4, <3>1, <3>2
  <2>2. PICK pc : pc \in {"register", "register_add"} /\ dgo(t, pc)
    BY <1>4, Zenon DEF rcu_defer_register_thread, RegisterLock
  <2>3. /\ pc \in PCs
        /\ pc \notin Phases \cup {"encode", "barrier", "barrier_thread", "unregister_free"}
        /\ pc \notin {"wake", "wake_set", "wake_futex"}
    BY ONLY <2>2 DEF Phases, PCs
  <2> QED BY <1>2, <1>3, <2>1, <2>2, <2>3, DThreadGoes
<1>5. CASE rcu_defer_unregister_thread(t) \/ UnregisterLock(t) \/ JoinDeferThread(t)
  <2>2. PICK pc : pc \in {"unregister", "unregister_del", "idle"} /\ dgo(t, pc)
    BY <1>5, Zenon DEF rcu_defer_unregister_thread, UnregisterLock, JoinDeferThread
  <2>3. /\ pc \in PCs
        /\ pc \notin Phases \cup {"encode", "barrier", "barrier_thread", "unregister_free"}
        /\ pc \notin {"wake", "wake_set", "wake_futex"} /\ pc \notin {"register", "register_add"}
    BY ONLY <2>2 DEF Phases, PCs
  <2> QED BY <1>2, <1>3, <2>2, <2>3, DThreadGoes
<1> QED BY <1>4, <1>5

LEMMA DCallsBarrier ==
    ASSUME DInv, NEW t \in DThreads, CallBarrier(t)
    PROVE  DInv'
<1>1. DTypes /\ t \in Actors /\ t # "thr_defer" /\ DControl(t) BY DThreadOf
<1>2. PICK pc \in {"barrier", "barrier_thread"} : dcall(t, pc, "idle") BY DEF CallBarrier
<1>3. /\ dact' \in [Actors -> ActorType]
      /\ \A b \in Actors \ {t} : dact'[b] = dact[b]
      /\ dact'[t].pc = pc /\ dact'[t].ret = "idle"
      /\ dact'[t].todo = dact[t].todo /\ dact'[t].cb = dact[t].cb
  <2>1. pc \in PCs /\ "idle" \in PCs BY ONLY pc \in {"barrier", "barrier_thread"} DEF PCs
  <2> QED BY ONLY <1>1, <1>2, <2>1, DCalls
<1>4. dact[t].pc = "idle" /\ t \in Range(registry_defer) BY DEF CallBarrier, dat
<1>5. /\ dq' = dq /\ registry_defer' = registry_defer /\ rcu_defer_mutex' = rcu_defer_mutex
      /\ dcs' = dcs /\ dgp' = dgp /\ deferred' = deferred
  BY DEF CallBarrier, dlocks, dreaders
<1>6. dact[t].pc \notin Phases /\ dact'[t].pc \notin Phases BY <1>3, <1>4 DEF Phases
<1>7. DControl(t)' BY <1>3, <1>4, <1>5 DEF DControl, Phases
<1>8. MayGo(t) BY <1>3, <1>6, <1>7 DEF MayGo
<1> QED BY <1>1, <1>3, <1>5, <1>6, <1>8, DGo

LEMMA DDefers ==
    ASSUME DInv, NEW t \in DThreads, NEW cb \in DCallbacks, defer_rcu(t, cb)
    PROVE  DInv'
<1>1. DTypes /\ t \in Actors /\ t # "thr_defer" /\ dact[t] \in ActorType BY DThreadOf
<1>2. PICK pc \in {"barrier_thread", "encode"} :
        pc = IF NearlyFull(t) THEN "barrier_thread" ELSE "encode"
  OBVIOUS
<1>3. PICK y : y = [dact[t] EXCEPT !.pc = pc, !.ret = "encode", !.cb = cb] OBVIOUS
<1>4. /\ y \in ActorType /\ y.pc = pc /\ y.ret = "encode" /\ y.todo = dact[t].todo /\ y.cb = cb
  <2>1. pc \in PCs /\ "encode" \in PCs BY DEF PCs
  <2>2. PICK z \in ActorType : z = dact[t] BY <1>1
  <2>3. y = [z EXCEPT !.pc = pc, !.ret = "encode", !.cb = cb] BY ONLY <1>3, <2>2
  <2>4. /\ y \in ActorType /\ y.pc = pc /\ y.ret = "encode" /\ y.todo = z.todo /\ y.cb = cb
    BY <2>1, <2>3 DEF ActorType
  <2> QED BY ONLY <2>2, <2>4
<1>5. dact' = [dact EXCEPT ![t] = y]
  <2>1. dact' = [dact EXCEPT ![t] = [dact[t] EXCEPT !.pc = pc, !.ret = "encode", !.cb = cb]]
    BY <1>1, <1>2 DEF defer_rcu, DTypes
  <2> QED BY ONLY <1>3, <2>1
<1>6. /\ dact' \in [Actors -> ActorType] /\ dact'[t] = y
      /\ \A b \in Actors \ {t} : dact'[b] = dact[b]
  BY <1>1, <1>4, <1>5 DEF DTypes
<1>7. dact[t].pc = "idle" /\ t \in Range(registry_defer) BY DEF defer_rcu, dat
<1>8. /\ dq' = dq /\ registry_defer' = registry_defer /\ rcu_defer_mutex' = rcu_defer_mutex
      /\ dcs' = dcs /\ dgp' = dgp /\ deferred' = deferred
  BY DEF defer_rcu, dlocks, dreaders
<1>9. dact[t].pc \notin Phases /\ dact'[t].pc \notin Phases BY <1>4, <1>6, <1>7 DEF Phases
<1>10. DControl(t)' BY <1>4, <1>6, <1>7, <1>8 DEF DControl, Phases
<1>11. dact'[t].pc = "encode" => minus(dq[t].head, dq[t].tail) < DQSize - 2
  <2>1. PICK v \in Nat, s \in Positions : DCut(dq[t], deferred[t], v, s)
    BY DThreadOf DEF DRing, RingOk, RingAt
  <2>2. minus(dq[t].head, dq[t].tail) = s[Len(deferred[t]) + 1] - v
        /\ s[Len(deferred[t]) + 1] \in Nat
    BY <2>1, DThreadOf, RingFill
  <2>3. PICK x \in Int : x = minus(dq[t].head, dq[t].tail) BY <2>2
  <2>4. pc = "encode" => ~ (x >= DQSize - 2) BY <1>2, <2>3 DEF NearlyFull
  <2>5. pc = "encode" => x < DQSize - 2 BY <2>4, DeferAssumption
  <2> QED BY <1>4, <1>6, <2>3, <2>5
<1>12. MayGo(t) BY <1>4, <1>6, <1>9, <1>10, <1>11 DEF MayGo, Phases
<1>13. dact'[t].todo = dact[t].todo BY <1>4, <1>6
<1> QED BY <1>1, <1>6, <1>8, <1>9, <1>12, <1>13, DGo

(* The steps of the reclamation thread before it drains.                   *)
LEMMA DReclaims ==
    ASSUME DInv, wait_defer \/ DStopTest \/ rcu_defer_num_callbacks \/ DDisarm
                 \/ DTestFutex \/ DFutexWait
    PROVE  DInv'
<1>1. "thr_defer" \in Actors /\ DTypes BY DEF Actors, DInv
<1>2. dact["thr_defer"].pc \notin Phases
  BY DEF wait_defer, DStopTest, rcu_defer_num_callbacks, DDisarm, DTestFutex, DFutexWait,
         dat, Phases
<1>3. PICK pc : pc \in {"stop_test", "none", "count", "disarm", "test", "barrier",
                       "futex_wait", "asleep"} /\ dgo("thr_defer", pc)
  <2> DEFINE S == {"stop_test", "none", "count", "disarm", "test", "barrier",
                   "futex_wait", "asleep"}
  <2>1. CASE wait_defer \/ DDisarm
    BY <2>1 DEF wait_defer, DDisarm
  <2>2. CASE DStopTest
    <3>1. PICK x \in S : x = IF defer_thread_stop THEN "none" ELSE "count" OBVIOUS
    <3> QED BY <2>2, <3>1 DEF DStopTest
  <2>3. CASE rcu_defer_num_callbacks
    <3>1. PICK x \in S : x = IF \E t \in Range(registry_defer) : dq[t].head # dq[t].tail
                            THEN "disarm" ELSE "test"
      OBVIOUS
    <3> QED BY <2>3, <3>1, Zenon DEF rcu_defer_num_callbacks
  <2>4. CASE DTestFutex
    <3>1. PICK x \in S : x = IF defer_thread_futex = -1 THEN "futex_wait" ELSE "barrier" OBVIOUS
    <3> QED BY <2>4, <3>1 DEF DTestFutex
  <2>5. CASE DFutexWait
    <3>1. PICK x \in S : x = IF defer_thread_futex = -1 THEN "asleep" ELSE "barrier" OBVIOUS
    <3> QED BY <2>5, <3>1 DEF DFutexWait
  <2> QED BY <2>1, <2>2, <2>3, <2>4, <2>5
<1>4. pc \in PCs /\ pc \notin Phases BY ONLY <1>3 DEF Phases, PCs
<1>5. /\ dact' \in [Actors -> ActorType]
      /\ \A b \in Actors \ {"thr_defer"} : dact'[b] = dact[b]
      /\ dact'["thr_defer"].pc = pc /\ dact'["thr_defer"].ret = dact["thr_defer"].ret
      /\ dact'["thr_defer"].todo = dact["thr_defer"].todo
  BY ONLY <1>1, <1>3, <1>4, DGoes
<1>6. /\ dq' = dq /\ registry_defer' = registry_defer /\ rcu_defer_mutex' = rcu_defer_mutex
      /\ dcs' = dcs /\ dgp' = dgp /\ deferred' = deferred
  BY DEF wait_defer, DStopTest, rcu_defer_num_callbacks, DDisarm, DTestFutex, DFutexWait,
         dlocks, dreaders
<1> QED BY <1>1, <1>2, <1>4, <1>5, <1>6, DGo

LEMMA DWakesFutex ==
    ASSUME DInv, NEW t \in DThreads, DWakeFutex(t)
    PROVE  DInv'
<1>1. /\ DTypes /\ t \in Actors /\ t # "thr_defer" /\ DControl(t) /\ dact[t] \in ActorType
      /\ dact[t].ret \in PCs
  BY DThreadOf
<1>2. "thr_defer" \in Actors /\ dact["thr_defer"] \in ActorType BY <1>1 DEF Actors, DTypes
<1>3. PICK u \in ActorType, y \in ActorType : u = dact["thr_defer"] /\ y = dact[t] BY <1>1, <1>2
<1>4. PICK pc \in PCs : pc = IF u.pc = "asleep" THEN "barrier" ELSE u.pc BY DEF ActorType, PCs
<1>5. PICK u2, y2 : u2 = [u EXCEPT !.pc = pc] /\ y2 = [y EXCEPT !.pc = dact[t].ret] OBVIOUS
<1>6. /\ u2 \in ActorType /\ u2.pc = pc /\ u2.ret = u.ret /\ u2.todo = u.todo
      /\ pc = u.pc => u2 = u
  BY <1>5 DEF ActorType
<1>7. /\ y2 \in ActorType /\ y2.pc = dact[t].ret /\ y2.ret = y.ret /\ y2.todo = y.todo /\ y2.cb = y.cb
  BY <1>1, <1>5 DEF ActorType
<1>8. dact' = [dact EXCEPT !["thr_defer"] = u2, ![t] = y2]
  <2>1. dact' = [dact EXCEPT !["thr_defer"].pc = IF @ = "asleep" THEN "barrier" ELSE @,
                             ![t].pc = dact[t].ret]
    BY DEF DWakeFutex
  <2>2. dact' = [dact EXCEPT !["thr_defer"] = [@ EXCEPT !.pc = pc],
                             ![t] = [@ EXCEPT !.pc = dact[t].ret]]
    BY <1>1, <1>2, <1>3, <1>4, <2>1 DEF DTypes
  <2> QED BY <1>1, <1>2, <1>3, <1>5, <2>2 DEF DTypes
<1>9. /\ dact' \in [Actors -> ActorType] /\ dact'["thr_defer"] = u2 /\ dact'[t] = y2
      /\ \A b \in Actors \ {t, "thr_defer"} : dact'[b] = dact[b]
  BY <1>1, <1>2, <1>6, <1>7, <1>8 DEF DTypes
<1>10. /\ dq' = dq /\ registry_defer' = registry_defer /\ rcu_defer_mutex' = rcu_defer_mutex
       /\ dcs' = dcs /\ dgp' = dgp /\ deferred' = deferred /\ dact[t].pc = "wake_futex"
  BY DEF DWakeFutex, dlocks, dreaders, dat
<1>11. dact[t].ret \in {"idle", "join"} BY <1>1, <1>10 DEF DControl
<1>12. \A b \in Actors : /\ dact'[b].todo = dact[b].todo
                         /\ \/ dact'[b] = dact[b]
                            \/ dact[b].todo = << >> /\ dact'[b].pc \notin Phases
                         /\ dact'[b].pc \in Phases => rcu_defer_mutex' = b
  <2> SUFFICES ASSUME NEW b \in Actors
               PROVE  /\ dact'[b].todo = dact[b].todo
                      /\ \/ dact'[b] = dact[b]
                         \/ dact[b].todo = << >> /\ dact'[b].pc \notin Phases
                      /\ dact'[b].pc \in Phases => rcu_defer_mutex' = b
    OBVIOUS
  <2>1. /\ dact[b].pc \in Phases => rcu_defer_mutex = b
        /\ dact[b].pc \notin Phases => dact[b].todo = << >>
    BY DEF DInv, DMutex
  <2>2. CASE b = t
    <3>1. dact[t].pc \notin Phases /\ dact'[t].pc \notin Phases
      BY <1>7, <1>9, <1>10, <1>11 DEF Phases
    <3> QED BY <2>1, <2>2, <3>1, <1>3, <1>7, <1>9
  <2>3. CASE b = "thr_defer"
    <3>1. CASE u.pc = "asleep"
      <4>1. u.pc \notin Phases /\ pc \notin Phases BY <1>4, <3>1 DEF Phases
      <4> QED BY <2>1, <2>3, <4>1, <1>3, <1>6, <1>9
    <3>2. CASE u.pc # "asleep"
      <4>1. dact'[b] = dact[b] BY <2>3, <3>2, <1>3, <1>4, <1>6, <1>9
      <4> QED BY <2>1, <4>1, <1>10
    <3> QED BY <3>1, <3>2
  <2>4. CASE b # t /\ b # "thr_defer"
    <3>1. dact'[b] = dact[b] BY <1>9, <2>4
    <3> QED BY <2>1, <3>1, <1>10
  <2> QED BY <2>2, <2>3, <2>4
<1>13. \A k \in DThreads : dact'[k] = dact[k] \/ MayGo(k)
  <2>1. DControl(t)' BY <1>1, <1>7, <1>9, <1>10, <1>11 DEF DControl, Phases
  <2>2. MayGo(t) BY <2>1, <1>7, <1>9, <1>10, <1>11 DEF MayGo, Phases
  <2>3. \A k \in DThreads : k \in Actors /\ k # "thr_defer" BY DThreadOf
  <2> QED BY <1>9, <2>2, <2>3
<1>14. DReclaimer' BY <1>3, <1>6, <1>9 DEF DReclaimer, DInv
<1>15. dq' \in [DThreads -> RingType] /\ \A k \in DThreads : SameRing(dq[k], dq'[k])
  BY <1>1, <1>10 DEF DTypes, SameRing
<1>16. dcs \subseteq dcs' /\ dcs' \in SUBSET DReaders BY <1>1, <1>10 DEF DTypes
<1> QED BY ONLY DInv, <1>9, <1>10, <1>12, <1>13, <1>14, <1>15, <1>16, DMove

LEMMA DEnters ==
    ASSUME DInv, NEW r \in DReaders, DEnter(r)
    PROVE  DInv'
<1>1. /\ dq' = dq /\ registry_defer' = registry_defer /\ rcu_defer_mutex' = rcu_defer_mutex
      /\ dact' = dact /\ dgp' = dgp /\ deferred' = deferred /\ dcs' = dcs \cup {r}
  BY DEF DEnter, dlocks
<1>2. DTypes BY DEF DInv
<1>3. \A b \in Actors : /\ dact'[b].todo = dact[b].todo
                        /\ \/ dact'[b] = dact[b]
                           \/ dact[b].todo = << >> /\ dact'[b].pc \notin Phases
                        /\ dact'[b].pc \in Phases => rcu_defer_mutex' = b
  BY <1>1 DEF DInv, DMutex
<1>4. dact' \in [Actors -> ActorType] /\ dq' \in [DThreads -> RingType]
      /\ dcs \subseteq dcs' /\ dcs' \in SUBSET DReaders
  BY <1>1, <1>2 DEF DTypes
<1>5. \A k \in DThreads : dact'[k] = dact[k] /\ SameRing(dq[k], dq'[k]) BY <1>1 DEF SameRing
<1>6. DReclaimer' BY <1>1 DEF DReclaimer, DInv
<1> QED BY ONLY DInv, <1>1, <1>3, <1>4, <1>5, <1>6, DMove

(* Without words between tail and head there is room.                      *)
LEMMA DRoomy ==
    ASSUME NEW d \in RingType, d.head = d.tail
    PROVE  minus(d.head, d.tail) < DQSize - 2
<1>1. d.head \in Int BY DEF RingType
<1>2. d.head - d.tail = 0 BY <1>1
<1>3. 0 % WordRange = 0 BY DeferAssumption
<1> QED BY <1>2, <1>3, DeferAssumption DEF minus

LEMMA DDrained ==
    ASSUME DInv, NEW a \in Actors, Drained(a)
    PROVE  DInv'
<1>1. DTypes BY DEF DInv
<1>2. dact[a] \in ActorType /\ dact[a].ret \in PCs BY <1>1 DEF DTypes, ActorType
<1>3. /\ dact[a].pc = "drain" /\ dact[a].todo = << >> /\ dgo(a, dact[a].ret)
      /\ dq' = dq /\ registry_defer' = registry_defer /\ rcu_defer_mutex' = DNobody
      /\ dcs' = dcs /\ dgp' = dgp /\ deferred' = deferred
  BY DEF Drained, dback, dreaders, dat
<1>4. /\ dact' \in [Actors -> ActorType]
      /\ \A b \in Actors \ {a} : dact'[b] = dact[b]
      /\ dact'[a].pc = dact[a].ret /\ dact'[a].ret = dact[a].ret
      /\ dact'[a].todo = dact[a].todo /\ dact'[a].cb = dact[a].cb
  BY <1>1, <1>2, <1>3, DGoes
<1>5. a \in DThreads => /\ dact[a].ret \in {"idle", "encode", "unregister_free"}
                        /\ a \in Range(registry_defer) \/ dact[a].ret = "unregister_free"
                        /\ dact[a].ret = "unregister_free" => a \notin Range(registry_defer)
                        /\ dact[a].ret = "encode" => dact[a].cb \in DCallbacks
                        /\ dact[a].ret \in {"encode", "unregister_free"} =>
                              dq[a].head = dq[a].tail
  <2> SUFFICES ASSUME a \in DThreads
               PROVE  /\ dact[a].ret \in {"idle", "encode", "unregister_free"}
                      /\ a \in Range(registry_defer) \/ dact[a].ret = "unregister_free"
                      /\ dact[a].ret = "unregister_free" => a \notin Range(registry_defer)
                      /\ dact[a].ret = "encode" => dact[a].cb \in DCallbacks
                      /\ dact[a].ret \in {"encode", "unregister_free"} =>
                            dq[a].head = dq[a].tail
    OBVIOUS
  <2>1. DControl(a) /\ DOwn(a) BY DThreadOf
  <2> QED BY <1>3, <2>1 DEF DControl, DOwn, Phases
<1>6. dact'[a].pc \notin Phases
  <2>1. a \notin DThreads => dact[a].ret \in {"idle", "dec"}
    BY DEF Actors, DInv, DReclaimer
  <2> QED BY <1>4, <1>5, <2>1 DEF Phases
<1>7. \A b \in Actors : /\ dact'[b].todo = dact[b].todo
                        /\ \/ dact'[b] = dact[b]
                           \/ dact[b].todo = << >> /\ dact'[b].pc \notin Phases
                        /\ dact'[b].pc \in Phases => rcu_defer_mutex' = b
  <2> SUFFICES ASSUME NEW b \in Actors
               PROVE  /\ dact'[b].todo = dact[b].todo
                      /\ \/ dact'[b] = dact[b]
                         \/ dact[b].todo = << >> /\ dact'[b].pc \notin Phases
                      /\ dact'[b].pc \in Phases => rcu_defer_mutex' = b
    OBVIOUS
  <2>1. CASE b = a BY <1>3, <1>4, <1>6, <2>1
  <2>2. CASE b # a
    <3>1. dact'[b] = dact[b] BY <1>4, <2>2
    <3>2. dact[b].pc \notin Phases
      <4>1. rcu_defer_mutex = a BY <1>3 DEF DInv, DMutex, Phases
      <4>2. dact[b].pc \in Phases => rcu_defer_mutex = b BY DEF DInv, DMutex
      <4> QED BY <4>1, <4>2, <2>2
    <3> QED BY <3>1, <3>2
  <2> QED BY <2>1, <2>2
<1>8. \A k \in DThreads : dact'[k] = dact[k] \/ MayGo(k)
  <2> SUFFICES ASSUME NEW k \in DThreads PROVE dact'[k] = dact[k] \/ MayGo(k) OBVIOUS
  <2>0. /\ k \in Actors /\ dq[k] \in RingType /\ deferred[k] \in Seq(Entry) /\ DRing(k)
    BY DThreadOf
  <2>1. CASE k # a BY <2>0, <2>1, <1>4
  <2>2. CASE k = a
    <3>1. DControl(a)' BY <2>2, <1>3, <1>4, <1>5 DEF DControl, Phases
    <3>2. dact'[a].pc = "encode" => minus(dq[a].head, dq[a].tail) < DQSize - 2
      BY <2>0, <2>2, <1>4, <1>5, DRoomy
    <3>3. dact[a].ret = "unregister_free" => deferred[a] = << >>
      <4>1. dact[a].ret = "unregister_free" => dq[a].head = dq[a].tail BY <2>2, <1>5
      <4>2. RingOk(a, dq[a], deferred[a], dact, dgp) BY <2>0, <2>2 DEF DRing
      <4> QED BY <2>0, <2>2, <4>1, <4>2, RingEmpty
    <3>4. MayGo(a) BY <2>2, <3>1, <3>2, <3>3, <1>4, <1>5 DEF MayGo
    <3> QED BY <2>2, <3>4
  <2> QED BY <2>1, <2>2
<1>9. DReclaimer'
  <2>1. "thr_defer" \in Actors BY DEF Actors
  <2>2. dact'["thr_defer"].ret = dact["thr_defer"].ret BY <2>1, <1>4
  <2> QED BY <2>2 DEF DReclaimer, DInv
<1>10. dq' \in [DThreads -> RingType] /\ (\A k \in DThreads : SameRing(dq[k], dq'[k]))
       /\ dcs \subseteq dcs' /\ dcs' \in SUBSET DReaders
  BY <1>1, <1>3 DEF DTypes, SameRing
<1> QED BY ONLY DInv, <1>3, <1>4, <1>7, <1>8, <1>9, <1>10, DMove

(***************************************************************************)
(* The steps of a drain, and those of the readers it waits for.            *)
(***************************************************************************)

LEMMA DLeaves ==
    ASSUME DInv, NEW r \in DReaders, DLeave(r)
    PROVE  DInv'
<1>1. /\ dq' = dq /\ registry_defer' = registry_defer /\ rcu_defer_mutex' = rcu_defer_mutex
      /\ dact' = dact /\ dgp' = dgp \ {r} /\ dcs' = dcs \ {r}
  BY DEF DLeave, dlocks
<1>2. DTypes /\ dcs \in SUBSET DReaders /\ dgp \in SUBSET DReaders BY DEF DInv, DTypes
<1>3. DOMAIN deferred' = DThreads /\ deferred' = [t \in DThreads |-> deferred'[t]]
  BY DEF DLeave
<1>4. ASSUME NEW t \in DThreads
      PROVE  /\ deferred'[t] \in Seq(Entry) /\ Len(deferred'[t]) = Len(deferred[t])
             /\ \A k \in 1 .. Len(deferred[t]) :
                  /\ deferred'[t][k].f = deferred[t][k].f
                  /\ deferred'[t][k].p = deferred[t][k].p
                  /\ deferred'[t][k].hold = deferred[t][k].hold \ {r}
  <2>1. PICK df \in Seq(Entry) : df = deferred[t] BY DThreadOf
  <2>2. deferred'[t] = [k \in DOMAIN deferred[t] |-> [deferred[t][k] EXCEPT !.hold = @ \ {r}]]
    BY DEF DLeave
  <2>3. PICK dg : dg = [k \in 1 .. Len(df) |-> [df[k] EXCEPT !.hold = @ \ {r}]] OBVIOUS
  <2>4. deferred'[t] = dg BY <2>1, <2>2, <2>3
  <2>5. \A k \in 1 .. Len(df) : /\ dg[k].f = df[k].f /\ dg[k].p = df[k].p
                                /\ dg[k].hold = df[k].hold \ {r} /\ dg[k] \in Entry
    <3> SUFFICES ASSUME NEW k \in 1 .. Len(df)
                 PROVE  /\ dg[k].f = df[k].f /\ dg[k].p = df[k].p
                        /\ dg[k].hold = df[k].hold \ {r} /\ dg[k] \in Entry
      OBVIOUS
    <3>1. PICK x \in Entry : x = df[k] OBVIOUS
    <3>2. PICK y : y = [x EXCEPT !.hold = @ \ {r}] OBVIOUS
    <3>3. y.f = x.f /\ y.p = x.p /\ y.hold = x.hold \ {r} /\ y \in Entry BY <3>2 DEF Entry
    <3>4. dg[k] = y BY <2>3, <3>1, <3>2
    <3> QED BY ONLY <3>1, <3>3, <3>4
  <2>6. dg \in Seq(Entry) /\ Len(dg) = Len(df)
    <3>1. Len(df) \in Nat OBVIOUS
    <3>2. DOMAIN dg = 1 .. Len(df) BY <2>3
    <3>3. dg \in [1 .. Len(df) -> Entry] BY <2>3, <2>5, <3>2
    <3> QED BY <3>1, <3>3
  <2> QED BY ONLY <2>1, <2>4, <2>5, <2>6
<1>5. DTypes'
  <2>1. deferred' \in [DThreads -> Seq(Entry)] BY <1>3, <1>4
  <2> QED BY <1>1, <1>2, <2>1 DEF DTypes
<1>6. DMutex' BY <1>1 DEF DInv, DMutex
<1>7. DRegistry' /\ DReclaimer' BY <1>1 DEF DInv, DRegistry, DReclaimer
<1>8. DHolds'
  <2> SUFFICES ASSUME NEW t \in DThreads, NEW k \in 1 .. Len(deferred'[t])
               PROVE  deferred'[t][k].hold \subseteq dcs'
    BY DEF DHolds
  <2>1. k \in 1 .. Len(deferred[t]) /\ deferred'[t][k].hold = deferred[t][k].hold \ {r}
    BY <1>4
  <2>2. deferred[t][k].hold \subseteq dcs BY <2>1 DEF DInv, DHolds
  <2> QED BY <1>1, <2>1, <2>2
<1>9. ASSUME NEW t \in DThreads PROVE DThread(t)'
  <2>1. DControl(t) /\ DOwn(t) /\ DGone(t) /\ DRing(t) /\ deferred[t] \in Seq(Entry) BY DThreadOf
  <2>2. DControl(t)' /\ DOwn(t)' BY <1>1, <2>1 DEF DControl, DOwn
  <2>3. DGone(t)'
    <3>1. deferred[t] = << >> => deferred'[t] = << >> BY <1>4, EmptySeq
    <3> QED BY <1>1, <2>1, <3>1 DEF DGone
  <2>4. DRing(t)'
    <3>1. PICK df, dg : df = deferred[t] /\ dg = deferred'[t] OBVIOUS
    <3>2. /\ df \in Seq(Entry) /\ dg \in Seq(Entry) /\ Len(dg) = Len(df)
          /\ \A k \in 1 .. Len(df) : /\ dg[k].f = df[k].f /\ dg[k].p = df[k].p
                                     /\ dg[k].hold = df[k].hold \ {r}
      BY ONLY <1>4, <2>1, <3>1
    <3>3. RingOk(t, dq[t], df, dact, dgp) BY ONLY <2>1, <3>1 DEF DRing
    <3>4. RingOk(t, dq[t], dg, dact, dgp \ {r}) BY ONLY <3>2, <3>3, RingLeave
    <3> QED BY ONLY <1>1, <3>1, <3>4 DEF DRing
  <2> QED BY <2>2, <2>3, <2>4 DEF DThread
<1> QED BY <1>5, <1>6, <1>7, <1>8, <1>9 DEF DInv

(* Who drains is alone.                                                    *)
LEMMA DAlone ==
    ASSUME DInv, NEW a \in Actors, dact[a].pc \in Phases
    PROVE  /\ rcu_defer_mutex = a
           /\ \A b \in Actors \ {a} : dact[b].pc \notin Phases /\ dact[b].todo = << >>
<1>1. rcu_defer_mutex = a BY DEF DInv, DMutex
<1>2. ASSUME NEW b \in Actors \ {a} PROVE dact[b].pc \notin Phases /\ dact[b].todo = << >>
  BY <1>1 DEF DInv, DMutex
<1> QED BY <1>1, <1>2

LEMMA DWaits ==
    ASSUME DInv, NEW a \in Actors, DSynchronize(a) \/ DGracePeriodEnds(a)
    PROVE  DInv'
<1>1. /\ dq' = dq /\ registry_defer' = registry_defer /\ rcu_defer_mutex' = rcu_defer_mutex
      /\ dcs' = dcs /\ deferred' = deferred
  BY DEF DSynchronize, DGracePeriodEnds, dlocks, dreaders
<1>2. PICK pc : /\ pc \in {"grace", "drain"} /\ dgo(a, pc)
                /\ \/ pc = "grace" /\ dgp' = dcs
                   \/ dact[a].pc = "grace" /\ pc = "drain" /\ dgp = {} /\ dgp' = dgp
  BY DEF DSynchronize, DGracePeriodEnds, DWaited, dreaders, dat
<1>3. DTypes BY DEF DInv
<1>4. pc \in PCs /\ pc \in Phases BY ONLY <1>2 DEF PCs, Phases
<1>5. /\ dact' \in [Actors -> ActorType]
      /\ \A b \in Actors \ {a} : dact'[b] = dact[b]
      /\ dact'[a].pc = pc /\ dact'[a].ret = dact[a].ret
      /\ dact'[a].todo = dact[a].todo /\ dact'[a].cb = dact[a].cb
  BY ONLY <1>2, <1>3, <1>4, a \in Actors, DGoes
<1>6. dact[a].pc \in Phases /\ dact[a].pc # "drain"
  BY DEF DSynchronize, DGracePeriodEnds, dat, Phases
<1>7. /\ rcu_defer_mutex = a
      /\ \A b \in Actors \ {a} : dact[b].pc \notin Phases /\ dact[b].todo = << >>
  BY <1>6, DAlone
<1>8. DTypes' BY <1>1, <1>2, <1>3, <1>5 DEF DTypes
<1>9. DMutex'
  <2> SUFFICES ASSUME NEW b \in Actors
               PROVE  /\ dact'[b].pc \in Phases => rcu_defer_mutex' = b
                      /\ dact'[b].pc \notin Phases => dact'[b].todo = << >>
                      /\ \A j, k \in DOMAIN dact'[b].todo :
                            dact'[b].todo[j].t = dact'[b].todo[k].t => j = k
    BY DEF DMutex
  <2>1. \A j, k \in DOMAIN dact[b].todo : dact[b].todo[j].t = dact[b].todo[k].t => j = k
    BY DEF DInv, DMutex
  <2>2. dact'[b].todo = dact[b].todo BY <1>5
  <2>3. CASE b = a BY <1>1, <1>4, <1>5, <1>7, <2>1, <2>2, <2>3
  <2>4. CASE b # a
    <3>1. dact'[b] = dact[b] BY <1>5, <2>4
    <3> QED BY <1>7, <2>1, <2>4, <3>1
  <2> QED BY <2>3, <2>4
<1>10. DRegistry' BY <1>1 DEF DInv, DRegistry
<1>11. DReclaimer'
  <2>1. "thr_defer" \in Actors BY DEF Actors
  <2>2. dact'["thr_defer"].ret = dact["thr_defer"].ret BY <1>5, <2>1
  <2> QED BY <2>2 DEF DInv, DReclaimer
<1>12. DHolds' BY <1>1 DEF DInv, DHolds
<1>13. ASSUME NEW t \in DThreads PROVE DThread(t)'
  <2>1. /\ DControl(t) /\ DOwn(t) /\ DGone(t) /\ DRing(t) /\ deferred[t] \in Seq(Entry)
        /\ t \in Actors
    BY DThreadOf
  <2>2. /\ dact'[t].ret = dact[t].ret /\ dact'[t].todo = dact[t].todo /\ dact'[t].cb = dact[t].cb
        /\ \/ dact'[t].pc = dact[t].pc
           \/ dact'[t].pc \in Phases /\ dact[t].pc \in Phases
    BY <1>4, <1>5, <1>6, <2>1
  <2>3. DControl(t)' BY ONLY <1>1, <2>1, <2>2 DEF DControl, Phases
  <2>4. DOwn(t)' BY ONLY <1>1, <2>1, <2>2 DEF DOwn
  <2>5. DGone(t)' BY ONLY <1>1, <2>1, <2>2 DEF DGone, Phases
  <2>6. DRing(t)'
    <3>1. PICK d, df, ac, ad, gp, hp : /\ d = dq[t] /\ df = deferred[t] /\ ac = dact
                                       /\ ad = dact' /\ gp = dgp /\ hp = dgp'
      OBVIOUS
    <3>2. df \in Seq(Entry) /\ RingOk(t, d, df, ac, gp) BY ONLY <2>1, <3>1 DEF DRing
    <3>3. \A b \in Actors : ad[b].todo = ac[b].todo BY ONLY <1>5, <3>1
    <3>4. \A b \in Actors \ {a} : ad[b].todo = << >> /\ ad[b].pc = ac[b].pc
      <4> SUFFICES ASSUME NEW b \in Actors \ {a} PROVE ad[b].todo = << >> /\ ad[b].pc = ac[b].pc
        OBVIOUS
      <4>1. dact'[b] = dact[b] /\ dact[b].todo = << >> BY <1>5, <1>7
      <4> QED BY ONLY <3>1, <4>1
    <3>5. ad[t].pc = "encode" => ac[t].pc = "encode" BY ONLY <2>2, <3>1 DEF Phases
    <3>6. ac[a].pc # "drain" BY ONLY <1>6, <3>1
    <3>7. \/ /\ ad[a].pc = "grace"
             /\ \A k \in 1 .. Len(df) : df[k].hold \subseteq hp
          \/ ac[a].pc = "grace" /\ ad[a].pc = "drain" /\ gp = {}
      <4>1. \A k \in 1 .. Len(df) : df[k].hold \subseteq dcs BY <3>1 DEF DInv, DHolds
      <4> QED BY ONLY <1>2, <1>5, <3>1, <4>1
    <3>8. RingOk(t, d, df, ad, hp)
      BY ONLY a \in Actors, <3>2, <3>3, <3>4, <3>5, <3>6, <3>7, RingPhase
    <3> QED BY ONLY <1>1, <3>1, <3>8 DEF DRing
  <2> QED BY <2>3, <2>4, <2>5, <2>6 DEF DThread
<1> QED BY <1>8, <1>9, <1>10, <1>11, <1>12, <1>13 DEF DInv

(* The jobs that remain when the first one has moved on, or is done.       *)
LEMMA DFirstMoves ==
    ASSUME NEW td \in Seq(Job), td # << >>, NEW x \in Job
    PROVE  /\ <<x>> \o Tail(td) \in Seq(Job) /\ <<x>> \o Tail(td) # << >>
           /\ Len(<<x>> \o Tail(td)) = Len(td)
           /\ Head(<<x>> \o Tail(td)) = x
           /\ (<<x>> \o Tail(td))[1] = x
           /\ \A j \in DOMAIN (<<x>> \o Tail(td)) :
                 j \in DOMAIN td /\ (j # 1 => (<<x>> \o Tail(td))[j] = td[j])
<1>1. Len(td) \in Nat /\ Len(td) # 0 BY EmptySeq
<1>2. /\ Tail(td) \in Seq(Job) /\ Len(Tail(td)) = Len(td) - 1
      /\ \A j \in 1 .. Len(td) - 1 : Tail(td)[j] = td[j + 1]
  BY <1>1
<1>3. PICK tl \in Seq(Job) : tl = Tail(td) BY <1>2
<1>4. PICK n \in Nat : n = Len(td) /\ n # 0 /\ Len(tl) = n - 1 BY <1>1, <1>2, <1>3
<1>5. PICK z : z = <<x>> \o tl OBVIOUS
<1>6. /\ z \in Seq(Job) /\ Len(z) = n /\ z[1] = x
      /\ \A j \in 2 .. n : z[j] = tl[j - 1]
  BY <1>4, <1>5
<1>7. \A j \in 2 .. n : z[j] = td[j]
  <2> SUFFICES ASSUME NEW j \in 2 .. n PROVE z[j] = td[j] OBVIOUS
  <2>1. j - 1 \in 1 .. n - 1 /\ (j - 1) + 1 = j BY <1>4
  <2>2. tl[j - 1] = td[(j - 1) + 1] BY ONLY <1>2, <1>3, <1>4, <2>1
  <2>3. td[(j - 1) + 1] = td[j] BY ONLY <2>1
  <2> QED BY ONLY <1>6, <2>2, <2>3, j \in 2 .. n
<1>8. DOMAIN z = 1 .. n /\ DOMAIN td = 1 .. n BY <1>4, <1>6
<1>9. z # << >> /\ Head(z) = x BY <1>4, <1>6
<1>10. \A j \in 1 .. n : j # 1 => j \in 2 .. n BY <1>4
<1> QED BY ONLY <1>3, <1>4, <1>5, <1>6, <1>7, <1>8, <1>9, <1>10

LEMMA DFirstDone ==
    ASSUME NEW td \in Seq(Job), td # << >>
    PROVE  /\ Tail(td) \in Seq(Job)
           /\ \A j \in DOMAIN Tail(td) : j + 1 \in DOMAIN td /\ j + 1 # 1 /\ Tail(td)[j] = td[j + 1]
           /\ \A j, k \in DOMAIN Tail(td) : j + 1 = k + 1 => j = k
           /\ Len(td) = 1 => Tail(td) = << >>
<1>1. Len(td) \in Nat /\ Len(td) # 0 BY EmptySeq
<1>2. /\ Tail(td) \in Seq(Job) /\ Len(Tail(td)) = Len(td) - 1
      /\ \A j \in 1 .. Len(td) - 1 : Tail(td)[j] = td[j + 1]
  BY <1>1
<1>3. DOMAIN Tail(td) = 1 .. Len(td) - 1 /\ DOMAIN td = 1 .. Len(td) BY <1>1, <1>2
<1>4. \A j \in 1 .. Len(td) - 1 : j + 1 \in 1 .. Len(td) /\ j + 1 # 1 BY <1>1
<1>5. \A j, k \in 1 .. Len(td) - 1 : j + 1 = k + 1 => j = k BY <1>1
<1>6. Len(td) = 1 => Len(Tail(td)) = 0 BY <1>2
<1>7. Len(td) = 1 => Tail(td) = << >> BY <1>2, <1>6, EmptySeq
<1> QED BY ONLY <1>2, <1>3, <1>4, <1>5, <1>7

(* A step of the drain of actor a: what it leaves alone.                   *)
LEMMA DDrainFrame ==
    ASSUME DInv, NEW a \in Actors, dact[a].pc = "drain",
           dact' \in [Actors -> ActorType], \A b \in Actors \ {a} : dact'[b] = dact[b],
           dact'[a].pc = "drain", dact'[a].ret = dact[a].ret, dact'[a].cb = dact[a].cb,
           \A j, k \in DOMAIN dact'[a].todo :
              dact'[a].todo[j].t = dact'[a].todo[k].t => j = k,
           dq' \in [DThreads -> RingType], deferred' \in [DThreads -> Seq(Entry)],
           registry_defer' = registry_defer, rcu_defer_mutex' = rcu_defer_mutex,
           dcs' = dcs, dgp' = dgp, DHolds',
           a \in DThreads => DOwn(a)',
           \A t \in DThreads : DGone(t)' /\ DRing(t)'
    PROVE  DInv'
<1>1. DTypes' BY DEF DInv, DTypes
<1>2. /\ rcu_defer_mutex = a /\ "drain" \in Phases
      /\ \A b \in Actors \ {a} : dact[b].pc \notin Phases /\ dact[b].todo = << >>
  BY DAlone DEF Phases
<1>3. DMutex'
  <2> SUFFICES ASSUME NEW b \in Actors
               PROVE  /\ dact'[b].pc \in Phases => rcu_defer_mutex' = b
                      /\ dact'[b].pc \notin Phases => dact'[b].todo = << >>
                      /\ \A j, k \in DOMAIN dact'[b].todo :
                            dact'[b].todo[j].t = dact'[b].todo[k].t => j = k
    BY DEF DMutex
  <2>1. CASE b = a BY <1>2, <2>1
  <2>2. CASE b # a
    <3>1. dact'[b] = dact[b] /\ dact[b].pc \notin Phases /\ dact[b].todo = << >> BY <1>2, <2>2
    <3>2. DOMAIN << >> = {} OBVIOUS
    <3> QED BY ONLY <3>1, <3>2
  <2> QED BY <2>1, <2>2
<1>4. DRegistry' BY DEF DInv, DRegistry
<1>5. DReclaimer'
  <2>1. "thr_defer" \in Actors BY DEF Actors
  <2>2. dact'["thr_defer"].ret = dact["thr_defer"].ret BY <2>1
  <2> QED BY <2>2 DEF DInv, DReclaimer
<1>6. ASSUME NEW t \in DThreads PROVE DThread(t)'
  <2>1. DControl(t) /\ t \in Actors BY DThreadOf
  <2>2. dact'[t].pc = dact[t].pc /\ dact'[t].ret = dact[t].ret /\ dact'[t].cb = dact[t].cb
    <3>1. CASE t = a BY <3>1
    <3>2. CASE t # a
      <4>1. dact'[t] = dact[t] BY <2>1, <3>2
      <4> QED BY <4>1
    <3> QED BY <3>1, <3>2
  <2>3. DControl(t)'
    <3>1. registry_defer' = registry_defer OBVIOUS
    <3> QED BY ONLY <2>1, <2>2, <3>1 DEF DControl
  <2>4. DOwn(t)'
    <3>1. CASE t = a BY <3>1
    <3>2. CASE t # a
      <4>1. dact'[t].pc \notin Phases BY <1>2, <2>1, <2>2, <3>2
      <4> QED BY ONLY <4>1 DEF DOwn
    <3> QED BY <3>1, <3>2
  <2>5. DGone(t)' /\ DRing(t)' OBVIOUS
  <2> QED BY ONLY <2>3, <2>4, <2>5 DEF DThread
<1> QED BY <1>1, <1>3, <1>4, <1>5, <1>6 DEF DInv

(* The rings that the drain of actor a is not at.                          *)
LEMMA DOthers ==
    ASSUME DInv, NEW a \in Actors, dact[a].pc = "drain", dact[a].todo # << >>,
           \A b \in Actors \ {a} : dact'[b] = dact[b], dact'[a].pc = "drain",
           NEW u \in DThreads, u # Head(dact[a].todo).t,
           \A j \in DOMAIN dact'[a].todo : dact'[a].todo[j].t = u =>
              \E k \in DOMAIN dact[a].todo : dact[a].todo[k] = dact'[a].todo[j],
           registry_defer' = registry_defer, dgp' = dgp,
           dq'[u] = dq[u], deferred'[u] = deferred[u]
    PROVE  DGone(u)' /\ DRing(u)'
<1>1. /\ DGone(u) /\ DRing(u) /\ u \in Actors /\ deferred[u] \in Seq(Entry) BY DThreadOf
<1>2. /\ rcu_defer_mutex = a /\ "drain" \in Phases
      /\ \A b \in Actors \ {a} : dact[b].pc \notin Phases /\ dact[b].todo = << >>
  BY DAlone DEF Phases
<1>3. dact'[u].pc = dact[u].pc
  <2>1. CASE u = a BY <2>1
  <2>2. CASE u # a
    <3>1. dact'[u] = dact[u] BY <1>1, <2>2
    <3> QED BY <3>1
  <2> QED BY <2>1, <2>2
<1>4. DGone(u)'
  <2>1. registry_defer' = registry_defer /\ dq'[u] = dq[u] /\ deferred'[u] = deferred[u] OBVIOUS
  <2> QED BY ONLY <1>1, <1>3, <2>1 DEF DGone
<1>5. DRing(u)'
  <2>1. PICK d, df, ac, ad : d = dq[u] /\ df = deferred[u] /\ ac = dact /\ ad = dact' OBVIOUS
  <2>2. df \in Seq(Entry) /\ RingOk(u, d, df, ac, dgp) BY ONLY <1>1, <2>1 DEF DRing
  <2>3. ad[u].pc = "encode" => ac[u].pc = "encode" BY ONLY <1>3, <2>1
  <2>4. ~ Busy(u, ac)
    <3> SUFFICES ASSUME NEW b \in Actors, dact[b].pc = "drain", dact[b].todo # << >>,
                        Head(dact[b].todo).t = u
                 PROVE  FALSE
      BY <2>1 DEF Busy
    <3>1. b = a BY <1>2
    <3> QED BY <3>1
  <2>5. JobsKept(u, ac, ad)
    <3> SUFFICES ASSUME NEW b \in Actors, NEW j \in DOMAIN dact'[b].todo, dact'[b].todo[j].t = u
                 PROVE  /\ dact'[b].pc = dact[b].pc
                        /\ \E k \in DOMAIN dact[b].todo : dact[b].todo[k] = dact'[b].todo[j]
      BY <2>1 DEF JobsKept
    <3>1. CASE b = a BY <3>1
    <3>2. CASE b # a
      <4>1. dact'[b] = dact[b] BY <3>2
      <4> QED BY <4>1
    <3> QED BY <3>1, <3>2
  <2>6. RingOk(u, d, df, ad, dgp) BY ONLY <2>2, <2>3, <2>4, <2>5, RingKeep
  <2>7. dgp' = dgp /\ dq'[u] = dq[u] /\ deferred'[u] = deferred[u] OBVIOUS
  <2> QED BY ONLY <2>1, <2>6, <2>7 DEF DRing
<1> QED BY <1>4, <1>5

(* A callback runs.                                                        *)
RunsNext(a, w, t, c) ==
    /\ c = Decode(dq[t], w.i)
    /\ dact' = [dact EXCEPT ![a].todo = <<[w EXCEPT !.i = plus(w.i, c.n)]>> \o Tail(@)]
    /\ dq' = [dq EXCEPT ![t].fct_out = c.f]
    /\ deferred' = [deferred EXCEPT ![t] = Tail(@)]

LEMMA DRuns ==
    ASSUME DInv, NEW a \in Actors, NEW w, NEW t, NEW c, dact[a].pc = "drain",
           dact[a].todo # << >>, w = Head(dact[a].todo), t = w.t, w.i # w.to,
           RunsNext(a, w, t, c),
           registry_defer' = registry_defer, rcu_defer_mutex' = rcu_defer_mutex,
           dcs' = dcs, dgp' = dgp
    PROVE  DInv' /\ deferred[t] # << >> /\ deferred[t][1].hold = {}
<1>1. DTypes /\ dact[a] \in ActorType /\ DOMAIN dact = Actors BY DEF DInv, DTypes
<1>2. PICK y \in ActorType : y = dact[a] BY <1>1
<1>3. y.todo \in Seq(Job) /\ y.todo # << >> /\ w = y.todo[1] /\ w \in Job
  <2>1. y.todo \in Seq(Job) /\ y.todo # << >> BY <1>2 DEF ActorType
  <2>2. Head(y.todo) = y.todo[1] /\ Head(y.todo) \in Job BY <2>1
  <2> QED BY <1>2, <2>1, <2>2
<1>4. t \in DThreads /\ w.i \in Nat /\ w.to \in Nat BY <1>3 DEF Job
<1>5. /\ DGone(t) /\ DRing(t) /\ t \in Actors /\ deferred[t] \in Seq(Entry) /\ dq[t] \in RingType
  BY <1>4, DThreadOf
<1>6. c.n \in {1, 2, 3} /\ c = Decode(dq[t], w.i)
  <2>1. c = Decode(dq[t], w.i) BY ONLY RunsNext(a, w, t, c) DEF RunsNext
  <2> QED BY ONLY <2>1 DEF Decode
<1>7. plus(w.i, c.n) \in Nat
  <2>1. w.i + c.n \in Int BY <1>4, <1>6
  <2> QED BY <2>1, DeferAssumption DEF plus
<1>8. PICK x : x = [w EXCEPT !.i = plus(w.i, c.n)] OBVIOUS
<1>9. x \in Job /\ x.t = t /\ x.i = plus(w.i, c.n) /\ x.to = w.to
  BY <1>3, <1>7, <1>8 DEF Job
<1>10. PICK z : z = <<x>> \o Tail(y.todo) OBVIOUS
<1>11. /\ z \in Seq(Job) /\ z # << >> /\ Len(z) = Len(y.todo) /\ Head(z) = x /\ z[1] = x
       /\ \A j \in DOMAIN z : j \in DOMAIN y.todo /\ (j # 1 => z[j] = y.todo[j])
  BY ONLY <1>3, <1>9, <1>10, DFirstMoves
<1>12. PICK y2 : y2 = [y EXCEPT !.todo = z] OBVIOUS
<1>13. y2 \in ActorType /\ y2.todo = z /\ y2.pc = y.pc /\ y2.ret = y.ret /\ y2.cb = y.cb
  BY <1>11, <1>12 DEF ActorType
<1>14. dact' = [dact EXCEPT ![a] = y2]
  <2>1. dact' = [dact EXCEPT ![a] = [dact[a] EXCEPT !.todo =
                   <<[w EXCEPT !.i = plus(w.i, c.n)]>> \o Tail(dact[a].todo)]]
    BY ONLY <1>1, RunsNext(a, w, t, c), a \in Actors DEF RunsNext
  <2> QED BY ONLY <1>2, <1>8, <1>10, <1>12, <2>1
<1>15. /\ dact' \in [Actors -> ActorType] /\ dact'[a] = y2
       /\ \A b \in Actors \ {a} : dact'[b] = dact[b]
  BY <1>1, <1>13, <1>14 DEF DTypes
<1>16. /\ rcu_defer_mutex = a
       /\ \A b \in Actors \ {a} : dact[b].pc \notin Phases /\ dact[b].todo = << >>
  BY DAlone DEF Phases
<1>17. PICK d \in RingType, df \in Seq(Entry) : d = dq[t] /\ df = deferred[t] BY <1>5
<1>18. PICK e : e = [d EXCEPT !.fct_out = c.f] OBVIOUS
<1>19. /\ e.q = d.q /\ e.head = d.head /\ e.tail = d.tail /\ e.fct_in = d.fct_in
       /\ e.fct_out = c.f /\ e.last_head = d.last_head
  BY <1>18 DEF RingType
<1>20. dact'[t].pc = dact[t].pc
  <2>1. CASE t = a BY <2>1, <1>2, <1>13, <1>15
  <2>2. CASE t # a
    <3>1. dact'[t] = dact[t] BY <1>5, <1>15, <2>2
    <3> QED BY <3>1
  <2> QED BY <2>1, <2>2
<1>21. \A j, k \in DOMAIN z : z[j].t = z[k].t => j = k
  <2>1. \A j, k \in DOMAIN y.todo : y.todo[j].t = y.todo[k].t => j = k
    BY <1>2 DEF DInv, DMutex
  <2>2. \A j \in DOMAIN z : j \in DOMAIN y.todo /\ z[j].t = y.todo[j].t
    <3> SUFFICES ASSUME NEW j \in DOMAIN z PROVE j \in DOMAIN y.todo /\ z[j].t = y.todo[j].t
      OBVIOUS
    <3>1. CASE j = 1 BY <1>3, <1>9, <1>11, <3>1
    <3>2. CASE j # 1 BY <1>11, <3>2
    <3> QED BY <3>1, <3>2
  <2> QED BY ONLY <2>1, <2>2
<1>22. /\ df # << >> /\ df[1].hold = {} /\ c.f = df[1].f
       /\ RingOk(t, e, Tail(df), dact', dgp)
  <2>1. PICK ac, ad : ac = dact /\ ad = dact' OBVIOUS
  <2>2. RingOk(t, d, df, ac, dgp) BY ONLY <1>5, <1>17, <2>1 DEF DRing
  <2>3. /\ ac[a].todo # << >> /\ ac[a].todo \in Seq(Job) /\ w = ac[a].todo[1]
        /\ ac[a].pc = "drain" /\ ad[a].pc = "drain"
    BY <1>2, <1>3, <1>13, <1>15, <2>1
  <2>4. c = Decode(d, w.i) BY ONLY <1>6, <1>17
  <2>5. ad[t].pc = "encode" => ac[t].pc = "encode" BY ONLY <1>20, <2>1
  <2>6. /\ ad[a].todo # << >> /\ Head(ad[a].todo).t = t /\ ad[a].todo[1].i = plus(w.i, c.n)
        /\ ad[a].todo[1].to = w.to
    BY ONLY <1>9, <1>11, <1>13, <1>15, <2>1
  <2>7. \A j \in DOMAIN ad[a].todo : ad[a].todo[j].t = t => j = 1
    <3>1. 1 \in DOMAIN z BY <1>11
    <3>2. z[1].t = t BY ONLY <1>9, <1>11
    <3> QED BY ONLY <1>13, <1>15, <1>21, <2>1, <3>1, <3>2
  <2>8. \A b \in Actors \ {a} : ad[b].todo = << >>
    <3> SUFFICES ASSUME NEW b \in Actors \ {a} PROVE ad[b].todo = << >> OBVIOUS
    <3>1. dact'[b] = dact[b] /\ dact[b].todo = << >> BY <1>15, <1>16
    <3> QED BY ONLY <2>1, <3>1
  <2>9. Advances(t, d, df, ac, ad, dgp, a, w, c, e)
    BY ONLY t = w.t, w.i # w.to, <1>19, <2>2, <2>3, <2>4, <2>5, <2>6, <2>7, <2>8
    DEF Advances
  <2>10. /\ df # << >> /\ df[1].hold = {} /\ c.f = df[1].f
         /\ RingOk(t, e, Tail(df), ad, dgp)
    BY ONLY a \in Actors, d \in RingType, df \in Seq(Entry), <2>9, RingAdvance
  <2> QED BY ONLY <2>1, <2>10
<1>23. e \in RingType
  <2>1. df[1] \in Entry BY <1>22
  <2>2. c.f \in Word BY <1>22, <2>1 DEF Entry
  <2> QED BY <1>18, <2>2 DEF RingType
<1>24. dq' = [dq EXCEPT ![t] = e]
  <2>1. dq' = [dq EXCEPT ![t] = [dq[t] EXCEPT !.fct_out = c.f]]
    BY ONLY RunsNext(a, w, t, c) DEF RunsNext
  <2> QED BY ONLY <1>17, <1>18, <2>1
<1>25. /\ dq' \in [DThreads -> RingType] /\ dq'[t] = e
       /\ \A u \in DThreads \ {t} : dq'[u] = dq[u]
  BY <1>1, <1>4, <1>23, <1>24 DEF DTypes
<1>26. PICK dg \in Seq(Entry) : dg = Tail(df)
  <2>1. df \in Seq(Entry) /\ df # << >> BY <1>22
  <2>2. Tail(df) \in Seq(Entry) BY ONLY <2>1
  <2> QED BY ONLY <2>2
<1>27. /\ deferred' \in [DThreads -> Seq(Entry)] /\ deferred'[t] = dg
       /\ \A u \in DThreads \ {t} : deferred'[u] = deferred[u]
  <2>1. deferred' = [deferred EXCEPT ![t] = dg]
    <3>1. deferred' = [deferred EXCEPT ![t] = Tail(deferred[t])]
      BY ONLY RunsNext(a, w, t, c) DEF RunsNext
    <3> QED BY ONLY <1>17, <1>26, <3>1
  <2> QED BY <1>1, <1>4, <2>1 DEF DTypes
<1>28. DHolds'
  <2> SUFFICES ASSUME NEW u \in DThreads, NEW k \in 1 .. Len(deferred'[u])
               PROVE  deferred'[u][k].hold \subseteq dcs'
    BY DEF DHolds
  <2>1. \A v \in DThreads : \A j \in 1 .. Len(deferred[v]) : deferred[v][j].hold \subseteq dcs
    BY DEF DInv, DHolds
  <2>2. CASE u # t
    <3>1. deferred'[u] = deferred[u] BY <1>27, <2>2
    <3> QED BY <2>1, <3>1
  <2>3. CASE u = t
    <3>1. k \in 1 .. Len(dg) /\ deferred'[u][k] = dg[k] BY <1>27, <2>3
    <3>2. k + 1 \in 1 .. Len(df) /\ dg[k] = df[k + 1] BY <1>22, <1>26, <3>1
    <3>3. df[k + 1].hold \subseteq dcs BY <1>4, <1>17, <2>1, <3>2
    <3> QED BY ONLY <3>1, <3>2, <3>3, dcs' = dcs
  <2> QED BY <2>2, <2>3
<1>29. a \in DThreads => DOwn(a)'
  <2> SUFFICES ASSUME a \in DThreads PROVE DOwn(a)' OBVIOUS
  <2>1. DOwn(a) BY DThreadOf
  <2>2. dq'[a].head = dq[a].head
    <3>1. CASE a = t BY ONLY <1>17, <1>19, <1>25, <3>1
    <3>2. CASE a # t
      <4>1. dq'[a] = dq[a] BY <1>25, <3>2
      <4> QED BY <4>1
    <3> QED BY <3>1, <3>2
  <2> QED BY ONLY <1>2, <1>3, <1>9, <1>11, <1>13, <1>15, <2>1, <2>2, t = w.t DEF DOwn
<1>30. ASSUME NEW u \in DThreads PROVE DGone(u)' /\ DRing(u)'
  <2>1. CASE u = t
    <3>1. DRing(t)' BY ONLY <1>22, <1>25, <1>26, <1>27, dgp' = dgp DEF DRing
    <3>2. DGone(t)' BY ONLY <1>5, <1>17, <1>19, <1>20, <1>22, <1>25, registry_defer' = registry_defer
                    DEF DGone
    <3> QED BY <2>1, <3>1, <3>2
  <2>2. CASE u # t
    <3>1. dq'[u] = dq[u] /\ deferred'[u] = deferred[u] BY <1>25, <1>27, <2>2
    <3>2. u # Head(dact[a].todo).t BY <2>2
    <3>3. ASSUME NEW j \in DOMAIN dact'[a].todo, dact'[a].todo[j].t = u
          PROVE  \E k \in DOMAIN dact[a].todo : dact[a].todo[k] = dact'[a].todo[j]
      <4>1. j \in DOMAIN z /\ z[j].t = u BY <1>13, <1>15, <3>3
      <4>2. j # 1 BY <1>9, <1>11, <2>2, <4>1
      <4>3. j \in DOMAIN y.todo /\ z[j] = y.todo[j] BY <1>11, <4>1, <4>2
      <4> QED BY ONLY <1>2, <1>13, <1>15, <4>3
    <3>4. dact'[a].pc = "drain" BY <1>2, <1>13, <1>15
    <3> QED BY <1>15, <3>1, <3>2, <3>3, <3>4, DOthers
  <2> QED BY <2>1, <2>2
<1>31. /\ dact'[a].pc = "drain" /\ dact'[a].ret = dact[a].ret /\ dact'[a].cb = dact[a].cb
       /\ \A j, k \in DOMAIN dact'[a].todo :
              dact'[a].todo[j].t = dact'[a].todo[k].t => j = k
  BY <1>2, <1>13, <1>15, <1>21
<1>32. DInv' BY <1>15, <1>25, <1>27, <1>28, <1>29, <1>30, <1>31, DDrainFrame
<1> QED BY <1>17, <1>22, <1>32

(* What remains of a ring when the words read are cleared is a ring: a     *)
(* thread without a ring has no words to clear.                            *)
DrainsAt(t, d, df, act, gp, a, w) ==
    /\ RingOk(t, d, df, act, gp)
    /\ act[a].todo # << >> /\ act[a].todo \in Seq(Job) /\ w = act[a].todo[1]
    /\ w.t = t /\ act[a].pc = "drain" /\ (d.q = << >> => df = << >>)

LEMMA RingCleared ==
    ASSUME NEW t, NEW d \in RingType, NEW df \in Seq(Entry), NEW act, NEW gp,
           NEW a \in Actors, NEW w, DrainsAt(t, d, df, act, gp, a, w)
    PROVE  Cleared(d, w.i) \in [1 .. DQSize -> Word] /\ Cleared(d, w.i) # << >>
<1>a. /\ RingOk(t, d, df, act, gp)
      /\ act[a].todo # << >> /\ act[a].todo \in Seq(Job) /\ w = act[a].todo[1]
      /\ w.t = t /\ act[a].pc = "drain" /\ (d.q = << >> => df = << >>)
  BY ONLY DrainsAt(t, d, df, act, gp, a, w) DEF DrainsAt
<1> USE <1>a
<1>0. 0 \in Word /\ 1 \in 1 .. DQSize BY DeferAssumption DEF Word
<1>1. Cleared(d, w.i) # << >>
  <2>1. 1 \in DOMAIN Cleared(d, w.i) BY <1>0 DEF Cleared
  <2>2. DOMAIN << >> = {} OBVIOUS
  <2> QED BY <2>1, <2>2
<1>2. CASE d.q # << >>
  <2>1. d.q \in [1 .. DQSize -> Word] BY <1>2 DEF RingType
  <2> QED BY <1>0, <1>1, <2>1 DEF Cleared
<1>3. CASE d.q = << >>
  <2>1. PICK v \in Nat, s \in Positions : RingAt(t, d, df, act, gp, v, s) BY DEF RingOk
  <2>2. DCut(d, df, v, s) BY ONLY <2>1 DEF RingAt
  <2>3. 1 \in DOMAIN act[a].todo BY EmptySeq
  <2>4. act[a].todo[1].t = t OBVIOUS
  <2>5. JobOk(act[a].todo[1], act[a].pc, df, s, gp)
    BY ONLY <2>1, <2>3, <2>4, a \in Actors DEF RingAt
  <2>6. w.i = s[1] % WordRange BY ONLY <2>5, w = act[a].todo[1] DEF JobOk
  <2>7. /\ s[Len(df) + 1] \in Nat
        /\ minus(d.head, s[1] % WordRange) = s[Len(df) + 1] - s[1]
    BY <2>2, RingFill
  <2>8. Len(df) + 1 = 1 BY <1>3
  <2>9. PICK x \in Nat : x = s[1] /\ x = s[Len(df) + 1] BY ONLY <2>7, <2>8
  <2>10. minus(d.head, w.i) = x - x BY ONLY <2>6, <2>7, <2>9
  <2>11. minus(d.head, w.i) = 0 BY ONLY <2>10, x \in Nat
  <2>12. Live(d, w.i) = {}
    <3>1. 0 .. 0 - 1 = {} OBVIOUS
    <3> QED BY ONLY <2>11, <3>1 DEF Live
  <2> QED BY <1>0, <1>1, <2>12 DEF Cleared
<1> QED BY <1>2, <1>3

(* A ring is drained.                                                      *)
FinishesNext(a, w, t) ==
    /\ dq' = [dq EXCEPT ![t].tail = w.i,
                        ![t].q = [k \in 1 .. DQSize |->
                                    IF k \in Live(dq[t], w.i) THEN @[k] ELSE 0]]
    /\ dact' = [dact EXCEPT ![a].todo = Tail(@)]
    /\ deferred' = deferred

LEMMA DFinishes ==
    ASSUME DInv, NEW a \in Actors, NEW w, NEW t, dact[a].pc = "drain",
           dact[a].todo # << >>, w = Head(dact[a].todo), t = w.t, w.i = w.to,
           FinishesNext(a, w, t),
           registry_defer' = registry_defer, rcu_defer_mutex' = rcu_defer_mutex,
           dcs' = dcs, dgp' = dgp
    PROVE  DInv'
<1>1. DTypes /\ dact[a] \in ActorType /\ DOMAIN dact = Actors BY DEF DInv, DTypes
<1>2. PICK y \in ActorType : y = dact[a] BY <1>1
<1>3. y.todo \in Seq(Job) /\ y.todo # << >> /\ w = y.todo[1] /\ w \in Job
  <2>1. y.todo \in Seq(Job) /\ y.todo # << >> BY <1>2 DEF ActorType
  <2>2. Head(y.todo) = y.todo[1] /\ Head(y.todo) \in Job BY <2>1
  <2> QED BY <1>2, <2>1, <2>2
<1>4. t \in DThreads /\ w.i \in Nat /\ w.to \in Nat BY <1>3 DEF Job
<1>5. /\ DGone(t) /\ DRing(t) /\ t \in Actors /\ deferred[t] \in Seq(Entry) /\ dq[t] \in RingType
  BY <1>4, DThreadOf
<1>10. PICK z : z = Tail(y.todo) OBVIOUS
<1>11. /\ z \in Seq(Job)
       /\ \A j \in DOMAIN z : j + 1 \in DOMAIN y.todo /\ j + 1 # 1 /\ z[j] = y.todo[j + 1]
       /\ \A j, k \in DOMAIN z : j + 1 = k + 1 => j = k
       /\ Len(y.todo) = 1 => z = << >>
  BY ONLY <1>3, <1>10, DFirstDone
<1>12. PICK y2 : y2 = [y EXCEPT !.todo = z] OBVIOUS
<1>13. y2 \in ActorType /\ y2.todo = z /\ y2.pc = y.pc /\ y2.ret = y.ret /\ y2.cb = y.cb
  BY <1>11, <1>12 DEF ActorType
<1>14. dact' = [dact EXCEPT ![a] = y2]
  <2>1. dact' = [dact EXCEPT ![a] = [dact[a] EXCEPT !.todo = Tail(dact[a].todo)]]
    BY ONLY <1>1, FinishesNext(a, w, t), a \in Actors DEF FinishesNext
  <2> QED BY ONLY <1>2, <1>10, <1>12, <2>1
<1>15. /\ dact' \in [Actors -> ActorType] /\ dact'[a] = y2
       /\ \A b \in Actors \ {a} : dact'[b] = dact[b]
  BY <1>1, <1>13, <1>14 DEF DTypes
<1>16. /\ rcu_defer_mutex = a
       /\ \A b \in Actors \ {a} : dact[b].pc \notin Phases /\ dact[b].todo = << >>
  BY DAlone DEF Phases
<1>17. PICK d \in RingType, df \in Seq(Entry) : d = dq[t] /\ df = deferred[t] BY <1>5
<1>18. PICK e : e = [d EXCEPT !.tail = w.i, !.q = Cleared(d, w.i)] OBVIOUS
<1>19. Cleared(d, w.i) \in [1 .. DQSize -> Word] /\ Cleared(d, w.i) # << >>
  <2>1. RingOk(t, d, df, dact, dgp) BY ONLY <1>5, <1>17 DEF DRing
  <2>2. d.q = << >> => df = << >> BY ONLY <1>5, <1>17 DEF DGone
  <2>3. /\ dact[a].todo # << >> /\ dact[a].todo \in Seq(Job) /\ w = dact[a].todo[1]
        /\ w.t = t /\ dact[a].pc = "drain"
    BY <1>2, <1>3
  <2>4. DrainsAt(t, d, df, dact, dgp, a, w) BY ONLY <2>1, <2>2, <2>3 DEF DrainsAt
  <2> QED BY ONLY a \in Actors, d \in RingType, df \in Seq(Entry), <2>4, RingCleared
<1>20. /\ e.q = Cleared(d, w.i) /\ e.head = d.head /\ e.tail = w.i /\ e.fct_in = d.fct_in
       /\ e.fct_out = d.fct_out /\ e \in RingType
  <2>1. PICK q \in [1 .. DQSize -> Word] : q = Cleared(d, w.i) BY ONLY <1>19
  <2>2. PICK n \in Nat : n = w.i BY ONLY <1>4
  <2>3. e = [d EXCEPT !.tail = n, !.q = q] BY ONLY <1>18, <2>1, <2>2
  <2>4. /\ e.q = q /\ e.head = d.head /\ e.tail = n /\ e.fct_in = d.fct_in
        /\ e.fct_out = d.fct_out /\ e \in RingType
    BY ONLY <2>3, d \in RingType, q \in [1 .. DQSize -> Word], n \in Nat DEF RingType
  <2> QED BY ONLY <2>1, <2>2, <2>4
<1>21. dact'[t].pc = dact[t].pc
  <2>1. CASE t = a BY <2>1, <1>2, <1>13, <1>15
  <2>2. CASE t # a
    <3>1. dact'[t] = dact[t] BY <1>5, <1>15, <2>2
    <3> QED BY <3>1
  <2> QED BY <2>1, <2>2
<1>22. \A j, k \in DOMAIN y.todo : y.todo[j].t = y.todo[k].t => j = k
  BY <1>2 DEF DInv, DMutex
<1>23. \A j, k \in DOMAIN z : z[j].t = z[k].t => j = k BY ONLY <1>11, <1>22
<1>24. \A j \in DOMAIN z : z[j].t # t
  <2> SUFFICES ASSUME NEW j \in DOMAIN z, z[j].t = t PROVE FALSE OBVIOUS
  <2>1. 1 \in DOMAIN y.todo /\ y.todo[1].t = t
    <3>1. 1 \in DOMAIN y.todo BY <1>3, EmptySeq
    <3> QED BY ONLY <3>1, <1>3, t = w.t
  <2> QED BY ONLY <1>11, <1>22, <2>1, j \in DOMAIN z, z[j].t = t
<1>25. RingOk(t, e, df, dact', dgp)
  <2>1. PICK ac, ad : ac = dact /\ ad = dact' OBVIOUS
  <2>2. RingOk(t, d, df, ac, dgp) BY ONLY <1>5, <1>17, <2>1 DEF DRing
  <2>3. /\ ac[a].todo # << >> /\ ac[a].todo \in Seq(Job) /\ w = ac[a].todo[1]
        /\ ac[a].pc = "drain"
    BY <1>2, <1>3, <2>1
  <2>4. ad[t].pc = "encode" => ac[t].pc = "encode" BY ONLY <1>21, <2>1
  <2>5. \A b \in Actors : \A j \in DOMAIN ad[b].todo : ad[b].todo[j].t # t
    <3> SUFFICES ASSUME NEW b \in Actors, NEW j \in DOMAIN dact'[b].todo
                 PROVE  dact'[b].todo[j].t # t
      BY <2>1
    <3>1. CASE b = a BY ONLY <1>13, <1>15, <1>24, <3>1, j \in DOMAIN dact'[b].todo
    <3>2. CASE b # a
      <4>1. dact'[b] = dact[b] /\ dact[b].todo = << >> BY <1>15, <1>16, <3>2
      <4>2. DOMAIN << >> = {} OBVIOUS
      <4> QED BY ONLY <4>1, <4>2, j \in DOMAIN dact'[b].todo
    <3> QED BY <3>1, <3>2
  <2>6. Finishes(t, d, df, ac, ad, dgp, a, w, e)
    BY ONLY t = w.t, w.i = w.to, <1>20, <2>2, <2>3, <2>4, <2>5 DEF Finishes
  <2>7. RingOk(t, e, df, ad, dgp)
    BY ONLY a \in Actors, d \in RingType, df \in Seq(Entry), <1>20, <2>6, RingFinish
  <2> QED BY ONLY <2>1, <2>7
<1>26. dq' = [dq EXCEPT ![t] = e]
  <2>1. dq' = [dq EXCEPT ![t] = [dq[t] EXCEPT !.tail = w.i,
                                  !.q = [k \in 1 .. DQSize |->
                                    IF k \in Live(dq[t], w.i) THEN dq[t].q[k] ELSE 0]]]
    BY <1>1, <1>4, <1>5 DEF FinishesNext, DTypes, RingType
  <2>2. dq' = [dq EXCEPT ![t] = [dq[t] EXCEPT !.tail = w.i, !.q = Cleared(dq[t], w.i)]]
    BY ONLY <2>1 DEF Cleared
  <2> QED BY ONLY <1>17, <1>18, <2>2
<1>27. /\ dq' \in [DThreads -> RingType] /\ dq'[t] = e
       /\ \A u \in DThreads \ {t} : dq'[u] = dq[u]
  BY <1>1, <1>4, <1>20, <1>26 DEF DTypes
<1>28. deferred' = deferred /\ deferred' \in [DThreads -> Seq(Entry)]
  BY <1>1 DEF FinishesNext, DTypes
<1>29. DHolds'
  <2>1. DHolds BY DEF DInv
  <2> QED BY ONLY <1>28, <2>1, dcs' = dcs DEF DHolds
<1>30. a \in DThreads => DOwn(a)'
  <2> SUFFICES ASSUME a \in DThreads PROVE DOwn(a)' OBVIOUS
  <2>1. DOwn(a) BY DThreadOf
  <2>2. a = t => dq'[a].head = dq[a].head /\ dq'[a].tail = w.i BY ONLY <1>17, <1>20, <1>27
  <2> QED BY ONLY <1>2, <1>3, <1>11, <1>13, <1>15, <2>1, <2>2, t = w.t, w.i = w.to DEF DOwn
<1>31. ASSUME NEW u \in DThreads PROVE DGone(u)' /\ DRing(u)'
  <2>1. CASE u = t
    <3>1. DRing(t)' BY ONLY <1>17, <1>25, <1>27, <1>28, dgp' = dgp DEF DRing
    <3>2. dq'[t].q # << >> BY ONLY <1>19, <1>20, <1>27
    <3>3. DGone(t)' BY ONLY <1>5, <1>21, <1>28, <3>2, registry_defer' = registry_defer DEF DGone
    <3> QED BY <2>1, <3>1, <3>3
  <2>2. CASE u # t
    <3>1. dq'[u] = dq[u] /\ deferred'[u] = deferred[u] BY <1>27, <1>28, <2>2
    <3>2. u # Head(dact[a].todo).t BY <2>2
    <3>3. ASSUME NEW j \in DOMAIN dact'[a].todo, dact'[a].todo[j].t = u
          PROVE  \E k \in DOMAIN dact[a].todo : dact[a].todo[k] = dact'[a].todo[j]
      <4>1. j \in DOMAIN z BY <1>13, <1>15, <3>3
      <4>2. j + 1 \in DOMAIN y.todo /\ z[j] = y.todo[j + 1] BY <1>11, <4>1
      <4> QED BY ONLY <1>2, <1>13, <1>15, <4>2
    <3>4. dact'[a].pc = "drain" BY <1>2, <1>13, <1>15
    <3> QED BY <1>15, <3>1, <3>2, <3>3, <3>4, DOthers
  <2> QED BY <2>1, <2>2
<1>32. /\ dact'[a].pc = "drain" /\ dact'[a].ret = dact[a].ret /\ dact'[a].cb = dact[a].cb
       /\ \A j, k \in DOMAIN dact'[a].todo :
              dact'[a].todo[j].t = dact'[a].todo[k].t => j = k
  BY <1>2, <1>13, <1>15, <1>23
<1> QED BY <1>15, <1>27, <1>28, <1>29, <1>30, <1>31, <1>32, DDrainFrame

LEMMA DDrains ==
    ASSUME DInv, NEW a \in Actors, rcu_defer_barrier_queue(a)
    PROVE  DInv'
<1>1. PICK w, t, c : w = Head(dact[a].todo) /\ t = w.t /\ c = Decode(dq[t], w.i) BY Zenon
<1>2. dact[a].pc = "drain" /\ dact[a].todo # << >> BY DEF rcu_defer_barrier_queue, dat
<1>3. /\ registry_defer' = registry_defer /\ rcu_defer_mutex' = rcu_defer_mutex
      /\ dcs' = dcs /\ dgp' = dgp
  BY Zenon DEF rcu_defer_barrier_queue, dlocks, dreaders
<1>4. w.i # w.to => RunsNext(a, w, t, c)
  BY ONLY <1>1, rcu_defer_barrier_queue(a), Zenon DEF rcu_defer_barrier_queue, RunsNext
<1>5. w.i = w.to => FinishesNext(a, w, t)
  BY ONLY <1>1, rcu_defer_barrier_queue(a), Zenon DEF rcu_defer_barrier_queue, FinishesNext
<1>6. CASE w.i # w.to BY ONLY <1>1, <1>2, <1>3, <1>4, <1>6, a \in Actors, DInv, DRuns
<1>7. CASE w.i = w.to BY ONLY <1>1, <1>2, <1>3, <1>5, <1>7, a \in Actors, DInv, DFinishes
<1> QED BY <1>6, <1>7

(***************************************************************************)
(* A callback is stored.                                                   *)
(***************************************************************************)

(* Every slot is one of the next DQSize.                                   *)
LEMMA DSlotOnto ==
    ASSUME NEW h \in Nat, NEW k \in 1 .. DQSize
    PROVE  \E j \in 0 .. DQSize - 1 : slot(h + j) = k
<1>1. DQSize \in Nat /\ DQSize > 0 BY DeferAssumption
<1>2. h = DQSize * (h \div DQSize) + (h % DQSize) /\ h \div DQSize \in Int
      /\ h % DQSize \in 0 .. DQSize - 1
  BY <1>1, DDivision
<1>3. PICK q \in Int, r \in 0 .. DQSize - 1 : h = DQSize * q + r BY ONLY <1>2
<1>4. ASSUME NEW l \in Int, NEW j \in 0 .. DQSize - 1, h + j = DQSize * l + (k - 1)
      PROVE  slot(h + j) = k
  <2>1. h + j \in Int /\ k - 1 \in Int BY <1>1
  <2>2. (h + j) % DQSize = (k - 1) % DQSize BY ONLY <1>1, <1>4, <2>1, l \in Int, DModShift
  <2>3. (k - 1) % DQSize = k - 1 BY <1>1
  <2>4. (k - 1) + 1 = k OBVIOUS
  <2> QED BY ONLY <2>2, <2>3, <2>4 DEF slot
<1>5. CASE k - 1 >= r
  <2>1. (k - 1) - r \in 0 .. DQSize - 1 BY <1>1, <1>5
  <2>2. PICK m \in Int : m = DQSize * q BY <1>1
  <2>3. h + ((k - 1) - r) = m + (k - 1) BY <1>3, <2>2
  <2>4. h + ((k - 1) - r) = DQSize * q + (k - 1) BY ONLY <2>2, <2>3
  <2>5. slot(h + ((k - 1) - r)) = k BY ONLY <1>4, <2>1, <2>4, q \in Int
  <2> QED BY ONLY <2>1, <2>5
<1>6. CASE ~ (k - 1 >= r)
  <2>1. ((k - 1) - r) + DQSize \in 0 .. DQSize - 1 BY <1>1, <1>6
  <2>2. PICK m \in Int : m = DQSize * q BY <1>1
  <2>3. DQSize * (q + 1) = m + DQSize BY <1>1, <2>2
  <2>4. h + (((k - 1) - r) + DQSize) = (m + DQSize) + (k - 1) BY <1>1, <1>3, <2>2
  <2>5. h + (((k - 1) - r) + DQSize) = DQSize * (q + 1) + (k - 1) BY ONLY <2>3, <2>4
  <2>6. q + 1 \in Int OBVIOUS
  <2>7. slot(h + (((k - 1) - r) + DQSize)) = k BY ONLY <1>4, <2>1, <2>5, <2>6
  <2> QED BY ONLY <2>1, <2>7
<1> QED BY <1>5, <1>6

LEMMA DStoredType ==
    ASSUME NEW d \in RingType, d.q # << >>, NEW ws \in Seq(Word)
    PROVE  Stored(d, ws) \in [1 .. DQSize -> Word] /\ Stored(d, ws) # << >>
<1>1. d.q \in [1 .. DQSize -> Word] /\ d.head \in Nat BY DEF RingType
<1>2. ASSUME NEW k \in 1 .. DQSize PROVE Stored(d, ws)[k] \in Word
  <2>1. PICK i \in 0 .. DQSize - 1 : i = CHOOSE j \in 0 .. DQSize - 1 : slot(d.head + j) = k
    BY <1>1, DSlotOnto
  <2>2. Stored(d, ws)[k] = IF i < Len(ws) THEN ws[i + 1] ELSE d.q[k] BY <2>1 DEF Stored
  <2>3. CASE i < Len(ws)
    <3>1. i + 1 \in 1 .. Len(ws) BY <2>3, DeferAssumption
    <3>2. ws[i + 1] \in Word BY <3>1
    <3> QED BY ONLY <2>2, <2>3, <3>2
  <2>4. CASE ~ (i < Len(ws)) BY <1>1, <2>2, <2>4
  <2> QED BY <2>3, <2>4
<1>3. DOMAIN Stored(d, ws) = 1 .. DQSize
      /\ Stored(d, ws) = [k \in 1 .. DQSize |-> Stored(d, ws)[k]]
  BY DEF Stored
<1>4. Stored(d, ws) # << >>
  <2>1. 1 \in 1 .. DQSize BY DeferAssumption
  <2>2. DOMAIN << >> = {} OBVIOUS
  <2> QED BY <1>3, <2>1, <2>2
<1> QED BY ONLY <1>2, <1>3, <1>4

LEMMA DStores ==
    ASSUME DInv, NEW t \in DThreads, DStore(t)
    PROVE  DInv'
<1>1. /\ DTypes /\ t \in Actors /\ t # "thr_defer" /\ DControl(t) /\ DGone(t) /\ DRing(t)
      /\ dact[t] \in ActorType /\ deferred[t] \in Seq(Entry) /\ dq[t] \in RingType
  BY DThreadOf
<1>2. PICK y \in ActorType, d \in RingType, df \in Seq(Entry) :
        y = dact[t] /\ d = dq[t] /\ df = deferred[t]
  BY ONLY <1>1
<1>3. y.pc = "encode" /\ y.todo = << >>
  <2>1. y.pc = "encode" BY <1>2 DEF DStore, dat
  <2> QED BY <1>1, <1>2, <2>1 DEF DInv, DMutex, Phases
<1>4. y.cb \in DCallbacks /\ t \in Range(registry_defer)
  BY ONLY <1>1, <1>2, <1>3 DEF DControl
<1>5. d.q # << >> BY ONLY <1>1, <1>2, <1>4 DEF DGone
<1>6. PICK f \in Word, p \in Word : f = y.cb[1] /\ p = y.cb[2]
  BY <1>4, DeferAssumption DEF Word
<1>7. d.fct_in \in Word /\ d.head \in Nat BY DEF RingType
<1>8. PICK ws \in Seq(Word) : ws = Encode(d.fct_in, f, p) /\ Len(ws) \in 1 .. 3
  BY <1>7, DEncodeType
<1>9. PICK en : en = [f |-> f, p |-> p, hold |-> dcs] OBVIOUS
<1>10. en \in Entry /\ en.f = f /\ en.p = p /\ en.hold = dcs
  BY <1>1, <1>9 DEF Entry, DTypes
<1>11. Stored(d, ws) \in [1 .. DQSize -> Word] /\ Stored(d, ws) # << >>
  BY ONLY d \in RingType, ws \in Seq(Word), <1>5, DStoredType
<1>12. plus(d.head, Len(ws)) \in Nat
  <2>1. d.head + Len(ws) \in Int BY <1>7
  <2> QED BY ONLY <2>1, DeferAssumption DEF plus
<1>13. PICK e : e = [d EXCEPT !.fct_in = f, !.q = Stored(d, ws),
                             !.head = plus(d.head, Len(ws))]
  OBVIOUS
<1>14. /\ e \in RingType /\ e.tail = d.tail /\ e.fct_in = f /\ e.fct_out = d.fct_out
       /\ e.head = plus(d.head, Len(ws)) /\ e.q = Stored(d, ws)
  <2>1. PICK q, h : q = Stored(d, ws) /\ h = plus(d.head, Len(ws)) OBVIOUS
  <2>2. q \in [1 .. DQSize -> Word] /\ h \in Nat BY ONLY <1>11, <1>12, <2>1
  <2>3. e = [d EXCEPT !.fct_in = f, !.q = q, !.head = h] BY ONLY <1>13, <2>1
  <2>4. /\ e \in RingType /\ e.tail = d.tail /\ e.fct_in = f /\ e.fct_out = d.fct_out
        /\ e.head = h /\ e.q = q
    BY ONLY <2>2, <2>3, d \in RingType, f \in Word DEF RingType
  <2> QED BY ONLY <2>1, <2>4
<1>15. dq' = [dq EXCEPT ![t] = e]
  <2>1. dq' = [dq EXCEPT ![t] = [dq[t] EXCEPT
                 !.fct_in = dact[t].cb[1],
                 !.q = Stored(dq[t], Encode(dq[t].fct_in, dact[t].cb[1], dact[t].cb[2])),
                 !.head = plus(dq[t].head,
                               Len(Encode(dq[t].fct_in, dact[t].cb[1], dact[t].cb[2])))]]
    BY ONLY DStore(t) DEF DStore, Stored
  <2> QED BY ONLY <1>2, <1>6, <1>8, <1>13, <2>1
<1>16. deferred' = [deferred EXCEPT ![t] = Append(df, en)]
  <2>1. deferred' = [deferred EXCEPT ![t] =
             Append(deferred[t], [f |-> dact[t].cb[1], p |-> dact[t].cb[2], hold |-> dcs])]
    BY ONLY DStore(t), Zenon DEF DStore
  <2> QED BY ONLY <1>2, <1>6, <1>9, <2>1
<1>17. PICK dg \in Seq(Entry) : dg = Append(df, en)
  <2>1. Append(df, en) \in Seq(Entry) BY ONLY <1>10, df \in Seq(Entry)
  <2> QED BY ONLY <2>1
<1>18. PICK y2 : y2 = [y EXCEPT !.pc = "wake", !.ret = "idle", !.cb = << >>] OBVIOUS
<1>19. y2 \in ActorType /\ y2.pc = "wake" /\ y2.ret = "idle" /\ y2.todo = y.todo
  <2>1. "wake" \in PCs /\ "idle" \in PCs BY DEF PCs
  <2> QED BY <1>18, <2>1 DEF ActorType
<1>20. dact' = [dact EXCEPT ![t] = y2]
  <2>1. dact' = [dact EXCEPT ![t] = [dact[t] EXCEPT !.pc = "wake", !.ret = "idle", !.cb = << >>]]
    <3>1. dact' = [dact EXCEPT ![t].pc = "wake", ![t].ret = "idle", ![t].cb = << >>]
      BY ONLY DStore(t), Zenon DEF DStore
    <3> QED BY <1>1, <3>1 DEF DTypes
  <2> QED BY ONLY <1>2, <1>18, <2>1
<1>21. /\ dact' \in [Actors -> ActorType] /\ dact'[t] = y2
       /\ \A b \in Actors \ {t} : dact'[b] = dact[b]
  BY ONLY <1>1, <1>19, <1>20 DEF DTypes
<1>22. /\ dq' \in [DThreads -> RingType] /\ dq'[t] = e
       /\ \A u \in DThreads \ {t} : dq'[u] = dq[u]
  BY ONLY <1>1, <1>14, <1>15, t \in DThreads DEF DTypes
<1>23. /\ deferred' \in [DThreads -> Seq(Entry)] /\ deferred'[t] = dg
       /\ \A u \in DThreads \ {t} : deferred'[u] = deferred[u]
  BY ONLY <1>1, <1>16, <1>17, t \in DThreads, dg \in Seq(Entry) DEF DTypes
<1>24. /\ registry_defer' = registry_defer /\ rcu_defer_mutex' = rcu_defer_mutex
       /\ dcs' = dcs /\ dgp' = dgp
  BY ONLY DStore(t), Zenon DEF DStore, dlocks, dreaders
<1>25. DTypes' BY ONLY <1>1, <1>21, <1>22, <1>23, <1>24 DEF DTypes
<1>26. \A b \in Actors : dact'[b] = dact[b] \/ (b = t /\ dact'[b].todo = << >>)
  BY ONLY <1>3, <1>19, <1>21
<1>27. DMutex'
  <2> SUFFICES ASSUME NEW b \in Actors
               PROVE  /\ dact'[b].pc \in Phases => rcu_defer_mutex' = b
                      /\ dact'[b].pc \notin Phases => dact'[b].todo = << >>
                      /\ \A j, k \in DOMAIN dact'[b].todo :
                            dact'[b].todo[j].t = dact'[b].todo[k].t => j = k
    BY DEF DMutex
  <2>1. CASE b = t
    <3>1. dact'[b].pc = "wake" /\ dact'[b].todo = << >> BY ONLY <1>3, <1>19, <1>21, <2>1
    <3>2. DOMAIN << >> = {} OBVIOUS
    <3> QED BY ONLY <3>1, <3>2 DEF Phases
  <2>2. CASE b # t
    <3>1. dact'[b] = dact[b] BY ONLY <1>21, <2>2, b \in Actors
    <3>2. DMutex BY DEF DInv
    <3> QED BY ONLY <1>24, <3>1, <3>2, b \in Actors DEF DMutex
  <2> QED BY <2>1, <2>2
<1>28. DRegistry' /\ DReclaimer'
  <2>1. "thr_defer" \in Actors BY DEF Actors
  <2>2. dact'["thr_defer"] = dact["thr_defer"] BY ONLY <1>1, <1>21, <2>1
  <2>3. DRegistry /\ DReclaimer BY DEF DInv
  <2> QED BY ONLY <1>24, <2>2, <2>3 DEF DRegistry, DReclaimer
<1>29. DHolds'
  <2> SUFFICES ASSUME NEW u \in DThreads, NEW k \in 1 .. Len(deferred'[u])
               PROVE  deferred'[u][k].hold \subseteq dcs'
    BY DEF DHolds
  <2>1. DHolds BY DEF DInv
  <2>2. CASE u # t
    <3>1. deferred'[u] = deferred[u] BY ONLY <1>23, <2>2, u \in DThreads
    <3> QED BY ONLY <1>24, <2>1, <3>1, u \in DThreads, k \in 1 .. Len(deferred'[u]) DEF DHolds
  <2>3. CASE u = t
    <3>1. k \in 1 .. Len(dg) /\ deferred'[u][k] = dg[k] BY ONLY <1>23, <2>3, k \in 1 .. Len(deferred'[u])
    <3>2. \/ k \in 1 .. Len(df) /\ dg[k] = df[k]
          \/ dg[k] = en
      BY ONLY <1>17, <3>1, df \in Seq(Entry), en \in Entry, <1>10
    <3>3. \A j \in 1 .. Len(df) : df[j].hold \subseteq dcs
      BY ONLY <1>2, <2>1, t \in DThreads DEF DHolds
    <3> QED BY ONLY <1>10, <1>24, <3>1, <3>2, <3>3
  <2> QED BY <2>2, <2>3
<1>30. \A b \in Actors : /\ dact'[b].todo = dact[b].todo
                         /\ dact'[b].pc = dact[b].pc \/ dact[b].todo = << >>
  <2> SUFFICES ASSUME NEW b \in Actors
               PROVE  /\ dact'[b].todo = dact[b].todo
                      /\ dact'[b].pc = dact[b].pc \/ dact[b].todo = << >>
    OBVIOUS
  <2>1. CASE b = t BY ONLY <1>2, <1>3, <1>19, <1>21, <2>1
  <2>2. CASE b # t
    <3>1. dact'[b] = dact[b] BY ONLY <1>21, <2>2, b \in Actors
    <3> QED BY ONLY <3>1
  <2> QED BY <2>1, <2>2
<1>31. DThread(t)'
  <2>1. DControl(t)' BY ONLY <1>19, <1>21 DEF DControl, Phases
  <2>2. DOwn(t)' BY ONLY <1>19, <1>21 DEF DOwn, Phases
  <2>3. DGone(t)' BY ONLY <1>4, <1>11, <1>14, <1>19, <1>21, <1>22, <1>24 DEF DGone
  <2>4. DRing(t)'
    <3>1. PICK ac, ad : ac = dact /\ ad = dact' OBVIOUS
    <3>2. RingOk(t, d, df, ac, dgp) BY ONLY <1>1, <1>2, <3>1 DEF DRing
    <3>3. ac[t].pc = "encode" /\ ad[t].pc # "encode"
      BY ONLY <1>2, <1>3, <1>19, <1>21, <3>1
    <3>4. \A b \in Actors : /\ ad[b].todo = ac[b].todo
                            /\ ad[b].pc = ac[b].pc \/ ac[b].todo = << >>
      BY ONLY <1>30, <3>1
    <3>5. ws = Encode(d.fct_in, en.f, en.p) BY ONLY <1>8, <1>10
    <3>6. Stores(t, d, df, ac, ad, dgp, en, ws, e)
      BY ONLY <1>10, <1>14, <3>2, <3>3, <3>4, <3>5 DEF Stores
    <3>7. RingOk(t, e, Append(df, en), ad, dgp)
      BY ONLY <1>10, <1>14, d \in RingType, df \in Seq(Entry), <3>6, RingStore
    <3> QED BY ONLY <1>17, <1>22, <1>23, <1>24, <3>1, <3>7 DEF DRing
  <2> QED BY ONLY <2>1, <2>2, <2>3, <2>4 DEF DThread
<1>32. ASSUME NEW u \in DThreads, u # t PROVE DThread(u)'
  <2>1. /\ DControl(u) /\ DOwn(u) /\ DGone(u) /\ DRing(u) /\ u \in Actors
        /\ deferred[u] \in Seq(Entry)
    BY DThreadOf
  <2>2. dact'[u] = dact[u] /\ dq'[u] = dq[u] /\ deferred'[u] = deferred[u]
    BY ONLY <1>21, <1>22, <1>23, <1>32, <2>1
  <2>3. DControl(u)' /\ DOwn(u)' /\ DGone(u)'
    BY ONLY <1>24, <2>1, <2>2 DEF DControl, DOwn, DGone
  <2>4. DRing(u)'
    <3>1. PICK g, dh, ac, ad : g = dq[u] /\ dh = deferred[u] /\ ac = dact /\ ad = dact' OBVIOUS
    <3>2. dh \in Seq(Entry) /\ RingOk(u, g, dh, ac, dgp) BY ONLY <2>1, <3>1 DEF DRing
    <3>3. ad[u].pc = "encode" => ac[u].pc = "encode" BY ONLY <2>2, <3>1
    <3>4. \A b \in Actors : /\ ad[b].todo = ac[b].todo
                            /\ ad[b].pc = ac[b].pc \/ ac[b].todo = << >>
      BY ONLY <1>30, <3>1
    <3>5. DOMAIN << >> = {} OBVIOUS
    <3>6. JobsKept(u, ac, ad) BY ONLY <3>4, <3>5 DEF JobsKept
    <3>7. Busy(u, ac) => Busy(u, ad) BY ONLY <3>4 DEF Busy
    <3>8. RingOk(u, g, dh, ad, dgp) BY ONLY <3>2, <3>3, <3>6, <3>7, RingKeep
    <3> QED BY ONLY <1>24, <2>2, <3>1, <3>8 DEF DRing
  <2> QED BY ONLY <2>3, <2>4 DEF DThread
<1> QED BY <1>25, <1>27, <1>28, <1>29, <1>31, <1>32 DEF DInv

(***************************************************************************)
(* Drains begin, and threads leave the registry, under rcu_defer_mutex.    *)
(***************************************************************************)

LEMMA DFree ==
    ASSUME DInv, rcu_defer_mutex = DNobody, NEW a \in Actors
    PROVE  dact[a].pc \notin Phases /\ dact[a].todo = << >>
<1>1. a # DNobody BY DeferAssumption DEF Actors
<1> QED BY <1>1 DEF DInv, DMutex

(* The jobs td go from the tails to the heads of different rings.          *)
JobsToHeads(td) ==
    /\ \A j \in DOMAIN td : /\ td[j].i = dq[td[j].t].tail
                            /\ td[j].to = dq[td[j].t].head
    /\ \A j, k \in DOMAIN td : td[j].t = td[k].t => j = k

LEMMA DJobs ==
    ASSUME DInv, rcu_defer_mutex = DNobody, NEW a \in Actors,
           dact' \in [Actors -> ActorType], \A b \in Actors \ {a} : dact'[b] = dact[b],
           dact'[a].pc = "synchronize", NEW td, td = dact'[a].todo, JobsToHeads(td),
           rcu_defer_mutex' = a, dq' \in [DThreads -> RingType],
           \A u \in DThreads : SameRing(dq[u], dq'[u]),
           registry_defer' \in Seq(DThreads), DRegistry', DReclaimer',
           \A u \in DThreads : DControl(u)', a \in DThreads => DOwn(a)',
           \A u \in DThreads : u \in Range(registry_defer)' => u \in Range(registry_defer),
           \A u \in DThreads : u # a /\ u \in Range(registry_defer) => u \in Range(registry_defer)',
           dcs' = dcs, dgp' = dgp, deferred' = deferred
    PROVE  DInv'
<1>1. DTypes' BY DEF DInv, DTypes
<1>2. \A b \in Actors : dact[b].pc \notin Phases /\ dact[b].todo = << >> BY DFree
<1>3. DMutex'
  <2> SUFFICES ASSUME NEW b \in Actors
               PROVE  /\ dact'[b].pc \in Phases => rcu_defer_mutex' = b
                      /\ dact'[b].pc \notin Phases => dact'[b].todo = << >>
                      /\ \A j, k \in DOMAIN dact'[b].todo :
                            dact'[b].todo[j].t = dact'[b].todo[k].t => j = k
    BY DEF DMutex
  <2>1. CASE b = a BY <2>1 DEF Phases, JobsToHeads
  <2>2. CASE b # a
    <3>1. dact'[b] = dact[b] /\ dact[b].pc \notin Phases /\ dact[b].todo = << >> BY <1>2, <2>2
    <3>2. DOMAIN << >> = {} OBVIOUS
    <3> QED BY ONLY <3>1, <3>2
  <2> QED BY <2>1, <2>2
<1>4. DHolds'
  <2>1. DHolds BY DEF DInv
  <2> QED BY ONLY <2>1, dcs' = dcs, deferred' = deferred DEF DHolds
<1>5. ASSUME NEW u \in DThreads PROVE DThread(u)'
  <2>1. DOwn(u) /\ DGone(u) /\ DRing(u) /\ u \in Actors /\ deferred[u] \in Seq(Entry)
    BY DThreadOf
  <2>2. SameRing(dq[u], dq'[u]) /\ DControl(u)' OBVIOUS
  <2>3. DOwn(u)'
    <3>1. CASE u = a BY <3>1
    <3>2. CASE u # a
      <4>1. dact'[u] = dact[u] /\ dact[u].pc \notin Phases BY <1>2, <2>1, <3>2
      <4> QED BY ONLY <4>1 DEF DOwn
    <3> QED BY <3>1, <3>2
  <2>4. DGone(u)'
    <3>1. dq'[u].q = dq[u].q BY ONLY <2>2 DEF SameRing
    <3>2. u \in Range(registry_defer)' => u \in Range(registry_defer) OBVIOUS
    <3>3. CASE u = a
      <4>1. dact'[u].pc = "synchronize" BY <3>3
      <4> QED BY ONLY <2>1, <3>1, <3>2, <4>1, deferred' = deferred DEF DGone, Phases
    <3>4. CASE u # a
      <4>1. dact'[u] = dact[u] /\ dact[u].pc \notin Phases BY <1>2, <2>1, <3>4
      <4>2. u \in Range(registry_defer) => u \in Range(registry_defer)' BY <3>4
      <4> QED BY ONLY <2>1, <3>1, <3>2, <4>1, <4>2, deferred' = deferred DEF DGone
    <3> QED BY <3>3, <3>4
  <2>5. DRing(u)'
    <3>1. PICK d, e, df, ac, ad : /\ d = dq[u] /\ e = dq'[u] /\ df = deferred[u]
                                  /\ ac = dact /\ ad = dact'
      OBVIOUS
    <3>2. df \in Seq(Entry) /\ RingOk(u, d, df, ac, dgp) BY ONLY <2>1, <3>1 DEF DRing
    <3>3. /\ e.q = d.q /\ e.head = d.head /\ e.tail = d.tail
          /\ e.fct_in = d.fct_in /\ e.fct_out = d.fct_out
      BY ONLY <2>2, <3>1 DEF SameRing
    <3>4. \A b \in Actors : ac[b].todo = << >> BY ONLY <1>2, <3>1
    <3>5. ad[u].pc = "encode" => ac[u].pc = "encode"
      <4>1. CASE u = a
        <5>1. dact'[u].pc = "synchronize" BY <4>1
        <5> QED BY ONLY <3>1, <5>1
      <4>2. CASE u # a
        <5>1. dact'[u] = dact[u] BY <2>1, <4>2
        <5> QED BY ONLY <3>1, <5>1
      <4> QED BY <4>1, <4>2
    <3>6. \A b \in Actors : \A j \in DOMAIN ad[b].todo :
             ad[b].todo[j].t = u => /\ ad[b].todo[j].i = d.tail
                                    /\ ad[b].todo[j].to = d.head
                                    /\ ad[b].pc = "synchronize"
      <4> SUFFICES ASSUME NEW b \in Actors, NEW j \in DOMAIN dact'[b].todo,
                          dact'[b].todo[j].t = u
                   PROVE  /\ dact'[b].todo[j].i = d.tail
                          /\ dact'[b].todo[j].to = d.head
                          /\ dact'[b].pc = "synchronize"
        BY <3>1
      <4>1. CASE b = a
        <5>1. j \in DOMAIN td /\ td[j].t = u /\ dact'[b].todo[j] = td[j] BY <4>1
        <5>2. td[j].i = dq[u].tail /\ td[j].to = dq[u].head BY <5>1 DEF JobsToHeads
        <5>3. dact'[b].pc = "synchronize" BY <4>1
        <5> QED BY ONLY <3>1, <5>1, <5>2, <5>3
      <4>2. CASE b # a
        <5>1. dact'[b] = dact[b] /\ dact[b].todo = << >> BY <1>2, <4>2
        <5>2. DOMAIN << >> = {} OBVIOUS
        <5> QED BY ONLY <5>1, <5>2, j \in DOMAIN dact'[b].todo
      <4> QED BY <4>1, <4>2
    <3>7. RingOk(u, e, df, ad, dgp) BY ONLY <3>2, <3>3, <3>4, <3>5, <3>6, RingJob
    <3> QED BY ONLY <3>1, <3>7, dgp' = dgp, deferred' = deferred DEF DRing
  <2> QED BY ONLY <2>2, <2>3, <2>4, <2>5 DEF DThread
<1> QED BY <1>1, <1>3, <1>4, <1>5 DEF DInv

(* What a job for the ring of t looks like.                                *)
LEMMA DToHead ==
    ASSUME DInv, NEW t \in DThreads
    PROVE  /\ ToHead(t) \in Job /\ ToHead(t).t = t
           /\ ToHead(t).i = dq[t].tail /\ ToHead(t).to = dq[t].head
<1>1. PICK d \in RingType : d = dq[t] BY DThreadOf
<1>2. d.tail \in Nat /\ d.head \in Nat BY DEF RingType
<1>3. ToHead(t) = [t |-> t, i |-> d.tail, to |-> d.head] BY ONLY <1>1 DEF ToHead
<1>4. /\ ToHead(t) \in Job /\ ToHead(t).t = t /\ ToHead(t).i = d.tail /\ ToHead(t).to = d.head
  BY ONLY <1>2, <1>3, t \in DThreads DEF Job
<1> QED BY ONLY <1>1, <1>4

LEMMA DBarrier ==
    ASSUME DInv, NEW a \in Actors, rcu_defer_barrier(a)
    PROVE  DInv'
<1>1. DTypes /\ dact[a] \in ActorType /\ DOMAIN dact = Actors /\ registry_defer \in Seq(DThreads)
  BY DEF DInv, DTypes
<1>2. PICK y \in ActorType : y = dact[a] BY <1>1
<1>3. PICK td : td = [k \in DOMAIN registry_defer |-> ToHead(registry_defer[k])] OBVIOUS
<1>4. /\ y.pc = "barrier" /\ rcu_defer_mutex = DNobody
      /\ registry_defer' = registry_defer /\ dcs' = dcs /\ dgp' = dgp /\ deferred' = deferred
      /\ \/ /\ dact' = [dact EXCEPT ![a].pc = "synchronize", ![a].todo = td]
            /\ rcu_defer_mutex' = a
         \/ dback(a) /\ rcu_defer_mutex' = rcu_defer_mutex
      /\ dq' = [t \in DThreads |-> IF t \in Range(registry_defer)
                                   THEN [dq[t] EXCEPT !.last_head = dq[t].head] ELSE dq[t]]
  BY ONLY <1>2, <1>3, rcu_defer_barrier(a), Zenon DEF rcu_defer_barrier, dreaders, dat
<1>5. \A u \in DThreads : dq'[u] \in RingType /\ SameRing(dq[u], dq'[u])
  <2> SUFFICES ASSUME NEW u \in DThreads PROVE dq'[u] \in RingType /\ SameRing(dq[u], dq'[u])
    OBVIOUS
  <2>1. PICK d \in RingType : d = dq[u] BY DThreadOf
  <2>2. PICK e : e = [d EXCEPT !.last_head = d.head] OBVIOUS
  <2>3. e \in RingType /\ SameRing(d, e) BY ONLY <2>2, d \in RingType DEF RingType, SameRing
  <2>4. SameRing(d, d) BY ONLY TRUE DEF SameRing
  <2>5. dq'[u] = e \/ dq'[u] = d BY ONLY <1>4, <2>1, <2>2, u \in DThreads
  <2> QED BY ONLY <2>1, <2>3, <2>4, <2>5, d \in RingType
<1>6. dq' \in [DThreads -> RingType]
  <2>1. dq' = [t \in DThreads |-> dq'[t]] BY <1>4
  <2> QED BY ONLY <1>5, <2>1
<1>7. /\ td \in Seq(Job) /\ JobsToHeads(td)
  <2>1. DOMAIN registry_defer = 1 .. Len(registry_defer) /\ Len(registry_defer) \in Nat BY <1>1
  <2>2. \A k \in DOMAIN registry_defer : registry_defer[k] \in DThreads BY <1>1
  <2>3. ASSUME NEW k \in DOMAIN registry_defer
        PROVE  /\ td[k] \in Job /\ td[k].t = registry_defer[k]
               /\ td[k].i = dq[td[k].t].tail /\ td[k].to = dq[td[k].t].head
    <3>1. PICK u \in DThreads : u = registry_defer[k] BY <2>2
    <3>2. td[k] = ToHead(u) BY ONLY <1>3, <3>1, k \in DOMAIN registry_defer
    <3>3. /\ ToHead(u) \in Job /\ ToHead(u).t = u
          /\ ToHead(u).i = dq[u].tail /\ ToHead(u).to = dq[u].head
      BY DToHead
    <3> QED BY ONLY <3>1, <3>2, <3>3
  <2>4. DOMAIN td = DOMAIN registry_defer BY <1>3
  <2>5. td \in Seq(Job)
    <3>1. td \in [1 .. Len(registry_defer) -> Job] BY ONLY <1>3, <2>1, <2>3, <2>4
    <3> QED BY ONLY <2>1, <3>1
  <2>6. DRegistry BY DEF DInv
  <2> QED BY ONLY <2>3, <2>4, <2>5, <2>6 DEF JobsToHeads, DRegistry
<1>8. CASE dact' = [dact EXCEPT ![a].pc = "synchronize", ![a].todo = td] /\ rcu_defer_mutex' = a
  <2>1. PICK y2 : y2 = [y EXCEPT !.pc = "synchronize", !.todo = td] OBVIOUS
  <2>2. /\ y2 \in ActorType /\ y2.pc = "synchronize" /\ y2.todo = td /\ y2.ret = y.ret
        /\ y2.cb = y.cb
    <3>1. "synchronize" \in PCs BY DEF PCs
    <3> QED BY ONLY <1>7, <2>1, <3>1, y \in ActorType DEF ActorType
  <2>3. dact' = [dact EXCEPT ![a] = y2]
    <3>1. dact' = [dact EXCEPT ![a] = [dact[a] EXCEPT !.pc = "synchronize", !.todo = td]]
      BY ONLY <1>1, <1>8, a \in Actors
    <3> QED BY ONLY <1>2, <2>1, <3>1
  <2>4. /\ dact' \in [Actors -> ActorType] /\ dact'[a] = y2
        /\ \A b \in Actors \ {a} : dact'[b] = dact[b]
    BY ONLY <1>1, <2>2, <2>3 DEF DTypes
  <2>5. DRegistry' /\ DReclaimer'
    <3>1. DRegistry /\ DReclaimer BY DEF DInv
    <3>2. "thr_defer" \in Actors BY DEF Actors
    <3>3. dact'["thr_defer"].ret = dact["thr_defer"].ret BY ONLY <1>2, <2>2, <2>4, <3>2
    <3> QED BY ONLY <1>4, <3>1, <3>3 DEF DRegistry, DReclaimer
  <2>6. a \in DThreads => y.ret = "idle" /\ a \in Range(registry_defer)
    <3>1. a \in DThreads => DControl(a) BY DThreadOf
    <3> QED BY ONLY <1>2, <1>4, <3>1 DEF DControl
  <2>7. a \in DThreads => DOwn(a)' BY ONLY <2>2, <2>4, <2>6 DEF DOwn
  <2>8. ASSUME NEW u \in DThreads PROVE DControl(u)'
    <3>1. DControl(u) /\ u \in Actors BY DThreadOf
    <3>2. CASE u = a BY ONLY <1>4, <2>2, <2>4, <2>6, <2>8, <3>2 DEF DControl, Phases
    <3>3. CASE u # a
      <4>1. dact'[u] = dact[u] BY ONLY <2>4, <3>1, <3>3
      <4> QED BY ONLY <1>4, <3>1, <4>1 DEF DControl
    <3> QED BY <3>2, <3>3
  <2>9. /\ \A u \in DThreads : u \in Range(registry_defer)' => u \in Range(registry_defer)
        /\ \A u \in DThreads : u # a /\ u \in Range(registry_defer) => u \in Range(registry_defer)'
        /\ registry_defer' \in Seq(DThreads)
    BY ONLY <1>1, <1>4
  <2>10. dact'[a].pc = "synchronize" /\ td = dact'[a].todo BY ONLY <2>2, <2>4
  <2> QED BY ONLY DInv, a \in Actors, <1>4, <1>5, <1>6, <1>7, <1>8, <2>4, <2>5, <2>7, <2>8, <2>9,
                  <2>10, DJobs
<1>9. CASE dback(a) /\ rcu_defer_mutex' = rcu_defer_mutex
  <2>1. PICK pc : pc \in {"idle", "dec"} /\ dgo(a, pc)
    <3>1. a \in DThreads => y.ret = "idle"
      <4>1. a \in DThreads => DControl(a) BY DThreadOf
      <4> QED BY ONLY <1>2, <1>4, <4>1 DEF DControl
    <3>2. a \notin DThreads => y.ret \in {"idle", "dec"}
      BY <1>2 DEF Actors, DInv, DReclaimer
    <3>3. dgo(a, y.ret) BY ONLY <1>2, <1>9 DEF dback
    <3>4. y.ret \in {"idle", "dec"} BY ONLY <3>1, <3>2
    <3> QED BY ONLY <3>3, <3>4
  <2>2. pc \in PCs /\ pc \notin Phases BY ONLY <2>1 DEF PCs, Phases
  <2>3. /\ dact' \in [Actors -> ActorType]
        /\ \A b \in Actors \ {a} : dact'[b] = dact[b]
        /\ dact'[a].pc = pc /\ dact'[a].ret = dact[a].ret
        /\ dact'[a].todo = dact[a].todo /\ dact'[a].cb = dact[a].cb
    BY ONLY <1>1, <2>1, <2>2, a \in Actors, DGoes
  <2>4. \A b \in Actors : dact[b].pc \notin Phases /\ dact[b].todo = << >> BY <1>4, DFree
  <2>5. \A b \in Actors : /\ dact'[b].todo = dact[b].todo
                          /\ \/ dact'[b] = dact[b]
                             \/ dact[b].todo = << >> /\ dact'[b].pc \notin Phases
                          /\ dact'[b].pc \in Phases => rcu_defer_mutex' = b
    <3> SUFFICES ASSUME NEW b \in Actors
                 PROVE  /\ dact'[b].todo = dact[b].todo
                        /\ \/ dact'[b] = dact[b]
                           \/ dact[b].todo = << >> /\ dact'[b].pc \notin Phases
                        /\ dact'[b].pc \in Phases => rcu_defer_mutex' = b
      OBVIOUS
    <3>1. CASE b = a BY ONLY <2>2, <2>3, <2>4, <3>1, a \in Actors
    <3>2. CASE b # a
      <4>1. dact'[b] = dact[b] BY ONLY <2>3, <3>2, b \in Actors
      <4> QED BY ONLY <2>4, <4>1, b \in Actors
    <3> QED BY <3>1, <3>2
  <2>6. \A u \in DThreads : dact'[u] = dact[u] \/ MayGo(u)
    <3> SUFFICES ASSUME NEW u \in DThreads PROVE dact'[u] = dact[u] \/ MayGo(u) OBVIOUS
    <3>0. u \in Actors /\ DControl(u) BY DThreadOf
    <3>1. CASE u # a BY ONLY <2>3, <3>0, <3>1
    <3>2. CASE u = a
      <4>1. DControl(u)' BY ONLY <2>1, <2>3, <3>2 DEF DControl, Phases
      <4>2. MayGo(u) BY ONLY <2>1, <2>3, <2>4, <3>0, <3>2, <4>1 DEF MayGo
      <4> QED BY <4>2
    <3> QED BY <3>1, <3>2
  <2>7. DReclaimer'
    <3>1. "thr_defer" \in Actors BY DEF Actors
    <3>2. dact'["thr_defer"].ret = dact["thr_defer"].ret BY ONLY <2>3, <3>1
    <3>3. DReclaimer BY DEF DInv
    <3> QED BY ONLY <3>2, <3>3 DEF DReclaimer
  <2>8. dcs \subseteq dcs' /\ dcs' \in SUBSET DReaders BY ONLY <1>1, <1>4 DEF DTypes
  <2> QED BY ONLY DInv, <1>4, <1>5, <1>6, <2>3, <2>5, <2>6, <2>7, <2>8, DMove
<1> QED BY ONLY <1>4, <1>8, <1>9

LEMMA DBarrierThread ==
    ASSUME DInv, NEW t \in DThreads, rcu_defer_barrier_thread(t)
    PROVE  DInv'
<1>1. /\ DTypes /\ t \in Actors /\ t # "thr_defer" /\ DControl(t) /\ DOMAIN dact = Actors
      /\ dact[t] \in ActorType /\ dq[t] \in RingType
  BY DThreadOf DEF DTypes
<1>2. PICK y \in ActorType : y = dact[t] BY <1>1
<1>3. PICK td : td = <<ToHead(t)>> OBVIOUS
<1>4. /\ y.pc = "barrier_thread" /\ rcu_defer_mutex = DNobody /\ dq' = dq
      /\ registry_defer' = registry_defer /\ dcs' = dcs /\ dgp' = dgp /\ deferred' = deferred
      /\ \/ /\ dact' = [dact EXCEPT ![t].pc = "synchronize", ![t].todo = td]
            /\ rcu_defer_mutex' = t
         \/ dq[t].head = dq[t].tail /\ dback(t) /\ rcu_defer_mutex' = rcu_defer_mutex
  BY ONLY <1>2, <1>3, rcu_defer_barrier_thread(t), Zenon
  DEF rcu_defer_barrier_thread, dreaders, dat
<1>5. /\ y.ret \in {"idle", "encode"} /\ t \in Range(registry_defer)
      /\ y.ret = "encode" => y.cb \in DCallbacks
  BY ONLY <1>1, <1>2, <1>4 DEF DControl
<1>6. CASE dact' = [dact EXCEPT ![t].pc = "synchronize", ![t].todo = td] /\ rcu_defer_mutex' = t
  <2>0. /\ td \in Seq(Job) /\ Len(td) = 1 /\ td[1] = ToHead(t) /\ DOMAIN td = {1}
        /\ ToHead(t).t = t /\ ToHead(t).i = dq[t].tail /\ ToHead(t).to = dq[t].head
    <3>1. /\ ToHead(t) \in Job /\ ToHead(t).t = t
          /\ ToHead(t).i = dq[t].tail /\ ToHead(t).to = dq[t].head
      BY DToHead
    <3>2. td \in Seq(Job) /\ Len(td) = 1 /\ td[1] = ToHead(t) /\ DOMAIN td = {1}
      BY ONLY <1>3, <3>1
    <3> QED BY ONLY <3>1, <3>2
  <2>a. JobsToHeads(td) BY ONLY <2>0 DEF JobsToHeads
  <2>1. PICK y2 : y2 = [y EXCEPT !.pc = "synchronize", !.todo = td] OBVIOUS
  <2>2. /\ y2 \in ActorType /\ y2.pc = "synchronize" /\ y2.todo = td /\ y2.ret = y.ret
        /\ y2.cb = y.cb
    <3>1. "synchronize" \in PCs BY DEF PCs
    <3> QED BY ONLY <2>0, <2>1, <3>1, y \in ActorType DEF ActorType
  <2>3. dact' = [dact EXCEPT ![t] = y2]
    <3>1. dact' = [dact EXCEPT ![t] = [dact[t] EXCEPT !.pc = "synchronize", !.todo = td]]
      BY ONLY <1>1, <1>6
    <3> QED BY ONLY <1>2, <2>1, <3>1
  <2>4. /\ dact' \in [Actors -> ActorType] /\ dact'[t] = y2
        /\ \A b \in Actors \ {t} : dact'[b] = dact[b]
    BY ONLY <1>1, <2>2, <2>3 DEF DTypes
  <2>5. DRegistry' /\ DReclaimer'
    <3>1. DRegistry /\ DReclaimer BY DEF DInv
    <3>2. "thr_defer" \in Actors BY DEF Actors
    <3>3. dact'["thr_defer"].ret = dact["thr_defer"].ret BY ONLY <1>1, <2>4, <3>2
    <3> QED BY ONLY <1>4, <3>1, <3>3 DEF DRegistry, DReclaimer
  <2>7. DOwn(t)'
    <3>1. td # << >> BY ONLY <1>3
    <3> QED BY ONLY <1>4, <2>0, <2>2, <2>4, <3>1 DEF DOwn
  <2>8. ASSUME NEW u \in DThreads PROVE DControl(u)'
    <3>1. DControl(u) /\ u \in Actors BY DThreadOf
    <3>2. CASE u = t
      <4>1. /\ dact'[u].pc = "synchronize" /\ dact'[u].ret \in {"idle", "encode"}
            /\ dact'[u].ret = "encode" => dact'[u].cb \in DCallbacks
        BY ONLY <1>5, <2>2, <2>4, <3>2
      <4>2. u \in Range(registry_defer)' BY ONLY <1>4, <1>5, <3>2
      <4> QED BY ONLY <4>1, <4>2 DEF DControl, Phases
    <3>3. CASE u # t
      <4>1. dact'[u] = dact[u] BY ONLY <2>4, <3>1, <3>3
      <4> QED BY ONLY <1>4, <3>1, <4>1 DEF DControl
    <3> QED BY <3>2, <3>3
  <2>9. /\ \A u \in DThreads : u \in Range(registry_defer)' => u \in Range(registry_defer)
        /\ \A u \in DThreads : u # t /\ u \in Range(registry_defer) => u \in Range(registry_defer)'
        /\ registry_defer' \in Seq(DThreads)
        /\ dq' \in [DThreads -> RingType]
        /\ \A u \in DThreads : SameRing(dq[u], dq'[u])
    BY ONLY <1>1, <1>4 DEF DTypes, SameRing
  <2>10. dact'[t].pc = "synchronize" /\ td = dact'[t].todo BY ONLY <2>2, <2>4
  <2> QED BY ONLY DInv, <1>1, <1>4, <1>6, <2>a, <2>4, <2>5, <2>7, <2>8, <2>9, <2>10, DJobs
<1>7. CASE dq[t].head = dq[t].tail /\ dback(t) /\ rcu_defer_mutex' = rcu_defer_mutex
  <2>1. dgo(t, y.ret) BY ONLY <1>2, <1>7 DEF dback
  <2>2. y.ret \in PCs /\ y.ret \notin Phases BY ONLY <1>5 DEF PCs, Phases
  <2>3. /\ dact' \in [Actors -> ActorType]
        /\ \A b \in Actors \ {t} : dact'[b] = dact[b]
        /\ dact'[t].pc = y.ret /\ dact'[t].ret = dact[t].ret
        /\ dact'[t].todo = dact[t].todo /\ dact'[t].cb = dact[t].cb
    BY ONLY <1>1, <2>1, <2>2, DGoes
  <2>4. DControl(t)' BY ONLY <1>2, <1>4, <1>5, <2>3 DEF DControl, Phases
  <2>5. minus(dq[t].head, dq[t].tail) < DQSize - 2 BY ONLY <1>1, <1>7, DRoomy
  <2>6. MayGo(t) BY ONLY <1>2, <1>4, <1>5, <2>3, <2>4, <2>5 DEF MayGo, Phases
  <2>7. dact[t].pc \notin Phases /\ dact'[t].pc \notin Phases
    BY ONLY <1>2, <1>4, <2>2, <2>3 DEF Phases
  <2> QED BY ONLY DInv, <1>1, <1>4, <1>7, <2>3, <2>6, <2>7, DGo
<1> QED BY ONLY <1>4, <1>6, <1>7

(* A thread whose ring is empty joins or leaves the registry.              *)
LEMMA DRegistryMoves ==
    ASSUME DInv, NEW t \in DThreads, rcu_defer_mutex' = rcu_defer_mutex,
           dact' \in [Actors -> ActorType],
           \A a \in Actors : /\ dact'[a].todo = dact[a].todo
                             /\ \/ dact'[a] = dact[a]
                                \/ dact[a].todo = << >> /\ dact'[a].pc \notin Phases,
           \A u \in DThreads \ {t} : dact'[u] = dact[u] /\ dq'[u] = dq[u],
           \A u \in DThreads \ {t} : u \in Range(registry_defer)' <=> u \in Range(registry_defer),
           registry_defer' \in Seq(DThreads), DRegistry', DReclaimer',
           dq' \in [DThreads -> RingType],
           dq'[t].head = dq[t].head, dq'[t].tail = dq[t].tail,
           dq'[t].fct_in = dq[t].fct_in, dq'[t].fct_out = dq[t].fct_out,
           deferred[t] = << >>, dact'[t].pc \notin Phases \cup {"encode"}, DControl(t)',
           dq'[t].q = << >> => t \notin Range(registry_defer)',
           dcs' = dcs, dgp' = dgp, deferred' = deferred
    PROVE  DInv'
<1>1. DTypes' BY DEF DInv, DTypes
<1>2. DMutex'
  <2> SUFFICES ASSUME NEW a \in Actors
               PROVE  /\ dact'[a].pc \in Phases => rcu_defer_mutex' = a
                      /\ dact'[a].pc \notin Phases => dact'[a].todo = << >>
                      /\ \A j, k \in DOMAIN dact'[a].todo :
                            dact'[a].todo[j].t = dact'[a].todo[k].t => j = k
    BY DEF DMutex
  <2>1. /\ dact[a].pc \in Phases => rcu_defer_mutex = a
        /\ dact[a].pc \notin Phases => dact[a].todo = << >>
        /\ \A j, k \in DOMAIN dact[a].todo :
              dact[a].todo[j].t = dact[a].todo[k].t => j = k
    BY DEF DInv, DMutex
  <2>2. /\ dact'[a].todo = dact[a].todo
        /\ dact'[a] = dact[a] \/ (dact[a].todo = << >> /\ dact'[a].pc \notin Phases)
    OBVIOUS
  <2> QED BY ONLY <2>1, <2>2, rcu_defer_mutex' = rcu_defer_mutex
<1>3. DHolds'
  <2>1. DHolds BY DEF DInv
  <2> QED BY ONLY <2>1, dcs' = dcs, deferred' = deferred DEF DHolds
<1>4. ASSUME NEW u \in DThreads PROVE DThread(u)'
  <2>1. /\ DControl(u) /\ DOwn(u) /\ DGone(u) /\ DRing(u) /\ u \in Actors
        /\ deferred[u] \in Seq(Entry)
    BY DThreadOf
  <2>2. DControl(u)' /\ DOwn(u)' /\ DGone(u)'
    <3>1. CASE u = t
      <4>1. /\ DControl(t)' /\ dact'[t].pc \notin Phases /\ deferred'[t] = << >>
            /\ dq'[t].q = << >> => t \notin Range(registry_defer)'
        OBVIOUS
      <4> QED BY ONLY <3>1, <4>1 DEF DOwn, DGone
    <3>2. CASE u # t
      <4>1. /\ dact'[u] = dact[u] /\ dq'[u] = dq[u] /\ deferred'[u] = deferred[u]
            /\ u \in Range(registry_defer)' <=> u \in Range(registry_defer)
        BY <3>2
      <4> QED BY ONLY <2>1, <4>1 DEF DControl, DOwn, DGone
    <3> QED BY <3>1, <3>2
  <2>3. DRing(u)'
    <3>1. PICK d, e, df, ac, ad : /\ d = dq[u] /\ e = dq'[u] /\ df = deferred[u]
                                  /\ ac = dact /\ ad = dact'
      OBVIOUS
    <3>2. df \in Seq(Entry) /\ RingOk(u, d, df, ac, dgp) BY ONLY <2>1, <3>1 DEF DRing
    <3>3. /\ e.q = d.q \/ Len(df) = 0
          /\ e.head = d.head /\ e.tail = d.tail
          /\ e.fct_in = d.fct_in /\ e.fct_out = d.fct_out
      <4>1. CASE u = t
        <5>1. Len(df) = 0 BY <3>1, <4>1
        <5> QED BY <3>1, <4>1, <5>1
      <4>2. CASE u # t
        <5>1. dq'[u] = dq[u] BY <4>2
        <5> QED BY ONLY <3>1, <5>1
      <4> QED BY <4>1, <4>2
    <3>4. \A a \in Actors : /\ ad[a].todo = ac[a].todo
                            /\ ac[a].todo # << >> => ad[a].pc = ac[a].pc
      <4> SUFFICES ASSUME NEW a \in Actors
                   PROVE  /\ dact'[a].todo = dact[a].todo
                          /\ dact[a].todo # << >> => dact'[a].pc = dact[a].pc
        BY <3>1
      <4>1. dact'[a].todo = dact[a].todo /\ (dact'[a] = dact[a] \/ dact[a].todo = << >>) OBVIOUS
      <4> QED BY ONLY <4>1
    <3>5. ad[u].pc = "encode" => ac[u].pc = "encode"
      <4>1. CASE u = t BY <3>1, <4>1
      <4>2. CASE u # t
        <5>1. dact'[u] = dact[u] BY <4>2
        <5> QED BY ONLY <3>1, <5>1
      <4> QED BY <4>1, <4>2
    <3>6. DOMAIN << >> = {} OBVIOUS
    <3>7. JobsKept(u, ac, ad) BY ONLY <3>4, <3>6 DEF JobsKept
    <3>8. Busy(u, ac) => Busy(u, ad) BY ONLY <3>4 DEF Busy
    <3>9. RingOk(u, e, df, ad, dgp) BY ONLY <3>2, <3>3, <3>5, <3>7, <3>8, RingKeep
    <3> QED BY ONLY <3>1, <3>9, dgp' = dgp, deferred' = deferred DEF DRing
  <2> QED BY ONLY <2>2, <2>3 DEF DThread
<1> QED BY <1>1, <1>2, <1>3, <1>4 DEF DInv

(* The registry without its entry k.                                       *)
LEMMA DRemoved ==
    ASSUME NEW s \in Seq(DThreads), NEW k \in DOMAIN s, NEW z, z = RemoveAt(s, k),
           \A i, j \in DOMAIN s : s[i] = s[j] => i = j
    PROVE  /\ z \in Seq(DThreads)
           /\ \A i, j \in DOMAIN z : z[i] = z[j] => i = j
           /\ s[k] \notin Range(z)
           /\ \A u : u # s[k] => (u \in Range(z) <=> u \in Range(s))
<1>1. PICK n \in Nat : n = Len(s) /\ k \in 1 .. n /\ DOMAIN s = 1 .. n OBVIOUS
<1>2. PICK x, y : x = SubSeq(s, 1, k - 1) /\ y = SubSeq(s, k + 1, n) OBVIOUS
<1>3. /\ x \in Seq(DThreads) /\ Len(x) = k - 1
      /\ \A j \in 1 .. k - 1 : x[j] = s[j]
  BY <1>1, <1>2
<1>4. /\ y \in Seq(DThreads) /\ Len(y) = n - k
      /\ \A j \in 1 .. n - k : y[j] = s[k + j]
  BY <1>1, <1>2
<1>5. z = x \o y BY <1>1, <1>2 DEF RemoveAt
<1>6. z \in Seq(DThreads) /\ Len(z) = n - 1 BY <1>1, <1>3, <1>4, <1>5
<1>7. \A j \in 1 .. k - 1 : z[j] = s[j] BY <1>1, <1>3, <1>4, <1>5
<1>8. \A j \in k .. n - 1 : z[j] = s[j + 1]
  <2> SUFFICES ASSUME NEW j \in k .. n - 1 PROVE z[j] = s[j + 1] OBVIOUS
  <2>1. j - (k - 1) \in 1 .. n - k /\ k + (j - (k - 1)) = j + 1 BY <1>1
  <2>2. z[j] = y[j - (k - 1)] BY <1>1, <1>3, <1>4, <1>5
  <2>3. y[j - (k - 1)] = s[k + (j - (k - 1))] BY ONLY <1>4, <2>1
  <2> QED BY ONLY <2>1, <2>2, <2>3
<1>9. DOMAIN z = 1 .. n - 1 BY <1>1, <1>6
<1> DEFINE at(j) == IF j < k THEN j ELSE j + 1
<1>10. \A j \in DOMAIN z : at(j) \in DOMAIN s /\ at(j) # k /\ z[j] = s[at(j)]
  BY <1>1, <1>7, <1>8, <1>9
<1>11. \A i, j \in DOMAIN z : at(i) = at(j) => i = j BY <1>1, <1>9
<1>12. \A i \in DOMAIN s : i # k => \E j \in DOMAIN z : at(j) = i
  <2> SUFFICES ASSUME NEW i \in DOMAIN s, i # k PROVE \E j \in DOMAIN z : at(j) = i OBVIOUS
  <2>1. CASE i < k
    <3>1. i \in DOMAIN z /\ at(i) = i BY <1>1, <1>9, <2>1
    <3> QED BY <3>1
  <2>2. CASE ~ (i < k)
    <3>1. i - 1 \in DOMAIN z /\ at(i - 1) = i BY <1>1, <1>9, <2>2
    <3> QED BY <3>1
  <2> QED BY <2>1, <2>2
<1> HIDE DEF at
<1>13. \A i, j \in DOMAIN z : z[i] = z[j] => i = j BY ONLY <1>10, <1>11,
         \A i, j \in DOMAIN s : s[i] = s[j] => i = j
<1>14. s[k] \notin Range(z)
  <2> SUFFICES ASSUME NEW j \in DOMAIN z, z[j] = s[k] PROVE FALSE BY DEF Range
  <2> QED BY ONLY <1>10, j \in DOMAIN z, z[j] = s[k], k \in DOMAIN s,
                  \A i, l \in DOMAIN s : s[i] = s[l] => i = l
<1>15. ASSUME NEW u, u # s[k] PROVE u \in Range(z) <=> u \in Range(s)
  <2>1. ASSUME u \in Range(z) PROVE u \in Range(s)
    <3>1. PICK j \in DOMAIN z : u = z[j] BY <2>1 DEF Range
    <3> QED BY <1>10, <3>1 DEF Range
  <2>2. ASSUME u \in Range(s) PROVE u \in Range(z)
    <3>1. PICK i \in DOMAIN s : u = s[i] BY <2>2 DEF Range
    <3>2. i # k BY <1>15, <3>1
    <3>3. PICK j \in DOMAIN z : at(j) = i BY <1>12, <3>2
    <3>4. z[j] = u BY ONLY <1>10, <3>1, <3>3, j \in DOMAIN z
    <3> QED BY <3>4 DEF Range
  <2> QED BY <2>1, <2>2
<1> QED BY ONLY <1>6, <1>13, <1>14, <1>15

LEMMA DUnregisters ==
    ASSUME DInv, NEW t \in DThreads, UnregisterDel(t)
    PROVE  DInv'
<1>1. /\ DTypes /\ t \in Actors /\ t # "thr_defer" /\ DOMAIN dact = Actors
      /\ registry_defer \in Seq(DThreads) /\ DRing(t) /\ DGone(t)
      /\ dact[t] \in ActorType /\ dq[t] \in RingType /\ deferred[t] \in Seq(Entry)
  BY DThreadOf DEF DTypes
<1>2. PICK y \in ActorType : y = dact[t] BY <1>1
<1>3. PICK td : td = <<ToHead(t)>> OBVIOUS
<1>4. /\ y.pc = "unregister_del" /\ rcu_defer_mutex = DNobody /\ dq' = dq
      /\ dcs' = dcs /\ dgp' = dgp /\ deferred' = deferred
      /\ \/ /\ dact' = [dact EXCEPT ![t].pc = "synchronize", ![t].ret = "unregister_free",
                                    ![t].todo = td]
            /\ rcu_defer_mutex' = t
         \/ /\ dq[t].head = dq[t].tail /\ dgo(t, "unregister_free")
            /\ rcu_defer_mutex' = rcu_defer_mutex
  BY ONLY <1>2, <1>3, UnregisterDel(t), Zenon DEF UnregisterDel, dreaders, dat
<1>5. PICK k \in DOMAIN registry_defer : /\ registry_defer[k] = t
                                         /\ registry_defer' = RemoveAt(registry_defer, k)
  BY ONLY UnregisterDel(t), Zenon DEF UnregisterDel
<1>6. /\ registry_defer' \in Seq(DThreads) /\ DRegistry'
      /\ t \notin Range(registry_defer)'
      /\ \A u : u # t => (u \in Range(registry_defer)' <=> u \in Range(registry_defer))
  <2>1. PICK s, z : s = registry_defer /\ z = registry_defer' OBVIOUS
  <2>2. \A i, j \in DOMAIN s : s[i] = s[j] => i = j BY <2>1 DEF DInv, DRegistry
  <2>3. s \in Seq(DThreads) /\ k \in DOMAIN s /\ z = RemoveAt(s, k) /\ s[k] = t
    BY ONLY <1>1, <1>5, <2>1, k \in DOMAIN registry_defer
  <2>4. /\ z \in Seq(DThreads)
        /\ \A i, j \in DOMAIN z : z[i] = z[j] => i = j
        /\ s[k] \notin Range(z)
        /\ \A u : u # s[k] => (u \in Range(z) <=> u \in Range(s))
    BY ONLY <2>2, <2>3, DRemoved
  <2> QED BY ONLY <2>1, <2>3, <2>4 DEF DRegistry
<1>7. t \in Range(registry_defer) BY <1>5 DEF Range
<1>8. ASSUME NEW u \in DThreads, u # t, dact'[u] = dact[u] PROVE DControl(u)'
  <2>1. DControl(u) BY DThreadOf
  <2>2. u \in Range(registry_defer)' <=> u \in Range(registry_defer) BY ONLY <1>6, <1>8
  <2> QED BY ONLY <1>8, <2>1, <2>2 DEF DControl
<1>9. CASE /\ dact' = [dact EXCEPT ![t].pc = "synchronize", ![t].ret = "unregister_free",
                                   ![t].todo = td]
           /\ rcu_defer_mutex' = t
  <2>0. /\ td \in Seq(Job) /\ Len(td) = 1 /\ td[1] = ToHead(t) /\ DOMAIN td = {1}
        /\ ToHead(t).t = t /\ ToHead(t).i = dq[t].tail /\ ToHead(t).to = dq[t].head
    <3>1. /\ ToHead(t) \in Job /\ ToHead(t).t = t
          /\ ToHead(t).i = dq[t].tail /\ ToHead(t).to = dq[t].head
      BY DToHead
    <3>2. td \in Seq(Job) /\ Len(td) = 1 /\ td[1] = ToHead(t) /\ DOMAIN td = {1}
      BY ONLY <1>3, <3>1
    <3> QED BY ONLY <3>1, <3>2
  <2>a. JobsToHeads(td) BY ONLY <2>0 DEF JobsToHeads
  <2>1. PICK y2 : y2 = [y EXCEPT !.pc = "synchronize", !.ret = "unregister_free", !.todo = td]
    OBVIOUS
  <2>2. /\ y2 \in ActorType /\ y2.pc = "synchronize" /\ y2.todo = td
        /\ y2.ret = "unregister_free"
    <3>1. "synchronize" \in PCs /\ "unregister_free" \in PCs BY DEF PCs
    <3> QED BY ONLY <2>0, <2>1, <3>1, y \in ActorType DEF ActorType
  <2>3. dact' = [dact EXCEPT ![t] = y2]
    <3>1. dact' = [dact EXCEPT ![t] = [dact[t] EXCEPT !.pc = "synchronize",
                                         !.ret = "unregister_free", !.todo = td]]
      BY ONLY <1>1, <1>9
    <3> QED BY ONLY <1>2, <2>1, <3>1
  <2>4. /\ dact' \in [Actors -> ActorType] /\ dact'[t] = y2
        /\ \A b \in Actors \ {t} : dact'[b] = dact[b]
    BY ONLY <1>1, <2>2, <2>3 DEF DTypes
  <2>5. DReclaimer'
    <3>1. DReclaimer BY DEF DInv
    <3>2. "thr_defer" \in Actors BY DEF Actors
    <3>3. dact'["thr_defer"].ret = dact["thr_defer"].ret BY ONLY <1>1, <2>4, <3>2
    <3> QED BY ONLY <3>1, <3>3 DEF DReclaimer
  <2>7. DOwn(t)'
    <3>1. td # << >> BY ONLY <1>3
    <3> QED BY ONLY <1>4, <2>0, <2>2, <2>4, <3>1 DEF DOwn
  <2>8. ASSUME NEW u \in DThreads PROVE DControl(u)'
    <3>1. u \in Actors BY DThreadOf
    <3>2. CASE u = t
      <4>1. dact'[u].pc = "synchronize" /\ dact'[u].ret = "unregister_free"
        BY ONLY <2>2, <2>4, <3>2
      <4>2. u \notin Range(registry_defer)' BY ONLY <1>6, <3>2
      <4> QED BY ONLY <4>1, <4>2 DEF DControl, Phases
    <3>3. CASE u # t
      <4>1. dact'[u] = dact[u] BY ONLY <2>4, <3>1, <3>3
      <4> QED BY <1>8, <3>3, <4>1
    <3> QED BY <3>2, <3>3
  <2>9. /\ \A u \in DThreads : u \in Range(registry_defer)' => u \in Range(registry_defer)
        /\ \A u \in DThreads : u # t /\ u \in Range(registry_defer) => u \in Range(registry_defer)'
        /\ dq' \in [DThreads -> RingType]
        /\ \A u \in DThreads : SameRing(dq[u], dq'[u])
    BY ONLY <1>1, <1>4, <1>6, <1>7 DEF DTypes, SameRing
  <2>10. dact'[t].pc = "synchronize" /\ td = dact'[t].todo BY ONLY <2>2, <2>4
  <2> QED BY ONLY DInv, <1>1, <1>4, <1>6, <1>9, <2>a, <2>4, <2>5, <2>7, <2>8, <2>9, <2>10, DJobs
<1>10. CASE /\ dq[t].head = dq[t].tail /\ dgo(t, "unregister_free")
            /\ rcu_defer_mutex' = rcu_defer_mutex
  <2>1. "unregister_free" \in PCs BY DEF PCs
  <2>2. /\ dact' \in [Actors -> ActorType]
        /\ \A b \in Actors \ {t} : dact'[b] = dact[b]
        /\ dact'[t].pc = "unregister_free" /\ dact'[t].ret = dact[t].ret
        /\ dact'[t].todo = dact[t].todo
    BY ONLY <1>1, <1>10, <2>1, DGoes
  <2>3. deferred[t] = << >> BY ONLY <1>1, <1>10, RingEmpty DEF DRing
  <2>4. dact[t].todo = << >> BY <1>1, <1>4, DFree
  <2>5. \A a \in Actors : /\ dact'[a].todo = dact[a].todo
                          /\ \/ dact'[a] = dact[a]
                             \/ dact[a].todo = << >> /\ dact'[a].pc \notin Phases
    <3> SUFFICES ASSUME NEW a \in Actors
                 PROVE  /\ dact'[a].todo = dact[a].todo
                        /\ \/ dact'[a] = dact[a]
                           \/ dact[a].todo = << >> /\ dact'[a].pc \notin Phases
      OBVIOUS
    <3>1. CASE a = t BY ONLY <2>2, <2>4, <3>1 DEF Phases
    <3>2. CASE a # t
      <4>1. dact'[a] = dact[a] BY ONLY <2>2, <3>2, a \in Actors
      <4> QED BY ONLY <4>1
    <3> QED BY <3>1, <3>2
  <2>6. \A u \in DThreads \ {t} : dact'[u] = dact[u] /\ dq'[u] = dq[u]
    BY ONLY <1>4, <2>2 DEF Actors
  <2>7. \A u \in DThreads \ {t} : u \in Range(registry_defer)' <=> u \in Range(registry_defer)
    BY ONLY <1>6
  <2>8. DReclaimer'
    <3>1. DReclaimer BY DEF DInv
    <3>2. "thr_defer" \in Actors BY DEF Actors
    <3>3. dact'["thr_defer"].ret = dact["thr_defer"].ret BY ONLY <1>1, <2>2, <3>2
    <3> QED BY ONLY <3>1, <3>3 DEF DReclaimer
  <2>9. DControl(t)' BY ONLY <1>6, <2>2 DEF DControl, Phases
  <2>10. /\ dq' \in [DThreads -> RingType]
         /\ dq'[t].head = dq[t].head /\ dq'[t].tail = dq[t].tail
         /\ dq'[t].fct_in = dq[t].fct_in /\ dq'[t].fct_out = dq[t].fct_out
         /\ dact'[t].pc \notin Phases \cup {"encode"}
         /\ dq'[t].q = << >> => t \notin Range(registry_defer)'
    BY ONLY <1>1, <1>4, <1>6, <2>2 DEF DTypes, Phases
  <2> QED BY ONLY DInv, t \in DThreads, <1>4, <1>6, <1>10, <2>2, <2>3, <2>5, <2>6, <2>7, <2>8, <2>9,
                  <2>10, DRegistryMoves
<1> QED BY ONLY <1>4, <1>9, <1>10

(* The registry with t before the others.                                  *)
LEMMA DJoined ==
    ASSUME NEW s \in Seq(DThreads), NEW t \in DThreads, t \notin Range(s), NEW z,
           z = <<t>> \o s, \A i, j \in DOMAIN s : s[i] = s[j] => i = j
    PROVE  /\ z \in Seq(DThreads)
           /\ \A i, j \in DOMAIN z : z[i] = z[j] => i = j
           /\ t \in Range(z)
           /\ \A u : u # t => (u \in Range(z) <=> u \in Range(s))
<1>1. PICK n \in Nat : n = Len(s) /\ DOMAIN s = 1 .. n OBVIOUS
<1>2. z \in Seq(DThreads) /\ Len(z) = n + 1 /\ z[1] = t /\ DOMAIN z = 1 .. n + 1 BY <1>1
<1>3. \A j \in 2 .. n + 1 : z[j] = s[j - 1]
  <2> SUFFICES ASSUME NEW j \in 2 .. n + 1 PROVE z[j] = s[j - 1] OBVIOUS
  <2>1. (<<t>> \o s)[j] = s[j - 1]
    BY ONLY <1>1, s \in Seq(DThreads), t \in DThreads, n \in Nat, j \in 2 .. n + 1
  <2> QED BY ONLY <2>1, z = <<t>> \o s
<1>4. \A j \in 2 .. n + 1 : j - 1 \in DOMAIN s /\ z[j] = s[j - 1] /\ z[j] # t
  <2>1. \A j \in 2 .. n + 1 : j - 1 \in 1 .. n OBVIOUS
  <2> SUFFICES ASSUME NEW j \in 2 .. n + 1
               PROVE  j - 1 \in DOMAIN s /\ z[j] = s[j - 1] /\ z[j] # t
    OBVIOUS
  <2>2. j - 1 \in DOMAIN s /\ z[j] = s[j - 1] BY ONLY <1>1, <1>3, <2>1, j \in 2 .. n + 1
  <2>3. s[j - 1] \in Range(s) BY ONLY <2>2 DEF Range
  <2> QED BY ONLY <2>2, <2>3, t \notin Range(s)
<1>5. \A j \in 1 .. n + 1 : j = 1 \/ j \in 2 .. n + 1 OBVIOUS
<1>6. ASSUME NEW i \in DOMAIN z, NEW j \in DOMAIN z, z[i] = z[j] PROVE i = j
  <2>1. i = 1 \/ i \in 2 .. n + 1 BY ONLY <1>2, <1>5, i \in DOMAIN z
  <2>2. j = 1 \/ j \in 2 .. n + 1 BY ONLY <1>2, <1>5, j \in DOMAIN z
  <2>3. CASE i = 1 BY ONLY <1>2, <1>4, <1>6, <2>2, <2>3
  <2>4. CASE j = 1 BY ONLY <1>2, <1>4, <1>6, <2>1, <2>4
  <2>5. CASE i \in 2 .. n + 1 /\ j \in 2 .. n + 1
    <3>1. i - 1 = j - 1 BY <1>4, <1>6, <2>5
    <3> QED BY <2>5, <3>1
  <2> QED BY <2>1, <2>2, <2>3, <2>4, <2>5
<1>7. t \in Range(z)
  <2>1. 1 \in DOMAIN z BY <1>1, <1>2
  <2> QED BY <1>2, <2>1 DEF Range
<1>8. ASSUME NEW u, u # t PROVE u \in Range(z) <=> u \in Range(s)
  <2>1. ASSUME u \in Range(z) PROVE u \in Range(s)
    <3>1. PICK j \in DOMAIN z : u = z[j] BY <2>1 DEF Range
    <3>2. j \in 2 .. n + 1 BY ONLY <1>2, <1>5, <1>8, <3>1, j \in DOMAIN z
    <3> QED BY <1>4, <3>1, <3>2 DEF Range
  <2>2. ASSUME u \in Range(s) PROVE u \in Range(z)
    <3>1. PICK i \in DOMAIN s : u = s[i] BY <2>2 DEF Range
    <3>2. i + 1 \in 2 .. n + 1 /\ (i + 1) - 1 = i BY <1>1
    <3>3. i + 1 \in DOMAIN z /\ z[i + 1] = u
      <4>1. z[i + 1] = s[(i + 1) - 1] BY ONLY <1>3, <3>2
      <4>2. s[(i + 1) - 1] = s[i] BY ONLY <3>2
      <4>3. i + 1 \in DOMAIN z BY <1>2, <3>2
      <4> QED BY ONLY <3>1, <4>1, <4>2, <4>3
    <3> QED BY <3>3 DEF Range
  <2> QED BY <2>1, <2>2
<1> QED BY ONLY <1>2, <1>6, <1>7, <1>8

LEMMA DStarts ==
    ASSUME DInv, NEW t \in DThreads, start_defer_thread(t)
    PROVE  DInv'
<1>1. /\ DTypes /\ t \in Actors /\ t # "thr_defer" /\ DOMAIN dact = Actors
      /\ registry_defer \in Seq(DThreads) /\ DControl(t) /\ DGone(t)
      /\ dact[t] \in ActorType /\ dq[t] \in RingType
  BY DThreadOf DEF DTypes
<1>2. "thr_defer" \in Actors /\ dact["thr_defer"] \in ActorType BY <1>1 DEF Actors, DTypes
<1>3. PICK y \in ActorType, x \in ActorType, d \in RingType :
        y = dact[t] /\ x = dact["thr_defer"] /\ d = dq[t]
  BY ONLY <1>1, <1>2
<1>4. /\ y.pc = "register_add" /\ rcu_defer_mutex = DNobody
      /\ rcu_defer_mutex' = rcu_defer_mutex /\ registry_defer' = <<t>> \o registry_defer
      /\ dcs' = dcs /\ dgp' = dgp /\ deferred' = deferred
      /\ dq' = [dq EXCEPT ![t] = [dq[t] EXCEPT !.q = NewRing]]
  BY ONLY <1>3, start_defer_thread(t), Zenon DEF start_defer_thread, dreaders, dat
<1>5. t \notin Range(registry_defer) /\ deferred[t] = << >>
  BY ONLY <1>1, <1>3, <1>4 DEF DControl, DGone, Phases
<1>6. y.todo = << >> /\ x.todo = << >>
  <2>1. dact[t].todo = << >> /\ dact["thr_defer"].todo = << >> BY <1>1, <1>2, <1>4, DFree
  <2> QED BY ONLY <1>3, <2>1
<1>7. PICK y2 : y2 = [y EXCEPT !.pc = "idle"] OBVIOUS
<1>8. y2 \in ActorType /\ y2.pc = "idle" /\ y2.todo = y.todo
  <2>1. "idle" \in PCs BY DEF PCs
  <2> QED BY <1>7, <2>1 DEF ActorType
<1>9. PICK x2 : x2 = IF registry_defer = << >> THEN [x EXCEPT !.pc = "dec", !.ret = "dec"] ELSE x
  OBVIOUS
<1>10. x2 \in ActorType /\ x2.todo = x.todo /\ (x2 = x \/ (x2.pc = "dec" /\ x2.ret = "dec"))
  <2>1. "dec" \in PCs BY DEF PCs
  <2>2. PICK z : z = [x EXCEPT !.pc = "dec", !.ret = "dec"] OBVIOUS
  <2>3. z \in ActorType /\ z.todo = x.todo /\ z.pc = "dec" /\ z.ret = "dec"
    BY <2>1, <2>2 DEF ActorType
  <2>4. x2 = z \/ x2 = x BY ONLY <1>9, <2>2
  <2> QED BY <2>3, <2>4
<1>11. dact' = [dact EXCEPT ![t] = y2, !["thr_defer"] = x2]
  <2>1. dact' = [dact EXCEPT ![t].pc = "idle",
                   !["thr_defer"] = IF registry_defer = << >>
                                    THEN [@ EXCEPT !.pc = "dec", !.ret = "dec"] ELSE @]
    BY ONLY start_defer_thread(t), Zenon DEF start_defer_thread
  <2>2. dact' = [dact EXCEPT ![t] = [dact[t] EXCEPT !.pc = "idle"],
                   !["thr_defer"] = IF registry_defer = << >>
                                    THEN [dact["thr_defer"] EXCEPT !.pc = "dec", !.ret = "dec"]
                                    ELSE dact["thr_defer"]]
    BY ONLY <1>1, <1>2, <2>1
  <2> QED BY ONLY <1>3, <1>7, <1>9, <2>2
<1>12. /\ dact' \in [Actors -> ActorType] /\ dact'["thr_defer"] = x2 /\ dact'[t] = y2
       /\ \A b \in Actors \ {t, "thr_defer"} : dact'[b] = dact[b]
  BY ONLY <1>1, <1>2, <1>8, <1>10, <1>11 DEF DTypes
<1>13. PICK e : e = [d EXCEPT !.q = NewRing] OBVIOUS
<1>14. /\ e \in RingType /\ e.head = d.head /\ e.tail = d.tail /\ e.fct_in = d.fct_in
       /\ e.fct_out = d.fct_out /\ e.q # << >>
  <2>1. NewRing \in [1 .. DQSize -> Word]
    <3>1. 0 \in Word BY DeferAssumption DEF Word
    <3> QED BY ONLY <3>1 DEF NewRing
  <2>2. NewRing # << >>
    <3>1. 1 \in DOMAIN NewRing BY DeferAssumption DEF NewRing
    <3>2. DOMAIN << >> = {} OBVIOUS
    <3> QED BY ONLY <3>1, <3>2
  <2>3. PICK q : q = NewRing OBVIOUS
  <2>4. e = [d EXCEPT !.q = q] /\ q \in [1 .. DQSize -> Word] BY ONLY <1>13, <2>1, <2>3
  <2>5. /\ e \in RingType /\ e.head = d.head /\ e.tail = d.tail /\ e.fct_in = d.fct_in
        /\ e.fct_out = d.fct_out /\ e.q = q
    BY ONLY <2>4, d \in RingType DEF RingType
  <2> QED BY ONLY <2>2, <2>3, <2>5
<1>15. /\ dq' \in [DThreads -> RingType] /\ dq'[t] = e
       /\ \A u \in DThreads \ {t} : dq'[u] = dq[u]
  <2>1. dq' = [dq EXCEPT ![t] = e] BY ONLY <1>3, <1>4, <1>13
  <2> QED BY ONLY <1>1, <1>14, <2>1, t \in DThreads DEF DTypes
<1>16. /\ registry_defer' \in Seq(DThreads) /\ DRegistry'
       /\ t \in Range(registry_defer)'
       /\ \A u : u # t => (u \in Range(registry_defer)' <=> u \in Range(registry_defer))
  <2>1. PICK s, z : s = registry_defer /\ z = registry_defer' OBVIOUS
  <2>2. \A i, j \in DOMAIN s : s[i] = s[j] => i = j BY <2>1 DEF DInv, DRegistry
  <2>3. s \in Seq(DThreads) /\ t \notin Range(s) /\ z = <<t>> \o s
    BY ONLY <1>1, <1>4, <1>5, <2>1
  <2>4. /\ z \in Seq(DThreads)
        /\ \A i, j \in DOMAIN z : z[i] = z[j] => i = j
        /\ t \in Range(z)
        /\ \A u : u # t => (u \in Range(z) <=> u \in Range(s))
    BY ONLY <2>2, <2>3, t \in DThreads, DJoined
  <2> QED BY ONLY <2>1, <2>4 DEF DRegistry
<1>17. \A a \in Actors : /\ dact'[a].todo = dact[a].todo
                         /\ \/ dact'[a] = dact[a]
                            \/ dact[a].todo = << >> /\ dact'[a].pc \notin Phases
  <2> SUFFICES ASSUME NEW a \in Actors
               PROVE  /\ dact'[a].todo = dact[a].todo
                      /\ \/ dact'[a] = dact[a]
                         \/ dact[a].todo = << >> /\ dact'[a].pc \notin Phases
    OBVIOUS
  <2>1. CASE a = t BY ONLY <1>3, <1>6, <1>8, <1>12, <2>1 DEF Phases
  <2>2. CASE a = "thr_defer" BY ONLY <1>3, <1>6, <1>10, <1>12, <2>2 DEF Phases
  <2>3. CASE a # t /\ a # "thr_defer"
    <3>1. dact'[a] = dact[a] BY ONLY <1>12, <2>3, a \in Actors
    <3> QED BY ONLY <3>1
  <2> QED BY <2>1, <2>2, <2>3
<1>18. \A u \in DThreads \ {t} : dact'[u] = dact[u] /\ dq'[u] = dq[u]
  <2>1. \A u \in DThreads : u \in Actors /\ u # "thr_defer" BY DThreadOf
  <2> QED BY ONLY <1>12, <1>15, <2>1
<1>19. DReclaimer'
  <2>1. DReclaimer BY DEF DInv
  <2> QED BY ONLY <1>3, <1>10, <1>12, <2>1 DEF DReclaimer
<1>20. DControl(t)' BY ONLY <1>8, <1>12 DEF DControl, Phases
<1>21. /\ dq'[t].head = dq[t].head /\ dq'[t].tail = dq[t].tail
       /\ dq'[t].fct_in = dq[t].fct_in /\ dq'[t].fct_out = dq[t].fct_out
       /\ dact'[t].pc \notin Phases \cup {"encode"}
       /\ dq'[t].q = << >> => t \notin Range(registry_defer)'
  BY ONLY <1>3, <1>8, <1>12, <1>14, <1>15 DEF Phases
<1>22. \A u \in DThreads \ {t} : u \in Range(registry_defer)' <=> u \in Range(registry_defer)
  BY ONLY <1>16
<1> QED BY ONLY DInv, t \in DThreads, <1>4, <1>5, <1>12, <1>15, <1>16, <1>17, <1>18, <1>19, <1>20,
                <1>21, <1>22, DRegistryMoves

LEMMA DStops ==
    ASSUME DInv, NEW t \in DThreads, stop_defer_thread(t)
    PROVE  DInv'
<1>1. /\ DTypes /\ t \in Actors /\ t # "thr_defer" /\ DOMAIN dact = Actors
      /\ registry_defer \in Seq(DThreads) /\ DControl(t) /\ DGone(t)
      /\ dact[t] \in ActorType /\ dq[t] \in RingType
  BY DThreadOf DEF DTypes
<1>2. PICK d \in RingType : d = dq[t] BY ONLY <1>1
<1>3. /\ dact[t].pc = "unregister_free"
      /\ rcu_defer_mutex' = rcu_defer_mutex /\ registry_defer' = registry_defer
      /\ dcs' = dcs /\ dgp' = dgp /\ deferred' = deferred
      /\ dq' = [dq EXCEPT ![t] = [dq[t] EXCEPT !.q = << >>]]
      /\ dcall(t, "wake", "join") \/ dgo(t, "idle")
  BY ONLY stop_defer_thread(t), Zenon DEF stop_defer_thread, dreaders, dat
<1>4. /\ dact' \in [Actors -> ActorType]
      /\ \A b \in Actors \ {t} : dact'[b] = dact[b]
      /\ dact'[t].pc = "idle" \/ (dact'[t].pc = "wake" /\ dact'[t].ret = "join")
      /\ dact'[t].todo = dact[t].todo
  <2>1. "wake" \in PCs /\ "join" \in PCs /\ "idle" \in PCs BY DEF PCs
  <2>2. CASE dcall(t, "wake", "join") BY ONLY <1>1, <2>1, <2>2, DCalls
  <2>3. CASE dgo(t, "idle") BY ONLY <1>1, <2>1, <2>3, DGoes
  <2> QED BY ONLY <1>3, <2>2, <2>3
<1>5. t \notin Range(registry_defer) /\ deferred[t] = << >>
  BY ONLY <1>1, <1>3 DEF DControl, DGone
<1>6. dact[t].todo = << >> BY <1>1, <1>3 DEF DInv, DMutex, Phases
<1>7. PICK e : e = [d EXCEPT !.q = << >>] OBVIOUS
<1>8. /\ e \in RingType /\ e.head = d.head /\ e.tail = d.tail /\ e.fct_in = d.fct_in
      /\ e.fct_out = d.fct_out
  BY ONLY <1>7, d \in RingType DEF RingType
<1>9. /\ dq' \in [DThreads -> RingType] /\ dq'[t] = e
      /\ \A u \in DThreads \ {t} : dq'[u] = dq[u]
  <2>1. dq' = [dq EXCEPT ![t] = e] BY ONLY <1>2, <1>3, <1>7
  <2> QED BY ONLY <1>1, <1>8, <2>1, t \in DThreads DEF DTypes
<1>10. \A a \in Actors : /\ dact'[a].todo = dact[a].todo
                         /\ \/ dact'[a] = dact[a]
                            \/ dact[a].todo = << >> /\ dact'[a].pc \notin Phases
  <2> SUFFICES ASSUME NEW a \in Actors
               PROVE  /\ dact'[a].todo = dact[a].todo
                      /\ \/ dact'[a] = dact[a]
                         \/ dact[a].todo = << >> /\ dact'[a].pc \notin Phases
    OBVIOUS
  <2>1. CASE a = t BY ONLY <1>4, <1>6, <2>1 DEF Phases
  <2>2. CASE a # t
    <3>1. dact'[a] = dact[a] BY ONLY <1>4, <2>2, a \in Actors
    <3> QED BY ONLY <3>1
  <2> QED BY <2>1, <2>2
<1>11. \A u \in DThreads \ {t} : dact'[u] = dact[u] /\ dq'[u] = dq[u]
  BY ONLY <1>4, <1>9 DEF Actors
<1>12. DReclaimer' /\ DRegistry'
  <2>1. DReclaimer /\ DRegistry BY DEF DInv
  <2>2. "thr_defer" \in Actors BY DEF Actors
  <2>3. dact'["thr_defer"].ret = dact["thr_defer"].ret BY ONLY <1>1, <1>4, <2>2
  <2> QED BY ONLY <1>3, <2>1, <2>3 DEF DReclaimer, DRegistry
<1>13. DControl(t)' BY ONLY <1>4 DEF DControl, Phases
<1>14. /\ dq'[t].head = dq[t].head /\ dq'[t].tail = dq[t].tail
       /\ dq'[t].fct_in = dq[t].fct_in /\ dq'[t].fct_out = dq[t].fct_out
  BY ONLY <1>2, <1>8, <1>9
<1>15. /\ dact'[t].pc \notin Phases \cup {"encode"}
       /\ dq'[t].q = << >> => t \notin Range(registry_defer)'
       /\ registry_defer' \in Seq(DThreads)
  BY ONLY <1>1, <1>3, <1>4, <1>5 DEF Phases
<1>16. \A u \in DThreads \ {t} : u \in Range(registry_defer)' <=> u \in Range(registry_defer)
  BY ONLY <1>3
<1> QED BY ONLY DInv, t \in DThreads, <1>3, <1>4, <1>5, <1>9, <1>10, <1>11, <1>12, <1>13, <1>14,
                <1>15, <1>16, DRegistryMoves

(***************************************************************************)
(* The invariant holds.                                                    *)
(***************************************************************************)

LEMMA DStutters ==
    ASSUME DInv, UNCHANGED dvars
    PROVE  DInv'
<1>1. /\ dq' = dq /\ registry_defer' = registry_defer /\ rcu_defer_mutex' = rcu_defer_mutex
      /\ dact' = dact /\ dgp' = dgp /\ deferred' = deferred /\ dcs' = dcs
  BY ONLY UNCHANGED dvars DEF dvars, dlocks, dreaders
<1>2. DTypes BY DEF DInv
<1>3. \A b \in Actors : /\ dact'[b].todo = dact[b].todo
                        /\ \/ dact'[b] = dact[b]
                           \/ dact[b].todo = << >> /\ dact'[b].pc \notin Phases
                        /\ dact'[b].pc \in Phases => rcu_defer_mutex' = b
  BY <1>1 DEF DInv, DMutex
<1>4. dact' \in [Actors -> ActorType] /\ dq' \in [DThreads -> RingType]
      /\ dcs \subseteq dcs' /\ dcs' \in SUBSET DReaders
  BY <1>1, <1>2 DEF DTypes
<1>5. \A k \in DThreads : dact'[k] = dact[k] /\ SameRing(dq[k], dq'[k]) BY <1>1 DEF SameRing
<1>6. DReclaimer' BY <1>1 DEF DReclaimer, DInv
<1> QED BY ONLY DInv, <1>1, <1>3, <1>4, <1>5, <1>6, DMove

LEMMA DStarting ==
    ASSUME DeferInit
    PROVE  DInv
<1>0. WordRange \in Nat /\ WordRange > 0 /\ DQSize \in Nat BY DeferAssumption
<1>1. 0 \in Word /\ 0 % WordRange = 0 BY <1>0 DEF Word
<1>2. NoRing \in RingType BY <1>1 DEF NoRing, RingType
<1>3. \A a \in Actors : /\ dact[a] \in ActorType
                        /\ dact[a].pc \in {"idle", "none"} /\ dact[a].ret = "idle"
                        /\ dact[a].todo = << >>
  BY DEF DeferInit, ActorType, PCs
<1>4. DTypes
  <2>1. dact \in [Actors -> ActorType] BY <1>3 DEF DeferInit
  <2>2. dq \in [DThreads -> RingType] BY <1>2 DEF DeferInit
  <2>3. registry_defer \in Seq(DThreads) /\ deferred \in [DThreads -> Seq(Entry)]
    BY DEF DeferInit
  <2> QED BY <2>1, <2>2, <2>3 DEF DTypes, DeferInit
<1>5. DMutex BY <1>3 DEF DMutex, Phases
<1>6. registry_defer = << >> BY DEF DeferInit
<1>7. DRegistry BY <1>6 DEF DRegistry
<1>8. DReclaimer BY <1>3 DEF DReclaimer, Actors
<1>9. \A t \in DThreads : deferred[t] = << >> /\ dq[t] = NoRing BY DEF DeferInit
<1>10. DHolds BY <1>9 DEF DHolds
<1>11. ASSUME NEW t \in DThreads PROVE DThread(t)
  <2>1. /\ dact[t].pc = "idle" \/ dact[t].pc = "none"
        /\ dact[t].ret = "idle"
    BY <1>3 DEF Actors
  <2>2. DControl(t) BY <2>1 DEF DControl, Phases
  <2>3. DOwn(t) BY <2>1 DEF DOwn, Phases
  <2>4. t \notin Range(registry_defer) BY <1>6 DEF Range
  <2>5. DGone(t) BY <1>9, <2>4 DEF DGone
  <2>6. DRing(t)
    <3> DEFINE s == [k \in Nat |-> 0]
    <3>1. s \in Positions BY DEF Positions
    <3>2. s[1] = 0 OBVIOUS
    <3> HIDE DEF s
    <3>3. PICK d, df : d = dq[t] /\ df = deferred[t] OBVIOUS
    <3>4. /\ d.q = << >> /\ d.head = 0 /\ d.tail = 0 /\ d.fct_in = 0 /\ d.fct_out = 0
          /\ df = << >> /\ Len(df) = 0
      BY <1>9, <3>3 DEF NoRing
    <3>5. DBounds(d, df, 0, s) BY <1>0, <1>1, <3>2, <3>4 DEF DBounds
    <3>6. DLayout(d, df, s) BY <3>4 DEF DLayout, LastFct
    <3>7. \A a \in Actors : \A j \in DOMAIN dact[a].todo : FALSE
      <4>1. DOMAIN << >> = {} OBVIOUS
      <4> QED BY <1>3, <4>1
    <3>8. RingAt(t, d, df, dact, dgp, 0, s)
      BY ONLY <2>1, <3>2, <3>5, <3>6, <3>7 DEF RingAt, DCut
    <3>9. RingOk(t, d, df, dact, dgp) BY ONLY <3>1, <3>8, 0 \in Nat DEF RingOk
    <3> QED BY ONLY <3>3, <3>9 DEF DRing
  <2> QED BY <2>2, <2>3, <2>5, <2>6 DEF DThread
<1> QED BY <1>4, <1>5, <1>7, <1>8, <1>10, <1>11 DEF DInv

LEMMA DDrainings ==
    ASSUME DInv, NEW a \in Actors, Draining(a)
    PROVE  DInv'
  BY DWaits, DDrains, DDrained, DBarrier DEF Draining

LEMMA DSteps ==
    ASSUME DInv, DeferNext
    PROVE  DInv'
<1>1. CASE thr_defer
  <2>1. "thr_defer" \in Actors BY DEF Actors
  <2>2. CASE Draining("thr_defer") BY <2>1, <2>2, DDrainings
  <2>3. CASE ~ Draining("thr_defer")
    <3>1. wait_defer \/ DStopTest \/ rcu_defer_num_callbacks \/ DDisarm
          \/ DTestFutex \/ DFutexWait
      BY ONLY <1>1, <2>3 DEF thr_defer
    <3> QED BY <3>1, DReclaims
  <2> QED BY <2>2, <2>3
<1>2. ASSUME NEW t \in DThreads, DThreadStep(t) PROVE DInv'
  <2>1. t \in Actors BY DEF Actors
  <2>2. CASE Draining(t) BY <2>1, <2>2, DDrainings
  <2>3. CASE rcu_defer_barrier_thread(t) BY <2>3, DBarrierThread
  <2>4. CASE DStore(t) BY <2>4, DStores
  <2>5. CASE wake_up_defer(t) \/ DWakeSet(t) BY <2>5, DWakeUp
  <2>6. CASE DWakeFutex(t) BY <2>6, DWakesFutex
  <2>7. CASE RegisterLock(t) \/ UnregisterLock(t) \/ JoinDeferThread(t)
    BY <2>7, DRegisters1
  <2>8. CASE start_defer_thread(t) BY <2>8, DStarts
  <2>9. CASE UnregisterDel(t) BY <2>9, DUnregisters
  <2>10. CASE stop_defer_thread(t) BY <2>10, DStops
  <2> QED
    BY ONLY <1>2, <2>2, <2>3, <2>4, <2>5, <2>6, <2>7, <2>8, <2>9, <2>10 DEF DThreadStep
<1>3. ASSUME NEW t \in DThreads, DCall(t) PROVE DInv'
  <2>1. CASE \E cb \in DCallbacks : defer_rcu(t, cb)
    <3>1. PICK cb \in DCallbacks : defer_rcu(t, cb) BY ONLY <2>1
    <3> QED BY <3>1, DDefers
  <2>2. CASE CallBarrier(t) BY <2>2, DCallsBarrier
  <2>3. CASE rcu_defer_register_thread(t) \/ rcu_defer_unregister_thread(t)
    BY <2>3, DRegisters1
  <2> QED BY ONLY <1>3, <2>1, <2>2, <2>3 DEF DCall
<1>4. ASSUME NEW r \in DReaders, DEnter(r) \/ DLeave(r) PROVE DInv'
  BY <1>4, DEnters, DLeaves
<1> QED BY ONLY DeferNext, <1>1, <1>2, <1>3, <1>4 DEF DeferNext

LEMMA DeferInductive == DeferSpec => []DInv
<1>1. DeferInit => DInv BY DStarting
<1>2. DInv /\ [DeferNext]_dvars => DInv'
  <2> SUFFICES ASSUME DInv, [DeferNext]_dvars PROVE DInv' OBVIOUS
  <2>1. CASE DeferNext BY <2>1, DSteps
  <2>2. CASE UNCHANGED dvars BY <2>2, DStutters
  <2> QED BY <2>1, <2>2
<1> QED BY <1>1, <1>2, PTL DEF DeferSpec

(***************************************************************************)
(* What the invariant says of the callbacks.                               *)
(***************************************************************************)

(* rcu_defer_barrier_queue() calls a function only when the sections that  *)
(* ran when it was deferred are over, for any number of threads, of        *)
(* callbacks and of wraps of the ring.                                     *)
THEOREM DeferWaits == DeferSpec => []DeferAfterGracePeriod
<1>1. DInv => DeferAfterGracePeriod
  <2> SUFFICES ASSUME DInv, NEW a \in Actors, dat(a, "drain"), dact[a].todo # << >>,
                      Head(dact[a].todo).i # Head(dact[a].todo).to
               PROVE  /\ deferred[Head(dact[a].todo).t] # << >>
                      /\ Head(deferred[Head(dact[a].todo).t]).hold = {}
    BY DEF DeferAfterGracePeriod
  <2>1. PICK td, w : td = dact[a].todo /\ w = Head(td) OBVIOUS
  <2>2. td \in Seq(Job) /\ td # << >> BY <2>1 DEF DInv, DTypes, ActorType
  <2>3. 1 \in DOMAIN td /\ td[1] = w /\ w \in Job
    <3>1. Len(td) \in Nat /\ Len(td) # 0 BY <2>2, EmptySeq
    <3>2. DOMAIN td = 1 .. Len(td) BY <2>2
    <3> QED BY <2>1, <2>2, <3>1, <3>2
  <2>4. PICK t \in DThreads : t = w.t BY <2>3 DEF Job
  <2>5. DRing(t) /\ deferred[t] \in Seq(Entry) BY DEF DInv, DThread, DTypes
  <2>6. PICK df : df = deferred[t] OBVIOUS
  <2>7. PICK v \in Nat, s \in Positions : RingAt(t, dq[t], df, dact, dgp, v, s)
    BY ONLY <2>5, <2>6 DEF DRing, RingOk
  <2>8. JobOk(w, "drain", df, s, dgp)
    <3>1. dact[a].pc = "drain" BY DEF dat
    <3> QED BY ONLY a \in Actors, <2>1, <2>3, <2>4, <2>7, <3>1 DEF RingAt
  <2>9. PICK m \in 1 .. Len(df) + 1 :
          /\ w.to = s[m] % WordRange
          /\ \A k \in 1 .. m - 1 : df[k].hold = {}
    BY ONLY <2>8 DEF JobOk
  <2>10. w.i = s[1] % WordRange BY ONLY <2>8 DEF JobOk
  <2>11. m # 1 BY ONLY <2>1, <2>9, <2>10,
                       Head(dact[a].todo).i # Head(dact[a].todo).to
  <2>12. df \in Seq(Entry) BY ONLY <2>5, <2>6
  <2>13. Len(df) \in Nat /\ Len(df) # 0 /\ 1 \in 1 .. m - 1 BY ONLY <2>11, <2>12, <2>9
  <2>14. df # << >> BY ONLY <2>13
  <2>15. Head(df) = df[1] BY ONLY <2>12, <2>14
  <2> QED BY ONLY <2>1, <2>4, <2>6, <2>9, <2>13, <2>14, <2>15
<1> QED BY <1>1, DeferInductive, PTL

(* The position from which a ring is read.                                 *)
LEMMA DDrainStart ==
    ASSUME DInv, NEW t \in DThreads, NEW v \in Nat, NEW s \in Positions,
           RingAt(t, dq[t], deferred[t], dact, dgp, v, s)
    PROVE  DrainPosition(t) = s[1] % WordRange
<1> DEFINE at == {a \in Actors : /\ dat(a, "drain") /\ dact[a].todo # << >>
                                 /\ Head(dact[a].todo).t = t}
<1>1. CASE at = {}
  <2>1. ~ Busy(t, dact) BY <1>1 DEF Busy, dat
  <2>2. s[1] = v /\ dq[t].tail = v % WordRange BY <2>1 DEF RingAt, DCut, DBounds
  <2> QED BY <1>1, <2>2 DEF DrainPosition
<1>2. CASE at # {}
  <2>1. PICK a : a = CHOOSE b \in at : TRUE OBVIOUS
  <2>2. a \in at BY ONLY <1>2, <2>1
  <2>3. /\ a \in Actors /\ dact[a].todo # << >> /\ Head(dact[a].todo).t = t
    BY ONLY <2>2
  <2>4. dact[a].todo \in Seq(Job) BY <2>3 DEF DInv, DTypes, ActorType
  <2>5. 1 \in DOMAIN dact[a].todo /\ Head(dact[a].todo) = dact[a].todo[1]
    <3>1. PICK td : td = dact[a].todo OBVIOUS
    <3>2. td \in Seq(Job) /\ td # << >> BY ONLY <2>3, <2>4, <3>1
    <3>3. Len(td) \in Nat /\ Len(td) # 0 BY <3>2, EmptySeq
    <3>4. DOMAIN td = 1 .. Len(td) /\ Head(td) = td[1] BY ONLY <3>2
    <3> QED BY ONLY <3>1, <3>3, <3>4
  <2>6. JobOk(dact[a].todo[1], dact[a].pc, deferred[t], s, dgp)
    BY ONLY RingAt(t, dq[t], deferred[t], dact, dgp, v, s), <2>3, <2>5 DEF RingAt
  <2>7. Head(dact[a].todo).i = s[1] % WordRange BY ONLY <2>5, <2>6 DEF JobOk
  <2>8. DrainPosition(t) = Head(dact[CHOOSE b \in at : TRUE].todo).i
    BY ONLY <1>2, Zenon DEF DrainPosition
  <2> QED BY ONLY <2>1, <2>7, <2>8
<1> QED BY <1>1, <1>2

(* The ring of each thread holds the callbacks it deferred that have not   *)
(* run, in order: whatever their words look like, however often the ring   *)
(* and the count of words wrap, while any thread drains it.                *)
THEOREM DeferRings == DeferSpec => []RingHoldsDeferred
<1>1. DInv => RingHoldsDeferred
  <2> SUFFICES ASSUME DInv, NEW t \in DThreads
               PROVE  LET n == Len(deferred[t])
                          start == DrainPosition(t)
                      IN  /\ dq[t].q = << >> => n = 0
                          /\ minus(dq[t].head, dq[t].tail) <= DQSize
                          /\ \E at \in [1 .. n + 1 -> 0 .. DQSize] :
                                /\ at[1] = 0
                                /\ at[n + 1] = minus(dq[t].head, start)
                                /\ \A k \in 1 .. n :
                                     Reads(dq[t], plus(start, at[k]),
                                           LastFct(dq[t], deferred[t], k),
                                           deferred[t][k], at[k + 1] - at[k])
    BY DEF RingHoldsDeferred
  <2>1. PICK d, df, start, n : /\ d = dq[t] /\ df = deferred[t]
                               /\ start = DrainPosition(t) /\ n = Len(df)
    OBVIOUS
  <2>2. d \in RingType /\ df \in Seq(Entry) BY <2>1 DEF DInv, DTypes
  <2>3. DRing(t) /\ DGone(t) BY DEF DInv, DThread
  <2>4. PICK v \in Nat, s \in Positions : RingAt(t, dq[t], deferred[t], dact, dgp, v, s)
    BY ONLY <2>3 DEF DRing, RingOk
  <2>5. DCut(d, df, v, s) /\ DBounds(d, df, v, s) BY ONLY <2>1, <2>4 DEF RingAt, DCut
  <2>6. start = s[1] % WordRange BY <2>1, <2>4, DDrainStart
  <2>7. d.q = << >> => n = 0
    <3>1. Len(<< >>) = 0 OBVIOUS
    <3> QED BY ONLY <2>1, <2>3, <3>1 DEF DGone
  <2>8. /\ minus(d.head, d.tail) <= DQSize
        /\ minus(d.head, start) = s[n + 1] - s[1]
    BY ONLY <2>1, <2>2, <2>5, <2>6, RingFill, v \in Nat, s \in Positions
  <2>9. n \in Nat BY ONLY <2>1, <2>2
  <2>10. PICK f : f = [k \in 1 .. n + 1 |-> s[k] - s[1]] OBVIOUS
  <2>11. \A k \in 1 .. n + 1 : /\ s[1] \in Nat /\ s[k] \in Nat /\ s[1] <= s[k]
                               /\ s[k] - s[1] \in 0 .. DQSize
    <3> SUFFICES ASSUME NEW k \in 1 .. n + 1
                 PROVE  /\ s[1] \in Nat /\ s[k] \in Nat /\ s[1] <= s[k]
                        /\ s[k] - s[1] \in 0 .. DQSize
      OBVIOUS
    <3>1. /\ s[1] \in Nat /\ s[k] \in Nat /\ s[Len(df) + 1] \in Nat
          /\ v <= s[1] /\ s[1] <= s[k] /\ s[k] <= s[Len(df) + 1]
          /\ s[Len(df) + 1] <= v + DQSize
      BY ONLY <2>1, <2>2, <2>5, DDistance, v \in Nat, s \in Positions, k \in 1 .. n + 1
    <3>2. PICK x \in Nat, y \in Nat, z \in Nat : x = s[1] /\ y = s[k] /\ z = s[Len(df) + 1]
      BY ONLY <3>1
    <3>3. v <= x /\ x <= y /\ y <= z /\ z <= v + DQSize BY ONLY <3>1, <3>2
    <3>4. DQSize \in Nat BY DeferAssumption
    <3>5. y - x \in 0 .. DQSize BY ONLY <3>3, <3>4, v \in Nat, x \in Nat, y \in Nat, z \in Nat
    <3> QED BY ONLY <3>1, <3>2, <3>5
  <2>12. f \in [1 .. n + 1 -> 0 .. DQSize] BY ONLY <2>10, <2>11
  <2>13. 1 \in 1 .. n + 1 /\ n + 1 \in 1 .. n + 1 BY ONLY <2>9
  <2>14. f[1] = 0
    <3>1. s[1] \in Nat /\ f[1] = s[1] - s[1] BY ONLY <2>10, <2>11, <2>13
    <3> QED BY ONLY <3>1
  <2>15. f[n + 1] = minus(d.head, start) BY ONLY <2>8, <2>10, <2>13
  <2>16. ASSUME NEW k \in 1 .. n
         PROVE  Reads(d, plus(start, f[k]), LastFct(d, df, k), df[k], f[k + 1] - f[k])
    <3>1. k \in 1 .. n + 1 /\ k + 1 \in 1 .. n + 1 BY ONLY <2>9, k \in 1 .. n
    <3>2. PICK x \in Nat, y \in Nat, z \in Nat : x = s[1] /\ y = s[k] /\ z = s[k + 1]
      BY ONLY <2>11, <3>1
    <3>3. x <= y /\ f[k] = y - x /\ f[k + 1] = z - x BY ONLY <2>10, <2>11, <3>1, <3>2
    <3>4. y - x \in Nat /\ x + (y - x) = y /\ (z - x) - (y - x) = z - y
      BY ONLY <3>3, x \in Nat, y \in Nat, z \in Nat
    <3>5. plus(x % WordRange, y - x) = y % WordRange
      <4>1. plus(x % WordRange, y - x) = (x + (y - x)) % WordRange
        BY ONLY <3>4, x \in Nat, DPlus
      <4> QED BY ONLY <3>4, <4>1
    <3>6. Reads(d, s[k] % WordRange, LastFct(d, df, k), df[k], s[k + 1] - s[k])
      BY ONLY <2>1, <2>2, <2>5, DCutReads, v \in Nat, s \in Positions, k \in 1 .. n
    <3>7. plus(start, f[k]) = s[k] % WordRange BY ONLY <2>6, <3>2, <3>3, <3>5
    <3>8. f[k + 1] - f[k] = s[k + 1] - s[k] BY ONLY <3>2, <3>3, <3>4
    <3> QED BY ONLY <3>6, <3>7, <3>8
  <2> QED BY ONLY <2>1, <2>7, <2>8, <2>12, <2>14, <2>15, <2>16
<1> QED BY <1>1, DeferInductive, PTL

=============================================================================
