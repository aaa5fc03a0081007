---------------------------- MODULE UrcuWaitProof ----------------------------
(***************************************************************************)
(* Proofs about the batching of synchronize_rcu() callers (module          *)
(* UrcuWait), for any sets of callers and readers: wakers never touch the  *)
(* node of a caller that has returned, the assertion of                    *)
(* urcu_adaptative_wake_up() holds, and every caller, leader or waiter,    *)
(* gets the promise of GracePeriod.                                        *)
(*                                                                         *)
(* The argument.  Every node that has been pushed and not been released    *)
(* belongs to exactly one list: the stack gp_waiters, or the batch that    *)
(* one leader has popped from it.  The invariant says that such a          *)
(* partition B exists:                                                     *)
(*   B[v] = END   v is on the stack;                                       *)
(*   B[v] = u     v is in the batch of leader u (u itself included);       *)
(*   B[v] = NULL  v is on no list.                                         *)
(* Within a list every node has at most one predecessor, so that a leader  *)
(* that walks down its batch meets every node once, and what it has        *)
(* released it never meets again.  Nobody else holds the address of a node *)
(* in its batch: two leaders cannot wake the same waiter.                  *)
(***************************************************************************)
EXTENDS UrcuWait, TLAPS

-----------------------------------------------------------------------------
(* The inductive invariant.                                                *)

Pointers == Updaters \cup {END, NULL}
LeadingPC == {"lead", "gp_lock", "move"}
WakingPC == WakerPC \cup {"wake"}
OwnerPC == WakingPC \cup {"gp"}      \* the caller has a batch of its own
WokenPC == {"wake_test", "wake_futex", "teardown"}
UpdaterPC == {"idle", "push", "link", "assert_failed"} \cup LeadingPC \cup OwnerPC
                 \cup WaiterPC

TypeOK ==
    /\ head \in Updaters \cup {END}
    /\ next \in [Updaters -> Pointers]
    /\ state \in [Updaters -> SUBSET {"WAKEUP", "RUNNING", "TEARDOWN"}]
    /\ gp_lock \in Updaters \cup {NULL}
    /\ gpre \in SUBSET Readers
    /\ upc \in [Updaters -> UpdaterPC]
    /\ iter \in [Updaters -> Pointers]
    /\ iter_n \in [Updaters -> Pointers]
    /\ cs \in SUBSET Readers
    /\ pre \in [Updaters -> SUBSET Readers]

(* The node below v's, also while v is between the two steps of its push.  *)
Link(v) == IF upc[v] = "link" THEN iter[v] ELSE next[v]

(* The head of gp_waiters is on the stack, and nothing is above it.        *)
Stack(B) ==
    /\ head # END => B[head] = END
    /\ head = END => \A v \in Updaters : B[v] # END
    /\ \A v \in Updaters : B[v] = END => Link(v) # head

(* Batches belong to callers that walk them; a node on a list belongs to a *)
(* caller that has not returned.                                           *)
Members(B) ==
    \A v \in Updaters :
        /\ B[v] \in Updaters => upc[B[v]] \in OwnerPC
        /\ B[v] # NULL =>
              \/ upc[v] \in WaiterPC \cup {"link"}
              \/ upc[v] \in LeadingPC /\ B[v] = END
              \/ upc[v] \in OwnerPC /\ B[v] = v

(* Links stay within a list and are never shared; the node at the bottom   *)
(* is the one of the caller that leads, or will.                           *)
Links(B) ==
    /\ \A v \in Updaters : B[v] # NULL =>
          /\ Link(v) # NULL
          /\ Link(v) # END => B[Link(v)] = B[v]
          /\ Link(v) = END =>
                B[v] = v \/ (B[v] = END /\ upc[v] \in LeadingPC \cup {"link"})
    /\ \A v, w \in Updaters :
          v # w /\ B[v] # NULL /\ B[v] = B[w] => Link(v) # Link(w)

(* Whoever is to lead waits at the bottom of the stack.                    *)
Bottom(B) ==
    \A v \in Updaters :
        /\ upc[v] \in LeadingPC \/ (upc[v] = "link" /\ iter[v] = END) =>
              B[v] = END /\ Link(v) = END
        /\ upc[v] \in {"push", "link"} => next[v] = NULL
        /\ upc[v] = "link" => iter[v] # NULL

(* A leader's place in its batch: nothing that is left is above it, and    *)
(* what it has read of the node at that place is still true.               *)
Place(B) ==
    \A u \in Updaters :
        /\ upc[u] \in OwnerPC =>
              /\ iter[u] # NULL
              /\ iter[u] # END => B[iter[u]] = u
              /\ iter[u] # END => \A v \in Updaters : B[v] = u => Link(v) # iter[u]
        /\ upc[u] \in WakerPC =>
              /\ iter[u] # END
              /\ iter_n[u] = next[iter[u]]
              /\ upc[iter[u]] # "link"

(* The flags of a node.  A waiter that is still on a list has none of      *)
(* them, unless its leader is waking it up just now.                       *)
Flags(B) ==
    \A v \in Updaters :
        /\ upc[v] \in {"push", "link", "lead"} => state[v] = {}
        /\ upc[v] \in {"gp_lock", "move"} \cup OwnerPC => state[v] = {"RUNNING"}
        /\ upc[v] \in {"run", "teardown_wait"} => state[v] # {}
        /\ upc[v] \in WaiterPC /\ B[v] # NULL =>
              state[v] = {} \/ (B[v] \in Updaters /\ upc[B[v]] \in WokenPC /\ iter[B[v]] = v)
        /\ upc[v] \in {"wake_assert", "wake_set"} => state[iter[v]] = {}
        /\ upc[v] \in WokenPC =>
              iter[v] # v /\ "WAKEUP" \in state[iter[v]] /\ "TEARDOWN" \notin state[iter[v]]

(* The sections a caller has to wait for are among those that the grace    *)
(* period of its leader waits for; nobody is told to go on before.         *)
Sections(B) ==
    \A u \in Updaters :
        /\ pre[u] \subseteq cs
        /\ "WAKEUP" \in state[u] \/ "TEARDOWN" \in state[u] => pre[u] = {}
        /\ upc[u] = "gp" => pre[u] \subseteq gpre
        /\ upc[u] \in WakingPC => pre[u] = {}
        /\ upc[u] \in {"move", "gp"} => gp_lock = u
        /\ B[u] \in Updaters =>
              pre[u] \subseteq (IF upc[B[u]] = "gp" THEN gpre ELSE {})

Batched(B) ==
    /\ Stack(B) /\ Members(B) /\ Links(B) /\ Bottom(B)
    /\ Place(B) /\ Flags(B) /\ Sections(B)

IInv ==
    /\ TypeOK
    /\ WakeUpAssertHolds
    /\ \E B \in [Updaters -> Pointers] : Batched(B)

-----------------------------------------------------------------------------
(* Nobody has called: all nodes are on no list.                            *)
LEMMA InitIInv == Init => IInv
<1> SUFFICES ASSUME Init PROVE IInv
  OBVIOUS
<1> DEFINE B == [u \in Updaters |-> NULL]
<1>1. B \in [Updaters -> Pointers]
  BY DEF Pointers
<1>2. TypeOK /\ WakeUpAssertHolds
  BY DEF Init, TypeOK, WakeUpAssertHolds, Pointers, UpdaterPC
<1>3. Batched(B)
  BY WaitAssumption DEF Init, Batched, Stack, Members, Links, Bottom, Place, Flags,
     Sections, Link, LeadingPC, OwnerPC, WakingPC, WakerPC, WaiterPC, WokenPC
<1> QED BY <1>1, <1>2, <1>3 DEF IInv

(* Readers only make the sets of sections smaller that somebody waits for, *)
(* or add a section nobody waits for.                                      *)
LEMMA ReaderPreserves ==
    ASSUME TypeOK, WakeUpAssertHolds, NEW B \in [Updaters -> Pointers], Batched(B),
           NEW r \in Readers, Enter(r) \/ Leave(r)
    PROVE  IInv'
<1>1. TypeOK'
  BY DEF TypeOK, Enter, Leave, nodes, locals
<1>2. UNCHANGED <<nodes, gp_lock, upc, locals>>
  BY DEF Enter, Leave
<1>3. (Stack(B) /\ Members(B) /\ Links(B) /\ Bottom(B) /\ Place(B) /\ Flags(B))'
  BY <1>2 DEF Batched, Stack, Members, Links, Bottom, Place, Flags, Link, nodes, locals
<1>4. Sections(B)'
  BY <1>2 DEF TypeOK, Batched, Sections, Enter, Leave, nodes
<1>5. WakeUpAssertHolds'
  BY <1>2 DEF WakeUpAssertHolds
<1> QED BY <1>1, <1>3, <1>4, <1>5 DEF IInv, Batched

(* A step of a caller.  Its node joins the stack in cds_wfs_push(), moves   *)
(* with the whole stack to the leader's batch in urcu_move_waiters(), and  *)
(* leaves the batch when the leader is done with it; in all other steps    *)
(* the lists stay what they are.                                           *)
LEMMA UpdaterPreserves ==
    ASSUME TypeOK, WakeUpAssertHolds, NEW B \in [Updaters -> Pointers], Batched(B),
           NEW u \in Updaters,
           synchronize_rcu(u) \/ UpdaterStep(u) \/ Interrupted(u)
    PROVE  IInv'
<1> USE DEF WakerPC, WakingPC, OwnerPC, WaiterPC, LeadingPC, WokenPC, UpdaterPC,
            Pointers, goto
<1>1. CASE synchronize_rcu(u)
  <2>1. TypeOK' /\ WakeUpAssertHolds'
    BY <1>1 DEF TypeOK, WakeUpAssertHolds, Batched, synchronize_rcu, locals
  <2>2. Stack(B)'
    BY <1>1, WaitAssumption DEF TypeOK, Batched, Stack, Link, synchronize_rcu,
       locals
  <2>3. Members(B)'
    BY <1>1 DEF Batched, Members, synchronize_rcu
  <2>4. Links(B)'
    BY <1>1 DEF Batched, Members, Links, Flags, Link, synchronize_rcu, locals
  <2>5. Bottom(B)'
    BY <1>1 DEF TypeOK, Batched, Bottom, Link, synchronize_rcu, locals
  <2>6. Place(B)'
    BY <1>1, WaitAssumption DEF Batched, Members, Place, Link,
       synchronize_rcu, locals
  <2>7. Flags(B)'
    BY <1>1, WaitAssumption DEF TypeOK, Batched, Members, Place, Flags,
       synchronize_rcu, locals
  <2>8. Sections(B)'
    BY <1>1, WaitAssumption DEF TypeOK, Batched, Members, Sections,
       synchronize_rcu
  <2>9. QED
    BY <2>1, <2>2, <2>3, <2>4, <2>5, <2>6, <2>7, <2>8 DEF IInv, Batched
<1>2. CASE cds_wfs_push(u)
  <2> DEFINE C == [B EXCEPT ![u] = END]
  <2>1. C \in [Updaters -> Pointers]
    OBVIOUS
  <2>2. TypeOK' /\ WakeUpAssertHolds'
    BY <1>2 DEF TypeOK, WakeUpAssertHolds, Batched, cds_wfs_push
  <2>3. Stack(C)'
    BY SMTT(20), <1>2, WaitAssumption DEF TypeOK, Batched, Stack, Members, Links, Link,
       cds_wfs_push
  <2>4. Members(C)'
    BY <1>2, WaitAssumption DEF TypeOK, Batched, Members, cds_wfs_push
  <2>5. Links(C)'
    BY SMTT(20), <1>2, <2>1 DEF TypeOK, Batched, Stack, Members, Links, Link,
       cds_wfs_push
  <2>6. Bottom(C)'
    BY <1>2, WaitAssumption DEF TypeOK, Batched, Bottom, Link, cds_wfs_push
  <2>7. Place(C)'
    BY <1>2, WaitAssumption DEF Batched, Members, Place, Link, cds_wfs_push
  <2>8. Flags(C)'
    BY <1>2 DEF Batched, Flags, cds_wfs_push
  <2>9. Sections(C)'
    BY <1>2, WaitAssumption DEF Batched, Sections, cds_wfs_push
  <2>10. QED
    BY <2>1, <2>2, <2>3, <2>4, <2>5, <2>6, <2>7, <2>8, <2>9 DEF IInv, Batched
<1>3. CASE PushLink(u)
  <2>1. TypeOK' /\ WakeUpAssertHolds'
    BY <1>3 DEF TypeOK, WakeUpAssertHolds, Batched, PushLink
  <2>2. Stack(B)'
    BY <1>3 DEF TypeOK, Batched, Stack, Link, PushLink
  <2>3. Members(B)'
    BY <1>3 DEF Batched, Members, Bottom, PushLink
  <2>4. Links(B)'
    BY <1>3 DEF TypeOK, Batched, Links, Link, PushLink
  <2>5. Bottom(B)'
    BY <1>3 DEF TypeOK, Batched, Bottom, Link, PushLink
  <2>6. Place(B)'
    BY <1>3 DEF TypeOK, Batched, Place, Link, PushLink
  <2>7. Flags(B)'
    BY <1>3 DEF Batched, Flags, PushLink
  <2>8. Sections(B)'
    BY <1>3 DEF Batched, Sections, PushLink
  <2>9. QED
    BY <2>1, <2>2, <2>3, <2>4, <2>5, <2>6, <2>7, <2>8 DEF IInv, Batched
<1>4. CASE LeaderRunning(u)
  <2>1. TypeOK' /\ WakeUpAssertHolds'
    BY <1>4 DEF TypeOK, WakeUpAssertHolds, Batched, LeaderRunning, locals
  <2>2. Stack(B)'
    BY <1>4 DEF Batched, Stack, Link, LeaderRunning, locals
  <2>3. Members(B)'
    BY <1>4 DEF Batched, Members, LeaderRunning
  <2>4. Links(B)'
    BY <1>4 DEF Batched, Links, Link, LeaderRunning, locals
  <2>5. Bottom(B)'
    BY <1>4 DEF Batched, Bottom, Link, LeaderRunning, locals
  <2>6. Place(B)'
    BY <1>4 DEF Batched, Place, Link, LeaderRunning, locals
  <2>7. Flags(B)'
    BY <1>4, WaitAssumption DEF TypeOK, Batched, Members, Place, Flags,
       LeaderRunning, locals
  <2>8. Sections(B)'
    BY <1>4 DEF Batched, Sections, LeaderRunning
  <2>9. QED
    BY <2>1, <2>2, <2>3, <2>4, <2>5, <2>6, <2>7, <2>8 DEF IInv, Batched
<1>5. CASE LockGP(u)
  <2>1. TypeOK' /\ WakeUpAssertHolds'
    BY <1>5 DEF TypeOK, WakeUpAssertHolds, Batched, LockGP, nodes, locals
  <2>2. Stack(B)'
    BY <1>5 DEF Batched, Stack, Link, LockGP, nodes, locals
  <2>3. Members(B)'
    BY <1>5 DEF Batched, Members, LockGP
  <2>4. Links(B)'
    BY <1>5 DEF Batched, Links, Link, LockGP, nodes, locals
  <2>5. Bottom(B)'
    BY <1>5 DEF Batched, Bottom, Link, LockGP, nodes, locals
  <2>6. Place(B)'
    BY <1>5 DEF Batched, Place, Link, LockGP, nodes, locals
  <2>7. Flags(B)'
    BY <1>5 DEF Batched, Flags, LockGP, nodes, locals
  <2>8. Sections(B)'
    BY <1>5, WaitAssumption DEF Batched, Sections, LockGP, nodes
  <2>9. QED
    BY <2>1, <2>2, <2>3, <2>4, <2>5, <2>6, <2>7, <2>8 DEF IInv, Batched
<1>6. CASE urcu_move_waiters(u)
  <2> DEFINE C == [v \in Updaters |-> IF B[v] = END THEN u ELSE B[v]]
  <2>1. C \in [Updaters -> Pointers]
    OBVIOUS
  <2>2. TypeOK' /\ WakeUpAssertHolds'
    BY <1>6 DEF TypeOK, WakeUpAssertHolds, Batched, urcu_move_waiters
  <2>3. Stack(C)'
    BY <1>6, WaitAssumption DEF Batched, Stack, urcu_move_waiters
  <2>4. Members(C)'
    BY <1>6, WaitAssumption DEF TypeOK, Batched, Members, Links, Bottom,
       urcu_move_waiters
  <2>5. Links(C)'
    BY <1>6, WaitAssumption DEF TypeOK, Batched, Links, Bottom, Link,
       urcu_move_waiters
  <2>6. Bottom(C)'
    BY <1>6, WaitAssumption DEF TypeOK, Batched, Links, Bottom,
       urcu_move_waiters
  <2>7. Place(C)'
    BY <1>6, WaitAssumption DEF TypeOK, Batched, Stack, Members, Place, Link,
       urcu_move_waiters
  <2>8. Flags(C)'
    BY <1>6, WaitAssumption DEF Batched, Flags, urcu_move_waiters
  <2>9. Sections(C)'
    BY <1>6 DEF TypeOK, Batched, Sections, urcu_move_waiters
  <2>10. QED
    BY <2>2, <2>3, <2>4, <2>5, <2>6, <2>7, <2>8, <2>9 DEF IInv, Batched
<1>7. CASE GracePeriodEnd(u)
  <2>1. TypeOK' /\ WakeUpAssertHolds'
    BY <1>7 DEF TypeOK, WakeUpAssertHolds, Batched, GracePeriodEnd, nodes,
       locals
  <2>2. Stack(B)'
    BY <1>7 DEF Batched, Stack, Link, GracePeriodEnd, nodes, locals
  <2>3. Members(B)'
    BY <1>7 DEF Batched, Members, GracePeriodEnd
  <2>4. Links(B)'
    BY <1>7 DEF Batched, Links, Link, GracePeriodEnd, nodes, locals
  <2>5. Bottom(B)'
    BY <1>7 DEF Batched, Bottom, Link, GracePeriodEnd, nodes, locals
  <2>6. Place(B)'
    BY <1>7 DEF Batched, Place, Link, GracePeriodEnd, nodes, locals
  <2>7. Flags(B)'
    BY <1>7 DEF Batched, Flags, GracePeriodEnd, nodes, locals
  <2>8. Sections(B)'
    BY <1>7 DEF TypeOK, Batched, Sections, GracePeriodEnd, nodes
  <2>9. QED
    BY <2>1, <2>2, <2>3, <2>4, <2>5, <2>6, <2>7, <2>8 DEF IInv, Batched
<1>8. CASE urcu_wake_all_waiters(u)
  <2>1. TypeOK' /\ WakeUpAssertHolds'
    BY <1>8 DEF TypeOK, WakeUpAssertHolds, Batched, Place,
       urcu_wake_all_waiters, nodes
  <2>2. Stack(B)'
    BY <1>8 DEF Batched, Stack, Link, urcu_wake_all_waiters, nodes
  <2>3. Members(B)'
    BY <1>8 DEF Batched, Members, urcu_wake_all_waiters
  <2>4. Links(B)'
    BY <1>8 DEF Batched, Links, Link, urcu_wake_all_waiters, nodes
  <2>5. Bottom(B)'
    BY <1>8 DEF Batched, Bottom, Link, urcu_wake_all_waiters, nodes
  <2>6. Place(B)'
    BY <1>8 DEF TypeOK, Batched, Bottom, Place, Link, urcu_wake_all_waiters,
       nodes
  <2>7. Flags(B)'
    BY <1>8 DEF Batched, Stack, Flags, urcu_wake_all_waiters, nodes
  <2>8. Sections(B)'
    BY <1>8 DEF Batched, Sections, urcu_wake_all_waiters, nodes
  <2>9. QED
    BY <2>1, <2>2, <2>3, <2>4, <2>5, <2>6, <2>7, <2>8 DEF IInv, Batched
<1>9. CASE WakeAllDone(u)
  <2> DEFINE C == [v \in Updaters |-> IF B[v] = u THEN NULL ELSE B[v]]
  <2>1. C \in [Updaters -> Pointers]
    OBVIOUS
  <2>2. TypeOK' /\ WakeUpAssertHolds'
    BY <1>9 DEF TypeOK, WakeUpAssertHolds, Batched, WakeAllDone, nodes
  <2>3. Stack(C)'
    BY <1>9, WaitAssumption DEF TypeOK, Batched, Stack, Link, WakeAllDone,
       nodes
  <2>4. Members(C)'
    BY <1>9, WaitAssumption DEF Batched, Members, WakeAllDone
  <2>5. Links(C)'
    BY <1>9 DEF TypeOK, Batched, Links, Link, WakeAllDone, nodes
  <2>6. Bottom(C)'
    BY <1>9, WaitAssumption DEF Batched, Bottom, Link, WakeAllDone, nodes
  <2>7. Place(C)'
    BY <1>9, WaitAssumption DEF TypeOK, Batched, Place, Link, WakeAllDone,
       nodes
  <2>8. Flags(C)'
    BY <1>9, <2>1 DEF Batched, Flags, WakeAllDone, nodes
  <2>9. Sections(C)'
    BY <1>9 DEF Batched, Sections, WakeAllDone, nodes
  <2>10. QED
    BY <2>2, <2>3, <2>4, <2>5, <2>6, <2>7, <2>8, <2>9 DEF IInv, Batched
<1>10. CASE WakeSkip(u)
  <2>1. PICK w \in Updaters : w = iter[u]
    BY <1>10 DEF TypeOK, Batched, Place, WakeSkip
  <2> DEFINE C == [B EXCEPT ![w] = NULL]
  <2>2. C \in [Updaters -> Pointers]
    OBVIOUS
  <2>3. TypeOK' /\ WakeUpAssertHolds'
    BY <1>10 DEF TypeOK, WakeUpAssertHolds, Batched, WakeSkip, nodes,
       NextWaiter
  <2>4. Stack(C)'
    BY <1>10, <2>1, WaitAssumption DEF Batched, Stack, Place, Link, WakeSkip,
       nodes, NextWaiter
  <2>5. Members(C)'
    BY <1>10, WaitAssumption DEF Batched, Members, WakeSkip, NextWaiter
  <2>6. Links(C)'
    BY <1>10, <2>1 DEF Batched, Links, Place, Link, WakeSkip, nodes,
       NextWaiter
  <2>7. Bottom(C)'
    BY <1>10, <2>1, WaitAssumption DEF Batched, Bottom, Place, Link, WakeSkip,
       nodes, NextWaiter
  <2>8. Place(C)'
    BY <1>10, <2>1, WaitAssumption DEF TypeOK, Batched, Links, Place, Link,
       WakeSkip, nodes, NextWaiter
  <2>9. Flags(C)'
    BY <1>10 DEF Batched, Flags, WakeSkip, nodes, NextWaiter
  <2>10. Sections(C)'
    BY <1>10, WaitAssumption DEF Batched, Sections, WakeSkip, nodes,
       NextWaiter
  <2>11. QED
    BY <2>2, <2>3, <2>4, <2>5, <2>6, <2>7, <2>8, <2>9, <2>10 DEF IInv, Batched
<1>11. CASE WakeNotRunning(u)
  <2>1. TypeOK' /\ WakeUpAssertHolds'
    BY <1>11 DEF TypeOK, WakeUpAssertHolds, Batched, WakeNotRunning, nodes,
       locals
  <2>2. Stack(B)'
    BY <1>11 DEF Batched, Stack, Link, WakeNotRunning, nodes, locals
  <2>3. Members(B)'
    BY <1>11 DEF Batched, Members, WakeNotRunning
  <2>4. Links(B)'
    BY <1>11 DEF Batched, Links, Link, WakeNotRunning, nodes, locals
  <2>5. Bottom(B)'
    BY <1>11 DEF Batched, Bottom, Link, WakeNotRunning, nodes, locals
  <2>6. Place(B)'
    BY <1>11 DEF Batched, Place, Link, WakeNotRunning, nodes, locals
  <2>7. Flags(B)'
    BY <1>11, WaitAssumption DEF TypeOK, Batched, Members, Place, Flags,
       WakeNotRunning, nodes, locals
  <2>8. Sections(B)'
    BY <1>11 DEF Batched, Sections, WakeNotRunning, nodes
  <2>9. QED
    BY <2>1, <2>2, <2>3, <2>4, <2>5, <2>6, <2>7, <2>8 DEF IInv, Batched
<1>12. CASE urcu_adaptative_wake_up(u)
  <2>1. TypeOK' /\ WakeUpAssertHolds'
    BY <1>12 DEF TypeOK, WakeUpAssertHolds, Batched, Flags,
       urcu_adaptative_wake_up, nodes, locals
  <2>2. Stack(B)'
    BY <1>12 DEF Batched, Stack, Link, urcu_adaptative_wake_up, nodes, locals
  <2>3. Members(B)'
    BY <1>12 DEF Batched, Members, Flags, urcu_adaptative_wake_up
  <2>4. Links(B)'
    BY <1>12 DEF Batched, Links, Link, urcu_adaptative_wake_up, nodes, locals
  <2>5. Bottom(B)'
    BY <1>12 DEF Batched, Bottom, Link, urcu_adaptative_wake_up, nodes, locals
  <2>6. Place(B)'
    BY <1>12 DEF Batched, Place, Link, urcu_adaptative_wake_up, nodes, locals
  <2>7. Flags(B)'
    BY <1>12 DEF Batched, Flags, urcu_adaptative_wake_up, nodes, locals
  <2>8. Sections(B)'
    BY <1>12 DEF Batched, Sections, urcu_adaptative_wake_up, nodes
  <2>9. QED
    BY <2>1, <2>2, <2>3, <2>4, <2>5, <2>6, <2>7, <2>8 DEF IInv, Batched
<1>13. CASE WakeSet(u)
  <2>1. TypeOK' /\ WakeUpAssertHolds'
    BY <1>13 DEF TypeOK, WakeUpAssertHolds, Batched, Place, WakeSet, locals
  <2>2. Stack(B)'
    BY <1>13 DEF Batched, Stack, Link, WakeSet, locals
  <2>3. Members(B)'
    BY <1>13 DEF Batched, Members, WakeSet
  <2>4. Links(B)'
    BY <1>13 DEF Batched, Links, Link, WakeSet, locals
  <2>5. Bottom(B)'
    BY <1>13 DEF Batched, Bottom, Link, WakeSet, locals
  <2>6. Place(B)'
    BY <1>13 DEF Batched, Place, Link, WakeSet, locals
  <2>7. Flags(B)'
    <3>1. iter[u] \in Updaters /\ state[iter[u]] = {} /\ B[iter[u]] = u
      BY <1>13 DEF TypeOK, Batched, Place, Flags, WakeSet
    <3>2. \A v \in Updaters : upc[v] \in WakerPC /\ v # u => iter[v] # iter[u]
      BY <3>1 DEF Batched, Place
    <3>3. upc[u] = "wake_set" /\ state[u] = {"RUNNING"} /\ iter[u] # u
      BY <1>13 DEF Batched, Flags, WakeSet
    <3>4. state' = [state EXCEPT ![iter[u]] = {"WAKEUP"}] /\ iter' = iter
          /\ upc' = [upc EXCEPT ![u] = "wake_test"]
      BY <1>13 DEF WakeSet, locals
    <3>5. state'[iter[u]] = {"WAKEUP"} /\ upc'[iter[u]] \in WaiterPC
      BY <3>3, <3>4, WaitAssumption DEF TypeOK, Batched, Members, Place
    <3>6. \A v \in Updaters : v # iter[u] => state'[v] = state[v]
      BY <3>4
    <3>7. \A v \in Updaters : v # u => upc'[v] = upc[v]
      BY <3>4
    <3>8. upc'[u] = "wake_test"
      BY <3>4 DEF TypeOK
    <3> QED
      BY <3>1, <3>2, <3>3, <3>4, <3>5, <3>8 DEF Batched, Flags
  <2>8. Sections(B)'
    BY <1>13 DEF Batched, Place, Sections, WakeSet
  <2>9. QED
    BY <2>1, <2>2, <2>3, <2>4, <2>5, <2>6, <2>7, <2>8 DEF IInv, Batched
<1>14. CASE WakeTest(u)
  <2>1. TypeOK' /\ WakeUpAssertHolds'
    BY <1>14 DEF TypeOK, WakeUpAssertHolds, Batched, WakeTest, nodes, locals
  <2>2. Stack(B)'
    BY <1>14 DEF Batched, Stack, Link, WakeTest, nodes, locals
  <2>3. Members(B)'
    BY <1>14 DEF Batched, Members, WakeTest
  <2>4. Links(B)'
    BY <1>14 DEF Batched, Links, Link, WakeTest, nodes, locals
  <2>5. Bottom(B)'
    BY <1>14 DEF Batched, Bottom, Link, WakeTest, nodes, locals
  <2>6. Place(B)'
    BY <1>14 DEF Batched, Place, Link, WakeTest, nodes, locals
  <2>7. Flags(B)'
    BY <1>14 DEF Batched, Flags, WakeTest, nodes, locals
  <2>8. Sections(B)'
    BY <1>14 DEF Batched, Sections, WakeTest, nodes
  <2>9. QED
    BY <2>1, <2>2, <2>3, <2>4, <2>5, <2>6, <2>7, <2>8 DEF IInv, Batched
<1>15. CASE WakeFutex(u)
  <2>1. TypeOK' /\ WakeUpAssertHolds'
    BY <1>15 DEF TypeOK, WakeUpAssertHolds, Batched, Place, WakeFutex, nodes,
       locals
  <2>2. Stack(B)'
    BY <1>15 DEF TypeOK, Batched, Stack, Link, WakeFutex, nodes, locals
  <2>3. Members(B)'
    BY <1>15 DEF TypeOK, Batched, Members, WakeFutex
  <2>4. Links(B)'
    BY <1>15 DEF TypeOK, Batched, Links, Link, WakeFutex, nodes, locals
  <2>5. Bottom(B)'
    BY <1>15 DEF TypeOK, Batched, Bottom, Link, WakeFutex, nodes, locals
  <2>6. Place(B)'
    BY <1>15 DEF TypeOK, Batched, Place, Link, WakeFutex, nodes, locals
  <2>7. Flags(B)'
    BY <1>15 DEF TypeOK, Batched, Stack, Flags, WakeFutex, nodes, locals
  <2>8. Sections(B)'
    BY <1>15 DEF TypeOK, Batched, Sections, WakeFutex, nodes
  <2>9. QED
    BY <2>1, <2>2, <2>3, <2>4, <2>5, <2>6, <2>7, <2>8 DEF IInv, Batched
<1>16. CASE Teardown(u)
  <2>1. PICK w \in Updaters : w = iter[u]
    BY <1>16 DEF TypeOK, Batched, Place, Teardown
  <2> DEFINE C == [B EXCEPT ![w] = NULL]
  <2>2. C \in [Updaters -> Pointers]
    OBVIOUS
  <2>3. TypeOK' /\ WakeUpAssertHolds'
    BY <1>16 DEF TypeOK, WakeUpAssertHolds, Batched, Place, Teardown,
       NextWaiter
  <2>4. Stack(C)'
    BY <1>16, <2>1, WaitAssumption DEF Batched, Stack, Place, Link, Teardown,
       NextWaiter
  <2>5. Members(C)'
    BY <1>16, WaitAssumption DEF Batched, Members, Teardown, NextWaiter
  <2>6. Links(C)'
    BY <1>16, <2>1 DEF Batched, Links, Place, Link, Teardown, NextWaiter
  <2>7. Bottom(C)'
    BY <1>16, <2>1, WaitAssumption DEF Batched, Bottom, Place, Link, Teardown,
       NextWaiter
  <2>8. Place(C)'
    BY <1>16, <2>1, WaitAssumption DEF TypeOK, Batched, Links, Place, Link,
       Teardown, NextWaiter
  <2>9. Flags(C)'
    BY <1>16, <2>1 DEF TypeOK, Batched, Place, Flags, Teardown, NextWaiter
  <2>10. Sections(C)'
    BY <1>16, WaitAssumption DEF Batched, Place, Sections, Teardown,
       NextWaiter
  <2>11. QED
    BY <2>2, <2>3, <2>4, <2>5, <2>6, <2>7, <2>8, <2>9, <2>10 DEF IInv, Batched
<1>17. CASE urcu_adaptative_busy_wait(u)
  <2>1. TypeOK' /\ WakeUpAssertHolds'
    BY <1>17 DEF TypeOK, WakeUpAssertHolds, Batched,
       urcu_adaptative_busy_wait, nodes, locals
  <2>2. Stack(B)'
    BY <1>17 DEF Batched, Stack, Link, urcu_adaptative_busy_wait, nodes,
       locals
  <2>3. Members(B)'
    BY <1>17 DEF Batched, Members, urcu_adaptative_busy_wait
  <2>4. Links(B)'
    BY <1>17 DEF Batched, Links, Link, urcu_adaptative_busy_wait, nodes,
       locals
  <2>5. Bottom(B)'
    BY <1>17 DEF Batched, Bottom, Link, urcu_adaptative_busy_wait, nodes,
       locals
  <2>6. Place(B)'
    BY <1>17 DEF Batched, Place, Link, urcu_adaptative_busy_wait, nodes,
       locals
  <2>7. Flags(B)'
    BY <1>17 DEF Batched, Flags, urcu_adaptative_busy_wait, nodes, locals
  <2>8. Sections(B)'
    BY <1>17 DEF Batched, Sections, urcu_adaptative_busy_wait, nodes
  <2>9. QED
    BY <2>1, <2>2, <2>3, <2>4, <2>5, <2>6, <2>7, <2>8 DEF IInv, Batched
<1>18. CASE FutexWait(u)
  <2>1. TypeOK' /\ WakeUpAssertHolds'
    BY <1>18 DEF TypeOK, WakeUpAssertHolds, Batched, FutexWait, nodes, locals
  <2>2. Stack(B)'
    BY <1>18 DEF Batched, Stack, Link, FutexWait, nodes, locals
  <2>3. Members(B)'
    BY <1>18 DEF Batched, Members, FutexWait
  <2>4. Links(B)'
    BY <1>18 DEF Batched, Links, Link, FutexWait, nodes, locals
  <2>5. Bottom(B)'
    BY <1>18 DEF Batched, Bottom, Link, FutexWait, nodes, locals
  <2>6. Place(B)'
    BY <1>18 DEF Batched, Place, Link, FutexWait, nodes, locals
  <2>7. Flags(B)'
    BY <1>18 DEF Batched, Flags, FutexWait, nodes, locals
  <2>8. Sections(B)'
    BY <1>18 DEF Batched, Sections, FutexWait, nodes
  <2>9. QED
    BY <2>1, <2>2, <2>3, <2>4, <2>5, <2>6, <2>7, <2>8 DEF IInv, Batched
<1>19. CASE WaiterRunning(u)
  <2>1. TypeOK' /\ WakeUpAssertHolds'
    BY <1>19 DEF TypeOK, WakeUpAssertHolds, Batched, WaiterRunning, locals
  <2>2. Stack(B)'
    BY <1>19 DEF Batched, Stack, Link, WaiterRunning, locals
  <2>3. Members(B)'
    BY <1>19 DEF Batched, Members, WaiterRunning
  <2>4. Links(B)'
    BY <1>19 DEF Batched, Links, Link, WaiterRunning, locals
  <2>5. Bottom(B)'
    BY <1>19 DEF Batched, Bottom, Link, WaiterRunning, locals
  <2>6. Place(B)'
    BY <1>19 DEF Batched, Place, Link, WaiterRunning, locals
  <2>7. Flags(B)'
    BY <1>19 DEF Batched, Flags, WaiterRunning, locals
  <2>8. Sections(B)'
    BY <1>19 DEF Batched, Sections, WaiterRunning
  <2>9. QED
    BY <2>1, <2>2, <2>3, <2>4, <2>5, <2>6, <2>7, <2>8 DEF IInv, Batched
<1>20. CASE WaiterReturn(u)
  <2>1. TypeOK' /\ WakeUpAssertHolds'
    BY <1>20 DEF TypeOK, WakeUpAssertHolds, Batched, WaiterReturn, nodes,
       locals
  <2>2. Stack(B)'
    BY <1>20 DEF Batched, Stack, Link, WaiterReturn, nodes, locals
  <2>3. Members(B)'
    BY <1>20 DEF Batched, Members, Flags, WaiterReturn
  <2>4. Links(B)'
    BY <1>20 DEF Batched, Links, Link, WaiterReturn, nodes, locals
  <2>5. Bottom(B)'
    BY <1>20 DEF Batched, Bottom, Link, WaiterReturn, nodes, locals
  <2>6. Place(B)'
    BY <1>20 DEF Batched, Place, Link, WaiterReturn, nodes, locals
  <2>7. Flags(B)'
    BY <1>20 DEF Batched, Flags, WaiterReturn, nodes, locals
  <2>8. Sections(B)'
    BY <1>20 DEF Batched, Sections, WaiterReturn, nodes
  <2>9. QED
    BY <2>1, <2>2, <2>3, <2>4, <2>5, <2>6, <2>7, <2>8 DEF IInv, Batched
<1>21. CASE Interrupted(u)
  <2>1. TypeOK' /\ WakeUpAssertHolds'
    BY <1>21 DEF TypeOK, WakeUpAssertHolds, Batched, Interrupted, nodes,
       locals
  <2>2. Stack(B)'
    BY <1>21 DEF Batched, Stack, Link, Interrupted, nodes, locals
  <2>3. Members(B)'
    BY <1>21 DEF Batched, Members, Interrupted
  <2>4. Links(B)'
    BY <1>21 DEF Batched, Links, Link, Interrupted, nodes, locals
  <2>5. Bottom(B)'
    BY <1>21 DEF Batched, Bottom, Link, Interrupted, nodes, locals
  <2>6. Place(B)'
    BY <1>21 DEF Batched, Place, Link, Interrupted, nodes, locals
  <2>7. Flags(B)'
    BY <1>21 DEF Batched, Flags, Interrupted, nodes, locals
  <2>8. Sections(B)'
    BY <1>21 DEF Batched, Sections, Interrupted, nodes
  <2>9. QED
    BY <2>1, <2>2, <2>3, <2>4, <2>5, <2>6, <2>7, <2>8 DEF IInv, Batched
<1>22. QED
  BY <1>1, <1>2, <1>3, <1>4, <1>5, <1>6, <1>7, <1>8, <1>9, <1>10, <1>11,
     <1>12, <1>13, <1>14, <1>15, <1>16, <1>17, <1>18, <1>19, <1>20, <1>21 DEF
     UpdaterStep

LEMMA StutterPreserves == IInv /\ UNCHANGED vars => IInv'
<1> SUFFICES ASSUME IInv, UNCHANGED vars PROVE IInv'
  OBVIOUS
<1>1. PICK B \in [Updaters -> Pointers] : Batched(B)
  BY DEF IInv
<1>2. TypeOK' /\ WakeUpAssertHolds'
  BY DEF IInv, TypeOK, WakeUpAssertHolds, vars, nodes, locals
<1>3. Batched(B)'
  BY <1>1 DEF vars, nodes, locals, Batched, Stack, Members, Links, Bottom, Place, Flags,
     Sections, Link
<1> QED BY <1>2, <1>3 DEF IInv

LEMMA NextIInv == IInv /\ [Next]_vars => IInv'
<1> SUFFICES ASSUME IInv, Next PROVE IInv'
  BY StutterPreserves
<1>1. PICK B \in [Updaters -> Pointers] : Batched(B)
  BY DEF IInv
<1>2. TypeOK /\ WakeUpAssertHolds
  BY DEF IInv
<1> QED BY <1>1, <1>2, ReaderPreserves, UpdaterPreserves DEF Next

LEMMA IInvHolds == Spec => []IInv
<1> QED BY InitIInv, NextIInv, PTL DEF Spec

-----------------------------------------------------------------------------
(* Links, flags and program counters stay within their types.              *)
THEOREM TypeCorrect == Spec => []TypeOK
<1>1. IInv => TypeOK
  BY DEF IInv
<1> QED BY <1>1, IInvHolds, PTL

(* urcu_wake_all_waiters() (urcu-wait.h) only reads and writes nodes of    *)
(* callers that are still inside synchronize_rcu(), so none whose stack    *)
(* frame is gone: the node at a leader's place is in its batch, and the    *)
(* nodes of a batch are those of the leader and of callers that wait.      *)
THEOREM WakersTouchLiveMemory == Spec => []WakersTouchLiveNodes
<1>1. IInv => WakersTouchLiveNodes
  <2> SUFFICES ASSUME IInv, NEW u \in Updaters, NEW v \in Touches(u)
               PROVE  v = u \/ upc[v] \in WaiterPC \cup {"link"}
    BY DEF WakersTouchLiveNodes
  <2>1. PICK B \in [Updaters -> Pointers] : Batched(B)
    BY DEF IInv
  <2>2. upc[u] \in WakingPC /\ v = iter[u] /\ v # END
    BY DEF Touches, WakingPC
  <2>3. v \in Updaters /\ B[v] = u
    BY <2>1, <2>2 DEF IInv, TypeOK, Pointers, Batched, Place, OwnerPC
  <2>4. u # NULL /\ u # END
    BY WaitAssumption
  <2> QED BY <2>1, <2>3, <2>4 DEF Batched, Members
<1> QED BY <1>1, IInvHolds, PTL

(* The assertion of urcu_adaptative_wake_up() (urcu-wait.h) never fails: a *)
(* waiter stays in state URCU_WAIT_WAITING until its leader, and nobody    *)
(* else, wakes it up.                                                      *)
THEOREM AssertionNeverFails == Spec => []WakeUpAssertHolds
<1>1. IInv => WakeUpAssertHolds
  BY DEF IInv
<1> QED BY <1>1, IInvHolds, PTL

-----------------------------------------------------------------------------
(* The refinement of GracePeriod.                                          *)

(* Steps that neither start nor end a section or a call.                   *)
LEMMA Invisible ==
    ASSUME UNCHANGED <<cs, pre>>,
           \A u \in Updaters : upc'[u] # "idle" <=> upc[u] # "idle"
    PROVE  UNCHANGED GP!gpvars
<1>1. [u \in Updaters |-> upc'[u] # "idle"] = [u \in Updaters |-> upc[u] # "idle"]
  OBVIOUS
<1> QED BY <1>1 DEF GP!gpvars

LEMMA CallBegins ==
    ASSUME TypeOK, NEW u \in Updaters, synchronize_rcu(u)
    PROVE  GP!GPNext
<1> DEFINE sync == [v \in Updaters |-> upc[v] # "idle"]
           sync1 == [v \in Updaters |-> upc'[v] # "idle"]
<1>1. ~ sync[u]
  BY DEF synchronize_rcu
<1>2. sync1 = [sync EXCEPT ![u] = TRUE]
  BY DEF TypeOK, synchronize_rcu, goto
<1>3. GP!SyncCall(u)
  BY <1>1, <1>2 DEF synchronize_rcu, GP!SyncCall
<1> QED BY <1>3 DEF GP!GPNext

LEMMA CallReturns ==
    ASSUME TypeOK, NEW u \in Updaters, upc[u] # "idle", goto(u, "idle"), pre[u] = {},
           UNCHANGED <<cs, pre>>
    PROVE  GP!GPNext
<1> DEFINE sync == [v \in Updaters |-> upc[v] # "idle"]
           sync1 == [v \in Updaters |-> upc'[v] # "idle"]
<1>1. sync[u]
  OBVIOUS
<1>2. sync1 = [sync EXCEPT ![u] = FALSE]
  BY DEF TypeOK, goto
<1>3. GP!SyncReturn(u)
  BY <1>1, <1>2 DEF GP!SyncReturn
<1> QED BY <1>3 DEF GP!GPNext

(* Every step is a step of GracePeriod, or a stutter.  The steps that      *)
(* return are the leader's last one, after its grace period, and the       *)
(* waiter's, after URCU_WAIT_TEARDOWN.                                     *)
LEMMA StepRefines == IInv /\ [Next]_vars => [GP!GPNext]_(GP!gpvars)
<1> SUFFICES ASSUME IInv, [Next]_vars
             PROVE  GP!GPNext \/ UNCHANGED GP!gpvars
  OBVIOUS
<1>0. PICK B \in [Updaters -> Pointers] : Batched(B)
  BY DEF IInv
<1>1. CASE \E r \in Readers : Enter(r) \/ Leave(r)
  <2>1. PICK r \in Readers : Enter(r) \/ Leave(r)
    BY <1>1
  <2>2. GP!ReadLock(r) \/ GP!ReadUnlock(r)
    BY <2>1 DEF Enter, Leave, GP!ReadLock, GP!ReadUnlock
  <2> QED BY <2>2 DEF GP!GPNext
<1>2. ASSUME NEW u \in Updaters, synchronize_rcu(u) \/ UpdaterStep(u) \/ Interrupted(u)
      PROVE  GP!GPNext \/ UNCHANGED GP!gpvars
  <2>1. CASE synchronize_rcu(u)
    BY <2>1, CallBegins DEF IInv
  <2>2. CASE WakeAllDone(u)
    <3>1. pre[u] = {}
      BY <1>0, <2>2 DEF WakeAllDone, Batched, Sections, WakingPC
    <3> QED BY <2>2, <3>1, CallReturns DEF IInv, WakeAllDone
  <2>3. CASE WaiterReturn(u)
    <3>1. pre[u] = {}
      BY <1>0, <2>3 DEF WaiterReturn, Batched, Sections
    <3> QED BY <2>3, <3>1, CallReturns DEF IInv, WaiterReturn
  <2>4. CASE cds_wfs_push(u) \/ PushLink(u)
    BY <2>4, Invisible DEF IInv, TypeOK, cds_wfs_push, PushLink, goto
  <2>5. CASE \/ LeaderRunning(u) \/ LockGP(u) \/ urcu_move_waiters(u)
             \/ GracePeriodEnd(u) \/ urcu_wake_all_waiters(u)
    BY <2>5, Invisible DEF IInv, TypeOK, LeaderRunning, LockGP, urcu_move_waiters,
       GracePeriodEnd, urcu_wake_all_waiters, goto
  <2>6. CASE \/ WakeSkip(u) \/ WakeNotRunning(u) \/ urcu_adaptative_wake_up(u)
             \/ WakeSet(u) \/ WakeTest(u) \/ WakeFutex(u) \/ Teardown(u)
    BY <2>6, Invisible DEF IInv, TypeOK, WakeSkip, WakeNotRunning,
       urcu_adaptative_wake_up, WakeSet, WakeTest, WakeFutex, Teardown, NextWaiter, goto
  <2>7. CASE \/ urcu_adaptative_busy_wait(u) \/ FutexWait(u) \/ WaiterRunning(u)
             \/ Interrupted(u)
    BY <2>7, Invisible DEF IInv, TypeOK, urcu_adaptative_busy_wait, FutexWait,
       WaiterRunning, Interrupted, goto
  <2> QED BY <1>2, <2>1, <2>2, <2>3, <2>4, <2>5, <2>6, <2>7 DEF UpdaterStep
<1>3. CASE UNCHANGED vars
  BY <1>3, Invisible DEF vars
<1> QED BY <1>1, <1>2, <1>3 DEF Next

(* Sharing a grace period keeps the promise: every synchronize_rcu() call  *)
(* (urcu.c), whether it leads or is woken up by another caller's grace     *)
(* period, returns only after the critical sections that ran when it was   *)
(* made.  A waiter pushed its node, after its call, before the leader      *)
(* popped it, so the leader's grace period began after the call.           *)
THEOREM Refinement == Spec => ImplementsGracePeriod
<1>1. Init => GP!GPInit
  <2> SUFFICES ASSUME Init PROVE GP!GPInit
    OBVIOUS
  <2>1. [u \in Updaters |-> upc[u] # "idle"] = [u \in Updaters |-> FALSE]
    BY DEF Init
  <2> QED BY <2>1 DEF Init, GP!GPInit
<1> QED
  BY <1>1, StepRefines, IInvHolds, PTL DEF Spec, ImplementsGracePeriod, GP!GPSpec

=============================================================================
