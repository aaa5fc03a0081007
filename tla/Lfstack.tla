------------------------------ MODULE Lfstack ------------------------------
(***************************************************************************)
(* lfstack and rculfstack: the lock-free stacks (include/urcu/static/      *)
(* lfstack.h and rculfstack.h; src/lfstack.c and src/rculfstack.c export   *)
(* the same functions).                                                    *)
(*                                                                         *)
(* Push and pop move the head by compare-and-swap.  A push may retry with  *)
(* a head whose node was popped and reused meanwhile: it does not look     *)
(* into that node.  A pop does, so it needs one of the three techniques of *)
(* the header: RCU, a mutex, or a single consumer; cds_lfs_pop_rcu() knows *)
(* only the first.  Under RCU a popped node may be overwritten at once,    *)
(* but pushed again or freed only after a grace period.                    *)
(***************************************************************************)
EXTENDS Sequences

CONSTANTS
    LfsThreads,      \* the callers
    LfsNodes,        \* the nodes
    LfsTechniques,   \* the techniques used: the three, or "rculfstack"
    LfsConsumer,     \* the thread that consumes, under "single"
    LfsStack,        \* the stack
    LfsNull          \* NULL

ASSUME LfstackAssumption ==
    /\ LfsTechniques \subseteq {"rcu", "mutex", "single", "rculfstack"}
    /\ LfsConsumer \in LfsThreads
    /\ LfsNull \notin LfsNodes \cup LfsThreads
    /\ \A b \in BOOLEAN : LfsNull # <<"put", b>>
    /\ \A n \in LfsNodes : LfsNull # <<"took", n>>

VARIABLES
    ls_head,        \* s->head
    ls_next,        \* node->next
    ls_lock,        \* the owner of s->lock
    ls_technique,   \* how this run synchronises its consumers
    ls_pc,          \* what each thread does next
    ls_frame,       \* the locals of its call
    ls_grace,       \* the readers that a popped node still waits for
    ls_lifo,        \* history: the pushed nodes, the newest first
    ls_hand,        \* history: what a pop_all took
    ls_ret          \* the result of the call

lfsvars == <<ls_head, ls_next, ls_lock, ls_technique, ls_pc, ls_frame,
             ls_grace, ls_lifo, ls_hand, ls_ret>>

LfsNoFrame == [node |-> LfsNull, next |-> LfsNull, seen |-> << >>]

(* cds_lfs_init(), __cds_lfs_init(), cds_lfs_init_rcu().                   *)
LfstackInit ==
    /\ ls_head = LfsNull
    /\ ls_next = [n \in LfsNodes |-> LfsNull]
    /\ ls_lock = LfsNull
    /\ ls_technique \in LfsTechniques
    /\ ls_pc = [t \in LfsThreads |-> "idle"]
    /\ ls_frame = [t \in LfsThreads |-> LfsNoFrame]
    /\ ls_grace = [n \in LfsNodes |-> {}]
    /\ ls_lifo = << >>
    /\ ls_hand = [t \in LfsThreads |-> << >>]
    /\ ls_ret = [t \in LfsThreads |-> LfsNull]

LfsGoto(t, l) == ls_pc' = [ls_pc EXCEPT ![t] = l]

LfsResult(t, result, l) ==
    /\ ls_ret' = [ls_ret EXCEPT ![t] = result]
    /\ LfsGoto(t, l)

LfsElements(s) == {s[i] : i \in DOMAIN s}

(* Neither the stack nor a caller that took it all has the node.           *)
LfsPopped(n) ==
    /\ n \notin LfsElements(ls_lifo)
    /\ \A t \in LfsThreads : n \notin LfsElements(ls_hand[t])
    /\ \A t \in LfsThreads : ls_pc[t] = "push_cas" => ls_frame[t].node # n

UsesRcu == ls_technique \in {"rcu", "rculfstack"}

LfsSections ==
    IF UsesRcu
    THEN {t \in LfsThreads : ls_pc[t] \in {"load_head", "load_next", "cas_head",
                                           "pop_return"}}
    ELSE {}

-----------------------------------------------------------------------------
(* A push starts: the stack is expected to be empty (head = NULL).         *)
PushCall(t, n) ==
    /\ ls_pc[t] = "idle" /\ LfsPopped(n) /\ ls_grace[n] = {}
    /\ ls_next' = [ls_next EXCEPT ![n] = LfsNull]
    /\ ls_frame' = [ls_frame EXCEPT ![t].node = n, ![t].next = LfsNull]
    /\ LfsGoto(t, "push_cas")
    /\ UNCHANGED <<ls_head, ls_lock, ls_technique, ls_grace, ls_lifo, ls_hand,
                   ls_ret>>

cds_lfs_push(t, n) == ls_technique # "rculfstack" /\ PushCall(t, n)
cds_lfs_push_rcu(t, n) == ls_technique = "rculfstack" /\ PushCall(t, n)

(* head = uatomic_cmpxchg(&s->head, old_head, new_head).  On failure the   *)
(* head that was found is tried next, after a store to the private         *)
(* node->next.                                                             *)
PushCas(t) ==
    LET f == ls_frame[t] IN
    /\ ls_pc[t] = "push_cas"
    /\ \/ /\ ls_head = f.next
          /\ ls_head' = f.node
          /\ ls_lifo' = <<f.node>> \o ls_lifo
          /\ LfsResult(t, <<"put", f.next # LfsNull>>, "return")
          /\ UNCHANGED <<ls_next, ls_frame>>
       \/ /\ ls_head # f.next
          /\ ls_frame' = [ls_frame EXCEPT ![t].next = ls_head]
          /\ ls_next' = [ls_next EXCEPT ![f.node] = ls_head]
          /\ UNCHANGED <<ls_head, ls_lifo, ls_pc, ls_ret>>
    /\ UNCHANGED <<ls_lock, ls_technique, ls_grace, ls_hand>>

cds_lfs_empty(t) ==
    /\ ls_pc[t] = "idle" /\ ls_technique # "rculfstack"
    /\ LfsResult(t, IF ls_head = LfsNull THEN <<"nothing">> ELSE <<"something">>,
                 "return")
    /\ UNCHANGED <<ls_head, ls_next, ls_lock, ls_technique, ls_frame, ls_grace,
                   ls_lifo, ls_hand>>

-----------------------------------------------------------------------------
(* A consumer starts: cds_lfs_pop_lock(), rcu_read_lock() or nothing.      *)
LfsMayPop(t) ==
    \/ ls_technique = "mutex" /\ ls_lock = LfsNull
    \/ ls_technique = "single" /\ t = LfsConsumer
    \/ UsesRcu

LfsConsume(t, l) ==
    /\ ls_pc[t] = "idle" /\ LfsMayPop(t)
    /\ ls_lock' = IF ls_technique = "mutex" THEN t ELSE ls_lock
    /\ LfsGoto(t, l)
    /\ UNCHANGED <<ls_head, ls_next, ls_technique, ls_frame, ls_grace, ls_lifo,
                   ls_hand, ls_ret>>

(* cds_lfs_pop_blocking(), __cds_lfs_pop().                                *)
cds_lfs_pop(t) == ls_technique # "rculfstack" /\ LfsConsume(t, "load_head")
cds_lfs_pop_rcu(t) == ls_technique = "rculfstack" /\ LfsConsume(t, "load_head")

(* cds_lfs_pop_all_blocking(), __cds_lfs_pop_all().                        *)
cds_lfs_pop_all(t) == ls_technique # "rculfstack" /\ LfsConsume(t, "xchg_head")

(* Unlock, or the end of the section.                                      *)
LfsReturn(t) ==
    /\ ls_pc[t] \in {"return", "pop_return"}
    /\ ls_lock' = IF ls_lock = t THEN LfsNull ELSE ls_lock
    /\ ls_grace' = [n \in LfsNodes |-> ls_grace[n] \ {t}]
    /\ ls_frame' = [ls_frame EXCEPT ![t] = LfsNoFrame]
    /\ LfsResult(t, LfsNull, "idle")
    /\ UNCHANGED <<ls_head, ls_next, ls_technique, ls_lifo, ls_hand>>

LfsLoadHead(t) ==
    /\ ls_pc[t] = "load_head"
    /\ \/ /\ ls_head = LfsNull
          /\ LfsResult(t, <<"nothing">>, "pop_return")
          /\ UNCHANGED ls_frame
       \/ /\ ls_head # LfsNull
          /\ ls_frame' = [ls_frame EXCEPT ![t].node = ls_head]
          /\ LfsGoto(t, "load_next")
          /\ UNCHANGED ls_ret
    /\ UNCHANGED <<ls_head, ls_next, ls_lock, ls_technique, ls_grace, ls_lifo,
                   ls_hand>>

LfsLoadNext(t) ==
    /\ ls_pc[t] = "load_next"
    /\ ls_frame' = [ls_frame EXCEPT ![t].next = ls_next[ls_frame[t].node]]
    /\ LfsGoto(t, "cas_head")
    /\ UNCHANGED <<ls_head, ls_next, ls_lock, ls_technique, ls_grace, ls_lifo,
                   ls_hand, ls_ret>>

(* Mutant: the popper's own section only is waited for.                    *)
OwnSection(t) == LfsSections \cap {t}

(* What a node popped by t must wait for before it is pushed again.        *)
GraceAfterPop(t) == LfsSections

LfsCasHead(t) ==
    LET f == ls_frame[t] IN
    /\ ls_pc[t] = "cas_head"
    /\ \/ /\ ls_head = f.node
          /\ ls_head' = f.next
          /\ ls_lifo' = Tail(ls_lifo)
          /\ ls_grace' = [ls_grace EXCEPT ![f.node] = GraceAfterPop(t)]
          /\ LfsResult(t, <<"took", f.node>>, "pop_return")
       \/ /\ ls_head # f.node
          /\ LfsGoto(t, "load_head")
          /\ UNCHANGED <<ls_head, ls_lifo, ls_grace, ls_ret>>
    /\ UNCHANGED <<ls_next, ls_lock, ls_technique, ls_frame, ls_hand>>

(* ___cds_lfs_pop_all(): one exchange; the mutex is released before the    *)
(* caller walks through what it got.                                       *)
LfsPopAll(t) ==
    /\ ls_pc[t] = "xchg_head"
    /\ ls_head' = LfsNull
    /\ ls_lifo' = << >>
    /\ ls_hand' = [ls_hand EXCEPT ![t] = ls_lifo]
    /\ \/ /\ ls_head = LfsNull
          /\ LfsResult(t, <<"nothing">>, "return")
          /\ UNCHANGED <<ls_frame, ls_lock>>
       \/ /\ ls_head # LfsNull
          /\ ls_frame' = [ls_frame EXCEPT ![t].node = ls_head,
                                          ![t].seen = <<ls_head>>]
          /\ ls_lock' = IF ls_lock = t THEN LfsNull ELSE ls_lock
          /\ LfsGoto(t, "walk")
          /\ UNCHANGED ls_ret
    /\ UNCHANGED <<ls_next, ls_technique, ls_grace>>

(* cds_lfs_for_each(): follow node->next to the end.                       *)
cds_lfs_for_each(t) ==
    LET f == ls_frame[t]
        next == ls_next[f.node]
    IN
    /\ ls_pc[t] = "walk"
    /\ \/ /\ next = LfsNull
          /\ ls_hand' = [ls_hand EXCEPT ![t] = << >>]
          /\ ls_grace' = [n \in LfsNodes |->
                IF n \in LfsElements(ls_hand[t]) THEN GraceAfterPop(t)
                                                 ELSE ls_grace[n]]
          /\ LfsResult(t, <<"walked">> \o f.seen, "return")
          /\ UNCHANGED ls_frame
       \/ /\ next # LfsNull
          /\ ls_frame' = [ls_frame EXCEPT ![t].node = next,
                                          ![t].seen = Append(@, next)]
          /\ UNCHANGED <<ls_hand, ls_grace, ls_pc, ls_ret>>
    /\ UNCHANGED <<ls_head, ls_next, ls_lock, ls_technique, ls_lifo>>

(* "It is valid to overwrite the content of cds_lfs_node immediately after *)
(* __cds_lfs_pop and __cds_lfs_pop_all": the owner of a popped node does,  *)
(* while other poppers may still read it.                                  *)
Overwrite(n) ==
    /\ ls_technique = "rcu" /\ LfsPopped(n) /\ ls_grace[n] # {}
    /\ \E junk \in LfsNodes :
          ls_next' = [ls_next EXCEPT ![n] = junk]
    /\ UNCHANGED <<ls_head, ls_lock, ls_technique, ls_pc, ls_frame, ls_grace,
                   ls_lifo, ls_hand, ls_ret>>

-----------------------------------------------------------------------------
LfsStep(t) ==
    \/ \E n \in LfsNodes : cds_lfs_push(t, n) \/ cds_lfs_push_rcu(t, n)
    \/ cds_lfs_pop(t) \/ cds_lfs_pop_rcu(t) \/ cds_lfs_pop_all(t)
    \/ cds_lfs_empty(t) \/ cds_lfs_for_each(t)
    \/ PushCas(t) \/ LfsReturn(t) \/ LfsLoadHead(t) \/ LfsLoadNext(t)
    \/ LfsCasHead(t) \/ LfsPopAll(t)

LfstackNext == (\E t \in LfsThreads : LfsStep(t)) \/ \E n \in LfsNodes : Overwrite(n)

LfstackSpec == LfstackInit /\ [][LfstackNext]_lfsvars

-----------------------------------------------------------------------------
LockFreeLifo == INSTANCE Container WITH
    Threads <- LfsThreads, Containers <- {LfsStack}, Nodes <- LfsNodes,
    Fifo <- FALSE, NULL <- LfsNull,
    content <- [s \in {LfsStack} |-> ls_lifo], hand <- ls_hand, ret <- ls_ret

(* Every lfstack and rculfstack call takes effect at one instant, on a     *)
(* last-in first-out stack, under each technique: neither the stale head   *)
(* of a push nor the stale head and next pointer of a pop can make a       *)
(* compare-and-swap succeed wrongly, not even when popped nodes are        *)
(* overwritten at once.                                                    *)
LfsImplementsLifo == LockFreeLifo!Spec

=============================================================================
