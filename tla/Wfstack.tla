------------------------------ MODULE Wfstack ------------------------------
(***************************************************************************)
(* wfstack: the stack with a wait-free push (include/urcu/static/          *)
(* wfstack.h; src/wfstack.c exports the same functions).                   *)
(*                                                                         *)
(* A push exchanges the head and only then links its node to the previous  *)
(* head; a pop waits for the link and moves the head by compare-and-swap.  *)
(* The compare-and-swap is subject to the ABA problem, so __cds_wfs_pop()  *)
(* and __cds_wfs_pop_all() must be synchronised by one of three techniques *)
(* that the header lists: RCU, a mutex, or a single consumer.  A run       *)
(* follows one of them.                                                    *)
(***************************************************************************)
EXTENDS Sequences

CONSTANTS
    WfsThreads,      \* the callers
    WfsNodes,        \* the nodes
    WfsTechniques,   \* the techniques used: a subset of the three
    WfsConsumer,     \* the thread that consumes, under "single"
    WfsStack,        \* the stack
    WfsNull,         \* NULL
    WfsEnd           \* CDS_WFS_END

ASSUME WfstackAssumption ==
    /\ WfsTechniques \subseteq {"rcu", "mutex", "single"}
    /\ WfsConsumer \in WfsThreads
    /\ WfsNull # WfsEnd /\ {WfsNull, WfsEnd} \cap WfsNodes = {}
    /\ WfsNull \notin WfsThreads
    /\ \A b \in BOOLEAN : WfsNull # <<"put", b>>
    /\ \A n \in WfsNodes, b \in BOOLEAN : WfsNull # <<"took", n, b>>

VARIABLES
    ws_head,        \* s->head
    ws_next,        \* node->next
    ws_lock,        \* the owner of s->lock
    ws_technique,   \* how this run synchronises its consumers
    ws_pc,          \* what each thread does next
    ws_frame,       \* the locals of its call
    ws_grace,       \* the readers that a popped node still waits for
    ws_lifo,        \* history: the pushed nodes, the newest first
    ws_hand,        \* history: what a pop_all took
    ws_ret          \* the result of the call

wfsvars == <<ws_head, ws_next, ws_lock, ws_technique, ws_pc, ws_frame,
             ws_grace, ws_lifo, ws_hand, ws_ret>>

WfsNoFrame == [node |-> WfsNull, next |-> WfsNull, blocking |-> TRUE,
               seen |-> << >>]

(* cds_wfs_init(), __cds_wfs_init().                                       *)
WfstackInit ==
    /\ ws_head = WfsEnd
    /\ ws_next = [n \in WfsNodes |-> WfsNull]
    /\ ws_lock = WfsNull
    /\ ws_technique \in WfsTechniques
    /\ ws_pc = [t \in WfsThreads |-> "idle"]
    /\ ws_frame = [t \in WfsThreads |-> WfsNoFrame]
    /\ ws_grace = [n \in WfsNodes |-> {}]
    /\ ws_lifo = << >>
    /\ ws_hand = [t \in WfsThreads |-> << >>]
    /\ ws_ret = [t \in WfsThreads |-> WfsNull]

WfsGoto(t, l) == ws_pc' = [ws_pc EXCEPT ![t] = l]

WfsResult(t, result, l) ==
    /\ ws_ret' = [ws_ret EXCEPT ![t] = result]
    /\ WfsGoto(t, l)

WfsElements(s) == {s[i] : i \in DOMAIN s}

(* The node belongs to the caller, who may modify it.                      *)
WfsFree(n) ==
    /\ n \notin WfsElements(ws_lifo)
    /\ \A t \in WfsThreads : n \notin WfsElements(ws_hand[t])
    /\ ws_grace[n] = {}

(* Mutant: popped nodes are reused without waiting.                        *)
ReuseAtOnce == {}

(* The read-side critical sections that run: those of __cds_wfs_pop()      *)
(* under the first technique.                                              *)
PopSections ==
    IF ws_technique = "rcu"
    THEN {t \in WfsThreads : ws_pc[t] \in {"load_head", "sync_next", "cas_head",
                                           "pop_return"}}
    ELSE {}

-----------------------------------------------------------------------------
(* cds_wfs_node_init() and the exchange of cds_wfs_push().                 *)
cds_wfs_push(t, n) ==
    /\ ws_pc[t] = "idle" /\ WfsFree(n)
    /\ ws_head' = n
    /\ ws_next' = [ws_next EXCEPT ![n] = WfsNull]
    /\ ws_frame' = [ws_frame EXCEPT ![t].node = n, ![t].next = ws_head]
    /\ ws_lifo' = <<n>> \o ws_lifo
    /\ WfsResult(t, <<"put", ws_head # WfsEnd>>, "push_link")
    /\ UNCHANGED <<ws_lock, ws_technique, ws_grace, ws_hand>>

(* CMM_STORE_SHARED(node->next, &old_head->node)                           *)
PushLink(t) ==
    /\ ws_pc[t] = "push_link"
    /\ ws_next' = [ws_next EXCEPT ![ws_frame[t].node] = ws_frame[t].next]
    /\ WfsGoto(t, "return")
    /\ UNCHANGED <<ws_head, ws_lock, ws_technique, ws_frame, ws_grace, ws_lifo,
                   ws_hand, ws_ret>>

cds_wfs_empty(t) ==
    /\ ws_pc[t] = "idle"
    /\ WfsResult(t, IF ws_head = WfsEnd THEN <<"nothing">> ELSE <<"something">>,
                 "return")
    /\ UNCHANGED <<ws_head, ws_next, ws_lock, ws_technique, ws_frame, ws_grace,
                   ws_lifo, ws_hand>>

(* A consumer starts: cds_wfs_pop_lock() of the blocking functions and of  *)
(* callers that use a mutex, rcu_read_lock() or nothing.                   *)
MayPop(t) ==
    CASE ws_technique = "mutex" -> ws_lock = WfsNull
      [] ws_technique = "single" -> t = WfsConsumer
      [] ws_technique = "rcu" -> TRUE

Consume(t, l, blocking) ==
    /\ ws_pc[t] = "idle" /\ MayPop(t)
    /\ ws_lock' = IF ws_technique = "mutex" THEN t ELSE ws_lock
    /\ ws_frame' = [ws_frame EXCEPT ![t].blocking = blocking]
    /\ WfsGoto(t, l)
    /\ UNCHANGED <<ws_head, ws_next, ws_technique, ws_grace, ws_lifo, ws_hand,
                   ws_ret>>

(* cds_wfs_pop_blocking(), __cds_wfs_pop_blocking(), _nonblocking().       *)
cds_wfs_pop(t, blocking) == Consume(t, "load_head", blocking)

(* cds_wfs_pop_all_blocking(), __cds_wfs_pop_all().                        *)
cds_wfs_pop_all(t) == Consume(t, "xchg_head", TRUE)

(* The end of a call: unlock, or the end of its section, which grace       *)
(* periods may have waited for.                                            *)
WfsReturn(t) ==
    /\ ws_pc[t] \in {"return", "pop_return"}
    /\ ws_lock' = IF ws_lock = t THEN WfsNull ELSE ws_lock
    /\ ws_grace' = [n \in WfsNodes |-> ws_grace[n] \ {t}]
    /\ ws_frame' = [ws_frame EXCEPT ![t] = WfsNoFrame]
    /\ WfsResult(t, WfsNull, "idle")
    /\ UNCHANGED <<ws_head, ws_next, ws_technique, ws_lifo, ws_hand>>

-----------------------------------------------------------------------------
(* ___cds_wfs_pop().                                                       *)

LoadHead(t) ==
    /\ ws_pc[t] = "load_head"
    /\ \/ /\ ws_head = WfsEnd
          /\ WfsResult(t, <<"nothing">>, "pop_return")
          /\ UNCHANGED ws_frame
       \/ /\ ws_head # WfsEnd
          /\ ws_frame' = [ws_frame EXCEPT ![t].node = ws_head]
          /\ WfsGoto(t, "sync_next")
          /\ UNCHANGED ws_ret
    /\ UNCHANGED <<ws_head, ws_next, ws_lock, ws_technique, ws_grace, ws_lifo,
                   ws_hand>>

(* ___cds_wfs_node_sync_next(): a blocking call waits for the link.        *)
WfsSyncNext(t) ==
    LET f == ws_frame[t] IN
    /\ ws_pc[t] = "sync_next"
    /\ \/ /\ ws_next[f.node] # WfsNull
          /\ ws_frame' = [ws_frame EXCEPT ![t].next = ws_next[f.node]]
          /\ WfsGoto(t, "cas_head")
          /\ UNCHANGED ws_ret
       \/ /\ ws_next[f.node] = WfsNull /\ ~f.blocking
          /\ WfsResult(t, <<"interfered">>, "pop_return")
          /\ UNCHANGED ws_frame
    /\ UNCHANGED <<ws_head, ws_next, ws_lock, ws_technique, ws_grace, ws_lifo,
                   ws_hand>>

(* uatomic_cmpxchg(&s->head, head, new_head)                               *)
CasHead(t) ==
    LET f == ws_frame[t] IN
    /\ ws_pc[t] = "cas_head"
    /\ \/ /\ ws_head = f.node
          /\ ws_head' = f.next
          /\ ws_lifo' = Tail(ws_lifo)
          /\ ws_grace' = [ws_grace EXCEPT ![f.node] = PopSections]
          /\ WfsResult(t, <<"took", f.node, f.next = WfsEnd>>, "pop_return")
       \/ /\ ws_head # f.node /\ f.blocking
          /\ WfsGoto(t, "load_head")
          /\ UNCHANGED <<ws_head, ws_lifo, ws_grace, ws_ret>>
       \/ /\ ws_head # f.node /\ ~f.blocking
          /\ WfsResult(t, <<"interfered">>, "pop_return")
          /\ UNCHANGED <<ws_head, ws_lifo, ws_grace>>
    /\ UNCHANGED <<ws_next, ws_lock, ws_technique, ws_frame, ws_hand>>

-----------------------------------------------------------------------------
(* ___cds_wfs_pop_all(): one exchange; the mutex is released before the    *)
(* caller walks through what it got.                                       *)
PopAll(t) ==
    /\ ws_pc[t] = "xchg_head"
    /\ ws_head' = WfsEnd
    /\ ws_lifo' = << >>
    /\ ws_hand' = [ws_hand EXCEPT ![t] = ws_lifo]
    /\ \/ /\ ws_head = WfsEnd
          /\ WfsResult(t, <<"nothing">>, "return")
          /\ UNCHANGED <<ws_frame, ws_lock>>
       \/ /\ ws_head # WfsEnd
          /\ ws_frame' = [ws_frame EXCEPT ![t].node = ws_head,
                                          ![t].seen = <<ws_head>>]
          /\ ws_lock' = IF ws_lock = t THEN WfsNull ELSE ws_lock
          /\ WfsGoto(t, "walk")
          /\ UNCHANGED ws_ret
    /\ UNCHANGED <<ws_next, ws_technique, ws_grace>>

(* cds_wfs_first() and cds_wfs_next_*(), once per node of the popped       *)
(* stack.  The nonblocking form, which returns CDS_WFS_WOULDBLOCK when the *)
(* link is missing, is called again by its caller: it waits here, too.     *)
WalkPopped(t) ==
    LET f == ws_frame[t]
        next == ws_next[f.node]
    IN
    /\ ws_pc[t] = "walk"
    /\ \/ /\ next = WfsEnd
          /\ ws_hand' = [ws_hand EXCEPT ![t] = << >>]
          /\ ws_grace' = [n \in WfsNodes |->
                IF n \in WfsElements(ws_hand[t]) THEN PopSections ELSE ws_grace[n]]
          /\ WfsResult(t, <<"walked">> \o f.seen, "return")
          /\ UNCHANGED ws_frame
       \/ /\ next # WfsNull /\ next # WfsEnd
          /\ ws_frame' = [ws_frame EXCEPT ![t].node = next,
                                          ![t].seen = Append(@, next)]
          /\ UNCHANGED <<ws_hand, ws_grace, ws_pc, ws_ret>>
    /\ UNCHANGED <<ws_head, ws_next, ws_lock, ws_technique, ws_lifo>>

-----------------------------------------------------------------------------
WfsStep(t) ==
    \/ \E n \in WfsNodes : cds_wfs_push(t, n)
    \/ \E b \in BOOLEAN : cds_wfs_pop(t, b)
    \/ cds_wfs_pop_all(t) \/ cds_wfs_empty(t)
    \/ PushLink(t) \/ WfsReturn(t) \/ LoadHead(t) \/ WfsSyncNext(t)
    \/ CasHead(t) \/ PopAll(t) \/ WalkPopped(t)

WfstackNext == \E t \in WfsThreads : WfsStep(t)

WfstackSpec == WfstackInit /\ [][WfstackNext]_wfsvars

-----------------------------------------------------------------------------
LifoStack == INSTANCE Container WITH
    Threads <- WfsThreads, Containers <- {WfsStack}, Nodes <- WfsNodes,
    Fifo <- FALSE, NULL <- WfsNull,
    content <- [s \in {WfsStack} |-> ws_lifo], hand <- ws_hand, ret <- ws_ret

(* Every wfstack call takes effect at one instant, on a last-in first-out  *)
(* stack, under each of the three techniques: a compare-and-swap never     *)
(* succeeds on a head that was popped and pushed again meanwhile, the list *)
(* that pop_all returns is whole although pushes have not linked it yet,   *)
(* and CDS_WFS_STATE_LAST tells the truth.                                 *)
WfsImplementsLifo == LifoStack!Spec

=============================================================================
