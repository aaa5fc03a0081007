----------------------------- MODULE Container -----------------------------
(***************************************************************************)
(* What a queue or a stack of the library promises to its callers: every   *)
(* operation takes effect at one instant between its call and its return,  *)
(* on a sequence of nodes.  wfcqueue, wfqueue and rculfqueue put at the    *)
(* end, wfstack, lfstack and rculfstack in front; all take from the front. *)
(***************************************************************************)
EXTENDS Sequences

CONSTANTS
    Threads,      \* the callers
    Containers,   \* the queues, or the stacks
    Nodes,        \* what they hold
    Fifo,         \* TRUE for queues, FALSE for stacks
    NULL          \* no result yet

VARIABLES
    content,      \* the nodes of each container, the next to leave first
    hand,         \* the nodes that a caller took all at once
    ret           \* the result of the call a thread is in

vars == <<content, hand, ret>>

Init ==
    /\ content = [q \in Containers |-> << >>]
    /\ hand = [t \in Threads |-> << >>]
    /\ ret = [t \in Threads |-> NULL]

(* The call of t takes effect, with this result.                           *)
Answer(t, result) == ret[t] = NULL /\ ret' = [ret EXCEPT ![t] = result]

Added(old, new) == IF Fifo THEN old \o new ELSE new \o old

(* A node is in one place only; the caller learns whether it was alone.    *)
Put(t, q, n) ==
    /\ \A p \in Containers : \A i \in DOMAIN content[p] : content[p][i] # n
    /\ \A u \in Threads : \A i \in DOMAIN hand[u] : hand[u][i] # n
    /\ content' = [content EXCEPT ![q] = Added(@, <<n>>)]
    /\ Answer(t, <<"put", content[q] # << >>>>)
    /\ UNCHANGED hand

(* The oldest node of a queue, the newest of a stack; "last" when it       *)
(* leaves nothing behind.                                                  *)
Take(t, q) ==
    /\ content[q] # << >>
    /\ content' = [content EXCEPT ![q] = Tail(@)]
    /\ Answer(t, <<"took", Head(content[q]), Len(content[q]) = 1>>)
    /\ UNCHANGED hand

(* The same for callers that do not ask whether it was the last.           *)
TakeStateless(t, q) ==
    /\ content[q] # << >>
    /\ content' = [content EXCEPT ![q] = Tail(@)]
    /\ Answer(t, <<"took", Head(content[q])>>)
    /\ UNCHANGED hand

Nothing(t, q) ==
    /\ content[q] = << >>
    /\ Answer(t, <<"nothing">>)
    /\ UNCHANGED <<content, hand>>

Something(t, q) ==
    /\ content[q] # << >>
    /\ Answer(t, <<"something">>)
    /\ UNCHANGED <<content, hand>>

(* A nonblocking call gives up, but not because there is nothing.          *)
WouldBlock(t, q) ==
    /\ content[q] # << >>
    /\ Answer(t, <<"would_block">>)
    /\ UNCHANGED <<content, hand>>

(* A nonblocking call gives up because another one made progress.          *)
Interfered(t) ==
    /\ Answer(t, <<"interfered">>)
    /\ UNCHANGED <<content, hand>>

(* An iteration has visited every node of the container, in order.         *)
Walk(t, q) ==
    /\ Answer(t, <<"walked">> \o content[q])
    /\ UNCHANGED <<content, hand>>

TakeAll(t, q) ==
    /\ content[q] # << >> /\ hand[t] = << >> /\ ret[t] = NULL
    /\ hand' = [hand EXCEPT ![t] = content[q]]
    /\ content' = [content EXCEPT ![q] = << >>]
    /\ UNCHANGED ret

(* splice: what was taken goes to another container as a whole.            *)
PutAll(t, q) ==
    /\ hand[t] # << >>
    /\ content' = [content EXCEPT ![q] = Added(@, hand[t])]
    /\ hand' = [hand EXCEPT ![t] = << >>]
    /\ Answer(t, <<"put", content[q] # << >>>>)

(* pop_all: an iteration has visited every node that was taken, in order.  *)
WalkHand(t) ==
    /\ hand[t] # << >>
    /\ hand' = [hand EXCEPT ![t] = << >>]
    /\ Answer(t, <<"walked">> \o hand[t])
    /\ UNCHANGED content

Return(t) ==
    /\ ret[t] # NULL
    /\ ret' = [ret EXCEPT ![t] = NULL]
    /\ UNCHANGED <<content, hand>>

(* Every step shows in the result or in the hand of the thread that takes  *)
(* it.                                                                     *)
Moves(t) == ret'[t] # ret[t] \/ hand'[t] # hand[t]

Next ==
    \E t \in Threads :
        /\ Moves(t)
        /\ \/ \E q \in Containers :
                  \/ \E n \in Nodes : Put(t, q, n)
                  \/ Take(t, q) \/ TakeStateless(t, q)
                  \/ Nothing(t, q) \/ Something(t, q) \/ WouldBlock(t, q)
                  \/ Walk(t, q) \/ TakeAll(t, q) \/ PutAll(t, q)
           \/ Interfered(t) \/ WalkHand(t) \/ Return(t)

Spec == Init /\ [][Next]_vars

=============================================================================
