------------------------------ MODULE Rculist -------------------------------
(***************************************************************************)
(* The intrusive lists: list.h (a circular list with a head), hlist.h (a   *)
(* list that ends in NULL), and the updates of rculist.h and rcuhlist.h,   *)
(* which one updater at a time makes while readers traverse the list.  The *)
(* lists of list.h and hlist.h are private to their user.  A behavior is   *)
(* about one of the four headers.                                          *)
(*                                                                         *)
(* An update is the sequence of the stores it makes.  The RCU updates are  *)
(* made store by store, in program order: rcu_assign_pointer() orders the  *)
(* initialisation of a node before its publication, and the other stores   *)
(* are to prev pointers, which readers do not follow.  An entry that       *)
(* replaces another one carries the same item.                             *)
(***************************************************************************)
EXTENDS Naturals, FiniteSetsExt, SequencesExt

CONSTANTS
    ListHeaders,  \* those of "list", "hlist", "rculist", "rcuhlist"
    ListNodes,    \* the entries
    ListReaders,  \* the threads that traverse an RCU list
    ListHead,     \* the head of the list
    OtherHead,    \* the head of a second list, in list.h
    ListNull      \* NULL

ASSUME ListAssumption ==
    /\ ListHead # OtherHead /\ ListNull \notin {ListHead, OtherHead}
    /\ ListNodes \cap {ListHead, OtherHead, ListNull} = {}

VARIABLES
    header,       \* the header that the list is from
    links,        \* the next and prev pointers
    stores,       \* the stores of the update that are still to be made
    onlist,       \* history: the entries of each list, before the update
    goal,         \* history: the same, after the update
    node_state,   \* "free", "linked", "init" (linked to itself), "removed"
    node_item,    \* the item an entry carries, 0 for none
    list_waits,   \* the sections a removed entry must wait for
    cursor,       \* the position of each reader, ListNull outside
    list_seen,    \* history: the items a reader has met
    list_stay     \* history: the items on the list since its first step

listvars == <<header, links, stores, onlist, goal, node_state, node_item,
              list_waits, cursor, list_seen, list_stay>>

Heads == {ListHead, OtherHead}

InRcu == header \in {"rculist", "rcuhlist"}
InHlist == header \in {"hlist", "rcuhlist"}

ItemsOf(seq) == {node_item[seq[i]] : i \in DOMAIN seq}

-----------------------------------------------------------------------------
(* Stores.                                                                 *)

Put(c, f, v) == [cell |-> c, field |-> f, value |-> v]

Stored(m, s) == [m EXCEPT ![s.cell][s.field] = s.value]

After(m, ss) == FoldLeft(Stored, m, ss)

(* CDS_INIT_LIST_HEAD, CDS_LIST_HEAD.                                      *)
CDS_INIT_LIST_HEAD(c) == <<Put(c, "prev", c), Put(c, "next", c)>>

(* The four stores of an insertion, whose values do not depend on one      *)
(* another.                                                                *)
cds_list_add(m, n, head) ==
    <<Put(m[head].next, "prev", n), Put(n, "next", m[head].next),
      Put(n, "prev", head), Put(head, "next", n)>>

cds_list_add_tail(m, n, head) ==
    <<Put(m[head].prev, "next", n), Put(n, "next", head),
      Put(n, "prev", m[head].prev), Put(head, "prev", n)>>

__cds_list_del(prev, next) ==
    <<Put(next, "prev", prev), Put(prev, "next", next)>>

cds_list_del(m, e) == __cds_list_del(m[e].prev, m[e].next)

cds_list_del_init(m, e) == cds_list_del(m, e) \o CDS_INIT_LIST_HEAD(e)

cds_list_move(m, e, head) ==
    LET del == cds_list_del(m, e)
    IN  del \o cds_list_add(After(m, del), e, head)

cds_list_replace(m, old, new) ==
    <<Put(new, "next", m[old].next), Put(new, "prev", m[old].prev),
      Put(m[old].prev, "next", new), Put(m[old].next, "prev", new)>>

cds_list_splice(m, add, head) ==
    IF m[add].next = add THEN <<>>
    ELSE <<Put(m[add].next, "prev", head),
           Put(m[add].prev, "next", m[head].next),
           Put(m[head].next, "prev", m[add].prev),
           Put(head, "next", m[add].next)>>

cds_list_replace_init(m, old, new) ==
    LET del == cds_list_del(m, old)
    IN  del \o cds_list_add_tail(After(m, del), new, m[old].next)
            \o CDS_INIT_LIST_HEAD(old)

(* if (head->next) head->next->prev = newp, and the like.                  *)
IfNode(c, ss) == IF c = ListNull THEN <<>> ELSE ss

CDS_INIT_HLIST_HEAD(head) == <<Put(head, "next", ListNull)>>

cds_hlist_add_head(m, n, head) ==
    IfNode(m[head].next, <<Put(m[head].next, "prev", n)>>)
        \o <<Put(n, "next", m[head].next), Put(n, "prev", head),
             Put(head, "next", n)>>

cds_hlist_del(m, e) ==
    IfNode(m[e].next, <<Put(m[e].next, "prev", m[e].prev)>>)
        \o <<Put(m[e].prev, "next", m[e].next)>>

(* Mutant: the order of cds_list_add_tail().                               *)
PublishFirst(m, n, head) == cds_list_add_tail(m, n, head)

cds_list_add_tail_rcu(m, n, head) ==
    <<Put(n, "next", head), Put(n, "prev", m[head].prev),
      Put(m[head].prev, "next", n), Put(head, "prev", n)>>

cds_list_add_rcu(m, n, head) ==
    <<Put(n, "next", m[head].next), Put(n, "prev", head),
      Put(m[head].next, "prev", n), Put(head, "next", n)>>

(* The stores of cds_list_replace() and cds_list_del(), in their order.    *)
cds_list_replace_rcu(m, old, new) == cds_list_replace(m, old, new)

cds_list_del_rcu(m, e) == __cds_list_del(m[e].prev, m[e].next)

cds_hlist_add_head_rcu(m, n, head) ==
    <<Put(n, "next", m[head].next), Put(n, "prev", head)>>
        \o IfNode(m[head].next, <<Put(m[head].next, "prev", n)>>)
        \o <<Put(head, "next", n)>>

cds_hlist_del_rcu(m, e) ==
    IfNode(m[e].next, <<Put(m[e].next, "prev", m[e].prev)>>)
        \o <<Put(m[e].prev, "next", m[e].next)>>

-----------------------------------------------------------------------------
(* A node that is not in use has the pointers that free() or malloc() left *)
(* in it; the second list exists in list.h only.                           *)
ListInit ==
    /\ header \in ListHeaders
    /\ LET m == [c \in Heads \cup ListNodes |->
                     [next |-> ListNull, prev |-> ListNull]]
       IN  links = IF InHlist THEN After(m, CDS_INIT_HLIST_HEAD(ListHead))
                   ELSE After(m, CDS_INIT_LIST_HEAD(ListHead)
                                     \o CDS_INIT_LIST_HEAD(OtherHead))
    /\ stores = <<>>
    /\ onlist = [h \in Heads |-> <<>>] /\ goal = onlist
    /\ node_state = [n \in ListNodes |-> "free"]
    /\ node_item = [n \in ListNodes |-> 0]
    /\ list_waits = [n \in ListNodes |-> {}]
    /\ cursor = [r \in ListReaders |-> ListNull]
    /\ list_seen = [r \in ListReaders |-> <<>>]
    /\ list_stay = [r \in ListReaders |-> {}]

Traversing == {r \in ListReaders : cursor[r] # ListNull}

(* An update starts: its stores, and what the lists hold in the end.  The  *)
(* items that it removes no longer stay.  On a private list it is made at  *)
(* once.                                                                   *)
Starts(ss, g) ==
    /\ stores = <<>>
    /\ goal' = g
    /\ IF InRcu THEN /\ stores' = ss /\ UNCHANGED <<links, onlist>>
                     /\ list_stay' = [r \in ListReaders |->
                            list_stay[r] \cap {node_item'[g[ListHead][i]] :
                                                 i \in DOMAIN g[ListHead]}]
       ELSE /\ links' = After(links, ss) /\ onlist' = g
            /\ UNCHANGED <<stores, list_stay>>
    /\ UNCHANGED <<header, cursor, list_seen>>

Becomes(n, s) == node_state' = [node_state EXCEPT ![n] = s]

(* A new entry carries an item that is on no list: the items are numbers.  *)
FreshItem ==
    Min((1 .. Cardinality(ListNodes)) \ UNION {ItemsOf(onlist[h]) : h \in Heads})
Carries(n, x) == node_item' = [node_item EXCEPT ![n] = x]

(* An insertion at the head or at the tail of a list.                      *)
Inserts(n, h, ss, s) ==
    /\ node_state[n] \in {"free", "init"} /\ Becomes(n, "linked")
    /\ Carries(n, FreshItem)
    /\ Starts(ss, [onlist EXCEPT ![h] = s])
    /\ UNCHANGED list_waits

Removes(n, ss, s) ==
    /\ Becomes(n, s)
    /\ UNCHANGED <<node_item, list_waits>>
    /\ Starts(ss, [h \in Heads |-> SelectSeq(onlist[h], LAMBDA x : x # n)])

(* _new takes the place of old and its item.                               *)
Replaces(old, new, ss, s) ==
    /\ node_state[old] = "linked" /\ node_state[new] = "free"
    /\ node_state' = [node_state EXCEPT ![old] = s, ![new] = "linked"]
    /\ Carries(new, node_item[old])
    /\ Starts(ss, [h \in Heads |-> ReplaceAll(onlist[h], old, new)])
    /\ UNCHANGED list_waits

AddHead(n) ==
    Inserts(n, ListHead,
            CASE header = "rculist"  -> cds_list_add_rcu(links, n, ListHead)
              [] header = "rcuhlist" -> cds_hlist_add_head_rcu(links, n, ListHead)
              [] header = "list"     -> cds_list_add(links, n, ListHead)
              [] header = "hlist"    -> cds_hlist_add_head(links, n, ListHead),
            <<n>> \o onlist[ListHead])

AddTail(n) ==
    /\ ~InHlist
    /\ Inserts(n, ListHead,
               IF InRcu THEN cds_list_add_tail_rcu(links, n, ListHead)
               ELSE cds_list_add_tail(links, n, ListHead),
               Append(onlist[ListHead], n))

(* After cds_list_del_init() a second removal does no harm.                *)
Delete(n) ==
    /\ node_state[n] \in {"linked", "init"}
    /\ Removes(n, CASE header = "rculist"  -> cds_list_del_rcu(links, n)
                    [] header = "rcuhlist" -> cds_hlist_del_rcu(links, n)
                    [] header = "list"     -> cds_list_del(links, n)
                    [] header = "hlist"    -> cds_hlist_del(links, n),
               IF InRcu THEN "removed" ELSE "free")

DeleteInit(n) ==
    /\ header = "list" /\ node_state[n] \in {"linked", "init"}
    /\ Removes(n, cds_list_del_init(links, n), "init")

Move(n, h) ==
    /\ header = "list" /\ node_state[n] = "linked"
    /\ LET without == [g \in Heads |-> SelectSeq(onlist[g], LAMBDA x : x # n)]
       IN  Starts(cds_list_move(links, n, h),
                  [without EXCEPT ![h] = <<n>> \o @])
    /\ UNCHANGED <<node_state, node_item, list_waits>>

ReplaceEntry(old, new) ==
    /\ ~InHlist
    /\ Replaces(old, new,
                IF InRcu THEN cds_list_replace_rcu(links, old, new)
                ELSE cds_list_replace(links, old, new),
                IF InRcu THEN "removed" ELSE "free")

ReplaceEntryInit(old, new) ==
    /\ header = "list"
    /\ Replaces(old, new, cds_list_replace_init(links, old, new), "init")

(* The head of a list that is not empty is replaced by another head.       *)
ReplaceHeadInit(old, new) ==
    /\ header = "list" /\ onlist[old] # <<>> /\ onlist[new] = <<>> /\ old # new
    /\ Starts(cds_list_replace_init(links, old, new),
              [onlist EXCEPT ![new] = onlist[old], ![old] = <<>>])
    /\ UNCHANGED <<node_state, node_item, list_waits>>

(* The head that was spliced is as it was: its user initialises it again.  *)
Splice(add, head) ==
    /\ header = "list" /\ add # head
    /\ Starts(cds_list_splice(links, add, head) \o CDS_INIT_LIST_HEAD(add),
              [onlist EXCEPT ![head] = onlist[add] \o @, ![add] = <<>>])
    /\ UNCHANGED <<node_state, node_item, list_waits>>

(* The next store of an RCU update.  After the last one, the entries that  *)
(* it removed wait for the readers that are in a section.                  *)
UpdateStore ==
    /\ stores # <<>>
    /\ links' = Stored(links, Head(stores))
    /\ stores' = Tail(stores)
    /\ IF Tail(stores) = <<>>
       THEN /\ onlist' = goal
            /\ list_waits' = [n \in ListNodes |->
                   IF n \in ToSet(onlist[ListHead]) \ ToSet(goal[ListHead])
                   THEN Traversing ELSE list_waits[n]]
       ELSE UNCHANGED <<onlist, list_waits>>
    /\ UNCHANGED <<header, goal, node_state, node_item, cursor, list_seen,
                   list_stay>>

(* After its grace period a removed entry is freed and may be used again.  *)
FreeEntry(n) ==
    /\ node_state[n] = "removed" /\ list_waits[n] = {}
    /\ n \notin ToSet(onlist[ListHead])
    /\ Becomes(n, "free")
    /\ links' = [links EXCEPT ![n] = [next |-> ListNull, prev |-> ListNull]]
    /\ Carries(n, 0)
    /\ UNCHANGED <<header, stores, onlist, goal, list_waits, cursor, list_seen,
                   list_stay>>

(* cds_list_for_each_rcu() and cds_hlist_for_each_rcu() in a read-side     *)
(* critical section, by a reader that starts at the head.                  *)
ReadStart(r) ==
    /\ InRcu /\ cursor[r] = ListNull
    /\ cursor' = [cursor EXCEPT ![r] = ListHead]
    /\ list_seen' = [list_seen EXCEPT ![r] = <<>>]
    /\ list_stay' = [list_stay EXCEPT ![r] =
                         ItemsOf(onlist[ListHead]) \cap ItemsOf(goal[ListHead])]
    /\ UNCHANGED <<header, links, stores, onlist, goal, node_state, node_item,
                   list_waits>>

EndOfList(h) == IF InHlist THEN ListNull ELSE h

(* pos = rcu_dereference(pos->next), and the body of the loop.             *)
ReadNext(r) ==
    /\ cursor[r] # ListNull /\ links[cursor[r]].next \in ListNodes
    /\ cursor' = [cursor EXCEPT ![r] = links[cursor[r]].next]
    /\ list_seen' = [list_seen EXCEPT ![r] = Append(@, node_item[cursor'[r]])]
    /\ UNCHANGED <<header, links, stores, onlist, goal, node_state, node_item,
                   list_waits, list_stay>>

(* The traversal ends and with it the section.                             *)
ReadEnd(r) ==
    /\ cursor[r] # ListNull /\ links[cursor[r]].next = EndOfList(ListHead)
    /\ cursor' = [cursor EXCEPT ![r] = ListNull]
    /\ list_waits' = [n \in ListNodes |-> list_waits[n] \ {r}]
    /\ UNCHANGED <<header, links, stores, onlist, goal, node_state, node_item,
                   list_seen, list_stay>>

ListNext ==
    \/ \E n \in ListNodes :
           \/ AddHead(n) \/ AddTail(n) \/ Delete(n) \/ DeleteInit(n)
           \/ \E h \in Heads : Move(n, h)
           \/ \E new \in ListNodes \ {n} :
                  ReplaceEntry(n, new) \/ ReplaceEntryInit(n, new)
           \/ FreeEntry(n)
    \/ \E h, g \in Heads : ReplaceHeadInit(h, g) \/ Splice(h, g)
    \/ UpdateStore
    \/ \E r \in ListReaders : ReadStart(r) \/ ReadNext(r) \/ ReadEnd(r)

ListSpec == ListInit /\ [][ListNext]_listvars

-----------------------------------------------------------------------------
(* A list is linked forwards and backwards as its calls say.               *)
Linked(h) ==
    LET c == <<h>> \o onlist[h] \o <<EndOfList(h)>>
    IN  \A i \in 1 .. Len(c) - 1 :
            /\ links[c[i]].next = c[i + 1]
            /\ c[i + 1] # ListNull => links[c[i + 1]].prev = c[i]

(* What a traversal promises: a reader is at entries that are linked or    *)
(* wait for it, never at one that is freed or not initialised, and when it *)
(* is done it has met once every item that was on the list throughout,     *)
(* even if its entry was replaced meanwhile.                               *)
Promise(r) ==
    /\ cursor[r] \in ListNodes =>
           /\ node_state[cursor[r]] \in {"linked", "removed"}
           /\ links[cursor[r]].next # ListNull \/ InHlist
    /\ cursor[r] = ListNull =>
           \A x \in list_stay[r] :
               \E i \in DOMAIN list_seen[r] :
                   /\ list_seen[r][i] = x
                   /\ \A j \in DOMAIN list_seen[r] \ {i} : list_seen[r][j] # x

(* The lists hold what their calls say, in both directions, and the        *)
(* updates of rculist.h and rcuhlist.h keep the promise to the readers     *)
(* between any two of their stores.                                        *)
ListsAreSound ==
    /\ stores = <<>> =>
           /\ \A h \in IF InHlist THEN {ListHead} ELSE Heads : Linked(h)
           /\ \A n \in ListNodes : node_state[n] = "init" =>
                  links[n] = [next |-> n, prev |-> n]
    /\ \A r \in ListReaders : Promise(r)

=============================================================================
