------------------------------- MODULE Lfht --------------------------------
(***************************************************************************)
(* rculfhash: the resizable lock-free RCU hash table (src/rculfhash.c), at *)
(* the level of its nodes.                                                 *)
(*                                                                         *)
(* All nodes are in one list ordered by their bit-reversed hash, split by  *)
(* the bucket nodes; the table is an index to the bucket nodes.  A node    *)
(* is removed by the REMOVED flag in its own next pointer and unlinked     *)
(* later, by whoever comes along.  A resize links or unlinks the bucket    *)
(* nodes of an order while lookups, additions, replacements and removals   *)
(* go on; each of those runs in a read-side critical section.              *)
(*                                                                         *)
(* When a resize starts and stops is the subject of module LfhtResize,     *)
(* where bucket nodes live that of module LfhtMm.  Reading or changing a   *)
(* next pointer is one step; reverse_hash does not change while it can be  *)
(* read.                                                                   *)
(***************************************************************************)
EXTENDS Naturals, FiniteSets

CONSTANTS
    LfhtThreads,    \* the callers
    LfhtResizer,    \* the thread that resizes, under the resize mutex
    LfhtNodes,      \* the nodes of the callers
    LfhtKeyOf,      \* the key of each node
    LfhtHashOf,     \* the hash of each key
    LfhtUnique,     \* the keys added by add_unique, add_replace, replace only
    LfhtPrograms,   \* the programs: the calls of each caller, the nodes that
                    \* they use, and the greatest order of a resize
    LfhtBits,       \* CAA_BITS_PER_LONG
    LfhtMaxOrder,   \* the greatest order of a program
    LfhtEnd         \* END_VALUE

ASSUME LfhtAssumption ==
    /\ LfhtResizer \notin LfhtThreads
    /\ LfhtMaxOrder \in 0..LfhtBits
    /\ LfhtUnique \subseteq DOMAIN LfhtHashOf
    /\ \A p \in LfhtPrograms :
          /\ p.calls \in [LfhtThreads -> SUBSET
                {"add", "add_unique", "add_replace", "lookup", "replace", "del",
                 "next_duplicate", "for_each", "destroy"}]
          /\ p.nodes \subseteq LfhtNodes /\ p.order \in 0..LfhtMaxOrder

VARIABLES
    lf_program,   \* the program of this run
    lf_size,      \* ht->size, 0 once the table is destroyed
    lf_next,      \* node->next: pointer and flags
    lf_alloc,     \* the bucket nodes that have memory
    lf_where,     \* a caller's node: "out", "adding", "in" the table, "limbo":
                  \* waits for a grace period, "twice": removed by two callers
    lf_grace,     \* the sections that a node in limbo, or the resizer's
                  \* synchronize_rcu(), still waits for
    lf_pc,        \* what each thread does next
    lf_frame,     \* the locals of its call
    lf_resize,    \* fini_table()'s and init_table()'s: the bucket at hand, and
                  \* the order that is to be freed after the grace period
    lf_stay,      \* history: the keys in the table ever since a search began
    lf_seen       \* history: the nodes that a traversal has visited

lfhtvars == <<lf_program, lf_size, lf_next, lf_alloc, lf_where, lf_grace, lf_pc,
              lf_frame, lf_resize, lf_stay, lf_seen>>

LfhtAgents == LfhtThreads \cup {LfhtResizer}
Buckets == 0..(2^LfhtMaxOrder - 1)
LfhtKeys == DOMAIN LfhtHashOf

(* bit_reverse_ulong(): bit i of the result is bit LfhtBits - 1 - i.       *)
bit_reverse_ulong ==
    [v \in 0..(2^LfhtBits - 1) |->
        CHOOSE u \in 0..(2^LfhtBits - 1) :
            \A i \in 0..(LfhtBits - 1) :
                (u \div 2^i) % 2 = (v \div 2^(LfhtBits - 1 - i)) % 2]

(* node->reverse_hash; the end of the list comes after every hash.         *)
reverse_hash(n) ==
    IF n = LfhtEnd THEN 2^LfhtBits
    ELSE bit_reverse_ulong[IF n \in Buckets THEN n
                           ELSE LfhtHashOf[LfhtKeyOf[n]]]

(* A next pointer: the node, REMOVED_FLAG, BUCKET_FLAG and                 *)
(* REMOVAL_OWNER_FLAG.                                                     *)
Flagged(n, removed, bucket, owner) ==
    [node |-> n, removed |-> removed, bucket |-> bucket, owner |-> owner]
clear_flag(n) == Flagged(n, FALSE, FALSE, FALSE)

lookup_bucket(size, hash) == hash % size
BucketsOfOrder(i) == IF i = 0 THEN {0} ELSE 2^(i - 1)..(2^i - 1)

(* The node before its first insertion, and after a call of the thread.    *)
LfhtNoFrame == [op |-> "none", key |-> LfhtEnd, bucket |-> LfhtEnd,
                node |-> LfhtEnd, prev |-> LfhtEnd,
                iter |-> clear_flag(LfhtEnd), cur |-> LfhtEnd,
                next |-> clear_flag(LfhtEnd)]

(* cds_lfht_create_bucket(): the bucket nodes of the initial size, each    *)
(* linked to the one with the next reversed hash.                          *)
cds_lfht_create_bucket(size) ==
    [n \in Buckets \cup LfhtNodes |->
        IF n \in LfhtNodes THEN clear_flag(LfhtEnd) ELSE
        LET after == {j \in 0..(size - 1) : reverse_hash(j) > reverse_hash(n)}
        IN  IF n >= size \/ after = {} THEN Flagged(LfhtEnd, FALSE, TRUE, FALSE)
            ELSE Flagged(CHOOSE j \in after : \A k \in after :
                             reverse_hash(j) <= reverse_hash(k),
                         FALSE, TRUE, FALSE)]

(* _cds_lfht_new() with an initial size.                                   *)
LfhtInit ==
    /\ lf_program \in LfhtPrograms
    /\ lf_size \in {2^i : i \in 0..lf_program.order}
    /\ lf_next = cds_lfht_create_bucket(lf_size)
    /\ lf_alloc = 0..(lf_size - 1)
    /\ lf_where = [n \in LfhtNodes |-> "out"]
    /\ lf_grace = [x \in LfhtNodes \cup {LfhtResizer} |-> {}]
    /\ lf_pc = [t \in LfhtAgents |-> "idle"]
    /\ lf_frame = [t \in LfhtAgents |-> LfhtNoFrame]
    /\ lf_resize = [bucket |-> 0, free |-> 0]
    /\ lf_stay = [t \in LfhtThreads |-> {}]
    /\ lf_seen = [t \in LfhtThreads |-> {}]

-----------------------------------------------------------------------------
LfhtGoto(t, l) == lf_pc' = [lf_pc EXCEPT ![t] = l]
SetFrame(t, f) == lf_frame' = [lf_frame EXCEPT ![t] = f]

(* The locals when a loop is left or begins again from the bucket.         *)
Restart(f) == [LfhtNoFrame EXCEPT !.op = f.op, !.key = f.key,
                                  !.bucket = f.bucket, !.node = f.node]

(* The nodes that a lookup may find.                                       *)
Live(next, where) == {n \in LfhtNodes : where[n] = "in" /\ ~next[n].removed}
LiveKeys(next, where) == {LfhtKeyOf[n] : n \in Live(next, where)}

(* The read-side critical sections that run.                               *)
LfhtSections ==
    {t \in LfhtThreads : lf_pc[t] # "idle"}
      \cup {t \in {LfhtResizer} :
              lf_pc[t] \notin {"idle", "set_size", "sync", "shrunk", "sync_free"}}

(* The thread's section ends.  A caller that owns a removed node will      *)
(* reuse it after a grace period: the other sections that run now.         *)
Leave(t, removed) ==
    lf_grace' = [x \in DOMAIN lf_grace |->
                    (IF x \in removed THEN LfhtSections ELSE lf_grace[x]) \ {t}]

(* A call returns and its section ends (a longer one would only put off    *)
(* what waits for it), with the nodes that it removed.                     *)
Finish(t, removed) ==
    /\ Leave(t, removed)
    /\ SetFrame(t, LfhtNoFrame)
    /\ LfhtGoto(t, "idle")

Retired(n) ==
    [lf_where EXCEPT ![n] = IF @ = "in" THEN "limbo" ELSE "twice"]

(* The end of the grace period of a removed node.                          *)
Reuse(n) ==
    /\ lf_where[n] = "limbo" /\ lf_grace[n] = {}
    /\ lf_where' = [lf_where EXCEPT ![n] = "out"]
    /\ lf_next' = [lf_next EXCEPT ![n] = clear_flag(LfhtEnd)]
    /\ UNCHANGED <<lf_size, lf_alloc, lf_grace, lf_pc, lf_frame, lf_resize,
                   lf_seen>>

(* rcu_read_unlock() after a lookup or a traversal.                        *)
LfhtReturn(t) ==
    /\ lf_pc[t] \in {"got", "end"}
    /\ Finish(t, {})
    /\ lf_seen' = [lf_seen EXCEPT ![t] = {}]
    /\ UNCHANGED <<lf_size, lf_next, lf_alloc, lf_where, lf_resize>>

-----------------------------------------------------------------------------
(* The start of the calls, in a read-side critical section that may begin  *)
(* here: each reads ht->size and finds its bucket.                         *)

StartCall(t, op, key, node, at, l) ==
    /\ op \in lf_program.calls[t] /\ lf_size # 0
    /\ SetFrame(t, [LfhtNoFrame EXCEPT
                       !.op = op, !.key = key, !.node = node,
                       !.bucket = lookup_bucket(lf_size, LfhtHashOf[key]),
                       !.cur = at.cur, !.next = at.next])
    /\ LfhtGoto(t, l)
    /\ UNCHANGED <<lf_size, lf_next, lf_alloc, lf_grace, lf_resize, lf_seen>>

(* cds_lfht_add(), cds_lfht_add_unique(), cds_lfht_add_replace().          *)
cds_lfht_add(t, n) ==
    /\ lf_pc[t] = "idle" /\ lf_where[n] = "out" /\ n \in lf_program.nodes
    /\ lf_where' = [lf_where EXCEPT ![n] = "adding"]
    /\ \E op \in IF LfhtKeyOf[n] \in LfhtUnique
                 THEN {"add_unique", "add_replace"} ELSE {"add"} :
          StartCall(t, op, LfhtKeyOf[n], n, LfhtNoFrame, "add")

(* cds_lfht_lookup(): the first node after the bucket is loaded next.      *)
cds_lfht_lookup(t, key) ==
    /\ lf_pc[t] = "idle" /\ \E n \in lf_program.nodes : key = LfhtKeyOf[n]
    /\ StartCall(t, "lookup", key, LfhtEnd, LfhtNoFrame, "first")
    /\ UNCHANGED lf_where

(* cds_lfht_next_duplicate() of the node of an iterator.                   *)
cds_lfht_next_duplicate(t) ==
    LET f == lf_frame[t] IN
    /\ lf_pc[t] = "got" /\ f.cur # LfhtEnd
    /\ "next_duplicate" \in lf_program.calls[t]
    /\ SetFrame(t, [LfhtNoFrame EXCEPT !.op = "next_duplicate", !.key = f.key,
                                       !.cur = f.next.node])
    /\ LfhtGoto(t, "search")
    /\ UNCHANGED <<lf_size, lf_next, lf_alloc, lf_where, lf_grace, lf_resize,
                   lf_seen>>

(* cds_lfht_replace() of the node of an iterator, by one of the same key.  *)
cds_lfht_replace(t, n) ==
    LET f == lf_frame[t] IN
    /\ lf_pc[t] = "got" /\ f.cur # LfhtEnd
    /\ lf_where[n] = "out" /\ n \in lf_program.nodes
    /\ LfhtKeyOf[n] = LfhtKeyOf[f.cur]
    /\ lf_where' = [lf_where EXCEPT ![n] = "adding"]
    /\ StartCall(t, "replace", f.key, n, f, "replace")

(* cds_lfht_del() of the node of an iterator.                              *)
cds_lfht_del(t) ==
    LET f == lf_frame[t] IN
    /\ lf_pc[t] = "got" /\ f.cur # LfhtEnd
    /\ StartCall(t, "del", f.key, f.cur, LfhtNoFrame, "del")
    /\ UNCHANGED lf_where

(* cds_lfht_first(): iter->next = bucket_at(ht, 0)->next.                  *)
cds_lfht_first(t) ==
    /\ lf_pc[t] = "idle" /\ "for_each" \in lf_program.calls[t] /\ lf_size # 0
    /\ SetFrame(t, [LfhtNoFrame EXCEPT !.op = "for_each",
                                       !.cur = lf_next[0].node])
    /\ LfhtGoto(t, "walk")
    /\ UNCHANGED <<lf_size, lf_next, lf_alloc, lf_where, lf_grace, lf_resize,
                   lf_seen>>

-----------------------------------------------------------------------------
(* The loops of cds_lfht_lookup(), cds_lfht_next_duplicate() and           *)
(* cds_lfht_next().                                                        *)

LookupFirst(t) ==
    /\ lf_pc[t] = "first"
    /\ SetFrame(t, [lf_frame[t] EXCEPT
                       !.cur = lf_next[lf_frame[t].bucket].node])
    /\ LfhtGoto(t, "search")
    /\ UNCHANGED <<lf_size, lf_next, lf_alloc, lf_where, lf_grace, lf_resize,
                   lf_seen>>

(* The end of the list, or a greater hash: no (further) node.              *)
PastHash(t, n) ==
    reverse_hash(n) > bit_reverse_ulong[LfhtHashOf[lf_frame[t].key]]

Matches(t, n) ==
    /\ ~lf_next[n].removed /\ ~lf_next[n].bucket
    /\ LfhtKeyOf[n] = lf_frame[t].key

(* One node of the search.  An add_unique that finds its key fails and     *)
(* gets its node back, an add_replace replaces what it found; both insert  *)
(* their node when there is none.                                          *)
Search(t) ==
    LET f == lf_frame[t] IN
    /\ lf_pc[t] = "search"
    /\ \/ /\ PastHash(t, f.cur)
          /\ SetFrame(t, [f EXCEPT !.cur = LfhtEnd])
          /\ LfhtGoto(t, IF f.op \in {"add_unique", "add_replace"}
                         THEN "insert" ELSE "got")
          /\ UNCHANGED <<lf_where, lf_grace>>
       \/ /\ ~PastHash(t, f.cur) /\ Matches(t, f.cur) /\ f.op = "add_unique"
          /\ lf_where' = [lf_where EXCEPT ![f.node] = "out"]
          /\ Finish(t, {})
       \/ /\ ~PastHash(t, f.cur) /\ Matches(t, f.cur) /\ f.op # "add_unique"
          /\ SetFrame(t, [Restart(f) EXCEPT !.cur = f.cur,
                                            !.next = lf_next[f.cur]])
          /\ LfhtGoto(t, IF f.op = "add_replace" THEN "replace" ELSE "got")
          /\ UNCHANGED <<lf_where, lf_grace>>
       \/ /\ ~PastHash(t, f.cur) /\ ~Matches(t, f.cur)
          /\ SetFrame(t, [f EXCEPT !.cur = lf_next[f.cur].node])
          /\ UNCHANGED <<lf_pc, lf_where, lf_grace>>
    /\ UNCHANGED <<lf_size, lf_next, lf_alloc, lf_resize, lf_seen>>

(* One node of cds_lfht_next(), until the end of the list.                 *)
cds_lfht_next(t) ==
    LET n == lf_frame[t].cur IN
    /\ lf_pc[t] = "walk"
    /\ \/ /\ n = LfhtEnd
          /\ LfhtGoto(t, "end")
          /\ UNCHANGED <<lf_frame, lf_seen>>
       \/ /\ n # LfhtEnd
          /\ lf_seen' = [lf_seen EXCEPT
                            ![t] = IF lf_next[n].removed \/ lf_next[n].bucket
                                   THEN @ ELSE @ \cup {n}]
          /\ SetFrame(t, [lf_frame[t] EXCEPT !.cur = lf_next[n].node])
          /\ UNCHANGED lf_pc
    /\ UNCHANGED <<lf_size, lf_next, lf_alloc, lf_where, lf_grace, lf_resize>>

-----------------------------------------------------------------------------
(* The loops of _cds_lfht_add() and _cds_lfht_gc_bucket().                 *)

(* iter_prev = bucket; iter = rcu_dereference(iter_prev->next)             *)
FirstIter(t) ==
    LET f == lf_frame[t] IN
    /\ lf_pc[t] \in {"add", "gc"}
    /\ SetFrame(t, [f EXCEPT !.prev = f.bucket, !.iter = lf_next[f.bucket]])
    /\ LfhtGoto(t, IF lf_pc[t] = "add" THEN "add_loop" ELSE "gc_loop")
    /\ UNCHANGED <<lf_size, lf_next, lf_alloc, lf_where, lf_grace, lf_resize,
                   lf_seen>>

(* Mutant: a bucket node goes behind the nodes of its hash.                *)
BehindHash(f) == reverse_hash(f.iter.node) > reverse_hash(f.node)

(* The node goes before iter.  A bucket node is the first of its hash.     *)
InsertHere(f) ==
    \/ reverse_hash(f.iter.node) > reverse_hash(f.node)
    \/ /\ f.node \in Buckets
       /\ reverse_hash(f.iter.node) = reverse_hash(f.node)

(* Mutant: the search for the key goes along, and the node goes to the end *)
(* of its hash.                                                            *)
FoundOnTheWay(f) ==
    /\ f.op \in {"add_unique", "add_replace"}
    /\ f.iter.node \in LfhtNodes /\ LfhtKeyOf[f.iter.node] = f.key

(* The first node of the hash: a unique addition looks for its key from    *)
(* here on and, if there is none, inserts here.                            *)
UniqueFrom(f) ==
    /\ f.op \in {"add_unique", "add_replace"}
    /\ ~lf_next[f.iter.node].bucket
    /\ reverse_hash(f.iter.node) = reverse_hash(f.node)

(* One node of the search for the place to insert.                         *)
AddLoop(t) ==
    LET f == lf_frame[t]
        next == lf_next[f.iter.node]
    IN
    /\ lf_pc[t] = "add_loop"
    /\ \/ /\ InsertHere(f)
          /\ LfhtGoto(t, "insert")
          /\ UNCHANGED lf_frame
       \/ /\ ~InsertHere(f) /\ next.removed
          /\ SetFrame(t, [f EXCEPT !.next = next])
          /\ LfhtGoto(t, "add_gc")
       \/ /\ ~InsertHere(f) /\ ~next.removed /\ UniqueFrom(f)
          /\ SetFrame(t, [f EXCEPT !.cur = f.iter.node])
          /\ LfhtGoto(t, "search")
       \/ /\ ~InsertHere(f) /\ ~next.removed /\ ~UniqueFrom(f)
          /\ SetFrame(t, [f EXCEPT !.prev = f.iter.node, !.iter = next])
          /\ UNCHANGED lf_pc
    /\ UNCHANGED <<lf_size, lf_next, lf_alloc, lf_where, lf_grace, lf_resize,
                   lf_seen>>

(* One node of _cds_lfht_gc_bucket(), up to the hash of the node.          *)
GcDone(f) == reverse_hash(f.iter.node) > reverse_hash(f.node)

GcLoop(t) ==
    LET f == lf_frame[t]
        next == lf_next[f.iter.node]
    IN
    /\ lf_pc[t] = "gc_loop" /\ ~GcDone(f)
    /\ \/ /\ next.removed
          /\ SetFrame(t, [f EXCEPT !.next = next])
          /\ LfhtGoto(t, "gc_cas")
       \/ /\ ~next.removed
          /\ SetFrame(t, [f EXCEPT !.prev = f.iter.node, !.iter = next])
          /\ UNCHANGED lf_pc
    /\ UNCHANGED <<lf_size, lf_next, lf_alloc, lf_where, lf_grace, lf_resize,
                   lf_seen>>

(* uatomic_cmpxchg(&iter_prev->next, iter, new_next): unlink, then retry.  *)
Unlink(t) ==
    LET f == lf_frame[t] IN
    /\ lf_pc[t] \in {"add_gc", "gc_cas"}
    /\ lf_next' = [lf_next EXCEPT ![f.prev] =
                      IF @ = f.iter
                      THEN Flagged(f.next.node, FALSE, f.iter.bucket, FALSE)
                      ELSE @]
    /\ SetFrame(t, [Restart(f) EXCEPT !.cur = f.cur])
    /\ LfhtGoto(t, IF lf_pc[t] = "add_gc" THEN "add" ELSE "gc")
    /\ UNCHANGED <<lf_size, lf_alloc, lf_where, lf_grace, lf_resize, lf_seen>>

(* node->next = iter; uatomic_cmpxchg(&iter_prev->next, iter, node), by a  *)
(* caller, who returns, or by the resizer, who goes on.                    *)
Insert(t) ==
    LET f == lf_frame[t]
        unchanged == lf_next[f.prev] = f.iter
    IN
    /\ lf_pc[t] = "insert"
    /\ lf_next' = [lf_next EXCEPT
          ![f.node] = Flagged(f.iter.node, FALSE, f.node \in Buckets, FALSE),
          ![f.prev] = IF unchanged
                      THEN Flagged(f.node, FALSE, f.iter.bucket, FALSE) ELSE @]
    /\ \/ /\ ~unchanged
          /\ SetFrame(t, Restart(f))
          /\ LfhtGoto(t, "add")
          /\ UNCHANGED <<lf_where, lf_grace>>
       \/ /\ unchanged /\ t \in LfhtThreads
          /\ lf_where' = [lf_where EXCEPT ![f.node] = "in"]
          /\ Finish(t, {})
       \/ /\ unchanged /\ t = LfhtResizer
          /\ SetFrame(t, LfhtNoFrame)
          /\ LfhtGoto(t, "populated")
          /\ UNCHANGED <<lf_where, lf_grace>>
    /\ UNCHANGED <<lf_size, lf_alloc, lf_resize, lf_seen>>

-----------------------------------------------------------------------------
(* _cds_lfht_replace(): the new node goes behind the old one by the same   *)
(* compare-and-swap that removes the old one and owns it.                  *)
Replace(t) ==
    LET f == lf_frame[t] IN
    /\ lf_pc[t] = "replace"
    /\ \/ /\ f.next.removed
          /\ \/ /\ f.op = "replace"
                /\ lf_where' = [lf_where EXCEPT ![f.node] = "out"]
                /\ Finish(t, {})
             \/ /\ f.op = "add_replace"
                /\ SetFrame(t, Restart(f))
                /\ LfhtGoto(t, "add")
                /\ UNCHANGED <<lf_where, lf_grace>>
          /\ UNCHANGED lf_next
       \/ /\ ~f.next.removed /\ lf_next[f.cur] = f.next
          /\ lf_next' = [lf_next EXCEPT
                            ![f.node] = f.next,
                            ![f.cur] = Flagged(f.node, TRUE, FALSE, TRUE)]
          /\ lf_where' = [lf_where EXCEPT ![f.node] = "in"]
          /\ SetFrame(t, [Restart(f) EXCEPT !.cur = f.cur])
          /\ LfhtGoto(t, "gc")
          /\ UNCHANGED lf_grace
       \/ /\ ~f.next.removed /\ lf_next[f.cur] # f.next
          /\ SetFrame(t, [f EXCEPT !.next = lf_next[f.cur]])
          /\ UNCHANGED <<lf_next, lf_where, lf_grace, lf_pc>>
    /\ UNCHANGED <<lf_size, lf_alloc, lf_resize, lf_seen>>

(* The old node is no longer reachable: it belongs to the caller.          *)
Replaced(t) ==
    /\ lf_pc[t] = "gc_loop" /\ GcDone(lf_frame[t])
    /\ lf_frame[t].op \in {"replace", "add_replace"}
    /\ lf_where' = Retired(lf_frame[t].cur)
    /\ Finish(t, {lf_frame[t].cur})
    /\ UNCHANGED <<lf_size, lf_next, lf_alloc, lf_resize, lf_seen>>

(* _cds_lfht_del(): -ENOENT if the node is already removed.                *)
DelCheck(t) ==
    LET removed == lf_next[lf_frame[t].node].removed IN
    /\ lf_pc[t] = "del"
    /\ \/ removed /\ Finish(t, {})
       \/ ~removed /\ LfhtGoto(t, "del_or") /\ UNCHANGED <<lf_grace, lf_frame>>
    /\ UNCHANGED <<lf_size, lf_next, lf_alloc, lf_where, lf_resize, lf_seen>>

(* uatomic_or(&node->next, REMOVED_FLAG)                                   *)
DelOr(t) ==
    /\ lf_pc[t] = "del_or"
    /\ lf_next' = [lf_next EXCEPT ![lf_frame[t].node].removed = TRUE]
    /\ LfhtGoto(t, "gc")
    /\ UNCHANGED <<lf_size, lf_alloc, lf_where, lf_grace, lf_frame, lf_resize,
                   lf_seen>>

(* flag_removal_owner(node->next) is computed ...                          *)
DelRead(t) ==
    LET f == lf_frame[t] IN
    /\ lf_pc[t] = "gc_loop" /\ GcDone(f) /\ f.op = "del"
    /\ SetFrame(t, [LfhtNoFrame EXCEPT
                       !.op = "del", !.node = f.node,
                       !.next = [lf_next[f.node] EXCEPT !.owner = TRUE]])
    /\ LfhtGoto(t, "del_xchg")
    /\ UNCHANGED <<lf_size, lf_next, lf_alloc, lf_where, lf_grace, lf_resize,
                   lf_seen>>

(* Mutant: every caller that set REMOVED_FLAG takes the node.              *)
EveryRemover(old) == TRUE

(* Of several removers, the first to set REMOVAL_OWNER_FLAG wins.          *)
WinsRemoval(old) == ~old.owner

(* ... and exchanged with the pointer.                                     *)
DelXchg(t) ==
    LET f == lf_frame[t] IN
    /\ lf_pc[t] = "del_xchg"
    /\ lf_next' = [lf_next EXCEPT ![f.node] = f.next]
    /\ \/ /\ WinsRemoval(lf_next[f.node])
          /\ lf_where' = Retired(f.node) /\ Finish(t, {f.node})
       \/ /\ ~WinsRemoval(lf_next[f.node])
          /\ Finish(t, {}) /\ UNCHANGED lf_where
    /\ UNCHANGED <<lf_size, lf_alloc, lf_resize, lf_seen>>

-----------------------------------------------------------------------------
(* init_table() and fini_table(), under the resize mutex.  Another target  *)
(* may stop them after any order.                                          *)

(* _cds_lfht_add() of a bucket node to the chain of its parent bucket.     *)
AddBucket(j, half) ==
    /\ lf_resize' = [lf_resize EXCEPT !.bucket = j]
    /\ SetFrame(LfhtResizer, [LfhtNoFrame EXCEPT
                   !.op = "bucket", !.node = j, !.bucket = lookup_bucket(half, j)])
    /\ LfhtGoto(LfhtResizer, "add")

(* cds_lfht_alloc_bucket_table() of the next order, whose nodes come from  *)
(* calloc(), and the first node of init_table_populate_partition().        *)
init_table ==
    /\ lf_pc[LfhtResizer] = "idle"
    /\ lf_size \in {2^i : i \in 0..(lf_program.order - 1)}
    /\ lf_alloc' = lf_alloc \cup (lf_size..(2 * lf_size - 1))
    /\ AddBucket(lf_size, lf_size)
    /\ UNCHANGED <<lf_size, lf_next, lf_where, lf_grace, lf_seen>>

(* The next node, or rcu_read_unlock() after the last one.                 *)
init_table_populate_partition ==
    LET j == lf_resize.bucket IN
    /\ lf_pc[LfhtResizer] = "populated"
    /\ \/ /\ j + 1 < 2 * lf_size
          /\ AddBucket(j + 1, lf_size)
          /\ UNCHANGED lf_grace
       \/ /\ j + 1 = 2 * lf_size
          /\ Leave(LfhtResizer, {})
          /\ SetFrame(LfhtResizer, LfhtNoFrame)
          /\ LfhtGoto(LfhtResizer, "set_size")
          /\ UNCHANGED lf_resize
    /\ UNCHANGED <<lf_size, lf_next, lf_alloc, lf_where, lf_seen>>

(* CMM_STORE_SHARED(ht->size, 1UL << i)                                    *)
GrownSize ==
    /\ lf_pc[LfhtResizer] = "set_size"
    /\ lf_size' = 2 * lf_size
    /\ lf_resize' = [lf_resize EXCEPT !.bucket = 0]
    /\ LfhtGoto(LfhtResizer, "idle")
    /\ UNCHANGED <<lf_next, lf_alloc, lf_where, lf_grace, lf_frame, lf_seen>>

(* Mutant: the buckets are removed without waiting for callers that found  *)
(* them through the old size.                                              *)
NoSections == {}

(* update_synchronize_rcu(): it waits for the sections that run now.       *)
update_synchronize_rcu == LfhtSections

(* CMM_STORE_SHARED(ht->size, 1UL << (i - 1)), then a grace period.        *)
fini_table ==
    /\ lf_pc[LfhtResizer] \in {"idle", "shrunk"} /\ lf_size > 1
    /\ lf_size' = lf_size \div 2
    /\ lf_resize' = [lf_resize EXCEPT !.bucket = lf_size \div 2]
    /\ lf_grace' = [lf_grace EXCEPT ![LfhtResizer] = update_synchronize_rcu]
    /\ LfhtGoto(LfhtResizer, "sync")
    /\ UNCHANGED <<lf_next, lf_alloc, lf_where, lf_frame, lf_seen>>

(* Nobody uses the old size: the order above, removed before, is freed,    *)
(* and remove_table_partition() starts.                                    *)
remove_table ==
    /\ lf_pc[LfhtResizer] = "sync" /\ lf_grace[LfhtResizer] = {}
    /\ lf_alloc' = IF lf_resize.free = 0 THEN lf_alloc
                   ELSE lf_alloc \ BucketsOfOrder(lf_resize.free)
    /\ LfhtGoto(LfhtResizer, "or")
    /\ UNCHANGED <<lf_size, lf_next, lf_where, lf_grace, lf_frame, lf_resize,
                   lf_seen>>

(* uatomic_or(&fini_bucket->next, REMOVED_FLAG)                            *)
remove_table_partition ==
    LET j == lf_resize.bucket IN
    /\ lf_pc[LfhtResizer] = "or"
    /\ lf_next' = [lf_next EXCEPT ![j].removed = TRUE]
    /\ SetFrame(LfhtResizer, [LfhtNoFrame EXCEPT
                   !.op = "bucket", !.node = j, !.bucket = j - lf_size])
    /\ LfhtGoto(LfhtResizer, "gc")
    /\ UNCHANGED <<lf_size, lf_alloc, lf_where, lf_grace, lf_resize, lf_seen>>

(* The bucket node is unlinked: the next one, or the end of the order.     *)
RemovedBucket ==
    LET j == lf_resize.bucket IN
    /\ lf_pc[LfhtResizer] = "gc_loop" /\ GcDone(lf_frame[LfhtResizer])
    /\ SetFrame(LfhtResizer, LfhtNoFrame)
    /\ \/ /\ j + 1 < 2 * lf_size
          /\ lf_resize' = [lf_resize EXCEPT !.bucket = j + 1]
          /\ LfhtGoto(LfhtResizer, "or")
          /\ UNCHANGED lf_grace
       \/ /\ j + 1 = 2 * lf_size
          /\ lf_resize' = [bucket |-> 0,
                           free |-> CHOOSE i \in 1..LfhtMaxOrder : 2^i = j + 1]
          /\ Leave(LfhtResizer, {})
          /\ LfhtGoto(LfhtResizer, "shrunk")
    /\ UNCHANGED <<lf_size, lf_next, lf_alloc, lf_where, lf_seen>>

(* The last order of this shrink: a grace period, and its table is freed.  *)
SyncBeforeFree ==
    /\ lf_pc[LfhtResizer] = "shrunk"
    /\ lf_grace' = [lf_grace EXCEPT ![LfhtResizer] = update_synchronize_rcu]
    /\ LfhtGoto(LfhtResizer, "sync_free")
    /\ UNCHANGED <<lf_size, lf_next, lf_alloc, lf_where, lf_frame, lf_resize,
                   lf_seen>>

FreeBucketTable ==
    /\ lf_pc[LfhtResizer] = "sync_free" /\ lf_grace[LfhtResizer] = {}
    /\ lf_alloc' = lf_alloc \ BucketsOfOrder(lf_resize.free)
    /\ lf_resize' = [lf_resize EXCEPT !.free = 0]
    /\ LfhtGoto(LfhtResizer, "idle")
    /\ UNCHANGED <<lf_size, lf_next, lf_where, lf_grace, lf_frame, lf_seen>>

(* cds_lfht_destroy() with nobody else in the table: cds_lfht_delete_      *)
(* bucket() walks the list and refuses, with -EPERM, a table that still    *)
(* has a node in it.                                                       *)
Chain[n \in Buckets \cup LfhtNodes] ==
    IF lf_next[n].node = LfhtEnd THEN {n} ELSE {n} \cup Chain[lf_next[n].node]

cds_lfht_destroy(t) ==
    /\ "destroy" \in lf_program.calls[t] /\ lf_size # 0
    /\ \A a \in LfhtAgents : lf_pc[a] = "idle"
    /\ \A n \in Chain[0] : lf_next[n].bucket
    /\ lf_size' = 0 /\ lf_alloc' = {}
    /\ lf_next' = [n \in Buckets \cup LfhtNodes |-> clear_flag(LfhtEnd)]
    /\ UNCHANGED <<lf_where, lf_grace, lf_pc, lf_frame, lf_resize, lf_seen>>

-----------------------------------------------------------------------------
(* History: the keys that stay in the table during a search or traversal.  *)
Remember ==
    lf_stay' = [t \in LfhtThreads |->
        IF lf_pc'[t] \notin {"first", "search", "walk", "got", "end"}
              \/ lf_frame'[t].op \notin {"lookup", "for_each"}
        THEN {}
        ELSE LiveKeys(lf_next', lf_where')
               \cap (IF lf_pc[t] = "idle" THEN LiveKeys(lf_next, lf_where)
                     ELSE lf_stay[t])
               \cap (IF lf_frame'[t].op = "for_each" THEN LfhtKeys
                     ELSE {lf_frame'[t].key})]

LfhtStep(t) ==
    \/ \E n \in LfhtNodes : cds_lfht_add(t, n) \/ cds_lfht_replace(t, n)
    \/ \E k \in LfhtKeys : cds_lfht_lookup(t, k)
    \/ cds_lfht_next_duplicate(t) \/ cds_lfht_del(t) \/ cds_lfht_first(t)
    \/ LookupFirst(t) \/ Search(t) \/ cds_lfht_next(t)
    \/ Replace(t) \/ Replaced(t)
    \/ DelCheck(t) \/ DelOr(t) \/ DelRead(t) \/ DelXchg(t)
    \/ LfhtReturn(t) \/ cds_lfht_destroy(t)

ResizeStep ==
    \/ init_table \/ init_table_populate_partition \/ GrownSize
    \/ fini_table \/ remove_table \/ remove_table_partition \/ RemovedBucket
    \/ SyncBeforeFree \/ FreeBucketTable

LfhtNext ==
    /\ \/ \E t \in LfhtThreads : LfhtStep(t)
       \/ \E t \in LfhtAgents : FirstIter(t) \/ AddLoop(t) \/ GcLoop(t)
                                 \/ Unlink(t) \/ Insert(t)
       \/ ResizeStep
       \/ \E n \in LfhtNodes : Reuse(n)
    /\ Remember /\ UNCHANGED lf_program

LfhtSpec == LfhtInit /\ [][LfhtNext]_lfhtvars

-----------------------------------------------------------------------------
(* A lookup of a key that is in the table all the time finds a node of it, *)
(* and a traversal visits one, whatever nodes of the key are replaced and  *)
(* whatever bucket nodes a resize adds and removes at the same time        *)
(* ("we guarantee that the lookups and traversals will always find exactly *)
(* one instance of the key").                                              *)
LfhtFindsKeys ==
    \A t \in LfhtThreads :
        /\ lf_pc[t] = "got" /\ lf_frame[t].cur = LfhtEnd => lf_stay[t] = {}
        /\ lf_pc[t] = "end" =>
              lf_stay[t] \subseteq {LfhtKeyOf[n] : n \in lf_seen[t]}

(* Additions by add_unique, add_replace and replace never leave two nodes  *)
(* of a key in the table, and no traversal meets two ("no duplicated keys  *)
(* should ever be observable in the table").                               *)
LfhtNoDuplicates ==
    \A k \in LfhtUnique :
        LET ofKey == {n \in LfhtNodes : LfhtKeyOf[n] = k} IN
        /\ Cardinality(ofKey \cap Live(lf_next, lf_where)) <= 1
        /\ \A t \in LfhtThreads : Cardinality(ofKey \cap lf_seen[t]) <= 1

(* A removed node goes to one of the callers that removed or replaced it,  *)
(* and only a table without nodes is destroyed.                            *)
LfhtOneOwner ==
    \A n \in LfhtNodes :
        /\ lf_where[n] # "twice"
        /\ lf_size = 0 => lf_where[n] # "in"

(* No thread holds, inside its section, a pointer to a node whose grace    *)
(* period has ended or to a bucket node whose table was freed; a bucket    *)
(* that a search starts from is not removed (the assertions of             *)
(* _cds_lfht_gc_bucket()).                                                 *)
LfhtTouchesLiveNodes ==
    LET Alive(n) == n = LfhtEnd \/ n \in lf_alloc
                      \/ (n \in LfhtNodes /\ lf_where[n] # "out")
    IN
    \A t \in LfhtAgents :
        LET f == lf_frame[t] IN
        /\ lf_pc[t] \in {"first", "add", "gc"} =>
              Alive(f.bucket) /\ ~lf_next[f.bucket].removed
        /\ lf_pc[t] \in {"search", "walk"} => Alive(f.cur)
        /\ lf_pc[t] \in {"add_loop", "gc_loop"} => Alive(f.iter.node)
        /\ lf_pc[t] \in {"add_gc", "gc_cas", "insert"} => Alive(f.prev)

=============================================================================
