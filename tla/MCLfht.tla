------------------------------ MODULE MCLfht -------------------------------
(***************************************************************************)
(* Model checking of rculfhash: its list of nodes, its resize control and  *)
(* the memory of its buckets; and of the lists of list.h, hlist.h,         *)
(* rculist.h and rcuhlist.h.  One of them in each behavior.                *)
(***************************************************************************)
EXTENDS Lfht, LfhtResize, LfhtMm, Rculist, TLC

CONSTANTS t1, t2, r1, r2, a1, a2, b1, c1, c2

VARIABLE unit     \* the part whose behavior this is

lfhtAll == <<unit, lfhtvars, rzvars, mmvars, listvars>>

(* Two nodes of a key, one of another key with the same hash, and two of a *)
(* key that is added with duplicates and has a bucket of its own in the    *)
(* largest table.                                                          *)
MCKeyOf == a1 :> "a" @@ a2 :> "a" @@ b1 :> "b" @@ c1 :> "c" @@ c2 :> "c"
MCHashOf == [a |-> 1, b |-> 1, c |-> 3]

MCLfhtPrograms ==
    { \* Updates of the nodes of one hash against each other.
      [calls |-> t1 :> {"add_unique", "lookup", "replace", "del"}
                 @@ t2 :> {"add_replace", "add_unique", "lookup", "del"},
       nodes |-> {a1, a2, b1}, order |-> 0],
      \* Updates of a key against lookups, traversals and a resize.
      [calls |-> t1 :> {"add_unique", "add_replace", "lookup", "replace", "del"}
                 @@ t2 :> {"lookup", "for_each"},
       nodes |-> {a1, a2}, order |-> 1],
      \* Traversals of a chain in which a key is removed and added again.
      [calls |-> t1 :> {"add_unique", "lookup", "del"} @@ t2 :> {"for_each"},
       nodes |-> {a1, a2, b1}, order |-> 0],
      \* Resizes of several orders.
      [calls |-> t1 :> {"add", "lookup", "del", "destroy"}
                 @@ t2 :> {"lookup", "for_each"},
       nodes |-> {c1}, order |-> 2],
      \* Duplicates.
      [calls |-> t1 :> {"add", "lookup", "del"}
                 @@ t2 :> {"add", "lookup", "next_duplicate", "del"},
       nodes |-> {c1, c2}, order |-> 0] }

(* Automatic resizes by counters, by chain lengths only and without        *)
(* memory, mixed with forced ones, forced ones alone, and both kinds of    *)
(* shrink of a large table.                                                *)
MCRzPrograms ==
    { [auto |-> TRUE, accounting |-> TRUE, oom |-> FALSE,
       calls |-> {"add", "del", "destroy"}, sizes |-> {},
       init |-> 1, max |-> 4, items |-> 4],
      [auto |-> TRUE, accounting |-> FALSE, oom |-> TRUE,
       calls |-> {"add", "del", "destroy"}, sizes |-> {},
       init |-> 1, max |-> 4, items |-> 4],
      [auto |-> TRUE, accounting |-> TRUE, oom |-> FALSE,
       calls |-> {"add", "resize"}, sizes |-> {1},
       init |-> 1, max |-> 4, items |-> 4],
      [auto |-> FALSE, accounting |-> TRUE, oom |-> FALSE,
       calls |-> {"add", "resize", "destroy"}, sizes |-> {1, 2, 4},
       init |-> 2, max |-> 4, items |-> 4],
      [auto |-> TRUE, accounting |-> TRUE, oom |-> FALSE,
       calls |-> {"add", "del", "resize"}, sizes |-> {4},
       init |-> 8, max |-> 8, items |-> 4] }

(* The parts that are not checked stay as they are.                        *)
IdleLfht == LfhtInit /\ lf_size = 1
              /\ lf_program = CHOOSE p \in LfhtPrograms : TRUE
IdleResize == LfhtResizeInit /\ rz_program = CHOOSE p \in RzPrograms : TRUE

IdleList == ListInit /\ header = CHOOSE h \in ListHeaders : TRUE

MCLfhtInit ==
    /\ LfhtMmInit
    /\ \/ unit = "nodes"  /\ LfhtInit /\ IdleResize     /\ IdleList
       \/ unit = "resize" /\ IdleLfht /\ LfhtResizeInit /\ IdleList
       \/ unit = "memory" /\ IdleLfht /\ IdleResize     /\ IdleList
       \/ unit = "lists"  /\ IdleLfht /\ IdleResize     /\ ListInit

MCLfhtNext ==
    \/ /\ unit = "nodes" /\ LfhtNext
       /\ UNCHANGED <<unit, rzvars, mmvars, listvars>>
    \/ /\ unit = "resize" /\ LfhtResizeNext
       /\ UNCHANGED <<unit, lfhtvars, mmvars, listvars>>
    \/ /\ unit = "memory" /\ LfhtMmNext
       /\ UNCHANGED <<unit, lfhtvars, rzvars, listvars>>
    \/ /\ unit = "lists" /\ ListNext
       /\ UNCHANGED <<unit, lfhtvars, rzvars, mmvars>>

MCLfhtSpec == MCLfhtInit /\ [][MCLfhtNext]_lfhtAll

(* The nodes a1 and a2 have the same role, also in the lists, and so have  *)
(* the callers of the resize control.  The parts do not meet: one          *)
(* permutation does for both.                                              *)
MCLfhtSymmetry ==
    {p \in Permutations({a1, a2, r1, r2}) :
        {p[a1], p[a2]} = {a1, a2} /\ (p[a1] = a1 <=> p[r1] = r1)}

(* The programs whose automatic resizes succeed.                           *)
MCAutoPrograms == {p \in MCRzPrograms : p.auto /\ ~p.oom}

=============================================================================
