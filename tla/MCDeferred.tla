----------------------------- MODULE MCDeferred ------------------------------
(***************************************************************************)
(* Model checking of what runs deferred work: call_rcu(), the work queue   *)
(* of the hash tables, and defer_rcu().  They share no state, so a run is  *)
(* about one of them and the others stay as they are initially.            *)
(***************************************************************************)
EXTENDS CallRcu, Workqueue, Defer, TLC

CONSTANTS
    t1, t2,   \* the threads of all three
    h1, h2    \* the heads of call_rcu()

VARIABLE unit       \* the one that this run is about

deferred_vars == <<unit, cvars, wqvars, dvars>>

Does(a, b) == [t \in {t1, t2} |-> IF t = t1 THEN a ELSE b]

(* Freeing races with call_rcu(), but not with rcu_barrier() or fork() in  *)
(* another thread (see RcuBarrierHangs.cfg for that).                      *)
MCPrograms ==
    {Does({"read", h1}, {"create_rt", "free"}),
     Does({h1}, {"create", "free", "fork"}),
     Does({"create"}, {"create"}),
     Does({h1}, {h2}),
     Does({"read"}, {h1, "thread", "fork"}),
     Does({}, {h1, "thread", "barrier"}),
     Does({"read"}, {h1, "barrier"})}

(* The functions and data take one, two and three words in the ring.       *)
MCCallbacks == {<<4, 4>>, <<4, 6>>, <<5, 4>>}

MCDPrograms == {[who |-> {t1}, max |-> 4], [who |-> {t1, t2}, max |-> 1]}

MCInit ==
    /\ unit \in {"call_rcu", "workqueue", "defer"}
    /\ CallRcuInit /\ WorkqueueInit /\ DeferInit
    /\ unit # "call_rcu" => calls = CHOOSE p \in CPrograms : TRUE
    /\ unit # "defer" => dprogram = CHOOSE p \in DPrograms : TRUE

MCNext ==
    \/ unit = "call_rcu"  /\ CallRcuNext   /\ UNCHANGED <<unit, wqvars, dvars>>
    \/ unit = "workqueue" /\ WorkqueueNext /\ UNCHANGED <<unit, cvars, dvars>>
    \/ unit = "defer"     /\ DeferNext     /\ UNCHANGED <<unit, cvars, wqvars>>

MCSpec == MCInit /\ [][MCNext]_deferred_vars

(* For progress the programs are smaller.                                  *)
MCProgressPrograms ==
    {Does({"read"}, {h1, "barrier"}),
     Does({h1}, {"create_rt", "free"}),
     Does({}, {h1, "thread"}),
     Does({}, {h1, "fork"})}

MCProgressDPrograms == {[who |-> {t1}, max |-> 1]}

MCFairSpec ==
    /\ MCSpec
    /\ \/ unit = "call_rcu" /\ CallRcuFairness
       \/ unit = "workqueue" /\ WorkqueueFairness
       \/ unit = "defer" /\ DeferFairness

(* Programs that free a crdp while another thread is in rcu_barrier().     *)
MCBarrierPrograms == {Does({"barrier"}, {"thread"})}

=============================================================================
