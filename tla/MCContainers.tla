---------------------------- MODULE MCContainers -----------------------------
(***************************************************************************)
(* Model checking of the queues and stacks, and of what they are made of:  *)
(* RCU pointers, reference counts, atomic operations and futexes.  They    *)
(* share no state: a behavior is about one of them, and the others stay as *)
(* they are initially.                                                     *)
(***************************************************************************)
EXTENDS Wfcqueue, Wfqueue, Rculfqueue, Wfstack, Lfstack, RcuPointer, Ref,
        Uatomic, CompatFutex, TLC

CONSTANTS t1, t2, t3, l1, l2, n1, n2, q1, q2

VARIABLE unit     \* the one that this behavior is about

queuevars == <<wfcqvars, wfqvars, lfqvars>>
stackvars == <<wfsvars, lfsvars>>
othervars == <<vars, refvars, uavars, fxvars>>

(* Three threads on a queue that is consumed under its lock, or two on it  *)
(* and on one from which they only splice.                                 *)
MCWfcqUses ==
    {[who |-> {t1, t2, t3}, queues |-> q1 :> "unused" @@ q2 :> "locked"],
     [who |-> {t2, t3}, queues |-> q1 :> "splice" @@ q2 :> "locked"]}

(* One caller whose grace periods end, or two whose do not.                *)
MCLfqPrograms == {[who |-> {l1}, grace |-> TRUE],
                  [who |-> {l1, l2}, grace |-> FALSE]}

(* A char, a short and a whole word.                                       *)
MCFields == {[at |-> 0, size |-> 1], [at |-> 0, size |-> 2],
             [at |-> 0, size |-> 4]}

AnyOf(set) == CHOOSE x \in set : TRUE

(* The initial states of the others are reduced to one each.               *)
MCContainersInit ==
    /\ unit \in {"wfcqueue", "wfqueue", "rculfqueue", "wfstack", "lfstack",
                 "pointer", "ref", "uatomic", "futex"}
    /\ WfcqueueInit /\ WfqueueInit /\ RculfqueueInit /\ WfstackInit
    /\ LfstackInit /\ Init /\ RefInit /\ UatomicInit /\ CompatFutexInit
    /\ unit # "wfcqueue" => wq_use.who # {t2, t3}
    /\ unit # "rculfqueue" => lq_program.grace
    /\ unit # "wfstack" => ws_technique = AnyOf(WfsTechniques)
    /\ unit # "lfstack" => ls_technique = AnyOf(LfsTechniques)
    /\ unit # "pointer" => style = AnyOf(Styles)
    /\ unit # "uatomic" => ua_arch = AnyOf(UaArchs) /\ ua_mem = AnyOf(UaInitial)
    /\ unit # "futex" => /\ fx_build = AnyOf(FxBuilds)
                         /\ fx_uaddr = [t \in FxThreads |-> q1]
                         /\ fx_api = [w \in FxWords |-> "async"]

MCContainersNext ==
    \/ /\ unit = "wfcqueue" /\ WfcqueueNext
       /\ UNCHANGED <<unit, wfqvars, lfqvars, stackvars, othervars>>
    \/ /\ unit = "wfqueue" /\ WfqueueNext
       /\ UNCHANGED <<unit, wfcqvars, lfqvars, stackvars, othervars>>
    \/ /\ unit = "rculfqueue" /\ RculfqueueNext
       /\ UNCHANGED <<unit, wfcqvars, wfqvars, stackvars, othervars>>
    \/ /\ unit = "wfstack" /\ WfstackNext
       /\ UNCHANGED <<unit, queuevars, lfsvars, othervars>>
    \/ /\ unit = "lfstack" /\ LfstackNext
       /\ UNCHANGED <<unit, queuevars, wfsvars, othervars>>
    \/ /\ unit = "pointer" /\ Next
       /\ UNCHANGED <<unit, queuevars, stackvars, refvars, uavars, fxvars>>
    \/ /\ unit = "ref" /\ RefNext
       /\ UNCHANGED <<unit, queuevars, stackvars, vars, uavars, fxvars>>
    \/ /\ unit = "uatomic" /\ UatomicNext
       /\ UNCHANGED <<unit, queuevars, stackvars, vars, refvars, fxvars>>
    \/ /\ unit = "futex" /\ CompatFutexNext
       /\ UNCHANGED <<unit, queuevars, stackvars, vars, refvars, uavars>>

MCContainersSpec ==
    MCContainersInit
        /\ [][MCContainersNext]_<<unit, queuevars, stackvars, othervars>>

(* Nodes are alike, and so are the threads t2 and t3; t1 may be the only   *)
(* consumer and owns the first reference.                                  *)
MCContainersSymmetry ==
    {p @@ q : p \in Permutations({n1, n2}), q \in Permutations({t2, t3})}

(* Two callers whose grace periods end.                                    *)
MCLfqFreeing == {[who |-> {l1, l2}, grace |-> TRUE]}

=============================================================================
