-------------------------- MODULE CallRcuInvariant --------------------------
(***************************************************************************)
(* The inductive invariant of module CallRcu, CIInv with CSetting, and     *)
(* what the steps of the model leave alone, in the terms in which module   *)
(* CallRcuProof argues that every step keeps it.                           *)
(***************************************************************************)
EXTENDS CallRcu

(* Where threads are.  CInner is what a thread does, or goes on with when  *)
(* wake_call_rcu_thread() or get_default_call_rcu_data() returns; CRest is *)
(* the stack of return points then.                                        *)
CWaking == {"wake", "wake_set", "wake_futex"}
CCalling == {"get", "enqueue", "call_out"}
CTaking == {"set_cpu", "synchronize", "grace"}
CFreeing == {"free", "stopping", "leftover", "migrate", "unlink"}
CBarrier == {"bar_queue", "bar_dec", "bar_count", "bar_wait", "bar_futex", "bar_asleep",
             "bar_return"}
CForking == {"fork_pause", "fork", "fork_parent"}
CInnerPC == {"idle", "child", "child_free", "free_set"} \cup CCalling \cup CTaking \cup CFreeing
                \cup CBarrier \cup CForking
CThreadPC == CInnerPC \cup CWaking \cup {"default"}
CInSub(t) == cth[t].pc \in CWaking \cup {"default"}
CInner(t) == IF CInSub(t) THEN Head(cth[t].ret) ELSE cth[t].pc
CRest(t) == IF CInSub(t) THEN Tail(cth[t].ret) ELSE cth[t].ret
CInChild(t) ==
    CInner(t) \in {"child", "child_free"} \/ (CInner(t) \in CFreeing /\ CRest(t) = <<"child_free">>)
CTakes(t) == CInner(t) \in CTaking \cup CFreeing

CComplete == {"bar_test", "bar_set", "bar_wake", "bar_put"}
CBatchPC == {"synchronize", "grace", "run"} \cup CComplete
CWorkerPC == {"none", "start", "top", "paused", "splice", "stop_test", "wait", "futex_wait",
              "asleep", "dec", "stop", "stopped"} \cup CBatchPC

CItem == Heads \cup CThreads
CFlags == {"PAUSE", "PAUSED", "STOP", "STOPPED"}
CCrdp == [live : BOOLEAN, rt : BOOLEAN, flags : SUBSET CFlags, q : Seq(CItem), futex : Int,
          wpc : CWorkerPC, batch : Seq(CItem), wpre : SUBSET CThreads]
CThread == [pc : CThreadPC, ret : Seq(CInnerPC), nest : Nat, h : Heads \cup {NULL},
            w : Crdps \cup {NULL}, f : Crdps \cup {NULL}, todo : Seq(Crdps),
            tpre : SUBSET CThreads]
CCompletion == [count : Int, futex : Int, ref : Int]

CTypeOK ==
    /\ crd \in [Crdps -> CCrdp]
    /\ call_rcu_data_list \in Seq(Crdps)
    /\ default_crd \in Crdps \cup {NULL}
    /\ cpu_crd \in Crdps \cup {NULL}
    /\ thread_crd \in [CThreads -> Crdps \cup {NULL}]
    /\ call_rcu_mutex \in CThreads \cup {NULL}
    /\ completion \in [CThreads -> CCompletion]
    /\ cth \in [CThreads -> CThread]
    /\ living \subseteq CThreads
    /\ cforks \in Nat
    /\ pending \subseteq Heads
    /\ hold \in [Heads -> SUBSET CThreads]
    /\ owed \in [CThreads -> SUBSET Heads]

(* The stack of return points, the mutex, and what goes with a place.      *)
CPlaced(t) ==
    /\ cth[t].pc \in CWaking =>
          cth[t].ret # << >> /\ Head(cth[t].ret) \in {"call_out", "stopping", "unlink", "bar_queue", "fork_pause"}
    /\ cth[t].pc = "default" =>
          cth[t].ret # << >> /\ Head(cth[t].ret) \in {"enqueue", "migrate", "child"}
    /\ CInner(t) \in CFreeing => CRest(t) \in {<<"idle">>, <<"child_free">>}
    /\ CInner(t) \notin CFreeing => CRest(t) = << >>
    /\ call_rcu_mutex = t <=> CInner(t) \in {"bar_queue"} \cup CForking
    /\ CInner(t) \in CCalling => cth[t].nest > 0
    /\ CInner(t) \in CCalling \ {"call_out"} <=> cth[t].h # NULL
    /\ t \notin living => cth[t] = NewThread
CThreadsPlaced == \A t \in CThreads : CPlaced(t)

(* The list has the crdps that exist, each once.                           *)
CList ==
    /\ IsInjective(call_rcu_data_list)
    /\ \A c \in Crdps : crd[c].live <=> c \in Range(call_rcu_data_list)
    /\ \A c \in Crdps : ~ crd[c].live => crd[c] = Unused

(* A crdp is the default one, the CPU's, a thread's, or is being freed.    *)
COwns(t) ==
    thread_crd[t] # NULL =>
        /\ crd[thread_crd[t]].live /\ thread_crd[t] # default_crd /\ thread_crd[t] # cpu_crd
        /\ \A u \in living : u # t => thread_crd[u] # thread_crd[t]
CHasTaken(t) ==
    /\ cth[t].f # NULL
    /\ crd[cth[t].f].live /\ cth[t].f # default_crd /\ cth[t].f # cpu_crd
    /\ \A u \in living : thread_crd[u] # cth[t].f
    /\ \A u \in CThreads : u # t /\ CTakes(u) => cth[u].f # cth[t].f
CRoles ==
    /\ default_crd # NULL => crd[default_crd].live
    /\ cpu_crd # NULL => crd[cpu_crd].live /\ cpu_crd # default_crd
    /\ \A t \in living : COwns(t)
    /\ \A t \in CThreads : CTakes(t) => CHasTaken(t)

(* In the child of a fork.                                                 *)
CChildOf(t) ==
    CInChild(t) =>
        /\ living = {t}
        /\ \A c \in Crdps : c # default_crd => crd[c].wpc = "none"
        /\ cth[t].pc # "default" => default_crd # NULL
        /\ CInner(t) # "child" =>
              /\ cpu_crd = NULL /\ thread_crd[t] = NULL
              /\ IsInjective(cth[t].todo)
              /\ \A c \in Range(cth[t].todo) :
                    crd[c].live /\ c # default_crd /\ (CInner(t) \in CFreeing => c # cth[t].f)

CChild == \A t \in CThreads : CChildOf(t)

(* A crdp that a thread uses is there: it cannot be freed before.          *)
CUsed(t) ==
    /\ cth[t].pc \in CWaking \cup {"enqueue"} =>
          /\ cth[t].w # NULL /\ crd[cth[t].w].live
          /\ \/ cth[t].w = default_crd
             \/ CInner(t) = "stopping" /\ cth[t].w = cth[t].f
             \/ CInner(t) \in {"bar_queue", "fork_pause"}
             \/ CInner(t) \in CCalling /\ cth[t].w \in {thread_crd[t], cpu_crd}
             \/ /\ CInner(t) \in CCalling
                /\ \E u \in CThreads :
                      /\ cth[u].f = cth[t].w
                      /\ CInner(u) = "synchronize" \/ (CInner(u) = "grace" /\ t \in cth[u].tpre)
          /\ CInner(t) = "unlink" => cth[t].w = default_crd
    /\ cth[t].pc = "migrate" => default_crd # NULL /\ cth[t].w = default_crd
    /\ CInner(t) \in {"bar_queue", "fork_pause"} =>
          /\ IsInjective(cth[t].todo)
          /\ \A c \in Range(cth[t].todo) : crd[c].live
CUses == \A t \in CThreads : CUsed(t)

(* Workers, and threads that stop or pause them.                           *)
CWorking(c) ==
    /\ crd[c].batch # << >> => crd[c].wpc \in CBatchPC
    /\ crd[c].wpc \in CComplete => crd[c].batch # << >> /\ crd[c].batch[1] \in CThreads
    /\ "PAUSED" \in crd[c].flags => crd[c].wpc \in {"paused", "none"}
    /\ "STOPPED" \in crd[c].flags => crd[c].wpc = "none"
CStopping(t) ==
    /\ CInner(t) \in {"leftover", "migrate", "unlink"} => crd[cth[t].f].wpc = "none"
    /\ CInner(t) = "fork_pause" =>
          \A c \in Crdps : crd[c].live /\ c \notin Range(cth[t].todo) => "PAUSE" \in crd[c].flags
    /\ CInner(t) = "fork" =>
          \A c \in Crdps : crd[c].live => "PAUSE" \in crd[c].flags /\ "PAUSED" \in crd[c].flags
CWorkers == (\A c \in Crdps : CWorking(c)) /\ (\A t \in CThreads : CStopping(t))

(* Callbacks.                                                              *)
CIn(h, c) == h \in Range(crd[c].q) \/ h \in Range(crd[c].batch)
CHeadOnce(s) == \A i, j \in DOMAIN s : s[i] \in Heads /\ s[i] = s[j] => i = j
CSound(c) ==
    /\ CHeadOnce(crd[c].q) /\ CHeadOnce(crd[c].batch)
    /\ \A h \in Heads : h \in Range(crd[c].q) => h \notin Range(crd[c].batch)
CCallbacks ==
    /\ \A c \in Crdps : CSound(c)
    /\ \A h \in Heads : h \in pending <=> \E c \in Crdps : CIn(h, c)
    /\ \A h \in Heads : \A c, d \in Crdps : CIn(h, c) /\ CIn(h, d) => c = d
    /\ \A t \in CThreads : cth[t].h # NULL =>
          cth[t].h \notin pending /\ \A u \in CThreads : u # t => cth[u].h # cth[t].h
    /\ \A t \in CThreads : CInner(t) = "unlink" =>
          \A h \in Heads : h \notin Range(crd[cth[t].f].q)

(* The sections a callback has to wait for.                                *)
CHeldIn(c) ==
    \A h \in Heads : h \in Range(crd[c].batch) =>
        /\ crd[c].wpc = "grace" => hold[h] \subseteq crd[c].wpre
        /\ crd[c].wpc \in {"run"} \cup CComplete => hold[h] = {}
CHolds ==
    /\ \A h \in Heads : hold[h] \subseteq Reading
    /\ \A c \in Crdps : CHeldIn(c)

(* The completions of a barrier: to be queued, in a queue, or in a batch,  *)
(* where they are counted from its end.                                    *)
CToQueue(t) == IF CInner(t) = "bar_queue" THEN Range(cth[t].todo) ELSE {}
CIsToken(t, k, c, i) ==
    \/ k = "todo" /\ i = 0 /\ c \in CToQueue(t)
    \/ k = "q" /\ i \in DOMAIN crd[c].q /\ crd[c].q[i] = t
    \/ /\ k = "batch" /\ Len(crd[c].batch) - i \in DOMAIN crd[c].batch
       /\ crd[c].batch[Len(crd[c].batch) - i] = t
CTokens(t) ==
    {x \in {"todo", "q", "batch"} \X Crdps \X Nat : CIsToken(t, x[1], x[2], x[3])}

CReferred(t) ==
    /\ IsFiniteSet(CTokens(t))
    /\ t \in living =>
          completion[t].ref >= Cardinality(CTokens(t)) + (IF CInner(t) \in CBarrier THEN 1 ELSE 0)
CRefs == \A t \in CThreads : CReferred(t)

(* Those that will be counted down: not yet, and not on a crdp that is     *)
(* about to be freed.                                                      *)
CDoomed(c) == \E u \in CThreads : CInner(u) = "unlink" /\ cth[u].f = c
CCounts(k, c, i) ==
    /\ k # "batch" => ~ CDoomed(c)
    /\ k = "batch" => ~ (crd[c].wpc \in CComplete /\ i = Len(crd[c].batch) - 1)
CWaited(t) == {x \in CTokens(t) : CCounts(x[1], x[2], x[3])}
CBehind(s, h, t) == \E i, j \in DOMAIN s : i < j /\ s[i] = h /\ s[j] = t
CCoveredIn(t, h, c) ==
    \/ CIn(h, c) /\ c \in CToQueue(t)
    \/ h \in Range(crd[c].batch) /\ t \in Range(crd[c].q)
    \/ CBehind(crd[c].q, h, t) \/ CBehind(crd[c].batch, h, t)
CCovered(t, h) == \E c \in Crdps : CCoveredIn(t, h, c)
CCovers(t) ==
    CInner(t) \in CBarrier =>
        /\ owed[t] \subseteq pending
        /\ completion[t].count >= Cardinality(CWaited(t))
        /\ (\A h \in owed[t] : CCovered(t, h)) \/ completion[t].count >= Cardinality(CWaited(t)) + 1
        /\ cth[t].pc = "bar_return" => owed[t] = {}
CCover == \A t \in CThreads : CCovers(t)

CIInv ==
    /\ CTypeOK /\ CThreadsPlaced /\ CList /\ CRoles /\ CChild /\ CUses /\ CWorkers
    /\ CCallbacks /\ CHolds /\ CRefs /\ CCover

(* free_all_cpu_call_rcu_data() has read the crdp of the CPU, without the  *)
(* mutex: the CPU has it still, as nobody else may take it away.           *)
CSetting ==
    /\ calls \in CPrograms
    /\ \A t \in CThreads : cth[t].pc = "free_set" =>
          cth[t].f = cpu_crd /\ cpu_crd # NULL /\ "free" \in calls[t]

-----------------------------------------------------------------------------
(* What steps do to the parts of the invariant.                            *)

(* Nothing changes for thread u, but for sections that others waited for.  *)
CSame(u) ==
    /\ cth'[u].pc = cth[u].pc /\ cth'[u].ret = cth[u].ret /\ cth'[u].nest = cth[u].nest
    /\ cth'[u].h = cth[u].h /\ cth'[u].w = cth[u].w /\ cth'[u].f = cth[u].f
    /\ cth'[u].todo = cth[u].todo
    /\ u \notin living => cth'[u] = cth[u]

CStill ==
    \A c \in Crdps :
        /\ crd'[c].live = crd[c].live
        /\ crd[c].wpc = "none" => crd'[c].wpc = "none"
        /\ ~ crd[c].live => crd'[c] = crd[c]
CQuietCrdps ==
    \A c \in Crdps :
        /\ crd'[c].live = crd[c].live /\ crd'[c].q = crd[c].q /\ crd'[c].batch = crd[c].batch
        /\ crd[c].wpc = "none" => crd'[c].wpc = "none"
        /\ crd'[c].wpc \in CComplete <=> crd[c].wpc \in CComplete
        /\ ~ crd[c].live => crd'[c] = crd[c]

(* Whoever waits for sections before it frees a crdp goes on to.           *)
CWaits(v) ==
    /\ CInner(v) = "synchronize" =>
          /\ cth'[v].f = cth[v].f
          /\ CInner(v)' = "synchronize" \/ (CInner(v)' = "grace" /\ Reading \subseteq cth'[v].tpre)
    /\ CInner(v) = "grace" =>
          \/ cth[v].tpre = {}
          \/ /\ CInner(v)' = "grace" /\ cth'[v].f = cth[v].f
             /\ \A u \in cth[v].tpre : u \in cth'[v].tpre \/ CInner(u)' \notin CCalling

(* The pauses that u, which forks, relies upon.                            *)
CFlagsKept(u) ==
    \A c \in Crdps :
        /\ CInner(u) \in {"fork_pause", "fork"} /\ "PAUSE" \in crd[c].flags => "PAUSE" \in crd'[c].flags
        /\ CInner(u) = "fork" /\ "PAUSED" \in crd[c].flags => "PAUSED" \in crd'[c].flags

(* What a thread may do in such a step.                                    *)
CAllowed(u) ==
    /\ CInner(u)' = "unlink" =>
          \/ CInner(u) = "unlink" /\ cth'[u].f = cth[u].f
          \/ \A h \in Heads : h \notin Range(crd'[cth'[u].f].q)
    /\ CInner(u) = "unlink" => CInner(u)' = "unlink" /\ cth'[u].f = cth[u].f
    /\ CToQueue(u)' = CToQueue(u)
    /\ CInner(u)' \in CBarrier => CInner(u) \in CBarrier
    /\ completion'[u].count = completion[u].count
    /\ \/ completion'[u].ref = completion[u].ref
       \/ /\ completion'[u].ref = completion[u].ref - 1
          /\ CInner(u) \in CBarrier /\ CInner(u)' \notin CBarrier
    /\ cth'[u].pc = "bar_return" => cth[u].pc = "bar_return" \/ owed[u] = {}
    /\ cth'[u].h # NULL =>
          \/ cth'[u].h = cth[u].h
          \/ cth'[u].h \notin pending /\ \A v \in CThreads : cth[v].h # cth'[u].h
CStep(u) == CAllowed(u) /\ (CTakes(u)' => CTakes(u) /\ cth'[u].f = cth[u].f)

(* The contents of the queues and batches are the same.                    *)
CSameQueues ==
    \A c \in Crdps :
        /\ crd'[c].q = crd[c].q /\ crd'[c].batch = crd[c].batch
        /\ crd'[c].wpc \in CComplete <=> crd[c].wpc \in CComplete

(* The callbacks of f move to g.                                           *)
CMigrates(f, g) ==
    /\ f # g /\ crd[f].live /\ crd[g].live /\ crd[f].wpc = "none"
    /\ crd' = [crd EXCEPT ![g].q = crd[g].q \o crd[f].q, ![f].q = << >>]

(* Thread u does not come to the place between the read and the store.     *)
CNoSetting(u) == cth'[u].pc = "free_set" => cth[u].pc = "free_set" /\ cth'[u].f = cth[u].f

(* A step of one thread that goes elsewhere.                               *)
CAway(t) == cth'[t].pc # "free_set" /\ \A u \in CThreads : u # t => cth'[u] = cth[u]

=============================================================================
