----------------------------- MODULE LfhtProof ------------------------------
(***************************************************************************)
(* The hash table's resize control and the work queue that runs its lazy   *)
(* resizes.                                                                *)
(*                                                                         *)
(* The work queue (src/workqueue.c): each work runs once, and a flush      *)
(* waits for the works of its caller. The invariant follows an item from   *)
(* the queue to the worker's batch, ties the number of users to the life   *)
(* of the queue, and keeps each completion behind the works it is to       *)
(* cover.                                                                  *)
(*                                                                         *)
(* The resize control of rculfhash (src/rculfhash.c): a table that is      *)
(* being destroyed is not resized. The invariant says who holds the resize *)
(* mutex, that sizes stay positive until the table is gone, and that       *)
(* whoever destroys a table is alone with the worker of the work queue.    *)
(***************************************************************************)
EXTENDS Workqueue, LfhtResize, FiniteSetTheorems, SequenceTheorems, TLAPS

-----------------------------------------------------------------------------
(* The work queue: the inductive invariant.                                *)

(* Where a thread or the worker is, and their records.                     *)
WqWaking == {"wake", "wake_set", "wake_futex"}
WqWaits == {"comp_dec", "comp_count", "comp_wait", "comp_futex", "comp_asleep"}
WqOwns == {"join", "pausing", "fork", "resuming"}
WqRets == {"idle", "comp_dec", "join", "pausing"}
WqUserPC == {"idle", "comp_put", "fini", "gone"} \cup WqWaking \cup WqWaits \cup WqOwns
WqCompPC == {"comp_test", "comp_set", "comp_wake", "comp_put"}
WqWorkerPC == {"none", "start", "top", "paused", "splice", "run", "empty_test",
               "wait", "futex", "asleep", "dec", "stop"} \cup WqCompPC
WqItem == Works \cup WqThreads
WqFlags == {"PAUSE", "PAUSED", "STOP"}

WqQueue == [live : BOOLEAN, q : Seq(WqItem), flags : SUBSET WqFlags, futex : Int,
            pc : WqWorkerPC, batch : Seq(WqItem)]
WqCompletion == [count : Int, futex : Int, ref : Int]
WqThread == [pc : WqUserPC, ret : WqRets, open : BOOLEAN]

(* Every variable has its type.                                            *)
WqTypeOK ==
    /\ wq \in WqQueue
    /\ user_count \in Int
    /\ fork_mutex \in WqThreads \cup {Nobody}
    /\ wcomp \in [WqThreads -> WqCompletion]
    /\ wth \in [WqThreads -> WqThread]
    /\ wq_alive \subseteq WqThreads
    /\ wq_forks \in Nat
    /\ queued \in [WqThreads -> SUBSET Works]

(* What a thread is about, or about to do once it has woken the worker up. *)
WqGoal(t) == IF wth[t].pc \in WqWaking THEN wth[t].ret ELSE wth[t].pc

(* The tables that are open; the last one to close is not counted.         *)
WqUsers == {t \in WqThreads : wth[t].open /\ WqGoal(t) # "join"}

(* The elements of a queue or a batch.                                     *)
WqElements(s) == {s[i] : i \in DOMAIN s}
(* In s, x comes after the elements of S.                                  *)
WqBehind(s, x, S) == \A i, j \in DOMAIN s : s[i] = x /\ s[j] \in S => j < i
WqDistinct(s) == \A i, j \in DOMAIN s : s[i] = s[j] => i = j

(* The completion of t has not been counted down yet.                      *)
WqPending(t) ==
    \/ t \in WqElements(wq.q)
    \/ t \in WqElements(wq.batch) /\ ~ (wq.pc \in WqCompPC /\ t = wq.batch[1])

(* Threads and the fork mutex.                                             *)
WqOwner ==
    \A t \in WqThreads :
        /\ t \notin wq_alive <=> wth[t].pc = "gone"
        /\ fork_mutex = t <=> WqGoal(t) \in WqOwns
        /\ WqGoal(t) \in WqWaits \cup {"comp_put", "fini"} => wth[t].open

(* The worker, and the threads that pause or stop it.                      *)
WqWorker ==
    /\ wq.batch # << >> => wq.pc \in {"run"} \cup WqCompPC
    /\ wq.pc \in WqCompPC => wq.batch # << >> /\ wq.batch[1] \in WqThreads
    /\ ~ wq.live => wq.q = << >> /\ wq.batch = << >> /\ wq.pc = "none"
    /\ "PAUSED" \in wq.flags => wq.pc = "paused"
    /\ \A t \in WqThreads :
          /\ WqGoal(t) = "pausing" => "PAUSE" \in wq.flags
          /\ WqGoal(t) = "fork" /\ wq.live => wq.pc = "paused" /\ "PAUSE" \in wq.flags

(* The users of the queue.                                                 *)
WqCounted ==
    /\ user_count = Cardinality(WqUsers)
    /\ WqUsers # {} => wq.live
    /\ \A t \in WqThreads : WqGoal(t) = "join" => WqUsers = {}
    /\ \A t \in WqThreads : queued[t] # {} => t \in WqUsers

(* What is in the queue and in the batch.                                  *)
WqContents ==
    /\ WqDistinct(wq.q) /\ WqDistinct(wq.batch)
    /\ WqElements(wq.q) \cap WqElements(wq.batch) = {}
    /\ \A w \in Works : w \in WqElements(wq.q) \cup WqElements(wq.batch) <=>
                        \E t \in WqThreads : w \in queued[t]

(* A completion that is to be counted down is waited for, behind the works *)
(* that its thread queued.                                                 *)
WqAwaited(t) ==
    /\ WqPending(t) =>
          /\ wcomp[t].count = 1
          /\ t \in WqUsers
          /\ t \in wq_alive => WqGoal(t) \in WqWaits
          /\ WqBehind(wq.q, t, queued[t])
          /\ WqBehind(wq.batch, t, queued[t])
          /\ t \in WqElements(wq.batch) => \A w \in queued[t] : w \notin WqElements(wq.q)
    /\ WqGoal(t) \in WqWaits \cup {"comp_put", "fini", "join"} /\ ~ WqPending(t) => queued[t] = {}
WqFlushes == \A t \in WqThreads : WqAwaited(t)

(* The references to a completion.                                         *)
WqFlushing(t) == WqGoal(t) \in WqWaits \cup {"comp_put"}
WqReferred(t) ==
    LET listed == t \in WqElements(wq.q) \cup WqElements(wq.batch)
    IN  /\ listed \/ WqFlushing(t) => wcomp[t].ref >= 1
        /\ listed /\ WqFlushing(t) => wcomp[t].ref >= 2
WqRefs == \A t \in WqThreads : WqReferred(t)

(* The inductive invariant of the work queue.                              *)
WqIInv ==
    /\ WqTypeOK /\ WqOwner /\ WqWorker /\ WqCounted /\ WqContents /\ WqFlushes /\ WqRefs

(* An item at the end of a queue.                                          *)
LEMMA WqAppendFacts ==
    ASSUME NEW T, NEW s \in Seq(T), NEW x \in T
    PROVE  /\ Append(s, x) \in Seq(T) /\ Len(s) \in Nat /\ DOMAIN s = 1 .. Len(s)
           /\ DOMAIN Append(s, x) = 1 .. Len(s) + 1 /\ Append(s, x)[Len(s) + 1] = x
           /\ \A i \in 1 .. Len(s) : Append(s, x)[i] = s[i]
OBVIOUS

(* The elements of a queue with one more item.                             *)
LEMMA WqAppendElements ==
    ASSUME NEW T, NEW s \in Seq(T), NEW x \in T
    PROVE  WqElements(Append(s, x)) = WqElements(s) \cup {x}
<1> DEFINE c == Append(s, x)
<1>1. /\ Len(s) \in Nat /\ DOMAIN s = 1 .. Len(s) /\ DOMAIN c = 1 .. Len(s) + 1
      /\ c[Len(s) + 1] = x /\ \A i \in 1 .. Len(s) : c[i] = s[i]
  BY WqAppendFacts
<1> HIDE DEF c
<1>2. \A i \in DOMAIN c : c[i] \in WqElements(s) \cup {x}
  BY <1>1 DEF WqElements
<1>3. \A i \in DOMAIN s : s[i] \in WqElements(c)
  BY <1>1 DEF WqElements
<1>4. x \in WqElements(c)
  BY <1>1 DEF WqElements
<1>5. WqElements(c) = WqElements(s) \cup {x}
  BY <1>2, <1>3, <1>4 DEF WqElements
<1> QED BY <1>5 DEF c

(* A new item leaves a queue without repetitions.                          *)
LEMMA WqAppendDistinct ==
    ASSUME NEW T, NEW s \in Seq(T), NEW x \in T, WqDistinct(s), x \notin WqElements(s)
    PROVE  WqDistinct(Append(s, x))
<1> DEFINE c == Append(s, x)
<1>1. /\ Len(s) \in Nat /\ DOMAIN s = 1 .. Len(s) /\ DOMAIN c = 1 .. Len(s) + 1
      /\ c[Len(s) + 1] = x /\ \A i \in 1 .. Len(s) : c[i] = s[i]
  BY WqAppendFacts
<1> HIDE DEF c
<1>2. \A i \in 1 .. Len(s) : c[i] # x
  BY <1>1 DEF WqElements
<1>3. \A i \in DOMAIN c : i \in 1 .. Len(s) \/ i = Len(s) + 1
  BY <1>1
<1>4. WqDistinct(c)
  BY <1>1, <1>2, <1>3 DEF WqDistinct
<1> QED BY <1>4 DEF c

(* An item at the end comes after all others, and puts no work behind a    *)
(* completion that it does not belong to.                                  *)
LEMMA WqAppendBehind ==
    ASSUME NEW T, NEW s \in Seq(T), NEW y \in T, NEW x, NEW S, x \notin S,
           x \notin WqElements(s) \/ (WqBehind(s, x, S) /\ y # x /\ y \notin S)
    PROVE  WqBehind(Append(s, y), x, S)
<1> DEFINE c == Append(s, y)
<1>1. /\ Len(s) \in Nat /\ DOMAIN s = 1 .. Len(s) /\ DOMAIN c = 1 .. Len(s) + 1
      /\ c[Len(s) + 1] = y /\ \A i \in 1 .. Len(s) : c[i] = s[i]
  BY WqAppendFacts
<1> HIDE DEF c
<1>2. \A i \in DOMAIN c : i \in 1 .. Len(s) \/ i = Len(s) + 1
  BY <1>1
<1>3. ASSUME NEW i \in DOMAIN c, NEW j \in DOMAIN c, c[i] = x, c[j] \in S
      PROVE  j < i
  <2>1. CASE i \in 1 .. Len(s)
    <3>1. x \in WqElements(s)
      BY <1>1, <1>3, <2>1 DEF WqElements
    <3>2. j \in 1 .. Len(s)
      BY <1>1, <1>2, <1>3, <3>1
    <3> QED BY <1>1, <1>3, <2>1, <3>1, <3>2 DEF WqBehind
  <2>2. CASE i = Len(s) + 1
    <3>1. j # i
      BY <1>3
    <3> QED BY <1>1, <1>2, <2>2, <3>1
  <2> QED BY <1>2, <2>1, <2>2
<1>4. WqBehind(c, x, S)
  BY <1>3 DEF WqBehind
<1> QED BY <1>4 DEF c

(* A batch without its first item.                                         *)
LEMMA WqTailFacts ==
    ASSUME NEW T, NEW s \in Seq(T), s # << >>
    PROVE  /\ Tail(s) \in Seq(T) /\ Head(s) = s[1] /\ s[1] \in T /\ 1 \in DOMAIN s
           /\ Len(s) \in Nat \ {0} /\ DOMAIN s = 1 .. Len(s)
           /\ DOMAIN Tail(s) = 1 .. Len(s) - 1
           /\ \A i \in 1 .. Len(s) - 1 : Tail(s)[i] = s[i + 1]
<1>1. Len(s) \in Nat \ {0} /\ DOMAIN s = 1 .. Len(s)
  OBVIOUS
<1>2. Tail(s) \in Seq(T) /\ Len(Tail(s)) = Len(s) - 1
  BY <1>1
<1>3. \A i \in 1 .. Len(s) - 1 : Tail(s)[i] = s[i + 1]
  BY <1>1
<1> QED BY <1>1, <1>2, <1>3

(* The elements of a batch without its first item.                         *)
LEMMA WqTailElements ==
    ASSUME NEW T, NEW s \in Seq(T), s # << >>
    PROVE  WqElements(s) = WqElements(Tail(s)) \cup {s[1]}
<1> DEFINE c == Tail(s)
<1>1. /\ Len(s) \in Nat \ {0} /\ DOMAIN s = 1 .. Len(s) /\ DOMAIN c = 1 .. Len(s) - 1
      /\ \A i \in 1 .. Len(s) - 1 : c[i] = s[i + 1]
  BY WqTailFacts
<1> HIDE DEF c
<1>2. ASSUME NEW i \in DOMAIN s PROVE s[i] \in WqElements(c) \cup {s[1]}
  <2>1. CASE i # 1
    <3>1. i - 1 \in DOMAIN c /\ (i - 1) + 1 = i
      BY <1>1, <2>1
    <3> QED BY <1>1, <3>1 DEF WqElements
  <2> QED BY <2>1
<1>3. ASSUME NEW i \in DOMAIN c PROVE c[i] \in WqElements(s)
  <2>1. i + 1 \in DOMAIN s /\ c[i] = s[i + 1]
    BY <1>1
  <2> QED BY <2>1 DEF WqElements
<1>4. s[1] \in WqElements(s)
  BY <1>1 DEF WqElements
<1>5. WqElements(s) = WqElements(c) \cup {s[1]}
  BY <1>2, <1>3, <1>4 DEF WqElements
<1> QED BY <1>5 DEF c

(* Without its first item a batch has no repetitions and that item no      *)
(* more.                                                                   *)
LEMMA WqTailDistinct ==
    ASSUME NEW T, NEW s \in Seq(T), s # << >>, WqDistinct(s)
    PROVE  WqDistinct(Tail(s)) /\ s[1] \notin WqElements(Tail(s))
<1> DEFINE c == Tail(s)
<1>1. /\ Len(s) \in Nat \ {0} /\ DOMAIN s = 1 .. Len(s) /\ DOMAIN c = 1 .. Len(s) - 1
      /\ \A i \in 1 .. Len(s) - 1 : c[i] = s[i + 1]
  BY WqTailFacts
<1> HIDE DEF c
<1>2. \A i \in DOMAIN c : i + 1 \in DOMAIN s /\ c[i] = s[i + 1] /\ i \in Nat \ {0}
  BY <1>1
<1>3. ASSUME NEW i \in DOMAIN c, NEW j \in DOMAIN c, c[i] = c[j] PROVE i = j
  <2>1. i + 1 = j + 1
    BY <1>2, <1>3 DEF WqDistinct
  <2> QED BY <1>2, <2>1
<1>4. ASSUME NEW i \in DOMAIN c PROVE c[i] # s[1]
  <2>1. i + 1 # 1 /\ 1 \in DOMAIN s
    BY <1>1, <1>2
  <2> QED BY <1>2, <2>1 DEF WqDistinct
<1>5. WqDistinct(c) /\ s[1] \notin WqElements(c)
  BY <1>3, <1>4 DEF WqDistinct, WqElements
<1> QED BY <1>5 DEF c

(* The order of the rest of a batch is that of the batch.                  *)
LEMMA WqTailBehind ==
    ASSUME NEW T, NEW s \in Seq(T), s # << >>, NEW x, NEW S, WqBehind(s, x, S)
    PROVE  WqBehind(Tail(s), x, S)
<1> DEFINE c == Tail(s)
<1>1. /\ Len(s) \in Nat \ {0} /\ DOMAIN s = 1 .. Len(s) /\ DOMAIN c = 1 .. Len(s) - 1
      /\ \A i \in 1 .. Len(s) - 1 : c[i] = s[i + 1]
  BY WqTailFacts
<1> HIDE DEF c
<1>2. \A i \in DOMAIN c : i + 1 \in DOMAIN s /\ c[i] = s[i + 1] /\ i \in Nat
  BY <1>1
<1>3. ASSUME NEW i \in DOMAIN c, NEW j \in DOMAIN c, c[i] = x, c[j] \in S PROVE j < i
  <2>1. j + 1 < i + 1
    BY <1>2, <1>3 DEF WqBehind
  <2> QED BY <1>2, <2>1
<1>4. WqBehind(c, x, S)
  BY <1>3 DEF WqBehind
<1> QED BY <1>4 DEF c

(* When a completion is the first item, no work it waits for is left.      *)
LEMMA WqFirstBehind ==
    ASSUME NEW T, NEW s \in Seq(T), s # << >>, NEW S, WqBehind(s, s[1], S)
    PROVE  \A x \in S : x \notin WqElements(s)
<1>1. 1 \in DOMAIN s /\ \A j \in DOMAIN s : j >= 1
  BY WqTailFacts
<1> QED BY <1>1 DEF WqBehind, WqElements

(* What comes after some works comes after fewer of them.                  *)
LEMMA WqFewerBehind ==
    ASSUME NEW s, NEW x, NEW S, NEW S2 \in SUBSET S, WqBehind(s, x, S)
    PROVE  WqBehind(s, x, S2)
BY DEF WqBehind

(* The empty queue.                                                        *)
LEMMA WqEmptyFacts ==
    /\ WqElements(<< >>) = {} /\ WqDistinct(<< >>)
    /\ \A x, S : WqBehind(<< >>, x, S)
BY DEF WqElements, WqDistinct, WqBehind

(* The elements of a queue are works and completions.                      *)
LEMMA WqElementsType == \A s \in Seq(WqItem) : WqElements(s) \subseteq WqItem
BY DEF WqElements

(* The users of the queue are finitely many, and can be counted.           *)
LEMMA WqUsersFinite ==
    /\ IsFiniteSet(WqUsers) /\ Cardinality(WqUsers) \in Nat
    /\ Cardinality(WqUsers) = 0 <=> WqUsers = {}
    /\ \A t \in WqUsers : Cardinality(WqUsers) = 1 => WqUsers = {t}
    /\ \A t : t \notin WqUsers => Cardinality(WqUsers \cup {t}) = Cardinality(WqUsers) + 1
    /\ \A t \in WqUsers : Cardinality(WqUsers \ {t}) = Cardinality(WqUsers) - 1
<1>1. IsFiniteSet(WqUsers)
  BY FS_Subset, WorkqueueAssumption DEF WqUsers
<1>2. Cardinality(WqUsers) \in Nat /\ (Cardinality(WqUsers) = 0 <=> WqUsers = {})
  BY <1>1, FS_CardinalityType, FS_EmptySet
<1>3. ASSUME NEW t \in WqUsers, Cardinality(WqUsers) = 1
      PROVE  WqUsers = {t}
  BY <1>1, <1>3, FS_Singleton
<1>4. ASSUME NEW t, t \notin WqUsers
      PROVE  Cardinality(WqUsers \cup {t}) = Cardinality(WqUsers) + 1
  BY <1>1, <1>4, FS_AddElement
<1>5. ASSUME NEW t \in WqUsers
      PROVE  Cardinality(WqUsers \ {t}) = Cardinality(WqUsers) - 1
  BY <1>1, <1>5, FS_RemoveElement
<1> QED BY <1>1, <1>2, <1>3, <1>4, <1>5

(* A step that leaves the works, the completions and the users as they     *)
(* are: only the worker, or a thread on its way, moves on.                 *)
WqQuietStep ==
    /\ wq'.live = wq.live /\ wq'.q = wq.q /\ wq'.batch = wq.batch
    /\ wq'.pc \in WqCompPC <=> wq.pc \in WqCompPC
    /\ UNCHANGED <<user_count, wq_alive, queued>>
    /\ \A u \in WqThreads :
          /\ wth'[u].open = wth[u].open
          /\ wcomp'[u].count = wcomp[u].count /\ wcomp'[u].ref = wcomp[u].ref
          /\ WqGoal(u)' \in WqWaits <=> WqGoal(u) \in WqWaits
          /\ \A g \in {"comp_put", "fini", "join"} : WqGoal(u)' = g <=> WqGoal(u) = g

(* A quiet step keeps what the invariant says of works, completions and    *)
(* users.                                                                  *)
LEMMA WqQuiet ==
    ASSUME WqIInv, WqQuietStep
    PROVE  WqCounted' /\ WqContents' /\ WqFlushes' /\ WqRefs'
<1>1. WqUsers' = WqUsers
  BY DEF WqQuietStep, WqUsers
<1>2. \A u \in WqThreads : WqPending(u)' <=> WqPending(u)
  BY DEF WqQuietStep, WqPending
<1>3. WqCounted'
  BY <1>1 DEF WqIInv, WqQuietStep, WqCounted
<1>4. WqContents'
  BY DEF WqIInv, WqQuietStep, WqContents
<1>5. WqFlushes'
  BY <1>1, <1>2 DEF WqIInv, WqQuietStep, WqFlushes, WqAwaited
<1>6. WqRefs'
  BY DEF WqIInv, WqQuietStep, WqRefs, WqReferred, WqFlushing
<1> QED BY <1>3, <1>4, <1>5, <1>6

(* A user that waits for the worker, or is done, keeps the type of the     *)
(* threads' states.                                                        *)
LEMMA WqCallType ==
    ASSUME NEW t \in WqThreads, NEW pc \in WqUserPC, NEW ret \in WqRets,
           wth \in [WqThreads -> WqThread], ucall(t, pc, ret)
    PROVE  wth' \in [WqThreads -> WqThread]
<1>1. [wth[t] EXCEPT !.pc = pc, !.ret = ret] \in WqThread
  BY DEF WqThread
<1>2. wth' = [wth EXCEPT ![t] = [wth[t] EXCEPT !.pc = pc, !.ret = ret]]
  BY DEF ucall
<1> QED BY <1>1, <1>2

(* So does the return of a caller that gives the workqueue up.             *)
LEMMA WqCloseType ==
    ASSUME NEW t \in WqThreads, wth \in [WqThreads -> WqThread], close(t)
    PROVE  wth' \in [WqThreads -> WqThread]
<1>1. [wth[t] EXCEPT !.pc = "idle", !.open = FALSE] \in WqThread
  BY DEF WqThread, WqUserPC
<1>2. wth' = [wth EXCEPT ![t] = [wth[t] EXCEPT !.pc = "idle", !.open = FALSE]]
  BY DEF close
<1> QED BY <1>1, <1>2

(* A flag for the worker keeps the type of the queue.                      *)
LEMMA WqFlagType ==
    ASSUME wq \in WqQueue, NEW flag \in WqFlags, wq' = [wq EXCEPT !.flags = @ \cup {flag}]
    PROVE  wq' \in WqQueue
<1>1. wq.flags \cup {flag} \in SUBSET WqFlags
  BY DEF WqQueue
<1> QED BY <1>1 DEF WqQueue

(* Every step keeps the invariant.                                         *)
LEMMA WqPreserves ==
    ASSUME WqIInv, [WorkqueueNext]_wqvars
    PROVE  WqIInv'
<1>0. WqTypeOK /\ WqOwner /\ WqWorker /\ WqCounted /\ WqContents /\ WqFlushes /\ WqRefs
  BY DEF WqIInv
<1>a. wth \in [WqThreads -> WqThread]
  BY <1>0 DEF WqTypeOK
<1>b. wq \in WqQueue
  BY <1>0 DEF WqTypeOK
<1>c. wcomp \in [WqThreads -> WqCompletion]
  BY <1>0 DEF WqTypeOK
<1>1. ASSUME NEW t \in WqThreads, wake_worker_thread(t)
      PROVE  WqIInv'
  <2>1. /\ \A u \in WqThreads : u # t => wth'[u] = wth[u]
        /\ wth'[t].open = wth[t].open
        /\ t \in wq_alive
        /\ user_count' = user_count /\ fork_mutex' = fork_mutex /\ wq_alive' = wq_alive /\ wq_forks' = wq_forks /\ queued' = queued
        /\ wq' = wq
        /\ wcomp' = wcomp
        /\ wth[t].pc = "wake"
        /\ wth'[t].pc \in {"wake_set", wth[t].ret}
        /\ wth'[t].ret = wth[t].ret
    BY <1>0, <1>1 DEF WqTypeOK, WqThread, WqQueue, WqCompletion,
       wake_worker_thread, uat, ugo, wqrest
  <2>2. \A u \in WqThreads : WqGoal(u)' = WqGoal(u) /\ wth'[u].open = wth[u].open
    BY <1>0, <2>1 DEF WqTypeOK, WqThread, WqGoal, WqRets, WqWaking
  <2>3. WqQuietStep
    BY <2>1, <2>2 DEF WqQuietStep, WqWaits, WqCompPC
  <2>4. WqTypeOK'
    <3>1. wth' \in [WqThreads -> WqThread]
      BY <1>a, <1>1 DEF wake_worker_thread, uat, ugo, WqThread, WqUserPC,
         WqRets, WqWaking, WqWaits, WqOwns
    <3> QED BY <1>0, <2>1, <3>1 DEF WqTypeOK
  <2>5. WqOwner'
    <3>1. wth'[t].pc # "gone"
      BY <1>a, <2>1 DEF WqThread, WqRets
    <3> QED BY <1>0, <2>1, <3>1, <2>2 DEF WqOwner
  <2>6. WqWorker'
    BY <1>0, <2>1, <2>2 DEF WqWorker, WqCompPC
  <2>7. WqCounted' /\ WqContents' /\ WqFlushes' /\ WqRefs'
    BY <2>3, WqQuiet
  <2> QED BY <2>4, <2>5, <2>6, <2>7 DEF WqIInv
<1>2. ASSUME NEW t \in WqThreads, WqWakeSet(t)
      PROVE  WqIInv'
  <2>1. /\ \A u \in WqThreads : u # t => wth'[u] = wth[u]
        /\ wth'[t].open = wth[t].open
        /\ t \in wq_alive
        /\ user_count' = user_count /\ fork_mutex' = fork_mutex /\ wq_alive' = wq_alive /\ wq_forks' = wq_forks /\ queued' = queued
        /\ wcomp' = wcomp
        /\ wq'.live = wq.live /\ wq'.q = wq.q /\ wq'.flags = wq.flags /\ wq'.batch = wq.batch
        /\ wq'.pc = wq.pc
        /\ wth[t].pc = "wake_set"
        /\ wth'[t].pc = "wake_futex"
        /\ wth'[t].ret = wth[t].ret
    BY <1>0, <1>2 DEF WqTypeOK, WqThread, WqQueue, WqCompletion, WqWakeSet,
       uat, ugo, wqrest
  <2>2. \A u \in WqThreads : WqGoal(u)' = WqGoal(u) /\ wth'[u].open = wth[u].open
    BY <1>0, <2>1 DEF WqTypeOK, WqThread, WqGoal, WqRets, WqWaking
  <2>3. WqQuietStep
    BY <2>1, <2>2 DEF WqQuietStep, WqWaits, WqCompPC
  <2>4. WqTypeOK'
    <3>1. wth' \in [WqThreads -> WqThread]
      BY <1>a, <1>2 DEF WqWakeSet, uat, ugo, WqThread, WqUserPC, WqRets,
         WqWaking, WqWaits, WqOwns
    <3>2. wq' \in WqQueue
      <4>1. 0 \in Int
        OBVIOUS
      <4>2. \A z \in Int : [wq EXCEPT !.futex = z] \in WqQueue
        BY <1>b DEF WqQueue
      <4> QED BY <4>1, <4>2, <1>2 DEF WqWakeSet
    <3> QED BY <1>0, <2>1, <3>1, <3>2 DEF WqTypeOK
  <2>5. WqOwner'
    BY <1>0, <2>1, <2>2, WorkqueueAssumption DEF WqOwner, WqWaking, WqWaits,
       WqOwns
  <2>6. WqWorker'
    BY <1>0, <2>1, <2>2 DEF WqWorker, WqCompPC
  <2>7. WqCounted' /\ WqContents' /\ WqFlushes' /\ WqRefs'
    BY <2>3, WqQuiet
  <2> QED BY <2>4, <2>5, <2>6, <2>7 DEF WqIInv
<1>3. ASSUME NEW t \in WqThreads, WqWakeFutex(t)
      PROVE  WqIInv'
  <2>1. /\ \A u \in WqThreads : u # t => wth'[u] = wth[u]
        /\ wth'[t].open = wth[t].open
        /\ t \in wq_alive
        /\ user_count' = user_count /\ fork_mutex' = fork_mutex /\ wq_alive' = wq_alive /\ wq_forks' = wq_forks /\ queued' = queued
        /\ wcomp' = wcomp
        /\ wq'.live = wq.live /\ wq'.q = wq.q /\ wq'.flags = wq.flags /\ wq'.batch = wq.batch
        /\ wq'.pc = IF wq.pc = "asleep" THEN "dec" ELSE wq.pc
        /\ wth[t].pc = "wake_futex"
        /\ wth'[t].pc = wth[t].ret
        /\ wth'[t].ret = wth[t].ret
    BY <1>0, <1>3 DEF WqTypeOK, WqThread, WqQueue, WqCompletion, WqWakeFutex,
       uat, ugo, wqrest
  <2>2. \A u \in WqThreads : WqGoal(u)' = WqGoal(u) /\ wth'[u].open = wth[u].open
    BY <1>0, <2>1 DEF WqTypeOK, WqThread, WqGoal, WqRets, WqWaking
  <2>3. WqQuietStep
    BY <2>1, <2>2 DEF WqQuietStep, WqWaits, WqCompPC
  <2>4. WqTypeOK'
    <3>1. wth' \in [WqThreads -> WqThread]
      BY <1>a, <1>3 DEF WqWakeFutex, uat, ugo, WqThread, WqUserPC, WqRets,
         WqWaking, WqWaits, WqOwns
    <3>2. wq' \in WqQueue
      BY <1>b, <1>3, WorkqueueAssumption DEF WqWakeFutex, uat, ugo, WqQueue,
         wqdec, WqWorkerPC, WqCompPC, WqFlags
    <3> QED BY <1>0, <2>1, <3>1, <3>2 DEF WqTypeOK
  <2>5. WqOwner'
    <3>1. wth'[t].pc # "gone"
      BY <1>a, <2>1 DEF WqThread, WqRets
    <3> QED BY <1>0, <2>1, <3>1, <2>2 DEF WqOwner
  <2>6. WqWorker'
    BY <1>0, <2>1, <2>2 DEF WqWorker, WqCompPC
  <2>7. WqCounted' /\ WqContents' /\ WqFlushes' /\ WqRefs'
    BY <2>3, WqQuiet
  <2> QED BY <2>4, <2>5, <2>6, <2>7 DEF WqIInv
<1>4. ASSUME NEW t \in WqThreads, urcu_workqueue_wait_completion(t)
      PROVE  WqIInv'
  <2>1. /\ \A u \in WqThreads : u # t => wth'[u] = wth[u]
        /\ wth'[t].open = wth[t].open
        /\ t \in wq_alive
        /\ user_count' = user_count /\ fork_mutex' = fork_mutex /\ wq_alive' = wq_alive /\ wq_forks' = wq_forks /\ queued' = queued
        /\ wq' = wq
        /\ \A u \in WqThreads : wcomp'[u].count = wcomp[u].count /\ wcomp'[u].ref = wcomp[u].ref
        /\ wth[t].pc = "comp_dec"
        /\ wth'[t].pc = "comp_count"
    BY <1>0, <1>4 DEF WqTypeOK, WqThread, WqQueue, WqCompletion,
       urcu_workqueue_wait_completion, uat, ugo, wqrest
  <2>2. WqGoal(t) = "comp_dec" /\ WqGoal(t)' = "comp_count" /\ \A u \in WqThreads : u # t => WqGoal(u)' = WqGoal(u)
    BY <1>0, <2>1 DEF WqTypeOK, WqThread, WqGoal, WqRets, WqWaking
  <2>3. WqQuietStep
    BY <2>1, <2>2 DEF WqQuietStep, WqWaits, WqCompPC
  <2>4. WqTypeOK'
    <3>1. wth' \in [WqThreads -> WqThread]
      BY <1>a, <1>4 DEF urcu_workqueue_wait_completion, uat, ugo, WqThread,
         WqUserPC, WqRets, WqWaking, WqWaits, WqOwns
    <3>2. wcomp' \in [WqThreads -> WqCompletion]
      <4>1. wqdec(wcomp[t].futex) \in Int
        BY <1>c, WorkqueueAssumption DEF WqCompletion, wqdec
      <4> QED BY <1>c, <4>1, <1>4 DEF urcu_workqueue_wait_completion, WqCompletion
    <3> QED BY <1>0, <2>1, <3>1, <3>2 DEF WqTypeOK
  <2>5. WqOwner'
    BY <1>0, <2>1, <2>2, WorkqueueAssumption DEF WqOwner, WqWaking, WqWaits,
       WqOwns
  <2>6. WqWorker'
    BY <1>0, <2>1, <2>2 DEF WqWorker, WqCompPC
  <2>7. WqCounted' /\ WqContents' /\ WqFlushes' /\ WqRefs'
    BY <2>3, WqQuiet
  <2> QED BY <2>4, <2>5, <2>6, <2>7 DEF WqIInv
<1>5. ASSUME NEW t \in WqThreads, WqCount(t), wcomp[t].count # 0
      PROVE  WqIInv'
  <2>1. /\ \A u \in WqThreads : u # t => wth'[u] = wth[u]
        /\ wth'[t].open = wth[t].open
        /\ t \in wq_alive
        /\ user_count' = user_count /\ fork_mutex' = fork_mutex /\ wq_alive' = wq_alive /\ wq_forks' = wq_forks /\ queued' = queued
        /\ wq' = wq
        /\ wcomp' = wcomp
        /\ wth[t].pc = "comp_count"
        /\ wth'[t].pc = "comp_wait"
    BY <1>0, <1>5 DEF WqTypeOK, WqThread, WqQueue, WqCompletion, WqCount, uat,
       ugo, wqrest
  <2>2. WqGoal(t) = "comp_count" /\ WqGoal(t)' = "comp_wait" /\ \A u \in WqThreads : u # t => WqGoal(u)' = WqGoal(u)
    BY <1>0, <2>1 DEF WqTypeOK, WqThread, WqGoal, WqRets, WqWaking
  <2>3. WqQuietStep
    BY <2>1, <2>2 DEF WqQuietStep, WqWaits, WqCompPC
  <2>4. WqTypeOK'
    <3>1. wth' \in [WqThreads -> WqThread]
      BY <1>a, <1>5 DEF WqCount, uat, ugo, WqThread, WqUserPC, WqRets,
         WqWaking, WqWaits, WqOwns
    <3> QED BY <1>0, <2>1, <3>1 DEF WqTypeOK
  <2>5. WqOwner'
    BY <1>0, <2>1, <2>2, WorkqueueAssumption DEF WqOwner, WqWaking, WqWaits,
       WqOwns
  <2>6. WqWorker'
    BY <1>0, <2>1, <2>2 DEF WqWorker, WqCompPC
  <2>7. WqCounted' /\ WqContents' /\ WqFlushes' /\ WqRefs'
    BY <2>3, WqQuiet
  <2> QED BY <2>4, <2>5, <2>6, <2>7 DEF WqIInv
<1>6. ASSUME NEW t \in WqThreads, WqCount(t), wcomp[t].count = 0
      PROVE  WqIInv'
  <2>1. /\ \A u \in WqThreads : u # t => wth'[u] = wth[u]
        /\ wth'[t].open = wth[t].open
        /\ t \in wq_alive
        /\ user_count' = user_count /\ fork_mutex' = fork_mutex /\ wq_alive' = wq_alive /\ wq_forks' = wq_forks /\ queued' = queued
        /\ wq' = wq
        /\ wcomp' = wcomp
        /\ wth[t].pc = "comp_count"
        /\ wth'[t].pc = "comp_put"
        /\ wcomp[t].count = 0
    BY <1>0, <1>6 DEF WqTypeOK, WqThread, WqQueue, WqCompletion, WqCount, uat,
       ugo, wqrest
  <2>2. WqGoal(t) = "comp_count" /\ WqGoal(t)' = "comp_put" /\ \A u \in WqThreads : u # t => WqGoal(u)' = WqGoal(u)
    BY <1>0, <2>1 DEF WqTypeOK, WqThread, WqGoal, WqRets, WqWaking
  <2>3. WqUsers' = WqUsers
    BY <1>0, <2>1, <2>2 DEF WqUsers
  <2>4. \A u \in WqThreads : WqPending(u)' <=> WqPending(u)
    BY <1>0, <2>1 DEF WqPending, WqCompPC
  <2>5. WqTypeOK'
    <3>1. wth' \in [WqThreads -> WqThread]
      BY <1>a, <1>6 DEF WqCount, uat, ugo, WqThread, WqUserPC, WqRets,
         WqWaking, WqWaits, WqOwns
    <3> QED BY <1>0, <2>1, <3>1 DEF WqTypeOK
  <2>6. WqOwner'
    BY <1>0, <2>1, <2>2, WorkqueueAssumption DEF WqOwner, WqWaking, WqWaits,
       WqOwns
  <2>7. WqWorker'
    BY <1>0, <2>1, <2>2 DEF WqWorker, WqCompPC
  <2>8. WqCounted'
    BY <1>0, <2>1, <2>2, <2>3 DEF WqCounted
  <2>9. WqContents'
    BY <1>0, <2>1 DEF WqContents
  <2>10. WqFlushes'
    <3>1. ASSUME NEW u \in WqThreads PROVE WqAwaited(u)'
      BY <1>0, <2>1, <2>2, <2>3, <2>4 DEF WqFlushes, WqAwaited, WqWaits
    <3> QED BY <3>1 DEF WqFlushes
  <2>11. WqRefs'
    <3>1. ASSUME NEW u \in WqThreads PROVE WqReferred(u)'
      BY <1>0, <2>1, <2>2 DEF WqRefs, WqReferred, WqFlushing, WqWaits
    <3> QED BY <3>1 DEF WqRefs
  <2> QED BY <2>5, <2>6, <2>7, <2>8, <2>9, <2>10, <2>11 DEF WqIInv
<1>7. ASSUME NEW t \in WqThreads, futex_wait_completion(t)
      PROVE  WqIInv'
  <2>1. /\ \A u \in WqThreads : u # t => wth'[u] = wth[u]
        /\ wth'[t].open = wth[t].open
        /\ t \in wq_alive
        /\ user_count' = user_count /\ fork_mutex' = fork_mutex /\ wq_alive' = wq_alive /\ wq_forks' = wq_forks /\ queued' = queued
        /\ wq' = wq
        /\ wcomp' = wcomp
        /\ wth[t].pc = "comp_wait"
        /\ wth'[t].pc \in {"comp_futex", "comp_dec"}
    BY <1>0, <1>7 DEF WqTypeOK, WqThread, WqQueue, WqCompletion,
       futex_wait_completion, uat, ugo, wqrest
  <2>2. WqGoal(t) = "comp_wait" /\ WqGoal(t)' \in {"comp_futex", "comp_dec"} /\ \A u \in WqThreads : u # t => WqGoal(u)' = WqGoal(u)
    BY <1>0, <2>1 DEF WqTypeOK, WqThread, WqGoal, WqRets, WqWaking
  <2>3. WqQuietStep
    BY <2>1, <2>2 DEF WqQuietStep, WqWaits, WqCompPC
  <2>4. WqTypeOK'
    <3>1. wth' \in [WqThreads -> WqThread]
      BY <1>a, <1>7 DEF futex_wait_completion, uat, ugo, WqThread, WqUserPC,
         WqRets, WqWaking, WqWaits, WqOwns
    <3> QED BY <1>0, <2>1, <3>1 DEF WqTypeOK
  <2>5. WqOwner'
    BY <1>0, <2>1, <2>2, WorkqueueAssumption DEF WqOwner, WqWaking, WqWaits,
       WqOwns
  <2>6. WqWorker'
    BY <1>0, <2>1, <2>2 DEF WqWorker, WqCompPC
  <2>7. WqCounted' /\ WqContents' /\ WqFlushes' /\ WqRefs'
    BY <2>3, WqQuiet
  <2> QED BY <2>4, <2>5, <2>6, <2>7 DEF WqIInv
<1>8. ASSUME NEW t \in WqThreads, WqCompletionFutexWait(t)
      PROVE  WqIInv'
  <2>1. /\ \A u \in WqThreads : u # t => wth'[u] = wth[u]
        /\ wth'[t].open = wth[t].open
        /\ t \in wq_alive
        /\ user_count' = user_count /\ fork_mutex' = fork_mutex /\ wq_alive' = wq_alive /\ wq_forks' = wq_forks /\ queued' = queued
        /\ wq' = wq
        /\ wcomp' = wcomp
        /\ wth[t].pc = "comp_futex"
        /\ wth'[t].pc \in {"comp_asleep", "comp_dec"}
    BY <1>0, <1>8 DEF WqTypeOK, WqThread, WqQueue, WqCompletion,
       WqCompletionFutexWait, uat, ugo, wqrest
  <2>2. WqGoal(t) = "comp_futex" /\ WqGoal(t)' \in {"comp_asleep", "comp_dec"} /\ \A u \in WqThreads : u # t => WqGoal(u)' = WqGoal(u)
    BY <1>0, <2>1 DEF WqTypeOK, WqThread, WqGoal, WqRets, WqWaking
  <2>3. WqQuietStep
    BY <2>1, <2>2 DEF WqQuietStep, WqWaits, WqCompPC
  <2>4. WqTypeOK'
    <3>1. wth' \in [WqThreads -> WqThread]
      BY <1>a, <1>8 DEF WqCompletionFutexWait, uat, ugo, WqThread, WqUserPC,
         WqRets, WqWaking, WqWaits, WqOwns
    <3> QED BY <1>0, <2>1, <3>1 DEF WqTypeOK
  <2>5. WqOwner'
    BY <1>0, <2>1, <2>2, WorkqueueAssumption DEF WqOwner, WqWaking, WqWaits,
       WqOwns
  <2>6. WqWorker'
    BY <1>0, <2>1, <2>2 DEF WqWorker, WqCompPC
  <2>7. WqCounted' /\ WqContents' /\ WqFlushes' /\ WqRefs'
    BY <2>3, WqQuiet
  <2> QED BY <2>4, <2>5, <2>6, <2>7 DEF WqIInv
<1>9. ASSUME NEW t \in WqThreads, WqPaused(t)
      PROVE  WqIInv'
  <2>1. /\ \A u \in WqThreads : u # t => wth'[u] = wth[u]
        /\ wth'[t].open = wth[t].open
        /\ t \in wq_alive
        /\ user_count' = user_count /\ fork_mutex' = fork_mutex /\ wq_alive' = wq_alive /\ wq_forks' = wq_forks /\ queued' = queued
        /\ wq' = wq
        /\ wcomp' = wcomp
        /\ wth[t].pc = "pausing"
        /\ wth'[t].pc = "fork"
        /\ "PAUSED" \in wq.flags
    BY <1>0, <1>9 DEF WqTypeOK, WqThread, WqQueue, WqCompletion, WqPaused,
       WorkerPaused, uat, ugo, wqrest
  <2>2. WqGoal(t) = "pausing" /\ WqGoal(t)' = "fork" /\ \A u \in WqThreads : u # t => WqGoal(u)' = WqGoal(u)
    BY <1>0, <2>1 DEF WqTypeOK, WqThread, WqGoal, WqRets, WqWaking
  <2>3. WqQuietStep
    BY <2>1, <2>2 DEF WqQuietStep, WqWaits, WqCompPC
  <2>4. WqTypeOK'
    <3>1. wth' \in [WqThreads -> WqThread]
      BY <1>a, <1>9 DEF WqPaused, WorkerPaused, uat, ugo, WqThread, WqUserPC,
         WqRets, WqWaking, WqWaits, WqOwns
    <3> QED BY <1>0, <2>1, <3>1 DEF WqTypeOK
  <2>5. WqOwner'
    BY <1>0, <2>1, <2>2, WorkqueueAssumption DEF WqOwner, WqWaking, WqWaits,
       WqOwns
  <2>6. WqWorker'
    BY <1>0, <2>1, <2>2 DEF WqWorker, WqCompPC
  <2>7. WqCounted' /\ WqContents' /\ WqFlushes' /\ WqRefs'
    BY <2>3, WqQuiet
  <2> QED BY <2>4, <2>5, <2>6, <2>7 DEF WqIInv
<1>10. ASSUME NEW t \in WqThreads, urcu_workqueue_destroy_completion(t)
      PROVE  WqIInv'
  <2>1. /\ \A u \in WqThreads : u # t => wth'[u] = wth[u]
        /\ wth'[t].open = wth[t].open
        /\ t \in wq_alive
        /\ user_count' = user_count /\ fork_mutex' = fork_mutex /\ wq_alive' = wq_alive /\ wq_forks' = wq_forks /\ queued' = queued
        /\ wq' = wq
        /\ wth[t].pc = "comp_put"
        /\ wth'[t].pc = "fini"
        /\ \A u \in WqThreads : wcomp'[u].count = wcomp[u].count /\ wcomp'[u].ref = IF u = t THEN wcomp[u].ref - 1 ELSE wcomp[u].ref
    BY <1>0, <1>10 DEF WqTypeOK, WqThread, WqQueue, WqCompletion,
       urcu_workqueue_destroy_completion, uat, ugo, wqrest
  <2>2. WqGoal(t) = "comp_put" /\ WqGoal(t)' = "fini" /\ \A u \in WqThreads : u # t => WqGoal(u)' = WqGoal(u)
    BY <1>0, <2>1 DEF WqTypeOK, WqThread, WqGoal, WqRets, WqWaking
  <2>3. WqUsers' = WqUsers
    BY <1>0, <2>1, <2>2 DEF WqUsers
  <2>4. \A u \in WqThreads : WqPending(u)' <=> WqPending(u)
    BY <1>0, <2>1 DEF WqPending, WqCompPC
  <2>5. WqTypeOK'
    <3>1. wth' \in [WqThreads -> WqThread]
      BY <1>a, <1>10 DEF urcu_workqueue_destroy_completion, uat, ugo,
         WqThread, WqUserPC, WqRets, WqWaking, WqWaits, WqOwns
    <3>2. wcomp' \in [WqThreads -> WqCompletion]
      BY <1>c, <1>10, WorkqueueAssumption DEF
         urcu_workqueue_destroy_completion, uat, ugo, WqCompletion, wqdec
    <3> QED BY <1>0, <2>1, <3>1, <3>2 DEF WqTypeOK
  <2>6. WqOwner'
    BY <1>0, <2>1, <2>2, WorkqueueAssumption DEF WqOwner, WqWaking, WqWaits,
       WqOwns
  <2>7. WqWorker'
    BY <1>0, <2>1, <2>2 DEF WqWorker, WqCompPC
  <2>8. WqCounted'
    BY <1>0, <2>1, <2>2, <2>3 DEF WqCounted
  <2>9. WqContents'
    BY <1>0, <2>1 DEF WqContents
  <2>10. WqFlushes'
    <3>1. ASSUME NEW u \in WqThreads PROVE WqAwaited(u)'
      BY <1>0, <2>1, <2>2, <2>3, <2>4 DEF WqFlushes, WqAwaited, WqWaits
    <3> QED BY <3>1 DEF WqFlushes
  <2>11. WqRefs'
    <3>1. ASSUME NEW u \in WqThreads PROVE WqReferred(u)'
      <4>0. wcomp[u].ref \in Int
        BY <1>c DEF WqCompletion
      <4>1. CASE u = t
        BY <1>0, <2>1, <4>0, <4>1, <2>2 DEF WqRefs, WqReferred, WqFlushing, WqWaits
      <4>2. CASE u # t
        BY <1>0, <2>1, <4>2, <2>2 DEF WqRefs, WqReferred, WqFlushing
      <4> QED BY <4>1, <4>2
    <3> QED BY <3>1 DEF WqRefs
  <2> QED BY <2>5, <2>6, <2>7, <2>8, <2>9, <2>10, <2>11 DEF WqIInv
<1>11. ASSUME NEW t \in WqThreads, urcu_workqueue_create(t)
      PROVE  WqIInv'
  <2>1. /\ \A u \in WqThreads : u # t => wth'[u] = wth[u]
        /\ t \in wq_alive /\ ~ wth[t].open /\ wth'[t].open
        /\ wth[t].pc = "idle" /\ wth'[t].pc = "idle"
        /\ fork_mutex = Nobody
        /\ user_count' = user_count + 1
        /\ fork_mutex' = fork_mutex /\ wcomp' = wcomp /\ wq_alive' = wq_alive /\ wq_forks' = wq_forks /\ queued' = queued
        /\ IF user_count = 0 THEN wq'.live /\ wq'.q = << >> /\ wq'.batch = << >> /\ wq'.pc = "start" /\ wq'.flags = {} ELSE wq' = wq
    BY <1>0, <1>11 DEF WqTypeOK, WqThread, WqQueue, WqCompletion,
       urcu_workqueue_create, NewQueue, NoQueue, uat, wqrest
  <2>2. \A u \in WqThreads : WqGoal(u) \notin WqOwns
    BY <1>0, <2>1, WorkqueueAssumption DEF WqOwner
  <2>3. WqGoal(t) = "idle" /\ WqGoal(t)' = "idle" /\ \A u \in WqThreads : u # t => WqGoal(u)' = WqGoal(u)
    BY <1>0, <2>1 DEF WqTypeOK, WqThread, WqGoal, WqRets, WqWaking
  <2>4. WqUsers' = WqUsers \cup {t} /\ t \notin WqUsers
    BY <1>0, <2>1, <2>2, <2>3 DEF WqUsers
  <2>5. WqTypeOK'
    <3>1. wth' \in [WqThreads -> WqThread]
      BY <1>a, <1>11 DEF urcu_workqueue_create, NewQueue, NoQueue, uat,
         WqThread, WqUserPC, WqRets, WqWaking, WqWaits, WqOwns
    <3>2. wq' \in WqQueue
      <4>1. << >> \in Seq(WqItem) /\ 0 \in Int /\ "none" \in WqWorkerPC /\ "start" \in WqWorkerPC
        BY DEF WqWorkerPC
      <4>2. \A z \in Int : [live |-> FALSE, q |-> << >>, flags |-> {}, futex |-> z, pc |-> "none",
                          batch |-> << >>] \in WqQueue
        BY <4>1 DEF WqQueue
      <4>3. NoQueue \in WqQueue
        BY <4>1, <4>2 DEF NoQueue
      <4>4. NewQueue \in WqQueue
        BY <4>1, <4>3 DEF NewQueue, WqQueue
      <4> QED BY <1>b, <1>11, <4>4 DEF urcu_workqueue_create
    <3> QED BY <1>0, <2>1, <3>1, <3>2, <1>11 DEF WqTypeOK
  <2>6. WqOwner'
    BY <1>0, <2>1, <2>2, <2>3, WorkqueueAssumption DEF WqOwner, WqWaking,
       WqWaits, WqOwns
  <2>7. WqWorker'
    <3>1. CASE user_count = 0
      BY <2>1, <2>2, <3>1, <2>3 DEF WqWorker, WqCompPC, WqOwns
    <3>2. CASE user_count # 0
      BY <1>0, <2>1, <2>2, <3>2, <2>3 DEF WqWorker, WqOwns
    <3> QED BY <3>1, <3>2
  <2>8. WqCounted'
    <3>1. \A u \in WqThreads : WqGoal(u)' # "join"
      BY <2>2, <2>3 DEF WqOwns
    <3>2. wq'.live
      BY <1>0, <2>1, WqUsersFinite DEF WqCounted
    <3>3. user_count' = Cardinality(WqUsers \cup {t})
      BY <1>0, <2>1, <2>4, WqUsersFinite DEF WqCounted
    <3> QED BY <1>0, <2>1, <3>1, <3>2, <3>3, <2>4 DEF WqCounted
  <2>9. WqContents'
    <3>1. CASE user_count = 0
      <4>1. \A u \in WqThreads : queued[u] = {}
        BY <1>0, <3>1, WqUsersFinite DEF WqCounted
      <4> QED BY <2>1, <3>1, <4>1, WqEmptyFacts DEF WqContents
    <3>2. CASE user_count # 0
      BY <1>0, <2>1, <3>2 DEF WqContents
    <3> QED BY <3>1, <3>2
  <2>10. WqFlushes'
    <3>1. CASE user_count = 0
      <4>1. \A u \in WqThreads : queued[u] = {}
        BY <1>0, <3>1, WqUsersFinite DEF WqCounted
      <4>2. \A u \in WqThreads : ~ WqPending(u)'
        BY <2>1, <3>1, WqEmptyFacts DEF WqPending
      <4> QED BY <2>1, <4>1, <4>2 DEF WqFlushes, WqAwaited
    <3>2. CASE user_count # 0
      <4>1. \A u \in WqThreads : WqPending(u)' <=> WqPending(u)
        BY <2>1, <3>2 DEF WqPending
      <4> QED BY <1>0, <2>1, <3>2, <4>1, <2>3, <2>4 DEF WqFlushes, WqAwaited, WqWaits
    <3> QED BY <3>1, <3>2
  <2>11. WqRefs'
    <3>1. \A u \in WqThreads : WqFlushing(u)' <=> WqFlushing(u)
      BY <2>3 DEF WqFlushing, WqWaits
    <3>2. CASE user_count = 0
      BY <1>0, <2>1, <3>1, <3>2, WqEmptyFacts DEF WqRefs, WqReferred
    <3>3. CASE user_count # 0
      BY <1>0, <2>1, <3>1, <3>3 DEF WqRefs, WqReferred
    <3> QED BY <3>2, <3>3
  <2> QED BY <2>5, <2>6, <2>7, <2>8, <2>9, <2>10, <2>11 DEF WqIInv
<1>12. ASSUME NEW t \in WqThreads, NEW w \in Works, urcu_workqueue_queue_work(t, w)
      PROVE  WqIInv'
  <2>1. /\ \A u \in WqThreads : u # t => wth'[u] = wth[u]
        /\ t \in wq_alive /\ wth[t].open /\ wth'[t].open
        /\ wth[t].pc = "idle" /\ wth'[t].pc = "wake" /\ wth'[t].ret = "idle"
        /\ \A u \in WqThreads : w \notin queued[u]
        /\ wq'.live = wq.live /\ wq'.q = Append(wq.q, w) /\ wq'.flags = wq.flags /\ wq'.batch = wq.batch /\ wq'.pc = wq.pc
        /\ \A u \in WqThreads : queued'[u] = IF u = t THEN queued[u] \cup {w} ELSE queued[u]
        /\ user_count' = user_count /\ fork_mutex' = fork_mutex /\ wcomp' = wcomp /\ wq_alive' = wq_alive /\ wq_forks' = wq_forks
    BY <1>0, <1>12 DEF WqTypeOK, WqThread, WqQueue, WqCompletion,
       urcu_workqueue_queue_work, ucall, uat, wqrest
  <2>2. t \in WqUsers /\ wq.live
    BY <1>0, <2>1 DEF WqCounted, WqUsers, WqGoal, WqWaking
  <2>3. WqElements(wq'.q) = WqElements(wq.q) \cup {w} /\ w \notin WqElements(wq.q) \cup WqElements(wq.batch) /\ w \notin WqThreads
    <3>1. wq.q \in Seq(WqItem) /\ w \in WqItem
      BY <1>b DEF WqQueue, WqItem
    <3>2. w \notin WqElements(wq.q) \cup WqElements(wq.batch)
      BY <1>0, <2>1 DEF WqContents
    <3>3. WqElements(Append(wq.q, w)) = WqElements(wq.q) \cup {w}
      BY <3>1, WqAppendElements
    <3> QED BY <2>1, <3>2, <3>3, WorkqueueAssumption
  <2>4. WqDistinct(wq'.q) /\ wq'.q \in Seq(WqItem) /\ wq.q \in Seq(WqItem) /\ w \in WqItem
    BY <1>0, <2>1, <2>3, WqAppendDistinct, WqAppendFacts DEF WqTypeOK,
       WqQueue, WqItem, WqContents
  <2>5. WqGoal(t) = "idle" /\ WqGoal(t)' = "idle" /\ \A u \in WqThreads : u # t => WqGoal(u)' = WqGoal(u)
    BY <1>0, <2>1 DEF WqTypeOK, WqThread, WqGoal, WqRets, WqWaking
  <2>6. WqUsers' = WqUsers
    BY <1>0, <2>1, <2>2, <2>3, <2>4, <2>5 DEF WqUsers
  <2>7. \A u \in WqThreads : WqPending(u)' <=> WqPending(u)
    BY <1>0, <2>1, <2>2, <2>3, <2>4 DEF WqPending, WqCompPC
  <2>8. WqTypeOK'
    <3>1. wth' \in [WqThreads -> WqThread]
      <4>1. ucall(t, "wake", "idle")
        BY <1>12 DEF urcu_workqueue_queue_work
      <4> QED BY <1>a, <4>1, WqCallType DEF WqUserPC, WqRets, WqWaking
    <3>2. wq' \in WqQueue
      BY <1>b, <2>4, <1>12 DEF urcu_workqueue_queue_work, WqQueue
    <3> QED BY <1>0, <2>1, <3>1, <3>2, <1>12 DEF WqTypeOK, urcu_workqueue_queue_work,
       ucall, uat, wqrest
  <2>9. WqOwner'
    BY <1>0, <2>1, <2>2, <2>3, <2>4, <2>5, WorkqueueAssumption DEF WqOwner,
       WqWaking, WqWaits, WqOwns
  <2>10. WqWorker'
    BY <1>0, <2>1, <2>2, <2>5 DEF WqWorker
  <2>11. WqCounted'
    BY <1>0, <2>1, <2>2, <2>5, <2>6 DEF WqCounted
  <2>12. WqContents'
    BY <1>0, <2>1, <2>2, <2>3, <2>4 DEF WqContents
  <2>13. WqFlushes'
    <3>1. ASSUME NEW u \in WqThreads PROVE WqAwaited(u)'
      <4>1. CASE u = t
        BY <1>0, <2>1, <2>5, <2>7, <4>1 DEF WqFlushes, WqAwaited, WqWaits
      <4>2. CASE u # t
        <5>1. u \notin queued[u] /\ queued'[u] = queued[u] /\ w # u /\ w \notin queued[u]
          BY <1>0, <2>1, <4>2, WorkqueueAssumption DEF WqTypeOK
        <5>2. WqBehind(wq.q, u, queued[u]) => WqBehind(wq'.q, u, queued[u])
          BY <2>1, <2>4, <5>1, WqAppendBehind
        <5> QED BY <1>0, <2>1, <2>3, <4>2, <5>1, <5>2, <2>5, <2>6, <2>7 DEF WqFlushes, WqAwaited
      <4> QED BY <4>1, <4>2
    <3> QED BY <3>1 DEF WqFlushes
  <2>14. WqRefs'
    <3>1. ASSUME NEW u \in WqThreads PROVE WqReferred(u)'
      BY <1>0, <2>1, <2>2, <2>3, <2>4, <2>5 DEF WqRefs, WqReferred,
         WqFlushing, WqWaits
    <3> QED BY <3>1 DEF WqRefs
  <2> QED BY <2>8, <2>9, <2>10, <2>11, <2>12, <2>13, <2>14 DEF WqIInv
<1>13. ASSUME NEW t \in WqThreads, urcu_workqueue_queue_completion(t)
      PROVE  WqIInv'
  <2>1. /\ \A u \in WqThreads : u # t => wth'[u] = wth[u]
        /\ t \in wq_alive /\ wth[t].open /\ wth'[t].open
        /\ wth[t].pc = "idle" /\ wth'[t].pc = "wake" /\ wth'[t].ret = "comp_dec"
        /\ wcomp[t].ref = 0
        /\ wq'.live = wq.live /\ wq'.q = Append(wq.q, t) /\ wq'.flags = wq.flags /\ wq'.batch = wq.batch /\ wq'.pc = wq.pc
        /\ wcomp'[t].count = 1 /\ wcomp'[t].ref = 2 /\ \A u \in WqThreads : u # t => wcomp'[u] = wcomp[u]
        /\ user_count' = user_count /\ fork_mutex' = fork_mutex /\ queued' = queued /\ wq_alive' = wq_alive /\ wq_forks' = wq_forks
    BY <1>0, <1>13 DEF WqTypeOK, WqThread, WqQueue, WqCompletion,
       urcu_workqueue_queue_completion, ucall, uat, wqrest, FlushLast
  <2>2. t \notin WqElements(wq.q) \cup WqElements(wq.batch)
    BY <1>0, <2>1 DEF WqRefs, WqReferred
  <2>3. WqElements(wq'.q) = WqElements(wq.q) \cup {t} /\ t \notin Works
    BY <1>0, <2>1, WqAppendElements, WorkqueueAssumption DEF WqTypeOK,
       WqQueue, WqItem
  <2>4. WqDistinct(wq'.q) /\ wq'.q \in Seq(WqItem) /\ wq.q \in Seq(WqItem) /\ t \in WqItem
    BY <1>0, <2>1, <2>2, WqAppendDistinct, WqAppendFacts DEF WqTypeOK,
       WqQueue, WqItem, WqContents
  <2>5. t \in WqUsers /\ wq.live
    BY <1>0, <2>1 DEF WqCounted, WqUsers, WqGoal, WqWaking
  <2>6. WqGoal(t) = "idle" /\ WqGoal(t)' = "comp_dec" /\ \A u \in WqThreads : u # t => WqGoal(u)' = WqGoal(u)
    BY <1>0, <2>1 DEF WqTypeOK, WqThread, WqGoal, WqRets, WqWaking
  <2>7. WqUsers' = WqUsers
    BY <1>0, <2>1, <2>2, <2>3, <2>4, <2>5, <2>6 DEF WqUsers
  <2>8. WqTypeOK'
    <3>1. wth' \in [WqThreads -> WqThread]
      <4>1. ucall(t, "wake", "comp_dec")
        BY <1>13 DEF urcu_workqueue_queue_completion
      <4> QED BY <1>a, <4>1, WqCallType DEF WqUserPC, WqRets, WqWaking
    <3>2. wq' \in WqQueue
      BY <1>b, <2>4, <1>13 DEF urcu_workqueue_queue_completion, FlushLast, WqQueue
    <3>3. wcomp' \in [WqThreads -> WqCompletion]
      BY <1>c, <1>13, WorkqueueAssumption DEF urcu_workqueue_queue_completion,
         ucall, uat, wqrest, FlushLast, WqCompletion, wqdec
    <3> QED BY <1>0, <2>1, <3>1, <3>2, <3>3 DEF WqTypeOK
  <2>9. WqOwner'
    BY <1>0, <2>1, <2>2, <2>3, <2>4, <2>5, <2>6, WorkqueueAssumption DEF
       WqOwner, WqWaking, WqWaits, WqOwns
  <2>10. WqWorker'
    BY <1>0, <2>1, <2>5, <2>6 DEF WqWorker
  <2>11. WqCounted'
    BY <1>0, <2>1, <2>2, <2>3, <2>4, <2>5, <2>6, <2>7 DEF WqCounted
  <2>12. WqContents'
    BY <1>0, <2>1, <2>2, <2>3, <2>4, <2>5 DEF WqContents
  <2>13. WqFlushes'
    <3>1. ASSUME NEW u \in WqThreads PROVE WqAwaited(u)'
      <4>0. u \notin queued[u] /\ queued'[u] = queued[u] /\ t \notin queued[u]
        BY <1>0, <2>1, WorkqueueAssumption DEF WqTypeOK
      <4>1. CASE u = t
        <5>1. WqBehind(wq'.q, t, queued[t])
          BY <2>1, <2>2, <2>4, <4>0, <4>1, WqAppendBehind
        <5>2. WqBehind(wq'.batch, t, queued[t])
          BY <2>1, <2>2 DEF WqBehind, WqElements
        <5>3. WqPending(t)'
          BY <2>3 DEF WqPending
        <5> QED BY <2>1, <2>2, <2>5, <4>1, <5>1, <5>2, <5>3, <2>6, <2>7 DEF WqAwaited, WqWaits
      <4>2. CASE u # t
        <5>1. WqPending(u)' <=> WqPending(u)
          BY <2>1, <2>3, <4>2 DEF WqPending
        <5>2. WqBehind(wq.q, u, queued[u]) => WqBehind(wq'.q, u, queued[u])
          BY <2>1, <2>4, <4>0, <4>2, WqAppendBehind
        <5>3. \A x \in queued[u] : x # t
          BY <4>0
        <5> QED BY <1>0, <2>1, <2>3, <4>0, <4>2, <5>1, <5>2, <5>3, <2>6, <2>7 DEF WqFlushes, WqAwaited
      <4> QED BY <4>1, <4>2
    <3> QED BY <3>1 DEF WqFlushes
  <2>14. WqRefs'
    <3>1. ASSUME NEW u \in WqThreads PROVE WqReferred(u)'
      BY <1>0, <2>1, <2>2, <2>3, <2>4, <2>5, <2>6 DEF WqRefs, WqReferred,
         WqFlushing, WqWaits
    <3> QED BY <3>1 DEF WqRefs
  <2> QED BY <2>8, <2>9, <2>10, <2>11, <2>12, <2>13, <2>14 DEF WqIInv
<1>14. ASSUME NEW t \in WqThreads, cds_lfht_fini_worker(t), user_count = 1
      PROVE  WqIInv'
  <2>1. /\ \A u \in WqThreads : u # t => wth'[u] = wth[u]
        /\ t \in wq_alive
        /\ wth'[t].open = wth[t].open
        /\ wth[t].pc = "fini" /\ wth'[t].pc = "wake" /\ wth'[t].ret = "join"
        /\ fork_mutex = Nobody /\ fork_mutex' = t
        /\ user_count' = 0
        /\ wq'.live = wq.live /\ wq'.q = wq.q /\ wq'.batch = wq.batch /\ wq'.pc = wq.pc /\ wq'.flags = wq.flags \cup {"STOP"}
        /\ wcomp' = wcomp /\ wq_alive' = wq_alive /\ wq_forks' = wq_forks /\ queued' = queued
    BY <1>0, <1>14 DEF WqTypeOK, WqThread, WqQueue, WqCompletion,
       cds_lfht_fini_worker, ucall, uat, wqrest
  <2>2. t \in WqUsers /\ queued[t] = {}
    BY <1>0, <2>1 DEF WqOwner, WqUsers, WqGoal, WqFlushes, WqAwaited,
       WqWaking, WqWaits, WqOwns
  <2>3. WqGoal(t) = "fini" /\ WqGoal(t)' = "join" /\ \A u \in WqThreads : u # t => WqGoal(u)' = WqGoal(u)
    BY <1>0, <2>1 DEF WqTypeOK, WqThread, WqGoal, WqRets, WqWaking
  <2>4. WqUsers' = {} /\ WqUsers = {t}
    <3>1. WqUsers = {t}
      BY <1>0, <1>14, <2>2, WqUsersFinite DEF WqCounted
    <3> QED BY <2>1, <3>1, <2>3 DEF WqUsers
  <2>5. \A u \in WqThreads : WqPending(u)' <=> WqPending(u)
    BY <1>0, <2>1, <2>2 DEF WqPending, WqCompPC
  <2>6. WqTypeOK'
    <3>1. wth' \in [WqThreads -> WqThread]
      <4>1. ucall(t, "wake", "join")
        BY <1>14 DEF cds_lfht_fini_worker
      <4> QED BY <1>a, <4>1, WqCallType DEF WqUserPC, WqRets, WqWaking
    <3>2. wq' \in WqQueue
      <4>1. wq' = [wq EXCEPT !.flags = @ \cup {"STOP"}]
        BY <1>14 DEF cds_lfht_fini_worker
      <4> QED BY <1>b, <4>1, WqFlagType DEF WqFlags
    <3> QED BY <1>0, <2>1, <3>1, <3>2 DEF WqTypeOK
  <2>7. WqOwner'
    BY <1>0, <2>1, <2>2, <2>3, WorkqueueAssumption DEF WqOwner, WqWaking,
       WqWaits, WqOwns
  <2>8. WqWorker'
    BY <1>0, <2>1, <2>2, <2>3 DEF WqWorker, WqCompPC
  <2>9. WqCounted'
    BY <1>0, <2>1, <2>2, <2>3, <2>4, FS_EmptySet DEF WqCounted
  <2>10. WqContents'
    BY <1>0, <2>1, <2>2 DEF WqContents
  <2>11. WqFlushes'
    <3>1. ASSUME NEW u \in WqThreads PROVE WqAwaited(u)'
      BY <1>0, <2>1, <2>2, <2>3, <2>4, <2>5 DEF WqFlushes, WqAwaited, WqWaits
    <3> QED BY <3>1 DEF WqFlushes
  <2>12. WqRefs'
    <3>1. ASSUME NEW u \in WqThreads PROVE WqReferred(u)'
      BY <1>0, <2>1, <2>2, <2>3 DEF WqRefs, WqReferred, WqFlushing, WqWaits
    <3> QED BY <3>1 DEF WqRefs
  <2> QED BY <2>6, <2>7, <2>8, <2>9, <2>10, <2>11, <2>12 DEF WqIInv
<1>15. ASSUME NEW t \in WqThreads, cds_lfht_fini_worker(t), user_count # 1
      PROVE  WqIInv'
  <2>1. /\ \A u \in WqThreads : u # t => wth'[u] = wth[u]
        /\ t \in wq_alive
        /\ wth[t].pc = "fini" /\ wth'[t].pc = "idle" /\ ~ wth'[t].open
        /\ fork_mutex = Nobody
        /\ user_count' = user_count - 1
        /\ wq' = wq /\ fork_mutex' = fork_mutex /\ wcomp' = wcomp /\ wq_alive' = wq_alive /\ wq_forks' = wq_forks /\ queued' = queued
    BY <1>0, <1>15 DEF WqTypeOK, WqThread, WqQueue, WqCompletion,
       cds_lfht_fini_worker, close, uat, wqrest
  <2>2. t \in WqUsers /\ queued[t] = {}
    BY <1>0, <2>1 DEF WqOwner, WqUsers, WqGoal, WqFlushes, WqAwaited,
       WqWaking, WqWaits, WqOwns
  <2>3. WqGoal(t) = "fini" /\ WqGoal(t)' = "idle" /\ \A u \in WqThreads : u # t => WqGoal(u)' = WqGoal(u)
    BY <1>0, <2>1 DEF WqTypeOK, WqThread, WqGoal, WqRets, WqWaking
  <2>4. WqUsers' = WqUsers \ {t} /\ t \in WqUsers
    BY <1>0, <2>1, <2>2, <2>3 DEF WqUsers, WqOwner
  <2>5. \A u \in WqThreads : WqPending(u)' <=> WqPending(u)
    BY <1>0, <2>1, <2>2 DEF WqPending, WqCompPC
  <2>6. WqTypeOK'
    <3>1. wth' \in [WqThreads -> WqThread]
      <4>1. close(t)
        BY <1>15 DEF cds_lfht_fini_worker
      <4> QED BY <1>a, <4>1, WqCloseType
    <3> QED BY <1>0, <2>1, <3>1, <1>15 DEF WqTypeOK
  <2>7. WqOwner'
    BY <1>0, <2>1, <2>2, <2>3, WorkqueueAssumption DEF WqOwner, WqWaking,
       WqWaits, WqOwns
  <2>8. WqWorker'
    BY <1>0, <2>1, <2>2, <2>3 DEF WqWorker, WqCompPC
  <2>9. WqCounted'
    <3>1. user_count' = Cardinality(WqUsers \ {t})
      BY <1>0, <2>1, <2>4, WqUsersFinite DEF WqCounted
    <3>2. \A u \in WqThreads : WqGoal(u)' # "join"
      BY <1>0, <2>2, <2>3 DEF WqCounted
    <3> QED BY <1>0, <2>1, <2>2, <3>1, <3>2, <2>4 DEF WqCounted
  <2>10. WqContents'
    BY <1>0, <2>1, <2>2 DEF WqContents
  <2>11. WqFlushes'
    <3>1. ASSUME NEW u \in WqThreads PROVE WqAwaited(u)'
      BY <1>0, <2>1, <2>2, <2>3, <2>4, <2>5 DEF WqFlushes, WqAwaited, WqWaits
    <3> QED BY <3>1 DEF WqFlushes
  <2>12. WqRefs'
    <3>1. ASSUME NEW u \in WqThreads PROVE WqReferred(u)'
      BY <1>0, <2>1, <2>2, <2>3 DEF WqRefs, WqReferred, WqFlushing, WqWaits
    <3> QED BY <3>1 DEF WqRefs
  <2> QED BY <2>6, <2>7, <2>8, <2>9, <2>10, <2>11, <2>12 DEF WqIInv
<1>16. ASSUME NEW t \in WqThreads, urcu_workqueue_destroy(t)
      PROVE  WqIInv'
  <2>1. /\ \A u \in WqThreads : u # t => wth'[u] = wth[u]
        /\ t \in wq_alive
        /\ wth[t].pc = "join" /\ wth'[t].pc = "idle" /\ ~ wth'[t].open
        /\ fork_mutex' = Nobody
        /\ wq.pc = "none" /\ wq'.q = << >> /\ wq'.batch = << >> /\ wq'.pc = "none" /\ ~ wq'.live /\ wq'.flags = {}
        /\ user_count' = user_count /\ wcomp' = wcomp /\ wq_alive' = wq_alive /\ wq_forks' = wq_forks /\ queued' = queued
    BY <1>0, <1>16 DEF WqTypeOK, WqThread, WqQueue, WqCompletion,
       urcu_workqueue_destroy, close, uat, NoQueue, wqrest
  <2>2. \A u \in WqThreads : u # t => WqGoal(u) \notin WqOwns
    BY <1>0, <2>1 DEF WqOwner, WqGoal, WqWaking, WqWaits, WqOwns
  <2>3. fork_mutex = t
    BY <1>0, <2>1 DEF WqOwner, WqGoal, WqWaking, WqWaits, WqOwns
  <2>4. WqGoal(t) = "join" /\ WqGoal(t)' = "idle" /\ \A u \in WqThreads : u # t => WqGoal(u)' = WqGoal(u)
    BY <1>0, <2>1 DEF WqTypeOK, WqThread, WqGoal, WqRets, WqWaking
  <2>5. WqUsers' = WqUsers /\ WqUsers = {}
    <3>1. WqUsers = {}
      BY <1>0, <2>4 DEF WqCounted
    <3> QED BY <2>1, <3>1, <2>4 DEF WqUsers
  <2>6. WqTypeOK'
    <3>1. wth' \in [WqThreads -> WqThread]
      <4>1. close(t)
        BY <1>16 DEF urcu_workqueue_destroy
      <4> QED BY <1>a, <4>1, WqCloseType
    <3>2. wq' \in WqQueue
      BY <1>b, <1>16, WorkqueueAssumption DEF urcu_workqueue_destroy, close,
         uat, NoQueue, WqQueue, wqdec, WqWorkerPC, WqCompPC, WqFlags
    <3> QED BY <1>0, <2>1, <3>1, <3>2 DEF WqTypeOK
  <2>7. WqOwner'
    BY <1>0, <2>1, <2>2, <2>3, <2>4, WorkqueueAssumption DEF WqOwner,
       WqWaking, WqWaits, WqOwns
  <2>8. WqWorker'
    BY <2>1, <2>2, <2>4 DEF WqWorker, WqCompPC, WqOwns
  <2>9. WqCounted'
    BY <1>0, <2>1, <2>2, <2>3, <2>4, <2>5 DEF WqCounted
  <2>10. WqContents'
    <3>0. \A u \in WqThreads : queued[u] = {}
      BY <1>0, <2>5 DEF WqCounted
    <3> QED BY <2>1, <3>0, WqEmptyFacts DEF WqContents
  <2>11. WqFlushes'
    <3>0. \A u \in WqThreads : queued[u] = {}
      BY <1>0, <2>5 DEF WqCounted
    <3>1. \A u \in WqThreads : ~ WqPending(u)'
      BY <2>1, WqEmptyFacts DEF WqPending
    <3> QED BY <2>1, <3>0, <3>1 DEF WqFlushes, WqAwaited
  <2>12. WqRefs'
    <3>1. \A u \in WqThreads : WqFlushing(u)' => WqFlushing(u)
      BY <2>4 DEF WqFlushing, WqWaits
    <3> QED BY <1>0, <2>1, <3>1, WqEmptyFacts DEF WqRefs, WqReferred
  <2> QED BY <2>6, <2>7, <2>8, <2>9, <2>10, <2>11, <2>12 DEF WqIInv
<1>17. ASSUME NEW t \in WqThreads, urcu_workqueue_pause_worker(t), wq.live
      PROVE  WqIInv'
  <2>1. /\ \A u \in WqThreads : u # t => wth'[u] = wth[u]
        /\ wth'[t].open = wth[t].open
        /\ t \in wq_alive
        /\ wth[t].pc = "idle" /\ wth'[t].pc = "wake" /\ wth'[t].ret = "pausing"
        /\ fork_mutex = Nobody /\ fork_mutex' = t
        /\ wq'.live = wq.live /\ wq'.q = wq.q /\ wq'.batch = wq.batch /\ wq'.pc = wq.pc /\ wq'.flags = wq.flags \cup {"PAUSE"}
        /\ user_count' = user_count /\ wcomp' = wcomp /\ wq_alive' = wq_alive /\ wq_forks' = wq_forks /\ queued' = queued
    <3>1. /\ t \in wq_alive /\ wth[t].pc = "idle" /\ fork_mutex = Nobody /\ fork_mutex' = t
          /\ UNCHANGED <<user_count, wcomp, wq_alive, wq_forks, queued>>
          /\ wq' = [wq EXCEPT !.flags = @ \cup {"PAUSE"}]
          /\ wth' = [wth EXCEPT ![t].pc = "wake", ![t].ret = "pausing"]
      BY <1>17 DEF urcu_workqueue_pause_worker, ucall, uat
    <3>2. /\ wq'.live = wq.live /\ wq'.q = wq.q /\ wq'.batch = wq.batch /\ wq'.pc = wq.pc
          /\ wq'.flags = wq.flags \cup {"PAUSE"}
      BY <1>b, <3>1 DEF WqQueue
    <3>3. /\ \A u \in WqThreads : u # t => wth'[u] = wth[u]
          /\ wth'[t].open = wth[t].open /\ wth'[t].pc = "wake" /\ wth'[t].ret = "pausing"
      BY <1>a, <3>1 DEF WqThread
    <3> QED BY <3>1, <3>2, <3>3
  <2>2. WqGoal(t) = "idle" /\ WqGoal(t)' = "pausing" /\ \A u \in WqThreads : u # t => WqGoal(u)' = WqGoal(u)
    BY <1>0, <2>1 DEF WqTypeOK, WqThread, WqGoal, WqRets, WqWaking
  <2>3. WqQuietStep
    BY <2>1, <2>2 DEF WqQuietStep, WqWaits, WqCompPC
  <2>4. WqTypeOK'
    <3>1. wth' \in [WqThreads -> WqThread]
      <4>1. ucall(t, "wake", "pausing")
        BY <1>17 DEF urcu_workqueue_pause_worker
      <4> QED BY <1>a, <4>1, WqCallType DEF WqUserPC, WqRets, WqWaking
    <3>2. wq' \in WqQueue
      <4>1. wq' = [wq EXCEPT !.flags = @ \cup {"PAUSE"}]
        BY <1>17 DEF urcu_workqueue_pause_worker
      <4> QED BY <1>b, <4>1, WqFlagType DEF WqFlags
    <3> QED BY <1>0, <2>1, <3>1, <3>2 DEF WqTypeOK
  <2>5. WqOwner'
    BY <1>0, <2>1, <2>2, WorkqueueAssumption DEF WqOwner, WqWaking, WqWaits,
       WqOwns
  <2>6. WqWorker'
    BY <1>0, <2>1, <2>2 DEF WqWorker, WqCompPC
  <2>7. WqCounted' /\ WqContents' /\ WqFlushes' /\ WqRefs'
    BY <2>3, WqQuiet
  <2> QED BY <2>4, <2>5, <2>6, <2>7 DEF WqIInv
<1>18. ASSUME NEW t \in WqThreads, urcu_workqueue_pause_worker(t), ~ wq.live
      PROVE  WqIInv'
  <2>1. /\ \A u \in WqThreads : u # t => wth'[u] = wth[u]
        /\ wth'[t].open = wth[t].open
        /\ t \in wq_alive
        /\ wth[t].pc = "idle" /\ wth'[t].pc = "fork" /\ ~ wq.live
        /\ fork_mutex = Nobody /\ fork_mutex' = t
        /\ wq' = wq /\ user_count' = user_count /\ wcomp' = wcomp /\ wq_alive' = wq_alive /\ wq_forks' = wq_forks /\ queued' = queued
    BY <1>0, <1>18 DEF WqTypeOK, WqThread, WqQueue, WqCompletion,
       urcu_workqueue_pause_worker, ugo, uat, wqrest
  <2>2. WqGoal(t) = "idle" /\ WqGoal(t)' = "fork" /\ \A u \in WqThreads : u # t => WqGoal(u)' = WqGoal(u)
    BY <1>0, <2>1 DEF WqTypeOK, WqThread, WqGoal, WqRets, WqWaking
  <2>3. WqQuietStep
    BY <2>1, <2>2 DEF WqQuietStep, WqWaits, WqCompPC
  <2>4. WqTypeOK'
    <3>1. wth' \in [WqThreads -> WqThread]
      BY <1>a, <1>18 DEF urcu_workqueue_pause_worker, ugo, uat, WqThread,
         WqUserPC, WqRets, WqWaking, WqWaits, WqOwns
    <3> QED BY <1>0, <2>1, <3>1 DEF WqTypeOK
  <2>5. WqOwner'
    BY <1>0, <2>1, <2>2, WorkqueueAssumption DEF WqOwner, WqWaking, WqWaits,
       WqOwns
  <2>6. WqWorker'
    BY <1>0, <2>1, <2>2 DEF WqWorker, WqCompPC
  <2>7. WqCounted' /\ WqContents' /\ WqFlushes' /\ WqRefs'
    BY <2>3, WqQuiet
  <2> QED BY <2>4, <2>5, <2>6, <2>7 DEF WqIInv
<1>19. ASSUME NEW t \in WqThreads, urcu_workqueue_resume_worker(t)
      PROVE  WqIInv'
  <2>1. /\ \A u \in WqThreads : u # t => wth'[u] = wth[u]
        /\ wth'[t].open = wth[t].open
        /\ t \in wq_alive
        /\ wth[t].pc = "fork" /\ wth'[t].pc = "resuming"
        /\ wq'.live = wq.live /\ wq'.q = wq.q /\ wq'.batch = wq.batch /\ wq'.pc = wq.pc /\ wq'.flags = wq.flags \ {"PAUSE"}
        /\ user_count' = user_count /\ fork_mutex' = fork_mutex /\ wcomp' = wcomp /\ wq_alive' = wq_alive /\ wq_forks' = wq_forks /\ queued' = queued
    BY <1>0, <1>19 DEF WqTypeOK, WqThread, WqQueue, WqCompletion,
       urcu_workqueue_resume_worker, ugo, uat, wqrest
  <2>2. \A u \in WqThreads : u # t => WqGoal(u) \notin WqOwns
    BY <1>0, <2>1 DEF WqOwner, WqGoal, WqWaking, WqWaits, WqOwns
  <2>3. WqGoal(t) = "fork" /\ WqGoal(t)' = "resuming" /\ \A u \in WqThreads : u # t => WqGoal(u)' = WqGoal(u)
    BY <1>0, <2>1 DEF WqTypeOK, WqThread, WqGoal, WqRets, WqWaking
  <2>4. WqQuietStep
    BY <2>1, <2>3 DEF WqQuietStep, WqWaits, WqCompPC
  <2>5. WqTypeOK'
    <3>1. wth' \in [WqThreads -> WqThread]
      BY <1>a, <1>19 DEF urcu_workqueue_resume_worker, ugo, uat, wqrest,
         WqThread, WqUserPC, WqRets, WqWaking, WqWaits, WqOwns
    <3>2. wq' \in WqQueue
      BY <1>b, <1>19, WorkqueueAssumption DEF urcu_workqueue_resume_worker,
         ugo, uat, wqrest, WqQueue, wqdec, WqWorkerPC, WqCompPC, WqFlags
    <3> QED BY <1>0, <2>1, <3>1, <3>2 DEF WqTypeOK
  <2>6. WqOwner'
    BY <1>0, <2>1, <2>2, <2>3, WorkqueueAssumption DEF WqOwner, WqWaking,
       WqWaits, WqOwns
  <2>7. WqWorker'
    BY <1>0, <2>1, <2>2, <2>3 DEF WqWorker, WqOwns
  <2>8. WqCounted' /\ WqContents' /\ WqFlushes' /\ WqRefs'
    BY <2>4, WqQuiet
  <2> QED BY <2>5, <2>6, <2>7, <2>8 DEF WqIInv
<1>20. ASSUME NEW t \in WqThreads, WqResumed(t)
      PROVE  WqIInv'
  <2>1. /\ \A u \in WqThreads : u # t => wth'[u] = wth[u]
        /\ wth'[t].open = wth[t].open
        /\ t \in wq_alive
        /\ wth[t].pc = "resuming" /\ wth'[t].pc = "idle"
        /\ fork_mutex' = Nobody
        /\ wq' = wq /\ user_count' = user_count /\ wcomp' = wcomp /\ wq_alive' = wq_alive /\ wq_forks' = wq_forks /\ queued' = queued
    BY <1>0, <1>20 DEF WqTypeOK, WqThread, WqQueue, WqCompletion, WqResumed,
       ugo, uat, wqrest
  <2>2. fork_mutex = t
    BY <1>0, <2>1 DEF WqOwner, WqGoal, WqWaking, WqWaits, WqOwns
  <2>3. WqGoal(t) = "resuming" /\ WqGoal(t)' = "idle" /\ \A u \in WqThreads : u # t => WqGoal(u)' = WqGoal(u)
    BY <1>0, <2>1 DEF WqTypeOK, WqThread, WqGoal, WqRets, WqWaking
  <2>4. WqQuietStep
    BY <2>1, <2>3 DEF WqQuietStep, WqWaits, WqCompPC
  <2>5. WqTypeOK'
    <3>1. wth' \in [WqThreads -> WqThread]
      BY <1>a, <1>20 DEF WqResumed, ugo, uat, WqThread, WqUserPC, WqRets,
         WqWaking, WqWaits, WqOwns
    <3> QED BY <1>0, <2>1, <3>1 DEF WqTypeOK
  <2>6. WqOwner'
    BY <1>0, <2>1, <2>2, <2>3, WorkqueueAssumption DEF WqOwner, WqWaking,
       WqWaits, WqOwns
  <2>7. WqWorker'
    BY <1>0, <2>1, <2>2, <2>3 DEF WqWorker, WqCompPC
  <2>8. WqCounted' /\ WqContents' /\ WqFlushes' /\ WqRefs'
    BY <2>4, WqQuiet
  <2> QED BY <2>5, <2>6, <2>7, <2>8 DEF WqIInv
<1>21. ASSUME NEW t \in WqThreads, urcu_workqueue_create_worker(t)
      PROVE  WqIInv'
  <2>1. /\ \A u \in WqThreads : u # t => wth'[u].pc = "gone" /\ wth'[u].open = wth[u].open
        /\ wth'[t].open = wth[t].open
        /\ t \in wq_alive /\ wq_alive' = {t}
        /\ wth[t].pc = "fork" /\ wth'[t].pc = "idle"
        /\ fork_mutex' = Nobody
        /\ wq'.live = wq.live /\ wq'.q = wq.q /\ wq'.batch = << >> /\ wq'.flags = {} /\ wq'.pc = IF wq.live THEN "start" ELSE wq.pc
        /\ user_count' = user_count /\ wcomp' = wcomp /\ queued' = queued
    BY <1>0, <1>21 DEF WqTypeOK, WqThread, WqQueue, WqCompletion,
       urcu_workqueue_create_worker, uat, wqrest
  <2>2. fork_mutex = t /\ \A u \in WqThreads : u # t => WqGoal(u) \notin WqOwns
    BY <1>0, <2>1, WorkqueueAssumption DEF WqOwner, WqGoal, WqWaking, WqWaits,
       WqOwns
  <2>3. wq.batch = << >> /\ wq'.batch = wq.batch /\ wq.pc \notin WqCompPC /\ wq'.pc \notin WqCompPC
    BY <1>0, <2>1 DEF WqWorker, WqGoal, WqCompPC, WqWaking, WqWaits, WqOwns
  <2>4. WqGoal(t) = "fork" /\ WqGoal(t)' = "idle" /\ \A u \in WqThreads : u # t => WqGoal(u)' = "gone"
    BY <1>0, <2>1 DEF WqTypeOK, WqThread, WqGoal, WqRets, WqWaking
  <2>5. WqUsers' = WqUsers
    BY <2>1, <2>2, <2>4 DEF WqUsers, WqOwns
  <2>6. \A u \in WqThreads : WqPending(u)' <=> WqPending(u)
    BY <1>0, <2>1, <2>2, <2>3 DEF WqPending, WqCompPC
  <2>7. WqTypeOK'
    <3>1. wth' \in [WqThreads -> WqThread]
      BY <1>a, <1>21 DEF urcu_workqueue_create_worker, uat, WqThread,
         WqUserPC, WqRets, WqWaking, WqWaits, WqOwns
    <3>2. wq' \in WqQueue
      <4>1. << >> \in Seq(WqItem) /\ "start" \in WqWorkerPC
        BY DEF WqWorkerPC
      <4> QED BY <1>b, <1>21, <4>1 DEF urcu_workqueue_create_worker, WqQueue
    <3> QED BY <1>0, <2>1, <3>1, <3>2, <1>21 DEF WqTypeOK,
       urcu_workqueue_create_worker, uat
  <2>8. WqOwner'
    BY <1>0, <2>1, <2>2, <2>3, <2>4, WorkqueueAssumption DEF WqOwner,
       WqWaking, WqWaits, WqOwns
  <2>9. WqWorker'
    BY <1>0, <2>1, <2>2, <2>3, <2>4 DEF WqWorker, WqCompPC
  <2>10. WqCounted'
    BY <1>0, <2>1, <2>2, <2>3, <2>4, <2>5 DEF WqCounted
  <2>11. WqContents'
    BY <1>0, <2>1, <2>2, <2>3 DEF WqContents
  <2>12. WqFlushes'
    <3>1. ASSUME NEW u \in WqThreads PROVE WqAwaited(u)'
      BY <1>0, <2>1, <2>2, <2>3, <2>4, <2>5, <2>6 DEF WqFlushes, WqAwaited,
         WqWaits
    <3> QED BY <3>1 DEF WqFlushes
  <2>13. WqRefs'
    <3>1. ASSUME NEW u \in WqThreads PROVE WqReferred(u)'
      BY <1>0, <2>1, <2>2, <2>3, <2>4 DEF WqRefs, WqReferred, WqFlushing,
         WqWaits
    <3> QED BY <3>1 DEF WqRefs
  <2> QED BY <2>7, <2>8, <2>9, <2>10, <2>11, <2>12, <2>13 DEF WqIInv
<1>22. CASE workqueue_thread
  <2>1. /\ wq'.live = wq.live /\ wq'.q = wq.q /\ wq'.batch = wq.batch
        /\ wq'.flags = wq.flags
        /\ wq.pc \in {"start", "dec"}
        /\ wq'.pc = "top"
        /\ user_count' = user_count /\ fork_mutex' = fork_mutex /\ wcomp' = wcomp /\ wth' = wth /\ wq_alive' = wq_alive /\ wq_forks' = wq_forks /\ queued' = queued
    BY <1>0, <1>22 DEF WqTypeOK, WqThread, WqQueue, WqCompletion,
       workqueue_thread, kgo, kquiet, wqrest
  <2>2. \A u \in WqThreads : WqGoal(u)' = WqGoal(u) /\ wth'[u].open = wth[u].open
    BY <1>0, <2>1 DEF WqTypeOK, WqThread, WqGoal, WqRets, WqWaking
  <2>3. WqQuietStep
    BY <2>1, <2>2 DEF WqQuietStep, WqWaits, WqCompPC
  <2>4. WqTypeOK'
    <3>1. wq' \in WqQueue
      <4>1. wq' = [wq EXCEPT !.futex = wqdec(@), !.pc = "top"]
        BY <1>22 DEF workqueue_thread, kgo
      <4>2. wqdec(wq.futex) \in Int /\ "top" \in WqWorkerPC
        BY <1>b, WorkqueueAssumption DEF WqQueue, wqdec, WqWorkerPC
      <4> QED BY <1>b, <4>1, <4>2 DEF WqQueue, WqFlags
    <3> QED BY <1>0, <2>1, <3>1 DEF WqTypeOK
  <2>5. WqOwner'
    BY <1>0, <2>1, <2>2, WorkqueueAssumption DEF WqOwner, WqWaking, WqWaits,
       WqOwns
  <2>6. WqWorker'
    BY <1>0, <2>1, <2>2 DEF WqWorker, WqCompPC
  <2>7. WqCounted' /\ WqContents' /\ WqFlushes' /\ WqRefs'
    BY <2>3, WqQuiet
  <2> QED BY <2>4, <2>5, <2>6, <2>7 DEF WqIInv
<1>23. ASSUME WqPause, "PAUSE" \notin wq.flags
      PROVE  WqIInv'
  <2>1. /\ wq'.live = wq.live /\ wq'.q = wq.q /\ wq'.batch = wq.batch
        /\ wq'.flags = wq.flags
        /\ wq.pc = "top"
        /\ wq'.pc = "splice"
        /\ user_count' = user_count /\ fork_mutex' = fork_mutex /\ wcomp' = wcomp /\ wth' = wth /\ wq_alive' = wq_alive /\ wq_forks' = wq_forks /\ queued' = queued
    BY <1>0, <1>23 DEF WqTypeOK, WqThread, WqQueue, WqCompletion, WqPause,
       kgo, kquiet, wqrest
  <2>2. \A u \in WqThreads : WqGoal(u)' = WqGoal(u) /\ wth'[u].open = wth[u].open
    BY <1>0, <2>1 DEF WqTypeOK, WqThread, WqGoal, WqRets, WqWaking
  <2>3. WqQuietStep
    BY <2>1, <2>2 DEF WqQuietStep, WqWaits, WqCompPC
  <2>4. WqTypeOK'
    <3>1. wq' \in WqQueue
      BY <1>b, <1>23, WorkqueueAssumption DEF WqPause, kgo, kquiet, wqrest,
         WqQueue, wqdec, WqWorkerPC, WqCompPC, WqFlags
    <3> QED BY <1>0, <2>1, <3>1 DEF WqTypeOK
  <2>5. WqOwner'
    BY <1>0, <2>1, <2>2, WorkqueueAssumption DEF WqOwner, WqWaking, WqWaits,
       WqOwns
  <2>6. WqWorker'
    BY <1>0, <2>1, <2>2 DEF WqWorker, WqCompPC
  <2>7. WqCounted' /\ WqContents' /\ WqFlushes' /\ WqRefs'
    BY <2>3, WqQuiet
  <2> QED BY <2>4, <2>5, <2>6, <2>7 DEF WqIInv
<1>24. ASSUME WqPause, "PAUSE" \in wq.flags
      PROVE  WqIInv'
  <2>1. /\ wq'.live = wq.live /\ wq'.q = wq.q /\ wq'.batch = wq.batch
        /\ wq'.flags = wq.flags \cup {"PAUSED"}
        /\ wq.pc = "top"
        /\ wq'.pc = "paused"
        /\ user_count' = user_count /\ fork_mutex' = fork_mutex /\ wcomp' = wcomp /\ wth' = wth /\ wq_alive' = wq_alive /\ wq_forks' = wq_forks /\ queued' = queued
    BY <1>0, <1>24 DEF WqTypeOK, WqThread, WqQueue, WqCompletion, WqPause,
       kgo, kquiet, wqrest
  <2>2. \A u \in WqThreads : WqGoal(u)' = WqGoal(u) /\ wth'[u].open = wth[u].open
    BY <1>0, <2>1 DEF WqTypeOK, WqThread, WqGoal, WqRets, WqWaking
  <2>3. WqQuietStep
    BY <2>1, <2>2 DEF WqQuietStep, WqWaits, WqCompPC
  <2>4. WqTypeOK'
    <3>1. wq' \in WqQueue
      <4>1. wq' = [wq EXCEPT !.flags = @ \cup {"PAUSED"}, !.pc = "paused"]
        BY <1>24 DEF WqPause, kgo
      <4>2. wq.flags \cup {"PAUSED"} \in SUBSET WqFlags /\ "paused" \in WqWorkerPC
        BY <1>b DEF WqQueue, WqFlags, WqWorkerPC
      <4> QED BY <1>b, <4>1, <4>2 DEF WqQueue, WqFlags
    <3> QED BY <1>0, <2>1, <3>1 DEF WqTypeOK
  <2>5. WqOwner'
    BY <1>0, <2>1, <2>2, WorkqueueAssumption DEF WqOwner, WqWaking, WqWaits,
       WqOwns
  <2>6. WqWorker'
    BY <1>0, <2>1, <2>2 DEF WqWorker, WqCompPC
  <2>7. WqCounted' /\ WqContents' /\ WqFlushes' /\ WqRefs'
    BY <2>3, WqQuiet
  <2> QED BY <2>4, <2>5, <2>6, <2>7 DEF WqIInv
<1>25. CASE WqResume
  <2>1. /\ wq'.live = wq.live /\ wq'.q = wq.q /\ wq'.batch = wq.batch
        /\ wq'.flags = wq.flags \ {"PAUSED"}
        /\ wq.pc = "paused" /\ "PAUSE" \notin wq.flags
        /\ wq'.pc = "splice"
        /\ user_count' = user_count /\ fork_mutex' = fork_mutex /\ wcomp' = wcomp /\ wth' = wth /\ wq_alive' = wq_alive /\ wq_forks' = wq_forks /\ queued' = queued
    BY <1>0, <1>25 DEF WqTypeOK, WqThread, WqQueue, WqCompletion, WqResume,
       kgo, kquiet, wqrest
  <2>2. \A u \in WqThreads : WqGoal(u)' = WqGoal(u) /\ wth'[u].open = wth[u].open
    BY <1>0, <2>1 DEF WqTypeOK, WqThread, WqGoal, WqRets, WqWaking
  <2>3. WqQuietStep
    BY <2>1, <2>2 DEF WqQuietStep, WqWaits, WqCompPC
  <2>4. WqTypeOK'
    <3>1. wq' \in WqQueue
      BY <1>b, <1>25, WorkqueueAssumption DEF WqResume, kgo, kquiet, wqrest,
         WqQueue, wqdec, WqWorkerPC, WqCompPC, WqFlags
    <3> QED BY <1>0, <2>1, <3>1 DEF WqTypeOK
  <2>5. WqOwner'
    BY <1>0, <2>1, <2>2, WorkqueueAssumption DEF WqOwner, WqWaking, WqWaits,
       WqOwns
  <2>6. WqWorker'
    BY <1>0, <2>1, <2>2 DEF WqWorker, WqCompPC
  <2>7. WqCounted' /\ WqContents' /\ WqFlushes' /\ WqRefs'
    BY <2>3, WqQuiet
  <2> QED BY <2>4, <2>5, <2>6, <2>7 DEF WqIInv
<1>26. CASE WqStopTest
  <2>1. /\ wq'.live = wq.live /\ wq'.q = wq.q /\ wq'.batch = wq.batch
        /\ wq'.flags = wq.flags
        /\ wq.pc = "run" /\ wq.batch = << >>
        /\ wq'.pc \in {"stop", "empty_test"}
        /\ user_count' = user_count /\ fork_mutex' = fork_mutex /\ wcomp' = wcomp /\ wth' = wth /\ wq_alive' = wq_alive /\ wq_forks' = wq_forks /\ queued' = queued
    BY <1>0, <1>26 DEF WqTypeOK, WqThread, WqQueue, WqCompletion, WqStopTest,
       kgo, kquiet, wqrest
  <2>2. \A u \in WqThreads : WqGoal(u)' = WqGoal(u) /\ wth'[u].open = wth[u].open
    BY <1>0, <2>1 DEF WqTypeOK, WqThread, WqGoal, WqRets, WqWaking
  <2>3. WqQuietStep
    BY <2>1, <2>2 DEF WqQuietStep, WqWaits, WqCompPC
  <2>4. WqTypeOK'
    <3>1. wq' \in WqQueue
      BY <1>b, <1>26, WorkqueueAssumption DEF WqStopTest, kgo, kquiet, wqrest,
         WqQueue, wqdec, WqWorkerPC, WqCompPC, WqFlags
    <3> QED BY <1>0, <2>1, <3>1 DEF WqTypeOK
  <2>5. WqOwner'
    BY <1>0, <2>1, <2>2, WorkqueueAssumption DEF WqOwner, WqWaking, WqWaits,
       WqOwns
  <2>6. WqWorker'
    BY <1>0, <2>1, <2>2 DEF WqWorker, WqCompPC
  <2>7. WqCounted' /\ WqContents' /\ WqFlushes' /\ WqRefs'
    BY <2>3, WqQuiet
  <2> QED BY <2>4, <2>5, <2>6, <2>7 DEF WqIInv
<1>27. CASE WqEmptyTest
  <2>1. /\ wq'.live = wq.live /\ wq'.q = wq.q /\ wq'.batch = wq.batch
        /\ wq'.flags = wq.flags
        /\ wq.pc = "empty_test"
        /\ wq'.pc \in {"wait", "top"}
        /\ user_count' = user_count /\ fork_mutex' = fork_mutex /\ wcomp' = wcomp /\ wth' = wth /\ wq_alive' = wq_alive /\ wq_forks' = wq_forks /\ queued' = queued
    BY <1>0, <1>27 DEF WqTypeOK, WqThread, WqQueue, WqCompletion, WqEmptyTest,
       kgo, kquiet, wqrest
  <2>2. \A u \in WqThreads : WqGoal(u)' = WqGoal(u) /\ wth'[u].open = wth[u].open
    BY <1>0, <2>1 DEF WqTypeOK, WqThread, WqGoal, WqRets, WqWaking
  <2>3. WqQuietStep
    BY <2>1, <2>2 DEF WqQuietStep, WqWaits, WqCompPC
  <2>4. WqTypeOK'
    <3>1. wq' \in WqQueue
      BY <1>b, <1>27, WorkqueueAssumption DEF WqEmptyTest, kgo, kquiet,
         wqrest, WqQueue, wqdec, WqWorkerPC, WqCompPC, WqFlags
    <3> QED BY <1>0, <2>1, <3>1 DEF WqTypeOK
  <2>5. WqOwner'
    BY <1>0, <2>1, <2>2, WorkqueueAssumption DEF WqOwner, WqWaking, WqWaits,
       WqOwns
  <2>6. WqWorker'
    BY <1>0, <2>1, <2>2 DEF WqWorker, WqCompPC
  <2>7. WqCounted' /\ WqContents' /\ WqFlushes' /\ WqRefs'
    BY <2>3, WqQuiet
  <2> QED BY <2>4, <2>5, <2>6, <2>7 DEF WqIInv
<1>28. CASE futex_wait
  <2>1. /\ wq'.live = wq.live /\ wq'.q = wq.q /\ wq'.batch = wq.batch
        /\ wq'.flags = wq.flags
        /\ wq.pc = "wait"
        /\ wq'.pc \in {"futex", "dec"}
        /\ user_count' = user_count /\ fork_mutex' = fork_mutex /\ wcomp' = wcomp /\ wth' = wth /\ wq_alive' = wq_alive /\ wq_forks' = wq_forks /\ queued' = queued
    BY <1>0, <1>28 DEF WqTypeOK, WqThread, WqQueue, WqCompletion, futex_wait,
       kgo, kquiet, wqrest
  <2>2. \A u \in WqThreads : WqGoal(u)' = WqGoal(u) /\ wth'[u].open = wth[u].open
    BY <1>0, <2>1 DEF WqTypeOK, WqThread, WqGoal, WqRets, WqWaking
  <2>3. WqQuietStep
    BY <2>1, <2>2 DEF WqQuietStep, WqWaits, WqCompPC
  <2>4. WqTypeOK'
    <3>1. wq' \in WqQueue
      BY <1>b, <1>28, WorkqueueAssumption DEF futex_wait, kgo, kquiet, wqrest,
         WqQueue, wqdec, WqWorkerPC, WqCompPC, WqFlags
    <3> QED BY <1>0, <2>1, <3>1 DEF WqTypeOK
  <2>5. WqOwner'
    BY <1>0, <2>1, <2>2, WorkqueueAssumption DEF WqOwner, WqWaking, WqWaits,
       WqOwns
  <2>6. WqWorker'
    BY <1>0, <2>1, <2>2 DEF WqWorker, WqCompPC
  <2>7. WqCounted' /\ WqContents' /\ WqFlushes' /\ WqRefs'
    BY <2>3, WqQuiet
  <2> QED BY <2>4, <2>5, <2>6, <2>7 DEF WqIInv
<1>29. CASE WqFutexWait
  <2>1. /\ wq'.live = wq.live /\ wq'.q = wq.q /\ wq'.batch = wq.batch
        /\ wq'.flags = wq.flags
        /\ wq.pc = "futex"
        /\ wq'.pc \in {"asleep", "dec"}
        /\ user_count' = user_count /\ fork_mutex' = fork_mutex /\ wcomp' = wcomp /\ wth' = wth /\ wq_alive' = wq_alive /\ wq_forks' = wq_forks /\ queued' = queued
    BY <1>0, <1>29 DEF WqTypeOK, WqThread, WqQueue, WqCompletion, WqFutexWait,
       kgo, kquiet, wqrest
  <2>2. \A u \in WqThreads : WqGoal(u)' = WqGoal(u) /\ wth'[u].open = wth[u].open
    BY <1>0, <2>1 DEF WqTypeOK, WqThread, WqGoal, WqRets, WqWaking
  <2>3. WqQuietStep
    BY <2>1, <2>2 DEF WqQuietStep, WqWaits, WqCompPC
  <2>4. WqTypeOK'
    <3>1. wq' \in WqQueue
      BY <1>b, <1>29, WorkqueueAssumption DEF WqFutexWait, kgo, kquiet,
         wqrest, WqQueue, wqdec, WqWorkerPC, WqCompPC, WqFlags
    <3> QED BY <1>0, <2>1, <3>1 DEF WqTypeOK
  <2>5. WqOwner'
    BY <1>0, <2>1, <2>2, WorkqueueAssumption DEF WqOwner, WqWaking, WqWaits,
       WqOwns
  <2>6. WqWorker'
    BY <1>0, <2>1, <2>2 DEF WqWorker, WqCompPC
  <2>7. WqCounted' /\ WqContents' /\ WqFlushes' /\ WqRefs'
    BY <2>3, WqQuiet
  <2> QED BY <2>4, <2>5, <2>6, <2>7 DEF WqIInv
<1>30. CASE WqStop
  <2>1. /\ wq'.live = wq.live /\ wq'.q = wq.q /\ wq'.batch = wq.batch
        /\ wq'.flags = wq.flags
        /\ wq.pc = "stop"
        /\ wq'.pc = "none"
        /\ user_count' = user_count /\ fork_mutex' = fork_mutex /\ wcomp' = wcomp /\ wth' = wth /\ wq_alive' = wq_alive /\ wq_forks' = wq_forks /\ queued' = queued
    BY <1>0, <1>30 DEF WqTypeOK, WqThread, WqQueue, WqCompletion, WqStop, kgo,
       kquiet, wqrest
  <2>2. \A u \in WqThreads : WqGoal(u)' = WqGoal(u) /\ wth'[u].open = wth[u].open
    BY <1>0, <2>1 DEF WqTypeOK, WqThread, WqGoal, WqRets, WqWaking
  <2>3. WqQuietStep
    BY <2>1, <2>2 DEF WqQuietStep, WqWaits, WqCompPC
  <2>4. WqTypeOK'
    <3>1. wq' \in WqQueue
      <4>1. "none" \in WqWorkerPC /\ 0 \in Int
        BY DEF WqWorkerPC
      <4>2. \A z \in Int : [wq EXCEPT !.futex = z, !.pc = "none"] \in WqQueue
        BY <1>b, <4>1 DEF WqQueue
      <4> QED BY <4>1, <4>2, <1>30 DEF WqStop
    <3> QED BY <1>0, <2>1, <3>1 DEF WqTypeOK
  <2>5. WqOwner'
    BY <1>0, <2>1, <2>2, WorkqueueAssumption DEF WqOwner, WqWaking, WqWaits,
       WqOwns
  <2>6. WqWorker'
    BY <1>0, <2>1, <2>2 DEF WqWorker, WqCompPC
  <2>7. WqCounted' /\ WqContents' /\ WqFlushes' /\ WqRefs'
    BY <2>3, WqQuiet
  <2> QED BY <2>4, <2>5, <2>6, <2>7 DEF WqIInv
<1>31. CASE futex_wake_up_completion
  <2>1. /\ wq'.live = wq.live /\ wq'.q = wq.q /\ wq'.batch = wq.batch
        /\ wq'.flags = wq.flags
        /\ wq.pc = "comp_test"
        /\ wq'.pc \in {"comp_set", "comp_put"}
        /\ user_count' = user_count /\ fork_mutex' = fork_mutex /\ wcomp' = wcomp /\ wth' = wth /\ wq_alive' = wq_alive /\ wq_forks' = wq_forks /\ queued' = queued
    BY <1>0, <1>31 DEF WqTypeOK, WqThread, WqQueue, WqCompletion,
       futex_wake_up_completion, kgo, kquiet, wqrest
  <2>2. \A u \in WqThreads : WqGoal(u)' = WqGoal(u) /\ wth'[u].open = wth[u].open
    BY <1>0, <2>1 DEF WqTypeOK, WqThread, WqGoal, WqRets, WqWaking
  <2>3. WqQuietStep
    BY <2>1, <2>2 DEF WqQuietStep, WqWaits, WqCompPC
  <2>4. WqTypeOK'
    <3>1. wq' \in WqQueue
      BY <1>b, <1>31, WorkqueueAssumption DEF futex_wake_up_completion, kgo,
         kquiet, wqrest, WqQueue, wqdec, WqWorkerPC, WqCompPC, WqFlags
    <3> QED BY <1>0, <2>1, <3>1 DEF WqTypeOK
  <2>5. WqOwner'
    BY <1>0, <2>1, <2>2, WorkqueueAssumption DEF WqOwner, WqWaking, WqWaits,
       WqOwns
  <2>6. WqWorker'
    BY <1>0, <2>1, <2>2 DEF WqWorker, WqCompPC
  <2>7. WqCounted' /\ WqContents' /\ WqFlushes' /\ WqRefs'
    BY <2>3, WqQuiet
  <2> QED BY <2>4, <2>5, <2>6, <2>7 DEF WqIInv
<1>32. CASE WqCompletionSet
  <2>0. wq.batch # << >> /\ Head(wq.batch) = wq.batch[1] /\ wq.batch[1] \in WqThreads /\ wq.batch \in Seq(WqItem)
    BY <1>0, <1>32, WqTailFacts DEF WqTypeOK, WqQueue, WqWorker, WqCompPC,
       WqCompletionSet
  <2>1. /\ wq'.live = wq.live /\ wq'.q = wq.q /\ wq'.batch = wq.batch /\ wq'.flags = wq.flags
        /\ wq.pc = "comp_set"
        /\ wq'.pc = "comp_wake"
        /\ user_count' = user_count /\ fork_mutex' = fork_mutex /\ wth' = wth /\ wq_alive' = wq_alive /\ wq_forks' = wq_forks /\ queued' = queued
        /\ \A u \in WqThreads : wcomp'[u].count = wcomp[u].count /\ wcomp'[u].ref = wcomp[u].ref
    BY <1>0, <1>32, <2>0 DEF WqTypeOK, WqThread, WqQueue, WqCompletion,
       WqCompletionSet, kgo, wqrest
  <2>2. \A u \in WqThreads : WqGoal(u)' = WqGoal(u) /\ wth'[u].open = wth[u].open
    BY <1>0, <2>1 DEF WqTypeOK, WqThread, WqGoal, WqRets, WqWaking
  <2>3. WqQuietStep
    BY <2>1, <2>2 DEF WqQuietStep, WqWaits, WqCompPC
  <2>4. WqTypeOK'
    <3>1. wq' \in WqQueue
      BY <1>b, <1>32, WorkqueueAssumption, <2>0 DEF WqCompletionSet, kgo,
         wqrest, WqQueue, wqdec, WqWorkerPC, WqCompPC, WqFlags
    <3>2. wcomp' \in [WqThreads -> WqCompletion]
      <4>1. \A x \in WqThreads : [wcomp EXCEPT ![x].futex = 0] \in [WqThreads -> WqCompletion]
        BY <1>c DEF WqCompletion
      <4> QED BY <2>0, <4>1, <1>32 DEF WqCompletionSet
    <3> QED BY <1>0, <2>1, <3>1, <3>2 DEF WqTypeOK
  <2>5. WqOwner'
    BY <1>0, <2>1, <2>2, WorkqueueAssumption DEF WqOwner, WqWaking, WqWaits,
       WqOwns
  <2>6. WqWorker'
    BY <1>0, <2>1, <2>2 DEF WqWorker, WqCompPC
  <2>7. WqCounted' /\ WqContents' /\ WqFlushes' /\ WqRefs'
    BY <2>3, WqQuiet
  <2> QED BY <2>4, <2>5, <2>6, <2>7 DEF WqIInv
<1>33. CASE _urcu_workqueue_wait_complete
  <2>0. wq.batch # << >> /\ Head(wq.batch) = wq.batch[1] /\ wq.batch[1] \in WqThreads /\ wq.batch \in Seq(WqItem)
    BY <1>0, <1>33, WqTailFacts DEF WqTypeOK, WqQueue, WqWorker, WqCompPC,
       _urcu_workqueue_wait_complete
  <2>1. /\ wq'.live = wq.live /\ wq'.q = wq.q /\ wq'.batch = wq.batch /\ wq'.flags = wq.flags
        /\ wq.pc = "run" /\ wq.batch # << >> /\ wq.batch[1] \in WqThreads
        /\ wq'.pc \in {"comp_test", "comp_put"}
        /\ user_count' = user_count /\ fork_mutex' = fork_mutex /\ wth' = wth /\ wq_alive' = wq_alive /\ wq_forks' = wq_forks /\ queued' = queued
        /\ \A u \in WqThreads : wcomp'[u].ref = wcomp[u].ref /\ (u # wq.batch[1] => wcomp'[u].count = wcomp[u].count)
    BY <1>0, <1>33, <2>0 DEF WqTypeOK, WqThread, WqQueue, WqCompletion,
       _urcu_workqueue_wait_complete, kgo, wqrest
  <2>2. wq.batch[1] \in WqElements(wq.batch) /\ wq.batch[1] \notin WqElements(wq.q)
    BY <1>0, <2>1, WqTailElements DEF WqTypeOK, WqQueue, WqContents
  <2>3. queued[wq.batch[1]] = {}
    BY <1>0, <2>1, <2>2, WqFirstBehind DEF WqTypeOK, WqQueue, WqContents,
       WqFlushes, WqAwaited, WqPending, WqCompPC
  <2>4. \A u \in WqThreads : WqGoal(u)' = WqGoal(u) /\ wth'[u].open = wth[u].open
    BY <1>0, <2>1 DEF WqTypeOK, WqThread, WqGoal, WqRets, WqWaking
  <2>5. WqUsers' = WqUsers
    BY <1>0, <2>1, <2>2, <2>3, <2>4 DEF WqUsers
  <2>6. \A u \in WqThreads : WqPending(u)' <=> WqPending(u) /\ u # wq.batch[1]
    BY <1>0, <2>1, <2>2, <2>3 DEF WqPending, WqCompPC
  <2>7. WqTypeOK'
    <3>1. wq' \in WqQueue
      BY <1>b, <1>33, WorkqueueAssumption, <2>0 DEF
         _urcu_workqueue_wait_complete, kgo, wqrest, WqQueue, wqdec,
         WqWorkerPC, WqCompPC, WqFlags
    <3>2. wcomp' \in [WqThreads -> WqCompletion]
      <4>1. \A x \in WqThreads : [wcomp EXCEPT ![x].count = @ - 1] \in [WqThreads -> WqCompletion]
        BY <1>c DEF WqCompletion
      <4> QED BY <2>0, <4>1, <1>33 DEF _urcu_workqueue_wait_complete
    <3> QED BY <1>0, <2>1, <3>1, <3>2 DEF WqTypeOK
  <2>8. WqOwner'
    BY <1>0, <2>1, <2>2, <2>3, <2>4, WorkqueueAssumption DEF WqOwner,
       WqWaking, WqWaits, WqOwns
  <2>9. WqWorker'
    BY <1>0, <2>1, <2>2, <2>3, <2>4 DEF WqWorker, WqCompPC
  <2>10. WqCounted'
    BY <1>0, <2>1, <2>2, <2>3, <2>4, <2>5 DEF WqCounted
  <2>11. WqContents'
    BY <1>0, <2>1, <2>2, <2>3 DEF WqContents
  <2>12. WqFlushes'
    <3>1. ASSUME NEW u \in WqThreads PROVE WqAwaited(u)'
      BY <1>0, <2>1, <2>2, <2>3, <2>4, <2>5, <2>6 DEF WqFlushes, WqAwaited,
         WqWaits
    <3> QED BY <3>1 DEF WqFlushes
  <2>13. WqRefs'
    <3>1. ASSUME NEW u \in WqThreads PROVE WqReferred(u)'
      BY <1>0, <2>1, <2>2, <2>3, <2>4 DEF WqRefs, WqReferred, WqFlushing,
         WqWaits
    <3> QED BY <3>1 DEF WqRefs
  <2> QED BY <2>7, <2>8, <2>9, <2>10, <2>11, <2>12, <2>13 DEF WqIInv
<1>34. CASE WqCompletionPut
  <2>0. wq.batch # << >> /\ Head(wq.batch) = wq.batch[1] /\ wq.batch[1] \in WqThreads /\ wq.batch \in Seq(WqItem)
    BY <1>0, <1>34, WqTailFacts DEF WqTypeOK, WqQueue, WqWorker, WqCompPC,
       WqCompletionPut
  <2>1. /\ wq'.live = wq.live /\ wq'.q = wq.q /\ wq'.flags = wq.flags /\ wq'.batch = Tail(wq.batch)
        /\ wq.pc = "comp_put" /\ wq'.pc = "run"
        /\ wq.batch # << >> /\ wq.batch[1] \in WqThreads
        /\ \A u \in WqThreads : wcomp'[u].count = wcomp[u].count /\ wcomp'[u].ref = IF u = wq.batch[1] THEN wcomp[u].ref - 1 ELSE wcomp[u].ref
        /\ user_count' = user_count /\ fork_mutex' = fork_mutex /\ wth' = wth /\ wq_alive' = wq_alive /\ wq_forks' = wq_forks /\ queued' = queued
    BY <1>0, <1>34, <2>0 DEF WqTypeOK, WqThread, WqQueue, WqCompletion,
       WqCompletionPut, wqrest
  <2>2. wq'.batch \in Seq(WqItem) /\ WqElements(wq.batch) = WqElements(wq'.batch) \cup {wq.batch[1]}
        /\ WqDistinct(wq'.batch) /\ wq.batch[1] \notin WqElements(wq'.batch)
    BY <1>0, <2>1, WqTailFacts, WqTailElements, WqTailDistinct DEF WqTypeOK,
       WqQueue, WqContents
  <2>3. \A u \in WqThreads : WqGoal(u)' = WqGoal(u) /\ wth'[u].open = wth[u].open
    BY <1>0, <2>1 DEF WqTypeOK, WqThread, WqGoal, WqRets, WqWaking
  <2>4. WqUsers' = WqUsers
    BY <1>0, <2>1, <2>2, <2>3 DEF WqUsers
  <2>5. \A u \in WqThreads : WqPending(u)' <=> WqPending(u)
    BY <1>0, <2>1, <2>2 DEF WqPending, WqCompPC, WqWorker
  <2>6. WqTypeOK'
    <3>1. wq' \in WqQueue
      <4>1. wq' = [wq EXCEPT !.batch = Tail(@), !.pc = "run"]
        BY <1>34 DEF WqCompletionPut, kgo
      <4>2. Tail(wq.batch) \in Seq(WqItem) /\ "run" \in WqWorkerPC
        BY <2>0, WqTailFacts DEF WqWorkerPC
      <4> QED BY <1>b, <4>1, <4>2 DEF WqQueue, WqFlags
    <3>2. wcomp' \in [WqThreads -> WqCompletion]
      <4>1. \A x \in WqThreads : [wcomp EXCEPT ![x].ref = @ - 1] \in [WqThreads -> WqCompletion]
        BY <1>c DEF WqCompletion
      <4> QED BY <2>0, <4>1, <1>34 DEF WqCompletionPut
    <3> QED BY <1>0, <2>1, <3>1, <3>2 DEF WqTypeOK
  <2>7. WqOwner'
    BY <1>0, <2>1, <2>2, <2>3, WorkqueueAssumption DEF WqOwner, WqWaking,
       WqWaits, WqOwns
  <2>8. WqWorker'
    BY <1>0, <2>1, <2>2, <2>3 DEF WqWorker, WqCompPC
  <2>9. WqCounted'
    BY <1>0, <2>1, <2>2, <2>3, <2>4 DEF WqCounted
  <2>10. WqContents'
    BY <1>0, <2>1, <2>2, WorkqueueAssumption DEF WqContents
  <2>11. WqFlushes'
    <3>1. ASSUME NEW u \in WqThreads PROVE WqAwaited(u)'
      <4>1. WqBehind(wq.batch, u, queued[u]) => WqBehind(wq'.batch, u, queued[u])
        BY <2>0, <2>1, WqTailBehind
      <4> QED BY <1>0, <2>1, <2>2, <4>1, <2>3, <2>4, <2>5 DEF WqFlushes, WqAwaited
    <3> QED BY <3>1 DEF WqFlushes
  <2>12. WqRefs'
    <3>1. ASSUME NEW u \in WqThreads PROVE WqReferred(u)'
      <4>0. wcomp[u].ref \in Int /\ (WqFlushing(u)' <=> WqFlushing(u))
        BY <1>c, <2>3 DEF WqCompletion, WqFlushing
      <4>1. CASE u = wq.batch[1]
        <5>1. u \notin WqElements(wq'.q) \cup WqElements(wq'.batch) /\ u \in WqElements(wq.batch)
          BY <1>0, <2>1, <2>2, <4>1 DEF WqContents
        <5> QED BY <1>0, <2>1, <4>0, <4>1, <5>1 DEF WqRefs, WqReferred
      <4>2. CASE u # wq.batch[1]
        BY <1>0, <2>1, <2>2, <4>0, <4>2 DEF WqRefs, WqReferred
      <4> QED BY <4>1, <4>2
    <3> QED BY <3>1 DEF WqRefs
  <2> QED BY <2>6, <2>7, <2>8, <2>9, <2>10, <2>11, <2>12 DEF WqIInv
<1>35. CASE WqRunWork
  <2>0. wq.batch # << >> /\ Head(wq.batch) = wq.batch[1] /\ wq.batch \in Seq(WqItem)
    BY <1>0, <1>35, WqTailFacts DEF WqTypeOK, WqQueue, WqRunWork
  <2>1. /\ wq'.live = wq.live /\ wq'.q = wq.q /\ wq'.flags = wq.flags /\ wq'.batch = Tail(wq.batch) /\ wq'.pc = wq.pc
        /\ wq.pc = "run"
        /\ wq.batch # << >> /\ wq.batch[1] \in Works
        /\ \A u \in WqThreads : queued'[u] = queued[u] \ {wq.batch[1]}
        /\ user_count' = user_count /\ fork_mutex' = fork_mutex /\ wcomp' = wcomp /\ wth' = wth /\ wq_alive' = wq_alive /\ wq_forks' = wq_forks
    BY <1>0, <1>35, <2>0 DEF WqTypeOK, WqThread, WqQueue, WqCompletion,
       WqRunWork, wqrest
  <2>2. wq'.batch \in Seq(WqItem) /\ WqElements(wq.batch) = WqElements(wq'.batch) \cup {wq.batch[1]}
        /\ WqDistinct(wq'.batch) /\ wq.batch[1] \notin WqElements(wq'.batch)
    BY <1>0, <2>1, WqTailFacts, WqTailElements, WqTailDistinct DEF WqTypeOK,
       WqQueue, WqContents
  <2>3. \A u \in WqThreads : WqGoal(u)' = WqGoal(u) /\ wth'[u].open = wth[u].open
    BY <1>0, <2>1 DEF WqTypeOK, WqThread, WqGoal, WqRets, WqWaking
  <2>4. WqUsers' = WqUsers
    BY <1>0, <2>1, <2>2, <2>3 DEF WqUsers
  <2>5. \A u \in WqThreads : WqPending(u)' <=> WqPending(u)
    BY <2>1, <2>2, WorkqueueAssumption DEF WqPending, WqCompPC
  <2>6. WqTypeOK'
    <3>1. wq' \in WqQueue
      <4>1. wq' = [wq EXCEPT !.batch = Tail(@)]
        BY <1>35 DEF WqRunWork, kgo
      <4>2. Tail(wq.batch) \in Seq(WqItem)
        BY <2>0, WqTailFacts
      <4> QED BY <1>b, <4>1, <4>2 DEF WqQueue, WqFlags
    <3> QED BY <1>0, <2>1, <3>1, <1>35 DEF WqTypeOK, WqRunWork, wqrest
  <2>7. WqOwner'
    BY <1>0, <2>1, <2>2, <2>3, WorkqueueAssumption DEF WqOwner, WqWaking,
       WqWaits, WqOwns
  <2>8. WqWorker'
    BY <1>0, <2>1, <2>2, <2>3 DEF WqWorker, WqCompPC
  <2>9. WqCounted'
    BY <1>0, <2>1, <2>2, <2>3, <2>4 DEF WqCounted
  <2>10. WqContents'
    BY <1>0, <2>1, <2>2 DEF WqContents
  <2>11. WqFlushes'
    <3>1. ASSUME NEW u \in WqThreads PROVE WqAwaited(u)'
      <4>0. queued'[u] \in SUBSET queued[u]
        BY <2>1
      <4>1. WqBehind(wq.batch, u, queued[u]) => WqBehind(wq'.batch, u, queued'[u])
        BY <2>0, <2>1, <4>0, WqTailBehind, WqFewerBehind
      <4>2. WqBehind(wq.q, u, queued[u]) => WqBehind(wq'.q, u, queued'[u])
        BY <2>1, <4>0, WqFewerBehind
      <4> QED BY <1>0, <2>1, <2>2, <4>0, <4>1, <4>2, <2>3, <2>4, <2>5 DEF WqFlushes, WqAwaited
    <3> QED BY <3>1 DEF WqFlushes
  <2>12. WqRefs'
    <3>1. ASSUME NEW u \in WqThreads PROVE WqReferred(u)'
      BY <1>0, <2>1, <2>2, <2>3 DEF WqRefs, WqReferred, WqFlushing, WqWaits
    <3> QED BY <3>1 DEF WqRefs
  <2> QED BY <2>6, <2>7, <2>8, <2>9, <2>10, <2>11, <2>12 DEF WqIInv
<1>36. CASE WqSplice
  <2>1. /\ wq'.live = wq.live /\ wq'.q = << >> /\ wq'.flags = wq.flags /\ wq'.batch = wq.q
        /\ wq.pc = "splice" /\ wq'.pc = "run"
        /\ user_count' = user_count /\ fork_mutex' = fork_mutex /\ wcomp' = wcomp /\ wth' = wth /\ wq_alive' = wq_alive /\ wq_forks' = wq_forks /\ queued' = queued
    BY <1>0, <1>36 DEF WqTypeOK, WqThread, WqQueue, WqCompletion, WqSplice,
       kquiet, wqrest
  <2>2. wq.batch = << >>
    BY <1>0, <2>1 DEF WqWorker, WqCompPC
  <2>3. \A u \in WqThreads : WqGoal(u)' = WqGoal(u) /\ wth'[u].open = wth[u].open
    BY <1>0, <2>1 DEF WqTypeOK, WqThread, WqGoal, WqRets, WqWaking
  <2>4. WqUsers' = WqUsers
    BY <1>0, <2>1, <2>2, <2>3 DEF WqUsers
  <2>5. \A u \in WqThreads : WqPending(u)' <=> WqPending(u)
    BY <1>0, <2>1, <2>2, WqEmptyFacts DEF WqPending, WqCompPC, WqWorker
  <2>6. WqTypeOK'
    <3>1. wq' \in WqQueue
      <4>1. wq' = [wq EXCEPT !.batch = wq.q, !.q = << >>, !.pc = "run"]
        BY <1>36 DEF WqSplice, kgo
      <4>2. << >> \in Seq(WqItem) /\ "run" \in WqWorkerPC /\ wq.q \in Seq(WqItem)
        BY <1>b DEF WqWorkerPC, WqQueue
      <4> QED BY <1>b, <4>1, <4>2 DEF WqQueue, WqFlags
    <3> QED BY <1>0, <2>1, <3>1 DEF WqTypeOK
  <2>7. WqOwner'
    BY <1>0, <2>1, <2>2, <2>3, WorkqueueAssumption DEF WqOwner, WqWaking,
       WqWaits, WqOwns
  <2>8. WqWorker'
    BY <1>0, <2>1, <2>2, <2>3 DEF WqWorker, WqCompPC
  <2>9. WqCounted'
    BY <1>0, <2>1, <2>2, <2>3, <2>4 DEF WqCounted
  <2>10. WqContents'
    BY <1>0, <2>1, <2>2 DEF WqContents
  <2>11. WqFlushes'
    <3>1. ASSUME NEW u \in WqThreads PROVE WqAwaited(u)'
      <4>1. /\ WqElements(wq'.q) = {} /\ WqBehind(wq'.q, u, queued[u])
            /\ WqElements(wq.batch) = {}
        BY <2>1, <2>2, WqEmptyFacts
      <4>2. WqPending(u) => u \in WqElements(wq.q)
        BY <4>1 DEF WqPending
      <4> QED BY <1>0, <2>1, <4>1, <4>2, <2>3, <2>4, <2>5 DEF WqFlushes, WqAwaited
    <3> QED BY <3>1 DEF WqFlushes
  <2>12. WqRefs'
    <3>1. ASSUME NEW u \in WqThreads PROVE WqReferred(u)'
      BY <1>0, <2>1, <2>2, <2>3 DEF WqRefs, WqReferred, WqFlushing, WqWaits
    <3> QED BY <3>1 DEF WqRefs
  <2> QED BY <2>6, <2>7, <2>8, <2>9, <2>10, <2>11, <2>12 DEF WqIInv
<1>37. CASE WqCompletionWake
  <2>0. wq.batch # << >> /\ Head(wq.batch) = wq.batch[1] /\ wq.batch[1] \in WqThreads /\ wq.batch \in Seq(WqItem)
    BY <1>0, <1>37, WqTailFacts DEF WqTypeOK, WqQueue, WqWorker, WqCompPC,
       WqCompletionWake
  <2>1. /\ wq'.live = wq.live /\ wq'.q = wq.q /\ wq'.batch = wq.batch /\ wq'.flags = wq.flags
        /\ wq.pc = "comp_wake" /\ wq'.pc = "comp_put"
        /\ \A u \in WqThreads : wth'[u].ret = wth[u].ret /\ wth'[u].open = wth[u].open
        /\ \A u \in WqThreads : wth'[u].pc = wth[u].pc \/ (wth[u].pc = "comp_asleep" /\ wth'[u].pc = "comp_dec")
        /\ user_count' = user_count /\ fork_mutex' = fork_mutex /\ wcomp' = wcomp /\ wq_alive' = wq_alive /\ wq_forks' = wq_forks /\ queued' = queued
    BY <1>0, <1>37, <2>0 DEF WqTypeOK, WqThread, WqQueue, WqCompletion,
       WqCompletionWake, kgo, wqrest
  <2>2. \A u \in WqThreads : WqGoal(u)' = WqGoal(u) \/ (WqGoal(u) = "comp_asleep" /\ WqGoal(u)' = "comp_dec")
    BY <1>0, <2>1 DEF WqTypeOK, WqThread, WqGoal, WqRets, WqWaking
  <2>3. WqQuietStep
    BY <2>1, <2>2 DEF WqQuietStep, WqWaits, WqCompPC
  <2>4. WqTypeOK'
    <3>1. wth' \in [WqThreads -> WqThread]
      BY <1>a, <1>37, <2>0 DEF WqCompletionWake, kgo, wqrest, WqThread,
         WqUserPC, WqRets, WqWaking, WqWaits, WqOwns
    <3>2. wq' \in WqQueue
      BY <1>b, <1>37, WorkqueueAssumption, <2>0 DEF WqCompletionWake, kgo,
         wqrest, WqQueue, wqdec, WqWorkerPC, WqCompPC, WqFlags
    <3> QED BY <1>0, <2>1, <3>1, <3>2 DEF WqTypeOK
  <2>5. WqOwner'
    BY <1>0, <2>1, <2>2, WorkqueueAssumption DEF WqOwner, WqWaking, WqWaits,
       WqOwns
  <2>6. WqWorker'
    BY <1>0, <2>1, <2>2 DEF WqWorker, WqCompPC
  <2>7. WqCounted' /\ WqContents' /\ WqFlushes' /\ WqRefs'
    BY <2>3, WqQuiet
  <2> QED BY <2>4, <2>5, <2>6, <2>7 DEF WqIInv
<1>38. CASE UNCHANGED wqvars
  <2>1. /\ wq' = wq
        /\ user_count' = user_count /\ fork_mutex' = fork_mutex /\ wcomp' = wcomp /\ wth' = wth /\ wq_alive' = wq_alive /\ wq_forks' = wq_forks /\ queued' = queued
    BY <1>0, <1>38 DEF WqTypeOK, WqThread, WqQueue, WqCompletion, wqvars
  <2>2. \A u \in WqThreads : WqGoal(u)' = WqGoal(u) /\ wth'[u].open = wth[u].open
    BY <1>0, <2>1 DEF WqTypeOK, WqThread, WqGoal, WqRets, WqWaking
  <2>3. WqQuietStep
    BY <2>1, <2>2 DEF WqQuietStep, WqWaits, WqCompPC
  <2>4. WqTypeOK'
    BY <1>0, <2>1 DEF WqTypeOK
  <2>5. WqOwner'
    BY <1>0, <2>1, <2>2, WorkqueueAssumption DEF WqOwner, WqWaking, WqWaits,
       WqOwns
  <2>6. WqWorker'
    BY <1>0, <2>1, <2>2 DEF WqWorker, WqCompPC
  <2>7. WqCounted' /\ WqContents' /\ WqFlushes' /\ WqRefs'
    BY <2>3, WqQuiet
  <2> QED BY <2>4, <2>5, <2>6, <2>7 DEF WqIInv
<1> QED
  BY <1>1, <1>2, <1>3, <1>4, <1>5, <1>6, <1>7, <1>8, <1>9, <1>10, <1>11,
     <1>12, <1>13, <1>14, <1>15, <1>16, <1>17, <1>18, <1>19, <1>20, <1>21,
     <1>22, <1>23, <1>24, <1>25, <1>26, <1>27, <1>28, <1>29, <1>30, <1>31,
     <1>32, <1>33, <1>34, <1>35, <1>36, <1>37, <1>38 DEF WorkqueueNext,
     WqWorkerStep, WqUserStep, WqCall

(* The initial state satisfies the invariant.                              *)
LEMMA WqInitIInv ==
    ASSUME WorkqueueInit
    PROVE  WqIInv
<1>1. /\ wq.live = FALSE /\ wq.q = << >> /\ wq.flags = {} /\ wq.pc = "none" /\ wq.batch = << >>
      /\ wq.futex = 0 /\ user_count = 0 /\ fork_mutex = Nobody /\ wq_alive = WqThreads
      /\ \A t \in WqThreads : /\ wth[t].pc = "idle" /\ ~ wth[t].open /\ queued[t] = {}
                              /\ WqGoal(t) = "idle"
  BY DEF WorkqueueInit, NoQueue, WqGoal, WqWaking
<1>2. WqTypeOK
  <2>1. << >> \in Seq(WqItem) /\ 0 \in Int /\ "none" \in WqWorkerPC
    BY DEF WqWorkerPC
  <2>2. \A z \in Int : [live |-> FALSE, q |-> << >>, flags |-> {}, futex |-> z, pc |-> "none",
                        batch |-> << >>] \in WqQueue
    BY <2>1 DEF WqQueue
  <2>3. wq \in WqQueue
    BY <2>1, <2>2 DEF WorkqueueInit, NoQueue
  <2>4. \A z \in Int : [count |-> z, futex |-> z, ref |-> z] \in WqCompletion
    BY DEF WqCompletion
  <2>5. wcomp \in [WqThreads -> WqCompletion]
    BY <2>1, <2>4 DEF WorkqueueInit
  <2>6. wth \in [WqThreads -> WqThread]
    BY DEF WorkqueueInit, WqThread, WqUserPC, WqRets
  <2>7. user_count \in Int /\ wq_forks \in Nat
    BY DEF WorkqueueInit
  <2>8. queued \in [WqThreads -> SUBSET Works] /\ wq_alive \subseteq WqThreads
        /\ fork_mutex \in WqThreads \cup {Nobody}
    BY DEF WorkqueueInit
  <2> QED BY <2>3, <2>5, <2>6, <2>7, <2>8 DEF WqTypeOK
<1>3. WqOwner
  BY <1>1, WorkqueueAssumption DEF WqOwner, WqOwns, WqWaits
<1>4. WqWorker
  BY <1>1 DEF WqWorker, WqCompPC
<1>5. WqUsers = {}
  BY <1>1 DEF WqUsers
<1>6. WqCounted
  BY <1>1, <1>5, FS_EmptySet DEF WqCounted
<1>7. WqContents
  BY <1>1, WqEmptyFacts DEF WqContents
<1>8. WqFlushes
  BY <1>1, WqEmptyFacts DEF WqFlushes, WqAwaited, WqPending, WqWaits
<1>9. WqRefs
  BY <1>1, WqEmptyFacts DEF WqRefs, WqReferred, WqFlushing, WqWaits
<1> QED BY <1>2, <1>3, <1>4, <1>6, <1>7, <1>8, <1>9 DEF WqIInv

(* The invariant holds at all times.                                       *)
LEMMA WqIInvHolds == WorkqueueSpec => []WqIInv
<1>1. WorkqueueInit => WqIInv
  BY WqInitIInv
<1>2. WqIInv /\ [WorkqueueNext]_wqvars => WqIInv'
  BY WqPreserves
<1> QED BY <1>1, <1>2, PTL DEF WorkqueueSpec

(* Two sequences without common elements, one after the other.             *)
LEMMA WqConcatFacts ==
    ASSUME NEW T, NEW s \in Seq(T), NEW r \in Seq(T), WqDistinct(s), WqDistinct(r),
           WqElements(s) \cap WqElements(r) = {}
    PROVE  WqElements(s \o r) = WqElements(s) \cup WqElements(r) /\ WqDistinct(s \o r)
<1> DEFINE c == s \o r
           m == Len(s)
<1>1. /\ m \in Nat /\ Len(r) \in Nat /\ DOMAIN c = 1 .. m + Len(r)
      /\ DOMAIN s = 1 .. m /\ DOMAIN r = 1 .. Len(r)
  OBVIOUS
<1>2. \A i \in 1 .. m : c[i] = s[i]
  OBVIOUS
<1>3. \A i \in m + 1 .. m + Len(r) : c[i] = r[i - m]
  OBVIOUS
<1> HIDE DEF c, m
<1>4. \A i \in DOMAIN c : \/ i \in 1 .. m /\ c[i] = s[i]
                          \/ i - m \in 1 .. Len(r) /\ c[i] = r[i - m]
  <2>1. \A i \in DOMAIN c : i \in 1 .. m \/ (i \in m + 1 .. m + Len(r) /\ i - m \in 1 .. Len(r))
    BY <1>1
  <2> QED BY <1>2, <1>3, <2>1
<1>5. \A i \in DOMAIN r : i + m \in DOMAIN c /\ c[i + m] = r[i]
  <2>1. \A i \in DOMAIN r : i + m \in m + 1 .. m + Len(r) /\ (i + m) - m = i /\ i + m \in DOMAIN c
    BY <1>1
  <2> QED BY <1>3, <2>1
<1>6. \A i \in DOMAIN s : i \in DOMAIN c /\ c[i] = s[i]
  BY <1>1, <1>2
<1>7. WqElements(c) = WqElements(s) \cup WqElements(r)
  <2>1. WqElements(c) \subseteq WqElements(s) \cup WqElements(r)
    BY <1>1, <1>4 DEF WqElements
  <2>2. WqElements(s) \subseteq WqElements(c)
    BY <1>6 DEF WqElements
  <2>3. WqElements(r) \subseteq WqElements(c)
    BY <1>5 DEF WqElements
  <2> QED BY <2>1, <2>2, <2>3
<1>8. WqDistinct(c)
  <2>1. SUFFICES ASSUME NEW i \in DOMAIN c, NEW j \in DOMAIN c, c[i] = c[j]
                 PROVE  i = j
    BY DEF WqDistinct
  <2>2. CASE i \in 1 .. m /\ c[i] = s[i] /\ j \in 1 .. m /\ c[j] = s[j]
    BY <1>1, <2>1, <2>2 DEF WqDistinct
  <2>3. CASE /\ i - m \in 1 .. Len(r) /\ c[i] = r[i - m]
             /\ j - m \in 1 .. Len(r) /\ c[j] = r[j - m]
    <3>1. i - m = j - m
      BY <1>1, <2>1, <2>3 DEF WqDistinct
    <3> QED BY <1>1, <3>1
  <2>4. CASE i \in 1 .. m /\ c[i] = s[i] /\ j - m \in 1 .. Len(r) /\ c[j] = r[j - m]
    BY <1>1, <2>1, <2>4 DEF WqElements
  <2>5. CASE j \in 1 .. m /\ c[j] = s[j] /\ i - m \in 1 .. Len(r) /\ c[i] = r[i - m]
    BY <1>1, <2>1, <2>5 DEF WqElements
  <2> QED BY <1>4, <2>2, <2>3, <2>4, <2>5
<1> QED BY <1>7, <1>8 DEF c

(* The batch and the queue together hold each item once.                   *)
LEMMA WqItemFacts ==
    ASSUME WqIInv
    PROVE  WqElements(WqItems) = WqElements(wq.q) \cup WqElements(wq.batch) /\ WqDistinct(WqItems)
<1>1. wq.q \in Seq(WqItem) /\ wq.batch \in Seq(WqItem)
  BY DEF WqIInv, WqTypeOK, WqQueue
<1> QED BY <1>1, WqConcatFacts DEF WqIInv, WqContents, WqItems

(* A work that urcu_workqueue_queue_work() was given is in the queue or in *)
(* the worker's batch, once, until its function has run, and nowhere       *)
(* afterwards: through the splice, a pause, a fork (the child's new worker *)
(* finds it) and the destruction of the queue by the last user.            *)
THEOREM WorkRunsOnce == WorkqueueSpec => []EveryWorkOnce
<1>1. WqIInv => EveryWorkOnce
  <2> SUFFICES ASSUME WqIInv PROVE EveryWorkOnce
    OBVIOUS
  <2>1. ASSUME NEW w \in Works
        PROVE  Cardinality({i \in DOMAIN WqItems : WqItems[i] = w}) =
               IF \E t \in WqThreads : w \in queued[t] THEN 1 ELSE 0
    <3> DEFINE I == {i \in DOMAIN WqItems : WqItems[i] = w}
    <3>1. w \in WqElements(WqItems) <=> \E t \in WqThreads : w \in queued[t]
      BY WqItemFacts DEF WqIInv, WqContents
    <3>2. CASE w \in WqElements(WqItems)
      <4>1. PICK i \in DOMAIN WqItems : WqItems[i] = w
        BY <3>2 DEF WqElements
      <4>2. I = {i}
        BY <4>1, WqItemFacts DEF WqDistinct
      <4> QED BY <3>1, <3>2, <4>2, FS_Singleton
    <3>3. CASE w \notin WqElements(WqItems)
      <4>1. I = {}
        BY <3>3 DEF WqElements
      <4> QED BY <3>1, <3>3, <4>1, FS_EmptySet
    <3> QED BY <3>2, <3>3
  <2>2. ASSUME NEW t \in wq_alive, wth[t].pc = "join", wq.pc = "none"
        PROVE  wq.q = << >>
    <3>1. WqGoal(t) = "join" /\ t \in WqThreads
      BY <2>2 DEF WqIInv, WqTypeOK, WqGoal, WqWaking
    <3>2. WqUsers = {}
      BY <3>1 DEF WqIInv, WqCounted
    <3>3. \A u \in WqThreads : u \notin WqElements(wq.q) /\ queued[u] = {}
      BY <3>2 DEF WqIInv, WqCounted, WqFlushes, WqAwaited, WqPending
    <3>4. WqElements(wq.q) \subseteq Works \cup WqThreads /\ wq.q \in Seq(WqItem)
      BY WqElementsType DEF WqIInv, WqTypeOK, WqQueue, WqItem
    <3>5. WqElements(wq.q) = {}
      BY <3>3, <3>4 DEF WqIInv, WqContents
    <3> QED BY <3>4, <3>5, WqTailElements
  <2> QED BY <2>1, <2>2 DEF EveryWorkOnce
<1> QED BY <1>1, WqIInvHolds, PTL

(* When urcu_workqueue_flush_queued_work() has seen its completion, no     *)
(* work that the caller queued before is left: neither a worker that was   *)
(* paused, nor one of the child, nor the order of queue and batch lets the *)
(* completion overtake it.                                                 *)
THEOREM FlushesCoverWork == WorkqueueSpec => []FlushCoversWork
<1>1. WqIInv => FlushCoversWork
  <2> SUFFICES ASSUME WqIInv PROVE FlushCoversWork
    OBVIOUS
  <2>1. ASSUME NEW t \in wq_alive, wth[t].pc = "comp_put"
        PROVE  queued[t] = {}
    <3>1. WqGoal(t) = "comp_put" /\ t \in WqThreads
      BY <2>1 DEF WqIInv, WqTypeOK, WqGoal, WqWaking
    <3> QED BY <3>1 DEF WqIInv, WqFlushes, WqAwaited, WqWaits
  <2>2. ASSUME NEW t \in Range(WqItems) \cap wq_alive
        PROVE  wcomp[t].ref > 0
    <3>1. t \in WqElements(wq.q) \cup WqElements(wq.batch) /\ t \in WqThreads
      BY WqItemFacts DEF Range, WqElements, WqIInv, WqTypeOK
    <3>2. wcomp[t].ref >= 1 /\ wcomp[t].ref \in Int
      BY <3>1 DEF WqIInv, WqRefs, WqReferred, WqTypeOK, WqCompletion
    <3> QED BY <3>2
  <2> QED BY <2>1, <2>2 DEF FlushCoversWork
<1> QED BY <1>1, WqIInvHolds, PTL


-----------------------------------------------------------------------------
(* The resize control: the inductive invariant.                            *)

(* A thread works on the table under the resize mutex; it asks for a lazy  *)
(* resize; or it is anywhere else.                                         *)
RzHolding == {"loop", "sizes", "init", "grown", "fini", "clear", "test"}
RzAsking == {"grow", "shrink", "launch", "queue", "launched"}
RzElsewhere == {"idle", "chain", "split_add", "split_del", "count_add", "count_del",
                "initiate", "lock", "flush"}
RzPCs == RzHolding \cup RzAsking \cup RzElsewhere

(* The local variables of a thread.                                        *)
RzFrames == [size : Int, count : Int, then : {"idle", "split_add"}, from : Int, to : Int]

(* Every variable has its type.                                            *)
RzTypeOK ==
    /\ rz_program \in RzPrograms
    /\ rz_size \in Int /\ rz_size >= 0 /\ rz_works \in Int /\ rz_items \in Int /\ rz_count \in Int
    /\ rz_target \in Int /\ rz_target >= 1
    /\ rz_mutex \in RzAgents \cup {RzNobody}
    /\ rz_pc \in [RzAgents -> RzPCs]
    /\ rz_frame \in [RzAgents -> RzFrames]

(* The resize mutex is held by the one who works on the table.             *)
RzLocked == \A t \in RzAgents : rz_mutex = t <=> rz_pc[t] \in RzHolding

(* No resize ends up with a table of size zero.                            *)
RzPositive ==
    \A t \in RzAgents :
        /\ rz_pc[t] \in {"init", "grown", "fini"} => rz_frame[t].from >= 1
        /\ rz_pc[t] = "shrink" => rz_frame[t].count >= 1

(* The worker only resizes, and has nothing to do for a table that does    *)
(* not resize itself.                                                      *)
RzAutomatic ==
    /\ rz_pc[RzWorker] \in {"idle", "lock"} \cup RzHolding
    /\ ~ rz_program.auto => /\ rz_works = 0 /\ rz_pc[RzWorker] = "idle"
                            /\ \A t \in RzThreads : rz_pc[t] \notin RzAsking

(* Who destroys the table is alone with the worker.                        *)
RzFlushing ==
    \A t \in RzThreads : rz_pc[t] = "flush" =>
        rz_size # 0 /\ \A u \in RzThreads : u # t => rz_pc[u] = "idle"

(* The inductive invariant of the resize control.                          *)
RzIInv ==
    /\ RzTypeOK /\ RzLocked /\ RzPositive /\ RzAutomatic /\ RzFlushing
    /\ LfhtNoResizeAfterDestroy

(* Powers of two are integers.                                             *)
LEMMA RzTwo == \A n \in Nat : 2^n \in Int
OBVIOUS

(* So are the constants of the split counters.                             *)
LEMMA RzCommit == Commit \in Int /\ SplitCounters \in Int
BY RzTwo, LfhtResizeAssumption DEF Commit, SplitCounters

(* And the order of a count.                                               *)
LEMMA RzOrder == \A x : CountOrder(x) \in Nat
<1> SUFFICES ASSUME NEW x PROVE CountOrder(x) \in Nat
  OBVIOUS
<1> DEFINE all == 0 .. (RzMaxBuckets + RzMaxItems)
           less == {i \in all : 2^i < x}
<1>1. IsFiniteSet(all)
  BY LfhtResizeAssumption, FS_Interval
<1>2. IsFiniteSet(less)
  BY <1>1, FS_Subset
<1>3. Cardinality(less) \in Nat
  BY <1>2, FS_CardinalityType
<1> QED BY <1>3 DEF CountOrder

(* The least and the largest of two numbers.                               *)
LEMMA RzMinMax ==
    ASSUME NEW a \in Int, NEW b \in Int
    PROVE  /\ Min({a, b}) \in {a, b} /\ Min({a, b}) <= a /\ Min({a, b}) <= b
           /\ Max({a, b}) \in {a, b} /\ Max({a, b}) >= a /\ Max({a, b}) >= b
<1>1. \E x \in {a, b} : \A y \in {a, b} : x <= y
  OBVIOUS
<1>2. \E x \in {a, b} : \A y \in {a, b} : x >= y
  OBVIOUS
<1> QED BY <1>1, <1>2 DEF Min, Max

(* The tables that clients ask for have a size.                            *)
LEMMA RzProgram ==
    ASSUME NEW p \in RzPrograms
    PROVE  /\ p.auto \in BOOLEAN /\ p.max \in Int /\ p.max >= 1
           /\ p.init \in Int /\ p.init >= 1 /\ \A n \in p.sizes : n \in Int /\ n >= 1
<1>1. RzMaxBuckets \in Nat
  BY LfhtResizeAssumption
<1>2. p.max \in Int /\ p.max >= 1
  BY <1>1, LfhtResizeAssumption
<1> QED BY <1>2, LfhtResizeAssumption

(* A thread that starts a call has clean variables.                        *)
LEMMA RzNoFrameType ==
    /\ RzNoFrame \in RzFrames
    /\ \A n \in Int : [RzNoFrame EXCEPT !.size = n] \in RzFrames
<1>1. 0 \in Int
  OBVIOUS
<1>2. \A z \in Int : [size |-> z, count |-> z, then |-> "idle", from |-> z, to |-> z] \in RzFrames
  BY DEF RzFrames
<1>3. RzNoFrame \in RzFrames
  BY <1>1, <1>2 DEF RzNoFrame
<1> QED BY <1>3 DEF RzFrames

(* A thread that sets its variables leaves those of others alone.          *)
LEMMA RzFrameSet ==
    ASSUME RzTypeOK, NEW t \in RzAgents, NEW f \in RzFrames,
           rz_frame' = [rz_frame EXCEPT ![t] = f]
    PROVE  /\ rz_frame' \in [RzAgents -> RzFrames] /\ rz_frame'[t] = f
           /\ \A u \in RzAgents : u # t => rz_frame'[u] = rz_frame[u]
BY DEF RzTypeOK

(* A thread asks for a lazy resize of tables with CDS_LFHT_AUTO_RESIZE     *)
(* only.                                                                   *)
LEMMA RzAskingAuto ==
    ASSUME RzIInv, NEW t \in RzThreads, rz_pc[t] \in RzAsking
    PROVE  rz_program.auto
BY RzProgram DEF RzIInv, RzTypeOK, RzAutomatic

(* A request ends where the thread was to go on.                           *)
LEMMA RzAsked ==
    ASSUME RzTypeOK, NEW t \in RzThreads, Asked(t)
    PROVE  /\ rz_pc' = [rz_pc EXCEPT ![t] = rz_frame[t].then]
           /\ rz_frame[t].then \in {"idle", "split_add"}
           /\ rz_frame' \in [RzAgents -> RzFrames]
           /\ \A u \in RzAgents : u # t => rz_frame'[u] = rz_frame[u]
<1>1. t \in RzAgents /\ rz_frame[t] \in RzFrames
  BY DEF RzTypeOK, RzAgents
<1>2. 0 \in Int
  OBVIOUS
<1>3. \A z \in Int : [rz_frame[t] EXCEPT !.count = z, !.then = "idle"] \in RzFrames
  BY <1>1 DEF RzFrames
<1>4. PICK f \in RzFrames : rz_frame' = [rz_frame EXCEPT ![t] = f]
  BY <1>1, <1>2, <1>3, RzNoFrameType DEF Asked, RzSet
<1>5. rz_frame' \in [RzAgents -> RzFrames] /\ \A u \in RzAgents : u # t => rz_frame'[u] = rz_frame[u]
  BY <1>1, <1>4, RzFrameSet
<1>6. rz_frame[t].then \in {"idle", "split_add"}
  BY <1>1 DEF RzFrames
<1> QED BY <1>5, <1>6 DEF Asked, RzGoto

(* The end of a call.                                                      *)
LEMMA RzFinished ==
    ASSUME RzTypeOK, NEW t \in RzAgents, RzFinish(t)
    PROVE  /\ rz_pc' = [rz_pc EXCEPT ![t] = "idle"]
           /\ rz_frame' \in [RzAgents -> RzFrames]
           /\ \A u \in RzAgents : u # t => rz_frame'[u] = rz_frame[u]
BY RzNoFrameType, RzFrameSet DEF RzFinish, RzGoto, RzSet

(* What cds_lfht_resize_lazy_count() leads to.                             *)
LEMMA RzLazyCount ==
    ASSUME RzTypeOK, NEW t \in RzThreads, NEW count \in Int, LazyCount(t, count)
    PROVE  \E pc \in {"idle", "grow", "shrink"} :
               /\ rz_pc' = [rz_pc EXCEPT ![t] = pc]
               /\ pc # "idle" => rz_program.auto
               /\ pc = "shrink" => rz_frame'[t].count >= 1
               /\ rz_frame' \in [RzAgents -> RzFrames]
               /\ \A u \in RzAgents : u # t => rz_frame'[u] = rz_frame[u]
<1> DEFINE want == Min({Max({count, 1}), rz_program.max})
<1>1. t \in RzAgents /\ rz_frame[t] \in RzFrames /\ rz_frame[t].size \in Int
  BY DEF RzTypeOK, RzAgents, RzFrames
<1>2. want \in Int /\ want >= 1
  <2>1. rz_program.max \in Int /\ rz_program.max >= 1
    BY RzProgram DEF RzTypeOK
  <2>2. \A b \in Int : Max({count, b}) \in Int /\ Max({count, b}) >= b
    BY RzMinMax
  <2>3. 1 \in Int
    OBVIOUS
  <2>4. Max({count, 1}) \in Int /\ Max({count, 1}) >= 1
    BY <2>2, <2>3
  <2> QED BY <2>1, <2>4, RzMinMax
<1> HIDE DEF want
<1>3. CASE ~ rz_program.auto \/ want = rz_frame[t].size
  BY <1>1, <1>3, RzFinished DEF LazyCount, want
<1>4. CASE ~ (~ rz_program.auto \/ want = rz_frame[t].size)
  <2>1. /\ rz_frame' = [rz_frame EXCEPT ![t] = [rz_frame[t] EXCEPT !.count = want]]
        /\ rz_pc' = [rz_pc EXCEPT ![t] = IF want > rz_frame[t].size THEN "grow" ELSE "shrink"]
    BY <1>4 DEF LazyCount, want, RzSet, RzGoto
  <2>2. [rz_frame[t] EXCEPT !.count = want] \in RzFrames /\ [rz_frame[t] EXCEPT !.count = want].count = want
    BY <1>1, <1>2 DEF RzFrames
  <2>3. /\ rz_frame' \in [RzAgents -> RzFrames] /\ rz_frame'[t].count = want
        /\ \A u \in RzAgents : u # t => rz_frame'[u] = rz_frame[u]
    BY <1>1, <2>1, <2>2, RzFrameSet
  <2> QED BY <1>2, <1>4, <2>1, <2>3
<1> QED BY <1>3, <1>4

(* A step of a call outside the resize loop.                               *)
LEMMA RzCallStep ==
    ASSUME RzIInv, NEW t \in RzThreads, NEW pc \in RzPCs,
           rz_pc[t] \notin RzHolding \cup {"flush"}, pc \notin RzHolding \cup {"flush"},
           rz_pc[t] = "idle" => rz_size # 0 /\ \A a \in RzThreads : rz_pc[a] # "flush",
           pc \in RzAsking => rz_program.auto,
           rz_pc' = [rz_pc EXCEPT ![t] = pc],
           UNCHANGED <<rz_program, rz_size, rz_mutex>>,
           rz_works' \in Int, rz_works' = rz_works \/ rz_pc[t] \in RzAsking,
           rz_items' \in Int, rz_count' \in Int, rz_target' \in Int, rz_target' >= 1,
           rz_frame' \in [RzAgents -> RzFrames],
           \A u \in RzAgents : u # t => rz_frame'[u] = rz_frame[u],
           pc = "shrink" => rz_frame'[t].count >= 1
    PROVE  RzIInv'
<1>1. /\ t \in RzAgents /\ t # RzWorker /\ RzWorker \in RzAgents /\ RzThreads \subseteq RzAgents
      /\ rz_pc'[t] = pc /\ \A u \in RzAgents : u # t => rz_pc'[u] = rz_pc[u]
  BY LfhtResizeAssumption DEF RzAgents, RzIInv, RzTypeOK
<1>2. RzTypeOK'
  BY <1>1 DEF RzIInv, RzTypeOK, RzAgents
<1>3. RzLocked'
  BY <1>1 DEF RzIInv, RzLocked
<1>4. RzPositive'
  BY <1>1 DEF RzIInv, RzPositive, RzHolding
<1>5. RzAutomatic'
  BY <1>1 DEF RzIInv, RzAutomatic
<1>6. RzFlushing'
  BY <1>1 DEF RzIInv, RzFlushing
<1>7. LfhtNoResizeAfterDestroy'
  BY <1>1 DEF RzIInv, LfhtNoResizeAfterDestroy
<1> QED BY <1>2, <1>3, <1>4, <1>5, <1>6, <1>7 DEF RzIInv

(* A step of the resize loop, by a caller or by the worker.                *)
LEMMA RzLoopStep ==
    ASSUME RzIInv, NEW t \in RzAgents, NEW pc \in RzHolding \cup {"idle"},
           rz_pc[t] \in RzHolding \cup {"lock"},
           rz_pc' = [rz_pc EXCEPT ![t] = pc],
           UNCHANGED <<rz_program, rz_works, rz_items, rz_count>>,
           rz_size' = rz_size \/ (rz_size' \in Int /\ rz_size' >= 1),
           rz_target' \in Int, rz_target' >= 1,
           \/ rz_pc[t] \in RzHolding /\ pc \in RzHolding /\ rz_mutex' = rz_mutex
           \/ rz_pc[t] \in RzHolding /\ pc = "idle" /\ rz_mutex' = RzNobody
           \/ rz_pc[t] = "lock" /\ pc \in RzHolding /\ rz_mutex = RzNobody /\ rz_mutex' = t,
           rz_frame' \in [RzAgents -> RzFrames],
           \A u \in RzAgents : u # t => rz_frame'[u] = rz_frame[u],
           pc \in {"init", "grown", "fini"} => rz_frame'[t].from >= 1
    PROVE  RzIInv'
<1>1. /\ RzWorker \in RzAgents /\ RzThreads \subseteq RzAgents /\ RzNobody \notin RzAgents
      /\ rz_pc'[t] = pc /\ \A u \in RzAgents : u # t => rz_pc'[u] = rz_pc[u]
  BY LfhtResizeAssumption DEF RzAgents, RzIInv, RzTypeOK
<1>2. pc \in RzPCs /\ pc \notin RzAsking /\ pc # "flush" /\ pc # "lock" /\ "idle" \notin RzHolding
  BY DEF RzPCs, RzHolding, RzAsking, RzElsewhere
<1>3. rz_pc[t] \notin {"idle", "flush"}
  BY DEF RzHolding
<1>4. rz_size # 0
  BY <1>3 DEF RzIInv, LfhtNoResizeAfterDestroy
<1>5. RzTypeOK'
  <2>1. rz_pc' \in [RzAgents -> RzPCs] /\ rz_mutex' \in RzAgents \cup {RzNobody}
    BY <1>2 DEF RzIInv, RzTypeOK
  <2>2. rz_size' \in Int /\ rz_size' >= 0
    BY DEF RzIInv, RzTypeOK
  <2> QED BY <2>1, <2>2 DEF RzIInv, RzTypeOK
<1>6. RzLocked'
  BY <1>1, <1>2, LfhtResizeAssumption DEF RzIInv, RzLocked
<1>7. RzPositive'
  BY <1>1, <1>2 DEF RzIInv, RzPositive, RzHolding
<1>8. RzAutomatic'
  BY <1>1, <1>2, <1>3 DEF RzIInv, RzAutomatic
<1>9. RzFlushing'
  BY <1>1, <1>2, <1>3, <1>4 DEF RzIInv, RzFlushing
<1>10. LfhtNoResizeAfterDestroy'
  BY <1>4 DEF LfhtNoResizeAfterDestroy
<1> QED BY <1>5, <1>6, <1>7, <1>8, <1>9, <1>10 DEF RzIInv

(* Every step preserves the invariant.                                     *)
LEMMA RzPreserves ==
    ASSUME RzIInv, [LfhtResizeNext]_rzvars
    PROVE  RzIInv'
<1>0. /\ RzThreads \subseteq RzAgents /\ RzWorker \in RzAgents
      /\ RzTypeOK /\ RzLocked /\ RzPositive /\ RzAutomatic /\ RzFlushing
  BY DEF RzIInv, RzAgents
<1>t. /\ rz_size \in Int /\ rz_size >= 0 /\ rz_works \in Int /\ rz_items \in Int /\ rz_count \in Int
      /\ rz_target \in Int /\ rz_target >= 1
      /\ rz_frame \in [RzAgents -> RzFrames] /\ rz_pc \in [RzAgents -> RzPCs]
      /\ \A t \in RzAgents : /\ rz_frame[t] \in RzFrames
                             /\ rz_frame[t].size \in Int /\ rz_frame[t].count \in Int
                             /\ rz_frame[t].from \in Int /\ rz_frame[t].to \in Int
  BY <1>0 DEF RzTypeOK, RzFrames
<1>1. ASSUME NEW t \in RzThreads, cds_lfht_count_add(t)
      PROVE  RzIInv'
  <2>1. /\ rz_pc[t] = "idle" /\ rz_size # 0 /\ \A a \in RzThreads : rz_pc[a] # "flush"
        /\ \E pc \in {"chain", "split_add"} : rz_pc' = [rz_pc EXCEPT ![t] = pc]
        /\ rz_items' = rz_items + 1
        /\ rz_frame' = [rz_frame EXCEPT ![t] = [RzNoFrame EXCEPT !.size = rz_size]]
        /\ UNCHANGED <<rz_program, rz_size, rz_mutex, rz_target, rz_works, rz_count>>
    BY <1>1 DEF cds_lfht_count_add, RzMayCall, RzGoto, RzSet
  <2>2. /\ rz_frame' \in [RzAgents -> RzFrames]
        /\ \A u \in RzAgents : u # t => rz_frame'[u] = rz_frame[u]
    BY <1>0, <1>t, <2>1, RzNoFrameType, RzFrameSet
  <2>3. PICK pc \in {"chain", "split_add"} : rz_pc' = [rz_pc EXCEPT ![t] = pc]
    BY <2>1
  <2>4. rz_items' \in Int
    BY <1>t, <2>1
  <2>5. pc \in RzPCs \ (RzHolding \cup RzAsking \cup {"flush"}) /\ pc # "shrink"
    BY DEF RzPCs, RzHolding, RzAsking, RzElsewhere
  <2> QED BY <1>t, <2>1, <2>2, <2>3, <2>4, <2>5, RzCallStep DEF RzHolding
<1>2. ASSUME NEW t \in RzThreads, cds_lfht_count_del(t)
      PROVE  RzIInv'
  <2>1. /\ rz_pc[t] = "idle" /\ rz_size # 0 /\ \A a \in RzThreads : rz_pc[a] # "flush"
        /\ \E pc \in {"split_del"} : rz_pc' = [rz_pc EXCEPT ![t] = pc]
        /\ rz_items' = rz_items - 1
        /\ rz_frame' = [rz_frame EXCEPT ![t] = [RzNoFrame EXCEPT !.size = rz_size]]
        /\ UNCHANGED <<rz_program, rz_size, rz_mutex, rz_target, rz_works, rz_count>>
    BY <1>2 DEF cds_lfht_count_del, RzMayCall, RzGoto, RzSet
  <2>2. /\ rz_frame' \in [RzAgents -> RzFrames]
        /\ \A u \in RzAgents : u # t => rz_frame'[u] = rz_frame[u]
    BY <1>0, <1>t, <2>1, RzNoFrameType, RzFrameSet
  <2>3. PICK pc \in {"split_del"} : rz_pc' = [rz_pc EXCEPT ![t] = pc]
    BY <2>1
  <2>4. rz_items' \in Int
    BY <1>t, <2>1
  <2>5. pc \in RzPCs \ (RzHolding \cup RzAsking \cup {"flush"}) /\ pc # "shrink"
    BY DEF RzPCs, RzHolding, RzAsking, RzElsewhere
  <2> QED BY <1>t, <2>1, <2>2, <2>3, <2>4, <2>5, RzCallStep DEF RzHolding
<1>3. ASSUME NEW t \in RzThreads, check_resize(t), rz_pc' = [rz_pc EXCEPT ![t] = "grow"]
      PROVE  RzIInv'
  <2> DEFINE f == rz_frame[t]
  <2>1. /\ rz_pc[t] = "chain"
        /\ UNCHANGED <<rz_program, rz_size, rz_mutex, rz_target, rz_works, rz_items, rz_count>>
    BY <1>3 DEF check_resize
  <2>2. /\ rz_program.auto
        /\ \E chain \in CHAIN_LEN_RESIZE_THRESHOLD..rz_items :
              /\ Growth(f.size, chain) > 0
              /\ rz_frame' = [rz_frame EXCEPT ![t] = [f EXCEPT
                     !.count = Min({f.size * 2^Growth(f.size, chain), rz_program.max}),
                     !.then = "split_add"]]
    <3>1. rz_pc' # [rz_pc EXCEPT ![t] = "split_add"]
      BY <1>0, <1>t, <1>3
    <3> QED BY <1>3, <3>1 DEF check_resize, RzSet, RzGoto
  <2>3. PICK chain \in CHAIN_LEN_RESIZE_THRESHOLD..rz_items :
            /\ Growth(f.size, chain) > 0
            /\ rz_frame' = [rz_frame EXCEPT ![t] = [f EXCEPT
                   !.count = Min({f.size * 2^Growth(f.size, chain), rz_program.max}),
                   !.then = "split_add"]]
    BY <2>2
  <2>4. Growth(f.size, chain) \in Nat
    <3>1. Growth(f.size, chain) \in Int
      BY RzOrder, LfhtResizeAssumption DEF Growth
    <3> QED BY <2>3, <3>1
  <2>5. f.size * 2^Growth(f.size, chain) \in Int
    BY <1>0, <1>t, <2>4, RzTwo
  <2>6. Min({f.size * 2^Growth(f.size, chain), rz_program.max}) \in Int
    BY <1>0, <2>5, RzMinMax, RzProgram DEF RzTypeOK
  <2>7. \A c \in Int : [f EXCEPT !.count = c, !.then = "split_add"] \in RzFrames
    BY <1>0, <1>t DEF RzFrames
  <2>8. /\ rz_frame' \in [RzAgents -> RzFrames]
        /\ \A u \in RzAgents : u # t => rz_frame'[u] = rz_frame[u]
    BY <1>0, <2>3, <2>6, <2>7, RzFrameSet
  <2> QED BY <1>t, <1>3, <2>1, <2>2, <2>8, RzCallStep DEF RzPCs, RzHolding, RzAsking, RzElsewhere
<1>4. ASSUME NEW t \in RzThreads, check_resize(t), rz_pc' # [rz_pc EXCEPT ![t] = "grow"]
      PROVE  RzIInv'
  <2>1. /\ rz_pc[t] = "chain" /\ rz_pc' = [rz_pc EXCEPT ![t] = "split_add"] /\ rz_frame' = rz_frame
        /\ UNCHANGED <<rz_program, rz_size, rz_mutex, rz_target, rz_works, rz_items, rz_count>>
    BY <1>4 DEF check_resize, RzGoto
  <2> QED BY <1>t, <2>1, RzCallStep DEF RzPCs, RzHolding, RzAsking, RzElsewhere
<1>5. ASSUME NEW t \in RzThreads, NEW which, NEW split \in {"split_add", "split_del"},
             NEW count \in {"count_add", "count_del"}, SplitCount(t, which, split, count)
      PROVE  RzIInv'
  <2>1. /\ rz_pc[t] = split
        /\ RzFinish(t) \/ (rz_pc' = [rz_pc EXCEPT ![t] = count] /\ rz_frame' = rz_frame)
        /\ UNCHANGED <<rz_program, rz_size, rz_mutex, rz_target, rz_works, rz_items, rz_count>>
    BY <1>5 DEF SplitCount, RzGoto
  <2>2. CASE RzFinish(t)
    <3>1. /\ rz_pc' = [rz_pc EXCEPT ![t] = "idle"] /\ rz_frame' \in [RzAgents -> RzFrames]
          /\ \A u \in RzAgents : u # t => rz_frame'[u] = rz_frame[u]
      BY <1>0, <2>2, RzFinished
    <3> QED BY <1>t, <2>1, <3>1, RzCallStep DEF RzPCs, RzHolding, RzAsking, RzElsewhere
  <2>3. CASE rz_pc' = [rz_pc EXCEPT ![t] = count] /\ rz_frame' = rz_frame
    BY <1>t, <2>1, <2>3, RzCallStep DEF RzPCs, RzHolding, RzAsking, RzElsewhere
  <2> QED BY <2>1, <2>2, <2>3
<1>6. ASSUME NEW t \in RzThreads, ht_count_add(t)
      PROVE  RzIInv'
  <2>1. /\ rz_pc[t] = "count_add"
        /\ rz_count' = rz_count + Commit /\ rz_count' \in Int
        /\ LazyCount(t, rz_count + Commit) \/ RzFinish(t)
        /\ UNCHANGED <<rz_program, rz_size, rz_mutex, rz_target, rz_works, rz_items>>
    BY <1>t, <1>6, RzCommit DEF ht_count_add
  <2>2. \E pc \in {"idle", "grow", "shrink"} :
            /\ rz_pc' = [rz_pc EXCEPT ![t] = pc]
            /\ pc # "idle" => rz_program.auto
            /\ pc = "shrink" => rz_frame'[t].count >= 1
            /\ rz_frame' \in [RzAgents -> RzFrames]
            /\ \A u \in RzAgents : u # t => rz_frame'[u] = rz_frame[u]
    BY <1>0, <2>1, RzLazyCount, RzFinished
  <2> QED BY <1>t, <2>1, <2>2, RzCallStep DEF RzPCs, RzHolding, RzAsking, RzElsewhere
<1>7. ASSUME NEW t \in RzThreads, ht_count_del(t)
      PROVE  RzIInv'
  <2>1. /\ rz_pc[t] = "count_del"
        /\ rz_count' = rz_count - Commit /\ rz_count' \in Int
        /\ LazyCount(t, rz_count - Commit) \/ RzFinish(t)
        /\ UNCHANGED <<rz_program, rz_size, rz_mutex, rz_target, rz_works, rz_items>>
    BY <1>t, <1>7, RzCommit DEF ht_count_del
  <2>2. \E pc \in {"idle", "grow", "shrink"} :
            /\ rz_pc' = [rz_pc EXCEPT ![t] = pc]
            /\ pc # "idle" => rz_program.auto
            /\ pc = "shrink" => rz_frame'[t].count >= 1
            /\ rz_frame' \in [RzAgents -> RzFrames]
            /\ \A u \in RzAgents : u # t => rz_frame'[u] = rz_frame[u]
    BY <1>0, <2>1, RzLazyCount, RzFinished
  <2> QED BY <1>t, <2>1, <2>2, RzCallStep DEF RzPCs, RzHolding, RzAsking, RzElsewhere
<1>8. ASSUME NEW t \in RzThreads, resize_target_grow(t)
      PROVE  RzIInv'
  <2>1. /\ rz_pc[t] = "grow" /\ rz_program.auto
        /\ rz_target' \in Int /\ rz_target' >= 1
        /\ Asked(t) \/ (rz_pc' = [rz_pc EXCEPT ![t] = "launch"] /\ rz_frame' = rz_frame)
        /\ UNCHANGED <<rz_program, rz_size, rz_mutex, rz_works, rz_items, rz_count>>
    <3>1. /\ rz_target' = Max({rz_target, rz_frame[t].count}) /\ rz_pc[t] = "grow"
          /\ Asked(t) \/ (rz_pc' = [rz_pc EXCEPT ![t] = "launch"] /\ rz_frame' = rz_frame)
          /\ UNCHANGED <<rz_program, rz_size, rz_mutex, rz_works, rz_items, rz_count>>
      BY <1>8 DEF resize_target_grow, RzGoto
    <3>2. rz_program.auto
      BY <3>1, RzAskingAuto DEF RzAsking
    <3>3. rz_target' \in Int /\ rz_target' >= 1
      <4>1. rz_frame[t].count \in Int
        BY <1>0, <1>t
      <4>2. rz_target' \in {rz_target, rz_frame[t].count} /\ rz_target' >= rz_target
        BY <1>t, <3>1, <4>1, RzMinMax
      <4> QED BY <1>t, <4>1, <4>2
    <3> QED BY <3>1, <3>2, <3>3
  <2>2. CASE Asked(t)
    <3>1. \E pc \in {"idle", "split_add"} : rz_pc' = [rz_pc EXCEPT ![t] = pc]
      BY <1>0, <2>2, RzAsked
    <3>2. /\ rz_frame' \in [RzAgents -> RzFrames]
          /\ \A u \in RzAgents : u # t => rz_frame'[u] = rz_frame[u]
      BY <1>0, <2>2, RzAsked
    <3> QED BY <1>t, <2>1, <3>1, <3>2, RzCallStep DEF RzPCs, RzHolding, RzAsking, RzElsewhere
  <2>3. CASE rz_pc' = [rz_pc EXCEPT ![t] = "launch"] /\ rz_frame' = rz_frame
    BY <1>t, <2>1, <2>3, RzCallStep DEF RzPCs, RzHolding, RzAsking, RzElsewhere
  <2> QED BY <2>1, <2>2, <2>3
<1>9. ASSUME NEW t \in RzThreads, LazyShrink(t)
      PROVE  RzIInv'
  <2> DEFINE f == rz_frame[t]
  <2>1. /\ rz_pc[t] = "shrink" /\ rz_program.auto /\ f.count >= 1
        /\ UNCHANGED <<rz_program, rz_size, rz_mutex, rz_works, rz_items, rz_count>>
        /\ rz_target' \in Int /\ rz_target' >= 1
    <3>1. /\ rz_pc[t] = "shrink" /\ rz_target' \in {rz_target, f.count}
          /\ UNCHANGED <<rz_program, rz_size, rz_mutex, rz_works, rz_items, rz_count>>
      BY <1>9 DEF LazyShrink
    <3>2. rz_program.auto /\ f.count >= 1
      BY <1>0, <3>1, RzProgram DEF RzTypeOK, RzAutomatic, RzAsking, RzPositive
    <3> QED BY <1>0, <1>t, <3>1, <3>2
  <2>2. CASE Asked(t)
    <3>1. \E pc \in {"idle", "split_add"} : rz_pc' = [rz_pc EXCEPT ![t] = pc]
      BY <1>0, <2>2, RzAsked
    <3>2. /\ rz_frame' \in [RzAgents -> RzFrames]
          /\ \A u \in RzAgents : u # t => rz_frame'[u] = rz_frame[u]
      BY <1>0, <2>2, RzAsked
    <3> QED BY <1>t, <2>1, <3>1, <3>2, RzCallStep DEF RzPCs, RzHolding, RzAsking, RzElsewhere
  <2>3. CASE rz_pc' = [rz_pc EXCEPT ![t] = "launch"] /\ rz_frame' = rz_frame
    BY <1>t, <2>1, <2>3, RzCallStep DEF RzPCs, RzHolding, RzAsking, RzElsewhere
  <2>4. CASE rz_frame' = [rz_frame EXCEPT ![t] = [f EXCEPT !.size = rz_target]] /\ rz_pc' = rz_pc
    <3>1. [f EXCEPT !.size = rz_target] \in RzFrames /\ [f EXCEPT !.size = rz_target].count = f.count
      BY <1>0, <1>t DEF RzFrames
    <3>2. /\ rz_frame' \in [RzAgents -> RzFrames] /\ rz_frame'[t].count >= 1
          /\ \A u \in RzAgents : u # t => rz_frame'[u] = rz_frame[u]
      BY <1>0, <2>1, <2>4, <3>1, RzFrameSet
    <3>3. rz_pc' = [rz_pc EXCEPT ![t] = "shrink"]
      BY <1>0, <1>t, <2>1, <2>4
    <3> QED BY <1>t, <2>1, <3>2, <3>3, RzCallStep DEF RzPCs, RzHolding, RzAsking, RzElsewhere
  <2> QED BY <1>9, <2>2, <2>3, <2>4 DEF LazyShrink, RzGoto, RzSet
<1>10. ASSUME NEW t \in RzThreads, lazy_launch(t)
      PROVE  RzIInv'
  <2>1. /\ rz_pc[t] = "launch" /\ rz_program.auto
        /\ Asked(t) \/ (rz_pc' = [rz_pc EXCEPT ![t] = "queue"] /\ rz_frame' = rz_frame)
        /\ UNCHANGED <<rz_program, rz_size, rz_mutex, rz_target, rz_works, rz_items, rz_count>>
    <3>1. rz_pc[t] = "launch"
      BY <1>10 DEF lazy_launch
    <3>2. rz_program.auto
      BY <3>1, RzAskingAuto DEF RzAsking
    <3> QED BY <1>10, <3>1, <3>2 DEF lazy_launch, RzGoto
  <2>2. CASE Asked(t)
    <3>1. \E pc \in {"idle", "split_add"} : rz_pc' = [rz_pc EXCEPT ![t] = pc]
      BY <1>0, <2>2, RzAsked
    <3>2. /\ rz_frame' \in [RzAgents -> RzFrames]
          /\ \A u \in RzAgents : u # t => rz_frame'[u] = rz_frame[u]
      BY <1>0, <2>2, RzAsked
    <3> QED BY <1>t, <2>1, <3>1, <3>2, RzCallStep DEF RzPCs, RzHolding, RzAsking, RzElsewhere
  <2>3. CASE rz_pc' = [rz_pc EXCEPT ![t] = "queue"] /\ rz_frame' = rz_frame
    BY <1>t, <2>1, <2>3, RzCallStep DEF RzPCs, RzHolding, RzAsking, RzElsewhere
  <2> QED BY <2>1, <2>2, <2>3
<1>11. ASSUME NEW t \in RzThreads, LaunchQueue(t)
      PROVE  RzIInv'
  <2>1. /\ rz_pc[t] = "queue" /\ rz_pc' = [rz_pc EXCEPT ![t] = "launched"] /\ rz_works' = rz_works + 1
        /\ UNCHANGED <<rz_program, rz_size, rz_mutex, rz_target, rz_items, rz_count, rz_frame>>
    BY <1>11 DEF LaunchQueue, RzGoto
  <2>2. rz_program.auto
    BY <2>1, RzAskingAuto DEF RzAsking
  <2>3. rz_works' \in Int
    BY <1>t, <2>1
  <2> QED BY <1>t, <2>1, <2>2, <2>3, RzCallStep DEF RzPCs, RzHolding, RzAsking, RzElsewhere
<1>12. ASSUME NEW t \in RzThreads, LaunchStore(t)
      PROVE  RzIInv'
  <2>1. /\ rz_pc[t] = "launched" /\ Asked(t)
        /\ UNCHANGED <<rz_program, rz_size, rz_mutex, rz_target, rz_works, rz_items, rz_count>>
    BY <1>12 DEF LaunchStore
  <2>2. CASE Asked(t)
    <3>1. \E pc \in {"idle", "split_add"} : rz_pc' = [rz_pc EXCEPT ![t] = pc]
      BY <1>0, <2>2, RzAsked
    <3>2. /\ rz_frame' \in [RzAgents -> RzFrames]
          /\ \A u \in RzAgents : u # t => rz_frame'[u] = rz_frame[u]
      BY <1>0, <2>2, RzAsked
    <3> QED BY <1>t, <2>1, <3>1, <3>2, RzCallStep DEF RzPCs, RzHolding, RzAsking, RzElsewhere
  <2> QED BY <2>1, <2>2
<1>13. ASSUME NEW t \in RzThreads, NEW n \in rz_program.sizes, cds_lfht_resize(t, n)
      PROVE  RzIInv'
  <2>1. /\ rz_pc[t] = "idle" /\ rz_size # 0 /\ \A a \in RzThreads : rz_pc[a] # "flush"
        /\ rz_pc' = [rz_pc EXCEPT ![t] = "initiate"] /\ rz_target' = n
        /\ UNCHANGED <<rz_program, rz_size, rz_mutex, rz_works, rz_items, rz_count, rz_frame>>
    BY <1>13 DEF cds_lfht_resize, RzMayCall, RzGoto
  <2>2. n \in Int /\ n >= 1
    BY <1>0, RzProgram DEF RzTypeOK
  <2> QED BY <1>t, <2>1, <2>2, RzCallStep DEF RzPCs, RzHolding, RzAsking, RzElsewhere
<1>14. ASSUME NEW t \in RzThreads, ResizeInitiated(t)
      PROVE  RzIInv'
  <2>1. /\ rz_pc[t] = "initiate" /\ rz_pc' = [rz_pc EXCEPT ![t] = "lock"]
        /\ UNCHANGED <<rz_program, rz_size, rz_mutex, rz_target, rz_works, rz_items, rz_count, rz_frame>>
    BY <1>14 DEF ResizeInitiated, RzGoto
  <2> QED BY <1>t, <2>1, RzCallStep DEF RzPCs, RzHolding, RzAsking, RzElsewhere
<1>15. ASSUME do_resize_cb
      PROVE  RzIInv'
  <2>1. /\ rz_pc[RzWorker] = "idle" /\ rz_works > 0 /\ rz_works' = rz_works - 1
        /\ rz_pc'[RzWorker] = "lock" /\ \A u \in RzAgents : u # RzWorker => rz_pc'[u] = rz_pc[u]
        /\ UNCHANGED <<rz_program, rz_size, rz_mutex, rz_target, rz_items, rz_count, rz_frame>>
    BY <1>0, <1>t, <1>15 DEF do_resize_cb, RzGoto
  <2>2. rz_size # 0 /\ rz_program.auto /\ RzWorker \notin RzThreads
    BY <1>0, <1>t, <2>1, LfhtResizeAssumption, RzProgram
       DEF RzIInv, RzTypeOK, RzAutomatic, LfhtNoResizeAfterDestroy
  <2>3. RzTypeOK'
    <3>1. rz_pc' \in [RzAgents -> RzPCs]
      BY <1>0, <1>t, <1>15 DEF do_resize_cb, RzGoto, RzPCs, RzElsewhere
    <3> QED BY <1>0, <1>t, <2>1, <3>1 DEF RzTypeOK
  <2>4. RzLocked' /\ RzPositive'
    BY <1>0, <2>1 DEF RzLocked, RzPositive, RzHolding
  <2>5. RzAutomatic'
    BY <1>0, <2>1, <2>2 DEF RzAutomatic
  <2>6. RzFlushing' /\ LfhtNoResizeAfterDestroy'
    BY <1>0, <2>1, <2>2 DEF RzFlushing, LfhtNoResizeAfterDestroy
  <2> QED BY <2>3, <2>4, <2>5, <2>6 DEF RzIInv
<1>16. ASSUME NEW t \in RzThreads, cds_lfht_destroy_table(t)
      PROVE  RzIInv'
  <2>1. /\ rz_pc[t] = "idle" /\ rz_size # 0 /\ \A a \in RzThreads : rz_pc[a] = "idle"
        /\ rz_pc'[t] = "flush" /\ \A u \in RzAgents : u # t => rz_pc'[u] = rz_pc[u]
        /\ UNCHANGED <<rz_program, rz_size, rz_mutex, rz_target, rz_works, rz_items, rz_count, rz_frame>>
    BY <1>0, <1>t, <1>16 DEF cds_lfht_destroy_table, RzMayCall, RzGoto
  <2>2. t \in RzAgents /\ t # RzWorker
    BY <1>0, LfhtResizeAssumption
  <2>3. RzTypeOK'
    <3>1. rz_pc' \in [RzAgents -> RzPCs]
      BY <1>0, <1>t, <1>16 DEF cds_lfht_destroy_table, RzGoto, RzPCs, RzElsewhere
    <3> QED BY <1>0, <2>1, <3>1 DEF RzTypeOK
  <2>4. RzLocked' /\ RzPositive'
    BY <1>0, <2>1, <2>2 DEF RzLocked, RzPositive, RzHolding
  <2>5. RzAutomatic'
    BY <1>0, <2>1, <2>2 DEF RzAutomatic, RzAsking
  <2>6. RzFlushing' /\ LfhtNoResizeAfterDestroy'
    BY <1>0, <2>1, <2>2 DEF RzFlushing, LfhtNoResizeAfterDestroy
  <2> QED BY <2>3, <2>4, <2>5, <2>6 DEF RzIInv
<1>17. ASSUME NEW t \in RzThreads, DestroyTable(t)
      PROVE  RzIInv'
  <2>1. /\ rz_pc[t] = "flush" /\ (rz_program.auto => flush_queued_work)
        /\ rz_size' = IF rz_items > 0 THEN rz_size ELSE 0
        /\ rz_pc'[t] = "idle" /\ \A u \in RzAgents : u # t => rz_pc'[u] = rz_pc[u]
        /\ UNCHANGED <<rz_program, rz_mutex, rz_target, rz_works, rz_items, rz_count, rz_frame>>
    BY <1>0, <1>t, <1>17 DEF DestroyTable, RzGoto
  <2>2. /\ t \in RzAgents /\ t # RzWorker /\ rz_size # 0
        /\ rz_works = 0 /\ rz_pc[RzWorker] = "idle"
        /\ \A u \in RzThreads : u # t => rz_pc[u] = "idle"
    BY <1>0, <2>1, LfhtResizeAssumption DEF RzFlushing, RzAutomatic, flush_queued_work
  <2>3. \A u \in RzAgents : rz_pc'[u] = "idle"
    BY <2>1, <2>2 DEF RzAgents
  <2>4. rz_mutex = RzNobody
    <3>1. \A u \in RzAgents : rz_pc[u] \notin RzHolding
      BY <2>1, <2>2 DEF RzAgents, RzHolding
    <3> QED BY <1>0, <3>1 DEF RzTypeOK, RzLocked
  <2>5. RzTypeOK'
    <3>1. rz_pc' \in [RzAgents -> RzPCs]
      BY <1>0, <1>t, <1>17 DEF DestroyTable, RzGoto, RzPCs, RzElsewhere
    <3> QED BY <1>0, <1>t, <2>1, <3>1 DEF RzTypeOK
  <2>6. RzLocked' /\ RzPositive'
    BY <2>1, <2>3, <2>4, LfhtResizeAssumption DEF RzLocked, RzPositive, RzHolding, RzAgents
  <2>7. RzAutomatic'
    BY <1>0, <2>1, <2>2, <2>3 DEF RzAutomatic, RzAsking
  <2>8. RzFlushing' /\ LfhtNoResizeAfterDestroy'
    BY <1>0, <2>1, <2>2, <2>3, <2>4 DEF RzFlushing, LfhtNoResizeAfterDestroy
  <2> QED BY <2>5, <2>6, <2>7, <2>8 DEF RzIInv
<1>18. ASSUME NEW t \in RzAgents, ResizeLock(t)
      PROVE  RzIInv'
  <2>1. /\ rz_pc[t] = "lock" /\ rz_pc' = [rz_pc EXCEPT ![t] = "loop"] /\ rz_mutex = RzNobody /\ rz_mutex' = t
        /\ UNCHANGED <<rz_program, rz_works, rz_items, rz_count, rz_size, rz_target, rz_frame>>
    BY <1>18 DEF ResizeLock, RzGoto
  <2> QED BY <1>t, <2>1, RzLoopStep DEF RzHolding
<1>19. ASSUME NEW t \in RzAgents, ResizeLoop(t)
      PROVE  RzIInv'
  <2>1. /\ rz_pc[t] = "loop"
        /\ UNCHANGED <<rz_program, rz_works, rz_items, rz_count, rz_size, rz_target>>
    BY <1>19 DEF ResizeLoop
  <2>2. CASE rz_mutex' = RzNobody /\ RzFinish(t)
    <3>1. /\ rz_pc' = [rz_pc EXCEPT ![t] = "idle"] /\ rz_frame' \in [RzAgents -> RzFrames]
          /\ \A u \in RzAgents : u # t => rz_frame'[u] = rz_frame[u]
      BY <1>0, <2>2, RzFinished
    <3> QED BY <1>t, <2>1, <2>2, <3>1, RzLoopStep DEF RzHolding
  <2>3. CASE rz_pc' = [rz_pc EXCEPT ![t] = "sizes"] /\ rz_mutex' = rz_mutex /\ rz_frame' = rz_frame
    BY <1>t, <2>1, <2>3, RzLoopStep DEF RzHolding
  <2> QED BY <1>19, <2>2, <2>3 DEF ResizeLoop, RzGoto
<1>20. ASSUME NEW t \in RzAgents, ResizeSizes(t)
      PROVE  RzIInv'
  <2>1. /\ rz_pc[t] = "sizes" /\ rz_size # 0
        /\ rz_frame' = [rz_frame EXCEPT ![t] = [RzNoFrame EXCEPT !.from = rz_size, !.to = rz_target]]
        /\ rz_pc' = [rz_pc EXCEPT ![t] = IF rz_size < rz_target THEN "init"
                                       ELSE IF rz_size > rz_target THEN "fini" ELSE "clear"]
        /\ UNCHANGED <<rz_program, rz_works, rz_items, rz_count, rz_size, rz_target, rz_mutex>>
    BY <1>20 DEF ResizeSizes, RzGoto, RzSet, RzIInv, LfhtNoResizeAfterDestroy
  <2>2. /\ [RzNoFrame EXCEPT !.from = rz_size, !.to = rz_target] \in RzFrames
        /\ [RzNoFrame EXCEPT !.from = rz_size, !.to = rz_target].from = rz_size
    BY <1>t, RzNoFrameType DEF RzFrames
  <2>3. /\ rz_frame' \in [RzAgents -> RzFrames] /\ rz_frame'[t].from = rz_size
        /\ \A u \in RzAgents : u # t => rz_frame'[u] = rz_frame[u]
    BY <1>0, <2>1, <2>2, RzFrameSet
  <2>4. rz_size >= 1
    BY <1>t, <2>1
  <2> QED BY <1>t, <2>1, <2>3, <2>4, RzLoopStep DEF RzHolding
<1>21. ASSUME NEW t \in RzAgents, _do_cds_lfht_grow(t)
      PROVE  RzIInv'
  <2> DEFINE f == rz_frame[t]
  <2>1. /\ rz_pc[t] = "init" /\ rz_frame' = rz_frame
        /\ \E pc \in {"clear", "grown"} : rz_pc' = [rz_pc EXCEPT ![t] = pc]
        /\ rz_target' = rz_target \/ rz_target' = Max({rz_target, Min({4 * f.from, rz_program.max})})
        /\ UNCHANGED <<rz_program, rz_works, rz_items, rz_count, rz_size, rz_mutex>>
    BY <1>21 DEF _do_cds_lfht_grow, RzGoto
  <2>2. rz_target' \in Int /\ rz_target' >= 1
    <3>1. 4 * f.from \in Int /\ rz_program.max \in Int
      BY <1>0, <1>t, RzProgram DEF RzTypeOK
    <3>2. \A x \in Int : Min({x, rz_program.max}) \in Int
      BY <3>1, RzMinMax
    <3>3. \A x \in Int : Max({rz_target, x}) \in {rz_target, x} /\ Max({rz_target, x}) >= rz_target
      BY <1>t, RzMinMax
    <3> QED BY <1>t, <2>1, <3>1, <3>2, <3>3
  <2>3. f.from >= 1
    BY <1>0, <2>1 DEF RzPositive
  <2> QED BY <1>t, <2>1, <2>2, <2>3, RzLoopStep DEF RzHolding
<1>22. ASSUME NEW t \in RzAgents, GrownOrder(t)
      PROVE  RzIInv'
  <2> DEFINE f == rz_frame[t]
  <2>1. /\ rz_pc[t] = "grown" /\ rz_size' = 2 * f.from
        /\ rz_frame' = [rz_frame EXCEPT ![t] = [f EXCEPT !.from = 2 * f.from]]
        /\ \E pc \in {"init", "clear"} : rz_pc' = [rz_pc EXCEPT ![t] = pc]
        /\ UNCHANGED <<rz_program, rz_works, rz_items, rz_count, rz_target, rz_mutex>>
    BY <1>22 DEF GrownOrder, RzGoto, RzSet
  <2>2. 2 * f.from \in Int /\ 2 * f.from >= 1
    BY <1>0, <1>t, <2>1 DEF RzPositive
  <2>3. \A n \in Int : [f EXCEPT !.from = n] \in RzFrames /\ [f EXCEPT !.from = n].from = n
    BY <1>t DEF RzFrames
  <2>4. /\ rz_frame' \in [RzAgents -> RzFrames] /\ rz_frame'[t].from = 2 * f.from
        /\ \A u \in RzAgents : u # t => rz_frame'[u] = rz_frame[u]
    BY <1>0, <2>1, <2>2, <2>3, RzFrameSet
  <2> QED BY <1>t, <2>1, <2>2, <2>4, RzLoopStep DEF RzHolding
<1>23. ASSUME NEW t \in RzAgents, _do_cds_lfht_shrink(t)
      PROVE  RzIInv'
  <2> DEFINE f == rz_frame[t]
             half == f.from \div 2
  <2>1. /\ rz_pc[t] = "fini"
        /\ UNCHANGED <<rz_program, rz_works, rz_items, rz_count, rz_target, rz_mutex>>
    BY <1>23 DEF _do_cds_lfht_shrink
  <2>2. CASE rz_pc' = [rz_pc EXCEPT ![t] = "clear"] /\ rz_size' = rz_size /\ rz_frame' = rz_frame
    BY <1>t, <2>1, <2>2, RzLoopStep DEF RzHolding
  <2>3. CASE /\ rz_target <= half /\ rz_size' = half
             /\ rz_frame' = [rz_frame EXCEPT ![t] = [f EXCEPT !.from = half]]
             /\ \E pc \in {"fini", "clear"} : rz_pc' = [rz_pc EXCEPT ![t] = pc]
    <3>1. half \in Int /\ half >= 1
      BY <1>t, <2>3
    <3>2. \A n \in Int : [f EXCEPT !.from = n] \in RzFrames /\ [f EXCEPT !.from = n].from = n
      BY <1>t DEF RzFrames
    <3>3. /\ rz_frame' \in [RzAgents -> RzFrames] /\ rz_frame'[t].from = half
          /\ \A u \in RzAgents : u # t => rz_frame'[u] = rz_frame[u]
      <4>1. PICK g \in RzFrames : g = [f EXCEPT !.from = half] /\ g.from = half
        BY <3>1, <3>2
      <4>2. RzTypeOK /\ rz_frame' = [rz_frame EXCEPT ![t] = g]
        BY <1>0, <2>3, <4>1
      <4>3. /\ rz_frame' \in [RzAgents -> RzFrames] /\ rz_frame'[t] = g
            /\ \A u \in RzAgents : u # t => rz_frame'[u] = rz_frame[u]
        BY <4>2, RzFrameSet
      <4> QED BY <4>1, <4>3
    <3>4. PICK pc \in {"fini", "clear"} : rz_pc' = [rz_pc EXCEPT ![t] = pc]
      BY <2>3
    <3>5. rz_size' \in Int /\ rz_size' >= 1 /\ rz_frame'[t].from >= 1
      BY <2>3, <3>1, <3>3
    <3> HIDE DEF half
    <3> QED BY <1>t, <2>1, <3>3, <3>4, <3>5, RzLoopStep DEF RzHolding
  <2> QED BY <1>23, <2>2, <2>3 DEF _do_cds_lfht_shrink, RzGoto, RzSet
<1>24. ASSUME NEW t \in RzAgents, ResizeClear(t)
      PROVE  RzIInv'
  <2>1. /\ rz_pc[t] = "clear" /\ rz_pc' = [rz_pc EXCEPT ![t] = "test"]
        /\ rz_frame' = [rz_frame EXCEPT ![t] = RzNoFrame]
        /\ UNCHANGED <<rz_program, rz_works, rz_items, rz_count, rz_size, rz_target, rz_mutex>>
    BY <1>24 DEF ResizeClear, RzGoto, RzSet
  <2>2. /\ rz_frame' \in [RzAgents -> RzFrames]
        /\ \A u \in RzAgents : u # t => rz_frame'[u] = rz_frame[u]
    BY <1>0, <2>1, RzNoFrameType, RzFrameSet
  <2> QED BY <1>t, <2>1, <2>2, RzLoopStep DEF RzHolding
<1>25. ASSUME NEW t \in RzAgents, ResizeTest(t)
      PROVE  RzIInv'
  <2>1. /\ rz_pc[t] = "test" /\ rz_frame' = rz_frame
        /\ UNCHANGED <<rz_program, rz_works, rz_items, rz_count, rz_size, rz_target>>
        /\ \/ rz_mutex' = RzNobody /\ rz_pc' = [rz_pc EXCEPT ![t] = "idle"]
           \/ rz_mutex' = rz_mutex /\ rz_pc' = [rz_pc EXCEPT ![t] = "loop"]
    BY <1>25 DEF ResizeTest, RzGoto
  <2>2. CASE rz_mutex' = RzNobody /\ rz_pc' = [rz_pc EXCEPT ![t] = "idle"]
    BY <1>t, <2>1, <2>2, RzLoopStep DEF RzHolding
  <2>3. CASE rz_mutex' = rz_mutex /\ rz_pc' = [rz_pc EXCEPT ![t] = "loop"]
    BY <1>t, <2>1, <2>3, RzLoopStep DEF RzHolding
  <2> QED BY <2>1, <2>2, <2>3
<1>26. ASSUME UNCHANGED rzvars
      PROVE  RzIInv'
  BY <1>26 DEF rzvars, RzIInv, RzTypeOK, RzLocked, RzPositive, RzAutomatic, RzFlushing,
     LfhtNoResizeAfterDestroy
<1> QED
  BY <1>1, <1>2, <1>3, <1>4, <1>5, <1>6, <1>7, <1>8, <1>9, <1>10, <1>11, <1>12, <1>13, <1>14, <1>15, <1>16, <1>17, <1>18, <1>19, <1>20, <1>21, <1>22, <1>23, <1>24, <1>25, <1>26
     DEF LfhtResizeNext, RzCall, RzResize

(* The initial state satisfies the invariant.                              *)
LEMMA RzInitIInv ==
    ASSUME LfhtResizeInit
    PROVE  RzIInv
<1>1. /\ rz_program \in RzPrograms /\ rz_size = rz_program.init /\ rz_target = rz_program.init
      /\ rz_mutex = RzNobody /\ rz_works = 0 /\ rz_items = 0 /\ rz_count = 0
      /\ rz_pc = [t \in RzAgents |-> "idle"] /\ rz_frame = [t \in RzAgents |-> RzNoFrame]
  BY DEF LfhtResizeInit
<1>2. rz_program.init \in Int /\ rz_program.init >= 1
  BY <1>1, RzProgram
<1>3. RzTypeOK
  BY <1>1, <1>2, RzNoFrameType DEF RzTypeOK, RzPCs, RzElsewhere
<1>4. RzLocked
  BY <1>1, LfhtResizeAssumption DEF RzLocked, RzHolding, RzAgents
<1>5. RzPositive /\ RzFlushing
  BY <1>1 DEF RzPositive, RzFlushing, RzAgents
<1>6. RzAutomatic
  BY <1>1 DEF RzAutomatic, RzAsking, RzAgents
<1>7. LfhtNoResizeAfterDestroy
  BY <1>1 DEF LfhtNoResizeAfterDestroy
<1> QED BY <1>3, <1>4, <1>5, <1>6, <1>7 DEF RzIInv

(* No resize touches a table that cds_lfht_destroy() has freed: its flush  *)
(* of the work queue returns when no work is left and the worker is not in *)
(* _do_cds_lfht_resize(), and nothing queues another resize from then on.  *)
THEOREM NoResizeAfterDestroy == LfhtResizeSpec => []LfhtNoResizeAfterDestroy
<1>1. LfhtResizeInit => RzIInv
  BY RzInitIInv
<1>2. RzIInv /\ [LfhtResizeNext]_rzvars => RzIInv'
  BY RzPreserves
<1>3. RzIInv => LfhtNoResizeAfterDestroy
  BY DEF RzIInv
<1> QED BY <1>1, <1>2, <1>3, PTL DEF LfhtResizeSpec

=============================================================================
