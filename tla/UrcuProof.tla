------------------------------ MODULE UrcuProof ------------------------------
(***************************************************************************)
(* Proof of the grace-period guarantee of module Urcu, and of the          *)
(* refinement of GracePeriod, for any set of readers, all three flavors,   *)
(* any nesting depth, any size of the store buffers and any number of      *)
(* scans before the leader sleeps.                                         *)
(*                                                                         *)
(* The argument.  Take a reader whose critical section was running when    *)
(* the grace period began.  Once the first smp_mb_master() has returned,   *)
(* memory shows the reader active, with the phase of that section, until   *)
(* the section ends (Visible).  The first pass therefore never takes it    *)
(* for quiescent, and sets it aside only if its phase is the current one.  *)
(* Every reader left after the first pass has the phase that the flip      *)
(* makes the old one, and the second pass never lets go of it.             *)
(***************************************************************************)
EXTENDS Urcu, SequenceTheorems, TLAPS

-----------------------------------------------------------------------------
(* The inductive invariant.                                                *)

(* Readers.  A reader in a critical section, or about to enter it, is      *)
(* registered; its own view of its counter tells whether it is in one.     *)
Registered ==
    \A r \in Readers :
        r \in cs \/ rpc[r] \in {"lock_store", "lock_mb"} => list[r] # "none"

ViewInSection ==
    \A r \in Readers :
        /\ r \in cs <=> rpc[r] = "ready" /\ View(r).nest > 0
        /\ rpc[r] = "lock_mb" => View(r).nest > 0 /\ flavor = "mb"
        /\ rpc[r] \notin {"ready", "lock_mb"} => View(r).nest = 0

PreInSection == pre \subseteq cs

(* Memory shows r inside its current section, and will until the section   *)
(* ends: no store that says otherwise is on its way.                       *)
Visible(r) ==
    /\ ctr[r].nest > 0
    /\ \A i \in 1 .. Len(buf[r]) :
          buf[r][i].nest > 0 /\ buf[r][i].phase = ctr[r].phase

VisibleMB == flavor = "mb" => \A r \in cs : Visible(r)

(* The leader.                                                             *)
InBarrier(to) == upc \in {"mb", "mb_wait"} /\ ret = to
Unlocked == {"idle", "lock", "test_futex", "futex_wait", "asleep", "relock"}
Control ==
    /\ registry_lock <=> upc \notin Unlocked
    /\ upc \in {"mb", "mb_wait"} =>
          ret \in {"iterate", "scan", "reset_futex", "unlock", "out"}
    /\ upc \in {"idle", "lock", "flip"} \/ InBarrier("iterate") => pass = 1
    /\ upc = "splice" \/ InBarrier("out") => pass = 2

(* Where the lists are known to be empty; and an iteration only has        *)
(* registered readers left to look at.                                     *)
Settled ==
    /\ upc \in {"idle", "lock", "out"} \/ InBarrier("iterate") \/ InBarrier("out") =>
          \A r \in Readers : list[r] \in {"none", "registry"}
    /\ upc \in {"flip", "splice", "reset_futex"} \/ InBarrier("reset_futex") =>
          \A r \in Readers : list[r] # InputReaders
    /\ upc = "scan" \/ InBarrier("scan") => \A r \in scan : list[r] # "none"
    /\ upc = "out" /\ pass = 1 => \A r \in Readers : list[r] = "none"

(* The readers the grace period waits for, before, during and after the    *)
(* first barrier.                                                          *)
Started == upc \notin {"idle", "lock"} /\ ~ InBarrier("iterate")

Awaited(r) ==
    \/ pass = 1 /\ list[r] = "registry"
    \/ pass = 1 /\ list[r] = "cur_snap" /\ ctr[r].phase = gp_phase
    \/ pass = 2 /\ list[r] = "cur_snap" /\ ctr[r].phase # gp_phase

BarrierCovers ==
    upc = "mb_wait" /\ ret = "iterate" =>
        \A r \in pre : r \in mbpend \/ Visible(r)

PreAwaited == Started => \A r \in pre : Visible(r) /\ Awaited(r)

IInv ==
    /\ TypeOK
    /\ Registered
    /\ ViewInSection
    /\ PreInSection
    /\ VisibleMB
    /\ Control
    /\ Settled
    /\ BarrierCovers
    /\ PreAwaited

-----------------------------------------------------------------------------
(* What the steps of the memory model do to a reader's own view of its     *)
(* counter, and to its visibility in memory.                               *)

LEMMA VisibleView ==
    ASSUME TypeOK, NEW r \in Readers, Visible(r)
    PROVE  View(r).nest > 0 /\ View(r).phase = ctr[r].phase
<1>1. CASE buf[r] = << >>
  BY <1>1 DEF View, Visible
<1>2. CASE buf[r] # << >>
  <2>1. Len(buf[r]) \in 1 .. Len(buf[r])
    BY <1>2 DEF TypeOK
  <2> QED BY <1>2, <2>1 DEF View, Visible
<1> QED BY <1>1, <1>2

LEMMA StoreView ==
    ASSUME TypeOK, NEW r \in Readers, NEW v \in Counter, Store(r, v)
    PROVE  /\ ctr' \in [Readers -> Counter]
           /\ buf' \in [Readers -> Seq(Counter)]
           /\ \A q \in Readers : Len(buf'[q]) <= BufSize
           /\ View(r)' = v
           /\ \A q \in Readers \ {r} : View(q)' = View(q)
           /\ \A q \in Readers \ {r} : Visible(q)' <=> Visible(q)
           /\ Visible(r) /\ v.nest > 0 /\ v.phase = ctr[r].phase => Visible(r)'
<1> USE UrcuAssumption DEF TypeOK, Store
<1>1. buf[r] \in Seq(Counter) /\ Len(buf[r]) \in Nat
  OBVIOUS
<1>2. /\ buf'[r] = Append(buf[r], v)
      /\ \A q \in Readers \ {r} : buf'[q] = buf[q]
  OBVIOUS
<1>3. /\ buf'[r] \in Seq(Counter)
      /\ Len(buf'[r]) = Len(buf[r]) + 1
      /\ buf'[r][Len(buf[r]) + 1] = v
      /\ \A i \in 1 .. Len(buf[r]) : buf'[r][i] = buf[r][i]
  BY <1>1, <1>2
<1>4. buf' \in [Readers -> Seq(Counter)] /\ ctr' \in [Readers -> Counter]
  BY <1>2, <1>3
<1>5. \A q \in Readers : Len(buf'[q]) <= BufSize
  BY <1>1, <1>2, <1>3
<1>6. View(r)' = v
  <2>1. buf'[r] # << >>
    BY <1>1, <1>3
  <2> QED BY <1>3, <2>1 DEF View
<1>7. \A q \in Readers \ {r} : View(q)' = View(q) /\ (Visible(q)' <=> Visible(q))
  BY <1>2 DEF View, Visible
<1>8. ASSUME Visible(r), v.nest > 0, v.phase = ctr[r].phase PROVE Visible(r)'
  <2>1. ASSUME NEW i \in 1 .. Len(buf'[r])
        PROVE  buf'[r][i].nest > 0 /\ buf'[r][i].phase = ctr[r].phase
    <3>1. i \in 1 .. Len(buf[r]) \/ i = Len(buf[r]) + 1
      BY <1>1, <1>3, <2>1
    <3> QED BY <1>3, <1>8, <3>1 DEF Visible
  <2> QED BY <1>8, <2>1 DEF Visible
<1> QED BY <1>4, <1>5, <1>6, <1>7, <1>8

LEMMA TailLast ==
    ASSUME NEW S, NEW s \in Seq(S), s # << >>
    PROVE  /\ Tail(s) = << >> => s[Len(s)] = s[1]
           /\ Tail(s) # << >> => Tail(s)[Len(Tail(s))] = s[Len(s)]
<1>1. Tail(s) \in Seq(S) /\ Len(s) \in Nat \ {0}
  BY HeadTailProperties, EmptySeq
<1>2. Len(Tail(s)) = Len(s) - 1
  BY HeadTailProperties
<1>3. \A i \in 1 .. Len(Tail(s)) : Tail(s)[i] = s[i + 1]
  BY HeadTailProperties
<1>4. ASSUME Tail(s) = << >> PROVE Len(s) = 1
  <2>1. Len(<< >>) = 0
    BY EmptySeq
  <2>2. Len(Tail(s)) = 0
    BY <1>4, <2>1, Zenon
  <2> DEFINE n == Len(s)
           m == Len(Tail(s))
  <2>3. n \in Nat \ {0} /\ m = n - 1 /\ m = 0
    BY <1>1, <1>2, <2>2
  <2> HIDE DEF n, m
  <2>4. n = 1
    BY <2>3
  <2> QED BY <2>4 DEF n
<1>5. ASSUME Tail(s) # << >> PROVE Tail(s)[Len(Tail(s))] = s[Len(s)]
  <2>1. Len(Tail(s)) \in Nat \ {0}
    BY <1>1, <1>5, EmptySeq
  <2> QED BY <1>1, <1>2, <1>3, <2>1
<1> QED BY <1>4, <1>5

LEMMA CommitView ==
    ASSUME TypeOK, NEW r \in Readers, Commit(r)
    PROVE  /\ ctr' \in [Readers -> Counter]
           /\ buf' \in [Readers -> Seq(Counter)]
           /\ \A q \in Readers : Len(buf'[q]) <= BufSize
           /\ \A q \in Readers : View(q)' = View(q)
           /\ \A q \in Readers :
                 Visible(q) => Visible(q)' /\ ctr'[q].phase = ctr[q].phase
<1> USE UrcuAssumption DEF TypeOK, Commit
<1>1. buf[r] \in Seq(Counter) /\ Len(buf[r]) \in Nat \ {0}
  OBVIOUS
<1>2. /\ buf'[r] = Tail(buf[r]) /\ ctr'[r] = buf[r][1]
      /\ \A q \in Readers \ {r} : buf'[q] = buf[q] /\ ctr'[q] = ctr[q]
  OBVIOUS
<1>3. /\ buf'[r] \in Seq(Counter)
      /\ Len(buf'[r]) = Len(buf[r]) - 1
      /\ \A i \in 1 .. Len(buf'[r]) : buf'[r][i] = buf[r][i + 1]
  BY <1>1, <1>2
<1>4. buf' \in [Readers -> Seq(Counter)] /\ ctr' \in [Readers -> Counter]
  BY <1>1, <1>2, <1>3
<1>5. \A q \in Readers : Len(buf'[q]) <= BufSize
  BY <1>1, <1>2, <1>3
<1>6. \A q \in Readers \ {r} :
         View(q)' = View(q) /\ (Visible(q)' <=> Visible(q)) /\ ctr'[q] = ctr[q]
  BY <1>2 DEF View, Visible
<1>7. View(r)' = View(r)
  BY <1>1, <1>2, TailLast DEF View
<1>8. ASSUME Visible(r) PROVE Visible(r)' /\ ctr'[r].phase = ctr[r].phase
  <2>1. 1 \in 1 .. Len(buf[r])
    BY <1>1
  <2>2. ctr'[r].nest > 0 /\ ctr'[r].phase = ctr[r].phase
    BY <1>2, <1>8, <2>1 DEF Visible
  <2>3. ASSUME NEW i \in 1 .. Len(buf'[r])
        PROVE  buf'[r][i].nest > 0 /\ buf'[r][i].phase = ctr[r].phase
    <3>1. i + 1 \in 1 .. Len(buf[r])
      BY <1>1, <1>3, <2>3
    <3> QED BY <1>3, <1>8, <3>1 DEF Visible
  <2> QED BY <2>2, <2>3 DEF Visible
<1> QED BY <1>4, <1>5, <1>6, <1>7, <1>8

LEMMA FlushView ==
    ASSUME TypeOK, NEW r \in Readers, sigrcu_handler(r)
    PROVE  /\ ctr' \in [Readers -> Counter]
           /\ buf' \in [Readers -> Seq(Counter)]
           /\ \A q \in Readers : Len(buf'[q]) <= BufSize
           /\ \A q \in Readers : View(q)' = View(q)
           /\ \A q \in Readers :
                 Visible(q) => Visible(q)' /\ ctr'[q].phase = ctr[q].phase
           /\ View(r).nest > 0 => Visible(r)'
<1> USE UrcuAssumption DEF TypeOK, sigrcu_handler
<1>1. View(r) \in Counter
  BY DEF View
<1>2. /\ buf'[r] = << >> /\ ctr'[r] = View(r)
      /\ \A q \in Readers \ {r} : buf'[q] = buf[q] /\ ctr'[q] = ctr[q]
  OBVIOUS
<1>3. Len(buf'[r]) = 0
  BY <1>2
<1>4. buf' \in [Readers -> Seq(Counter)] /\ ctr' \in [Readers -> Counter]
  BY <1>1, <1>2
<1>5. \A q \in Readers : Len(buf'[q]) <= BufSize
  BY <1>2, <1>3
<1>6. \A q \in Readers \ {r} :
         View(q)' = View(q) /\ (Visible(q)' <=> Visible(q)) /\ ctr'[q] = ctr[q]
  BY <1>2 DEF View, Visible
<1>7. View(r)' = View(r)
  BY <1>2 DEF View
<1>8. View(r).nest > 0 => Visible(r)'
  BY <1>2, <1>3 DEF Visible
<1>9. Visible(r) => Visible(r)' /\ ctr'[r].phase = ctr[r].phase
  BY <1>2, <1>8, VisibleView
<1> QED BY <1>4, <1>5, <1>6, <1>7, <1>8, <1>9

-----------------------------------------------------------------------------
(* The invariant holds initially.                                          *)
LEMMA InitIInv == Init => IInv
<1> SUFFICES ASSUME Init PROVE IInv
  OBVIOUS
<1> USE UrcuAssumption DEF Init
<1>1. TypeOK
  <2>1. Quiescent \in Counter /\ << >> \in Seq(Counter) /\ Len(<< >>) = 0
    BY EmptySeq DEF Quiescent, Counter, Phase
  <2>2. ctr \in [Readers -> Counter] /\ buf \in [Readers -> Seq(Counter)]
    BY <2>1
  <2>3. \A r \in Readers : Len(buf[r]) <= BufSize
    <3>1. 0 <= BufSize
      OBVIOUS
    <3>2. \A r \in Readers : buf[r] = << >>
      OBVIOUS
    <3>3. \A r \in Readers : Len(buf[r]) = 0
      BY <2>1, <3>2, Zenon
    <3> QED BY <3>1, <3>3
  <2>4. futex \in -2 .. 0 /\ loops \in 0 .. QsAttempts /\ pass \in {1, 2}
    OBVIOUS
  <2>5. /\ rpc \in [Readers -> ReaderPC] /\ list \in [Readers -> Lists]
        /\ tmp \in [Readers -> Phase] /\ gp_phase \in Phase
        /\ upc \in LeaderPC /\ ret \in LeaderPC
    BY DEF Phase, Lists, ReaderPC, LeaderPC
  <2> QED BY <2>2, <2>3, <2>4, <2>5 DEF TypeOK
<1>2. Registered /\ ViewInSection /\ PreInSection /\ VisibleMB
  BY DEF Registered, ViewInSection, PreInSection, VisibleMB, View, Quiescent
<1>3. Control /\ Settled /\ BarrierCovers /\ PreAwaited
  BY DEF Control, Settled, BarrierCovers, PreAwaited, InBarrier, Unlocked, Started
<1> QED BY <1>1, <1>2, <1>3 DEF IInv

(* Memory steps and stores inside a section: nobody enters or leaves a     *)
(* section, and what was visible stays visible.  A reader that a forced    *)
(* barrier is done with is visible.                                        *)
LEMMA MemoryStep ==
    ASSUME IInv, TypeOK',
           UNCHANGED <<flavor, gp_phase, rpc, list, uvars, ghosts>>,
           mbpend' \subseteq mbpend,
           \A q \in Readers : (View(q)').nest = 0 <=> View(q).nest = 0,
           \A q \in Readers :
               Visible(q) => Visible(q)' /\ ctr'[q].phase = ctr[q].phase,
           \A q \in mbpend \ mbpend' : View(q).nest > 0 => Visible(q)'
    PROVE  IInv'
<1> USE DEF uvars, ghosts
<1>0. \A q \in Readers : View(q).nest \in Nat /\ (View(q)').nest \in Nat
  <2>1. \A q \in Readers : View(q) \in Counter
    BY DEF IInv, TypeOK, View
  <2>2. \A q \in Readers : View(q)' \in Counter
    BY DEF TypeOK, View
  <2>3. \A c \in Counter : c.nest \in Nat
    BY UrcuAssumption DEF Counter
  <2> QED BY <2>1, <2>2, <2>3
<1>1. Registered' /\ ViewInSection' /\ PreInSection'
  BY <1>0 DEF IInv, Registered, ViewInSection, PreInSection
<1>2. VisibleMB'
  BY DEF IInv, TypeOK, VisibleMB
<1>3. Control' /\ Settled'
  BY DEF IInv, Control, Settled, InBarrier, InputReaders
<1>4. BarrierCovers'
  BY DEF IInv, TypeOK, BarrierCovers, PreInSection, ViewInSection
<1>5. PreAwaited'
  BY DEF IInv, TypeOK, PreAwaited, Started, InBarrier, Awaited
<1> QED BY <1>1, <1>2, <1>3, <1>4, <1>5 DEF IInv

(* Steps of one reader that leave the leader alone and store nothing that  *)
(* anybody else's counter shows: only the part of the invariant that is    *)
(* about the reader's own sections remains to be shown.                    *)
LEMMA ReaderStepKeeps ==
    ASSUME IInv, NEW r \in Readers,
           UNCHANGED <<flavor, gp_phase, list, mbpend>>,
           UNCHANGED <<registry_lock, ret, pass, loops, scan>>,
           upc' = upc \/ (upc = "asleep" /\ upc' = "relock"),
           pre' \subseteq pre,
           r \notin pre',
           ctr' = ctr,
           \A q \in Readers \ {r} : Visible(q)' <=> Visible(q)
    PROVE  Control' /\ Settled' /\ BarrierCovers' /\ PreAwaited'
<1>1. Control' /\ Settled'
  BY DEF IInv, Control, Settled, InBarrier, InputReaders, Unlocked
<1>2. BarrierCovers'
  BY DEF IInv, TypeOK, BarrierCovers
<1>3. PreAwaited'
  BY DEF IInv, TypeOK, PreAwaited, Started, InBarrier, Awaited
<1> QED BY <1>1, <1>2, <1>3

(* Steps of the leader leave the readers' sections alone.                  *)
LEMMA LeaderStepKeeps ==
    ASSUME IInv,
           UNCHANGED <<flavor, rvars, cs>>,
           \A q \in Readers : list'[q] = "none" <=> list[q] = "none",
           pre' \subseteq cs
    PROVE  /\ Registered' /\ ViewInSection' /\ PreInSection' /\ VisibleMB'
           /\ \A q \in Readers : Visible(q)' <=> Visible(q)
<1>1. \A q \in Readers : View(q)' = View(q) /\ (Visible(q)' <=> Visible(q))
  BY DEF View, Visible, rvars
<1>2. Registered' /\ ViewInSection' /\ PreInSection' /\ VisibleMB'
  BY <1>1 DEF IInv, TypeOK, Registered, ViewInSection, PreInSection, VisibleMB, rvars
<1> QED BY <1>1, <1>2

LEMMA ReaderPreserves ==
    ASSUME IInv, NEW r \in Readers,
           Commit(r) \/ sigrcu_handler(r) \/ ReaderStep(r) \/ ReaderCall(r)
    PROVE  IInv'
<1> USE UrcuAssumption
<1>0. TypeOK /\ View(r) \in Counter
  BY DEF IInv, TypeOK, View
<1>1. CASE Commit(r)
  <2>1. TypeOK'
    BY <1>0, <1>1, CommitView DEF Commit, TypeOK, rvars, uvars, ghosts
  <2> QED
    BY <1>0, <1>1, <2>1, MemoryStep, CommitView DEF Commit
<1>2. CASE sigrcu_handler(r)
  <2>1. TypeOK'
    BY <1>0, <1>2, FlushView DEF sigrcu_handler, TypeOK, rvars, uvars,
       ghosts
  <2> QED
    BY <1>0, <1>2, <2>1, MemoryStep, FlushView DEF sigrcu_handler
<1>3. CASE rcu_read_lock_nested(r)
  <2> DEFINE v == [View(r) EXCEPT !.nest = @ + 1]
  <2>1. /\ v \in Counter /\ v.nest > 0 /\ v.phase = View(r).phase
        /\ v.nest # 0 /\ View(r).nest # 0
    BY <1>0, <1>3 DEF rcu_read_lock_nested, Counter
  <2>2. Store(r, v)
    BY <1>3 DEF rcu_read_lock_nested
  <2> HIDE DEF v
  <2>3. Visible(r) => v.phase = ctr[r].phase
    BY <1>0, <2>1, VisibleView
  <2>4. /\ ctr' = ctr /\ buf' \in [Readers -> Seq(Counter)]
        /\ \A q \in Readers : Len(buf'[q]) <= BufSize
        /\ \A q \in Readers : (View(q)').nest = 0 <=> View(q).nest = 0
        /\ \A q \in Readers : Visible(q) => Visible(q)'
    BY <1>0, <2>1, <2>2, <2>3, StoreView DEF Store
  <2>5. TypeOK'
    BY <1>0, <1>3, <2>4 DEF rcu_read_lock_nested, TypeOK, uvars, ghosts
  <2> QED
    BY <1>3, <2>4, <2>5, MemoryStep DEF rcu_read_lock_nested
<1>4. CASE rcu_read_unlock_nested(r)
  <2> DEFINE v == [View(r) EXCEPT !.nest = @ - 1]
  <2>1. /\ v \in Counter /\ v.nest > 0 /\ v.phase = View(r).phase
        /\ v.nest # 0 /\ View(r).nest # 0
    BY <1>0, <1>4 DEF rcu_read_unlock_nested, Counter
  <2>2. Store(r, v)
    BY <1>4 DEF rcu_read_unlock_nested
  <2> HIDE DEF v
  <2>3. Visible(r) => v.phase = ctr[r].phase
    BY <1>0, <2>1, VisibleView
  <2>4. /\ ctr' = ctr /\ buf' \in [Readers -> Seq(Counter)]
        /\ \A q \in Readers : Len(buf'[q]) <= BufSize
        /\ \A q \in Readers : (View(q)').nest = 0 <=> View(q).nest = 0
        /\ \A q \in Readers : Visible(q) => Visible(q)'
    BY <1>0, <2>1, <2>2, <2>3, StoreView DEF Store
  <2>5. TypeOK'
    BY <1>0, <1>4, <2>4 DEF rcu_read_unlock_nested, TypeOK, uvars, ghosts
  <2> QED
    BY <1>4, <2>4, <2>5, MemoryStep DEF rcu_read_unlock_nested
<1>5. CASE rcu_register_thread(r)
  <2>1. TypeOK'
    BY <1>0, <1>5 DEF rcu_register_thread, TypeOK, Lists, rvars, uvars,
       ghosts
  <2>2. \A q \in Readers : View(q)' = View(q) /\ (Visible(q)' <=> Visible(q))
    BY <1>5 DEF rcu_register_thread, View, Visible, rvars
  <2>3. r \notin cs /\ upc \in Unlocked
    BY <1>5 DEF rcu_register_thread, IInv, TypeOK, Registered,
       ViewInSection, Control
  <2>4. Registered' /\ ViewInSection' /\ PreInSection' /\ VisibleMB'
    BY <1>5, <2>2, <2>3 DEF rcu_register_thread, IInv, TypeOK, Registered,
       ViewInSection, PreInSection, VisibleMB, rvars, ghosts
  <2>5. Control' /\ Settled'
    BY <1>5, <2>3 DEF rcu_register_thread, IInv, TypeOK, Control, Settled,
       InBarrier, Unlocked, uvars
  <2>6. BarrierCovers' /\ PreAwaited'
    BY <1>5, <2>2, <2>3 DEF rcu_register_thread, IInv, TypeOK,
       BarrierCovers, PreAwaited, PreInSection, Started, InBarrier, Awaited,
       Unlocked, rvars, uvars, ghosts
  <2> QED BY <2>1, <2>4, <2>5, <2>6 DEF IInv
<1>6. CASE rcu_unregister_thread(r)
  <2>1. TypeOK'
    BY <1>0, <1>6 DEF rcu_unregister_thread, TypeOK, Lists, rvars, uvars,
       ghosts
  <2>2. \A q \in Readers : View(q)' = View(q) /\ (Visible(q)' <=> Visible(q))
    BY <1>6 DEF rcu_unregister_thread, View, Visible, rvars
  <2>3. r \notin cs /\ upc \in Unlocked
    BY <1>6 DEF rcu_unregister_thread, IInv, TypeOK, Registered,
       ViewInSection, Control
  <2>4. Registered' /\ ViewInSection' /\ PreInSection' /\ VisibleMB'
    BY <1>6, <2>2, <2>3 DEF rcu_unregister_thread, IInv, TypeOK, Registered,
       ViewInSection, PreInSection, VisibleMB, rvars, ghosts
  <2>5. Control' /\ Settled'
    BY <1>6, <2>3 DEF rcu_unregister_thread, IInv, TypeOK, Control, Settled,
       InBarrier, Unlocked, uvars
  <2>6. BarrierCovers' /\ PreAwaited'
    BY <1>6, <2>2, <2>3 DEF rcu_unregister_thread, IInv, TypeOK,
       BarrierCovers, PreAwaited, PreInSection, Started, InBarrier, Awaited,
       Unlocked, rvars, uvars, ghosts
  <2> QED BY <2>1, <2>4, <2>5, <2>6 DEF IInv
<1>7. CASE rcu_read_lock(r)
  <2>1. TypeOK'
    BY <1>0, <1>7 DEF rcu_read_lock, goto, TypeOK, ReaderPC, rvars, uvars,
       ghosts
  <2>2. \A q \in Readers : View(q)' = View(q) /\ (Visible(q)' <=> Visible(q))
    BY <1>7 DEF rcu_read_lock, goto, View, Visible
  <2>3. r \notin cs
    BY <1>7 DEF rcu_read_lock, goto, IInv, TypeOK, ViewInSection
  <2>4. Registered' /\ ViewInSection' /\ PreInSection' /\ VisibleMB'
    BY <1>0, <1>7, <2>2, <2>3 DEF rcu_read_lock, goto, IInv, TypeOK,
       Registered, ViewInSection, PreInSection, VisibleMB, ghosts
  <2>5. Control' /\ Settled' /\ BarrierCovers' /\ PreAwaited'
    BY <1>7, <2>2, <2>3, ReaderStepKeeps DEF rcu_read_lock, goto, IInv,
       PreInSection, uvars, ghosts
  <2> QED BY <2>1, <2>4, <2>5 DEF IInv
<1>8. CASE ReadLockBarrier(r)
  <2>1. TypeOK'
    BY <1>0, <1>8 DEF ReadLockBarrier, goto, smp_mb_slave, smp_mb, TypeOK,
       ReaderPC, rvars, uvars, ghosts
  <2>2. \A q \in Readers : View(q)' = View(q) /\ (Visible(q)' <=> Visible(q))
    BY <1>8 DEF ReadLockBarrier, goto, smp_mb_slave, smp_mb, View, Visible
  <2>3. r \notin cs
    BY <1>8 DEF ReadLockBarrier, goto, smp_mb_slave, smp_mb, IInv, TypeOK,
       ViewInSection
  <2>4. Registered' /\ ViewInSection' /\ PreInSection' /\ VisibleMB'
    <3>1. Visible(r)
      BY <1>0, <1>8 DEF ReadLockBarrier, smp_mb_slave, smp_mb, IInv, TypeOK,
         ViewInSection, View, Visible
    <3>2. VisibleMB'
      BY <1>8, <2>2, <3>1 DEF ReadLockBarrier, IInv, TypeOK, VisibleMB
    <3>3. Registered' /\ ViewInSection' /\ PreInSection'
      BY <1>0, <1>8, <2>2, <2>3 DEF ReadLockBarrier, goto, IInv, TypeOK,
         Registered, ViewInSection, PreInSection
    <3> QED BY <3>2, <3>3
  <2>5. Control' /\ Settled' /\ BarrierCovers' /\ PreAwaited'
    BY <1>8, <2>2, <2>3, ReaderStepKeeps DEF ReadLockBarrier, goto,
       smp_mb_slave, smp_mb, IInv, PreInSection, uvars, ghosts
  <2> QED BY <2>1, <2>4, <2>5 DEF IInv
<1>9. CASE wake_up_gp(r)
  <2>1. TypeOK'
    BY <1>0, <1>9 DEF wake_up_gp, goto, TypeOK, ReaderPC, rvars, uvars,
       ghosts
  <2>2. \A q \in Readers : View(q)' = View(q) /\ (Visible(q)' <=> Visible(q))
    BY <1>9 DEF wake_up_gp, goto, View, Visible
  <2>3. r \notin cs
    BY <1>9 DEF wake_up_gp, goto, IInv, TypeOK, ViewInSection
  <2>4. Registered' /\ ViewInSection' /\ PreInSection' /\ VisibleMB'
    BY <1>0, <1>9, <2>2, <2>3 DEF wake_up_gp, goto, IInv, TypeOK,
       Registered, ViewInSection, PreInSection, VisibleMB, ghosts
  <2>5. Control' /\ Settled' /\ BarrierCovers' /\ PreAwaited'
    BY <1>9, <2>2, <2>3, ReaderStepKeeps DEF wake_up_gp, goto, IInv,
       PreInSection, uvars, ghosts
  <2> QED BY <2>1, <2>4, <2>5 DEF IInv
<1>10. CASE WakeSet(r)
  <2>1. TypeOK'
    BY <1>0, <1>10 DEF WakeSet, goto, TypeOK, ReaderPC, rvars, uvars, ghosts
  <2>2. \A q \in Readers : View(q)' = View(q) /\ (Visible(q)' <=> Visible(q))
    BY <1>10 DEF WakeSet, goto, View, Visible
  <2>3. r \notin cs
    BY <1>10 DEF WakeSet, goto, IInv, TypeOK, ViewInSection
  <2>4. Registered' /\ ViewInSection' /\ PreInSection' /\ VisibleMB'
    BY <1>0, <1>10, <2>2, <2>3 DEF WakeSet, goto, IInv, TypeOK, Registered,
       ViewInSection, PreInSection, VisibleMB, ghosts
  <2>5. Control' /\ Settled' /\ BarrierCovers' /\ PreAwaited'
    BY <1>10, <2>2, <2>3, ReaderStepKeeps DEF WakeSet, goto, IInv,
       PreInSection, uvars, ghosts
  <2> QED BY <2>1, <2>4, <2>5 DEF IInv
<1>11. CASE WakeFutex(r)
  <2>1. TypeOK'
    BY <1>0, <1>11 DEF WakeFutex, goto, TypeOK, ReaderPC, LeaderPC, rvars,
       uvars, ghosts
  <2>2. \A q \in Readers : View(q)' = View(q) /\ (Visible(q)' <=> Visible(q))
    BY <1>11 DEF WakeFutex, goto, View, Visible
  <2>3. r \notin cs
    BY <1>11 DEF WakeFutex, goto, IInv, TypeOK, ViewInSection
  <2>4. Registered' /\ ViewInSection' /\ PreInSection' /\ VisibleMB'
    BY <1>0, <1>11, <2>2, <2>3 DEF WakeFutex, goto, IInv, TypeOK,
       Registered, ViewInSection, PreInSection, VisibleMB, ghosts
  <2>5. Control' /\ Settled' /\ BarrierCovers' /\ PreAwaited'
    BY <1>11, <2>2, <2>3, ReaderStepKeeps DEF WakeFutex, goto, IInv,
       PreInSection, uvars, ghosts
  <2> QED BY <2>1, <2>4, <2>5 DEF IInv
<1>12. CASE ReadLockStore(r)
  <2> DEFINE v == [phase |-> tmp[r], nest |-> 1]
  <2>1. v \in Counter /\ v.nest = 1
    BY <1>0, <1>12 DEF TypeOK, Counter, Phase, Quiescent
  <2>2. Store(r, v)
    BY <1>12 DEF ReadLockStore, goto
  <2> HIDE DEF v
  <2>3. /\ ctr' = ctr /\ buf' \in [Readers -> Seq(Counter)]
        /\ \A q \in Readers : Len(buf'[q]) <= BufSize
        /\ View(r)' = v
        /\ \A q \in Readers \ {r} : View(q)' = View(q) /\ (Visible(q)' <=> Visible(q))
    BY <1>0, <2>1, <2>2, StoreView DEF Store
  <2>4. TypeOK'
    BY <1>0, <1>12, <2>3 DEF ReadLockStore, goto, TypeOK, ReaderPC, Phase,
       uvars, ghosts
  <2>5. r \notin pre'
    BY <1>12 DEF ReadLockStore, goto, IInv, PreInSection, ViewInSection
  <2>6. Registered' /\ ViewInSection' /\ PreInSection' /\ VisibleMB'
    <3>1. r \notin cs
      BY <1>12 DEF ReadLockStore, IInv, ViewInSection
    <3>2. VisibleMB'
      BY <1>12, <2>3, <3>1 DEF ReadLockStore, IInv, TypeOK, VisibleMB
    <3>3. Registered' /\ PreInSection'
      BY <1>12 DEF ReadLockStore, goto, IInv, TypeOK, Registered, PreInSection
    <3>4. View(r)'.nest > 0
      BY <2>1, <2>3
    <3>5. ViewInSection'
      <4>1. rpc'[r] = IF flavor = "mb" THEN "lock_mb" ELSE "ready"
        BY <1>0, <1>12 DEF ReadLockStore, goto, TypeOK
      <4>2. \A q \in Readers \ {r} : rpc'[q] = rpc[q] /\ (q \in cs' <=> q \in cs)
        BY <1>0, <1>12 DEF ReadLockStore, goto, TypeOK
      <4>3. r \in cs' <=> flavor # "mb"
        BY <1>12, <3>1 DEF ReadLockStore
      <4>4. flavor' = flavor
        BY <1>12 DEF ReadLockStore
      <4> QED
        BY <2>3, <3>4, <4>1, <4>2, <4>3, <4>4 DEF IInv, ViewInSection
    <3> QED BY <3>2, <3>3, <3>5
  <2>7. Control' /\ Settled' /\ BarrierCovers' /\ PreAwaited'
    BY <1>12, <2>3, <2>5, ReaderStepKeeps DEF ReadLockStore, goto, IInv,
       PreInSection, uvars, ghosts
  <2> QED BY <2>4, <2>6, <2>7 DEF IInv
<1>13. CASE rcu_read_unlock(r)
  <2> DEFINE v == Quiescent
  <2>1. v \in Counter /\ v.nest = 0
    BY <1>0, <1>13 DEF TypeOK, Counter, Phase, Quiescent
  <2>2. Store(r, v)
    BY <1>13 DEF rcu_read_unlock, goto
  <2> HIDE DEF v
  <2>3. /\ ctr' = ctr /\ buf' \in [Readers -> Seq(Counter)]
        /\ \A q \in Readers : Len(buf'[q]) <= BufSize
        /\ View(r)' = v
        /\ \A q \in Readers \ {r} : View(q)' = View(q) /\ (Visible(q)' <=> Visible(q))
    BY <1>0, <2>1, <2>2, StoreView DEF Store
  <2>4. TypeOK'
    BY <1>0, <1>13, <2>3 DEF rcu_read_unlock, goto, TypeOK, ReaderPC, uvars,
       ghosts
  <2>5. r \notin pre'
    BY <1>13 DEF rcu_read_unlock, goto, IInv, PreInSection, ViewInSection
  <2>6. Registered' /\ ViewInSection' /\ PreInSection' /\ VisibleMB'
    BY <1>0, <1>13, <2>1, <2>3, <2>5 DEF rcu_read_unlock, goto, IInv,
       TypeOK, Registered, ViewInSection, PreInSection, VisibleMB, ghosts
  <2>7. Control' /\ Settled' /\ BarrierCovers' /\ PreAwaited'
    BY <1>13, <2>3, <2>5, ReaderStepKeeps DEF rcu_read_unlock, goto, IInv,
       PreInSection, uvars, ghosts
  <2> QED BY <2>4, <2>6, <2>7 DEF IInv
<1> QED
  BY <1>1, <1>2, <1>3, <1>4, <1>5, <1>6, <1>7, <1>8, <1>9, <1>10, <1>11,
     <1>12, <1>13 DEF ReaderStep, ReaderCall

LEMMA LeaderPreserves ==
    ASSUME IInv, synchronize_rcu \/ LeaderStep \/ SpuriousWakeup
    PROVE  IInv'
<1> USE UrcuAssumption
<1>0. TypeOK /\ PreInSection
  BY DEF IInv
<1>1. CASE synchronize_rcu
  <2>1. TypeOK'
    BY <1>0, <1>1 DEF synchronize_rcu, TypeOK, LeaderPC, rvars, uvars,
       ghosts
  <2>2. /\ Registered' /\ ViewInSection' /\ PreInSection' /\ VisibleMB'
        /\ \A q \in Readers : Visible(q)' <=> Visible(q)
    BY <1>0, <1>1, LeaderStepKeeps DEF synchronize_rcu, TypeOK,
       PreInSection, rvars, uvars, ghosts
  <2>3. Control' /\ Settled'
    BY <1>0, <1>1 DEF synchronize_rcu, IInv, TypeOK, Control, Settled,
       InBarrier, InputReaders, Unlocked, Lists, uvars
  <2>4. BarrierCovers' /\ PreAwaited'
    BY <1>0, <1>1, <2>2 DEF synchronize_rcu, IInv, TypeOK, BarrierCovers,
       PreAwaited, Started, Awaited, InBarrier, Control, Settled,
       PreInSection, Registered, InputReaders, Phase, rvars, uvars, ghosts
  <2> QED BY <2>1, <2>2, <2>3, <2>4 DEF IInv
<1>2. CASE LockRegistry
  <2>1. TypeOK'
    BY <1>0, <1>2 DEF LockRegistry, OnList, TypeOK, LeaderPC, rvars, uvars,
       ghosts
  <2>2. /\ Registered' /\ ViewInSection' /\ PreInSection' /\ VisibleMB'
        /\ \A q \in Readers : Visible(q)' <=> Visible(q)
    BY <1>0, <1>2, LeaderStepKeeps DEF LockRegistry, OnList, TypeOK,
       PreInSection, rvars, uvars, ghosts
  <2>3. Control' /\ Settled'
    BY <1>0, <1>2 DEF LockRegistry, OnList, IInv, TypeOK, Control, Settled,
       InBarrier, InputReaders, Unlocked, Lists, uvars
  <2>4. BarrierCovers' /\ PreAwaited'
    BY <1>0, <1>2, <2>2 DEF LockRegistry, OnList, IInv, TypeOK,
       BarrierCovers, PreAwaited, Started, Awaited, InBarrier, Control,
       Settled, PreInSection, Registered, InputReaders, Phase, rvars, uvars,
       ghosts
  <2> QED BY <2>1, <2>2, <2>3, <2>4 DEF IInv
<1>3. CASE smp_mb_master
  <2>1. TypeOK'
    <3>1. mbpend' \subseteq Readers
      <4>1. flavor \in {"mb", "memb", "signal"}
        BY <1>0 DEF TypeOK, AllFlavors
      <4>2. BarrierTargets \subseteq Readers
        BY <4>1 DEF BarrierTargets, OnList
      <4> QED BY <1>3, <4>2 DEF smp_mb_master
    <3> QED BY <1>0, <1>3, <3>1 DEF smp_mb_master, TypeOK, LeaderPC, rvars, ghosts
  <2>2. /\ Registered' /\ ViewInSection' /\ PreInSection' /\ VisibleMB'
        /\ \A q \in Readers : Visible(q)' <=> Visible(q)
    BY <1>0, <1>3, LeaderStepKeeps DEF smp_mb_master, BarrierTargets,
       OnList, smp_mb, TypeOK, PreInSection, rvars, uvars, ghosts
  <2>3. Control' /\ Settled'
    BY <1>0, <1>3 DEF smp_mb_master, BarrierTargets, OnList, smp_mb, IInv,
       TypeOK, Control, Settled, InBarrier, InputReaders, Unlocked, Lists,
       uvars
  <2>4. \A r \in pre : buf[r] = << >> => Visible(r)
    BY <1>0 DEF IInv, TypeOK, PreInSection, ViewInSection, View, Visible
  <2>5. \A r \in pre : list[r] # "none"
    BY <1>0 DEF IInv, TypeOK, PreInSection, Registered
  <2>6. BarrierCovers'
    BY <1>0, <1>3, <2>2, <2>4, <2>5 DEF smp_mb_master, BarrierTargets,
       OnList, smp_mb, IInv, TypeOK, BarrierCovers, PreInSection, VisibleMB,
       Settled, InBarrier, AllFlavors, ghosts
  <2>7. PreAwaited'
    BY <1>0, <1>3, <2>2 DEF smp_mb_master, BarrierTargets, OnList, smp_mb,
       IInv, TypeOK, PreAwaited, Started, Awaited, InBarrier, rvars, uvars,
       ghosts
  <2> QED BY <2>1, <2>2, <2>3, <2>6, <2>7 DEF IInv
<1>4. CASE MasterBarrierReturn
  <2>1. TypeOK'
    BY <1>0, <1>4 DEF MasterBarrierReturn, TypeOK, LeaderPC, rvars, uvars,
       ghosts
  <2>2. /\ Registered' /\ ViewInSection' /\ PreInSection' /\ VisibleMB'
        /\ \A q \in Readers : Visible(q)' <=> Visible(q)
    BY <1>0, <1>4, LeaderStepKeeps DEF MasterBarrierReturn, TypeOK,
       PreInSection, rvars, uvars, ghosts
  <2>3. Control' /\ Settled'
    BY <1>0, <1>4 DEF MasterBarrierReturn, IInv, TypeOK, Control, Settled,
       InBarrier, InputReaders, Unlocked, Lists, uvars
  <2>4. BarrierCovers' /\ PreAwaited'
    BY <1>0, <1>4, <2>2 DEF MasterBarrierReturn, IInv, TypeOK,
       BarrierCovers, PreAwaited, Started, Awaited, InBarrier, Control,
       Settled, PreInSection, Registered, InputReaders, Phase, rvars, uvars,
       ghosts
  <2> QED BY <2>1, <2>2, <2>3, <2>4 DEF IInv
<1>5. CASE Iterate
  <2>1. TypeOK'
    BY <1>0, <1>5 DEF Iterate, CountLoop, OnList, InputReaders, TypeOK, LeaderPC,
       rvars, uvars, ghosts
  <2>2. /\ Registered' /\ ViewInSection' /\ PreInSection' /\ VisibleMB'
        /\ \A q \in Readers : Visible(q)' <=> Visible(q)
    BY <1>0, <1>5, LeaderStepKeeps DEF Iterate, OnList, InputReaders,
       TypeOK, PreInSection, rvars, uvars, ghosts
  <2>3. Control' /\ Settled'
    BY <1>0, <1>5 DEF Iterate, OnList, InputReaders, IInv, TypeOK, Control,
       Settled, InBarrier, Unlocked, Lists, uvars
  <2>4. BarrierCovers' /\ PreAwaited'
    BY <1>0, <1>5, <2>2 DEF Iterate, OnList, InputReaders, IInv, TypeOK,
       BarrierCovers, PreAwaited, Started, Awaited, InBarrier, Control,
       Settled, PreInSection, Registered, Phase, rvars, uvars, ghosts
  <2> QED BY <2>1, <2>2, <2>3, <2>4 DEF IInv
<1>6. CASE \E r \in Readers : ScanReader(r)
  <2>0. PICK r \in Readers : ScanReader(r)
    BY <1>6
  <2> DEFINE inactive == ctr[r].nest = 0
             current  == ctr[r].nest # 0 /\ ctr[r].phase = gp_phase
             old      == ctr[r].nest # 0 /\ ctr[r].phase # gp_phase
             to == CASE rcu_reader_state(r) = "INACTIVE"       -> "qs"
                     [] rcu_reader_state(r) = "ACTIVE_CURRENT" ->
                          IF pass = 1 THEN "cur_snap" ELSE "qs"
                     [] rcu_reader_state(r) = "ACTIVE_OLD"     -> list[r]
  <2>1. /\ inactive => rcu_reader_state(r) = "INACTIVE"
        /\ current  => rcu_reader_state(r) = "ACTIVE_CURRENT"
        /\ old      => rcu_reader_state(r) = "ACTIVE_OLD"
    BY DEF rcu_reader_state
  <2>2. list' = [list EXCEPT ![r] = to]
    BY <2>0 DEF ScanReader
  <2>3. /\ inactive => to = "qs"
        /\ current  => to = IF pass = 1 THEN "cur_snap" ELSE "qs"
        /\ old      => to = list[r]
    BY <2>1
  <2> HIDE DEF to
  <2>4. r \in scan /\ list[r] # "none"
    BY <1>0, <2>0 DEF ScanReader, IInv, Settled
  <2>5. list[r] \in Lists
    BY <1>0 DEF TypeOK
  <2>6. to \in Lists /\ to # "none"
    BY <2>3, <2>4, <2>5 DEF Lists
  <2>7. /\ list' \in [Readers -> Lists]
        /\ list'[r] = to
        /\ \A q \in Readers \ {r} : list'[q] = list[q]
    BY <1>0, <2>2, <2>6 DEF TypeOK
  <2>8. TypeOK'
    BY <1>0, <2>0, <2>7 DEF ScanReader, TypeOK, rvars, ghosts
  <2>9. \A q \in Readers : list'[q] = "none" <=> list[q] = "none"
    BY <2>4, <2>6, <2>7
  <2>10. /\ Registered' /\ ViewInSection' /\ PreInSection' /\ VisibleMB'
         /\ \A q \in Readers : Visible(q)' <=> Visible(q)
    BY <1>0, <2>0, <2>9, LeaderStepKeeps DEF ScanReader, PreInSection, ghosts
  <2>11. Control' /\ Settled'
    BY <1>0, <2>0, <2>9 DEF ScanReader, IInv, TypeOK, Control, Settled, InBarrier,
       Unlocked
  <2>12. BarrierCovers'
    BY <2>0 DEF ScanReader, BarrierCovers
  <2>13. ASSUME NEW q \in pre PROVE Visible(q) /\ Awaited(q)'
    <3>1. q \in Readers /\ Visible(q) /\ Awaited(q)
      BY <1>0, <2>0 DEF ScanReader, IInv, TypeOK, PreAwaited, Started, InBarrier
    <3>2. CASE q # r
      BY <2>0, <2>7, <3>1, <3>2 DEF ScanReader, Awaited, rvars
    <3>3. CASE q = r
      <4>1. current \/ old
        BY <1>0, <3>1, <3>3 DEF Visible, TypeOK, Counter
      <4>2. CASE current
        BY <2>0, <2>3, <2>7, <3>1, <3>3, <4>2 DEF ScanReader, Awaited, rvars
      <4>3. CASE old
        BY <2>0, <2>3, <2>7, <3>1, <3>3, <4>3 DEF ScanReader, Awaited, rvars
      <4> QED BY <4>1, <4>2, <4>3
    <3> QED BY <3>1, <3>2, <3>3
  <2>14. PreAwaited'
    BY <1>0, <2>0, <2>10, <2>13 DEF ScanReader, TypeOK, PreAwaited, ghosts
  <2> QED BY <2>8, <2>10, <2>11, <2>12, <2>14 DEF IInv
<1>7. CASE ScanDone
  <2>1. TypeOK'
    BY <1>0, <1>7 DEF ScanDone, OnList, AfterPass, SleepNow, TypeOK,
       LeaderPC, rvars, uvars, ghosts
  <2>2. /\ Registered' /\ ViewInSection' /\ PreInSection' /\ VisibleMB'
        /\ \A q \in Readers : Visible(q)' <=> Visible(q)
    BY <1>0, <1>7, LeaderStepKeeps DEF ScanDone, OnList, AfterPass,
       SleepNow, TypeOK, PreInSection, rvars, uvars, ghosts
  <2>3. Control' /\ Settled'
    BY <1>0, <1>7 DEF ScanDone, OnList, AfterPass, SleepNow, IInv, TypeOK,
       Control, Settled, InBarrier, InputReaders, Unlocked, Lists, uvars
  <2>4. BarrierCovers' /\ PreAwaited'
    BY <1>0, <1>7, <2>2 DEF ScanDone, OnList, AfterPass, SleepNow, IInv,
       TypeOK, BarrierCovers, PreAwaited, Started, Awaited, InBarrier,
       Control, Settled, PreInSection, Registered, InputReaders, Phase,
       rvars, uvars, ghosts
  <2> QED BY <2>1, <2>2, <2>3, <2>4 DEF IInv
<1>8. CASE ResetFutex
  <2>1. TypeOK'
    BY <1>0, <1>8 DEF ResetFutex, AfterPass, TypeOK, LeaderPC, rvars, uvars,
       ghosts
  <2>2. /\ Registered' /\ ViewInSection' /\ PreInSection' /\ VisibleMB'
        /\ \A q \in Readers : Visible(q)' <=> Visible(q)
    BY <1>0, <1>8, LeaderStepKeeps DEF ResetFutex, AfterPass, TypeOK,
       PreInSection, rvars, uvars, ghosts
  <2>3. Control' /\ Settled'
    BY <1>0, <1>8 DEF ResetFutex, AfterPass, IInv, TypeOK, Control, Settled,
       InBarrier, InputReaders, Unlocked, Lists, uvars
  <2>4. BarrierCovers' /\ PreAwaited'
    BY <1>0, <1>8, <2>2 DEF ResetFutex, AfterPass, IInv, TypeOK,
       BarrierCovers, PreAwaited, Started, Awaited, InBarrier, Control,
       Settled, PreInSection, Registered, InputReaders, Phase, rvars, uvars,
       ghosts
  <2> QED BY <2>1, <2>2, <2>3, <2>4 DEF IInv
<1>9. CASE UnlockRegistry
  <2>1. TypeOK'
    BY <1>0, <1>9 DEF UnlockRegistry, SleepNow, TypeOK, LeaderPC, rvars,
       uvars, ghosts
  <2>2. /\ Registered' /\ ViewInSection' /\ PreInSection' /\ VisibleMB'
        /\ \A q \in Readers : Visible(q)' <=> Visible(q)
    BY <1>0, <1>9, LeaderStepKeeps DEF UnlockRegistry, SleepNow, TypeOK,
       PreInSection, rvars, uvars, ghosts
  <2>3. Control' /\ Settled'
    BY <1>0, <1>9 DEF UnlockRegistry, SleepNow, IInv, TypeOK, Control,
       Settled, InBarrier, InputReaders, Unlocked, Lists, uvars
  <2>4. BarrierCovers' /\ PreAwaited'
    BY <1>0, <1>9, <2>2 DEF UnlockRegistry, SleepNow, IInv, TypeOK,
       BarrierCovers, PreAwaited, Started, Awaited, InBarrier, Control,
       Settled, PreInSection, Registered, InputReaders, Phase, rvars, uvars,
       ghosts
  <2> QED BY <2>1, <2>2, <2>3, <2>4 DEF IInv
<1>10. CASE wait_gp
  <2>1. TypeOK'
    BY <1>0, <1>10 DEF wait_gp, TypeOK, LeaderPC, rvars, uvars, ghosts
  <2>2. /\ Registered' /\ ViewInSection' /\ PreInSection' /\ VisibleMB'
        /\ \A q \in Readers : Visible(q)' <=> Visible(q)
    BY <1>0, <1>10, LeaderStepKeeps DEF wait_gp, TypeOK, PreInSection,
       rvars, uvars, ghosts
  <2>3. Control' /\ Settled'
    BY <1>0, <1>10 DEF wait_gp, IInv, TypeOK, Control, Settled, InBarrier,
       InputReaders, Unlocked, Lists, uvars
  <2>4. BarrierCovers' /\ PreAwaited'
    BY <1>0, <1>10, <2>2 DEF wait_gp, IInv, TypeOK, BarrierCovers,
       PreAwaited, Started, Awaited, InBarrier, Control, Settled,
       PreInSection, Registered, InputReaders, Phase, rvars, uvars, ghosts
  <2> QED BY <2>1, <2>2, <2>3, <2>4 DEF IInv
<1>11. CASE FutexWait
  <2>1. TypeOK'
    BY <1>0, <1>11 DEF FutexWait, TypeOK, LeaderPC, rvars, uvars, ghosts
  <2>2. /\ Registered' /\ ViewInSection' /\ PreInSection' /\ VisibleMB'
        /\ \A q \in Readers : Visible(q)' <=> Visible(q)
    BY <1>0, <1>11, LeaderStepKeeps DEF FutexWait, TypeOK, PreInSection,
       rvars, uvars, ghosts
  <2>3. Control' /\ Settled'
    BY <1>0, <1>11 DEF FutexWait, IInv, TypeOK, Control, Settled, InBarrier,
       InputReaders, Unlocked, Lists, uvars
  <2>4. BarrierCovers' /\ PreAwaited'
    BY <1>0, <1>11, <2>2 DEF FutexWait, IInv, TypeOK, BarrierCovers,
       PreAwaited, Started, Awaited, InBarrier, Control, Settled,
       PreInSection, Registered, InputReaders, Phase, rvars, uvars, ghosts
  <2> QED BY <2>1, <2>2, <2>3, <2>4 DEF IInv
<1>12. CASE SpuriousWakeup
  <2>1. TypeOK'
    BY <1>0, <1>12 DEF SpuriousWakeup, TypeOK, LeaderPC, rvars, uvars,
       ghosts
  <2>2. /\ Registered' /\ ViewInSection' /\ PreInSection' /\ VisibleMB'
        /\ \A q \in Readers : Visible(q)' <=> Visible(q)
    BY <1>0, <1>12, LeaderStepKeeps DEF SpuriousWakeup, TypeOK,
       PreInSection, rvars, uvars, ghosts
  <2>3. Control' /\ Settled'
    BY <1>0, <1>12 DEF SpuriousWakeup, IInv, TypeOK, Control, Settled,
       InBarrier, InputReaders, Unlocked, Lists, uvars
  <2>4. BarrierCovers' /\ PreAwaited'
    BY <1>0, <1>12, <2>2 DEF SpuriousWakeup, IInv, TypeOK, BarrierCovers,
       PreAwaited, Started, Awaited, InBarrier, Control, Settled,
       PreInSection, Registered, InputReaders, Phase, rvars, uvars, ghosts
  <2> QED BY <2>1, <2>2, <2>3, <2>4 DEF IInv
<1>13. CASE RelockRegistry
  <2>1. TypeOK'
    BY <1>0, <1>13 DEF RelockRegistry, TypeOK, LeaderPC, rvars, uvars,
       ghosts
  <2>2. /\ Registered' /\ ViewInSection' /\ PreInSection' /\ VisibleMB'
        /\ \A q \in Readers : Visible(q)' <=> Visible(q)
    BY <1>0, <1>13, LeaderStepKeeps DEF RelockRegistry, TypeOK,
       PreInSection, rvars, uvars, ghosts
  <2>3. Control' /\ Settled'
    BY <1>0, <1>13 DEF RelockRegistry, IInv, TypeOK, Control, Settled,
       InBarrier, InputReaders, Unlocked, Lists, uvars
  <2>4. BarrierCovers' /\ PreAwaited'
    BY <1>0, <1>13, <2>2 DEF RelockRegistry, IInv, TypeOK, BarrierCovers,
       PreAwaited, Started, Awaited, InBarrier, Control, Settled,
       PreInSection, Registered, InputReaders, Phase, rvars, uvars, ghosts
  <2> QED BY <2>1, <2>2, <2>3, <2>4 DEF IInv
<1>14. CASE FlipPhase
  <2>1. TypeOK'
    BY <1>0, <1>14 DEF FlipPhase, TypeOK, Phase, LeaderPC, rvars, uvars,
       ghosts
  <2>2. /\ Registered' /\ ViewInSection' /\ PreInSection' /\ VisibleMB'
        /\ \A q \in Readers : Visible(q)' <=> Visible(q)
    BY <1>0, <1>14, LeaderStepKeeps DEF FlipPhase, TypeOK, PreInSection,
       rvars, uvars, ghosts
  <2>3. Control' /\ Settled'
    BY <1>0, <1>14 DEF FlipPhase, IInv, TypeOK, Control, Settled, InBarrier,
       InputReaders, Unlocked, Lists, uvars
  <2>4. BarrierCovers' /\ PreAwaited'
    BY <1>0, <1>14, <2>2 DEF FlipPhase, IInv, TypeOK, BarrierCovers,
       PreAwaited, Started, Awaited, InBarrier, Control, Settled,
       PreInSection, Registered, InputReaders, Phase, rvars, uvars, ghosts
  <2> QED BY <2>1, <2>2, <2>3, <2>4 DEF IInv
<1>15. CASE SpliceReaders
  <2>1. TypeOK'
    BY <1>0, <1>15 DEF SpliceReaders, TypeOK, Lists, LeaderPC, rvars, uvars,
       ghosts
  <2>2. /\ Registered' /\ ViewInSection' /\ PreInSection' /\ VisibleMB'
        /\ \A q \in Readers : Visible(q)' <=> Visible(q)
    BY <1>0, <1>15, LeaderStepKeeps DEF SpliceReaders, TypeOK, PreInSection,
       rvars, uvars, ghosts
  <2>3. Control' /\ Settled'
    BY <1>0, <1>15 DEF SpliceReaders, IInv, TypeOK, Control, Settled,
       InBarrier, InputReaders, Unlocked, Lists, uvars
  <2>4. BarrierCovers' /\ PreAwaited'
    BY <1>0, <1>15, <2>2 DEF SpliceReaders, IInv, TypeOK, BarrierCovers,
       PreAwaited, Started, Awaited, InBarrier, Control, Settled,
       PreInSection, Registered, InputReaders, Phase, rvars, uvars, ghosts
  <2> QED BY <2>1, <2>2, <2>3, <2>4 DEF IInv
<1>16. CASE SynchronizeReturn
  <2>1. TypeOK'
    <3>1. loops' \in 0 .. QsAttempts
      BY <1>16 DEF SynchronizeReturn
    <3> QED BY <1>0, <1>16, <3>1 DEF SynchronizeReturn, TypeOK, LeaderPC, rvars, ghosts
  <2>2. /\ Registered' /\ ViewInSection' /\ PreInSection' /\ VisibleMB'
        /\ \A q \in Readers : Visible(q)' <=> Visible(q)
    BY <1>0, <1>16, LeaderStepKeeps DEF SynchronizeReturn, TypeOK,
       PreInSection, rvars, uvars, ghosts
  <2>3. Control' /\ Settled'
    BY <1>0, <1>16 DEF SynchronizeReturn, IInv, TypeOK, Control, Settled,
       InBarrier, InputReaders, Unlocked, Lists, uvars
  <2>4. BarrierCovers' /\ PreAwaited'
    BY <1>0, <1>16, <2>2 DEF SynchronizeReturn, IInv, TypeOK, BarrierCovers,
       PreAwaited, Started, Awaited, InBarrier, Control, Settled,
       PreInSection, Registered, InputReaders, Phase, rvars, uvars, ghosts
  <2> QED BY <2>1, <2>2, <2>3, <2>4 DEF IInv
<1> QED
  BY <1>1, <1>2, <1>3, <1>4, <1>5, <1>6, <1>7, <1>8, <1>9, <1>10, <1>11,
     <1>12, <1>13, <1>14, <1>15, <1>16 DEF LeaderStep

LEMMA StutterPreserves == IInv /\ UNCHANGED vars => IInv'
  BY DEF vars, rvars, uvars, ghosts, IInv, TypeOK, Registered, ViewInSection, View,
         PreInSection, VisibleMB, Visible, Control, Settled, BarrierCovers, PreAwaited,
         Started, Awaited, InBarrier, InputReaders

LEMMA NextIInv == IInv /\ [Next]_vars => IInv'
  BY ReaderPreserves, LeaderPreserves, StutterPreserves DEF Next

LEMMA IInvHolds == Spec => []IInv
  BY InitIInv, NextIInv, PTL DEF Spec

-----------------------------------------------------------------------------
(* Type correctness of the flavors, lists and counters of module Urcu.     *)
THEOREM TypeCorrect == Spec => []TypeOK
<1>1. IInv => TypeOK
  BY DEF IInv
<1> QED BY <1>1, IInvHolds, PTL

(* At "out" every reader is on the registry list or on none, and if the    *)
(* registry was not found empty this is the end of the second pass, where  *)
(* an awaited reader is on another list.                                   *)
LEMMA GuaranteeFollows == ASSUME IInv PROVE GracePeriodGuarantee
<1>1. ASSUME upc = "out", NEW r \in pre PROVE FALSE
  <2>1. r \in Readers /\ list[r] # "none"
    BY <1>1 DEF IInv, TypeOK, PreInSection, Registered
  <2>2. Awaited(r) /\ list[r] = "registry" /\ pass = 2
    BY <1>1, <2>1 DEF IInv, TypeOK, PreAwaited, Started, InBarrier, Settled
  <2> QED BY <2>2 DEF Awaited
<1> QED BY <1>1 DEF GracePeriodGuarantee

(* The grace-period guarantee: when synchronize_rcu() (urcu.c) returns,    *)
(* every critical section that was running when the grace period began     *)
(* has ended, in all three flavors and whatever the store buffers held     *)
(* back.  At "out" every list but the registry is empty and pass is 2, or  *)
(* the registry was found empty: in both cases no reader is awaited.       *)
THEOREM GracePeriodHolds == Spec => []GracePeriodGuarantee
<1>1. IInv => GracePeriodGuarantee
  BY GuaranteeFollows
<1> QED BY <1>1, IInvHolds, PTL

-----------------------------------------------------------------------------
(* The refinement of GracePeriod.                                          *)

(* Steps that neither start nor end a section or a grace period.           *)
LEMMA Invisible ==
    ASSUME UNCHANGED <<cs, pre>>, upc # "idle" <=> upc' # "idle"
    PROVE  UNCHANGED GP!gpvars
<1>1. [u \in {"leader"} |-> upc' # "idle"] = [u \in {"leader"} |-> upc # "idle"]
  OBVIOUS
<1> QED BY <1>1 DEF GP!gpvars

LEMMA SectionStarts ==
    ASSUME NEW r \in Readers, r \notin cs, cs' = cs \cup {r},
           UNCHANGED <<pre, upc>>
    PROVE  GP!GPNext
<1>1. GP!ReadLock(r)
  BY DEF GP!ReadLock
<1> QED BY <1>1 DEF GP!GPNext

LEMMA SectionEnds ==
    ASSUME NEW r \in Readers, r \in cs, cs' = cs \ {r}, pre' = pre \ {r},
           UNCHANGED upc
    PROVE  GP!GPNext
<1>1. [u \in {"leader"} |-> pre'] =
         [u \in {"leader"} |-> [w \in {"leader"} |-> pre][u] \ {r}]
  OBVIOUS
<1>2. GP!ReadUnlock(r)
  BY <1>1 DEF GP!ReadUnlock
<1> QED BY <1>2 DEF GP!GPNext

LEMMA CallBegins ==
    ASSUME upc = "idle", upc' # "idle", pre' = cs, cs' = cs
    PROVE  GP!GPNext
<1> DEFINE sync == [u \in {"leader"} |-> upc # "idle"]
           sync1 == [u \in {"leader"} |-> upc' # "idle"]
<1>1. ~ sync["leader"]
  OBVIOUS
<1>2. sync1 = [sync EXCEPT !["leader"] = TRUE]
  OBVIOUS
<1>3. [u \in {"leader"} |-> pre'] = [[u \in {"leader"} |-> pre] EXCEPT !["leader"] = cs]
  OBVIOUS
<1>4. GP!SyncCall("leader")
  BY <1>1, <1>2, <1>3 DEF GP!SyncCall
<1> QED BY <1>4 DEF GP!GPNext

LEMMA CallReturns ==
    ASSUME upc # "idle", upc' = "idle", pre = {}, UNCHANGED <<cs, pre>>
    PROVE  GP!GPNext
<1> DEFINE sync == [u \in {"leader"} |-> upc # "idle"]
           sync1 == [u \in {"leader"} |-> upc' # "idle"]
<1>1. sync["leader"]
  OBVIOUS
<1>2. sync1 = [sync EXCEPT !["leader"] = FALSE]
  OBVIOUS
<1>3. GP!SyncReturn("leader")
  BY <1>1, <1>2 DEF GP!SyncReturn
<1> QED BY <1>3 DEF GP!GPNext

(* Every step of the detection is a step of GracePeriod, or a stutter.     *)
LEMMA StepRefines == IInv /\ [Next]_vars => [GP!GPNext]_(GP!gpvars)
<1> SUFFICES ASSUME IInv, [Next]_vars
             PROVE  GP!GPNext \/ UNCHANGED GP!gpvars
  OBVIOUS
<1>1. CASE \E r \in Readers : ReadLockStore(r) \/ ReadLockBarrier(r)
  <2>1. PICK r \in Readers : ReadLockStore(r) \/ ReadLockBarrier(r)
    BY <1>1
  <2>2. r \notin cs /\ UNCHANGED <<pre, upc>> /\ cs' \in {cs, cs \cup {r}}
    BY <2>1 DEF ReadLockStore, ReadLockBarrier, IInv, ViewInSection, uvars
  <2> QED BY <2>2, SectionStarts, Invisible
<1>2. CASE \E r \in Readers : rcu_read_unlock(r)
  <2>1. PICK r \in Readers : rcu_read_unlock(r)
    BY <1>2
  <2>2. r \in cs
    BY <2>1 DEF rcu_read_unlock, IInv, ViewInSection
  <2> QED BY <2>1, <2>2, SectionEnds DEF rcu_read_unlock, uvars
<1>3. CASE \E r \in Readers : Commit(r) \/ sigrcu_handler(r)
  BY <1>3, Invisible DEF Commit, sigrcu_handler, uvars, ghosts
<1>4. CASE \E r \in Readers : wake_up_gp(r) \/ WakeSet(r) \/ WakeFutex(r)
  BY <1>4, Invisible DEF wake_up_gp, WakeSet, WakeFutex, uvars, ghosts
<1>5. CASE \E r \in Readers :
             \/ rcu_register_thread(r) \/ rcu_unregister_thread(r) \/ rcu_read_lock(r)
             \/ rcu_read_lock_nested(r) \/ rcu_read_unlock_nested(r)
  BY <1>5, Invisible DEF rcu_register_thread, rcu_unregister_thread, rcu_read_lock,
     rcu_read_lock_nested, rcu_read_unlock_nested, uvars, ghosts
<1>6. CASE synchronize_rcu
  BY <1>6, CallBegins DEF synchronize_rcu
<1>7. CASE SynchronizeReturn
  <2>1. pre = {}
    BY <1>7, GuaranteeFollows DEF SynchronizeReturn, GracePeriodGuarantee
  <2> QED BY <1>7, <2>1, CallReturns DEF SynchronizeReturn, ghosts
<1>8. CASE MasterBarrierReturn
  <2>1. ret # "idle"
    BY <1>8 DEF MasterBarrierReturn, IInv, Control
  <2> QED BY <1>8, <2>1, Invisible DEF MasterBarrierReturn, ghosts
<1>9. CASE LeaderStep /\ ~ SynchronizeReturn /\ ~ MasterBarrierReturn
  <2>1. UNCHANGED <<cs, pre>> /\ upc # "idle" /\ upc' # "idle"
    BY <1>9 DEF LeaderStep, LockRegistry, smp_mb_master, Iterate, ScanReader, ScanDone,
       ResetFutex, UnlockRegistry, wait_gp, FutexWait, RelockRegistry, FlipPhase,
       SpliceReaders, AfterPass, ghosts
  <2> QED BY <2>1, Invisible
<1>10. CASE SpuriousWakeup
  BY <1>10, Invisible DEF SpuriousWakeup, ghosts
<1>11. CASE UNCHANGED vars
  BY <1>11, Invisible DEF vars, uvars, ghosts
<1> QED
  BY <1>1, <1>2, <1>3, <1>4, <1>5, <1>6, <1>7, <1>8, <1>9, <1>10, <1>11
     DEF Next, ReaderStep, ReaderCall

(* The detection of grace periods (urcu.c) implements GracePeriod, for one *)
(* caller at a time, the holder of rcu_gp_lock.                            *)
THEOREM Refinement == Spec => ImplementsGracePeriod
<1>1. Init => GP!GPInit
  <2> SUFFICES ASSUME Init PROVE GP!GPInit
    OBVIOUS
  <2>1. [u \in {"leader"} |-> upc # "idle"] = [u \in {"leader"} |-> FALSE]
    BY DEF Init
  <2> QED BY <2>1 DEF Init, GP!GPInit
<1> QED
  BY <1>1, StepRefines, IInvHolds, PTL DEF Spec, ImplementsGracePeriod, GP!GPSpec

=============================================================================
