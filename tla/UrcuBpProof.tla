---------------------------- MODULE UrcuBpProof -----------------------------
(***************************************************************************)
(* The bp flavor (src/urcu-bp.c): the arena of readers stays consistent,   *)
(* each live thread has its own slot, a child process waits for no thread  *)
(* of its parent, and synchronize_rcu() keeps its promise.                 *)
(***************************************************************************)
EXTENDS UrcuBp, FiniteSetTheorems, SequenceTheorems, TLAPS

-----------------------------------------------------------------------------
(* The inductive invariant.                                                *)

(* Where a thread is: in synchronize_rcu() with rcu_gp_lock; between the   *)
(* fork handlers; in the read side; registering; dropping a reference on   *)
(* the library.                                                            *)
BpSyncPC == {"sync_lock", "scan", "relock", "sync_out"}
BpForkPC == {"fork_reg", "fork", "child"}
BpReadPC == {"idle", "reg_check", "lock_load", "lock_store"}
BpRegPC == {"init_lock", "init", "add"}
BpExitPC == {"exit_lock", "exit"}
BpSavedPC == BpReadPC \cup BpExitPC \cup {"none"}
BpThreadPC == BpReadPC \cup BpRegPC \cup BpExitPC \cup BpSyncPC \cup BpForkPC

(* An arena chunk and a reader's slot in it.                               *)
Chunk == [data_len : Nat, used : Nat]
Slot == [phase : {0, 1}, nest : Nat, list : {"registry", "cur_snap", "qs"},
         tid : BThreads]

BpTypeOK ==
    /\ bphase \in {0, 1}
    /\ chunks \in Seq(Chunk)
    /\ DOMAIN slots \subseteq (Nat \X Nat)
    /\ slots \in [DOMAIN slots -> Slot]
    /\ tls \in [BThreads -> (Nat \X Nat) \cup {NoThread}]
    /\ refcount \in Nat
    /\ init_lock \in BThreads \cup {NoThread}
    /\ bgp_lock \in BThreads \cup {NoThread}
    /\ reg_lock \in BThreads \cup {NoThread}
    /\ bpc \in [BThreads -> BpThreadPC]
    /\ btmp \in [BThreads -> {0, 1}]
    /\ saved \in [BThreads -> [pc : BpSavedPC, tmp : {0, 1},
                                nest : Nat, todo : BOOLEAN]]
    /\ alive \subseteq BThreads
    /\ forks \in Nat
    /\ dtor \in BOOLEAN
    /\ bpass \in {1, 2}
    /\ bscan \subseteq (Nat \X Nat)
    /\ bcs \subseteq BThreads
    /\ bpre \subseteq BThreads

(* The arena.  Slots lie within their chunk, and used counts them.         *)
InChunk(c) == {s \in DOMAIN slots : s[1] = c}
BpArena ==
    /\ IsFiniteSet(DOMAIN slots)
    /\ \A s \in DOMAIN slots :
          s[1] \in DOMAIN chunks /\ (s[2] + 1) * SlotSize <= chunks[s[1]].data_len
    /\ \A c \in DOMAIN chunks :
          /\ chunks[c].data_len >= SlotSize
          /\ chunks[c].used <= chunks[c].data_len
          /\ chunks[c].used = Cardinality(InChunk(c)) * SlotSize

(* Slots and threads: a thread's slot is its own; a slot of nobody exists  *)
(* only in a child that has not pruned its registry.                       *)
BpSlots ==
    /\ \A t \in BThreads : tls[t] # NoThread =>
          tls[t] \in DOMAIN slots /\ slots[tls[t]].tid = t
    /\ \A s \in DOMAIN slots :
          \/ slots[s].tid \in alive /\ tls[slots[s].tid] = s
          \/ \E t \in alive : bpc[t] = "child" /\ slots[s].tid # t

(* The references on the library: the constructor's, one of each thread    *)
(* that registers or is registered, one that each exit call is to drop.    *)
Holds(kind, t) ==
    \/ kind = "registered" /\ t \in alive /\ (tls[t] # NoThread \/ bpc[t] = "add")
    \/ /\ kind = "exiting" /\ t \in alive
       /\ bpc[t] \in BpExitPC \/ saved[t].pc \in BpExitPC
    \/ kind = "library" /\ t = NoThread /\ ~ dtor
References ==
    {r \in {"registered", "exiting", "library"} \X (BThreads \cup {NoThread}) :
        Holds(r[1], r[2])}
BpReferences == Cardinality(References) <= refcount

(* Threads.                                                                *)
BpThreads ==
    /\ \A t \in BThreads \ alive :
          tls[t] = NoThread /\ bpc[t] = "idle" /\ saved[t] = NoContext /\ t \notin bcs
    /\ \A t \in BThreads :
          /\ t \in bcs <=> Nest(t) > 0
          /\ Nest(t) >= saved[t].nest
          /\ saved[t].pc = "none" => saved[t] = NoContext
          /\ bpc[t] \in {"lock_load", "lock_store"} => tls[t] # NoThread
          /\ saved[t].pc \in {"lock_load", "lock_store"} => tls[t] # NoThread
          /\ bpc[t] \in BpRegPC => tls[t] = NoThread
          /\ bpc[t] \in BpSyncPC => ~ InHandler(t) /\ Nest(t) = 0
          /\ bpc[t] \in BpForkPC \cup BpExitPC => ~ InHandler(t)
    /\ \A t \in alive : bpc[t] = "child" => alive = {t}

(* Locks.                                                                  *)
BpLocks ==
    /\ \A t \in BThreads :
          /\ bgp_lock = t <=> bpc[t] \in BpSyncPC \cup BpForkPC
          /\ reg_lock = t <=> bpc[t] \in {"scan", "sync_out", "fork", "child"}

BpInGP == \E t \in BThreads : bpc[t] \in BpSyncPC

(* The lists.                                                              *)
BpLists ==
    /\ ~ BpInGP => bpass = 1 /\ bpre = {}
    /\ ~ BpInGP \/ (\E t \in BThreads : bpc[t] \in {"sync_lock", "sync_out"}) =>
          \A s \in DOMAIN slots : slots[s].list = "registry"
    /\ \A t \in BThreads : bpc[t] = "sync_lock" => bpass = 1
    /\ (\E t \in BThreads : bpc[t] = "scan") =>
          \A s \in bscan : s \in DOMAIN slots /\ slots[s].list = BpInput

BpAwaited(s) ==
    \/ bpass = 1 /\ slots[s].list = "registry"
    \/ bpass = 1 /\ slots[s].list = "cur_snap" /\ slots[s].phase = bphase
    \/ bpass = 2 /\ slots[s].list = "cur_snap" /\ slots[s].phase # bphase

BpPreAwaited ==
    /\ bpre \subseteq bcs
    /\ (\E t \in BThreads : bpc[t] = "sync_out") => bpre = {}
    /\ BpInGP => \A t \in bpre : BpAwaited(tls[t])

BpIInv ==
    /\ BpTypeOK /\ BpArena /\ BpSlots /\ BpReferences /\ BpThreads
    /\ BpLocks /\ BpLists /\ BpPreAwaited
(* A nonempty set of numbers has a least element.                          *)
LEMMA MinNat ==
    ASSUME NEW S, S \subseteq Nat, S # {}
    PROVE  \E m \in S : \A k \in S : m <= k
<1>1. IsWellFoundedOn(OpToRel(<, Nat), Nat)
  BY NatLessThanWellFounded
<1>2. PICK m \in S : \A k \in S : ~ (<<k, m>> \in OpToRel(<, Nat))
  BY <1>1, WFMin, Zenon
<1>3. \A k \in S : ~ (k < m)
  BY <1>2 DEF OpToRel
<1> QED BY <1>3

(* Least, the first free slot or the first chunk with room, is what its    *)
(* name says.                                                              *)
LEMMA LeastIsLeast ==
    ASSUME NEW S, S \subseteq Nat, S # {}
    PROVE  Least(S) \in S /\ \A k \in S : Least(S) <= k
<1>1. \E m \in S : \A k \in S : m <= k
  BY MinNat
<1> QED BY <1>1, Zenon DEF Least

(* A chunk whose first k slots are taken has at least k slots.             *)
LEMMA FullPrefix ==
    ASSUME NEW D, IsFiniteSet(D), NEW c, NEW k \in Nat,
           \A j \in 0 .. k - 1 : <<c, j>> \in D
    PROVE  k <= Cardinality({s \in D : s[1] = c})
<1> DEFINE E == {s \in D : s[1] = c}
           f == [j \in 0 .. k - 1 |-> <<c, j>>]
<1>1. IsFiniteSet(E)
  <2>1. E \in SUBSET D
    OBVIOUS
  <2> QED BY <2>1, FS_Subset
<1>2. f \in Injection(0 .. k - 1, E)
  <2>1. f \in [0 .. k - 1 -> E]
    OBVIOUS
  <2>2. \A i, j \in 0 .. k - 1 : f[i] = f[j] => i = j
    OBVIOUS
  <2> QED BY <2>1, <2>2 DEF Injection, IsInjective
<1>3. Cardinality(0 .. k - 1) = k
  <2>1. 0 \in Int /\ k - 1 \in Int
    OBVIOUS
  <2>2. Cardinality(0 .. k - 1) = IF 0 > k - 1 THEN 0 ELSE k - 1 - 0 + 1
    BY FS_Interval
  <2> QED BY <2>2
<1>4. Cardinality(0 .. k - 1) <= Cardinality(E)
  BY <1>1, <1>2, FS_Injection
<1> QED BY <1>3, <1>4

(* The arithmetic of slots of SlotSize bytes.                              *)
LEMMA Times ==
    ASSUME NEW a \in Nat, NEW b \in Nat, a <= b
    PROVE  a * SlotSize <= b * SlotSize /\ (a + 1) * SlotSize = a * SlotSize + SlotSize
           /\ a <= a * SlotSize
BY BpAssumption

(* arena_alloc() finds a slot: a chunk whose used length leaves room for a *)
(* reader has a free slot, and the first free one lies within the chunk.   *)
LEMMA RoomFits ==
    ASSUME BpTypeOK, IsFiniteSet(DOMAIN slots),
           NEW ch \in Seq(Chunk), NEW c \in DOMAIN ch,
           ch[c].used = Cardinality(InChunk(c)) * SlotSize,
           ch[c].data_len - ch[c].used >= SlotSize
    PROVE  /\ FreeIn(ch, c) # {}
           /\ Least(FreeIn(ch, c)) \in Nat
           /\ <<c, Least(FreeIn(ch, c))>> \notin DOMAIN slots
           /\ (Least(FreeIn(ch, c)) + 1) * SlotSize <= ch[c].data_len
<1> DEFINE F == {i \in Nat : <<c, i>> \notin DOMAIN slots}
           n == Cardinality(InChunk(c))
<1>1. InChunk(c) = {s \in DOMAIN slots : s[1] = c} /\ n \in Nat
  <2>1. InChunk(c) \in SUBSET (DOMAIN slots)
    BY DEF InChunk
  <2>2. IsFiniteSet(InChunk(c))
    BY <2>1, FS_Subset
  <2> QED BY <2>2, FS_CardinalityType DEF InChunk
<1> HIDE DEF n
<1>2. F # {}
  <2> SUFFICES ASSUME F = {} PROVE FALSE
    OBVIOUS
  <2>1. \A j \in 0 .. (n + 1) - 1 : <<c, j>> \in DOMAIN slots
    BY <1>1
  <2>2. n + 1 \in Nat
    BY <1>1
  <2>3. n + 1 <= Cardinality({s \in DOMAIN slots : s[1] = c})
    BY <2>1, <2>2, FullPrefix
  <2>4. n + 1 <= n
    BY <1>1, <2>3 DEF n
  <2> QED BY <1>1, <2>4
<1>3. PICK m \in F : \A k \in F : m <= k
  BY <1>2, MinNat
<1>4. m <= n
  <2>1. \A j \in 0 .. m - 1 : <<c, j>> \in DOMAIN slots
    BY <1>3
  <2> QED BY <1>1, <1>3, <2>1, FullPrefix DEF n
<1>5. m * SlotSize <= ch[c].used /\ (m + 1) * SlotSize = m * SlotSize + SlotSize
      /\ m <= m * SlotSize
  BY <1>1, <1>3, <1>4, Times DEF n
<1>6. ch[c].used \in Nat /\ ch[c].data_len \in Nat /\ SlotSize \in Nat \ {0}
  <2>1. ch[c] \in Chunk
    OBVIOUS
  <2> QED BY <2>1, BpAssumption DEF Chunk
<1>7. (m + 1) * SlotSize <= ch[c].data_len /\ m * SlotSize < ch[c].data_len
      /\ m <= ch[c].data_len /\ m \in Nat
  <2> DEFINE u == ch[c].used
             l == ch[c].data_len
             ms == m * SlotSize
             mss == (m + 1) * SlotSize
  <2>1. m \in Nat /\ ms \in Nat /\ u \in Nat /\ l \in Nat /\ SlotSize \in Nat \ {0}
    BY <1>6
  <2>2. ms <= u /\ mss = ms + SlotSize /\ m <= ms /\ l - u >= SlotSize
    BY <1>5
  <2> HIDE DEF u, l, ms, mss
  <2>3. mss <= l /\ ms < l /\ m <= l
    BY <2>1, <2>2
  <2> QED BY <2>1, <2>3 DEF l, ms, mss
<1>8. m \in FreeIn(ch, c)
  BY <1>3, <1>7 DEF FreeIn, SlotsOf
<1>9. FreeIn(ch, c) \subseteq F /\ FreeIn(ch, c) \subseteq Nat
  BY <1>6 DEF FreeIn, SlotsOf
<1>10. Least(FreeIn(ch, c)) \in FreeIn(ch, c) /\ Least(FreeIn(ch, c)) <= m
  BY <1>8, <1>9, LeastIsLeast
<1>11. Least(FreeIn(ch, c)) = m
  <2> DEFINE i == Least(FreeIn(ch, c))
  <2>1. i \in Nat /\ m \in Nat /\ i <= m /\ m <= i
    BY <1>3, <1>9, <1>10
  <2> HIDE DEF i
  <2>2. i = m
    BY <2>1
  <2> QED BY <2>2 DEF i
<1> QED BY <1>3, <1>7, <1>8, <1>11


(* expand_arena(), in place or with a new chunk, leaves a chunk with room  *)
(* and the old chunks at least as long as they were.                       *)
LEMMA ExpandHasRoom ==
    ASSUME BpTypeOK, BpArena, NEW ch \in expand_arena
    PROVE  /\ ch \in Seq(Chunk)
           /\ \E c \in DOMAIN ch : ch[c].data_len - ch[c].used >= SlotSize
           /\ DOMAIN chunks \subseteq DOMAIN ch
           /\ \A c \in DOMAIN ch :
                 /\ ch[c].data_len >= SlotSize
                 /\ ch[c].used <= ch[c].data_len
                 /\ ch[c].used = Cardinality(InChunk(c)) * SlotSize
           /\ \A c \in DOMAIN chunks : chunks[c].data_len <= ch[c].data_len
<1>0. chunks \in Seq(Chunk) /\ SlotSize \in Nat \ {0} /\ HdrSize \in Nat /\ InitSlots \in Nat \ {0}
  BY BpAssumption DEF BpTypeOK
<1>1. \A c : c \notin DOMAIN chunks => Cardinality(InChunk(c)) * SlotSize = 0
  <2>1. \A c : c \notin DOMAIN chunks => InChunk(c) = {}
    BY DEF BpArena, InChunk
  <2>2. Cardinality({}) = 0 /\ 0 * SlotSize = 0
    BY <1>0, FS_EmptySet
  <2> QED BY <2>1, <2>2, Zenon
<1>4. \A c \in DOMAIN chunks : chunks[c] \in Chunk
  BY <1>0
<1>2. CASE chunks = << >>
  <2> DEFINE d == InitSlots * SlotSize
             r == [data_len |-> d, used |-> 0]
  <2>1. ch = <<r>>
    BY <1>2 DEF expand_arena
  <2>2. d \in Nat /\ d >= SlotSize
    BY <1>0
  <2>3. r \in Chunk /\ r.data_len = d /\ r.used = 0
    BY <2>2 DEF Chunk
  <2> HIDE DEF d, r
  <2>4. ch \in Seq(Chunk) /\ DOMAIN ch = {1} /\ ch[1] = r
    BY <2>1, <2>3
  <2>5. DOMAIN chunks = {}
    BY <1>2
  <2> QED BY <1>0, <1>1, <2>2, <2>3, <2>4, <2>5
<1>3. CASE chunks # << >>
  <2> DEFINE n == Len(chunks)
             len == 2 * (chunks[n].data_len + HdrSize) - HdrSize
  <2>1. n \in Nat \ {0} /\ n \in DOMAIN chunks /\ DOMAIN chunks = 1 .. n
    BY <1>0, <1>3
  <2>2. chunks[n] \in Chunk
    BY <1>0, <2>1
  <2>3. /\ chunks[n].data_len \in Nat /\ chunks[n].used \in Nat
        /\ chunks[n].data_len >= SlotSize
        /\ chunks[n].used = Cardinality(InChunk(n)) * SlotSize
    BY <2>1, <2>2 DEF Chunk, BpArena
  <2>4. len \in Nat /\ len >= chunks[n].data_len /\ len >= SlotSize
    BY SMTT(20), <1>0, <2>3
  <2>5. chunks[n].used <= chunks[n].data_len
    BY <2>1 DEF BpArena
  <2>6. len - chunks[n].used >= SlotSize
    BY <1>0, <2>3, <2>5
  <2>7. CASE ch = [chunks EXCEPT ![n].data_len = len]
    <3>1. ch \in [1 .. n -> Chunk]
      BY <1>0, <2>1, <2>2, <2>4, <2>7, LenProperties DEF Chunk
    <3>2. ch \in Seq(Chunk) /\ DOMAIN ch = DOMAIN chunks
      BY <3>1
    <3>3. ch[n].data_len = len /\ ch[n].used = chunks[n].used
      BY <2>1, <2>7
    <3>4. \A c \in DOMAIN chunks : c # n => ch[c] = chunks[c]
      BY <2>7
    <3>5. \A c \in DOMAIN chunks : chunks[c].data_len \in Nat
      BY <1>4 DEF Chunk
    <3> HIDE DEF len
    <3>6. ASSUME NEW c \in DOMAIN ch
          PROVE  /\ ch[c].data_len >= SlotSize /\ chunks[c].data_len <= ch[c].data_len
                 /\ ch[c].used = Cardinality(InChunk(c)) * SlotSize
                 /\ ch[c].used <= ch[c].data_len
      <4>1. CASE c = n
        BY <2>3, <2>4, <2>5, <3>3, <4>1
      <4>2. CASE c # n
        BY <3>2, <3>4, <3>5, <4>2 DEF BpArena
      <4> QED BY <4>1, <4>2
    <3> QED BY <2>1, <2>6, <3>2, <3>3, <3>6
  <2>8. CASE ch = Append(chunks, [data_len |-> len, used |-> 0])
    <3> DEFINE r == [data_len |-> len, used |-> 0]
    <3>1. r \in Chunk /\ r.data_len = len /\ r.used = 0
      BY <2>4 DEF Chunk
    <3> HIDE DEF r, len
    <3>2. /\ ch \in Seq(Chunk) /\ DOMAIN ch = 1 .. n + 1 /\ ch[n + 1] = r
          /\ \A c \in 1 .. n : ch[c] = chunks[c]
      BY <1>0, <2>8, <3>1 DEF r
    <3>3. n + 1 \notin DOMAIN chunks /\ n + 1 \in DOMAIN ch
      BY <3>2
    <3>4. \A c \in DOMAIN ch : c \in DOMAIN chunks \/ c = n + 1
      BY <3>2
    <3>5. \A c \in DOMAIN chunks : chunks[c].data_len \in Nat
      BY <1>4 DEF Chunk
    <3>6. ASSUME NEW c \in DOMAIN ch
          PROVE  /\ ch[c].data_len >= SlotSize
                 /\ ch[c].used = Cardinality(InChunk(c)) * SlotSize
                 /\ ch[c].used <= ch[c].data_len
      <4>1. CASE c = n + 1
        BY <1>0, <1>1, <2>4, <3>1, <3>2, <4>1
      <4>2. CASE c \in DOMAIN chunks
        BY <3>2, <4>2 DEF BpArena
      <4> QED BY <3>4, <4>1, <4>2
    <3>7. DOMAIN chunks \subseteq DOMAIN ch
      BY <3>2
    <3>8. \A c \in DOMAIN chunks : chunks[c].data_len <= ch[c].data_len
      BY <3>2, <3>5
    <3>9. ch[n + 1].data_len - ch[n + 1].used >= SlotSize
      BY <2>4, <3>1, <3>2
    <3> QED BY <3>2, <3>3, <3>6, <3>7, <3>8, <3>9
  <2> QED BY <1>3, <2>7, <2>8 DEF expand_arena
<1> QED BY <1>2, <1>3

(* What add_thread() does to the slots: s is new, and belongs to t.        *)
Added(s, t) ==
    /\ slots' = [x \in DOMAIN slots \cup {s} |->
                    IF x = s THEN [phase |-> 0, nest |-> 0,
                                   list |-> "registry", tid |-> t]
                             ELSE slots[x]]
    /\ tls' = [tls EXCEPT ![t] = s]

(* add_thread() takes a slot that nobody has, inside its chunk, and counts *)
(* it.                                                                     *)
LEMMA AddThread ==
    ASSUME BpTypeOK, BpArena, NEW t \in BThreads, add_thread(t)
    PROVE  /\ chunks' \in Seq(Chunk) /\ BpArena'
           /\ \E s \in (Nat \X Nat) \ DOMAIN slots : Added(s, t)
<1>1. PICK ch \in IF ChunksWithRoom(chunks) # {} THEN {chunks} ELSE expand_arena :
         LET c == Least(ChunksWithRoom(ch))
             s == <<c, Least(FreeIn(ch, c))>>
         IN  chunks' = [ch EXCEPT ![c].used = @ + SlotSize] /\ Added(s, t)
  BY DEF add_thread, Added
<1>2. chunks \in Seq(Chunk) /\ IsFiniteSet(DOMAIN slots) /\ SlotSize \in Nat \ {0}
  BY BpAssumption DEF BpTypeOK, BpArena
<1>3. /\ ch \in Seq(Chunk)
      /\ DOMAIN chunks \subseteq DOMAIN ch
      /\ \A c \in DOMAIN ch :
            /\ ch[c].data_len >= SlotSize
            /\ ch[c].used <= ch[c].data_len
            /\ ch[c].used = Cardinality(InChunk(c)) * SlotSize
      /\ \A c \in DOMAIN chunks : chunks[c].data_len <= ch[c].data_len
      /\ \E c \in DOMAIN ch : ch[c].data_len - ch[c].used >= SlotSize
  <2>1. CASE ch = chunks /\ ChunksWithRoom(chunks) # {}
    <3>1. \A c \in DOMAIN chunks : chunks[c] \in Chunk
      BY <1>2
    <3>2. \A c \in DOMAIN chunks : chunks[c].data_len <= chunks[c].data_len
      BY <3>1 DEF Chunk
    <3>3. \E c \in DOMAIN chunks : chunks[c].data_len - chunks[c].used >= SlotSize
      BY <2>1 DEF ChunksWithRoom
    <3> QED BY <1>2, <2>1, <3>2, <3>3 DEF BpArena
  <2>2. CASE ch \in expand_arena
    BY <2>2, ExpandHasRoom
  <2> QED BY <1>1, <2>1, <2>2
<1>4. DOMAIN ch \subseteq Nat /\ \A c \in DOMAIN ch : ch[c] \in Chunk
  <2>1. DOMAIN ch = 1 .. Len(ch) /\ Len(ch) \in Nat
    BY <1>3
  <2> QED BY <1>3, <2>1, ElementOfSeq
<1>5. ChunksWithRoom(ch) # {} /\ ChunksWithRoom(ch) \subseteq Nat
  <2>1. PICK c \in DOMAIN ch : ch[c].data_len - ch[c].used >= SlotSize
    BY <1>3
  <2>2. FreeIn(ch, c) # {}
    BY <1>2, <1>3, <2>1, RoomFits
  <2> QED BY <1>4, <2>1, <2>2 DEF ChunksWithRoom
<1> DEFINE c == Least(ChunksWithRoom(ch))
           i == Least(FreeIn(ch, c))
           s == <<c, i>>
<1>6. c \in DOMAIN ch /\ ch[c].data_len - ch[c].used >= SlotSize
  BY <1>5, LeastIsLeast DEF ChunksWithRoom
<1>7. i \in Nat /\ <<c, i>> \notin DOMAIN slots /\ (i + 1) * SlotSize <= ch[c].data_len
  BY <1>2, <1>3, <1>6, RoomFits
<1>8. chunks' = [ch EXCEPT ![c].used = @ + SlotSize] /\ Added(s, t)
  BY <1>1
<1> HIDE DEF c, i
<1>9. s \in (Nat \X Nat) \ DOMAIN slots
  BY <1>4, <1>6, <1>7
<1>10. /\ DOMAIN chunks' = DOMAIN ch /\ chunks' \in Seq(Chunk)
       /\ chunks'[c].data_len = ch[c].data_len /\ chunks'[c].used = ch[c].used + SlotSize
       /\ \A k \in DOMAIN ch : k # c => chunks'[k] = ch[k]
  <2>1. ch[c].data_len \in Nat /\ ch[c].used + SlotSize \in Nat
    BY <1>2, <1>4, <1>6 DEF Chunk
  <2>2. DOMAIN ch = 1 .. Len(ch) /\ Len(ch) \in Nat
    BY <1>3
  <2>3. chunks' = [ch EXCEPT ![c] = [ch[c] EXCEPT !.used = ch[c].used + SlotSize]]
    BY <1>8
  <2>4. [ch[c] EXCEPT !.used = ch[c].used + SlotSize] \in Chunk
    BY <1>4, <1>6, <2>1 DEF Chunk
  <2>5. chunks' \in [1 .. Len(ch) -> Chunk]
    BY <1>4, <1>6, <2>2, <2>3, <2>4
  <2>6. chunks' \in Seq(Chunk) /\ DOMAIN chunks' = DOMAIN ch
    BY <2>5
  <2>7. /\ chunks'[c].data_len = ch[c].data_len /\ chunks'[c].used = ch[c].used + SlotSize
        /\ \A k \in DOMAIN ch : k # c => chunks'[k] = ch[k]
    BY <1>4, <1>6, <2>3 DEF Chunk
  <2> QED BY <2>6, <2>7
<1>11. DOMAIN slots' = DOMAIN slots \cup {s}
  BY <1>8 DEF Added
<1>12. IsFiniteSet(DOMAIN slots')
  BY <1>2, <1>11, FS_AddElement
<1>13. ASSUME NEW x \in DOMAIN slots'
       PROVE  x[1] \in DOMAIN chunks' /\ (x[2] + 1) * SlotSize <= chunks'[x[1]].data_len
  <2>1. CASE x = s
    BY <1>6, <1>7, <1>10, <2>1
  <2>2. CASE x \in DOMAIN slots
    <3>1. x[1] \in DOMAIN chunks /\ (x[2] + 1) * SlotSize <= chunks[x[1]].data_len
      BY <2>2 DEF BpArena
    <3>2. x[1] \in DOMAIN ch /\ chunks[x[1]].data_len <= ch[x[1]].data_len
      BY <1>3, <3>1
    <3>3. chunks'[x[1]].data_len = ch[x[1]].data_len
      BY <1>10, <3>2
    <3>4. x[2] \in Nat
      BY <2>2 DEF BpTypeOK
    <3>5. chunks[x[1]].data_len \in Nat /\ ch[x[1]].data_len \in Nat
      <4>1. \A k \in DOMAIN chunks : chunks[k] \in Chunk
        BY <1>2
      <4> QED BY <1>4, <3>1, <3>2, <4>1 DEF Chunk
    <3>6. (x[2] + 1) * SlotSize \in Nat
      BY <1>2, <3>4
    <3> QED BY <1>10, <3>1, <3>2, <3>3, <3>5, <3>6
  <2> QED BY <1>11, <2>1, <2>2
<1>14. ASSUME NEW k \in DOMAIN chunks'
       PROVE  /\ chunks'[k].data_len >= SlotSize
              /\ chunks'[k].used <= chunks'[k].data_len
              /\ chunks'[k].used = Cardinality(InChunk(k)') * SlotSize
  <2>1. CASE k # c
    <3>1. InChunk(k)' = InChunk(k)
      BY <1>11, <2>1 DEF InChunk
    <3> QED BY <1>3, <1>10, <2>1, <3>1
  <2>2. CASE k = c
    <3>1. InChunk(k)' = InChunk(k) \cup {s} /\ s \notin InChunk(k)
      BY <1>9, <1>11, <2>2 DEF InChunk
    <3>2. InChunk(k) \in SUBSET DOMAIN slots
      BY DEF InChunk
    <3>3. IsFiniteSet(InChunk(k))
      BY <1>2, <3>2, FS_Subset
    <3> DEFINE m == Cardinality(InChunk(k))
    <3>4. m \in Nat /\ Cardinality(InChunk(k)') = m + 1
      BY <3>1, <3>3, FS_AddElement, FS_CardinalityType
    <3>5. ch[k].used = m * SlotSize
      BY <1>3, <1>6, <2>2
    <3> HIDE DEF m
    <3>6. (m + 1) * SlotSize = m * SlotSize + SlotSize
      BY <1>2, <3>4
    <3>7. ch[k].data_len \in Nat /\ ch[k].used \in Nat /\ ch[k].data_len >= SlotSize
      BY <1>3, <1>4, <1>6, <2>2 DEF Chunk
    <3> QED BY <1>2, <1>6, <1>10, <2>2, <3>4, <3>5, <3>6, <3>7
  <2> QED BY <2>1, <2>2
<1>15. BpArena'
  BY <1>12, <1>13, <1>14 DEF BpArena
<1> QED BY <1>8, <1>9, <1>10, <1>15

(* cleanup_thread() takes the slots it frees out of the count of their     *)
(* chunk.                                                                  *)
LEMMA Cleanup ==
    ASSUME BpTypeOK, BpArena, NEW S, S \subseteq DOMAIN slots, cleanup_thread(S)
    PROVE  chunks' \in Seq(Chunk) /\ BpArena'
<1>1. chunks \in Seq(Chunk) /\ IsFiniteSet(DOMAIN slots) /\ SlotSize \in Nat \ {0}
  BY BpAssumption DEF BpTypeOK, BpArena
<1>2. DOMAIN chunks = 1 .. Len(chunks) /\ Len(chunks) \in Nat
  BY <1>1
<1>3. \A k \in DOMAIN chunks : chunks[k] \in Chunk
  BY <1>1, <1>2
<1>4. DOMAIN slots' = DOMAIN slots \ S /\ DOMAIN chunks' = DOMAIN chunks
  BY DEF cleanup_thread
<1>5. ASSUME NEW k \in DOMAIN chunks
      PROVE  /\ chunks'[k] \in Chunk
             /\ chunks'[k].data_len = chunks[k].data_len
             /\ chunks'[k].used <= chunks'[k].data_len
             /\ chunks'[k].used = Cardinality(InChunk(k)') * SlotSize
  <2> DEFINE T == {x \in S : x[1] = k}
             m == Cardinality(InChunk(k))
             p == Cardinality(T)
  <2>1. InChunk(k)' = InChunk(k) \ T /\ InChunk(k) \cap T = T
    BY <1>4 DEF InChunk
  <2>2. InChunk(k) \in SUBSET DOMAIN slots /\ T \in SUBSET InChunk(k)
    BY DEF InChunk
  <2>3. IsFiniteSet(InChunk(k)) /\ IsFiniteSet(T)
    BY <1>1, <2>2, FS_Subset
  <2>4. m \in Nat /\ p \in Nat /\ p <= m
    BY <2>2, <2>3, FS_Subset, FS_CardinalityType
  <2>5. Cardinality(InChunk(k)') = m - p
    BY <2>1, <2>3, FS_Difference
  <2>6. chunks'[k] = [chunks[k] EXCEPT !.used = chunks[k].used - SlotSize * p]
    BY DEF cleanup_thread
  <2>7. chunks[k].used = m * SlotSize /\ chunks[k].used <= chunks[k].data_len
    BY DEF BpArena
  <2> HIDE DEF m, p, T
  <2>8. m * SlotSize - SlotSize * p = (m - p) * SlotSize
    BY <1>1, <2>4
  <2>9. (m - p) * SlotSize \in Nat /\ (m - p) * SlotSize <= m * SlotSize /\ m * SlotSize \in Nat
    BY <1>1, <2>4
  <2>10. chunks[k].data_len \in Nat
    BY <1>3 DEF Chunk
  <2>11. chunks'[k] = [data_len |-> chunks[k].data_len, used |-> (m - p) * SlotSize]
    BY <1>3, <2>6, <2>7, <2>8 DEF Chunk
  <2> QED BY <2>5, <2>7, <2>9, <2>10, <2>11 DEF Chunk
<1>6. chunks' \in Seq(Chunk)
  <2>1. chunks' \in [1 .. Len(chunks) -> Chunk]
    BY <1>2, <1>4, <1>5 DEF cleanup_thread
  <2> QED BY <1>2, <2>1, SeqDef
<1>7. IsFiniteSet(DOMAIN slots')
  BY <1>1, <1>4, FS_Difference
<1>8. BpArena'
  BY <1>4, <1>5, <1>7 DEF BpArena
<1> QED BY <1>6, <1>8

(* A step that neither takes nor frees a slot keeps the arena as it is.    *)
LEMMA ArenaKept ==
    ASSUME BpArena, chunks' = chunks, DOMAIN slots' = DOMAIN slots
    PROVE  BpArena'
<1>1. \A c : InChunk(c)' = InChunk(c)
  BY DEF InChunk
<1> QED BY <1>1 DEF BpArena

(* The references on the library are finitely many, and can be counted.    *)
LEMMA ReferencesFinite == IsFiniteSet(References) /\ IsFiniteSet(References')
<1> DEFINE U == {"registered", "exiting", "library"} \X (BThreads \cup {NoThread})
<1>1. IsFiniteSet({"registered", "exiting", "library"})
  <2>1. IsFiniteSet({"registered"} \cup {"exiting"})
    BY FS_Singleton, FS_AddElement
  <2>2. IsFiniteSet(({"registered"} \cup {"exiting"}) \cup {"library"})
    BY <2>1, FS_AddElement
  <2>3. ({"registered"} \cup {"exiting"}) \cup {"library"} = {"registered", "exiting", "library"}
    OBVIOUS
  <2> QED BY <2>2, <2>3
<1>2. IsFiniteSet(BThreads \cup {NoThread})
  BY BpAssumption, FS_AddElement
<1>3. IsFiniteSet(U)
  BY <1>1, <1>2, FS_Product
<1>4. References \in SUBSET U /\ References' \in SUBSET U
  BY DEF References
<1> QED BY <1>3, <1>4, FS_Subset

(* A reference may be handed on from one kind to another without touching  *)
(* the count.                                                              *)
LEMMA RefsKept ==
    ASSUME BpReferences, refcount \in Nat, refcount' = refcount,
           \/ References' \subseteq References
           \/ \E a \in References : \E b : References' \subseteq (References \ {a}) \cup {b}
    PROVE  BpReferences'
<1>1. CASE References' \subseteq References
  BY <1>1, ReferencesFinite, FS_Subset, FS_CardinalityType DEF BpReferences
<1>2. ASSUME NEW a \in References, NEW b, References' \subseteq (References \ {a}) \cup {b}
      PROVE  BpReferences'
  <2>1. IsFiniteSet(References \ {a}) /\ Cardinality(References \ {a}) = Cardinality(References) - 1
    BY ReferencesFinite, FS_RemoveElement
  <2>2. Cardinality(References) \in Nat /\ Cardinality(References \ {a}) \in Nat
    BY <2>1, ReferencesFinite, FS_CardinalityType
  <2>3. /\ IsFiniteSet((References \ {a}) \cup {b})
        /\ \/ Cardinality((References \ {a}) \cup {b}) = Cardinality(References \ {a})
           \/ Cardinality((References \ {a}) \cup {b}) = Cardinality(References \ {a}) + 1
    BY <2>1, FS_AddElement
  <2>4. References' \in SUBSET ((References \ {a}) \cup {b})
    BY <1>2
  <2>5. Cardinality(References') <= Cardinality((References \ {a}) \cup {b})
    BY <2>3, <2>4, FS_Subset
  <2>6. Cardinality(References') \in Nat
    BY ReferencesFinite, FS_CardinalityType
  <2> QED BY <2>1, <2>2, <2>3, <2>5, <2>6 DEF BpReferences
<1> QED BY <1>1, <1>2

(* urcu_bp_init(): one more reference, one more in the count.              *)
LEMMA RefAdded ==
    ASSUME BpReferences, refcount \in Nat, refcount' = refcount + 1, NEW b,
           References' \subseteq References \cup {b}
    PROVE  BpReferences'
<1>1. /\ IsFiniteSet(References \cup {b})
      /\ \/ Cardinality(References \cup {b}) = Cardinality(References)
         \/ Cardinality(References \cup {b}) = Cardinality(References) + 1
  BY FS_AddElement, ReferencesFinite
<1>2. References' \in SUBSET (References \cup {b})
  OBVIOUS
<1>3. Cardinality(References') <= Cardinality(References \cup {b})
  BY <1>1, <1>2, FS_Subset
<1>4. Cardinality(References) \in Nat /\ Cardinality(References') \in Nat
  BY ReferencesFinite, FS_CardinalityType
<1> QED BY <1>1, <1>3, <1>4 DEF BpReferences

(* urcu_bp_exit(): one reference less; when the count reaches zero there   *)
(* is no reference left.                                                   *)
LEMMA RefDropped ==
    ASSUME BpReferences, refcount \in Nat, refcount' = refcount - 1, NEW a \in References,
           References' \subseteq References \ {a}
    PROVE  /\ BpReferences' /\ refcount' \in Nat
           /\ refcount' = 0 => References' = {}
<1>1. /\ IsFiniteSet(References \ {a})
      /\ Cardinality(References \ {a}) = Cardinality(References) - 1
  BY FS_RemoveElement, ReferencesFinite
<1>2. Cardinality(References') <= Cardinality(References \ {a})
  BY <1>1, FS_Subset
<1>3. Cardinality(References) \in Nat /\ Cardinality(References') \in Nat
  BY ReferencesFinite, FS_CardinalityType
<1>4. refcount' \in Nat /\ Cardinality(References') <= refcount'
  BY <1>1, <1>2, <1>3 DEF BpReferences
<1>5. refcount' = 0 => Cardinality(References') = 0
  BY <1>3, <1>4
<1> QED BY <1>4, <1>5, ReferencesFinite, FS_EmptySet DEF BpReferences

(* A store to the slot of one thread: it changes the nesting of that       *)
(* thread and of nobody else.                                              *)
LEMMA OneSlot ==
    ASSUME BpTypeOK, BpSlots, NEW t \in BThreads, NEW s \in DOMAIN slots, NEW r \in Slot,
           slots' = [slots EXCEPT ![s] = r], tls' = tls, r.tid = slots[s].tid
    PROVE  /\ DOMAIN slots' = DOMAIN slots /\ slots' \in [DOMAIN slots -> Slot]
           /\ slots'[s] = r /\ \A x \in DOMAIN slots : x # s => slots'[x] = slots[x]
           /\ \A u \in BThreads :
                 Nest(u)' = IF tls[u] = s THEN r.nest ELSE Nest(u)
           /\ \A u \in BThreads : tls[u] = s => u = slots[s].tid
<1>1. DOMAIN slots' = DOMAIN slots /\ slots' \in [DOMAIN slots -> Slot]
  BY DEF BpTypeOK
<1>2. slots'[s] = r /\ \A x \in DOMAIN slots : x # s => slots'[x] = slots[x]
  OBVIOUS
<1>3. s # NoThread
  BY BpAssumption DEF BpTypeOK
<1>4. \A u \in BThreads : Nest(u)' = IF tls[u] = s THEN r.nest ELSE Nest(u)
  BY <1>2, <1>3 DEF Nest
<1>5. \A u \in BThreads : tls[u] = s => u = slots[s].tid
  BY <1>3 DEF BpSlots
<1> QED BY <1>1, <1>2, <1>4, <1>5

(* The steps of a thread inside the library keep the invariant.            *)
LEMMA BpStepPreserves ==
    ASSUME BpIInv, NEW t \in BThreads, BpStep(t)
    PROVE  BpIInv'
<1> USE DEF BpSyncPC, BpForkPC, BpReadPC, BpRegPC, BpExitPC, BpSavedPC,
           BpThreadPC
<1>0. BpTypeOK /\ BpArena /\ BpSlots /\ BpReferences /\ BpThreads /\ BpLocks /\ BpLists /\ BpPreAwaited
  BY DEF BpIInv
<1>1. CASE RegisterCheck(t)
  <2>1. BpTypeOK'
    BY <1>1, <1>0, BpAssumption DEF BpTypeOK, BpSlots, BpThreads, BpLocks,
       BpLists, BpPreAwaited, RegisterCheck, bgoto, bat, barena, blocks,
       bproc, bsync, bghosts
  <2>2. BpArena'
    BY <1>1, <1>0, ArenaKept DEF RegisterCheck, barena
  <2>3. BpSlots'
    BY <1>1, <1>0, BpAssumption DEF BpSlots, RegisterCheck, bgoto, bat,
       barena, bproc
  <2>4. References' \subseteq References
    BY <1>1, <1>0 DEF References, Holds, RegisterCheck, bgoto, bproc
  <2>5. BpReferences'
    BY <1>1, <1>0, <2>4, RefsKept DEF BpTypeOK, RegisterCheck
  <2>6. BpThreads'
    BY <1>1, <1>0, BpAssumption DEF BpThreads, Nest, InHandler, NoContext,
       BpInGP, RegisterCheck, bgoto, bat, barena, bproc, bghosts
  <2>7. BpLocks'
    BY <1>1, <1>0, BpAssumption DEF BpLocks, RegisterCheck, bgoto, bat, blocks
  <2>8. BpLists'
    BY <1>1, <1>0, BpAssumption DEF Slot, Nest, BpLists, BpInGP, BpInput,
       BpAwaited, RegisterCheck, bgoto, bat, barena, bsync, bghosts
  <2>9. BpPreAwaited'
    BY <1>1, <1>0, BpAssumption DEF BpInGP, BpInput, BpPreAwaited, BpAwaited,
       RegisterCheck, bgoto, barena, bsync, bghosts
  <2> QED
    BY <2>1, <2>2, <2>3, <2>5, <2>6, <2>7, <2>8, <2>9 DEF BpIInv
<1>2. CASE InitLock(t)
  <2>1. BpTypeOK'
    BY <1>2, <1>0, BpAssumption DEF BpTypeOK, BpSlots, BpThreads, BpLocks,
       BpLists, BpPreAwaited, InitLock, bgoto, bat, barena, bproc, bsync,
       bghosts
  <2>2. BpArena'
    BY <1>2, <1>0, ArenaKept DEF InitLock, barena
  <2>3. BpSlots'
    BY <1>2, <1>0, BpAssumption DEF BpSlots, InitLock, bgoto, bat, barena,
       bproc
  <2>4. References' \subseteq References
    BY <1>2, <1>0 DEF References, Holds, InitLock, bgoto, bproc
  <2>5. BpReferences'
    BY <1>2, <1>0, <2>4, RefsKept DEF BpTypeOK, InitLock
  <2>6. BpThreads'
    BY <1>2, <1>0, BpAssumption DEF BpThreads, Nest, InHandler, NoContext,
       BpInGP, InitLock, bgoto, bat, barena, bproc, bghosts
  <2>7. BpLocks'
    BY <1>2, <1>0, BpAssumption DEF BpLocks, InitLock, bgoto, bat
  <2>8. BpLists'
    BY <1>2, <1>0, BpAssumption DEF Slot, Nest, BpLists, BpInGP, BpInput,
       BpAwaited, InitLock, bgoto, bat, barena, bsync, bghosts
  <2>9. BpPreAwaited'
    BY <1>2, <1>0, BpAssumption DEF BpInGP, BpInput, BpPreAwaited, BpAwaited,
       InitLock, bgoto, barena, bsync, bghosts
  <2> QED
    BY <2>1, <2>2, <2>3, <2>5, <2>6, <2>7, <2>8, <2>9 DEF BpIInv
<1>3. CASE rcu_bp_init(t)
  <2>1. References' \subseteq References \cup {<<"registered", t>>}
    BY <1>3, <1>0 DEF References, Holds, rcu_bp_init, bgoto, bproc
  <2>2. BpReferences'
    BY <1>3, <1>0, <2>1, RefAdded DEF BpTypeOK, rcu_bp_init
  <2>3. BpTypeOK'
    <3>1. refcount' \in Nat
      BY <1>3, <1>0 DEF BpTypeOK, rcu_bp_init
    <3> QED
      BY <1>3, <1>0, <3>1 DEF BpTypeOK, rcu_bp_init, bgoto, bat, barena,
         bproc, bsync, bghosts
  <2>4. BpArena'
    BY <1>3, <1>0, ArenaKept DEF rcu_bp_init, barena
  <2>5. BpSlots'
    BY <1>3, <1>0, <2>2, BpAssumption DEF BpSlots, rcu_bp_init, bgoto, bat,
       barena, bproc
  <2>6. BpThreads'
    BY <1>3, <1>0, <2>2, BpAssumption DEF BpThreads, Nest, InHandler,
       NoContext, BpInGP, rcu_bp_init, bgoto, bat, barena, bproc, bghosts
  <2>7. BpLocks'
    BY <1>3, <1>0, <2>2, BpAssumption DEF BpLocks, rcu_bp_init, bgoto, bat
  <2>8. BpLists'
    BY <1>3, <1>0, <2>2, BpAssumption DEF BpLists, BpInGP, BpInput,
       rcu_bp_init, bgoto, bat, barena, bproc, bsync, bghosts
  <2>9. BpPreAwaited'
    BY <1>3, <1>0, <2>2, BpAssumption DEF BpInGP, BpInput, BpPreAwaited,
       BpAwaited, rcu_bp_init, bgoto, barena, bsync, bghosts
  <2> QED
    BY <2>3, <2>4, <2>5, <2>6, <2>7, <2>8, <2>9, <2>2 DEF BpIInv
<1>4. CASE rcu_bp_register(t)
  <2>1. chunks' \in Seq(Chunk) /\ BpArena' /\ \E s \in (Nat \X Nat) \ DOMAIN slots : Added(s, t)
    BY <1>4, <1>0, AddThread DEF rcu_bp_register
  <2>2. PICK s \in (Nat \X Nat) \ DOMAIN slots : Added(s, t)
    BY <2>1
  <2>3. BpTypeOK'
    <3>1. DOMAIN slots' \subseteq (Nat \X Nat) /\ slots' \in [DOMAIN slots' -> Slot]
      BY <1>0, <2>2, BpAssumption DEF BpTypeOK, Slot, Added
    <3>2. tls' \in [BThreads -> (Nat \X Nat) \cup {NoThread}]
      BY <1>0, <2>2 DEF BpTypeOK, Added
    <3>3. bpc' \in [BThreads -> BpThreadPC]
      BY <1>4, <1>0 DEF BpTypeOK, rcu_bp_register, bgoto, BpThreadPC, BpReadPC
    <3>4. UNCHANGED <<bphase, refcount, init_lock, bgp_lock, reg_lock, btmp, saved, alive, forks, dtor,
                      bpass, bscan, bcs, bpre>>
      BY <1>4 DEF rcu_bp_register, blocks, bproc, bsync, bghosts
    <3> QED BY <1>0, <2>1, <3>1, <3>2, <3>3, <3>4 DEF BpTypeOK
  <2>4. BpSlots'
    <3>1. /\ DOMAIN slots' = DOMAIN slots \cup {s} /\ slots'[s].tid = t /\ s \notin DOMAIN slots
          /\ \A x \in DOMAIN slots : slots'[x] = slots[x]
      BY <2>2 DEF Added
    <3>2. /\ tls[t] = NoThread /\ t \in alive /\ bpc[t] = "add" /\ tls'[t] = s
          /\ alive' = alive /\ \A u \in BThreads : u # t => tls'[u] = tls[u]
      BY <1>4, <1>0, <2>2 DEF BpTypeOK, BpThreads, rcu_bp_register, bat,
         bproc, Added
    <3>3. \A u \in BThreads : bpc'[u] = IF u = t THEN "lock_load" ELSE bpc[u]
      BY <1>4, <1>0 DEF BpTypeOK, bgoto, rcu_bp_register
    <3>4. \A x \in DOMAIN slots : slots[x].tid \in alive /\ tls[slots[x].tid] = x /\ slots[x].tid # t
      BY SMTT(20), <1>0, <3>2, BpAssumption DEF BpTypeOK, BpSlots, BpThreads
    <3>5. \A u \in BThreads : tls'[u] # NoThread => tls'[u] \in DOMAIN slots' /\ slots'[tls'[u]].tid = u
      BY <1>0, <3>1, <3>2 DEF BpSlots
    <3>6. \A x \in DOMAIN slots' : slots'[x].tid \in alive' /\ tls'[slots'[x].tid] = x
      BY <1>0, <3>1, <3>2, <3>4 DEF BpTypeOK
    <3> QED BY <3>5, <3>6 DEF BpSlots
  <2>5. References' \subseteq References
    BY <1>4, <1>0, <2>1, <2>2 DEF References, Holds, rcu_bp_register, bgoto,
       bat, bproc, Added
  <2>6. BpReferences'
    BY <1>4, <1>0, <2>5, RefsKept DEF BpTypeOK, rcu_bp_register
  <2>7. BpThreads'
    BY SMTT(20), <1>4, <1>0, <2>1, <2>2, BpAssumption DEF BpTypeOK, BpSlots, BpThreads,
       Nest, InHandler, NoContext, BpLocks, BpLists, BpInGP, BpPreAwaited,
       rcu_bp_register, bgoto, bat, blocks, bproc, bsync, bghosts, Added
  <2>8. BpLocks'
    BY <1>4, <1>0, <2>1, <2>2, BpAssumption DEF BpLocks, rcu_bp_register,
       bgoto, bat, blocks
  <2>9. BpLists'
    BY <1>4, <1>0, <2>1, <2>2, BpAssumption DEF Slot, Nest, BpLists, BpInGP,
       BpInput, BpAwaited, rcu_bp_register, bgoto, bat, bsync, bghosts, Added
  <2>10. BpPreAwaited'
    BY SMTT(20), <1>4, <1>0, <2>1, <2>2, BpAssumption DEF BpTypeOK, Slot, BpSlots,
       BpThreads, Nest, BpLocks, BpLists, BpInGP, BpInput, BpPreAwaited,
       BpAwaited, rcu_bp_register, bgoto, bat, blocks, bsync, bghosts, Added
  <2> QED
    BY <2>3, <2>4, <2>6, <2>7, <2>8, <2>9, <2>10, <2>1, <2>2 DEF BpIInv
<1>5. CASE ReadLockLoad(t)
  <2>1. BpTypeOK'
    BY <1>5, <1>0, BpAssumption DEF BpTypeOK, BpSlots, BpThreads, BpLocks,
       BpLists, BpPreAwaited, ReadLockLoad, bgoto, bat, barena, blocks, bproc,
       bsync, bghosts
  <2>2. BpArena'
    BY <1>5, <1>0, ArenaKept DEF ReadLockLoad, barena
  <2>3. BpSlots'
    BY <1>5, <1>0, BpAssumption DEF BpSlots, ReadLockLoad, bgoto, bat, barena,
       bproc
  <2>4. References' \subseteq References
    BY <1>5, <1>0 DEF References, Holds, ReadLockLoad, bgoto, bat, bproc
  <2>5. BpReferences'
    BY <1>5, <1>0, <2>4, RefsKept DEF BpTypeOK, ReadLockLoad
  <2>6. BpThreads'
    BY <1>5, <1>0, BpAssumption DEF BpThreads, Nest, InHandler, NoContext,
       BpInGP, ReadLockLoad, bgoto, bat, barena, bproc, bghosts
  <2>7. BpLocks'
    BY <1>5, <1>0, BpAssumption DEF BpLocks, ReadLockLoad, bgoto, bat, blocks
  <2>8. BpLists'
    BY <1>5, <1>0, BpAssumption DEF BpLists, BpInGP, BpInput, ReadLockLoad,
       bgoto, bat, Nest, barena, blocks, bproc, bsync, bghosts
  <2>9. BpPreAwaited'
    BY <1>5, <1>0, BpAssumption DEF BpInGP, BpInput, BpPreAwaited, BpAwaited,
       ReadLockLoad, bgoto, barena, bsync, bghosts
  <2> QED
    BY <2>1, <2>2, <2>3, <2>5, <2>6, <2>7, <2>8, <2>9 DEF BpIInv
<1>6. CASE BpReadLockStore(t)
  <2>1. /\ tls[t] \in DOMAIN slots /\ slots[tls[t]] \in Slot /\ slots[tls[t]].tid = t
        /\ t \in alive /\ Nest(t) = slots[tls[t]].nest /\ Nest(t) \in Nat
    BY <1>6, <1>0 DEF BpTypeOK, BpSlots, BpThreads, bat, Nest, Slot,
       BpReadLockStore
  <2>2. PICK r \in Slot :
           /\ slots' = [slots EXCEPT ![tls[t]] = r] /\ r.nest = Nest(t) + 1
           /\ r.phase = IF Nest(t) = 0 THEN btmp[t] ELSE slots[tls[t]].phase
           /\ r.list = slots[tls[t]].list /\ r.tid = t
    <3> DEFINE p == IF Nest(t) = 0 THEN btmp[t] ELSE slots[tls[t]].phase
               q == slots[tls[t]].nest + 1
               r == [slots[tls[t]] EXCEPT !.phase = p, !.nest = q]
    <3>2. p \in {0, 1} /\ q \in Nat /\ q = Nest(t) + 1 /\ p = IF Nest(t) = 0 THEN btmp[t] ELSE slots[tls[t]].phase
      BY <1>0, <2>1 DEF BpTypeOK, Slot
    <3>1. slots' = [slots EXCEPT ![tls[t]] = r]
      BY <1>6, <1>0, <2>1 DEF BpReadLockStore
    <3> HIDE DEF p, q
    <3>3. r \in Slot /\ r.nest = q /\ r.list = slots[tls[t]].list /\ r.tid = t /\ r.phase = p
      BY <2>1, <3>2 DEF Slot
    <3> HIDE DEF r
    <3> QED BY <3>1, <3>2, <3>3
  <2>3. /\ DOMAIN slots' = DOMAIN slots /\ slots' \in [DOMAIN slots -> Slot]
        /\ slots'[tls[t]] = r /\ \A x \in DOMAIN slots : x # tls[t] => slots'[x] = slots[x]
        /\ \A u \in BThreads : Nest(u)' = IF u = t THEN Nest(t) + 1 ELSE Nest(u)
        /\ \A u \in BThreads : tls[u] = tls[t] => u = t
    <3>1. tls' = tls
      BY <1>6 DEF BpReadLockStore
    <3>2. /\ DOMAIN slots' = DOMAIN slots /\ slots' \in [DOMAIN slots -> Slot]
          /\ slots'[tls[t]] = r /\ \A x \in DOMAIN slots : x # tls[t] => slots'[x] = slots[x]
          /\ \A u \in BThreads : Nest(u)' = IF tls[u] = tls[t] THEN r.nest ELSE Nest(u)
          /\ \A u \in BThreads : tls[u] = tls[t] => u = slots[tls[t]].tid
      BY <1>0, <2>1, <2>2, <3>1, OneSlot
    <3> QED BY <2>1, <2>2, <3>2
  <2>4. BpTypeOK'
    BY SMTT(20), <1>6, <1>0, <2>1, <2>2, <2>3, BpAssumption DEF BpTypeOK, Slot,
       BpReadLockStore
  <2>5. BpArena'
    BY <1>6, <1>0, ArenaKept DEF BpReadLockStore
  <2>6. BpSlots'
    <3>1. \A x \in DOMAIN slots : slots'[x].tid = slots[x].tid
      BY <2>1, <2>2
    <3>2. \A u \in BThreads : bpc'[u] = "child" <=> bpc[u] = "child"
      BY <1>6, <1>0 DEF bgoto, bat, BpReadLockStore
    <3> QED
      BY SMTT(20), <1>6, <1>0, <3>2 DEF BpTypeOK, BpSlots, BpReadLockStore, bproc
  <2>7. References' \subseteq References
    BY <1>6, <1>0, <2>1, <2>2, <2>3 DEF References, Holds, BpReadLockStore,
       bgoto, bproc
  <2>8. BpReferences'
    BY <1>6, <1>0, <2>7, RefsKept DEF BpTypeOK, BpReadLockStore
  <2>9. BpThreads'
    <3>1. /\ \A u \in BThreads : bpc'[u] = IF u = t THEN "idle" ELSE bpc[u]
          /\ bpc[t] \in {"idle", "lock_store"}
      BY <1>6, <1>0 DEF BpTypeOK, bgoto, bat, BpReadLockStore
    <3>2. /\ tls' = tls /\ saved' = saved /\ alive' = alive
          /\ \A u \in BThreads : u \in bcs' <=> IF u = t THEN Nest(t) + 1 > 0 ELSE u \in bcs
      BY <1>6, <1>0, <2>1 DEF BpReadLockStore, bproc
    <3>3. \A u \in BThreads : u \in alive \/ u # t
      BY <2>1
    <3>4. Nest(t)' >= saved[t].nest /\ saved[t].nest \in Nat
      BY <1>6, <1>0, <2>1, <2>3 DEF BpThreads, BpTypeOK
    <3>5. tls[t] # NoThread
      BY <1>0, <2>1, BpAssumption DEF BpTypeOK
    <3>6. NoContext' = NoContext
      OBVIOUS
    <3>7. \A u \in BThreads \ alive' :
            tls'[u] = NoThread /\ bpc'[u] = "idle" /\ saved'[u] = NoContext /\ u \notin bcs'
      BY <1>0, <3>1, <3>2, <3>4, <3>5 DEF BpThreads
    <3>8. ASSUME NEW u \in BThreads
          PROVE  /\ u \in bcs' <=> Nest(u)' > 0
                 /\ Nest(u)' >= saved'[u].nest
                 /\ saved'[u].pc = "none" => saved'[u] = NoContext
                 /\ bpc'[u] \in {"lock_load", "lock_store"} => tls'[u] # NoThread
                 /\ saved'[u].pc \in {"lock_load", "lock_store"} => tls'[u] # NoThread
                 /\ bpc'[u] \in BpRegPC => tls'[u] = NoThread
                 /\ bpc'[u] \in BpSyncPC => saved'[u].pc = "none" /\ Nest(u)' = 0
                 /\ bpc'[u] \in BpForkPC \cup BpExitPC => saved'[u].pc = "none"
      <4>1. CASE u = t
        BY <1>0, <2>3, <3>1, <3>2, <3>3, <3>4, <3>5, <4>1 DEF BpThreads
      <4>2. CASE u # t
        BY <1>0, <2>3, <3>1, <3>2, <3>3, <3>4, <3>5, <4>2 DEF BpThreads,
           InHandler
      <4> QED BY <4>1, <4>2
    <3>9. \A u \in alive' : bpc'[u] = "child" => alive' = {u}
      BY <1>0, <2>1, <2>3, <3>1, <3>2, <3>3, <3>4, <3>5 DEF BpThreads,
         BpTypeOK
    <3> QED BY <3>6, <3>7, <3>8, <3>9 DEF BpThreads, InHandler
  <2>10. BpLocks'
    BY <1>6, <1>0, <2>1, <2>2, <2>3, BpAssumption DEF BpLocks,
       BpReadLockStore, bgoto, bat, blocks
  <2>11. BpLists'
    <3>1. /\ \A u \in BThreads : bpc'[u] = IF u = t THEN "idle" ELSE bpc[u]
          /\ bpc[t] \in {"idle", "lock_store"}
      BY <1>6, <1>0 DEF BpTypeOK, bgoto, bat, BpReadLockStore
    <3>2. \A x \in DOMAIN slots : slots'[x].list = slots[x].list
      BY <2>2
    <3>3. bpass' = bpass /\ bscan' = bscan /\ BpInput' = BpInput /\ (bpre = {} => bpre' = {})
      BY <1>6 DEF BpReadLockStore, bsync, BpInput
    <3>4. BpInGP' = BpInGP
      BY <3>1 DEF BpInGP
    <3>5. \A q \in {"sync_lock", "sync_out", "scan"} :
             (\E u \in BThreads : bpc'[u] = q) <=> (\E u \in BThreads : bpc[u] = q)
      BY <3>1
    <3> QED BY <1>0, <2>3, <3>1, <3>2, <3>3, <3>4, <3>5 DEF BpLists
  <2>12. BpPreAwaited'
    <3>1. /\ \A u \in BThreads : bpc'[u] = IF u = t THEN "idle" ELSE bpc[u]
          /\ bpc[t] \in {"idle", "lock_store"}
      BY <1>6, <1>0 DEF BpTypeOK, bgoto, bat, BpReadLockStore
    <3>2. /\ bpass' = bpass /\ bphase' = bphase /\ tls' = tls
          /\ bpre' \subseteq bpre /\ bpre' \subseteq bcs'
          /\ TRUE
      BY <1>6, <1>0 DEF BpReadLockStore, bsync, BpPreAwaited
    <3>3. BpInGP' = BpInGP
      BY <3>1 DEF BpInGP
    <3>4. (\E u \in BThreads : bpc'[u] = "sync_out") <=> (\E u \in BThreads : bpc[u] = "sync_out")
      BY <3>1
    <3>5. ASSUME NEW u \in bpre', BpInGP PROVE BpAwaited(tls[u])'
      <4>1. u \in BThreads /\ u \in bpre /\ BpAwaited(tls[u]) /\ Nest(u) > 0 /\ tls[u] \in DOMAIN slots
        BY <1>0, <3>2, <3>5, BpAssumption DEF BpTypeOK, BpPreAwaited,
           BpThreads, Nest, BpSlots
      <4>2. CASE u = t
        <5>1. slots'[tls[t]].phase = slots[tls[t]].phase /\ slots'[tls[t]].list = slots[tls[t]].list
          BY <2>2, <4>1, <4>2
        <5> QED BY <3>2, <4>1, <4>2, <5>1 DEF BpAwaited
      <4>3. CASE u # t
        BY <2>3, <3>2, <4>1, <4>3 DEF BpAwaited
      <4> QED BY <4>2, <4>3
    <3> QED BY <1>0, <3>2, <3>3, <3>4, <3>5 DEF BpPreAwaited
  <2> QED
    BY <2>4, <2>5, <2>6, <2>8, <2>9, <2>10, <2>11, <2>12, <2>1, <2>2, <2>3 DEF
       BpIInv
<1>7. CASE ExitLock(t)
  <2>1. BpTypeOK'
    BY <1>7, <1>0, BpAssumption DEF BpTypeOK, BpSlots, BpThreads, BpLocks,
       BpLists, BpPreAwaited, ExitLock, bgoto, bat, barena, bproc, bsync,
       bghosts
  <2>2. BpArena'
    BY <1>7, <1>0, ArenaKept DEF ExitLock, barena
  <2>3. BpSlots'
    BY <1>7, <1>0, BpAssumption DEF BpSlots, ExitLock, bgoto, bat, barena,
       bproc
  <2>4. References' \subseteq References
    BY <1>7, <1>0 DEF References, Holds, ExitLock, bgoto, bat, bproc
  <2>5. BpReferences'
    BY <1>7, <1>0, <2>4, RefsKept DEF BpTypeOK, ExitLock
  <2>6. BpThreads'
    BY <1>7, <1>0, BpAssumption DEF BpThreads, Nest, InHandler, NoContext,
       BpInGP, ExitLock, bgoto, bat, barena, bproc, bghosts
  <2>7. BpLocks'
    BY <1>7, <1>0, BpAssumption DEF BpLocks, ExitLock, bgoto, bat
  <2>8. BpLists'
    BY <1>7, <1>0, BpAssumption DEF Slot, Nest, BpLists, BpInGP, BpInput,
       BpAwaited, ExitLock, bgoto, bat, barena, bsync, bghosts
  <2>9. BpPreAwaited'
    BY <1>7, <1>0, BpAssumption DEF BpPreAwaited, BpInGP, BpAwaited, ExitLock,
       bgoto, barena, bsync, bghosts
  <2> QED
    BY <2>1, <2>2, <2>3, <2>5, <2>6, <2>7, <2>8, <2>9 DEF BpIInv
<1>8. CASE rcu_bp_exit(t)
  <2>1. <<"exiting", t>> \in References
    BY <1>8, <1>0 DEF References, Holds, bat, rcu_bp_exit
  <2>2. References' \subseteq References \ {<<"exiting", t>>}
    <3>1. /\ bpc'[t] = "idle" /\ \A u \in BThreads : u # t => bpc'[u] = bpc[u]
          /\ bpc[t] = "exit" /\ tls' = tls /\ saved' = saved /\ alive' = alive /\ dtor' = dtor
      BY <1>8, <1>0 DEF BpTypeOK, rcu_bp_exit, bgoto, bat, bproc
    <3>2. saved[t].pc = "none"
      BY <1>0, <3>1 DEF BpThreads, InHandler
    <3> QED BY <1>0, <3>1, <3>2, BpAssumption DEF References, Holds, BpTypeOK
  <2>3. BpReferences' /\ refcount' \in Nat /\ (refcount' = 0 => References' = {})
    BY <1>8, <1>0, <2>1, <2>2, RefDropped DEF BpTypeOK, rcu_bp_exit
  <2>4. ASSUME refcount' = 0 PROVE DOMAIN slots = {}
    <3>1. References' = {}
      BY <2>3, <2>4
    <3>2. \A u \in alive' : <<"registered", u>> \notin References' 
      BY <3>1
    <3>3. \A u \in alive : tls[u] = NoThread
      BY <1>8, <1>0, <3>2 DEF References, Holds, BpTypeOK, rcu_bp_exit, bproc
    <3>4. t \in alive /\ bpc[t] = "exit"
      BY <1>8 DEF rcu_bp_exit, bat
    <3>5. \A x \in DOMAIN slots : x # NoThread
      BY <1>0, BpAssumption DEF BpTypeOK
    <3>6. \A u \in alive : bpc[u] # "child"
      BY <1>0, <3>4 DEF BpThreads
    <3> QED BY <1>0, <3>3, <3>5, <3>6 DEF BpSlots
  <2>5. BpArena'
    BY <1>8, <1>0, ArenaKept, FS_EmptySet DEF BpArena, barena, rcu_bp_exit
  <2>6. BpTypeOK'
    <3>1. /\ chunks' \in Seq(Chunk) /\ DOMAIN slots' \subseteq (Nat \X Nat)
          /\ slots' \in [DOMAIN slots' -> Slot]
      <4>1. CASE refcount' = 0
        <5>1. chunks' = << >> /\ slots' = << >>
          BY <1>8, <4>1 DEF rcu_bp_exit
        <5>2. << >> \in Seq(Chunk) /\ << >> \in Seq(Slot) /\ Len(<< >>) = 0
          OBVIOUS
        <5>3. DOMAIN << >> = {} /\ << >> \in [DOMAIN << >> -> Slot]
          BY ONLY <5>2
        <5> QED BY ONLY <5>1, <5>2, <5>3
      <4>2. CASE refcount' # 0
        BY <1>8, <1>0, <4>2 DEF BpTypeOK, rcu_bp_exit, barena
      <4> QED BY <4>1, <4>2
    <3>2. bpc' \in [BThreads -> BpThreadPC] /\ init_lock' \in BThreads \cup {NoThread}
      BY <1>8, <1>0 DEF BpTypeOK, rcu_bp_exit, bgoto, BpThreadPC
    <3>3. UNCHANGED <<bphase, tls, bgp_lock, reg_lock, btmp, saved, alive, forks, dtor,
                      bpass, bscan, bcs, bpre>>
      BY <1>8 DEF rcu_bp_exit, bproc, bsync, bghosts
    <3> QED BY <1>0, <2>3, <3>1, <3>2, <3>3 DEF BpTypeOK
  <2>7. BpSlots'
    BY <1>8, <1>0, <2>3, <2>4, <2>5, BpAssumption DEF BpSlots, rcu_bp_exit,
       bgoto, bat, barena, bproc
  <2>8. BpThreads'
    BY <1>8, <1>0, <2>3, <2>4, <2>5, BpAssumption DEF BpThreads, Nest,
       InHandler, NoContext, BpInGP, rcu_bp_exit, bgoto, barena, bproc,
       bghosts
  <2>9. BpLocks'
    BY <1>8, <1>0, <2>3, <2>4, <2>5, BpAssumption DEF BpLocks, rcu_bp_exit,
       bgoto, bat
  <2>10. BpLists'
    BY <1>8, <1>0, <2>3, <2>4, <2>5, BpAssumption DEF Slot, Nest, BpLists,
       BpInGP, BpInput, BpAwaited, rcu_bp_exit, bgoto, bat, barena, bsync,
       bghosts
  <2>11. BpPreAwaited'
    BY <1>8, <1>0, <2>3, <2>4, <2>5, BpAssumption DEF BpInGP, BpInput,
       BpPreAwaited, BpAwaited, rcu_bp_exit, bgoto, barena, bsync, bghosts
  <2> QED
    BY <2>6, <2>7, <2>8, <2>9, <2>10, <2>11, <2>3, <2>4, <2>5 DEF BpIInv
<1>9. CASE ForkLockRegistry(t)
  <2>1. BpTypeOK'
    BY <1>9, <1>0, BpAssumption DEF BpTypeOK, BpSlots, BpThreads, BpLocks,
       BpLists, BpPreAwaited, ForkLockRegistry, bgoto, bat, barena, bproc,
       bsync, bghosts
  <2>2. BpArena'
    BY <1>9, <1>0, ArenaKept DEF ForkLockRegistry, barena
  <2>3. BpSlots'
    BY <1>9, <1>0, BpAssumption DEF BpSlots, ForkLockRegistry, bgoto, bat,
       barena, bproc
  <2>4. References' \subseteq References
    BY <1>9, <1>0 DEF References, Holds, ForkLockRegistry, bgoto, bproc
  <2>5. BpReferences'
    BY <1>9, <1>0, <2>4, RefsKept DEF BpTypeOK, ForkLockRegistry
  <2>6. BpThreads'
    BY <1>9, <1>0, BpAssumption DEF BpThreads, Nest, InHandler, NoContext,
       BpInGP, ForkLockRegistry, bgoto, bat, barena, bproc, bghosts
  <2>7. BpLocks'
    BY <1>9, <1>0, BpAssumption DEF BpTypeOK, BpSlots, BpThreads, BpLocks,
       BpLists, BpPreAwaited, ForkLockRegistry, bgoto, bat
  <2>8. BpLists'
    BY <1>9, <1>0, BpAssumption DEF Slot, Nest, BpLists, BpInGP, BpInput,
       BpAwaited, ForkLockRegistry, bgoto, bat, barena, bsync, bghosts
  <2>9. BpPreAwaited'
    BY <1>9, <1>0, BpAssumption DEF BpInGP, BpInput, BpPreAwaited, BpAwaited,
       ForkLockRegistry, bgoto, barena, bsync, bghosts
  <2> QED
    BY <2>1, <2>2, <2>3, <2>5, <2>6, <2>7, <2>8, <2>9 DEF BpIInv
<1>10. CASE rcu_bp_after_fork_parent(t)
  <2>1. BpTypeOK'
    BY <1>10, <1>0, BpAssumption DEF BpTypeOK, BpSlots, BpThreads, BpLocks,
       BpLists, BpPreAwaited, rcu_bp_after_fork_parent, bgoto, bat, barena,
       bproc, bsync, bghosts
  <2>2. BpArena'
    BY <1>10, <1>0, ArenaKept DEF rcu_bp_after_fork_parent, barena
  <2>3. BpSlots'
    BY <1>10, <1>0, BpAssumption DEF BpSlots, rcu_bp_after_fork_parent, bgoto,
       bat, barena, bproc
  <2>4. References' \subseteq References
    BY <1>10, <1>0 DEF References, Holds, rcu_bp_after_fork_parent, bgoto,
       bproc
  <2>5. BpReferences'
    BY <1>10, <1>0, <2>4, RefsKept DEF BpTypeOK, rcu_bp_after_fork_parent
  <2>6. BpThreads'
    BY <1>10, <1>0, BpAssumption DEF BpThreads, Nest, InHandler, NoContext,
       BpInGP, rcu_bp_after_fork_parent, bgoto, barena, bproc, bghosts
  <2>7. BpLocks'
    BY <1>10, <1>0, BpAssumption DEF BpTypeOK, BpSlots, BpThreads, BpLocks,
       BpLists, BpPreAwaited, rcu_bp_after_fork_parent, bgoto, bat
  <2>8. BpLists'
    BY <1>10, <1>0, BpAssumption DEF Slot, Nest, BpLists, BpInGP, BpInput,
       BpAwaited, rcu_bp_after_fork_parent, bgoto, bat, barena, bsync, bghosts
  <2>9. BpPreAwaited'
    BY <1>10, <1>0, BpAssumption DEF BpInGP, BpInput, BpPreAwaited, BpAwaited,
       rcu_bp_after_fork_parent, bgoto, barena, bsync, bghosts
  <2> QED
    BY <2>1, <2>2, <2>3, <2>5, <2>6, <2>7, <2>8, <2>9 DEF BpIInv
<1>11. CASE fork_child(t)
  <2>1. BpTypeOK'
    <3>1. /\ tls' \in [BThreads -> (Nat \X Nat) \cup {NoThread}]
          /\ bpc' \in [BThreads -> BpThreadPC] /\ btmp' \in [BThreads -> {0, 1}]
      BY <1>11, <1>0 DEF BpTypeOK, fork_child
    <3>2. saved' \in [BThreads -> [pc : BpSavedPC, tmp : {0, 1},
                                     nest : Nat, todo : BOOLEAN]]
      BY <1>11, <1>0 DEF BpTypeOK, fork_child, NoContext
    <3>3. alive' \subseteq BThreads /\ bcs' \subseteq BThreads /\ forks' \in Nat
      BY <1>11, <1>0 DEF BpTypeOK, fork_child
    <3> QED
      BY <1>11, <1>0, <3>2, <3>3 DEF BpTypeOK, fork_child, barena, blocks,
         bsync
  <2>2. BpArena'
    BY <1>11, <1>0, ArenaKept DEF fork_child, barena
  <2>3. BpSlots'
    BY <1>11, <1>0, BpAssumption DEF BpSlots, BpThreads, BpLocks, BpLists,
       BpPreAwaited, fork_child, bat, barena
  <2>4. References' \subseteq References
    BY <1>11, <1>0 DEF References, Holds, fork_child, bat
  <2>5. BpReferences'
    BY <1>11, <1>0, <2>4, RefsKept DEF BpTypeOK, fork_child
  <2>6. BpThreads'
    BY <1>11, <1>0, BpAssumption DEF BpThreads, Nest, InHandler, NoContext,
       BpInGP, fork_child, bat, barena
  <2>7. BpLocks'
    BY <1>11, <1>0, BpAssumption DEF BpLocks, fork_child, bat, blocks
  <2>8. BpLists'
    BY <1>11, <1>0, BpAssumption DEF BpLocks, BpLists, BpInGP, BpPreAwaited,
       fork_child, bat, barena, bsync
  <2>9. BpPreAwaited'
    BY <1>11, <1>0, BpAssumption DEF BpLocks, BpLists, BpInGP, BpPreAwaited,
       fork_child, bat
  <2> QED
    BY <2>1, <2>2, <2>3, <2>5, <2>6, <2>7, <2>8, <2>9 DEF BpIInv
<1>12. CASE rcu_bp_after_fork_child(t)
  <2>1. urcu_bp_prune_registry(t) \subseteq DOMAIN slots
    BY <1>12, <1>0 DEF urcu_bp_prune_registry
  <2>2. chunks' \in Seq(Chunk) /\ BpArena'
    BY <1>12, <1>0, <2>1, Cleanup DEF rcu_bp_after_fork_child
  <2>3. BpTypeOK'
    BY <1>12, <1>0, <2>1, <2>2, BpAssumption DEF BpTypeOK, BpSlots, BpThreads,
       BpLocks, BpLists, BpPreAwaited, rcu_bp_after_fork_child, bgoto, bat,
       cleanup_thread, urcu_bp_prune_registry, bproc, bsync, bghosts
  <2>4. BpSlots'
    BY <1>12, <1>0, <2>1, <2>2, BpAssumption DEF BpSlots, BpThreads, BpLocks,
       BpLists, BpPreAwaited, rcu_bp_after_fork_child, bgoto, bat,
       cleanup_thread, urcu_bp_prune_registry, bproc
  <2>5. References' \subseteq References
    BY <1>12, <1>0, <2>1, <2>2 DEF References, Holds, rcu_bp_after_fork_child,
       bgoto, bproc
  <2>6. BpReferences'
    BY <1>12, <1>0, <2>5, RefsKept DEF BpTypeOK, rcu_bp_after_fork_child
  <2>7. BpThreads'
    BY SMTT(20), <1>12, <1>0, <2>1, <2>2, BpAssumption DEF BpTypeOK, BpSlots, BpThreads,
       Nest, BpLocks, BpLists, BpInGP, BpPreAwaited, rcu_bp_after_fork_child,
       bgoto, bat, cleanup_thread, urcu_bp_prune_registry, bproc, bghosts
  <2>8. BpLocks'
    BY <1>12, <1>0, <2>1, <2>2, BpAssumption DEF BpTypeOK, BpSlots, BpThreads,
       BpLocks, BpLists, BpPreAwaited, rcu_bp_after_fork_child, bgoto, bat
  <2>9. BpLists'
    BY <1>12, <1>0, <2>1, <2>2, BpAssumption DEF BpLocks, BpLists, BpInGP,
       BpPreAwaited, rcu_bp_after_fork_child, bgoto, bat, cleanup_thread,
       bsync, bghosts
  <2>10. BpPreAwaited'
    BY <1>12, <1>0, <2>1, <2>2, BpAssumption DEF BpLocks, BpLists, BpInGP,
       BpPreAwaited, rcu_bp_after_fork_child, bgoto, bat, bghosts
  <2> QED
    BY <2>3, <2>4, <2>6, <2>7, <2>8, <2>9, <2>10, <2>1, <2>2 DEF BpIInv
<1>13. CASE BpLockRegistry(t)
  <2>1. BpTypeOK'
    BY <1>13, <1>0, BpAssumption DEF BpTypeOK, BpSlots, BpThreads, BpLocks,
       BpLists, BpOnList, BpPreAwaited, BpLockRegistry, bgoto, bat, barena,
       bproc, bghosts
  <2>2. BpArena'
    BY <1>13, <1>0, ArenaKept DEF BpLockRegistry, barena
  <2>3. BpSlots'
    BY <1>13, <1>0, BpAssumption DEF BpSlots, BpOnList, BpLockRegistry, bgoto,
       bat, barena, bproc
  <2>4. References' \subseteq References
    BY <1>13, <1>0 DEF References, Holds, BpLockRegistry, bgoto, bproc
  <2>5. BpReferences'
    BY <1>13, <1>0, <2>4, RefsKept DEF BpTypeOK, BpLockRegistry
  <2>6. BpThreads'
    BY <1>13, <1>0, BpAssumption DEF BpThreads, Nest, InHandler, NoContext,
       BpInGP, BpOnList, BpLockRegistry, bgoto, bat, barena, bproc, bghosts
  <2>7. BpLocks'
    BY <1>13, <1>0, BpAssumption DEF BpTypeOK, BpSlots, BpThreads, BpLocks,
       BpLists, BpOnList, BpPreAwaited, BpLockRegistry, bgoto, bat
  <2>8. BpLists'
    BY <1>13, <1>0, BpAssumption DEF BpLists, BpInGP, BpInput, BpOnList,
       BpAwaited, BpLockRegistry, bgoto, bat, barena
  <2>9. BpPreAwaited'
    <3>1. /\ \A u \in BThreads : bpc'[u] = IF u = t THEN bpc'[t] ELSE bpc[u]
          /\ bpc[t] = "sync_lock" /\ bpc'[t] \in {"sync_out", "scan"}
          /\ bpc'[t] = "sync_out" => BpOnList(BpInput) = {}
      BY <1>13, <1>0 DEF BpTypeOK, bgoto, bat, BpLockRegistry
    <3>2. slots' = slots /\ tls' = tls /\ bpass' = bpass /\ bphase' = bphase /\ bpre' = bpre /\ bcs' = bcs
      BY <1>13 DEF BpLockRegistry, barena, bghosts
    <3>3. bpass = 1 /\ \A x \in DOMAIN slots : slots[x].list = "registry"
      BY <1>0, <3>1 DEF BpLists
    <3>4. ASSUME bpc'[t] = "sync_out" PROVE bpre = {}
      <4>1. DOMAIN slots = {}
        BY <3>1, <3>3, <3>4 DEF BpOnList, BpInput
      <4> QED
        BY <1>0, <4>1 DEF BpPreAwaited, BpThreads, Nest, BpTypeOK, BpSlots
    <3>5. \A u \in BThreads : u # t => bpc[u] # "sync_out"
      BY <1>0, <3>1 DEF BpLocks
    <3>6. BpInGP
      BY <3>1 DEF BpInGP
    <3>7. \A u \in bpre : BpAwaited(tls[u])'
      BY <1>0, <3>2, <3>6 DEF BpPreAwaited, BpAwaited
    <3> QED BY <1>0, <3>1, <3>2, <3>4, <3>5, <3>7 DEF BpPreAwaited
  <2> QED
    BY <2>1, <2>2, <2>3, <2>5, <2>6, <2>7, <2>8, <2>9 DEF BpIInv
<1>14. ASSUME NEW x \in bscan, BpScanReader(t, x) PROVE BpIInv'
  <2>1. x \in DOMAIN slots /\ slots[x] \in Slot /\ slots[x].list = BpInput
    BY <1>14, <1>0 DEF BpTypeOK, BpLists, bat, BpScanReader
  <2>2. PICK l \in {"registry", "cur_snap", "qs"} :
          /\ slots' = [slots EXCEPT ![x] = [slots[x] EXCEPT !.list = l]]
          /\ rcu_reader_state_bp(x) = "INACTIVE" => l = "qs"
          /\ rcu_reader_state_bp(x) = "ACTIVE_CURRENT" => l = IF bpass = 1 THEN "cur_snap" ELSE "qs"
          /\ rcu_reader_state_bp(x) = "ACTIVE_OLD" => l = slots[x].list
    BY <1>14, <1>0, <2>1 DEF rcu_reader_state_bp, Slot, BpScanReader
  <2>3. PICK r \in Slot : slots' = [slots EXCEPT ![x] = r] /\ r = [slots[x] EXCEPT !.list = l]
    BY <2>1, <2>2 DEF Slot
  <2>4. r.tid = slots[x].tid /\ r.nest = slots[x].nest /\ r.phase = slots[x].phase /\ r.list = l
    BY <2>3
  <2>5. /\ DOMAIN slots' = DOMAIN slots /\ slots' \in [DOMAIN slots -> Slot]
        /\ slots'[x] = r /\ \A y \in DOMAIN slots : y # x => slots'[y] = slots[y]
        /\ \A u \in BThreads : Nest(u)' = IF tls[u] = x THEN r.nest ELSE Nest(u)
        /\ \A u \in BThreads : tls[u] = x => u = slots[x].tid
    <3>1. tls' = tls
      BY <1>14 DEF BpScanReader
    <3>2. BpTypeOK /\ BpSlots /\ x \in DOMAIN slots /\ slots' = [slots EXCEPT ![x] = r] /\ r.tid = slots[x].tid
      BY <1>0, <2>1, <2>3, <2>4
    <3> QED BY ONLY <3>1, <3>2, r \in Slot, t \in BThreads, OneSlot
  <2>6. \A u \in BThreads : Nest(u)' = Nest(u)
    BY SMTT(20), <1>0, <2>4, <2>5, BpAssumption DEF Nest, BpTypeOK
  <2>7. BpTypeOK'
    BY <1>14, <1>0, <2>1, <2>2, <2>3, <2>4, <2>5, <2>6, BpAssumption DEF
       BpTypeOK, BpScanReader, bat, rcu_reader_state_bp, blocks, bproc,
       bghosts
  <2>8. BpArena'
    BY <1>14, <1>0, <2>6, ArenaKept DEF BpScanReader
  <2>9. BpSlots'
    BY <1>14, <1>0, <2>1, <2>2, <2>3, <2>4, <2>5, <2>6, BpAssumption DEF
       BpSlots, BpScanReader, bproc
  <2>10. References' \subseteq References
    BY <1>14, <1>0, <2>1, <2>2, <2>3, <2>4, <2>5, <2>6 DEF References, Holds,
       BpScanReader, bproc
  <2>11. BpReferences'
    BY <1>14, <1>0, <2>10, RefsKept DEF BpTypeOK, BpScanReader
  <2>12. BpThreads'
    BY <1>14, <1>0, <2>1, <2>2, <2>3, <2>4, <2>5, <2>6, BpAssumption DEF
       BpThreads, InHandler, NoContext, BpScanReader, bproc, bghosts
  <2>13. BpLocks'
    BY <1>14, <1>0, <2>1, <2>2, <2>3, <2>4, <2>5, <2>6, BpAssumption DEF
       BpLocks, BpScanReader, blocks
  <2>14. BpLists'
    <3>1. /\ bpc' = bpc /\ bpass' = bpass /\ bpre' = bpre /\ BpInput' = BpInput
          /\ bscan' = bscan \ {x} /\ bpc[t] = "scan"
      BY <1>14 DEF BpScanReader, bghosts, BpInput, bat
    <3>2. \A u \in BThreads : bpc[u] \notin {"sync_lock", "sync_out"}
      BY <1>0, <3>1 DEF BpLocks
    <3>3. BpInGP /\ BpInGP'
      BY <3>1 DEF BpInGP
    <3> QED BY <1>0, <2>5, <3>1, <3>2, <3>3 DEF BpLists
  <2>15. BpPreAwaited'
    BY SMTT(20), <1>14, <1>0, <2>1, <2>2, <2>3, <2>4, <2>5, <2>6, BpAssumption DEF
       BpTypeOK, BpPreAwaited, BpAwaited, BpScanReader, bat,
       rcu_reader_state_bp, blocks, bghosts, BpThreads, BpLists, BpInput,
       BpLocks
  <2> QED
    BY <2>7, <2>8, <2>9, <2>11, <2>12, <2>13, <2>14, <2>15, <2>1, <2>2, <2>3,
       <2>4, <2>5, <2>6 DEF BpIInv
<1>15. CASE BpFlipPhase(t)
  <2>1. BpTypeOK'
    BY SMTT(20), <1>15, <1>0, BpAssumption DEF BpTypeOK, Slot, BpSlots, BpThreads, Nest,
       InHandler, NoContext, BpLocks, BpLists, BpInGP, BpInput, BpOnList,
       BpPreAwaited, BpAwaited, BpFlipPhase, bat, SecondPassDue, barena,
       blocks, bproc, bghosts
  <2>2. BpArena'
    BY <1>15, <1>0, ArenaKept DEF BpFlipPhase, barena
  <2>3. BpSlots'
    BY <1>15, <1>0, BpAssumption DEF BpSlots, BpOnList, BpFlipPhase, barena,
       bproc
  <2>4. References' \subseteq References
    BY <1>15, <1>0 DEF References, Holds, BpFlipPhase, bat, BpOnList, bproc
  <2>5. BpReferences'
    BY <1>15, <1>0, <2>4, RefsKept DEF BpTypeOK, BpFlipPhase
  <2>6. BpThreads'
    BY <1>15, <1>0, BpAssumption DEF BpThreads, Nest, InHandler, NoContext,
       BpInGP, BpOnList, BpFlipPhase, barena, bproc, bghosts
  <2>7. BpLocks'
    BY <1>15, <1>0, BpAssumption DEF BpLocks, BpOnList, BpFlipPhase, blocks
  <2>8. BpLists'
    BY <1>15, <1>0, BpAssumption DEF BpLocks, BpLists, BpInGP, BpInput,
       BpOnList, BpPreAwaited, BpAwaited, BpFlipPhase, bat, barena
  <2>9. BpPreAwaited'
    BY SMTT(20), <1>15, <1>0, BpAssumption DEF BpTypeOK, Slot, BpSlots, BpThreads, Nest,
       BpLocks, BpLists, BpInGP, BpInput, BpOnList, BpPreAwaited, BpAwaited,
       BpFlipPhase, barena, bghosts
  <2> QED
    BY <2>1, <2>2, <2>3, <2>5, <2>6, <2>7, <2>8, <2>9 DEF BpIInv
<1>16. CASE BpSplice(t)
  <2>1. /\ DOMAIN slots' = DOMAIN slots
        /\ \A x \in DOMAIN slots :
              /\ slots'[x].nest = slots[x].nest /\ slots'[x].tid = slots[x].tid
              /\ slots'[x].phase = slots[x].phase /\ slots'[x] \in Slot
              /\ slots'[x].list = IF slots[x].list = "qs" THEN "registry" ELSE slots[x].list
    BY SMTT(20), <1>16, <1>0 DEF BpTypeOK, Slot, BpSplice
  <2>2. slots' \in [DOMAIN slots -> Slot]
    BY <1>16, <2>1 DEF BpSplice
  <2>3. \A u \in BThreads : Nest(u)' = Nest(u)
    BY <1>16, <1>0 DEF Nest, BpSlots, BpSplice
  <2>4. BpTypeOK'
    BY <1>16, <1>0, <2>1, <2>2, <2>3, BpAssumption DEF BpTypeOK, BpSplice,
       bgoto, bat, BpOnList, SecondPassDue, blocks, bproc, bsync, bghosts
  <2>5. BpArena'
    BY <1>16, <1>0, ArenaKept DEF BpSplice
  <2>6. BpSlots'
    <3>1. \A u \in BThreads : bpc'[u] = "child" <=> bpc[u] = "child"
      BY <1>16, <1>0 DEF bgoto, bat, BpSplice
    <3>2. tls' = tls /\ alive' = alive /\ alive \subseteq BThreads
      BY <1>16, <1>0 DEF BpSplice, bproc, BpTypeOK
    <3>3. \A x \in DOMAIN slots : slots'[x].tid = slots[x].tid
      BY <2>1
    <3> QED BY <1>0, <2>1, <3>1, <3>2, <3>3 DEF BpSlots
  <2>7. References' \subseteq References
    BY <1>16, <1>0, <2>1, <2>2, <2>3 DEF References, Holds, BpSplice, bgoto,
       bat, BpOnList, bproc
  <2>8. BpReferences'
    BY <1>16, <1>0, <2>7, RefsKept DEF BpTypeOK, BpSplice
  <2>9. BpThreads'
    BY <1>16, <1>0, <2>1, <2>2, <2>3, BpAssumption DEF BpThreads, InHandler,
       NoContext, BpSplice, bgoto, bat, BpOnList, bproc, bghosts
  <2>10. BpLocks'
    BY <1>16, <1>0, <2>1, <2>2, <2>3, BpAssumption DEF BpLocks, BpSplice,
       bgoto, bat, BpOnList, blocks
  <2>11. BpLists'
    <3>1. /\ \A u \in BThreads : bpc'[u] = IF u = t THEN "sync_out" ELSE bpc[u]
          /\ bpc[t] = "scan" /\ \A u \in BThreads : u # t => bpc[u] \notin BpSyncPC
      BY <1>16, <1>0 DEF BpTypeOK, BpLocks, bgoto, bat, BpSplice
    <3>2. /\ bpass = 2 /\ bpass' = 2 /\ bpre' = bpre /\ bcs' = bcs
          /\ \A x \in DOMAIN slots : slots[x].list # "cur_snap"
      BY <1>16, <1>0 DEF BpSplice, bsync, bghosts, SecondPassDue, BpTypeOK,
         BpOnList, BpInput
    <3>3. \A x \in DOMAIN slots : slots'[x].list = "registry"
      BY <1>0, <2>1, <3>2 DEF Slot
    <3>4. BpInGP'
      BY <3>1 DEF BpInGP
    <3> QED BY <2>1, <3>1, <3>3, <3>4 DEF BpLists
  <2>12. BpPreAwaited'
    <3>1. /\ \A u \in BThreads : bpc'[u] = IF u = t THEN "sync_out" ELSE bpc[u]
          /\ bpc[t] = "scan" /\ \A u \in BThreads : u # t => bpc[u] \notin BpSyncPC
      BY <1>16, <1>0 DEF BpTypeOK, BpLocks, bgoto, bat, BpSplice
    <3>2. /\ bpass = 2 /\ bpass' = 2 /\ bpre' = bpre /\ bcs' = bcs
          /\ \A x \in DOMAIN slots : slots[x].list # "cur_snap"
      BY <1>16, <1>0 DEF BpSplice, bsync, bghosts, SecondPassDue, BpTypeOK,
         BpOnList, BpInput
    <3>3. BpInGP
      BY <3>1 DEF BpInGP
    <3>4. bpre = {}
      <4> SUFFICES ASSUME NEW u \in bpre PROVE FALSE
        OBVIOUS
      <4>1. u \in BThreads /\ BpAwaited(tls[u]) /\ Nest(u) > 0
        BY <1>0, <3>3 DEF BpPreAwaited, BpThreads, BpTypeOK
      <4>2. tls[u] \in DOMAIN slots
        BY <1>0, <4>1 DEF BpSlots, Nest
      <4> QED BY <3>2, <4>1, <4>2 DEF BpAwaited
    <3> QED BY <3>2, <3>4 DEF BpPreAwaited
  <2> QED
    BY <2>4, <2>5, <2>6, <2>8, <2>9, <2>10, <2>11, <2>12, <2>1, <2>2, <2>3 DEF
       BpIInv
<1>17. CASE BpUnlockRegistry(t)
  <2>1. BpTypeOK'
    BY <1>17, <1>0, BpAssumption DEF BpTypeOK, BpSlots, BpThreads, BpLocks,
       BpLists, BpOnList, BpPreAwaited, BpUnlockRegistry, bgoto, bat, barena,
       bproc, bsync, bghosts
  <2>2. BpArena'
    BY <1>17, <1>0, ArenaKept DEF BpUnlockRegistry, barena
  <2>3. BpSlots'
    BY <1>17, <1>0, BpAssumption DEF BpSlots, BpOnList, BpUnlockRegistry,
       bgoto, bat, barena, bproc
  <2>4. References' \subseteq References
    BY <1>17, <1>0 DEF References, Holds, BpUnlockRegistry, bgoto, bat, bproc
  <2>5. BpReferences'
    BY <1>17, <1>0, <2>4, RefsKept DEF BpTypeOK, BpUnlockRegistry
  <2>6. BpThreads'
    BY <1>17, <1>0, BpAssumption DEF BpThreads, Nest, InHandler, NoContext,
       BpInGP, BpOnList, BpUnlockRegistry, bgoto, bat, barena, bproc, bghosts
  <2>7. BpLocks'
    BY <1>17, <1>0, BpAssumption DEF BpTypeOK, BpSlots, BpThreads, BpLocks,
       BpLists, BpOnList, BpPreAwaited, BpUnlockRegistry, bgoto, bat
  <2>8. BpLists'
    BY <1>17, <1>0, BpAssumption DEF Nest, BpLists, BpInGP, BpOnList,
       BpUnlockRegistry, bgoto, bat, barena, bsync
  <2>9. BpPreAwaited'
    BY <1>17, <1>0, BpAssumption DEF Slot, Nest, BpInGP, BpInput, BpOnList,
       BpPreAwaited, BpAwaited, BpUnlockRegistry, bgoto, bat, barena, bsync,
       bghosts
  <2> QED
    BY <2>1, <2>2, <2>3, <2>5, <2>6, <2>7, <2>8, <2>9 DEF BpIInv
<1>18. CASE BpRelockRegistry(t)
  <2>1. BpTypeOK'
    BY <1>18, <1>0, BpAssumption DEF BpTypeOK, BpLists, BpOnList,
       BpPreAwaited, BpRelockRegistry, bgoto, bat, barena, bproc, bghosts
  <2>2. BpArena'
    BY <1>18, <1>0, ArenaKept DEF BpRelockRegistry, barena
  <2>3. BpSlots'
    BY <1>18, <1>0, BpAssumption DEF BpSlots, BpOnList, BpRelockRegistry,
       bgoto, bat, barena, bproc
  <2>4. References' \subseteq References
    BY <1>18, <1>0 DEF References, Holds, BpRelockRegistry, bgoto, bproc
  <2>5. BpReferences'
    BY <1>18, <1>0, <2>4, RefsKept DEF BpTypeOK, BpRelockRegistry
  <2>6. BpThreads'
    BY <1>18, <1>0, BpAssumption DEF BpThreads, Nest, InHandler, NoContext,
       BpInGP, BpOnList, BpRelockRegistry, bgoto, bat, barena, bproc, bghosts
  <2>7. BpLocks'
    BY <1>18, <1>0, BpAssumption DEF BpTypeOK, BpSlots, BpThreads, BpLocks,
       BpLists, BpOnList, BpPreAwaited, BpRelockRegistry, bgoto, bat
  <2>8. BpLists'
    BY <1>18, <1>0, BpAssumption DEF BpLists, BpInGP, BpInput, BpOnList,
       BpAwaited, BpRelockRegistry, bgoto, bat, barena
  <2>9. BpPreAwaited'
    BY <1>18, <1>0, BpAssumption DEF Slot, Nest, BpInGP, BpInput, BpOnList,
       BpPreAwaited, BpAwaited, BpRelockRegistry, bgoto, bat, barena, bghosts
  <2> QED
    BY <2>1, <2>2, <2>3, <2>5, <2>6, <2>7, <2>8, <2>9 DEF BpIInv
<1>19. CASE BpSynchronizeReturn(t)
  <2>1. BpTypeOK'
    BY <1>19, <1>0, BpAssumption DEF BpTypeOK, BpSlots, BpThreads, BpLocks,
       BpLists, BpPreAwaited, BpSynchronizeReturn, bgoto, bat, barena, bproc,
       bghosts
  <2>2. BpArena'
    BY <1>19, <1>0, ArenaKept DEF BpSynchronizeReturn, barena
  <2>3. BpSlots'
    BY <1>19, <1>0, BpAssumption DEF BpSlots, BpSynchronizeReturn, bgoto, bat,
       barena, bproc
  <2>4. References' \subseteq References
    BY <1>19, <1>0 DEF References, Holds, BpSynchronizeReturn, bgoto, bproc
  <2>5. BpReferences'
    BY <1>19, <1>0, <2>4, RefsKept DEF BpTypeOK, BpSynchronizeReturn
  <2>6. BpThreads'
    BY <1>19, <1>0, BpAssumption DEF BpThreads, Nest, InHandler, NoContext,
       BpInGP, BpSynchronizeReturn, bgoto, barena, bproc, bghosts
  <2>7. BpLocks'
    BY <1>19, <1>0, BpAssumption DEF BpTypeOK, BpSlots, BpThreads, BpLocks,
       BpLists, BpPreAwaited, BpSynchronizeReturn, bgoto, bat
  <2>8. BpLists'
    BY <1>19, <1>0, BpAssumption DEF BpLocks, BpLists, BpPreAwaited,
       BpSynchronizeReturn, bgoto, bat, barena, bghosts
  <2>9. BpPreAwaited'
    BY <1>19, <1>0, BpAssumption DEF BpPreAwaited, BpSynchronizeReturn, bat,
       bghosts
  <2> QED
    BY <2>1, <2>2, <2>3, <2>5, <2>6, <2>7, <2>8, <2>9 DEF BpIInv
<1> QED
  BY <1>0, <1>1, <1>2, <1>3, <1>4, <1>5, <1>6, <1>7, <1>8, <1>9, <1>10, <1>11,
     <1>12, <1>13, <1>14, <1>15, <1>16, <1>17, <1>18, <1>19 DEF BpStep

(* The calls, the end of sections, signals, thread creation and exit, fork *)
(* and the library's destructor keep the invariant.                        *)
LEMMA BpCallPreserves ==
    ASSUME BpIInv, NEW t \in BThreads, BpCall(t)
    PROVE  BpIInv'
<1> USE DEF BpSyncPC, BpForkPC, BpReadPC, BpRegPC, BpExitPC, BpSavedPC,
           BpThreadPC
<1>0. BpTypeOK /\ BpArena /\ BpSlots /\ BpReferences /\ BpThreads /\ BpLocks /\ BpLists /\ BpPreAwaited
  BY DEF BpIInv
<1>1. CASE rcu_read_lock_bp(t)
  <2>1. \A u \in BThreads : Nest(u)' = Nest(u)
    BY <1>1 DEF Nest, barena, rcu_read_lock_bp
  <2>2. Nest(t) \in Nat
    BY <1>0 DEF Nest, BpTypeOK, BpSlots, Slot
  <2>3. saved' \in [BThreads -> [pc : BpSavedPC, tmp : {0, 1},
                                nest : Nat, todo : BOOLEAN]]
    <3>1. saved[t] \in [pc : BpSavedPC, tmp : {0, 1}, nest : Nat, todo : BOOLEAN]
      BY <1>0 DEF BpTypeOK
    <3>2. [saved[t] EXCEPT !.todo = ~ InHandler(t)] \in [pc : BpSavedPC, tmp : {0, 1}, nest : Nat, todo : BOOLEAN]
      BY <3>1 DEF InHandler
    <3>3. saved' = [saved EXCEPT ![t] = [saved[t] EXCEPT !.todo = ~ InHandler(t)]]
      BY <1>1 DEF rcu_read_lock_bp
    <3> QED BY <1>0, <3>2, <3>3 DEF BpTypeOK
  <2>4. BpTypeOK'
    BY <1>1, <1>0, <2>1, <2>2, <2>3, BpAssumption DEF BpTypeOK,
       rcu_read_lock_bp, bgoto, bat, barena, blocks, bproc, bsync, bghosts
  <2>5. BpArena'
    BY <1>1, <1>0, ArenaKept DEF rcu_read_lock_bp, barena
  <2>6. BpSlots'
    BY <1>1, <1>0, <2>1, <2>2, <2>3, BpAssumption DEF BpSlots,
       rcu_read_lock_bp, bgoto, bat, barena, bproc
  <2>7. References' \subseteq References
    BY <1>1, <1>0, <2>1, <2>2, <2>3 DEF References, Holds, rcu_read_lock_bp,
       bgoto, bat, bproc
  <2>8. BpReferences'
    BY <1>1, <1>0, <2>7, RefsKept DEF BpTypeOK, rcu_read_lock_bp
  <2>9. BpThreads'
    <3>1. \A u \in BThreads : bpc'[u] = IF u = t THEN bpc'[t] ELSE bpc[u]
      BY <1>1, <1>0 DEF bgoto, rcu_read_lock_bp
    <3>2. /\ bpc[t] = "idle" /\ t \in alive /\ bpc'[t] \in {"reg_check", "lock_load"}
          /\ bpc'[t] = "lock_load" => tls[t] # NoThread
      BY <1>1, <1>0 DEF BpTypeOK, bgoto, bat, rcu_read_lock_bp
    <3>3. saved[t] \in [pc : BpSavedPC, tmp : {0, 1}, nest : Nat, todo : BOOLEAN]
      BY <1>0 DEF BpTypeOK
    <3>4. /\ saved'[t].pc = saved[t].pc /\ saved'[t].nest = saved[t].nest
          /\ \A u \in BThreads : u # t => saved'[u] = saved[u]
      BY <1>1, <1>0 DEF rcu_read_lock_bp
    <3>5. saved[t].pc = "none" => saved'[t] = saved[t]
      BY <1>1, <1>0, <3>3 DEF rcu_read_lock_bp, InHandler
    <3>6. tls' = tls /\ alive' = alive /\ bcs' = bcs
      BY <1>1 DEF rcu_read_lock_bp, bproc, bghosts
    <3>7. NoContext' = NoContext
      OBVIOUS
    <3>8. \A u \in BThreads \ alive' :
            tls'[u] = NoThread /\ bpc'[u] = "idle" /\ saved'[u] = NoContext /\ u \notin bcs'
      BY <1>0, <3>1, <3>2, <3>4, <3>6 DEF BpThreads
    <3>9. ASSUME NEW u \in BThreads
          PROVE  /\ u \in bcs' <=> Nest(u)' > 0
                 /\ Nest(u)' >= saved'[u].nest
                 /\ saved'[u].pc = "none" => saved'[u] = NoContext
                 /\ bpc'[u] \in {"lock_load", "lock_store"} => tls'[u] # NoThread
                 /\ saved'[u].pc \in {"lock_load", "lock_store"} => tls'[u] # NoThread
                 /\ bpc'[u] \in BpRegPC => tls'[u] = NoThread
                 /\ bpc'[u] \in BpSyncPC => saved'[u].pc = "none" /\ Nest(u)' = 0
                 /\ bpc'[u] \in BpForkPC \cup BpExitPC => saved'[u].pc = "none"
      <4>1. CASE u = t
        BY <1>0, <2>1, <3>2, <3>4, <3>5, <3>6, <4>1 DEF BpThreads
      <4>2. CASE u # t
        BY <1>0, <2>1, <3>1, <3>4, <3>5, <3>6, <4>2 DEF BpThreads, InHandler
      <4> QED BY <4>1, <4>2
    <3>10. \A u \in alive' : bpc'[u] = "child" => alive' = {u}
      BY <1>0, <3>1, <3>2, <3>4, <3>5, <3>6 DEF BpThreads, BpTypeOK
    <3> QED BY <3>7, <3>8, <3>9, <3>10 DEF BpThreads, InHandler
  <2>10. BpLocks'
    BY <1>1, <1>0, <2>1, <2>2, <2>3, BpAssumption DEF BpLocks,
       rcu_read_lock_bp, bgoto, bat, blocks
  <2>11. BpLists'
    BY <1>1, <1>0, <2>1, <2>2, <2>3, BpAssumption DEF BpLists, BpInGP,
       BpInput, rcu_read_lock_bp, bgoto, bat, barena, bsync, bghosts
  <2>12. BpPreAwaited'
    BY <1>1, <1>0, <2>1, <2>2, <2>3, BpAssumption DEF BpPreAwaited, BpInGP,
       BpAwaited, rcu_read_lock_bp, bgoto, bat, barena, bsync, bghosts
  <2> QED
    BY <2>4, <2>5, <2>6, <2>8, <2>9, <2>10, <2>11, <2>12, <2>1, <2>2, <2>3 DEF
       BpIInv
<1>2. CASE rcu_read_unlock_bp(t)
  <2>1. Nest(t) # 0 /\ tls[t] # NoThread
    BY <1>2, <1>0 DEF BpTypeOK, Nest, rcu_read_unlock_bp
  <2>2. /\ tls[t] \in DOMAIN slots /\ slots[tls[t]] \in Slot /\ slots[tls[t]].tid = t
        /\ t \in alive /\ Nest(t) = slots[tls[t]].nest /\ Nest(t) \in Nat
    BY <1>2, <1>0, <2>1 DEF BpTypeOK, BpSlots, BpThreads, Nest, Slot
  <2>3. PICK r \in Slot :
           /\ slots' = [slots EXCEPT ![tls[t]] = r] /\ r.nest = Nest(t) - 1
           /\ r.phase = IF Nest(t) = 1 THEN 0 ELSE slots[tls[t]].phase
           /\ r.list = slots[tls[t]].list /\ r.tid = t
    <3> DEFINE p == IF Nest(t) - 1 = 0 THEN 0 ELSE slots[tls[t]].phase
               q == Nest(t) - 1
               r == [slots[tls[t]] EXCEPT !.phase = p, !.nest = q]
    <3>2. p \in {0, 1} /\ q \in Nat /\ q = Nest(t) - 1 /\ p = IF Nest(t) = 1 THEN 0 ELSE slots[tls[t]].phase
      BY <1>0, <2>1, <2>2 DEF Slot
    <3>1. slots' = [slots EXCEPT ![tls[t]] = r]
      BY <1>2, <1>0, <2>2 DEF rcu_read_unlock_bp
    <3> HIDE DEF p, q
    <3>3. r \in Slot /\ r.nest = q /\ r.list = slots[tls[t]].list /\ r.tid = t /\ r.phase = p
      BY <2>2, <3>2 DEF Slot
    <3> HIDE DEF r
    <3> QED BY <3>1, <3>2, <3>3
  <2>4. /\ DOMAIN slots' = DOMAIN slots /\ slots' \in [DOMAIN slots -> Slot]
        /\ slots'[tls[t]] = r /\ \A x \in DOMAIN slots : x # tls[t] => slots'[x] = slots[x]
        /\ \A u \in BThreads : Nest(u)' = IF u = t THEN Nest(t) - 1 ELSE Nest(u)
        /\ \A u \in BThreads : tls[u] = tls[t] => u = t
    <3>1. tls' = tls
      BY <1>2 DEF rcu_read_unlock_bp
    <3>2. /\ DOMAIN slots' = DOMAIN slots /\ slots' \in [DOMAIN slots -> Slot]
          /\ slots'[tls[t]] = r /\ \A x \in DOMAIN slots : x # tls[t] => slots'[x] = slots[x]
          /\ \A u \in BThreads : Nest(u)' = IF tls[u] = tls[t] THEN r.nest ELSE Nest(u)
          /\ \A u \in BThreads : tls[u] = tls[t] => u = slots[tls[t]].tid
      BY <1>0, <2>2, <2>3, <3>1, OneSlot
    <3> QED BY <2>2, <2>3, <3>2
  <2>5. BpTypeOK'
    BY SMTT(20), <1>2, <1>0, <2>1, <2>2, <2>3, <2>4, BpAssumption DEF BpTypeOK, Slot,
       rcu_read_unlock_bp
  <2>6. BpArena'
    BY <1>2, <1>0, ArenaKept DEF rcu_read_unlock_bp
  <2>7. BpSlots'
    <3>1. \A x \in DOMAIN slots : slots'[x].tid = slots[x].tid
      BY <2>2, <2>3
    <3>2. \A u \in BThreads : bpc'[u] = "child" <=> bpc[u] = "child"
      BY <1>2, <1>0 DEF rcu_read_unlock_bp
    <3> QED
      BY <1>2, <1>0, <3>2 DEF BpSlots, rcu_read_unlock_bp, bproc
  <2>8. References' \subseteq References
    BY <1>2, <1>0, <2>1, <2>2, <2>3, <2>4 DEF References, Holds,
       rcu_read_unlock_bp, bproc
  <2>9. BpReferences'
    BY <1>2, <1>0, <2>8, RefsKept DEF BpTypeOK, rcu_read_unlock_bp
  <2>10. BpThreads'
    <3>1. /\ \A u \in BThreads : bpc'[u] = IF u = t THEN "idle" ELSE bpc[u]
          /\ bpc[t] \in {"idle", "lock_store"}
      BY <1>2, <1>0 DEF bat, rcu_read_unlock_bp
    <3>2. /\ tls' = tls /\ saved' = saved /\ alive' = alive
          /\ \A u \in BThreads : u \in bcs' <=> IF u = t THEN Nest(t) - 1 > 0 ELSE u \in bcs
      BY <1>2, <1>0, <2>2 DEF rcu_read_unlock_bp, bproc, BpThreads
    <3>3. \A u \in BThreads : u \in alive \/ u # t
      BY <2>2
    <3>4. Nest(t)' >= saved[t].nest /\ saved[t].nest \in Nat
      BY <1>2, <1>0, <2>2, <2>4 DEF rcu_read_unlock_bp, BpTypeOK
    <3>5. tls[t] # NoThread
      BY <1>0, <2>2, BpAssumption DEF BpTypeOK
    <3>6. NoContext' = NoContext
      OBVIOUS
    <3>7. \A u \in BThreads \ alive' :
            tls'[u] = NoThread /\ bpc'[u] = "idle" /\ saved'[u] = NoContext /\ u \notin bcs'
      BY <1>0, <3>1, <3>2, <3>4, <3>5 DEF BpThreads
    <3>8. ASSUME NEW u \in BThreads
          PROVE  /\ u \in bcs' <=> Nest(u)' > 0
                 /\ Nest(u)' >= saved'[u].nest
                 /\ saved'[u].pc = "none" => saved'[u] = NoContext
                 /\ bpc'[u] \in {"lock_load", "lock_store"} => tls'[u] # NoThread
                 /\ saved'[u].pc \in {"lock_load", "lock_store"} => tls'[u] # NoThread
                 /\ bpc'[u] \in BpRegPC => tls'[u] = NoThread
                 /\ bpc'[u] \in BpSyncPC => saved'[u].pc = "none" /\ Nest(u)' = 0
                 /\ bpc'[u] \in BpForkPC \cup BpExitPC => saved'[u].pc = "none"
      <4>1. CASE u = t
        BY <1>0, <2>4, <3>1, <3>2, <3>3, <3>4, <3>5, <4>1 DEF BpThreads
      <4>2. CASE u # t
        BY <1>0, <2>4, <3>1, <3>2, <3>3, <3>4, <3>5, <4>2 DEF BpThreads,
           InHandler
      <4> QED BY <4>1, <4>2
    <3>9. \A u \in alive' : bpc'[u] = "child" => alive' = {u}
      BY <1>0, <2>2, <2>4, <3>1, <3>2, <3>3, <3>4, <3>5 DEF BpThreads,
         BpTypeOK
    <3> QED BY <3>6, <3>7, <3>8, <3>9 DEF BpThreads, InHandler
  <2>11. BpLocks'
    BY <1>2, <1>0, <2>2, <2>3, <2>4, BpAssumption DEF BpLocks,
       rcu_read_unlock_bp, blocks
  <2>12. BpLists'
    <3>1. /\ \A u \in BThreads : bpc'[u] = IF u = t THEN "idle" ELSE bpc[u]
          /\ bpc[t] \in {"idle", "lock_store"}
      BY <1>2, <1>0 DEF bat, rcu_read_unlock_bp
    <3>2. \A x \in DOMAIN slots : slots'[x].list = slots[x].list
      BY <2>3
    <3>3. bpass' = bpass /\ bscan' = bscan /\ BpInput' = BpInput /\ (bpre = {} => bpre' = {})
      BY <1>2 DEF rcu_read_unlock_bp, bsync, BpInput
    <3>4. BpInGP' = BpInGP
      BY <3>1 DEF BpInGP
    <3>5. \A q \in {"sync_lock", "sync_out", "scan"} :
             (\E u \in BThreads : bpc'[u] = q) <=> (\E u \in BThreads : bpc[u] = q)
      BY <3>1
    <3> QED BY <1>0, <2>4, <3>1, <3>2, <3>3, <3>4, <3>5 DEF BpLists
  <2>13. BpPreAwaited'
    <3>1. /\ \A u \in BThreads : bpc'[u] = IF u = t THEN "idle" ELSE bpc[u]
          /\ bpc[t] \in {"idle", "lock_store"}
      BY <1>2, <1>0 DEF bat, rcu_read_unlock_bp
    <3>2. /\ bpass' = bpass /\ bphase' = bphase /\ tls' = tls
          /\ bpre' \subseteq bpre /\ bpre' \subseteq bcs'
          /\ (Nest(t) = 1 => t \notin bpre')
      BY <1>2, <1>0 DEF rcu_read_unlock_bp, bsync, BpPreAwaited
    <3>3. BpInGP' = BpInGP
      BY <3>1 DEF BpInGP
    <3>4. (\E u \in BThreads : bpc'[u] = "sync_out") <=> (\E u \in BThreads : bpc[u] = "sync_out")
      BY <3>1
    <3>5. ASSUME NEW u \in bpre', BpInGP PROVE BpAwaited(tls[u])'
      <4>1. u \in BThreads /\ u \in bpre /\ BpAwaited(tls[u]) /\ Nest(u) > 0 /\ tls[u] \in DOMAIN slots
        BY <1>0, <3>2, <3>5, BpAssumption DEF BpTypeOK, BpPreAwaited,
           BpThreads, Nest, BpSlots
      <4>2. CASE u = t
        <5>1. slots'[tls[t]].phase = slots[tls[t]].phase /\ slots'[tls[t]].list = slots[tls[t]].list
          BY <2>3, <3>2, <4>2
        <5> QED BY <3>2, <4>1, <4>2, <5>1 DEF BpAwaited
      <4>3. CASE u # t
        BY <2>4, <3>2, <4>1, <4>3 DEF BpAwaited
      <4> QED BY <4>2, <4>3
    <3> QED BY <1>0, <3>2, <3>3, <3>4, <3>5 DEF BpPreAwaited
  <2> QED
    BY <2>5, <2>6, <2>7, <2>9, <2>10, <2>11, <2>12, <2>13, <2>1, <2>2, <2>3,
       <2>4 DEF BpIInv
<1>3. CASE Signal(t)
  <2>1. \A u \in BThreads : Nest(u)' = Nest(u)
    BY <1>3 DEF Nest, barena, Signal
  <2>2. Nest(t) \in Nat
    BY <1>0 DEF Nest, BpTypeOK, BpSlots, Slot
  <2>3. saved' \in [BThreads -> [pc : BpSavedPC, tmp : {0, 1},
                                nest : Nat, todo : BOOLEAN]]
    BY <1>3, <1>0, <2>2 DEF BpTypeOK, Signal
  <2>4. BpTypeOK'
    BY <1>3, <1>0, <2>1, <2>2, <2>3, BpAssumption DEF BpTypeOK, Signal, bgoto,
       barena, blocks, bproc, bsync, bghosts
  <2>5. BpArena'
    BY <1>3, <1>0, ArenaKept DEF Signal, barena
  <2>6. BpSlots'
    BY <1>3, <1>0, <2>1, <2>2, <2>3, BpAssumption DEF BpSlots, Signal, bgoto,
       barena, bproc
  <2>7. References' \subseteq References
    BY <1>3, <1>0, <2>1, <2>2, <2>3 DEF References, Holds, Signal, bgoto,
       bproc
  <2>8. BpReferences'
    BY <1>3, <1>0, <2>7, RefsKept DEF BpTypeOK, Signal
  <2>9. BpThreads'
    <3>1. \A u \in BThreads : bpc'[u] = IF u = t THEN "idle" ELSE bpc[u]
      BY <1>3, <1>0 DEF BpTypeOK, bgoto, Signal
    <3>2. /\ bpc[t] \in BpReadPC \cup BpExitPC /\ t \in alive
          /\ saved'[t].pc = bpc[t] /\ saved'[t].nest = Nest(t)
          /\ \A u \in BThreads : u # t => saved'[u] = saved[u]
      BY <1>3, <1>0 DEF BpTypeOK, Signal
    <3>3. tls' = tls /\ alive' = alive /\ bcs' = bcs
      BY <1>3 DEF Signal, bproc, bghosts
    <3>4. NoContext' = NoContext
      OBVIOUS
    <3>5. \A u \in BThreads \ alive' :
            tls'[u] = NoThread /\ bpc'[u] = "idle" /\ saved'[u] = NoContext /\ u \notin bcs'
      BY <1>0, <3>1, <3>2, <3>3 DEF BpThreads
    <3>6. ASSUME NEW u \in BThreads
          PROVE  /\ u \in bcs' <=> Nest(u)' > 0
                 /\ Nest(u)' >= saved'[u].nest
                 /\ saved'[u].pc = "none" => saved'[u] = NoContext
                 /\ bpc'[u] \in {"lock_load", "lock_store"} => tls'[u] # NoThread
                 /\ saved'[u].pc \in {"lock_load", "lock_store"} => tls'[u] # NoThread
                 /\ bpc'[u] \in BpRegPC => tls'[u] = NoThread
                 /\ bpc'[u] \in BpSyncPC => saved'[u].pc = "none" /\ Nest(u)' = 0
                 /\ bpc'[u] \in BpForkPC \cup BpExitPC => saved'[u].pc = "none"
      <4>1. CASE u = t
        BY <1>0, <2>1, <2>2, <3>1, <3>2, <3>3, <4>1 DEF BpThreads
      <4>2. CASE u # t
        BY <1>0, <2>1, <3>1, <3>2, <3>3, <4>2 DEF BpThreads, InHandler
      <4> QED BY <4>1, <4>2
    <3>7. \A u \in alive' : bpc'[u] = "child" => alive' = {u}
      BY <1>0, <2>2, <3>1, <3>3 DEF BpThreads, BpTypeOK
    <3> QED BY <3>4, <3>5, <3>6, <3>7 DEF BpThreads, InHandler
  <2>10. BpLocks'
    BY <1>3, <1>0, <2>1, <2>2, <2>3, BpAssumption DEF BpLocks, Signal, bgoto,
       blocks
  <2>11. BpLists'
    BY <1>3, <1>0, <2>1, <2>2, <2>3, BpAssumption DEF BpLists, BpInGP,
       BpInput, Signal, bgoto, barena, bsync, bghosts
  <2>12. BpPreAwaited'
    BY <1>3, <1>0, <2>1, <2>2, <2>3, BpAssumption DEF BpPreAwaited, BpInGP,
       BpAwaited, Signal, bgoto, barena, bsync, bghosts
  <2> QED
    BY <2>4, <2>5, <2>6, <2>8, <2>9, <2>10, <2>11, <2>12, <2>1, <2>2, <2>3 DEF
       BpIInv
<1>4. CASE SignalReturn(t)
  <2>1. \A u \in BThreads : Nest(u)' = Nest(u)
    BY <1>4 DEF Nest, barena, SignalReturn
  <2>2. Nest(t) \in Nat
    BY <1>0 DEF Nest, BpTypeOK, BpSlots, Slot
  <2>3. saved' \in [BThreads -> [pc : BpSavedPC, tmp : {0, 1},
                                nest : Nat, todo : BOOLEAN]]
    BY <1>4, <1>0 DEF BpTypeOK, NoContext, SignalReturn
  <2>4. BpTypeOK'
    <3>1. /\ \A u \in BThreads : bpc'[u] = IF u = t THEN saved[t].pc ELSE bpc[u]
          /\ bpc[t] = "idle" /\ t \in alive /\ saved[t].pc \in BpReadPC \cup BpExitPC /\ saved[t].tmp \in {0, 1}
      BY <1>4, <1>0 DEF BpTypeOK, bgoto, bat, SignalReturn, InHandler
    <3>2. bpc' \in [BThreads -> BpThreadPC] /\ btmp' \in [BThreads -> {0, 1}]
      BY <1>4, <1>0, <3>1 DEF BpTypeOK, bgoto, SignalReturn
    <3> QED
      BY <1>4, <1>0, <2>3, <3>2 DEF BpTypeOK, SignalReturn, barena, blocks,
         bproc, bsync, bghosts
  <2>5. BpArena'
    BY <1>4, <1>0, ArenaKept DEF SignalReturn, barena
  <2>6. BpSlots'
    BY <1>4, <1>0, <2>1, <2>2, <2>3, BpAssumption DEF BpSlots, SignalReturn,
       bgoto, bat, barena, bproc
  <2>7. References' \subseteq References
    <3>1. /\ bpc'[t] = saved[t].pc /\ \A u \in BThreads : u # t => bpc'[u] = bpc[u]
          /\ saved'[t].pc = "none" /\ \A u \in BThreads : u # t => saved'[u] = saved[u]
          /\ saved[t].pc \in BpSavedPC /\ tls' = tls /\ alive' = alive /\ dtor' = dtor
      BY <1>4, <1>0 DEF BpTypeOK, SignalReturn, NoContext, bgoto, bproc
    <3> QED BY <1>0, <3>1, BpAssumption DEF References, Holds, BpTypeOK
  <2>8. BpReferences'
    BY <1>4, <1>0, <2>7, RefsKept DEF BpTypeOK, SignalReturn
  <2>9. BpThreads'
    <3>1. /\ \A u \in BThreads : bpc'[u] = IF u = t THEN saved[t].pc ELSE bpc[u]
          /\ bpc[t] = "idle" /\ t \in alive /\ saved[t].pc \in BpReadPC \cup BpExitPC /\ saved[t].tmp \in {0, 1}
      BY <1>4, <1>0 DEF BpTypeOK, bgoto, bat, SignalReturn, InHandler
    <3>2. /\ saved'[t] = NoContext /\ \A u \in BThreads : u # t => saved'[u] = saved[u]
          /\ NoContext.pc = "none" /\ NoContext.nest = 0
      BY <1>4, <1>0 DEF BpTypeOK, SignalReturn, NoContext
    <3>3. tls' = tls /\ alive' = alive /\ bcs' = bcs
      BY <1>4 DEF SignalReturn, bproc, bghosts
    <3>4. NoContext' = NoContext
      OBVIOUS
    <3>5. \A u \in BThreads \ alive' :
            tls'[u] = NoThread /\ bpc'[u] = "idle" /\ saved'[u] = NoContext /\ u \notin bcs'
      BY <1>0, <3>1, <3>2, <3>3 DEF BpThreads
    <3>6. ASSUME NEW u \in BThreads
          PROVE  /\ u \in bcs' <=> Nest(u)' > 0
                 /\ Nest(u)' >= saved'[u].nest
                 /\ saved'[u].pc = "none" => saved'[u] = NoContext
                 /\ bpc'[u] \in {"lock_load", "lock_store"} => tls'[u] # NoThread
                 /\ saved'[u].pc \in {"lock_load", "lock_store"} => tls'[u] # NoThread
                 /\ bpc'[u] \in BpRegPC => tls'[u] = NoThread
                 /\ bpc'[u] \in BpSyncPC => saved'[u].pc = "none" /\ Nest(u)' = 0
                 /\ bpc'[u] \in BpForkPC \cup BpExitPC => saved'[u].pc = "none"
      <4>1. CASE u = t
        BY <1>0, <2>1, <2>2, <3>1, <3>2, <3>3, <4>1 DEF BpThreads
      <4>2. CASE u # t
        BY <1>0, <2>1, <3>1, <3>2, <3>3, <4>2 DEF BpThreads, InHandler
      <4> QED BY <4>1, <4>2
    <3>7. \A u \in alive' : bpc'[u] = "child" => alive' = {u}
      <4>1. saved[t].pc # "child" /\ alive \subseteq BThreads
        BY <1>0, <3>1 DEF BpTypeOK
      <4>2. \A u \in alive : bpc[u] = "child" => alive = {u}
        BY <1>0 DEF BpThreads
      <4> QED BY <3>1, <3>3, <4>1, <4>2
    <3> QED BY <3>4, <3>5, <3>6, <3>7 DEF BpThreads, InHandler
  <2>10. BpLocks'
    <3>1. /\ \A u \in BThreads : bpc'[u] = IF u = t THEN saved[t].pc ELSE bpc[u]
          /\ bpc[t] = "idle" /\ t \in alive /\ saved[t].pc \in BpReadPC \cup BpExitPC /\ saved[t].tmp \in {0, 1}
      BY <1>4, <1>0 DEF BpTypeOK, bgoto, bat, SignalReturn, InHandler
    <3> QED BY <1>4, <1>0, <3>1 DEF BpLocks, SignalReturn, blocks
  <2>11. BpLists'
    <3>1. /\ \A u \in BThreads : bpc'[u] = IF u = t THEN saved[t].pc ELSE bpc[u]
          /\ bpc[t] = "idle" /\ t \in alive /\ saved[t].pc \in BpReadPC \cup BpExitPC /\ saved[t].tmp \in {0, 1}
      BY <1>4, <1>0 DEF BpTypeOK, bgoto, bat, SignalReturn, InHandler
    <3>2. BpInGP' = BpInGP
      BY <3>1 DEF BpInGP
    <3>3. \A q \in {"sync_lock", "sync_out", "scan"} :
             (\E u \in BThreads : bpc'[u] = q) <=> (\E u \in BThreads : bpc[u] = q)
      BY <3>1
    <3>4. slots' = slots /\ bpass' = bpass /\ bscan' = bscan /\ bpre' = bpre /\ BpInput' = BpInput
      BY <1>4 DEF SignalReturn, barena, bsync, bghosts, BpInput
    <3> QED BY <1>0, <3>1, <3>2, <3>3, <3>4 DEF BpLists
  <2>12. BpPreAwaited'
    BY <1>4, <1>0, <2>1, <2>2, <2>3, BpAssumption DEF BpTypeOK, BpPreAwaited,
       BpInGP, BpAwaited, SignalReturn, bgoto, bat, barena, blocks, bproc,
       bsync, bghosts
  <2> QED
    BY <2>4, <2>5, <2>6, <2>8, <2>9, <2>10, <2>11, <2>12, <2>1, <2>2, <2>3 DEF
       BpIInv
<1>5. CASE urcu_bp_thread_exit_notifier(t)
  <2>1. {tls[t]} \subseteq DOMAIN slots
    BY <1>5, <1>0 DEF BpSlots, urcu_bp_thread_exit_notifier
  <2>2. chunks' \in Seq(Chunk) /\ BpArena'
    BY <1>5, <1>0, <2>1, Cleanup DEF urcu_bp_thread_exit_notifier
  <2>3. <<"registered", t>> \in References
    BY <1>5, <1>0 DEF References, Holds, bat, Calm,
       urcu_bp_thread_exit_notifier
  <2>4. References' \subseteq (References \ {<<"registered", t>>}) \cup {<<"exiting", t>>}
    BY SMTT(20), <1>5, <1>0, BpAssumption DEF References, Holds, BpThreads, BpTypeOK,
       BpSlots, BpLocks, urcu_bp_thread_exit_notifier, bgoto, bproc
  <2>5. BpReferences'
    BY <1>5, <1>0, <2>3, <2>4, RefsKept DEF BpTypeOK,
       urcu_bp_thread_exit_notifier
  <2>6. BpTypeOK'
    BY <1>5, <1>0, <2>1, <2>2, <2>5, BpAssumption DEF BpTypeOK, BpSlots,
       BpThreads, BpLocks, BpLists, BpPreAwaited,
       urcu_bp_thread_exit_notifier, bgoto, Calm, cleanup_thread, blocks,
       bproc, bsync, bghosts, bat
  <2>7. BpSlots'
    BY SMTT(20), <1>5, <1>0, <2>1, <2>2, <2>5, BpAssumption DEF BpTypeOK, BpSlots,
       urcu_bp_thread_exit_notifier, bgoto, Calm, cleanup_thread, bproc, bat,
       InHandler
  <2>8. BpThreads'
    BY SMTT(20), <1>5, <1>0, <2>1, <2>2, <2>5, BpAssumption DEF BpTypeOK, Slot, BpSlots,
       BpThreads, Nest, InHandler, NoContext, BpLocks, BpLists, BpInGP,
       BpInput, BpPreAwaited, BpAwaited, urcu_bp_thread_exit_notifier, bgoto,
       Calm, cleanup_thread, bproc, bsync, bghosts, bat
  <2>9. BpLocks'
    BY <1>5, <1>0, <2>1, <2>2, <2>5, BpAssumption DEF BpLocks,
       urcu_bp_thread_exit_notifier, bgoto, Calm, blocks, bat
  <2>10. BpLists'
    BY <1>5, <1>0, <2>1, <2>2, <2>5, BpAssumption DEF BpLocks, BpLists,
       BpInGP, BpPreAwaited, urcu_bp_thread_exit_notifier, bgoto, Calm,
       cleanup_thread, blocks, bsync, bghosts, bat
  <2>11. BpPreAwaited'
    <3>1. /\ \A u \in BThreads : bpc'[u] = IF u = t THEN "exit_lock" ELSE bpc[u]
          /\ bpc[t] = "idle" /\ Nest(t) = 0
      BY <1>5, <1>0 DEF BpTypeOK, bgoto, Calm, bat,
         urcu_bp_thread_exit_notifier
    <3>2. /\ bpass' = bpass /\ bphase' = bphase /\ bpre' = bpre /\ bcs' = bcs
          /\ \A u \in BThreads : u # t => tls'[u] = tls[u]
          /\ slots' = [x \in DOMAIN slots \ {tls[t]} |-> slots[x]]
      BY <1>5, <1>0 DEF urcu_bp_thread_exit_notifier, bsync, bghosts,
         cleanup_thread
    <3>3. t \notin bpre
      BY <1>0, <3>1 DEF BpPreAwaited, BpThreads
    <3>4. BpInGP' = BpInGP /\ ((\E u \in BThreads : bpc'[u] = "sync_out") <=> (\E u \in BThreads : bpc[u] = "sync_out"))
      BY <3>1 DEF BpInGP
    <3>5. ASSUME NEW u \in bpre, BpInGP PROVE BpAwaited(tls[u])'
      <4>1. u \in BThreads /\ u # t /\ BpAwaited(tls[u]) /\ tls[u] # NoThread
        BY <1>0, <3>3, <3>5 DEF BpTypeOK, BpPreAwaited, BpThreads, Nest
      <4>2. tls[u] \in DOMAIN slots /\ tls[u] # tls[t] /\ tls'[u] = tls[u]
        BY <1>0, <3>2, <4>1 DEF BpSlots
      <4>3. slots'[tls[u]] = slots[tls[u]]
        BY <3>2, <4>2
      <4> QED BY <3>2, <4>1, <4>2, <4>3 DEF BpAwaited
    <3> QED BY <1>0, <3>2, <3>4, <3>5 DEF BpPreAwaited
  <2> QED
    BY <2>6, <2>7, <2>8, <2>9, <2>10, <2>11, <2>1, <2>2, <2>5 DEF BpIInv
<1>6. CASE LibraryExit(t)
  <2>1. \A u \in BThreads : Nest(u)' = Nest(u)
    BY <1>6 DEF Nest, barena, LibraryExit
  <2>2. <<"library", NoThread>> \in References
    BY <1>6, <1>0 DEF References, Holds, LibraryExit
  <2>3. References' \subseteq (References \ {<<"library", NoThread>>}) \cup {<<"exiting", t>>}
    BY <1>6, <1>0, BpAssumption DEF References, Holds, LibraryExit, bgoto
  <2>4. BpReferences'
    BY <1>6, <1>0, <2>2, <2>3, RefsKept DEF BpTypeOK, LibraryExit
  <2>5. BpTypeOK'
    BY <1>6, <1>0, <2>1, <2>4, BpAssumption DEF BpTypeOK, LibraryExit, bgoto,
       Calm, barena, blocks, bsync, bghosts, bat
  <2>6. BpArena'
    BY <1>6, <1>0, ArenaKept DEF LibraryExit, barena
  <2>7. BpSlots'
    BY <1>6, <1>0, <2>1, <2>4, BpAssumption DEF BpSlots, LibraryExit, bgoto,
       Calm, barena, bat
  <2>8. BpThreads'
    BY <1>6, <1>0, <2>1, <2>4, BpAssumption DEF BpThreads, InHandler,
       NoContext, LibraryExit, bgoto, Calm, bghosts, bat
  <2>9. BpLocks'
    BY <1>6, <1>0, <2>1, <2>4, BpAssumption DEF BpLocks, LibraryExit, bgoto,
       Calm, blocks, bat
  <2>10. BpLists'
    BY <1>6, <1>0, <2>1, <2>4, BpAssumption DEF BpLists, BpInGP, BpInput,
       LibraryExit, bgoto, Calm, barena, bsync, bghosts, bat
  <2>11. BpPreAwaited'
    BY <1>6, <1>0, <2>1, <2>4, BpAssumption DEF BpPreAwaited, BpInGP,
       BpAwaited, LibraryExit, bgoto, Calm, barena, bsync, bghosts
  <2> QED
    BY <2>5, <2>6, <2>7, <2>8, <2>9, <2>10, <2>11, <2>1, <2>4 DEF BpIInv
<1>7. CASE ThreadStart(t)
  <2>1. BpTypeOK'
    BY <1>7, <1>0 DEF BpTypeOK, ThreadStart, barena, blocks, bsync, bghosts
  <2>2. BpArena'
    BY <1>7, <1>0, ArenaKept DEF ThreadStart, barena
  <2>3. BpSlots'
    BY <1>7, <1>0, BpAssumption DEF BpSlots, ThreadStart, barena
  <2>4. References' \subseteq References
    <3>1. tls[t] = NoThread /\ bpc[t] = "idle" /\ saved[t].pc = "none"
      BY <1>7, <1>0 DEF BpThreads, NoContext, ThreadStart
    <3>2. tls' = tls /\ bpc' = bpc /\ saved' = saved /\ dtor' = dtor /\ alive' = alive \cup {t}
      BY <1>7 DEF ThreadStart
    <3> QED BY <3>1, <3>2 DEF References, Holds
  <2>5. BpReferences'
    BY <1>7, <1>0, <2>4, RefsKept DEF BpTypeOK, ThreadStart
  <2>6. BpThreads'
    BY <1>7, <1>0, BpAssumption DEF BpThreads, Nest, InHandler, NoContext,
       BpInGP, ThreadStart, barena, bghosts
  <2>7. BpLocks'
    BY <1>7, <1>0, BpAssumption DEF BpLocks, ThreadStart, blocks
  <2>8. BpLists'
    BY <1>7, <1>0, BpAssumption DEF BpLists, BpInGP, BpInput, ThreadStart,
       barena, bsync, bghosts
  <2>9. BpPreAwaited'
    BY <1>7, <1>0, BpAssumption DEF BpInGP, BpInput, BpPreAwaited, BpAwaited,
       ThreadStart, barena, bsync, bghosts
  <2> QED
    BY <2>1, <2>2, <2>3, <2>5, <2>6, <2>7, <2>8, <2>9 DEF BpIInv
<1>8. CASE rcu_bp_before_fork(t)
  <2>1. BpTypeOK'
    BY <1>8, <1>0, BpAssumption DEF BpTypeOK, BpLists, BpPreAwaited,
       rcu_bp_before_fork, bgoto, bat, barena, bproc, bsync, bghosts
  <2>2. BpArena'
    BY <1>8, <1>0, ArenaKept DEF rcu_bp_before_fork, barena
  <2>3. BpSlots'
    BY <1>8, <1>0, BpAssumption DEF BpSlots, rcu_bp_before_fork, bgoto, bat,
       barena, bproc
  <2>4. References' \subseteq References
    BY <1>8, <1>0 DEF References, Holds, rcu_bp_before_fork, bgoto, bproc
  <2>5. BpReferences'
    BY <1>8, <1>0, <2>4, RefsKept DEF BpTypeOK, rcu_bp_before_fork
  <2>6. BpThreads'
    BY <1>8, <1>0, BpAssumption DEF BpThreads, Nest, InHandler, NoContext,
       BpInGP, rcu_bp_before_fork, bgoto, bat, barena, bproc, bghosts
  <2>7. BpLocks'
    BY <1>8, <1>0, BpAssumption DEF BpTypeOK, BpSlots, BpThreads, BpLocks,
       BpLists, BpPreAwaited, rcu_bp_before_fork, bgoto
  <2>8. BpLists'
    BY <1>8, <1>0, BpAssumption DEF Slot, Nest, BpLists, BpInGP, BpInput,
       BpAwaited, rcu_bp_before_fork, bgoto, bat, barena, bsync, bghosts
  <2>9. BpPreAwaited'
    BY <1>8, <1>0, BpAssumption DEF BpInGP, BpInput, BpPreAwaited, BpAwaited,
       rcu_bp_before_fork, bgoto, barena, bsync, bghosts
  <2> QED
    BY <2>1, <2>2, <2>3, <2>5, <2>6, <2>7, <2>8, <2>9 DEF BpIInv
<1>9. CASE synchronize_rcu_bp(t)
  <2>1. BpTypeOK'
    BY <1>9, <1>0, BpAssumption DEF BpTypeOK, BpLists, BpPreAwaited,
       synchronize_rcu_bp, bgoto, Calm, barena, bproc, bsync, bat
  <2>2. BpArena'
    BY <1>9, <1>0, ArenaKept DEF synchronize_rcu_bp, barena
  <2>3. BpSlots'
    BY <1>9, <1>0, BpAssumption DEF BpSlots, synchronize_rcu_bp, bgoto, Calm,
       barena, bproc, bat
  <2>4. References' \subseteq References
    BY <1>9, <1>0 DEF References, Holds, synchronize_rcu_bp, bgoto, Calm,
       bproc
  <2>5. BpReferences'
    BY <1>9, <1>0, <2>4, RefsKept DEF BpTypeOK, synchronize_rcu_bp
  <2>6. BpThreads'
    BY <1>9, <1>0, BpAssumption DEF BpThreads, Nest, InHandler, NoContext,
       BpInGP, synchronize_rcu_bp, bgoto, Calm, barena, bproc, bat
  <2>7. BpLocks'
    BY <1>9, <1>0, BpAssumption DEF BpTypeOK, BpSlots, BpThreads, BpLocks,
       BpLists, BpPreAwaited, synchronize_rcu_bp, bgoto
  <2>8. BpLists'
    BY <1>9, <1>0, BpAssumption DEF BpTypeOK, BpSlots, BpThreads, Nest,
       BpLocks, BpLists, BpInGP, BpPreAwaited, synchronize_rcu_bp, bgoto,
       barena, bsync
  <2>9. BpPreAwaited'
    BY SMTT(20), <1>9, <1>0, BpAssumption DEF BpTypeOK, Slot, BpSlots, BpThreads, Nest,
       BpLocks, BpLists, BpInGP, BpInput, BpPreAwaited, BpAwaited,
       synchronize_rcu_bp, bgoto, Calm, barena, bproc, bsync, bat
  <2> QED
    BY <2>1, <2>2, <2>3, <2>5, <2>6, <2>7, <2>8, <2>9 DEF BpIInv
<1> QED
  BY <1>0, <1>1, <1>2, <1>3, <1>4, <1>5, <1>6, <1>7, <1>8, <1>9 DEF BpCall


(* The initial state satisfies the invariant.                              *)
LEMMA BpInitIInv == BpInit => BpIInv
<1> SUFFICES ASSUME BpInit PROVE BpIInv
  OBVIOUS
<1> USE DEF BpSyncPC, BpForkPC, BpReadPC, BpRegPC, BpExitPC, BpSavedPC,
           BpThreadPC
<1>1. BpTypeOK
  <2>1. chunks \in Seq(Chunk) /\ DOMAIN slots = {} /\ slots \in [{} -> Slot]
    BY DEF BpInit
  <2>2. saved \in [BThreads -> [pc : BpSavedPC, tmp : {0, 1},
                                nest : Nat, todo : BOOLEAN]]
    BY DEF BpInit, NoContext
  <2> QED BY <2>1, <2>2 DEF BpInit, BpTypeOK
<1>2. BpArena
  BY FS_EmptySet DEF BpInit, BpArena
<1>3. BpSlots
  BY DEF BpInit, BpSlots
<1>4. BpReferences
  <2>1. References = {<<"library", NoThread>>}
    BY BpAssumption DEF BpInit, References, Holds, NoContext
  <2>2. Cardinality({<<"library", NoThread>>}) = 1
    BY FS_Singleton
  <2> QED BY <2>1, <2>2 DEF BpInit, BpReferences
<1>5. BpThreads
  BY DEF BpInit, BpThreads, Nest, NoContext
<1>6. BpLocks /\ BpLists /\ BpPreAwaited
  BY BpAssumption DEF BpInit, BpLocks, BpLists, BpPreAwaited
<1> QED BY <1>1, <1>2, <1>3, <1>4, <1>5, <1>6 DEF BpIInv

(* A step that changes nothing keeps the invariant.                        *)
LEMMA BpStutter == BpIInv /\ UNCHANGED bvars => BpIInv'
<1> SUFFICES ASSUME BpIInv, UNCHANGED bvars PROVE BpIInv'
  OBVIOUS
<1>1. BpTypeOK' /\ BpSlots' /\ BpThreads' /\ BpLocks' /\ BpLists' /\ BpPreAwaited'
  BY DEF BpIInv, bvars, barena, blocks, bproc, bsync, bghosts, BpTypeOK,
     BpSlots, BpThreads, BpLocks, BpLists, BpPreAwaited, Nest, InHandler,
     BpInGP, BpInput, BpAwaited
<1>2. BpArena'
  BY ArenaKept DEF BpIInv, bvars, barena
<1>3. References' \subseteq References
  BY DEF bvars, bproc, References, Holds
<1>4. BpReferences'
  BY <1>3, RefsKept DEF BpIInv, BpTypeOK, bvars
<1> QED BY <1>1, <1>2, <1>4 DEF BpIInv

(* Every step keeps the invariant.                                         *)
LEMMA BpNextIInv == BpIInv /\ [BpNext]_bvars => BpIInv'
BY BpStepPreserves, BpCallPreserves, BpStutter DEF BpNext

(* The invariant holds at all times.                                       *)
LEMMA BpIInvHolds == BpSpec => []BpIInv
BY BpInitIInv, BpNextIInv, PTL DEF BpSpec

(* Every variable has its type, and the arena of urcu-bp.c is consistent:  *)
(* the slots of registered readers lie inside their chunk, and chunk->used *)
(* is the room they take, however often expand_arena() ran.                *)
THEOREM BpTypeCorrect == BpSpec => [](BpTypeOK /\ BpArena)
<1>1. BpIInv => BpTypeOK /\ BpArena
  BY DEF BpIInv
<1> QED BY <1>1, BpIInvHolds, PTL

(* The slot that URCU_TLS(urcu_bp_reader) of a live thread points to is    *)
(* allocated, carries the thread's own tid and is no other thread's,       *)
(* through automatic registration, signal handlers that register in the    *)
(* middle of it or between the unregistration of an exiting thread and the *)
(* end of its rcu_bp_exit(), exit notifiers and fork.                      *)
THEOREM BpSlotsAreOwned == BpSpec => []BpSlotsOwned
<1>1. BpIInv => BpSlotsOwned
  <2> SUFFICES ASSUME BpIInv PROVE BpSlotsOwned
    OBVIOUS
  <2>1. BpTypeOK /\ BpSlots /\ BpArena
    BY DEF BpIInv
  <2>2. ASSUME NEW t \in alive, tls[t] # NoThread
        PROVE  /\ tls[t] \in DOMAIN slots
               /\ slots[tls[t]].tid = t
               /\ tls[t][1] \in DOMAIN chunks
               /\ (tls[t][2] + 1) * SlotSize <= chunks[tls[t][1]].data_len
    <3>1. t \in BThreads
      BY <2>1 DEF BpTypeOK
    <3>2. tls[t] \in DOMAIN slots /\ slots[tls[t]].tid = t
      BY <2>1, <2>2, <3>1 DEF BpSlots
    <3> QED BY <2>1, <3>2 DEF BpArena
  <2>3. ASSUME NEW t \in alive, NEW u \in alive, tls[t] = tls[u], t # u
        PROVE  tls[t] = NoThread
    BY <2>2, <2>3
  <2> QED BY <2>2, <2>3 DEF BpSlotsOwned
<1> QED BY <1>1, BpIInvHolds, PTL

(* The registry has exactly the readers of this process: after a fork, the *)
(* child that has run urcu_bp_prune_registry() waits for no thread of its  *)
(* parent.                                                                 *)
THEOREM BpRegistryStaysCurrent == BpSpec => []BpRegistryIsCurrent
<1>1. BpIInv => BpRegistryIsCurrent
  BY DEF BpIInv, BpSlots, BpRegistryIsCurrent
<1> QED BY <1>1, BpIInvHolds, PTL

-----------------------------------------------------------------------------
(* The refinement.                                                         *)

(* A step that moves no section and no caller is invisible to clients.     *)
LEMMA BpInvisible ==
    ASSUME bcs' = bcs, bpre' = bpre, BpInside' = BpInside
    PROVE  UNCHANGED BGP!gpvars
BY DEF BGP!gpvars

(* An outermost rcu_read_lock() is one of the promise.                     *)
LEMMA BpSectionStarts ==
    ASSUME NEW t \in BThreads, t \notin bcs, bcs' = bcs \cup {t}, bpre' = bpre,
           BpInside' = BpInside
    PROVE  BGP!GPNext
<1>1. BGP!ReadLock(t)
  BY DEF BGP!ReadLock
<1> QED BY <1>1 DEF BGP!GPNext

(* An outermost rcu_read_unlock() is one of the promise.                   *)
LEMMA BpSectionEnds ==
    ASSUME NEW t \in BThreads, t \in bcs, bcs' = bcs \ {t}, bpre' = bpre \ {t},
           BpInside' = BpInside
    PROVE  BGP!GPNext
<1>1. BGP!ReadUnlock(t)
  BY DEF BGP!ReadUnlock
<1> QED BY <1>1 DEF BGP!GPNext

(* Taking rcu_gp_lock is where the call to synchronize_rcu() begins for    *)
(* the promise.                                                            *)
LEMMA BpCallBegins ==
    ASSUME BpInside = FALSE, BpInside' = TRUE, bpre' = bcs, bcs' = bcs
    PROVE  BGP!GPNext
<1>1. BGP!SyncCall("leader")
  BY DEF BGP!SyncCall
<1> QED BY <1>1 DEF BGP!GPNext

(* Releasing rcu_gp_lock is where it returns, with nothing left to wait    *)
(* for.                                                                    *)
LEMMA BpCallReturns ==
    ASSUME BpInside = TRUE, BpInside' = FALSE, bpre = {}, bpre' = bpre, bcs' = bcs
    PROVE  BGP!GPNext
<1>1. BGP!SyncReturn("leader")
  BY DEF BGP!SyncReturn
<1> QED BY <1>1 DEF BGP!GPNext

(* The child of a fork keeps the section of the thread that forked and no  *)
(* other.                                                                  *)
LEMMA BpForks ==
    ASSUME NEW t \in BThreads, BpInside = FALSE, BpInside' = FALSE,
           bcs' = bcs \cap {t}, bpre = {}, bpre' = bpre
    PROVE  BGP!GPNext
<1>1. BGP!ForkChild(t)
  BY DEF BGP!ForkChild
<1> QED BY <1>1 DEF BGP!GPNext

(* Every step of the bp flavor is a step of the promise, or invisible.     *)
LEMMA BpStepRefines == BpIInv /\ BpIInv' /\ [BpNext]_bvars => [BGP!GPNext]_(BGP!gpvars)
<1> SUFFICES ASSUME BpIInv, BpIInv', [BpNext]_bvars
             PROVE  BGP!GPNext \/ UNCHANGED BGP!gpvars
  OBVIOUS
<1> USE DEF BpSyncPC
<1>1. BpInside = BpInGP /\ BpInside' = BpInGP'
  <2>1. BpInside \in BOOLEAN /\ BpInGP \in BOOLEAN /\ BpInside' \in BOOLEAN /\ BpInGP' \in BOOLEAN
    BY DEF BpInside, BpInGP
  <2>2. /\ bgp_lock \in BThreads \cup {NoThread} /\ bgp_lock' \in BThreads \cup {NoThread}
        /\ \A t \in BThreads : t # NoThread
        /\ \A t \in BThreads : bpc[t] \in BpSyncPC => bgp_lock = t
        /\ \A t \in BThreads : bpc'[t] \in BpSyncPC => bgp_lock' = t
    <3>1. bgp_lock \in BThreads \cup {NoThread} /\ bgp_lock' \in BThreads \cup {NoThread}
      BY DEF BpIInv, BpTypeOK
    <3>2. \A t \in BThreads : t # NoThread
      BY BpAssumption
    <3>3. BpLocks /\ BpLocks'
      BY DEF BpIInv
    <3>4. /\ \A t \in BThreads : bpc[t] \in BpSyncPC => bgp_lock = t
          /\ \A t \in BThreads : bpc'[t] \in BpSyncPC => bgp_lock' = t
      BY <3>3 DEF BpLocks
    <3> QED BY <3>1, <3>2, <3>4
  <2>3. (BpInside <=> BpInGP) /\ (BpInside' <=> BpInGP')
    BY <2>2, Zenon DEF BpInside, BpInGP
  <2> QED BY <2>1, <2>3
<1>2. BpTypeOK
  BY DEF BpIInv
<1>3. CASE UNCHANGED bvars
  BY <1>3, BpInvisible DEF bvars, BpInside, blocks, bghosts
<1>4. ASSUME NEW t \in BThreads, BpStep(t) \/ BpCall(t)
      PROVE  BGP!GPNext \/ UNCHANGED BGP!gpvars
  <2>1. CASE BpReadLockStore(t)
    <3>1. BpInGP' = BpInGP
      BY <1>2, <2>1 DEF BpInGP, BpReadLockStore, bgoto, bat
    <3>2. CASE t \in bcs
      <4>1. bcs' = bcs /\ bpre' = bpre
        BY <2>1, <3>2 DEF BpReadLockStore
      <4> QED BY <1>1, <3>1, <4>1, BpInvisible
    <3>3. CASE t \notin bcs
      <4>1. bcs' = bcs \cup {t} /\ bpre' = bpre
        BY <2>1 DEF BpReadLockStore
      <4> QED BY <1>1, <3>1, <3>3, <4>1, BpSectionStarts
    <3> QED BY <3>2, <3>3
  <2>2. CASE rcu_read_unlock_bp(t)
    <3>1. BpInGP' = BpInGP
      BY <2>2 DEF BpInGP, rcu_read_unlock_bp
    <3>2. CASE Nest(t) - 1 = 0
      <4>1. bcs' = bcs \ {t} /\ bpre' = bpre \ {t}
        BY <2>2, <3>2 DEF rcu_read_unlock_bp
      <4>2. t \in bcs
        BY <3>2 DEF BpIInv, BpThreads
      <4> QED BY <1>1, <3>1, <4>1, <4>2, BpSectionEnds
    <3>3. CASE Nest(t) - 1 # 0
      <4>1. bcs' = bcs /\ bpre' = bpre
        BY <2>2, <3>3 DEF rcu_read_unlock_bp
      <4> QED BY <1>1, <3>1, <4>1, BpInvisible
    <3> QED BY <3>2, <3>3
  <2>3. CASE synchronize_rcu_bp(t)
    <3>1. BpInside = FALSE
      BY <2>3 DEF synchronize_rcu_bp, BpInside
    <3>2. bpc'[t] = "sync_lock"
      BY <1>2, <2>3 DEF synchronize_rcu_bp, bgoto, BpTypeOK
    <3>3. BpInGP' = TRUE
      BY <3>2 DEF BpInGP
    <3>4. bpre' = bcs /\ bcs' = bcs
      BY <2>3 DEF synchronize_rcu_bp
    <3> QED BY <1>1, <3>1, <3>3, <3>4, BpCallBegins
  <2>4. CASE BpSynchronizeReturn(t)
    <3>1. BpInGP = TRUE
      BY <2>4 DEF BpInGP, BpSynchronizeReturn, bat
    <3>2. BpInside' = FALSE
      BY <2>4 DEF BpSynchronizeReturn, BpInside
    <3>3. bpre = {} /\ bpre' = bpre /\ bcs' = bcs
      BY <2>4 DEF BpIInv, BpPreAwaited, BpSynchronizeReturn, bat, bghosts
    <3> QED BY <1>1, <3>1, <3>2, <3>3, BpCallReturns
  <2>5. CASE fork_child(t)
    <3>1. bpc[t] = "fork"
      BY <2>5 DEF fork_child, bat
    <3>2. \A u \in BThreads : bpc[u] \notin BpSyncPC
      BY <1>2, <3>1 DEF BpIInv, BpLocks, BpForkPC
    <3>3. \A u \in BThreads : bpc'[u] \notin BpSyncPC
      BY <2>5 DEF fork_child
    <3>4. BpInGP = FALSE /\ BpInGP' = FALSE
      BY <3>2, <3>3 DEF BpInGP
    <3>5. bpre = {} /\ bpre' = bpre /\ bcs' = bcs \cap {t}
      BY <2>5, <3>4 DEF BpIInv, BpLists, fork_child
    <3> QED BY <1>1, <3>4, <3>5, BpForks
  <2>6. CASE \/ RegisterCheck(t) \/ InitLock(t) \/ rcu_bp_init(t) \/ rcu_bp_register(t)
             \/ ReadLockLoad(t) \/ ExitLock(t) \/ rcu_bp_exit(t) \/ ForkLockRegistry(t)
             \/ rcu_bp_after_fork_parent(t) \/ rcu_bp_after_fork_child(t)
    <3>1. bpc[t] \notin BpSyncPC
      BY <2>6 DEF RegisterCheck, InitLock, rcu_bp_init, rcu_bp_register,
         ReadLockLoad, ExitLock, rcu_bp_exit, ForkLockRegistry,
         rcu_bp_after_fork_parent, rcu_bp_after_fork_child, bat
    <3>2. PICK q : bgoto(t, q) /\ q \notin BpSyncPC
      BY <2>6 DEF RegisterCheck, InitLock, rcu_bp_init, rcu_bp_register,
         ReadLockLoad, ExitLock, rcu_bp_exit, ForkLockRegistry,
         rcu_bp_after_fork_parent, rcu_bp_after_fork_child
    <3>3. BpInGP' = BpInGP
      BY <1>2, <3>1, <3>2 DEF BpInGP, bgoto
    <3>4. bcs' = bcs /\ bpre' = bpre
      BY <2>6 DEF RegisterCheck, InitLock, rcu_bp_init, rcu_bp_register,
         ReadLockLoad, ExitLock, rcu_bp_exit, ForkLockRegistry,
         rcu_bp_after_fork_parent, rcu_bp_after_fork_child, bghosts
    <3> QED BY <1>1, <3>3, <3>4, BpInvisible
  <2>7. CASE \/ rcu_read_lock_bp(t) \/ Signal(t) \/ SignalReturn(t)
             \/ urcu_bp_thread_exit_notifier(t) \/ LibraryExit(t) \/ rcu_bp_before_fork(t)
    <3>1. bpc[t] \notin BpSyncPC
      BY <2>7 DEF rcu_read_lock_bp, Signal, SignalReturn,
         urcu_bp_thread_exit_notifier, LibraryExit, rcu_bp_before_fork, Calm,
         bat
    <3>2. PICK q : bgoto(t, q) /\ q \notin BpSyncPC
      <4>1. saved[t].pc \in BpSavedPC
        BY <1>2 DEF BpTypeOK
      <4> QED
        BY <2>7, <4>1 DEF rcu_read_lock_bp, Signal, SignalReturn,
           urcu_bp_thread_exit_notifier, LibraryExit, rcu_bp_before_fork,
           BpReadPC, BpExitPC, BpSavedPC
    <3>3. BpInGP' = BpInGP
      BY <1>2, <3>1, <3>2 DEF BpInGP, bgoto
    <3>4. bcs' = bcs /\ bpre' = bpre
      BY <2>7 DEF rcu_read_lock_bp, Signal, SignalReturn,
         urcu_bp_thread_exit_notifier, LibraryExit, rcu_bp_before_fork,
         bghosts
    <3> QED BY <1>1, <3>3, <3>4, BpInvisible
  <2>8. CASE \/ BpLockRegistry(t) \/ BpSplice(t) \/ BpUnlockRegistry(t) \/ BpRelockRegistry(t)
    <3>1. bpc[t] \in BpSyncPC
      BY <2>8 DEF BpLockRegistry, BpSplice, BpUnlockRegistry,
         BpRelockRegistry, bat
    <3>2. PICK q : bgoto(t, q) /\ q \in BpSyncPC
      BY <2>8 DEF BpLockRegistry, BpSplice, BpUnlockRegistry, BpRelockRegistry
    <3>3. BpInGP' = TRUE /\ BpInGP = TRUE
      BY <1>2, <3>1, <3>2 DEF BpInGP, bgoto
    <3>4. bcs' = bcs /\ bpre' = bpre
      BY <2>8 DEF BpLockRegistry, BpSplice, BpUnlockRegistry,
         BpRelockRegistry, bghosts
    <3> QED BY <1>1, <3>3, <3>4, BpInvisible
  <2>9. CASE (\E s \in bscan : BpScanReader(t, s)) \/ BpFlipPhase(t) \/ ThreadStart(t)
    <3>1. bpc' = bpc /\ bcs' = bcs /\ bpre' = bpre
      BY <2>9 DEF BpScanReader, BpFlipPhase, ThreadStart, bghosts
    <3>2. BpInGP' = BpInGP
      BY <3>1 DEF BpInGP
    <3> QED BY <1>1, <3>1, <3>2, BpInvisible
  <2> QED
    BY <1>4, <2>1, <2>2, <2>3, <2>4, <2>5, <2>6, <2>7, <2>8, <2>9 DEF BpStep,
       BpCall
<1> QED BY <1>3, <1>4 DEF BpNext

(* synchronize_rcu() of the bp flavor keeps the promise of GracePeriod: it *)
(* returns only when every section that ran when it was called has ended,  *)
(* whatever threads register, exit, handle signals or fork meanwhile.      *)
THEOREM BpRefinement == BpSpec => BpImplementsGracePeriod
<1>1. BpInit => BGP!GPInit
  <2> SUFFICES ASSUME BpInit PROVE BGP!GPInit
    OBVIOUS
  <2>1. BpInside = FALSE
    BY DEF BpInit, BpInside
  <2> QED BY <2>1 DEF BpInit, BGP!GPInit
<1> QED
  BY <1>1, BpStepRefines, BpIInvHolds, PTL DEF BpSpec,
     BpImplementsGracePeriod, BGP!GPSpec

=============================================================================
