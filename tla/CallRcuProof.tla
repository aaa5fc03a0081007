---------------------------- MODULE CallRcuProof ----------------------------
(***************************************************************************)
(* Proofs about module CallRcu: CIInv, with CSetting (see module           *)
(* CallRcuInvariant), is an inductive invariant of call_rcu(),             *)
(* rcu_barrier(), the creation and the freeing of crdps, and fork(); each  *)
(* property of the model follows from it.                                  *)
(*                                                                         *)
(* The lemmas come one per step of the model, after those they share:      *)
(* steps that leave the queues alone, steps that change the pointers, and  *)
(* steps that move callbacks or completions between queues and batches.    *)
(***************************************************************************)
EXTENDS CallRcuInvariant, FiniteSetTheorems, SequenceTheorems, TLAPS

(* Sequences: what is where in a queue, and what it holds, when an item is *)
(* appended.                                                               *)
LEMMA CrAppend ==
    ASSUME NEW T, NEW s \in Seq(T), NEW x \in T
    PROVE  /\ Append(s, x) \in Seq(T) /\ Len(s) \in Nat /\ DOMAIN s = 1 .. Len(s)
           /\ Len(Append(s, x)) = Len(s) + 1
           /\ DOMAIN Append(s, x) = 1 .. Len(s) + 1 /\ Append(s, x)[Len(s) + 1] = x
           /\ \A i \in 1 .. Len(s) : Append(s, x)[i] = s[i]
           /\ Range(Append(s, x)) = Range(s) \cup {x}
<1> DEFINE c == Append(s, x)
<1>1. /\ c \in Seq(T) /\ Len(s) \in Nat /\ DOMAIN s = 1 .. Len(s)
      /\ Len(c) = Len(s) + 1 /\ DOMAIN c = 1 .. Len(s) + 1
      /\ c[Len(s) + 1] = x /\ \A i \in 1 .. Len(s) : c[i] = s[i]
  OBVIOUS
<1> HIDE DEF c
<1>2. \A i \in DOMAIN c : c[i] \in Range(s) \cup {x}
  BY <1>1 DEF Range
<1>3. \A i \in DOMAIN s : s[i] \in Range(c)
  BY <1>1 DEF Range
<1>4. x \in Range(c)
  BY <1>1 DEF Range
<1>5. Range(c) = Range(s) \cup {x}
  BY <1>2, <1>3, <1>4 DEF Range
<1> QED BY <1>1, <1>5 DEF c

(* When the first item is taken off a sequence that is not empty.          *)
LEMMA CrTail ==
    ASSUME NEW T, NEW s \in Seq(T), s # << >>
    PROVE  /\ Tail(s) \in Seq(T) /\ Head(s) = s[1] /\ s[1] \in T /\ 1 \in DOMAIN s
           /\ Len(s) \in Nat \ {0} /\ DOMAIN s = 1 .. Len(s)
           /\ Len(Tail(s)) = Len(s) - 1 /\ DOMAIN Tail(s) = 1 .. Len(s) - 1
           /\ \A i \in 1 .. Len(s) - 1 : Tail(s)[i] = s[i + 1]
           /\ Range(s) = Range(Tail(s)) \cup {s[1]}
           /\ IsInjective(s) => IsInjective(Tail(s)) /\ s[1] \notin Range(Tail(s))
<1> DEFINE c == Tail(s)
<1>1. /\ c \in Seq(T) /\ Head(s) = s[1] /\ s[1] \in T /\ 1 \in DOMAIN s
      /\ Len(s) \in Nat \ {0} /\ DOMAIN s = 1 .. Len(s)
      /\ Len(c) = Len(s) - 1 /\ DOMAIN c = 1 .. Len(s) - 1
      /\ \A i \in 1 .. Len(s) - 1 : c[i] = s[i + 1]
  <2>1. Len(s) \in Nat \ {0} /\ DOMAIN s = 1 .. Len(s)
    OBVIOUS
  <2>2. c \in Seq(T) /\ Len(c) = Len(s) - 1
    BY <2>1
  <2>3. \A i \in 1 .. Len(s) - 1 : c[i] = s[i + 1]
    BY <2>1
  <2> QED BY <2>1, <2>2, <2>3
<1> HIDE DEF c
<1>2. \A i \in DOMAIN c : i + 1 \in DOMAIN s /\ c[i] = s[i + 1] /\ i \in Nat \ {0}
  BY <1>1
<1>3. ASSUME NEW i \in DOMAIN s PROVE s[i] \in Range(c) \cup {s[1]}
  <2>1. CASE i # 1
    <3>1. i - 1 \in DOMAIN c /\ (i - 1) + 1 = i
      BY <1>1, <2>1
    <3> QED BY <1>1, <3>1 DEF Range
  <2> QED BY <2>1
<1>4. Range(s) = Range(c) \cup {s[1]}
  BY <1>1, <1>2, <1>3 DEF Range
<1>5. ASSUME IsInjective(s), NEW i \in DOMAIN c, NEW j \in DOMAIN c, c[i] = c[j] PROVE i = j
  <2>1. i + 1 = j + 1
    BY <1>2, <1>5 DEF IsInjective
  <2> QED BY <1>2, <2>1
<1>6. ASSUME IsInjective(s), NEW i \in DOMAIN c PROVE c[i] # s[1]
  <2>1. i + 1 # 1 /\ 1 \in DOMAIN s
    BY <1>1, <1>2
  <2> QED BY <1>2, <1>6, <2>1 DEF IsInjective
<1>7. IsInjective(s) => IsInjective(c) /\ s[1] \notin Range(c)
  BY <1>5, <1>6 DEF IsInjective, Range
<1> QED BY <1>1, <1>4, <1>7 DEF c

(* When two sequences are joined.                                          *)
LEMMA CrConcat ==
    ASSUME NEW T, NEW s \in Seq(T), NEW u \in Seq(T)
    PROVE  /\ s \o u \in Seq(T) /\ Len(s) \in Nat /\ Len(u) \in Nat
           /\ DOMAIN s = 1 .. Len(s) /\ DOMAIN u = 1 .. Len(u)
           /\ DOMAIN (s \o u) = 1 .. Len(s) + Len(u)
           /\ \A i \in 1 .. Len(s) : (s \o u)[i] = s[i]
           /\ \A i \in 1 .. Len(u) : (s \o u)[Len(s) + i] = u[i]
           /\ Range(s \o u) = Range(s) \cup Range(u)
<1> DEFINE c == s \o u
<1>1. /\ c \in Seq(T) /\ Len(s) \in Nat /\ Len(u) \in Nat
      /\ DOMAIN s = 1 .. Len(s) /\ DOMAIN u = 1 .. Len(u)
      /\ DOMAIN c = 1 .. Len(s) + Len(u)
      /\ \A i \in 1 .. Len(s) : c[i] = s[i]
  OBVIOUS
<1>2. \A i \in 1 .. Len(u) : c[Len(s) + i] = u[i]
  <2>1. ASSUME NEW i \in 1 .. Len(u) PROVE c[Len(s) + i] = u[i]
    <3>1. Len(s) + i \in 1 .. Len(s) + Len(u) /\ Len(s) + i > Len(s) /\ (Len(s) + i) - Len(s) = i
      BY <1>1
    <3> QED BY <1>1, <3>1, ConcatProperties
  <2> QED BY <2>1
<1> HIDE DEF c
<1>3. ASSUME NEW i \in DOMAIN c PROVE c[i] \in Range(s) \cup Range(u)
  <2>1. CASE i <= Len(s)
    BY <1>1, <2>1 DEF Range
  <2>2. CASE i > Len(s)
    <3>1. i - Len(s) \in DOMAIN u /\ Len(s) + (i - Len(s)) = i
      BY <1>1, <2>2
    <3> QED BY <1>1, <1>2, <3>1 DEF Range
  <2> QED BY <1>1, <2>1, <2>2
<1>4. \A i \in DOMAIN s : s[i] \in Range(c)
  BY <1>1 DEF Range
<1>5. ASSUME NEW i \in DOMAIN u PROVE u[i] \in Range(c)
  <2>1. Len(s) + i \in DOMAIN c
    BY <1>1
  <2> QED BY <1>1, <1>2, <2>1 DEF Range
<1>6. Range(c) = Range(s) \cup Range(u)
  BY <1>3, <1>4, <1>5 DEF Range
<1> QED BY <1>1, <1>2, <1>6 DEF c

(* When an item is put in front, as a return point is on the stack of a    *)
(* thread.                                                                 *)
LEMMA CrCons ==
    ASSUME NEW T, NEW s \in Seq(T), NEW x \in T
    PROVE  /\ <<x>> \o s \in Seq(T) /\ <<x>> \o s # << >>
           /\ Head(<<x>> \o s) = x /\ Tail(<<x>> \o s) = s
           /\ Range(<<x>> \o s) = {x} \cup Range(s)
           /\ IsInjective(s) /\ x \notin Range(s) => IsInjective(<<x>> \o s)
<1> DEFINE c == <<x>> \o s
<1>1. /\ <<x>> \in Seq(T) /\ Len(<<x>>) = 1 /\ <<x>>[1] = x /\ Range(<<x>>) = {x}
  BY DEF Range
<1>2. /\ c \in Seq(T) /\ Len(s) \in Nat /\ DOMAIN s = 1 .. Len(s) /\ DOMAIN c = 1 .. 1 + Len(s)
      /\ Range(c) = {x} \cup Range(s)
      /\ \A i \in 1 .. 1 : c[i] = <<x>>[i]
      /\ \A i \in 1 .. Len(s) : c[1 + i] = s[i]
  <2> DEFINE o == <<x>>
  <2>1. Len(o) = 1 /\ Range(o) = {x}
    BY <1>1
  <2>a. o \in Seq(T) /\ s \in Seq(T)
    BY <1>1
  <2> HIDE DEF o
  <2>2. /\ o \o s \in Seq(T) /\ Len(s) \in Nat /\ DOMAIN s = 1 .. Len(s)
        /\ DOMAIN (o \o s) = 1 .. Len(o) + Len(s)
        /\ Range(o \o s) = Range(o) \cup Range(s)
        /\ \A i \in 1 .. Len(o) : (o \o s)[i] = o[i]
        /\ \A i \in 1 .. Len(s) : (o \o s)[Len(o) + i] = s[i]
    BY ONLY <2>a, CrConcat
  <2> QED BY <2>1, <2>2 DEF o
<1>3. c[1] = x /\ Len(c) = 1 + Len(s)
  <2>1. c[1] = x
    BY <1>1, <1>2
  <2>2. Len(c) = 1 + Len(s)
    BY <1>1, <1>2, ConcatProperties
  <2> QED BY <2>1, <2>2
<1> HIDE DEF c
<1>4. c # << >>
  BY <1>2
<1>5. Head(c) = x /\ Tail(c) \in Seq(T) /\ Len(Tail(c)) = Len(s)
      /\ \A i \in 1 .. Len(s) : Tail(c)[i] = c[i + 1]
  BY <1>2, <1>3, <1>4, CrTail
<1>6. \A i \in 1 .. Len(s) : Tail(c)[i] = s[i]
  BY <1>2, <1>5
<1>7. Tail(c) = s
  BY <1>5, <1>6, SeqEqual
<1>8. ASSUME IsInjective(s), x \notin Range(s), NEW i \in DOMAIN c, NEW j \in DOMAIN c, c[i] = c[j]
      PROVE  i = j
  <2>1. \A k \in DOMAIN c : k = 1 \/ (k - 1 \in DOMAIN s /\ c[k] = s[k - 1] /\ k \in Nat)
    <3>1. ASSUME NEW k \in DOMAIN c, k # 1 PROVE k - 1 \in DOMAIN s /\ 1 + (k - 1) = k /\ k \in Nat
      BY <1>2, <3>1
    <3> QED BY <1>2, <3>1
  <2>2. \A k \in DOMAIN s : s[k] # x
    BY <1>8 DEF Range
  <2>3. CASE i = 1
    BY <1>3, <1>8, <2>1, <2>2, <2>3
  <2>4. CASE j = 1
    BY <1>3, <1>8, <2>1, <2>2, <2>4
  <2>5. CASE i # 1 /\ j # 1
    <3>1. i - 1 = j - 1
      BY <1>8, <2>1, <2>5 DEF IsInjective
    <3> QED BY <2>1, <2>5, <3>1
  <2> QED BY <2>3, <2>4, <2>5
<1>9. IsInjective(s) /\ x \notin Range(s) => IsInjective(c)
  BY <1>8 DEF IsInjective
<1> QED BY <1>2, <1>4, <1>5, <1>7, <1>9 DEF c

(* cds_list_del() removes one crdp from a list that has each once, and     *)
(* keeps the others.                                                       *)
LEMMA CrWithout ==
    ASSUME NEW T, NEW s \in Seq(T), IsInjective(s), NEW x \in Range(s)
    PROVE  /\ Without(s, x) \in Seq(T) /\ IsInjective(Without(s, x))
           /\ Range(Without(s, x)) = Range(s) \ {x}
<1> DEFINE k == CHOOSE i \in DOMAIN s : s[i] = x
           a == SubSeq(s, 1, k - 1)
           b == SubSeq(s, k + 1, Len(s))
           c == a \o b
<1>1. k \in DOMAIN s /\ s[k] = x
  BY DEF Range
<1>2. Len(s) \in Nat /\ DOMAIN s = 1 .. Len(s) /\ k \in 1 .. Len(s)
  BY <1>1
<1> HIDE DEF k
<1>3. /\ a \in Seq(T) /\ Len(a) = k - 1 /\ \A i \in 1 .. k - 1 : a[i] = s[i]
  BY <1>2, SubSeqProperties
<1>4. /\ b \in Seq(T) /\ Len(b) = Len(s) - k /\ \A i \in 1 .. Len(s) - k : b[i] = s[k + i]
  <2>1. k + 1 \in Int /\ Len(s) \in Int /\ \A i \in k + 1 .. Len(s) : s[i] \in T
    BY <1>2
  <2>2. /\ b \in Seq(T)
        /\ Len(b) = IF k + 1 <= Len(s) THEN Len(s) - (k + 1) + 1 ELSE 0
        /\ \A i \in 1 .. Len(s) - (k + 1) + 1 : b[i] = s[(k + 1) + i - 1]
    BY <2>1, SubSeqProperties
  <2> HIDE DEF b
  <2>a. Len(b) = IF k + 1 <= Len(s) THEN Len(s) - (k + 1) + 1 ELSE 0
    BY ONLY <2>2
  <2>b. Len(s) \in Nat /\ k \in Nat /\ k <= Len(s)
    BY <1>2
  <2>3. Len(b) = Len(s) - k
    BY ONLY <2>a, <2>b
  <2>4. ASSUME NEW i \in 1 .. Len(s) - k PROVE b[i] = s[k + i]
    <3>1. i \in 1 .. Len(s) - (k + 1) + 1 /\ (k + 1) + i - 1 = k + i
      BY <1>2
    <3> QED BY <2>2, <3>1
  <2> QED BY <2>2, <2>3, <2>4
<1> HIDE DEF a, b
<1>5. /\ c \in Seq(T) /\ DOMAIN c = 1 .. Len(a) + Len(b)
      /\ \A i \in 1 .. Len(a) : c[i] = a[i]
      /\ \A i \in 1 .. Len(b) : c[Len(a) + i] = b[i]
  <2>1. a \in Seq(T) /\ b \in Seq(T)
    BY <1>3, <1>4
  <2> QED BY ONLY <2>1, CrConcat DEF c
<1> HIDE DEF c
<1>6. DOMAIN c = 1 .. Len(s) - 1 /\ \A i \in 1 .. k - 1 : c[i] = s[i]
  BY <1>2, <1>3, <1>4, <1>5
<1>7. ASSUME NEW i \in k .. Len(s) - 1 PROVE c[i] = s[i + 1]
  <2>1. i - (k - 1) \in 1 .. Len(b) /\ Len(a) + (i - (k - 1)) = i /\ k + (i - (k - 1)) = i + 1
    BY <1>2, <1>3, <1>4
  <2> QED BY <1>4, <1>5, <2>1
<1>8. \A i \in DOMAIN c : \/ i < k /\ i \in DOMAIN s /\ c[i] = s[i]
                          \/ i >= k /\ i + 1 \in DOMAIN s /\ c[i] = s[i + 1]
  BY <1>2, <1>6, <1>7
<1>9. ASSUME NEW i \in DOMAIN c, NEW j \in DOMAIN c, c[i] = c[j] PROVE i = j
  <2>1. i \in Int /\ j \in Int /\ k \in Int
    BY <1>2, <1>6
  <2> QED BY <1>8, <1>9, <2>1 DEF IsInjective
<1>10. \A i \in DOMAIN c : c[i] # x
  <2>1. \A i \in DOMAIN c : i \in Int /\ k \in Int
    BY <1>2, <1>6
  <2> QED BY <1>1, <1>8, <2>1 DEF IsInjective
<1>11. ASSUME NEW i \in DOMAIN s, s[i] # x PROVE s[i] \in Range(c)
  <2>1. CASE i < k
    <3>1. i \in DOMAIN c
      BY <1>2, <1>6, <2>1
    <3> QED BY <1>2, <1>6, <2>1, <3>1 DEF Range
  <2>2. CASE i > k
    <3>1. i - 1 \in k .. Len(s) - 1 /\ i - 1 \in DOMAIN c /\ (i - 1) + 1 = i
      BY <1>2, <1>6, <2>2
    <3>2. c[i - 1] = s[i]
      BY <1>7, <3>1
    <3> QED BY <3>1, <3>2 DEF Range
  <2> QED BY <1>1, <1>2, <1>11, <2>1, <2>2
<1>12. Range(c) = Range(s) \ {x}
  BY <1>8, <1>10, <1>11 DEF Range
<1>13. IsInjective(c)
  BY <1>9 DEF IsInjective
<1> QED BY <1>5, <1>12, <1>13 DEF Without, RemoveAt, c, a, b, k

(* The empty sequence.                                                     *)
LEMMA CrEmpty ==
    ASSUME NEW T
    PROVE  /\ << >> \in Seq(T) /\ Range(<< >>) = {} /\ IsInjective(<< >>)
           /\ DOMAIN << >> = {} /\ Len(<< >>) = 0
BY DEF Range, IsInjective

(* The items of a sequence, and what an empty range says of it.            *)
LEMMA CrSeq ==
    ASSUME NEW T, NEW s \in Seq(T)
    PROVE  /\ Len(s) \in Nat /\ DOMAIN s = 1 .. Len(s) /\ Range(s) \subseteq T
           /\ Range(s) = {} => s = << >>
           /\ \A i \in DOMAIN s : s[i] \in T
BY DEF Range

-----------------------------------------------------------------------------
(* Steps that leave the queues, the pointers and the life of crdps as they *)
(* are.                                                                    *)

(* What such a step of one thread leaves true of a thread u that it does   *)
(* not change.                                                             *)
LEMMA CKeeps ==
    ASSUME CIInv, UNCHANGED <<default_crd, cpu_crd, thread_crd, living>>, CStill,
           \A v \in CThreads : CWaits(v),
           NEW u \in CThreads, CSame(u), call_rcu_mutex' = u <=> call_rcu_mutex = u,
           CFlagsKept(u)
    PROVE  CPlaced(u)' /\ CUsed(u)' /\ CStopping(u)' /\ CChildOf(u)'
<1>0. /\ CTypeOK /\ CPlaced(u) /\ CUsed(u) /\ CStopping(u) /\ CChildOf(u) /\ CList
      /\ \A v \in CThreads : CTakes(v) => CHasTaken(v)
      /\ default_crd # NULL => crd[default_crd].live
  BY DEF CIInv, CThreadsPlaced, CUses, CWorkers, CChild, CRoles
<1>1. CInner(u)' = CInner(u) /\ CRest(u)' = CRest(u)
  BY DEF CSame, CInner, CRest, CInSub
<1>2. CInChild(u)' <=> CInChild(u)
  BY <1>1 DEF CInChild
<1>3. CPlaced(u)'
  BY <1>0, <1>1 DEF CSame, CPlaced
<1>t. u \in living => cth[u] \in CThread /\ (cth[u].f \in Crdps \cup {NULL}) /\ cth[u].w \in Crdps \cup {NULL}
  BY <1>0 DEF CTypeOK, CThread
<1>4. CStopping(u)'
  <2>1. CInner(u) \in {"leftover", "migrate", "unlink"} => cth[u].f \in Crdps
    <3>1. cth[u].f \in Crdps \cup {NULL}
      BY <1>0 DEF CTypeOK, CThread
    <3> QED BY <1>0, <3>1 DEF CTakes, CHasTaken, CFreeing
  <2>2. CInner(u)' \in {"leftover", "migrate", "unlink"} => crd'[cth'[u].f].wpc = "none"
    BY <1>0, <1>1, <2>1 DEF CSame, CStopping, CStill
  <2>3. CInner(u)' = "fork_pause" =>
          \A c \in Crdps : crd'[c].live /\ c \notin Range(cth'[u].todo) => "PAUSE" \in crd'[c].flags
    BY <1>0, <1>1 DEF CSame, CStopping, CStill, CFlagsKept
  <2>4. CInner(u)' = "fork" =>
          \A c \in Crdps : crd'[c].live => "PAUSE" \in crd'[c].flags /\ "PAUSED" \in crd'[c].flags
    BY <1>0, <1>1 DEF CSame, CStopping, CStill, CFlagsKept
  <2> QED BY <2>2, <2>3, <2>4 DEF CStopping
<1>5. CChildOf(u)'
  <2>1. Range(cth[u].todo) \subseteq Crdps
    <3>1. cth[u].todo \in Seq(Crdps)
      BY <1>0 DEF CTypeOK, CThread
    <3> QED BY <3>1, CrSeq
  <2> QED BY <1>0, <1>1, <1>2, <2>1 DEF CSame, CChildOf, CStill
<1>6. CUsed(u)'
  <2>1. Range(cth[u].todo) \subseteq Crdps
    <3>1. cth[u].todo \in Seq(Crdps)
      BY <1>0 DEF CTypeOK, CThread
    <3> QED BY <3>1, CrSeq
  <2>2. cth[u].w \in Crdps \cup {NULL}
    BY <1>0 DEF CTypeOK, CThread
  <2>3. ASSUME NEW v \in CThreads, CInner(u) \in CCalling,
               cth[v].f = cth[u].w,
               CInner(v) = "synchronize" \/ (CInner(v) = "grace" /\ u \in cth[v].tpre)
        PROVE  /\ cth'[v].f = cth'[u].w
               /\ CInner(v)' = "synchronize" \/ (CInner(v)' = "grace" /\ u \in cth'[v].tpre)
    <3>1. u \in Reading
      BY <1>0, <2>3, CallRcuAssumption DEF CPlaced, Reading, NewThread, CInner, CInSub, CCalling, CWaking
    <3> QED BY <1>1, <2>3, <3>1 DEF CWaits, CSame
  <2>4. cth'[u].pc \in CWaking \cup {"enqueue"} =>
          /\ cth'[u].w # NULL /\ crd'[cth'[u].w].live
          /\ \/ cth'[u].w = default_crd
             \/ CInner(u)' = "stopping" /\ cth'[u].w = cth'[u].f
             \/ CInner(u)' \in {"bar_queue", "fork_pause"}
             \/ CInner(u)' \in CCalling /\ cth'[u].w \in {thread_crd[u], cpu_crd}
             \/ /\ CInner(u)' \in CCalling
                /\ \E v \in CThreads :
                      /\ cth'[v].f = cth'[u].w
                      /\ CInner(v)' = "synchronize" \/ (CInner(v)' = "grace" /\ u \in cth'[v].tpre)
          /\ CInner(u)' = "unlink" => cth'[u].w = default_crd
    BY <1>0, <1>1, <2>2, <2>3 DEF CSame, CUsed, CStill
  <2>5. cth'[u].pc = "migrate" => default_crd # NULL /\ cth'[u].w = default_crd
    BY <1>0 DEF CSame, CUsed
  <2>6. CInner(u)' \in {"bar_queue", "fork_pause"} =>
          IsInjective(cth'[u].todo) /\ \A c \in Range(cth'[u].todo) : crd'[c].live
    BY <1>0, <1>1, <2>1 DEF CSame, CUsed, CStill
  <2> QED BY <2>4, <2>5, <2>6 DEF CUsed
<1> QED BY <1>3, <1>4, <1>5, <1>6

(* The completions of a barrier stay where they are.                       *)
LEMMA CTokensKept ==
    ASSUME CIInv, CSameQueues, NEW u \in CThreads, CToQueue(u)' = CToQueue(u)
    PROVE  CTokens(u)' = CTokens(u)
BY DEF CSameQueues, CTokens, CIsToken

(* If queues and batches stay the same, callbacks are still each in one    *)
(* place, and completions are still counted right.                         *)
LEMMA CQuietContents ==
    ASSUME CIInv, CSameQueues, UNCHANGED <<living, pending, owed>>, completion' \in [CThreads -> CCompletion],
           \A u \in CThreads : CAllowed(u),
           \A u \in CThreads : \A v \in CThreads : u # v /\ cth'[u].h # NULL /\ cth'[u].h = cth'[v].h =>
               cth'[u].h = cth[u].h /\ cth'[v].h = cth[v].h
    PROVE  CCallbacks' /\ CRefs' /\ CCover'
<1>0. CTypeOK /\ CCallbacks /\ CRefs /\ CCover
  BY DEF CIInv
<1>1. \A h \in Heads, c \in Crdps : CIn(h, c)' <=> CIn(h, c)
  BY DEF CSameQueues, CIn
<1>2. CCallbacks'
  <2>1. \A c \in Crdps : CSound(c)'
    BY <1>0 DEF CSameQueues, CCallbacks, CSound, CHeadOnce
  <2>2. \A h \in Heads : h \in pending' <=> \E c \in Crdps : CIn(h, c)'
    BY <1>0, <1>1 DEF CCallbacks
  <2>3. \A h \in Heads : \A c, d \in Crdps : CIn(h, c)' /\ CIn(h, d)' => c = d
    BY <1>0, <1>1 DEF CCallbacks
  <2>4. ASSUME NEW t \in CThreads, cth'[t].h # NULL
        PROVE  cth'[t].h \notin pending' /\ \A u \in CThreads : u # t => cth'[u].h # cth'[t].h
    BY <1>0, <2>4 DEF CAllowed, CCallbacks
  <2>5. ASSUME NEW t \in CThreads, CInner(t)' = "unlink"
        PROVE  \A h \in Heads : h \notin Range(crd'[cth'[t].f].q)
    <3>1. CASE CInner(t) = "unlink" /\ cth'[t].f = cth[t].f
      <4>1. cth[t].f \in Crdps
        BY <3>1 DEF CIInv, CTypeOK, CThread, CRoles, CTakes, CFreeing, CHasTaken
      <4> QED BY <1>0, <3>1, <4>1 DEF CCallbacks, CSameQueues
    <3> QED BY <2>5, <3>1 DEF CAllowed
  <2> QED BY <2>1, <2>2, <2>3, <2>4, <2>5 DEF CCallbacks
<1>3. \A u \in CThreads : CTokens(u)' = CTokens(u)
  BY CTokensKept DEF CAllowed
<1>4. ASSUME NEW u \in CThreads PROVE CReferred(u)'
  <2>1. completion[u].ref \in Int /\ completion'[u].ref \in Int
    BY <1>0 DEF CTypeOK, CCompletion
  <2>2. CReferred(u)
    BY <1>0 DEF CRefs
  <2>3. Cardinality(CTokens(u)) \in Nat
    BY <2>2, FS_CardinalityType DEF CReferred
  <2> QED BY <1>3, <2>1, <2>2, <2>3 DEF CReferred, CAllowed
<1>5. ASSUME NEW u \in CThreads PROVE CCovers(u)'
  <2>0. CASE CInner(u)' \notin CBarrier
    BY <2>0 DEF CCovers
  <2>1. CASE CInner(u)' \in CBarrier
    <3>1. CCovers(u) /\ CInner(u) \in CBarrier
      BY <1>0, <2>1 DEF CCover, CAllowed
    <3>2. CWaited(u)' \subseteq CWaited(u)
      <4>1. \A c \in Crdps : CDoomed(c) => CDoomed(c)'
        BY DEF CDoomed, CAllowed
      <4>2. \A k, c, i : c \in Crdps /\ CCounts(k, c, i)' => CCounts(k, c, i)
        BY <4>1 DEF CCounts, CSameQueues
      <4> QED BY <1>3, <4>2 DEF CWaited, CTokens
    <3>3. IsFiniteSet(CWaited(u))
      BY <1>0, FS_Subset DEF CRefs, CReferred, CWaited
    <3>4. /\ Cardinality(CWaited(u)') <= Cardinality(CWaited(u))
          /\ Cardinality(CWaited(u)') \in Nat /\ Cardinality(CWaited(u)) \in Nat
      BY <3>2, <3>3, FS_Subset, FS_CardinalityType
    <3>5. completion[u].count \in Int /\ completion'[u].count = completion[u].count
      BY <1>0 DEF CTypeOK, CCompletion, CAllowed
    <3>6. \A h \in Heads : CCovered(u, h) => CCovered(u, h)'
      <4>1. \A h \in Heads, c \in Crdps : CCoveredIn(u, h, c) => CCoveredIn(u, h, c)'
        BY <1>1 DEF CCoveredIn, CSameQueues, CBehind, CAllowed
      <4> QED BY <4>1 DEF CCovered
    <3>7. owed[u] \subseteq Heads
      BY <1>0 DEF CTypeOK
    <3>8. owed'[u] \subseteq pending' /\ (cth'[u].pc = "bar_return" => owed'[u] = {})
      BY <3>1 DEF CCovers, CAllowed
    <3>9. /\ completion'[u].count >= Cardinality(CWaited(u)')
          /\ (\A h \in owed'[u] : CCovered(u, h)') \/ completion'[u].count >= Cardinality(CWaited(u)') + 1
      BY <3>1, <3>4, <3>5, <3>6, <3>7 DEF CCovers
    <3> QED BY <3>8, <3>9 DEF CCovers
  <2> QED BY <2>0, <2>1
<1> QED BY <1>2, <1>4, <1>5 DEF CRefs, CCover

(* If crdps stay in place and no thread takes another one, each still has  *)
(* its role.                                                               *)
LEMMA CQuietRoles ==
    ASSUME CIInv, UNCHANGED <<call_rcu_data_list, default_crd, cpu_crd, thread_crd, living>>, CStill,
           \A u \in CThreads : CTakes(u)' => CTakes(u) /\ cth'[u].f = cth[u].f
    PROVE  CList' /\ CRoles'
<1>0. CTypeOK /\ CList /\ CRoles
  BY DEF CIInv
<1>1. CList'
  BY <1>0 DEF CList, CStill
<1>2. \A t \in living : COwns(t)'
  <2>1. \A t \in living : thread_crd[t] \in Crdps \cup {NULL}
    BY <1>0 DEF CTypeOK
  <2> QED BY <1>0, <2>1 DEF CRoles, COwns, CStill
<1>3. \A t \in CThreads : CTakes(t)' => CHasTaken(t)'
  <2>1. \A t \in CThreads : cth[t].f \in Crdps \cup {NULL}
    BY <1>0 DEF CTypeOK, CThread
  <2> QED BY <1>0, <2>1 DEF CRoles, CHasTaken, CStill
<1>4. /\ default_crd' # NULL => crd'[default_crd'].live
      /\ cpu_crd' # NULL => crd'[cpu_crd'].live /\ cpu_crd' # default_crd'
  <2>1. default_crd \in Crdps \cup {NULL} /\ cpu_crd \in Crdps \cup {NULL}
    BY <1>0 DEF CTypeOK
  <2> QED BY <1>0, <2>1 DEF CRoles, CStill
<1> QED BY <1>1, <1>2, <1>3, <1>4 DEF CRoles

(* If no batch changes, callbacks wait for the sections they waited for.   *)
LEMMA CHoldsKept ==
    ASSUME CIInv, \A c \in Crdps : crd'[c].batch = crd[c].batch, UNCHANGED hold, Reading \subseteq Reading',
           \A c \in Crdps :
               \/ crd'[c].wpc = crd[c].wpc /\ crd'[c].wpre = crd[c].wpre
               \/ crd'[c].wpc \notin {"grace", "run"} \cup CComplete
               \/ crd'[c].wpc \in {"run"} \cup CComplete /\ crd[c].wpc \in {"run"} \cup CComplete
    PROVE  CHolds'
BY DEF CIInv, CHolds, CHeldIn

(* A thread moves on.                                                      *)
LEMMA CMove ==
    ASSUME CIInv, CTypeOK', NEW t \in living,
           UNCHANGED <<call_rcu_data_list, default_crd, cpu_crd, thread_crd, living, pending, owed>>,
           CQuietCrdps, \A c \in Crdps : CWorking(c)', CHolds',
           \A u \in CThreads : u # t =>
               /\ CSame(u)
               /\ \A v \in cth[u].tpre : v \in cth'[u].tpre \/ CInner(v)' \notin CCalling
               /\ completion'[u].count = completion[u].count /\ completion'[u].ref = completion[u].ref
               /\ call_rcu_mutex' = u <=> call_rcu_mutex = u
               /\ CFlagsKept(u),
           CStep(t), CWaits(t), CPlaced(t)', CUsed(t)', CStopping(t)', CChildOf(t)'
    PROVE  CIInv'
<1>0. CStill
  BY DEF CQuietCrdps, CStill
<1>1. ASSUME NEW u \in CThreads, u # t PROVE CInner(u)' = CInner(u) /\ CTakes(u)' = CTakes(u)
  BY <1>1 DEF CSame, CInner, CInSub, CTakes
<1>2. \A v \in CThreads : CWaits(v)
  BY <1>1 DEF CWaits, CSame
<1>3. \A u \in CThreads : CPlaced(u)' /\ CUsed(u)' /\ CStopping(u)' /\ CChildOf(u)'
  BY <1>0, <1>2, CKeeps
<1>4. \A u \in CThreads : CStep(u)
  <2>1. ASSUME NEW u \in CThreads, u # t PROVE CStep(u)
    <3>1. CToQueue(u)' = CToQueue(u)
      BY <1>1, <2>1 DEF CToQueue, CSame
    <3> QED BY <1>1, <2>1, <3>1 DEF CStep, CAllowed, CSame
  <2> QED BY <2>1
<1>5. CCallbacks' /\ CRefs' /\ CCover'
  <2>1. CSameQueues
    BY DEF CSameQueues, CQuietCrdps
  <2>2. completion' \in [CThreads -> CCompletion]
    BY DEF CTypeOK
  <2>3. ASSUME NEW u \in CThreads, NEW v \in CThreads, u # v, cth'[u].h # NULL, cth'[u].h = cth'[v].h
        PROVE  cth'[u].h = cth[u].h /\ cth'[v].h = cth[v].h
    <3>1. CASE u = t
      BY <2>3, <3>1, <1>4 DEF CSame, CStep, CAllowed
    <3>2. CASE v = t
      BY <2>3, <3>2, <1>4 DEF CSame, CStep, CAllowed
    <3>3. CASE u # t /\ v # t
      BY <3>3 DEF CSame
    <3> QED BY <3>1, <3>2, <3>3
  <2> QED BY <1>4, <2>1, <2>2, <2>3, CQuietContents DEF CStep
<1>6. CList' /\ CRoles'
  BY <1>0, <1>4, CQuietRoles DEF CStep, CAllowed
<1> QED BY <1>3, <1>5, <1>6 DEF CIInv, CThreadsPlaced, CChild, CUses, CWorkers

(* The worker of a crdp moves on.                                          *)
LEMMA CWork ==
    ASSUME CIInv, CTypeOK',
           UNCHANGED <<call_rcu_data_list, default_crd, cpu_crd, thread_crd, living, pending, owed,
                       call_rcu_mutex, cth>>,
           CQuietCrdps, \A c \in Crdps : CWorking(c)', CHolds',
           \A u \in CThreads :
               completion'[u].count = completion[u].count /\ completion'[u].ref = completion[u].ref,
           \A c \in Crdps : \/ crd[c].flags \subseteq crd'[c].flags
                            \/ "PAUSE" \notin crd[c].flags /\ crd[c].flags \subseteq crd'[c].flags \cup {"PAUSED"}
    PROVE  CIInv'
<1>0. CStill
  BY DEF CQuietCrdps, CStill
<1>1. \A u \in CThreads : CInner(u)' = CInner(u) /\ CTakes(u)' = CTakes(u) /\ CToQueue(u)' = CToQueue(u)
  BY DEF CInner, CInSub, CTakes, CToQueue
<1>2. \A v \in CThreads : CWaits(v)
  BY <1>1 DEF CWaits
<1>3. ASSUME NEW u \in CThreads
      PROVE  CPlaced(u)' /\ CUsed(u)' /\ CChildOf(u)' /\ CStopping(u)'
  <2>1. CSame(u)
    BY DEF CSame
  <2>2. CFlagsKept(u)
    <3>1. CStopping(u)
      BY DEF CIInv, CWorkers
    <3>2. ASSUME NEW c \in Crdps, CInner(u) = "fork", "PAUSED" \in crd[c].flags PROVE "PAUSED" \in crd'[c].flags
      <4>1. CASE crd[c].live
        BY <3>1, <3>2, <4>1 DEF CStopping
      <4>2. CASE ~ crd[c].live
        BY <3>2, <4>2 DEF CQuietCrdps
      <4> QED BY <4>1, <4>2
    <3> QED BY <3>2 DEF CFlagsKept
  <2> QED BY <1>0, <1>2, <2>1, <2>2, CKeeps
<1>4. \A u \in CThreads : CStep(u)
  BY <1>1 DEF CStep, CAllowed
<1>5. CCallbacks' /\ CRefs' /\ CCover'
  <2>1. CSameQueues
    BY DEF CSameQueues, CQuietCrdps
  <2>2. completion' \in [CThreads -> CCompletion]
    BY DEF CTypeOK
  <2> QED BY <1>4, <2>1, <2>2, CQuietContents DEF CStep
<1>6. CList' /\ CRoles'
  BY <1>0, <1>1, CQuietRoles
<1> QED BY <1>3, <1>5, <1>6 DEF CIInv, CThreadsPlaced, CChild, CUses, CWorkers

(* The type invariant, for steps that leave the pointers and the ghosts    *)
(* alone.                                                                  *)
LEMMA CTyped ==
    ASSUME CTypeOK, crd' \in [Crdps -> CCrdp], cth' \in [CThreads -> CThread],
           completion' \in [CThreads -> CCompletion], call_rcu_mutex' \in CThreads \cup {NULL},
           UNCHANGED <<cpointers, cprocess, cghosts>>
    PROVE  CTypeOK'
<1>1. UNCHANGED <<call_rcu_data_list, default_crd, cpu_crd, thread_crd, living, cforks, pending, hold, owed>>
  BY DEF cpointers, cprocess, cghosts
<1> QED BY <1>1 DEF CTypeOK

(* A step of the worker of c that leaves its queue and its batch alone.    *)
LEMMA CWorkOne ==
    ASSUME CIInv, NEW c \in Crdps, NEW r \in CCrdp, crd' = [crd EXCEPT ![c] = r],
           UNCHANGED <<cpointers, call_rcu_mutex, cth, cprocess, cghosts>>,
           completion' \in [CThreads -> CCompletion],
           \A u \in CThreads :
               completion'[u].count = completion[u].count /\ completion'[u].ref = completion[u].ref,
           crd[c].live /\ crd[c].wpc # "none",
           r.live /\ r.q = crd[c].q /\ r.batch = crd[c].batch,
           r.wpc \in CComplete <=> crd[c].wpc \in CComplete,
           r.batch # << >> => r.wpc \in CBatchPC,
           "PAUSED" \in r.flags => r.wpc \in {"paused", "none"},
           "STOPPED" \in r.flags => r.wpc = "none",
           \/ r.wpc = crd[c].wpc /\ r.wpre = crd[c].wpre
           \/ r.wpc \notin {"grace", "run"} \cup CComplete
           \/ r.wpc \in {"run"} \cup CComplete /\ crd[c].wpc \in {"run"} \cup CComplete
           \/ r.wpc = "grace" /\ r.wpre = Reading
           \/ r.wpc = "run" /\ crd[c].wpc = "grace" /\ crd[c].wpre = {},
           \/ crd[c].flags \subseteq r.flags
           \/ "PAUSE" \notin crd[c].flags /\ crd[c].flags \subseteq r.flags \cup {"PAUSED"}
    PROVE  CIInv'
<1>0. CTypeOK /\ CWorkers /\ CHolds
  BY DEF CIInv
<1>1. crd \in [Crdps -> CCrdp]
  BY <1>0 DEF CTypeOK
<1>2. crd'[c] = r /\ \A d \in Crdps : d # c => crd'[d] = crd[d]
  BY <1>1
<1>3. CTypeOK'
  <2>1. crd' \in [Crdps -> CCrdp]
    BY <1>1
  <2>2. cth' \in [CThreads -> CThread] /\ call_rcu_mutex' \in CThreads \cup {NULL}
    BY <1>0 DEF CTypeOK
  <2> QED BY <1>0, <2>1, <2>2, CTyped
<1>4. CQuietCrdps
  <2>1. crd[c] \in CCrdp
    BY <1>1
  <2>2. r.live = crd[c].live
    BY <2>1 DEF CCrdp
  <2> QED BY <1>2, <2>2 DEF CQuietCrdps
<1>5. \A d \in Crdps : CWorking(d)'
  BY <1>0, <1>2 DEF CWorkers, CWorking
<1>6. CHolds'
  <2>1. Reading' = Reading
    BY DEF Reading, cprocess
  <2>2. \A h \in Heads : hold'[h] \subseteq Reading'
    BY <1>0, <2>1 DEF CHolds, cghosts
  <2>3. ASSUME NEW d \in Crdps PROVE CHeldIn(d)'
    <3>1. CASE d # c
      BY <1>0, <1>2, <3>1 DEF CHolds, CHeldIn, cghosts
    <3>2. CASE d = c
      BY <1>0, <1>2, <2>1, <2>2, <3>2 DEF CHolds, CHeldIn, cghosts, CComplete
    <3> QED BY <3>1, <3>2
  <2> QED BY <2>2, <2>3 DEF CHolds
<1>7. \A d \in Crdps : \/ crd[d].flags \subseteq crd'[d].flags
                       \/ "PAUSE" \notin crd[d].flags /\ crd[d].flags \subseteq crd'[d].flags \cup {"PAUSED"}
  BY <1>2
<1> QED BY <1>3, <1>4, <1>5, <1>6, <1>7, CWork DEF cpointers, cprocess, cghosts

(* uatomic_dec() on a futex yields an integer.                             *)
LEMMA CDecType == \A z \in Int : dec(z) \in Int
BY CallRcuAssumption DEF dec

(* Steps of the worker that leave its queue and its batch alone.           *)
LEMMA CWorkerQuiet ==
    ASSUME CIInv, NEW c \in Crdps,
           \/ call_rcu_thread(c) \/ CPause(c) \/ CResume(c) \/ CSynchronize(c) \/ CGracePeriodEnds(c)
           \/ call_rcu_completion_wake_up(c) \/ CBatchDone(c) \/ CStopTest(c) \/ call_rcu_wait(c)
           \/ CFutexWait(c) \/ CDecrement(c) \/ CStop(c) \/ CStopped(c)
    PROVE  CIInv'
<1>0. CTypeOK /\ CWorking(c)
  BY DEF CIInv, CWorkers
<1>1. crd[c] \in CCrdp /\ crd \in [Crdps -> CCrdp]
  BY <1>0 DEF CTypeOK
<1>2. wquiet => /\ UNCHANGED <<cpointers, call_rcu_mutex, cth, cprocess, cghosts>>
                /\ completion' \in [CThreads -> CCompletion]
                /\ \A u \in CThreads : completion'[u].count = completion[u].count /\ completion'[u].ref = completion[u].ref
  BY <1>0 DEF wquiet, CTypeOK
<1>3. Reading \subseteq CThreads
  BY <1>0 DEF Reading, CTypeOK
<1> USE DEF CBatchPC, CComplete

<1>4. CASE CPause(c) /\ "PAUSE" \in crd[c].flags
  <2> DEFINE r == [crd[c] EXCEPT !.flags = @ \cup {"PAUSED"}, !.wpc = "paused"]
  <2>1. wat(c, "top") /\ crd' = [crd EXCEPT ![c] = r] /\ wquiet
    BY <1>4 DEF CPause, worker, wgo
  <2>2. r \in CCrdp
    BY <1>1, <1>3 DEF CCrdp, CWorkerPC, CFlags, Waited
  <2>3. /\ r.live = crd[c].live /\ r.q = crd[c].q /\ r.batch = crd[c].batch
        /\ r.wpc = "paused"
        /\ r.flags = crd[c].flags \cup {"PAUSED"} /\ r.wpre = crd[c].wpre
    BY <1>1 DEF CCrdp, Waited
  <2>4. crd[c].wpc = "top"
    BY <2>1 DEF wat
  <2> HIDE DEF r
  <2> QED BY <1>0, <1>1, <1>2, <2>1, <2>2, <2>3, <2>4, CWorkOne DEF CWorking, wat
<1>5. CASE CPause(c) /\ "PAUSE" \notin crd[c].flags
  <2> DEFINE r == [crd[c] EXCEPT !.wpc = "splice"]
  <2>1. wat(c, "top") /\ crd' = [crd EXCEPT ![c] = r] /\ wquiet
    BY <1>5 DEF CPause, worker, wgo
  <2>2. r \in CCrdp
    BY <1>1, <1>3 DEF CCrdp, CWorkerPC, CFlags, Waited
  <2>3. /\ r.live = crd[c].live /\ r.q = crd[c].q /\ r.batch = crd[c].batch
        /\ r.wpc = "splice"
        /\ r.flags = crd[c].flags /\ r.wpre = crd[c].wpre
    BY <1>1 DEF CCrdp, Waited
  <2>4. crd[c].wpc = "top"
    BY <2>1 DEF wat
  <2> HIDE DEF r
  <2> QED BY <1>0, <1>1, <1>2, <2>1, <2>2, <2>3, <2>4, CWorkOne DEF CWorking, wat
<1>6. CASE call_rcu_thread(c)
  <2> DEFINE r == [crd[c] EXCEPT !.futex = IF crd[c].rt THEN @ ELSE dec(@), !.wpc = "top"]
  <2>1. wat(c, "start") /\ crd' = [crd EXCEPT ![c] = r] /\ wquiet
    BY <1>6 DEF call_rcu_thread, worker, wgo
  <2>2. r \in CCrdp
    <3>1. crd[c].futex \in Int /\ (IF crd[c].rt THEN crd[c].futex ELSE dec(crd[c].futex)) \in Int
      BY <1>1, CDecType DEF CCrdp
    <3>2. \A z \in Int : [crd[c] EXCEPT !.futex = z, !.wpc = "top"] \in CCrdp
      BY <1>1 DEF CCrdp, CWorkerPC
    <3> QED BY <3>1, <3>2
  <2>3. /\ r.live = crd[c].live /\ r.q = crd[c].q /\ r.batch = crd[c].batch
        /\ r.wpc = "top"
        /\ r.flags = crd[c].flags /\ r.wpre = crd[c].wpre
    BY <1>1 DEF CCrdp, Waited
  <2> HIDE DEF r
  <2> QED BY <1>0, <1>1, <1>2, <2>1, <2>2, <2>3, CWorkOne DEF CWorking, wat
<1>7. CASE CResume(c)
  <2> DEFINE r == [crd[c] EXCEPT !.flags = @ \ {"PAUSED"}, !.wpc = "splice"]
  <2>1. wat(c, "paused") /\ crd' = [crd EXCEPT ![c] = r] /\ wquiet
    BY <1>7 DEF CResume, worker, wgo
  <2>2. r \in CCrdp
    BY <1>1, <1>3 DEF CCrdp, CWorkerPC, CFlags, Waited
  <2>3. /\ r.live = crd[c].live /\ r.q = crd[c].q /\ r.batch = crd[c].batch
        /\ r.wpc = "splice"
        /\ r.flags = crd[c].flags \ {"PAUSED"} /\ r.wpre = crd[c].wpre
    BY <1>1 DEF CCrdp, Waited
  <2>4. "PAUSE" \notin crd[c].flags
    BY <1>7 DEF CResume
  <2> HIDE DEF r
  <2> QED BY <1>0, <1>1, <1>2, <2>1, <2>2, <2>3, <2>4, CWorkOne DEF CWorking, wat
<1>8. CASE CSynchronize(c)
  <2> DEFINE r == [crd[c] EXCEPT !.wpre = Waited, !.wpc = "grace"]
  <2>1. wat(c, "synchronize") /\ crd' = [crd EXCEPT ![c] = r] /\ wquiet
    BY <1>8 DEF CSynchronize, worker, wgo
  <2>2. r \in CCrdp
    BY <1>1, <1>3 DEF CCrdp, CWorkerPC, CFlags, Waited
  <2>3. /\ r.live = crd[c].live /\ r.q = crd[c].q /\ r.batch = crd[c].batch
        /\ r.wpc = "grace"
        /\ r.flags = crd[c].flags /\ r.wpre = Reading
    BY <1>1 DEF CCrdp, Waited
  <2> HIDE DEF r
  <2> QED BY <1>0, <1>1, <1>2, <2>1, <2>2, <2>3, CWorkOne DEF CWorking, wat
<1>9. CASE CGracePeriodEnds(c)
  <2> DEFINE r == [crd[c] EXCEPT !.wpc = "run"]
  <2>1. wat(c, "grace") /\ crd' = [crd EXCEPT ![c] = r] /\ wquiet
    BY <1>9 DEF CGracePeriodEnds, worker, wgo
  <2>2. r \in CCrdp
    BY <1>1, <1>3 DEF CCrdp, CWorkerPC, CFlags, Waited
  <2>3. /\ r.live = crd[c].live /\ r.q = crd[c].q /\ r.batch = crd[c].batch
        /\ r.wpc = "run"
        /\ r.flags = crd[c].flags /\ r.wpre = crd[c].wpre
    BY <1>1 DEF CCrdp, Waited
  <2>4. crd[c].wpre = {}
    BY <1>9 DEF CGracePeriodEnds
  <2> HIDE DEF r
  <2> QED BY <1>0, <1>1, <1>2, <2>1, <2>2, <2>3, <2>4, CWorkOne DEF CWorking, wat
<1>10. CASE CBatchDone(c)
  <2> DEFINE r == [crd[c] EXCEPT !.wpc = "stop_test"]
  <2>1. wat(c, "run") /\ crd' = [crd EXCEPT ![c] = r] /\ wquiet
    BY <1>10 DEF CBatchDone, worker, wgo
  <2>2. r \in CCrdp
    BY <1>1, <1>3 DEF CCrdp, CWorkerPC, CFlags, Waited
  <2>3. /\ r.live = crd[c].live /\ r.q = crd[c].q /\ r.batch = crd[c].batch
        /\ r.wpc = "stop_test"
        /\ r.flags = crd[c].flags /\ r.wpre = crd[c].wpre
    BY <1>1 DEF CCrdp, Waited
  <2>4. crd[c].batch = << >>
    BY <1>10 DEF CBatchDone
  <2> HIDE DEF r
  <2> QED BY <1>0, <1>1, <1>2, <2>1, <2>2, <2>3, <2>4, CWorkOne DEF CWorking, wat
<1>11. CASE CStopTest(c)
  <2> DEFINE r == [crd[c] EXCEPT !.wpc = IF "STOP" \in crd[c].flags THEN "stop" ELSE IF crd[c].rt \/ crd[c].q # << >> THEN "top" ELSE "wait"]
  <2>1. wat(c, "stop_test") /\ crd' = [crd EXCEPT ![c] = r] /\ wquiet
    BY <1>11 DEF CStopTest, worker, wgo
  <2>2. r \in CCrdp
    BY <1>1, <1>3 DEF CCrdp, CWorkerPC, CFlags, Waited
  <2>3. /\ r.live = crd[c].live /\ r.q = crd[c].q /\ r.batch = crd[c].batch
        /\ r.wpc = (IF "STOP" \in crd[c].flags THEN "stop" ELSE IF crd[c].rt \/ crd[c].q # << >> THEN "top" ELSE "wait")
        /\ r.flags = crd[c].flags /\ r.wpre = crd[c].wpre
    BY <1>1 DEF CCrdp, Waited
  <2> HIDE DEF r
  <2> QED BY <1>0, <1>1, <1>2, <2>1, <2>2, <2>3, CWorkOne DEF CWorking, wat
<1>12. CASE call_rcu_wait(c)
  <2> DEFINE r == [crd[c] EXCEPT !.wpc = IF crd[c].futex = -1 THEN "futex_wait" ELSE "dec"]
  <2>1. wat(c, "wait") /\ crd' = [crd EXCEPT ![c] = r] /\ wquiet
    BY <1>12 DEF call_rcu_wait, worker, wgo
  <2>2. r \in CCrdp
    BY <1>1, <1>3 DEF CCrdp, CWorkerPC, CFlags, Waited
  <2>3. /\ r.live = crd[c].live /\ r.q = crd[c].q /\ r.batch = crd[c].batch
        /\ r.wpc = (IF crd[c].futex = -1 THEN "futex_wait" ELSE "dec")
        /\ r.flags = crd[c].flags /\ r.wpre = crd[c].wpre
    BY <1>1 DEF CCrdp, Waited
  <2> HIDE DEF r
  <2> QED BY <1>0, <1>1, <1>2, <2>1, <2>2, <2>3, CWorkOne DEF CWorking, wat
<1>13. CASE CFutexWait(c)
  <2> DEFINE r == [crd[c] EXCEPT !.wpc = IF crd[c].futex = -1 THEN "asleep" ELSE "dec"]
  <2>1. wat(c, "futex_wait") /\ crd' = [crd EXCEPT ![c] = r] /\ wquiet
    BY <1>13 DEF CFutexWait, worker, wgo
  <2>2. r \in CCrdp
    BY <1>1, <1>3 DEF CCrdp, CWorkerPC, CFlags, Waited
  <2>3. /\ r.live = crd[c].live /\ r.q = crd[c].q /\ r.batch = crd[c].batch
        /\ r.wpc = (IF crd[c].futex = -1 THEN "asleep" ELSE "dec")
        /\ r.flags = crd[c].flags /\ r.wpre = crd[c].wpre
    BY <1>1 DEF CCrdp, Waited
  <2> HIDE DEF r
  <2> QED BY <1>0, <1>1, <1>2, <2>1, <2>2, <2>3, CWorkOne DEF CWorking, wat
<1>14. CASE CDecrement(c)
  <2> DEFINE r == [crd[c] EXCEPT !.futex = dec(@), !.wpc = "top"]
  <2>1. wat(c, "dec") /\ crd' = [crd EXCEPT ![c] = r] /\ wquiet
    BY <1>14 DEF CDecrement, worker, wgo
  <2>2. r \in CCrdp
    <3>1. crd[c].futex \in Int /\ (dec(crd[c].futex)) \in Int
      BY <1>1, CDecType DEF CCrdp
    <3>2. \A z \in Int : [crd[c] EXCEPT !.futex = z, !.wpc = "top"] \in CCrdp
      BY <1>1 DEF CCrdp, CWorkerPC
    <3> QED BY <3>1, <3>2
  <2>3. /\ r.live = crd[c].live /\ r.q = crd[c].q /\ r.batch = crd[c].batch
        /\ r.wpc = "top"
        /\ r.flags = crd[c].flags /\ r.wpre = crd[c].wpre
    BY <1>1 DEF CCrdp, Waited
  <2> HIDE DEF r
  <2> QED BY <1>0, <1>1, <1>2, <2>1, <2>2, <2>3, CWorkOne DEF CWorking, wat
<1>15. CASE CStop(c)
  <2> DEFINE r == [crd[c] EXCEPT !.futex = IF crd[c].rt THEN @ ELSE 0, !.wpc = "stopped"]
  <2>1. wat(c, "stop") /\ crd' = [crd EXCEPT ![c] = r] /\ wquiet
    BY <1>15 DEF CStop, worker, wgo
  <2>2. r \in CCrdp
    <3>1. crd[c].futex \in Int /\ (IF crd[c].rt THEN crd[c].futex ELSE 0) \in Int
      BY <1>1, CDecType DEF CCrdp
    <3>2. \A z \in Int : [crd[c] EXCEPT !.futex = z, !.wpc = "stopped"] \in CCrdp
      BY <1>1 DEF CCrdp, CWorkerPC
    <3> QED BY <3>1, <3>2
  <2>3. /\ r.live = crd[c].live /\ r.q = crd[c].q /\ r.batch = crd[c].batch
        /\ r.wpc = "stopped"
        /\ r.flags = crd[c].flags /\ r.wpre = crd[c].wpre
    BY <1>1 DEF CCrdp, Waited
  <2> HIDE DEF r
  <2> QED BY <1>0, <1>1, <1>2, <2>1, <2>2, <2>3, CWorkOne DEF CWorking, wat
<1>16. CASE CStopped(c)
  <2> DEFINE r == [crd[c] EXCEPT !.flags = @ \cup {"STOPPED"}, !.wpc = "none"]
  <2>1. wat(c, "stopped") /\ crd' = [crd EXCEPT ![c] = r] /\ wquiet
    BY <1>16 DEF CStopped, worker, wgo
  <2>2. r \in CCrdp
    BY <1>1, <1>3 DEF CCrdp, CWorkerPC, CFlags, Waited
  <2>3. /\ r.live = crd[c].live /\ r.q = crd[c].q /\ r.batch = crd[c].batch
        /\ r.wpc = "none"
        /\ r.flags = crd[c].flags \cup {"STOPPED"} /\ r.wpre = crd[c].wpre
    BY <1>1 DEF CCrdp, Waited
  <2> HIDE DEF r
  <2> QED BY <1>0, <1>1, <1>2, <2>1, <2>2, <2>3, CWorkOne DEF CWorking, wat
<1>17. CASE call_rcu_completion_wake_up(c)
  <2> DEFINE r == [crd[c] EXCEPT !.wpc = IF completion[Head(crd[c].batch)].futex = -1 THEN "bar_set" ELSE "bar_put"]
  <2>1. wat(c, "bar_test") /\ crd' = [crd EXCEPT ![c] = r] /\ wquiet
    BY <1>17 DEF call_rcu_completion_wake_up, worker, wgo
  <2>2. r \in CCrdp
    BY <1>1, <1>3 DEF CCrdp, CWorkerPC, CFlags, Waited
  <2>3. /\ r.live = crd[c].live /\ r.q = crd[c].q /\ r.batch = crd[c].batch
        /\ r.wpc = (IF completion[Head(crd[c].batch)].futex = -1 THEN "bar_set" ELSE "bar_put")
        /\ r.flags = crd[c].flags /\ r.wpre = crd[c].wpre
    BY <1>1 DEF CCrdp, Waited
  <2> HIDE DEF r
  <2> QED BY <1>0, <1>1, <1>2, <2>1, <2>2, <2>3, CWorkOne DEF CWorking, wat
<1> QED BY <1>4, <1>5, <1>6, <1>7, <1>8, <1>9, <1>10, <1>11, <1>12, <1>13, <1>14, <1>15, <1>16, <1>17

(* A thread moves on, and may change flags or the futex of a crdp.         *)
LEMMA CMoveTo ==
    ASSUME CIInv, NEW t \in living, NEW r \in CThread, cth' = [cth EXCEPT ![t] = r],
           UNCHANGED <<cpointers, cprocess, cghosts>>,
           crd' \in [Crdps -> CCrdp], CQuietCrdps, \A c \in Crdps : CWorking(c)',
           \A c \in Crdps :
               /\ crd'[c].wpre = crd[c].wpre
               /\ \/ crd'[c].wpc = crd[c].wpc
                  \/ crd'[c].wpc \notin {"grace", "run"} \cup CComplete
                  \/ crd'[c].wpc \in CComplete /\ crd[c].wpc \in CComplete
               /\ crd[c].flags \subseteq crd'[c].flags \/ call_rcu_mutex = t,
           call_rcu_mutex' = call_rcu_mutex \/ (call_rcu_mutex' \in {t, NULL} /\ call_rcu_mutex \in {t, NULL}),
           completion' \in [CThreads -> CCompletion],
           \A u \in CThreads : u # t => completion'[u] = completion[u],
           cth[t].nest > 0 => r.nest > 0,
           CStep(t), CWaits(t), CPlaced(t)', CUsed(t)', CStopping(t)', CChildOf(t)'
    PROVE  CIInv'
<1>0. CTypeOK /\ t \in CThreads /\ cth[t].nest \in Nat /\ call_rcu_mutex \in CThreads \cup {NULL}
  BY DEF CIInv, CTypeOK, CThread
<1>1. cth'[t] = r /\ \A u \in CThreads : u # t => cth'[u] = cth[u]
  BY <1>0 DEF CTypeOK
<1>2. CTypeOK'
  <2>1. cth' \in [CThreads -> CThread]
    BY <1>0 DEF CTypeOK
  <2>2. call_rcu_mutex' \in CThreads \cup {NULL}
    BY <1>0 DEF CTypeOK
  <2> QED BY <1>0, <2>1, <2>2, CTyped
<1>3. UNCHANGED <<call_rcu_data_list, default_crd, cpu_crd, thread_crd, living, pending, hold, owed>>
  BY DEF cpointers, cprocess, cghosts
<1>4. CHolds'
  <2>1. ASSUME NEW u \in Reading PROVE u \in Reading'
    <3>1. r.nest \in Nat
      BY DEF CThread
    <3> QED BY <1>0, <1>1, <1>3, <2>1, <3>1 DEF Reading
  <2>2. Reading \subseteq Reading'
    BY <2>1
  <2> QED BY <1>3, <2>2, CHoldsKept DEF CQuietCrdps
<1>5. ASSUME NEW u \in CThreads, u # t
      PROVE  /\ CSame(u) /\ \A v \in cth[u].tpre : v \in cth'[u].tpre \/ CInner(v)' \notin CCalling
             /\ completion'[u].count = completion[u].count /\ completion'[u].ref = completion[u].ref
             /\ call_rcu_mutex' = u <=> call_rcu_mutex = u
             /\ CFlagsKept(u)
  <2>1. CSame(u) /\ cth'[u].tpre = cth[u].tpre
    BY <1>1, <1>5 DEF CSame
  <2>2. call_rcu_mutex' = u <=> call_rcu_mutex = u
    BY <1>5, CallRcuAssumption
  <2>3. CFlagsKept(u)
    <3>1. CInner(u) \in {"fork_pause", "fork"} => call_rcu_mutex = u
      BY DEF CIInv, CThreadsPlaced, CPlaced, CForking
    <3> QED BY <1>5, <3>1 DEF CFlagsKept
  <2> QED BY <1>5, <2>1, <2>2, <2>3
<1> QED BY <1>2, <1>3, <1>4, <1>5, CMove

(* A thread moves on, and leaves the crdps alone.                          *)
LEMMA CMoveThread ==
    ASSUME CIInv, NEW t \in living, NEW r \in CThread, cth' = [cth EXCEPT ![t] = r],
           crd' = crd, UNCHANGED <<cpointers, cprocess, cghosts>>,
           call_rcu_mutex' = call_rcu_mutex \/ (call_rcu_mutex' \in {t, NULL} /\ call_rcu_mutex \in {t, NULL}),
           completion' \in [CThreads -> CCompletion],
           \A u \in CThreads : u # t => completion'[u] = completion[u],
           cth[t].nest > 0 => r.nest > 0,
           CStep(t), CWaits(t), CPlaced(t)', CUsed(t)', CStopping(t)', CChildOf(t)'
    PROVE  CIInv'
<1>1. crd' \in [Crdps -> CCrdp] /\ CQuietCrdps
  BY DEF CIInv, CTypeOK, CQuietCrdps
<1>2. \A c \in Crdps : CWorking(c)'
  BY DEF CIInv, CWorkers, CWorking
<1>3. \A c \in Crdps :
        /\ crd'[c].wpre = crd[c].wpre
        /\ crd'[c].wpc = crd[c].wpc \/ crd'[c].wpc \notin {"grace", "run"} \cup CComplete
        /\ crd[c].flags \subseteq crd'[c].flags \/ call_rcu_mutex = t
  OBVIOUS
<1> QED BY <1>1, <1>2, <1>3, CMoveTo

(* A thread changes a flag or the futex of a crdp, or wakes its worker up. *)
LEMMA CTouch ==
    ASSUME CIInv, NEW c \in Crdps, crd[c].live, NEW r \in CCrdp, crd' = [crd EXCEPT ![c] = r],
           r.live, r.q = crd[c].q, r.batch = crd[c].batch, r.wpre = crd[c].wpre,
           r.wpc = crd[c].wpc \/ (crd[c].wpc = "asleep" /\ r.wpc = "dec"),
           crd[c].flags \subseteq r.flags, r.flags \subseteq crd[c].flags \cup {"PAUSE", "STOP"}
    PROVE  /\ crd' \in [Crdps -> CCrdp] /\ CQuietCrdps
           /\ \A d \in Crdps :
                 /\ CWorking(d)'
                 /\ crd'[d].wpre = crd[d].wpre
                 /\ crd'[d].wpc = crd[d].wpc \/ crd'[d].wpc \notin {"grace", "run"} \cup CComplete
                 /\ crd[d].flags \subseteq crd'[d].flags
           /\ crd'[c] = r
<1>1. crd \in [Crdps -> CCrdp] /\ \A d \in Crdps : CWorking(d)
  BY DEF CIInv, CTypeOK, CWorkers
<1>2. crd'[c] = r /\ \A d \in Crdps : d # c => crd'[d] = crd[d]
  BY <1>1
<1>3. crd' \in [Crdps -> CCrdp]
  BY <1>1
<1>4. CQuietCrdps
  <2>1. crd[c] \in CCrdp
    BY <1>1
  <2>2. r.live = crd[c].live
    BY <2>1 DEF CCrdp
  <2> QED BY <1>2, <2>2 DEF CQuietCrdps, CComplete
<1>5. \A d \in Crdps : CWorking(d)'
  BY <1>1, <1>2 DEF CWorking, CComplete, CBatchPC
<1> QED BY <1>2, <1>3, <1>4, <1>5 DEF CComplete

(* wake_call_rcu_thread(): the thread is where it was, and returns.        *)
LEMMA CWakes ==
    ASSUME CIInv, NEW t \in CThreads, wake_call_rcu_thread(t) \/ CWakeSet(t) \/ CWakeFutex(t)
    PROVE  CIInv'
<1>0. /\ CTypeOK /\ CPlaced(t) /\ CUsed(t) /\ CStopping(t) /\ CChildOf(t)
      /\ CTakes(t) => CHasTaken(t)
  BY DEF CIInv, CThreadsPlaced, CUses, CWorkers, CChild, CRoles
<1>1. /\ t \in living /\ cth[t].pc \in CWaking
      /\ UNCHANGED <<cpointers, call_rcu_mutex, completion, cprocess, cghosts>>
  BY DEF wake_call_rcu_thread, CWakeSet, CWakeFutex, cat, CWaking
<1>2. cth[t] \in CThread /\ cth[t].w \in Crdps /\ crd[cth[t].w].live /\ crd[cth[t].w] \in CCrdp
  <2>1. cth[t] \in CThread
    BY <1>0 DEF CTypeOK
  <2>2. cth[t].w \in Crdps
    BY <1>0, <1>1, <2>1 DEF CThread, CUsed
  <2> QED BY <1>0, <1>1, <2>1, <2>2 DEF CUsed, CTypeOK
<1>3. /\ cth[t].ret \in Seq(CInnerPC) /\ cth[t].ret # << >> /\ Head(cth[t].ret) = CInner(t)
      /\ CInner(t) \in {"call_out", "stopping", "unlink", "bar_queue", "fork_pause"}
      /\ CRest(t) = Tail(cth[t].ret) /\ CRest(t) \in Seq(CInnerPC)
  <2>1. cth[t].ret \in Seq(CInnerPC) /\ cth[t].ret # << >>
    BY <1>0, <1>1, <1>2 DEF CThread, CPlaced
  <2> QED BY <1>0, <1>1, <2>1, CrTail DEF CPlaced, CInner, CRest, CInSub
<1>4. PICK r : /\ cth' = [cth EXCEPT ![t] = r]
               /\ r \in {[cth[t] EXCEPT !.pc = "wake_set"], [cth[t] EXCEPT !.pc = "wake_futex"],
                         [cth[t] EXCEPT !.pc = Head(cth[t].ret), !.ret = Tail(cth[t].ret)]}
  BY DEF wake_call_rcu_thread, CWakeSet, CWakeFutex, thread, At, Back
<1>5. /\ r \in CThread
      /\ r.nest = cth[t].nest /\ r.h = cth[t].h /\ r.w = cth[t].w /\ r.f = cth[t].f
      /\ r.todo = cth[t].todo /\ r.tpre = cth[t].tpre
      /\ \/ r.pc \in CWaking /\ r.ret = cth[t].ret
         \/ r.pc = CInner(t) /\ r.ret = CRest(t)
  <2>1. CInner(t) \in CThreadPC
    BY <1>3 DEF CThreadPC, CInnerPC, CCalling, CFreeing, CBarrier, CForking
  <2>2. CASE r = [cth[t] EXCEPT !.pc = CInner(t), !.ret = CRest(t)]
    BY <1>2, <1>3, <2>1, <2>2 DEF CThread
  <2>3. CASE r = [cth[t] EXCEPT !.pc = "wake_set"]
    BY <1>2, <2>3 DEF CThread, CThreadPC, CWaking
  <2>4. CASE r = [cth[t] EXCEPT !.pc = "wake_futex"]
    BY <1>2, <2>4 DEF CThread, CThreadPC, CWaking
  <2> QED BY <1>3, <1>4, <2>2, <2>3, <2>4
<1>6. cth'[t] = r
  BY <1>0, <1>4 DEF CTypeOK
<1>7. CInner(t)' = CInner(t) /\ CRest(t)' = CRest(t) /\ (CInChild(t)' <=> CInChild(t))
  <2>1. CInner(t)' = CInner(t) /\ CRest(t)' = CRest(t)
    BY <1>1, <1>3, <1>5, <1>6 DEF CInner, CRest, CInSub, CWaking
  <2> QED BY <2>1 DEF CInChild
<1>8. /\ crd' \in [Crdps -> CCrdp] /\ CQuietCrdps
      /\ \A d \in Crdps :
            /\ CWorking(d)'
            /\ crd'[d].wpre = crd[d].wpre
            /\ crd'[d].wpc = crd[d].wpc \/ crd'[d].wpc \notin {"grace", "run"} \cup CComplete
            /\ crd[d].flags \subseteq crd'[d].flags
  <2> DEFINE w == cth[t].w
             s == [crd[w] EXCEPT !.futex = 0]
             k == [crd[w] EXCEPT !.wpc = IF @ = "asleep" THEN "dec" ELSE @]
  <2>1. CASE crd' = crd
    BY <1>0, <2>1 DEF CTypeOK, CQuietCrdps, CIInv, CWorkers, CWorking
  <2>2. CASE CWakeSet(t)
    <3>1. crd' = [crd EXCEPT ![w] = s]
      BY <2>2 DEF CWakeSet
    <3>2. s \in CCrdp
      <4>1. \A z \in Int : [crd[w] EXCEPT !.futex = z] \in CCrdp
        BY <1>2 DEF CCrdp
      <4> QED BY <4>1
    <3>3. /\ s.live = crd[w].live /\ s.q = crd[w].q /\ s.batch = crd[w].batch
          /\ s.wpre = crd[w].wpre /\ s.wpc = crd[w].wpc /\ s.flags = crd[w].flags
      BY <1>2 DEF CCrdp
    <3> HIDE DEF s
    <3> QED BY <1>2, <3>1, <3>2, <3>3, CTouch
  <2>3. CASE CWakeFutex(t)
    <3>1. crd' = [crd EXCEPT ![w] = k]
      BY <2>3 DEF CWakeFutex
    <3>2. k \in CCrdp
      BY <1>2 DEF CCrdp, CWorkerPC
    <3>3. /\ k.live = crd[w].live /\ k.q = crd[w].q /\ k.batch = crd[w].batch
          /\ k.wpre = crd[w].wpre /\ k.flags = crd[w].flags
          /\ k.wpc = crd[w].wpc \/ (crd[w].wpc = "asleep" /\ k.wpc = "dec")
      BY <1>2 DEF CCrdp
    <3> HIDE DEF k
    <3> QED BY <1>2, <3>1, <3>2, <3>3, CTouch
  <2> QED BY <2>1, <2>2, <2>3 DEF wake_call_rcu_thread
<1>9. UNCHANGED <<call_rcu_data_list, default_crd, cpu_crd, thread_crd, living, pending, hold, owed>>
  BY <1>1 DEF cpointers, cprocess, cghosts
<1>10. CPlaced(t)'
  BY <1>0, <1>1, <1>3, <1>5, <1>6, <1>7, <1>9 DEF CPlaced, CWaking
<1>11. cth[t].todo \in Seq(Crdps) /\ Range(cth[t].todo) \subseteq Crdps /\ cth[t].f \in Crdps \cup {NULL}
  <2>1. cth[t].todo \in Seq(Crdps) /\ cth[t].f \in Crdps \cup {NULL}
    BY <1>2 DEF CThread
  <2> QED BY <2>1, CrSeq
<1>12. CStopping(t)'
  <2>1. CInner(t) \in {"leftover", "migrate", "unlink"} => cth[t].f \in Crdps
    BY <1>0, <1>11 DEF CTakes, CFreeing, CHasTaken
  <2> QED BY <1>0, <1>5, <1>6, <1>7, <1>8, <2>1 DEF CStopping, CQuietCrdps
<1>13. CChildOf(t)'
  BY <1>0, <1>1, <1>3, <1>5, <1>6, <1>7, <1>8, <1>9, <1>11 DEF CChildOf, CQuietCrdps, CWaking
<1>14. CUsed(t)'
  <2>1. CASE r.pc \in CWaking
    <3>1. ASSUME NEW v \in CThreads PROVE cth'[v].f = cth[v].f /\ cth'[v].tpre = cth[v].tpre /\ CInner(v)' = CInner(v)
      <4>1. v # t => cth'[v] = cth[v]
        BY <1>0, <1>4 DEF CTypeOK
      <4> QED BY <1>5, <1>6, <1>7, <4>1 DEF CInner, CInSub
    <3>2. CInner(t) \in CCalling /\
                (\E u \in CThreads :
                      /\ cth[u].f = cth[t].w
                      /\ CInner(u) = "synchronize" \/ (CInner(u) = "grace" /\ t \in cth[u].tpre)) =>
                (\E u \in CThreads :
                      /\ cth'[u].f = cth'[t].w
                      /\ CInner(u)' = "synchronize" \/ (CInner(u)' = "grace" /\ t \in cth'[u].tpre))
      BY <1>5, <1>6, <3>1
    <3> QED BY <1>0, <1>1, <1>2, <1>5, <1>6, <1>7, <1>8, <1>9, <1>11, <2>1, <3>2 DEF CUsed, CQuietCrdps, CWaking
  <2>2. CASE r.pc = CInner(t)
    BY <1>0, <1>3, <1>5, <1>6, <1>7, <1>8, <1>11, <2>2 DEF CUsed, CQuietCrdps, CWaking
  <2> QED BY <1>5, <2>1, <2>2
<1>15. CWaits(t)
  BY <1>3, <1>7 DEF CWaits
<1>16. CStep(t)
  <2>1. CToQueue(t)' = CToQueue(t)
    BY <1>5, <1>6, <1>7 DEF CToQueue
  <2> QED BY <1>1, <1>3, <1>5, <1>6, <1>7, <2>1 DEF CStep, CAllowed, CTakes, CWaking
<1>17. cth[t].nest > 0 => r.nest > 0
  BY <1>5
<1>18. completion' \in [CThreads -> CCompletion] /\ \A u \in CThreads : u # t => completion'[u] = completion[u]
  BY <1>0, <1>1 DEF CTypeOK
<1> QED BY <1>1, <1>4, <1>5, <1>8, <1>10, <1>12, <1>13, <1>14, <1>15, <1>16, <1>17, <1>18, CMoveTo

(* What the invariant says of one thread.                                  *)
LEMMA CFacts ==
    ASSUME CIInv, NEW t \in CThreads
    PROVE  /\ CTypeOK /\ cth[t] \in CThread /\ crd \in [Crdps -> CCrdp]
           /\ CPlaced(t) /\ CUsed(t) /\ CStopping(t) /\ CChildOf(t) /\ CList
           /\ CTakes(t) => CHasTaken(t) /\ cth[t].f \in Crdps
           /\ cth[t].ret \in Seq(CInnerPC) /\ cth[t].nest \in Nat
           /\ cth[t].w \in Crdps \cup {NULL} /\ cth[t].f \in Crdps \cup {NULL}
           /\ cth[t].todo \in Seq(Crdps) /\ Range(cth[t].todo) \subseteq Crdps
           /\ default_crd \in Crdps \cup {NULL} /\ cpu_crd \in Crdps \cup {NULL}
           /\ thread_crd[t] \in Crdps \cup {NULL}
           /\ default_crd # NULL => crd[default_crd].live
           /\ cpu_crd # NULL => crd[cpu_crd].live /\ cpu_crd # default_crd
           /\ t \in living => COwns(t)
           /\ completion \in [CThreads -> CCompletion]
<1>1. /\ CTypeOK /\ CPlaced(t) /\ CUsed(t) /\ CStopping(t) /\ CChildOf(t) /\ CList
      /\ CTakes(t) => CHasTaken(t)
      /\ default_crd # NULL => crd[default_crd].live
      /\ cpu_crd # NULL => crd[cpu_crd].live /\ cpu_crd # default_crd
      /\ t \in living => COwns(t)
  BY DEF CIInv, CThreadsPlaced, CUses, CWorkers, CChild, CRoles
<1>2. /\ cth[t] \in CThread /\ crd \in [Crdps -> CCrdp] /\ default_crd \in Crdps \cup {NULL}
      /\ cpu_crd \in Crdps \cup {NULL} /\ thread_crd[t] \in Crdps \cup {NULL}
      /\ completion \in [CThreads -> CCompletion]
  BY <1>1 DEF CTypeOK
<1>3. /\ cth[t].ret \in Seq(CInnerPC) /\ cth[t].nest \in Nat
      /\ cth[t].w \in Crdps \cup {NULL} /\ cth[t].f \in Crdps \cup {NULL}
      /\ cth[t].todo \in Seq(Crdps)
  BY <1>2 DEF CThread
<1>4. Range(cth[t].todo) \subseteq Crdps
  BY <1>3, CrSeq
<1>5. CTakes(t) => cth[t].f \in Crdps
  BY <1>1, <1>3 DEF CHasTaken
<1> QED BY <1>1, <1>2, <1>3, <1>4, <1>5

(* The record of a thread, and where it is, when it is set.                *)
LEMMA CSetThread ==
    ASSUME CTypeOK, NEW t \in CThreads, NEW r, cth' = [cth EXCEPT ![t] = r]
    PROVE  /\ cth'[t] = r /\ \A u \in CThreads : u # t => cth'[u] = cth[u]
           /\ r.pc \notin CWaking \cup {"default"} => CInner(t)' = r.pc /\ CRest(t)' = r.ret
           /\ r.pc \in CWaking \cup {"default"} => CInner(t)' = Head(r.ret) /\ CRest(t)' = Tail(r.ret)
<1>1. cth'[t] = r /\ \A u \in CThreads : u # t => cth'[u] = cth[u]
  BY DEF CTypeOK
<1> QED BY <1>1 DEF CInner, CRest, CInSub

(* Return points.                                                          *)
LEMMA CReturns ==
    /\ CInnerPC \subseteq CThreadPC
    /\ \A i \in CInnerPC : <<i>> \in Seq(CInnerPC) /\ <<i>> \o << >> = <<i>>
    /\ <<"idle">> # <<"child_free">>
<1>1. CInnerPC \subseteq CThreadPC
  BY DEF CThreadPC
<1>2. \A i \in CInnerPC : <<i>> \in Seq(CInnerPC)
  OBVIOUS
<1>3. \A i \in CInnerPC : <<i>> \o << >> = <<i>>
  BY <1>2, ConcatEmptySeq
<1>4. <<"idle">> # <<"child_free">>
  OBVIOUS
<1> QED BY <1>1, <1>2, <1>3, <1>4

(* rcu_read_lock().                                                        *)
LEMMA CReadLock ==
    ASSUME CIInv, NEW t \in CThreads, ReadLock(t)
    PROVE  CIInv'
<1> DEFINE r == [cth[t] EXCEPT !.nest = @ + 1]
<1> USE DEF CWaking, CCalling, CTaking, CFreeing, CBarrier, CForking
<1>1. /\ t \in living /\ cth[t].pc = "idle"
      /\ cth' = [cth EXCEPT ![t] = r] /\ crd' = crd
      /\ UNCHANGED <<cpointers, call_rcu_mutex, completion, cprocess, cghosts>>
  BY DEF ReadLock, cat, may, thread, At, Enter, Back, Lock
<1>2. /\ CTypeOK /\ cth[t] \in CThread /\ crd \in [Crdps -> CCrdp]
      /\ CPlaced(t) /\ CUsed(t) /\ CStopping(t) /\ CChildOf(t) /\ CList
      /\ CTakes(t) => CHasTaken(t) /\ cth[t].f \in Crdps
      /\ cth[t].ret \in Seq(CInnerPC) /\ cth[t].nest \in Nat
      /\ cth[t].todo \in Seq(Crdps) /\ Range(cth[t].todo) \subseteq Crdps
      /\ completion \in [CThreads -> CCompletion]
  BY CFacts
<1>3. CInner(t) = "idle" /\ CRest(t) = cth[t].ret
  BY <1>1, <1>2 DEF CInner, CRest, CInSub
<1>4. r \in CThread
  <2>1. \A z \in Nat : [cth[t] EXCEPT !.nest = z] \in CThread
    BY <1>2 DEF CThread, CThreadPC, CInnerPC
  <2>2. cth[t].nest + 1 \in Nat
    BY <1>2
  <2> QED BY <2>1, <2>2
<1>5. /\ r.pc = cth[t].pc /\ r.ret = cth[t].ret /\ r.nest = cth[t].nest + 1 /\ r.h = cth[t].h
      /\ r.w = cth[t].w /\ r.f = cth[t].f /\ r.todo = cth[t].todo /\ r.tpre = cth[t].tpre
  BY <1>2 DEF CThread
<1> HIDE DEF r
<1>6. cth'[t] = r /\ \A u \in CThreads : u # t => cth'[u] = cth[u]
  BY <1>1, <1>2, CSetThread
<1>7. CInner(t)' = "idle" /\ CRest(t)' = cth[t].ret
  BY <1>1, <1>2, <1>3, <1>5, <1>6 DEF CInner, CRest, CInSub
<1>8. UNCHANGED <<call_rcu_data_list, default_crd, cpu_crd, thread_crd, living, pending, hold, owed>>
  BY <1>1 DEF cpointers, cprocess, cghosts
<1>9. CPlaced(t)'
  BY <1>1, <1>2, <1>3, <1>5, <1>6, <1>7, <1>8, CallRcuAssumption DEF CPlaced
<1>10. CUsed(t)'
  BY <1>1, <1>2, <1>3, <1>5, <1>6, <1>7, <1>8, CallRcuAssumption DEF CUsed
<1>11. CStopping(t)'
  BY <1>1, <1>2, <1>3, <1>5, <1>6, <1>7, <1>8, CallRcuAssumption DEF CStopping
<1>12. CChildOf(t)'
  BY <1>1, <1>2, <1>3, <1>5, <1>6, <1>7, <1>8, CallRcuAssumption DEF CChildOf, CInChild
<1>13. CWaits(t)
  BY <1>1, <1>2, <1>3, <1>5, <1>6, <1>7, <1>8, CallRcuAssumption DEF CWaits
<1>14. CToQueue(t)' = CToQueue(t)
  BY <1>1, <1>2, <1>3, <1>5, <1>6, <1>7, <1>8 DEF CToQueue
<1>15. CStep(t)
  BY <1>1, <1>2, <1>3, <1>5, <1>6, <1>7, <1>8, <1>14, CallRcuAssumption DEF CStep, CAllowed, CTakes
<1>16. cth[t].nest > 0 => r.nest > 0
  BY <1>2, <1>5
<1>17. completion' \in [CThreads -> CCompletion] /\ \A u \in CThreads : u # t => completion'[u] = completion[u]
  BY <1>1, <1>2
<1>18. call_rcu_mutex' = call_rcu_mutex \/ (call_rcu_mutex' \in {t, NULL} /\ call_rcu_mutex \in {t, NULL})
  BY <1>1, <1>2, <1>3 DEF CPlaced
<1> QED BY <1>1, <1>4, <1>9, <1>10, <1>11, <1>12, <1>13, <1>15, <1>16, <1>17, <1>18, CMoveThread

(* free_all_cpu_call_rcu_data() sees which crdp the CPU has.               *)
LEMMA CFreeAllCpu ==
    ASSUME CIInv, NEW t \in CThreads, free_all_cpu_call_rcu_data(t)
    PROVE  CIInv'
<1> DEFINE r == [[cth[t] EXCEPT !.pc = "free_set"] EXCEPT !.f = cpu_crd]
<1> USE DEF CWaking, CCalling, CTaking, CFreeing, CBarrier, CForking
<1>1. /\ t \in living /\ cth[t].pc = "idle"
      /\ cth' = [cth EXCEPT ![t] = r] /\ crd' = crd
      /\ UNCHANGED <<cpointers, call_rcu_mutex, completion, cprocess, cghosts>>
  BY DEF free_all_cpu_call_rcu_data, cat, may, thread, At
<1>2. /\ CTypeOK /\ cth[t] \in CThread /\ crd \in [Crdps -> CCrdp]
      /\ CPlaced(t) /\ CUsed(t) /\ CStopping(t) /\ CChildOf(t) /\ CList
      /\ CTakes(t) => CHasTaken(t) /\ cth[t].f \in Crdps
      /\ cth[t].ret \in Seq(CInnerPC) /\ cth[t].nest \in Nat
      /\ cth[t].todo \in Seq(Crdps) /\ Range(cth[t].todo) \subseteq Crdps
      /\ completion \in [CThreads -> CCompletion]
  BY CFacts
<1>3. CInner(t) = "idle" /\ CRest(t) = cth[t].ret
  BY <1>1, <1>2 DEF CInner, CRest, CInSub
<1>4. r \in CThread
  <2>1. cth[t] \in CThread /\ "free_set" \in CThreadPC /\ cpu_crd \in Crdps \cup {NULL}
    BY <1>2 DEF CThreadPC, CInnerPC, CTypeOK
  <2> QED BY ONLY <2>1 DEF CThread
<1>5. /\ r.pc = "free_set" /\ r.ret = cth[t].ret /\ r.nest = cth[t].nest /\ r.h = cth[t].h
      /\ r.w = cth[t].w /\ r.f = cpu_crd /\ r.todo = cth[t].todo /\ r.tpre = cth[t].tpre
  BY <1>2 DEF CThread
<1> HIDE DEF r
<1>6. cth'[t] = r /\ \A u \in CThreads : u # t => cth'[u] = cth[u]
  BY <1>1, <1>2, CSetThread
<1>7. CInner(t)' = "free_set" /\ CRest(t)' = cth[t].ret
  BY <1>1, <1>2, <1>3, <1>5, <1>6 DEF CInner, CRest, CInSub
<1>8. UNCHANGED <<call_rcu_data_list, default_crd, cpu_crd, thread_crd, living, pending, hold, owed>>
  BY <1>1 DEF cpointers, cprocess, cghosts
<1>9. CPlaced(t)'
  BY <1>1, <1>2, <1>3, <1>5, <1>6, <1>7, <1>8, CallRcuAssumption DEF CPlaced
<1>10. CUsed(t)'
  BY <1>1, <1>2, <1>3, <1>5, <1>6, <1>7, <1>8, CallRcuAssumption DEF CUsed
<1>11. CStopping(t)'
  BY <1>1, <1>2, <1>3, <1>5, <1>6, <1>7, <1>8, CallRcuAssumption DEF CStopping
<1>12. CChildOf(t)'
  BY <1>1, <1>2, <1>3, <1>5, <1>6, <1>7, <1>8, CallRcuAssumption DEF CChildOf, CInChild
<1>13. CWaits(t)
  BY <1>1, <1>2, <1>3, <1>5, <1>6, <1>7, <1>8, CallRcuAssumption DEF CWaits
<1>14. CToQueue(t)' = CToQueue(t)
  BY <1>1, <1>2, <1>3, <1>5, <1>6, <1>7, <1>8 DEF CToQueue
<1>15. CStep(t)
  BY <1>1, <1>2, <1>3, <1>5, <1>6, <1>7, <1>8, <1>14, CallRcuAssumption DEF CStep, CAllowed, CTakes
<1>16. cth[t].nest > 0 => r.nest > 0
  BY <1>2, <1>5
<1>17. completion' \in [CThreads -> CCompletion] /\ \A u \in CThreads : u # t => completion'[u] = completion[u]
  BY <1>1, <1>2
<1>18. call_rcu_mutex' = call_rcu_mutex \/ (call_rcu_mutex' \in {t, NULL} /\ call_rcu_mutex \in {t, NULL})
  BY <1>1, <1>2, <1>3 DEF CPlaced
<1> QED BY <1>1, <1>4, <1>9, <1>10, <1>11, <1>12, <1>13, <1>15, <1>16, <1>17, <1>18, CMoveThread

(* call_rcu() is entered.                                                  *)
LEMMA CCallRcu ==
    ASSUME CIInv, NEW t \in CThreads, NEW h \in Heads, call_rcu(t, h)
    PROVE  CIInv'
<1> DEFINE r == [[[cth[t] EXCEPT !.pc = "get"] EXCEPT !.nest = @ + 1] EXCEPT !.h = h]
<1> USE DEF CWaking, CCalling, CTaking, CFreeing, CBarrier, CForking
<1>1. /\ t \in living /\ cth[t].pc = "idle"
      /\ cth' = [cth EXCEPT ![t] = r] /\ crd' = crd
      /\ h \notin pending /\ \A u \in living : cth[u].h # h
      /\ UNCHANGED <<cpointers, call_rcu_mutex, completion, cprocess, cghosts>>
  BY DEF call_rcu, cat, may, thread, At, Enter, Back, Lock
<1>2. /\ CTypeOK /\ cth[t] \in CThread /\ crd \in [Crdps -> CCrdp]
      /\ CPlaced(t) /\ CUsed(t) /\ CStopping(t) /\ CChildOf(t) /\ CList
      /\ CTakes(t) => CHasTaken(t) /\ cth[t].f \in Crdps
      /\ cth[t].ret \in Seq(CInnerPC) /\ cth[t].nest \in Nat
      /\ cth[t].todo \in Seq(Crdps) /\ Range(cth[t].todo) \subseteq Crdps
      /\ completion \in [CThreads -> CCompletion]
  BY CFacts
<1>3. CInner(t) = "idle" /\ CRest(t) = cth[t].ret
  BY <1>1, <1>2 DEF CInner, CRest, CInSub
<1>a. \A u \in CThreads : cth[u].h # h
  <2>1. \A u \in CThreads : u \notin living => cth[u].h = NULL
    BY DEF CIInv, CThreadsPlaced, CPlaced, NewThread
  <2> QED BY <1>1, <2>1, CallRcuAssumption
<1>4. r \in CThread
  <2>1. \A z \in Nat : [[[cth[t] EXCEPT !.pc = "get"] EXCEPT !.nest = z] EXCEPT !.h = h] \in CThread
    BY <1>2 DEF CThread, CThreadPC, CInnerPC
  <2>2. cth[t].nest + 1 \in Nat
    BY <1>2
  <2> QED BY <2>1, <2>2
<1>5. /\ r.pc = "get" /\ r.ret = cth[t].ret /\ r.nest = cth[t].nest + 1 /\ r.h = h
      /\ r.w = cth[t].w /\ r.f = cth[t].f /\ r.todo = cth[t].todo /\ r.tpre = cth[t].tpre
  BY <1>2, <1>a DEF CThread
<1> HIDE DEF r
<1>6. cth'[t] = r /\ \A u \in CThreads : u # t => cth'[u] = cth[u]
  BY <1>1, <1>2, CSetThread
<1>7. CInner(t)' = "get" /\ CRest(t)' = cth[t].ret
  BY <1>1, <1>2, <1>3, <1>a, <1>5, <1>6 DEF CInner, CRest, CInSub
<1>8. UNCHANGED <<call_rcu_data_list, default_crd, cpu_crd, thread_crd, living, pending, hold, owed>>
  BY <1>1 DEF cpointers, cprocess, cghosts
<1>9. CPlaced(t)'
  BY <1>1, <1>2, <1>3, <1>a, <1>5, <1>6, <1>7, <1>8, CallRcuAssumption DEF CPlaced
<1>10. CUsed(t)'
  BY <1>1, <1>2, <1>3, <1>a, <1>5, <1>6, <1>7, <1>8, CallRcuAssumption DEF CUsed
<1>11. CStopping(t)'
  BY <1>1, <1>2, <1>3, <1>a, <1>5, <1>6, <1>7, <1>8, CallRcuAssumption DEF CStopping
<1>12. CChildOf(t)'
  BY <1>1, <1>2, <1>3, <1>a, <1>5, <1>6, <1>7, <1>8, CallRcuAssumption DEF CChildOf, CInChild
<1>13. CWaits(t)
  BY <1>1, <1>2, <1>3, <1>a, <1>5, <1>6, <1>7, <1>8, CallRcuAssumption DEF CWaits
<1>14. CToQueue(t)' = CToQueue(t)
  BY <1>1, <1>2, <1>3, <1>a, <1>5, <1>6, <1>7, <1>8 DEF CToQueue
<1>15. CStep(t)
  BY <1>1, <1>2, <1>3, <1>a, <1>5, <1>6, <1>7, <1>8, <1>14, CallRcuAssumption DEF CStep, CAllowed, CTakes
<1>16. cth[t].nest > 0 => r.nest > 0
  BY <1>2, <1>5
<1>17. completion' \in [CThreads -> CCompletion] /\ \A u \in CThreads : u # t => completion'[u] = completion[u]
  BY <1>1, <1>2
<1>18. call_rcu_mutex' = call_rcu_mutex \/ (call_rcu_mutex' \in {t, NULL} /\ call_rcu_mutex \in {t, NULL})
  BY <1>1, <1>2, <1>3 DEF CPlaced
<1> QED BY <1>1, <1>4, <1>9, <1>10, <1>11, <1>12, <1>13, <1>15, <1>16, <1>17, <1>18, CMoveThread

(* get_call_rcu_data() finds a crdp.                                       *)
LEMMA CGetOwn ==
    ASSUME CIInv, NEW t \in CThreads, NEW c, c = (IF thread_crd[t] # NULL THEN thread_crd[t] ELSE IF cpu_crd # NULL THEN cpu_crd ELSE default_crd), c # NULL, get_call_rcu_data(t)
    PROVE  CIInv'
<1> DEFINE r == [[cth[t] EXCEPT !.pc = "enqueue"] EXCEPT !.w = c]
<1> USE DEF CWaking, CCalling, CTaking, CFreeing, CBarrier, CForking
<1>1. /\ t \in living /\ cth[t].pc = "get"
      /\ cth' = [cth EXCEPT ![t] = r] /\ crd' = crd
      /\ UNCHANGED <<cpointers, call_rcu_mutex, completion, cprocess, cghosts>>
  BY DEF get_call_rcu_data, cat, may, thread, At, Enter, Back, Lock
<1>2. /\ CTypeOK /\ cth[t] \in CThread /\ crd \in [Crdps -> CCrdp]
      /\ CPlaced(t) /\ CUsed(t) /\ CStopping(t) /\ CChildOf(t) /\ CList
      /\ CTakes(t) => CHasTaken(t) /\ cth[t].f \in Crdps
      /\ cth[t].ret \in Seq(CInnerPC) /\ cth[t].nest \in Nat
      /\ cth[t].todo \in Seq(Crdps) /\ Range(cth[t].todo) \subseteq Crdps
      /\ completion \in [CThreads -> CCompletion]
  BY CFacts
<1>3. CInner(t) = "get" /\ CRest(t) = cth[t].ret
  BY <1>1, <1>2 DEF CInner, CRest, CInSub
<1>a. c \in Crdps /\ crd[c].live /\ c \in {thread_crd[t], cpu_crd, default_crd}
  BY <1>1, <1>2, CFacts DEF COwns
<1>4. r \in CThread
  <2>1. cth[t] \in CThread /\ c \in Crdps
    BY <1>2, <1>a
  <2> QED BY ONLY <2>1 DEF CThread, CThreadPC, CInnerPC, CCalling
<1>5. /\ r.pc = "enqueue" /\ r.ret = cth[t].ret /\ r.nest = cth[t].nest /\ r.h = cth[t].h
      /\ r.w = c /\ r.f = cth[t].f /\ r.todo = cth[t].todo /\ r.tpre = cth[t].tpre
  BY <1>2, <1>a DEF CThread
<1> HIDE DEF r
<1>6. cth'[t] = r /\ \A u \in CThreads : u # t => cth'[u] = cth[u]
  BY <1>1, <1>2, CSetThread
<1>7. CInner(t)' = "enqueue" /\ CRest(t)' = cth[t].ret
  BY <1>1, <1>2, <1>3, <1>a, <1>5, <1>6 DEF CInner, CRest, CInSub
<1>8. UNCHANGED <<call_rcu_data_list, default_crd, cpu_crd, thread_crd, living, pending, hold, owed>>
  BY <1>1 DEF cpointers, cprocess, cghosts
<1>9. CPlaced(t)'
  BY <1>1, <1>2, <1>3, <1>a, <1>5, <1>6, <1>7, <1>8, CallRcuAssumption DEF CPlaced
<1>10. CUsed(t)'
  BY <1>1, <1>2, <1>3, <1>a, <1>5, <1>6, <1>7, <1>8, CallRcuAssumption DEF CUsed
<1>11. CStopping(t)'
  BY <1>1, <1>2, <1>3, <1>a, <1>5, <1>6, <1>7, <1>8, CallRcuAssumption DEF CStopping
<1>12. CChildOf(t)'
  BY <1>1, <1>2, <1>3, <1>a, <1>5, <1>6, <1>7, <1>8, CallRcuAssumption DEF CChildOf, CInChild
<1>13. CWaits(t)
  BY <1>1, <1>2, <1>3, <1>a, <1>5, <1>6, <1>7, <1>8, CallRcuAssumption DEF CWaits
<1>14. CToQueue(t)' = CToQueue(t)
  BY <1>1, <1>2, <1>3, <1>a, <1>5, <1>6, <1>7, <1>8 DEF CToQueue
<1>15. CStep(t)
  BY <1>1, <1>2, <1>3, <1>a, <1>5, <1>6, <1>7, <1>8, <1>14, CallRcuAssumption DEF CStep, CAllowed, CTakes
<1>16. cth[t].nest > 0 => r.nest > 0
  BY <1>2, <1>5
<1>17. completion' \in [CThreads -> CCompletion] /\ \A u \in CThreads : u # t => completion'[u] = completion[u]
  BY <1>1, <1>2
<1>18. call_rcu_mutex' = call_rcu_mutex \/ (call_rcu_mutex' \in {t, NULL} /\ call_rcu_mutex \in {t, NULL})
  BY <1>1, <1>2, <1>3 DEF CPlaced
<1> QED BY <1>1, <1>4, <1>9, <1>10, <1>11, <1>12, <1>13, <1>15, <1>16, <1>17, <1>18, CMoveThread

(* get_call_rcu_data() finds none.                                         *)
LEMMA CGetDefault ==
    ASSUME CIInv, NEW t \in CThreads, get_call_rcu_data(t), ~ ((IF thread_crd[t] # NULL THEN thread_crd[t] ELSE IF cpu_crd # NULL THEN cpu_crd ELSE default_crd) # NULL)
    PROVE  CIInv'
<1> DEFINE r == [cth[t] EXCEPT !.pc = "default", !.ret = <<"enqueue">> \o @]
<1> USE DEF CWaking, CCalling, CTaking, CFreeing, CBarrier, CForking
<1>1. /\ t \in living /\ cth[t].pc = "get"
      /\ cth' = [cth EXCEPT ![t] = r] /\ crd' = crd
      /\ UNCHANGED <<cpointers, call_rcu_mutex, completion, cprocess, cghosts>>
  BY DEF get_call_rcu_data, cat, may, thread, At, Enter, Back, Lock
<1>2. /\ CTypeOK /\ cth[t] \in CThread /\ crd \in [Crdps -> CCrdp]
      /\ CPlaced(t) /\ CUsed(t) /\ CStopping(t) /\ CChildOf(t) /\ CList
      /\ CTakes(t) => CHasTaken(t) /\ cth[t].f \in Crdps
      /\ cth[t].ret \in Seq(CInnerPC) /\ cth[t].nest \in Nat
      /\ cth[t].todo \in Seq(Crdps) /\ Range(cth[t].todo) \subseteq Crdps
      /\ completion \in [CThreads -> CCompletion]
  BY CFacts
<1>3. CInner(t) = "get" /\ CRest(t) = cth[t].ret
  BY <1>1, <1>2 DEF CInner, CRest, CInSub
<1>a. /\ <<"enqueue">> \o cth[t].ret \in Seq(CInnerPC) /\ <<"enqueue">> \o cth[t].ret # << >>
      /\ Head(<<"enqueue">> \o cth[t].ret) = "enqueue" /\ Tail(<<"enqueue">> \o cth[t].ret) = cth[t].ret
  <2>1. "enqueue" \in CInnerPC /\ cth[t].ret \in Seq(CInnerPC)
    BY <1>2 DEF CInnerPC
  <2> QED BY ONLY <2>1, CrCons
<1>4. r \in CThread
  <2>1. /\ cth[t] \in CThread /\ "default" \in CThreadPC
        /\ <<"enqueue">> \o cth[t].ret \in Seq(CInnerPC)
    BY <1>2, <1>a DEF CThreadPC, CInnerPC
  <2> QED BY ONLY <2>1 DEF CThread
<1>5. /\ r.pc = "default" /\ r.ret = <<"enqueue">> \o cth[t].ret /\ r.nest = cth[t].nest /\ r.h = cth[t].h
      /\ r.w = cth[t].w /\ r.f = cth[t].f /\ r.todo = cth[t].todo /\ r.tpre = cth[t].tpre
  BY <1>2, <1>a DEF CThread
<1> HIDE DEF r
<1>6. cth'[t] = r /\ \A u \in CThreads : u # t => cth'[u] = cth[u]
  BY <1>1, <1>2, CSetThread
<1>7. CInner(t)' = "enqueue" /\ CRest(t)' = cth[t].ret
  BY <1>1, <1>2, <1>3, <1>a, <1>5, <1>6 DEF CInner, CRest, CInSub
<1>8. UNCHANGED <<call_rcu_data_list, default_crd, cpu_crd, thread_crd, living, pending, hold, owed>>
  BY <1>1 DEF cpointers, cprocess, cghosts
<1>9. CPlaced(t)'
  BY <1>1, <1>2, <1>3, <1>a, <1>5, <1>6, <1>7, <1>8, CallRcuAssumption DEF CPlaced
<1>10. CUsed(t)'
  BY <1>1, <1>2, <1>3, <1>a, <1>5, <1>6, <1>7, <1>8, CallRcuAssumption DEF CUsed
<1>11. CStopping(t)'
  BY <1>1, <1>2, <1>3, <1>a, <1>5, <1>6, <1>7, <1>8, CallRcuAssumption DEF CStopping
<1>12. CChildOf(t)'
  BY <1>1, <1>2, <1>3, <1>a, <1>5, <1>6, <1>7, <1>8, CallRcuAssumption DEF CChildOf, CInChild
<1>13. CWaits(t)
  BY <1>1, <1>2, <1>3, <1>a, <1>5, <1>6, <1>7, <1>8, CallRcuAssumption DEF CWaits
<1>14. CToQueue(t)' = CToQueue(t)
  BY <1>1, <1>2, <1>3, <1>a, <1>5, <1>6, <1>7, <1>8 DEF CToQueue
<1>15. CStep(t)
  BY <1>1, <1>2, <1>3, <1>a, <1>5, <1>6, <1>7, <1>8, <1>14, CallRcuAssumption DEF CStep, CAllowed, CTakes
<1>16. cth[t].nest > 0 => r.nest > 0
  BY <1>2, <1>5
<1>17. completion' \in [CThreads -> CCompletion] /\ \A u \in CThreads : u # t => completion'[u] = completion[u]
  BY <1>1, <1>2
<1>18. call_rcu_mutex' = call_rcu_mutex \/ (call_rcu_mutex' \in {t, NULL} /\ call_rcu_mutex \in {t, NULL})
  BY <1>1, <1>2, <1>3 DEF CPlaced
<1> QED BY <1>1, <1>4, <1>9, <1>10, <1>11, <1>12, <1>13, <1>15, <1>16, <1>17, <1>18, CMoveThread

(* get_default_call_rcu_data() finds it there.                             *)
LEMMA CFoundDefault ==
    ASSUME CIInv, NEW t \in CThreads, get_default_call_rcu_data(t), default_crd # NULL
    PROVE  CIInv'
<1> DEFINE r == [[cth[t] EXCEPT !.pc = Head(cth[t].ret), !.ret = Tail(cth[t].ret)] EXCEPT !.w = default_crd]
<1> USE DEF CWaking, CCalling, CTaking, CFreeing, CBarrier, CForking
<1>1. /\ t \in living /\ cth[t].pc = "default"
      /\ cth' = [cth EXCEPT ![t] = r] /\ crd' = crd
      /\ UNCHANGED <<cpointers, call_rcu_mutex, completion, cprocess, cghosts>>
  BY DEF get_default_call_rcu_data, cat, may, thread, At, Enter, Back, Lock
<1>2. /\ CTypeOK /\ cth[t] \in CThread /\ crd \in [Crdps -> CCrdp]
      /\ CPlaced(t) /\ CUsed(t) /\ CStopping(t) /\ CChildOf(t) /\ CList
      /\ CTakes(t) => CHasTaken(t) /\ cth[t].f \in Crdps
      /\ cth[t].ret \in Seq(CInnerPC) /\ cth[t].nest \in Nat
      /\ cth[t].todo \in Seq(Crdps) /\ Range(cth[t].todo) \subseteq Crdps
      /\ completion \in [CThreads -> CCompletion]
  BY CFacts
<1>3. CInner(t) = Head(cth[t].ret) /\ CRest(t) = Tail(cth[t].ret)
  BY <1>1, <1>2 DEF CInner, CRest, CInSub
<1>a. /\ cth[t].ret # << >> /\ Head(cth[t].ret) \in {"enqueue", "migrate", "child"}
      /\ Tail(cth[t].ret) \in Seq(CInnerPC)
  BY <1>1, <1>2, CrTail DEF CPlaced
<1>b. default_crd \in Crdps /\ crd[default_crd].live
  BY CFacts
<1>4. r \in CThread
  <2>1. /\ cth[t] \in CThread /\ Head(cth[t].ret) \in CThreadPC
        /\ Tail(cth[t].ret) \in Seq(CInnerPC) /\ default_crd \in Crdps \cup {NULL}
    BY <1>2, <1>a, <1>b, <1>1, CReturns DEF CThreadPC, CInnerPC
  <2> QED BY ONLY <2>1 DEF CThread
<1>5. /\ r.pc = Head(cth[t].ret) /\ r.ret = Tail(cth[t].ret) /\ r.nest = cth[t].nest /\ r.h = cth[t].h
      /\ r.w = default_crd /\ r.f = cth[t].f /\ r.todo = cth[t].todo /\ r.tpre = cth[t].tpre
  BY <1>2, <1>a, <1>b DEF CThread
<1> HIDE DEF r
<1>6. cth'[t] = r /\ \A u \in CThreads : u # t => cth'[u] = cth[u]
  BY <1>1, <1>2, CSetThread
<1>7. CInner(t)' = CInner(t) /\ CRest(t)' = CRest(t)
  BY <1>1, <1>2, <1>3, <1>a, <1>b, <1>5, <1>6 DEF CInner, CRest, CInSub
<1>8. UNCHANGED <<call_rcu_data_list, default_crd, cpu_crd, thread_crd, living, pending, hold, owed>>
  BY <1>1 DEF cpointers, cprocess, cghosts
<1>9. CPlaced(t)'
  BY <1>1, <1>2, <1>3, <1>a, <1>b, <1>5, <1>6, <1>7, <1>8, CallRcuAssumption DEF CPlaced
<1>10. CUsed(t)'
  BY <1>1, <1>2, <1>3, <1>a, <1>b, <1>5, <1>6, <1>7, <1>8, CallRcuAssumption DEF CUsed
<1>11. CStopping(t)'
  BY <1>1, <1>2, <1>3, <1>a, <1>b, <1>5, <1>6, <1>7, <1>8, CallRcuAssumption DEF CStopping
<1>12. CChildOf(t)'
  BY <1>1, <1>2, <1>3, <1>a, <1>b, <1>5, <1>6, <1>7, <1>8, CallRcuAssumption DEF CChildOf, CInChild
<1>13. CWaits(t)
  BY <1>1, <1>2, <1>3, <1>a, <1>b, <1>5, <1>6, <1>7, <1>8, CallRcuAssumption DEF CWaits
<1>14. CToQueue(t)' = CToQueue(t)
  BY <1>1, <1>2, <1>3, <1>a, <1>b, <1>5, <1>6, <1>7, <1>8 DEF CToQueue
<1>15. CStep(t)
  BY <1>1, <1>2, <1>3, <1>a, <1>b, <1>5, <1>6, <1>7, <1>8, <1>14, CallRcuAssumption DEF CStep, CAllowed, CTakes
<1>16. cth[t].nest > 0 => r.nest > 0
  BY <1>2, <1>5
<1>17. completion' \in [CThreads -> CCompletion] /\ \A u \in CThreads : u # t => completion'[u] = completion[u]
  BY <1>1, <1>2
<1>18. call_rcu_mutex' = call_rcu_mutex \/ (call_rcu_mutex' \in {t, NULL} /\ call_rcu_mutex \in {t, NULL})
  BY <1>1, <1>2, <1>3 DEF CPlaced
<1> QED BY <1>1, <1>4, <1>9, <1>10, <1>11, <1>12, <1>13, <1>15, <1>16, <1>17, <1>18, CMoveThread

(* free_all_cpu_call_rcu_data() waits for the readers.                     *)
LEMMA CFreeSynchronize ==
    ASSUME CIInv, NEW t \in CThreads, FreeSynchronize(t)
    PROVE  CIInv'
<1> DEFINE r == [[cth[t] EXCEPT !.pc = "grace"] EXCEPT !.tpre = Reading]
<1> USE DEF CWaking, CCalling, CTaking, CFreeing, CBarrier, CForking
<1>1. /\ t \in living /\ cth[t].pc = "synchronize"
      /\ cth' = [cth EXCEPT ![t] = r] /\ crd' = crd
      /\ UNCHANGED <<cpointers, call_rcu_mutex, completion, cprocess, cghosts>>
  BY DEF FreeSynchronize, ReadersOfCrdp, cat, may, thread, At, Enter, Back, Lock
<1>2. /\ CTypeOK /\ cth[t] \in CThread /\ crd \in [Crdps -> CCrdp]
      /\ CPlaced(t) /\ CUsed(t) /\ CStopping(t) /\ CChildOf(t) /\ CList
      /\ CTakes(t) => CHasTaken(t) /\ cth[t].f \in Crdps
      /\ cth[t].ret \in Seq(CInnerPC) /\ cth[t].nest \in Nat
      /\ cth[t].todo \in Seq(Crdps) /\ Range(cth[t].todo) \subseteq Crdps
      /\ completion \in [CThreads -> CCompletion]
  BY CFacts
<1>3. CInner(t) = "synchronize" /\ CRest(t) = cth[t].ret
  BY <1>1, <1>2 DEF CInner, CRest, CInSub
<1>a. Reading \subseteq CThreads
  BY <1>2 DEF Reading, CTypeOK
<1>4. r \in CThread
  <2>1. cth[t] \in CThread /\ "grace" \in CThreadPC /\ Reading \in SUBSET CThreads
    BY <1>2, <1>a DEF CThreadPC, CInnerPC, Reading
  <2> QED BY ONLY <2>1 DEF CThread
<1>5. /\ r.pc = "grace" /\ r.ret = cth[t].ret /\ r.nest = cth[t].nest /\ r.h = cth[t].h
      /\ r.w = cth[t].w /\ r.f = cth[t].f /\ r.todo = cth[t].todo /\ r.tpre = Reading
  BY <1>2, <1>a DEF CThread
<1> HIDE DEF r
<1>6. cth'[t] = r /\ \A u \in CThreads : u # t => cth'[u] = cth[u]
  BY <1>1, <1>2, CSetThread
<1>7. CInner(t)' = "grace" /\ CRest(t)' = cth[t].ret
  BY <1>1, <1>2, <1>3, <1>a, <1>5, <1>6 DEF CInner, CRest, CInSub
<1>8. UNCHANGED <<call_rcu_data_list, default_crd, cpu_crd, thread_crd, living, pending, hold, owed>>
  BY <1>1 DEF cpointers, cprocess, cghosts
<1>9. CPlaced(t)'
  BY <1>1, <1>2, <1>3, <1>a, <1>5, <1>6, <1>7, <1>8, CallRcuAssumption DEF CPlaced
<1>10. CUsed(t)'
  BY <1>1, <1>2, <1>3, <1>a, <1>5, <1>6, <1>7, <1>8, CallRcuAssumption DEF CUsed
<1>11. CStopping(t)'
  BY <1>1, <1>2, <1>3, <1>a, <1>5, <1>6, <1>7, <1>8, CallRcuAssumption DEF CStopping
<1>12. CChildOf(t)'
  BY <1>1, <1>2, <1>3, <1>a, <1>5, <1>6, <1>7, <1>8, CallRcuAssumption DEF CChildOf, CInChild
<1>13. CWaits(t)
  BY <1>1, <1>2, <1>3, <1>a, <1>5, <1>6, <1>7, <1>8, CallRcuAssumption DEF CWaits
<1>14. CToQueue(t)' = CToQueue(t)
  BY <1>1, <1>2, <1>3, <1>a, <1>5, <1>6, <1>7, <1>8 DEF CToQueue
<1>15. CStep(t)
  BY <1>1, <1>2, <1>3, <1>a, <1>5, <1>6, <1>7, <1>8, <1>14, CallRcuAssumption DEF CStep, CAllowed, CTakes
<1>16. cth[t].nest > 0 => r.nest > 0
  BY <1>2, <1>5
<1>17. completion' \in [CThreads -> CCompletion] /\ \A u \in CThreads : u # t => completion'[u] = completion[u]
  BY <1>1, <1>2
<1>18. call_rcu_mutex' = call_rcu_mutex \/ (call_rcu_mutex' \in {t, NULL} /\ call_rcu_mutex \in {t, NULL})
  BY <1>1, <1>2, <1>3 DEF CPlaced
<1> QED BY <1>1, <1>4, <1>9, <1>10, <1>11, <1>12, <1>13, <1>15, <1>16, <1>17, <1>18, CMoveThread

(* The readers have gone.                                                  *)
LEMMA CFreeGracePeriodEnds ==
    ASSUME CIInv, NEW t \in CThreads, FreeGracePeriodEnds(t)
    PROVE  CIInv'
<1> DEFINE r == [cth[t] EXCEPT !.pc = "free", !.ret = <<"idle">> \o @]
<1> USE DEF CWaking, CCalling, CTaking, CFreeing, CBarrier, CForking
<1>1. /\ t \in living /\ cth[t].pc = "grace"
      /\ cth' = [cth EXCEPT ![t] = r] /\ crd' = crd
      /\ cth[t].tpre = {}
      /\ UNCHANGED <<cpointers, call_rcu_mutex, completion, cprocess, cghosts>>
  BY DEF FreeGracePeriodEnds, cat, may, thread, At, Enter, Back, Lock
<1>2. /\ CTypeOK /\ cth[t] \in CThread /\ crd \in [Crdps -> CCrdp]
      /\ CPlaced(t) /\ CUsed(t) /\ CStopping(t) /\ CChildOf(t) /\ CList
      /\ CTakes(t) => CHasTaken(t) /\ cth[t].f \in Crdps
      /\ cth[t].ret \in Seq(CInnerPC) /\ cth[t].nest \in Nat
      /\ cth[t].todo \in Seq(Crdps) /\ Range(cth[t].todo) \subseteq Crdps
      /\ completion \in [CThreads -> CCompletion]
  BY CFacts
<1>3. CInner(t) = "grace" /\ CRest(t) = cth[t].ret
  BY <1>1, <1>2 DEF CInner, CRest, CInSub
<1>a. cth[t].ret = << >> /\ <<"idle">> \o cth[t].ret = <<"idle">> /\ <<"idle">> \in Seq(CInnerPC)
  <2>1. cth[t].ret = << >>
    BY <1>1, <1>2, <1>3 DEF CPlaced
  <2> QED BY <2>1, CReturns DEF CInnerPC
<1>4. r \in CThread
  <2>1. /\ cth[t] \in CThread /\ "free" \in CThreadPC
        /\ <<"idle">> \o cth[t].ret \in Seq(CInnerPC)
    BY <1>2, <1>a DEF CThreadPC, CInnerPC
  <2> QED BY ONLY <2>1 DEF CThread
<1>5. /\ r.pc = "free" /\ r.ret = <<"idle">> /\ r.nest = cth[t].nest /\ r.h = cth[t].h
      /\ r.w = cth[t].w /\ r.f = cth[t].f /\ r.todo = cth[t].todo /\ r.tpre = cth[t].tpre
  BY <1>2, <1>a DEF CThread
<1> HIDE DEF r
<1>6. cth'[t] = r /\ \A u \in CThreads : u # t => cth'[u] = cth[u]
  BY <1>1, <1>2, CSetThread
<1>7. CInner(t)' = "free" /\ CRest(t)' = <<"idle">>
  BY <1>1, <1>2, <1>3, <1>a, <1>5, <1>6 DEF CInner, CRest, CInSub
<1>8. UNCHANGED <<call_rcu_data_list, default_crd, cpu_crd, thread_crd, living, pending, hold, owed>>
  BY <1>1 DEF cpointers, cprocess, cghosts
<1>9. CPlaced(t)'
  BY <1>1, <1>2, <1>3, <1>a, <1>5, <1>6, <1>7, <1>8, CallRcuAssumption DEF CPlaced
<1>10. CUsed(t)'
  BY <1>1, <1>2, <1>3, <1>a, <1>5, <1>6, <1>7, <1>8, CallRcuAssumption DEF CUsed
<1>11. CStopping(t)'
  BY <1>1, <1>2, <1>3, <1>a, <1>5, <1>6, <1>7, <1>8, CallRcuAssumption DEF CStopping
<1>12. CChildOf(t)'
  BY <1>1, <1>2, <1>3, <1>a, <1>5, <1>6, <1>7, <1>8, CallRcuAssumption DEF CChildOf, CInChild
<1>13. CWaits(t)
  BY <1>1, <1>2, <1>3, <1>a, <1>5, <1>6, <1>7, <1>8, CallRcuAssumption DEF CWaits
<1>14. CToQueue(t)' = CToQueue(t)
  BY <1>1, <1>2, <1>3, <1>a, <1>5, <1>6, <1>7, <1>8 DEF CToQueue
<1>15. CStep(t)
  BY <1>1, <1>2, <1>3, <1>a, <1>5, <1>6, <1>7, <1>8, <1>14, CallRcuAssumption DEF CStep, CAllowed, CTakes
<1>16. cth[t].nest > 0 => r.nest > 0
  BY <1>2, <1>5
<1>17. completion' \in [CThreads -> CCompletion] /\ \A u \in CThreads : u # t => completion'[u] = completion[u]
  BY <1>1, <1>2
<1>18. call_rcu_mutex' = call_rcu_mutex \/ (call_rcu_mutex' \in {t, NULL} /\ call_rcu_mutex \in {t, NULL})
  BY <1>1, <1>2, <1>3 DEF CPlaced
<1> QED BY <1>1, <1>4, <1>9, <1>10, <1>11, <1>12, <1>13, <1>15, <1>16, <1>17, <1>18, CMoveThread

(* set_cpu_call_rcu_data(): EEXIST.                                        *)
LEMMA CSetCpuExists ==
    ASSUME CIInv, NEW t \in CThreads, set_cpu_call_rcu_data(t), cpu_crd # NULL
    PROVE  CIInv'
<1> DEFINE r == [cth[t] EXCEPT !.pc = "free", !.ret = <<"idle">> \o @]
<1> USE DEF CWaking, CCalling, CTaking, CFreeing, CBarrier, CForking
<1>1. /\ t \in living /\ cth[t].pc = "set_cpu"
      /\ cth' = [cth EXCEPT ![t] = r] /\ crd' = crd
      /\ UNCHANGED <<cpointers, call_rcu_mutex, completion, cprocess, cghosts>>
  BY DEF set_cpu_call_rcu_data, cpointers, cat, may, thread, At, Enter, Back, Lock
<1>2. /\ CTypeOK /\ cth[t] \in CThread /\ crd \in [Crdps -> CCrdp]
      /\ CPlaced(t) /\ CUsed(t) /\ CStopping(t) /\ CChildOf(t) /\ CList
      /\ CTakes(t) => CHasTaken(t) /\ cth[t].f \in Crdps
      /\ cth[t].ret \in Seq(CInnerPC) /\ cth[t].nest \in Nat
      /\ cth[t].todo \in Seq(Crdps) /\ Range(cth[t].todo) \subseteq Crdps
      /\ completion \in [CThreads -> CCompletion]
  BY CFacts
<1>3. CInner(t) = "set_cpu" /\ CRest(t) = cth[t].ret
  BY <1>1, <1>2 DEF CInner, CRest, CInSub
<1>a. cth[t].ret = << >> /\ <<"idle">> \o cth[t].ret = <<"idle">> /\ <<"idle">> \in Seq(CInnerPC)
  <2>1. cth[t].ret = << >>
    BY <1>1, <1>2, <1>3 DEF CPlaced
  <2> QED BY <2>1, CReturns DEF CInnerPC
<1>4. r \in CThread
  <2>1. /\ cth[t] \in CThread /\ "free" \in CThreadPC
        /\ <<"idle">> \o cth[t].ret \in Seq(CInnerPC)
    BY <1>2, <1>a DEF CThreadPC, CInnerPC
  <2> QED BY ONLY <2>1 DEF CThread
<1>5. /\ r.pc = "free" /\ r.ret = <<"idle">> /\ r.nest = cth[t].nest /\ r.h = cth[t].h
      /\ r.w = cth[t].w /\ r.f = cth[t].f /\ r.todo = cth[t].todo /\ r.tpre = cth[t].tpre
  BY <1>2, <1>a DEF CThread
<1> HIDE DEF r
<1>6. cth'[t] = r /\ \A u \in CThreads : u # t => cth'[u] = cth[u]
  BY <1>1, <1>2, CSetThread
<1>7. CInner(t)' = "free" /\ CRest(t)' = <<"idle">>
  BY <1>1, <1>2, <1>3, <1>a, <1>5, <1>6 DEF CInner, CRest, CInSub
<1>8. UNCHANGED <<call_rcu_data_list, default_crd, cpu_crd, thread_crd, living, pending, hold, owed>>
  BY <1>1 DEF cpointers, cprocess, cghosts
<1>9. CPlaced(t)'
  BY <1>1, <1>2, <1>3, <1>a, <1>5, <1>6, <1>7, <1>8, CallRcuAssumption DEF CPlaced
<1>10. CUsed(t)'
  BY <1>1, <1>2, <1>3, <1>a, <1>5, <1>6, <1>7, <1>8, CallRcuAssumption DEF CUsed
<1>11. CStopping(t)'
  BY <1>1, <1>2, <1>3, <1>a, <1>5, <1>6, <1>7, <1>8, CallRcuAssumption DEF CStopping
<1>12. CChildOf(t)'
  BY <1>1, <1>2, <1>3, <1>a, <1>5, <1>6, <1>7, <1>8, CallRcuAssumption DEF CChildOf, CInChild
<1>13. CWaits(t)
  BY <1>1, <1>2, <1>3, <1>a, <1>5, <1>6, <1>7, <1>8, CallRcuAssumption DEF CWaits
<1>14. CToQueue(t)' = CToQueue(t)
  BY <1>1, <1>2, <1>3, <1>a, <1>5, <1>6, <1>7, <1>8 DEF CToQueue
<1>15. CStep(t)
  BY <1>1, <1>2, <1>3, <1>a, <1>5, <1>6, <1>7, <1>8, <1>14, CallRcuAssumption DEF CStep, CAllowed, CTakes
<1>16. cth[t].nest > 0 => r.nest > 0
  BY <1>2, <1>5
<1>17. completion' \in [CThreads -> CCompletion] /\ \A u \in CThreads : u # t => completion'[u] = completion[u]
  BY <1>1, <1>2
<1>18. call_rcu_mutex' = call_rcu_mutex \/ (call_rcu_mutex' \in {t, NULL} /\ call_rcu_mutex \in {t, NULL})
  BY <1>1, <1>2, <1>3 DEF CPlaced
<1> QED BY <1>1, <1>4, <1>9, <1>10, <1>11, <1>12, <1>13, <1>15, <1>16, <1>17, <1>18, CMoveThread

(* A barrier whose count is down to zero has nothing left to wait for.     *)
LEMMA CCountZero ==
    ASSUME CIInv, NEW t \in CThreads, CInner(t) \in CBarrier, CInner(t) # "bar_queue",
           completion[t].count = 0
    PROVE  owed[t] = {}
<1>0. /\ CTypeOK /\ CCovers(t) /\ CReferred(t) /\ CCallbacks /\ CWorkers
  BY DEF CIInv, CCover, CRefs
<1>1. IsFiniteSet(CWaited(t)) /\ Cardinality(CWaited(t)) \in Nat
  <2>1. IsFiniteSet(CWaited(t))
    BY <1>0, FS_Subset DEF CReferred, CWaited
  <2> QED BY <2>1, FS_CardinalityType
<1>2. Cardinality(CWaited(t)) = 0 /\ \A h \in owed[t] : CCovered(t, h)
  BY <1>0, <1>1 DEF CCovers
<1>3. CWaited(t) = {}
  BY <1>1, <1>2, FS_EmptySet
<1>4. ASSUME NEW h \in owed[t] PROVE FALSE
  <2>1. PICK c \in Crdps : CCoveredIn(t, h, c)
    BY <1>2, <1>4 DEF CCovered
  <2>2. h \in Heads
    BY <1>0, <1>4 DEF CTypeOK
  <2>3. crd[c].q \in Seq(CItem) /\ crd[c].batch \in Seq(CItem)
    BY <1>0 DEF CTypeOK, CCrdp
  <2>4. DOMAIN crd[c].q \subseteq Nat /\ Len(crd[c].batch) \in Nat /\ DOMAIN crd[c].batch = 1 .. Len(crd[c].batch)
    BY <2>3, CrSeq
  <2>5. h \in Range(crd[c].q) \/ h \in Range(crd[c].batch) => ~ CDoomed(c)
    BY <1>0, <2>2 DEF CDoomed, CCallbacks, CWorkers, CStopping, CWorking, CBatchPC, CComplete, Range
  <2>6. CASE h \in Range(crd[c].batch) /\ t \in Range(crd[c].q)
    <3>1. PICK i \in DOMAIN crd[c].q : crd[c].q[i] = t
      BY <2>6 DEF Range
    <3>2. <<"q", c, i>> \in CWaited(t)
      BY <2>4, <2>5, <2>6, <3>1 DEF CWaited, CTokens, CIsToken, CCounts
    <3> QED BY <1>3, <3>2
  <2>7. CASE CBehind(crd[c].q, h, t)
    <3>1. PICK i \in DOMAIN crd[c].q : crd[c].q[i] = t
      BY <2>7 DEF CBehind
    <3>2. h \in Range(crd[c].q)
      BY <2>7 DEF CBehind, Range
    <3>3. <<"q", c, i>> \in CWaited(t)
      BY <2>4, <2>5, <3>1, <3>2 DEF CWaited, CTokens, CIsToken, CCounts
    <3> QED BY <1>3, <3>3
  <2>8. CASE CBehind(crd[c].batch, h, t)
    <3> DEFINE n == Len(crd[c].batch)
    <3>1. PICK i \in DOMAIN crd[c].batch, j \in DOMAIN crd[c].batch : i < j /\ crd[c].batch[j] = t
      BY <2>8 DEF CBehind
    <3>0. n \in Nat /\ DOMAIN crd[c].batch = 1 .. n
      BY <2>4
    <3> HIDE DEF n
    <3>2. n - j \in Nat /\ n - (n - j) = j /\ n - j # n - 1
      BY ONLY <3>0, <3>1
    <3>3. <<"batch", c, n - j>> \in CWaited(t)
      BY <3>1, <3>2 DEF CWaited, CTokens, CIsToken, CCounts, n
    <3> QED BY <1>3, <3>3
  <2>9. c \notin CToQueue(t)
    BY DEF CToQueue
  <2> QED BY <2>1, <2>6, <2>7, <2>8, <2>9 DEF CCoveredIn
<1> QED BY <1>4

(* call_rcu_data_free() of a crdp whose worker has stopped.                *)
LEMMA CFreeStopped ==
    ASSUME CIInv, NEW t \in CThreads, call_rcu_data_free(t), "STOPPED" \in crd[cth[t].f].flags
    PROVE  CIInv'
<1> DEFINE r == [cth[t] EXCEPT !.pc = "leftover"]
<1> USE DEF CWaking, CCalling, CTaking, CFreeing, CBarrier, CForking
<1>1. /\ t \in living /\ cth[t].pc = "free"
      /\ cth' = [cth EXCEPT ![t] = r] /\ crd' = crd
      /\ UNCHANGED <<cpointers, call_rcu_mutex, completion, cprocess, cghosts>>
  BY DEF call_rcu_data_free, cat, may, thread, At, Enter, Back, Lock
<1>2. /\ CTypeOK /\ cth[t] \in CThread /\ crd \in [Crdps -> CCrdp]
      /\ CPlaced(t) /\ CUsed(t) /\ CStopping(t) /\ CChildOf(t) /\ CList
      /\ CTakes(t) => CHasTaken(t) /\ cth[t].f \in Crdps
      /\ cth[t].ret \in Seq(CInnerPC) /\ cth[t].nest \in Nat
      /\ cth[t].todo \in Seq(Crdps) /\ Range(cth[t].todo) \subseteq Crdps
      /\ completion \in [CThreads -> CCompletion]
  BY CFacts
<1>3. CInner(t) = "free" /\ CRest(t) = cth[t].ret
  BY <1>1, <1>2 DEF CInner, CRest, CInSub
<1>a. cth[t].f \in Crdps /\ crd[cth[t].f].wpc = "none"
  <2>1. cth[t].f \in Crdps
    BY <1>2, <1>3 DEF CTakes
  <2> QED BY <1>1, <2>1 DEF CIInv, CWorkers, CWorking
<1>4. r \in CThread
  <2>1. cth[t] \in CThread /\ "leftover" \in CThreadPC
    BY <1>2, <1>a DEF CThreadPC, CInnerPC
  <2> QED BY ONLY <2>1 DEF CThread
<1>5. /\ r.pc = "leftover" /\ r.ret = cth[t].ret /\ r.nest = cth[t].nest /\ r.h = cth[t].h
      /\ r.w = cth[t].w /\ r.f = cth[t].f /\ r.todo = cth[t].todo /\ r.tpre = cth[t].tpre
  BY <1>2, <1>a DEF CThread
<1> HIDE DEF r
<1>6. cth'[t] = r /\ \A u \in CThreads : u # t => cth'[u] = cth[u]
  BY <1>1, <1>2, CSetThread
<1>7. CInner(t)' = "leftover" /\ CRest(t)' = cth[t].ret
  BY <1>1, <1>2, <1>3, <1>a, <1>5, <1>6 DEF CInner, CRest, CInSub
<1>8. UNCHANGED <<call_rcu_data_list, default_crd, cpu_crd, thread_crd, living, pending, hold, owed>>
  BY <1>1 DEF cpointers, cprocess, cghosts
<1>9. CPlaced(t)'
  BY <1>1, <1>2, <1>3, <1>a, <1>5, <1>6, <1>7, <1>8, CallRcuAssumption DEF CPlaced
<1>10. CUsed(t)'
  BY <1>1, <1>2, <1>3, <1>a, <1>5, <1>6, <1>7, <1>8, CallRcuAssumption DEF CUsed
<1>11. CStopping(t)'
  BY <1>1, <1>2, <1>3, <1>a, <1>5, <1>6, <1>7, <1>8, CallRcuAssumption DEF CStopping
<1>12. CChildOf(t)'
  BY <1>1, <1>2, <1>3, <1>a, <1>5, <1>6, <1>7, <1>8, CallRcuAssumption DEF CChildOf, CInChild
<1>13. CWaits(t)
  BY <1>1, <1>2, <1>3, <1>a, <1>5, <1>6, <1>7, <1>8, CallRcuAssumption DEF CWaits
<1>14. CToQueue(t)' = CToQueue(t)
  BY <1>1, <1>2, <1>3, <1>a, <1>5, <1>6, <1>7, <1>8 DEF CToQueue
<1>15. CStep(t)
  BY <1>1, <1>2, <1>3, <1>a, <1>5, <1>6, <1>7, <1>8, <1>14, CallRcuAssumption DEF CStep, CAllowed, CTakes
<1>16. cth[t].nest > 0 => r.nest > 0
  BY <1>2, <1>5
<1>17. completion' \in [CThreads -> CCompletion] /\ \A u \in CThreads : u # t => completion'[u] = completion[u]
  BY <1>1, <1>2
<1>18. call_rcu_mutex' = call_rcu_mutex \/ (call_rcu_mutex' \in {t, NULL} /\ call_rcu_mutex \in {t, NULL})
  BY <1>1, <1>2, <1>3 DEF CPlaced
<1> QED BY <1>1, <1>4, <1>9, <1>10, <1>11, <1>12, <1>13, <1>15, <1>16, <1>17, <1>18, CMoveThread

(* The worker of a crdp that is freed has stopped.                         *)
LEMMA CWorkerStopped ==
    ASSUME CIInv, NEW t \in CThreads, WorkerStopped(t)
    PROVE  CIInv'
<1> DEFINE r == [cth[t] EXCEPT !.pc = "leftover"]
<1> USE DEF CWaking, CCalling, CTaking, CFreeing, CBarrier, CForking
<1>1. /\ t \in living /\ cth[t].pc = "stopping"
      /\ cth' = [cth EXCEPT ![t] = r] /\ crd' = crd
      /\ "STOPPED" \in crd[cth[t].f].flags
      /\ UNCHANGED <<cpointers, call_rcu_mutex, completion, cprocess, cghosts>>
  BY DEF WorkerStopped, cat, may, thread, At, Enter, Back, Lock
<1>2. /\ CTypeOK /\ cth[t] \in CThread /\ crd \in [Crdps -> CCrdp]
      /\ CPlaced(t) /\ CUsed(t) /\ CStopping(t) /\ CChildOf(t) /\ CList
      /\ CTakes(t) => CHasTaken(t) /\ cth[t].f \in Crdps
      /\ cth[t].ret \in Seq(CInnerPC) /\ cth[t].nest \in Nat
      /\ cth[t].todo \in Seq(Crdps) /\ Range(cth[t].todo) \subseteq Crdps
      /\ completion \in [CThreads -> CCompletion]
  BY CFacts
<1>3. CInner(t) = "stopping" /\ CRest(t) = cth[t].ret
  BY <1>1, <1>2 DEF CInner, CRest, CInSub
<1>a. cth[t].f \in Crdps /\ crd[cth[t].f].wpc = "none"
  <2>1. cth[t].f \in Crdps
    BY <1>2, <1>3 DEF CTakes
  <2> QED BY <1>1, <2>1 DEF CIInv, CWorkers, CWorking
<1>4. r \in CThread
  <2>1. cth[t] \in CThread /\ "leftover" \in CThreadPC
    BY <1>2, <1>a DEF CThreadPC, CInnerPC
  <2> QED BY ONLY <2>1 DEF CThread
<1>5. /\ r.pc = "leftover" /\ r.ret = cth[t].ret /\ r.nest = cth[t].nest /\ r.h = cth[t].h
      /\ r.w = cth[t].w /\ r.f = cth[t].f /\ r.todo = cth[t].todo /\ r.tpre = cth[t].tpre
  BY <1>2, <1>a DEF CThread
<1> HIDE DEF r
<1>6. cth'[t] = r /\ \A u \in CThreads : u # t => cth'[u] = cth[u]
  BY <1>1, <1>2, CSetThread
<1>7. CInner(t)' = "leftover" /\ CRest(t)' = cth[t].ret
  BY <1>1, <1>2, <1>3, <1>a, <1>5, <1>6 DEF CInner, CRest, CInSub
<1>8. UNCHANGED <<call_rcu_data_list, default_crd, cpu_crd, thread_crd, living, pending, hold, owed>>
  BY <1>1 DEF cpointers, cprocess, cghosts
<1>9. CPlaced(t)'
  BY <1>1, <1>2, <1>3, <1>a, <1>5, <1>6, <1>7, <1>8, CallRcuAssumption DEF CPlaced
<1>10. CUsed(t)'
  BY <1>1, <1>2, <1>3, <1>a, <1>5, <1>6, <1>7, <1>8, CallRcuAssumption DEF CUsed
<1>11. CStopping(t)'
  BY <1>1, <1>2, <1>3, <1>a, <1>5, <1>6, <1>7, <1>8, CallRcuAssumption DEF CStopping
<1>12. CChildOf(t)'
  BY <1>1, <1>2, <1>3, <1>a, <1>5, <1>6, <1>7, <1>8, CallRcuAssumption DEF CChildOf, CInChild
<1>13. CWaits(t)
  BY <1>1, <1>2, <1>3, <1>a, <1>5, <1>6, <1>7, <1>8, CallRcuAssumption DEF CWaits
<1>14. CToQueue(t)' = CToQueue(t)
  BY <1>1, <1>2, <1>3, <1>a, <1>5, <1>6, <1>7, <1>8 DEF CToQueue
<1>15. CStep(t)
  BY <1>1, <1>2, <1>3, <1>a, <1>5, <1>6, <1>7, <1>8, <1>14, CallRcuAssumption DEF CStep, CAllowed, CTakes
<1>16. cth[t].nest > 0 => r.nest > 0
  BY <1>2, <1>5
<1>17. completion' \in [CThreads -> CCompletion] /\ \A u \in CThreads : u # t => completion'[u] = completion[u]
  BY <1>1, <1>2
<1>18. call_rcu_mutex' = call_rcu_mutex \/ (call_rcu_mutex' \in {t, NULL} /\ call_rcu_mutex \in {t, NULL})
  BY <1>1, <1>2, <1>3 DEF CPlaced
<1> QED BY <1>1, <1>4, <1>9, <1>10, <1>11, <1>12, <1>13, <1>15, <1>16, <1>17, <1>18, CMoveThread

(* It has left nothing.                                                    *)
LEMMA CLeftNothing ==
    ASSUME CIInv, NEW t \in CThreads, Leftover(t), crd[cth[t].f].q = << >>
    PROVE  CIInv'
<1> DEFINE r == [cth[t] EXCEPT !.pc = "unlink"]
<1> USE DEF CWaking, CCalling, CTaking, CFreeing, CBarrier, CForking
<1>1. /\ t \in living /\ cth[t].pc = "leftover"
      /\ cth' = [cth EXCEPT ![t] = r] /\ crd' = crd
      /\ UNCHANGED <<cpointers, call_rcu_mutex, completion, cprocess, cghosts>>
  BY DEF Leftover, cat, may, thread, At, Enter, Back, Lock
<1>2. /\ CTypeOK /\ cth[t] \in CThread /\ crd \in [Crdps -> CCrdp]
      /\ CPlaced(t) /\ CUsed(t) /\ CStopping(t) /\ CChildOf(t) /\ CList
      /\ CTakes(t) => CHasTaken(t) /\ cth[t].f \in Crdps
      /\ cth[t].ret \in Seq(CInnerPC) /\ cth[t].nest \in Nat
      /\ cth[t].todo \in Seq(Crdps) /\ Range(cth[t].todo) \subseteq Crdps
      /\ completion \in [CThreads -> CCompletion]
  BY CFacts
<1>3. CInner(t) = "leftover" /\ CRest(t) = cth[t].ret
  BY <1>1, <1>2 DEF CInner, CRest, CInSub
<1>a. cth[t].f \in Crdps /\ crd[cth[t].f].wpc = "none"
  BY <1>2, <1>3 DEF CTakes, CStopping
<1>b. \A h \in Heads : h \notin Range(crd[cth[t].f].q)
  BY CrEmpty
<1>4. r \in CThread
  <2>1. cth[t] \in CThread /\ "unlink" \in CThreadPC
    BY <1>2, <1>a, <1>b DEF CThreadPC, CInnerPC
  <2> QED BY ONLY <2>1 DEF CThread
<1>5. /\ r.pc = "unlink" /\ r.ret = cth[t].ret /\ r.nest = cth[t].nest /\ r.h = cth[t].h
      /\ r.w = cth[t].w /\ r.f = cth[t].f /\ r.todo = cth[t].todo /\ r.tpre = cth[t].tpre
  BY <1>2, <1>a, <1>b DEF CThread
<1> HIDE DEF r
<1>6. cth'[t] = r /\ \A u \in CThreads : u # t => cth'[u] = cth[u]
  BY <1>1, <1>2, CSetThread
<1>7. CInner(t)' = "unlink" /\ CRest(t)' = cth[t].ret
  BY <1>1, <1>2, <1>3, <1>a, <1>b, <1>5, <1>6 DEF CInner, CRest, CInSub
<1>8. UNCHANGED <<call_rcu_data_list, default_crd, cpu_crd, thread_crd, living, pending, hold, owed>>
  BY <1>1 DEF cpointers, cprocess, cghosts
<1>9. CPlaced(t)'
  BY <1>1, <1>2, <1>3, <1>a, <1>b, <1>5, <1>6, <1>7, <1>8, CallRcuAssumption DEF CPlaced
<1>10. CUsed(t)'
  BY <1>1, <1>2, <1>3, <1>a, <1>b, <1>5, <1>6, <1>7, <1>8, CallRcuAssumption DEF CUsed
<1>11. CStopping(t)'
  BY <1>1, <1>2, <1>3, <1>a, <1>b, <1>5, <1>6, <1>7, <1>8, CallRcuAssumption DEF CStopping
<1>12. CChildOf(t)'
  BY <1>1, <1>2, <1>3, <1>a, <1>b, <1>5, <1>6, <1>7, <1>8, CallRcuAssumption DEF CChildOf, CInChild
<1>13. CWaits(t)
  BY <1>1, <1>2, <1>3, <1>a, <1>b, <1>5, <1>6, <1>7, <1>8, CallRcuAssumption DEF CWaits
<1>14. CToQueue(t)' = CToQueue(t)
  BY <1>1, <1>2, <1>3, <1>a, <1>b, <1>5, <1>6, <1>7, <1>8 DEF CToQueue
<1>15. CStep(t)
  BY <1>1, <1>2, <1>3, <1>a, <1>b, <1>5, <1>6, <1>7, <1>8, <1>14, CallRcuAssumption DEF CStep, CAllowed, CTakes
<1>16. cth[t].nest > 0 => r.nest > 0
  BY <1>2, <1>5
<1>17. completion' \in [CThreads -> CCompletion] /\ \A u \in CThreads : u # t => completion'[u] = completion[u]
  BY <1>1, <1>2
<1>18. call_rcu_mutex' = call_rcu_mutex \/ (call_rcu_mutex' \in {t, NULL} /\ call_rcu_mutex \in {t, NULL})
  BY <1>1, <1>2, <1>3 DEF CPlaced
<1> QED BY <1>1, <1>4, <1>9, <1>10, <1>11, <1>12, <1>13, <1>15, <1>16, <1>17, <1>18, CMoveThread

(* It has left callbacks, and there is a default crdp.                     *)
LEMMA CLeftToDefault ==
    ASSUME CIInv, NEW t \in CThreads, Leftover(t), crd[cth[t].f].q # << >>, default_crd # NULL
    PROVE  CIInv'
<1> DEFINE r == [[cth[t] EXCEPT !.pc = "migrate"] EXCEPT !.w = default_crd]
<1> USE DEF CWaking, CCalling, CTaking, CFreeing, CBarrier, CForking
<1>1. /\ t \in living /\ cth[t].pc = "leftover"
      /\ cth' = [cth EXCEPT ![t] = r] /\ crd' = crd
      /\ UNCHANGED <<cpointers, call_rcu_mutex, completion, cprocess, cghosts>>
  BY DEF Leftover, cat, may, thread, At, Enter, Back, Lock
<1>2. /\ CTypeOK /\ cth[t] \in CThread /\ crd \in [Crdps -> CCrdp]
      /\ CPlaced(t) /\ CUsed(t) /\ CStopping(t) /\ CChildOf(t) /\ CList
      /\ CTakes(t) => CHasTaken(t) /\ cth[t].f \in Crdps
      /\ cth[t].ret \in Seq(CInnerPC) /\ cth[t].nest \in Nat
      /\ cth[t].todo \in Seq(Crdps) /\ Range(cth[t].todo) \subseteq Crdps
      /\ completion \in [CThreads -> CCompletion]
  BY CFacts
<1>3. CInner(t) = "leftover" /\ CRest(t) = cth[t].ret
  BY <1>1, <1>2 DEF CInner, CRest, CInSub
<1>a. cth[t].f \in Crdps /\ crd[cth[t].f].wpc = "none"
  BY <1>2, <1>3 DEF CTakes, CStopping
<1>b. default_crd \in Crdps
  BY CFacts
<1>4. r \in CThread
  <2>1. cth[t] \in CThread /\ "migrate" \in CThreadPC /\ default_crd \in Crdps \cup {NULL}
    BY <1>2, <1>a, <1>b DEF CThreadPC, CInnerPC
  <2> QED BY ONLY <2>1 DEF CThread
<1>5. /\ r.pc = "migrate" /\ r.ret = cth[t].ret /\ r.nest = cth[t].nest /\ r.h = cth[t].h
      /\ r.w = default_crd /\ r.f = cth[t].f /\ r.todo = cth[t].todo /\ r.tpre = cth[t].tpre
  BY <1>2, <1>a, <1>b DEF CThread
<1> HIDE DEF r
<1>6. cth'[t] = r /\ \A u \in CThreads : u # t => cth'[u] = cth[u]
  BY <1>1, <1>2, CSetThread
<1>7. CInner(t)' = "migrate" /\ CRest(t)' = cth[t].ret
  BY <1>1, <1>2, <1>3, <1>a, <1>b, <1>5, <1>6 DEF CInner, CRest, CInSub
<1>8. UNCHANGED <<call_rcu_data_list, default_crd, cpu_crd, thread_crd, living, pending, hold, owed>>
  BY <1>1 DEF cpointers, cprocess, cghosts
<1>9. CPlaced(t)'
  BY <1>1, <1>2, <1>3, <1>a, <1>b, <1>5, <1>6, <1>7, <1>8, CallRcuAssumption DEF CPlaced
<1>10. CUsed(t)'
  BY <1>1, <1>2, <1>3, <1>a, <1>b, <1>5, <1>6, <1>7, <1>8, CallRcuAssumption DEF CUsed
<1>11. CStopping(t)'
  BY <1>1, <1>2, <1>3, <1>a, <1>b, <1>5, <1>6, <1>7, <1>8, CallRcuAssumption DEF CStopping
<1>12. CChildOf(t)'
  BY <1>1, <1>2, <1>3, <1>a, <1>b, <1>5, <1>6, <1>7, <1>8, CallRcuAssumption DEF CChildOf, CInChild
<1>13. CWaits(t)
  BY <1>1, <1>2, <1>3, <1>a, <1>b, <1>5, <1>6, <1>7, <1>8, CallRcuAssumption DEF CWaits
<1>14. CToQueue(t)' = CToQueue(t)
  BY <1>1, <1>2, <1>3, <1>a, <1>b, <1>5, <1>6, <1>7, <1>8 DEF CToQueue
<1>15. CStep(t)
  BY <1>1, <1>2, <1>3, <1>a, <1>b, <1>5, <1>6, <1>7, <1>8, <1>14, CallRcuAssumption DEF CStep, CAllowed, CTakes
<1>16. cth[t].nest > 0 => r.nest > 0
  BY <1>2, <1>5
<1>17. completion' \in [CThreads -> CCompletion] /\ \A u \in CThreads : u # t => completion'[u] = completion[u]
  BY <1>1, <1>2
<1>18. call_rcu_mutex' = call_rcu_mutex \/ (call_rcu_mutex' \in {t, NULL} /\ call_rcu_mutex \in {t, NULL})
  BY <1>1, <1>2, <1>3 DEF CPlaced
<1> QED BY <1>1, <1>4, <1>9, <1>10, <1>11, <1>12, <1>13, <1>15, <1>16, <1>17, <1>18, CMoveThread

(* It has left callbacks, and there is no default crdp.                    *)
LEMMA CLeftNoDefault ==
    ASSUME CIInv, NEW t \in CThreads, Leftover(t), crd[cth[t].f].q # << >>, default_crd = NULL
    PROVE  CIInv'
<1> DEFINE r == [cth[t] EXCEPT !.pc = "default", !.ret = <<"migrate">> \o @]
<1> USE DEF CWaking, CCalling, CTaking, CFreeing, CBarrier, CForking
<1>1. /\ t \in living /\ cth[t].pc = "leftover"
      /\ cth' = [cth EXCEPT ![t] = r] /\ crd' = crd
      /\ UNCHANGED <<cpointers, call_rcu_mutex, completion, cprocess, cghosts>>
  BY DEF Leftover, cat, may, thread, At, Enter, Back, Lock
<1>2. /\ CTypeOK /\ cth[t] \in CThread /\ crd \in [Crdps -> CCrdp]
      /\ CPlaced(t) /\ CUsed(t) /\ CStopping(t) /\ CChildOf(t) /\ CList
      /\ CTakes(t) => CHasTaken(t) /\ cth[t].f \in Crdps
      /\ cth[t].ret \in Seq(CInnerPC) /\ cth[t].nest \in Nat
      /\ cth[t].todo \in Seq(Crdps) /\ Range(cth[t].todo) \subseteq Crdps
      /\ completion \in [CThreads -> CCompletion]
  BY CFacts
<1>3. CInner(t) = "leftover" /\ CRest(t) = cth[t].ret
  BY <1>1, <1>2 DEF CInner, CRest, CInSub
<1>a. /\ <<"migrate">> \o cth[t].ret \in Seq(CInnerPC) /\ <<"migrate">> \o cth[t].ret # << >>
      /\ Head(<<"migrate">> \o cth[t].ret) = "migrate" /\ Tail(<<"migrate">> \o cth[t].ret) = cth[t].ret
  <2>1. "migrate" \in CInnerPC /\ cth[t].ret \in Seq(CInnerPC)
    BY <1>2 DEF CInnerPC
  <2> QED BY ONLY <2>1, CrCons
<1>b. cth[t].f \in Crdps /\ crd[cth[t].f].wpc = "none"
  BY <1>2, <1>3 DEF CTakes, CStopping
<1>4. r \in CThread
  <2>1. /\ cth[t] \in CThread /\ "default" \in CThreadPC
        /\ <<"migrate">> \o cth[t].ret \in Seq(CInnerPC)
    BY <1>2, <1>a, <1>b DEF CThreadPC, CInnerPC
  <2> QED BY ONLY <2>1 DEF CThread
<1>5. /\ r.pc = "default" /\ r.ret = <<"migrate">> \o cth[t].ret /\ r.nest = cth[t].nest /\ r.h = cth[t].h
      /\ r.w = cth[t].w /\ r.f = cth[t].f /\ r.todo = cth[t].todo /\ r.tpre = cth[t].tpre
  BY <1>2, <1>a, <1>b DEF CThread
<1> HIDE DEF r
<1>6. cth'[t] = r /\ \A u \in CThreads : u # t => cth'[u] = cth[u]
  BY <1>1, <1>2, CSetThread
<1>7. CInner(t)' = "migrate" /\ CRest(t)' = cth[t].ret
  BY <1>1, <1>2, <1>3, <1>a, <1>b, <1>5, <1>6 DEF CInner, CRest, CInSub
<1>8. UNCHANGED <<call_rcu_data_list, default_crd, cpu_crd, thread_crd, living, pending, hold, owed>>
  BY <1>1 DEF cpointers, cprocess, cghosts
<1>9. CPlaced(t)'
  BY <1>1, <1>2, <1>3, <1>a, <1>b, <1>5, <1>6, <1>7, <1>8, CallRcuAssumption DEF CPlaced
<1>10. CUsed(t)'
  BY <1>1, <1>2, <1>3, <1>a, <1>b, <1>5, <1>6, <1>7, <1>8, CallRcuAssumption DEF CUsed
<1>11. CStopping(t)'
  BY <1>1, <1>2, <1>3, <1>a, <1>b, <1>5, <1>6, <1>7, <1>8, CallRcuAssumption DEF CStopping
<1>12. CChildOf(t)'
  BY <1>1, <1>2, <1>3, <1>a, <1>b, <1>5, <1>6, <1>7, <1>8, CallRcuAssumption DEF CChildOf, CInChild
<1>13. CWaits(t)
  BY <1>1, <1>2, <1>3, <1>a, <1>b, <1>5, <1>6, <1>7, <1>8, CallRcuAssumption DEF CWaits
<1>14. CToQueue(t)' = CToQueue(t)
  BY <1>1, <1>2, <1>3, <1>a, <1>b, <1>5, <1>6, <1>7, <1>8 DEF CToQueue
<1>15. CStep(t)
  BY <1>1, <1>2, <1>3, <1>a, <1>b, <1>5, <1>6, <1>7, <1>8, <1>14, CallRcuAssumption DEF CStep, CAllowed, CTakes
<1>16. cth[t].nest > 0 => r.nest > 0
  BY <1>2, <1>5
<1>17. completion' \in [CThreads -> CCompletion] /\ \A u \in CThreads : u # t => completion'[u] = completion[u]
  BY <1>1, <1>2
<1>18. call_rcu_mutex' = call_rcu_mutex \/ (call_rcu_mutex' \in {t, NULL} /\ call_rcu_mutex \in {t, NULL})
  BY <1>1, <1>2, <1>3 DEF CPlaced
<1> QED BY <1>1, <1>4, <1>9, <1>10, <1>11, <1>12, <1>13, <1>15, <1>16, <1>17, <1>18, CMoveThread

(* The completion of rcu_barrier() has been queued everywhere.             *)
LEMMA CBarrierUnlock ==
    ASSUME CIInv, NEW t \in CThreads, BarrierUnlock(t)
    PROVE  CIInv'
<1> DEFINE r == [[cth[t] EXCEPT !.pc = "bar_dec"] EXCEPT !.w = NULL]
<1> USE DEF CWaking, CCalling, CTaking, CFreeing, CBarrier, CForking
<1>1. /\ t \in living /\ cth[t].pc = "bar_queue"
      /\ cth' = [cth EXCEPT ![t] = r] /\ crd' = crd
      /\ cth[t].todo = << >>
      /\ call_rcu_mutex' = NULL
      /\ UNCHANGED <<cpointers, completion, cprocess, cghosts>>
  BY DEF BarrierUnlock, cat, may, thread, At, Enter, Back, Lock
<1>2. /\ CTypeOK /\ cth[t] \in CThread /\ crd \in [Crdps -> CCrdp]
      /\ CPlaced(t) /\ CUsed(t) /\ CStopping(t) /\ CChildOf(t) /\ CList
      /\ CTakes(t) => CHasTaken(t) /\ cth[t].f \in Crdps
      /\ cth[t].ret \in Seq(CInnerPC) /\ cth[t].nest \in Nat
      /\ cth[t].todo \in Seq(Crdps) /\ Range(cth[t].todo) \subseteq Crdps
      /\ completion \in [CThreads -> CCompletion]
  BY CFacts
<1>3. CInner(t) = "bar_queue" /\ CRest(t) = cth[t].ret
  BY <1>1, <1>2 DEF CInner, CRest, CInSub
<1>a. Range(cth[t].todo) = {}
  BY <1>1, CrEmpty
<1>4. r \in CThread
  <2>1. cth[t] \in CThread /\ "bar_dec" \in CThreadPC /\ NULL \in Crdps \cup {NULL}
    BY <1>2, <1>a DEF CThreadPC, CInnerPC
  <2> QED BY ONLY <2>1 DEF CThread
<1>5. /\ r.pc = "bar_dec" /\ r.ret = cth[t].ret /\ r.nest = cth[t].nest /\ r.h = cth[t].h
      /\ r.w = NULL /\ r.f = cth[t].f /\ r.todo = cth[t].todo /\ r.tpre = cth[t].tpre
  BY <1>2, <1>a DEF CThread
<1> HIDE DEF r
<1>6. cth'[t] = r /\ \A u \in CThreads : u # t => cth'[u] = cth[u]
  BY <1>1, <1>2, CSetThread
<1>7. CInner(t)' = "bar_dec" /\ CRest(t)' = cth[t].ret
  BY <1>1, <1>2, <1>3, <1>a, <1>5, <1>6 DEF CInner, CRest, CInSub
<1>8. UNCHANGED <<call_rcu_data_list, default_crd, cpu_crd, thread_crd, living, pending, hold, owed>>
  BY <1>1 DEF cpointers, cprocess, cghosts
<1>9. CPlaced(t)'
  BY <1>1, <1>2, <1>3, <1>a, <1>5, <1>6, <1>7, <1>8, CallRcuAssumption DEF CPlaced
<1>10. CUsed(t)'
  BY <1>1, <1>2, <1>3, <1>a, <1>5, <1>6, <1>7, <1>8, CallRcuAssumption DEF CUsed
<1>11. CStopping(t)'
  BY <1>1, <1>2, <1>3, <1>a, <1>5, <1>6, <1>7, <1>8, CallRcuAssumption DEF CStopping
<1>12. CChildOf(t)'
  BY <1>1, <1>2, <1>3, <1>a, <1>5, <1>6, <1>7, <1>8, CallRcuAssumption DEF CChildOf, CInChild
<1>13. CWaits(t)
  BY <1>1, <1>2, <1>3, <1>a, <1>5, <1>6, <1>7, <1>8, CallRcuAssumption DEF CWaits
<1>14. CToQueue(t)' = CToQueue(t)
  BY <1>1, <1>2, <1>3, <1>a, <1>5, <1>6, <1>7, <1>8 DEF CToQueue
<1>15. CStep(t)
  BY <1>1, <1>2, <1>3, <1>a, <1>5, <1>6, <1>7, <1>8, <1>14, CallRcuAssumption DEF CStep, CAllowed, CTakes
<1>16. cth[t].nest > 0 => r.nest > 0
  BY <1>2, <1>5
<1>17. completion' \in [CThreads -> CCompletion] /\ \A u \in CThreads : u # t => completion'[u] = completion[u]
  BY <1>1, <1>2
<1>18. call_rcu_mutex' = call_rcu_mutex \/ (call_rcu_mutex' \in {t, NULL} /\ call_rcu_mutex \in {t, NULL})
  BY <1>1, <1>2, <1>3 DEF CPlaced
<1> QED BY <1>1, <1>4, <1>9, <1>10, <1>11, <1>12, <1>13, <1>15, <1>16, <1>17, <1>18, CMoveThread

(* rcu_barrier() arms its futex.                                           *)
LEMMA CBarrierDecrement ==
    ASSUME CIInv, NEW t \in CThreads, BarrierDecrement(t)
    PROVE  CIInv'
<1> DEFINE r == [cth[t] EXCEPT !.pc = "bar_count"]
<1> USE DEF CWaking, CCalling, CTaking, CFreeing, CBarrier, CForking
<1>1. /\ t \in living /\ cth[t].pc = "bar_dec"
      /\ cth' = [cth EXCEPT ![t] = r] /\ crd' = crd
      /\ completion' = [completion EXCEPT ![t].futex = dec(@)]
      /\ UNCHANGED <<cpointers, call_rcu_mutex, cprocess, cghosts>>
  BY DEF BarrierDecrement, cat, may, thread, At, Enter, Back, Lock
<1>2. /\ CTypeOK /\ cth[t] \in CThread /\ crd \in [Crdps -> CCrdp]
      /\ CPlaced(t) /\ CUsed(t) /\ CStopping(t) /\ CChildOf(t) /\ CList
      /\ CTakes(t) => CHasTaken(t) /\ cth[t].f \in Crdps
      /\ cth[t].ret \in Seq(CInnerPC) /\ cth[t].nest \in Nat
      /\ cth[t].todo \in Seq(Crdps) /\ Range(cth[t].todo) \subseteq Crdps
      /\ completion \in [CThreads -> CCompletion]
  BY CFacts
<1>3. CInner(t) = "bar_dec" /\ CRest(t) = cth[t].ret
  BY <1>1, <1>2 DEF CInner, CRest, CInSub
<1>a. /\ completion' \in [CThreads -> CCompletion] /\ \A u \in CThreads : u # t => completion'[u] = completion[u]
      /\ completion'[t].count = completion[t].count /\ completion'[t].ref = completion[t].ref
  <2> DEFINE k == [completion[t] EXCEPT !.futex = dec(completion[t].futex)]
  <2>1. completion' = [completion EXCEPT ![t] = k]
    BY <1>1
  <2>2. completion[t] \in CCompletion /\ dec(completion[t].futex) \in Int
    BY <1>2, CDecType DEF CCompletion
  <2>3. k \in CCompletion /\ k.count = completion[t].count /\ k.ref = completion[t].ref
    BY <2>2 DEF CCompletion
  <2> HIDE DEF k
  <2> QED BY <1>2, <2>1, <2>3
<1>4. r \in CThread
  <2>1. cth[t] \in CThread /\ "bar_count" \in CThreadPC
    BY <1>2, <1>a DEF CThreadPC, CInnerPC
  <2> QED BY ONLY <2>1 DEF CThread
<1>5. /\ r.pc = "bar_count" /\ r.ret = cth[t].ret /\ r.nest = cth[t].nest /\ r.h = cth[t].h
      /\ r.w = cth[t].w /\ r.f = cth[t].f /\ r.todo = cth[t].todo /\ r.tpre = cth[t].tpre
  BY <1>2, <1>a DEF CThread
<1> HIDE DEF r
<1>6. cth'[t] = r /\ \A u \in CThreads : u # t => cth'[u] = cth[u]
  BY <1>1, <1>2, CSetThread
<1>7. CInner(t)' = "bar_count" /\ CRest(t)' = cth[t].ret
  BY <1>1, <1>2, <1>3, <1>a, <1>5, <1>6 DEF CInner, CRest, CInSub
<1>8. UNCHANGED <<call_rcu_data_list, default_crd, cpu_crd, thread_crd, living, pending, hold, owed>>
  BY <1>1 DEF cpointers, cprocess, cghosts
<1>9. CPlaced(t)'
  BY <1>1, <1>2, <1>3, <1>a, <1>5, <1>6, <1>7, <1>8, CallRcuAssumption DEF CPlaced
<1>10. CUsed(t)'
  BY <1>1, <1>2, <1>3, <1>a, <1>5, <1>6, <1>7, <1>8, CallRcuAssumption DEF CUsed
<1>11. CStopping(t)'
  BY <1>1, <1>2, <1>3, <1>a, <1>5, <1>6, <1>7, <1>8, CallRcuAssumption DEF CStopping
<1>12. CChildOf(t)'
  BY <1>1, <1>2, <1>3, <1>a, <1>5, <1>6, <1>7, <1>8, CallRcuAssumption DEF CChildOf, CInChild
<1>13. CWaits(t)
  BY <1>1, <1>2, <1>3, <1>a, <1>5, <1>6, <1>7, <1>8, CallRcuAssumption DEF CWaits
<1>14. CToQueue(t)' = CToQueue(t)
  BY <1>1, <1>2, <1>3, <1>a, <1>5, <1>6, <1>7, <1>8 DEF CToQueue
<1>15. CStep(t)
  BY <1>1, <1>2, <1>3, <1>a, <1>5, <1>6, <1>7, <1>8, <1>14, CallRcuAssumption DEF CStep, CAllowed, CTakes
<1>16. cth[t].nest > 0 => r.nest > 0
  BY <1>2, <1>5
<1>17. completion' \in [CThreads -> CCompletion] /\ \A u \in CThreads : u # t => completion'[u] = completion[u]
  BY <1>a
<1>18. call_rcu_mutex' = call_rcu_mutex \/ (call_rcu_mutex' \in {t, NULL} /\ call_rcu_mutex \in {t, NULL})
  BY <1>1, <1>2, <1>3 DEF CPlaced
<1> QED BY <1>1, <1>4, <1>9, <1>10, <1>11, <1>12, <1>13, <1>15, <1>16, <1>17, <1>18, CMoveThread

(* The count is zero: rcu_barrier() returns.                               *)
LEMMA CBarrierCounted ==
    ASSUME CIInv, NEW t \in CThreads, BarrierCount(t), completion[t].count = 0
    PROVE  CIInv'
<1> DEFINE r == [cth[t] EXCEPT !.pc = "bar_return"]
<1> USE DEF CWaking, CCalling, CTaking, CFreeing, CBarrier, CForking
<1>1. /\ t \in living /\ cth[t].pc = "bar_count"
      /\ cth' = [cth EXCEPT ![t] = r] /\ crd' = crd
      /\ UNCHANGED <<cpointers, call_rcu_mutex, completion, cprocess, cghosts>>
  BY DEF BarrierCount, cat, may, thread, At, Enter, Back, Lock
<1>2. /\ CTypeOK /\ cth[t] \in CThread /\ crd \in [Crdps -> CCrdp]
      /\ CPlaced(t) /\ CUsed(t) /\ CStopping(t) /\ CChildOf(t) /\ CList
      /\ CTakes(t) => CHasTaken(t) /\ cth[t].f \in Crdps
      /\ cth[t].ret \in Seq(CInnerPC) /\ cth[t].nest \in Nat
      /\ cth[t].todo \in Seq(Crdps) /\ Range(cth[t].todo) \subseteq Crdps
      /\ completion \in [CThreads -> CCompletion]
  BY CFacts
<1>3. CInner(t) = "bar_count" /\ CRest(t) = cth[t].ret
  BY <1>1, <1>2 DEF CInner, CRest, CInSub
<1>a. owed[t] = {}
  BY <1>3, CCountZero
<1>4. r \in CThread
  <2>1. cth[t] \in CThread /\ "bar_return" \in CThreadPC
    BY <1>2, <1>a DEF CThreadPC, CInnerPC
  <2> QED BY ONLY <2>1 DEF CThread
<1>5. /\ r.pc = "bar_return" /\ r.ret = cth[t].ret /\ r.nest = cth[t].nest /\ r.h = cth[t].h
      /\ r.w = cth[t].w /\ r.f = cth[t].f /\ r.todo = cth[t].todo /\ r.tpre = cth[t].tpre
  BY <1>2, <1>a DEF CThread
<1> HIDE DEF r
<1>6. cth'[t] = r /\ \A u \in CThreads : u # t => cth'[u] = cth[u]
  BY <1>1, <1>2, CSetThread
<1>7. CInner(t)' = "bar_return" /\ CRest(t)' = cth[t].ret
  BY <1>1, <1>2, <1>3, <1>a, <1>5, <1>6 DEF CInner, CRest, CInSub
<1>8. UNCHANGED <<call_rcu_data_list, default_crd, cpu_crd, thread_crd, living, pending, hold, owed>>
  BY <1>1 DEF cpointers, cprocess, cghosts
<1>9. CPlaced(t)'
  BY <1>1, <1>2, <1>3, <1>a, <1>5, <1>6, <1>7, <1>8, CallRcuAssumption DEF CPlaced
<1>10. CUsed(t)'
  BY <1>1, <1>2, <1>3, <1>a, <1>5, <1>6, <1>7, <1>8, CallRcuAssumption DEF CUsed
<1>11. CStopping(t)'
  BY <1>1, <1>2, <1>3, <1>a, <1>5, <1>6, <1>7, <1>8, CallRcuAssumption DEF CStopping
<1>12. CChildOf(t)'
  BY <1>1, <1>2, <1>3, <1>a, <1>5, <1>6, <1>7, <1>8, CallRcuAssumption DEF CChildOf, CInChild
<1>13. CWaits(t)
  BY <1>1, <1>2, <1>3, <1>a, <1>5, <1>6, <1>7, <1>8, CallRcuAssumption DEF CWaits
<1>14. CToQueue(t)' = CToQueue(t)
  BY <1>1, <1>2, <1>3, <1>a, <1>5, <1>6, <1>7, <1>8 DEF CToQueue
<1>15. CStep(t)
  BY <1>1, <1>2, <1>3, <1>a, <1>5, <1>6, <1>7, <1>8, <1>14, CallRcuAssumption DEF CStep, CAllowed, CTakes
<1>16. cth[t].nest > 0 => r.nest > 0
  BY <1>2, <1>5
<1>17. completion' \in [CThreads -> CCompletion] /\ \A u \in CThreads : u # t => completion'[u] = completion[u]
  BY <1>1, <1>2
<1>18. call_rcu_mutex' = call_rcu_mutex \/ (call_rcu_mutex' \in {t, NULL} /\ call_rcu_mutex \in {t, NULL})
  BY <1>1, <1>2, <1>3 DEF CPlaced
<1> QED BY <1>1, <1>4, <1>9, <1>10, <1>11, <1>12, <1>13, <1>15, <1>16, <1>17, <1>18, CMoveThread

(* The count is not zero.                                                  *)
LEMMA CBarrierNotYet ==
    ASSUME CIInv, NEW t \in CThreads, BarrierCount(t), completion[t].count # 0
    PROVE  CIInv'
<1> DEFINE r == [cth[t] EXCEPT !.pc = "bar_wait"]
<1> USE DEF CWaking, CCalling, CTaking, CFreeing, CBarrier, CForking
<1>1. /\ t \in living /\ cth[t].pc = "bar_count"
      /\ cth' = [cth EXCEPT ![t] = r] /\ crd' = crd
      /\ UNCHANGED <<cpointers, call_rcu_mutex, completion, cprocess, cghosts>>
  BY DEF BarrierCount, cat, may, thread, At, Enter, Back, Lock
<1>2. /\ CTypeOK /\ cth[t] \in CThread /\ crd \in [Crdps -> CCrdp]
      /\ CPlaced(t) /\ CUsed(t) /\ CStopping(t) /\ CChildOf(t) /\ CList
      /\ CTakes(t) => CHasTaken(t) /\ cth[t].f \in Crdps
      /\ cth[t].ret \in Seq(CInnerPC) /\ cth[t].nest \in Nat
      /\ cth[t].todo \in Seq(Crdps) /\ Range(cth[t].todo) \subseteq Crdps
      /\ completion \in [CThreads -> CCompletion]
  BY CFacts
<1>3. CInner(t) = "bar_count" /\ CRest(t) = cth[t].ret
  BY <1>1, <1>2 DEF CInner, CRest, CInSub
<1>4. r \in CThread
  <2>1. cth[t] \in CThread /\ "bar_wait" \in CThreadPC
    BY <1>2 DEF CThreadPC, CInnerPC
  <2> QED BY ONLY <2>1 DEF CThread
<1>5. /\ r.pc = "bar_wait" /\ r.ret = cth[t].ret /\ r.nest = cth[t].nest /\ r.h = cth[t].h
      /\ r.w = cth[t].w /\ r.f = cth[t].f /\ r.todo = cth[t].todo /\ r.tpre = cth[t].tpre
  BY <1>2 DEF CThread
<1> HIDE DEF r
<1>6. cth'[t] = r /\ \A u \in CThreads : u # t => cth'[u] = cth[u]
  BY <1>1, <1>2, CSetThread
<1>7. CInner(t)' = "bar_wait" /\ CRest(t)' = cth[t].ret
  BY <1>1, <1>2, <1>3, <1>5, <1>6 DEF CInner, CRest, CInSub
<1>8. UNCHANGED <<call_rcu_data_list, default_crd, cpu_crd, thread_crd, living, pending, hold, owed>>
  BY <1>1 DEF cpointers, cprocess, cghosts
<1>9. CPlaced(t)'
  BY <1>1, <1>2, <1>3, <1>5, <1>6, <1>7, <1>8, CallRcuAssumption DEF CPlaced
<1>10. CUsed(t)'
  BY <1>1, <1>2, <1>3, <1>5, <1>6, <1>7, <1>8, CallRcuAssumption DEF CUsed
<1>11. CStopping(t)'
  BY <1>1, <1>2, <1>3, <1>5, <1>6, <1>7, <1>8, CallRcuAssumption DEF CStopping
<1>12. CChildOf(t)'
  BY <1>1, <1>2, <1>3, <1>5, <1>6, <1>7, <1>8, CallRcuAssumption DEF CChildOf, CInChild
<1>13. CWaits(t)
  BY <1>1, <1>2, <1>3, <1>5, <1>6, <1>7, <1>8, CallRcuAssumption DEF CWaits
<1>14. CToQueue(t)' = CToQueue(t)
  BY <1>1, <1>2, <1>3, <1>5, <1>6, <1>7, <1>8 DEF CToQueue
<1>15. CStep(t)
  BY <1>1, <1>2, <1>3, <1>5, <1>6, <1>7, <1>8, <1>14, CallRcuAssumption DEF CStep, CAllowed, CTakes
<1>16. cth[t].nest > 0 => r.nest > 0
  BY <1>2, <1>5
<1>17. completion' \in [CThreads -> CCompletion] /\ \A u \in CThreads : u # t => completion'[u] = completion[u]
  BY <1>1, <1>2
<1>18. call_rcu_mutex' = call_rcu_mutex \/ (call_rcu_mutex' \in {t, NULL} /\ call_rcu_mutex \in {t, NULL})
  BY <1>1, <1>2, <1>3 DEF CPlaced
<1> QED BY <1>1, <1>4, <1>9, <1>10, <1>11, <1>12, <1>13, <1>15, <1>16, <1>17, <1>18, CMoveThread

(* rcu_barrier() tests its futex, or sleeps on it.                         *)
LEMMA CCompletionWait ==
    ASSUME CIInv, NEW t \in CThreads, NEW p, call_rcu_completion_wait(t), p = (IF completion[t].futex = -1 THEN "bar_futex" ELSE "bar_dec")
    PROVE  CIInv'
<1> DEFINE r == [cth[t] EXCEPT !.pc = p]
<1> USE DEF CWaking, CCalling, CTaking, CFreeing, CBarrier, CForking
<1>1. /\ t \in living /\ cth[t].pc = "bar_wait"
      /\ cth' = [cth EXCEPT ![t] = r] /\ crd' = crd
      /\ UNCHANGED <<cpointers, call_rcu_mutex, completion, cprocess, cghosts>>
  BY DEF call_rcu_completion_wait, cat, may, thread, At, Enter, Back, Lock
<1>2. /\ CTypeOK /\ cth[t] \in CThread /\ crd \in [Crdps -> CCrdp]
      /\ CPlaced(t) /\ CUsed(t) /\ CStopping(t) /\ CChildOf(t) /\ CList
      /\ CTakes(t) => CHasTaken(t) /\ cth[t].f \in Crdps
      /\ cth[t].ret \in Seq(CInnerPC) /\ cth[t].nest \in Nat
      /\ cth[t].todo \in Seq(Crdps) /\ Range(cth[t].todo) \subseteq Crdps
      /\ completion \in [CThreads -> CCompletion]
  BY CFacts
<1>3. CInner(t) = "bar_wait" /\ CRest(t) = cth[t].ret
  BY <1>1, <1>2 DEF CInner, CRest, CInSub
<1>a. p \in {"bar_futex", "bar_dec"}
  OBVIOUS
<1>4. r \in CThread
  <2>1. cth[t] \in CThread /\ p \in CThreadPC
    BY <1>2, <1>a DEF CThreadPC, CInnerPC
  <2> QED BY ONLY <2>1 DEF CThread
<1>5. /\ r.pc = p /\ r.ret = cth[t].ret /\ r.nest = cth[t].nest /\ r.h = cth[t].h
      /\ r.w = cth[t].w /\ r.f = cth[t].f /\ r.todo = cth[t].todo /\ r.tpre = cth[t].tpre
  BY <1>2, <1>a DEF CThread
<1> HIDE DEF r
<1>6. cth'[t] = r /\ \A u \in CThreads : u # t => cth'[u] = cth[u]
  BY <1>1, <1>2, CSetThread
<1>7. CInner(t)' = p /\ CRest(t)' = cth[t].ret
  BY <1>1, <1>2, <1>3, <1>a, <1>5, <1>6 DEF CInner, CRest, CInSub
<1>8. UNCHANGED <<call_rcu_data_list, default_crd, cpu_crd, thread_crd, living, pending, hold, owed>>
  BY <1>1 DEF cpointers, cprocess, cghosts
<1>9. CPlaced(t)'
  BY <1>1, <1>2, <1>3, <1>a, <1>5, <1>6, <1>7, <1>8, CallRcuAssumption DEF CPlaced
<1>10. CUsed(t)'
  BY <1>1, <1>2, <1>3, <1>a, <1>5, <1>6, <1>7, <1>8, CallRcuAssumption DEF CUsed
<1>11. CStopping(t)'
  BY <1>1, <1>2, <1>3, <1>a, <1>5, <1>6, <1>7, <1>8, CallRcuAssumption DEF CStopping
<1>12. CChildOf(t)'
  BY <1>1, <1>2, <1>3, <1>a, <1>5, <1>6, <1>7, <1>8, CallRcuAssumption DEF CChildOf, CInChild
<1>13. CWaits(t)
  BY <1>1, <1>2, <1>3, <1>a, <1>5, <1>6, <1>7, <1>8, CallRcuAssumption DEF CWaits
<1>14. CToQueue(t)' = CToQueue(t)
  BY <1>1, <1>2, <1>3, <1>a, <1>5, <1>6, <1>7, <1>8 DEF CToQueue
<1>15. CStep(t)
  BY <1>1, <1>2, <1>3, <1>a, <1>5, <1>6, <1>7, <1>8, <1>14, CallRcuAssumption DEF CStep, CAllowed, CTakes
<1>16. cth[t].nest > 0 => r.nest > 0
  BY <1>2, <1>5
<1>17. completion' \in [CThreads -> CCompletion] /\ \A u \in CThreads : u # t => completion'[u] = completion[u]
  BY <1>1, <1>2
<1>18. call_rcu_mutex' = call_rcu_mutex \/ (call_rcu_mutex' \in {t, NULL} /\ call_rcu_mutex \in {t, NULL})
  BY <1>1, <1>2, <1>3 DEF CPlaced
<1> QED BY <1>1, <1>4, <1>9, <1>10, <1>11, <1>12, <1>13, <1>15, <1>16, <1>17, <1>18, CMoveThread

(* rcu_barrier() tests its futex, or sleeps on it.                         *)
LEMMA CCompletionFutexWait ==
    ASSUME CIInv, NEW t \in CThreads, NEW p, CompletionFutexWait(t), p = (IF completion[t].futex = -1 THEN "bar_asleep" ELSE "bar_dec")
    PROVE  CIInv'
<1> DEFINE r == [cth[t] EXCEPT !.pc = p]
<1> USE DEF CWaking, CCalling, CTaking, CFreeing, CBarrier, CForking
<1>1. /\ t \in living /\ cth[t].pc = "bar_futex"
      /\ cth' = [cth EXCEPT ![t] = r] /\ crd' = crd
      /\ UNCHANGED <<cpointers, call_rcu_mutex, completion, cprocess, cghosts>>
  BY DEF CompletionFutexWait, cat, may, thread, At, Enter, Back, Lock
<1>2. /\ CTypeOK /\ cth[t] \in CThread /\ crd \in [Crdps -> CCrdp]
      /\ CPlaced(t) /\ CUsed(t) /\ CStopping(t) /\ CChildOf(t) /\ CList
      /\ CTakes(t) => CHasTaken(t) /\ cth[t].f \in Crdps
      /\ cth[t].ret \in Seq(CInnerPC) /\ cth[t].nest \in Nat
      /\ cth[t].todo \in Seq(Crdps) /\ Range(cth[t].todo) \subseteq Crdps
      /\ completion \in [CThreads -> CCompletion]
  BY CFacts
<1>3. CInner(t) = "bar_futex" /\ CRest(t) = cth[t].ret
  BY <1>1, <1>2 DEF CInner, CRest, CInSub
<1>a. p \in {"bar_asleep", "bar_dec"}
  OBVIOUS
<1>4. r \in CThread
  <2>1. cth[t] \in CThread /\ p \in CThreadPC
    BY <1>2, <1>a DEF CThreadPC, CInnerPC
  <2> QED BY ONLY <2>1 DEF CThread
<1>5. /\ r.pc = p /\ r.ret = cth[t].ret /\ r.nest = cth[t].nest /\ r.h = cth[t].h
      /\ r.w = cth[t].w /\ r.f = cth[t].f /\ r.todo = cth[t].todo /\ r.tpre = cth[t].tpre
  BY <1>2, <1>a DEF CThread
<1> HIDE DEF r
<1>6. cth'[t] = r /\ \A u \in CThreads : u # t => cth'[u] = cth[u]
  BY <1>1, <1>2, CSetThread
<1>7. CInner(t)' = p /\ CRest(t)' = cth[t].ret
  BY <1>1, <1>2, <1>3, <1>a, <1>5, <1>6 DEF CInner, CRest, CInSub
<1>8. UNCHANGED <<call_rcu_data_list, default_crd, cpu_crd, thread_crd, living, pending, hold, owed>>
  BY <1>1 DEF cpointers, cprocess, cghosts
<1>9. CPlaced(t)'
  BY <1>1, <1>2, <1>3, <1>a, <1>5, <1>6, <1>7, <1>8, CallRcuAssumption DEF CPlaced
<1>10. CUsed(t)'
  BY <1>1, <1>2, <1>3, <1>a, <1>5, <1>6, <1>7, <1>8, CallRcuAssumption DEF CUsed
<1>11. CStopping(t)'
  BY <1>1, <1>2, <1>3, <1>a, <1>5, <1>6, <1>7, <1>8, CallRcuAssumption DEF CStopping
<1>12. CChildOf(t)'
  BY <1>1, <1>2, <1>3, <1>a, <1>5, <1>6, <1>7, <1>8, CallRcuAssumption DEF CChildOf, CInChild
<1>13. CWaits(t)
  BY <1>1, <1>2, <1>3, <1>a, <1>5, <1>6, <1>7, <1>8, CallRcuAssumption DEF CWaits
<1>14. CToQueue(t)' = CToQueue(t)
  BY <1>1, <1>2, <1>3, <1>a, <1>5, <1>6, <1>7, <1>8 DEF CToQueue
<1>15. CStep(t)
  BY <1>1, <1>2, <1>3, <1>a, <1>5, <1>6, <1>7, <1>8, <1>14, CallRcuAssumption DEF CStep, CAllowed, CTakes
<1>16. cth[t].nest > 0 => r.nest > 0
  BY <1>2, <1>5
<1>17. completion' \in [CThreads -> CCompletion] /\ \A u \in CThreads : u # t => completion'[u] = completion[u]
  BY <1>1, <1>2
<1>18. call_rcu_mutex' = call_rcu_mutex \/ (call_rcu_mutex' \in {t, NULL} /\ call_rcu_mutex \in {t, NULL})
  BY <1>1, <1>2, <1>3 DEF CPlaced
<1> QED BY <1>1, <1>4, <1>9, <1>10, <1>11, <1>12, <1>13, <1>15, <1>16, <1>17, <1>18, CMoveThread

(* rcu_barrier() returns, and drops its reference.                         *)
LEMMA CBarrierReturn ==
    ASSUME CIInv, NEW t \in CThreads, BarrierReturn(t)
    PROVE  CIInv'
<1> DEFINE r == [cth[t] EXCEPT !.pc = "idle"]
<1> USE DEF CWaking, CCalling, CTaking, CFreeing, CBarrier, CForking
<1>1. /\ t \in living /\ cth[t].pc = "bar_return"
      /\ cth' = [cth EXCEPT ![t] = r] /\ crd' = crd
      /\ completion' = [completion EXCEPT ![t].ref = @ - 1]
      /\ UNCHANGED <<cpointers, call_rcu_mutex, cprocess, cghosts>>
  BY DEF BarrierReturn, cat, may, thread, At, Enter, Back, Lock
<1>2. /\ CTypeOK /\ cth[t] \in CThread /\ crd \in [Crdps -> CCrdp]
      /\ CPlaced(t) /\ CUsed(t) /\ CStopping(t) /\ CChildOf(t) /\ CList
      /\ CTakes(t) => CHasTaken(t) /\ cth[t].f \in Crdps
      /\ cth[t].ret \in Seq(CInnerPC) /\ cth[t].nest \in Nat
      /\ cth[t].todo \in Seq(Crdps) /\ Range(cth[t].todo) \subseteq Crdps
      /\ completion \in [CThreads -> CCompletion]
  BY CFacts
<1>3. CInner(t) = "bar_return" /\ CRest(t) = cth[t].ret
  BY <1>1, <1>2 DEF CInner, CRest, CInSub
<1>a. /\ completion' \in [CThreads -> CCompletion] /\ \A u \in CThreads : u # t => completion'[u] = completion[u]
      /\ completion'[t].count = completion[t].count /\ completion'[t].ref = completion[t].ref - 1
  <2> DEFINE k == [completion[t] EXCEPT !.ref = completion[t].ref - 1]
  <2>1. completion' = [completion EXCEPT ![t] = k]
    BY <1>1
  <2>2. completion[t] \in CCompletion /\ completion[t].ref - 1 \in Int
    BY <1>2 DEF CCompletion
  <2>3. k \in CCompletion /\ k.count = completion[t].count /\ k.ref = completion[t].ref - 1
    BY <2>2 DEF CCompletion
  <2> HIDE DEF k
  <2> QED BY <1>2, <2>1, <2>3
<1>4. r \in CThread
  <2>1. cth[t] \in CThread /\ "idle" \in CThreadPC
    BY <1>2, <1>a DEF CThreadPC, CInnerPC
  <2> QED BY ONLY <2>1 DEF CThread
<1>5. /\ r.pc = "idle" /\ r.ret = cth[t].ret /\ r.nest = cth[t].nest /\ r.h = cth[t].h
      /\ r.w = cth[t].w /\ r.f = cth[t].f /\ r.todo = cth[t].todo /\ r.tpre = cth[t].tpre
  BY <1>2, <1>a DEF CThread
<1> HIDE DEF r
<1>6. cth'[t] = r /\ \A u \in CThreads : u # t => cth'[u] = cth[u]
  BY <1>1, <1>2, CSetThread
<1>7. CInner(t)' = "idle" /\ CRest(t)' = cth[t].ret
  BY <1>1, <1>2, <1>3, <1>a, <1>5, <1>6 DEF CInner, CRest, CInSub
<1>8. UNCHANGED <<call_rcu_data_list, default_crd, cpu_crd, thread_crd, living, pending, hold, owed>>
  BY <1>1 DEF cpointers, cprocess, cghosts
<1>9. CPlaced(t)'
  BY <1>1, <1>2, <1>3, <1>a, <1>5, <1>6, <1>7, <1>8, CallRcuAssumption DEF CPlaced
<1>10. CUsed(t)'
  BY <1>1, <1>2, <1>3, <1>a, <1>5, <1>6, <1>7, <1>8, CallRcuAssumption DEF CUsed
<1>11. CStopping(t)'
  BY <1>1, <1>2, <1>3, <1>a, <1>5, <1>6, <1>7, <1>8, CallRcuAssumption DEF CStopping
<1>12. CChildOf(t)'
  BY <1>1, <1>2, <1>3, <1>a, <1>5, <1>6, <1>7, <1>8, CallRcuAssumption DEF CChildOf, CInChild
<1>13. CWaits(t)
  BY <1>1, <1>2, <1>3, <1>a, <1>5, <1>6, <1>7, <1>8, CallRcuAssumption DEF CWaits
<1>14. CToQueue(t)' = CToQueue(t)
  BY <1>1, <1>2, <1>3, <1>a, <1>5, <1>6, <1>7, <1>8 DEF CToQueue
<1>15. CStep(t)
  BY <1>1, <1>2, <1>3, <1>a, <1>5, <1>6, <1>7, <1>8, <1>14, CallRcuAssumption DEF CStep, CAllowed, CTakes
<1>16. cth[t].nest > 0 => r.nest > 0
  BY <1>2, <1>5
<1>17. completion' \in [CThreads -> CCompletion] /\ \A u \in CThreads : u # t => completion'[u] = completion[u]
  BY <1>a
<1>18. call_rcu_mutex' = call_rcu_mutex \/ (call_rcu_mutex' \in {t, NULL} /\ call_rcu_mutex \in {t, NULL})
  BY <1>1, <1>2, <1>3 DEF CPlaced
<1> QED BY <1>1, <1>4, <1>9, <1>10, <1>11, <1>12, <1>13, <1>15, <1>16, <1>17, <1>18, CMoveThread

(* call_rcu_before_fork() takes the mutex.                                 *)
LEMMA CBeforeFork ==
    ASSUME CIInv, NEW t \in CThreads, call_rcu_before_fork(t)
    PROVE  CIInv'
<1> DEFINE r == [[cth[t] EXCEPT !.pc = "fork_pause"] EXCEPT !.todo = call_rcu_data_list]
<1> USE DEF CWaking, CCalling, CTaking, CFreeing, CBarrier, CForking
<1>1. /\ t \in living /\ cth[t].pc = "idle"
      /\ cth' = [cth EXCEPT ![t] = r] /\ crd' = crd
      /\ call_rcu_mutex = NULL
      /\ call_rcu_mutex' = t
      /\ UNCHANGED <<cpointers, completion, cprocess, cghosts>>
  BY DEF call_rcu_before_fork, cat, may, thread, At, Enter, Back, Lock
<1>2. /\ CTypeOK /\ cth[t] \in CThread /\ crd \in [Crdps -> CCrdp]
      /\ CPlaced(t) /\ CUsed(t) /\ CStopping(t) /\ CChildOf(t) /\ CList
      /\ CTakes(t) => CHasTaken(t) /\ cth[t].f \in Crdps
      /\ cth[t].ret \in Seq(CInnerPC) /\ cth[t].nest \in Nat
      /\ cth[t].todo \in Seq(Crdps) /\ Range(cth[t].todo) \subseteq Crdps
      /\ completion \in [CThreads -> CCompletion]
  BY CFacts
<1>3. CInner(t) = "idle" /\ CRest(t) = cth[t].ret
  BY <1>1, <1>2 DEF CInner, CRest, CInSub
<1>a. call_rcu_data_list \in Seq(Crdps) /\ IsInjective(call_rcu_data_list)
      /\ \A c \in Crdps : crd[c].live <=> c \in Range(call_rcu_data_list)
  BY <1>2 DEF CTypeOK, CList
<1>b. Range(call_rcu_data_list) \subseteq Crdps
  BY <1>a, CrSeq
<1>4. r \in CThread
  <2>1. cth[t] \in CThread /\ "fork_pause" \in CThreadPC /\ call_rcu_data_list \in Seq(Crdps)
    BY <1>2, <1>a, <1>b DEF CThreadPC, CInnerPC
  <2> QED BY ONLY <2>1 DEF CThread
<1>5. /\ r.pc = "fork_pause" /\ r.ret = cth[t].ret /\ r.nest = cth[t].nest /\ r.h = cth[t].h
      /\ r.w = cth[t].w /\ r.f = cth[t].f /\ r.todo = call_rcu_data_list /\ r.tpre = cth[t].tpre
  BY <1>2, <1>a, <1>b DEF CThread
<1> HIDE DEF r
<1>6. cth'[t] = r /\ \A u \in CThreads : u # t => cth'[u] = cth[u]
  BY <1>1, <1>2, CSetThread
<1>7. CInner(t)' = "fork_pause" /\ CRest(t)' = cth[t].ret
  BY <1>1, <1>2, <1>3, <1>a, <1>b, <1>5, <1>6 DEF CInner, CRest, CInSub
<1>8. UNCHANGED <<call_rcu_data_list, default_crd, cpu_crd, thread_crd, living, pending, hold, owed>>
  BY <1>1 DEF cpointers, cprocess, cghosts
<1>9. CPlaced(t)'
  BY <1>1, <1>2, <1>3, <1>a, <1>b, <1>5, <1>6, <1>7, <1>8, CallRcuAssumption DEF CPlaced
<1>10. CUsed(t)'
  BY <1>1, <1>2, <1>3, <1>a, <1>b, <1>5, <1>6, <1>7, <1>8, CallRcuAssumption DEF CUsed
<1>11. CStopping(t)'
  BY <1>1, <1>2, <1>3, <1>a, <1>b, <1>5, <1>6, <1>7, <1>8, CallRcuAssumption DEF CStopping
<1>12. CChildOf(t)'
  BY <1>1, <1>2, <1>3, <1>a, <1>b, <1>5, <1>6, <1>7, <1>8, CallRcuAssumption DEF CChildOf, CInChild
<1>13. CWaits(t)
  BY <1>1, <1>2, <1>3, <1>a, <1>b, <1>5, <1>6, <1>7, <1>8, CallRcuAssumption DEF CWaits
<1>14. CToQueue(t)' = CToQueue(t)
  BY <1>1, <1>2, <1>3, <1>a, <1>b, <1>5, <1>6, <1>7, <1>8 DEF CToQueue
<1>15. CStep(t)
  BY <1>1, <1>2, <1>3, <1>a, <1>b, <1>5, <1>6, <1>7, <1>8, <1>14, CallRcuAssumption DEF CStep, CAllowed, CTakes
<1>16. cth[t].nest > 0 => r.nest > 0
  BY <1>2, <1>5
<1>17. completion' \in [CThreads -> CCompletion] /\ \A u \in CThreads : u # t => completion'[u] = completion[u]
  BY <1>1, <1>2
<1>18. call_rcu_mutex' = call_rcu_mutex \/ (call_rcu_mutex' \in {t, NULL} /\ call_rcu_mutex \in {t, NULL})
  BY <1>1, <1>2, <1>3 DEF CPlaced
<1> QED BY <1>1, <1>4, <1>9, <1>10, <1>11, <1>12, <1>13, <1>15, <1>16, <1>17, <1>18, CMoveThread

(* Every worker has paused.                                                *)
LEMMA CForkPaused ==
    ASSUME CIInv, NEW t \in CThreads, ForkPaused(t)
    PROVE  CIInv'
<1> DEFINE r == [[cth[t] EXCEPT !.pc = "fork"] EXCEPT !.w = NULL]
<1> USE DEF CWaking, CCalling, CTaking, CFreeing, CBarrier, CForking
<1>1. /\ t \in living /\ cth[t].pc = "fork_pause"
      /\ cth' = [cth EXCEPT ![t] = r] /\ crd' = crd
      /\ cth[t].todo = << >> /\ \A c \in Range(call_rcu_data_list) : "PAUSED" \in crd[c].flags
      /\ UNCHANGED <<cpointers, call_rcu_mutex, completion, cprocess, cghosts>>
  BY DEF ForkPaused, AllPaused, Listed, cat, may, thread, At, Enter, Back, Lock
<1>2. /\ CTypeOK /\ cth[t] \in CThread /\ crd \in [Crdps -> CCrdp]
      /\ CPlaced(t) /\ CUsed(t) /\ CStopping(t) /\ CChildOf(t) /\ CList
      /\ CTakes(t) => CHasTaken(t) /\ cth[t].f \in Crdps
      /\ cth[t].ret \in Seq(CInnerPC) /\ cth[t].nest \in Nat
      /\ cth[t].todo \in Seq(Crdps) /\ Range(cth[t].todo) \subseteq Crdps
      /\ completion \in [CThreads -> CCompletion]
  BY CFacts
<1>3. CInner(t) = "fork_pause" /\ CRest(t) = cth[t].ret
  BY <1>1, <1>2 DEF CInner, CRest, CInSub
<1>a. Range(cth[t].todo) = {} /\ \A c \in Crdps : crd[c].live => "PAUSE" \in crd[c].flags /\ "PAUSED" \in crd[c].flags
  BY <1>1, <1>2, <1>3, CrEmpty DEF CStopping, CList
<1>4. r \in CThread
  <2>1. cth[t] \in CThread /\ "fork" \in CThreadPC /\ NULL \in Crdps \cup {NULL}
    BY <1>2, <1>a DEF CThreadPC, CInnerPC
  <2> QED BY ONLY <2>1 DEF CThread
<1>5. /\ r.pc = "fork" /\ r.ret = cth[t].ret /\ r.nest = cth[t].nest /\ r.h = cth[t].h
      /\ r.w = NULL /\ r.f = cth[t].f /\ r.todo = cth[t].todo /\ r.tpre = cth[t].tpre
  BY <1>2, <1>a DEF CThread
<1> HIDE DEF r
<1>6. cth'[t] = r /\ \A u \in CThreads : u # t => cth'[u] = cth[u]
  BY <1>1, <1>2, CSetThread
<1>7. CInner(t)' = "fork" /\ CRest(t)' = cth[t].ret
  BY <1>1, <1>2, <1>3, <1>a, <1>5, <1>6 DEF CInner, CRest, CInSub
<1>8. UNCHANGED <<call_rcu_data_list, default_crd, cpu_crd, thread_crd, living, pending, hold, owed>>
  BY <1>1 DEF cpointers, cprocess, cghosts
<1>9. CPlaced(t)'
  BY <1>1, <1>2, <1>3, <1>a, <1>5, <1>6, <1>7, <1>8, CallRcuAssumption DEF CPlaced
<1>10. CUsed(t)'
  BY <1>1, <1>2, <1>3, <1>a, <1>5, <1>6, <1>7, <1>8, CallRcuAssumption DEF CUsed
<1>11. CStopping(t)'
  BY <1>1, <1>2, <1>3, <1>a, <1>5, <1>6, <1>7, <1>8, CallRcuAssumption DEF CStopping
<1>12. CChildOf(t)'
  BY <1>1, <1>2, <1>3, <1>a, <1>5, <1>6, <1>7, <1>8, CallRcuAssumption DEF CChildOf, CInChild
<1>13. CWaits(t)
  BY <1>1, <1>2, <1>3, <1>a, <1>5, <1>6, <1>7, <1>8, CallRcuAssumption DEF CWaits
<1>14. CToQueue(t)' = CToQueue(t)
  BY <1>1, <1>2, <1>3, <1>a, <1>5, <1>6, <1>7, <1>8 DEF CToQueue
<1>15. CStep(t)
  BY <1>1, <1>2, <1>3, <1>a, <1>5, <1>6, <1>7, <1>8, <1>14, CallRcuAssumption DEF CStep, CAllowed, CTakes
<1>16. cth[t].nest > 0 => r.nest > 0
  BY <1>2, <1>5
<1>17. completion' \in [CThreads -> CCompletion] /\ \A u \in CThreads : u # t => completion'[u] = completion[u]
  BY <1>1, <1>2
<1>18. call_rcu_mutex' = call_rcu_mutex \/ (call_rcu_mutex' \in {t, NULL} /\ call_rcu_mutex \in {t, NULL})
  BY <1>1, <1>2, <1>3 DEF CPlaced
<1> QED BY <1>1, <1>4, <1>9, <1>10, <1>11, <1>12, <1>13, <1>15, <1>16, <1>17, <1>18, CMoveThread

(* The workers go on: call_rcu_after_fork_parent() returns.                *)
LEMMA CAfterForkUnlock ==
    ASSUME CIInv, NEW t \in CThreads, AfterForkParentUnlock(t)
    PROVE  CIInv'
<1> DEFINE r == [cth[t] EXCEPT !.pc = "idle"]
<1> USE DEF CWaking, CCalling, CTaking, CFreeing, CBarrier, CForking
<1>1. /\ t \in living /\ cth[t].pc = "fork_parent"
      /\ cth' = [cth EXCEPT ![t] = r] /\ crd' = crd
      /\ call_rcu_mutex' = NULL
      /\ UNCHANGED <<cpointers, completion, cprocess, cghosts>>
  BY DEF AfterForkParentUnlock, cat, may, thread, At, Enter, Back, Lock
<1>2. /\ CTypeOK /\ cth[t] \in CThread /\ crd \in [Crdps -> CCrdp]
      /\ CPlaced(t) /\ CUsed(t) /\ CStopping(t) /\ CChildOf(t) /\ CList
      /\ CTakes(t) => CHasTaken(t) /\ cth[t].f \in Crdps
      /\ cth[t].ret \in Seq(CInnerPC) /\ cth[t].nest \in Nat
      /\ cth[t].todo \in Seq(Crdps) /\ Range(cth[t].todo) \subseteq Crdps
      /\ completion \in [CThreads -> CCompletion]
  BY CFacts
<1>3. CInner(t) = "fork_parent" /\ CRest(t) = cth[t].ret
  BY <1>1, <1>2 DEF CInner, CRest, CInSub
<1>4. r \in CThread
  <2>1. cth[t] \in CThread /\ "idle" \in CThreadPC
    BY <1>2 DEF CThreadPC, CInnerPC
  <2> QED BY ONLY <2>1 DEF CThread
<1>5. /\ r.pc = "idle" /\ r.ret = cth[t].ret /\ r.nest = cth[t].nest /\ r.h = cth[t].h
      /\ r.w = cth[t].w /\ r.f = cth[t].f /\ r.todo = cth[t].todo /\ r.tpre = cth[t].tpre
  BY <1>2 DEF CThread
<1> HIDE DEF r
<1>6. cth'[t] = r /\ \A u \in CThreads : u # t => cth'[u] = cth[u]
  BY <1>1, <1>2, CSetThread
<1>7. CInner(t)' = "idle" /\ CRest(t)' = cth[t].ret
  BY <1>1, <1>2, <1>3, <1>5, <1>6 DEF CInner, CRest, CInSub
<1>8. UNCHANGED <<call_rcu_data_list, default_crd, cpu_crd, thread_crd, living, pending, hold, owed>>
  BY <1>1 DEF cpointers, cprocess, cghosts
<1>9. CPlaced(t)'
  BY <1>1, <1>2, <1>3, <1>5, <1>6, <1>7, <1>8, CallRcuAssumption DEF CPlaced
<1>10. CUsed(t)'
  BY <1>1, <1>2, <1>3, <1>5, <1>6, <1>7, <1>8, CallRcuAssumption DEF CUsed
<1>11. CStopping(t)'
  BY <1>1, <1>2, <1>3, <1>5, <1>6, <1>7, <1>8, CallRcuAssumption DEF CStopping
<1>12. CChildOf(t)'
  BY <1>1, <1>2, <1>3, <1>5, <1>6, <1>7, <1>8, CallRcuAssumption DEF CChildOf, CInChild
<1>13. CWaits(t)
  BY <1>1, <1>2, <1>3, <1>5, <1>6, <1>7, <1>8, CallRcuAssumption DEF CWaits
<1>14. CToQueue(t)' = CToQueue(t)
  BY <1>1, <1>2, <1>3, <1>5, <1>6, <1>7, <1>8 DEF CToQueue
<1>15. CStep(t)
  BY <1>1, <1>2, <1>3, <1>5, <1>6, <1>7, <1>8, <1>14, CallRcuAssumption DEF CStep, CAllowed, CTakes
<1>16. cth[t].nest > 0 => r.nest > 0
  BY <1>2, <1>5
<1>17. completion' \in [CThreads -> CCompletion] /\ \A u \in CThreads : u # t => completion'[u] = completion[u]
  BY <1>1, <1>2
<1>18. call_rcu_mutex' = call_rcu_mutex \/ (call_rcu_mutex' \in {t, NULL} /\ call_rcu_mutex \in {t, NULL})
  BY <1>1, <1>2, <1>3 DEF CPlaced
<1> QED BY <1>1, <1>4, <1>9, <1>10, <1>11, <1>12, <1>13, <1>15, <1>16, <1>17, <1>18, CMoveThread

(* call_rcu_after_fork_child() returns.                                    *)
LEMMA CChildDone ==
    ASSUME CIInv, NEW t \in CThreads, ChildDone(t)
    PROVE  CIInv'
<1> DEFINE r == [[cth[t] EXCEPT !.pc = "idle"] EXCEPT !.w = NULL]
<1> USE DEF CWaking, CCalling, CTaking, CFreeing, CBarrier, CForking
<1>1. /\ t \in living /\ cth[t].pc = "child_free"
      /\ cth' = [cth EXCEPT ![t] = r] /\ crd' = crd
      /\ UNCHANGED <<cpointers, call_rcu_mutex, completion, cprocess, cghosts>>
  BY DEF ChildDone, cat, may, thread, At, Enter, Back, Lock
<1>2. /\ CTypeOK /\ cth[t] \in CThread /\ crd \in [Crdps -> CCrdp]
      /\ CPlaced(t) /\ CUsed(t) /\ CStopping(t) /\ CChildOf(t) /\ CList
      /\ CTakes(t) => CHasTaken(t) /\ cth[t].f \in Crdps
      /\ cth[t].ret \in Seq(CInnerPC) /\ cth[t].nest \in Nat
      /\ cth[t].todo \in Seq(Crdps) /\ Range(cth[t].todo) \subseteq Crdps
      /\ completion \in [CThreads -> CCompletion]
  BY CFacts
<1>3. CInner(t) = "child_free" /\ CRest(t) = cth[t].ret
  BY <1>1, <1>2 DEF CInner, CRest, CInSub
<1>4. r \in CThread
  <2>1. cth[t] \in CThread /\ "idle" \in CThreadPC /\ NULL \in Crdps \cup {NULL}
    BY <1>2 DEF CThreadPC, CInnerPC
  <2> QED BY ONLY <2>1 DEF CThread
<1>5. /\ r.pc = "idle" /\ r.ret = cth[t].ret /\ r.nest = cth[t].nest /\ r.h = cth[t].h
      /\ r.w = NULL /\ r.f = cth[t].f /\ r.todo = cth[t].todo /\ r.tpre = cth[t].tpre
  BY <1>2 DEF CThread
<1> HIDE DEF r
<1>6. cth'[t] = r /\ \A u \in CThreads : u # t => cth'[u] = cth[u]
  BY <1>1, <1>2, CSetThread
<1>7. CInner(t)' = "idle" /\ CRest(t)' = cth[t].ret
  BY <1>1, <1>2, <1>3, <1>5, <1>6 DEF CInner, CRest, CInSub
<1>8. UNCHANGED <<call_rcu_data_list, default_crd, cpu_crd, thread_crd, living, pending, hold, owed>>
  BY <1>1 DEF cpointers, cprocess, cghosts
<1>9. CPlaced(t)'
  BY <1>1, <1>2, <1>3, <1>5, <1>6, <1>7, <1>8, CallRcuAssumption DEF CPlaced
<1>10. CUsed(t)'
  BY <1>1, <1>2, <1>3, <1>5, <1>6, <1>7, <1>8, CallRcuAssumption DEF CUsed
<1>11. CStopping(t)'
  BY <1>1, <1>2, <1>3, <1>5, <1>6, <1>7, <1>8, CallRcuAssumption DEF CStopping
<1>12. CChildOf(t)'
  BY <1>1, <1>2, <1>3, <1>5, <1>6, <1>7, <1>8, CallRcuAssumption DEF CChildOf, CInChild
<1>13. CWaits(t)
  BY <1>1, <1>2, <1>3, <1>5, <1>6, <1>7, <1>8, CallRcuAssumption DEF CWaits
<1>14. CToQueue(t)' = CToQueue(t)
  BY <1>1, <1>2, <1>3, <1>5, <1>6, <1>7, <1>8 DEF CToQueue
<1>15. CStep(t)
  BY <1>1, <1>2, <1>3, <1>5, <1>6, <1>7, <1>8, <1>14, CallRcuAssumption DEF CStep, CAllowed, CTakes
<1>16. cth[t].nest > 0 => r.nest > 0
  BY <1>2, <1>5
<1>17. completion' \in [CThreads -> CCompletion] /\ \A u \in CThreads : u # t => completion'[u] = completion[u]
  BY <1>1, <1>2
<1>18. call_rcu_mutex' = call_rcu_mutex \/ (call_rcu_mutex' \in {t, NULL} /\ call_rcu_mutex \in {t, NULL})
  BY <1>1, <1>2, <1>3 DEF CPlaced
<1> QED BY <1>1, <1>4, <1>9, <1>10, <1>11, <1>12, <1>13, <1>15, <1>16, <1>17, <1>18, CMoveThread

(* call_rcu_data_free() tells the worker to stop.                          *)
LEMMA CFreeStop ==
    ASSUME CIInv, NEW t \in CThreads, call_rcu_data_free(t), "STOPPED" \notin crd[cth[t].f].flags
    PROVE  CIInv'
<1> DEFINE r == [[cth[t] EXCEPT !.pc = "wake", !.ret = <<"stopping">> \o @] EXCEPT !.w = cth[t].f]
<1> USE DEF CWaking, CCalling, CTaking, CFreeing, CBarrier, CForking
<1>1. /\ t \in living /\ cth[t].pc = "free"
      /\ cth' = [cth EXCEPT ![t] = r]
      /\ UNCHANGED <<cpointers, call_rcu_mutex, completion, cprocess, cghosts>>
  BY DEF call_rcu_data_free, cat, may, thread, At, Enter, Back, Lock
<1>2. /\ CTypeOK /\ cth[t] \in CThread /\ crd \in [Crdps -> CCrdp]
      /\ CPlaced(t) /\ CUsed(t) /\ CStopping(t) /\ CChildOf(t) /\ CList
      /\ CTakes(t) => CHasTaken(t) /\ cth[t].f \in Crdps
      /\ cth[t].ret \in Seq(CInnerPC) /\ cth[t].nest \in Nat
      /\ cth[t].todo \in Seq(Crdps) /\ Range(cth[t].todo) \subseteq Crdps
      /\ completion \in [CThreads -> CCompletion]
  BY CFacts
<1>3. CInner(t) = "free" /\ CRest(t) = cth[t].ret
  BY <1>1, <1>2 DEF CInner, CRest, CInSub
<1>a. /\ <<"stopping">> \o cth[t].ret \in Seq(CInnerPC) /\ <<"stopping">> \o cth[t].ret # << >>
      /\ Head(<<"stopping">> \o cth[t].ret) = "stopping" /\ Tail(<<"stopping">> \o cth[t].ret) = cth[t].ret
  <2>1. "stopping" \in CInnerPC /\ cth[t].ret \in Seq(CInnerPC)
    BY <1>2 DEF CInnerPC
  <2> QED BY ONLY <2>1, CrCons
<1>b. cth[t].f \in Crdps /\ crd[cth[t].f].live
  BY <1>2, <1>3 DEF CTakes, CHasTaken
<1>4. r \in CThread
  <2>1. /\ cth[t] \in CThread /\ "wake" \in CThreadPC
        /\ <<"stopping">> \o cth[t].ret \in Seq(CInnerPC) /\ cth[t].f \in Crdps \cup {NULL}
    BY <1>2, <1>a, <1>b DEF CThreadPC, CInnerPC
  <2> QED BY ONLY <2>1 DEF CThread
<1>5. /\ r.pc = "wake" /\ r.ret = <<"stopping">> \o cth[t].ret /\ r.nest = cth[t].nest /\ r.h = cth[t].h
      /\ r.w = cth[t].f /\ r.f = cth[t].f /\ r.todo = cth[t].todo /\ r.tpre = cth[t].tpre
  BY <1>2, <1>a, <1>b DEF CThread
<1> HIDE DEF r
<1>6. cth'[t] = r /\ \A u \in CThreads : u # t => cth'[u] = cth[u]
  BY <1>1, <1>2, CSetThread
<1>7. CInner(t)' = "stopping" /\ CRest(t)' = cth[t].ret
  BY <1>1, <1>2, <1>3, <1>a, <1>b, <1>5, <1>6 DEF CInner, CRest, CInSub
<1>8. UNCHANGED <<call_rcu_data_list, default_crd, cpu_crd, thread_crd, living, pending, hold, owed>>
  BY <1>1 DEF cpointers, cprocess, cghosts
<1>g. crd' = [crd EXCEPT ![cth[t].f].flags = @ \cup {"STOP"}]
  BY DEF call_rcu_data_free
<1>c1. /\ crd' \in [Crdps -> CCrdp] /\ CQuietCrdps
       /\ \A d \in Crdps :
             /\ CWorking(d)'
             /\ crd'[d].wpre = crd[d].wpre
             /\ crd'[d].wpc = crd[d].wpc \/ crd'[d].wpc \notin {"grace", "run"} \cup CComplete
             /\ crd[d].flags \subseteq crd'[d].flags
       /\ crd'[cth[t].f].flags = crd[cth[t].f].flags \cup {"STOP"}
  <2> DEFINE k == [crd[cth[t].f] EXCEPT !.flags = @ \cup {"STOP"}]
  <2>1. crd' = [crd EXCEPT ![cth[t].f] = k]
    BY <1>g
  <2>2. crd[cth[t].f] \in CCrdp
    BY <1>2, <1>b
  <2>3. k \in CCrdp /\ k.live = crd[cth[t].f].live /\ k.q = crd[cth[t].f].q /\ k.batch = crd[cth[t].f].batch
        /\ k.wpre = crd[cth[t].f].wpre /\ k.wpc = crd[cth[t].f].wpc /\ k.flags = crd[cth[t].f].flags \cup {"STOP"}
    BY <2>2 DEF CCrdp, CFlags
  <2> HIDE DEF k
  <2> QED BY <1>b, <2>1, <2>3, CTouch
<1>9. CPlaced(t)'
  BY <1>1, <1>2, <1>3, <1>a, <1>b, <1>c1, <1>5, <1>6, <1>7, <1>8, CallRcuAssumption DEF CPlaced
<1>10. CUsed(t)'
  BY <1>1, <1>2, <1>3, <1>a, <1>b, <1>c1, <1>5, <1>6, <1>7, <1>8, CallRcuAssumption DEF CUsed, CQuietCrdps
<1>11. CStopping(t)'
  BY <1>1, <1>2, <1>3, <1>a, <1>b, <1>c1, <1>5, <1>6, <1>7, <1>8, CallRcuAssumption DEF CStopping, CQuietCrdps
<1>12. CChildOf(t)'
  <2>1. CInChild(t)' => CInChild(t)
    BY <1>3, <1>7 DEF CInChild
  <2>2. \A c \in Crdps : (crd[c].wpc = "none" => crd'[c].wpc = "none") /\ crd'[c].live = crd[c].live
    BY <1>c1 DEF CQuietCrdps
  <2>3. cth'[t].todo = cth[t].todo /\ cth'[t].f = cth[t].f /\ cth[t].pc # "default"
    BY <1>1, <1>5, <1>6
  <2>4. CInner(t) # "child" /\ CInner(t)' # "child" /\ CInner(t) \in CFreeing
    BY <1>3, <1>7
  <2> QED BY <2>1, <2>2, <2>3, <2>4, <1>2, <1>8 DEF CChildOf
<1>13. CWaits(t)
  BY <1>1, <1>2, <1>3, <1>a, <1>b, <1>c1, <1>5, <1>6, <1>7, <1>8, CallRcuAssumption DEF CWaits
<1>14. CToQueue(t)' = CToQueue(t)
  BY <1>1, <1>2, <1>3, <1>a, <1>b, <1>c1, <1>5, <1>6, <1>7, <1>8 DEF CToQueue
<1>15. CStep(t)
  BY <1>1, <1>2, <1>3, <1>a, <1>b, <1>c1, <1>5, <1>6, <1>7, <1>8, <1>14, CallRcuAssumption DEF CStep, CAllowed, CTakes
<1>16. cth[t].nest > 0 => r.nest > 0
  BY <1>2, <1>5
<1>17. completion' \in [CThreads -> CCompletion] /\ \A u \in CThreads : u # t => completion'[u] = completion[u]
  BY <1>1, <1>2
<1>18. call_rcu_mutex' = call_rcu_mutex \/ (call_rcu_mutex' \in {t, NULL} /\ call_rcu_mutex \in {t, NULL})
  BY <1>1, <1>2, <1>3 DEF CPlaced
<1> QED BY <1>1, <1>4, <1>9, <1>10, <1>11, <1>12, <1>13, <1>15, <1>16, <1>17, <1>18, <1>c1, CMoveTo

(* call_rcu_before_fork() asks a worker to pause.                          *)
LEMMA CForkPause ==
    ASSUME CIInv, NEW t \in CThreads, ForkPause(t)
    PROVE  CIInv'
<1> DEFINE r == [[[cth[t] EXCEPT !.pc = "wake", !.ret = <<"fork_pause">> \o @] EXCEPT !.w = Head(cth[t].todo)] EXCEPT !.todo = Tail(cth[t].todo)]
<1> USE DEF CWaking, CCalling, CTaking, CFreeing, CBarrier, CForking
<1>1. /\ t \in living /\ cth[t].pc = "fork_pause"
      /\ cth' = [cth EXCEPT ![t] = r]
      /\ cth[t].todo # << >>
      /\ UNCHANGED <<cpointers, call_rcu_mutex, completion, cprocess, cghosts>>
  BY DEF ForkPause, cat, may, thread, At, Enter, Back, Lock
<1>2. /\ CTypeOK /\ cth[t] \in CThread /\ crd \in [Crdps -> CCrdp]
      /\ CPlaced(t) /\ CUsed(t) /\ CStopping(t) /\ CChildOf(t) /\ CList
      /\ CTakes(t) => CHasTaken(t) /\ cth[t].f \in Crdps
      /\ cth[t].ret \in Seq(CInnerPC) /\ cth[t].nest \in Nat
      /\ cth[t].todo \in Seq(Crdps) /\ Range(cth[t].todo) \subseteq Crdps
      /\ completion \in [CThreads -> CCompletion]
  BY CFacts
<1>3. CInner(t) = "fork_pause" /\ CRest(t) = cth[t].ret
  BY <1>1, <1>2 DEF CInner, CRest, CInSub
<1>a. /\ <<"fork_pause">> \o cth[t].ret \in Seq(CInnerPC) /\ <<"fork_pause">> \o cth[t].ret # << >>
      /\ Head(<<"fork_pause">> \o cth[t].ret) = "fork_pause" /\ Tail(<<"fork_pause">> \o cth[t].ret) = cth[t].ret
  <2>1. "fork_pause" \in CInnerPC /\ cth[t].ret \in Seq(CInnerPC)
    BY <1>2 DEF CInnerPC
  <2> QED BY ONLY <2>1, CrCons
<1>b. cth[t].todo[1] \in Crdps /\ crd[cth[t].todo[1]].live
  <2>1. cth[t].todo[1] \in Range(cth[t].todo)
    BY <1>1, <1>2, CrTail
  <2> QED BY <1>2, <1>3, <2>1 DEF CUsed
<1>c. /\ Head(cth[t].todo) = cth[t].todo[1] /\ Tail(cth[t].todo) \in Seq(Crdps)
      /\ Range(cth[t].todo) = Range(Tail(cth[t].todo)) \cup {cth[t].todo[1]}
      /\ IsInjective(cth[t].todo) => IsInjective(Tail(cth[t].todo))
  BY <1>1, <1>2, CrTail
<1>4. r \in CThread
  <2>1. /\ cth[t] \in CThread /\ "wake" \in CThreadPC
        /\ <<"fork_pause">> \o cth[t].ret \in Seq(CInnerPC)
        /\ Head(cth[t].todo) \in Crdps \cup {NULL} /\ Tail(cth[t].todo) \in Seq(Crdps)
    BY <1>2, <1>a, <1>b, <1>c DEF CThreadPC, CInnerPC
  <2> QED BY ONLY <2>1 DEF CThread
<1>5. /\ r.pc = "wake" /\ r.ret = <<"fork_pause">> \o cth[t].ret /\ r.nest = cth[t].nest /\ r.h = cth[t].h
      /\ r.w = cth[t].todo[1] /\ r.f = cth[t].f /\ r.todo = Tail(cth[t].todo) /\ r.tpre = cth[t].tpre
  BY <1>2, <1>a, <1>b, <1>c DEF CThread
<1> HIDE DEF r
<1>6. cth'[t] = r /\ \A u \in CThreads : u # t => cth'[u] = cth[u]
  BY <1>1, <1>2, CSetThread
<1>7. CInner(t)' = "fork_pause" /\ CRest(t)' = cth[t].ret
  BY <1>1, <1>2, <1>3, <1>a, <1>b, <1>c, <1>5, <1>6 DEF CInner, CRest, CInSub
<1>8. UNCHANGED <<call_rcu_data_list, default_crd, cpu_crd, thread_crd, living, pending, hold, owed>>
  BY <1>1 DEF cpointers, cprocess, cghosts
<1>g. crd' = [crd EXCEPT ![cth[t].todo[1]].flags = @ \cup {"PAUSE"}]
  BY <1>c DEF ForkPause
<1>c1. /\ crd' \in [Crdps -> CCrdp] /\ CQuietCrdps
       /\ \A d \in Crdps :
             /\ CWorking(d)'
             /\ crd'[d].wpre = crd[d].wpre
             /\ crd'[d].wpc = crd[d].wpc \/ crd'[d].wpc \notin {"grace", "run"} \cup CComplete
             /\ crd[d].flags \subseteq crd'[d].flags
       /\ crd'[cth[t].todo[1]].flags = crd[cth[t].todo[1]].flags \cup {"PAUSE"}
  <2> DEFINE k == [crd[cth[t].todo[1]] EXCEPT !.flags = @ \cup {"PAUSE"}]
  <2>1. crd' = [crd EXCEPT ![cth[t].todo[1]] = k]
    BY <1>g
  <2>2. crd[cth[t].todo[1]] \in CCrdp
    BY <1>2, <1>b
  <2>3. k \in CCrdp /\ k.live = crd[cth[t].todo[1]].live /\ k.q = crd[cth[t].todo[1]].q /\ k.batch = crd[cth[t].todo[1]].batch
        /\ k.wpre = crd[cth[t].todo[1]].wpre /\ k.wpc = crd[cth[t].todo[1]].wpc /\ k.flags = crd[cth[t].todo[1]].flags \cup {"PAUSE"}
    BY <2>2 DEF CCrdp, CFlags
  <2> HIDE DEF k
  <2> QED BY <1>b, <2>1, <2>3, CTouch
<1>9. CPlaced(t)'
  BY <1>1, <1>2, <1>3, <1>a, <1>b, <1>c, <1>c1, <1>5, <1>6, <1>7, <1>8, CallRcuAssumption DEF CPlaced
<1>10. CUsed(t)'
  <2>1. \A c \in Crdps : crd'[c].live = crd[c].live
    BY <1>c1 DEF CQuietCrdps
  <2>2. /\ cth'[t].w = cth[t].todo[1] /\ cth'[t].todo = Tail(cth[t].todo) /\ cth'[t].pc = "wake"
        /\ cth[t].todo[1] # NULL
    BY <1>5, <1>6, <1>b, CallRcuAssumption
  <2>3. IsInjective(cth'[t].todo) /\ Range(cth'[t].todo) \subseteq Range(cth[t].todo)
    BY <1>2, <1>3, <1>c, <2>2 DEF CUsed
  <2> QED BY <1>2, <1>3, <1>b, <1>7, <1>8, <2>1, <2>2, <2>3 DEF CUsed
<1>11. CStopping(t)'
  <2>1. \A c \in Crdps : crd[c].live /\ c \notin Range(cth[t].todo) => "PAUSE" \in crd[c].flags
    BY <1>2, <1>3 DEF CStopping
  <2>2. \A c \in Crdps : crd'[c].live = crd[c].live
    BY <1>c1 DEF CQuietCrdps
  <2>3. \A c \in Crdps : c \notin Range(cth'[t].todo) => c \notin Range(cth[t].todo) \/ c = cth[t].todo[1]
    BY <1>5, <1>6, <1>c
  <2>4. \A c \in Crdps : crd'[c].live /\ c \notin Range(cth'[t].todo) => "PAUSE" \in crd'[c].flags
    BY <1>c1, <2>1, <2>2, <2>3
  <2> QED BY <1>7, <2>4 DEF CStopping
<1>12. CChildOf(t)'
  BY <1>1, <1>2, <1>3, <1>a, <1>b, <1>c, <1>c1, <1>5, <1>6, <1>7, <1>8, CallRcuAssumption DEF CChildOf, CInChild, CQuietCrdps
<1>13. CWaits(t)
  BY <1>1, <1>2, <1>3, <1>a, <1>b, <1>c, <1>c1, <1>5, <1>6, <1>7, <1>8, CallRcuAssumption DEF CWaits
<1>14. CToQueue(t)' = CToQueue(t)
  BY <1>1, <1>2, <1>3, <1>a, <1>b, <1>c, <1>c1, <1>5, <1>6, <1>7, <1>8 DEF CToQueue
<1>15. CStep(t)
  BY <1>1, <1>2, <1>3, <1>a, <1>b, <1>c, <1>c1, <1>5, <1>6, <1>7, <1>8, <1>14, CallRcuAssumption DEF CStep, CAllowed, CTakes
<1>16. cth[t].nest > 0 => r.nest > 0
  BY <1>2, <1>5
<1>17. completion' \in [CThreads -> CCompletion] /\ \A u \in CThreads : u # t => completion'[u] = completion[u]
  BY <1>1, <1>2
<1>18. call_rcu_mutex' = call_rcu_mutex \/ (call_rcu_mutex' \in {t, NULL} /\ call_rcu_mutex \in {t, NULL})
  BY <1>1, <1>2, <1>3 DEF CPlaced
<1> QED BY <1>1, <1>4, <1>9, <1>10, <1>11, <1>12, <1>13, <1>15, <1>16, <1>17, <1>18, <1>c1, CMoveTo

(* call_rcu_after_fork_parent() lets the workers go on.                    *)
LEMMA CAfterForkParent ==
    ASSUME CIInv, NEW t \in CThreads, call_rcu_after_fork_parent(t)
    PROVE  CIInv'
<1> DEFINE r == [cth[t] EXCEPT !.pc = "fork_parent"]
<1> USE DEF CWaking, CCalling, CTaking, CFreeing, CBarrier, CForking
<1>1. /\ t \in living /\ cth[t].pc = "fork"
      /\ cth' = [cth EXCEPT ![t] = r]
      /\ UNCHANGED <<cpointers, call_rcu_mutex, completion, cprocess, cghosts>>
  BY DEF call_rcu_after_fork_parent, cat, may, thread, At, Enter, Back, Lock
<1>2. /\ CTypeOK /\ cth[t] \in CThread /\ crd \in [Crdps -> CCrdp]
      /\ CPlaced(t) /\ CUsed(t) /\ CStopping(t) /\ CChildOf(t) /\ CList
      /\ CTakes(t) => CHasTaken(t) /\ cth[t].f \in Crdps
      /\ cth[t].ret \in Seq(CInnerPC) /\ cth[t].nest \in Nat
      /\ cth[t].todo \in Seq(Crdps) /\ Range(cth[t].todo) \subseteq Crdps
      /\ completion \in [CThreads -> CCompletion]
  BY CFacts
<1>3. CInner(t) = "fork" /\ CRest(t) = cth[t].ret
  BY <1>1, <1>2 DEF CInner, CRest, CInSub
<1>4. r \in CThread
  <2>1. cth[t] \in CThread /\ "fork_parent" \in CThreadPC
    BY <1>2 DEF CThreadPC, CInnerPC
  <2> QED BY ONLY <2>1 DEF CThread
<1>5. /\ r.pc = "fork_parent" /\ r.ret = cth[t].ret /\ r.nest = cth[t].nest /\ r.h = cth[t].h
      /\ r.w = cth[t].w /\ r.f = cth[t].f /\ r.todo = cth[t].todo /\ r.tpre = cth[t].tpre
  BY <1>2 DEF CThread
<1> HIDE DEF r
<1>6. cth'[t] = r /\ \A u \in CThreads : u # t => cth'[u] = cth[u]
  BY <1>1, <1>2, CSetThread
<1>7. CInner(t)' = "fork_parent" /\ CRest(t)' = cth[t].ret
  BY <1>1, <1>2, <1>3, <1>5, <1>6 DEF CInner, CRest, CInSub
<1>8. UNCHANGED <<call_rcu_data_list, default_crd, cpu_crd, thread_crd, living, pending, hold, owed>>
  BY <1>1 DEF cpointers, cprocess, cghosts
<1>g. call_rcu_mutex = t
  BY <1>2, <1>3 DEF CPlaced
<1>c1. /\ crd' \in [Crdps -> CCrdp] /\ CQuietCrdps
       /\ \A d \in Crdps :
             /\ CWorking(d)'
             /\ crd'[d].wpre = crd[d].wpre
             /\ crd'[d].wpc = crd[d].wpc \/ crd'[d].wpc \notin {"grace", "run"} \cup CComplete
             /\ crd[d].flags \subseteq crd'[d].flags \/ call_rcu_mutex = t
  <2>1. \A d \in Crdps : crd'[d] = [crd[d] EXCEPT !.flags = @ \ {"PAUSE"}] /\ crd[d] \in CCrdp
    BY <1>2 DEF call_rcu_after_fork_parent
  <2>2. ASSUME NEW d \in Crdps
        PROVE  /\ crd'[d] \in CCrdp /\ crd'[d].live = crd[d].live /\ crd'[d].q = crd[d].q
               /\ crd'[d].batch = crd[d].batch /\ crd'[d].wpc = crd[d].wpc /\ crd'[d].wpre = crd[d].wpre
               /\ crd'[d].flags = crd[d].flags \ {"PAUSE"}
    <3> DEFINE x == crd[d]
    <3>1. x \in CCrdp /\ crd'[d] = [x EXCEPT !.flags = @ \ {"PAUSE"}]
      BY <2>1
    <3> HIDE DEF x
    <3>2. /\ crd'[d] \in CCrdp /\ crd'[d].live = x.live /\ crd'[d].q = x.q /\ crd'[d].batch = x.batch
          /\ crd'[d].wpc = x.wpc /\ crd'[d].wpre = x.wpre /\ crd'[d].flags = x.flags \ {"PAUSE"}
      BY ONLY <3>1 DEF CCrdp
    <3> QED BY <3>2 DEF x
  <2>3. crd' \in [Crdps -> CCrdp]
    BY <2>1, <2>2 DEF call_rcu_after_fork_parent
  <2>6. ASSUME NEW d \in Crdps, ~ crd[d].live PROVE crd'[d] = crd[d]
    <3>1. crd[d].flags \ {"PAUSE"} = crd[d].flags
      BY <1>2, <2>6 DEF CList, Unused
    <3>2. [crd[d] EXCEPT !.flags = crd[d].flags] = crd[d]
      BY <2>1 DEF CCrdp
    <3> QED BY <2>1, <3>1, <3>2
  <2>4. CQuietCrdps
    BY <2>2, <2>6 DEF CQuietCrdps
  <2>5. \A d \in Crdps : CWorking(d)'
    BY <2>2 DEF CWorking, CIInv, CWorkers
  <2> QED BY <1>g, <2>2, <2>3, <2>4, <2>5
<1>9. CPlaced(t)'
  BY <1>1, <1>2, <1>3, <1>c1, <1>5, <1>6, <1>7, <1>8, CallRcuAssumption DEF CPlaced
<1>10. CUsed(t)'
  BY <1>1, <1>2, <1>3, <1>c1, <1>5, <1>6, <1>7, <1>8, CallRcuAssumption DEF CUsed, CQuietCrdps
<1>11. CStopping(t)'
  BY <1>1, <1>2, <1>3, <1>c1, <1>5, <1>6, <1>7, <1>8, CallRcuAssumption DEF CStopping, CQuietCrdps
<1>12. CChildOf(t)'
  BY <1>1, <1>2, <1>3, <1>c1, <1>5, <1>6, <1>7, <1>8, CallRcuAssumption DEF CChildOf, CInChild, CQuietCrdps
<1>13. CWaits(t)
  BY <1>1, <1>2, <1>3, <1>c1, <1>5, <1>6, <1>7, <1>8, CallRcuAssumption DEF CWaits
<1>14. CToQueue(t)' = CToQueue(t)
  BY <1>1, <1>2, <1>3, <1>c1, <1>5, <1>6, <1>7, <1>8 DEF CToQueue
<1>15. CStep(t)
  BY <1>1, <1>2, <1>3, <1>c1, <1>5, <1>6, <1>7, <1>8, <1>14, CallRcuAssumption DEF CStep, CAllowed, CTakes
<1>16. cth[t].nest > 0 => r.nest > 0
  BY <1>2, <1>5
<1>17. completion' \in [CThreads -> CCompletion] /\ \A u \in CThreads : u # t => completion'[u] = completion[u]
  BY <1>1, <1>2
<1>18. call_rcu_mutex' = call_rcu_mutex \/ (call_rcu_mutex' \in {t, NULL} /\ call_rcu_mutex \in {t, NULL})
  BY <1>1, <1>2, <1>3 DEF CPlaced
<1> QED BY <1>1, <1>4, <1>9, <1>10, <1>11, <1>12, <1>13, <1>15, <1>16, <1>17, <1>18, <1>c1, CMoveTo

(* rcu_read_unlock(), by the program or at the end of call_rcu().          *)
LEMMA CUnlocks ==
    ASSUME CIInv, NEW t \in living, cth[t].pc \in {"idle", "call_out"},
           NEW r \in CThread, r.pc = "idle", r.ret = cth[t].ret, r.nest = cth[t].nest, r.h = cth[t].h,
           r.f = cth[t].f, r.todo = cth[t].todo, r.nest > 0, Unlock(t, r),
           UNCHANGED <<cpointers, call_rcu_mutex, completion, cprocess, pending, owed>>
    PROVE  CIInv'
<1> USE DEF CWaking, CCalling, CTaking, CFreeing, CBarrier, CForking
<1>0. t \in CThreads
  BY DEF CIInv, CTypeOK
<1>1. /\ CTypeOK /\ cth[t] \in CThread /\ crd \in [Crdps -> CCrdp]
      /\ CPlaced(t) /\ CUsed(t) /\ CStopping(t) /\ CChildOf(t) /\ CList
      /\ cth[t].ret \in Seq(CInnerPC) /\ cth[t].nest \in Nat
      /\ completion \in [CThreads -> CCompletion]
  BY <1>0, CFacts
<1>2. CInner(t) = cth[t].pc /\ CRest(t) = cth[t].ret
  BY DEF CInner, CRest, CInSub
<1>3. UNCHANGED <<call_rcu_data_list, default_crd, cpu_crd, thread_crd, living, pending, owed>>
  BY DEF cpointers, cprocess
<1>4. ASSUME cth'[t].pc = "idle", cth'[t].ret = r.ret, cth'[t].h = r.h, cth'[t].f = r.f, cth'[t].todo = r.todo
      PROVE  CPlaced(t)' /\ CUsed(t)' /\ CStopping(t)' /\ CChildOf(t)' /\ CWaits(t) /\ CStep(t) /\ CInner(t)' = "idle"
  <2>1. CInner(t)' = "idle" /\ CRest(t)' = cth[t].ret
    BY <1>4 DEF CInner, CRest, CInSub
  <2>2. CPlaced(t)'
    BY <1>1, <1>2, <1>3, <1>4, <2>1 DEF CPlaced
  <2>3. CUsed(t)' /\ CStopping(t)' /\ CChildOf(t)'
    BY <1>4, <2>1 DEF CUsed, CStopping, CChildOf, CInChild
  <2>4. CToQueue(t)' = CToQueue(t) /\ CWaits(t)
    BY <1>2, <2>1 DEF CToQueue, CWaits
  <2>5. CStep(t)
    BY <1>1, <1>2, <1>4, <2>1, <2>4 DEF CStep, CAllowed, CTakes
  <2> QED BY <2>1, <2>2, <2>3, <2>4, <2>5
<1>5. CASE r.nest > 1
  <2> DEFINE s == [r EXCEPT !.nest = @ - 1]
  <2>1. cth' = [cth EXCEPT ![t] = s] /\ UNCHANGED <<crd, hold>>
    BY <1>5 DEF Unlock, thread
  <2>2. s \in CThread
    <3>1. \A z \in Nat : [r EXCEPT !.nest = z] \in CThread
      BY DEF CThread
    <3>2. r.nest - 1 \in Nat
      BY <1>1, <1>5
    <3> QED BY <3>1, <3>2
  <2>3. s.pc = r.pc /\ s.ret = r.ret /\ s.h = r.h /\ s.f = r.f /\ s.todo = r.todo /\ s.nest = r.nest - 1
    BY DEF CThread
  <2>4. s.nest > 0
    BY <1>1, <1>5, <2>3
  <2> HIDE DEF s
  <2>5. cth'[t] = s
    BY <1>1, <2>1 DEF CTypeOK
  <2>6. CPlaced(t)' /\ CUsed(t)' /\ CStopping(t)' /\ CChildOf(t)' /\ CWaits(t) /\ CStep(t)
    BY <1>4, <2>3, <2>5
  <2>7. UNCHANGED <<cpointers, cprocess, cghosts>>
    BY <2>1 DEF cghosts
  <2> QED BY <1>1, <2>1, <2>2, <2>4, <2>6, <2>7, CMoveThread
<1>6. CASE ~ (r.nest > 1)
  <2> DEFINE s == [r EXCEPT !.nest = 0]
  <2>1. /\ crd' = [c \in Crdps |-> [crd[c] EXCEPT !.wpre = @ \ {t}]]
        /\ hold' = [h \in Heads |-> hold[h] \ {t}]
        /\ cth' = [u \in CThreads |-> IF u = t THEN s ELSE [cth[u] EXCEPT !.tpre = @ \ {t}]]
    BY <1>6 DEF Unlock
  <2>2. s \in CThread
    <3>1. \A z \in Nat : [r EXCEPT !.nest = z] \in CThread
      BY DEF CThread
    <3> QED BY <3>1
  <2>3. s.pc = r.pc /\ s.ret = r.ret /\ s.h = r.h /\ s.f = r.f /\ s.todo = r.todo /\ s.nest = 0
    BY DEF CThread
  <2> HIDE DEF s
  <2>4. cth'[t] = s
    BY <1>0, <2>1
  <2>5. CPlaced(t)' /\ CUsed(t)' /\ CStopping(t)' /\ CChildOf(t)' /\ CWaits(t) /\ CStep(t) /\ CInner(t)' = "idle"
    BY <1>4, <2>3, <2>4
  <2>6. ASSUME NEW c \in Crdps
        PROVE  /\ crd'[c] \in CCrdp /\ crd'[c].live = crd[c].live /\ crd'[c].q = crd[c].q
               /\ crd'[c].batch = crd[c].batch /\ crd'[c].wpc = crd[c].wpc /\ crd'[c].flags = crd[c].flags
               /\ crd'[c].wpre = crd[c].wpre \ {t} /\ (~ crd[c].live => crd'[c] = crd[c])
    <3> DEFINE x == crd[c]
    <3>1. x \in CCrdp /\ crd'[c] = [x EXCEPT !.wpre = @ \ {t}]
      BY <1>1, <2>1
    <3>2. ~ x.live => x.wpre \ {t} = x.wpre
      BY <1>1 DEF CList, Unused
    <3> HIDE DEF x
    <3>3. /\ crd'[c] \in CCrdp /\ crd'[c].live = x.live /\ crd'[c].q = x.q /\ crd'[c].batch = x.batch
          /\ crd'[c].wpc = x.wpc /\ crd'[c].flags = x.flags /\ crd'[c].wpre = x.wpre \ {t}
      BY ONLY <3>1 DEF CCrdp
    <3>4. x.wpre \ {t} = x.wpre => crd'[c] = x
      <4>1. [x EXCEPT !.wpre = x.wpre] = x
        BY ONLY <3>1 DEF CCrdp
      <4> QED BY <3>1, <4>1
    <3> QED BY <3>2, <3>3, <3>4 DEF x
  <2>7. ASSUME NEW u \in CThreads, u # t
        PROVE  /\ cth'[u] \in CThread /\ CSame(u) /\ cth'[u].tpre = cth[u].tpre \ {t}
    <3> DEFINE x == cth[u]
    <3>1. x \in CThread /\ cth'[u] = [x EXCEPT !.tpre = @ \ {t}]
      BY <1>1, <2>1, <2>7 DEF CTypeOK
    <3>2. u \notin living => x.tpre \ {t} = x.tpre
      BY DEF CIInv, CThreadsPlaced, CPlaced, NewThread
    <3> HIDE DEF x
    <3>3. /\ cth'[u] \in CThread /\ cth'[u].pc = x.pc /\ cth'[u].ret = x.ret /\ cth'[u].nest = x.nest
          /\ cth'[u].h = x.h /\ cth'[u].w = x.w /\ cth'[u].f = x.f /\ cth'[u].todo = x.todo
          /\ cth'[u].tpre = x.tpre \ {t}
      BY ONLY <3>1 DEF CThread
    <3>4. x.tpre \ {t} = x.tpre => cth'[u] = x
      <4>1. [x EXCEPT !.tpre = x.tpre] = x
        BY ONLY <3>1 DEF CThread
      <4> QED BY <3>1, <4>1
    <3> QED BY <3>2, <3>3, <3>4 DEF CSame, x
  <2>8. CTypeOK'
    <3>1. crd' \in [Crdps -> CCrdp]
      BY <2>1, <2>6
    <3>2. cth' \in [CThreads -> CThread]
      BY <2>1, <2>2, <2>4, <2>7
    <3>3. hold' \in [Heads -> SUBSET CThreads]
      BY <1>1, <2>1 DEF CTypeOK
    <3>4. UNCHANGED <<call_rcu_data_list, default_crd, cpu_crd, thread_crd, call_rcu_mutex, completion,
                      living, cforks, pending, owed>>
      BY DEF cpointers, cprocess
    <3> QED BY <1>1, <3>1, <3>2, <3>3, <3>4 DEF CTypeOK
  <2>9. CQuietCrdps /\ \A c \in Crdps : CWorking(c)'
    <3>1. CQuietCrdps
      BY <2>6 DEF CQuietCrdps
    <3> QED BY <2>6, <3>1 DEF CIInv, CWorkers, CWorking
  <2>10. CHolds'
    <3>1. Reading' = Reading \ {t}
      BY <1>0, <1>1, <1>3, <2>3, <2>4, <2>7 DEF Reading, CSame, CTypeOK
    <3>2. \A h \in Heads : hold'[h] = hold[h] \ {t}
      BY <2>1
    <3> QED BY <2>6, <3>1, <3>2 DEF CIInv, CHolds, CHeldIn
  <2>11. ASSUME NEW u \in CThreads, u # t
         PROVE  /\ \A v \in cth[u].tpre : v \in cth'[u].tpre \/ CInner(v)' \notin CCalling
                /\ completion'[u].count = completion[u].count /\ completion'[u].ref = completion[u].ref
                /\ call_rcu_mutex' = u <=> call_rcu_mutex = u
                /\ CFlagsKept(u)
    BY <2>5, <2>6, <2>7, <2>11 DEF CFlagsKept
  <2> QED BY <1>3, <2>5, <2>7, <2>8, <2>9, <2>10, <2>11, CMove
<1> QED BY <1>5, <1>6

(* The program leaves a section.                                           *)
LEMMA CReadUnlock ==
    ASSUME CIInv, NEW t \in CThreads, ReadUnlock(t)
    PROVE  CIInv'
<1>1. /\ t \in living /\ cth[t].pc = "idle" /\ cth[t].nest = 1 /\ Unlock(t, cth[t])
      /\ UNCHANGED <<cpointers, call_rcu_mutex, completion, cprocess, pending, owed>>
  BY DEF ReadUnlock, cat
<1>2. cth[t] \in CThread
  BY CFacts
<1> QED BY <1>1, <1>2, CUnlocks

(* call_rcu() leaves its section and returns.                              *)
LEMMA CCallReturn ==
    ASSUME CIInv, NEW t \in CThreads, call_rcu_return(t)
    PROVE  CIInv'
<1> DEFINE r == [[cth[t] EXCEPT !.pc = "idle"] EXCEPT !.w = NULL]
<1>1. /\ t \in living /\ cth[t].pc = "call_out" /\ Unlock(t, r)
      /\ UNCHANGED <<cpointers, call_rcu_mutex, completion, cprocess, pending, owed>>
  BY DEF call_rcu_return, cat, At
<1>2. cth[t] \in CThread /\ CPlaced(t)
  BY CFacts
<1>3. /\ r \in CThread /\ r.pc = "idle" /\ r.ret = cth[t].ret /\ r.nest = cth[t].nest /\ r.h = cth[t].h
      /\ r.f = cth[t].f /\ r.todo = cth[t].todo
  BY <1>2 DEF CThread, CThreadPC, CInnerPC
<1> HIDE DEF r
<1>4. cth[t].nest > 0
  BY <1>1, <1>2 DEF CPlaced, CInner, CInSub, CCalling, CWaking
<1> QED BY <1>1, <1>3, <1>4, CUnlocks

(* call_rcu_completion_wake_up(), by the worker that counted down to zero. *)
LEMMA CCompletionWakes ==
    ASSUME CIInv, NEW c \in Crdps, CompletionWakeSet(c) \/ CompletionWakeFutex(c)
    PROVE  CIInv'
<1>1. CTypeOK /\ CWorking(c) /\ crd \in [Crdps -> CCrdp] /\ crd[c] \in CCrdp
      /\ completion \in [CThreads -> CCompletion] /\ cth \in [CThreads -> CThread]
  BY DEF CIInv, CWorkers, CTypeOK
<1>2. crd[c].live /\ crd[c].wpc \in CComplete
  BY DEF CompletionWakeSet, CompletionWakeFutex, wat, CComplete
<1>3. PICK b \in CThreads : Head(crd[c].batch) = b
  <2>1. crd[c].batch \in Seq(CItem) /\ crd[c].batch # << >>
    BY <1>1, <1>2 DEF CCrdp, CWorking
  <2> QED BY <1>1, <1>2, <2>1, CrTail DEF CWorking
<1>4. CASE CompletionWakeSet(c)
  <2> DEFINE r == [crd[c] EXCEPT !.wpc = "bar_wake"]
             k == [completion[b] EXCEPT !.futex = 0]
  <2>1. /\ crd' = [crd EXCEPT ![c] = r] /\ completion' = [completion EXCEPT ![b] = k]
        /\ UNCHANGED <<cpointers, call_rcu_mutex, cth, cprocess, cghosts>>
    BY <1>3, <1>4 DEF CompletionWakeSet, wgo, worker
  <2>2. /\ r \in CCrdp /\ r.live = crd[c].live /\ r.q = crd[c].q /\ r.batch = crd[c].batch
        /\ r.wpc = "bar_wake" /\ r.flags = crd[c].flags
    BY <1>1 DEF CCrdp, CWorkerPC, CBatchPC, CComplete
  <2>3. k \in CCompletion /\ k.count = completion[b].count /\ k.ref = completion[b].ref
    <3>1. completion[b] \in CCompletion /\ \A z \in Int : [completion[b] EXCEPT !.futex = z] \in CCompletion
      BY <1>1, <1>3 DEF CCompletion
    <3>2. k \in CCompletion
      BY <3>1
    <3> QED BY <3>1, <3>2 DEF CCompletion
  <2> HIDE DEF r, k
  <2>4. /\ completion' \in [CThreads -> CCompletion]
        /\ \A u \in CThreads : completion'[u].count = completion[u].count /\ completion'[u].ref = completion[u].ref
    BY <1>1, <1>3, <2>1, <2>3
  <2> QED BY <1>1, <1>2, <2>1, <2>2, <2>4, CWorkOne DEF CWorking, CComplete, CBatchPC
<1>5. CASE CompletionWakeFutex(c)
  <2> DEFINE r == [crd[c] EXCEPT !.wpc = "bar_put"]
             s == [cth[b] EXCEPT !.pc = "bar_dec"]
  <2>1. /\ crd' = [crd EXCEPT ![c] = r]
        /\ UNCHANGED <<cpointers, call_rcu_mutex, completion, cprocess, cghosts>>
        /\ cth' = [cth EXCEPT ![b] = IF cat(b, "bar_asleep") THEN s ELSE cth[b]]
    BY <1>3, <1>5 DEF CompletionWakeFutex, wgo, worker, thread, At
  <2>2. /\ r \in CCrdp /\ r.live = crd[c].live /\ r.q = crd[c].q /\ r.batch = crd[c].batch
        /\ r.wpc = "bar_put" /\ r.flags = crd[c].flags /\ r.wpre = crd[c].wpre
    BY <1>1 DEF CCrdp, CWorkerPC, CBatchPC, CComplete
  <2> HIDE DEF r
  <2>3. CASE ~ cat(b, "bar_asleep")
    <3>1. cth' = cth
      BY <1>1, <2>1, <2>3
    <3> QED BY <1>1, <1>2, <2>1, <2>2, <3>1, CWorkOne DEF CWorking, CComplete, CBatchPC
  <2>4. CASE cat(b, "bar_asleep")
    <3>1. b \in living /\ cth[b].pc = "bar_asleep" /\ cth' = [cth EXCEPT ![b] = s]
      BY <2>1, <2>4 DEF cat
    <3>2. /\ s \in CThread /\ s.pc = "bar_dec" /\ s.ret = cth[b].ret /\ s.nest = cth[b].nest
          /\ s.h = cth[b].h /\ s.w = cth[b].w /\ s.f = cth[b].f /\ s.todo = cth[b].todo
      <4>1. cth[b] \in CThread
        BY <1>1, <1>3
      <4> QED BY <4>1 DEF CThread, CThreadPC, CInnerPC, CBarrier
    <3> HIDE DEF s
    <3>3. cth'[b] = s
      BY <1>1, <1>3, <3>1
    <3>4. /\ CInner(b) = "bar_asleep" /\ CRest(b) = cth[b].ret
          /\ CInner(b)' = "bar_dec" /\ CRest(b)' = cth[b].ret
      BY <3>1, <3>2, <3>3 DEF CInner, CRest, CInSub, CWaking
    <3>5. crd'[c] = r /\ \A d \in Crdps : d # c => crd'[d] = crd[d]
      BY <1>1, <2>1
    <3>6. /\ crd' \in [Crdps -> CCrdp] /\ CQuietCrdps
          /\ \A d \in Crdps :
                /\ CWorking(d)'
                /\ crd'[d].wpre = crd[d].wpre
                /\ \/ crd'[d].wpc = crd[d].wpc
                   \/ crd'[d].wpc \notin {"grace", "run"} \cup CComplete
                   \/ crd'[d].wpc \in CComplete /\ crd[d].wpc \in CComplete
                /\ crd[d].flags \subseteq crd'[d].flags
      <4>1. crd' \in [Crdps -> CCrdp]
        BY <1>1, <2>1, <2>2
      <4>2. CQuietCrdps
        BY <1>2, <2>2, <3>5 DEF CQuietCrdps, CComplete
      <4>3. \A d \in Crdps : CWorking(d)'
        BY <1>2, <2>2, <3>5 DEF CIInv, CWorkers, CWorking, CComplete, CBatchPC
      <4> QED BY <1>2, <2>2, <3>5, <4>1, <4>2, <4>3 DEF CComplete
    <3>7. CPlaced(b) /\ UNCHANGED <<call_rcu_mutex, living>>
      BY <1>3, <2>1, CFacts DEF cprocess
    <3>8. CPlaced(b)'
      BY <3>2, <3>3, <3>4, <3>1, <3>7 DEF CPlaced, CWaking, CCalling, CTaking, CFreeing, CForking
    <3>9. CUsed(b)' /\ CStopping(b)' /\ CChildOf(b)' /\ CWaits(b)
      BY <3>2, <3>3, <3>4 DEF CUsed, CStopping, CChildOf, CInChild, CWaits, CWaking, CFreeing
    <3>10. CStep(b)
      <4>1. CToQueue(b)' = CToQueue(b)
        BY <3>4 DEF CToQueue
      <4> QED BY <2>1, <3>1, <3>2, <3>3, <3>4, <4>1 DEF CStep, CAllowed, CTakes, CTaking, CFreeing, CBarrier
    <3> QED BY <1>1, <2>1, <3>1, <3>2, <3>6, <3>8, <3>9, <3>10, CMoveTo
  <2> QED BY <2>3, <2>4
<1> QED BY <1>4, <1>5

(* Steps of thread t: what stays true of another thread u.                 *)
LEMMA CKeepsOther ==
    ASSUME CIInv, UNCHANGED living, \A v \in CThreads : CWaits(v),
           NEW u \in CThreads, CSame(u), call_rcu_mutex' = u <=> call_rcu_mutex = u,
           CFlagsKept(u), thread_crd'[u] = thread_crd[u],
           default_crd # NULL => default_crd' = default_crd,
           \/ cpu_crd' = cpu_crd \/ cpu_crd = NULL
           \/ \E v \in CThreads : CInner(v)' = "synchronize" /\ cth'[v].f = cpu_crd
           \/ u \notin living,
           \A c \in Crdps : crd[c].live =>
               \/ crd'[c].live /\ (crd[c].wpc = "none" => crd'[c].wpc = "none")
               \/ /\ ~ crd'[c].live /\ (CTakes(u) => cth[u].f # c) /\ call_rcu_mutex # u
                  /\ cth[u].pc \in CWaking \cup {"enqueue"} => cth[u].w # c,
           \A c \in Crdps : crd'[c].live => crd[c].live \/ call_rcu_mutex # u
    PROVE  CPlaced(u)' /\ CUsed(u)' /\ CStopping(u)'
<1>0. /\ CTypeOK /\ CPlaced(u) /\ CUsed(u) /\ CStopping(u)
      /\ CTakes(u) => CHasTaken(u) /\ cth[u].f \in Crdps
      /\ cth[u].w \in Crdps \cup {NULL} /\ Range(cth[u].todo) \subseteq Crdps
  BY CFacts
<1>1. CInner(u)' = CInner(u) /\ CRest(u)' = CRest(u)
  BY DEF CSame, CInner, CRest, CInSub
<1>2. CInner(u) \in {"bar_queue"} \cup CForking <=> call_rcu_mutex = u
  BY <1>0 DEF CPlaced
<1>3. CPlaced(u)'
  BY <1>0, <1>1 DEF CSame, CPlaced
<1>4. CStopping(u)'
  <2>1. CInner(u) \in {"leftover", "migrate", "unlink"} => cth[u].f \in Crdps /\ crd[cth[u].f].live
    BY <1>0 DEF CTakes, CHasTaken, CFreeing
  <2>2. CInner(u)' \in {"leftover", "migrate", "unlink"} => crd'[cth'[u].f].wpc = "none"
    BY <1>0, <1>1, <2>1 DEF CSame, CStopping, CTakes, CFreeing
  <2>3. CInner(u)' = "fork_pause" =>
          \A c \in Crdps : crd'[c].live /\ c \notin Range(cth'[u].todo) => "PAUSE" \in crd'[c].flags
    BY <1>0, <1>1, <1>2 DEF CSame, CStopping, CFlagsKept, CForking
  <2>4. CInner(u)' = "fork" =>
          \A c \in Crdps : crd'[c].live => "PAUSE" \in crd'[c].flags /\ "PAUSED" \in crd'[c].flags
    BY <1>0, <1>1, <1>2 DEF CSame, CStopping, CFlagsKept, CForking
  <2> QED BY <2>2, <2>3, <2>4 DEF CStopping
<1>5. CUsed(u)'
  <2>1. ASSUME cth'[u].pc \in CWaking \cup {"enqueue"}
        PROVE  /\ cth'[u].w # NULL /\ crd'[cth'[u].w].live
               /\ \/ cth'[u].w = default_crd'
                  \/ CInner(u)' = "stopping" /\ cth'[u].w = cth'[u].f
                  \/ CInner(u)' \in {"bar_queue", "fork_pause"}
                  \/ CInner(u)' \in CCalling /\ cth'[u].w \in {thread_crd'[u], cpu_crd'}
                  \/ /\ CInner(u)' \in CCalling
                     /\ \E v \in CThreads :
                           /\ cth'[v].f = cth'[u].w
                           /\ CInner(v)' = "synchronize" \/ (CInner(v)' = "grace" /\ u \in cth'[v].tpre)
               /\ CInner(u)' = "unlink" => cth'[u].w = default_crd'
    <3>1. cth[u].pc \in CWaking \cup {"enqueue"} /\ cth[u].w \in Crdps /\ crd[cth[u].w].live
      BY <1>0, <2>1 DEF CSame, CUsed
    <3>0. u \in living
      BY <1>0, <3>1 DEF CPlaced, NewThread, CWaking
    <3>2. cth'[u].w # NULL /\ crd'[cth'[u].w].live
      BY <1>0, <3>1 DEF CSame, CUsed
    <3>3. CInner(u) = "unlink" => cth'[u].w = default_crd'
      BY <1>0, <3>1 DEF CSame, CUsed
    <3>4. CASE CInner(u) \in CCalling /\ \E v \in CThreads :
                     /\ cth[v].f = cth[u].w
                     /\ CInner(v) = "synchronize" \/ (CInner(v) = "grace" /\ u \in cth[v].tpre)
      <4>1. u \in Reading
        BY <1>0, <3>4, CallRcuAssumption DEF CPlaced, Reading, NewThread, CInner, CInSub, CCalling, CWaking
      <4>2. PICK v \in CThreads : /\ cth[v].f = cth[u].w
                                  /\ CInner(v) = "synchronize" \/ (CInner(v) = "grace" /\ u \in cth[v].tpre)
        BY <3>4
      <4>3. /\ cth'[v].f = cth'[u].w
            /\ CInner(v)' = "synchronize" \/ (CInner(v)' = "grace" /\ u \in cth'[v].tpre)
        BY <1>1, <3>4, <4>1, <4>2 DEF CWaits, CSame
      <4> QED BY <1>1, <3>2, <3>3, <3>4, <4>3
    <3>5. CASE CInner(u) \in CCalling /\ cth[u].w \in {thread_crd[u], cpu_crd}
      BY <1>1, <3>0, <3>1, <3>2, <3>3, <3>5, CallRcuAssumption DEF CSame
    <3>6. CASE \/ cth[u].w = default_crd
               \/ CInner(u) = "stopping" /\ cth[u].w = cth[u].f
               \/ CInner(u) \in {"bar_queue", "fork_pause"}
      BY <1>1, <3>1, <3>2, <3>3, <3>6, CallRcuAssumption DEF CSame
    <3> QED BY <1>0, <3>1, <3>4, <3>5, <3>6 DEF CUsed
  <2>2. cth'[u].pc = "migrate" => default_crd' # NULL /\ cth'[u].w = default_crd'
    BY <1>0 DEF CSame, CUsed
  <2>3. CInner(u)' \in {"bar_queue", "fork_pause"} =>
          IsInjective(cth'[u].todo) /\ \A c \in Range(cth'[u].todo) : crd'[c].live
    BY <1>0, <1>1, <1>2 DEF CSame, CUsed, CForking
  <2> QED BY <2>1, <2>2, <2>3 DEF CUsed
<1> QED BY <1>3, <1>4, <1>5

(* Steps of thread t that change the pointers, or the queues.              *)
LEMMA CAssemble ==
    ASSUME CIInv, CTypeOK', NEW t \in living, UNCHANGED living,
           \A c \in Crdps : CWorking(c)', CHolds', CList', CRoles', CCallbacks', CRefs', CCover',
           \A u \in CThreads : u # t =>
               /\ cth'[u] = cth[u] /\ thread_crd'[u] = thread_crd[u]
               /\ call_rcu_mutex' = u <=> call_rcu_mutex = u
               /\ CFlagsKept(u)
               /\ \A c \in Crdps : crd[c].live =>
                     \/ crd'[c].live /\ (crd[c].wpc = "none" => crd'[c].wpc = "none")
                     \/ /\ ~ crd'[c].live /\ (CTakes(u) => cth[u].f # c) /\ call_rcu_mutex # u
                        /\ cth[u].pc \in CWaking \cup {"enqueue"} => cth[u].w # c
               /\ \A c \in Crdps : crd'[c].live => crd[c].live \/ call_rcu_mutex # u,
           default_crd # NULL => default_crd' = default_crd,
           \/ cpu_crd' = cpu_crd \/ cpu_crd = NULL
           \/ CInner(t)' = "synchronize" /\ cth'[t].f = cpu_crd
           \/ living = {t},
           CWaits(t), CPlaced(t)', CUsed(t)', CStopping(t)', CChildOf(t)'
    PROVE  CIInv'
<1>0. t \in CThreads
  BY DEF CIInv, CTypeOK
<1>1. ASSUME NEW u \in CThreads, u # t PROVE CInner(u)' = CInner(u) /\ CRest(u)' = CRest(u) /\ CSame(u)
  BY <1>1 DEF CSame, CInner, CRest, CInSub
<1>2. \A v \in CThreads : CWaits(v)
  BY <1>1 DEF CWaits, CSame
<1>3. ASSUME NEW u \in CThreads, u # t PROVE CPlaced(u)' /\ CUsed(u)' /\ CStopping(u)'
  BY <1>0, <1>1, <1>2, <1>3, CKeepsOther
<1>4. ASSUME NEW u \in CThreads, u # t PROVE CChildOf(u)'
  <2>1. CChildOf(u)
    BY DEF CIInv, CChild
  <2>2. ~ CInChild(u)
    BY <1>4, <2>1 DEF CChildOf
  <2> QED BY <1>1, <1>4, <2>2 DEF CChildOf, CInChild
<1> QED BY <1>0, <1>3, <1>4 DEF CIInv, CThreadsPlaced, CChild, CUses, CWorkers

(* The same when no crdp appears, leaves or stops and no role changes.     *)
LEMMA CAssembleStill ==
    ASSUME CIInv, CTypeOK', NEW t \in living,
           UNCHANGED <<living, default_crd, cpu_crd, thread_crd, call_rcu_mutex>>,
           \A c \in Crdps : CWorking(c)', CHolds', CList', CRoles', CCallbacks', CRefs', CCover',
           \A u \in CThreads : u # t => cth'[u] = cth[u],
           \A u \in CThreads : CFlagsKept(u),
           \A c \in Crdps : crd'[c].live = crd[c].live /\ crd'[c].wpc = crd[c].wpc,
           CWaits(t), CPlaced(t)', CUsed(t)', CStopping(t)', CChildOf(t)'
    PROVE  CIInv'
<1>1. ASSUME NEW u \in CThreads, u # t
      PROVE  /\ cth'[u] = cth[u] /\ thread_crd'[u] = thread_crd[u]
             /\ call_rcu_mutex' = u <=> call_rcu_mutex = u
             /\ CFlagsKept(u)
             /\ \A c \in Crdps : crd[c].live => crd'[c].live /\ (crd[c].wpc = "none" => crd'[c].wpc = "none")
             /\ \A c \in Crdps : crd'[c].live => crd[c].live
  BY <1>1
<1> QED BY <1>1, CAssemble

(* The queues stay the same.                                               *)
LEMMA CMoveAny ==
    ASSUME CIInv, CTypeOK', NEW t \in living, UNCHANGED <<living, pending, owed, hold, completion, call_rcu_mutex>>,
           CSameQueues,
           \A c \in Crdps :
               /\ CWorking(c)'
               /\ \/ crd'[c].wpc = crd[c].wpc /\ crd'[c].wpre = crd[c].wpre
                  \/ crd'[c].wpc \notin {"grace", "run"} \cup CComplete
               /\ crd[c].live => crd'[c].live /\ (crd[c].wpc = "none" => crd'[c].wpc = "none")
               /\ crd'[c].live => crd[c].live \/ call_rcu_mutex = NULL
               /\ crd'[c].flags = crd[c].flags \/ living = {t},
           CList', CRoles',
           \A u \in CThreads : u # t => cth'[u] = cth[u] /\ thread_crd'[u] = thread_crd[u],
           cth[t].nest > 0 => cth'[t].nest > 0,
           default_crd # NULL => default_crd' = default_crd,
           \/ cpu_crd' = cpu_crd \/ cpu_crd = NULL
           \/ CInner(t)' = "synchronize" /\ cth'[t].f = cpu_crd
           \/ living = {t},
           CWaits(t), CPlaced(t)', CUsed(t)', CStopping(t)', CChildOf(t)',
           CToQueue(t)' = CToQueue(t), CInner(t)' \notin CBarrier, CInner(t) # "unlink", CInner(t)' # "unlink",
           cth'[t].h = cth[t].h
    PROVE  CIInv'
<1>0. t \in CThreads /\ CTypeOK /\ living \subseteq CThreads
  BY DEF CIInv, CTypeOK
<1>1. ASSUME NEW u \in CThreads, u # t
      PROVE  CInner(u)' = CInner(u) /\ CTakes(u)' = CTakes(u) /\ CToQueue(u)' = CToQueue(u)
  BY <1>1 DEF CInner, CInSub, CTakes, CToQueue
<1>2. CHolds'
  <2>1. Reading \subseteq Reading'
    BY <1>0 DEF Reading
  <2> QED BY <2>1, CHoldsKept DEF CSameQueues
<1>3. ASSUME NEW u \in CThreads, u # t PROVE CFlagsKept(u)
  <2>1. CPlaced(u)
    BY DEF CIInv, CThreadsPlaced
  <2>2. living = {t} => CInner(u) = "idle"
    BY <1>3, <2>1 DEF CPlaced, NewThread, CInner, CInSub, CWaking
  <2> QED BY <2>2 DEF CFlagsKept
<1>4. CCallbacks' /\ CRefs' /\ CCover'
  <2>1. completion' \in [CThreads -> CCompletion]
    BY <1>0 DEF CTypeOK
  <2>2. CCallbacks
    BY DEF CIInv
  <2>3. ASSUME NEW u \in CThreads PROVE CAllowed(u)
    <3>1. CASE u # t
      BY <1>1, <3>1 DEF CAllowed
    <3>2. cth'[t].pc # "bar_return"
      BY DEF CInner, CInSub, CBarrier, CWaking
    <3>3. CASE u = t
      BY <3>2, <3>3 DEF CAllowed
    <3> QED BY <3>1, <3>3
  <2> QED BY <1>0, <2>1, <2>3, CQuietContents
<1> QED BY <1>0, <1>2, <1>3, <1>4, CallRcuAssumption, CAssemble

(* set_cpu_call_rcu_data() gives the CPU its crdp.                         *)
LEMMA CSetCpu ==
    ASSUME CIInv, NEW t \in CThreads, set_cpu_call_rcu_data(t), cpu_crd = NULL
    PROVE  CIInv'
<1> DEFINE r == [[cth[t] EXCEPT !.pc = "idle"] EXCEPT !.f = NULL]
<1> USE DEF CWaking, CCalling, CTaking, CFreeing, CBarrier, CForking
<1>1. /\ t \in living /\ cth[t].pc = "set_cpu"
      /\ cth' = [cth EXCEPT ![t] = r] /\ crd' = crd
      /\ cpu_crd' = cth[t].f
      /\ UNCHANGED <<call_rcu_data_list, default_crd, thread_crd>>
      /\ UNCHANGED <<call_rcu_mutex, completion, cprocess, cghosts>>
  BY DEF set_cpu_call_rcu_data, cat, may, thread, At, Enter, Back, cpointers
<1>2. /\ CTypeOK /\ cth[t] \in CThread /\ crd \in [Crdps -> CCrdp]
      /\ CPlaced(t) /\ CUsed(t) /\ CStopping(t) /\ CChildOf(t) /\ CList /\ CRoles
      /\ CTakes(t) => CHasTaken(t) /\ cth[t].f \in Crdps
      /\ cth[t].ret \in Seq(CInnerPC) /\ cth[t].nest \in Nat
      /\ cth[t].todo \in Seq(Crdps) /\ Range(cth[t].todo) \subseteq Crdps
      /\ default_crd \in Crdps \cup {NULL} /\ cpu_crd \in Crdps \cup {NULL} /\ thread_crd[t] \in Crdps \cup {NULL}
  <2>1. CRoles
    BY DEF CIInv
  <2> QED BY <2>1, CFacts
<1>3. CInner(t) = "set_cpu" /\ CRest(t) = cth[t].ret
  BY <1>1, <1>2 DEF CInner, CRest, CInSub
<1>4. r \in CThread
  <2>1. cth[t] \in CThread /\ "idle" \in CThreadPC /\ NULL \in Crdps \cup {NULL}
    BY <1>2 DEF CThreadPC, CInnerPC
  <2> QED BY ONLY <2>1 DEF CThread
<1>5. /\ r.pc = "idle" /\ r.ret = cth[t].ret /\ r.nest = cth[t].nest /\ r.h = cth[t].h
      /\ r.w = cth[t].w /\ r.f = NULL /\ r.todo = cth[t].todo /\ r.tpre = cth[t].tpre
  BY <1>2 DEF CThread
<1> HIDE DEF r
<1>6. cth'[t] = r /\ \A u \in CThreads : u # t => cth'[u] = cth[u]
  BY <1>1, <1>2, CSetThread
<1>7. CInner(t)' = "idle" /\ CRest(t)' = cth[t].ret
  BY <1>1, <1>2, <1>3, <1>5, <1>6 DEF CInner, CRest, CInSub
<1>8. UNCHANGED <<living, cforks, pending, hold, owed>>
  BY <1>1 DEF cprocess, cghosts
<1>9. CPlaced(t)'
  BY <1>1, <1>2, <1>3, <1>5, <1>6, <1>7, <1>8, CallRcuAssumption DEF CPlaced
<1>10. CUsed(t)'
  BY <1>1, <1>2, <1>3, <1>5, <1>6, <1>7, <1>8, CallRcuAssumption DEF CUsed
<1>11. CStopping(t)'
  BY <1>1, <1>2, <1>3, <1>5, <1>6, <1>7, <1>8, CallRcuAssumption DEF CStopping
<1>12. CChildOf(t)'
  BY <1>1, <1>2, <1>3, <1>5, <1>6, <1>7, <1>8, CallRcuAssumption DEF CChildOf, CInChild
<1>13. CWaits(t)
  BY <1>1, <1>2, <1>3, <1>5, <1>6, <1>7, <1>8, CallRcuAssumption DEF CWaits
<1>14. CToQueue(t)' = CToQueue(t)
  BY <1>1, <1>2, <1>3, <1>5, <1>6, <1>7, <1>8 DEF CToQueue
<1>15. CTypeOK'
  <2>1. cth' \in [CThreads -> CThread]
    BY <1>1, <1>2, <1>4 DEF CTypeOK
  <2>2. crd' \in [Crdps -> CCrdp]
    BY <1>1, <1>2
  <2>3. /\ default_crd' \in Crdps \cup {NULL} /\ cpu_crd' \in Crdps \cup {NULL}
        /\ thread_crd' \in [CThreads -> Crdps \cup {NULL}] /\ call_rcu_data_list' \in Seq(Crdps)
    BY <1>1, <1>2, <1>3, <1>5, <1>6, <1>7, <1>8 DEF CTypeOK, CTakes
  <2> QED BY <1>1, <1>2, <1>8, <2>1, <2>2, <2>3 DEF CTypeOK
<1>16. /\ CSameQueues /\ CList'
       /\ \A c \in Crdps :
             /\ CWorking(c)'
             /\ \/ crd'[c].wpc = crd[c].wpc /\ crd'[c].wpre = crd[c].wpre
                \/ crd'[c].wpc \notin {"grace", "run"} \cup CComplete
             /\ crd[c].live => crd'[c].live /\ (crd[c].wpc = "none" => crd'[c].wpc = "none")
             /\ crd'[c].live => crd[c].live \/ call_rcu_mutex = NULL
             /\ crd'[c].flags = crd[c].flags \/ living = {t}
  <2>1. CSameQueues /\ CList'
    BY <1>1, <1>2 DEF CSameQueues, CList
  <2>2. \A c \in Crdps : CWorking(c)'
    BY <1>1 DEF CIInv, CWorkers, CWorking
  <2> QED BY <1>1, <2>1, <2>2
<1>17. CRoles'
  <2>1. ASSUME NEW u \in CThreads
        PROVE  /\ u # t => CInner(u)' = CInner(u) /\ cth'[u].f = cth[u].f
               /\ thread_crd[u] \in Crdps \cup {NULL} /\ cth[u].f \in Crdps \cup {NULL}
    BY <1>6, CFacts DEF CInner, CInSub
  <2>2. \A u \in living : COwns(u)'
    BY <1>1, <1>2, <1>3, <1>5, <1>6, <1>7, <1>8, <2>1, CallRcuAssumption DEF CRoles, COwns, CHasTaken, CTakes, CTypeOK
  <2>3. CTakes(t)' => CHasTaken(t)'
    BY <1>1, <1>2, <1>3, <1>5, <1>6, <1>7, <1>8, <2>1, CallRcuAssumption DEF CRoles, COwns, CHasTaken, CTakes, CTypeOK
  <2>4. \A u \in CThreads : u # t /\ CTakes(u)' => CHasTaken(u)'
    BY <1>1, <1>2, <1>3, <1>5, <1>6, <1>7, <1>8, <2>1, CallRcuAssumption DEF CRoles, COwns, CHasTaken, CTakes, CTypeOK
  <2>5. /\ default_crd' # NULL => crd'[default_crd'].live
        /\ cpu_crd' # NULL => crd'[cpu_crd'].live /\ cpu_crd' # default_crd'
    BY <1>1, <1>2, <1>3, <1>5, <1>6, <1>7, <1>8, CallRcuAssumption DEF CRoles, CHasTaken, CTakes
  <2> QED BY <1>8, <2>2, <2>3, <2>4, <2>5 DEF CRoles
<1>18. cth[t].nest > 0 => cth'[t].nest > 0
  BY <1>2, <1>5, <1>6
<1>19. /\ \A u \in CThreads : u # t => cth'[u] = cth[u] /\ thread_crd'[u] = thread_crd[u]
       /\ default_crd # NULL => default_crd' = default_crd
       /\ cpu_crd' = cpu_crd \/ cpu_crd = NULL \/ (CInner(t)' = "synchronize" /\ cth'[t].f = cpu_crd) \/ living = {t}
       /\ CInner(t)' \notin CBarrier /\ CInner(t) # "unlink" /\ CInner(t)' # "unlink" /\ cth'[t].h = cth[t].h
  BY <1>1, <1>2, <1>3, <1>5, <1>6, <1>7, <1>8 DEF CTypeOK
<1> QED BY <1>1, <1>8, <1>9, <1>10, <1>11, <1>12, <1>13, <1>14, <1>15, <1>16, <1>17, <1>18, <1>19, CMoveAny

(* setthreadcallrcudata(NULL), before the crdp is freed.                   *)
LEMMA CTakeThreads ==
    ASSUME CIInv, NEW t \in CThreads, set_thread_call_rcu_data(t)
    PROVE  CIInv'
<1> DEFINE r == [[cth[t] EXCEPT !.pc = "free", !.ret = <<"idle">> \o @] EXCEPT !.f = thread_crd[t]]
<1> USE DEF CWaking, CCalling, CTaking, CFreeing, CBarrier, CForking
<1>1. /\ t \in living /\ cth[t].pc = "idle"
      /\ cth' = [cth EXCEPT ![t] = r] /\ crd' = crd
      /\ thread_crd[t] # NULL
      /\ thread_crd' = [thread_crd EXCEPT ![t] = NULL]
      /\ UNCHANGED <<call_rcu_data_list, default_crd, cpu_crd>>
      /\ UNCHANGED <<call_rcu_mutex, completion, cprocess, cghosts>>
  BY DEF set_thread_call_rcu_data, cat, may, thread, At, Enter, Back, cpointers
<1>2. /\ CTypeOK /\ cth[t] \in CThread /\ crd \in [Crdps -> CCrdp]
      /\ CPlaced(t) /\ CUsed(t) /\ CStopping(t) /\ CChildOf(t) /\ CList /\ CRoles
      /\ CTakes(t) => CHasTaken(t) /\ cth[t].f \in Crdps
      /\ cth[t].ret \in Seq(CInnerPC) /\ cth[t].nest \in Nat
      /\ cth[t].todo \in Seq(Crdps) /\ Range(cth[t].todo) \subseteq Crdps
      /\ default_crd \in Crdps \cup {NULL} /\ cpu_crd \in Crdps \cup {NULL} /\ thread_crd[t] \in Crdps \cup {NULL}
  <2>1. CRoles
    BY DEF CIInv
  <2> QED BY <2>1, CFacts
<1>3. CInner(t) = "idle" /\ CRest(t) = cth[t].ret
  BY <1>1, <1>2 DEF CInner, CRest, CInSub
<1>a. cth[t].ret = << >> /\ <<"idle">> \o cth[t].ret = <<"idle">> /\ <<"idle">> \in Seq(CInnerPC)
  <2>1. cth[t].ret = << >>
    BY <1>1, <1>2, <1>3 DEF CPlaced
  <2> QED BY <2>1, CReturns DEF CInnerPC
<1>b. COwns(t) /\ \A u \in CThreads : thread_crd'[u] = IF u = t THEN NULL ELSE thread_crd[u]
  BY <1>1, <1>2 DEF CRoles, CTypeOK
<1>c. <<"idle">> # <<"child_free">>
  BY CReturns
<1>4. r \in CThread
  <2>1. /\ cth[t] \in CThread /\ "free" \in CThreadPC
        /\ <<"idle">> \o cth[t].ret \in Seq(CInnerPC) /\ thread_crd[t] \in Crdps \cup {NULL}
    BY <1>2, <1>a, <1>b, <1>c DEF CThreadPC, CInnerPC
  <2> QED BY ONLY <2>1 DEF CThread
<1>5. /\ r.pc = "free" /\ r.ret = <<"idle">> /\ r.nest = cth[t].nest /\ r.h = cth[t].h
      /\ r.w = cth[t].w /\ r.f = thread_crd[t] /\ r.todo = cth[t].todo /\ r.tpre = cth[t].tpre
  BY <1>2, <1>a, <1>b, <1>c DEF CThread
<1> HIDE DEF r
<1>6. cth'[t] = r /\ \A u \in CThreads : u # t => cth'[u] = cth[u]
  BY <1>1, <1>2, CSetThread
<1>7. CInner(t)' = "free" /\ CRest(t)' = <<"idle">>
  BY <1>1, <1>2, <1>3, <1>a, <1>b, <1>c, <1>5, <1>6 DEF CInner, CRest, CInSub
<1>8. UNCHANGED <<living, cforks, pending, hold, owed>>
  BY <1>1 DEF cprocess, cghosts
<1>9. CPlaced(t)'
  BY <1>1, <1>2, <1>3, <1>a, <1>b, <1>c, <1>5, <1>6, <1>7, <1>8, CallRcuAssumption DEF CPlaced
<1>10. CUsed(t)'
  BY <1>1, <1>2, <1>3, <1>a, <1>b, <1>c, <1>5, <1>6, <1>7, <1>8, CallRcuAssumption DEF CUsed
<1>11. CStopping(t)'
  BY <1>1, <1>2, <1>3, <1>a, <1>b, <1>c, <1>5, <1>6, <1>7, <1>8, CallRcuAssumption DEF CStopping
<1>12. CChildOf(t)'
  BY <1>1, <1>2, <1>3, <1>a, <1>b, <1>c, <1>5, <1>6, <1>7, <1>8, CallRcuAssumption DEF CChildOf, CInChild
<1>13. CWaits(t)
  BY <1>1, <1>2, <1>3, <1>a, <1>b, <1>c, <1>5, <1>6, <1>7, <1>8, CallRcuAssumption DEF CWaits
<1>14. CToQueue(t)' = CToQueue(t)
  BY <1>1, <1>2, <1>3, <1>a, <1>b, <1>c, <1>5, <1>6, <1>7, <1>8 DEF CToQueue
<1>15. CTypeOK'
  <2>1. cth' \in [CThreads -> CThread]
    BY <1>1, <1>2, <1>4 DEF CTypeOK
  <2>2. crd' \in [Crdps -> CCrdp]
    BY <1>1, <1>2
  <2>3. /\ default_crd' \in Crdps \cup {NULL} /\ cpu_crd' \in Crdps \cup {NULL}
        /\ thread_crd' \in [CThreads -> Crdps \cup {NULL}] /\ call_rcu_data_list' \in Seq(Crdps)
    BY <1>1, <1>2, <1>3, <1>a, <1>b, <1>c, <1>5, <1>6, <1>7, <1>8 DEF CTypeOK, CTakes
  <2> QED BY <1>1, <1>2, <1>8, <2>1, <2>2, <2>3 DEF CTypeOK
<1>16. /\ CSameQueues /\ CList'
       /\ \A c \in Crdps :
             /\ CWorking(c)'
             /\ \/ crd'[c].wpc = crd[c].wpc /\ crd'[c].wpre = crd[c].wpre
                \/ crd'[c].wpc \notin {"grace", "run"} \cup CComplete
             /\ crd[c].live => crd'[c].live /\ (crd[c].wpc = "none" => crd'[c].wpc = "none")
             /\ crd'[c].live => crd[c].live \/ call_rcu_mutex = NULL
             /\ crd'[c].flags = crd[c].flags \/ living = {t}
  <2>1. CSameQueues /\ CList'
    BY <1>1, <1>2 DEF CSameQueues, CList
  <2>2. \A c \in Crdps : CWorking(c)'
    BY <1>1 DEF CIInv, CWorkers, CWorking
  <2> QED BY <1>1, <2>1, <2>2
<1>17. CRoles'
  <2>1. ASSUME NEW u \in CThreads
        PROVE  /\ u # t => CInner(u)' = CInner(u) /\ cth'[u].f = cth[u].f
               /\ thread_crd[u] \in Crdps \cup {NULL} /\ cth[u].f \in Crdps \cup {NULL}
    BY <1>6, CFacts DEF CInner, CInSub
  <2>2. \A u \in living : COwns(u)'
    BY <1>1, <1>2, <1>3, <1>a, <1>b, <1>c, <1>5, <1>6, <1>7, <1>8, <2>1, CallRcuAssumption DEF CRoles, COwns, CHasTaken, CTakes, CTypeOK
  <2>3. CTakes(t)' => CHasTaken(t)'
    BY <1>1, <1>2, <1>3, <1>a, <1>b, <1>c, <1>5, <1>6, <1>7, <1>8, <2>1, CallRcuAssumption DEF CRoles, COwns, CHasTaken, CTakes, CTypeOK
  <2>4. \A u \in CThreads : u # t /\ CTakes(u)' => CHasTaken(u)'
    BY <1>1, <1>2, <1>3, <1>a, <1>b, <1>c, <1>5, <1>6, <1>7, <1>8, <2>1, CallRcuAssumption DEF CRoles, COwns, CHasTaken, CTakes, CTypeOK
  <2>5. /\ default_crd' # NULL => crd'[default_crd'].live
        /\ cpu_crd' # NULL => crd'[cpu_crd'].live /\ cpu_crd' # default_crd'
    BY <1>1, <1>2, <1>3, <1>a, <1>b, <1>c, <1>5, <1>6, <1>7, <1>8, CallRcuAssumption DEF CRoles, CHasTaken, CTakes
  <2> QED BY <1>8, <2>2, <2>3, <2>4, <2>5 DEF CRoles
<1>18. cth[t].nest > 0 => cth'[t].nest > 0
  BY <1>2, <1>5, <1>6
<1>19. /\ \A u \in CThreads : u # t => cth'[u] = cth[u] /\ thread_crd'[u] = thread_crd[u]
       /\ default_crd # NULL => default_crd' = default_crd
       /\ cpu_crd' = cpu_crd \/ cpu_crd = NULL \/ (CInner(t)' = "synchronize" /\ cth'[t].f = cpu_crd) \/ living = {t}
       /\ CInner(t)' \notin CBarrier /\ CInner(t) # "unlink" /\ CInner(t)' # "unlink" /\ cth'[t].h = cth[t].h
  BY <1>1, <1>2, <1>3, <1>a, <1>b, <1>c, <1>5, <1>6, <1>7, <1>8 DEF CTypeOK
<1> QED BY <1>1, <1>8, <1>9, <1>10, <1>11, <1>12, <1>13, <1>14, <1>15, <1>16, <1>17, <1>18, <1>19, CMoveAny

(* free_all_cpu_call_rcu_data() takes the crdp from the CPU.               *)
LEMMA CFreeSetCpu ==
    ASSUME CIInv, CSetting, NEW t \in CThreads, FreeSetCpu(t)
    PROVE  CIInv'
<1> DEFINE r == [cth[t] EXCEPT !.pc = "synchronize"]
<1> USE DEF CWaking, CCalling, CTaking, CFreeing, CBarrier, CForking
<1>1. /\ t \in living /\ cth[t].pc = "free_set"
      /\ cth' = [cth EXCEPT ![t] = r] /\ crd' = crd
      /\ cpu_crd # NULL /\ cth[t].f = cpu_crd
      /\ cpu_crd' = NULL
      /\ UNCHANGED <<call_rcu_data_list, default_crd, thread_crd>>
      /\ UNCHANGED <<call_rcu_mutex, completion, cprocess, cghosts>>
  BY DEF FreeSetCpu, CSetting, cat, thread, At
<1>2. /\ CTypeOK /\ cth[t] \in CThread /\ crd \in [Crdps -> CCrdp]
      /\ CPlaced(t) /\ CUsed(t) /\ CStopping(t) /\ CChildOf(t) /\ CList /\ CRoles
      /\ CTakes(t) => CHasTaken(t) /\ cth[t].f \in Crdps
      /\ cth[t].ret \in Seq(CInnerPC) /\ cth[t].nest \in Nat
      /\ cth[t].todo \in Seq(Crdps) /\ Range(cth[t].todo) \subseteq Crdps
      /\ default_crd \in Crdps \cup {NULL} /\ cpu_crd \in Crdps \cup {NULL} /\ thread_crd[t] \in Crdps \cup {NULL}
  <2>1. CRoles
    BY DEF CIInv
  <2> QED BY <2>1, CFacts
<1>3. CInner(t) = "free_set" /\ CRest(t) = cth[t].ret
  BY <1>1, <1>2 DEF CInner, CRest, CInSub
<1>4. r \in CThread
  <2>1. cth[t] \in CThread /\ "synchronize" \in CThreadPC
    BY <1>2 DEF CThreadPC, CInnerPC
  <2> QED BY ONLY <2>1 DEF CThread
<1>5. /\ r.pc = "synchronize" /\ r.ret = cth[t].ret /\ r.nest = cth[t].nest /\ r.h = cth[t].h
      /\ r.w = cth[t].w /\ r.f = cpu_crd /\ r.todo = cth[t].todo /\ r.tpre = cth[t].tpre
  BY <1>1, <1>2 DEF CThread
<1> HIDE DEF r
<1>6. cth'[t] = r /\ \A u \in CThreads : u # t => cth'[u] = cth[u]
  BY <1>1, <1>2, CSetThread
<1>7. CInner(t)' = "synchronize" /\ CRest(t)' = cth[t].ret
  BY <1>1, <1>2, <1>3, <1>5, <1>6 DEF CInner, CRest, CInSub
<1>8. UNCHANGED <<living, cforks, pending, hold, owed>>
  BY <1>1 DEF cprocess, cghosts
<1>9. CPlaced(t)'
  BY <1>1, <1>2, <1>3, <1>5, <1>6, <1>7, <1>8, CallRcuAssumption DEF CPlaced
<1>10. CUsed(t)'
  BY <1>1, <1>2, <1>3, <1>5, <1>6, <1>7, <1>8, CallRcuAssumption DEF CUsed
<1>11. CStopping(t)'
  BY <1>1, <1>2, <1>3, <1>5, <1>6, <1>7, <1>8, CallRcuAssumption DEF CStopping
<1>12. CChildOf(t)'
  BY <1>1, <1>2, <1>3, <1>5, <1>6, <1>7, <1>8, CallRcuAssumption DEF CChildOf, CInChild
<1>13. CWaits(t)
  BY <1>1, <1>2, <1>3, <1>5, <1>6, <1>7, <1>8, CallRcuAssumption DEF CWaits
<1>14. CToQueue(t)' = CToQueue(t)
  BY <1>1, <1>2, <1>3, <1>5, <1>6, <1>7, <1>8 DEF CToQueue
<1>15. CTypeOK'
  <2>1. cth' \in [CThreads -> CThread]
    BY <1>1, <1>2, <1>4 DEF CTypeOK
  <2>2. crd' \in [Crdps -> CCrdp]
    BY <1>1, <1>2
  <2>3. /\ default_crd' \in Crdps \cup {NULL} /\ cpu_crd' \in Crdps \cup {NULL}
        /\ thread_crd' \in [CThreads -> Crdps \cup {NULL}] /\ call_rcu_data_list' \in Seq(Crdps)
    BY <1>1, <1>2, <1>3, <1>5, <1>6, <1>7, <1>8 DEF CTypeOK, CTakes
  <2> QED BY <1>1, <1>2, <1>8, <2>1, <2>2, <2>3 DEF CTypeOK
<1>16. /\ CSameQueues /\ CList'
       /\ \A c \in Crdps :
             /\ CWorking(c)'
             /\ \/ crd'[c].wpc = crd[c].wpc /\ crd'[c].wpre = crd[c].wpre
                \/ crd'[c].wpc \notin {"grace", "run"} \cup CComplete
             /\ crd[c].live => crd'[c].live /\ (crd[c].wpc = "none" => crd'[c].wpc = "none")
             /\ crd'[c].live => crd[c].live \/ call_rcu_mutex = NULL
             /\ crd'[c].flags = crd[c].flags \/ living = {t}
  <2>1. CSameQueues /\ CList'
    BY <1>1, <1>2 DEF CSameQueues, CList
  <2>2. \A c \in Crdps : CWorking(c)'
    BY <1>1 DEF CIInv, CWorkers, CWorking
  <2> QED BY <1>1, <2>1, <2>2
<1>17. CRoles'
  <2>1. ASSUME NEW u \in CThreads
        PROVE  /\ u # t => CInner(u)' = CInner(u) /\ cth'[u].f = cth[u].f
               /\ thread_crd[u] \in Crdps \cup {NULL} /\ cth[u].f \in Crdps \cup {NULL}
    BY <1>6, CFacts DEF CInner, CInSub
  <2>2. \A u \in living : COwns(u)'
    BY <1>1, <1>2, <1>3, <1>5, <1>6, <1>7, <1>8, <2>1, CallRcuAssumption DEF CRoles, COwns, CHasTaken, CTakes, CTypeOK
  <2>3. CTakes(t)' => CHasTaken(t)'
    BY <1>1, <1>2, <1>3, <1>5, <1>6, <1>7, <1>8, <2>1, CallRcuAssumption DEF CRoles, COwns, CHasTaken, CTakes, CTypeOK
  <2>4. \A u \in CThreads : u # t /\ CTakes(u)' => CHasTaken(u)'
    BY <1>1, <1>2, <1>3, <1>5, <1>6, <1>7, <1>8, <2>1, CallRcuAssumption DEF CRoles, COwns, CHasTaken, CTakes, CTypeOK
  <2>5. /\ default_crd' # NULL => crd'[default_crd'].live
        /\ cpu_crd' # NULL => crd'[cpu_crd'].live /\ cpu_crd' # default_crd'
    BY <1>1, <1>2, <1>3, <1>5, <1>6, <1>7, <1>8, CallRcuAssumption DEF CRoles, CHasTaken, CTakes
  <2> QED BY <1>8, <2>2, <2>3, <2>4, <2>5 DEF CRoles
<1>18. cth[t].nest > 0 => cth'[t].nest > 0
  BY <1>2, <1>5, <1>6
<1>19. /\ \A u \in CThreads : u # t => cth'[u] = cth[u] /\ thread_crd'[u] = thread_crd[u]
       /\ default_crd # NULL => default_crd' = default_crd
       /\ cpu_crd' = cpu_crd \/ cpu_crd = NULL \/ (CInner(t)' = "synchronize" /\ cth'[t].f = cpu_crd) \/ living = {t}
       /\ CInner(t)' \notin CBarrier /\ CInner(t) # "unlink" /\ CInner(t)' # "unlink" /\ cth'[t].h = cth[t].h
  BY <1>1, <1>2, <1>3, <1>5, <1>6, <1>7, <1>8 DEF CTypeOK
<1> QED BY <1>1, <1>8, <1>9, <1>10, <1>11, <1>12, <1>13, <1>14, <1>15, <1>16, <1>17, <1>18, <1>19, CMoveAny

(* The child forgets the crdps of its parent.                              *)
LEMMA CChildCleanup ==
    ASSUME CIInv, NEW t \in CThreads, ChildCleanup(t)
    PROVE  CIInv'
<1> DEFINE r == [[cth[t] EXCEPT !.pc = "child_free"] EXCEPT !.todo = Without(call_rcu_data_list, default_crd)]
<1> USE DEF CWaking, CCalling, CTaking, CFreeing, CBarrier, CForking
<1>1. /\ t \in living /\ cth[t].pc = "child"
      /\ cth' = [cth EXCEPT ![t] = r] /\ crd' = crd
      /\ cpu_crd' = NULL
      /\ thread_crd' = [thread_crd EXCEPT ![t] = NULL]
      /\ UNCHANGED <<call_rcu_data_list, default_crd>>
      /\ UNCHANGED <<call_rcu_mutex, completion, cprocess, cghosts>>
  BY DEF ChildCleanup, cat, may, thread, At, Enter, Back, cpointers
<1>2. /\ CTypeOK /\ cth[t] \in CThread /\ crd \in [Crdps -> CCrdp]
      /\ CPlaced(t) /\ CUsed(t) /\ CStopping(t) /\ CChildOf(t) /\ CList /\ CRoles
      /\ CTakes(t) => CHasTaken(t) /\ cth[t].f \in Crdps
      /\ cth[t].ret \in Seq(CInnerPC) /\ cth[t].nest \in Nat
      /\ cth[t].todo \in Seq(Crdps) /\ Range(cth[t].todo) \subseteq Crdps
      /\ default_crd \in Crdps \cup {NULL} /\ cpu_crd \in Crdps \cup {NULL} /\ thread_crd[t] \in Crdps \cup {NULL}
  <2>1. CRoles
    BY DEF CIInv
  <2> QED BY <2>1, CFacts
<1>3. CInner(t) = "child" /\ CRest(t) = cth[t].ret
  BY <1>1, <1>2 DEF CInner, CRest, CInSub
<1>a. /\ living = {t} /\ default_crd \in Crdps /\ crd[default_crd].live
      /\ \A c \in Crdps : c # default_crd => crd[c].wpc = "none"
  BY <1>1, <1>2, <1>3 DEF CChildOf, CInChild, CRoles
<1>b. /\ Without(call_rcu_data_list, default_crd) \in Seq(Crdps)
      /\ IsInjective(Without(call_rcu_data_list, default_crd))
      /\ Range(Without(call_rcu_data_list, default_crd)) = Range(call_rcu_data_list) \ {default_crd}
  <2>1. call_rcu_data_list \in Seq(Crdps) /\ IsInjective(call_rcu_data_list) /\ default_crd \in Range(call_rcu_data_list)
    BY <1>2, <1>a DEF CTypeOK, CList
  <2> QED BY ONLY <2>1, CrWithout
<1>c. /\ \A u \in CThreads : thread_crd'[u] = IF u = t THEN NULL ELSE thread_crd[u]
      /\ Range(call_rcu_data_list) \subseteq Crdps
  <2>1. call_rcu_data_list \in Seq(Crdps)
    BY <1>2 DEF CTypeOK
  <2> QED BY <1>1, <1>2, <2>1, CrSeq DEF CTypeOK
<1>4. r \in CThread
  <2>1. /\ cth[t] \in CThread /\ "child_free" \in CThreadPC
        /\ Without(call_rcu_data_list, default_crd) \in Seq(Crdps)
    BY <1>2, <1>a, <1>b, <1>c DEF CThreadPC, CInnerPC
  <2> QED BY ONLY <2>1 DEF CThread
<1>5. /\ r.pc = "child_free" /\ r.ret = cth[t].ret /\ r.nest = cth[t].nest /\ r.h = cth[t].h
      /\ r.w = cth[t].w /\ r.f = cth[t].f /\ r.todo = Without(call_rcu_data_list, default_crd) /\ r.tpre = cth[t].tpre
  BY <1>2, <1>a, <1>b, <1>c DEF CThread
<1> HIDE DEF r
<1>6. cth'[t] = r /\ \A u \in CThreads : u # t => cth'[u] = cth[u]
  BY <1>1, <1>2, CSetThread
<1>7. CInner(t)' = "child_free" /\ CRest(t)' = cth[t].ret
  BY <1>1, <1>2, <1>3, <1>a, <1>b, <1>c, <1>5, <1>6 DEF CInner, CRest, CInSub
<1>8. UNCHANGED <<living, cforks, pending, hold, owed>>
  BY <1>1 DEF cprocess, cghosts
<1>9. CPlaced(t)'
  BY <1>1, <1>2, <1>3, <1>a, <1>b, <1>c, <1>5, <1>6, <1>7, <1>8, CallRcuAssumption DEF CPlaced
<1>10. CUsed(t)'
  BY <1>1, <1>2, <1>3, <1>a, <1>b, <1>c, <1>5, <1>6, <1>7, <1>8, CallRcuAssumption DEF CUsed
<1>11. CStopping(t)'
  BY <1>1, <1>2, <1>3, <1>a, <1>b, <1>c, <1>5, <1>6, <1>7, <1>8, CallRcuAssumption DEF CStopping
<1>12. CChildOf(t)'
  <2>1. \A c \in Range(Without(call_rcu_data_list, default_crd)) : crd[c].live /\ c # default_crd
    BY <1>2, <1>b, <1>c DEF CList
  <2> QED BY <1>1, <1>a, <1>b, <1>c, <1>5, <1>6, <1>7, <1>8, <2>1, CallRcuAssumption DEF CChildOf
<1>13. CWaits(t)
  BY <1>1, <1>2, <1>3, <1>a, <1>b, <1>c, <1>5, <1>6, <1>7, <1>8, CallRcuAssumption DEF CWaits
<1>14. CToQueue(t)' = CToQueue(t)
  BY <1>1, <1>2, <1>3, <1>a, <1>b, <1>c, <1>5, <1>6, <1>7, <1>8 DEF CToQueue
<1>15. CTypeOK'
  <2>1. cth' \in [CThreads -> CThread]
    BY <1>1, <1>2, <1>4 DEF CTypeOK
  <2>2. crd' \in [Crdps -> CCrdp]
    BY <1>1, <1>2
  <2>3. /\ default_crd' \in Crdps \cup {NULL} /\ cpu_crd' \in Crdps \cup {NULL}
        /\ thread_crd' \in [CThreads -> Crdps \cup {NULL}] /\ call_rcu_data_list' \in Seq(Crdps)
    BY <1>1, <1>2, <1>3, <1>a, <1>b, <1>c, <1>5, <1>6, <1>7, <1>8 DEF CTypeOK, CTakes
  <2> QED BY <1>1, <1>2, <1>8, <2>1, <2>2, <2>3 DEF CTypeOK
<1>16. /\ CSameQueues /\ CList'
       /\ \A c \in Crdps :
             /\ CWorking(c)'
             /\ \/ crd'[c].wpc = crd[c].wpc /\ crd'[c].wpre = crd[c].wpre
                \/ crd'[c].wpc \notin {"grace", "run"} \cup CComplete
             /\ crd[c].live => crd'[c].live /\ (crd[c].wpc = "none" => crd'[c].wpc = "none")
             /\ crd'[c].live => crd[c].live \/ call_rcu_mutex = NULL
             /\ crd'[c].flags = crd[c].flags \/ living = {t}
  <2>1. CSameQueues /\ CList'
    BY <1>1, <1>2 DEF CSameQueues, CList
  <2>2. \A c \in Crdps : CWorking(c)'
    BY <1>1 DEF CIInv, CWorkers, CWorking
  <2> QED BY <1>1, <2>1, <2>2
<1>17. CRoles'
  <2>1. ASSUME NEW u \in CThreads
        PROVE  /\ u # t => CInner(u)' = CInner(u) /\ cth'[u].f = cth[u].f
               /\ thread_crd[u] \in Crdps \cup {NULL} /\ cth[u].f \in Crdps \cup {NULL}
    BY <1>6, CFacts DEF CInner, CInSub
  <2>2. \A u \in living : COwns(u)'
    BY <1>1, <1>2, <1>3, <1>a, <1>b, <1>c, <1>5, <1>6, <1>7, <1>8, <2>1, CallRcuAssumption DEF CRoles, COwns, CHasTaken, CTakes, CTypeOK
  <2>3. CTakes(t)' => CHasTaken(t)'
    BY <1>1, <1>2, <1>3, <1>a, <1>b, <1>c, <1>5, <1>6, <1>7, <1>8, <2>1, CallRcuAssumption DEF CRoles, COwns, CHasTaken, CTakes, CTypeOK
  <2>4. \A u \in CThreads : u # t /\ CTakes(u)' => CHasTaken(u)'
    BY <1>1, <1>2, <1>3, <1>a, <1>b, <1>c, <1>5, <1>6, <1>7, <1>8, <2>1, CallRcuAssumption DEF CRoles, COwns, CHasTaken, CTakes, CTypeOK
  <2>5. /\ default_crd' # NULL => crd'[default_crd'].live
        /\ cpu_crd' # NULL => crd'[cpu_crd'].live /\ cpu_crd' # default_crd'
    BY <1>1, <1>2, <1>3, <1>a, <1>b, <1>c, <1>5, <1>6, <1>7, <1>8, CallRcuAssumption DEF CRoles, CHasTaken, CTakes
  <2> QED BY <1>8, <2>2, <2>3, <2>4, <2>5 DEF CRoles
<1>18. cth[t].nest > 0 => cth'[t].nest > 0
  BY <1>2, <1>5, <1>6
<1>19. /\ \A u \in CThreads : u # t => cth'[u] = cth[u] /\ thread_crd'[u] = thread_crd[u]
       /\ default_crd # NULL => default_crd' = default_crd
       /\ cpu_crd' = cpu_crd \/ cpu_crd = NULL \/ (CInner(t)' = "synchronize" /\ cth'[t].f = cpu_crd) \/ living = {t}
       /\ CInner(t)' \notin CBarrier /\ CInner(t) # "unlink" /\ CInner(t)' # "unlink" /\ cth'[t].h = cth[t].h
  BY <1>1, <1>2, <1>3, <1>a, <1>b, <1>c, <1>5, <1>6, <1>7, <1>8 DEF CTypeOK
<1> QED BY <1>1, <1>8, <1>9, <1>10, <1>11, <1>12, <1>13, <1>14, <1>15, <1>16, <1>17, <1>18, <1>19, CMoveAny

(* call_rcu_data_init(): nothing refers to the new crdp yet.               *)
LEMMA CMalloc ==
    ASSUME CIInv, NEW rt \in BOOLEAN, call_rcu_data_init(rt), NEW c, c = malloc
    PROVE  /\ c \in Crdps /\ ~ crd[c].live
           /\ crd' \in [Crdps -> CCrdp] /\ call_rcu_data_list' \in Seq(Crdps)
           /\ crd'[c].live /\ \A d \in Crdps : d # c => crd'[d] = crd[d]
           /\ CSameQueues /\ CList'
           /\ \A d \in Crdps :
                 /\ CWorking(d)'
                 /\ \/ crd'[d].wpc = crd[d].wpc /\ crd'[d].wpre = crd[d].wpre
                    \/ crd'[d].wpc \notin {"grace", "run"} \cup CComplete
                 /\ crd[d].live => crd'[d].live /\ (crd[d].wpc = "none" => crd'[d].wpc = "none")
                 /\ crd'[d].flags = crd[d].flags
           /\ c # default_crd /\ c # cpu_crd /\ c # NULL
           /\ \A u \in living : thread_crd[u] # c
           /\ \A u \in CThreads : CTakes(u) => cth[u].f # c
<1>0. CTypeOK /\ CList /\ CRoles /\ CWorkers
  BY DEF CIInv
<1>1. c \in Crdps /\ ~ crd[c].live
  BY DEF call_rcu_data_init, malloc
<1>2. crd' = [crd EXCEPT ![c] = FreshCrdp(rt)] /\ call_rcu_data_list' = <<c>> \o call_rcu_data_list
  BY DEF call_rcu_data_init
<1>3. crd \in [Crdps -> CCrdp] /\ call_rcu_data_list \in Seq(Crdps)
  BY <1>0 DEF CTypeOK
<1>4. /\ crd[c] \in CCrdp /\ crd[c] = Unused /\ crd[c].q = << >> /\ crd[c].batch = << >> /\ crd[c].flags = {}
      /\ crd[c].wpc = "none"
  BY <1>0, <1>1, <1>3 DEF CList, Unused
<1>5. /\ FreshCrdp(rt) \in CCrdp /\ FreshCrdp(rt).live /\ FreshCrdp(rt).wpc = "start"
      /\ FreshCrdp(rt).q = crd[c].q /\ FreshCrdp(rt).batch = crd[c].batch /\ FreshCrdp(rt).flags = crd[c].flags
  <2> DEFINE x == crd[c]
  <2>1. x \in CCrdp /\ FreshCrdp(rt) = [x EXCEPT !.live = TRUE, !.rt = rt, !.wpc = "start"]
    BY <1>4 DEF FreshCrdp
  <2> HIDE DEF x
  <2>2. [x EXCEPT !.live = TRUE, !.rt = rt, !.wpc = "start"] \in CCrdp
    BY ONLY <2>1, rt \in BOOLEAN DEF CCrdp, CWorkerPC
  <2>3. /\ FreshCrdp(rt).live /\ FreshCrdp(rt).wpc = "start" /\ FreshCrdp(rt).q = x.q
        /\ FreshCrdp(rt).batch = x.batch /\ FreshCrdp(rt).flags = x.flags
    BY ONLY <2>1 DEF CCrdp
  <2> QED BY <2>1, <2>2, <2>3 DEF x
<1>6. crd'[c] = FreshCrdp(rt) /\ \A d \in Crdps : d # c => crd'[d] = crd[d]
  BY <1>1, <1>2, <1>3
<1>7. crd' \in [Crdps -> CCrdp]
  BY <1>2, <1>3, <1>5
<1>8. CSameQueues
  BY <1>4, <1>5, <1>6 DEF CSameQueues, CComplete
<1>9. CList' /\ call_rcu_data_list' \in Seq(Crdps)
  <2>1. c \notin Range(call_rcu_data_list) /\ IsInjective(call_rcu_data_list)
    BY <1>0, <1>1 DEF CList
  <2>2. /\ call_rcu_data_list' \in Seq(Crdps) /\ IsInjective(call_rcu_data_list')
        /\ Range(call_rcu_data_list') = {c} \cup Range(call_rcu_data_list)
    BY <1>1, <1>2, <1>3, <2>1, CrCons
  <2> QED BY <1>0, <1>1, <1>5, <1>6, <2>2 DEF CList
<1>10. ASSUME NEW d \in Crdps
       PROVE  /\ CWorking(d)'
              /\ \/ crd'[d].wpc = crd[d].wpc /\ crd'[d].wpre = crd[d].wpre
                 \/ crd'[d].wpc \notin {"grace", "run"} \cup CComplete
              /\ crd[d].live => crd'[d].live /\ (crd[d].wpc = "none" => crd'[d].wpc = "none")
              /\ crd'[d].flags = crd[d].flags
  <2>1. CASE d = c
    BY <1>1, <1>4, <1>5, <1>6, <2>1 DEF CWorking, CComplete
  <2>2. CASE d # c
    BY <1>0, <1>6, <2>2 DEF CWorking, CWorkers
  <2> QED BY <2>1, <2>2
<1>11. /\ c # default_crd /\ c # cpu_crd /\ c # NULL /\ \A u \in living : thread_crd[u] # c
       /\ \A u \in CThreads : CTakes(u) => cth[u].f # c
  BY <1>0, <1>1, CallRcuAssumption DEF CRoles, COwns, CHasTaken
<1> QED BY <1>1, <1>5, <1>6, <1>7, <1>8, <1>9, <1>10, <1>11

(* get_default_call_rcu_data() creates the default crdp.                   *)
LEMMA CCreateDefault ==
    ASSUME CIInv, NEW t \in CThreads, NEW c, default_crd = NULL, c = malloc, get_default_call_rcu_data(t)
    PROVE  CIInv'
<1> DEFINE r == [[cth[t] EXCEPT !.pc = Head(cth[t].ret), !.ret = Tail(cth[t].ret)] EXCEPT !.w = c]
<1> USE DEF CWaking, CCalling, CTaking, CFreeing, CBarrier, CForking
<1>1. /\ t \in living /\ cth[t].pc = "default"
      /\ cth' = [cth EXCEPT ![t] = r]
      /\ call_rcu_mutex = NULL /\ call_rcu_data_init(FALSE)
      /\ default_crd' = c
      /\ UNCHANGED <<cpu_crd, thread_crd>>
      /\ UNCHANGED <<call_rcu_mutex, completion, cprocess, cghosts>>
  BY DEF get_default_call_rcu_data, cat, may, thread, At, Enter, Back, cpointers
<1>2. /\ CTypeOK /\ cth[t] \in CThread /\ crd \in [Crdps -> CCrdp]
      /\ CPlaced(t) /\ CUsed(t) /\ CStopping(t) /\ CChildOf(t) /\ CList /\ CRoles
      /\ CTakes(t) => CHasTaken(t) /\ cth[t].f \in Crdps
      /\ cth[t].ret \in Seq(CInnerPC) /\ cth[t].nest \in Nat
      /\ cth[t].todo \in Seq(Crdps) /\ Range(cth[t].todo) \subseteq Crdps
      /\ default_crd \in Crdps \cup {NULL} /\ cpu_crd \in Crdps \cup {NULL} /\ thread_crd[t] \in Crdps \cup {NULL}
  <2>1. CRoles
    BY DEF CIInv
  <2> QED BY <2>1, CFacts
<1>3. CInner(t) = Head(cth[t].ret) /\ CRest(t) = Tail(cth[t].ret)
  BY <1>1, <1>2 DEF CInner, CRest, CInSub
<1>a. c \in Crdps
  BY <1>1, CMalloc
<1>b. /\ cth[t].ret # << >> /\ Head(cth[t].ret) \in {"enqueue", "migrate", "child"}
      /\ Tail(cth[t].ret) \in Seq(CInnerPC)
  BY <1>1, <1>2, CrTail DEF CPlaced
<1>4. r \in CThread
  <2>1. cth[t] \in CThread /\ c \in Crdps /\ Head(cth[t].ret) \in CThreadPC /\ Tail(cth[t].ret) \in Seq(CInnerPC)
    BY <1>2, <1>a, <1>b DEF CThreadPC, CInnerPC
  <2> QED BY ONLY <2>1 DEF CThread
<1>5. /\ r.pc = Head(cth[t].ret) /\ r.ret = Tail(cth[t].ret) /\ r.nest = cth[t].nest /\ r.h = cth[t].h
      /\ r.w = c /\ r.f = cth[t].f /\ r.todo = cth[t].todo /\ r.tpre = cth[t].tpre
  BY <1>2, <1>a, <1>b DEF CThread
<1> HIDE DEF r
<1>6. cth'[t] = r /\ \A u \in CThreads : u # t => cth'[u] = cth[u]
  BY <1>1, <1>2, CSetThread
<1>7. CInner(t)' = CInner(t) /\ CRest(t)' = CRest(t)
  BY <1>1, <1>2, <1>3, <1>a, <1>b, <1>5, <1>6 DEF CInner, CRest, CInSub
<1>8. UNCHANGED <<living, cforks, pending, hold, owed>>
  BY <1>1 DEF cprocess, cghosts
<1>c1. /\ c \in Crdps /\ ~ crd[c].live
       /\ crd' \in [Crdps -> CCrdp] /\ call_rcu_data_list' \in Seq(Crdps)
       /\ crd'[c].live /\ \A d \in Crdps : d # c => crd'[d] = crd[d]
       /\ CSameQueues /\ CList'
       /\ \A d \in Crdps :
             /\ CWorking(d)'
             /\ \/ crd'[d].wpc = crd[d].wpc /\ crd'[d].wpre = crd[d].wpre
                \/ crd'[d].wpc \notin {"grace", "run"} \cup CComplete
             /\ crd[d].live => crd'[d].live /\ (crd[d].wpc = "none" => crd'[d].wpc = "none")
             /\ crd'[d].flags = crd[d].flags
       /\ c # default_crd /\ c # cpu_crd /\ c # NULL
       /\ \A u \in living : thread_crd[u] # c
       /\ \A u \in CThreads : CTakes(u) => cth[u].f # c
  BY <1>1, CMalloc
<1>9. CPlaced(t)'
  BY <1>1, <1>2, <1>3, <1>a, <1>b, <1>c1, <1>5, <1>6, <1>7, <1>8, CallRcuAssumption DEF CPlaced
<1>10. CUsed(t)'
  BY <1>1, <1>2, <1>3, <1>a, <1>b, <1>c1, <1>5, <1>6, <1>7, <1>8, CallRcuAssumption DEF CUsed
<1>11. CStopping(t)'
  <2>1. CInner(t) = "migrate" => cth[t].f \in Crdps /\ cth[t].f # c /\ crd[cth[t].f].wpc = "none"
    BY <1>2, <1>c1 DEF CTakes, CStopping
  <2> QED BY <1>1, <1>3, <1>b, <1>5, <1>6, <1>7, <1>c1, <2>1 DEF CStopping
<1>12. CChildOf(t)'
  BY <1>1, <1>2, <1>3, <1>a, <1>b, <1>c1, <1>5, <1>6, <1>7, <1>8, CallRcuAssumption DEF CChildOf, CInChild
<1>13. CWaits(t)
  BY <1>1, <1>2, <1>3, <1>a, <1>b, <1>c1, <1>5, <1>6, <1>7, <1>8, CallRcuAssumption DEF CWaits
<1>14. CToQueue(t)' = CToQueue(t)
  BY <1>1, <1>2, <1>3, <1>a, <1>b, <1>c1, <1>5, <1>6, <1>7, <1>8 DEF CToQueue
<1>15. CTypeOK'
  <2>1. cth' \in [CThreads -> CThread]
    BY <1>1, <1>2, <1>4 DEF CTypeOK
  <2>2. crd' \in [Crdps -> CCrdp]
    BY <1>c1
  <2>3. /\ default_crd' \in Crdps \cup {NULL} /\ cpu_crd' \in Crdps \cup {NULL}
        /\ thread_crd' \in [CThreads -> Crdps \cup {NULL}] /\ call_rcu_data_list' \in Seq(Crdps)
    BY <1>1, <1>2, <1>c1 DEF CTypeOK
  <2> QED BY <1>1, <1>2, <1>8, <2>1, <2>2, <2>3 DEF CTypeOK
<1>16. /\ CSameQueues /\ CList'
       /\ \A d \in Crdps :
             /\ CWorking(d)'
             /\ \/ crd'[d].wpc = crd[d].wpc /\ crd'[d].wpre = crd[d].wpre
                \/ crd'[d].wpc \notin {"grace", "run"} \cup CComplete
             /\ crd[d].live => crd'[d].live /\ (crd[d].wpc = "none" => crd'[d].wpc = "none")
             /\ crd'[d].live => crd[d].live \/ call_rcu_mutex = NULL
             /\ crd'[d].flags = crd[d].flags \/ living = {t}
  BY <1>1, <1>c1
<1>17. CRoles'
  <2>1. ASSUME NEW u \in CThreads
        PROVE  /\ u # t => CInner(u)' = CInner(u) /\ cth'[u].f = cth[u].f
               /\ thread_crd[u] \in Crdps \cup {NULL} /\ cth[u].f \in Crdps \cup {NULL}
    BY <1>6, CFacts DEF CInner, CInSub
  <2>2. \A u \in living : COwns(u)'
    BY <1>1, <1>2, <1>3, <1>a, <1>b, <1>c1, <1>5, <1>6, <1>7, <1>8, <2>1, CallRcuAssumption DEF CRoles, COwns, CHasTaken, CTakes, CTypeOK
  <2>3. CTakes(t)' => CHasTaken(t)'
    BY <1>1, <1>2, <1>3, <1>a, <1>b, <1>c1, <1>5, <1>6, <1>7, <1>8, <2>1, CallRcuAssumption DEF CRoles, COwns, CHasTaken, CTakes, CTypeOK
  <2>4. \A u \in CThreads : u # t /\ CTakes(u)' => CHasTaken(u)'
    BY <1>1, <1>2, <1>3, <1>a, <1>b, <1>c1, <1>5, <1>6, <1>7, <1>8, <2>1, CallRcuAssumption DEF CRoles, COwns, CHasTaken, CTakes, CTypeOK
  <2>5. /\ default_crd' # NULL => crd'[default_crd'].live
        /\ cpu_crd' # NULL => crd'[cpu_crd'].live /\ cpu_crd' # default_crd'
    BY <1>1, <1>2, <1>3, <1>a, <1>b, <1>c1, <1>5, <1>6, <1>7, <1>8, CallRcuAssumption DEF CRoles, CHasTaken, CTakes
  <2> QED BY <1>8, <2>2, <2>3, <2>4, <2>5 DEF CRoles
<1>18. cth[t].nest > 0 => cth'[t].nest > 0
  BY <1>2, <1>5, <1>6
<1>19. /\ \A u \in CThreads : u # t => cth'[u] = cth[u] /\ thread_crd'[u] = thread_crd[u]
       /\ default_crd # NULL => default_crd' = default_crd
       /\ cpu_crd' = cpu_crd \/ cpu_crd = NULL \/ (CInner(t)' = "synchronize" /\ cth'[t].f = cpu_crd) \/ living = {t}
       /\ CInner(t)' \notin CBarrier /\ CInner(t) # "unlink" /\ CInner(t)' # "unlink" /\ cth'[t].h = cth[t].h
  BY <1>1, <1>2, <1>3, <1>a, <1>b, <1>c1, <1>5, <1>6, <1>7, <1>8 DEF CTypeOK
<1> QED BY <1>1, <1>8, <1>9, <1>10, <1>11, <1>12, <1>13, <1>14, <1>15, <1>16, <1>17, <1>18, <1>19, CMoveAny

(* create_all_cpu_call_rcu_data() creates a crdp.                          *)
LEMMA CCreateAllCpu ==
    ASSUME CIInv, NEW t \in CThreads, NEW c, c = malloc, create_all_cpu_call_rcu_data(t), call_rcu_data_init(FALSE)
    PROVE  CIInv'
<1> DEFINE r == [[cth[t] EXCEPT !.pc = "set_cpu"] EXCEPT !.f = c]
<1> USE DEF CWaking, CCalling, CTaking, CFreeing, CBarrier, CForking
<1>1. /\ t \in living /\ cth[t].pc = "idle"
      /\ cth' = [cth EXCEPT ![t] = r]
      /\ call_rcu_mutex = NULL /\ call_rcu_data_init(FALSE)
      /\ UNCHANGED <<default_crd, cpu_crd, thread_crd>>
      /\ UNCHANGED <<call_rcu_mutex, completion, cprocess, cghosts>>
  BY DEF create_all_cpu_call_rcu_data, cat, may, thread, At, Enter, Back, cpointers
<1>2. /\ CTypeOK /\ cth[t] \in CThread /\ crd \in [Crdps -> CCrdp]
      /\ CPlaced(t) /\ CUsed(t) /\ CStopping(t) /\ CChildOf(t) /\ CList /\ CRoles
      /\ CTakes(t) => CHasTaken(t) /\ cth[t].f \in Crdps
      /\ cth[t].ret \in Seq(CInnerPC) /\ cth[t].nest \in Nat
      /\ cth[t].todo \in Seq(Crdps) /\ Range(cth[t].todo) \subseteq Crdps
      /\ default_crd \in Crdps \cup {NULL} /\ cpu_crd \in Crdps \cup {NULL} /\ thread_crd[t] \in Crdps \cup {NULL}
  <2>1. CRoles
    BY DEF CIInv
  <2> QED BY <2>1, CFacts
<1>3. CInner(t) = "idle" /\ CRest(t) = cth[t].ret
  BY <1>1, <1>2 DEF CInner, CRest, CInSub
<1>a. c \in Crdps
  BY <1>1, CMalloc
<1>4. r \in CThread
  <2>1. cth[t] \in CThread /\ "set_cpu" \in CThreadPC /\ c \in Crdps \cup {NULL}
    BY <1>2, <1>a DEF CThreadPC, CInnerPC
  <2> QED BY ONLY <2>1 DEF CThread
<1>5. /\ r.pc = "set_cpu" /\ r.ret = cth[t].ret /\ r.nest = cth[t].nest /\ r.h = cth[t].h
      /\ r.w = cth[t].w /\ r.f = c /\ r.todo = cth[t].todo /\ r.tpre = cth[t].tpre
  BY <1>2, <1>a DEF CThread
<1> HIDE DEF r
<1>6. cth'[t] = r /\ \A u \in CThreads : u # t => cth'[u] = cth[u]
  BY <1>1, <1>2, CSetThread
<1>7. CInner(t)' = "set_cpu" /\ CRest(t)' = cth[t].ret
  BY <1>1, <1>2, <1>3, <1>a, <1>5, <1>6 DEF CInner, CRest, CInSub
<1>8. UNCHANGED <<living, cforks, pending, hold, owed>>
  BY <1>1 DEF cprocess, cghosts
<1>c1. /\ c \in Crdps /\ ~ crd[c].live
       /\ crd' \in [Crdps -> CCrdp] /\ call_rcu_data_list' \in Seq(Crdps)
       /\ crd'[c].live /\ \A d \in Crdps : d # c => crd'[d] = crd[d]
       /\ CSameQueues /\ CList'
       /\ \A d \in Crdps :
             /\ CWorking(d)'
             /\ \/ crd'[d].wpc = crd[d].wpc /\ crd'[d].wpre = crd[d].wpre
                \/ crd'[d].wpc \notin {"grace", "run"} \cup CComplete
             /\ crd[d].live => crd'[d].live /\ (crd[d].wpc = "none" => crd'[d].wpc = "none")
             /\ crd'[d].flags = crd[d].flags
       /\ c # default_crd /\ c # cpu_crd /\ c # NULL
       /\ \A u \in living : thread_crd[u] # c
       /\ \A u \in CThreads : CTakes(u) => cth[u].f # c
  BY <1>1, CMalloc
<1>9. CPlaced(t)'
  BY <1>1, <1>2, <1>3, <1>a, <1>c1, <1>5, <1>6, <1>7, <1>8, CallRcuAssumption DEF CPlaced
<1>10. CUsed(t)'
  BY <1>1, <1>2, <1>3, <1>a, <1>c1, <1>5, <1>6, <1>7, <1>8, CallRcuAssumption DEF CUsed
<1>11. CStopping(t)'
  BY <1>1, <1>2, <1>3, <1>a, <1>c1, <1>5, <1>6, <1>7, <1>8, CallRcuAssumption DEF CStopping
<1>12. CChildOf(t)'
  BY <1>1, <1>2, <1>3, <1>a, <1>c1, <1>5, <1>6, <1>7, <1>8, CallRcuAssumption DEF CChildOf, CInChild
<1>13. CWaits(t)
  BY <1>1, <1>2, <1>3, <1>a, <1>c1, <1>5, <1>6, <1>7, <1>8, CallRcuAssumption DEF CWaits
<1>14. CToQueue(t)' = CToQueue(t)
  BY <1>1, <1>2, <1>3, <1>a, <1>c1, <1>5, <1>6, <1>7, <1>8 DEF CToQueue
<1>15. CTypeOK'
  <2>1. cth' \in [CThreads -> CThread]
    BY <1>1, <1>2, <1>4 DEF CTypeOK
  <2>2. crd' \in [Crdps -> CCrdp]
    BY <1>c1
  <2>3. /\ default_crd' \in Crdps \cup {NULL} /\ cpu_crd' \in Crdps \cup {NULL}
        /\ thread_crd' \in [CThreads -> Crdps \cup {NULL}] /\ call_rcu_data_list' \in Seq(Crdps)
    BY <1>1, <1>2, <1>c1 DEF CTypeOK
  <2> QED BY <1>1, <1>2, <1>8, <2>1, <2>2, <2>3 DEF CTypeOK
<1>16. /\ CSameQueues /\ CList'
       /\ \A d \in Crdps :
             /\ CWorking(d)'
             /\ \/ crd'[d].wpc = crd[d].wpc /\ crd'[d].wpre = crd[d].wpre
                \/ crd'[d].wpc \notin {"grace", "run"} \cup CComplete
             /\ crd[d].live => crd'[d].live /\ (crd[d].wpc = "none" => crd'[d].wpc = "none")
             /\ crd'[d].live => crd[d].live \/ call_rcu_mutex = NULL
             /\ crd'[d].flags = crd[d].flags \/ living = {t}
  BY <1>1, <1>c1
<1>17. CRoles'
  <2>1. ASSUME NEW u \in CThreads
        PROVE  /\ u # t => CInner(u)' = CInner(u) /\ cth'[u].f = cth[u].f
               /\ thread_crd[u] \in Crdps \cup {NULL} /\ cth[u].f \in Crdps \cup {NULL}
    BY <1>6, CFacts DEF CInner, CInSub
  <2>2. \A u \in living : COwns(u)'
    BY <1>1, <1>2, <1>3, <1>a, <1>c1, <1>5, <1>6, <1>7, <1>8, <2>1, CallRcuAssumption DEF CRoles, COwns, CHasTaken, CTakes, CTypeOK
  <2>3. CTakes(t)' => CHasTaken(t)'
    BY <1>1, <1>2, <1>3, <1>a, <1>c1, <1>5, <1>6, <1>7, <1>8, <2>1, CallRcuAssumption DEF CRoles, COwns, CHasTaken, CTakes, CTypeOK
  <2>4. \A u \in CThreads : u # t /\ CTakes(u)' => CHasTaken(u)'
    BY <1>1, <1>2, <1>3, <1>a, <1>c1, <1>5, <1>6, <1>7, <1>8, <2>1, CallRcuAssumption DEF CRoles, COwns, CHasTaken, CTakes, CTypeOK
  <2>5. /\ default_crd' # NULL => crd'[default_crd'].live
        /\ cpu_crd' # NULL => crd'[cpu_crd'].live /\ cpu_crd' # default_crd'
    BY <1>1, <1>2, <1>3, <1>a, <1>c1, <1>5, <1>6, <1>7, <1>8, CallRcuAssumption DEF CRoles, CHasTaken, CTakes
  <2> QED BY <1>8, <2>2, <2>3, <2>4, <2>5 DEF CRoles
<1>18. cth[t].nest > 0 => cth'[t].nest > 0
  BY <1>2, <1>5, <1>6
<1>19. /\ \A u \in CThreads : u # t => cth'[u] = cth[u] /\ thread_crd'[u] = thread_crd[u]
       /\ default_crd # NULL => default_crd' = default_crd
       /\ cpu_crd' = cpu_crd \/ cpu_crd = NULL \/ (CInner(t)' = "synchronize" /\ cth'[t].f = cpu_crd) \/ living = {t}
       /\ CInner(t)' \notin CBarrier /\ CInner(t) # "unlink" /\ CInner(t)' # "unlink" /\ cth'[t].h = cth[t].h
  BY <1>1, <1>2, <1>3, <1>a, <1>c1, <1>5, <1>6, <1>7, <1>8 DEF CTypeOK
<1> QED BY <1>1, <1>8, <1>9, <1>10, <1>11, <1>12, <1>13, <1>14, <1>15, <1>16, <1>17, <1>18, <1>19, CMoveAny

(* create_all_cpu_call_rcu_data() creates a crdp.                          *)
LEMMA CCreateAllCpuRt ==
    ASSUME CIInv, NEW t \in CThreads, NEW c, c = malloc, create_all_cpu_call_rcu_data(t), call_rcu_data_init(TRUE)
    PROVE  CIInv'
<1> DEFINE r == [[cth[t] EXCEPT !.pc = "set_cpu"] EXCEPT !.f = c]
<1> USE DEF CWaking, CCalling, CTaking, CFreeing, CBarrier, CForking
<1>1. /\ t \in living /\ cth[t].pc = "idle"
      /\ cth' = [cth EXCEPT ![t] = r]
      /\ call_rcu_mutex = NULL /\ call_rcu_data_init(TRUE)
      /\ UNCHANGED <<default_crd, cpu_crd, thread_crd>>
      /\ UNCHANGED <<call_rcu_mutex, completion, cprocess, cghosts>>
  BY DEF create_all_cpu_call_rcu_data, cat, may, thread, At, Enter, Back, cpointers
<1>2. /\ CTypeOK /\ cth[t] \in CThread /\ crd \in [Crdps -> CCrdp]
      /\ CPlaced(t) /\ CUsed(t) /\ CStopping(t) /\ CChildOf(t) /\ CList /\ CRoles
      /\ CTakes(t) => CHasTaken(t) /\ cth[t].f \in Crdps
      /\ cth[t].ret \in Seq(CInnerPC) /\ cth[t].nest \in Nat
      /\ cth[t].todo \in Seq(Crdps) /\ Range(cth[t].todo) \subseteq Crdps
      /\ default_crd \in Crdps \cup {NULL} /\ cpu_crd \in Crdps \cup {NULL} /\ thread_crd[t] \in Crdps \cup {NULL}
  <2>1. CRoles
    BY DEF CIInv
  <2> QED BY <2>1, CFacts
<1>3. CInner(t) = "idle" /\ CRest(t) = cth[t].ret
  BY <1>1, <1>2 DEF CInner, CRest, CInSub
<1>a. c \in Crdps
  BY <1>1, CMalloc
<1>4. r \in CThread
  <2>1. cth[t] \in CThread /\ "set_cpu" \in CThreadPC /\ c \in Crdps \cup {NULL}
    BY <1>2, <1>a DEF CThreadPC, CInnerPC
  <2> QED BY ONLY <2>1 DEF CThread
<1>5. /\ r.pc = "set_cpu" /\ r.ret = cth[t].ret /\ r.nest = cth[t].nest /\ r.h = cth[t].h
      /\ r.w = cth[t].w /\ r.f = c /\ r.todo = cth[t].todo /\ r.tpre = cth[t].tpre
  BY <1>2, <1>a DEF CThread
<1> HIDE DEF r
<1>6. cth'[t] = r /\ \A u \in CThreads : u # t => cth'[u] = cth[u]
  BY <1>1, <1>2, CSetThread
<1>7. CInner(t)' = "set_cpu" /\ CRest(t)' = cth[t].ret
  BY <1>1, <1>2, <1>3, <1>a, <1>5, <1>6 DEF CInner, CRest, CInSub
<1>8. UNCHANGED <<living, cforks, pending, hold, owed>>
  BY <1>1 DEF cprocess, cghosts
<1>c1. /\ c \in Crdps /\ ~ crd[c].live
       /\ crd' \in [Crdps -> CCrdp] /\ call_rcu_data_list' \in Seq(Crdps)
       /\ crd'[c].live /\ \A d \in Crdps : d # c => crd'[d] = crd[d]
       /\ CSameQueues /\ CList'
       /\ \A d \in Crdps :
             /\ CWorking(d)'
             /\ \/ crd'[d].wpc = crd[d].wpc /\ crd'[d].wpre = crd[d].wpre
                \/ crd'[d].wpc \notin {"grace", "run"} \cup CComplete
             /\ crd[d].live => crd'[d].live /\ (crd[d].wpc = "none" => crd'[d].wpc = "none")
             /\ crd'[d].flags = crd[d].flags
       /\ c # default_crd /\ c # cpu_crd /\ c # NULL
       /\ \A u \in living : thread_crd[u] # c
       /\ \A u \in CThreads : CTakes(u) => cth[u].f # c
  BY <1>1, CMalloc
<1>9. CPlaced(t)'
  BY <1>1, <1>2, <1>3, <1>a, <1>c1, <1>5, <1>6, <1>7, <1>8, CallRcuAssumption DEF CPlaced
<1>10. CUsed(t)'
  BY <1>1, <1>2, <1>3, <1>a, <1>c1, <1>5, <1>6, <1>7, <1>8, CallRcuAssumption DEF CUsed
<1>11. CStopping(t)'
  BY <1>1, <1>2, <1>3, <1>a, <1>c1, <1>5, <1>6, <1>7, <1>8, CallRcuAssumption DEF CStopping
<1>12. CChildOf(t)'
  BY <1>1, <1>2, <1>3, <1>a, <1>c1, <1>5, <1>6, <1>7, <1>8, CallRcuAssumption DEF CChildOf, CInChild
<1>13. CWaits(t)
  BY <1>1, <1>2, <1>3, <1>a, <1>c1, <1>5, <1>6, <1>7, <1>8, CallRcuAssumption DEF CWaits
<1>14. CToQueue(t)' = CToQueue(t)
  BY <1>1, <1>2, <1>3, <1>a, <1>c1, <1>5, <1>6, <1>7, <1>8 DEF CToQueue
<1>15. CTypeOK'
  <2>1. cth' \in [CThreads -> CThread]
    BY <1>1, <1>2, <1>4 DEF CTypeOK
  <2>2. crd' \in [Crdps -> CCrdp]
    BY <1>c1
  <2>3. /\ default_crd' \in Crdps \cup {NULL} /\ cpu_crd' \in Crdps \cup {NULL}
        /\ thread_crd' \in [CThreads -> Crdps \cup {NULL}] /\ call_rcu_data_list' \in Seq(Crdps)
    BY <1>1, <1>2, <1>c1 DEF CTypeOK
  <2> QED BY <1>1, <1>2, <1>8, <2>1, <2>2, <2>3 DEF CTypeOK
<1>16. /\ CSameQueues /\ CList'
       /\ \A d \in Crdps :
             /\ CWorking(d)'
             /\ \/ crd'[d].wpc = crd[d].wpc /\ crd'[d].wpre = crd[d].wpre
                \/ crd'[d].wpc \notin {"grace", "run"} \cup CComplete
             /\ crd[d].live => crd'[d].live /\ (crd[d].wpc = "none" => crd'[d].wpc = "none")
             /\ crd'[d].live => crd[d].live \/ call_rcu_mutex = NULL
             /\ crd'[d].flags = crd[d].flags \/ living = {t}
  BY <1>1, <1>c1
<1>17. CRoles'
  <2>1. ASSUME NEW u \in CThreads
        PROVE  /\ u # t => CInner(u)' = CInner(u) /\ cth'[u].f = cth[u].f
               /\ thread_crd[u] \in Crdps \cup {NULL} /\ cth[u].f \in Crdps \cup {NULL}
    BY <1>6, CFacts DEF CInner, CInSub
  <2>2. \A u \in living : COwns(u)'
    BY <1>1, <1>2, <1>3, <1>a, <1>c1, <1>5, <1>6, <1>7, <1>8, <2>1, CallRcuAssumption DEF CRoles, COwns, CHasTaken, CTakes, CTypeOK
  <2>3. CTakes(t)' => CHasTaken(t)'
    BY <1>1, <1>2, <1>3, <1>a, <1>c1, <1>5, <1>6, <1>7, <1>8, <2>1, CallRcuAssumption DEF CRoles, COwns, CHasTaken, CTakes, CTypeOK
  <2>4. \A u \in CThreads : u # t /\ CTakes(u)' => CHasTaken(u)'
    BY <1>1, <1>2, <1>3, <1>a, <1>c1, <1>5, <1>6, <1>7, <1>8, <2>1, CallRcuAssumption DEF CRoles, COwns, CHasTaken, CTakes, CTypeOK
  <2>5. /\ default_crd' # NULL => crd'[default_crd'].live
        /\ cpu_crd' # NULL => crd'[cpu_crd'].live /\ cpu_crd' # default_crd'
    BY <1>1, <1>2, <1>3, <1>a, <1>c1, <1>5, <1>6, <1>7, <1>8, CallRcuAssumption DEF CRoles, CHasTaken, CTakes
  <2> QED BY <1>8, <2>2, <2>3, <2>4, <2>5 DEF CRoles
<1>18. cth[t].nest > 0 => cth'[t].nest > 0
  BY <1>2, <1>5, <1>6
<1>19. /\ \A u \in CThreads : u # t => cth'[u] = cth[u] /\ thread_crd'[u] = thread_crd[u]
       /\ default_crd # NULL => default_crd' = default_crd
       /\ cpu_crd' = cpu_crd \/ cpu_crd = NULL \/ (CInner(t)' = "synchronize" /\ cth'[t].f = cpu_crd) \/ living = {t}
       /\ CInner(t)' \notin CBarrier /\ CInner(t) # "unlink" /\ CInner(t)' # "unlink" /\ cth'[t].h = cth[t].h
  BY <1>1, <1>2, <1>3, <1>a, <1>c1, <1>5, <1>6, <1>7, <1>8 DEF CTypeOK
<1> QED BY <1>1, <1>8, <1>9, <1>10, <1>11, <1>12, <1>13, <1>14, <1>15, <1>16, <1>17, <1>18, <1>19, CMoveAny

(* set_thread_call_rcu_data(create_call_rcu_data()).                       *)
LEMMA CCreateThread ==
    ASSUME CIInv, NEW t \in CThreads, NEW c, c = malloc, create_call_rcu_data(t)
    PROVE  CIInv'
<1> DEFINE r == cth[t]
<1> USE DEF CWaking, CCalling, CTaking, CFreeing, CBarrier, CForking
<1>1. /\ t \in living /\ cth[t].pc = "idle"
      /\ cth' = [cth EXCEPT ![t] = r]
      /\ call_rcu_mutex = NULL /\ call_rcu_data_init(FALSE)
      /\ thread_crd' = [thread_crd EXCEPT ![t] = c]
      /\ UNCHANGED <<default_crd, cpu_crd>>
      /\ UNCHANGED <<call_rcu_mutex, completion, cprocess, cghosts>>
  <2>1. cth \in [CThreads -> CThread]
    BY DEF CIInv, CTypeOK
  <2> QED BY <2>1 DEF create_call_rcu_data, cat, may, thread, cpointers
<1>2. /\ CTypeOK /\ cth[t] \in CThread /\ crd \in [Crdps -> CCrdp]
      /\ CPlaced(t) /\ CUsed(t) /\ CStopping(t) /\ CChildOf(t) /\ CList /\ CRoles
      /\ CTakes(t) => CHasTaken(t) /\ cth[t].f \in Crdps
      /\ cth[t].ret \in Seq(CInnerPC) /\ cth[t].nest \in Nat
      /\ cth[t].todo \in Seq(Crdps) /\ Range(cth[t].todo) \subseteq Crdps
      /\ default_crd \in Crdps \cup {NULL} /\ cpu_crd \in Crdps \cup {NULL} /\ thread_crd[t] \in Crdps \cup {NULL}
  <2>1. CRoles
    BY DEF CIInv
  <2> QED BY <2>1, CFacts
<1>3. CInner(t) = "idle" /\ CRest(t) = cth[t].ret
  BY <1>1, <1>2 DEF CInner, CRest, CInSub
<1>a. c \in Crdps
  BY <1>1, CMalloc
<1>b. \A u \in CThreads : thread_crd'[u] = IF u = t THEN c ELSE thread_crd[u]
  BY <1>1, <1>2 DEF CTypeOK
<1>4. r \in CThread
  BY <1>2, <1>a, <1>b DEF CThread, CThreadPC, CInnerPC
<1>5. /\ r.pc = cth[t].pc /\ r.ret = cth[t].ret /\ r.nest = cth[t].nest /\ r.h = cth[t].h
      /\ r.w = cth[t].w /\ r.f = cth[t].f /\ r.todo = cth[t].todo /\ r.tpre = cth[t].tpre
  BY <1>2, <1>a, <1>b DEF CThread
<1> HIDE DEF r
<1>6. cth'[t] = r /\ \A u \in CThreads : u # t => cth'[u] = cth[u]
  BY <1>1, <1>2, CSetThread
<1>7. CInner(t)' = "idle" /\ CRest(t)' = cth[t].ret
  BY <1>1, <1>2, <1>3, <1>a, <1>b, <1>5, <1>6 DEF CInner, CRest, CInSub
<1>8. UNCHANGED <<living, cforks, pending, hold, owed>>
  BY <1>1 DEF cprocess, cghosts
<1>c1. /\ c \in Crdps /\ ~ crd[c].live
       /\ crd' \in [Crdps -> CCrdp] /\ call_rcu_data_list' \in Seq(Crdps)
       /\ crd'[c].live /\ \A d \in Crdps : d # c => crd'[d] = crd[d]
       /\ CSameQueues /\ CList'
       /\ \A d \in Crdps :
             /\ CWorking(d)'
             /\ \/ crd'[d].wpc = crd[d].wpc /\ crd'[d].wpre = crd[d].wpre
                \/ crd'[d].wpc \notin {"grace", "run"} \cup CComplete
             /\ crd[d].live => crd'[d].live /\ (crd[d].wpc = "none" => crd'[d].wpc = "none")
             /\ crd'[d].flags = crd[d].flags
       /\ c # default_crd /\ c # cpu_crd /\ c # NULL
       /\ \A u \in living : thread_crd[u] # c
       /\ \A u \in CThreads : CTakes(u) => cth[u].f # c
  BY <1>1, CMalloc
<1>9. CPlaced(t)'
  BY <1>1, <1>2, <1>3, <1>a, <1>b, <1>c1, <1>5, <1>6, <1>7, <1>8, CallRcuAssumption DEF CPlaced
<1>10. CUsed(t)'
  BY <1>1, <1>2, <1>3, <1>a, <1>b, <1>c1, <1>5, <1>6, <1>7, <1>8, CallRcuAssumption DEF CUsed
<1>11. CStopping(t)'
  BY <1>1, <1>2, <1>3, <1>a, <1>b, <1>c1, <1>5, <1>6, <1>7, <1>8, CallRcuAssumption DEF CStopping
<1>12. CChildOf(t)'
  BY <1>1, <1>2, <1>3, <1>a, <1>b, <1>c1, <1>5, <1>6, <1>7, <1>8, CallRcuAssumption DEF CChildOf, CInChild
<1>13. CWaits(t)
  BY <1>1, <1>2, <1>3, <1>a, <1>b, <1>c1, <1>5, <1>6, <1>7, <1>8, CallRcuAssumption DEF CWaits
<1>14. CToQueue(t)' = CToQueue(t)
  BY <1>1, <1>2, <1>3, <1>a, <1>b, <1>c1, <1>5, <1>6, <1>7, <1>8 DEF CToQueue
<1>15. CTypeOK'
  <2>1. cth' \in [CThreads -> CThread]
    BY <1>1, <1>2, <1>4 DEF CTypeOK
  <2>2. crd' \in [Crdps -> CCrdp]
    BY <1>c1
  <2>3. /\ default_crd' \in Crdps \cup {NULL} /\ cpu_crd' \in Crdps \cup {NULL}
        /\ thread_crd' \in [CThreads -> Crdps \cup {NULL}] /\ call_rcu_data_list' \in Seq(Crdps)
    BY <1>1, <1>2, <1>c1 DEF CTypeOK
  <2> QED BY <1>1, <1>2, <1>8, <2>1, <2>2, <2>3 DEF CTypeOK
<1>16. /\ CSameQueues /\ CList'
       /\ \A d \in Crdps :
             /\ CWorking(d)'
             /\ \/ crd'[d].wpc = crd[d].wpc /\ crd'[d].wpre = crd[d].wpre
                \/ crd'[d].wpc \notin {"grace", "run"} \cup CComplete
             /\ crd[d].live => crd'[d].live /\ (crd[d].wpc = "none" => crd'[d].wpc = "none")
             /\ crd'[d].live => crd[d].live \/ call_rcu_mutex = NULL
             /\ crd'[d].flags = crd[d].flags \/ living = {t}
  BY <1>1, <1>c1
<1>17. CRoles'
  <2>1. ASSUME NEW u \in CThreads
        PROVE  /\ u # t => CInner(u)' = CInner(u) /\ cth'[u].f = cth[u].f
               /\ thread_crd[u] \in Crdps \cup {NULL} /\ cth[u].f \in Crdps \cup {NULL}
    BY <1>6, CFacts DEF CInner, CInSub
  <2>2. \A u \in living : COwns(u)'
    BY <1>1, <1>2, <1>3, <1>a, <1>b, <1>c1, <1>5, <1>6, <1>7, <1>8, <2>1, CallRcuAssumption DEF CRoles, COwns, CHasTaken, CTakes, CTypeOK
  <2>3. CTakes(t)' => CHasTaken(t)'
    BY <1>1, <1>2, <1>3, <1>a, <1>b, <1>c1, <1>5, <1>6, <1>7, <1>8, <2>1, CallRcuAssumption DEF CRoles, COwns, CHasTaken, CTakes, CTypeOK
  <2>4. \A u \in CThreads : u # t /\ CTakes(u)' => CHasTaken(u)'
    BY <1>1, <1>2, <1>3, <1>a, <1>b, <1>c1, <1>5, <1>6, <1>7, <1>8, <2>1, CallRcuAssumption DEF CRoles, COwns, CHasTaken, CTakes, CTypeOK
  <2>5. /\ default_crd' # NULL => crd'[default_crd'].live
        /\ cpu_crd' # NULL => crd'[cpu_crd'].live /\ cpu_crd' # default_crd'
    BY <1>1, <1>2, <1>3, <1>a, <1>b, <1>c1, <1>5, <1>6, <1>7, <1>8, CallRcuAssumption DEF CRoles, CHasTaken, CTakes
  <2> QED BY <1>8, <2>2, <2>3, <2>4, <2>5 DEF CRoles
<1>18. cth[t].nest > 0 => cth'[t].nest > 0
  BY <1>2, <1>5, <1>6
<1>19. /\ \A u \in CThreads : u # t => cth'[u] = cth[u] /\ thread_crd'[u] = thread_crd[u]
       /\ default_crd # NULL => default_crd' = default_crd
       /\ cpu_crd' = cpu_crd \/ cpu_crd = NULL \/ (CInner(t)' = "synchronize" /\ cth'[t].f = cpu_crd) \/ living = {t}
       /\ CInner(t)' \notin CBarrier /\ CInner(t) # "unlink" /\ CInner(t)' # "unlink" /\ cth'[t].h = cth[t].h
  BY <1>1, <1>2, <1>3, <1>a, <1>b, <1>c1, <1>5, <1>6, <1>7, <1>8 DEF CTypeOK
<1> QED BY <1>1, <1>8, <1>9, <1>10, <1>11, <1>12, <1>13, <1>14, <1>15, <1>16, <1>17, <1>18, <1>19, CMoveAny

(* The child frees a crdp of its parent.                                   *)
LEMMA CChildFree ==
    ASSUME CIInv, NEW t \in CThreads, ChildFree(t)
    PROVE  CIInv'
<1> DEFINE r == [[[cth[t] EXCEPT !.pc = "free", !.ret = <<"child_free">> \o @] EXCEPT !.f = Head(cth[t].todo)] EXCEPT !.todo = Tail(cth[t].todo)]
<1> USE DEF CWaking, CCalling, CTaking, CFreeing, CBarrier, CForking
<1>1. /\ t \in living /\ cth[t].pc = "child_free"
      /\ cth' = [cth EXCEPT ![t] = r]
      /\ cth[t].todo # << >>
      /\ UNCHANGED <<call_rcu_data_list, default_crd, cpu_crd, thread_crd>>
      /\ UNCHANGED <<call_rcu_mutex, completion, cprocess, cghosts>>
  BY DEF ChildFree, cat, may, thread, At, Enter, Back, cpointers
<1>2. /\ CTypeOK /\ cth[t] \in CThread /\ crd \in [Crdps -> CCrdp]
      /\ CPlaced(t) /\ CUsed(t) /\ CStopping(t) /\ CChildOf(t) /\ CList /\ CRoles
      /\ CTakes(t) => CHasTaken(t) /\ cth[t].f \in Crdps
      /\ cth[t].ret \in Seq(CInnerPC) /\ cth[t].nest \in Nat
      /\ cth[t].todo \in Seq(Crdps) /\ Range(cth[t].todo) \subseteq Crdps
      /\ default_crd \in Crdps \cup {NULL} /\ cpu_crd \in Crdps \cup {NULL} /\ thread_crd[t] \in Crdps \cup {NULL}
  <2>1. CRoles
    BY DEF CIInv
  <2> QED BY <2>1, CFacts
<1>3. CInner(t) = "child_free" /\ CRest(t) = cth[t].ret
  BY <1>1, <1>2 DEF CInner, CRest, CInSub
<1>a. /\ <<"child_free">> \o cth[t].ret \in Seq(CInnerPC) /\ cth[t].ret = << >> /\ <<"child_free">> \o cth[t].ret = <<"child_free">>
  <2>1. cth[t].ret = << >>
    BY <1>1, <1>2, <1>3 DEF CPlaced
  <2> QED BY <2>1, CReturns DEF CInnerPC
<1>b. /\ cth[t].todo[1] \in Crdps /\ crd[cth[t].todo[1]].live /\ cth[t].todo[1] # default_crd /\ crd[cth[t].todo[1]].wpc = "none"
      /\ living = {t} /\ cpu_crd = NULL /\ thread_crd[t] = NULL /\ IsInjective(cth[t].todo)
      /\ \A c \in Range(cth[t].todo) : crd[c].live /\ c # default_crd
      /\ default_crd # NULL /\ \A c \in Crdps : c # default_crd => crd[c].wpc = "none"
  <2>1. cth[t].todo[1] \in Range(cth[t].todo)
    BY <1>1, <1>2, CrTail
  <2> QED BY <1>1, <1>2, <1>3, <2>1 DEF CChildOf, CInChild
<1>c. /\ Head(cth[t].todo) = cth[t].todo[1] /\ Tail(cth[t].todo) \in Seq(Crdps)
      /\ Range(cth[t].todo) = Range(Tail(cth[t].todo)) \cup {cth[t].todo[1]}
      /\ IsInjective(Tail(cth[t].todo)) /\ cth[t].todo[1] \notin Range(Tail(cth[t].todo))
  BY <1>1, <1>2, <1>b, CrTail
<1>d. \A u \in CThreads : u # t => ~ CTakes(u)
  <2>1. \A u \in CThreads : u # t => CPlaced(u)
    BY DEF CIInv, CThreadsPlaced
  <2> QED BY <1>b, <2>1 DEF CPlaced, NewThread, CTakes, CInner, CInSub
<1>4. r \in CThread
  <2> DEFINE x == cth[t].todo
  <2>1. cth[t] \in CThread /\ Head(x) \in Crdps /\ Tail(x) \in Seq(Crdps)
        /\ <<"child_free">> \o cth[t].ret \in Seq(CInnerPC) /\ "free" \in CThreadPC
    BY <1>2, <1>a, <1>b, <1>c DEF CThreadPC, CInnerPC
  <2>2. r = [[[cth[t] EXCEPT !.pc = "free", !.ret = <<"child_free">> \o @] EXCEPT !.f = Head(x)] EXCEPT !.todo = Tail(x)]
    OBVIOUS
  <2> HIDE DEF x, r
  <2> QED BY ONLY <2>1, <2>2 DEF CThread
<1>5. /\ r.pc = "free" /\ r.ret = <<"child_free">> /\ r.nest = cth[t].nest /\ r.h = cth[t].h
      /\ r.w = cth[t].w /\ r.f = cth[t].todo[1] /\ r.todo = Tail(cth[t].todo) /\ r.tpre = cth[t].tpre
  BY <1>2, <1>a, <1>b, <1>c, <1>d DEF CThread
<1> HIDE DEF r
<1>6. cth'[t] = r /\ \A u \in CThreads : u # t => cth'[u] = cth[u]
  BY <1>1, <1>2, CSetThread
<1>7. CInner(t)' = "free" /\ CRest(t)' = <<"child_free">>
  BY <1>1, <1>2, <1>3, <1>a, <1>b, <1>c, <1>d, <1>5, <1>6 DEF CInner, CRest, CInSub
<1>8. UNCHANGED <<living, cforks, pending, hold, owed>>
  BY <1>1 DEF cprocess, cghosts
<1>c1. /\ crd' \in [Crdps -> CCrdp] /\ CSameQueues /\ CList'
       /\ \A d \in Crdps :
             /\ CWorking(d)' /\ crd'[d].wpc = crd[d].wpc /\ crd'[d].wpre = crd[d].wpre
             /\ crd'[d].live = crd[d].live
  <2> DEFINE k == [crd[cth[t].todo[1]] EXCEPT !.flags = {"STOPPED"}]
  <2>1. crd' = [crd EXCEPT ![cth[t].todo[1]] = k]
    BY <1>c DEF ChildFree
  <2>2. crd[cth[t].todo[1]] \in CCrdp
    BY <1>2, <1>b
  <2>3. k \in CCrdp /\ k.live = crd[cth[t].todo[1]].live /\ k.q = crd[cth[t].todo[1]].q /\ k.batch = crd[cth[t].todo[1]].batch
        /\ k.wpre = crd[cth[t].todo[1]].wpre /\ k.wpc = crd[cth[t].todo[1]].wpc /\ k.flags = {"STOPPED"}
    BY <2>2 DEF CCrdp, CFlags
  <2> HIDE DEF k
  <2>4. crd'[cth[t].todo[1]] = k /\ \A d \in Crdps : d # cth[t].todo[1] => crd'[d] = crd[d]
    BY <1>2, <1>b, <2>1
  <2>5. crd' \in [Crdps -> CCrdp]
    BY <1>2, <2>1, <2>3
  <2>6. CSameQueues
    BY <2>3, <2>4 DEF CSameQueues
  <2>7. CList'
    BY <1>1, <1>2, <1>b, <2>3, <2>4 DEF CList
  <2>8. \A d \in Crdps : CWorking(d)'
    BY <1>b, <2>3, <2>4 DEF CIInv, CWorkers, CWorking
  <2> QED BY <2>3, <2>4, <2>5, <2>6, <2>7, <2>8
<1>9. CPlaced(t)'
  BY <1>1, <1>2, <1>3, <1>a, <1>b, <1>c, <1>d, <1>c1, <1>5, <1>6, <1>7, <1>8, CallRcuAssumption DEF CPlaced
<1>10. CUsed(t)'
  BY <1>1, <1>2, <1>3, <1>a, <1>b, <1>c, <1>d, <1>c1, <1>5, <1>6, <1>7, <1>8, CallRcuAssumption DEF CUsed
<1>11. CStopping(t)'
  BY <1>1, <1>2, <1>3, <1>a, <1>b, <1>c, <1>d, <1>c1, <1>5, <1>6, <1>7, <1>8, CallRcuAssumption DEF CStopping
<1>12. CChildOf(t)'
  <2>1. /\ living' = {t} /\ default_crd' # NULL /\ cpu_crd' = NULL /\ thread_crd'[t] = NULL
        /\ default_crd' = default_crd
    BY <1>1, <1>8, <1>b
  <2>2. \A c \in Crdps : c # default_crd' => crd'[c].wpc = "none"
    BY <1>b, <1>c1, <2>1
  <2>3. cth'[t].todo = Tail(cth[t].todo) /\ cth'[t].f = cth[t].todo[1]
    BY <1>5, <1>6
  <2>4. IsInjective(cth'[t].todo)
    BY <1>c, <2>3
  <2>5. \A c \in Range(cth'[t].todo) : crd'[c].live /\ c # default_crd' /\ c # cth'[t].f
    BY <1>2, <1>b, <1>c, <1>c1, <2>1, <2>3
  <2> QED BY <2>1, <2>2, <2>4, <2>5 DEF CChildOf
<1>13. CWaits(t)
  BY <1>1, <1>2, <1>3, <1>a, <1>b, <1>c, <1>d, <1>c1, <1>5, <1>6, <1>7, <1>8, CallRcuAssumption DEF CWaits
<1>14. CToQueue(t)' = CToQueue(t)
  BY <1>1, <1>2, <1>3, <1>a, <1>b, <1>c, <1>d, <1>c1, <1>5, <1>6, <1>7, <1>8 DEF CToQueue
<1>15. CTypeOK'
  <2>1. cth' \in [CThreads -> CThread]
    BY <1>1, <1>2, <1>4 DEF CTypeOK
  <2>2. crd' \in [Crdps -> CCrdp]
    BY <1>c1
  <2>3. /\ default_crd' \in Crdps \cup {NULL} /\ cpu_crd' \in Crdps \cup {NULL}
        /\ thread_crd' \in [CThreads -> Crdps \cup {NULL}] /\ call_rcu_data_list' \in Seq(Crdps)
    BY <1>1, <1>2, <1>c1 DEF CTypeOK
  <2> QED BY <1>1, <1>2, <1>8, <2>1, <2>2, <2>3 DEF CTypeOK
<1>16. /\ CSameQueues /\ CList'
       /\ \A c \in Crdps :
             /\ CWorking(c)'
             /\ \/ crd'[c].wpc = crd[c].wpc /\ crd'[c].wpre = crd[c].wpre
                \/ crd'[c].wpc \notin {"grace", "run"} \cup CComplete
             /\ crd[c].live => crd'[c].live /\ (crd[c].wpc = "none" => crd'[c].wpc = "none")
             /\ crd'[c].live => crd[c].live \/ call_rcu_mutex = NULL
             /\ crd'[c].flags = crd[c].flags \/ living = {t}
  BY <1>1, <1>b, <1>c1
<1>17. CRoles'
  <2>1. ASSUME NEW u \in CThreads
        PROVE  /\ u # t => CInner(u)' = CInner(u) /\ cth'[u].f = cth[u].f
               /\ thread_crd[u] \in Crdps \cup {NULL} /\ cth[u].f \in Crdps \cup {NULL}
    BY <1>6, CFacts DEF CInner, CInSub
  <2>2. \A u \in living : COwns(u)'
    BY <1>1, <1>2, <1>3, <1>a, <1>b, <1>c, <1>d, <1>c1, <1>5, <1>6, <1>7, <1>8, <2>1, CallRcuAssumption DEF CRoles, COwns, CHasTaken, CTakes, CTypeOK
  <2>3. CTakes(t)' => CHasTaken(t)'
    BY <1>1, <1>2, <1>3, <1>a, <1>b, <1>c, <1>d, <1>c1, <1>5, <1>6, <1>7, <1>8, <2>1, CallRcuAssumption DEF CRoles, COwns, CHasTaken, CTakes, CTypeOK
  <2>4. \A u \in CThreads : u # t /\ CTakes(u)' => CHasTaken(u)'
    BY <1>1, <1>2, <1>3, <1>a, <1>b, <1>c, <1>d, <1>c1, <1>5, <1>6, <1>7, <1>8, <2>1, CallRcuAssumption DEF CRoles, COwns, CHasTaken, CTakes, CTypeOK
  <2>5. /\ default_crd' # NULL => crd'[default_crd'].live
        /\ cpu_crd' # NULL => crd'[cpu_crd'].live /\ cpu_crd' # default_crd'
    BY <1>1, <1>2, <1>3, <1>a, <1>b, <1>c, <1>d, <1>c1, <1>5, <1>6, <1>7, <1>8, CallRcuAssumption DEF CRoles, CHasTaken, CTakes
  <2> QED BY <1>8, <2>2, <2>3, <2>4, <2>5 DEF CRoles
<1>18. cth[t].nest > 0 => cth'[t].nest > 0
  BY <1>2, <1>5, <1>6
<1>19. /\ \A u \in CThreads : u # t => cth'[u] = cth[u] /\ thread_crd'[u] = thread_crd[u]
       /\ default_crd # NULL => default_crd' = default_crd
       /\ cpu_crd' = cpu_crd \/ cpu_crd = NULL \/ (CInner(t)' = "synchronize" /\ cth'[t].f = cpu_crd) \/ living = {t}
       /\ CInner(t)' \notin CBarrier /\ CInner(t) # "unlink" /\ CInner(t)' # "unlink" /\ cth'[t].h = cth[t].h
  BY <1>1, <1>2, <1>3, <1>a, <1>b, <1>c, <1>d, <1>c1, <1>5, <1>6, <1>7, <1>8 DEF CTypeOK
<1> QED BY <1>1, <1>8, <1>9, <1>10, <1>11, <1>12, <1>13, <1>14, <1>15, <1>16, <1>17, <1>18, <1>19, CMoveAny

-----------------------------------------------------------------------------
(* Steps that change the queues or the batches.                            *)

(* What counting needs: a set that can be embedded in another one, and one *)
(* that can be embedded without filling it.                                *)
LEMMA CEmbeds ==
    ASSUME NEW S, NEW T, IsFiniteSet(S), NEW m \in [T -> S],
           \A x, y \in T : m[x] = m[y] => x = y
    PROVE  /\ IsFiniteSet(T) /\ Cardinality(T) \in Nat /\ Cardinality(S) \in Nat
           /\ Cardinality(T) <= Cardinality(S)
           /\ \A y \in S : (\A x \in T : m[x] # y) => Cardinality(T) <= Cardinality(S) - 1
<1>1. m \in Injection(T, S)
  BY DEF Injection, IsInjective
<1>2. IsFiniteSet(T) /\ Cardinality(T) <= Cardinality(S)
  BY <1>1, FS_Injection
<1>3. Cardinality(T) \in Nat /\ Cardinality(S) \in Nat
  BY <1>2, FS_CardinalityType
<1>4. ASSUME NEW y \in S, \A x \in T : m[x] # y PROVE Cardinality(T) <= Cardinality(S) - 1
  <2>1. m \in [T -> S \ {y}]
    BY <1>4
  <2>2. m \in Injection(T, S \ {y})
    BY <2>1 DEF Injection, IsInjective
  <2>3. IsFiniteSet(S \ {y}) /\ Cardinality(S \ {y}) = Cardinality(S) - 1
    BY FS_RemoveElement
  <2>4. Cardinality(T) <= Cardinality(S \ {y})
    BY <2>2, <2>3, FS_Injection
  <2> QED BY <2>3, <2>4
<1> QED BY <1>2, <1>3, <1>4

(* m says where each completion of u was before the step.  A reference may *)
(* be dropped, or counted down, for one that is there no more; one that is *)
(* not waited for any more leaves a barrier that cannot return.            *)
LEMMA CCarry ==
    ASSUME CIInv, NEW u \in CThreads, completion' \in [CThreads -> CCompletion],
           NEW m \in [CTokens(u)' -> CTokens(u)],
           \A x, y \in CTokens(u)' : m[x] = m[y] => x = y,
           CInner(u)' \in CBarrier => \A x \in CWaited(u)' : m[x] \in CWaited(u),
           u \in living' => u \in living,
           CInner(u)' \in CBarrier => CInner(u) \in CBarrier,
           \/ completion'[u].ref = completion[u].ref
           \/ /\ completion'[u].ref = completion[u].ref - 1
              /\ \E y \in CTokens(u) : \A x \in CTokens(u)' : m[x] # y,
           CInner(u)' \in CBarrier =>
               /\ owed'[u] \subseteq owed[u] /\ owed'[u] \subseteq pending'
               /\ cth'[u].pc = "bar_return" => owed'[u] = {}
               /\ \/ /\ completion'[u].count = completion[u].count
                     /\ \A h \in owed'[u] : CCovered(u, h) => CCovered(u, h)'
                  \/ /\ completion'[u].count = completion[u].count
                     /\ \E y \in CWaited(u) : \A x \in CWaited(u)' : m[x] # y
                  \/ /\ completion'[u].count = completion[u].count - 1
                     /\ \A h \in owed'[u] : CCovered(u, h) => CCovered(u, h)'
                     /\ \E y \in CWaited(u) : \A x \in CWaited(u)' : m[x] # y
    PROVE  CReferred(u)' /\ CCovers(u)'
<1>0. /\ CReferred(u) /\ CCovers(u)
      /\ completion[u].ref \in Int /\ completion'[u].ref \in Int
      /\ completion[u].count \in Int /\ completion'[u].count \in Int
  <2>1. CReferred(u) /\ CCovers(u) /\ completion \in [CThreads -> CCompletion]
    BY DEF CIInv, CRefs, CCover, CTypeOK
  <2> QED BY <2>1 DEF CCompletion
<1>1. /\ IsFiniteSet(CTokens(u)') /\ Cardinality(CTokens(u)') \in Nat /\ Cardinality(CTokens(u)) \in Nat
      /\ Cardinality(CTokens(u)') <= Cardinality(CTokens(u))
      /\ \A y \in CTokens(u) : (\A x \in CTokens(u)' : m[x] # y) =>
            Cardinality(CTokens(u)') <= Cardinality(CTokens(u)) - 1
  <2> DEFINE S == CTokens(u)
             T == CTokens(u)'
  <2>1. IsFiniteSet(S) /\ m \in [T -> S] /\ \A x, y \in T : m[x] = m[y] => x = y
    BY <1>0 DEF CReferred
  <2> HIDE DEF S, T
  <2>2. /\ IsFiniteSet(T) /\ Cardinality(T) \in Nat /\ Cardinality(S) \in Nat
        /\ Cardinality(T) <= Cardinality(S)
        /\ \A y \in S : (\A x \in T : m[x] # y) => Cardinality(T) <= Cardinality(S) - 1
    BY ONLY <2>1, CEmbeds
  <2> QED BY <2>2 DEF S, T
<1>2. CReferred(u)'
  <2> DEFINE p == IF CInner(u) \in CBarrier THEN 1 ELSE 0
             q == IF CInner(u)' \in CBarrier THEN 1 ELSE 0
  <2>1. p \in Nat /\ q \in Nat /\ q <= p
    OBVIOUS
  <2>2. u \in living => completion[u].ref >= Cardinality(CTokens(u)) + p
    BY <1>0 DEF CReferred
  <2> HIDE DEF p, q
  <2>3. u \in living' => completion'[u].ref >= Cardinality(CTokens(u)') + q
    BY <1>0, <1>1, <2>1, <2>2
  <2> QED BY <1>1, <2>3 DEF CReferred, q
<1>3. CASE CInner(u)' \notin CBarrier
  BY <1>2, <1>3 DEF CCovers
<1>4. CASE CInner(u)' \in CBarrier
  <2>1. /\ Cardinality(CWaited(u)') \in Nat /\ Cardinality(CWaited(u)) \in Nat
        /\ Cardinality(CWaited(u)') <= Cardinality(CWaited(u))
        /\ \A y \in CWaited(u) : (\A x \in CWaited(u)' : m[x] # y) =>
              Cardinality(CWaited(u)') <= Cardinality(CWaited(u)) - 1
    <3> DEFINE S == CWaited(u)
               T == CWaited(u)'
               k == [x \in T |-> m[x]]
    <3>1. IsFiniteSet(S)
      BY <1>0, FS_Subset DEF CReferred, CWaited
    <3>2. T \subseteq CTokens(u)' /\ \A x \in T : m[x] \in S
      BY <1>4 DEF CWaited
    <3>3. k \in [T -> S] /\ (\A x \in T : k[x] = m[x]) /\ \A x, y \in T : k[x] = k[y] => x = y
      BY <3>2
    <3> HIDE DEF S, T, k
    <3>4. /\ IsFiniteSet(T) /\ Cardinality(T) \in Nat /\ Cardinality(S) \in Nat
          /\ Cardinality(T) <= Cardinality(S)
          /\ \A y \in S : (\A x \in T : k[x] # y) => Cardinality(T) <= Cardinality(S) - 1
      BY ONLY <3>1, <3>3, CEmbeds
    <3>5. \A y \in S : (\A x \in T : m[x] # y) => Cardinality(T) <= Cardinality(S) - 1
      BY <3>3, <3>4
    <3> QED BY <3>4, <3>5 DEF S, T
  <2>2. /\ completion[u].count >= Cardinality(CWaited(u))
        /\ (\A h \in owed[u] : CCovered(u, h)) \/ completion[u].count >= Cardinality(CWaited(u)) + 1
    BY <1>0, <1>4 DEF CCovers
  <2>3. /\ completion'[u].count >= Cardinality(CWaited(u)')
        /\ (\A h \in owed'[u] : CCovered(u, h)') \/ completion'[u].count >= Cardinality(CWaited(u)') + 1
    <3>1. CASE completion'[u].count = completion[u].count /\ \A h \in owed'[u] : CCovered(u, h) => CCovered(u, h)'
      BY <1>0, <1>4, <2>1, <2>2, <3>1
    <3>2. CASE /\ completion'[u].count = completion[u].count
               /\ \E y \in CWaited(u) : \A x \in CWaited(u)' : m[x] # y
      BY <1>0, <1>4, <2>1, <2>2, <3>2
    <3>3. CASE /\ completion'[u].count = completion[u].count - 1
               /\ \A h \in owed'[u] : CCovered(u, h) => CCovered(u, h)'
               /\ \E y \in CWaited(u) : \A x \in CWaited(u)' : m[x] # y
      BY <1>0, <1>4, <2>1, <2>2, <3>3
    <3> QED BY <1>4, <3>1, <3>2, <3>3
  <2> QED BY <1>2, <1>4, <2>3 DEF CCovers
<1> QED BY <1>3, <1>4

(* The same where the completions of u stay where they are, or go.         *)
LEMMA CCarrySub ==
    ASSUME CIInv, NEW u \in CThreads, completion' \in [CThreads -> CCompletion],
           CTokens(u)' \subseteq CTokens(u),
           CInner(u)' \in CBarrier => CWaited(u)' \subseteq CWaited(u),
           u \in living' => u \in living,
           CInner(u)' \in CBarrier => CInner(u) \in CBarrier,
           \/ completion'[u].ref = completion[u].ref
           \/ /\ completion'[u].ref = completion[u].ref - 1
              /\ \E y \in CTokens(u) : y \notin CTokens(u)',
           CInner(u)' \in CBarrier =>
               /\ owed'[u] \subseteq owed[u] /\ owed'[u] \subseteq pending'
               /\ cth'[u].pc = "bar_return" => owed'[u] = {}
               /\ \/ completion'[u].count = completion[u].count
                  \/ /\ completion'[u].count = completion[u].count - 1
                     /\ \E y \in CWaited(u) : y \notin CWaited(u)'
               /\ \A h \in owed'[u] : CCovered(u, h) => CCovered(u, h)'
    PROVE  CReferred(u)' /\ CCovers(u)'
<1> DEFINE S == CTokens(u)
           T == CTokens(u)'
           m == [x \in T |-> x]
<1>1. m \in [T -> S] /\ (\A x \in T : m[x] = x) /\ \A x, y \in T : m[x] = m[y] => x = y
  OBVIOUS
<1>2. CWaited(u)' \subseteq T
  BY DEF CWaited
<1> HIDE DEF m
<1>3. (\E y \in S : y \notin T) => \E y \in S : \A x \in T : m[x] # y
  BY <1>1
<1>4. (\E y \in CWaited(u) : y \notin CWaited(u)') => \E y \in CWaited(u) : \A x \in CWaited(u)' : m[x] # y
  BY <1>1, <1>2
<1>5. CInner(u)' \in CBarrier => \A x \in CWaited(u)' : m[x] \in CWaited(u)
  BY <1>1, <1>2
<1> QED BY <1>1, <1>3, <1>4, <1>5, CCarry

(* The worker of c takes from its queue or its batch.                      *)
LEMMA CWorkAny ==
    ASSUME CIInv, CTypeOK', NEW c \in Crdps, NEW r \in CCrdp, crd' = [crd EXCEPT ![c] = r],
           crd[c].live, crd[c].wpc # "none", r.live, r.flags = crd[c].flags,
           UNCHANGED <<cpointers, call_rcu_mutex, cth, cprocess>>,
           CWorking(c)', CHolds', CCallbacks', CRefs', CCover'
    PROVE  CIInv'
<1>0. crd \in [Crdps -> CCrdp]
  BY DEF CIInv, CTypeOK
<1>1. crd'[c] = r /\ \A d \in Crdps : d # c => crd'[d] = crd[d]
  BY <1>0
<1>2. CStill
  <2>1. r.live = crd[c].live
    BY <1>0 DEF CCrdp
  <2> QED BY <1>1, <2>1 DEF CStill
<1>3. \A u \in CThreads : CInner(u)' = CInner(u) /\ CTakes(u)' = CTakes(u) /\ CSame(u)
  BY DEF CInner, CInSub, CTakes, CSame
<1>4. \A v \in CThreads : CWaits(v)
  BY <1>3 DEF CWaits, Reading
<1>5. \A u \in CThreads : CFlagsKept(u)
  BY <1>1 DEF CFlagsKept
<1>6. UNCHANGED <<call_rcu_data_list, default_crd, cpu_crd, thread_crd, living>>
  BY DEF cpointers, cprocess
<1>7. ASSUME NEW u \in CThreads PROVE CPlaced(u)' /\ CUsed(u)' /\ CStopping(u)' /\ CChildOf(u)'
  BY <1>2, <1>3, <1>4, <1>5, <1>6, CKeeps
<1>8. CList' /\ CRoles'
  BY <1>2, <1>3, <1>6, CQuietRoles
<1>9. \A d \in Crdps : CWorking(d)'
  BY <1>1 DEF CIInv, CWorkers, CWorking
<1> QED BY <1>7, <1>8, <1>9 DEF CIInv, CThreadsPlaced, CChild, CUses, CWorkers

(* The first of a batch goes.                                              *)
LEMMA CrPop ==
    ASSUME NEW T, NEW s \in Seq(T), s # << >>
    PROVE  /\ \A i \in Nat :
                 /\ Len(Tail(s)) - i \in DOMAIN Tail(s) <=> Len(s) - i \in DOMAIN s /\ i # Len(s) - 1
                 /\ Len(Tail(s)) - i \in DOMAIN Tail(s) => Tail(s)[Len(Tail(s)) - i] = s[Len(s) - i]
           /\ \A h, t : CBehind(s, h, t) /\ h # s[1] => CBehind(Tail(s), h, t)
           /\ CHeadOnce(s) => CHeadOnce(Tail(s)) /\ (s[1] \in Heads => s[1] \notin Range(Tail(s)))
<1> DEFINE r == Tail(s)
           n == Len(s)
<1>1. /\ n \in Nat \ {0} /\ DOMAIN s = 1 .. n /\ Len(r) = n - 1 /\ DOMAIN r = 1 .. n - 1
      /\ \A i \in 1 .. n - 1 : r[i] = s[i + 1]
  BY CrTail
<1> HIDE DEF r, n
<1>2. ASSUME NEW i \in Nat
      PROVE  /\ Len(r) - i \in DOMAIN r <=> n - i \in DOMAIN s /\ i # n - 1
             /\ Len(r) - i \in DOMAIN r => r[Len(r) - i] = s[n - i]
  <2>1. Len(r) - i \in DOMAIN r <=> n - i \in DOMAIN s /\ i # n - 1
    BY <1>1
  <2>2. ASSUME Len(r) - i \in DOMAIN r PROVE r[Len(r) - i] = s[n - i]
    <3>1. Len(r) - i \in 1 .. n - 1 /\ (Len(r) - i) + 1 = n - i
      BY <1>1, <2>2
    <3> QED BY <1>1, <3>1
  <2> QED BY <2>1, <2>2
<1>3. ASSUME NEW h, NEW t, CBehind(s, h, t), h # s[1] PROVE CBehind(r, h, t)
  <2>1. PICK i \in DOMAIN s, j \in DOMAIN s : i < j /\ s[i] = h /\ s[j] = t
    BY <1>3 DEF CBehind
  <2>2. i # 1
    BY <1>3, <2>1
  <2>3. i - 1 \in 1 .. n - 1 /\ j - 1 \in 1 .. n - 1 /\ i - 1 < j - 1 /\ (i - 1) + 1 = i /\ (j - 1) + 1 = j
    BY <1>1, <2>1, <2>2
  <2>4. r[i - 1] = h /\ r[j - 1] = t
    BY <1>1, <2>1, <2>3
  <2> QED BY <1>1, <2>3, <2>4 DEF CBehind
<1>4. ASSUME CHeadOnce(s) PROVE CHeadOnce(r)
  <2>1. ASSUME NEW i \in DOMAIN r, NEW j \in DOMAIN r, r[i] \in Heads, r[i] = r[j] PROVE i = j
    <3>1. i + 1 \in DOMAIN s /\ j + 1 \in DOMAIN s /\ r[i] = s[i + 1] /\ r[j] = s[j + 1] /\ i \in Int /\ j \in Int
      BY <1>1
    <3>2. i + 1 = j + 1
      BY <1>4, <2>1, <3>1 DEF CHeadOnce
    <3> QED BY <3>1, <3>2
  <2> QED BY <2>1 DEF CHeadOnce
<1>5. ASSUME CHeadOnce(s), s[1] \in Heads PROVE s[1] \notin Range(r)
  <2>1. ASSUME NEW i \in DOMAIN r PROVE r[i] # s[1]
    <3>1. i + 1 \in DOMAIN s /\ r[i] = s[i + 1] /\ i + 1 # 1 /\ 1 \in DOMAIN s
      BY <1>1
    <3> QED BY <1>5, <3>1 DEF CHeadOnce
  <2> QED BY <2>1 DEF Range
<1> QED BY <1>2, <1>3, <1>4, <1>5 DEF r, n

(* When the first item is taken off a batch, the other completions and     *)
(* what they cover stay.                                                   *)
LEMMA CPops ==
    ASSUME CIInv, NEW c \in Crdps, crd[c].batch # << >>, crd'[c].batch = Tail(crd[c].batch),
           crd'[c].q = crd[c].q, \A d \in Crdps : d # c => crd'[d] = crd[d], cth' = cth,
           crd'[c].wpc \notin CComplete
    PROVE  /\ \A u \in CThreads :
                 /\ CTokens(u)' \subseteq CTokens(u)
                 /\ CWaited(u)' \subseteq CWaited(u)
                 /\ u = Head(crd[c].batch) => \E y \in CTokens(u) : y \notin CTokens(u)'
                 /\ \A h \in Heads : h # Head(crd[c].batch) /\ CCovered(u, h) => CCovered(u, h)'
           /\ \A d \in Crdps : CSound(d)'
           /\ \A h \in Heads, d \in Crdps : CIn(h, d)' <=> CIn(h, d) /\ h # Head(crd[c].batch)
<1> DEFINE s == crd[c].batch
           r == Tail(crd[c].batch)
           n == Len(crd[c].batch)
<1>0. CTypeOK /\ CCallbacks
  BY DEF CIInv
<1>1. s \in Seq(CItem) /\ s # << >>
  BY <1>0 DEF CTypeOK, CCrdp
<1>2. /\ Head(s) = s[1] /\ n \in Nat \ {0} /\ DOMAIN s = 1 .. n /\ Range(s) = Range(r) \cup {s[1]}
  BY <1>1, CrTail
<1>3. /\ \A i \in Nat :
            /\ Len(r) - i \in DOMAIN r <=> n - i \in DOMAIN s /\ i # n - 1
            /\ Len(r) - i \in DOMAIN r => r[Len(r) - i] = s[n - i]
      /\ \A h, t : CBehind(s, h, t) /\ h # s[1] => CBehind(r, h, t)
      /\ CHeadOnce(s) => CHeadOnce(r) /\ (s[1] \in Heads => s[1] \notin Range(r))
  BY <1>1, CrPop
<1>4. crd'[c].batch = r /\ crd[c].batch = s
  OBVIOUS
<1> HIDE DEF s, r, n
<1>5. \A u \in CThreads : CToQueue(u)' = CToQueue(u) /\ CInner(u)' = CInner(u)
  BY DEF CToQueue, CInner, CInSub
<1>6. ASSUME NEW u \in CThreads PROVE CTokens(u)' \subseteq CTokens(u) \ {<<"batch", c, n - 1>>}
  <2>1. ASSUME NEW x \in {"todo", "q", "batch"} \X Crdps \X Nat, CIsToken(u, x[1], x[2], x[3])'
        PROVE  CIsToken(u, x[1], x[2], x[3]) /\ x # <<"batch", c, n - 1>>
    <3>1. CASE x[2] # c
      BY <1>5, <2>1, <3>1 DEF CIsToken
    <3>2. CASE x[2] = c /\ x[1] # "batch"
      BY <1>5, <2>1, <3>2 DEF CIsToken
    <3>3. CASE x[2] = c /\ x[1] = "batch"
      <4>1. Len(r) - x[3] \in DOMAIN r /\ r[Len(r) - x[3]] = u /\ x[3] \in Nat
        BY <1>4, <2>1, <3>3 DEF CIsToken
      <4>2. n - x[3] \in DOMAIN s /\ x[3] # n - 1 /\ s[n - x[3]] = u
        BY <1>3, <4>1
      <4> QED BY <1>4, <3>3, <4>2 DEF CIsToken, n, s
    <3> QED BY <3>1, <3>2, <3>3
  <2> QED BY <2>1 DEF CTokens
<1>7. ASSUME NEW u \in CThreads, u = s[1] PROVE <<"batch", c, n - 1>> \in CTokens(u)
  <2>1. n - (n - 1) = 1 /\ n - 1 \in Nat /\ 1 \in DOMAIN s
    BY <1>2
  <2>2. CIsToken(u, "batch", c, n - 1)
    BY <1>4, <1>7, <2>1 DEF CIsToken, n, s
  <2> QED BY <2>1, <2>2 DEF CTokens
<1>8. ASSUME NEW u \in CThreads PROVE CWaited(u)' \subseteq CWaited(u)
  <2>1. \A d \in Crdps : CDoomed(d)' <=> CDoomed(d)
    BY <1>5 DEF CDoomed
  <2>2. ASSUME NEW x \in CTokens(u)', CCounts(x[1], x[2], x[3])' PROVE CCounts(x[1], x[2], x[3])
    <3>1. x \in {"todo", "q", "batch"} \X Crdps \X Nat /\ x # <<"batch", c, n - 1>>
      BY <1>6, <2>2 DEF CTokens
    <3>2. x[2] = c /\ x[1] = "batch" => x[3] # n - 1
      BY <3>1
    <3> QED BY <1>4, <2>1, <2>2, <3>1, <3>2 DEF CCounts, n, s
  <2> QED BY <1>6, <2>2 DEF CWaited
<1>9. \A h \in Heads : h \in Range(r) <=> h \in Range(s) /\ h # s[1]
  BY <1>0, <1>2, <1>3, <1>4 DEF CCallbacks, CSound
<1>10. ASSUME NEW h \in Heads, NEW d \in Crdps PROVE CIn(h, d)' <=> CIn(h, d) /\ h # s[1]
  <2>1. h = s[1] => CIn(h, c) /\ h \notin Range(crd[c].q)
    BY <1>0, <1>2, <1>4 DEF CIn, CCallbacks, CSound
  <2>2. CASE d = c
    BY <1>4, <1>9, <2>1, <2>2 DEF CIn
  <2>3. CASE d # c
    BY <1>0, <2>1, <2>3 DEF CIn, CCallbacks
  <2> QED BY <2>2, <2>3
<1>11. ASSUME NEW u \in CThreads, NEW h \in Heads, h # s[1], CCovered(u, h) PROVE CCovered(u, h)'
  <2>1. PICK d \in Crdps : CCoveredIn(u, h, d)
    BY <1>11 DEF CCovered
  <2>2. CIn(h, d) => CIn(h, d)'
    BY <1>10, <1>11
  <2>3. CASE d # c
    BY <1>5, <2>1, <2>2, <2>3 DEF CCoveredIn, CCovered, CBehind
  <2>4. CASE d = c
    <3>1. CBehind(s, h, u) => CBehind(r, h, u)
      BY <1>3, <1>11
    <3>2. CCoveredIn(u, h, c)'
      <4>1. CASE CIn(h, c) /\ c \in CToQueue(u)
        BY <1>5, <2>2, <2>4, <4>1 DEF CCoveredIn
      <4>2. CASE h \in Range(crd[c].batch) /\ u \in Range(crd[c].q)
        BY <1>4, <1>9, <1>11, <4>2 DEF CCoveredIn
      <4>3. CASE CBehind(crd[c].q, h, u)
        BY <4>3 DEF CCoveredIn, CBehind
      <4>4. CASE CBehind(crd[c].batch, h, u)
        BY <1>4, <3>1, <4>4 DEF CCoveredIn, CBehind
      <4> QED BY <2>1, <2>4, <4>1, <4>2, <4>3, <4>4 DEF CCoveredIn
    <3> QED BY <3>2 DEF CCovered
  <2> QED BY <2>3, <2>4
<1>12. \A d \in Crdps : CSound(d)'
  <2>1. CSound(c)'
    BY <1>0, <1>2, <1>3, <1>4 DEF CCallbacks, CSound, CHeadOnce
  <2> QED BY <1>0, <2>1 DEF CCallbacks, CSound, CHeadOnce
<1>13. Head(crd[c].batch) = s[1]
  BY <1>2, <1>4
<1> QED BY <1>6, <1>7, <1>8, <1>10, <1>11, <1>12, <1>13

(* A callback runs.                                                        *)
LEMMA CRunsCallback ==
    ASSUME CIInv, NEW c \in Crdps, CRunCallback(c)
    PROVE  CIInv'
<1> DEFINE r == [crd[c] EXCEPT !.batch = Tail(crd[c].batch)]
<1>0. CTypeOK /\ CCallbacks /\ CHolds /\ CWorking(c) /\ crd \in [Crdps -> CCrdp] /\ crd[c] \in CCrdp
  BY DEF CIInv, CWorkers, CTypeOK
<1>1. /\ crd[c].live /\ crd[c].wpc = "run" /\ crd[c].batch # << >>
      /\ crd' = [crd EXCEPT ![c] = r]
      /\ UNCHANGED <<cpointers, call_rcu_mutex, completion, cth, cprocess, hold>>
  BY DEF CRunCallback, wat, worker
<1>2. PICK h \in Heads : /\ h = Head(crd[c].batch) /\ pending' = pending \ {h}
                         /\ owed' = [t \in CThreads |-> owed[t] \ {h}]
  BY DEF CRunCallback
<1>3. Tail(crd[c].batch) \in Seq(CItem) /\ Range(Tail(crd[c].batch)) \subseteq Range(crd[c].batch)
  <2>1. crd[c].batch \in Seq(CItem)
    BY <1>0 DEF CCrdp
  <2> QED BY <1>1, <2>1, CrTail
<1>4. /\ r \in CCrdp /\ r.live = crd[c].live /\ r.flags = crd[c].flags /\ r.q = crd[c].q
      /\ r.batch = Tail(crd[c].batch) /\ r.wpc = crd[c].wpc
  <2> DEFINE b == Tail(crd[c].batch)
             x == crd[c]
  <2>1. b \in Seq(CItem) /\ x \in CCrdp /\ r = [x EXCEPT !.batch = b]
    BY <1>0, <1>3
  <2> HIDE DEF b, r, x
  <2>2. /\ r \in CCrdp /\ r.live = x.live /\ r.flags = x.flags /\ r.q = x.q /\ r.batch = b /\ r.wpc = x.wpc
    BY ONLY <2>1 DEF CCrdp
  <2> QED BY <2>2 DEF b, x
<1> HIDE DEF r
<1>5. crd'[c] = r /\ \A d \in Crdps : d # c => crd'[d] = crd[d]
  BY <1>0, <1>1
<1>6. CTypeOK'
  <2>1. crd' \in [Crdps -> CCrdp]
    BY <1>0, <1>1, <1>4
  <2>2. pending' \subseteq Heads /\ owed' \in [CThreads -> SUBSET Heads]
    BY <1>0, <1>2 DEF CTypeOK
  <2> QED BY <1>0, <1>1, <2>1, <2>2 DEF CTypeOK, cpointers, cprocess
<1>7. UNCHANGED <<completion, living>> /\ completion' \in [CThreads -> CCompletion] /\ owed \in [CThreads -> SUBSET Heads]
  BY <1>0, <1>1 DEF cprocess, CTypeOK
<1>8. /\ \A u \in CThreads :
            /\ CTokens(u)' \subseteq CTokens(u) /\ CWaited(u)' \subseteq CWaited(u)
            /\ \A g \in Heads : g # h /\ CCovered(u, g) => CCovered(u, g)'
      /\ \A d \in Crdps : CSound(d)'
      /\ \A g \in Heads, d \in Crdps : CIn(g, d)' <=> CIn(g, d) /\ g # h
  <2>1. crd'[c].wpc \notin CComplete
    BY <1>1, <1>4, <1>5 DEF CComplete
  <2> QED BY <1>1, <1>2, <1>4, <1>5, <2>1, CPops
<1>9. \A u \in CThreads : CInner(u)' = CInner(u)
  BY <1>1 DEF CInner, CInSub
<1>10. CCallbacks'
  <2>1. \A g \in Heads : g \in pending' <=> \E d \in Crdps : CIn(g, d)'
    BY <1>0, <1>2, <1>8 DEF CCallbacks
  <2>2. \A g \in Heads : \A d, e \in Crdps : CIn(g, d)' /\ CIn(g, e)' => d = e
    BY <1>0, <1>8 DEF CCallbacks
  <2>3. \A t \in CThreads : cth'[t].h # NULL =>
          cth'[t].h \notin pending' /\ \A u \in CThreads : u # t => cth'[u].h # cth'[t].h
    BY <1>0, <1>1, <1>2 DEF CCallbacks
  <2>4. ASSUME NEW t \in CThreads, CInner(t)' = "unlink"
        PROVE  \A g \in Heads : g \notin Range(crd'[cth'[t].f].q)
    <3>1. cth[t].f \in Crdps
      BY <1>9, <2>4, CFacts DEF CTakes, CFreeing
    <3> QED BY <1>0, <1>1, <1>4, <1>5, <1>9, <2>4, <3>1 DEF CCallbacks
  <2> QED BY <1>8, <2>1, <2>2, <2>3, <2>4 DEF CCallbacks
<1>11. CHolds'
  <2>1. Reading' = Reading
    BY <1>1 DEF Reading, cprocess
  <2> QED BY <1>0, <1>1, <1>3, <1>4, <1>5, <2>1 DEF CHolds, CHeldIn
<1>12. ASSUME NEW u \in CThreads PROVE CReferred(u)' /\ CCovers(u)'
  <2>1. CCovers(u) /\ owed'[u] = owed[u] \ {h} /\ owed[u] \subseteq Heads
    BY <1>2, <1>7 DEF CIInv, CCover
  <2>2. CInner(u)' \in CBarrier =>
          /\ owed'[u] \subseteq owed[u] /\ owed'[u] \subseteq pending'
          /\ cth'[u].pc = "bar_return" => owed'[u] = {}
          /\ \A g \in owed'[u] : CCovered(u, g) => CCovered(u, g)'
    BY <1>1, <1>2, <1>8, <1>9, <2>1 DEF CCovers
  <2> QED BY <1>7, <1>8, <1>9, <2>2, CCarrySub
<1>13. CWorking(c)'
  BY <1>0, <1>1, <1>4, <1>5 DEF CWorking, CBatchPC, CComplete
<1>14. CRefs' /\ CCover'
  BY <1>12 DEF CRefs, CCover
<1> QED BY <1>1, <1>4, <1>6, <1>10, <1>11, <1>13, <1>14, CWorkAny

(* The last thing a worker does with a completion.                         *)
LEMMA CCompletionPut ==
    ASSUME CIInv, NEW c \in Crdps, CompletionPut(c)
    PROVE  CIInv'
<1> DEFINE r == [crd[c] EXCEPT !.batch = Tail(crd[c].batch), !.wpc = "run"]
<1>0. CTypeOK /\ CCallbacks /\ CHolds /\ CWorking(c) /\ crd \in [Crdps -> CCrdp] /\ crd[c] \in CCrdp
  BY DEF CIInv, CWorkers, CTypeOK
<1>1. /\ crd[c].live /\ crd[c].wpc = "bar_put"
      /\ crd' = [crd EXCEPT ![c] = r]
      /\ UNCHANGED <<cpointers, call_rcu_mutex, cth, cprocess, cghosts>>
  BY DEF CompletionPut, wat, worker
<1>a. crd[c].batch \in Seq(CItem) /\ crd[c].batch # << >> /\ crd[c].batch[1] \in CThreads
  BY <1>0, <1>1 DEF CCrdp, CWorking, CComplete
<1>2. PICK b \in CThreads : b = Head(crd[c].batch)
  BY <1>a, CrTail
<1>3. Tail(crd[c].batch) \in Seq(CItem) /\ Range(Tail(crd[c].batch)) \subseteq Range(crd[c].batch)
  BY <1>a, CrTail
<1>4. /\ r \in CCrdp /\ r.live = crd[c].live /\ r.flags = crd[c].flags /\ r.q = crd[c].q
      /\ r.batch = Tail(crd[c].batch) /\ r.wpc = "run"
  <2> DEFINE s == Tail(crd[c].batch)
             x == crd[c]
  <2>1. s \in Seq(CItem) /\ x \in CCrdp /\ r = [x EXCEPT !.batch = s, !.wpc = "run"]
    BY <1>0, <1>3
  <2> HIDE DEF s, r, x
  <2>2. /\ r \in CCrdp /\ r.live = x.live /\ r.flags = x.flags /\ r.q = x.q /\ r.batch = s /\ r.wpc = "run"
    BY ONLY <2>1 DEF CCrdp, CWorkerPC, CBatchPC
  <2> QED BY <2>2 DEF s, x
<1> HIDE DEF r
<1>5. crd'[c] = r /\ \A d \in Crdps : d # c => crd'[d] = crd[d]
  BY <1>0, <1>1
<1>6. /\ completion' \in [CThreads -> CCompletion]
      /\ completion'[b].ref = completion[b].ref - 1
      /\ \A u \in CThreads : completion'[u].count = completion[u].count
      /\ \A u \in CThreads : u # b => completion'[u].ref = completion[u].ref
  <2> DEFINE k == [completion[b] EXCEPT !.ref = completion[b].ref - 1]
  <2>1. completion \in [CThreads -> CCompletion] /\ completion[b] \in CCompletion
    BY <1>0 DEF CTypeOK
  <2>2. completion' = [completion EXCEPT ![b] = k]
    BY <1>2 DEF CompletionPut
  <2>3. k \in CCompletion /\ k.ref = completion[b].ref - 1 /\ k.count = completion[b].count
    <3>1. \A z \in Int : /\ [completion[b] EXCEPT !.ref = z] \in CCompletion
                         /\ [completion[b] EXCEPT !.ref = z].ref = z
                         /\ [completion[b] EXCEPT !.ref = z].count = completion[b].count
      BY <2>1 DEF CCompletion
    <3>2. completion[b].ref - 1 \in Int
      BY <2>1 DEF CCompletion
    <3> QED BY <3>1, <3>2
  <2> HIDE DEF k
  <2> QED BY <2>1, <2>2, <2>3
<1>7. UNCHANGED <<call_rcu_data_list, default_crd, cpu_crd, thread_crd, living, cforks, pending, hold, owed>>
  BY <1>1 DEF cpointers, cprocess, cghosts
<1>b. CTypeOK'
  <2>1. crd' \in [Crdps -> CCrdp]
    BY <1>0, <1>1, <1>4
  <2> QED BY <1>0, <1>1, <1>6, <1>7, <2>1 DEF CTypeOK
<1>8. /\ \A u \in CThreads :
            /\ CTokens(u)' \subseteq CTokens(u) /\ CWaited(u)' \subseteq CWaited(u)
            /\ u = b => \E y \in CTokens(u) : y \notin CTokens(u)'
            /\ \A g \in Heads : g # b /\ CCovered(u, g) => CCovered(u, g)'
      /\ \A d \in Crdps : CSound(d)'
      /\ \A g \in Heads, d \in Crdps : CIn(g, d)' <=> CIn(g, d) /\ g # b
  <2>1. crd'[c].wpc \notin CComplete
    BY <1>4, <1>5 DEF CComplete
  <2> QED BY <1>1, <1>2, <1>4, <1>5, <1>a, <2>1, CPops
<1>9. (\A u \in CThreads : CInner(u)' = CInner(u)) /\ b \notin Heads
  BY <1>1, CallRcuAssumption DEF CInner, CInSub
<1>10. CCallbacks'
  <2>1. \A g \in Heads : g \in pending' <=> \E d \in Crdps : CIn(g, d)'
    BY <1>0, <1>7, <1>8, <1>9 DEF CCallbacks
  <2>2. \A g \in Heads : \A d, e \in Crdps : CIn(g, d)' /\ CIn(g, e)' => d = e
    BY <1>0, <1>8 DEF CCallbacks
  <2>3. \A t \in CThreads : cth'[t].h # NULL =>
          cth'[t].h \notin pending' /\ \A u \in CThreads : u # t => cth'[u].h # cth'[t].h
    BY <1>0, <1>1, <1>7 DEF CCallbacks
  <2>4. ASSUME NEW t \in CThreads, CInner(t)' = "unlink"
        PROVE  \A g \in Heads : g \notin Range(crd'[cth'[t].f].q)
    <3>1. cth[t].f \in Crdps
      BY <1>9, <2>4, CFacts DEF CTakes, CFreeing
    <3> QED BY <1>0, <1>1, <1>4, <1>5, <1>9, <2>4, <3>1 DEF CCallbacks
  <2> QED BY <1>8, <2>1, <2>2, <2>3, <2>4 DEF CCallbacks
<1>11. CHolds'
  <2>1. Reading' = Reading
    BY <1>1 DEF Reading, cprocess
  <2> QED BY <1>0, <1>1, <1>3, <1>4, <1>5, <1>7, <2>1 DEF CHolds, CHeldIn, CComplete
<1>12. ASSUME NEW u \in CThreads PROVE CReferred(u)' /\ CCovers(u)'
  <2>1. CCovers(u) /\ owed[u] \subseteq Heads
    BY <1>0 DEF CIInv, CCover, CTypeOK
  <2>2. CInner(u)' \in CBarrier =>
          /\ owed'[u] \subseteq owed[u] /\ owed'[u] \subseteq pending'
          /\ cth'[u].pc = "bar_return" => owed'[u] = {}
          /\ \A g \in owed'[u] : CCovered(u, g) => CCovered(u, g)'
    BY <1>1, <1>7, <1>8, <1>9, <2>1 DEF CCovers
  <2>3. \/ completion'[u].ref = completion[u].ref
        \/ completion'[u].ref = completion[u].ref - 1 /\ \E y \in CTokens(u) : y \notin CTokens(u)'
    BY <1>6, <1>8
  <2> QED BY <1>6, <1>7, <1>8, <1>9, <2>2, <2>3, CCarrySub
<1>13. CWorking(c)'
  BY <1>0, <1>1, <1>4, <1>5 DEF CWorking, CBatchPC, CComplete
<1>14. CRefs' /\ CCover'
  BY <1>12 DEF CRefs, CCover
<1> QED BY <1>1, <1>4, <1>b, <1>10, <1>11, <1>13, <1>14, CWorkAny

(* _rcu_barrier_complete() counts down.                                    *)
LEMMA CBarrierComplete ==
    ASSUME CIInv, NEW c \in Crdps, _rcu_barrier_complete(c)
    PROVE  CIInv'
<1>0. CTypeOK /\ CCallbacks /\ CHolds /\ CWorking(c) /\ crd \in [Crdps -> CCrdp] /\ crd[c] \in CCrdp
  BY DEF CIInv, CWorkers, CTypeOK
<1>1. PICK b \in CThreads, p \in {"bar_test", "bar_put"} :
        /\ b = Head(crd[c].batch)
        /\ completion' = [completion EXCEPT ![b].count = completion[b].count - 1]
        /\ crd' = [crd EXCEPT ![c] = [crd[c] EXCEPT !.wpc = p]]
        /\ UNCHANGED <<cpointers, call_rcu_mutex, cth, cprocess, cghosts>>
        /\ crd[c].live /\ crd[c].wpc = "run" /\ crd[c].batch # << >>
  BY DEF _rcu_barrier_complete, wat, wgo, worker
<1> DEFINE r == [crd[c] EXCEPT !.wpc = p]
           s == crd[c].batch
           n == Len(crd[c].batch)
<1>2. /\ s \in Seq(CItem) /\ s[1] = b /\ n \in Nat \ {0} /\ DOMAIN s = 1 .. n
  <2>1. s \in Seq(CItem) /\ s # << >>
    BY <1>0, <1>1 DEF CCrdp
  <2> QED BY <1>1, <2>1, CrTail
<1>3. /\ r \in CCrdp /\ r.live = crd[c].live /\ r.flags = crd[c].flags /\ r.q = crd[c].q
      /\ r.batch = crd[c].batch /\ r.wpc = p
  BY <1>0 DEF CCrdp, CWorkerPC, CBatchPC, CComplete
<1>4. crd' = [crd EXCEPT ![c] = r]
  BY <1>1
<1> HIDE DEF r
<1>5. crd'[c] = r /\ \A d \in Crdps : d # c => crd'[d] = crd[d]
  BY <1>0, <1>4
<1>6. /\ completion' \in [CThreads -> CCompletion]
      /\ completion'[b].count = completion[b].count - 1
      /\ \A u \in CThreads : completion'[u].ref = completion[u].ref
      /\ \A u \in CThreads : u # b => completion'[u].count = completion[u].count
  <2> DEFINE k == [completion[b] EXCEPT !.count = completion[b].count - 1]
  <2>1. completion \in [CThreads -> CCompletion] /\ completion[b] \in CCompletion
    BY <1>0 DEF CTypeOK
  <2>2. completion' = [completion EXCEPT ![b] = k]
    BY <1>1
  <2>3. k \in CCompletion /\ k.count = completion[b].count - 1 /\ k.ref = completion[b].ref
    <3>1. \A z \in Int : /\ [completion[b] EXCEPT !.count = z] \in CCompletion
                         /\ [completion[b] EXCEPT !.count = z].count = z
                         /\ [completion[b] EXCEPT !.count = z].ref = completion[b].ref
      BY <2>1 DEF CCompletion
    <3>2. completion[b].count - 1 \in Int
      BY <2>1 DEF CCompletion
    <3> QED BY <3>1, <3>2
  <2> HIDE DEF k
  <2> QED BY <2>1, <2>2, <2>3
<1>7. UNCHANGED <<call_rcu_data_list, default_crd, cpu_crd, thread_crd, living, cforks, pending, hold, owed>>
  BY <1>1 DEF cpointers, cprocess, cghosts
<1>8. CTypeOK'
  <2>1. crd' \in [Crdps -> CCrdp]
    BY <1>0, <1>3, <1>4
  <2> QED BY <1>0, <1>1, <1>6, <1>7, <2>1 DEF CTypeOK
<1>9. \A d \in Crdps : crd'[d].q = crd[d].q /\ crd'[d].batch = crd[d].batch
  BY <1>3, <1>5
<1>10. \A u \in CThreads : CInner(u)' = CInner(u) /\ CToQueue(u)' = CToQueue(u)
  BY <1>1 DEF CInner, CInSub, CToQueue
<1>11. CCallbacks'
  <2>1. \A g \in Heads, d \in Crdps : CIn(g, d)' <=> CIn(g, d)
    BY <1>9 DEF CIn
  <2>2. \A d \in Crdps : CSound(d)'
    BY <1>0, <1>9 DEF CCallbacks, CSound, CHeadOnce
  <2>3. ASSUME NEW t \in CThreads, CInner(t)' = "unlink"
        PROVE  \A g \in Heads : g \notin Range(crd'[cth'[t].f].q)
    <3>1. cth[t].f \in Crdps
      BY <1>10, <2>3, CFacts DEF CTakes, CFreeing
    <3> QED BY <1>0, <1>1, <1>9, <1>10, <2>3, <3>1 DEF CCallbacks
  <2> QED BY <1>0, <1>1, <1>7, <2>1, <2>2, <2>3 DEF CCallbacks
<1>12. CHolds'
  <2>1. Reading' = Reading
    BY <1>1 DEF Reading, cprocess
  <2> QED BY <1>0, <1>1, <1>3, <1>5, <1>7, <2>1 DEF CHolds, CHeldIn, CComplete
<1>13. ASSUME NEW u \in CThreads PROVE CReferred(u)' /\ CCovers(u)'
  <2>1. CTokens(u)' = CTokens(u)
    BY <1>9, <1>10 DEF CTokens, CIsToken
  <2>2. CWaited(u)' \subseteq CWaited(u)
    <3>1. \A d \in Crdps : CDoomed(d)' <=> CDoomed(d)
      BY <1>1, <1>10 DEF CDoomed
    <3>2. \A k, d, i : d \in Crdps /\ CCounts(k, d, i)' => CCounts(k, d, i)
      BY <1>1, <1>3, <1>5, <3>1 DEF CCounts, CComplete
    <3> QED BY <2>1, <3>2 DEF CWaited, CTokens
  <2>3. u = b => \E y \in CWaited(u) : y \notin CWaited(u)'
    <3> DEFINE y == <<"batch", c, n - 1>>
    <3>1. n - (n - 1) = 1 /\ n - 1 \in Nat /\ 1 \in DOMAIN s
      BY <1>2
    <3>2. u = b => CIsToken(u, "batch", c, n - 1)
      BY <1>2, <3>1 DEF CIsToken
    <3>3. u = b => y \in CTokens(u)
      BY <3>1, <3>2 DEF CTokens
    <3>4. CCounts("batch", c, n - 1)
      BY <1>1 DEF CCounts, CComplete
    <3>5. \A i : i = n - 1 => ~ CCounts("batch", c, i)'
      BY <1>3, <1>5 DEF CCounts, CComplete
    <3>6. y \notin CWaited(u)'
      BY <3>5 DEF CWaited
    <3> QED BY <3>3, <3>4, <3>6 DEF CWaited
  <2>4. \A h \in owed[u] : CCovered(u, h) => CCovered(u, h)'
    <3>1. \A h, d : d \in Crdps /\ CCoveredIn(u, h, d) => CCoveredIn(u, h, d)'
      BY <1>9, <1>10 DEF CCoveredIn, CBehind, CIn
    <3> QED BY <3>1 DEF CCovered
  <2>5. CCovers(u)
    BY DEF CIInv, CCover
  <2>6. CInner(u)' \in CBarrier =>
          /\ owed'[u] \subseteq owed[u] /\ owed'[u] \subseteq pending'
          /\ cth'[u].pc = "bar_return" => owed'[u] = {}
    BY <1>1, <1>7, <1>10, <2>5 DEF CCovers
  <2>7. \/ completion'[u].count = completion[u].count
        \/ completion'[u].count = completion[u].count - 1 /\ \E y \in CWaited(u) : y \notin CWaited(u)'
    BY <1>6, <2>3
  <2> QED BY <1>6, <1>7, <1>10, <2>1, <2>2, <2>4, <2>6, <2>7, CCarrySub
<1>14. CWorking(c)'
  BY <1>0, <1>1, <1>2, <1>3, <1>5 DEF CWorking, CBatchPC, CComplete
<1>15. CRefs' /\ CCover'
  BY <1>13 DEF CRefs, CCover
<1> QED BY <1>1, <1>3, <1>4, <1>8, <1>11, <1>12, <1>14, <1>15, CWorkAny

(* The queue becomes the batch.                                            *)
LEMMA CSplices ==
    ASSUME CIInv, NEW c \in Crdps, CSplice(c)
    PROVE  CIInv'
<1>0. CTypeOK /\ CCallbacks /\ CHolds /\ CWorking(c) /\ crd \in [Crdps -> CCrdp] /\ crd[c] \in CCrdp
  BY DEF CIInv, CWorkers, CTypeOK
<1>1. PICK p \in {"stop_test", "synchronize"} :
        /\ crd' = [crd EXCEPT ![c] = [crd[c] EXCEPT !.batch = crd[c].q, !.q = << >>, !.wpc = p]]
        /\ crd[c].q # << >> => p = "synchronize"
        /\ UNCHANGED <<cpointers, call_rcu_mutex, completion, cth, cprocess, cghosts>>
        /\ crd[c].live /\ crd[c].wpc = "splice"
  BY DEF CSplice, wat, worker, wquiet
<1> DEFINE r == [crd[c] EXCEPT !.batch = crd[c].q, !.q = << >>, !.wpc = p]
           s == crd[c].q
           n == Len(crd[c].q)
<1>2. s \in Seq(CItem) /\ n \in Nat /\ DOMAIN s = 1 .. n /\ << >> \in Seq(CItem) /\ Range(<< >>) = {} /\ DOMAIN << >> = {}
  <2>1. s \in Seq(CItem)
    BY <1>0 DEF CCrdp
  <2> QED BY <2>1, CrSeq, CrEmpty
<1>3. crd[c].batch = << >>
  BY <1>0, <1>1 DEF CWorking, CBatchPC, CComplete
<1>4. /\ r \in CCrdp /\ r.live = crd[c].live /\ r.flags = crd[c].flags /\ r.q = << >>
      /\ r.batch = s /\ r.wpc = p
  <2> DEFINE x == crd[c]
             e == << >>
  <2>1. s \in Seq(CItem) /\ e \in Seq(CItem) /\ x \in CCrdp /\ r = [x EXCEPT !.batch = s, !.q = e, !.wpc = p]
    BY <1>0, <1>2
  <2> HIDE DEF s, r, x, e
  <2>2. /\ r \in CCrdp /\ r.live = x.live /\ r.flags = x.flags /\ r.q = e /\ r.batch = s /\ r.wpc = p
    BY ONLY <2>1, p \in {"stop_test", "synchronize"} DEF CCrdp, CWorkerPC, CBatchPC
  <2> QED BY <2>2 DEF x, e
<1>5. crd' = [crd EXCEPT ![c] = r]
  BY <1>1
<1> HIDE DEF r
<1>6. crd'[c] = r /\ \A d \in Crdps : d # c => crd'[d] = crd[d]
  BY <1>0, <1>5
<1>7. UNCHANGED <<call_rcu_data_list, default_crd, cpu_crd, thread_crd, living, cforks, pending, hold, owed>>
  BY <1>1 DEF cpointers, cprocess, cghosts
<1>8. CTypeOK'
  <2>1. crd' \in [Crdps -> CCrdp]
    BY <1>0, <1>4, <1>5
  <2> QED BY <1>0, <1>1, <1>7, <2>1 DEF CTypeOK
<1>9. \A u \in CThreads : CInner(u)' = CInner(u) /\ CToQueue(u)' = CToQueue(u)
  BY <1>1 DEF CInner, CInSub, CToQueue
<1>10. \A g \in Heads, d \in Crdps : CIn(g, d)' <=> CIn(g, d)
  BY <1>2, <1>3, <1>4, <1>6 DEF CIn
<1>11. CCallbacks'
  <2>2. ASSUME NEW d \in Crdps PROVE CSound(d)'
    <3>1. CASE d # c
      BY <1>0, <1>6, <3>1 DEF CCallbacks, CSound, CHeadOnce
    <3>2. CASE d = c
      BY <1>0, <1>2, <1>4, <1>6, <3>2 DEF CCallbacks, CSound, CHeadOnce
    <3> QED BY <3>1, <3>2
  <2>3. ASSUME NEW t \in CThreads, CInner(t)' = "unlink"
        PROVE  \A g \in Heads : g \notin Range(crd'[cth'[t].f].q)
    <3>1. cth[t].f \in Crdps
      BY <1>9, <2>3, CFacts DEF CTakes, CFreeing
    <3> QED BY <1>0, <1>1, <1>2, <1>4, <1>6, <1>9, <2>3, <3>1 DEF CCallbacks
  <2> QED BY <1>0, <1>1, <1>7, <1>10, <2>2, <2>3 DEF CCallbacks
<1>12. CHolds'
  <2>1. Reading' = Reading
    BY <1>1 DEF Reading, cprocess
  <2>2. \A d \in Crdps : CHeldIn(d)'
    BY <1>0, <1>1, <1>4, <1>6, <1>7 DEF CHolds, CHeldIn, CComplete
  <2> QED BY <1>0, <1>7, <2>1, <2>2 DEF CHolds
<1>13. ASSUME NEW u \in CThreads PROVE CReferred(u)' /\ CCovers(u)'
  <2> DEFINE X == {"todo", "q", "batch"} \X Crdps \X Nat
             m == [x \in CTokens(u)' |-> IF x[1] = "batch" /\ x[2] = c THEN <<"q", c, n - x[3]>> ELSE x]
  <2>1. ASSUME NEW x \in CTokens(u)'
        PROVE  /\ x \in X /\ x = <<x[1], x[2], x[3]>> /\ x[3] \in Nat
               /\ x[1] = "batch" /\ x[2] = c =>
                     n - x[3] \in Nat /\ <<"q", c, n - x[3]>> \in CTokens(u)
               /\ ~ (x[1] = "batch" /\ x[2] = c) => x \in CTokens(u) /\ ~ (x[1] = "q" /\ x[2] = c)
    <3>1. x \in X /\ x = <<x[1], x[2], x[3]>> /\ x[3] \in Nat /\ CIsToken(u, x[1], x[2], x[3])'
      BY DEF CTokens
    <3>2. ASSUME x[1] = "batch", x[2] = c PROVE n - x[3] \in Nat /\ <<"q", c, n - x[3]>> \in CTokens(u)
      <4>1. n - x[3] \in DOMAIN s /\ s[n - x[3]] = u
        BY <1>4, <1>6, <3>1, <3>2 DEF CIsToken
      <4>2. n - x[3] \in Nat
        BY <1>2, <4>1
      <4>3. CIsToken(u, "q", c, n - x[3])
        BY <4>1 DEF CIsToken
      <4> QED BY <4>2, <4>3 DEF CTokens
    <3>3. ASSUME ~ (x[1] = "batch" /\ x[2] = c) PROVE CIsToken(u, x[1], x[2], x[3]) /\ ~ (x[1] = "q" /\ x[2] = c)
      BY <1>2, <1>4, <1>6, <1>9, <3>1, <3>3 DEF CIsToken
    <3> QED BY <3>1, <3>2, <3>3 DEF CTokens
  <2>2. m \in [CTokens(u)' -> CTokens(u)]
    BY <2>1
  <2>3. \A x \in CTokens(u)' : m[x] = IF x[1] = "batch" /\ x[2] = c THEN <<"q", c, n - x[3]>> ELSE x
    OBVIOUS
  <2> HIDE DEF m, X
  <2>4. ASSUME NEW x \in CTokens(u)', NEW y \in CTokens(u)', m[x] = m[y] PROVE x = y
    <3>1. CASE x[1] = "batch" /\ x[2] = c /\ y[1] = "batch" /\ y[2] = c
      <4>a. m[x] = <<"q", c, n - x[3]>> /\ m[y] = <<"q", c, n - y[3]>>
        BY <2>3, <3>1
      <4>b. \A a, b : <<"q", c, a>> = <<"q", c, b>> => a = b
        OBVIOUS
      <4>c. <<"q", c, n - x[3]>> = <<"q", c, n - y[3]>>
        BY <2>4, <4>a
      <4>1. n - x[3] = n - y[3] /\ n \in Nat /\ x[3] \in Nat /\ y[3] \in Nat
        BY <1>2, <2>1, <4>b, <4>c
      <4> HIDE DEF n
      <4>2. x[3] = y[3]
        BY <4>1
      <4> QED BY <2>1, <3>1, <4>2
    <3>2. CASE x[1] = "batch" /\ x[2] = c /\ ~ (y[1] = "batch" /\ y[2] = c)
      <4>1. y = <<"q", c, n - x[3]>>
        BY <2>3, <2>4, <3>2
      <4> QED BY <2>1, <3>2, <4>1
    <3>3. CASE ~ (x[1] = "batch" /\ x[2] = c) /\ y[1] = "batch" /\ y[2] = c
      <4>1. x = <<"q", c, n - y[3]>>
        BY <2>3, <2>4, <3>3
      <4> QED BY <2>1, <3>3, <4>1
    <3>4. CASE ~ (x[1] = "batch" /\ x[2] = c) /\ ~ (y[1] = "batch" /\ y[2] = c)
      BY <2>3, <2>4, <3>4
    <3> QED BY <3>1, <3>2, <3>3, <3>4
  <2>5. ASSUME NEW x \in CWaited(u)' PROVE m[x] \in CWaited(u)
    <3>1. x \in CTokens(u)' /\ CCounts(x[1], x[2], x[3])'
      BY DEF CWaited
    <3>2. \A d \in Crdps : CDoomed(d)' <=> CDoomed(d)
      BY <1>1, <1>9 DEF CDoomed
    <3>3. ~ CDoomed(c)
      <4>1. \A v \in CThreads : CStopping(v)
        BY DEF CIInv, CWorkers
      <4> QED BY <1>1, <4>1 DEF CDoomed, CStopping
    <3>4. CASE x[1] = "batch" /\ x[2] = c
      <4>1. CCounts("q", c, n - x[3])
        BY <3>3 DEF CCounts
      <4>2. m[x] = <<"q", c, n - x[3]>> /\ m[x] \in CTokens(u)
        BY <2>2, <2>3, <3>1, <3>4
      <4> QED BY <4>1, <4>2 DEF CWaited
    <3>5. CASE ~ (x[1] = "batch" /\ x[2] = c)
      <4>1. m[x] = x /\ x \in CTokens(u) /\ x[2] \in Crdps
        BY <2>1, <2>3, <3>1, <3>5 DEF CTokens
      <4>2. CCounts(x[1], x[2], x[3])
        BY <1>6, <3>1, <3>2, <3>5, <4>1 DEF CCounts
      <4> QED BY <4>1, <4>2 DEF CWaited
    <3> QED BY <3>4, <3>5
  <2>6. ASSUME NEW h \in owed[u], CCovered(u, h) PROVE CCovered(u, h)'
    <3>1. PICK d \in Crdps : CCoveredIn(u, h, d)
      BY <2>6 DEF CCovered
    <3>0. h \in Heads
      BY <1>0 DEF CTypeOK
    <3>2. CCoveredIn(u, h, d)'
      <4>1. CASE d # c
        BY <1>6, <1>9, <3>1, <4>1 DEF CCoveredIn, CIn, CBehind
      <4>2. CASE d = c
        BY <1>2, <1>3, <1>4, <1>6, <1>9, <1>10, <3>0, <3>1, <4>2 DEF CCoveredIn, CBehind
      <4> QED BY <4>1, <4>2
    <3> QED BY <3>2 DEF CCovered
  <2>7. CCovers(u) /\ completion' = completion /\ completion' \in [CThreads -> CCompletion]
    BY <1>0, <1>1 DEF CIInv, CCover, CTypeOK
  <2>8. CInner(u)' \in CBarrier =>
          /\ owed'[u] \subseteq owed[u] /\ owed'[u] \subseteq pending'
          /\ cth'[u].pc = "bar_return" => owed'[u] = {}
          /\ completion'[u].count = completion[u].count
          /\ \A h \in owed'[u] : CCovered(u, h) => CCovered(u, h)'
    BY <1>1, <1>7, <1>9, <2>6, <2>7 DEF CCovers
  <2> QED BY <1>7, <1>9, <2>2, <2>4, <2>5, <2>7, <2>8, CCarry
<1>14. CWorking(c)'
  <2>1. r.batch # << >> => r.wpc = "synchronize"
    BY <1>1, <1>4
  <2> QED BY <1>0, <1>1, <1>4, <1>6, <2>1 DEF CWorking, CBatchPC, CComplete
<1>15. CRefs' /\ CCover'
  BY <1>13 DEF CRefs, CCover
<1> QED BY <1>1, <1>4, <1>5, <1>8, <1>11, <1>12, <1>14, <1>15, CWorkAny

(* Something is queued on c: a callback, or a completion.                  *)
LEMMA CAppends ==
    ASSUME CIInv, NEW c \in Crdps, crd[c].live, NEW x \in CItem, crd' = [crd EXCEPT ![c].q = Append(crd[c].q, x)]
    PROVE  /\ crd' \in [Crdps -> CCrdp]
           /\ \A d \in Crdps :
                 /\ crd'[d].live = crd[d].live /\ crd'[d].flags = crd[d].flags /\ crd'[d].wpc = crd[d].wpc
                 /\ crd'[d].wpre = crd[d].wpre /\ crd'[d].batch = crd[d].batch
                 /\ d # c => crd'[d] = crd[d]
           /\ CStill
           /\ \A d \in Crdps : CWorking(d)'
           /\ crd'[c].q = Append(crd[c].q, x)
           /\ \A h \in Heads, d \in Crdps : CIn(h, d)' <=> CIn(h, d) \/ (h = x /\ d = c)
<1> DEFINE r == [crd[c] EXCEPT !.q = Append(crd[c].q, x)]
<1>0. crd \in [Crdps -> CCrdp] /\ crd[c] \in CCrdp /\ crd[c].q \in Seq(CItem) /\ \A d \in Crdps : CWorking(d)
  <2>1. crd \in [Crdps -> CCrdp] /\ \A d \in Crdps : CWorking(d)
    BY DEF CIInv, CTypeOK, CWorkers
  <2> QED BY <2>1 DEF CCrdp
<1>1. Append(crd[c].q, x) \in Seq(CItem) /\ Range(Append(crd[c].q, x)) = Range(crd[c].q) \cup {x}
  BY <1>0, CrAppend
<1>2. /\ r \in CCrdp /\ r.live = crd[c].live /\ r.flags = crd[c].flags /\ r.wpc = crd[c].wpc
      /\ r.wpre = crd[c].wpre /\ r.batch = crd[c].batch /\ r.q = Append(crd[c].q, x)
  <2> DEFINE y == crd[c]
             s == Append(crd[c].q, x)
  <2>1. y \in CCrdp /\ s \in Seq(CItem) /\ r = [y EXCEPT !.q = s]
    BY <1>0, <1>1
  <2> HIDE DEF y, s, r
  <2>2. /\ r \in CCrdp /\ r.live = y.live /\ r.flags = y.flags /\ r.wpc = y.wpc
        /\ r.wpre = y.wpre /\ r.batch = y.batch /\ r.q = s
    BY ONLY <2>1 DEF CCrdp
  <2> QED BY <2>2 DEF y, s
<1>3. crd' = [crd EXCEPT ![c] = r]
  OBVIOUS
<1> HIDE DEF r
<1>4. crd'[c] = r /\ (\A d \in Crdps : d # c => crd'[d] = crd[d]) /\ crd' \in [Crdps -> CCrdp]
  BY <1>0, <1>2, <1>3
<1>5. CStill
  BY <1>2, <1>4 DEF CStill
<1>6. \A d \in Crdps : CWorking(d)'
  BY <1>0, <1>2, <1>4 DEF CWorking
<1>7. \A h \in Heads, d \in Crdps : CIn(h, d)' <=> CIn(h, d) \/ (h = x /\ d = c)
  BY <1>1, <1>2, <1>4 DEF CIn
<1> QED BY <1>2, <1>4, <1>5, <1>6, <1>7

(* What is covered stays covered, and what is queued on c is covered by a  *)
(* completion that comes behind.                                           *)
LEMMA CAppendsCover ==
    ASSUME CIInv, NEW c \in Crdps, crd[c].live, NEW x \in CItem, crd' = [crd EXCEPT ![c].q = Append(crd[c].q, x)],
           NEW u \in CThreads, u # x => CToQueue(u)' = CToQueue(u),
           u = x => CToQueue(u)' = CToQueue(u) \ {c},
           NEW h \in Heads, CCovered(u, h)
    PROVE  CCovered(u, h)'
<1> DEFINE s == crd[c].q
           a == Append(crd[c].q, x)
           n == Len(crd[c].q)
<1>0. /\ \A d \in Crdps : crd'[d].batch = crd[d].batch /\ (d # c => crd'[d] = crd[d])
      /\ crd'[c].q = a /\ crd[c].q = s
      /\ \A d \in Crdps : CIn(h, d) => CIn(h, d)'
  BY CAppends
<1>1. s \in Seq(CItem)
  BY DEF CIInv, CTypeOK, CCrdp
<1>2. /\ n \in Nat /\ DOMAIN s = 1 .. n /\ DOMAIN a = 1 .. n + 1 /\ a[n + 1] = x
      /\ (\A i \in 1 .. n : a[i] = s[i]) /\ Range(a) = Range(s) \cup {x}
  BY <1>1, CrAppend
<1> HIDE DEF s, a, n
<1>3. PICK d \in Crdps : CCoveredIn(u, h, d)
  BY DEF CCovered
<1>4. CBehind(s, h, u) => CBehind(a, h, u)
  <2>1. ASSUME NEW i \in DOMAIN s, NEW j \in DOMAIN s, i < j, s[i] = h, s[j] = u PROVE CBehind(a, h, u)
    <3>1. i \in DOMAIN a /\ j \in DOMAIN a /\ a[i] = h /\ a[j] = u
      BY <1>2, <2>1
    <3> QED BY <2>1, <3>1 DEF CBehind
  <2> QED BY <2>1 DEF CBehind
<1>b. \A e \in Crdps : CBehind(crd'[e].q, h, u) \/ CBehind(crd'[e].batch, h, u) => CCovered(u, h)'
  BY DEF CCovered, CCoveredIn, CBehind
<1>5. CASE CIn(h, d) /\ d \in CToQueue(u) /\ d \in CToQueue(u)'
  BY <1>0, <1>5 DEF CCoveredIn, CCovered
<1>6. CASE CIn(h, d) /\ d = c /\ u = x
  <2>1. CASE h \in Range(crd[c].batch)
    BY <1>0, <1>2, <1>6, <2>1 DEF CCoveredIn, CCovered
  <2>2. CASE h \in Range(s)
    <3>1. PICK i \in DOMAIN s : s[i] = h
      BY <2>2 DEF Range
    <3>2. i \in DOMAIN a /\ n + 1 \in DOMAIN a /\ i < n + 1 /\ a[i] = h /\ a[n + 1] = u
      BY <1>2, <1>6, <3>1
    <3>3. CBehind(a, h, u)
      BY <3>2 DEF CBehind
    <3>4. crd'[c].q = a
      BY <1>0
    <3> QED BY <1>b, <3>3, <3>4
  <2> QED BY <1>0, <1>6, <2>1, <2>2 DEF CIn
<1>7. CASE h \in Range(crd[d].batch) /\ u \in Range(crd[d].q)
  <2>1. u \in Range(crd'[d].q)
    BY <1>0, <1>2, <1>7
  <2> QED BY <1>0, <1>7, <2>1 DEF CCoveredIn, CCovered
<1>8. CASE CBehind(crd[d].q, h, u)
  <2>1. CASE d = c
    <3>1. crd'[c].q = a /\ crd[d].q = s
      BY <1>0, <2>1
    <3> QED BY <1>4, <1>8, <1>b, <3>1
  <2>2. CASE d # c
    <3>1. crd'[d].q = crd[d].q
      BY <1>0, <2>2
    <3> QED BY <1>8, <1>b, <3>1
  <2> QED BY <2>1, <2>2
<1>9. CASE CBehind(crd[d].batch, h, u)
  <2>1. crd'[d].batch = crd[d].batch
    BY <1>0
  <2> QED BY <1>9, <1>b, <2>1
<1> QED BY <1>3, <1>5, <1>6, <1>7, <1>8, <1>9 DEF CCoveredIn

(* The completions of the threads other than the one that is queued.       *)
LEMMA CAppendsTokens ==
    ASSUME CIInv, NEW c \in Crdps, crd[c].live, NEW x \in CItem, crd' = [crd EXCEPT ![c].q = Append(crd[c].q, x)],
           NEW u \in CThreads, NEW y \in CTokens(u)'
    PROVE  /\ y \in {"todo", "q", "batch"} \X Crdps \X Nat
           /\ \/ y[1] = "todo" /\ y[3] = 0 /\ y[2] \in CToQueue(u)'
              \/ y[1] # "todo" /\ y \in CTokens(u)
              \/ y = <<"q", c, Len(crd[c].q) + 1>> /\ u = x
           /\ y \in CTokens(u) => y # <<"q", c, Len(crd[c].q) + 1>>
<1> DEFINE s == crd[c].q
           a == Append(crd[c].q, x)
           n == Len(crd[c].q)
<1>0. /\ \A d \in Crdps : crd'[d].batch = crd[d].batch /\ (d # c => crd'[d] = crd[d])
      /\ crd'[c].q = a /\ crd[c].q = s
  BY CAppends
<1>1. s \in Seq(CItem)
  BY DEF CIInv, CTypeOK, CCrdp
<1>2. /\ n \in Nat /\ DOMAIN s = 1 .. n /\ DOMAIN a = 1 .. n + 1 /\ a[n + 1] = x
      /\ (\A i \in 1 .. n : a[i] = s[i])
  BY <1>1, CrAppend
<1>a. n = Len(crd[c].q)
  OBVIOUS
<1> HIDE DEF s, a, n
<1>3. /\ y \in {"todo", "q", "batch"} \X Crdps \X Nat /\ CIsToken(u, y[1], y[2], y[3])'
      /\ y = <<y[1], y[2], y[3]>>
  BY DEF CTokens
<1>b. ASSUME y \in CTokens(u), y = <<"q", c, n + 1>> PROVE FALSE
  <2>1. n + 1 \in DOMAIN s
    BY <1>0, <1>b DEF CTokens, CIsToken
  <2> QED BY <1>2, <2>1
<1>4. CASE y[1] = "todo"
  BY <1>3, <1>4 DEF CIsToken
<1>5. CASE y[1] = "batch"
  BY <1>0, <1>3, <1>5 DEF CIsToken, CTokens
<1>6. CASE y[1] = "q" /\ y[2] # c
  BY <1>0, <1>3, <1>6 DEF CIsToken, CTokens
<1>7. CASE y[1] = "q" /\ y[2] = c
  <2>1. y[3] \in DOMAIN a /\ a[y[3]] = u
    BY <1>0, <1>3, <1>7 DEF CIsToken
  <2>2. CASE y[3] \in 1 .. n
    <3>1. y[3] \in DOMAIN s /\ s[y[3]] = u
      BY <1>2, <2>1, <2>2
    <3>2. CIsToken(u, y[1], y[2], y[3])
      BY <1>0, <1>7, <3>1 DEF CIsToken
    <3>3. y \in CTokens(u)
      BY <1>3, <3>2 DEF CTokens
    <3> QED BY <1>3, <1>7, <1>a, <1>b, <3>3
  <2>3. CASE y[3] = n + 1
    <3>1. y = <<"q", c, n + 1>> /\ u = x
      BY <1>2, <1>3, <1>7, <2>1, <2>3
    <3> QED BY <1>3, <1>a, <1>b, <3>1
  <2> QED BY <1>2, <2>1, <2>2, <2>3
<1> QED BY <1>3, <1>4, <1>5, <1>6, <1>7

(* _call_rcu() queues the callback.                                        *)
LEMMA CEnqueues ==
    ASSUME CIInv, NEW t \in CThreads, _call_rcu(t)
    PROVE  CIInv'
<1> DEFINE r == [[cth[t] EXCEPT !.pc = "wake", !.ret = <<"call_out">> \o cth[t].ret] EXCEPT !.h = NULL]
<1> USE DEF CWaking, CCalling, CTaking, CFreeing, CBarrier, CForking
<1>1. /\ t \in living /\ cth[t].pc = "enqueue"
      /\ cth' = [cth EXCEPT ![t] = r]
      /\ crd' = [crd EXCEPT ![cth[t].w].q = Append(crd[cth[t].w].q, cth[t].h)]
      /\ pending' = pending \cup {cth[t].h} /\ hold' = [hold EXCEPT ![cth[t].h] = Reading]
      /\ UNCHANGED <<cpointers, call_rcu_mutex, completion, cprocess, owed>>
  BY DEF _call_rcu, cat, thread, Enter
<1>2. /\ CTypeOK /\ cth[t] \in CThread /\ crd \in [Crdps -> CCrdp] /\ CHolds /\ CCallbacks
      /\ CPlaced(t) /\ CUsed(t) /\ CStopping(t) /\ CChildOf(t) /\ CList
      /\ cth[t].ret \in Seq(CInnerPC) /\ cth[t].nest \in Nat
      /\ cth[t].w \in Crdps \cup {NULL} /\ completion \in [CThreads -> CCompletion]
  <2>1. CHolds /\ CCallbacks
    BY DEF CIInv
  <2> QED BY <2>1, CFacts
<1>3. CInner(t) = "enqueue" /\ CRest(t) = cth[t].ret
  BY <1>1, <1>2 DEF CInner, CRest, CInSub
<1>a. PICK c \in Crdps, h \in Heads : c = cth[t].w /\ h = cth[t].h /\ crd[c].live
  <2>1. cth[t].h \in Heads \cup {NULL}
    BY <1>2 DEF CThread
  <2> QED BY <1>1, <1>2, <1>3, <2>1 DEF CPlaced, CUsed
<1>b. /\ cth[t].ret = << >> /\ <<"call_out">> \o cth[t].ret = <<"call_out">> /\ <<"call_out">> \in Seq(CInnerPC)
      /\ <<"call_out">> # << >> /\ Head(<<"call_out">>) = "call_out" /\ Tail(<<"call_out">>) = << >>
  <2>1. cth[t].ret = << >>
    BY <1>2, <1>3 DEF CPlaced
  <2>2. /\ <<"call_out">> \o cth[t].ret # << >> /\ Head(<<"call_out">> \o cth[t].ret) = "call_out"
        /\ Tail(<<"call_out">> \o cth[t].ret) = cth[t].ret
    BY <1>2, CrCons DEF CInnerPC
  <2> QED BY <2>1, <2>2, CReturns DEF CInnerPC
<1>4. r \in CThread
  <2>1. /\ cth[t] \in CThread /\ "wake" \in CThreadPC
        /\ <<"call_out">> \o cth[t].ret \in Seq(CInnerPC) /\ NULL \in Heads \cup {NULL}
    BY <1>2, <1>b DEF CThreadPC, CInnerPC
  <2> QED BY ONLY <2>1 DEF CThread
<1>5. /\ r.pc = "wake" /\ r.ret = <<"call_out">> /\ r.nest = cth[t].nest /\ r.h = NULL
      /\ r.w = cth[t].w /\ r.f = cth[t].f /\ r.todo = cth[t].todo /\ r.tpre = cth[t].tpre
  BY <1>2, <1>b DEF CThread
<1> HIDE DEF r
<1>6. cth'[t] = r /\ \A u \in CThreads : u # t => cth'[u] = cth[u]
  BY <1>1, <1>2, CSetThread
<1>7. CInner(t)' = "call_out" /\ CRest(t)' = << >>
  BY <1>5, <1>6, <1>b DEF CInner, CRest, CInSub
<1>8. UNCHANGED <<call_rcu_data_list, default_crd, cpu_crd, thread_crd, living, cforks>>
  BY <1>1 DEF cpointers, cprocess
<1>9. h \in CItem /\ crd' = [crd EXCEPT ![c].q = Append(crd[c].q, h)] /\ h \notin CThreads
  BY <1>1, <1>a, CallRcuAssumption DEF CItem
<1>10. /\ crd' \in [Crdps -> CCrdp]
       /\ \A d \in Crdps :
             /\ crd'[d].live = crd[d].live /\ crd'[d].flags = crd[d].flags /\ crd'[d].wpc = crd[d].wpc
             /\ crd'[d].wpre = crd[d].wpre /\ crd'[d].batch = crd[d].batch
             /\ d # c => crd'[d] = crd[d]
       /\ CStill
       /\ \A d \in Crdps : CWorking(d)'
       /\ crd'[c].q = Append(crd[c].q, h)
       /\ \A g \in Heads, d \in Crdps : CIn(g, d)' <=> CIn(g, d) \/ (g = h /\ d = c)
  <2>1. CIInv /\ c \in Crdps /\ crd[c].live /\ h \in CItem /\ crd' = [crd EXCEPT ![c].q = Append(crd[c].q, h)]
    BY <1>9, <1>a
  <2> QED BY ONLY <2>1, CAppends
<1>11. /\ h \notin pending /\ \A d \in Crdps : ~ CIn(h, d)
       /\ \A u \in CThreads : u # t => cth[u].h # h
  <2>1. h # NULL
    BY CallRcuAssumption
  <2>2. h \notin pending /\ \A u \in CThreads : u # t => cth[u].h # h
    BY <1>2, <1>a, <2>1 DEF CCallbacks
  <2> QED BY <1>2, <2>2 DEF CCallbacks
<1>12. CTypeOK'
  <2>1. cth' \in [CThreads -> CThread]
    BY <1>1, <1>2, <1>4 DEF CTypeOK
  <2>2. hold' \in [Heads -> SUBSET CThreads] /\ pending' \subseteq Heads
    BY <1>1, <1>2, <1>a DEF CTypeOK, Reading
  <2> QED BY <1>1, <1>2, <1>8, <1>10, <2>1, <2>2 DEF CTypeOK
<1>13. ASSUME NEW u \in CThreads
       PROVE  CInner(u)' = (IF u = t THEN "call_out" ELSE CInner(u)) /\ CTakes(u)' = CTakes(u) /\ cth'[u].f = cth[u].f
              /\ CToQueue(u)' = CToQueue(u)
  <2>1. CASE u = t
    BY <1>3, <1>5, <1>6, <1>7, <2>1 DEF CTakes, CToQueue
  <2>2. CASE u # t
    BY <1>6, <2>2 DEF CTakes, CToQueue, CInner, CInSub
  <2> QED BY <2>1, <2>2
<1>14. ASSUME NEW u \in CThreads, CInner(u) = "unlink" PROVE cth[u].f \in Crdps /\ cth[u].f # c
  <2>1. CTakes(u) /\ CHasTaken(u) /\ cth[u].f \in Crdps
    BY <1>14, CFacts DEF CTakes
  <2>2. ASSUME NEW v \in CThreads, cth[v].f = c, CInner(v) \in {"synchronize", "grace"} PROVE cth[u].f # c
    <3>1. CTakes(v) /\ v # u
      BY <1>14, <2>2 DEF CTakes
    <3> QED BY <2>1, <2>2, <3>1 DEF CHasTaken
  <2> QED BY <1>1, <1>2, <1>3, <1>a, <2>1, <2>2 DEF CHasTaken, CUsed
<1>15. CCallbacks'
  <2>1. ASSUME NEW d \in Crdps PROVE CSound(d)'
    <3>0. CSound(d)
      BY <1>2 DEF CCallbacks
    <3>1. CASE d # c
      BY <1>10, <3>0, <3>1 DEF CSound, CHeadOnce
    <3>2. CASE d = c
      <4> DEFINE s == crd[c].q
                 a == Append(crd[c].q, h)
                 n == Len(crd[c].q)
      <4>1. s \in Seq(CItem)
        BY <1>2 DEF CCrdp
      <4>2. /\ n \in Nat /\ DOMAIN s = 1 .. n /\ DOMAIN a = 1 .. n + 1 /\ a[n + 1] = h
            /\ (\A i \in 1 .. n : a[i] = s[i]) /\ Range(a) = Range(s) \cup {h}
        BY <1>9, <4>1, CrAppend
      <4>3. CHeadOnce(s) /\ h \notin Range(s) /\ h \notin Range(crd[c].batch)
        BY <1>11, <3>0, <3>2 DEF CSound, CIn
      <4>4. crd'[c].q = a /\ crd[c].q = s
        BY <1>10
      <4> HIDE DEF s, a, n
      <4>5. \A i \in DOMAIN s : s[i] # h
        BY <4>3 DEF Range
      <4>6. CHeadOnce(a)
        <5>1. ASSUME NEW i \in DOMAIN a, NEW j \in DOMAIN a, a[i] \in Heads, a[i] = a[j] PROVE i = j
          <6>1. CASE i \in 1 .. n /\ j \in 1 .. n
            BY <4>2, <4>3, <5>1, <6>1 DEF CHeadOnce
          <6>2. CASE i = n + 1 /\ j \in 1 .. n
            BY <4>2, <4>5, <5>1, <6>2
          <6>3. CASE j = n + 1 /\ i \in 1 .. n
            BY <4>2, <4>5, <5>1, <6>3
          <6> QED BY <4>2, <6>1, <6>2, <6>3
        <5> QED BY <5>1 DEF CHeadOnce
      <4>7. crd'[c].batch = crd[c].batch
        BY <1>10
      <4> QED BY <3>0, <3>2, <4>2, <4>3, <4>4, <4>6, <4>7 DEF CSound, CHeadOnce
    <3> QED BY <3>1, <3>2
  <2>2. \A g \in Heads : g \in pending' <=> \E d \in Crdps : CIn(g, d)'
    <3>1. \A g \in Heads : g \in pending <=> \E d \in Crdps : CIn(g, d)
      BY <1>2 DEF CCallbacks
    <3>2. pending' = pending \cup {h}
      BY <1>1, <1>a
    <3>3. \A g \in Heads, d \in Crdps : CIn(g, d)' <=> CIn(g, d) \/ (g = h /\ d = c)
      BY <1>10
    <3> QED BY <3>1, <3>2, <3>3
  <2>3. \A g \in Heads : \A d, e \in Crdps : CIn(g, d)' /\ CIn(g, e)' => d = e
    BY <1>2, <1>10, <1>11 DEF CCallbacks
  <2>4. ASSUME NEW u \in CThreads, cth'[u].h # NULL
        PROVE  cth'[u].h \notin pending' /\ \A v \in CThreads : v # u => cth'[v].h # cth'[u].h
    <3>1. u # t /\ cth'[u].h = cth[u].h
      BY <1>5, <1>6, <2>4
    <3>2. cth[u].h \notin pending /\ cth[u].h # h /\ \A v \in CThreads : v # u => cth[v].h # cth[u].h
      BY <1>2, <1>11, <2>4, <3>1 DEF CCallbacks
    <3> QED BY <1>1, <1>5, <1>6, <1>a, <2>4, <3>1, <3>2
  <2>5. ASSUME NEW u \in CThreads, CInner(u)' = "unlink"
        PROVE  \A g \in Heads : g \notin Range(crd'[cth'[u].f].q)
    <3>1. CInner(u) = "unlink" /\ cth'[u].f = cth[u].f
      BY <1>13, <2>5
    <3> QED BY <1>2, <1>10, <1>14, <3>1 DEF CCallbacks
  <2> QED BY <2>1, <2>2, <2>3, <2>4, <2>5 DEF CCallbacks
<1>16. CHolds'
  <2>1. Reading' = Reading
    <3>1. \A u \in CThreads : cth'[u].nest = cth[u].nest
      BY <1>5, <1>6
    <3> QED BY <1>2, <1>8, <3>1 DEF Reading, CTypeOK
  <2>2. \A g \in Heads : hold'[g] \subseteq Reading' /\ (g # h => hold'[g] = hold[g])
    BY <1>1, <1>2, <1>a, <2>1 DEF CHolds, CTypeOK
  <2>3. \A d \in Crdps : h \notin Range(crd[d].batch)
    BY <1>11 DEF CIn
  <2>4. \A d \in Crdps : CHeldIn(d)'
    BY <1>2, <1>10, <2>2, <2>3 DEF CHolds, CHeldIn
  <2> QED BY <2>2, <2>4 DEF CHolds
<1>17. ASSUME NEW u \in CThreads PROVE CReferred(u)' /\ CCovers(u)'
  <2>1. ASSUME NEW y \in CTokens(u)' PROVE y \in CTokens(u)
    <3>1. /\ y \in {"todo", "q", "batch"} \X Crdps \X Nat
          /\ \/ y[1] = "todo" /\ y[3] = 0 /\ y[2] \in CToQueue(u)'
             \/ y[1] # "todo" /\ y \in CTokens(u)
      BY <1>9, <1>a, CAppendsTokens
    <3> QED BY <1>13, <3>1 DEF CTokens, CIsToken
  <2>2. CWaited(u)' \subseteq CWaited(u)
    <3>1. \A d \in Crdps : CDoomed(d)' <=> CDoomed(d)
      BY <1>3, <1>13 DEF CDoomed
    <3>2. \A k, d, i : d \in Crdps /\ CCounts(k, d, i)' => CCounts(k, d, i)
      BY <1>10, <3>1 DEF CCounts
    <3> QED BY <2>1, <3>2 DEF CWaited, CTokens
  <2>3. CCovers(u) /\ owed[u] \subseteq Heads
    BY <1>2 DEF CIInv, CCover, CTypeOK
  <2>4. \A g \in owed[u] : CCovered(u, g) => CCovered(u, g)'
    BY <1>9, <1>13, <1>a, <2>3, CAppendsCover
  <2>5. CInner(u)' \in CBarrier =>
          /\ CInner(u) \in CBarrier
          /\ owed'[u] \subseteq owed[u] /\ owed'[u] \subseteq pending'
          /\ cth'[u].pc = "bar_return" => owed'[u] = {}
    BY <1>1, <1>5, <1>6, <1>13, <2>3 DEF CCovers
  <2> QED BY <1>1, <1>2, <1>8, <2>1, <2>2, <2>4, <2>5, CCarrySub
<1>18. CList' /\ CRoles'
  BY <1>8, <1>10, <1>13, CQuietRoles
<1>19. CPlaced(t)'
  BY <1>1, <1>2, <1>3, <1>5, <1>6, <1>7, <1>8, <1>b DEF CPlaced
<1>20. CUsed(t)'
  <2>1. \A u \in CThreads : CInner(u) \in {"synchronize", "grace"} => CInner(u)' = CInner(u) /\ cth'[u] = cth[u]
    BY <1>3, <1>6, <1>13
  <2>2. crd'[cth'[t].w].live /\ cth'[t].w = cth[t].w /\ cth[t].w # NULL
    BY <1>5, <1>6, <1>10, <1>a, CallRcuAssumption
  <2>3. (\E u \in CThreads : /\ cth[u].f = cth[t].w
                             /\ CInner(u) = "synchronize" \/ (CInner(u) = "grace" /\ t \in cth[u].tpre)) =>
        (\E u \in CThreads : /\ cth'[u].f = cth'[t].w
                             /\ CInner(u)' = "synchronize" \/ (CInner(u)' = "grace" /\ t \in cth'[u].tpre))
    BY <2>1, <2>2
  <2>4. \/ cth'[t].w = default_crd'
        \/ cth'[t].w \in {thread_crd'[t], cpu_crd'}
        \/ \E u \in CThreads : /\ cth'[u].f = cth'[t].w
                               /\ CInner(u)' = "synchronize" \/ (CInner(u)' = "grace" /\ t \in cth'[u].tpre)
    BY <1>1, <1>2, <1>3, <1>8, <2>2, <2>3 DEF CUsed
  <2>5. cth'[t].pc = "wake" /\ CInner(t)' = "call_out" /\ CInner(t)' \in CCalling
    BY <1>5, <1>6, <1>7
  <2>6. /\ cth'[t].w # NULL /\ crd'[cth'[t].w].live
        /\ \/ cth'[t].w = default_crd'
           \/ CInner(t)' = "stopping" /\ cth'[t].w = cth'[t].f
           \/ CInner(t)' \in {"bar_queue", "fork_pause"}
           \/ CInner(t)' \in CCalling /\ cth'[t].w \in {thread_crd'[t], cpu_crd'}
           \/ /\ CInner(t)' \in CCalling
              /\ \E u \in CThreads :
                    /\ cth'[u].f = cth'[t].w
                    /\ CInner(u)' = "synchronize" \/ (CInner(u)' = "grace" /\ t \in cth'[u].tpre)
    BY <2>2, <2>4, <2>5
  <2> QED BY <2>5, <2>6 DEF CUsed
<1>21. CStopping(t)' /\ CChildOf(t)' /\ CWaits(t)
  BY <1>3, <1>7 DEF CStopping, CChildOf, CInChild, CWaits
<1>22. \A u \in CThreads : CFlagsKept(u)
  BY <1>10 DEF CFlagsKept
<1>23. CRefs' /\ CCover'
  BY <1>17 DEF CRefs, CCover
<1>24. /\ t \in living /\ UNCHANGED <<living, default_crd, cpu_crd, thread_crd, call_rcu_mutex>>
       /\ \A u \in CThreads : u # t => cth'[u] = cth[u]
       /\ \A d \in Crdps : CWorking(d)' /\ crd'[d].live = crd[d].live /\ crd'[d].wpc = crd[d].wpc
  BY <1>1, <1>6, <1>8, <1>10
<1> QED BY <1>12, <1>15, <1>16, <1>18, <1>19, <1>20, <1>21, <1>22, <1>23, <1>24, CAssembleStill

(* rcu_barrier() queues its completion on the next crdp.                   *)
LEMMA CBarrierQueue ==
    ASSUME CIInv, NEW t \in CThreads, BarrierQueue(t)
    PROVE  CIInv'
<1> DEFINE r == [[cth[t] EXCEPT !.pc = "wake", !.ret = <<"bar_queue">> \o cth[t].ret] EXCEPT
                   !.w = Head(cth[t].todo), !.todo = Tail(cth[t].todo)]
<1> USE DEF CWaking, CCalling, CTaking, CFreeing, CBarrier, CForking
<1>1. /\ t \in living /\ cth[t].pc = "bar_queue" /\ cth[t].todo # << >>
      /\ cth' = [cth EXCEPT ![t] = r]
      /\ crd' = [crd EXCEPT ![Head(cth[t].todo)].q = Append(crd[Head(cth[t].todo)].q, t)]
      /\ UNCHANGED <<cpointers, call_rcu_mutex, completion, cprocess, cghosts>>
  BY DEF BarrierQueue, cat, thread, Enter
<1>2. /\ CTypeOK /\ cth[t] \in CThread /\ crd \in [Crdps -> CCrdp] /\ CHolds /\ CCallbacks
      /\ CPlaced(t) /\ CUsed(t) /\ CStopping(t) /\ CChildOf(t) /\ CList
      /\ cth[t].ret \in Seq(CInnerPC) /\ cth[t].nest \in Nat /\ cth[t].todo \in Seq(Crdps)
      /\ completion \in [CThreads -> CCompletion]
  <2>1. CHolds /\ CCallbacks
    BY DEF CIInv
  <2> QED BY <2>1, CFacts
<1>3. CInner(t) = "bar_queue" /\ CRest(t) = cth[t].ret
  BY <1>1, <1>2 DEF CInner, CRest, CInSub
<1>a. /\ Tail(cth[t].todo) \in Seq(Crdps) /\ Head(cth[t].todo) \in Crdps
      /\ Range(cth[t].todo) = Range(Tail(cth[t].todo)) \cup {Head(cth[t].todo)}
      /\ IsInjective(Tail(cth[t].todo)) /\ Head(cth[t].todo) \notin Range(Tail(cth[t].todo))
      /\ \A d \in Range(cth[t].todo) : crd[d].live
  <2>1. IsInjective(cth[t].todo) /\ \A d \in Range(cth[t].todo) : crd[d].live
    BY <1>2, <1>3 DEF CUsed
  <2> QED BY <1>1, <1>2, <2>1, CrTail
<1>b. /\ cth[t].ret = << >> /\ <<"bar_queue">> \o cth[t].ret = <<"bar_queue">> /\ <<"bar_queue">> \in Seq(CInnerPC)
      /\ <<"bar_queue">> # << >> /\ Head(<<"bar_queue">>) = "bar_queue" /\ Tail(<<"bar_queue">>) = << >>
  <2>1. cth[t].ret = << >>
    BY <1>2, <1>3 DEF CPlaced
  <2>2. /\ <<"bar_queue">> \o cth[t].ret # << >> /\ Head(<<"bar_queue">> \o cth[t].ret) = "bar_queue"
        /\ Tail(<<"bar_queue">> \o cth[t].ret) = cth[t].ret
    BY <1>2, CrCons DEF CInnerPC
  <2> QED BY <2>1, <2>2, CReturns DEF CInnerPC
<1>c. PICK c \in Crdps : c = Head(cth[t].todo)
  BY <1>a
<1>4. /\ r \in CThread
      /\ r.pc = "wake" /\ r.ret = <<"bar_queue">> /\ r.nest = cth[t].nest /\ r.h = cth[t].h
      /\ r.w = c /\ r.f = cth[t].f /\ r.todo = Tail(cth[t].todo) /\ r.tpre = cth[t].tpre
  <2> DEFINE x == cth[t]
             s == Tail(cth[t].todo)
             e == <<"bar_queue">>
  <2>1. x \in CThread /\ s \in Seq(Crdps) /\ e \in Seq(CInnerPC) /\ c \in Crdps /\ "wake" \in CThreadPC
        /\ r = [[x EXCEPT !.pc = "wake", !.ret = e] EXCEPT !.w = c, !.todo = s]
    BY <1>2, <1>a, <1>b, <1>c DEF CThreadPC
  <2> HIDE DEF x, s, e, r
  <2>2. /\ r \in CThread
        /\ r.pc = "wake" /\ r.ret = e /\ r.nest = x.nest /\ r.h = x.h
        /\ r.w = c /\ r.f = x.f /\ r.todo = s /\ r.tpre = x.tpre
    BY ONLY <2>1 DEF CThread
  <2> QED BY <2>2 DEF x, s, e
<1> HIDE DEF r
<1>6. cth'[t] = r /\ \A u \in CThreads : u # t => cth'[u] = cth[u]
  BY <1>1, <1>2, CSetThread
<1>7. CInner(t)' = "bar_queue" /\ CRest(t)' = << >>
  BY <1>4, <1>6, <1>b DEF CInner, CRest, CInSub
<1>8. UNCHANGED <<call_rcu_data_list, default_crd, cpu_crd, thread_crd, living, cforks, pending, hold, owed>>
  BY <1>1 DEF cpointers, cprocess, cghosts
<1>9. t \in CItem /\ crd' = [crd EXCEPT ![c].q = Append(crd[c].q, t)] /\ t \notin Heads /\ crd[c].live
  BY <1>1, <1>a, <1>c, CallRcuAssumption DEF CItem
<1>10. /\ crd' \in [Crdps -> CCrdp]
       /\ \A d \in Crdps :
             /\ crd'[d].live = crd[d].live /\ crd'[d].flags = crd[d].flags /\ crd'[d].wpc = crd[d].wpc
             /\ crd'[d].wpre = crd[d].wpre /\ crd'[d].batch = crd[d].batch
             /\ d # c => crd'[d] = crd[d]
       /\ CStill
       /\ \A d \in Crdps : CWorking(d)'
       /\ crd'[c].q = Append(crd[c].q, t)
       /\ \A g \in Heads, d \in Crdps : CIn(g, d)' <=> CIn(g, d) \/ (g = t /\ d = c)
  <2>1. CIInv /\ c \in Crdps /\ crd[c].live /\ t \in CItem /\ crd' = [crd EXCEPT ![c].q = Append(crd[c].q, t)]
    BY <1>9
  <2> QED BY ONLY <2>1, CAppends
<1>12. CTypeOK'
  <2>1. cth' \in [CThreads -> CThread]
    BY <1>1, <1>2, <1>4 DEF CTypeOK
  <2> QED BY <1>1, <1>2, <1>8, <1>10, <2>1 DEF CTypeOK
<1>13. ASSUME NEW u \in CThreads
       PROVE  /\ CInner(u)' = CInner(u) /\ CTakes(u)' = CTakes(u) /\ cth'[u].f = cth[u].f
              /\ CToQueue(u)' = (IF u = t THEN CToQueue(u) \ {c} ELSE CToQueue(u))
  <2>1. CASE u = t
    BY <1>3, <1>4, <1>6, <1>7, <1>a, <1>c, <2>1 DEF CTakes, CToQueue
  <2>2. CASE u # t
    BY <1>6, <2>2 DEF CTakes, CToQueue, CInner, CInSub
  <2> QED BY <2>1, <2>2
<1>d. c \in CToQueue(t)
  BY <1>3, <1>a, <1>c DEF CToQueue
<1>14. \A g \in Heads : g \in Range(crd'[c].q) <=> g \in Range(crd[c].q)
  <2>1. crd[c].q \in Seq(CItem)
    BY <1>2 DEF CCrdp
  <2>2. Range(Append(crd[c].q, t)) = Range(crd[c].q) \cup {t}
    <3> DEFINE s == crd[c].q
    <3>1. s \in Seq(CItem) /\ t \in CItem
      BY <1>9, <2>1
    <3> HIDE DEF s
    <3>2. Range(Append(s, t)) = Range(s) \cup {t}
      BY ONLY <3>1, CrAppend
    <3> QED BY <3>2 DEF s
  <2>3. Range(crd'[c].q) = Range(crd[c].q) \cup {t}
    <3>1. crd'[c].q = Append(crd[c].q, t)
      BY <1>10
    <3> QED BY ONLY <2>2, <3>1
  <2>4. t \notin Heads
    BY <1>9
  <2> QED BY ONLY <2>3, <2>4
<1>15. CCallbacks'
  <2>1. ASSUME NEW d \in Crdps PROVE CSound(d)'
    <3>0. CSound(d)
      BY <1>2 DEF CCallbacks
    <3>1. CASE d # c
      BY <1>10, <3>0, <3>1 DEF CSound, CHeadOnce
    <3>2. CASE d = c
      <4> DEFINE s == crd[c].q
                 a == Append(crd[c].q, t)
                 n == Len(crd[c].q)
      <4>1. s \in Seq(CItem)
        BY <1>2 DEF CCrdp
      <4>2. /\ n \in Nat /\ DOMAIN s = 1 .. n /\ DOMAIN a = 1 .. n + 1 /\ a[n + 1] = t
            /\ (\A i \in 1 .. n : a[i] = s[i])
        BY <1>9, <4>1, CrAppend
      <4>3. CHeadOnce(s)
        BY <3>0, <3>2 DEF CSound
      <4>4. crd'[c].q = a /\ crd[c].q = s
        BY <1>10
      <4> HIDE DEF s, a, n
      <4>6. CHeadOnce(a)
        <5>1. ASSUME NEW i \in DOMAIN a, NEW j \in DOMAIN a, a[i] \in Heads, a[i] = a[j] PROVE i = j
          <6>1. i \in 1 .. n /\ j \in 1 .. n
            BY <1>9, <4>2, <5>1
          <6> QED BY <4>2, <4>3, <5>1, <6>1 DEF CHeadOnce
        <5> QED BY <5>1 DEF CHeadOnce
      <4>7. crd'[c].batch = crd[c].batch
        BY <1>10
      <4> QED BY <1>14, <3>0, <3>2, <4>4, <4>6, <4>7 DEF CSound, CHeadOnce
    <3> QED BY <3>1, <3>2
  <2>2. \A g \in Heads : g \in pending' <=> \E d \in Crdps : CIn(g, d)'
    BY <1>2, <1>8, <1>9, <1>10 DEF CCallbacks
  <2>3. \A g \in Heads : \A d, e \in Crdps : CIn(g, d)' /\ CIn(g, e)' => d = e
    BY <1>2, <1>9, <1>10 DEF CCallbacks
  <2>4. \A u \in CThreads : cth'[u].h = cth[u].h
    BY <1>4, <1>6
  <2>5. ASSUME NEW u \in CThreads, CInner(u)' = "unlink"
        PROVE  \A g \in Heads : g \notin Range(crd'[cth'[u].f].q)
    <3>1. CInner(u) = "unlink" /\ cth'[u].f = cth[u].f
      BY <1>13, <2>5
    <3>2. cth[u].f \in Crdps
      BY <3>1, CFacts DEF CTakes
    <3>3. \A g \in Heads : g \notin Range(crd[cth[u].f].q)
      BY <1>2, <3>1 DEF CCallbacks
    <3>4. CASE cth[u].f = c
      BY <1>14, <3>1, <3>3, <3>4
    <3>5. CASE cth[u].f # c
      BY <1>10, <3>1, <3>2, <3>3, <3>5
    <3> QED BY <3>4, <3>5
  <2>6. \A u \in CThreads : cth'[u].h # NULL =>
          cth'[u].h \notin pending' /\ \A v \in CThreads : v # u => cth'[v].h # cth'[u].h
    BY <1>2, <1>8, <2>4 DEF CCallbacks
  <2> QED BY <2>1, <2>2, <2>3, <2>5, <2>6 DEF CCallbacks
<1>16. CHolds'
  <2>1. Reading' = Reading
    <3>1. \A u \in CThreads : cth'[u].nest = cth[u].nest
      BY <1>4, <1>6
    <3> QED BY <1>2, <1>8, <3>1 DEF Reading, CTypeOK
  <2>2. \A d \in Crdps : CHeldIn(d)'
    BY <1>2, <1>8, <1>10 DEF CHolds, CHeldIn
  <2> QED BY <1>2, <1>8, <2>1, <2>2 DEF CHolds
<1>17. \A d \in Crdps : CDoomed(d)' <=> CDoomed(d)
  BY <1>13 DEF CDoomed
<1>18. ASSUME NEW u \in CThreads
       PROVE  /\ CCovers(u) /\ owed[u] \subseteq Heads
              /\ \A g \in owed[u] : CCovered(u, g) => CCovered(u, g)'
              /\ CInner(u)' \in CBarrier =>
                   /\ CInner(u) \in CBarrier
                   /\ owed'[u] \subseteq owed[u] /\ owed'[u] \subseteq pending'
                   /\ cth'[u].pc = "bar_return" => owed'[u] = {}
  <2>1. CCovers(u) /\ owed[u] \subseteq Heads
    BY <1>2 DEF CIInv, CCover, CTypeOK
  <2>2. \A g \in owed[u] : CCovered(u, g) => CCovered(u, g)'
    BY <1>9, <1>13, <2>1, CAppendsCover
  <2>3. cth'[u].pc = "bar_return" => cth[u].pc = "bar_return"
    BY <1>4, <1>6
  <2> QED BY <1>8, <1>13, <2>1, <2>2, <2>3 DEF CCovers
<1>19. ASSUME NEW u \in CThreads, u # t PROVE CReferred(u)' /\ CCovers(u)'
  <2>1. ASSUME NEW y \in CTokens(u)' PROVE y \in CTokens(u)
    <3>1. /\ y \in {"todo", "q", "batch"} \X Crdps \X Nat
          /\ \/ y[1] = "todo" /\ y[3] = 0 /\ y[2] \in CToQueue(u)'
             \/ y[1] # "todo" /\ y \in CTokens(u)
      BY <1>9, <1>19, CAppendsTokens
    <3> QED BY <1>13, <1>19, <3>1 DEF CTokens, CIsToken
  <2>2. CWaited(u)' \subseteq CWaited(u)
    <3>2. \A k, d, i : d \in Crdps /\ CCounts(k, d, i)' => CCounts(k, d, i)
      BY <1>10, <1>17 DEF CCounts
    <3> QED BY <2>1, <3>2 DEF CWaited, CTokens
  <2> QED BY <1>1, <1>2, <1>8, <1>18, <2>1, <2>2, CCarrySub
<1>20. CReferred(t)' /\ CCovers(t)'
  <2>0. PICK z : z = <<"q", c, Len(crd[c].q) + 1>>
    OBVIOUS
  <2> DEFINE m == [y \in CTokens(t)' |-> IF y = z THEN <<"todo", c, 0>> ELSE y]
  <2>1. ASSUME NEW y \in CTokens(t)'
        PROVE  /\ y \in {"todo", "q", "batch"} \X Crdps \X Nat
               /\ y # z => y \in CTokens(t) /\ y # <<"todo", c, 0>>
    <3>1. /\ y \in {"todo", "q", "batch"} \X Crdps \X Nat
          /\ \/ y[1] = "todo" /\ y[3] = 0 /\ y[2] \in CToQueue(t)'
             \/ y[1] # "todo" /\ y \in CTokens(t)
             \/ y = z
      BY <1>9, <2>0, CAppendsTokens
    <3>2. CASE y[1] = "todo" /\ y[3] = 0 /\ y[2] \in CToQueue(t)'
      <4>1. y[2] \in CToQueue(t) /\ y[2] # c
        BY <1>13, <3>2
      <4> QED BY <3>1, <3>2, <4>1 DEF CTokens, CIsToken
    <3>3. CASE y[1] # "todo" /\ y \in CTokens(t)
      BY <3>1, <3>3
    <3> QED BY <3>1, <3>2, <3>3
  <2>2. <<"todo", c, 0>> \in CTokens(t)
    BY <1>d DEF CTokens, CIsToken
  <2>3. m \in [CTokens(t)' -> CTokens(t)] /\ \A y \in CTokens(t)' : m[y] = IF y = z THEN <<"todo", c, 0>> ELSE y
    BY <2>1, <2>2
  <2> HIDE DEF m
  <2>4. \A x, y \in CTokens(t)' : m[x] = m[y] => x = y
    BY <2>1, <2>3
  <2>5. ASSUME NEW x \in CWaited(t)' PROVE m[x] \in CWaited(t)
    <3>1. x \in CTokens(t)' /\ CCounts(x[1], x[2], x[3])'
      BY DEF CWaited
    <3>2. CASE x = z
      <4>1. ~ CDoomed(c)
        BY <1>17, <2>0, <3>1, <3>2 DEF CCounts
      <4>2. CCounts("todo", c, 0)
        BY <4>1 DEF CCounts
      <4>3. m[x] = <<"todo", c, 0>>
        BY <2>3, <3>1, <3>2
      <4> QED BY <2>2, <4>2, <4>3 DEF CWaited
    <3>3. CASE x # z
      <4>1. m[x] = x /\ x \in CTokens(t) /\ x[2] \in Crdps
        BY <2>1, <2>3, <3>1, <3>3
      <4>2. CCounts(x[1], x[2], x[3])
        BY <1>10, <1>17, <3>1, <4>1 DEF CCounts
      <4> QED BY <4>1, <4>2 DEF CWaited
    <3> QED BY <3>2, <3>3
  <2> QED BY <1>1, <1>2, <1>8, <1>18, <2>3, <2>4, <2>5, CCarry
<1>21. CList' /\ CRoles'
  BY <1>8, <1>10, <1>13, CQuietRoles
<1>22. CPlaced(t)'
  BY <1>1, <1>2, <1>3, <1>4, <1>6, <1>7, <1>8, <1>b DEF CPlaced
<1>23. CUsed(t)'
  <2>1. cth'[t].pc = "wake" /\ cth'[t].w = c /\ crd'[c].live /\ c # NULL /\ cth'[t].todo = Tail(cth[t].todo)
    BY <1>4, <1>6, <1>9, <1>10, CallRcuAssumption
  <2>2. \A d \in Range(cth'[t].todo) : crd'[d].live
    <3>1. Range(cth[t].todo) \subseteq Crdps
      BY CFacts
    <3> QED BY <1>10, <1>a, <2>1, <3>1
  <2> QED BY <1>7, <1>a, <2>1, <2>2 DEF CUsed
<1>24. CStopping(t)' /\ CChildOf(t)' /\ CWaits(t)
  BY <1>3, <1>7 DEF CStopping, CChildOf, CInChild, CWaits
<1>25. \A u \in CThreads : CFlagsKept(u)
  BY <1>10 DEF CFlagsKept
<1>26. CRefs' /\ CCover'
  BY <1>19, <1>20 DEF CRefs, CCover
<1>27. /\ t \in living /\ UNCHANGED <<living, default_crd, cpu_crd, thread_crd, call_rcu_mutex>>
       /\ \A u \in CThreads : u # t => cth'[u] = cth[u]
       /\ \A d \in Crdps : CWorking(d)' /\ crd'[d].live = crd[d].live /\ crd'[d].wpc = crd[d].wpc
  BY <1>1, <1>6, <1>8, <1>10
<1> QED BY <1>12, <1>15, <1>16, <1>21, <1>22, <1>23, <1>24, <1>25, <1>26, <1>27, CAssembleStill

(* rcu_barrier() takes the mutex and counts the crdps.                     *)
LEMMA CBarrierStarts ==
    ASSUME CIInv, NEW t \in CThreads, rcu_barrier(t)
    PROVE  CIInv'
<1> DEFINE r == [[cth[t] EXCEPT !.pc = "bar_queue"] EXCEPT !.todo = call_rcu_data_list]
           n == Len(call_rcu_data_list)
           k == [count |-> n, futex |-> 0, ref |-> n + 1]
<1> USE DEF CWaking, CCalling, CTaking, CFreeing, CBarrier, CForking
<1>1. /\ t \in living /\ cth[t].pc = "idle" /\ completion[t].ref = 0 /\ call_rcu_mutex = NULL
      /\ call_rcu_mutex' = t
      /\ cth' = [cth EXCEPT ![t] = r] /\ completion' = [completion EXCEPT ![t] = k]
      /\ owed' = [owed EXCEPT ![t] = pending]
      /\ UNCHANGED <<crd, cpointers, cprocess, pending, hold>>
  BY DEF rcu_barrier, may, cat, thread, At, BarrierCrdps
<1>2. /\ CTypeOK /\ cth[t] \in CThread /\ crd \in [Crdps -> CCrdp] /\ CHolds /\ CCallbacks
      /\ CPlaced(t) /\ CUsed(t) /\ CStopping(t) /\ CChildOf(t) /\ CList /\ CReferred(t)
      /\ cth[t].ret \in Seq(CInnerPC) /\ cth[t].nest \in Nat /\ call_rcu_data_list \in Seq(Crdps)
      /\ completion \in [CThreads -> CCompletion] /\ owed \in [CThreads -> SUBSET Heads] /\ pending \subseteq Heads
  <2>1. CHolds /\ CCallbacks /\ CReferred(t)
    BY DEF CIInv, CRefs
  <2>2. CTypeOK /\ call_rcu_data_list \in Seq(Crdps) /\ owed \in [CThreads -> SUBSET Heads] /\ pending \subseteq Heads
    BY DEF CIInv, CTypeOK
  <2> QED BY <2>1, <2>2, CFacts
<1>3. CInner(t) = "idle" /\ CRest(t) = cth[t].ret /\ cth[t].ret = << >>
  BY <1>1, <1>2 DEF CInner, CRest, CInSub, CPlaced
<1>a. n \in Nat /\ DOMAIN call_rcu_data_list = 1 .. n /\ Range(call_rcu_data_list) \subseteq Crdps
  BY <1>2, CrSeq
<1>4. /\ r \in CThread
      /\ r.pc = "bar_queue" /\ r.ret = cth[t].ret /\ r.nest = cth[t].nest /\ r.h = cth[t].h
      /\ r.w = cth[t].w /\ r.f = cth[t].f /\ r.todo = call_rcu_data_list /\ r.tpre = cth[t].tpre
  BY <1>2 DEF CThread, CThreadPC, CInnerPC
<1>5. k \in CCompletion /\ k.count = n /\ k.ref = n + 1
  <2>1. \A a, b, c \in Int : [count |-> a, futex |-> b, ref |-> c] \in CCompletion
    BY DEF CCompletion
  <2>2. n \in Int /\ 0 \in Int /\ n + 1 \in Int
    BY <1>a
  <2> QED BY <2>1, <2>2
<1> HIDE DEF r, k
<1>6. cth'[t] = r /\ \A u \in CThreads : u # t => cth'[u] = cth[u]
  BY <1>1, <1>2, CSetThread
<1>7. CInner(t)' = "bar_queue" /\ CRest(t)' = cth[t].ret
  BY <1>4, <1>6 DEF CInner, CRest, CInSub
<1>8. UNCHANGED <<crd, call_rcu_data_list, default_crd, cpu_crd, thread_crd, living, cforks, pending, hold>>
  BY <1>1 DEF cpointers, cprocess
<1>9. /\ completion' \in [CThreads -> CCompletion] /\ owed' \in [CThreads -> SUBSET Heads]
      /\ completion'[t].count = n /\ completion'[t].ref = n + 1 /\ owed'[t] = pending
      /\ \A u \in CThreads : u # t => completion'[u] = completion[u] /\ owed'[u] = owed[u]
  BY <1>1, <1>2, <1>5
<1>10. CTypeOK'
  <2>1. cth' \in [CThreads -> CThread]
    BY <1>1, <1>2, <1>4 DEF CTypeOK
  <2> QED BY <1>1, <1>2, <1>8, <1>9, <2>1 DEF CTypeOK
<1>11. ASSUME NEW u \in CThreads
       PROVE  /\ u # t => CInner(u)' = CInner(u) /\ CToQueue(u)' = CToQueue(u)
              /\ CTakes(u)' = CTakes(u) /\ cth'[u].f = cth[u].f /\ cth'[u].h = cth[u].h
  <2>1. CASE u = t
    BY <1>3, <1>4, <1>6, <1>7, <2>1 DEF CTakes
  <2>2. CASE u # t
    BY <1>6, <2>2 DEF CTakes, CToQueue, CInner, CInSub
  <2> QED BY <2>1, <2>2
<1>b. \A d \in Crdps : CDoomed(d)' <=> CDoomed(d)
  BY <1>3, <1>7, <1>11 DEF CDoomed
<1>12. CToQueue(t)' = Range(call_rcu_data_list)
  BY <1>4, <1>6, <1>7 DEF CToQueue
<1>13. CCallbacks'
  <2>1. \A g \in Heads, d \in Crdps : CIn(g, d)' <=> CIn(g, d)
    BY <1>8 DEF CIn
  <2>2. \A d \in Crdps : CSound(d)'
    BY <1>2, <1>8 DEF CCallbacks, CSound, CHeadOnce
  <2>3. \A u \in CThreads : CInner(u)' = "unlink" => \A g \in Heads : g \notin Range(crd'[cth'[u].f].q)
    BY <1>2, <1>7, <1>8, <1>11 DEF CCallbacks
  <2> QED BY <1>2, <1>8, <1>11, <2>1, <2>2, <2>3 DEF CCallbacks
<1>14. CHolds'
  <2>1. Reading' = Reading
    <3>1. \A u \in CThreads : cth'[u].nest = cth[u].nest
      BY <1>4, <1>6
    <3> QED BY <1>2, <1>8, <3>1 DEF Reading, CTypeOK
  <2> QED BY <1>2, <1>8, <2>1 DEF CHolds, CHeldIn
<1>15. ASSUME NEW u \in CThreads, u # t PROVE CReferred(u)' /\ CCovers(u)'
  <2>1. CTokens(u)' = CTokens(u)
    BY <1>8, <1>11, <1>15 DEF CTokens, CIsToken
  <2>2. CWaited(u)' \subseteq CWaited(u)
    <3>1. \A j, d, i : d \in Crdps /\ CCounts(j, d, i)' => CCounts(j, d, i)
      BY <1>8, <1>b DEF CCounts
    <3> QED BY <2>1, <3>1 DEF CWaited, CTokens
  <2>3. CCovers(u)
    BY DEF CIInv, CCover
  <2>4. \A g : CCovered(u, g) => CCovered(u, g)'
    BY <1>8, <1>11, <1>15 DEF CCovered, CCoveredIn, CIn, CBehind
  <2>5. CInner(u)' \in CBarrier =>
          /\ CInner(u) \in CBarrier
          /\ owed'[u] \subseteq owed[u] /\ owed'[u] \subseteq pending'
          /\ cth'[u].pc = "bar_return" => owed'[u] = {}
    BY <1>6, <1>8, <1>9, <1>11, <1>15, <2>3 DEF CCovers
  <2> QED BY <1>8, <1>9, <1>15, <2>1, <2>2, <2>4, <2>5, CCarrySub
<1>16. CTokens(t) = {}
  <2>1. IsFiniteSet(CTokens(t)) /\ Cardinality(CTokens(t)) \in Nat /\ 0 >= Cardinality(CTokens(t))
    <3>1. IsFiniteSet(CTokens(t)) /\ completion[t].ref >= Cardinality(CTokens(t)) + 0
      BY <1>1, <1>2, <1>3 DEF CReferred
    <3>2. Cardinality(CTokens(t)) \in Nat
      BY <3>1, FS_CardinalityType
    <3> QED BY <1>1, <3>1, <3>2
  <2>2. Cardinality(CTokens(t)) = 0
    BY <2>1
  <2> QED BY <2>1, <2>2, FS_EmptySet
<1>17. IsFiniteSet(CTokens(t)') /\ Cardinality(CTokens(t)') \in Nat /\ Cardinality(CTokens(t)') <= n
  <2> DEFINE T == CTokens(t)'
             f == [i \in 1 .. n |-> <<"todo", call_rcu_data_list[i], 0>>]
  <2>1. ASSUME NEW x \in T PROVE \E i \in 1 .. n : x = <<"todo", call_rcu_data_list[i], 0>>
    <3>1. /\ x \in {"todo", "q", "batch"} \X Crdps \X Nat /\ CIsToken(t, x[1], x[2], x[3])'
          /\ x = <<x[1], x[2], x[3]>>
      BY DEF CTokens
    <3>2. ~ CIsToken(t, x[1], x[2], x[3])
      BY <1>16, <3>1 DEF CTokens
    <3>3. x[1] = "todo" /\ x[3] = 0 /\ x[2] \in Range(call_rcu_data_list)
      BY <1>8, <1>12, <3>1, <3>2 DEF CIsToken
    <3> QED BY <1>a, <3>1, <3>3 DEF Range
  <2>2. ASSUME NEW i \in 1 .. n PROVE <<"todo", call_rcu_data_list[i], 0>> \in T
    <3>1. call_rcu_data_list[i] \in Range(call_rcu_data_list) /\ call_rcu_data_list[i] \in Crdps
      BY <1>a DEF Range
    <3>2. \A d \in Range(call_rcu_data_list) : CIsToken(t, "todo", d, 0)'
      BY <1>12 DEF CIsToken
    <3>3. \A d \in Crdps : CIsToken(t, "todo", d, 0)' => <<"todo", d, 0>> \in T
      BY DEF CTokens
    <3> QED BY <3>1, <3>2, <3>3
  <2>3. f \in [1 .. n -> T] /\ \A x \in T : \E i \in 1 .. n : f[i] = x
    BY <2>1, <2>2
  <2>4. f \in Surjection(1 .. n, T)
    BY <2>3 DEF Surjection
  <2>5. IsFiniteSet(1 .. n) /\ Cardinality(1 .. n) = n
    <3>1. 1 \in Int /\ n \in Int
      BY <1>a
    <3>2. IsFiniteSet(1 .. n) /\ Cardinality(1 .. n) = IF 1 > n THEN 0 ELSE n - 1 + 1
      BY <3>1, FS_Interval
    <3> QED BY <1>a, <3>2
  <2> HIDE DEF f, T
  <2>6. IsFiniteSet(T) /\ Cardinality(T) <= Cardinality(1 .. n)
    BY <2>4, <2>5, FS_Surjection
  <2>7. Cardinality(T) \in Nat
    BY <2>6, FS_CardinalityType
  <2> QED BY <2>5, <2>6, <2>7 DEF T
<1>18. CReferred(t)'
  BY <1>7, <1>9, <1>17, <1>a DEF CReferred
<1>19. CCovers(t)'
  <2>1. Cardinality(CWaited(t)') \in Nat /\ Cardinality(CWaited(t)') <= n
    <3> DEFINE S == CTokens(t)'
               T == CWaited(t)'
    <3>1. T \in SUBSET S /\ IsFiniteSet(S) /\ Cardinality(S) \in Nat /\ Cardinality(S) <= n
      BY <1>17 DEF CWaited
    <3> HIDE DEF S, T
    <3>2. IsFiniteSet(T) /\ Cardinality(T) <= Cardinality(S)
      BY <3>1, FS_Subset
    <3>3. Cardinality(T) \in Nat
      BY <3>2, FS_CardinalityType
    <3> QED BY <1>a, <3>1, <3>2, <3>3 DEF T
  <2>2. ASSUME NEW h \in pending PROVE CCovered(t, h)'
    <3>1. PICK d \in Crdps : CIn(h, d)
      BY <1>2 DEF CCallbacks
    <3>2. crd[d].live
      <4>1. ~ crd[d].live => crd[d].q = << >> /\ crd[d].batch = << >>
        BY <1>2 DEF CList, Unused
      <4>2. Range(<< >>) = {}
        BY CrEmpty
      <4> QED BY <3>1, <4>1, <4>2 DEF CIn
    <3>3. d \in CToQueue(t)'
      BY <1>2, <1>12, <3>2 DEF CList
    <3>4. CIn(h, d)'
      BY <1>8, <3>1 DEF CIn
    <3> QED BY <3>3, <3>4 DEF CCovered, CCoveredIn
  <2> QED BY <1>4, <1>6, <1>8, <1>9, <1>a, <2>1, <2>2 DEF CCovers
<1>20. CStill
  BY <1>8 DEF CStill
<1>21. CList' /\ CRoles'
  BY <1>8, <1>11, <1>20, CQuietRoles
<1>22. CPlaced(t)'
  BY <1>1, <1>2, <1>3, <1>4, <1>6, <1>7, <1>8 DEF CPlaced
<1>23. CUsed(t)'
  <2>1. \A d \in Range(call_rcu_data_list) : crd[d].live
    BY <1>2, <1>a DEF CList
  <2> QED BY <1>2, <1>4, <1>6, <1>7, <1>8, <2>1 DEF CUsed, CList
<1>24. CStopping(t)' /\ CChildOf(t)' /\ CWaits(t)
  BY <1>3, <1>7 DEF CStopping, CChildOf, CInChild, CWaits
<1>25. \A u \in CThreads : CFlagsKept(u)
  BY <1>8 DEF CFlagsKept
<1>26. CRefs' /\ CCover'
  BY <1>15, <1>18, <1>19 DEF CRefs, CCover
<1>27. \A u \in CThreads : u # t =>
         /\ cth'[u] = cth[u] /\ thread_crd'[u] = thread_crd[u]
         /\ call_rcu_mutex' = u <=> call_rcu_mutex = u
         /\ CFlagsKept(u)
         /\ \A d \in Crdps : crd[d].live => crd'[d].live /\ (crd[d].wpc = "none" => crd'[d].wpc = "none")
         /\ \A d \in Crdps : crd'[d].live => crd[d].live
  BY <1>1, <1>6, <1>8, <1>25, CallRcuAssumption
<1>28. \A d \in Crdps : CWorking(d)'
  BY <1>8 DEF CIInv, CWorkers, CWorking
<1> QED BY <1>1, <1>8, <1>10, <1>13, <1>14, <1>21, <1>22, <1>23, <1>24, <1>26, <1>27, <1>28, CAssemble

(* call_rcu_data_free() takes the crdp off the list and frees it.          *)
LEMMA CUnlinks ==
    ASSUME CIInv, NEW t \in CThreads, UnlinkAndFree(t)
    PROVE  CIInv'
<1> DEFINE r == [[cth[t] EXCEPT !.pc = Head(cth[t].ret), !.ret = Tail(cth[t].ret)] EXCEPT
                   !.f = NULL, !.w = NULL]
<1> USE DEF CWaking, CCalling, CTaking, CFreeing, CBarrier, CForking
<1>1. /\ t \in living /\ cth[t].pc = "unlink" /\ call_rcu_mutex = NULL
      /\ cth' = [cth EXCEPT ![t] = r]
      /\ crd' = [crd EXCEPT ![cth[t].f] = Unused]
      /\ call_rcu_data_list' = Without(call_rcu_data_list, cth[t].f)
      /\ UNCHANGED <<default_crd, cpu_crd, thread_crd, call_rcu_mutex, completion, cprocess, cghosts>>
  BY DEF UnlinkAndFree, cat, thread, Back
<1>2. /\ CTypeOK /\ cth[t] \in CThread /\ crd \in [Crdps -> CCrdp] /\ CHolds /\ CCallbacks /\ CRoles
      /\ CPlaced(t) /\ CUsed(t) /\ CStopping(t) /\ CChildOf(t) /\ CList
      /\ cth[t].ret \in Seq(CInnerPC) /\ cth[t].nest \in Nat /\ cth[t].todo \in Seq(Crdps)
      /\ Range(cth[t].todo) \subseteq Crdps
      /\ completion \in [CThreads -> CCompletion]
  <2>1. CHolds /\ CCallbacks /\ CRoles
    BY DEF CIInv
  <2> QED BY <2>1, CFacts
<1>3. CInner(t) = "unlink" /\ CRest(t) = cth[t].ret
  BY <1>1, <1>2 DEF CInner, CRest, CInSub
<1>a. PICK c \in Crdps : c = cth[t].f
  BY <1>3, CFacts DEF CTakes
<1>b. /\ crd[c].live /\ c # default_crd /\ c # cpu_crd /\ c # NULL
      /\ \A u \in living : thread_crd[u] # c
      /\ \A u \in CThreads : u # t /\ CTakes(u) => cth[u].f # c
      /\ crd[c].wpc = "none" /\ crd[c].batch = << >>
      /\ \A h \in Heads : h \notin Range(crd[c].q)
  <2>1. CHasTaken(t)
    BY <1>2, <1>3 DEF CRoles, CTakes
  <2>2. crd[c].wpc = "none"
    BY <1>2, <1>3, <1>a DEF CStopping
  <2>3. CWorking(c)
    BY DEF CIInv, CWorkers
  <2>4. crd[c].batch = << >>
    BY <2>2, <2>3 DEF CWorking, CBatchPC, CComplete
  <2> QED BY <1>2, <1>3, <1>a, <2>1, <2>2, <2>4 DEF CHasTaken, CCallbacks
<1>c. /\ cth[t].ret \in {<<"idle">>, <<"child_free">>}
      /\ Head(cth[t].ret) \in {"idle", "child_free"} /\ Tail(cth[t].ret) = << >>
      /\ Head(cth[t].ret) = "child_free" => cth[t].ret = <<"child_free">>
      /\ << >> \in Seq(CInnerPC)
  <2>1. cth[t].ret \in {<<"idle">>, <<"child_free">>}
    BY <1>2, <1>3 DEF CPlaced
  <2>2. \A i \in CInnerPC : Head(<<i>> \o << >>) = i /\ Tail(<<i>> \o << >>) = << >>
    BY CrCons, CrEmpty
  <2>3. \A i \in CInnerPC : Head(<<i>>) = i /\ Tail(<<i>>) = << >>
    BY <2>2, CReturns
  <2>4. "idle" \in CInnerPC /\ "child_free" \in CInnerPC
    BY DEF CInnerPC
  <2>5. /\ Head(<<"idle">>) = "idle" /\ Tail(<<"idle">>) = << >>
        /\ Head(<<"child_free">>) = "child_free" /\ Tail(<<"child_free">>) = << >>
    BY <2>3, <2>4
  <2> QED BY <2>1, <2>5, CrEmpty
<1>4. /\ r \in CThread
      /\ r.pc = Head(cth[t].ret) /\ r.ret = << >> /\ r.nest = cth[t].nest /\ r.h = cth[t].h
      /\ r.w = NULL /\ r.f = NULL /\ r.todo = cth[t].todo /\ r.tpre = cth[t].tpre
  <2> DEFINE x == cth[t]
             p == Head(cth[t].ret)
             e == Tail(cth[t].ret)
  <2>1. x \in CThread /\ p \in CThreadPC /\ e \in Seq(CInnerPC) /\ e = << >>
        /\ r = [[x EXCEPT !.pc = p, !.ret = e] EXCEPT !.f = NULL, !.w = NULL]
    BY <1>2, <1>c DEF CThreadPC, CInnerPC
  <2> HIDE DEF x, p, e, r
  <2>2. /\ r \in CThread
        /\ r.pc = p /\ r.ret = e /\ r.nest = x.nest /\ r.h = x.h
        /\ r.w = NULL /\ r.f = NULL /\ r.todo = x.todo /\ r.tpre = x.tpre
    BY ONLY <2>1 DEF CThread
  <2> QED BY <2>1, <2>2 DEF x, p, e
<1> HIDE DEF r
<1>6. cth'[t] = r /\ \A u \in CThreads : u # t => cth'[u] = cth[u]
  BY <1>1, <1>2, CSetThread
<1>7. CInner(t)' = Head(cth[t].ret) /\ CRest(t)' = << >> /\ cth'[t].pc = Head(cth[t].ret)
  BY <1>4, <1>6, <1>c DEF CInner, CRest, CInSub
<1>8. UNCHANGED <<default_crd, cpu_crd, thread_crd, living, cforks, pending, hold, owed>>
  BY <1>1 DEF cprocess, cghosts
<1>9. /\ Unused \in CCrdp /\ ~ Unused.live /\ Unused.q = << >> /\ Unused.batch = << >>
      /\ Unused.flags = {} /\ Unused.wpc = "none"
  BY CrEmpty DEF Unused, CCrdp, CWorkerPC
<1>10. /\ crd'[c] = Unused /\ (\A d \in Crdps : d # c => crd'[d] = crd[d])
       /\ crd' \in [Crdps -> CCrdp]
  BY <1>1, <1>2, <1>9, <1>a
<1> HIDE DEF Unused
<1>11. /\ call_rcu_data_list' \in Seq(Crdps) /\ CList'
  <2>1. call_rcu_data_list \in Seq(Crdps) /\ IsInjective(call_rcu_data_list) /\ c \in Range(call_rcu_data_list)
    BY <1>2, <1>b DEF CTypeOK, CList
  <2>2. /\ Without(call_rcu_data_list, c) \in Seq(Crdps) /\ IsInjective(Without(call_rcu_data_list, c))
        /\ Range(Without(call_rcu_data_list, c)) = Range(call_rcu_data_list) \ {c}
    BY ONLY <2>1, CrWithout
  <2>3. call_rcu_data_list' = Without(call_rcu_data_list, c)
    BY <1>1, <1>a
  <2>4. /\ call_rcu_data_list' \in Seq(Crdps) /\ IsInjective(call_rcu_data_list')
        /\ Range(call_rcu_data_list') = Range(call_rcu_data_list) \ {c}
    BY <2>2, <2>3
  <2> QED BY <1>2, <1>9, <1>10, <2>4 DEF CList
<1>12. CTypeOK'
  <2>1. cth' \in [CThreads -> CThread]
    BY <1>1, <1>2, <1>4 DEF CTypeOK
  <2> QED BY <1>1, <1>2, <1>8, <1>10, <1>11, <2>1 DEF CTypeOK
<1>13. ASSUME NEW u \in CThreads
       PROVE  /\ u # t => CInner(u)' = CInner(u) /\ CTakes(u)' = CTakes(u) /\ cth'[u].f = cth[u].f
              /\ CToQueue(u)' = {} /\ CToQueue(u) = {}
              /\ CInner(u) \notin {"bar_queue"} \cup CForking
  <2>1. CPlaced(u)
    BY DEF CIInv, CThreadsPlaced
  <2>2. CInner(u) \notin {"bar_queue"} \cup CForking
    BY <1>1, <2>1, CallRcuAssumption DEF CPlaced
  <2>3. CToQueue(u) = {}
    BY <2>2 DEF CToQueue
  <2>4. CASE u = t
    BY <1>7, <1>c, <2>2, <2>3, <2>4 DEF CToQueue
  <2>5. CASE u # t
    <3>1. CInner(u)' = CInner(u) /\ CTakes(u)' = CTakes(u) /\ cth'[u].f = cth[u].f
      BY <1>6, <2>5 DEF CTakes, CInner, CInSub
    <3> QED BY <2>2, <2>3, <3>1 DEF CToQueue
  <2> QED BY <2>4, <2>5
<1>14. ASSUME NEW h \in Heads, NEW d \in Crdps PROVE CIn(h, d)' <=> CIn(h, d)
  <2>1. CASE d = c
    BY <1>9, <1>10, <1>b, <2>1, CrEmpty DEF CIn
  <2>2. CASE d # c
    BY <1>10, <2>2 DEF CIn
  <2> QED BY <2>1, <2>2
<1>15. CCallbacks'
  <2>1. ASSUME NEW d \in Crdps PROVE CSound(d)'
    <3>0. CSound(d)
      BY <1>2 DEF CCallbacks
    <3>1. CASE d # c
      BY <1>10, <3>0, <3>1 DEF CSound, CHeadOnce
    <3>2. CASE d = c
      BY <1>9, <1>10, <3>2, CrEmpty DEF CSound, CHeadOnce
    <3> QED BY <3>1, <3>2
  <2>2. \A g \in Heads : g \in pending' <=> \E d \in Crdps : CIn(g, d)'
    BY <1>2, <1>8, <1>14 DEF CCallbacks
  <2>3. \A g \in Heads : \A d, e \in Crdps : CIn(g, d)' /\ CIn(g, e)' => d = e
    BY <1>2, <1>14 DEF CCallbacks
  <2>4. \A u \in CThreads : cth'[u].h = cth[u].h
    BY <1>4, <1>6
  <2>5. ASSUME NEW u \in CThreads, CInner(u)' = "unlink"
        PROVE  \A g \in Heads : g \notin Range(crd'[cth'[u].f].q)
    <3>1. u # t
      BY <1>7, <1>c, <2>5
    <3>2. CInner(u) = "unlink" /\ cth'[u].f = cth[u].f /\ CTakes(u)
      BY <1>13, <2>5, <3>1 DEF CTakes
    <3>3. cth[u].f \in Crdps /\ cth[u].f # c
      BY <1>b, <3>1, <3>2, CFacts
    <3> QED BY <1>2, <1>10, <3>2, <3>3 DEF CCallbacks
  <2>6. \A u \in CThreads : cth'[u].h # NULL =>
          cth'[u].h \notin pending' /\ \A v \in CThreads : v # u => cth'[v].h # cth'[u].h
    BY <1>2, <1>8, <2>4 DEF CCallbacks
  <2> QED BY <2>1, <2>2, <2>3, <2>5, <2>6 DEF CCallbacks
<1>16. CHolds'
  <2>1. Reading' = Reading
    <3>1. \A u \in CThreads : cth'[u].nest = cth[u].nest
      BY <1>4, <1>6
    <3> QED BY <1>2, <1>8, <3>1 DEF Reading, CTypeOK
  <2>2. ASSUME NEW d \in Crdps PROVE CHeldIn(d)'
    <3>1. CASE d # c
      BY <1>2, <1>8, <1>10, <3>1 DEF CHolds, CHeldIn
    <3>2. CASE d = c
      BY <1>9, <1>10, <3>2, CrEmpty DEF CHeldIn
    <3> QED BY <3>1, <3>2
  <2> QED BY <1>2, <1>8, <2>1, <2>2 DEF CHolds
<1>17. \A d \in Crdps : d # c => (CDoomed(d)' <=> CDoomed(d))
  BY <1>7, <1>13, <1>a, <1>c DEF CDoomed
<1>18. ASSUME NEW u \in CThreads
       PROVE  /\ CCovers(u) /\ owed[u] \subseteq Heads
              /\ \A g \in owed[u] : CCovered(u, g) => CCovered(u, g)'
              /\ CInner(u)' \in CBarrier =>
                   /\ CInner(u) \in CBarrier
                   /\ owed'[u] \subseteq owed[u] /\ owed'[u] \subseteq pending'
                   /\ cth'[u].pc = "bar_return" => owed'[u] = {}
  <2>1. CCovers(u) /\ owed[u] \subseteq Heads
    BY <1>2 DEF CIInv, CCover, CTypeOK
  <2>2. ASSUME NEW g \in Heads, CCovered(u, g) PROVE CCovered(u, g)'
    <3>1. PICK d \in Crdps : CCoveredIn(u, g, d)
      BY <2>2 DEF CCovered
    <3>2. d # c
      <4>1. g \notin Range(crd[c].q) /\ g \notin Range(crd[c].batch)
        BY <1>b, CrEmpty
      <4>2. ~ CBehind(crd[c].q, g, u) /\ ~ CBehind(crd[c].batch, g, u)
        BY <4>1 DEF CBehind, Range
      <4> QED BY <3>1, <4>1, <4>2 DEF CCoveredIn, CIn
    <3>3. CCoveredIn(u, g, d)'
      BY <1>10, <1>13, <3>1, <3>2 DEF CCoveredIn, CBehind
    <3> QED BY <3>3 DEF CCovered
  <2>3. CASE u = t
    BY <1>7, <1>c, <2>1, <2>2, <2>3
  <2>4. CASE u # t
    BY <1>6, <1>8, <1>13, <2>1, <2>2, <2>4 DEF CCovers
  <2> QED BY <2>3, <2>4
<1>19. ASSUME NEW u \in CThreads PROVE CReferred(u)' /\ CCovers(u)'
  <2>1. ASSUME NEW y \in CTokens(u)' PROVE y \in CTokens(u) /\ y[2] \in Crdps /\ y[2] # c
    <3>1. /\ y \in {"todo", "q", "batch"} \X Crdps \X Nat /\ CIsToken(u, y[1], y[2], y[3])'
      BY DEF CTokens
    <3>2. y[2] # c
      <4>1. crd'[c].q = << >> /\ crd'[c].batch = << >> /\ DOMAIN << >> = {}
        BY <1>9, <1>10
      <4> QED BY <1>13, <3>1, <4>1 DEF CIsToken
    <3>3. CIsToken(u, y[1], y[2], y[3])
      BY <1>10, <1>13, <3>1, <3>2 DEF CIsToken
    <3> QED BY <3>1, <3>2, <3>3 DEF CTokens
  <2>2. CWaited(u)' \subseteq CWaited(u)
    <3>2. \A k, d, i : d \in Crdps /\ d # c /\ CCounts(k, d, i)' => CCounts(k, d, i)
      BY <1>10, <1>17 DEF CCounts
    <3> QED BY <2>1, <3>2 DEF CWaited, CTokens
  <2> QED BY <1>1, <1>2, <1>8, <1>18, <2>1, <2>2, CCarrySub
<1>20. CRoles'
  <2>1. ASSUME NEW u \in CThreads
        PROVE  thread_crd[u] \in Crdps \cup {NULL} /\ cth[u].f \in Crdps \cup {NULL}
    BY CFacts
  <2>2. ASSUME NEW u \in living PROVE COwns(u)'
    <3>1. COwns(u) /\ u \in CThreads
      BY <1>2 DEF CRoles, CTypeOK
    <3> QED BY <1>8, <1>10, <1>b, <2>1, <3>1 DEF COwns
  <2>3. ~ CTakes(t)'
    BY <1>7, <1>c DEF CTakes
  <2>4. ASSUME NEW u \in CThreads, u # t, CTakes(u)' PROVE CHasTaken(u)'
    <3>1. CTakes(u) /\ cth'[u].f = cth[u].f
      BY <1>13, <2>4
    <3>2. CHasTaken(u) /\ cth[u].f # c
      BY <1>2, <1>b, <2>4, <3>1 DEF CRoles
    <3>3. \A v \in CThreads : v # u /\ CTakes(v)' => v # t /\ CTakes(v) /\ cth'[v].f = cth[v].f
      BY <1>13, <2>3
    <3> QED BY <1>8, <1>10, <2>1, <3>1, <3>2, <3>3 DEF CHasTaken
  <2>5. /\ default_crd' # NULL => crd'[default_crd'].live
        /\ cpu_crd' # NULL => crd'[cpu_crd'].live /\ cpu_crd' # default_crd'
    BY <1>2, <1>8, <1>10, <1>b DEF CRoles, CTypeOK
  <2> QED BY <1>8, <2>2, <2>3, <2>4, <2>5 DEF CRoles
<1>21. ASSUME NEW d \in Crdps PROVE CWorking(d)'
  <2>1. CASE d = c
    BY <1>9, <1>10, <2>1, CrEmpty DEF CWorking, CComplete
  <2>2. CASE d # c
    BY <1>10, <2>2 DEF CIInv, CWorkers, CWorking
  <2> QED BY <2>1, <2>2
<1>22. CPlaced(t)'
  BY <1>1, <1>2, <1>3, <1>4, <1>6, <1>7, <1>8, <1>c, CallRcuAssumption DEF CPlaced
<1>23. CUsed(t)' /\ CStopping(t)' /\ CWaits(t)
  BY <1>3, <1>7, <1>c DEF CUsed, CStopping, CWaits
<1>24. CChildOf(t)'
  <2>1. CASE Head(cth[t].ret) = "idle"
    BY <1>7, <2>1 DEF CChildOf, CInChild
  <2>2. CASE Head(cth[t].ret) = "child_free"
    <3>1. CInChild(t) /\ CInner(t) # "child" /\ cth[t].pc # "default"
      BY <1>1, <1>3, <1>c, <2>2 DEF CInChild
    <3>2. /\ living = {t} /\ default_crd # NULL /\ cpu_crd = NULL /\ thread_crd[t] = NULL
          /\ \A d \in Crdps : d # default_crd => crd[d].wpc = "none"
          /\ IsInjective(cth[t].todo)
          /\ \A d \in Range(cth[t].todo) : crd[d].live /\ d # default_crd /\ d # c
      BY <1>2, <1>3, <1>a, <3>1 DEF CChildOf
    <3>3. cth'[t].todo = cth[t].todo
      BY <1>4, <1>6
    <3>4. \A d \in Range(cth'[t].todo) : crd'[d].live /\ d # default_crd'
      BY <1>2, <1>8, <1>10, <3>2, <3>3
    <3>5. \A d \in Crdps : d # default_crd' => crd'[d].wpc = "none"
      BY <1>8, <1>9, <1>10, <3>2
    <3> QED BY <1>7, <1>8, <2>2, <3>2, <3>3, <3>4, <3>5 DEF CChildOf, CInChild
  <2> QED BY <1>c, <2>1, <2>2
<1>25. ASSUME NEW u \in CThreads, u # t, cth[u].pc \in CWaking \cup {"enqueue"} PROVE cth[u].w # c
  <2>1. CUsed(u) /\ CPlaced(u)
    BY DEF CIInv, CUses, CThreadsPlaced
  <2>2. u \in living
    BY <1>25, <2>1 DEF CPlaced, NewThread
  <2>3. CInner(u) \notin {"bar_queue", "fork_pause"}
    BY <1>13
  <2>4. CInner(u) = "stopping" => CTakes(u)
    BY DEF CTakes
  <2>5. \A v \in CThreads : CInner(v) \in {"synchronize", "grace"} => v # t /\ CTakes(v)
    BY <1>3 DEF CTakes
  <2>6. \A v \in CThreads : CInner(v) \in {"synchronize", "grace"} => cth[v].f # c
    BY <1>b, <2>5
  <2> QED BY <1>25, <1>b, <2>1, <2>2, <2>3, <2>4, <2>6 DEF CUsed
<1>26. CRefs' /\ CCover'
  BY <1>19 DEF CRefs, CCover
<1>27. ASSUME NEW u \in CThreads, u # t
       PROVE  /\ cth'[u] = cth[u] /\ thread_crd'[u] = thread_crd[u]
              /\ call_rcu_mutex' = u <=> call_rcu_mutex = u
              /\ CFlagsKept(u)
              /\ \A d \in Crdps : crd[d].live =>
                    \/ crd'[d].live /\ (crd[d].wpc = "none" => crd'[d].wpc = "none")
                    \/ /\ ~ crd'[d].live /\ (CTakes(u) => cth[u].f # d) /\ call_rcu_mutex # u
                       /\ cth[u].pc \in CWaking \cup {"enqueue"} => cth[u].w # d
              /\ \A d \in Crdps : crd'[d].live => crd[d].live \/ call_rcu_mutex # u
  <2>1. cth'[u] = cth[u] /\ thread_crd'[u] = thread_crd[u] /\ (call_rcu_mutex' = u <=> call_rcu_mutex = u)
    BY <1>1, <1>6, <1>8, <1>27
  <2>2. CFlagsKept(u)
    BY <1>13 DEF CFlagsKept
  <2>3. call_rcu_mutex # u
    BY <1>1, CallRcuAssumption
  <2>4. ASSUME NEW d \in Crdps, crd[d].live
        PROVE  \/ crd'[d].live /\ (crd[d].wpc = "none" => crd'[d].wpc = "none")
               \/ /\ ~ crd'[d].live /\ (CTakes(u) => cth[u].f # d) /\ call_rcu_mutex # u
                  /\ cth[u].pc \in CWaking \cup {"enqueue"} => cth[u].w # d
    BY <1>9, <1>10, <1>25, <1>27, <1>b, <2>3, <2>4
  <2> QED BY <2>1, <2>2, <2>3, <2>4
<1> QED BY <1>1, <1>8, <1>11, <1>12, <1>15, <1>16, <1>20, <1>21, <1>22, <1>23, <1>24, <1>26, <1>27, CAssemble

(* The child of a fork: the workers had paused, so that nothing was in     *)
(* their batches.                                                          *)
LEMMA CAfterForkChild ==
    ASSUME CIInv, NEW t \in CThreads, call_rcu_after_fork_child(t)
    PROVE  CIInv'
<1> DEFINE r == IF call_rcu_data_list = << >> THEN [cth[t] EXCEPT !.pc = "idle"]
                ELSE [cth[t] EXCEPT !.pc = "default", !.ret = <<"child">> \o cth[t].ret]
<1> USE DEF CWaking, CCalling, CTaking, CFreeing, CBarrier, CForking
<1>1. /\ t \in living /\ cth[t].pc = "fork" /\ living' = {t} /\ cforks' = cforks + 1
      /\ call_rcu_mutex' = NULL /\ default_crd' = NULL
      /\ crd' = [c \in Crdps |-> [crd[c] EXCEPT !.wpc = "none", !.wpre = {}, !.batch = << >>]]
      /\ hold' = [h \in Heads |-> {}]
      /\ cth' = [u \in CThreads |-> IF u # t THEN NewThread ELSE r]
      /\ UNCHANGED <<call_rcu_data_list, cpu_crd, thread_crd, completion, pending, owed>>
  BY DEF call_rcu_after_fork_child, cat, At, Enter
<1>2. /\ CTypeOK /\ cth[t] \in CThread /\ crd \in [Crdps -> CCrdp] /\ CHolds /\ CCallbacks /\ CRoles
      /\ CPlaced(t) /\ CUsed(t) /\ CStopping(t) /\ CChildOf(t) /\ CList
      /\ cth[t].ret \in Seq(CInnerPC) /\ cth[t].nest \in Nat
      /\ completion \in [CThreads -> CCompletion]
  <2>1. CHolds /\ CCallbacks /\ CRoles
    BY DEF CIInv
  <2> QED BY <2>1, CFacts
<1>3. CInner(t) = "fork" /\ CRest(t) = cth[t].ret
  BY <1>1, <1>2 DEF CInner, CRest, CInSub
<1>b. /\ cth[t].ret = << >> /\ <<"child">> \o cth[t].ret = <<"child">> /\ <<"child">> \in Seq(CInnerPC)
      /\ <<"child">> # << >> /\ Head(<<"child">>) = "child" /\ Tail(<<"child">>) = << >>
      /\ cth[t].h = NULL
  <2>1. cth[t].ret = << >> /\ cth[t].h = NULL
    BY <1>2, <1>3 DEF CPlaced
  <2>2. /\ <<"child">> \o cth[t].ret # << >> /\ Head(<<"child">> \o cth[t].ret) = "child"
        /\ Tail(<<"child">> \o cth[t].ret) = cth[t].ret
    BY <1>2, CrCons DEF CInnerPC
  <2> QED BY <2>1, <2>2, CReturns DEF CInnerPC
<1>4. /\ r \in CThread /\ r.h = NULL
      /\ \/ r.pc = "idle" /\ r.ret = << >>
         \/ r.pc = "default" /\ r.ret = <<"child">>
  <2> DEFINE x == cth[t]
             e == <<"child">>
  <2>1. x \in CThread /\ e \in Seq(CInnerPC) /\ "idle" \in CThreadPC /\ "default" \in CThreadPC
        /\ x.ret = << >> /\ x.h = NULL
        /\ r = IF call_rcu_data_list = << >> THEN [x EXCEPT !.pc = "idle"]
               ELSE [x EXCEPT !.pc = "default", !.ret = e]
    BY <1>2, <1>b DEF CThreadPC, CInnerPC
  <2> HIDE DEF x, e, r
  <2>2. /\ r \in CThread /\ r.h = NULL
        /\ \/ r.pc = "idle" /\ r.ret = << >>
           \/ r.pc = "default" /\ r.ret = e
    BY ONLY <2>1 DEF CThread
  <2> QED BY <2>2 DEF e
<1> HIDE DEF r
<1>5. /\ NewThread \in CThread /\ NewThread.h = NULL /\ NewThread.pc = "idle" /\ NewThread.ret = << >>
  BY CrEmpty DEF NewThread, CThread, CThreadPC, CInnerPC
<1> HIDE DEF NewThread
<1>6. cth'[t] = r /\ (\A u \in CThreads : u # t => cth'[u] = NewThread) /\ cth' \in [CThreads -> CThread]
  BY <1>1, <1>4, <1>5
<1>7. ASSUME NEW u \in CThreads
      PROVE  /\ \/ CInner(u)' = "idle" /\ cth'[u].pc = "idle"
                \/ /\ u = t /\ CInner(u)' = "child" /\ cth'[u].pc = "default"
                   /\ Head(cth'[u].ret) = "child" /\ cth'[u].ret # << >>
             /\ CRest(u)' = << >> /\ cth'[u].h = NULL
  <2>1. CASE u = t
    BY <1>4, <1>6, <1>b, <2>1 DEF CInner, CRest, CInSub
  <2>2. CASE u # t
    BY <1>5, <1>6, <2>2 DEF CInner, CRest, CInSub
  <2> QED BY <2>1, <2>2
<1>8. /\ living' = {t} /\ call_rcu_mutex' = NULL /\ default_crd' = NULL /\ call_rcu_data_list' = call_rcu_data_list
      /\ cpu_crd' = cpu_crd /\ thread_crd' = thread_crd /\ completion' = completion
      /\ pending' = pending /\ owed' = owed /\ \A h \in Heads : hold'[h] = {}
  BY <1>1
<1>9. ASSUME NEW c \in Crdps
      PROVE  /\ crd[c].batch = << >> /\ crd[c].wpc \notin CComplete
             /\ crd'[c] \in CCrdp /\ crd'[c].live = crd[c].live /\ crd'[c].flags = crd[c].flags
             /\ crd'[c].q = crd[c].q /\ crd'[c].batch = << >> /\ crd'[c].wpc = "none"
             /\ ~ crd[c].live => crd'[c] = crd[c]
  <2>1. CWorking(c)
    BY DEF CIInv, CWorkers
  <2>2. CASE crd[c].live
    <3>1. crd[c].wpc \in {"paused", "none"}
      BY <1>2, <1>3, <2>1, <2>2 DEF CStopping, CWorking
    <3>2. crd[c].batch = << >> /\ crd[c].wpc \notin CComplete
      BY <2>1, <3>1 DEF CWorking, CBatchPC, CComplete
    <3> DEFINE x == crd[c]
    <3>3. x \in CCrdp /\ crd'[c] = [x EXCEPT !.wpc = "none", !.wpre = {}, !.batch = << >>]
          /\ << >> \in Seq(CItem) /\ "none" \in CWorkerPC
      BY <1>1, <1>2, CrEmpty DEF CWorkerPC
    <3> HIDE DEF x
    <3>4. [x EXCEPT !.wpc = "none", !.wpre = {}, !.batch = << >>] \in CCrdp
      BY ONLY <3>3 DEF CCrdp
    <3>5. /\ crd'[c].live = x.live /\ crd'[c].flags = x.flags
          /\ crd'[c].q = x.q /\ crd'[c].batch = << >> /\ crd'[c].wpc = "none"
      BY ONLY <3>3 DEF CCrdp
    <3> QED BY <2>2, <3>2, <3>3, <3>4, <3>5 DEF x
  <2>3. CASE ~ crd[c].live
    <3>1. crd[c] = Unused
      BY <1>2, <2>3 DEF CList
    <3>2. crd[c].wpc = "none" /\ crd[c].wpre = {} /\ crd[c].batch = << >>
      BY <3>1 DEF Unused
    <3> DEFINE x == crd[c]
    <3>3. /\ x \in CCrdp /\ crd'[c] = [x EXCEPT !.wpc = "none", !.wpre = {}, !.batch = << >>]
          /\ x.wpc = "none" /\ x.wpre = {} /\ x.batch = << >>
      BY <1>1, <1>2, <3>2
    <3> HIDE DEF x
    <3>4. crd'[c] = [x EXCEPT !.wpc = x.wpc, !.wpre = x.wpre, !.batch = x.batch]
      BY ONLY <3>3
    <3>5. [x EXCEPT !.wpc = x.wpc, !.wpre = x.wpre, !.batch = x.batch] = x
      BY ONLY <3>3 DEF CCrdp
    <3>6. crd'[c] = x
      BY <3>4, <3>5
    <3> QED BY <2>3, <3>2, <3>3, <3>6 DEF x, CComplete
  <2> QED BY <2>2, <2>3
<1>10. crd' \in [Crdps -> CCrdp]
  BY <1>1, <1>9
<1>12. CTypeOK'
  <2>1. cforks' \in Nat
    <3>1. cforks \in Nat /\ cforks' = cforks + 1
      BY <1>1, <1>2 DEF CTypeOK
    <3> QED BY ONLY <3>1
  <2>2. hold' \in [Heads -> SUBSET CThreads]
    <3>1. hold' = [h \in Heads |-> {}]
      BY <1>1
    <3> QED BY ONLY <3>1
  <2> QED BY <1>2, <1>6, <1>8, <1>10, <2>1, <2>2 DEF CTypeOK
<1>13. CThreadsPlaced'
  <2>1. ASSUME NEW u \in CThreads PROVE CPlaced(u)'
    <3>1. u \notin living' => cth'[u] = NewThread
      BY <1>1, <1>6
    <3>2. call_rcu_mutex' # u
      BY <1>1, CallRcuAssumption
    <3>3. NewThread' = NewThread
      BY DEF NewThread
    <3> QED BY <1>7, <3>1, <3>2, <3>3 DEF CPlaced
  <2> QED BY <2>1 DEF CThreadsPlaced
<1>14. CList'
  BY <1>2, <1>8, <1>9 DEF CList
<1>15. CRoles'
  <2>1. \A u \in CThreads : ~ CTakes(u)'
    BY <1>7 DEF CTakes
  <2>2. COwns(t)'
    <3>1. COwns(t) /\ thread_crd[t] \in Crdps \cup {NULL}
      BY <1>1, <1>2, CFacts DEF CRoles
    <3> QED BY <1>8, <1>9, <3>1 DEF COwns
  <2>3. cpu_crd' # NULL => crd'[cpu_crd'].live /\ cpu_crd' # default_crd'
    BY <1>2, <1>8, <1>9 DEF CRoles, CTypeOK
  <2> QED BY <1>8, <2>1, <2>2, <2>3 DEF CRoles
<1>16. CChild'
  <2>1. ASSUME NEW u \in CThreads PROVE CChildOf(u)'
    BY <1>7, <1>8, <1>9 DEF CChildOf, CInChild
  <2> QED BY <2>1 DEF CChild
<1>17. CUses' /\ \A u \in CThreads : CStopping(u)'
  BY <1>7 DEF CUses, CUsed, CStopping
<1>18. \A c \in Crdps : CWorking(c)'
  <2>1. ASSUME NEW c \in Crdps PROVE CWorking(c)'
    BY <1>9 DEF CWorking, CComplete
  <2> QED BY <2>1
<1>19. CCallbacks'
  <2>1. \A h \in Heads, c \in Crdps : CIn(h, c)' <=> CIn(h, c)
    BY <1>9 DEF CIn
  <2>2. ASSUME NEW c \in Crdps PROVE CSound(c)'
    <3>1. CSound(c)
      BY <1>2 DEF CCallbacks
    <3> QED BY <1>9, <3>1 DEF CSound, CHeadOnce
  <2>3. \A h \in Heads : h \in pending' <=> \E c \in Crdps : CIn(h, c)'
    BY <1>2, <1>8, <2>1 DEF CCallbacks
  <2>4. \A h \in Heads : \A c, d \in Crdps : CIn(h, c)' /\ CIn(h, d)' => c = d
    BY <1>2, <2>1 DEF CCallbacks
  <2>5. \A u \in CThreads : cth'[u].h = NULL /\ CInner(u)' # "unlink"
    BY <1>7
  <2> QED BY <2>2, <2>3, <2>4, <2>5 DEF CCallbacks
<1>20. CHolds'
  <2>1. \A h \in Heads : hold'[h] = {}
    BY <1>1
  <2> QED BY <2>1 DEF CHolds, CHeldIn
<1>21. ASSUME NEW u \in CThreads PROVE CReferred(u)' /\ CCovers(u)'
  <2>1. CToQueue(u)' = {} /\ CInner(u)' \notin CBarrier
    BY <1>7 DEF CToQueue
  <2>2. ASSUME NEW y \in CTokens(u)' PROVE y \in CTokens(u)
    <3>1. y \in {"todo", "q", "batch"} \X Crdps \X Nat /\ CIsToken(u, y[1], y[2], y[3])'
      BY DEF CTokens
    <3>2. CIsToken(u, y[1], y[2], y[3])
      BY <1>9, <2>1, <3>1 DEF CIsToken
    <3> QED BY <3>1, <3>2 DEF CTokens
  <2>3. u \in living' => u \in living
    BY <1>1
  <2> QED BY <1>2, <1>8, <2>1, <2>2, <2>3, CCarrySub
<1> QED BY <1>12, <1>13, <1>14, <1>15, <1>16, <1>17, <1>18, <1>19, <1>20, <1>21
        DEF CIInv, CWorkers, CRefs, CCover

(* A callback that is before the completion of u in a queue still is when  *)
(* queues are joined.                                                      *)
LEMMA CrBehind ==
    ASSUME NEW T, NEW a \in Seq(T), NEW b \in Seq(T), NEW h, NEW u
    PROVE  /\ CBehind(a, h, u) => CBehind(a \o b, h, u)
           /\ CBehind(b, h, u) => CBehind(a \o b, h, u)
<1> DEFINE c == a \o b
           n == Len(a)
           k == Len(b)
<1>1. /\ n \in Nat /\ k \in Nat /\ DOMAIN a = 1 .. n /\ DOMAIN b = 1 .. k /\ DOMAIN c = 1 .. n + k
      /\ \A i \in 1 .. n : c[i] = a[i]
      /\ \A i \in 1 .. k : c[n + i] = b[i]
  BY CrConcat
<1> HIDE DEF c, n, k
<1>2. ASSUME CBehind(a, h, u) PROVE CBehind(c, h, u)
  <2>1. PICK i, j \in 1 .. n : i < j /\ a[i] = h /\ a[j] = u
    BY <1>1, <1>2 DEF CBehind
  <2>2. i \in DOMAIN c /\ j \in DOMAIN c /\ c[i] = h /\ c[j] = u
    BY <1>1, <2>1
  <2> QED BY <2>1, <2>2 DEF CBehind
<1>3. ASSUME CBehind(b, h, u) PROVE CBehind(c, h, u)
  <2>1. PICK i, j \in 1 .. k : i < j /\ b[i] = h /\ b[j] = u
    BY <1>1, <1>3 DEF CBehind
  <2>2. n + i \in DOMAIN c /\ n + j \in DOMAIN c /\ n + i < n + j
    BY <1>1, <2>1
  <2>3. c[n + i] = h /\ c[n + j] = u
    BY <1>1, <2>1
  <2> QED BY <2>2, <2>3 DEF CBehind
<1> QED BY <1>2, <1>3 DEF c

(* No head is twice in two sequences that share none.                      *)
LEMMA CrHeadOnce ==
    ASSUME NEW T, NEW a \in Seq(T), NEW b \in Seq(T), CHeadOnce(a), CHeadOnce(b),
           \A h \in Heads : ~ (h \in Range(a) /\ h \in Range(b))
    PROVE  CHeadOnce(a \o b)
<1> DEFINE c == a \o b
           n == Len(a)
           k == Len(b)
<1>1. /\ n \in Nat /\ k \in Nat /\ DOMAIN a = 1 .. n /\ DOMAIN b = 1 .. k /\ DOMAIN c = 1 .. n + k
      /\ (\A i \in 1 .. n : c[i] = a[i]) /\ (\A i \in 1 .. k : c[n + i] = b[i])
  BY CrConcat
<1> HIDE DEF c, n, k
<1>2. ASSUME NEW i \in DOMAIN c
      PROVE  \/ i \in DOMAIN a /\ c[i] = a[i]
             \/ i \in Nat /\ i - n \in DOMAIN b /\ c[i] = b[i - n]
  <2>1. CASE i <= n
    BY <1>1, <2>1
  <2>2. CASE i > n
    <3>1. i - n \in 1 .. k /\ n + (i - n) = i /\ i \in Nat
      BY <1>1, <2>2
    <3> QED BY <1>1, <3>1
  <2> QED BY <1>1, <2>1, <2>2
<1>3. ASSUME NEW i \in DOMAIN c, NEW j \in DOMAIN c, c[i] \in Heads, c[i] = c[j] PROVE i = j
  <2>1. CASE i \in DOMAIN a /\ c[i] = a[i] /\ j \in DOMAIN a /\ c[j] = a[j]
    BY <1>3, <2>1 DEF CHeadOnce
  <2>2. CASE /\ i \in Nat /\ i - n \in DOMAIN b /\ c[i] = b[i - n]
             /\ j \in Nat /\ j - n \in DOMAIN b /\ c[j] = b[j - n]
    <3>1. i - n = j - n
      BY <1>3, <2>2 DEF CHeadOnce
    <3> QED BY <1>1, <2>2, <3>1
  <2>3. CASE i \in DOMAIN a /\ c[i] = a[i] /\ j - n \in DOMAIN b /\ c[j] = b[j - n]
    BY <1>3, <2>3 DEF Range
  <2>4. CASE j \in DOMAIN a /\ c[j] = a[j] /\ i - n \in DOMAIN b /\ c[i] = b[i - n]
    BY <1>3, <2>4 DEF Range
  <2> QED BY <1>2, <2>1, <2>2, <2>3, <2>4
<1>4. CHeadOnce(c)
  BY <1>3 DEF CHeadOnce
<1> QED BY <1>4 DEF c

(* What is where then.                                                     *)
LEMMA CMigrated ==
    ASSUME CIInv, NEW f \in Crdps, NEW g \in Crdps, CMigrates(f, g)
    PROVE  /\ crd' \in [Crdps -> CCrdp]
           /\ \A d \in Crdps :
                 /\ crd'[d].live = crd[d].live /\ crd'[d].flags = crd[d].flags /\ crd'[d].wpc = crd[d].wpc
                 /\ crd'[d].wpre = crd[d].wpre /\ crd'[d].batch = crd[d].batch
                 /\ d # f /\ d # g => crd'[d] = crd[d]
           /\ CStill
           /\ \A d \in Crdps : CWorking(d)'
           /\ crd[f].batch = << >> /\ crd'[f].q = << >> /\ crd'[g].q = crd[g].q \o crd[f].q
           /\ crd[f].q \in Seq(CItem) /\ crd[g].q \in Seq(CItem)
           /\ \A h \in Heads, d \in Crdps : CIn(h, d)' <=> d # f /\ (CIn(h, d) \/ (d = g /\ CIn(h, f)))
<1>0. /\ crd \in [Crdps -> CCrdp] /\ crd[f] \in CCrdp /\ crd[g] \in CCrdp /\ f # g
      /\ crd[f].q \in Seq(CItem) /\ crd[g].q \in Seq(CItem) /\ \A d \in Crdps : CWorking(d)
      /\ crd[f].live /\ crd[g].live /\ crd[f].wpc = "none"
      /\ crd' = [crd EXCEPT ![g].q = crd[g].q \o crd[f].q, ![f].q = << >>]
  <2>1. crd \in [Crdps -> CCrdp] /\ \A d \in Crdps : CWorking(d)
    BY DEF CIInv, CTypeOK, CWorkers
  <2> QED BY <2>1 DEF CCrdp, CMigrates
<1>1. crd[f].batch = << >>
  BY <1>0 DEF CWorking, CBatchPC, CComplete
<1>2. /\ crd[g].q \o crd[f].q \in Seq(CItem) /\ << >> \in Seq(CItem)
      /\ Range(crd[g].q \o crd[f].q) = Range(crd[g].q) \cup Range(crd[f].q) /\ Range(<< >>) = {}
  <2> DEFINE a == crd[g].q
             b == crd[f].q
  <2>1. a \in Seq(CItem) /\ b \in Seq(CItem)
    BY <1>0
  <2> HIDE DEF a, b
  <2>2. a \o b \in Seq(CItem) /\ Range(a \o b) = Range(a) \cup Range(b)
    BY ONLY <2>1, CrConcat
  <2> QED BY <2>2, CrEmpty DEF a, b
<1> DEFINE x == crd[g]
           y == crd[f]
           s == crd[g].q \o crd[f].q
           rg == [x EXCEPT !.q = s]
           rf == [y EXCEPT !.q = << >>]
<1>3. crd'[g] = rg /\ crd'[f] = rf /\ \A d \in Crdps : d # f /\ d # g => crd'[d] = crd[d]
  BY <1>0
<1>4. x \in CCrdp /\ y \in CCrdp /\ s \in Seq(CItem) /\ << >> \in Seq(CItem)
  BY <1>0, <1>2
<1>5. /\ rg \in CCrdp /\ rg.live = x.live /\ rg.flags = x.flags /\ rg.wpc = x.wpc /\ rg.wpre = x.wpre
      /\ rg.batch = x.batch /\ rg.q = s
  <2> HIDE DEF x, s
  <2> QED BY ONLY <1>4 DEF CCrdp
<1>6. /\ rf \in CCrdp /\ rf.live = y.live /\ rf.flags = y.flags /\ rf.wpc = y.wpc /\ rf.wpre = y.wpre
      /\ rf.batch = y.batch /\ rf.q = << >>
  <2> HIDE DEF y
  <2> QED BY ONLY <1>4 DEF CCrdp
<1>7. crd' = [crd EXCEPT ![g] = rg, ![f] = rf]
  BY <1>0
<1> HIDE DEF rg, rf
<1>8. crd' \in [Crdps -> CCrdp]
  BY <1>0, <1>5, <1>6, <1>7
<1>9. ASSUME NEW d \in Crdps
      PROVE  /\ crd'[d].live = crd[d].live /\ crd'[d].flags = crd[d].flags /\ crd'[d].wpc = crd[d].wpc
             /\ crd'[d].wpre = crd[d].wpre /\ crd'[d].batch = crd[d].batch
             /\ d # f /\ d # g => crd'[d] = crd[d]
  <2>1. CASE d = f
    BY <1>3, <1>6, <2>1
  <2>2. CASE d = g
    BY <1>3, <1>5, <2>2
  <2> QED BY <1>3, <2>1, <2>2
<1>10. CStill
  BY <1>0, <1>9 DEF CStill
<1>11. ASSUME NEW d \in Crdps PROVE CWorking(d)'
  <2>1. CWorking(d)
    BY <1>0
  <2> QED BY <1>9, <2>1 DEF CWorking
<1>12. crd'[f].q = << >> /\ crd'[g].q = crd[g].q \o crd[f].q
  BY <1>3, <1>5, <1>6
<1>13. ASSUME NEW h \in Heads, NEW d \in Crdps
       PROVE  CIn(h, d)' <=> d # f /\ (CIn(h, d) \/ (d = g /\ CIn(h, f)))
  <2>1. CASE d = f
    BY <1>1, <1>2, <1>9, <1>12, <2>1 DEF CIn
  <2>2. CASE d = g
    <3>1. Range(crd'[g].q) = Range(crd[g].q) \cup Range(crd[f].q) /\ crd'[g].batch = crd[g].batch
      BY <1>2, <1>9, <1>12
    <3>2. Range(crd[f].batch) = {}
      BY <1>1, <1>2
    <3> QED BY <1>0, <2>2, <3>1, <3>2 DEF CIn
  <2>3. CASE d # f /\ d # g
    BY <1>9, <2>3 DEF CIn
  <2> QED BY <2>1, <2>2, <2>3
<1> QED BY <1>0, <1>1, <1>8, <1>9, <1>10, <1>11, <1>12, <1>13

(* The callbacks are each in one place then.                               *)
LEMMA CMigratedSound ==
    ASSUME CIInv, NEW f \in Crdps, NEW g \in Crdps, CMigrates(f, g)
    PROVE  \A d \in Crdps : CSound(d)'
<1>1. /\ crd[f].batch = << >> /\ crd'[f].q = << >> /\ crd'[g].q = crd[g].q \o crd[f].q
      /\ crd[f].q \in Seq(CItem) /\ crd[g].q \in Seq(CItem) /\ f # g
      /\ \A d \in Crdps : crd'[d].batch = crd[d].batch /\ (d # f /\ d # g => crd'[d] = crd[d])
  BY CMigrated DEF CMigrates
<1> SUFFICES ASSUME NEW d \in Crdps PROVE CSound(d)'
  OBVIOUS
<1>0. /\ CSound(d) /\ CSound(f) /\ CSound(g)
      /\ \A h \in Heads : ~ (CIn(h, f) /\ CIn(h, g))
  BY <1>1 DEF CIInv, CCallbacks
<1>2. CASE d # f /\ d # g
  BY <1>0, <1>1, <1>2 DEF CSound, CHeadOnce
<1>3. CASE d = f
  BY <1>1, <1>3, CrEmpty DEF CSound, CHeadOnce
<1>4. CASE d = g
  <2> DEFINE a == crd[g].q
             b == crd[f].q
  <2>1. /\ a \in Seq(CItem) /\ b \in Seq(CItem) /\ CHeadOnce(a) /\ CHeadOnce(b)
        /\ \A h \in Heads : ~ (h \in Range(a) /\ h \in Range(b))
    BY <1>0, <1>1 DEF CSound, CIn
  <2>2. /\ \A h \in Heads : h \in Range(a) => h \notin Range(crd[g].batch)
        /\ \A h \in Heads : h \in Range(b) => h \notin Range(crd[g].batch)
        /\ CHeadOnce(crd[g].batch)
    BY <1>0 DEF CSound, CIn
  <2>3. crd'[g].q = a \o b /\ crd'[g].batch = crd[g].batch
    BY <1>1, <1>4
  <2> HIDE DEF a, b
  <2>4. CHeadOnce(a \o b)
    BY ONLY <2>1, CrHeadOnce
  <2>5. Range(a \o b) = Range(a) \cup Range(b)
    BY ONLY <2>1, CrConcat
  <2> QED BY <1>4, <2>2, <2>3, <2>4, <2>5 DEF CSound
<1> QED BY <1>2, <1>3, <1>4

(* The queues and the batches then, in short.                              *)
LEMMA CMigratedQueues ==
    ASSUME CIInv, NEW f \in Crdps, NEW g \in Crdps, CMigrates(f, g)
    PROVE  /\ crd[f].batch = << >> /\ crd'[f].q = << >> /\ crd'[g].q = crd[g].q \o crd[f].q
           /\ crd[f].q \in Seq(CItem) /\ crd[g].q \in Seq(CItem) /\ f # g
           /\ \A d \in Crdps : crd'[d].batch = crd[d].batch /\ (d # f /\ d # g => crd'[d] = crd[d])
           /\ \A h \in Heads, d \in Crdps : d # f /\ CIn(h, d) => CIn(h, d)'
<1>0. CIInv /\ CMigrates(f, g)
  OBVIOUS
<1>1. f # g
  BY DEF CMigrates
<1>2. /\ crd' \in [Crdps -> CCrdp]
      /\ \A d \in Crdps :
            /\ crd'[d].live = crd[d].live /\ crd'[d].flags = crd[d].flags /\ crd'[d].wpc = crd[d].wpc
            /\ crd'[d].wpre = crd[d].wpre /\ crd'[d].batch = crd[d].batch
            /\ d # f /\ d # g => crd'[d] = crd[d]
      /\ CStill
      /\ \A d \in Crdps : CWorking(d)'
      /\ crd[f].batch = << >> /\ crd'[f].q = << >> /\ crd'[g].q = crd[g].q \o crd[f].q
      /\ crd[f].q \in Seq(CItem) /\ crd[g].q \in Seq(CItem)
      /\ \A k \in Heads, d \in Crdps : CIn(k, d)' <=> d # f /\ (CIn(k, d) \/ (d = g /\ CIn(k, f)))
  BY ONLY <1>0, f \in Crdps, g \in Crdps, CMigrated
<1> QED BY <1>1, <1>2

(* The completions that wait in g then: those of g, and those of f.        *)
LEMMA CMigratedTokens ==
    ASSUME CIInv, NEW f \in Crdps, NEW g \in Crdps, CMigrates(f, g),
           NEW u \in CThreads, CToQueue(u)' = CToQueue(u), NEW y \in CTokens(u)'
    PROVE  /\ y \in {"todo", "q", "batch"} \X Crdps \X Nat /\ Len(crd[g].q) \in Nat
           /\ ~ (y[1] = "q" /\ y[2] = f)
           /\ y[1] = "q" /\ y[2] = g /\ y[3] > Len(crd[g].q) =>
                 <<"q", f, y[3] - Len(crd[g].q)>> \in CTokens(u)
           /\ ~ (y[1] = "q" /\ y[2] = g /\ y[3] > Len(crd[g].q)) => y \in CTokens(u)
<1> DEFINE a == crd[g].q
           b == crd[f].q
           c == crd[g].q \o crd[f].q
           n == Len(crd[g].q)
           k == Len(crd[f].q)
<1>0. /\ crd[f].batch = << >> /\ crd'[f].q = << >> /\ crd'[g].q = c
      /\ crd[f].q \in Seq(CItem) /\ crd[g].q \in Seq(CItem) /\ f # g
      /\ \A d \in Crdps : crd'[d].batch = crd[d].batch /\ (d # f /\ d # g => crd'[d] = crd[d])
  BY CMigratedQueues
<1>1. /\ n \in Nat /\ k \in Nat /\ DOMAIN a = 1 .. n /\ DOMAIN b = 1 .. k /\ DOMAIN c = 1 .. n + k
      /\ (\A i \in 1 .. n : c[i] = a[i]) /\ (\A i \in 1 .. k : c[n + i] = b[i])
  <2>1. a \in Seq(CItem) /\ b \in Seq(CItem)
    BY <1>0
  <2> HIDE DEF a, b
  <2>2. /\ Len(a) \in Nat /\ Len(b) \in Nat /\ DOMAIN a = 1 .. Len(a) /\ DOMAIN b = 1 .. Len(b)
        /\ DOMAIN (a \o b) = 1 .. Len(a) + Len(b)
        /\ (\A i \in 1 .. Len(a) : (a \o b)[i] = a[i])
        /\ (\A i \in 1 .. Len(b) : (a \o b)[Len(a) + i] = b[i])
    BY ONLY <2>1, CrConcat
  <2> QED BY <2>2 DEF a, b
<1>2. y \in {"todo", "q", "batch"} \X Crdps \X Nat /\ CIsToken(u, y[1], y[2], y[3])'
  BY DEF CTokens
<1>a. crd[g].q = a /\ crd[f].q = b /\ crd'[g].q = c /\ Len(crd[g].q) = n /\ DOMAIN << >> = {}
  BY <1>0
<1> HIDE DEF a, b, c, n, k
<1>3. ~ (y[1] = "q" /\ y[2] = f)
  BY <1>0, <1>2, <1>a DEF CIsToken
<1>4. ASSUME y[1] = "q", y[2] = g, y[3] > n PROVE <<"q", f, y[3] - n>> \in CTokens(u)
  <2>1. y[3] \in 1 .. n + k /\ c[y[3]] = u
    BY <1>1, <1>2, <1>4, <1>a DEF CIsToken
  <2>2. y[3] - n \in 1 .. k /\ n + (y[3] - n) = y[3] /\ y[3] - n \in Nat
    BY <1>1, <1>4, <2>1
  <2>3. b[y[3] - n] = u
    BY <1>1, <2>1, <2>2
  <2>4. CIsToken(u, "q", f, y[3] - n)
    BY <1>1, <1>a, <2>2, <2>3 DEF CIsToken
  <2> QED BY <2>2, <2>4 DEF CTokens
<1>5. ASSUME ~ (y[1] = "q" /\ y[2] = g /\ y[3] > n) PROVE y \in CTokens(u)
  <2>1. CASE y[1] = "q" /\ y[2] = g
    <3>1. y[3] \in 1 .. n /\ c[y[3]] = u
      BY <1>1, <1>2, <1>5, <1>a, <2>1 DEF CIsToken
    <3>2. CIsToken(u, y[1], y[2], y[3])
      BY <1>1, <1>a, <2>1, <3>1 DEF CIsToken
    <3> QED BY <1>2, <3>2 DEF CTokens
  <2>2. CASE ~ (y[1] = "q" /\ y[2] = g)
    <3>1. CIsToken(u, y[1], y[2], y[3])
      BY <1>0, <1>2, <1>3, <2>2 DEF CIsToken
    <3> QED BY <1>2, <3>1 DEF CTokens
  <2> QED BY <2>1, <2>2
<1> QED BY <1>1, <1>2, <1>3, <1>4, <1>5, <1>a

(* What a barrier waits for is still before its completion, unless that    *)
(* was to be queued on f yet.                                              *)
LEMMA CMigratedCover ==
    ASSUME CIInv, NEW f \in Crdps, NEW g \in Crdps, CMigrates(f, g),
           NEW u \in CThreads, CToQueue(u)' = CToQueue(u), f \notin CToQueue(u),
           NEW h \in Heads, CCovered(u, h)
    PROVE  CCovered(u, h)'
<1>0. /\ crd[f].batch = << >> /\ crd'[f].q = << >> /\ crd'[g].q = crd[g].q \o crd[f].q
      /\ crd[f].q \in Seq(CItem) /\ crd[g].q \in Seq(CItem) /\ f # g
      /\ \A d \in Crdps : crd'[d].batch = crd[d].batch /\ (d # f /\ d # g => crd'[d] = crd[d])
      /\ \A d \in Crdps : d # f /\ CIn(h, d) => CIn(h, d)'
  BY CMigratedQueues
<1>1. PICK d \in Crdps : CCoveredIn(u, h, d)
  BY DEF CCovered
<1>2. /\ CBehind(crd[g].q, h, u) => CBehind(crd'[g].q, h, u)
      /\ CBehind(crd[f].q, h, u) => CBehind(crd'[g].q, h, u)
      /\ Range(crd[g].q) \subseteq Range(crd'[g].q)
  <2> DEFINE a == crd[g].q
             b == crd[f].q
  <2>1. a \in Seq(CItem) /\ b \in Seq(CItem) /\ crd'[g].q = a \o b
    BY <1>0
  <2> HIDE DEF a, b
  <2>2. /\ CBehind(a, h, u) => CBehind(a \o b, h, u)
        /\ CBehind(b, h, u) => CBehind(a \o b, h, u)
    BY ONLY <2>1, CrBehind
  <2>3. Range(a \o b) = Range(a) \cup Range(b)
    BY ONLY <2>1, CrConcat
  <2> QED BY <2>1, <2>2, <2>3 DEF a, b
<1>3. CASE d # f /\ d # g
  <2>1. CCoveredIn(u, h, d)'
    BY <1>0, <1>1, <1>3 DEF CCoveredIn, CBehind
  <2> QED BY <2>1 DEF CCovered
<1>4. CASE d = g
  <2>1. CBehind(crd[g].batch, h, u) => CBehind(crd'[g].batch, h, u)
    BY <1>0
  <2>2. CCoveredIn(u, h, g)'
    <3>1. CASE CIn(h, g) /\ g \in CToQueue(u)
      BY <1>0, <3>1 DEF CCoveredIn
    <3>2. CASE h \in Range(crd[g].batch) /\ u \in Range(crd[g].q)
      BY <1>0, <1>2, <3>2 DEF CCoveredIn
    <3>3. CASE CBehind(crd[g].q, h, u) \/ CBehind(crd[g].batch, h, u)
      <4>1. CBehind(crd'[g].q, h, u) \/ CBehind(crd'[g].batch, h, u)
        BY <1>2, <2>1, <3>3
      <4> QED BY <4>1 DEF CCoveredIn, CBehind
    <3> QED BY <1>1, <1>4, <3>1, <3>2, <3>3 DEF CCoveredIn
  <2> QED BY <2>2 DEF CCovered
<1>5. CASE d = f
  <2>1. h \notin Range(crd[f].batch) /\ ~ CBehind(crd[f].batch, h, u)
    BY <1>0, CrEmpty DEF CBehind
  <2>2. CBehind(crd'[g].q, h, u)
    BY <1>1, <1>2, <1>5, <2>1 DEF CCoveredIn
  <2>3. CCoveredIn(u, h, g)'
    BY <2>2 DEF CCoveredIn, CBehind
  <2> QED BY <2>3 DEF CCovered
<1> QED BY <1>3, <1>4, <1>5

(* call_rcu_data_free() hands over the callbacks that the worker left.     *)
LEMMA CMigrate ==
    ASSUME CIInv, NEW t \in CThreads, MigrateCallbacks(t)
    PROVE  CIInv'
<1> DEFINE r == [cth[t] EXCEPT !.pc = "wake", !.ret = <<"unlink">> \o cth[t].ret]
<1> USE DEF CWaking, CCalling, CTaking, CFreeing, CBarrier, CForking
<1>1. /\ t \in living /\ cth[t].pc = "migrate"
      /\ cth' = [cth EXCEPT ![t] = r]
      /\ crd' = [crd EXCEPT ![default_crd].q = crd[default_crd].q \o crd[cth[t].f].q, ![cth[t].f].q = << >>]
      /\ UNCHANGED <<cpointers, call_rcu_mutex, completion, cprocess, cghosts>>
  BY DEF MigrateCallbacks, cat, thread, Enter
<1>2. /\ CTypeOK /\ cth[t] \in CThread /\ crd \in [Crdps -> CCrdp] /\ CHolds /\ CCallbacks /\ CRoles
      /\ CPlaced(t) /\ CUsed(t) /\ CStopping(t) /\ CChildOf(t) /\ CList
      /\ cth[t].ret \in Seq(CInnerPC) /\ cth[t].nest \in Nat /\ cth[t].todo \in Seq(Crdps)
      /\ Range(cth[t].todo) \subseteq Crdps /\ default_crd \in Crdps \cup {NULL}
      /\ completion \in [CThreads -> CCompletion]
  <2>1. CHolds /\ CCallbacks /\ CRoles
    BY DEF CIInv
  <2> QED BY <2>1, CFacts
<1>3. CInner(t) = "migrate" /\ CRest(t) = cth[t].ret /\ CTakes(t)
  BY <1>1, <1>2 DEF CInner, CRest, CInSub, CTakes
<1>a. PICK f \in Crdps : f = cth[t].f
  BY <1>3, CFacts
<1>b. default_crd # NULL /\ cth[t].w = default_crd
  BY <1>1, <1>2 DEF CUsed
<1>c. PICK g \in Crdps : g = default_crd
  BY <1>2, <1>b
<1>d. /\ CMigrates(f, g) /\ f # g /\ crd[g].live /\ crd[f].wpc = "none"
      /\ \A u \in CThreads : CTakes(u) => cth[u].f # g
      /\ \A u \in CThreads : u # t /\ CTakes(u) => cth[u].f # f
  <2>1. CHasTaken(t) /\ \A u \in CThreads : CTakes(u) => CHasTaken(u)
    BY <1>2, <1>3 DEF CRoles
  <2>2. f # g /\ crd[f].live /\ crd[g].live
    BY <1>2, <1>a, <1>b, <1>c, <2>1 DEF CRoles, CHasTaken
  <2>3. crd[f].wpc = "none"
    BY <1>2, <1>3, <1>a DEF CStopping
  <2>4. crd' = [crd EXCEPT ![g].q = crd[g].q \o crd[f].q, ![f].q = << >>]
    BY <1>1, <1>a, <1>c
  <2> QED BY <1>a, <1>c, <2>1, <2>2, <2>3, <2>4 DEF CMigrates, CHasTaken
<1>e. /\ <<"unlink">> \o cth[t].ret \in Seq(CInnerPC) /\ <<"unlink">> \o cth[t].ret # << >>
      /\ Head(<<"unlink">> \o cth[t].ret) = "unlink" /\ Tail(<<"unlink">> \o cth[t].ret) = cth[t].ret
  BY <1>2, CrCons DEF CInnerPC
<1>4. /\ r \in CThread
      /\ r.pc = "wake" /\ r.ret = <<"unlink">> \o cth[t].ret /\ r.nest = cth[t].nest /\ r.h = cth[t].h
      /\ r.w = cth[t].w /\ r.f = cth[t].f /\ r.todo = cth[t].todo /\ r.tpre = cth[t].tpre
  <2> DEFINE x == cth[t]
             e == <<"unlink">> \o cth[t].ret
  <2>1. x \in CThread /\ e \in Seq(CInnerPC) /\ "wake" \in CThreadPC
        /\ r = [x EXCEPT !.pc = "wake", !.ret = e]
    BY <1>2, <1>e DEF CThreadPC
  <2> HIDE DEF x, e, r
  <2>2. /\ r \in CThread
        /\ r.pc = "wake" /\ r.ret = e /\ r.nest = x.nest /\ r.h = x.h
        /\ r.w = x.w /\ r.f = x.f /\ r.todo = x.todo /\ r.tpre = x.tpre
    BY ONLY <2>1 DEF CThread
  <2> QED BY <2>2 DEF x, e
<1> HIDE DEF r
<1>6. cth'[t] = r /\ \A u \in CThreads : u # t => cth'[u] = cth[u]
  BY <1>1, <1>2, CSetThread
<1>7. CInner(t)' = "unlink" /\ CRest(t)' = CRest(t)
  BY <1>3, <1>4, <1>6, <1>e DEF CInner, CRest, CInSub
<1>8. UNCHANGED <<call_rcu_data_list, default_crd, cpu_crd, thread_crd, living, cforks, pending, hold, owed,
                 call_rcu_mutex>>
  BY <1>1 DEF cpointers, cprocess, cghosts
<1>10. /\ crd' \in [Crdps -> CCrdp]
       /\ \A d \in Crdps :
             /\ crd'[d].live = crd[d].live /\ crd'[d].flags = crd[d].flags /\ crd'[d].wpc = crd[d].wpc
             /\ crd'[d].wpre = crd[d].wpre /\ crd'[d].batch = crd[d].batch
             /\ d # f /\ d # g => crd'[d] = crd[d]
       /\ CStill
       /\ \A d \in Crdps : CWorking(d)'
       /\ crd[f].batch = << >> /\ crd'[f].q = << >> /\ crd'[g].q = crd[g].q \o crd[f].q
       /\ \A h \in Heads, d \in Crdps : CIn(h, d)' <=> d # f /\ (CIn(h, d) \/ (d = g /\ CIn(h, f)))
  <2>1. CIInv /\ CMigrates(f, g)
    BY <1>d
  <2> QED BY ONLY <2>1, f \in Crdps, g \in Crdps, CMigrated
<1>12. CTypeOK'
  <2>1. cth' \in [CThreads -> CThread]
    BY <1>1, <1>2, <1>4 DEF CTypeOK
  <2>2. crd' \in [Crdps -> CCrdp] /\ completion' = completion
    BY <1>1, <1>10
  <2> QED BY <1>2, <1>8, <2>1, <2>2 DEF CTypeOK
<1>13. ASSUME NEW u \in CThreads
       PROVE  /\ u # t => CInner(u)' = CInner(u)
              /\ CTakes(u)' = CTakes(u) /\ cth'[u].f = cth[u].f
              /\ CToQueue(u)' = CToQueue(u)
  <2>1. CASE u = t
    BY <1>3, <1>4, <1>6, <1>7, <2>1 DEF CTakes, CToQueue
  <2>2. CASE u # t
    BY <1>6, <2>2 DEF CTakes, CToQueue, CInner, CInSub
  <2> QED BY <2>1, <2>2
<1>15. CCallbacks'
  <2>1. \A d \in Crdps : CSound(d)'
    BY <1>d, CMigratedSound
  <2>2. \A h \in Heads : h \in pending' <=> \E d \in Crdps : CIn(h, d)'
    BY <1>2, <1>8, <1>10, <1>d DEF CCallbacks
  <2>3. \A h \in Heads : \A d, e \in Crdps : CIn(h, d)' /\ CIn(h, e)' => d = e
    BY <1>2, <1>10, <1>d DEF CCallbacks
  <2>4. \A u \in CThreads : cth'[u].h = cth[u].h
    BY <1>4, <1>6
  <2>5. ASSUME NEW u \in CThreads, CInner(u)' = "unlink"
        PROVE  \A h \in Heads : h \notin Range(crd'[cth'[u].f].q)
    <3>1. CASE u = t
      BY <1>10, <1>13, <1>a, <3>1, CrEmpty
    <3>2. CASE u # t
      <4>1. CInner(u) = "unlink" /\ cth'[u].f = cth[u].f /\ CTakes(u)
        BY <1>13, <2>5, <3>2 DEF CTakes
      <4>2. cth[u].f \in Crdps /\ cth[u].f # f /\ cth[u].f # g
        BY <1>d, <3>2, <4>1, CFacts
      <4> QED BY <1>2, <1>10, <4>1, <4>2 DEF CCallbacks
    <3> QED BY <3>1, <3>2
  <2>6. \A u \in CThreads : cth'[u].h # NULL =>
          cth'[u].h \notin pending' /\ \A v \in CThreads : v # u => cth'[v].h # cth'[u].h
    BY <1>2, <1>8, <2>4 DEF CCallbacks
  <2> QED BY <2>1, <2>2, <2>3, <2>5, <2>6 DEF CCallbacks
<1>16. CHolds'
  <2>1. Reading' = Reading
    <3>1. \A u \in CThreads : cth'[u].nest = cth[u].nest
      BY <1>4, <1>6
    <3> QED BY <1>2, <1>8, <3>1 DEF Reading, CTypeOK
  <2>2. \A d \in Crdps : CHeldIn(d)'
    BY <1>2, <1>8, <1>10 DEF CHolds, CHeldIn
  <2> QED BY <1>2, <1>8, <2>1, <2>2 DEF CHolds
<1>17. CDoomed(f)' /\ ~ CDoomed(f) /\ \A d \in Crdps : CDoomed(d) => CDoomed(d)'
  <2>1. CDoomed(f)'
    BY <1>7, <1>13, <1>a DEF CDoomed
  <2>2. ~ CDoomed(f)
    BY <1>3, <1>d DEF CDoomed, CTakes
  <2>3. ASSUME NEW d \in Crdps, CDoomed(d) PROVE CDoomed(d)'
    BY <1>3, <1>13, <2>3 DEF CDoomed
  <2> QED BY <2>1, <2>2, <2>3
<1>18. ASSUME NEW u \in CThreads
       PROVE  /\ CCovers(u) /\ owed[u] \subseteq Heads
              /\ CInner(u)' \in CBarrier =>
                   /\ CInner(u) \in CBarrier
                   /\ owed'[u] \subseteq owed[u] /\ owed'[u] \subseteq pending'
                   /\ cth'[u].pc = "bar_return" => owed'[u] = {}
  <2>1. CCovers(u) /\ owed[u] \subseteq Heads
    BY <1>2 DEF CIInv, CCover, CTypeOK
  <2>2. CASE u = t
    BY <1>7, <2>1, <2>2
  <2>3. CASE u # t
    BY <1>6, <1>8, <1>13, <2>1, <2>3 DEF CCovers
  <2> QED BY <2>2, <2>3
<1>20. ASSUME NEW u \in CThreads PROVE CReferred(u)' /\ CCovers(u)'
  <2> DEFINE Moved(y) == y[1] = "q" /\ y[2] = g /\ y[3] > Len(crd[g].q)
             m == [y \in CTokens(u)' |-> IF Moved(y) THEN <<"q", f, y[3] - Len(crd[g].q)>> ELSE y]
  <2>0. PICK n : n = Len(crd[g].q)
    OBVIOUS
  <2>1. ASSUME NEW y \in CTokens(u)'
        PROVE  /\ y \in {"todo", "q", "batch"} \X Crdps \X Nat /\ n \in Nat
               /\ ~ (y[1] = "q" /\ y[2] = f)
               /\ y[1] = "q" /\ y[2] = g /\ y[3] > n => <<"q", f, y[3] - n>> \in CTokens(u)
               /\ ~ (y[1] = "q" /\ y[2] = g /\ y[3] > n) => y \in CTokens(u)
    BY <1>13, <1>d, <2>0, CMigratedTokens
  <2>3. /\ m \in [CTokens(u)' -> CTokens(u)]
        /\ \A y \in CTokens(u)' : m[y] = IF y[1] = "q" /\ y[2] = g /\ y[3] > n THEN <<"q", f, y[3] - n>> ELSE y
    BY <2>0, <2>1
  <2> HIDE DEF m
  <2>4. ASSUME NEW x \in CTokens(u)', NEW y \in CTokens(u)', m[x] = m[y] PROVE x = y
    <3>1. /\ x \in {"todo", "q", "batch"} \X Crdps \X Nat /\ y \in {"todo", "q", "batch"} \X Crdps \X Nat /\ n \in Nat
          /\ ~ (x[1] = "q" /\ x[2] = f) /\ ~ (y[1] = "q" /\ y[2] = f)
      BY <2>1
    <3>2. CASE Moved(x) /\ Moved(y)
      <4>1. <<"q", f, x[3] - n>> = <<"q", f, y[3] - n>>
        BY <2>0, <2>3, <2>4, <3>2
      <4>2. \A i, j : <<"q", f, i>> = <<"q", f, j>> => i = j
        OBVIOUS
      <4>3. x[3] - n = y[3] - n /\ x[3] \in Nat /\ y[3] \in Nat
        BY <3>1, <4>1, <4>2
      <4>4. x[3] = y[3]
        BY <3>1, <4>3
      <4> QED BY <3>1, <3>2, <4>4
    <3>3. CASE ~ Moved(x) /\ ~ Moved(y)
      BY <2>0, <2>3, <2>4, <3>3
    <3>4. ASSUME NEW a \in CTokens(u)', NEW b \in CTokens(u)', Moved(a), ~ Moved(b) PROVE m[a] # m[b]
      <4>1. m[a] = <<"q", f, a[3] - n>> /\ m[b] = b /\ ~ (b[1] = "q" /\ b[2] = f)
        BY <2>0, <2>1, <2>3, <3>4
      <4> QED BY <4>1
    <3> QED BY <2>4, <3>2, <3>3, <3>4
  <2>5. ASSUME NEW x \in CWaited(u)'
        PROVE  m[x] \in CWaited(u) /\ (m[x] = x \/ m[x][1] = "q") /\ (m[x] = x /\ x[1] = "todo" => x[2] # f)
    <3>1. x \in CTokens(u)' /\ CCounts(x[1], x[2], x[3])'
      BY DEF CWaited
    <3>2. CASE Moved(x)
      <4>1. m[x] = <<"q", f, x[3] - n>> /\ m[x] \in CTokens(u)
        BY <2>0, <2>3, <3>1, <3>2
      <4>2. CCounts("q", f, x[3] - n)
        BY <1>17 DEF CCounts
      <4> QED BY <3>2, <4>1, <4>2 DEF CWaited
    <3>3. CASE ~ Moved(x)
      <4>1. m[x] = x /\ x \in CTokens(u) /\ x[2] \in Crdps
        BY <2>0, <2>1, <2>3, <3>1, <3>3
      <4>2. CCounts(x[1], x[2], x[3])
        BY <1>10, <1>17, <3>1, <4>1 DEF CCounts
      <4>3. x[1] = "todo" => x[2] # f
        BY <1>17, <3>1 DEF CCounts
      <4> QED BY <4>1, <4>2, <4>3 DEF CWaited
    <3> QED BY <3>2, <3>3
  <2>6. CASE f \in CToQueue(u)
    <3>1. <<"todo", f, 0>> \in CTokens(u)
      BY <2>6 DEF CTokens, CIsToken
    <3>2. CCounts("todo", f, 0)
      BY <1>17 DEF CCounts
    <3>3. <<"todo", f, 0>> \in CWaited(u)
      BY <3>1, <3>2 DEF CWaited
    <3>4. \A x \in CWaited(u)' : m[x] # <<"todo", f, 0>>
      BY <2>5
    <3>5. \E y \in CWaited(u) : \A x \in CWaited(u)' : m[x] # y
      BY <3>3, <3>4
    <3>6. /\ \A x \in CWaited(u)' : m[x] \in CWaited(u)
          /\ \A x, y \in CTokens(u)' : m[x] = m[y] => x = y
          /\ m \in [CTokens(u)' -> CTokens(u)] /\ completion' = completion /\ living' = living
          /\ completion' \in [CThreads -> CCompletion]
      BY <1>1, <1>2, <1>8, <2>3, <2>4, <2>5
    <3> QED BY <1>18, <3>5, <3>6, CCarry
  <2>7. CASE f \notin CToQueue(u)
    <3>1. \A h \in owed'[u] : CCovered(u, h) => CCovered(u, h)'
      BY <1>8, <1>13, <1>18, <1>d, <2>7, CMigratedCover
    <3> QED BY <1>1, <1>2, <1>8, <1>18, <2>3, <2>4, <2>5, <3>1, CCarry
  <2> QED BY <2>6, <2>7
<1>21. CList' /\ CRoles'
  BY <1>8, <1>10, <1>13, CQuietRoles
<1>22. CPlaced(t)'
  BY <1>1, <1>2, <1>3, <1>4, <1>6, <1>7, <1>8, <1>e DEF CPlaced
<1>23. CUsed(t)'
  <2>1. cth'[t].pc = "wake" /\ cth'[t].w = g /\ default_crd' = g /\ crd'[g].live /\ g # NULL
    BY <1>4, <1>6, <1>8, <1>10, <1>b, <1>c, <1>d
  <2> QED BY <1>7, <2>1 DEF CUsed
<1>24. CStopping(t)' /\ CWaits(t)
  BY <1>3, <1>7, <1>10, <1>13, <1>a, <1>d DEF CStopping, CWaits
<1>25. CChildOf(t)'
  <2>1. CInChild(t)' <=> CInChild(t)
    BY <1>3, <1>7 DEF CInChild
  <2>2. cth'[t].todo = cth[t].todo /\ cth'[t].f = cth[t].f
    BY <1>4, <1>6
  <2> QED BY <1>2, <1>3, <1>7, <1>8, <1>10, <1>b, <2>1, <2>2 DEF CChildOf
<1>26. CRefs' /\ CCover'
  BY <1>20 DEF CRefs, CCover
<1>27. ASSUME NEW u \in CThreads, u # t
       PROVE  /\ cth'[u] = cth[u] /\ thread_crd'[u] = thread_crd[u]
              /\ call_rcu_mutex' = u <=> call_rcu_mutex = u
              /\ CFlagsKept(u)
              /\ \A d \in Crdps : crd[d].live => crd'[d].live /\ (crd[d].wpc = "none" => crd'[d].wpc = "none")
              /\ \A d \in Crdps : crd'[d].live => crd[d].live
  <2>1. CFlagsKept(u)
    BY <1>10 DEF CFlagsKept
  <2>2. /\ \A d \in Crdps : crd[d].live => crd'[d].live /\ (crd[d].wpc = "none" => crd'[d].wpc = "none")
        /\ \A d \in Crdps : crd'[d].live => crd[d].live
    BY <1>10
  <2>3. cth'[u] = cth[u] /\ thread_crd'[u] = thread_crd[u] /\ (call_rcu_mutex' = u <=> call_rcu_mutex = u)
    BY <1>6, <1>8, <1>27
  <2> QED BY <2>1, <2>2, <2>3
<1>28. \A d \in Crdps : CWorking(d)'
  BY <1>10
<1> QED BY <1>1, <1>8, <1>12, <1>15, <1>16, <1>21, <1>22, <1>23, <1>24, <1>25, <1>26, <1>27, <1>28, CAssemble

-----------------------------------------------------------------------------
(* The crdp that free_all_cpu_call_rcu_data() has read stays the CPU's.    *)

LEMMA CSettingKept ==
    ASSUME CSetting, calls' = calls, cpu_crd' = cpu_crd, \A u \in CThreads : CNoSetting(u)
    PROVE  CSetting'
  BY DEF CSetting, CNoSetting

LEMMA CSettingMoved ==
    ASSUME CSetting, calls' = calls, cpu_crd' = cpu_crd, NEW t \in CThreads, CAway(t)
    PROVE  CSetting'
<1>1. \A u \in CThreads : CNoSetting(u)
  BY DEF CNoSetting, CAway
<1> QED BY <1>1, CSettingKept

(* Workers move a thread only in a barrier.                                *)
LEMMA CSettingWorker ==
    ASSUME CIInv, CSetting, NEW c \in Crdps, CWorkerStep(c)
    PROVE  CSetting'
<1>1. CASE CompletionWakeFutex(c)
  <2>0. cth \in [CThreads -> CThread]
    BY DEF CIInv, CTypeOK
  <2>1. /\ UNCHANGED <<cpointers, cprocess>>
        /\ cth' = [cth EXCEPT ![Head(crd[c].batch)] =
                     IF cat(Head(crd[c].batch), "bar_asleep") THEN At(cth[Head(crd[c].batch)], "bar_dec")
                     ELSE cth[Head(crd[c].batch)]]
    BY <1>1 DEF CompletionWakeFutex, thread
  <2>2. ASSUME NEW u \in CThreads
        PROVE  cth'[u] = cth[u] \/ cth'[u] = [cth[u] EXCEPT !.pc = "bar_dec"]
    BY <2>0, <2>1 DEF At
  <2>3. \A u \in CThreads : CNoSetting(u)
    BY <2>0, <2>2 DEF CNoSetting, CThread
  <2> QED BY <2>1, <2>3, CSettingKept DEF cpointers, cprocess
<1>2. CASE ~ CompletionWakeFutex(c)
  <2>1. UNCHANGED <<cpointers, cth, cprocess>>
    BY <1>2 DEF CWorkerStep, wquiet, call_rcu_thread, CPause, CResume, CSplice, CSynchronize,
                CGracePeriodEnds, CRunCallback, _rcu_barrier_complete, call_rcu_completion_wake_up,
                CompletionWakeSet, CompletionPut, CBatchDone, CStopTest, call_rcu_wait, CFutexWait,
                CDecrement, CStop, CStopped
  <2> QED BY <2>1, CSettingKept DEF cpointers, cprocess, CNoSetting
<1> QED BY <1>1, <1>2

(* Where a function may return to.                                         *)
LEMMA CSettingBack ==
    ASSUME CIInv, NEW t \in CThreads,
           cth[t].pc \in CWaking \cup {"default", "unlink"}
    PROVE  Head(cth[t].ret) # "free_set"
<1>1. CPlaced(t)
  BY DEF CIInv, CThreadsPlaced
<1>2. CASE cth[t].pc = "unlink"
  <2>1. cth[t].ret \in {<<"idle">>, <<"child_free">>}
    BY <1>1, <1>2 DEF CPlaced, CInner, CRest, CInSub, CWaking, CFreeing
  <2> QED BY <2>1
<1>3. CASE cth[t].pc \in CWaking \cup {"default"}
  BY <1>1, <1>3 DEF CPlaced
<1> QED BY <1>2, <1>3

(* A section ends.                                                         *)
LEMMA CSettingUnlock ==
    ASSUME CIInv, CSetting, calls' = calls, cpu_crd' = cpu_crd, NEW t \in CThreads,
           NEW r \in CThread, r.pc # "free_set", Unlock(t, r)
    PROVE  CSetting'
<1>0. cth \in [CThreads -> CThread]
  BY DEF CIInv, CTypeOK
<1>1. CASE r.nest > 1
  <2>1. cth' = [cth EXCEPT ![t] = [r EXCEPT !.nest = @ - 1]]
    BY <1>1 DEF Unlock, thread
  <2>2. [r EXCEPT !.nest = @ - 1].pc # "free_set"
    BY DEF CThread
  <2>3. CAway(t)
    BY <1>0, <2>1, <2>2 DEF CAway
  <2> QED BY <2>3, CSettingMoved
<1>2. CASE ~ (r.nest > 1)
  <2>1. cth' = [u \in CThreads |-> IF u = t THEN [r EXCEPT !.nest = 0]
                                   ELSE [cth[u] EXCEPT !.tpre = @ \ {t}]]
    BY <1>2 DEF Unlock
  <2>2. cth'[t].pc # "free_set"
    BY <2>1 DEF CThread
  <2>3. \A u \in CThreads : u # t => cth'[u].pc = cth[u].pc /\ cth'[u].f = cth[u].f
    BY <1>0, <2>1 DEF CThread
  <2>4. \A u \in CThreads : CNoSetting(u)
    BY <2>2, <2>3 DEF CNoSetting
  <2> QED BY <2>4, CSettingKept
<1> QED BY <1>1, <1>2

(* Threads: only one that may free comes there, and no other takes the     *)
(* crdp of the CPU away meanwhile.                                         *)
LEMMA CSettingThread ==
    ASSUME CIInv, CSetting, NEW t \in CThreads, CThreadStep(t)
    PROVE  CSetting'
<1> USE DEF CWaking
<1>0. /\ cth \in [CThreads -> CThread] /\ cth[t] \in CThread /\ living \subseteq CThreads
      /\ CPlaced(t) /\ CChildOf(t) /\ \A u \in CThreads : CPlaced(u)
  BY DEF CIInv, CTypeOK, CThreadsPlaced, CChild
<1>b. cth[t].pc \in CWaking \cup {"default", "unlink"} => Back(cth[t]).pc # "free_set"
  <2>1. Back(cth[t]).pc = Head(cth[t].ret)
    BY <1>0 DEF Back, CThread
  <2> QED BY <2>1, CSettingBack
<1>1. CASE \/ get_call_rcu_data(t) \/ _call_rcu(t) \/ CWakeSet(t) \/ FreeSynchronize(t)
           \/ FreeGracePeriodEnds(t) \/ call_rcu_data_free(t) \/ WorkerStopped(t) \/ Leftover(t)
           \/ MigrateCallbacks(t)
  <2>1. calls' = calls /\ cpu_crd' = cpu_crd
    BY <1>1 DEF get_call_rcu_data, _call_rcu, CWakeSet, FreeSynchronize, FreeGracePeriodEnds,
                call_rcu_data_free, WorkerStopped, Leftover, MigrateCallbacks, cpointers, cprocess
  <2>2. CAway(t)
    <3>1. CASE get_call_rcu_data(t)
      <4>1. \/ (\E x : cth' = [cth EXCEPT ![t] = [At(cth[t], "enqueue") EXCEPT !.w = x]])
            \/ cth' = [cth EXCEPT ![t] = Enter(cth[t], "default", "enqueue")]
        BY <3>1 DEF get_call_rcu_data, thread
      <4>2. CASE \E x : cth' = [cth EXCEPT ![t] = [At(cth[t], "enqueue") EXCEPT !.w = x]]
        BY <1>0, <4>2 DEF At, CThread, CAway
      <4>3. CASE cth' = [cth EXCEPT ![t] = Enter(cth[t], "default", "enqueue")]
        BY <1>0, <4>3 DEF Enter, CThread, CAway
      <4> QED BY <4>1, <4>2, <4>3
    <3>2. CASE _call_rcu(t)
      <4>1. cth' = [cth EXCEPT ![t] = [Enter(cth[t], "wake", "call_out") EXCEPT !.h = NULL]]
        BY <3>2 DEF _call_rcu, thread
      <4> QED BY <1>0, <4>1 DEF Enter, CThread, CAway
    <3>3. CASE CWakeSet(t)
      <4>1. cth' = [cth EXCEPT ![t] = At(cth[t], "wake_futex")]
        BY <3>3 DEF CWakeSet, thread
      <4> QED BY <1>0, <4>1 DEF At, CThread, CAway
    <3>4. CASE FreeSynchronize(t)
      <4>1. \E x : cth' = [cth EXCEPT ![t] = [At(cth[t], "grace") EXCEPT !.tpre = x]]
        BY <3>4 DEF FreeSynchronize, thread
      <4> QED BY <1>0, <4>1 DEF At, CThread, CAway
    <3>5. CASE FreeGracePeriodEnds(t)
      <4>1. cth' = [cth EXCEPT ![t] = Enter(cth[t], "free", "idle")]
        BY <3>5 DEF FreeGracePeriodEnds, thread
      <4> QED BY <1>0, <4>1 DEF Enter, CThread, CAway
    <3>6. CASE call_rcu_data_free(t)
      <4>1. \/ cth' = [cth EXCEPT ![t] = At(cth[t], "leftover")]
            \/ (\E x : cth' = [cth EXCEPT ![t] = [Enter(cth[t], "wake", "stopping") EXCEPT !.w = x]])
        BY <3>6 DEF call_rcu_data_free, thread
      <4>2. CASE cth' = [cth EXCEPT ![t] = At(cth[t], "leftover")]
        BY <1>0, <4>2 DEF At, CThread, CAway
      <4>3. CASE \E x : cth' = [cth EXCEPT ![t] = [Enter(cth[t], "wake", "stopping") EXCEPT !.w = x]]
        BY <1>0, <4>3 DEF Enter, CThread, CAway
      <4> QED BY <4>1, <4>2, <4>3
    <3>7. CASE WorkerStopped(t)
      <4>1. cth' = [cth EXCEPT ![t] = At(cth[t], "leftover")]
        BY <3>7 DEF WorkerStopped, thread
      <4> QED BY <1>0, <4>1 DEF At, CThread, CAway
    <3>8. CASE Leftover(t)
      <4>1. \/ cth' = [cth EXCEPT ![t] = At(cth[t], "unlink")]
            \/ cth' = [cth EXCEPT ![t] = Enter(cth[t], "default", "migrate")]
            \/ (\E x : cth' = [cth EXCEPT ![t] = [At(cth[t], "migrate") EXCEPT !.w = x]])
        BY <3>8 DEF Leftover, thread
      <4>2. CASE cth' = [cth EXCEPT ![t] = At(cth[t], "unlink")]
        BY <1>0, <4>2 DEF At, CThread, CAway
      <4>3. CASE cth' = [cth EXCEPT ![t] = Enter(cth[t], "default", "migrate")]
        BY <1>0, <4>3 DEF Enter, CThread, CAway
      <4>4. CASE \E x : cth' = [cth EXCEPT ![t] = [At(cth[t], "migrate") EXCEPT !.w = x]]
        BY <1>0, <4>4 DEF At, CThread, CAway
      <4> QED BY <4>1, <4>2, <4>3, <4>4
    <3>9. CASE MigrateCallbacks(t)
      <4>1. cth' = [cth EXCEPT ![t] = Enter(cth[t], "wake", "unlink")]
        BY <3>9 DEF MigrateCallbacks, thread
      <4> QED BY <1>0, <4>1 DEF Enter, CThread, CAway
    <3> QED BY <1>1, <3>1, <3>2, <3>3, <3>4, <3>5, <3>6, <3>7, <3>8, <3>9
  <2> QED BY <2>1, <2>2, CSettingMoved
<1>2. CASE wake_call_rcu_thread(t) \/ CWakeFutex(t) \/ get_default_call_rcu_data(t) \/ UnlinkAndFree(t)
  <2>1. calls' = calls /\ cpu_crd' = cpu_crd
    BY <1>2 DEF wake_call_rcu_thread, CWakeFutex, get_default_call_rcu_data, UnlinkAndFree,
                cpointers, cprocess
  <2>2. Back(cth[t]).pc # "free_set"
    BY <1>2, <1>b DEF wake_call_rcu_thread, CWakeFutex, get_default_call_rcu_data, UnlinkAndFree, cat
  <2>3. CAway(t)
    <3>1. CASE wake_call_rcu_thread(t) \/ CWakeFutex(t)
      BY <1>0, <2>2, <3>1 DEF wake_call_rcu_thread, CWakeFutex, thread, At, CThread, CAway
    <3>2. \A x : [Back(cth[t]) EXCEPT !.w = x].pc # "free_set"
      BY <1>0, <2>2 DEF Back, CThread, CAway
    <3>3. \A x, y : [Back(cth[t]) EXCEPT !.f = x, !.w = y].pc # "free_set"
      BY <1>0, <2>2 DEF Back, CThread, CAway
    <3>4. CASE get_default_call_rcu_data(t)
      BY <1>0, <3>2, <3>4 DEF get_default_call_rcu_data, thread, CAway
    <3>5. CASE UnlinkAndFree(t)
      BY <1>0, <3>3, <3>5 DEF UnlinkAndFree, thread, CAway
    <3> QED BY <1>2, <3>1, <3>4, <3>5
  <2> QED BY <2>1, <2>3, CSettingMoved
<1>3. CASE \/ BarrierQueue(t) \/ BarrierUnlock(t) \/ BarrierDecrement(t) \/ BarrierCount(t)
           \/ call_rcu_completion_wait(t) \/ CompletionFutexWait(t) \/ BarrierReturn(t)
           \/ ForkPause(t) \/ ForkPaused(t) \/ call_rcu_after_fork_parent(t)
           \/ AfterForkParentUnlock(t) \/ ChildFree(t) \/ ChildDone(t)
  <2>1. calls' = calls /\ cpu_crd' = cpu_crd
    BY <1>3 DEF BarrierQueue, BarrierUnlock, BarrierDecrement, BarrierCount, call_rcu_completion_wait,
                CompletionFutexWait, BarrierReturn, ForkPause, ForkPaused, call_rcu_after_fork_parent,
                AfterForkParentUnlock, ChildFree, ChildDone, cpointers, cprocess
  <2>2. CAway(t)
    <3>1. CASE BarrierQueue(t)
      <4>1. \E x : cth' = [cth EXCEPT ![t] = [Enter(cth[t], "wake", "bar_queue") EXCEPT !.w = x, !.todo = Tail(@)]]
        BY <3>1 DEF BarrierQueue, thread
      <4> QED BY <1>0, <4>1 DEF Enter, CThread, CAway
    <3>2. CASE BarrierUnlock(t)
      <4>1. cth' = [cth EXCEPT ![t] = [At(cth[t], "bar_dec") EXCEPT !.w = NULL]]
        BY <3>2 DEF BarrierUnlock, thread
      <4> QED BY <1>0, <4>1 DEF At, CThread, CAway
    <3>3. CASE BarrierDecrement(t)
      <4>1. cth' = [cth EXCEPT ![t] = At(cth[t], "bar_count")]
        BY <3>3 DEF BarrierDecrement, thread
      <4> QED BY <1>0, <4>1 DEF At, CThread, CAway
    <3>4. CASE BarrierCount(t)
      <4>1. \/ cth' = [cth EXCEPT ![t] = At(cth[t], "bar_return")]
            \/ cth' = [cth EXCEPT ![t] = At(cth[t], "bar_wait")]
        BY <3>4 DEF BarrierCount, thread
      <4> QED BY <1>0, <4>1 DEF At, CThread, CAway
    <3>5. CASE call_rcu_completion_wait(t)
      <4>1. \/ cth' = [cth EXCEPT ![t] = At(cth[t], "bar_futex")]
            \/ cth' = [cth EXCEPT ![t] = At(cth[t], "bar_dec")]
        BY <3>5 DEF call_rcu_completion_wait, thread
      <4> QED BY <1>0, <4>1 DEF At, CThread, CAway
    <3>6. CASE CompletionFutexWait(t)
      <4>1. \/ cth' = [cth EXCEPT ![t] = At(cth[t], "bar_asleep")]
            \/ cth' = [cth EXCEPT ![t] = At(cth[t], "bar_dec")]
        BY <3>6 DEF CompletionFutexWait, thread
      <4> QED BY <1>0, <4>1 DEF At, CThread, CAway
    <3>7. CASE BarrierReturn(t)
      <4>1. cth' = [cth EXCEPT ![t] = At(cth[t], "idle")]
        BY <3>7 DEF BarrierReturn, thread
      <4> QED BY <1>0, <4>1 DEF At, CThread, CAway
    <3>8. CASE ForkPause(t)
      <4>1. \E x : cth' = [cth EXCEPT ![t] = [Enter(cth[t], "wake", "fork_pause") EXCEPT !.w = x, !.todo = Tail(@)]]
        BY <3>8 DEF ForkPause, thread
      <4> QED BY <1>0, <4>1 DEF Enter, CThread, CAway
    <3>9. CASE ForkPaused(t)
      <4>1. cth' = [cth EXCEPT ![t] = [At(cth[t], "fork") EXCEPT !.w = NULL]]
        BY <3>9 DEF ForkPaused, thread
      <4> QED BY <1>0, <4>1 DEF At, CThread, CAway
    <3>10. CASE call_rcu_after_fork_parent(t)
      <4>1. cth' = [cth EXCEPT ![t] = At(cth[t], "fork_parent")]
        BY <3>10 DEF call_rcu_after_fork_parent, thread
      <4> QED BY <1>0, <4>1 DEF At, CThread, CAway
    <3>11. CASE AfterForkParentUnlock(t)
      <4>1. cth' = [cth EXCEPT ![t] = At(cth[t], "idle")]
        BY <3>11 DEF AfterForkParentUnlock, thread
      <4> QED BY <1>0, <4>1 DEF At, CThread, CAway
    <3>12. CASE ChildFree(t)
      <4>1. \E x : cth' = [cth EXCEPT ![t] = [Enter(cth[t], "free", "child_free") EXCEPT !.f = x, !.todo = Tail(@)]]
        BY <3>12 DEF ChildFree, thread
      <4> QED BY <1>0, <4>1 DEF Enter, CThread, CAway
    <3>13. CASE ChildDone(t)
      <4>1. cth' = [cth EXCEPT ![t] = [At(cth[t], "idle") EXCEPT !.w = NULL]]
        BY <3>13 DEF ChildDone, thread
      <4> QED BY <1>0, <4>1 DEF At, CThread, CAway
    <3> QED BY <1>3, <3>1, <3>2, <3>3, <3>4, <3>5, <3>6, <3>7, <3>8, <3>9, <3>10, <3>11, <3>12, <3>13
  <2> QED BY <2>1, <2>2, CSettingMoved
<1>4. CASE call_rcu_return(t)
  <2>1. [At(cth[t], "idle") EXCEPT !.w = NULL] \in CThread
    BY <1>0 DEF At, CThread, CThreadPC, CInnerPC
  <2>2. [At(cth[t], "idle") EXCEPT !.w = NULL].pc # "free_set"
    BY <1>0 DEF At, CThread
  <2> QED BY <1>4, <2>1, <2>2, CSettingUnlock DEF call_rcu_return, cpointers, cprocess
<1>5. CASE set_cpu_call_rcu_data(t)
  <2>1. calls' = calls
    BY <1>5 DEF set_cpu_call_rcu_data, cprocess
  <2>2. CAway(t)
    <3>1. \/ cth' = [cth EXCEPT ![t] = Enter(cth[t], "free", "idle")]
          \/ cth' = [cth EXCEPT ![t] = [At(cth[t], "idle") EXCEPT !.f = NULL]]
      BY <1>5 DEF set_cpu_call_rcu_data, thread
    <3>2. CASE cth' = [cth EXCEPT ![t] = Enter(cth[t], "free", "idle")]
      BY <1>0, <3>2 DEF Enter, CThread, CAway
    <3>3. CASE cth' = [cth EXCEPT ![t] = [At(cth[t], "idle") EXCEPT !.f = NULL]]
      BY <1>0, <3>3 DEF At, CThread, CAway
    <3> QED BY <3>1, <3>2, <3>3
  <2>3. CASE cpu_crd # NULL
    <3>1. cpu_crd' = cpu_crd
      BY <1>5, <2>3 DEF set_cpu_call_rcu_data
    <3> QED BY <2>1, <2>2, <3>1, CSettingMoved
  <2>4. CASE cpu_crd = NULL
    <3>1. \A u \in CThreads : cth[u].pc # "free_set"
      BY <2>4 DEF CSetting
    <3>2. \A u \in CThreads : cth'[u].pc # "free_set"
      BY <2>2, <3>1 DEF CAway
    <3> QED BY <2>1, <3>2 DEF CSetting
  <2> QED BY <2>3, <2>4
<1>6. CASE FreeSetCpu(t)
  <2>1. calls' = calls /\ cth' = [cth EXCEPT ![t] = At(cth[t], "synchronize")] /\ cth[t].pc = "free_set"
    BY <1>6 DEF FreeSetCpu, cat, thread, cprocess
  <2>2. cth'[t].pc # "free_set" /\ \A u \in CThreads : u # t => cth'[u] = cth[u]
    BY <1>0, <2>1 DEF At, CThread
  <2>3. \A u \in CThreads : u # t => cth[u].pc # "free_set"
    BY <2>1, CallRcuAssumption DEF CSetting
  <2> QED BY <2>1, <2>2, <2>3 DEF CSetting
<1>7. CASE call_rcu_after_fork_child(t)
  <2>1. calls' = calls /\ \A u \in CThreads : cth'[u].pc # "free_set"
    BY <1>0, <1>7 DEF call_rcu_after_fork_child, NewThread, At, Enter, CThread
  <2> QED BY <2>1 DEF CSetting
<1>8. CASE ChildCleanup(t)
  <2>1. /\ calls' = calls /\ cth[t].pc = "child"
        /\ \E x : cth' = [cth EXCEPT ![t] = [At(cth[t], "child_free") EXCEPT !.todo = x]]
    BY <1>8 DEF ChildCleanup, cat, thread, cprocess
  <2>2. cth'[t].pc # "free_set" /\ \A u \in CThreads : u # t => cth'[u] = cth[u]
    BY <1>0, <2>1 DEF At, CThread
  <2>3. living = {t}
    BY <1>0, <2>1 DEF CChildOf, CInChild, CInner, CInSub
  <2>4. \A u \in CThreads : u # t => cth[u].pc # "free_set"
    BY <1>0, <2>3 DEF CPlaced, NewThread
  <2> QED BY <2>1, <2>2, <2>4 DEF CSetting
<1> QED BY <1>1, <1>2, <1>3, <1>4, <1>5, <1>6, <1>7, <1>8 DEF CThreadStep

(* Calls: the only one that comes there is free_all_cpu_call_rcu_data().   *)
LEMMA CSettingCall ==
    ASSUME CIInv, CSetting, NEW t \in CThreads, CCall(t)
    PROVE  CSetting'
<1>0. cth \in [CThreads -> CThread] /\ cth[t] \in CThread
  BY DEF CIInv, CTypeOK
<1>1. CASE free_all_cpu_call_rcu_data(t)
  <2>1. /\ calls' = calls /\ cpu_crd' = cpu_crd /\ cpu_crd # NULL /\ "free" \in calls[t]
        /\ cth' = [cth EXCEPT ![t] = [At(cth[t], "free_set") EXCEPT !.f = cpu_crd]]
    BY <1>1 DEF free_all_cpu_call_rcu_data, may, thread, cprocess, cpointers
  <2>2. cth'[t].f = cpu_crd /\ \A u \in CThreads : u # t => cth'[u] = cth[u]
    BY <1>0, <2>1 DEF At, CThread
  <2> QED BY <2>1, <2>2 DEF CSetting
<1>2. CASE ReadUnlock(t)
  <2>1. cth[t].pc # "free_set"
    BY <1>2 DEF ReadUnlock, cat
  <2> QED BY <1>0, <1>2, <2>1, CSettingUnlock DEF ReadUnlock, cpointers, cprocess
<1>3. CASE create_call_rcu_data(t)
  <2>1. cth' = cth /\ calls' = calls /\ cpu_crd' = cpu_crd
    BY <1>3 DEF create_call_rcu_data, cprocess
  <2> QED BY <2>1, CSettingKept DEF CNoSetting
<1>4. CASE \/ ReadLock(t) \/ (\E h \in Heads : call_rcu(t, h)) \/ create_all_cpu_call_rcu_data(t)
           \/ set_thread_call_rcu_data(t) \/ rcu_barrier(t) \/ call_rcu_before_fork(t)
  <2>1. calls' = calls /\ cpu_crd' = cpu_crd
    BY <1>4 DEF ReadLock, call_rcu, create_all_cpu_call_rcu_data, set_thread_call_rcu_data,
                rcu_barrier, call_rcu_before_fork, cpointers, cprocess
  <2>2. CAway(t)
    <3>1. CASE ReadLock(t)
      <4>1. cth' = [cth EXCEPT ![t] = Lock(cth[t])]
        BY <3>1 DEF ReadLock, thread
      <4>2. cth[t].pc = "idle"
        BY <3>1 DEF ReadLock, may, cat
      <4> QED BY <1>0, <4>1, <4>2 DEF Lock, CThread, CAway
    <3>2. CASE create_all_cpu_call_rcu_data(t)
      <4>1. \E x : cth' = [cth EXCEPT ![t] = [At(cth[t], "set_cpu") EXCEPT !.f = x]]
        BY <3>2 DEF create_all_cpu_call_rcu_data, thread
      <4> QED BY <1>0, <4>1 DEF At, CThread, CAway
    <3>3. CASE set_thread_call_rcu_data(t)
      <4>1. \E x : cth' = [cth EXCEPT ![t] = [Enter(cth[t], "free", "idle") EXCEPT !.f = x]]
        BY <3>3 DEF set_thread_call_rcu_data, thread
      <4> QED BY <1>0, <4>1 DEF Enter, CThread, CAway
    <3>4. CASE rcu_barrier(t)
      <4>1. \E x : cth' = [cth EXCEPT ![t] = [At(cth[t], "bar_queue") EXCEPT !.todo = x]]
        BY <3>4 DEF rcu_barrier, thread
      <4> QED BY <1>0, <4>1 DEF At, CThread, CAway
    <3>5. CASE call_rcu_before_fork(t)
      <4>1. \E x : cth' = [cth EXCEPT ![t] = [At(cth[t], "fork_pause") EXCEPT !.todo = x]]
        BY <3>5 DEF call_rcu_before_fork, thread
      <4> QED BY <1>0, <4>1 DEF At, CThread, CAway
    <3>6. CASE \E h \in Heads : call_rcu(t, h)
      <4>1. \E x : cth' = [cth EXCEPT ![t] = [Lock(At(cth[t], "get")) EXCEPT !.h = x]]
        BY <3>6 DEF call_rcu, thread
      <4> QED BY <1>0, <4>1 DEF Lock, At, CThread, CAway
    <3> QED BY <1>4, <3>1, <3>2, <3>3, <3>4, <3>5, <3>6
  <2> QED BY <2>1, <2>2, CSettingMoved
<1> QED BY <1>1, <1>2, <1>3, <1>4 DEF CCall

-----------------------------------------------------------------------------
(* The invariant holds.                                                    *)

(* Nothing is created, and no thread has called anything, at first.        *)
LEMMA CInitially ==
    ASSUME CallRcuInit
    PROVE  CIInv
<1>1. /\ crd = [c \in Crdps |-> Unused] /\ call_rcu_data_list = << >> /\ default_crd = NULL
      /\ cpu_crd = NULL /\ thread_crd = [t \in CThreads |-> NULL] /\ call_rcu_mutex = NULL
      /\ completion = [t \in CThreads |-> NoCompletion] /\ cth = [t \in CThreads |-> NewThread]
      /\ living = CThreads /\ cforks = 0 /\ pending = {} /\ hold = [h \in Heads |-> {}]
      /\ owed = [t \in CThreads |-> {}]
  BY DEF CallRcuInit
<1>2. /\ Unused \in CCrdp /\ ~ Unused.live /\ Unused.q = << >> /\ Unused.batch = << >>
      /\ Unused.flags = {} /\ Unused.wpc = "none"
  BY CrEmpty DEF Unused, CCrdp, CWorkerPC
<1>3. /\ NewThread \in CThread /\ NewThread.h = NULL /\ NewThread.pc = "idle" /\ NewThread.ret = << >>
      /\ NewThread.nest = 0
  BY CrEmpty DEF NewThread, CThread, CThreadPC, CInnerPC
<1>4. NoCompletion \in CCompletion /\ NoCompletion.ref = 0
  BY DEF NoCompletion, CCompletion
<1> HIDE DEF Unused, NewThread, NoCompletion
<1>5. ASSUME NEW c \in Crdps
      PROVE  /\ crd[c] = Unused /\ ~ crd[c].live /\ crd[c].q = << >> /\ crd[c].batch = << >>
             /\ crd[c].flags = {} /\ crd[c].wpc = "none"
  BY <1>1, <1>2
<1>6. ASSUME NEW t \in CThreads
      PROVE  /\ cth[t] = NewThread /\ cth[t].pc = "idle" /\ cth[t].ret = << >> /\ cth[t].h = NULL
             /\ completion[t].ref = 0 /\ CInner(t) = "idle" /\ CRest(t) = << >>
             /\ thread_crd[t] = NULL /\ t \in living /\ call_rcu_mutex # t
  BY <1>1, <1>3, <1>4, CallRcuAssumption DEF CInner, CRest, CInSub, CWaking
<1>7. CTypeOK
  BY <1>1, <1>2, <1>3, <1>4, CrEmpty DEF CTypeOK
<1>8. CThreadsPlaced
  BY <1>6 DEF CThreadsPlaced, CPlaced, CWaking, CFreeing, CCalling, CForking
<1>9. CList
  BY <1>1, <1>5, CrEmpty DEF CList
<1>10. CRoles
  BY <1>1, <1>6 DEF CRoles, COwns, CTakes, CTaking, CFreeing
<1>11. CChild /\ CUses
  BY <1>6 DEF CChild, CChildOf, CInChild, CUses, CUsed, CWaking, CFreeing
<1>12. CWorkers
  BY <1>5, <1>6 DEF CWorkers, CWorking, CStopping, CComplete
<1>13. \A h \in Heads, c \in Crdps : ~ CIn(h, c)
  BY <1>5, CrEmpty DEF CIn
<1>14. CCallbacks
  <2>1. \A c \in Crdps : CSound(c)
    BY <1>5, CrEmpty DEF CSound, CHeadOnce
  <2> QED BY <1>1, <1>6, <1>13, <2>1 DEF CCallbacks
<1>15. CHolds
  BY <1>1, <1>5, CrEmpty DEF CHolds, CHeldIn
<1>16. \A t \in CThreads : CTokens(t) = {}
  <2>1. \A t \in CThreads : CToQueue(t) = {}
    BY <1>6 DEF CToQueue
  <2> QED BY <1>5, <2>1, CrEmpty DEF CTokens, CIsToken
<1>17. CRefs
  <2>1. IsFiniteSet({}) /\ Cardinality({}) = 0
    BY FS_EmptySet
  <2> QED BY <1>6, <1>16, <2>1 DEF CRefs, CReferred, CBarrier
<1>18. CCover
  BY <1>6 DEF CCover, CCovers, CBarrier
<1> QED BY <1>7, <1>8, <1>9, <1>10, <1>11, <1>12, <1>14, <1>15, <1>17, <1>18 DEF CIInv

(* What no variable of the model changes stays true.                       *)
LEMMA CStutters ==
    ASSUME CIInv, UNCHANGED cvars
    PROVE  CIInv'
<1>1. UNCHANGED <<crd, call_rcu_data_list, default_crd, cpu_crd, thread_crd, call_rcu_mutex,
                  completion, cth, calls, living, cforks, pending, hold, owed>>
  BY DEF cvars, cpointers, cprocess, cghosts
<1>2. CTypeOK'
  BY <1>1 DEF CIInv, CTypeOK
<1>3. \A u \in CThreads : CInner(u)' = CInner(u) /\ CTakes(u)' = CTakes(u) /\ CSame(u) /\ CToQueue(u)' = CToQueue(u)
  BY <1>1 DEF CInner, CInSub, CTakes, CSame, CToQueue
<1>4. CStill
  BY <1>1 DEF CStill
<1>5. \A v \in CThreads : CWaits(v)
  BY <1>1, <1>3 DEF CWaits, Reading
<1>6. \A u \in CThreads : CFlagsKept(u)
  BY <1>1 DEF CFlagsKept
<1>7. ASSUME NEW u \in CThreads PROVE CPlaced(u)' /\ CUsed(u)' /\ CStopping(u)' /\ CChildOf(u)'
  BY <1>1, <1>3, <1>4, <1>5, <1>6, CKeeps
<1>8. CList' /\ CRoles'
  BY <1>1, <1>3, <1>4, CQuietRoles
<1>9. \A c \in Crdps : CWorking(c)'
  BY <1>1 DEF CIInv, CWorkers, CWorking
<1>10. CHolds'
  <2>1. Reading' = Reading
    BY <1>1 DEF Reading
  <2> QED BY <1>1, <2>1, CHoldsKept
<1>11. CCallbacks' /\ CRefs' /\ CCover'
  <2>1. CSameQueues /\ completion' \in [CThreads -> CCompletion]
    BY <1>1, <1>2 DEF CSameQueues, CTypeOK
  <2>2. \A u \in CThreads : CAllowed(u)
    BY <1>1, <1>3 DEF CAllowed
  <2> QED BY <1>1, <2>1, <2>2, CQuietContents
<1> QED BY <1>2, <1>7, <1>8, <1>9, <1>10, <1>11 DEF CIInv, CThreadsPlaced, CChild, CUses, CWorkers

(* Steps of a worker.                                                      *)
LEMMA CWorkerSteps ==
    ASSUME CIInv, NEW c \in Crdps, CWorkerStep(c)
    PROVE  CIInv'
<1>1. CASE \/ call_rcu_thread(c) \/ CPause(c) \/ CResume(c) \/ CSynchronize(c) \/ CGracePeriodEnds(c)
           \/ call_rcu_completion_wake_up(c) \/ CBatchDone(c) \/ CStopTest(c) \/ call_rcu_wait(c)
           \/ CFutexWait(c) \/ CDecrement(c) \/ CStop(c) \/ CStopped(c)
  BY <1>1, CWorkerQuiet
<1>2. CASE CSplice(c)
  BY <1>2, CSplices
<1>3. CASE CRunCallback(c)
  BY <1>3, CRunsCallback
<1>4. CASE _rcu_barrier_complete(c)
  BY <1>4, CBarrierComplete
<1>5. CASE CompletionWakeSet(c) \/ CompletionWakeFutex(c)
  BY <1>5, CCompletionWakes
<1>6. CASE CompletionPut(c)
  BY <1>6, CCompletionPut
<1> QED BY <1>1, <1>2, <1>3, <1>4, <1>5, <1>6 DEF CWorkerStep

(* Steps of a thread in a function of call_rcu.                            *)
LEMMA CThreadSteps ==
    ASSUME CIInv, CSetting, NEW t \in CThreads, CThreadStep(t)
    PROVE  CIInv'
<1>1. CASE get_call_rcu_data(t)
  <2> DEFINE own == IF thread_crd[t] # NULL THEN thread_crd[t]
                    ELSE IF cpu_crd # NULL THEN cpu_crd ELSE default_crd
  <2>1. CASE own # NULL
    BY <1>1, <2>1, CGetOwn
  <2>2. CASE ~ (own # NULL)
    BY <1>1, <2>2, CGetDefault
  <2> QED BY <2>1, <2>2
<1>2. CASE get_default_call_rcu_data(t)
  BY <1>2, CFoundDefault, CCreateDefault
<1>3. CASE _call_rcu(t)
  BY <1>3, CEnqueues
<1>4. CASE wake_call_rcu_thread(t) \/ CWakeSet(t) \/ CWakeFutex(t)
  BY <1>4, CWakes
<1>5. CASE call_rcu_return(t)
  BY <1>5, CCallReturn
<1>6. CASE set_cpu_call_rcu_data(t)
  BY <1>6, CSetCpu, CSetCpuExists
<1>7. CASE FreeSynchronize(t)
  BY <1>7, CFreeSynchronize
<1>8. CASE FreeGracePeriodEnds(t)
  BY <1>8, CFreeGracePeriodEnds
<1>9. CASE call_rcu_data_free(t)
  BY <1>9, CFreeStopped, CFreeStop
<1>10. CASE WorkerStopped(t)
  BY <1>10, CWorkerStopped
<1>11. CASE Leftover(t)
  BY <1>11, CLeftNothing, CLeftToDefault, CLeftNoDefault
<1>12. CASE MigrateCallbacks(t)
  BY <1>12, CMigrate
<1>13. CASE UnlinkAndFree(t)
  BY <1>13, CUnlinks
<1>14. CASE BarrierQueue(t)
  BY <1>14, CBarrierQueue
<1>15. CASE BarrierUnlock(t)
  BY <1>15, CBarrierUnlock
<1>16. CASE BarrierDecrement(t)
  BY <1>16, CBarrierDecrement
<1>17. CASE BarrierCount(t)
  BY <1>17, CBarrierCounted, CBarrierNotYet
<1>18. CASE call_rcu_completion_wait(t)
  BY <1>18, CCompletionWait
<1>19. CASE CompletionFutexWait(t)
  BY <1>19, CCompletionFutexWait
<1>20. CASE BarrierReturn(t)
  BY <1>20, CBarrierReturn
<1>21. CASE ForkPause(t)
  BY <1>21, CForkPause
<1>22. CASE ForkPaused(t)
  BY <1>22, CForkPaused
<1>23. CASE call_rcu_after_fork_parent(t)
  BY <1>23, CAfterForkParent
<1>24. CASE AfterForkParentUnlock(t)
  BY <1>24, CAfterForkUnlock
<1>25. CASE call_rcu_after_fork_child(t)
  BY <1>25, CAfterForkChild
<1>26. CASE ChildCleanup(t)
  BY <1>26, CChildCleanup
<1>27. CASE ChildFree(t)
  BY <1>27, CChildFree
<1>28. CASE ChildDone(t)
  BY <1>28, CChildDone
<1>29. CASE FreeSetCpu(t)
  BY <1>29, CFreeSetCpu
<1> QED BY <1>1, <1>2, <1>3, <1>4, <1>5, <1>6, <1>7, <1>8, <1>9, <1>10, <1>11, <1>12, <1>13, <1>14,
           <1>15, <1>16, <1>17, <1>18, <1>19, <1>20, <1>21, <1>22, <1>23, <1>24, <1>25, <1>26, <1>27,
           <1>28, <1>29 DEF CThreadStep

(* Calls of the program.                                                   *)
LEMMA CCalls ==
    ASSUME CIInv, NEW t \in CThreads, CCall(t)
    PROVE  CIInv'
<1>1. CASE ReadLock(t) \/ ReadUnlock(t)
  BY <1>1, CReadLock, CReadUnlock
<1>2. CASE \E h \in Heads : call_rcu(t, h)
  BY <1>2, CCallRcu
<1>3. CASE create_all_cpu_call_rcu_data(t)
  <2>1. call_rcu_data_init(FALSE) \/ call_rcu_data_init(TRUE)
    BY <1>3 DEF create_all_cpu_call_rcu_data
  <2>2. CASE call_rcu_data_init(FALSE)
    BY <1>3, <2>2, CCreateAllCpu
  <2>3. CASE call_rcu_data_init(TRUE)
    BY <1>3, <2>3, CCreateAllCpuRt
  <2> QED BY <2>1, <2>2, <2>3
<1>4. CASE create_call_rcu_data(t)
  BY <1>4, CCreateThread
<1>5. CASE set_thread_call_rcu_data(t)
  BY <1>5, CTakeThreads
<1>6. CASE free_all_cpu_call_rcu_data(t)
  BY <1>6, CFreeAllCpu
<1>7. CASE rcu_barrier(t)
  BY <1>7, CBarrierStarts
<1>8. CASE call_rcu_before_fork(t)
  BY <1>8, CBeforeFork
<1> QED BY <1>1, <1>2, <1>3, <1>4, <1>5, <1>6, <1>7, <1>8 DEF CCall

(* The inductive invariant of call_rcu holds: in every state the threads   *)
(* are where their calls may take them, a crdp has one role, it lives for  *)
(* as long as somebody uses it, and callbacks and completions are counted  *)
(* right.                                                                  *)
THEOREM CallRcuInvariantHolds == CallRcuSpec => [](CIInv /\ CSetting)
<1>1. CallRcuInit => CIInv /\ CSetting
  <2>1. CallRcuInit => CSetting
    BY DEF CallRcuInit, CSetting, NewThread
  <2> QED BY <2>1, CInitially
<1>2. CIInv /\ CSetting /\ [CallRcuNext]_cvars => CIInv' /\ CSetting'
  <2> SUFFICES ASSUME CIInv, CSetting, [CallRcuNext]_cvars PROVE CIInv' /\ CSetting'
    OBVIOUS
  <2>1. CASE UNCHANGED cvars
    <3>1. CSetting'
      BY <2>1 DEF cvars, cpointers, cprocess, CSetting
    <3> QED BY <2>1, <3>1, CStutters
  <2>2. CASE CallRcuNext
    <3>1. CIInv'
      BY <2>2, CWorkerSteps, CThreadSteps, CCalls DEF CallRcuNext
    <3>2. CSetting'
      BY <2>2, CSettingWorker, CSettingThread, CSettingCall DEF CallRcuNext
    <3> QED BY <3>1, <3>2
  <2> QED BY <2>1, <2>2
<1> QED BY <1>1, <1>2, PTL DEF CallRcuSpec

(* A callback that call_rcu() queued and that has not run is in exactly    *)
(* one place of the queues and batches, and no other one is anywhere.      *)
THEOREM EveryCallbackOnceHolds == CallRcuSpec => []EveryCallbackOnce
<1>1. CIInv => EveryCallbackOnce
  <2> SUFFICES ASSUME CIInv, NEW h \in Heads
               PROVE  Cardinality(Occurrences(h)) = IF h \in pending THEN 1 ELSE 0
    BY DEF EveryCallbackOnce
  <2>0. crd \in [Crdps -> CCrdp] /\ CCallbacks
    BY DEF CIInv, CTypeOK
  <2>1. ASSUME NEW c \in Crdps
        PROVE  CHeadOnce(InQueue(c)) /\ Range(InQueue(c)) = Range(crd[c].q) \cup Range(crd[c].batch)
    <3> DEFINE a == crd[c].q
               b == crd[c].batch
    <3>1. /\ a \in Seq(CItem) /\ b \in Seq(CItem) /\ CHeadOnce(a) /\ CHeadOnce(b)
          /\ \A g \in Heads : ~ (g \in Range(a) /\ g \in Range(b))
      BY <2>0 DEF CCallbacks, CSound, CCrdp
    <3>2. InQueue(c) = a \o b
      BY DEF InQueue
    <3> HIDE DEF a, b
    <3>3. CHeadOnce(a \o b) /\ Range(a \o b) = Range(a) \cup Range(b)
      BY ONLY <3>1, CrHeadOnce, CrConcat
    <3> QED BY <3>2, <3>3 DEF a, b
  <2>2. \A c \in Crdps : CIn(h, c) <=> \E i \in DOMAIN InQueue(c) : InQueue(c)[i] = h
    <3>1. \A c \in Crdps : CIn(h, c) <=> h \in Range(InQueue(c))
      BY <2>1 DEF CIn
    <3> QED BY <3>1 DEF Range
  <2>3. \A x : x \in Occurrences(h) <=>
          \E c \in Crdps : \E i \in DOMAIN InQueue(c) : x = <<c, i>> /\ InQueue(c)[i] = h
    <3>1. ASSUME NEW x \in Occurrences(h)
          PROVE  \E c \in Crdps : \E i \in DOMAIN InQueue(c) : x = <<c, i>> /\ InQueue(c)[i] = h
      BY DEF Occurrences
    <3>2. ASSUME NEW c \in Crdps, NEW i \in DOMAIN InQueue(c), InQueue(c)[i] = h
          PROVE  <<c, i>> \in Occurrences(h)
      BY <3>2 DEF Occurrences
    <3> QED BY <3>1, <3>2
  <2>4. CASE h \notin pending
    <3>1. Occurrences(h) = {}
      BY <2>0, <2>2, <2>3, <2>4 DEF CCallbacks
    <3> QED BY <2>4, <3>1, FS_EmptySet
  <2>5. CASE h \in pending
    <3>1. PICK c \in Crdps : CIn(h, c)
      BY <2>0, <2>5 DEF CCallbacks
    <3>2. PICK i \in DOMAIN InQueue(c) : InQueue(c)[i] = h
      BY <2>2, <3>1
    <3>3. ASSUME NEW d \in Crdps, NEW j \in DOMAIN InQueue(d), InQueue(d)[j] = h PROVE d = c /\ j = i
      <4>1. d = c
        BY <2>0, <2>2, <3>1, <3>3 DEF CCallbacks
      <4> QED BY <2>1, <3>2, <3>3, <4>1 DEF CHeadOnce
    <3>4. Occurrences(h) = {<<c, i>>}
      BY <2>3, <3>2, <3>3
    <3> QED BY <2>5, <3>4, FS_Singleton
  <2> QED BY <2>4, <2>5
<1> QED BY <1>1, CallRcuInvariantHolds, PTL

(* A callback runs only when no section that was under way at its          *)
(* call_rcu() is: the grace period of the worker has seen them end.        *)
THEOREM CallbackAfterGracePeriodHolds == CallRcuSpec => []CallbackAfterGracePeriod
<1>1. CIInv => CallbackAfterGracePeriod
  BY DEF CIInv, CHolds, CHeldIn, CallbackAfterGracePeriod
<1> QED BY <1>1, CallRcuInvariantHolds, PTL

(* Nobody uses a crdp that call_rcu_data_free() has freed, not even        *)
(* call_rcu_data_free() itself: a crdp is freed once, in every program in  *)
(* which one thread calls free_all_cpu_call_rcu_data().  And nobody uses a *)
(* completion that the last user of rcu_barrier() has freed.               *)
THEOREM UsedMemoryIsLiveHolds == CallRcuSpec => []UsedMemoryIsLive
<1>1. CIInv /\ CSetting => UsedMemoryIsLive
  <2> SUFFICES ASSUME CIInv, CSetting PROVE UsedMemoryIsLive
    OBVIOUS
  <2>0. CTypeOK /\ living \subseteq CThreads /\ crd \in [Crdps -> CCrdp] /\ completion \in [CThreads -> CCompletion]
    BY DEF CIInv, CTypeOK
  <2>1. ASSUME NEW t \in living, cth[t].pc \in {"enqueue", "wake", "wake_set", "wake_futex", "migrate"}
        PROVE  crd[cth[t].w].live
    BY <2>0, <2>1 DEF CIInv, CUses, CUsed, CRoles, CWaking
  <2>6. ASSUME NEW t \in living,
               cth[t].pc \in {"set_cpu", "free_set", "synchronize", "grace", "free",
                              "stopping", "leftover", "migrate", "unlink"}
        PROVE  crd[cth[t].f].live
    <3>0. t \in CThreads
      BY <2>0
    <3>1. CASE cth[t].pc = "free_set"
      BY <3>0, <3>1 DEF CSetting, CIInv, CRoles
    <3>2. CASE cth[t].pc # "free_set"
      <4>1. CTakes(t)
        BY <2>6, <3>2 DEF CTakes, CInner, CInSub, CWaking, CTaking, CFreeing
      <4> QED BY <3>0, <4>1 DEF CIInv, CRoles, CHasTaken
    <3> QED BY <3>1, <3>2
  <2>2. ASSUME NEW t \in living
        PROVE  /\ IsFiniteSet(CTokens(t)) /\ Cardinality(CTokens(t)) \in Nat /\ completion[t].ref \in Int
               /\ completion[t].ref >= Cardinality(CTokens(t)) + (IF CInner(t) \in CBarrier THEN 1 ELSE 0)
    <3>1. t \in CThreads /\ CReferred(t)
      BY <2>0 DEF CIInv, CRefs
    <3>2. IsFiniteSet(CTokens(t)) /\ completion[t].ref >= Cardinality(CTokens(t)) + (IF CInner(t) \in CBarrier THEN 1 ELSE 0)
      BY <3>1 DEF CReferred
    <3> QED BY <2>0, <3>1, <3>2, FS_CardinalityType DEF CCompletion
  <2>3. ASSUME NEW t \in living, CTokens(t) # {} PROVE completion[t].ref > 0
    <3>1. Cardinality(CTokens(t)) # 0
      BY <2>2, <2>3, FS_EmptySet
    <3>2. (IF CInner(t) \in CBarrier THEN 1 ELSE 0) \in Nat
      OBVIOUS
    <3> QED BY <2>2, <3>1, <3>2
  <2>4. ASSUME NEW c \in Crdps, NEW t \in Range(InQueue(c)) \cap living PROVE completion[t].ref > 0
    <3> DEFINE a == crd[c].q
               b == crd[c].batch
    <3>1. a \in Seq(CItem) /\ b \in Seq(CItem)
      BY <2>0 DEF CCrdp
    <3>2. t \in Range(a \o b)
      BY DEF InQueue
    <3>3. a = crd[c].q /\ b = crd[c].batch
      OBVIOUS
    <3> HIDE DEF a, b
    <3>4. /\ Range(a \o b) = Range(a) \cup Range(b) /\ Len(a) \in Nat /\ Len(b) \in Nat
          /\ DOMAIN a = 1 .. Len(a) /\ DOMAIN b = 1 .. Len(b)
      BY ONLY <3>1, CrConcat
    <3>5. CASE t \in Range(a)
      <4>1. PICK i \in DOMAIN a : a[i] = t
        BY <3>5 DEF Range
      <4>2. CIsToken(t, "q", c, i) /\ i \in Nat
        BY <3>3, <3>4, <4>1 DEF CIsToken
      <4>3. <<"q", c, i>> \in CTokens(t)
        BY <4>2 DEF CTokens
      <4> QED BY <2>3, <4>3
    <3>6. CASE t \in Range(b)
      <4>1. PICK i \in DOMAIN b : b[i] = t
        BY <3>6 DEF Range
      <4>2. PICK j \in Nat : j = Len(b) - i
        BY <3>4, <4>1
      <4>3. Len(b) - j = i
        BY <3>4, <4>1, <4>2
      <4>4. CIsToken(t, "batch", c, j)
        BY <3>3, <4>1, <4>3 DEF CIsToken
      <4>5. <<"batch", c, j>> \in CTokens(t)
        BY <4>4 DEF CTokens
      <4> QED BY <2>3, <4>5
    <3> QED BY <3>2, <3>4, <3>5, <3>6
  <2>5. ASSUME NEW t \in living,
               cth[t].pc \in {"bar_dec", "bar_count", "bar_wait", "bar_futex", "bar_asleep", "bar_return"}
        PROVE  completion[t].ref > 0
    <3>1. CInner(t) \in CBarrier
      BY <2>5 DEF CInner, CInSub, CWaking, CBarrier
    <3> QED BY <2>2, <3>1
  <2> QED BY <2>1, <2>4, <2>5, <2>6 DEF UsedMemoryIsLive
<1> QED BY <1>1, CallRcuInvariantHolds, PTL

(* When rcu_barrier() returns, every callback that was pending when it was *)
(* called has run.                                                         *)
THEOREM BarrierCoversPendingHolds == CallRcuSpec => []BarrierCoversPending
<1>1. CIInv => BarrierCoversPending
  <2> SUFFICES ASSUME CIInv, NEW t \in living, cth[t].pc = "bar_return" PROVE owed[t] = {}
    BY DEF BarrierCoversPending, cat
  <2>1. CCovers(t)
    BY DEF CIInv, CTypeOK, CCover
  <2>2. CInner(t) \in CBarrier
    BY DEF CInner, CInSub, CWaking, CBarrier
  <2> QED BY <2>1, <2>2 DEF CCovers
<1> QED BY <1>1, CallRcuInvariantHolds, PTL

=============================================================================
