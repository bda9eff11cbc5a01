------------------------------ MODULE UleProofs ------------------------------
(***************************************************************************)
(* Proofs about the ULE scheduler: what it counts is what is there,        *)
(* threads are queued and run only where they may be, and no cpu sleeps on *)
(* work, whatever the cpus are in the middle of.                           *)
(*                                                                         *)
(* The operators of Tdq and Ule work on states k == [td, tdq, cpu, env],   *)
(* and so do the lemmas.  Good(k, c, n) says that the queues, the          *)
(* counts and the other cpus' claims to threads agree while c is at work   *)
(* and its load counts n more than its queued threads; Full(k) that they   *)
(* do when no cpu is at work, which is the inductive invariant.  A cpu     *)
(* enters a function from Full to Good, its steps preserve Good or shift   *)
(* n, and it leaves to Full, with its own thread and the one it moves      *)
(* accounted for.                                                          *)
(*                                                                         *)
(* Good is of two parts: SoundBut, the counts and the claims, and Alert,   *)
(* what the cpus are told: one with an IPI pending has it on its way, one  *)
(* that may be about to sleep is marked as idle, and one that sleeps has   *)
(* no thread to run, or an interrupt on its way.                           *)
(***************************************************************************)
EXTENDS Ule, FiniteSetsExt, SequencesExt, FiniteSetTheorems, SequenceTheorems,
        WellFoundedInduction, TLAPS

-----------------------------------------------------------------------------
(* Facts about numbers and about what the queue operations return. *)

LEMMA ModSmall == ASSUME NEW x \in Nat, NEW m \in Nat, x < m PROVE x % m = x
OBVIOUS

LEMMA DivNat ==
    ASSUME NEW x \in Nat, NEW y \in Nat, y > 0 PROVE x \div y \in Nat /\ x \div y <= x
OBVIOUS

LEMMA DivBelow ==
    ASSUME NEW x \in Nat, NEW y \in Nat, NEW z \in Nat, y > 0, x < z * y PROVE x \div y < z
OBVIOUS

\* A set of natural numbers that is not empty has a least element.
LEMMA LeastElement ==
    ASSUME NEW T \in SUBSET Nat, T # {}
    PROVE  \E x \in T : \A y \in T : x <= y
<1> DEFINE R == OpToRel(<, Nat)
<1>1. IsWellFoundedOn(R, Nat)
  BY NatLessThanWellFounded
<1>2. \A x, y \in Nat : y < x => << y, x >> \in R
  BY Zenon DEF OpToRel
<1> HIDE DEF R
<1>3. PICK x \in T : \A y \in T : ~ (<< y, x >> \in R)
  BY <1>1, WFMin
<1>4. \A y \in T : ~ (y < x)
  BY <1>2, <1>3
<1> QED BY <1>4

\* Induction over the natural numbers, stated for a set of them.
LEMMA Induction ==
    ASSUME NEW T \in SUBSET Nat, 0 \in T, \A n \in T : n + 1 \in T
    PROVE  T = Nat
<1> SUFFICES ASSUME Nat \ T # {} PROVE FALSE
  OBVIOUS
<1>1. PICK m \in Nat \ T : \A j \in Nat \ T : m <= j
  <2> DEFINE D == Nat \ T
  <2>1. D \in SUBSET Nat /\ D # {}
    OBVIOUS
  <2> HIDE DEF D
  <2>2. \E m \in D : \A j \in D : m <= j
    BY <2>1, LeastElement
  <2> QED BY <2>2 DEF D
<1>2. m - 1 \in Nat \ T
  BY <1>1
<1> QED BY <1>1, <1>2

\* Min, with which runq_findbit is modelled, is the least element.
LEMMA MinProperties ==
    ASSUME NEW S \in SUBSET Nat, S # {}
    PROVE  Min(S) \in S /\ \A j \in S : Min(S) <= j
BY LeastElement DEF Min

\* What InsertAt (TAILQ_INSERT_HEAD, _TAIL and _BEFORE) returns.
LEMMA InsertAtProperties ==
    ASSUME NEW S, NEW q \in Seq(S), NEW e \in S, NEW k \in 1 .. Len(q) + 1
    PROVE  /\ InsertAt(q, k, e) \in Seq(S)
           /\ Len(InsertAt(q, k, e)) = Len(q) + 1
           /\ \A j \in 1 .. Len(q) + 1 :
                InsertAt(q, k, e)[j] =
                    IF j < k THEN q[j] ELSE IF j = k THEN e ELSE q[j - 1]
<1> DEFINE a == SubSeq(q, 1, k - 1)
           b == SubSeq(q, k, Len(q))
<1>1. /\ a \in Seq(S) /\ Len(a) = k - 1
      /\ \A j \in 1 .. k - 1 : a[j] = q[j]
  <2>1. \A j \in 1 .. k - 1 : q[j] \in S
    BY LenProperties, ElementOfSeq
  <2> QED BY <2>1, SubSeqProperties, LenProperties
<1>2. /\ b \in Seq(S) /\ Len(b) = Len(q) - k + 1
      /\ \A j \in 1 .. Len(q) - k + 1 : b[j] = q[k + j - 1]
  <2>1. \A j \in k .. Len(q) : q[j] \in S
    BY LenProperties, ElementOfSeq
  <2> QED BY <2>1, SubSeqProperties, LenProperties
<1>3. /\ <<e>> \in Seq(S) /\ Len(<<e>>) = 1 /\ <<e>>[1] = e
  OBVIOUS
<1> DEFINE c == a \o <<e>>
<1>4. /\ c \in Seq(S) /\ Len(c) = k
      /\ \A j \in 1 .. k : c[j] = IF j < k THEN q[j] ELSE e
  <2> HIDE DEF a, b
  <2> QED BY <1>1, <1>3, ConcatProperties, LenProperties
<1>5. InsertAt(q, k, e) = c \o b
  BY DEF InsertAt
<1> HIDE DEF a, b, c
<1>6. /\ c \o b \in Seq(S)
      /\ Len(c \o b) = Len(c) + Len(b)
      /\ \A j \in 1 .. Len(c) + Len(b) :
            (c \o b)[j] = IF j <= Len(c) THEN c[j] ELSE b[j - Len(c)]
  BY <1>2, <1>4, ConcatProperties
<1>7. Len(q) \in Nat
  BY LenProperties
<1>8. Len(c \o b) = Len(q) + 1
  BY <1>2, <1>4, <1>6, <1>7
<1>9. ASSUME NEW j \in 1 .. Len(q) + 1
      PROVE  (c \o b)[j] = IF j < k THEN q[j] ELSE IF j = k THEN e ELSE q[j - 1]
  <2>1. CASE j <= k
    BY <2>1, <1>2, <1>4, <1>6, <1>7
  <2>2. CASE j > k
    <3>1. (c \o b)[j] = b[j - k]
      BY <2>2, <1>2, <1>4, <1>6, <1>7
    <3>2. b[j - k] = q[k + (j - k) - 1]
      BY <2>2, <1>2, <1>7
    <3>3. k + (j - k) - 1 = j - 1
      BY <1>7
    <3> QED BY <2>2, <3>1, <3>2, <3>3, <1>7
  <2>3. j <= k \/ j > k
    BY <1>7
  <2> QED BY <2>1, <2>2, <2>3
<1> QED BY <1>5, <1>6, <1>8, <1>9

\* What RemoveAt (TAILQ_REMOVE) returns.
LEMMA RemoveAtProperties ==
    ASSUME NEW S, NEW q \in Seq(S), NEW k \in 1 .. Len(q)
    PROVE  /\ RemoveAt(q, k) \in Seq(S)
           /\ Len(RemoveAt(q, k)) = Len(q) - 1
           /\ \A j \in 1 .. Len(q) - 1 :
                RemoveAt(q, k)[j] = IF j < k THEN q[j] ELSE q[j + 1]
<1> DEFINE a == SubSeq(q, 1, k - 1)
           b == SubSeq(q, k + 1, Len(q))
<1>1. /\ a \in Seq(S) /\ Len(a) = k - 1
      /\ \A j \in 1 .. k - 1 : a[j] = q[j]
  <2>1. \A j \in 1 .. k - 1 : q[j] \in S
    BY LenProperties, ElementOfSeq
  <2> QED BY <2>1, SubSeqProperties, LenProperties
<1>2. /\ b \in Seq(S) /\ Len(b) = Len(q) - k
      /\ \A j \in 1 .. Len(q) - k : b[j] = q[k + j]
  <2>1. \A j \in k + 1 .. Len(q) : q[j] \in S
    BY LenProperties, ElementOfSeq
  <2> QED BY <2>1, SubSeqProperties, LenProperties
<1>3. RemoveAt(q, k) = a \o b
  BY DEF RemoveAt
<1> HIDE DEF a, b
<1>4. /\ a \o b \in Seq(S)
      /\ Len(a \o b) = Len(a) + Len(b)
      /\ \A j \in 1 .. Len(a) + Len(b) :
            (a \o b)[j] = IF j <= Len(a) THEN a[j] ELSE b[j - Len(a)]
  BY <1>1, <1>2, ConcatProperties
<1>5. Len(q) \in Nat
  BY LenProperties
<1>6. Len(a \o b) = Len(q) - 1
  BY <1>1, <1>2, <1>4, <1>5
<1>7. ASSUME NEW j \in 1 .. Len(q) - 1
      PROVE  (a \o b)[j] = IF j < k THEN q[j] ELSE q[j + 1]
  <2>1. CASE j < k
    BY <2>1, <1>1, <1>2, <1>4, <1>5
  <2>2. CASE j >= k
    <3>1. (a \o b)[j] = b[j - (k - 1)]
      BY <2>2, <1>1, <1>2, <1>4, <1>5
    <3>2. b[j - (k - 1)] = q[k + (j - (k - 1))]
      BY <2>2, <1>2, <1>5
    <3>3. k + (j - (k - 1)) = j + 1
      BY <1>5
    <3> QED BY <2>2, <3>1, <3>2, <3>3, <1>5
  <2>3. j < k \/ j >= k
    BY <1>5
  <2> QED BY <2>1, <2>2, <2>3
<1> QED BY <1>3, <1>4, <1>6, <1>7

-----------------------------------------------------------------------------
(* The threads, cpus and queues of a scene. *)

Threads(e) == DOMAIN e.start
Cpus(e)    == e.topo[TOP].mask
Index      == 0 .. RQ_NQS - 1
Priority   == 0 .. PRI_MAX_IDLE

\* A run queue and its queues: none is empty, and none holds a thread twice.
Queues(rq, T) ==
    /\ rq = [i \in DOMAIN rq |-> rq[i]] /\ DOMAIN rq \subseteq Index
    /\ \A i \in DOMAIN rq : rq[i] \in Seq(T) /\ rq[i] # << >> /\ IsInjective(rq[i])

\* The threads on queue i.
Holds(rq, i) == IF i \in DOMAIN rq THEN Range(rq[i]) ELSE {}

\* Reading queue i, empty or not.
LEMMA AtIs ==
    ASSUME NEW T, NEW rq, Queues(rq, T), NEW i \in Index
    PROVE  At(rq, i) \in Seq(T) /\ IsInjective(At(rq, i)) /\ Range(At(rq, i)) = Holds(rq, i)
<1>1. << >> \in Seq(T) /\ IsInjective(<< >>) /\ Range(<< >>) = {}
  BY DEF IsInjective, Range
<1> QED BY <1>1 DEF At, Queues, Holds

\* t is put into a queue at some place.
PutAt(q, r, k, t) ==
    /\ k \in 1 .. Len(q) + 1 /\ Len(r) = Len(q) + 1
    /\ \A j \in 1 .. Len(q) + 1 :
          r[j] = IF j < k THEN q[j] ELSE IF j = k THEN t ELSE q[j - 1]

\* A thread put into a queue that does not hold it.
LEMMA InsertKeeps ==
    ASSUME NEW T, NEW q \in Seq(T), IsInjective(q), NEW t \in T, t \notin Range(q),
           NEW r \in Seq(T), NEW k, PutAt(q, r, k, t)
    PROVE  r # << >> /\ IsInjective(r) /\ Range(r) = Range(q) \cup {t}
<1>1. /\ r \in Seq(T) /\ Len(r) = Len(q) + 1
      /\ \A j \in 1 .. Len(q) + 1 :
            r[j] = IF j < k THEN q[j] ELSE IF j = k THEN t ELSE q[j - 1]
  BY DEF PutAt
<1>2. /\ DOMAIN r = 1 .. Len(q) + 1 /\ DOMAIN q = 1 .. Len(q) /\ Len(q) \in Nat
      /\ k \in 1 .. Len(q) + 1
  BY <1>1 DEF PutAt
<1>3. \A j \in 1 .. Len(q) : q[j] # t
  BY <1>2 DEF Range
<1>4. \A m, n \in 1 .. Len(q) : q[m] = q[n] => m = n
  BY <1>2 DEF IsInjective
<1>5. IsInjective(r)
  <2> SUFFICES ASSUME NEW m \in 1 .. Len(q) + 1, NEW n \in 1 .. Len(q) + 1, r[m] = r[n]
               PROVE  m = n
    BY <1>2 DEF IsInjective
  <2> DEFINE f(x) == IF x < k THEN x ELSE x - 1
  <2>1. \A x \in 1 .. Len(q) + 1 : x # k => (f(x) \in 1 .. Len(q) /\ r[x] = q[f(x)])
    BY <1>1, <1>2
  <2>2. r[k] = t
    BY <1>1, <1>2
  <2>3. CASE m = k \/ n = k
    BY <2>1, <2>2, <2>3, <1>3
  <2>4. CASE m # k /\ n # k
    <3>1. f(m) = f(n)
      BY <2>1, <2>4, <1>4
    <3> QED BY <3>1, <2>4, <1>2
  <2> QED BY <2>3, <2>4
<1>6. Range(r) = Range(q) \cup {t}
  <2>1. Range(r) \subseteq Range(q) \cup {t}
    <3> SUFFICES ASSUME NEW j \in 1 .. Len(q) + 1 PROVE r[j] \in Range(q) \cup {t}
      BY <1>2 DEF Range
    <3>1. r[j] = t \/ \E m \in 1 .. Len(q) : r[j] = q[m]
      <4>1. CASE j < k
        BY <4>1, <1>1, <1>2
      <4>2. CASE j = k
        BY <4>2, <1>1
      <4>3. CASE j > k
        <5>1. j - 1 \in 1 .. Len(q) /\ ~(j < k) /\ j # k
          BY <4>3, <1>2
        <5> QED BY <5>1, <1>1
      <4> QED BY <4>1, <4>2, <4>3, <1>2
    <3> QED BY <3>1, <1>2 DEF Range
  <2>2. t \in Range(r)
    <3>1. r[k] = t /\ k \in DOMAIN r
      BY <1>1, <1>2
    <3> QED BY <3>1 DEF Range
  <2>3. Range(q) \subseteq Range(r)
    <3> SUFFICES ASSUME NEW j \in 1 .. Len(q) PROVE q[j] \in Range(r)
      BY <1>2 DEF Range
    <3>1. CASE j < k
      <4>1. r[j] = q[j] /\ j \in DOMAIN r
        BY <3>1, <1>1, <1>2
      <4> QED BY <4>1 DEF Range
    <3>2. CASE j >= k
      <4>1. r[j + 1] = q[j] /\ j + 1 \in DOMAIN r
        <5>1. j + 1 \in 1 .. Len(q) + 1 /\ ~(j + 1 < k) /\ j + 1 # k /\ j + 1 - 1 = j
          BY <3>2, <1>2
        <5> QED BY <5>1, <1>1, <1>2
      <4> QED BY <4>1 DEF Range
    <3> QED BY <3>1, <3>2, <1>2
  <2> QED BY <2>1, <2>2, <2>3
<1>7. r # << >>
  BY <1>2
<1> QED BY <1>5, <1>6, <1>7

\* t is taken out of a queue that holds others.
LEMMA RemoveKeeps ==
    ASSUME NEW T, NEW q \in Seq(T), IsInjective(q), NEW t \in Range(q), q # << t >>
    PROVE  /\ TAILQ_REMOVE(q, t) \in Seq(T) /\ TAILQ_REMOVE(q, t) # << >>
           /\ IsInjective(TAILQ_REMOVE(q, t))
           /\ Range(TAILQ_REMOVE(q, t)) = Range(q) \ {t}
<1> DEFINE k == CHOOSE n \in DOMAIN q : q[n] = t
           r == RemoveAt(q, k)
<1>1. k \in DOMAIN q /\ q[k] = t
  <2>1. \E n \in DOMAIN q : q[n] = t
    BY DEF Range
  <2> QED BY <2>1
<1> HIDE DEF k
<1>2. DOMAIN q = 1 .. Len(q) /\ Len(q) \in Nat /\ k \in 1 .. Len(q)
  BY <1>1
<1>3. /\ r \in Seq(T) /\ Len(r) = Len(q) - 1
      /\ \A j \in 1 .. Len(q) - 1 : r[j] = IF j < k THEN q[j] ELSE q[j + 1]
  BY <1>2, RemoveAtProperties
<1>4. Len(q) # 1
  <2> SUFFICES ASSUME Len(q) = 1 PROVE q = << t >>
    OBVIOUS
  <2>1. q[1] = t /\ DOMAIN q = 1 .. 1
    BY <1>1, <1>2
  <2> QED BY <2>1
<1> HIDE DEF r
<1>5. DOMAIN r = 1 .. Len(q) - 1
  BY <1>2, <1>3, <1>4
<1>6. \A m, n \in 1 .. Len(q) : q[m] = q[n] => m = n
  BY <1>2 DEF IsInjective
<1>7. IsInjective(r)
  <2> SUFFICES ASSUME NEW m \in 1 .. Len(q) - 1, NEW n \in 1 .. Len(q) - 1, r[m] = r[n]
               PROVE  m = n
    BY <1>5 DEF IsInjective
  <2> DEFINE f(x) == IF x < k THEN x ELSE x + 1
  <2>1. f(m) \in 1 .. Len(q) /\ f(n) \in 1 .. Len(q) /\ q[f(m)] = q[f(n)]
    BY <1>2, <1>3
  <2>2. f(m) = f(n)
    BY <2>1, <1>6
  <2> QED BY <2>2, <1>2
<1>8. Range(r) = Range(q) \ {t}
  <2>1. \A j \in 1 .. Len(q) - 1 : r[j] \in Range(q) \ {t}
    <3> TAKE j \in 1 .. Len(q) - 1
    <3>1. CASE j < k
      <4>1. j \in 1 .. Len(q) /\ j # k /\ r[j] = q[j]
        BY <3>1, <1>2, <1>3
      <4> QED BY <4>1, <1>1, <1>2, <1>6 DEF Range
    <3>2. CASE j >= k
      <4>1. j + 1 \in 1 .. Len(q) /\ j + 1 # k /\ r[j] = q[j + 1]
        BY <3>2, <1>2, <1>3
      <4> QED BY <4>1, <1>1, <1>2, <1>6 DEF Range
    <3> QED BY <3>1, <3>2, <1>2
  <2>2. \A j \in 1 .. Len(q) : j # k => q[j] \in Range(r)
    <3> TAKE j \in 1 .. Len(q)
    <3>1. CASE j < k
      <4>1. j \in DOMAIN r /\ r[j] = q[j]
        BY <3>1, <1>2, <1>3, <1>5
      <4> QED BY <4>1 DEF Range
    <3>2. CASE j > k
      <4>1. j - 1 \in 1 .. Len(q) - 1 /\ ~(j - 1 < k) /\ j - 1 + 1 = j
        BY <3>2, <1>2
      <4>2. j - 1 \in DOMAIN r /\ r[j - 1] = q[j]
        BY <4>1, <1>3, <1>5
      <4> QED BY <4>2 DEF Range
    <3> QED BY <3>1, <3>2, <1>2
  <2> QED BY <2>1, <2>2, <1>1, <1>2, <1>5 DEF Range
<1>9. r # << >>
  BY <1>2, <1>4, <1>5
<1> QED BY <1>3, <1>7, <1>8, <1>9 DEF r, k, TAILQ_REMOVE

\* The places runq_add and runq_add_pri choose in a queue.
Grown(q, r, t, T) ==
    r \in Seq(T) /\ r # << >> /\ IsInjective(r) /\ Range(r) = Range(q) \cup {t}

\* At the head or at the end (runq_add of a kernel thread, runq_add_pri).
LEMMA ByArrivalGrows ==
    ASSUME NEW T, NEW q \in Seq(T), IsInjective(q), NEW t \in T, t \notin Range(q), NEW hurt
    PROVE  Grown(q, ByArrival(q, t, hurt), t, T)
<1>0. Len(q) \in Nat
  OBVIOUS
<1>1. CASE hurt
  <2> DEFINE r == << t >> \o q
  <2>1. << t >> \in Seq(T) /\ Len(<< t >>) = 1 /\ << t >>[1] = t
    OBVIOUS
  <2>2. r \in Seq(T) /\ Len(r) = Len(q) + 1
        /\ \A j \in 1 .. Len(q) + 1 : r[j] = IF j <= 1 THEN t ELSE q[j - 1]
    BY <1>0, <2>1, ConcatProperties
  <2> HIDE DEF r
  <2>3. \A j \in 1 .. Len(q) + 1 :
            r[j] = IF j < 1 THEN q[j] ELSE IF j = 1 THEN t ELSE q[j - 1]
    BY <2>2, <1>0
  <2>4. PutAt(q, r, 1, t)
    BY <1>0, <2>2, <2>3 DEF PutAt
  <2>5. r # << >> /\ IsInjective(r) /\ Range(r) = Range(q) \cup {t}
    BY <2>2, <2>4, InsertKeeps
  <2>6. ByArrival(q, t, hurt) = r
    BY <1>1 DEF ByArrival, r
  <2> QED BY <2>2, <2>5, <2>6 DEF Grown
<1>2. CASE ~hurt
  <2> DEFINE r == Append(q, t)
  <2>2. r \in Seq(T) /\ Len(r) = Len(q) + 1
        /\ \A j \in 1 .. Len(q) + 1 : r[j] = IF j <= Len(q) THEN q[j] ELSE t
    BY <1>0, AppendProperties
  <2> HIDE DEF r
  <2>3. \A j \in 1 .. Len(q) + 1 :
            r[j] = IF j < Len(q) + 1 THEN q[j] ELSE IF j = Len(q) + 1 THEN t ELSE q[j - 1]
    BY <2>2, <1>0
  <2>4. PutAt(q, r, Len(q) + 1, t)
    BY <1>0, <2>2, <2>3 DEF PutAt
  <2>5. r # << >> /\ IsInjective(r) /\ Range(r) = Range(q) \cup {t}
    BY <2>2, <2>4, InsertKeeps
  <2>6. ByArrival(q, t, hurt) = r
    BY <1>2 DEF ByArrival, r
  <2> QED BY <2>2, <2>5, <2>6 DEF Grown
<1> QED BY <1>1, <1>2

\* In the order of the priorities (runq_add of a user thread).
LEMMA ByPriorityGrows ==
    ASSUME NEW T, NEW q \in Seq(T), IsInjective(q), NEW t \in T, t \notin Range(q), NEW d
    PROVE  Grown(q, ByPriority(q, d, t), t, T)
<1> DEFINE worse == {n \in 1 .. Len(q) : d[q[n]].pri > d[t].pri}
           k == IF worse = {} THEN Len(q) + 1 ELSE Min(worse)
           r == InsertAt(q, k, t)
<1>0. Len(q) \in Nat
  OBVIOUS
<1>1. k \in 1 .. Len(q) + 1
  <2>1. CASE worse = {}
    BY <2>1, <1>0
  <2>2. CASE worse # {}
    <3>1. worse \in SUBSET Nat
      BY <1>0
    <3>2. Min(worse) \in worse
      BY <3>1, <2>2, MinProperties
    <3> QED BY <3>2, <2>2, <1>0
  <2> QED BY <2>1, <2>2
<1>2. ByPriority(q, d, t) = r
  BY DEF ByPriority
<1> HIDE DEF k
<1>3. /\ r \in Seq(T) /\ Len(r) = Len(q) + 1
      /\ \A j \in 1 .. Len(q) + 1 :
            r[j] = IF j < k THEN q[j] ELSE IF j = k THEN t ELSE q[j - 1]
  BY <1>1, InsertAtProperties
<1> HIDE DEF r
<1>4. PutAt(q, r, k, t)
  BY <1>1, <1>3 DEF PutAt
<1>5. r # << >> /\ IsInjective(r) /\ Range(r) = Range(q) \cup {t}
  BY <1>3, <1>4, InsertKeeps
<1> QED BY <1>2, <1>3, <1>5 DEF Grown

\* What linking t does to a run queue.
LEMMA LinkedIs ==
    ASSUME NEW T, NEW rq, Queues(rq, T), NEW i \in Index, NEW t, NEW q,
           Grown(At(rq, i), q, t, T)
    PROVE  /\ Queues(Linked(rq, i, t, q), T)
           /\ Holds(Linked(rq, i, t, q), i) = Holds(rq, i) \cup {t}
           /\ \A j \in Index \ {i} : Holds(Linked(rq, i, t, q), j) = Holds(rq, j)
<1> DEFINE r == Linked(rq, i, t, q)
<1>1. /\ DOMAIN r = DOMAIN rq \cup {i} /\ r = [j \in DOMAIN r |-> r[j]]
      /\ r[i] = q /\ \A j \in DOMAIN rq \ {i} : r[j] = rq[j]
  BY DEF Linked, runq_setbit, At
<1> HIDE DEF r
<1>2. Queues(r, T)
  BY <1>1 DEF Queues, Grown
<1>3. Holds(r, i) = Holds(rq, i) \cup {t}
  BY <1>1, AtIs DEF Grown, Holds
<1>4. \A j \in Index \ {i} : Holds(r, j) = Holds(rq, j)
  BY <1>1 DEF Holds
<1> QED BY <1>2, <1>3, <1>4 DEF r

\* What taking t off it does.
LEMMA RemovedIs ==
    ASSUME NEW T, NEW rq, Queues(rq, T), NEW i, NEW t \in Holds(rq, i)
    PROVE  /\ Queues(runq_remove(rq, t, i), T)
           /\ Holds(runq_remove(rq, t, i), i) = Holds(rq, i) \ {t}
           /\ \A j \in Index \ {i} : Holds(runq_remove(rq, t, i), j) = Holds(rq, j)
<1> DEFINE r == runq_remove(rq, t, i)
<1>0. i \in DOMAIN rq /\ i \in Index /\ t \in Range(rq[i]) /\ rq[i] \in Seq(T) /\ IsInjective(rq[i])
  BY DEF Holds, Queues
<1>1. CASE rq[i] = << t >>
  <2>1. /\ DOMAIN r = DOMAIN rq \ {i} /\ r = [j \in DOMAIN r |-> r[j]]
        /\ \A j \in DOMAIN rq \ {i} : r[j] = rq[j]
    BY <1>1 DEF runq_remove, runq_clrbit
  <2>2. Range(rq[i]) = {t}
    <3>1. DOMAIN << t >> = {1} /\ << t >>[1] = t
      OBVIOUS
    <3> QED BY <1>1, <3>1 DEF Range
  <2> HIDE DEF r
  <2>3. Queues(r, T)
    BY <2>1 DEF Queues
  <2>4. Holds(r, i) = Holds(rq, i) \ {t}
    BY <2>1, <2>2, <1>0 DEF Holds
  <2>5. \A j \in Index \ {i} : Holds(r, j) = Holds(rq, j)
    BY <2>1 DEF Holds
  <2> QED BY <2>3, <2>4, <2>5 DEF r
<1>2. CASE rq[i] # << t >>
  <2> DEFINE q == TAILQ_REMOVE(rq[i], t)
  <2>1. q \in Seq(T) /\ q # << >> /\ IsInjective(q) /\ Range(q) = Range(rq[i]) \ {t}
    BY <1>0, <1>2, RemoveKeeps
  <2>2. r = [rq EXCEPT ![i] = q]
    BY <1>2 DEF runq_remove
  <2> HIDE DEF q, r
  <2>3. DOMAIN r = DOMAIN rq /\ r = [j \in DOMAIN r |-> r[j]] /\ r[i] = q
        /\ \A j \in DOMAIN rq \ {i} : r[j] = rq[j]
    BY <2>2, <1>0 DEF Queues
  <2>4. Queues(r, T)
    BY <2>1, <2>3 DEF Queues
  <2>5. Holds(r, i) = Holds(rq, i) \ {t}
    BY <2>1, <2>3, <1>0 DEF Holds
  <2>6. \A j \in Index \ {i} : Holds(r, j) = Holds(rq, j)
    BY <2>3 DEF Holds
  <2> QED BY <2>4, <2>5, <2>6 DEF r
<1> QED BY <1>1, <1>2

-----------------------------------------------------------------------------
(* States. *)

TdFields == {"state", "system", "pri", "base", "user", "base_user", "lend_user",
             "borrowing", "cpu", "mask", "pinned", "bound", "needresched", "sliceend",
             "runq", "rqindex", "xferable"}
ThreadType(d, e) ==
    /\ DOMAIN d = TdFields
    /\ d.state \in {"dead", "new", "sleep", "canrun", "runq", "run"}
    /\ d.pri \in Priority /\ d.base \in Priority /\ d.user \in Priority
    /\ d.base_user \in Priority /\ d.lend_user \in Priority
    /\ d.cpu \in Cpus(e) /\ d.mask \subseteq Cpus(e) /\ d.pinned \in 0 .. 1
    /\ d.runq \in RunqNames /\ d.rqindex \in Index /\ d.xferable \in 0 .. 1

TdqFields == {"load", "transferable", "lowpri", "ipipending", "cpu_idle", "idx", "ridx",
              "realtime", "timeshare", "idle"}
QueueType(q, e) ==
    /\ DOMAIN q = TdqFields
    /\ q.load \in Int /\ q.transferable \in Int /\ q.lowpri \in Priority
    /\ q.ipipending \in BOOLEAN /\ q.cpu_idle \in BOOLEAN
    /\ q.idx \in Index /\ q.ridx \in Index
    /\ \A name \in RunqNames : Queues(q[name], Threads(e))

CpuFields == {"cur", "op", "owe", "ipi", "ipc", "mask", "from"}
OpType(o, e) ==
    /\ o.op \in {"none", "add", "migrate", "trysteal", "trytake", "balance", "pair"}
    /\ o.op \in {"add", "migrate"} => o.td \in Threads(e)
    /\ o.op = "trytake" => o.from \in Cpus(e)
    /\ o.op = "pair" => (o.high \in Cpus(e) /\ o.low \in Cpus(e))
CpuType(p, e) ==
    /\ DOMAIN p = CpuFields
    /\ p.cur \in Threads(e) \cup {NoThread} /\ OpType(p.op, e)
    /\ p.owe \in BOOLEAN /\ p.ipi \in BOOLEAN /\ p.from \in Cpus(e)

Typed(k) ==
    /\ DOMAIN k = {"td", "tdq", "cpu", "env"} /\ k.env \in Scenes
    /\ DOMAIN k.td = Threads(k.env) /\ \A t \in Threads(k.env) : ThreadType(k.td[t], k.env)
    /\ DOMAIN k.tdq = Cpus(k.env) /\ \A c \in Cpus(k.env) : QueueType(k.tdq[c], k.env)
    /\ DOMAIN k.cpu = Cpus(k.env) /\ \A c \in Cpus(k.env) : CpuType(k.cpu[c], k.env)

\* The threads on a cpu's queues, those of them that may migrate, and those
\* whose td_sched says that they are on queue i of a run queue.
Queued(k, c)   == {t \in Threads(k.env) : k.td[t].state = "runq" /\ k.td[t].cpu = c}
Movable(k, c)  == {t \in Queued(k, c) : k.td[t].pinned = 0}
Listed(k, c, name, i) ==
    {t \in Queued(k, c) : k.td[t].runq = name /\ k.td[t].rqindex = i}

\* The queues hold the threads that say so, and the counts are their numbers;
\* the load counts x[c] more.
InPlace(k) ==
    /\ \A c \in Cpus(k.env), name \in RunqNames, i \in Index :
          Holds(k.tdq[c][name], i) = Listed(k, c, name, i)
    /\ \A t \in Threads(k.env) :
          k.td[t].xferable = IF k.td[t].state = "runq" /\ k.td[t].pinned = 0 THEN 1 ELSE 0
Counted(k, x) ==
    \A c \in Cpus(k.env) :
        /\ k.tdq[c].load = Cardinality(Queued(k, c)) + x[c]
        /\ k.tdq[c].transferable = Cardinality(Movable(k, c))
Core(k, x) == Typed(k) /\ InPlace(k) /\ Counted(k, x) /\ x \in [Cpus(k.env) -> Int]

\* What Core is about, and only that, stays the same.
SameThread(d, f) ==
    /\ f.state = "runq" <=> d.state = "runq"
    /\ d.state = "runq" => /\ f.cpu = d.cpu /\ f.pinned = d.pinned
                           /\ f.runq = d.runq /\ f.rqindex = d.rqindex
    /\ f.xferable = d.xferable
SameQueue(q, r) ==
    /\ r.load = q.load /\ r.transferable = q.transferable
    /\ r.realtime = q.realtime /\ r.timeshare = q.timeshare /\ r.idle = q.idle
SameShape(k, q) ==
    /\ Typed(q) /\ q.env = k.env
    /\ \A t \in Threads(k.env) : SameThread(k.td[t], q.td[t])
    /\ \A c \in Cpus(k.env) : SameQueue(k.tdq[c], q.tdq[c])

\* Core depends on nothing else.
LEMMA ShapeKeepsCore ==
    ASSUME NEW k, NEW q, NEW x, Core(k, x), SameShape(k, q)
    PROVE  Core(q, x)
<1>1. \A c \in Cpus(k.env) : Queued(q, c) = Queued(k, c) /\ Movable(q, c) = Movable(k, c)
  BY DEF Queued, Movable, SameShape, SameThread
<1>2. \A c \in Cpus(k.env), name \in RunqNames, i \in Index :
         /\ Listed(q, c, name, i) = Listed(k, c, name, i)
         /\ q.tdq[c][name] = k.tdq[c][name]
  BY DEF Listed, Queued, SameShape, SameThread, SameQueue, RunqNames
<1>3. InPlace(q)
  BY <1>2 DEF Core, InPlace, SameShape, SameThread
<1>4. Counted(q, x)
  BY <1>1 DEF Core, Counted, SameShape, SameQueue
<1> QED BY <1>3, <1>4 DEF Core, SameShape

\* One thread more, or less, that is queued on its cpu.
LEMMA QueuedFinite ==
    ASSUME NEW k, Typed(k), NEW c
    PROVE  IsFiniteSet(Queued(k, c)) /\ IsFiniteSet(Movable(k, c))
<1>1. IsFiniteSet(Threads(k.env))
  BY ScenesAssumption DEF Typed, Threads
<1>2. Queued(k, c) \subseteq Threads(k.env) /\ Movable(k, c) \subseteq Threads(k.env)
  BY DEF Queued, Movable
<1> QED BY <1>1, <1>2, FS_Subset

\* The queue of a priority.
LEMMA IndexOfPriority ==
    ASSUME NEW p \in Priority
    PROVE  p \div RQ_PPQ \in Index
<1>1. RQ_NQS \in Nat /\ RQ_NQS > 0 /\ 256 % RQ_NQS = 0
  BY QueuesAssumption
<1>2. RQ_PPQ \in Nat /\ 256 = RQ_NQS * RQ_PPQ
  BY <1>1 DEF RQ_PPQ
<1>3. RQ_PPQ > 0
  <2> SUFFICES ASSUME RQ_PPQ = 0 PROVE FALSE
    BY <1>2
  <2> QED BY <1>1, <1>2
<1>4. p \in Nat /\ p < RQ_NQS * RQ_PPQ
  BY <1>2 DEF Priority, PRI_MAX_IDLE
<1>5. p \div RQ_PPQ \in Nat /\ p \div RQ_PPQ < RQ_NQS
  BY <1>1, <1>2, <1>3, <1>4, DivNat, DivBelow
<1> QED BY <1>1, <1>5 DEF Index

\* An index that wraps around is one.
LEMMA IndexMod ==
    ASSUME NEW n \in Int PROVE n % RQ_NQS \in Index
BY QueuesAssumption DEF Index

\* The queue runq_add uses.
LEMMA AddIndexIs ==
    ASSUME NEW k, Typed(k), NEW t \in Threads(k.env), NEW slot \in Slots(k, t),
           RunqFor(k.td[t].pri) # "timeshare"
    PROVE  AddIndex(k.td, t, slot) \in Index
<1>1. k.td[t].pri \in Priority
  BY DEF Typed, ThreadType
<1>2. CASE checkKern(k.td[t].pri)
  BY <1>1, <1>2, IndexOfPriority DEF AddIndex
<1>3. CASE ~checkKern(k.td[t].pri)
  <2>1. slot \in UserIndex
    BY <1>3 DEF Slots
  <2>2. PICK p \in Priority : slot = p \div RQ_PPQ
    BY <2>1 DEF UserIndex, Priority, PRI_MAX_IDLE
  <2> QED BY <1>3, <2>2, IndexOfPriority DEF AddIndex
<1> QED BY <1>2, <1>3

\* The queue of the calendar tdq_runq_add uses, whatever its indices are.
LEMMA CalendarSlotIs ==
    ASSUME NEW q, NEW e, QueueType(q, e), NEW pri \in Priority, NEW flags
    PROVE  CalendarSlot(q, pri, flags) \in Index
<1>1. q.idx \in Index /\ q.ridx \in Index
  BY DEF QueueType
<1>2. PRI_BATCH_RANGE \in Nat /\ PRI_BATCH_RANGE > 0 /\ PRI_MIN_BATCH \in Int
  BY DEF PRI_BATCH_RANGE, PRI_TIMESHARE_RANGE, PRI_INTERACT_RANGE, PRI_MAX_TIMESHARE,
         PRI_MIN_TIMESHARE, SCHED_PRI_NRESV, PRI_MIN_BATCH
<1>3. (RQ_NQS * (pri - PRI_MIN_BATCH)) \div PRI_BATCH_RANGE \in Int
  <2>1. RQ_NQS * (pri - PRI_MIN_BATCH) \in Int
    BY <1>2, QueuesAssumption DEF Priority, PRI_MAX_IDLE
  <2> QED BY <1>2, <2>1
<1> DEFINE i == ((RQ_NQS * (pri - PRI_MIN_BATCH)) \div PRI_BATCH_RANGE + q.idx) % RQ_NQS
<1>4. i \in Index
  BY <1>1, <1>3, IndexMod DEF Index
<1> HIDE DEF i
<1>5. (i - 1) % RQ_NQS \in Index
  BY <1>4, IndexMod DEF Index
<1>6. CalendarSlot(q, pri, flags) =
        IF flags \cap {"BORROWING", "PREEMPTED"} # {} THEN q.ridx
        ELSE IF q.ridx # q.idx /\ i = q.ridx THEN (i - 1) % RQ_NQS ELSE i
  BY DEF CalendarSlot, i
<1> QED BY <1>1, <1>4, <1>5, <1>6

\* Every priority has its run queue.
LEMMA RunqForIs ==
    ASSUME NEW pri \in Priority
    PROVE  RunqFor(pri) \in RunqNames
<1>1. pri \in Int /\ PRI_MIN_BATCH = 152 /\ PRI_MAX_BATCH = 223
  BY DEF Priority, PRI_MAX_IDLE, PRI_MAX_BATCH, PRI_TIMESHARE_RANGE, PRI_INTERACT_RANGE,
         PRI_MAX_TIMESHARE, PRI_MIN_TIMESHARE, SCHED_PRI_NRESV, PRI_MIN_BATCH
<1>2. CASE pri < PRI_MIN_BATCH
  <2>1. RunqFor(pri) = "realtime"
    <3>1. ~(pri > PRI_MAX_BATCH) /\ pri \notin PRI_MIN_BATCH .. PRI_MAX_BATCH
      BY <1>1, <1>2
    <3> QED BY <3>1, <1>2 DEF RunqFor
  <2> QED BY <2>1 DEF RunqNames
<1>3. CASE pri \in PRI_MIN_BATCH .. PRI_MAX_BATCH
  <2>1. RunqFor(pri) = "timeshare"
    BY <1>1, <1>3 DEF RunqFor
  <2> QED BY <2>1 DEF RunqNames
<1>4. CASE pri > PRI_MAX_BATCH
  <2>1. RunqFor(pri) = "idle"
    <3>1. ~(pri < PRI_MIN_BATCH) /\ pri \notin PRI_MIN_BATCH .. PRI_MAX_BATCH
      BY <1>1, <1>4
    <3> QED BY <3>1, <1>4 DEF RunqFor
  <2> QED BY <2>1 DEF RunqNames
<1> QED BY <1>1, <1>2, <1>3, <1>4

\* Of the threads only t changes, and it keeps its cpu, mask, pin and priority;
\* nothing that a cpu is told by is written.
SameFlags(k, q) ==
    \A d \in Cpus(k.env) : /\ q.tdq[d].ipipending = k.tdq[d].ipipending
                           /\ q.tdq[d].cpu_idle = k.tdq[d].cpu_idle
OnlyThread(k, q, t) ==
    /\ q.env = k.env /\ q.cpu = k.cpu /\ SameFlags(k, q)
    /\ \A u \in Threads(k.env) \ {t} : q.td[u] = k.td[u]
    /\ q.td[t].cpu = k.td[t].cpu /\ q.td[t].mask = k.td[t].mask
    /\ q.td[t].pinned = k.td[t].pinned /\ q.td[t].pri = k.td[t].pri

\* The run queue tdq_runq_add links t into, and what becomes of it.
Grows(k, c, t, flags, slot) ==
    LET name == RunqFor(k.td[t].pri)
        i    == IF name = "timeshare" THEN CalendarSlot(k.tdq[c], k.td[t].pri, flags)
                                      ELSE AddIndex(k.td, t, slot)
        rq   == k.tdq[c][name]
        r    == IF name = "timeshare" THEN runq_add_pri(rq, t, i, "PREEMPTED" \in flags)
                ELSE runq_add(rq, k.td, t, "PREEMPTED" \in flags, slot)
    IN  /\ name \in RunqNames /\ i \in Index
        /\ Queues(r, Threads(k.env)) /\ Holds(r, i) = Holds(rq, i) \cup {t}
        /\ \A j \in Index \ {i} : Holds(r, j) = Holds(rq, j)

LEMMA RunqAddGrows ==
    ASSUME NEW k, Typed(k), InPlace(k), NEW c \in Cpus(k.env), NEW t \in Threads(k.env),
           k.td[t].state # "runq", NEW flags, NEW slot \in Slots(k, t)
    PROVE  Grows(k, c, t, flags, slot)
<1> DEFINE T    == Threads(k.env)
           pri  == k.td[t].pri
           name == RunqFor(pri)
           i    == IF name = "timeshare" THEN CalendarSlot(k.tdq[c], pri, flags)
                                         ELSE AddIndex(k.td, t, slot)
           rq   == k.tdq[c][name]
           hurt == "PREEMPTED" \in flags
           r    == IF name = "timeshare" THEN runq_add_pri(rq, t, i, hurt)
                   ELSE runq_add(rq, k.td, t, hurt, slot)
<1>1. pri \in Priority /\ name \in RunqNames
  <2>1. pri \in Priority
    BY DEF Typed, ThreadType
  <2> QED BY <2>1, RunqForIs
<1>2. i \in Index
  <2>1. CASE name = "timeshare"
    <3>1. QueueType(k.tdq[c], k.env)
      BY DEF Typed
    <3> QED BY <1>1, <2>1, <3>1, CalendarSlotIs
  <2>2. CASE name # "timeshare"
    BY <2>2, AddIndexIs
  <2> QED BY <2>1, <2>2
<1>3. Queues(rq, T)
  BY <1>1 DEF Typed, QueueType
<1>4. t \notin Holds(rq, i)
  BY <1>1, <1>2 DEF InPlace, Listed, Queued
<1>5. At(rq, i) \in Seq(T) /\ IsInjective(At(rq, i)) /\ t \notin Range(At(rq, i))
  <2> HIDE DEF rq, i
  <2> QED BY <1>2, <1>3, <1>4, AtIs
<1>6. \E s : Grown(At(rq, i), s, t, T) /\ r = Linked(rq, i, t, s)
  <2>1. Grown(At(rq, i), ByArrival(At(rq, i), t, hurt), t, T)
    <3> HIDE DEF rq, i, hurt
    <3> QED BY <1>5, ByArrivalGrows
  <2>2. Grown(At(rq, i), ByPriority(At(rq, i), k.td, t), t, T)
    <3> HIDE DEF rq, i
    <3> QED BY <1>5, ByPriorityGrows
  <2>3. CASE name = "timeshare"
    <3>1. r = Linked(rq, i, t, ByArrival(At(rq, i), t, hurt))
      BY <2>3 DEF runq_add_pri
    <3> QED BY <2>1, <3>1
  <2>4. CASE name # "timeshare"
    <3> DEFINE sorted == ~checkKern(k.td[t].pri) /\ i \in SortedIndex
    <3>1. r = Linked(rq, i, t, IF sorted THEN ByPriority(At(rq, i), k.td, t)
                                         ELSE ByArrival(At(rq, i), t, hurt))
      BY <2>4 DEF runq_add
    <3> QED BY <2>1, <2>2, <3>1
  <2> QED BY <2>3, <2>4
<1>7. /\ Queues(r, T) /\ Holds(r, i) = Holds(rq, i) \cup {t}
      /\ \A j \in Index \ {i} : Holds(r, j) = Holds(rq, j)
  <2>1. PICK s : Grown(At(rq, i), s, t, T) /\ r = Linked(rq, i, t, s)
    BY <1>6
  <2> HIDE DEF rq, i, r
  <2> QED BY <1>2, <1>3, <2>1, LinkedIs
<1> QED BY Zenon, <1>1, <1>2, <1>7 DEF Grows

\* tdq_runq_add: t is queued and counted as transferable if it may be, so
\* that the load counts one less beyond the queued threads.
LEMMA RunqAddCore ==
    ASSUME NEW k, NEW x, Core(k, x), NEW c \in Cpus(k.env), NEW t \in Threads(k.env),
           k.td[t].cpu = c, k.td[t].state # "runq", NEW flags, NEW slot \in Slots(k, t)
    PROVE  LET q == tdq_runq_add(k, c, t, flags, slot)
           IN  /\ Core(q, [x EXCEPT ![c] = @ - 1]) /\ OnlyThread(k, q, t)
               /\ q.td[t].state = "runq"
<1> DEFINE T    == Threads(k.env)
           name == RunqFor(k.td[t].pri)
           i    == IF name = "timeshare" THEN CalendarSlot(k.tdq[c], k.td[t].pri, flags)
                                         ELSE AddIndex(k.td, t, slot)
           rq   == k.tdq[c][name]
           r    == IF name = "timeshare" THEN runq_add_pri(rq, t, i, "PREEMPTED" \in flags)
                   ELSE runq_add(rq, k.td, t, "PREEMPTED" \in flags, slot)
           one  == IF CanMigrate(k, t) THEN 1 ELSE 0
           mark == IF CanMigrate(k, t) THEN 1 ELSE k.td[t].xferable
           q    == tdq_runq_add(k, c, t, flags, slot)
<1>0. Typed(k) /\ InPlace(k) /\ Counted(k, x) /\ x \in [Cpus(k.env) -> Int]
  BY DEF Core
<1>1. /\ name \in RunqNames /\ i \in Index
      /\ Queues(r, T) /\ Holds(r, i) = Holds(rq, i) \cup {t}
      /\ \A j \in Index \ {i} : Holds(r, j) = Holds(rq, j)
  <2>1. Grows(k, c, t, flags, slot)
    BY <1>0, RunqAddGrows
  <2> QED BY ONLY Zenon, <2>1 DEF Grows
<1>2. q = [k EXCEPT
             !.td[t] = [@ EXCEPT !.state = "runq", !.runq = name, !.rqindex = i,
                                 !.xferable = mark],
             !.tdq[c].transferable = @ + one,
             !.tdq[c][name] = r]
  BY DEF tdq_runq_add
<1> HIDE DEF name, i, r, q, mark
<1>3. /\ DOMAIN q = {"td", "tdq", "cpu", "env"} /\ q.env = k.env /\ q.cpu = k.cpu
      /\ DOMAIN q.td = T /\ DOMAIN q.tdq = Cpus(k.env)
      /\ \A u \in T \ {t} : q.td[u] = k.td[u]
      /\ \A d \in Cpus(k.env) \ {c} : q.tdq[d] = k.tdq[d]
  BY <1>0, <1>2 DEF Typed
<1>4. /\ DOMAIN q.td[t] = TdFields
      /\ q.td[t].state = "runq" /\ q.td[t].runq = name /\ q.td[t].rqindex = i
      /\ q.td[t].xferable = mark
      /\ \A f \in TdFields \ {"state", "runq", "rqindex", "xferable"} : q.td[t][f] = k.td[t][f]
  <2>1. DOMAIN k.td = T /\ DOMAIN k.td[t] = TdFields /\ "td" \in DOMAIN k
    BY <1>0 DEF Typed, ThreadType
  <2>2. DOMAIN q.td[t] = TdFields
    BY <1>2, <2>1 DEF TdFields
  <2>3. q.td[t].state = "runq" /\ q.td[t].runq = name /\ q.td[t].rqindex = i
    BY <1>2, <2>1 DEF TdFields
  <2>4. q.td[t].xferable = mark
    BY <1>2, <2>1 DEF TdFields
  <2>5. \A f \in TdFields \ {"state", "runq", "rqindex", "xferable"} : q.td[t][f] = k.td[t][f]
    BY <1>2, <2>1 DEF TdFields
  <2> QED BY <2>2, <2>3, <2>4, <2>5
<1>5. /\ DOMAIN q.tdq[c] = TdqFields
      /\ q.tdq[c].transferable = k.tdq[c].transferable + one
      /\ q.tdq[c][name] = r
      /\ \A f \in TdqFields \ {"transferable", name} : q.tdq[c][f] = k.tdq[c][f]
  BY <1>0, <1>1, <1>2 DEF Typed, QueueType, TdqFields, RunqNames
<1>6. /\ q.td[t].cpu = c /\ q.td[t].mask = k.td[t].mask
      /\ q.td[t].pinned = k.td[t].pinned /\ q.td[t].pri = k.td[t].pri
  BY <1>4 DEF TdFields
<1>7. Typed(q)
  <2>1. ThreadType(q.td[t], k.env)
    BY <1>0, <1>1, <1>4 DEF Typed, ThreadType, TdFields, mark
  <2>2. QueueType(q.tdq[c], k.env)
    BY <1>0, <1>1, <1>5 DEF Typed, QueueType, TdqFields, RunqNames
  <2> QED BY <1>0, <1>3, <2>1, <2>2 DEF Typed
<1>8. /\ Queued(q, c) = Queued(k, c) \cup {t} /\ t \notin Queued(k, c)
      /\ \A d \in Cpus(k.env) \ {c} : Queued(q, d) = Queued(k, d)
  BY <1>3, <1>4, <1>6 DEF Queued
<1>9. /\ Movable(q, c) = IF CanMigrate(k, t) THEN Movable(k, c) \cup {t} ELSE Movable(k, c)
      /\ t \notin Movable(k, c)
      /\ \A d \in Cpus(k.env) \ {c} : Movable(q, d) = Movable(k, d)
  BY <1>3, <1>6, <1>8 DEF Movable, CanMigrate, Queued
<1>10. Counted(q, [x EXCEPT ![c] = @ - 1])
  <2>1. Cardinality(Queued(q, c)) = Cardinality(Queued(k, c)) + 1
    BY <1>0, <1>8, QueuedFinite, FS_AddElement, ZenonT(60)
  <2>2. Cardinality(Movable(q, c)) = Cardinality(Movable(k, c)) + one
    <3>1. IsFiniteSet(Movable(k, c)) /\ Cardinality(Movable(k, c)) \in Nat
      BY <1>0, QueuedFinite, FS_CardinalityType
    <3>2. CASE CanMigrate(k, t)
      BY <1>9, <3>1, <3>2, FS_AddElement, ZenonT(60)
    <3>3. CASE ~CanMigrate(k, t)
      BY <1>9, <3>1, <3>3
    <3> QED BY <3>2, <3>3
  <2>3. /\ Cardinality(Queued(k, c)) \in Nat /\ q.tdq[c].load = k.tdq[c].load
        /\ k.tdq[c].load \in Int /\ x[c] \in Int
    BY <1>0, <1>1, <1>5, QueuedFinite, FS_CardinalityType DEF Typed, QueueType, TdqFields, RunqNames
  <2> DEFINE y == [x EXCEPT ![c] = @ - 1]
  <2>4. y[c] = x[c] - 1 /\ \A d \in Cpus(k.env) \ {c} : y[d] = x[d]
    BY <1>0
  <2> HIDE DEF y
  <2>5. /\ q.tdq[c].load = Cardinality(Queued(q, c)) + y[c]
        /\ q.tdq[c].transferable = Cardinality(Movable(q, c))
    BY <1>0, <1>5, <2>1, <2>2, <2>3, <2>4 DEF Counted
  <2>6. \A d \in Cpus(k.env) \ {c} :
           /\ q.tdq[d].load = Cardinality(Queued(q, d)) + y[d]
           /\ q.tdq[d].transferable = Cardinality(Movable(q, d))
    BY <1>0, <1>3, <1>8, <1>9, <2>4 DEF Counted
  <2>7. Counted(q, y)
    BY <1>3, <2>5, <2>6 DEF Counted
  <2> QED BY <2>7 DEF y
<1>11. InPlace(q)
  <2>1. ASSUME NEW d \in Cpus(k.env), NEW n \in RunqNames, NEW j \in Index
        PROVE  Holds(q.tdq[d][n], j) = Listed(q, d, n, j)
    <3>0. Holds(k.tdq[d][n], j) = Listed(k, d, n, j)
      BY <1>0 DEF InPlace
    <3>1. CASE d = c /\ n = name /\ j = i
      <4>1. Listed(q, d, n, j) = Listed(k, d, n, j) \cup {t}
        BY <3>1, <1>3, <1>4, <1>8 DEF Listed, Queued
      <4> QED BY <3>0, <3>1, <4>1, <1>1, <1>5
    <3>2. CASE ~(d = c /\ n = name /\ j = i)
      <4>1. Listed(q, d, n, j) = Listed(k, d, n, j)
        BY <3>2, <1>3, <1>4, <1>6, <1>8 DEF Listed, Queued
      <4>2. Holds(q.tdq[d][n], j) = Holds(k.tdq[d][n], j)
        BY <3>2, <1>1, <1>3, <1>5 DEF TdqFields, RunqNames
      <4> QED BY <3>0, <4>1, <4>2
    <3> QED BY <3>1, <3>2
  <2>2. \A u \in T : q.td[u].xferable = IF q.td[u].state = "runq" /\ q.td[u].pinned = 0 THEN 1 ELSE 0
    BY <1>0, <1>3, <1>4, <1>6 DEF InPlace, CanMigrate, mark
  <2> QED BY <1>3, <2>1, <2>2 DEF InPlace
<1>12. Core(q, [x EXCEPT ![c] = @ - 1])
  BY <1>0, <1>3, <1>7, <1>10, <1>11 DEF Core
<1>13. OnlyThread(k, q, t)
  <2>1. q.tdq[c].ipipending = k.tdq[c].ipipending /\ q.tdq[c].cpu_idle = k.tdq[c].cpu_idle
    BY <1>1, <1>5 DEF TdqFields, RunqNames
  <2>2. SameFlags(k, q)
    BY <1>3, <2>1 DEF SameFlags
  <2> QED BY <1>3, <1>6, <2>2 DEF OnlyThread
<1> QED BY <1>4, <1>12, <1>13 DEF q

\* t is off the queue of cpu c that it was on, and in state s; the load has
\* changed by n, and what Core is not about may have changed.
TakenOff(k, q, c, t, s, n) ==
    /\ DOMAIN q = {"td", "tdq", "cpu", "env"} /\ q.env = k.env
    /\ DOMAIN q.td = DOMAIN k.td /\ DOMAIN q.tdq = DOMAIN k.tdq /\ DOMAIN q.cpu = DOMAIN k.cpu
    /\ \A d \in Cpus(k.env) : CpuType(q.cpu[d], k.env)
    /\ \A u \in Threads(k.env) \ {t} : q.td[u] = k.td[u]
    /\ DOMAIN q.td[t] = TdFields /\ q.td[t].state = s /\ q.td[t].xferable = 0
    /\ \A f \in TdFields \ {"state", "xferable"} : q.td[t][f] = k.td[t][f]
    /\ \A d \in Cpus(k.env) \ {c} : q.tdq[d] = k.tdq[d]
    /\ DOMAIN q.tdq[c] = TdqFields
    /\ q.tdq[c].load = k.tdq[c].load + n
    /\ q.tdq[c].transferable = k.tdq[c].transferable - k.td[t].xferable
    /\ q.tdq[c].lowpri \in Priority /\ q.tdq[c].ridx \in Index
    /\ q.tdq[c][k.td[t].runq] = runq_remove(k.tdq[c][k.td[t].runq], t, k.td[t].rqindex)
    /\ \A f \in TdqFields \ {"load", "transferable", "lowpri", "ridx", k.td[t].runq} :
          q.tdq[c][f] = k.tdq[c][f]

\* Taking t off the queue its td_sched names (tdq_runq_rem): the opposite.
LEMMA TakenOffCore ==
    ASSUME NEW k, NEW x, Core(k, x), NEW c \in Cpus(k.env), NEW t \in Queued(k, c),
           NEW s \in {"canrun", "run"}, NEW n \in Int, NEW q, TakenOff(k, q, c, t, s, n)
    PROVE  Core(q, [x EXCEPT ![c] = @ + 1 + n])
<1> DEFINE T    == Threads(k.env)
           name == k.td[t].runq
           i    == k.td[t].rqindex
           rq   == k.tdq[c][name]
           r    == runq_remove(rq, t, i)
           y    == [x EXCEPT ![c] = @ + 1 + n]
<1>0. Typed(k) /\ InPlace(k) /\ Counted(k, x) /\ x \in [Cpus(k.env) -> Int]
  BY DEF Core
<1>1. /\ t \in T /\ k.td[t].state = "runq" /\ k.td[t].cpu = c
      /\ name \in RunqNames /\ i \in Index /\ Queues(rq, T)
  BY <1>0 DEF Queued, Typed, ThreadType, QueueType
<1>2. t \in Holds(rq, i)
  BY <1>0, <1>1 DEF InPlace, Listed
<1>3. /\ Queues(r, T) /\ Holds(r, i) = Holds(rq, i) \ {t}
      /\ \A j \in Index \ {i} : Holds(r, j) = Holds(rq, j)
  <2> HIDE DEF rq, i, T
  <2> QED BY <1>1, <1>2, RemovedIs
<1>4. /\ q.td[t].cpu = c /\ q.td[t].mask = k.td[t].mask /\ q.td[t].pri = k.td[t].pri
      /\ q.td[t].pinned = k.td[t].pinned /\ q.td[t].runq = name /\ q.td[t].rqindex = i
      /\ q.td[t].state # "runq"
  <2>1. /\ q.td[t].state = s
        /\ \A f \in TdFields \ {"state", "xferable"} : q.td[t][f] = k.td[t][f]
    BY Zenon DEF TakenOff
  <2> QED BY <1>1, <2>1 DEF TdFields
<1>e. q.env = k.env /\ \A u \in T \ {t} : q.td[u] = k.td[u]
  BY Zenon DEF TakenOff
<1>f. \A d \in Cpus(k.env) \ {c} : q.tdq[d] = k.tdq[d]
  BY Zenon DEF TakenOff
<1>g. /\ q.tdq[c][name] = r
      /\ \A m \in TdqFields \ {"load", "transferable", "lowpri", "ridx", name} :
            q.tdq[c][m] = k.tdq[c][m]
  BY Zenon DEF TakenOff
<1>h. \A m \in RunqNames \ {name} : q.tdq[c][m] = k.tdq[c][m]
  <2>1. \A m \in RunqNames \ {name} :
            m \in TdqFields \ {"load", "transferable", "lowpri", "ridx", name}
    BY DEF TdqFields, RunqNames
  <2> QED BY <1>g, <2>1, Zenon
<1>5. Typed(q)
  <2>1. ThreadType(q.td[t], k.env)
    <3>1. ThreadType(k.td[t], k.env)
      BY <1>0, <1>1 DEF Typed
    <3>2. /\ DOMAIN q.td[t] = TdFields /\ q.td[t].state = s /\ q.td[t].xferable = 0
          /\ \A f \in TdFields \ {"state", "xferable"} : q.td[t][f] = k.td[t][f]
      BY Zenon DEF TakenOff
    <3> QED BY <3>1, <3>2 DEF ThreadType, TdFields
  <2>2. QueueType(q.tdq[c], k.env)
    <3>1. /\ DOMAIN q.tdq[c] = TdqFields /\ q.tdq[c].load \in Int /\ q.tdq[c].transferable \in Int
          /\ q.tdq[c].lowpri \in Priority /\ q.tdq[c].ridx \in Index
          /\ q.tdq[c].ipipending \in BOOLEAN /\ q.tdq[c].cpu_idle \in BOOLEAN
          /\ q.tdq[c].idx \in Index
      <4>1. QueueType(k.tdq[c], k.env) /\ k.td[t].xferable \in 0 .. 1
        BY <1>0, <1>1 DEF Typed, ThreadType
      <4>2. /\ DOMAIN q.tdq[c] = TdqFields /\ q.tdq[c].load = k.tdq[c].load + n
            /\ q.tdq[c].transferable = k.tdq[c].transferable - k.td[t].xferable
            /\ q.tdq[c].lowpri \in Priority /\ q.tdq[c].ridx \in Index
        BY Zenon DEF TakenOff
      <4>3. /\ q.tdq[c].ipipending = k.tdq[c].ipipending
            /\ q.tdq[c].cpu_idle = k.tdq[c].cpu_idle /\ q.tdq[c].idx = k.tdq[c].idx
        BY <1>1, <1>g DEF TdqFields, RunqNames
      <4> QED BY <4>1, <4>2, <4>3 DEF QueueType
    <3>2. \A m \in RunqNames : Queues(q.tdq[c][m], T)
      <4>1. \A m \in RunqNames : Queues(k.tdq[c][m], T)
        BY <1>0 DEF Typed, QueueType
      <4> QED BY <1>3, <1>g, <1>h, <4>1, Zenon
    <3> QED BY <3>1, <3>2 DEF QueueType
  <2> QED BY <1>0, <2>1, <2>2 DEF TakenOff, Typed
<1>6. /\ Queued(q, c) = Queued(k, c) \ {t}
      /\ \A d \in Cpus(k.env) \ {c} : Queued(q, d) = Queued(k, d)
  BY <1>1, <1>4, <1>e DEF Queued
<1>7. /\ Movable(q, c) = IF k.td[t].xferable = 1 THEN Movable(k, c) \ {t} ELSE Movable(k, c)
      /\ \A d \in Cpus(k.env) \ {c} : Movable(q, d) = Movable(k, d)
      /\ k.td[t].xferable \in 0 .. 1
      /\ k.td[t].xferable = 1 => t \in Movable(k, c)
  <2>1. k.td[t].xferable = IF k.td[t].pinned = 0 THEN 1 ELSE 0
    BY <1>0, <1>1 DEF InPlace
  <2>2. /\ k.td[t].pinned = 0 <=> k.td[t].xferable = 1
        /\ k.td[t].xferable \in 0 .. 1
    BY <2>1
  <2>3. k.td[t].xferable = 1 => t \in Movable(k, c)
    BY <2>2 DEF Movable
  <2>4. \A d \in Cpus(k.env) : \A u \in Queued(q, d) : q.td[u].pinned = k.td[u].pinned
    BY <1>4, <1>e DEF Queued
  <2>5. \A d \in Cpus(k.env) \ {c} : Movable(q, d) = Movable(k, d)
    BY <1>6, <2>4 DEF Movable
  <2>6. Movable(q, c) = Movable(k, c) \ {t}
    BY <1>6, <2>4 DEF Movable
  <2>7. k.td[t].xferable # 1 => t \notin Movable(k, c)
    BY <2>2 DEF Movable
  <2> QED BY <2>2, <2>3, <2>5, <2>6, <2>7
<1>8. Counted(q, y)
  <2>1. /\ IsFiniteSet(Queued(k, c)) /\ IsFiniteSet(Movable(k, c))
        /\ Cardinality(Queued(k, c)) \in Nat /\ Cardinality(Movable(k, c)) \in Nat
    BY <1>0, QueuedFinite, FS_CardinalityType
  <2>2. Cardinality(Queued(q, c)) = Cardinality(Queued(k, c)) - 1
    BY <1>6, <2>1, FS_RemoveElement
  <2>3. Cardinality(Movable(q, c)) = Cardinality(Movable(k, c)) - k.td[t].xferable
    <3>1. CASE k.td[t].xferable = 1
      <4>1. t \in Movable(k, c) /\ Movable(q, c) = Movable(k, c) \ {t}
        BY <1>7, <3>1
      <4> QED BY <2>1, <3>1, <4>1, FS_RemoveElement
    <3>2. CASE k.td[t].xferable = 0
      BY <1>7, <2>1, <3>2
    <3> QED BY <1>7, <3>1, <3>2
  <2>4. y[c] = x[c] + 1 + n /\ \A d \in Cpus(k.env) \ {c} : y[d] = x[d]
    BY <1>0
  <2>5. x[c] \in Int /\ k.tdq[c].load \in Int /\ k.tdq[c].transferable \in Int
    BY <1>0 DEF Typed, QueueType
  <2> HIDE DEF y
  <2>6. /\ q.tdq[c].load = Cardinality(Queued(q, c)) + y[c]
        /\ q.tdq[c].transferable = Cardinality(Movable(q, c))
    BY <1>0, <1>7, <2>1, <2>2, <2>3, <2>4, <2>5 DEF Counted, TakenOff
  <2>7. \A d \in Cpus(k.env) \ {c} :
           /\ q.tdq[d].load = Cardinality(Queued(q, d)) + y[d]
           /\ q.tdq[d].transferable = Cardinality(Movable(q, d))
    BY <1>0, <1>6, <1>7, <2>4 DEF Counted, TakenOff
  <2> QED BY <2>6, <2>7 DEF Counted, TakenOff
<1>9. InPlace(q)
  <2>1. ASSUME NEW d \in Cpus(k.env), NEW m \in RunqNames, NEW j \in Index
        PROVE  Holds(q.tdq[d][m], j) = Listed(q, d, m, j)
    <3>0. Holds(k.tdq[d][m], j) = Listed(k, d, m, j)
      BY <1>0 DEF InPlace
    <3>1. CASE d = c /\ m = name /\ j = i
      <4>1. Listed(q, d, m, j) = Listed(k, d, m, j) \ {t}
        <5>1. Queued(q, d) = Queued(k, d) \ {t}
          BY <3>1, <1>6
        <5>2. \A u \in Queued(q, d) : q.td[u].runq = k.td[u].runq /\ q.td[u].rqindex = k.td[u].rqindex
          BY <1>4, <1>e DEF Queued
        <5> QED BY <5>1, <5>2 DEF Listed
      <4> QED BY <3>0, <3>1, <4>1, <1>3, <1>g
    <3>2. CASE ~(d = c /\ m = name /\ j = i)
      <4>1. Listed(q, d, m, j) = Listed(k, d, m, j)
        <5>1. Queued(q, d) = IF d = c THEN Queued(k, d) \ {t} ELSE Queued(k, d)
          BY <1>6
        <5>2. t \in Queued(k, d) => d = c
          BY <1>1 DEF Queued
        <5>3. \A u \in Queued(q, d) : q.td[u].runq = k.td[u].runq /\ q.td[u].rqindex = k.td[u].rqindex
          BY <1>4, <1>e DEF Queued
        <5>4. d = c => t \notin Listed(k, d, m, j)
          BY <3>2 DEF Listed
        <5> QED BY <5>1, <5>2, <5>3, <5>4 DEF Listed
      <4>2. Holds(q.tdq[d][m], j) = Holds(k.tdq[d][m], j)
        <5>1. CASE d # c
          BY <5>1, <1>f
        <5>2. CASE d = c /\ m # name
          BY <5>2, <1>h
        <5>3. CASE d = c /\ m = name /\ j # i
          <6>1. q.tdq[d][m] = r
            BY <5>3, <1>g
          <6>2. Holds(r, j) = Holds(rq, j)
            BY <5>3, <1>3
          <6> QED BY <5>3, <6>1, <6>2
        <5> QED BY <3>2, <5>1, <5>2, <5>3
      <4> QED BY <3>0, <4>1, <4>2
    <3> QED BY <3>1, <3>2
  <2>2. \A u \in T : q.td[u].xferable = IF q.td[u].state = "runq" /\ q.td[u].pinned = 0 THEN 1 ELSE 0
    BY <1>0, <1>4 DEF InPlace, TakenOff
  <2> QED BY <2>1, <2>2 DEF InPlace, TakenOff
<1> QED
  <2>1. y \in [Cpus(k.env) -> Int]
    BY <1>0
  <2> HIDE DEF y
  <2>2. Core(q, y)
    BY <1>5, <1>8, <1>9, <2>1 DEF Core, TakenOff
  <2> QED BY <2>2 DEF y

\* A load that is counted differently.
LEMMA LoadCore ==
    ASSUME NEW k, NEW x, Core(k, x), NEW c \in Cpus(k.env), NEW n \in Int
    PROVE  Core([k EXCEPT !.tdq[c].load = @ + n], [x EXCEPT ![c] = @ + n])
<1> DEFINE q == [k EXCEPT !.tdq[c].load = @ + n]
           y == [x EXCEPT ![c] = @ + n]
<1>0. Typed(k) /\ InPlace(k) /\ Counted(k, x) /\ x \in [Cpus(k.env) -> Int]
  BY DEF Core
<1>1. /\ DOMAIN q = {"td", "tdq", "cpu", "env"} /\ q.env = k.env /\ q.cpu = k.cpu
      /\ q.td = k.td /\ DOMAIN q.tdq = Cpus(k.env)
      /\ \A d \in Cpus(k.env) \ {c} : q.tdq[d] = k.tdq[d]
      /\ DOMAIN q.tdq[c] = TdqFields /\ q.tdq[c].load = k.tdq[c].load + n
      /\ \A f \in TdqFields \ {"load"} : q.tdq[c][f] = k.tdq[c][f]
  BY <1>0 DEF Typed, QueueType, TdqFields
<1>2. y[c] = x[c] + n /\ y \in [Cpus(k.env) -> Int] /\ \A d \in Cpus(k.env) \ {c} : y[d] = x[d]
  BY <1>0
<1> HIDE DEF q, y
<1>3. Typed(q)
  <2>1. QueueType(q.tdq[c], k.env)
    BY <1>0, <1>1 DEF Typed, QueueType, TdqFields, RunqNames
  <2> QED BY <1>0, <1>1, <2>1 DEF Typed
<1>4. \A d \in Cpus(k.env) : Queued(q, d) = Queued(k, d) /\ Movable(q, d) = Movable(k, d)
  BY <1>1 DEF Queued, Movable
<1>5. InPlace(q)
  <2>1. \A d \in Cpus(k.env), m \in RunqNames : q.tdq[d][m] = k.tdq[d][m]
    BY <1>1 DEF TdqFields, RunqNames
  <2>2. \A d \in Cpus(k.env), m \in RunqNames, j \in Index : Listed(q, d, m, j) = Listed(k, d, m, j)
    BY <1>1, <1>4 DEF Listed
  <2> QED BY <1>0, <1>1, <2>1, <2>2 DEF InPlace
<1>6. Counted(q, y)
  <2> SUFFICES ASSUME NEW d \in Cpus(k.env)
               PROVE  /\ q.tdq[d].load = Cardinality(Queued(q, d)) + y[d]
                      /\ q.tdq[d].transferable = Cardinality(Movable(q, d))
    BY <1>1 DEF Counted
  <2>1. /\ k.tdq[d].load = Cardinality(Queued(k, d)) + x[d]
        /\ k.tdq[d].transferable = Cardinality(Movable(k, d))
    BY <1>0 DEF Counted
  <2>2. Cardinality(Queued(k, d)) \in Nat /\ x[d] \in Int
    BY <1>0, QueuedFinite, FS_CardinalityType
  <2>3. CASE d = c
    BY <1>1, <1>2, <1>4, <2>1, <2>2, <2>3 DEF TdqFields
  <2>4. CASE d # c
    BY <1>1, <1>2, <1>4, <2>1, <2>4
  <2> QED BY <2>3, <2>4
<1>7. Core(q, y)
  BY <1>1, <1>2, <1>3, <1>5, <1>6 DEF Core
<1> QED BY <1>7 DEF q, y

-----------------------------------------------------------------------------
(* Who has which thread. *)

\* The current thread of a cpu counts in its load, unless it is being switched
\* out; a thread on its way between two queues is nowhere else.
Busy(k, d)   == k.cpu[d].cur # NoThread /\ k.cpu[d].op.op \notin {"migrate", "trysteal", "trytake"}
Extra(k, d)  == IF Busy(k, d) THEN 1 ELSE 0
Moving(k, d) == k.cpu[d].op.op \in {"add", "migrate"}
Allowed(k, t) == k.td[t].cpu \in k.td[t].mask \/ k.td[t].pinned # 0

Owner(k, d) ==
    /\ Busy(k, d) => k.td[k.cpu[d].cur].state = "run" /\ k.td[k.cpu[d].cur].cpu = d
    /\ Moving(k, d) => k.td[k.cpu[d].op.td].state = "canrun" /\ Allowed(k, k.cpu[d].op.td)

\* No cpu but c has t.
Unowned(k, c, t) ==
    \A d \in Cpus(k.env) \ {c} :
        (Busy(k, d) => k.cpu[d].cur # t) /\ (Moving(k, d) => k.cpu[d].op.td # t)

\* What holds of all the cpus but c, which is at work.
Others(k, c) ==
    \A d \in Cpus(k.env) \ {c} :
        /\ Owner(k, d)
        /\ Moving(k, d) => \A e \in Cpus(k.env) \ {c, d} :
                              Moving(k, e) => k.cpu[e].op.td # k.cpu[d].op.td
QueuedBut(k, t) ==
    \A u \in Threads(k.env) \ {t} : k.td[u].state = "runq" => Allowed(k, u)

\* What a cpu is told by: an IPI that is marked as pending is on its way, and a
\* cpu that may be asleep is marked as idle.
Sleepy == {"mark", "enter", "armed", "asleep"}
Signalled(k, d) ==
    /\ k.tdq[d].ipipending => k.cpu[d].ipi
    /\ k.cpu[d].ipc \in Sleepy => k.tdq[d].cpu_idle

\* A queued thread is reason to wake a cpu that idles; a cpu that sleeps, with
\* no interrupt on its way, has no such thread, but for t; and none sleeps in
\* the middle of a function.
Urgent(k, u)  == k.td[u].state = "runq" /\ k.td[u].pri < PRI_MAX_IDLE
Asleep(k, d)  == k.cpu[d].cur = NoThread /\ k.cpu[d].ipc = "asleep"
Rests(k, d, t) ==
    Asleep(k, d) =>
        /\ k.cpu[d].op = Idle
        /\ k.cpu[d].ipi \/ \A u \in Threads(k.env) \ {t} : Urgent(k, u) => k.td[u].cpu # d

\* What holds of the cpus while c is at work and t is still to be told of.
Alert(k, c, t) ==
    \A d \in Cpus(k.env) : Signalled(k, d) /\ (d # c => Rests(k, d, t))

\* c is at work, its load counts n more than its queued threads.
Loads(k, c, n) == [d \in Cpus(k.env) |-> IF d = c THEN n ELSE Extra(k, d)]
SoundBut(k, c, n, t) == Core(k, Loads(k, c, n)) /\ Others(k, c) /\ QueuedBut(k, t) /\ n \in Int
GoodBut(k, c, n, t) == SoundBut(k, c, n, t) /\ Alert(k, c, NoThread)
Good(k, c, n) == GoodBut(k, c, n, NoThread)

\* The inductive invariant of a state in which no cpu is at work.
Full(k) == Good(k, NoCpu, 0)

\* NoThread is no thread, and NoCpu no cpu.
LEMMA NoOne ==
    ASSUME NEW k, k.env \in Scenes
    PROVE  NoThread \notin Threads(k.env) /\ NoCpu \notin Cpus(k.env)
BY ScenesAssumption DEF Threads, Cpus, NoCpu

\* A thread that waits, sleeps or runs here is no other cpu's.
LEMMA UnownedWhen ==
    ASSUME NEW k, NEW c, Others(k, c), NEW t,
           \/ k.td[t].state \notin {"run", "canrun"}
           \/ k.td[t].state = "run" /\ k.td[t].cpu = c
    PROVE  Unowned(k, c, t)
<1> SUFFICES ASSUME NEW d \in Cpus(k.env) \ {c}
             PROVE  (Busy(k, d) => k.cpu[d].cur # t) /\ (Moving(k, d) => k.cpu[d].op.td # t)
  BY DEF Unowned
<1>1. Owner(k, d)
  BY DEF Others
<1> QED BY <1>1 DEF Owner

\* Steps that move no thread.  What other cpus rely on stays.
OwnedSame(d, f) ==
    /\ d.state = "run" => f.state = "run" /\ f.cpu = d.cpu
    /\ d.state = "canrun" => /\ f.state = "canrun" /\ f.cpu = d.cpu
                             /\ f.mask = d.mask /\ f.pinned = d.pinned
SameCpu(p, r) == r.cur = p.cur /\ r.op = p.op

LeavesOthers(k, q, c) ==
    /\ q.env = k.env
    /\ \A d \in Cpus(k.env) \ {c} : SameCpu(k.cpu[d], q.cpu[d])
    /\ \A u \in Threads(k.env) : OwnedSame(k.td[u], q.td[u]) \/ Unowned(k, c, u)

\* What the other cpus rely on is kept by a step that leaves their threads to
\* them.
LEMMA OthersKept ==
    ASSUME NEW k, NEW q, NEW c, Others(k, c), Typed(k), LeavesOthers(k, q, c)
    PROVE  Others(q, c) /\ \A d \in Cpus(k.env) \ {c} :
              Busy(q, d) = Busy(k, d) /\ Moving(q, d) = Moving(k, d) /\ Extra(q, d) = Extra(k, d)
<1>0. /\ q.env = k.env
      /\ \A d \in Cpus(k.env) \ {c} : SameCpu(k.cpu[d], q.cpu[d])
      /\ \A u \in Threads(k.env) : OwnedSame(k.td[u], q.td[u]) \/ Unowned(k, c, u)
  BY Zenon DEF LeavesOthers
<1>1. \A d \in Cpus(k.env) \ {c} : Busy(q, d) = Busy(k, d) /\ Moving(q, d) = Moving(k, d)
  BY <1>0 DEF Busy, Moving, SameCpu
<1>2. ASSUME NEW d \in Cpus(k.env) \ {c} PROVE Owner(q, d)
  <2>1. Owner(k, d)
    BY DEF Others
  <2>2. /\ Busy(k, d) => k.cpu[d].cur \in Threads(k.env)
        /\ Moving(k, d) => k.cpu[d].op.td \in Threads(k.env)
    BY DEF Typed, CpuType, OpType, Busy, Moving
  <2>3. q.cpu[d].cur = k.cpu[d].cur /\ q.cpu[d].op = k.cpu[d].op
    BY <1>0 DEF SameCpu
  <2>4. ASSUME Busy(k, d)
        PROVE  q.td[k.cpu[d].cur].state = "run" /\ q.td[k.cpu[d].cur].cpu = d
    BY <1>0, <2>1, <2>2, <2>4 DEF Owner, Unowned, OwnedSame
  <2>5. ASSUME Moving(k, d)
        PROVE  q.td[k.cpu[d].op.td].state = "canrun" /\ Allowed(q, k.cpu[d].op.td)
    BY <1>0, <2>1, <2>2, <2>5 DEF Owner, Unowned, OwnedSame, Allowed
  <2> QED BY <1>1, <2>3, <2>4, <2>5 DEF Owner
<1>3. ASSUME NEW d \in Cpus(k.env) \ {c}, Moving(q, d), NEW e \in Cpus(k.env) \ {c, d}, Moving(q, e)
      PROVE  q.cpu[e].op.td # q.cpu[d].op.td
  <2>1. Moving(k, d) /\ Moving(k, e)
    BY <1>1, <1>3
  <2>2. q.cpu[d].op = k.cpu[d].op /\ q.cpu[e].op = k.cpu[e].op
    BY <1>0 DEF SameCpu
  <2> QED BY <2>1, <2>2 DEF Others
<1>4. Others(q, c)
  BY <1>0, <1>2, <1>3 DEF Others
<1> QED BY <1>1, <1>4 DEF Extra

\* What the loads of the other cpus count beside queued threads is kept.
LEMMA LoadsKept ==
    ASSUME NEW k, NEW q, NEW c, NEW n, q.env = k.env,
           \A d \in Cpus(k.env) \ {c} : Extra(q, d) = Extra(k, d)
    PROVE  Loads(q, c, n) = Loads(k, c, n)
BY DEF Loads

\* A cpu is told of no less, and is no sleepier.
SameSignals(k, q, d) ==
    /\ k.cpu[d].ipi => q.cpu[d].ipi
    /\ q.tdq[d].ipipending => k.tdq[d].ipipending \/ q.cpu[d].ipi
    /\ q.tdq[d].cpu_idle = k.tdq[d].cpu_idle
    /\ q.cpu[d].ipc = k.cpu[d].ipc \/ q.cpu[d].ipc \notin Sleepy

\* A step that does so, and gives no other cpu an urgent thread, leaves the
\* cpus alert.
LEMMA AlertKept ==
    ASSUME NEW k, NEW q, NEW c, NEW t, Alert(k, c, t), q.env = k.env,
           \A d \in Cpus(k.env) : SameSignals(k, q, d),
           \A d \in Cpus(k.env) \ {c} : SameCpu(k.cpu[d], q.cpu[d]),
           \A u \in Threads(k.env) \ {t} :
              Urgent(q, u) => q.td[u].cpu = c \/ (Urgent(k, u) /\ q.td[u].cpu = k.td[u].cpu)
    PROVE  Alert(q, c, t)
<1>1. ASSUME NEW d \in Cpus(k.env) PROVE Signalled(q, d)
  <2>1. Signalled(k, d) /\ SameSignals(k, q, d)
    BY DEF Alert
  <2> QED BY <2>1 DEF Signalled, SameSignals
<1>2. ASSUME NEW d \in Cpus(k.env), d # c, Asleep(q, d)
      PROVE  /\ q.cpu[d].op = Idle
             /\ q.cpu[d].ipi \/ \A u \in Threads(k.env) \ {t} : Urgent(q, u) => q.td[u].cpu # d
  <2>1. Rests(k, d, t) /\ SameSignals(k, q, d) /\ SameCpu(k.cpu[d], q.cpu[d])
    BY <1>2 DEF Alert
  <2>2. Asleep(k, d)
    BY <1>2, <2>1 DEF Asleep, SameSignals, SameCpu, Sleepy
  <2>3. q.cpu[d].op = Idle
    BY <2>1, <2>2 DEF Rests, SameCpu
  <2>4. CASE k.cpu[d].ipi
    BY <2>1, <2>3, <2>4 DEF SameSignals
  <2>5. CASE \A u \in Threads(k.env) \ {t} : Urgent(k, u) => k.td[u].cpu # d
    BY <1>2, <2>3, <2>5
  <2> QED BY <2>1, <2>2, <2>4, <2>5 DEF Rests
<1> QED BY <1>1, <1>2 DEF Alert, Rests

\* A step of c that moves no thread between queues; it is harmless when it
\* leaves the cpus told, too.
Gentle(k, q, c) ==
    /\ SameShape(k, q)
    /\ \A u \in Threads(k.env) :
          /\ OwnedSame(k.td[u], q.td[u]) \/ Unowned(k, c, u)
          /\ k.td[u].state = "runq" => q.td[u].mask = k.td[u].mask \/ Allowed(q, u)
    /\ \A d \in Cpus(k.env) \ {c} : SameCpu(k.cpu[d], q.cpu[d])
Harmless(k, q, c) ==
    /\ Gentle(k, q, c) /\ \A d \in Cpus(k.env) : SameSignals(k, q, d)
    /\ \A u \in Threads(k.env) : Urgent(q, u) => Urgent(k, u)

\* Gentle steps keep what is counted and owned.
LEMMA SoundKept ==
    ASSUME NEW k, NEW c, NEW n, NEW s, SoundBut(k, c, n, s), NEW q, Gentle(k, q, c)
    PROVE  SoundBut(q, c, n, s)
<1>1. Typed(k) /\ q.env = k.env
  BY DEF SoundBut, Core, Gentle, SameShape
<1>2. Others(q, c) /\ Loads(q, c, n) = Loads(k, c, n)
  <2>1. /\ Others(k, c) /\ \A d \in Cpus(k.env) \ {c} : SameCpu(k.cpu[d], q.cpu[d])
        /\ \A u \in Threads(k.env) : OwnedSame(k.td[u], q.td[u]) \/ Unowned(k, c, u)
    BY DEF SoundBut, Gentle
  <2>2. LeavesOthers(k, q, c)
    BY ONLY <1>1, <2>1 DEF LeavesOthers
  <2>3. /\ Others(q, c)
        /\ \A d \in Cpus(k.env) \ {c} : Extra(q, d) = Extra(k, d)
    BY ONLY <1>1, <2>1, <2>2, OthersKept
  <2> QED BY ONLY <1>1, <2>3, LoadsKept
<1>3. Core(q, Loads(q, c, n))
  BY <1>2, ShapeKeepsCore DEF SoundBut, Gentle
<1>4. QueuedBut(q, s)
  BY <1>1 DEF SoundBut, Gentle, QueuedBut, Allowed, SameShape, SameThread
<1> QED BY <1>2, <1>3, <1>4 DEF SoundBut

\* Harmless steps leave the cpus alert.
LEMMA HarmlessAlert ==
    ASSUME NEW k, NEW c, NEW t, Alert(k, c, t), NEW q, Harmless(k, q, c)
    PROVE  Alert(q, c, t)
<1>1. /\ q.env = k.env /\ \A d \in Cpus(k.env) : SameSignals(k, q, d)
      /\ \A d \in Cpus(k.env) \ {c} : SameCpu(k.cpu[d], q.cpu[d])
  BY DEF Harmless, Gentle, SameShape
<1>2. ASSUME NEW u \in Threads(k.env) \ {t}, Urgent(q, u)
      PROVE  Urgent(k, u) /\ q.td[u].cpu = k.td[u].cpu
  BY <1>2 DEF Harmless, Gentle, SameShape, SameThread, Urgent
<1> HIDE DEF Alert
<1> QED BY <1>1, <1>2, AlertKept

\* All of it, then.
LEMMA HarmlessKeeps ==
    ASSUME NEW k, NEW c, NEW n, NEW s, GoodBut(k, c, n, s), NEW q, Harmless(k, q, c)
    PROVE  GoodBut(q, c, n, s)
BY SoundKept, HarmlessAlert DEF GoodBut, Harmless

\* Steps that change nothing of this: priorities, flags, lowpri, interrupts.
Calm(d, f) ==
    /\ f.state = d.state /\ f.cpu = d.cpu /\ f.mask = d.mask /\ f.pinned = d.pinned
    /\ f.runq = d.runq /\ f.rqindex = d.rqindex /\ f.xferable = d.xferable
Still(k, q) ==
    /\ Typed(q) /\ q.env = k.env
    /\ \A u \in Threads(k.env) : Calm(k.td[u], q.td[u])
    /\ \A d \in Cpus(k.env) : SameQueue(k.tdq[d], q.tdq[d]) /\ SameCpu(k.cpu[d], q.cpu[d])

\* And that leave the cpus told of what they were told of.
Quiet(k, q) ==
    /\ Still(k, q) /\ \A d \in Cpus(k.env) : SameSignals(k, q, d)
    /\ \A u \in Threads(k.env) : Urgent(q, u) => Urgent(k, u)

\* Quiet steps move no thread.
LEMMA QuietIsHarmless ==
    ASSUME NEW k, NEW q, Quiet(k, q), NEW c
    PROVE  Harmless(k, q, c)
BY DEF Quiet, Still, Calm, Harmless, Gentle, SameShape, SameThread, OwnedSame

\* Two quiet steps are one.
LEMMA StillTwice ==
    ASSUME NEW k, NEW q, Still(k, q), NEW r, Still(q, r)
    PROVE  Still(k, r)
BY DEF Still, Calm, SameQueue, SameCpu

LEMMA QuietTwice ==
    ASSUME NEW k, NEW q, Quiet(k, q), NEW r, Quiet(q, r)
    PROVE  Quiet(k, r)
<1>1. Still(k, r)
  BY StillTwice DEF Quiet
<1>2. \A d \in Cpus(k.env) : SameSignals(k, r, d)
  BY DEF Quiet, Still, SameSignals
<1>3. \A u \in Threads(k.env) : Urgent(r, u) => Urgent(k, u)
  BY DEF Quiet, Still
<1> QED BY <1>1, <1>2, <1>3 DEF Quiet

\* So is none.
LEMMA QuietSelf ==
    ASSUME NEW k, Typed(k)
    PROVE  Quiet(k, k)
BY DEF Quiet, Still, Calm, SameQueue, SameCpu, SameSignals

\* A still step of c keeps the invariant when c is told as before, and does not
\* sleep on work.
LEMMA StillFull ==
    ASSUME NEW k, Full(k), NEW q, Still(k, q), NEW c \in Cpus(k.env), q.td = k.td,
           \A d \in Cpus(k.env) \ {c} : q.tdq[d] = k.tdq[d] /\ q.cpu[d] = k.cpu[d],
           Signalled(q, c), Rests(q, c, NoThread)
    PROVE  Full(q) /\ q.env = k.env
<1>1. q.env = k.env /\ Gentle(k, q, NoCpu)
  BY DEF Still, Calm, Gentle, SameShape, SameThread, OwnedSame
<1>2. SoundBut(q, NoCpu, 0, NoThread)
  BY <1>1, SoundKept DEF Full, Good, GoodBut
<1>3. Alert(q, NoCpu, NoThread)
  <2> SUFFICES ASSUME NEW d \in Cpus(k.env), d # NoCpu
               PROVE  Signalled(q, d) /\ Rests(q, d, NoThread)
    <3>1. NoCpu \notin Cpus(k.env)
      BY NoOne DEF Full, Good, GoodBut, SoundBut, Core, Typed
    <3> QED BY <1>1, <3>1 DEF Alert
  <2>1. CASE d # c
    <3>1. Signalled(k, d) /\ Rests(k, d, NoThread)
      BY DEF Full, Good, GoodBut, Alert
    <3>2. Signalled(q, d)
      BY <2>1, <3>1 DEF Signalled
    <3>3. Rests(q, d, NoThread)
      BY <1>1, <2>1, <3>1 DEF Rests, Asleep, Urgent
    <3> QED BY <3>2, <3>3
  <2> QED BY <2>1
<1> QED BY <1>1, <1>2, <1>3 DEF Full, Good, GoodBut

\* What a quiet step leaves as it is.
LEMMA QuietFacts ==
    ASSUME NEW k, NEW q, Quiet(k, q), Typed(k)
    PROVE  /\ \A d \in Cpus(k.env) :
                 /\ Busy(q, d) = Busy(k, d) /\ Moving(q, d) = Moving(k, d)
                 /\ Extra(q, d) = Extra(k, d) /\ (Owner(k, d) => Owner(q, d))
                 /\ q.cpu[d].cur = k.cpu[d].cur /\ q.cpu[d].op = k.cpu[d].op
           /\ \A t \in Threads(k.env) :
                 /\ q.td[t].state = k.td[t].state /\ q.td[t].cpu = k.td[t].cpu
                 /\ q.td[t].mask = k.td[t].mask /\ q.td[t].pinned = k.td[t].pinned
                 /\ Allowed(k, t) => Allowed(q, t)
           /\ \A c, t : Unowned(k, c, t) => Unowned(q, c, t)
           /\ Typed(q) /\ q.env = k.env
<1>1. \A d \in Cpus(k.env) : q.cpu[d].cur = k.cpu[d].cur /\ q.cpu[d].op = k.cpu[d].op
  BY DEF Quiet, Still, SameCpu
<1>2. \A d \in Cpus(k.env) : Busy(q, d) = Busy(k, d) /\ Moving(q, d) = Moving(k, d)
                             /\ Extra(q, d) = Extra(k, d)
  BY <1>1 DEF Busy, Moving, Extra
<1>3. \A t \in Threads(k.env) :
                 /\ q.td[t].state = k.td[t].state /\ q.td[t].cpu = k.td[t].cpu
                 /\ q.td[t].mask = k.td[t].mask /\ q.td[t].pinned = k.td[t].pinned
                 /\ Allowed(k, t) => Allowed(q, t)
  BY DEF Quiet, Still, Calm, Allowed
<1>4. ASSUME NEW d \in Cpus(k.env), Owner(k, d) PROVE Owner(q, d)
  <2>1. /\ Busy(k, d) => k.cpu[d].cur \in Threads(k.env)
        /\ Moving(k, d) => k.cpu[d].op.td \in Threads(k.env)
    BY DEF Typed, CpuType, OpType, Busy, Moving
  <2>2. q.cpu[d].cur = k.cpu[d].cur /\ q.cpu[d].op = k.cpu[d].op
        /\ Busy(q, d) = Busy(k, d) /\ Moving(q, d) = Moving(k, d)
    BY ONLY <1>1, <1>2, d \in Cpus(k.env)
  <2>3. Busy(k, d) => q.td[k.cpu[d].cur].state = "run" /\ q.td[k.cpu[d].cur].cpu = d
    BY <1>3, <1>4, <2>1 DEF Owner
  <2>4. Moving(k, d) => q.td[k.cpu[d].op.td].state = "canrun" /\ Allowed(q, k.cpu[d].op.td)
    BY <1>3, <1>4, <2>1 DEF Owner
  <2> QED BY ONLY <2>2, <2>3, <2>4 DEF Owner
<1>5. \A c, t : Unowned(k, c, t) => Unowned(q, c, t)
  <2>1. q.env = k.env
    BY DEF Quiet, Still
  <2> QED BY <1>1, <1>2, <2>1 DEF Unowned
<1> QED BY <1>1, <1>2, <1>3, <1>4, <1>5 DEF Quiet, Still

\* Writing one field.
LEMMA SetThread ==
    ASSUME NEW k, Typed(k), NEW t \in Threads(k.env), NEW v,
           NEW f \in {"pri", "base", "user", "base_user", "lend_user", "borrowing",
                      "needresched", "sliceend", "bound"},
           f \in {"pri", "base", "user", "base_user", "lend_user"} => v \in Priority
    PROVE  /\ Still(k, [k EXCEPT !.td[t][f] = v])
           /\ (f = "pri" /\ k.td[t].state = "runq" => v >= k.td[t].pri)
                => Quiet(k, [k EXCEPT !.td[t][f] = v])
<1> DEFINE q == [k EXCEPT !.td[t][f] = v]
<1>1. /\ DOMAIN q = {"td", "tdq", "cpu", "env"} /\ q.env = k.env /\ q.cpu = k.cpu
      /\ q.tdq = k.tdq /\ DOMAIN q.td = Threads(k.env)
      /\ \A u \in Threads(k.env) \ {t} : q.td[u] = k.td[u]
      /\ DOMAIN q.td[t] = TdFields /\ q.td[t][f] = v
      /\ \A g \in TdFields \ {f} : q.td[t][g] = k.td[t][g]
  BY DEF Typed, ThreadType, TdFields
<1> HIDE DEF q
<1>2. ThreadType(q.td[t], k.env)
  BY <1>1 DEF Typed, ThreadType, TdFields
<1>3. Typed(q)
  BY <1>1, <1>2 DEF Typed
<1>4. Calm(k.td[t], q.td[t])
  BY <1>1 DEF Calm, TdFields
<1>5. Still(k, q)
  BY <1>1, <1>3, <1>4 DEF Still, Calm, SameQueue, SameCpu
<1>6. ASSUME f = "pri" /\ k.td[t].state = "runq" => v >= k.td[t].pri
      PROVE  Quiet(k, q)
  <2>1. \A d \in Cpus(k.env) : SameSignals(k, q, d)
    BY <1>1 DEF SameSignals
  <2>2. q.td[t].state = k.td[t].state /\ (f # "pri" => q.td[t].pri = k.td[t].pri)
    BY <1>1 DEF TdFields
  <2>3. k.td[t].pri \in Int /\ (f = "pri" => q.td[t].pri = v /\ v \in Int)
    BY <1>1 DEF Typed, ThreadType, Priority
  <2>4. Urgent(q, t) => Urgent(k, t)
    BY <1>6, <2>2, <2>3 DEF Urgent, PRI_MAX_IDLE
  <2>5. \A u \in Threads(k.env) : Urgent(q, u) => Urgent(k, u)
    BY <1>1, <2>4 DEF Urgent
  <2> QED BY <1>5, <2>1, <2>5 DEF Quiet
<1> QED BY <1>5, <1>6 DEF q

\* One field of a queue.
LEMMA SetQueue ==
    ASSUME NEW k, Typed(k), NEW c \in Cpus(k.env), NEW v,
           NEW f \in {"lowpri", "ipipending", "cpu_idle", "idx", "ridx"},
           f = "lowpri" => v \in Priority,
           f \in {"ipipending", "cpu_idle"} => v \in BOOLEAN,
           f \in {"idx", "ridx"} => v \in Index
    PROVE  /\ Still(k, [k EXCEPT !.tdq[c][f] = v])
           /\ f \notin {"ipipending", "cpu_idle"} => Quiet(k, [k EXCEPT !.tdq[c][f] = v])
<1> DEFINE q == [k EXCEPT !.tdq[c][f] = v]
<1>1. /\ DOMAIN q = {"td", "tdq", "cpu", "env"} /\ q.env = k.env /\ q.cpu = k.cpu
      /\ q.td = k.td /\ DOMAIN q.tdq = Cpus(k.env)
      /\ \A d \in Cpus(k.env) \ {c} : q.tdq[d] = k.tdq[d]
      /\ DOMAIN q.tdq[c] = TdqFields /\ q.tdq[c][f] = v
      /\ \A g \in TdqFields \ {f} : q.tdq[c][g] = k.tdq[c][g]
  BY DEF Typed, QueueType, TdqFields
<1> HIDE DEF q
<1>2. QueueType(q.tdq[c], k.env)
  BY <1>1 DEF Typed, QueueType, TdqFields, RunqNames
<1>3. Typed(q)
  BY <1>1, <1>2 DEF Typed
<1>4. SameQueue(k.tdq[c], q.tdq[c])
  BY <1>1 DEF SameQueue, TdqFields
<1>5. Still(k, q)
  BY <1>1, <1>3, <1>4 DEF Still, Calm, SameQueue, SameCpu
<1>6. ASSUME f \notin {"ipipending", "cpu_idle"} PROVE Quiet(k, q)
  <2>1. q.tdq[c].ipipending = k.tdq[c].ipipending /\ q.tdq[c].cpu_idle = k.tdq[c].cpu_idle
    BY <1>1, <1>6 DEF TdqFields
  <2>2. \A d \in Cpus(k.env) : SameSignals(k, q, d)
    BY <1>1, <2>1 DEF SameSignals
  <2> QED BY <1>1, <1>5, <2>2 DEF Quiet, Urgent
<1> QED BY <1>5, <1>6 DEF q

\* One field of a cpu.
LEMMA SetCpu ==
    ASSUME NEW k, Typed(k), NEW c \in Cpus(k.env), NEW v,
           NEW f \in {"owe", "ipi", "ipc", "mask", "from"},
           f \in {"owe", "ipi"} => v \in BOOLEAN, f = "from" => v \in Cpus(k.env)
    PROVE  /\ Still(k, [k EXCEPT !.cpu[c][f] = v])
           /\ (f = "ipi" => v = TRUE) /\ (f = "ipc" => v \notin Sleepy \/ v = k.cpu[c].ipc)
                => Quiet(k, [k EXCEPT !.cpu[c][f] = v])
<1> DEFINE q == [k EXCEPT !.cpu[c][f] = v]
<1>1. /\ DOMAIN q = {"td", "tdq", "cpu", "env"} /\ q.env = k.env /\ q.tdq = k.tdq
      /\ q.td = k.td /\ DOMAIN q.cpu = Cpus(k.env)
      /\ \A d \in Cpus(k.env) \ {c} : q.cpu[d] = k.cpu[d]
      /\ DOMAIN q.cpu[c] = CpuFields /\ q.cpu[c][f] = v
      /\ \A g \in CpuFields \ {f} : q.cpu[c][g] = k.cpu[c][g]
  BY DEF Typed, CpuType, CpuFields
<1> HIDE DEF q
<1>2. CpuType(q.cpu[c], k.env)
  BY <1>1 DEF Typed, CpuType, CpuFields
<1>3. Typed(q)
  BY <1>1, <1>2 DEF Typed
<1>4. SameCpu(k.cpu[c], q.cpu[c])
  BY <1>1 DEF SameCpu, CpuFields
<1>5. Still(k, q)
  BY <1>1, <1>3, <1>4 DEF Still, Calm, SameQueue, SameCpu
<1>6. ASSUME f = "ipi" => v = TRUE, f = "ipc" => v \notin Sleepy \/ v = k.cpu[c].ipc PROVE Quiet(k, q)
  <2>1. q.cpu[c].ipi = k.cpu[c].ipi \/ q.cpu[c].ipi = TRUE
    BY <1>1, <1>6 DEF CpuFields
  <2>2. q.cpu[c].ipc = k.cpu[c].ipc \/ q.cpu[c].ipc \notin Sleepy
    BY <1>1, <1>6 DEF CpuFields
  <2>3. \A d \in Cpus(k.env) : SameSignals(k, q, d)
    BY <1>1, <2>1, <2>2 DEF SameSignals
  <2> QED BY <1>1, <1>5, <2>3 DEF Quiet, Urgent
<1> QED BY <1>5, <1>6 DEF q

-----------------------------------------------------------------------------
(* Choosing a thread, and the steps that move none. *)

\* The better of two priorities.
LEMMA MinPriority ==
    ASSUME NEW a \in Priority, NEW b \in Priority
    PROVE  Min({a, b}) \in Priority
<1>1. {a, b} \in SUBSET Nat /\ {a, b} # {}
  BY DEF Priority, PRI_MAX_IDLE
<1>2. Min({a, b}) \in {a, b}
  BY <1>1, MinProperties
<1> QED BY <1>2

\* The head of a queue of rq, or NoThread if there is none.
HeadIn(rq, t) == IF DOMAIN rq = {} THEN t = NoThread
                                   ELSE \E i \in Index : t \in Holds(rq, i)

\* What runq_choose takes off a queue is on it.
LEMMA HeadOf ==
    ASSUME NEW T, NEW rq, Queues(rq, T), NEW i \in DOMAIN rq
    PROVE  \E j \in Index : FirstOf(rq, i) \in Holds(rq, j)
<1>1. i \in Index /\ i # -1 /\ rq[i] \in Seq(T) /\ rq[i] # << >>
  BY DEF Queues, Index
<1>2. 1 \in DOMAIN rq[i] /\ Head(rq[i]) = rq[i][1]
  BY <1>1
<1>3. FirstOf(rq, i) \in Holds(rq, i)
  BY <1>1, <1>2 DEF FirstOf, Holds, Range
<1> QED BY <1>1, <1>3

\* runq_findbit of a run queue with threads.
LEMMA LeastBit ==
    ASSUME NEW T, NEW rq, Queues(rq, T), NEW S \in SUBSET DOMAIN rq, S # {}
    PROVE  Min(S) \in S
<1>1. S \in SUBSET Nat
  BY QueuesAssumption DEF Queues, Index
<1> QED BY <1>1, MinProperties

\* runq_choose and runq_choose_from find a thread if there is one.
LEMMA ChooseIs ==
    ASSUME NEW T, NEW rq, Queues(rq, T), NEW n
    PROVE  HeadIn(rq, runq_choose(rq)) /\ HeadIn(rq, runq_choose_from(rq, n))
<1>1. CASE DOMAIN rq = {}
  <2>1. runq_findbit(rq) = -1 /\ runq_findbit_from(rq, n) = -1
    BY <1>1 DEF runq_findbit, runq_findbit_from
  <2> QED BY <1>1, <2>1 DEF HeadIn, runq_choose, runq_choose_from, FirstOf
<1>2. CASE DOMAIN rq # {}
  <2>1. runq_findbit(rq) \in DOMAIN rq
    BY <1>2, LeastBit DEF runq_findbit
  <2>2. runq_findbit_from(rq, n) \in DOMAIN rq
    <3> DEFINE after == {j \in DOMAIN rq : j >= n}
    <3>1. CASE after = {}
      BY <3>1, <2>1 DEF runq_findbit_from
    <3>2. CASE after # {}
      <4>1. after \in SUBSET DOMAIN rq
        OBVIOUS
      <4> HIDE DEF after
      <4>2. Min(after) \in after
        BY <4>1, <3>2, LeastBit
      <4>3. runq_findbit_from(rq, n) = Min(after)
        BY <3>2 DEF runq_findbit_from, after
      <4> QED BY <4>1, <4>2, <4>3
    <3> QED BY <3>1, <3>2
  <2> QED BY <1>2, <2>1, <2>2, HeadOf DEF HeadIn, runq_choose, runq_choose_from
<1> QED BY <1>1, <1>2

\* One of three, the first that is a thread.
FirstThread(f) ==
    LET some == {n \in 1 .. 3 : f[n] # NoThread}
    IN  IF some = {} THEN NoThread ELSE f[Min(some)]

\* The first of three candidates.
LEMMA FirstThreadIs ==
    ASSUME NEW a, NEW b, NEW d
    PROVE  LET r == FirstThread(<< a, b, d >>)
           IN  IF a = NoThread /\ b = NoThread /\ d = NoThread
               THEN r = NoThread ELSE r \in {a, b, d} /\ r # NoThread
<1> DEFINE f == << a, b, d >>
           some == {n \in 1 .. 3 : f[n] # NoThread}
<1>1. f[1] = a /\ f[2] = b /\ f[3] = d
  OBVIOUS
<1>2. CASE some = {}
  BY <1>1, <1>2 DEF FirstThread
<1>3. CASE some # {}
  <2>1. some \in SUBSET Nat
    OBVIOUS
  <2> HIDE DEF some
  <2>2. Min(some) \in some
    BY <2>1, <1>3, MinProperties
  <2>3. FirstThread(f) = f[Min(some)]
    BY <1>3 DEF FirstThread, some
  <2>4. Min(some) \in 1 .. 3 /\ f[Min(some)] # NoThread
    BY <2>2 DEF some
  <2> HIDE DEF f
  <2>5. FirstThread(f) \in {a, b, d} /\ FirstThread(f) # NoThread
    <3>1. Min(some) = 1 \/ Min(some) = 2 \/ Min(some) = 3
      BY <2>4
    <3> QED BY <1>1, <2>3, <2>4, <3>1
  <2> QED BY <1>1, <2>5 DEF f
<1> QED BY <1>2, <1>3

\* tdq_choose finds a thread of the cpu whenever it has one.
LEMMA ChooseQueued ==
    ASSUME NEW k, Typed(k), InPlace(k), NEW c \in Cpus(k.env)
    PROVE  IF tdq_choose(k, c) = NoThread THEN Queued(k, c) = {}
                                          ELSE tdq_choose(k, c) \in Queued(k, c)
<1> DEFINE q == k.tdq[c]
           a == runq_choose(q.realtime)
           b == runq_choose_from(q.timeshare, q.ridx)
           d == runq_choose(q.idle)
<1>1. \A name \in RunqNames : Queues(q[name], Threads(k.env))
  BY DEF Typed, QueueType
<1>2. HeadIn(q.realtime, a) /\ HeadIn(q.timeshare, b) /\ HeadIn(q.idle, d)
  BY <1>1, ChooseIs DEF RunqNames
<1>3. \A name \in RunqNames, i \in Index : Holds(q[name], i) \subseteq Queued(k, c)
  BY DEF InPlace, Listed
<1>4. NoThread \notin Queued(k, c)
  BY NoOne DEF Typed, Queued
<1>5. tdq_choose(k, c) = FirstThread(<< a, b, d >>)
  BY DEF tdq_choose, FirstThread
<1>6. /\ IF DOMAIN q.realtime = {} THEN a = NoThread ELSE a \in Queued(k, c)
      /\ IF DOMAIN q.timeshare = {} THEN b = NoThread ELSE b \in Queued(k, c)
      /\ IF DOMAIN q.idle = {} THEN d = NoThread ELSE d \in Queued(k, c)
  BY <1>2, <1>3 DEF HeadIn, RunqNames
<1>7. ASSUME \A name \in RunqNames : DOMAIN q[name] = {} PROVE Queued(k, c) = {}
  <2> SUFFICES ASSUME NEW t \in Queued(k, c) PROVE FALSE
    OBVIOUS
  <2>1. k.td[t].runq \in RunqNames /\ k.td[t].rqindex \in Index /\ t \in Threads(k.env)
    BY DEF Queued, Typed, ThreadType
  <2>2. t \in Holds(q[k.td[t].runq], k.td[t].rqindex)
    BY <2>1 DEF InPlace, Listed
  <2> QED BY <1>7, <2>1, <2>2 DEF Holds
<1> HIDE DEF a, b, d
<1>8. CASE a = NoThread /\ b = NoThread /\ d = NoThread
  <2>1. \A name \in RunqNames : DOMAIN q[name] = {}
    BY <1>4, <1>6, <1>8 DEF RunqNames
  <2> QED BY <1>5, <1>7, <1>8, <2>1, FirstThreadIs
<1>9. CASE ~(a = NoThread /\ b = NoThread /\ d = NoThread)
  BY <1>4, <1>5, <1>6, <1>9, FirstThreadIs
<1> QED BY <1>8, <1>9

\* The priority a cpu runs at.
LEMMA CurPriIs ==
    ASSUME NEW k, Typed(k), NEW c \in Cpus(k.env)
    PROVE  CurPri(k, c) \in Priority
<1>1. k.cpu[c].cur = NoThread \/ k.cpu[c].cur \in Threads(k.env)
  BY DEF Typed, CpuType
<1>2. PRI_MAX_IDLE \in Priority
  BY DEF Priority, PRI_MAX_IDLE
<1>3. k.cpu[c].cur \in Threads(k.env) => k.td[k.cpu[c].cur].pri \in Priority
  BY DEF Typed, ThreadType
<1> QED BY <1>1, <1>2, <1>3 DEF CurPri

\* tdq_setlowpri changes only lowpri.
LEMMA SetlowpriQuiet ==
    ASSUME NEW k, Typed(k), InPlace(k), NEW c \in Cpus(k.env), NEW cpri \in Priority
    PROVE  Quiet(k, tdq_setlowpri(k, c, cpri))
<1> DEFINE t == tdq_choose(k, c)
           v == IF t = NoThread THEN cpri ELSE Min({cpri, k.td[t].pri})
<1>1. t = NoThread \/ t \in Threads(k.env)
  BY ChooseQueued DEF Queued
<1>2. v \in Priority
  <2> HIDE DEF t
  <2>1. t # NoThread => k.td[t].pri \in Priority
    BY <1>1 DEF Typed, ThreadType
  <2> QED BY <2>1, MinPriority
<1>3. tdq_setlowpri(k, c, cpri) = [k EXCEPT !.tdq[c].lowpri = v]
  BY DEF tdq_setlowpri
<1> HIDE DEF v, t
<1>4. Quiet(k, [k EXCEPT !.tdq[c].lowpri = v])
  BY <1>2, SetQueue
<1> QED BY <1>3, <1>4

\* ipi_cpu only sends an interrupt.
LEMMA IpiQuiet ==
    ASSUME NEW k, Typed(k), NEW c \in Cpus(k.env)
    PROVE  Quiet(k, ipi_cpu(k, c))
BY SetCpu DEF ipi_cpu

\* tdq_notify only sends an interrupt or wakes a cpu.
LEMMA NotifyQuiet ==
    ASSUME NEW k, Typed(k), NEW c \in Cpus(k.env), NEW t
    PROVE  Quiet(k, tdq_notify(k, c, t))
<1>1. Quiet(k, k)
  BY QuietSelf
<1>2. Quiet(k, cpu_idle_wakeup(k, c))
  <2> DEFINE v == IF k.cpu[c].ipc \in {"armed", "asleep"} THEN "awake" ELSE k.cpu[c].ipc
  <2>1. v \notin Sleepy \/ v = k.cpu[c].ipc
    BY DEF Sleepy
  <2>2. cpu_idle_wakeup(k, c) = [k EXCEPT !.cpu[c].ipc = v]
    BY DEF cpu_idle_wakeup
  <2> HIDE DEF v
  <2>3. Quiet(k, [k EXCEPT !.cpu[c].ipc = v])
    BY <2>1, SetCpu
  <2> QED BY <2>2, <2>3
<1>3. Quiet(k, ipi_cpu([k EXCEPT !.tdq[c].ipipending = TRUE], c))
  <2> DEFINE q == [k EXCEPT !.tdq[c].ipipending = TRUE]
             r == [q EXCEPT !.cpu[c].ipi = TRUE]
  <2>1. Still(k, q)
    BY SetQueue
  <2>2. /\ q.cpu = k.cpu /\ q.td = k.td /\ q.tdq[c].cpu_idle = k.tdq[c].cpu_idle
        /\ \A d \in Cpus(k.env) \ {c} : q.tdq[d] = k.tdq[d]
    BY DEF Typed, QueueType, TdqFields
  <2> HIDE DEF q
  <2>3. Typed(q) /\ q.env = k.env
    BY <2>1 DEF Still
  <2>4. Still(q, r)
    BY <2>3, SetCpu
  <2>5. /\ r.tdq = q.tdq /\ r.td = q.td
        /\ r.cpu[c].ipc = q.cpu[c].ipc /\ r.cpu[c].ipi
        /\ \A d \in Cpus(k.env) \ {c} : r.cpu[d] = q.cpu[d]
    BY <2>3 DEF Typed, CpuType, CpuFields
  <2> HIDE DEF r
  <2>6. \A d \in Cpus(k.env) : SameSignals(k, r, d)
    <3>1. SameSignals(k, r, c)
      BY <2>2, <2>5 DEF SameSignals
    <3>2. \A d \in Cpus(k.env) \ {c} : SameSignals(k, r, d)
      BY <2>2, <2>5 DEF SameSignals
    <3> QED BY <3>1, <3>2
  <2>7. Quiet(k, r)
    BY <2>1, <2>2, <2>4, <2>5, <2>6, StillTwice DEF Quiet, Urgent
  <2> QED BY <2>7 DEF q, r, ipi_cpu
<1> QED BY <1>1, <1>2, <1>3 DEF tdq_notify

\* sched_setpreempt only asks for a switch.
LEMMA SetpreemptQuiet ==
    ASSUME NEW k, Typed(k), NEW c \in Cpus(k.env), NEW t
    PROVE  Quiet(k, sched_setpreempt(k, c, t))
<1> DEFINE ctd  == Self(k, c)
           flag == IF ctd # NoThread /\ k.td[t].pri < CurPri(k, c)
                   THEN [k EXCEPT !.td[ctd].needresched = TRUE] ELSE k
<1>1. Quiet(k, flag)
  <2>1. ctd # NoThread => ctd \in Threads(k.env)
    BY DEF Typed, CpuType, Self
  <2>2. ctd # NoThread => Quiet(k, [k EXCEPT !.td[ctd].needresched = TRUE])
    <3> HIDE DEF ctd
    <3> QED BY <2>1, SetThread
  <2> QED BY <2>2, QuietSelf
<1>2. sched_setpreempt(k, c, t) = flag
      \/ sched_setpreempt(k, c, t) = [flag EXCEPT !.cpu[c].owe = TRUE]
  BY DEF sched_setpreempt
<1> HIDE DEF flag
<1>3. Typed(flag) /\ flag.env = k.env
  BY <1>1 DEF Quiet, Still
<1>4. Quiet(flag, [flag EXCEPT !.cpu[c].owe = TRUE])
  BY <1>3, SetCpu
<1> QED BY <1>1, <1>2, <1>4, QuietTwice, ZenonT(60)

\* sched_priority changes only user priorities.
LEMMA PriorityQuiet ==
    ASSUME NEW k, Typed(k), NEW t \in Threads(k.env), NEW q \in sched_priority(k, t)
    PROVE  Quiet(k, q)
<1>1. CASE ~Timeshare(k, t)
  BY <1>1, QuietSelf DEF sched_priority
<1>2. CASE Timeshare(k, t)
  <2>1. PICK p \in k.env.prios : q = sched_user_prio(k, t, p)
    BY <1>2 DEF sched_priority
  <2>2. p \in Priority
    BY ScenesAssumption DEF Typed, Priority
  <2> DEFINE v == IF k.td[t].lend_user <= p THEN k.td[t].user ELSE p
             r == [k EXCEPT !.td[t].base_user = p]
  <2>3. v \in Priority
    BY <2>2 DEF Typed, ThreadType
  <2>4. q = [r EXCEPT !.td[t].user = v]
    BY <2>1 DEF sched_user_prio, Typed, ThreadType, TdFields
  <2>5. Quiet(k, r)
    BY <2>2, SetThread
  <2> HIDE DEF r, v
  <2>6. Typed(r) /\ t \in Threads(r.env)
    BY <2>5 DEF Quiet, Still
  <2>7. Quiet(r, [r EXCEPT !.td[t].user = v])
    BY <2>3, <2>6, SetThread
  <2> QED BY <2>4, <2>5, <2>7, QuietTwice
<1> QED BY <1>1, <1>2

-----------------------------------------------------------------------------
(* A cpu begins to work, and is done. *)

\* A cpu begins: it knows its own thread, and the one it moves, to be no
\* one else's.
LEMMA Enter ==
    ASSUME NEW k, Full(k), NEW c \in Cpus(k.env)
    PROVE  /\ Good(k, c, Extra(k, c)) /\ Owner(k, c)
           /\ Moving(k, c) => Unowned(k, c, k.cpu[c].op.td)
           /\ Busy(k, c) => Unowned(k, c, k.cpu[c].cur)
           /\ Rests(k, c, NoThread)
<1>1. Typed(k) /\ NoCpu \notin Cpus(k.env) /\ Cpus(k.env) \ {NoCpu} = Cpus(k.env)
  BY NoOne DEF Full, Good, GoodBut, SoundBut, Core, Typed
<1>2. Loads(k, c, Extra(k, c)) = Loads(k, NoCpu, 0)
  BY <1>1 DEF Loads
<1>3. Others(k, c) /\ \A d \in Cpus(k.env) : Owner(k, d)
  BY <1>1 DEF Full, Good, GoodBut, SoundBut, Others
<1>4. Good(k, c, Extra(k, c))
  <2>1. SoundBut(k, c, Extra(k, c), NoThread)
    BY <1>2, <1>3 DEF Full, Good, GoodBut, SoundBut, Extra
  <2>2. Alert(k, c, NoThread)
    BY <1>1 DEF Full, Good, GoodBut, Alert
  <2> QED BY <2>1, <2>2 DEF Good, GoodBut
<1>5. ASSUME Moving(k, c) PROVE Unowned(k, c, k.cpu[c].op.td)
  <2> SUFFICES ASSUME NEW d \in Cpus(k.env) \ {c}
               PROVE  /\ Busy(k, d) => k.cpu[d].cur # k.cpu[c].op.td
                      /\ Moving(k, d) => k.cpu[d].op.td # k.cpu[c].op.td
    BY DEF Unowned
  <2>1. Busy(k, d) => k.cpu[d].cur # k.cpu[c].op.td
    <3>1. Owner(k, d) /\ Owner(k, c)
      BY <1>3
    <3> QED BY <1>5, <3>1 DEF Owner
  <2>2. Moving(k, d) => k.cpu[d].op.td # k.cpu[c].op.td
    <3>1. d \in Cpus(k.env) \ {NoCpu, c} /\ c \in Cpus(k.env) \ {NoCpu}
      BY <1>1
    <3> QED BY <1>5, <3>1 DEF Full, Good, GoodBut, SoundBut, Others
  <2> QED BY <2>1, <2>2
<1>6. ASSUME Busy(k, c) PROVE Unowned(k, c, k.cpu[c].cur)
  BY <1>3, <1>6, UnownedWhen DEF Owner
<1>7. Rests(k, c, NoThread)
  BY <1>1 DEF Full, Good, GoodBut, Alert
<1> QED BY <1>3, <1>4, <1>5, <1>6, <1>7

\* It is done: its thread, and the one it moves, are as the others expect, and
\* it does not sleep on work.
LEMMA Leave ==
    ASSUME NEW k, NEW c \in Cpus(k.env), Good(k, c, Extra(k, c)), Owner(k, c),
           Moving(k, c) => Unowned(k, c, k.cpu[c].op.td), Rests(k, c, NoThread)
    PROVE  Full(k)
<1>1. Typed(k) /\ NoCpu \notin Cpus(k.env) /\ Cpus(k.env) \ {NoCpu} = Cpus(k.env)
  BY NoOne DEF Good, GoodBut, SoundBut, Core, Typed
<1>2. Loads(k, c, Extra(k, c)) = Loads(k, NoCpu, 0)
  BY <1>1 DEF Loads
<1>3. Others(k, NoCpu)
  <2>1. \A d \in Cpus(k.env) : Owner(k, d)
    BY DEF Good, GoodBut, SoundBut, Others
  <2>2. ASSUME NEW d \in Cpus(k.env), Moving(k, d),
               NEW e \in Cpus(k.env), e # d, Moving(k, e)
        PROVE  k.cpu[e].op.td # k.cpu[d].op.td
    <3>1. CASE d # c /\ e # c
      BY <2>2, <3>1 DEF Good, GoodBut, SoundBut, Others
    <3>2. CASE d = c
      BY <2>2, <3>2 DEF Unowned
    <3>3. CASE e = c
      BY <2>2, <3>3 DEF Unowned
    <3> QED BY <3>1, <3>2, <3>3
  <2> QED BY <1>1, <2>1, <2>2 DEF Others
<1>4. Alert(k, NoCpu, NoThread)
  BY DEF Good, GoodBut, Alert
<1> QED BY <1>2, <1>3, <1>4 DEF Full, Good, GoodBut, SoundBut

-----------------------------------------------------------------------------
(* Adding, removing and moving a thread, and switching to one. *)

\* Of a queue operation on t the others see nothing.
LEMMA OnlyThreadOthers ==
    ASSUME NEW k, NEW c, Others(k, c), Typed(k), NEW t, Unowned(k, c, t),
           NEW q, OnlyThread(k, q, t), NEW n
    PROVE  Others(q, c) /\ Loads(q, c, n) = Loads(k, c, n)
<1>1. \A d \in Cpus(k.env) \ {c} : SameCpu(k.cpu[d], q.cpu[d])
  BY DEF OnlyThread, SameCpu
<1>2. \A u \in Threads(k.env) : OwnedSame(k.td[u], q.td[u]) \/ Unowned(k, c, u)
  BY DEF OnlyThread, OwnedSame
<1>3. q.env = k.env
  BY DEF OnlyThread
<1>4. /\ Others(q, c)
      /\ \A d \in Cpus(k.env) \ {c} : Extra(q, d) = Extra(k, d)
  <2>1. LeavesOthers(k, q, c)
    BY ONLY <1>1, <1>2, <1>3 DEF LeavesOthers
  <2> QED BY ONLY Others(k, c), Typed(k), <2>1, OthersKept
<1> QED BY ONLY <1>3, <1>4, LoadsKept

\* The cpus stay alert when t is taken off a queue, put on that of the cpu at
\* work, or still to be told of.
LEMMA OnlyThreadAlert ==
    ASSUME NEW k, NEW c, NEW s, Alert(k, c, s), NEW t, NEW q, OnlyThread(k, q, t),
           q.td[t].state = "runq" => q.td[t].cpu = c \/ s = t
    PROVE  Alert(q, c, s)
<1>1. q.env = k.env /\ \A d \in Cpus(k.env) : q.cpu[d] = k.cpu[d]
  BY DEF OnlyThread
<1>2. \A d \in Cpus(k.env) : SameSignals(k, q, d)
  BY <1>1 DEF OnlyThread, SameFlags, SameSignals
<1>3. \A d \in Cpus(k.env) \ {c} : SameCpu(k.cpu[d], q.cpu[d])
  BY <1>1 DEF SameCpu
<1>4. ASSUME NEW u \in Threads(k.env) \ {s}, Urgent(q, u)
      PROVE  q.td[u].cpu = c \/ (Urgent(k, u) /\ q.td[u].cpu = k.td[u].cpu)
  BY <1>4 DEF OnlyThread, Urgent
<1> HIDE DEF Alert
<1> QED BY <1>1, <1>2, <1>3, <1>4, AlertKept

\* One thread more to be told of is no harm.
LEMMA AlertBut ==
    ASSUME NEW k, k.env \in Scenes, NEW c, Alert(k, c, NoThread), NEW t
    PROVE  Alert(k, c, t)
<1>1. Threads(k.env) \ {t} \subseteq Threads(k.env) \ {NoThread}
  BY NoOne
<1> QED BY <1>1 DEF Alert, Rests

\* tdq_runq_add puts the thread back that the cpu at work was running.
LEMMA RunqAddGood ==
    ASSUME NEW k, NEW c \in Cpus(k.env), NEW n, Good(k, c, n), NEW t \in Threads(k.env),
           k.td[t].cpu = c, k.td[t].state # "runq", Unowned(k, c, t), Allowed(k, t),
           NEW flags, NEW slot \in Slots(k, t)
    PROVE  LET q == tdq_runq_add(k, c, t, flags, slot)
           IN  Good(q, c, n - 1) /\ OnlyThread(k, q, t) /\ q.td[t].state = "runq"
<1> DEFINE q == tdq_runq_add(k, c, t, flags, slot)
           x == Loads(k, c, n)
<1>1. Core(k, x) /\ Others(k, c) /\ QueuedBut(k, NoThread) /\ n \in Int /\ Typed(k)
      /\ Alert(k, c, NoThread)
  BY DEF Good, GoodBut, SoundBut, Core
<1>2. /\ Core(q, [x EXCEPT ![c] = @ - 1]) /\ OnlyThread(k, q, t) /\ q.td[t].state = "runq"
  <2> HIDE DEF x
  <2> QED BY <1>1, RunqAddCore
<1> HIDE DEF q
<1>3. Others(q, c) /\ Loads(q, c, n - 1) = Loads(k, c, n - 1) /\ q.env = k.env
  BY <1>1, <1>2, OnlyThreadOthers DEF OnlyThread
<1>4. [x EXCEPT ![c] = @ - 1] = Loads(k, c, n - 1)
  BY DEF Loads
<1>5. QueuedBut(q, NoThread)
  BY <1>1, <1>2 DEF QueuedBut, OnlyThread, Allowed
<1>6. Good(q, c, n - 1)
  <2>1. SoundBut(q, c, n - 1, NoThread)
    BY <1>1, <1>2, <1>3, <1>4, <1>5 DEF SoundBut
  <2>2. q.td[t].cpu = c
    BY <1>2 DEF OnlyThread
  <2>3. Alert(q, c, NoThread)
    BY <1>1, <1>2, <2>2, OnlyThreadAlert
  <2> QED BY <2>1, <2>3 DEF Good, GoodBut
<1> QED BY <1>2, <1>6 DEF q

\* tdq_add: the load counts a queued thread more, and nothing else; its cpu,
\* if it is another one, has not been told.
LEMMA AddGood ==
    ASSUME NEW k, NEW c, NEW n, Good(k, c, n), NEW d \in Cpus(k.env), NEW t \in Threads(k.env),
           k.td[t].cpu = d, k.td[t].state # "runq", Unowned(k, c, t), Allowed(k, t),
           NEW flags, NEW slot \in Slots(k, t)
    PROVE  LET q == tdq_add(k, d, t, flags, slot)
           IN  /\ SoundBut(q, c, n, NoThread) /\ Alert(q, c, t) /\ (d = c => Good(q, c, n))
               /\ OnlyThread(k, q, t) /\ q.td[t].state = "runq"
<1> DEFINE x  == Loads(k, c, n)
           v  == Min({k.tdq[d].lowpri, k.td[t].pri})
           k1 == [k EXCEPT !.tdq[d].lowpri = v]
           k2 == tdq_runq_add(k1, d, t, flags, slot)
           q  == [k2 EXCEPT !.tdq[d].load = @ + 1]
<1>1. Core(k, x) /\ Others(k, c) /\ QueuedBut(k, NoThread) /\ n \in Int /\ Typed(k)
      /\ Alert(k, c, NoThread)
  BY DEF Good, GoodBut, SoundBut, Core
<1>2. tdq_add(k, d, t, flags, slot) = q
  BY DEF tdq_add, tdq_load_add
<1>3. Quiet(k, k1)
  <2>1. v \in Priority
    BY <1>1, MinPriority DEF Typed, ThreadType, QueueType
  <2> HIDE DEF v
  <2> QED BY <1>1, <2>1, SetQueue
<1>4. k1.td = k.td /\ k1.cpu = k.cpu /\ k1.env = k.env /\ SameFlags(k, k1)
  BY <1>1 DEF Typed, QueueType, TdqFields, SameFlags
<1> HIDE DEF x, k1
<1>5. Core(k1, x)
  <2>1. SameShape(k, k1)
    BY <1>3, QuietIsHarmless DEF Harmless, Gentle
  <2> QED BY <1>1, <2>1, ShapeKeepsCore
<1>6. /\ Core(k2, [x EXCEPT ![d] = @ - 1]) /\ OnlyThread(k1, k2, t) /\ k2.td[t].state = "runq"
  <2>1. slot \in Slots(k1, t)
    BY <1>4 DEF Slots
  <2> HIDE DEF k2
  <2> QED BY <1>4, <1>5, <2>1, RunqAddCore DEF k2
<1> HIDE DEF k2
<1>7. k2.env = k.env /\ Typed(k2) /\ x \in [Cpus(k.env) -> Int]
  BY <1>1, <1>4, <1>6 DEF OnlyThread, Core
<1>8. Core(q, x)
  <2> DEFINE y == [x EXCEPT ![d] = @ - 1]
  <2>1. Core(k2, y)
    BY <1>6
  <2>2. [y EXCEPT ![d] = @ + 1] = x
    <3>1. x[d] \in Int /\ x[d] - 1 + 1 = x[d] /\ DOMAIN x = Cpus(k.env)
      BY <1>7
    <3>2. y = [e \in Cpus(k.env) |-> IF e = d THEN x[d] - 1 ELSE x[e]]
      BY <3>1
    <3> HIDE DEF y
    <3>3. [y EXCEPT ![d] = @ + 1] = [e \in Cpus(k.env) |-> x[e]]
      BY <3>1, <3>2
    <3> QED BY <1>7, <3>3
  <2> HIDE DEF y
  <2> QED BY <1>7, <2>1, <2>2, LoadCore
<1>9. q.td = k2.td /\ q.cpu = k2.cpu /\ q.env = k2.env /\ SameFlags(k2, q)
  BY <1>7 DEF Typed, QueueType, TdqFields, SameFlags
<1> HIDE DEF q
<1>10. OnlyThread(k, q, t) /\ q.td[t].state = "runq"
  <2>1. SameFlags(k, q)
    BY <1>4, <1>6, <1>9 DEF OnlyThread, SameFlags
  <2> QED BY <1>4, <1>6, <1>9, <2>1 DEF OnlyThread
<1>11. Others(q, c) /\ Loads(q, c, n) = x
  BY <1>1, <1>10, OnlyThreadOthers DEF x
<1>12. QueuedBut(q, NoThread)
  BY <1>1, <1>10 DEF QueuedBut, OnlyThread, Allowed
<1>13. SoundBut(q, c, n, NoThread)
  BY <1>1, <1>8, <1>11, <1>12 DEF SoundBut
<1>14. Alert(q, c, t)
  <2>1. Alert(k, c, t)
    BY <1>1, AlertBut DEF Typed
  <2> QED BY <1>10, <2>1, OnlyThreadAlert
<1>15. ASSUME d = c PROVE Good(q, c, n)
  <2>1. q.td[t].cpu = c
    BY <1>10, <1>15 DEF OnlyThread
  <2>2. Alert(q, c, NoThread)
    BY <1>1, <1>10, <2>1, OnlyThreadAlert
  <2> QED BY <1>13, <2>2 DEF Good, GoodBut
<1> QED BY <1>2, <1>10, <1>13, <1>14, <1>15

\* sched_rem.
LEMMA RemGood ==
    ASSUME NEW k, NEW c, NEW n, NEW t \in Threads(k.env), GoodBut(k, c, n, t),
           k.td[t].state = "runq"
    PROVE  LET q == sched_rem(k, t)
           IN  /\ Good(q, c, n) /\ OnlyThread(k, q, t) /\ q.td[t].state = "canrun"
               /\ Unowned(q, c, t)
<1> DEFINE x   == Loads(k, c, n)
           d   == k.td[t].cpu
           out == tdq_load_rem(tdq_runq_rem([k EXCEPT !.td[t].state = "canrun"], d, t), d)
<1>1. /\ Core(k, x) /\ Others(k, c) /\ QueuedBut(k, t) /\ n \in Int
      /\ Typed(k) /\ InPlace(k) /\ x \in [Cpus(k.env) -> Int]
      /\ Alert(k, c, NoThread)
  BY DEF GoodBut, SoundBut, Core
<1>2. d \in Cpus(k.env) /\ t \in Queued(k, d)
  BY <1>1 DEF Typed, ThreadType, Queued
<1>3. TakenOff(k, out, d, t, "canrun", -1) /\ out.cpu = k.cpu
  <2> DEFINE name == k.td[t].runq
             k1   == [k EXCEPT !.td[t].state = "canrun"]
             v    == IF name = "timeshare" /\ k.tdq[d].idx # k.tdq[d].ridx
                     THEN AdvancedIdx(k.tdq[d].timeshare, t, k.td[t].rqindex, k.tdq[d].ridx)
                     ELSE k.tdq[d].ridx
             r    == runq_remove(k.tdq[d][name], t, k.td[t].rqindex)
             k2   == [k1 EXCEPT
                        !.td[t].xferable = 0,
                        !.tdq[d].transferable = @ - k.td[t].xferable,
                        !.tdq[d].ridx = v,
                        !.tdq[d][name] = r]
  <2>0. name \in RunqNames /\ k.td[t].rqindex \in Index
    BY <1>1 DEF Typed, ThreadType
  <2>1. v \in Index
    <3>1. k.tdq[d].ridx \in Index /\ RQ_NQS \in Nat \ {0}
      BY <1>1, <1>2, QueuesAssumption DEF Typed, QueueType
    <3>2. (k.td[t].rqindex + 1) % RQ_NQS \in Index
      BY <2>0, IndexMod DEF Index
    <3> QED BY <3>1, <3>2 DEF AdvancedIdx
  <2>2. /\ DOMAIN k1 = {"td", "tdq", "cpu", "env"} /\ k1.env = k.env /\ k1.cpu = k.cpu
        /\ k1.tdq = k.tdq /\ DOMAIN k1.td = Threads(k.env) /\ DOMAIN k1.td[t] = TdFields
        /\ \A u \in Threads(k.env) \ {t} : k1.td[u] = k.td[u]
        /\ k1.td[t].state = "canrun"
        /\ \A f \in TdFields \ {"state"} : k1.td[t][f] = k.td[t][f]
    BY <1>1 DEF Typed, ThreadType, TdFields
  <2>3. tdq_runq_rem(k1, d, t) = k2
    <3> HIDE DEF k1
    <3>1. /\ k1.td[t].xferable = k.td[t].xferable /\ k1.td[t].runq = name
          /\ k1.td[t].rqindex = k.td[t].rqindex
      BY <2>2 DEF TdFields
    <3> QED BY <2>2, <3>1 DEF tdq_runq_rem
  <2>4. out = [k2 EXCEPT !.tdq[d].load = @ - 1]
    BY <2>3 DEF tdq_load_rem
  <2>a. DOMAIN k.td = Threads(k.env) /\ DOMAIN k.tdq = Cpus(k.env) /\ DOMAIN k.tdq[d] = TdqFields
    BY <1>1, <1>2 DEF Typed, QueueType
  <2> HIDE DEF v, r, name, out, d, k1
  <2>5. /\ DOMAIN k2 = {"td", "tdq", "cpu", "env"} /\ k2.env = k.env /\ k2.cpu = k.cpu
        /\ DOMAIN k2.td = DOMAIN k.td /\ DOMAIN k2.tdq = DOMAIN k.tdq
        /\ \A u \in Threads(k.env) \ {t} : k2.td[u] = k.td[u]
        /\ DOMAIN k2.td[t] = TdFields /\ k2.td[t].state = "canrun" /\ k2.td[t].xferable = 0
        /\ \A f \in TdFields \ {"state", "xferable"} : k2.td[t][f] = k.td[t][f]
    BY <2>2, <2>a DEF TdFields
  <2>6. /\ \A e \in Cpus(k.env) \ {d} : k2.tdq[e] = k.tdq[e]
        /\ DOMAIN k2.tdq[d] = TdqFields
        /\ k2.tdq[d].transferable = k.tdq[d].transferable - k.td[t].xferable
        /\ k2.tdq[d].ridx = v /\ k2.tdq[d][name] = r
        /\ \A f \in TdqFields \ {"transferable", "ridx", name} : k2.tdq[d][f] = k.tdq[d][f]
    BY <1>2, <2>0, <2>2, <2>a DEF TdqFields, RunqNames
  <2> HIDE DEF k2
  <2>7. /\ DOMAIN out = {"td", "tdq", "cpu", "env"} /\ out.env = k2.env /\ out.cpu = k2.cpu
        /\ out.td = k2.td /\ DOMAIN out.tdq = DOMAIN k2.tdq
        /\ \A e \in Cpus(k.env) \ {d} : out.tdq[e] = k2.tdq[e]
        /\ DOMAIN out.tdq[d] = TdqFields /\ out.tdq[d].load = k2.tdq[d].load - 1
        /\ \A f \in TdqFields \ {"load"} : out.tdq[d][f] = k2.tdq[d][f]
    BY <1>1, <1>2, <2>4, <2>5, <2>6 DEF Typed, TdqFields
  <2>8. k.tdq[d].lowpri \in Priority
    BY <1>1, <1>2 DEF Typed, QueueType
  <2>9. /\ out.tdq[d].load = k.tdq[d].load + -1
        /\ out.tdq[d].transferable = k.tdq[d].transferable - k.td[t].xferable
        /\ out.tdq[d].lowpri \in Priority /\ out.tdq[d].ridx \in Index
        /\ out.tdq[d][name] = r
        /\ \A f \in TdqFields \ {"load", "transferable", "lowpri", "ridx", name} :
              out.tdq[d][f] = k.tdq[d][f]
    BY <1>1, <1>2, <2>0, <2>1, <2>6, <2>7, <2>8 DEF TdqFields, RunqNames, Typed, QueueType
  <2> QED BY <1>1, <2>5, <2>6, <2>7, <2>9 DEF TakenOff, Typed, name, r
<1> HIDE DEF out, d
<1>4. Core(out, x)
  <2>1. [x EXCEPT ![d] = @ + 1 + -1] = x
    <3>1. x[d] \in Int /\ x[d] + 1 + -1 = x[d] /\ x = [e \in Cpus(k.env) |-> x[e]]
      BY <1>1, <1>2
    <3> HIDE DEF x
    <3> QED BY <3>1
  <2> HIDE DEF x
  <2> QED BY <1>1, <1>2, <1>3, <2>1, TakenOffCore
<1>5. OnlyThread(k, out, t) /\ out.td[t].state = "canrun"
  <2>1. SameFlags(k, out)
    <3>1. k.td[t].runq \in RunqNames
      BY <1>1 DEF Typed, ThreadType
    <3> QED BY <1>3, <3>1 DEF SameFlags, TakenOff, TdqFields, RunqNames
  <2> QED BY <1>3, <2>1 DEF OnlyThread, TakenOff, TdFields
<1>6. /\ Core(sched_rem(k, t), x) /\ OnlyThread(k, sched_rem(k, t), t)
      /\ sched_rem(k, t).td[t].state = "canrun"
  <2>1. sched_rem(k, t) = IF k.td[t].pri = k.tdq[d].lowpri
                          THEN tdq_setlowpri(out, d, CurPri(out, d)) ELSE out
    BY DEF sched_rem, out, d
  <2> DEFINE q == tdq_setlowpri(out, d, CurPri(out, d))
  <2>2. Typed(out) /\ InPlace(out) /\ d \in Cpus(out.env)
    BY <1>2, <1>4, <1>5 DEF Core, OnlyThread
  <2>3. Quiet(out, q)
    BY <2>2, CurPriIs, SetlowpriQuiet
  <2>4. q.td = out.td /\ q.cpu = out.cpu /\ q.env = out.env /\ SameFlags(out, q)
    BY <2>2 DEF tdq_setlowpri, Typed, QueueType, TdqFields, SameFlags
  <2> HIDE DEF q
  <2>5. SameShape(out, q)
    BY <2>3, QuietIsHarmless DEF Harmless, Gentle
  <2>6. Core(q, x)
    <3> HIDE DEF x
    <3> QED BY <1>4, <2>5, ShapeKeepsCore
  <2>7. OnlyThread(k, q, t) /\ q.td[t].state = "canrun"
    <3>1. SameFlags(k, q)
      BY <1>5, <2>4 DEF OnlyThread, SameFlags
    <3> QED BY <1>5, <2>4, <3>1 DEF OnlyThread
  <2> QED BY <1>4, <1>5, <2>1, <2>6, <2>7 DEF q
<1> DEFINE q == sched_rem(k, t)
<1> HIDE DEF q
<1>7. Core(q, x) /\ OnlyThread(k, q, t) /\ q.td[t].state = "canrun" /\ q.env = k.env
  BY <1>6 DEF q, OnlyThread
<1>8. Unowned(k, c, t)
  BY <1>1, UnownedWhen
<1>9. Others(q, c) /\ Loads(q, c, n) = x
  BY <1>1, <1>7, <1>8, OnlyThreadOthers DEF x
<1>10. QueuedBut(q, NoThread)
  BY <1>1, <1>7 DEF QueuedBut, OnlyThread, Allowed
<1>11. Unowned(q, c, t)
  BY <1>7, <1>8 DEF Unowned, Busy, Moving, OnlyThread
<1>12. Good(q, c, n)
  <2>1. SoundBut(q, c, n, NoThread)
    BY <1>1, <1>7, <1>9, <1>10 DEF SoundBut
  <2>2. Alert(q, c, NoThread)
    BY <1>1, <1>7, OnlyThreadAlert
  <2> QED BY <2>1, <2>2 DEF Good, GoodBut
<1> QED BY <1>7, <1>11, <1>12 DEF q

\* Writing the state, place, mask or pin of a thread that no queue holds.
ButThread(k, q, t) ==
    q.env = k.env /\ q.cpu = k.cpu /\ \A u \in Threads(k.env) \ {t} : q.td[u] = k.td[u]
Rewrites(k, q, t) ==
    /\ Typed(q) /\ ButThread(k, q, t) /\ q.tdq = k.tdq
    /\ k.td[t].state # "runq" /\ q.td[t].state # "runq" /\ q.td[t].xferable = k.td[t].xferable

\* Of that the others see nothing, if t is not theirs.
LEMMA RewriteGood ==
    ASSUME NEW k, NEW c, NEW n, NEW s, GoodBut(k, c, n, s), NEW t, Unowned(k, c, t),
           NEW q, Rewrites(k, q, t)
    PROVE  GoodBut(q, c, n, s) /\ Unowned(q, c, t)
<1>1. Harmless(k, q, c)
  <2>1. SameShape(k, q)
    BY DEF Rewrites, ButThread, SameShape, SameThread, SameQueue
  <2>2. \A d \in Cpus(k.env) : SameSignals(k, q, d)
    BY DEF Rewrites, ButThread, SameSignals
  <2>3. \A u \in Threads(k.env) : Urgent(q, u) => Urgent(k, u)
    BY DEF Rewrites, ButThread, Urgent
  <2> QED BY <2>1, <2>2, <2>3 DEF Rewrites, ButThread, Harmless, Gentle, OwnedSame, SameCpu
<1>2. Unowned(q, c, t)
  BY DEF Unowned, Rewrites, ButThread, Busy, Moving
<1> QED BY <1>1, <1>2, HarmlessKeeps

OwnField(f, v, e) ==
    \/ f = "state" /\ v \in {"dead", "new", "sleep", "canrun", "run"}
    \/ f = "cpu" /\ v \in Cpus(e)
    \/ f = "mask" /\ v \subseteq Cpus(e)
    \/ f = "pinned" /\ v \in 0 .. 1

WithOwn(k, t, f, v) == [k EXCEPT !.td[t][f] = v]

\* One such field.
LEMMA SetOwn ==
    ASSUME NEW k, Typed(k), NEW t \in Threads(k.env), k.td[t].state # "runq",
           NEW v, NEW f, OwnField(f, v, k.env)
    PROVE  LET q == WithOwn(k, t, f, v)
           IN  /\ Rewrites(k, q, t) /\ q.td[t][f] = v
               /\ \A g \in TdFields \ {f} : q.td[t][g] = k.td[t][g]
<1> DEFINE q == [k EXCEPT !.td[t][f] = v]
<1>0. f \in {"state", "cpu", "mask", "pinned"} /\ f \in TdFields
  BY DEF OwnField, TdFields
<1>1. /\ DOMAIN q = {"td", "tdq", "cpu", "env"} /\ q.env = k.env /\ q.cpu = k.cpu
      /\ q.tdq = k.tdq /\ DOMAIN q.td = Threads(k.env)
      /\ \A u \in Threads(k.env) \ {t} : q.td[u] = k.td[u]
      /\ DOMAIN q.td[t] = TdFields /\ q.td[t][f] = v
      /\ \A g \in TdFields \ {f} : q.td[t][g] = k.td[t][g]
  BY <1>0 DEF Typed, ThreadType, TdFields
<1> HIDE DEF q
<1>2. ThreadType(q.td[t], k.env)
  BY <1>0, <1>1 DEF OwnField, Typed, ThreadType, TdFields
<1>3. Typed(q)
  BY <1>1, <1>2 DEF Typed
<1>4. q.td[t].state # "runq" /\ q.td[t].xferable = k.td[t].xferable
  BY <1>0, <1>1 DEF TdFields, OwnField
<1> QED BY <1>1, <1>3, <1>4 DEF Rewrites, ButThread, q, WithOwn

\* tdq_move; the cpu the thread moves to, if it is another one, has not been
\* told.
LEMMA MoveGood ==
    ASSUME NEW k, NEW c, NEW n, Good(k, c, n), NEW t \in Threads(k.env),
           k.td[t].state = "runq", NEW d \in Cpus(k.env), CanSched(k, t, d),
           NEW q \in tdq_move(k, t, d)
    PROVE  /\ SoundBut(q, c, n, NoThread) /\ Alert(q, c, t) /\ (d = c => Good(q, c, n))
           /\ ButThread(k, q, t) /\ q.td[t].state = "runq" /\ q.td[t].cpu = d
<1> DEFINE k1 == sched_rem(k, t)
           k2 == [k1 EXCEPT !.td[t].cpu = d]
<1>1. PICK slot \in Slots(k, t) : q = tdq_add(k2, d, t, {"YIELDING"}, slot)
  BY DEF tdq_move
<1>2. GoodBut(k, c, n, t)
  <2>1. QueuedBut(k, NoThread) /\ NoThread \notin Threads(k.env)
    BY NoOne DEF Good, GoodBut, SoundBut, Core, Typed
  <2>2. QueuedBut(k, t)
    BY <2>1 DEF QueuedBut
  <2> QED BY <2>2 DEF Good, GoodBut, SoundBut
<1>3. Good(k1, c, n) /\ OnlyThread(k, k1, t) /\ k1.td[t].state = "canrun" /\ Unowned(k1, c, t)
  BY <1>2, RemGood
<1> HIDE DEF k1
<1>4. Typed(k1) /\ k1.env = k.env
  BY <1>3 DEF Good, GoodBut, SoundBut, Core, OnlyThread
<1>5. /\ Rewrites(k1, k2, t) /\ k2.td[t].cpu = d
      /\ \A g \in TdFields \ {"cpu"} : k2.td[t][g] = k1.td[t][g]
  <2>1. t \in Threads(k1.env) /\ k1.td[t].state # "runq" /\ d \in Cpus(k1.env)
    BY <1>3, <1>4
  <2>2. OwnField("cpu", d, k1.env)
    BY <2>1 DEF OwnField
  <2>3. k2 = WithOwn(k1, t, "cpu", d)
    BY DEF WithOwn
  <2>4. /\ Rewrites(k1, WithOwn(k1, t, "cpu", d), t)
        /\ WithOwn(k1, t, "cpu", d).td[t]["cpu"] = d
        /\ \A g \in TdFields \ {"cpu"} : WithOwn(k1, t, "cpu", d).td[t][g] = k1.td[t][g]
    BY ONLY <1>4, <2>1, <2>2, SetOwn
  <2> HIDE DEF k2
  <2>5. k2.td[t].cpu = d
    BY ONLY <2>3, <2>4
  <2> QED BY ONLY <2>3, <2>4, <2>5
<1> HIDE DEF k2
<1>6. Good(k2, c, n) /\ Unowned(k2, c, t)
  BY <1>3, <1>5, RewriteGood DEF Good
<1>7. /\ k2.td[t].mask = k.td[t].mask /\ k2.td[t].pri = k.td[t].pri
      /\ k2.td[t].state = "canrun" /\ k2.env = k.env
  BY <1>3, <1>4, <1>5 DEF TdFields, OnlyThread, Rewrites, ButThread
<1>8. Allowed(k2, t) /\ slot \in Slots(k2, t)
  BY <1>5, <1>7 DEF Allowed, CanSched, Slots
<1>9. /\ SoundBut(q, c, n, NoThread) /\ Alert(q, c, t) /\ (d = c => Good(q, c, n))
      /\ OnlyThread(k2, q, t) /\ q.td[t].state = "runq"
  BY <1>1, <1>5, <1>6, <1>7, <1>8, AddGood
<1>10. ButThread(k, q, t) /\ q.td[t].cpu = d
  BY <1>3, <1>5, <1>9 DEF OnlyThread, ButThread, Rewrites
<1> QED BY <1>9, <1>10

\* choosethread: the cpu is done.
LEMMA ChooseGood ==
    ASSUME NEW k, NEW c \in Cpus(k.env), Good(k, c, 0)
    PROVE  Full(choosethread(k, c)) /\ choosethread(k, c).env = k.env
<1> DEFINE t   == tdq_choose(k, c)
           out == [k EXCEPT !.cpu[c] = [@ EXCEPT !.op = Idle, !.cur = t]]
           x   == Loads(k, c, 0)
           q   == choosethread(k, c)
<1>1. /\ Core(k, x) /\ Others(k, c) /\ QueuedBut(k, NoThread)
      /\ Typed(k) /\ InPlace(k) /\ x \in [Cpus(k.env) -> Int]
      /\ Alert(k, c, NoThread)
  BY DEF Good, GoodBut, SoundBut, Core
<1>2. IF t = NoThread THEN Queued(k, c) = {} ELSE t \in Queued(k, c)
  BY <1>1, ChooseQueued
<1> HIDE DEF t
<1>3. /\ DOMAIN out = {"td", "tdq", "cpu", "env"} /\ out.env = k.env
      /\ out.td = k.td /\ out.tdq = k.tdq /\ DOMAIN out.cpu = Cpus(k.env)
      /\ \A d \in Cpus(k.env) \ {c} : out.cpu[d] = k.cpu[d]
      /\ DOMAIN out.cpu[c] = CpuFields /\ out.cpu[c].op = Idle /\ out.cpu[c].cur = t
      /\ \A f \in CpuFields \ {"op", "cur"} : out.cpu[c][f] = k.cpu[c][f]
  <2> DEFINE p == [k.cpu[c] EXCEPT !.op = Idle, !.cur = t]
  <2>1. DOMAIN k.cpu = Cpus(k.env) /\ DOMAIN k.cpu[c] = CpuFields
    BY <1>1 DEF Typed, CpuType
  <2>2. /\ DOMAIN p = CpuFields /\ p.op = Idle /\ p.cur = t
        /\ \A f \in CpuFields \ {"op", "cur"} : p[f] = k.cpu[c][f]
    BY <2>1 DEF CpuFields
  <2>3. out = [k EXCEPT !.cpu[c] = p]
    OBVIOUS
  <2> HIDE DEF p
  <2> QED BY <1>1, <2>1, <2>2, <2>3 DEF Typed
<1>4. \A d \in Cpus(k.env) : CpuType(out.cpu[d], k.env)
  <2>1. OpType(Idle, k.env)
    BY DEF OpType, Idle
  <2>2. t \in Threads(k.env) \cup {NoThread}
    BY <1>2 DEF Queued
  <2>3. CpuType(out.cpu[c], k.env)
    BY <1>1, <1>3, <2>1, <2>2 DEF Typed, CpuType, CpuFields
  <2> QED BY <1>1, <1>3, <2>3 DEF Typed
<1>5. CASE t = NoThread
  <2>1. q = [out EXCEPT !.tdq[c].lowpri = PRI_MAX_IDLE]
    BY <1>5 DEF choosethread, t
  <2> HIDE DEF out, q
  <2>2. Typed(out)
    BY <1>1, <1>3, <1>4 DEF Typed
  <2>3. Quiet(out, q)
    <3>1. PRI_MAX_IDLE \in Priority
      BY DEF Priority, PRI_MAX_IDLE
    <3> QED BY <1>3, <2>1, <2>2, <3>1, SetQueue
  <2>a. \A d \in Cpus(k.env) : SameSignals(k, out, d)
    BY <1>3 DEF SameSignals, CpuFields
  <2>4. Harmless(k, out, c)
    BY <1>3, <2>2, <2>a DEF Harmless, Gentle, SameShape, SameThread, SameQueue, OwnedSame,
                                  SameCpu, Urgent
  <2>5. Good(q, c, 0)
    BY <1>3, <2>3, <2>4, HarmlessKeeps, QuietIsHarmless DEF Good
  <2>6. q.cpu[c].op = Idle /\ q.cpu[c].cur = NoThread /\ q.env = k.env
    BY <1>3, <1>5, <2>3 DEF Quiet, Still, SameCpu
  <2>7. Extra(q, c) = 0 /\ Owner(q, c) /\ ~Moving(q, c)
    BY <2>6 DEF Extra, Busy, Owner, Moving, Idle
  <2>b. Rests(q, c, NoThread)
    <3>1. \A u \in Threads(k.env) : Urgent(q, u) => q.td[u].cpu # c
      BY <1>2, <1>3, <1>5, <2>3 DEF Quiet, Still, Calm, Queued, Urgent
    <3> QED BY <2>6, <3>1 DEF Rests
  <2>8. Full(q)
    BY <2>5, <2>6, <2>7, <2>b, Leave
  <2> QED BY <2>6, <2>8 DEF q
<1>6. CASE t # NoThread
  <2>1. t \in Queued(k, c) /\ t \in Threads(k.env)
    BY <1>2, <1>6 DEF Queued
  <2>2. TakenOff(k, q, c, t, "run", 0) /\ q.cpu = out.cpu
    <3> DEFINE name == k.td[t].runq
               v    == IF name = "timeshare" /\ k.tdq[c].idx # k.tdq[c].ridx
                       THEN AdvancedIdx(k.tdq[c].timeshare, t, k.td[t].rqindex, k.tdq[c].ridx)
                       ELSE k.tdq[c].ridx
               r    == runq_remove(k.tdq[c][name], t, k.td[t].rqindex)
               k2   == [out EXCEPT
                          !.td[t].xferable = 0,
                          !.tdq[c].transferable = @ - k.td[t].xferable,
                          !.tdq[c].ridx = v,
                          !.tdq[c][name] = r]
    <3>0. name \in RunqNames /\ k.td[t].rqindex \in Index
      BY <1>1, <2>1 DEF Typed, ThreadType
    <3>1. v \in Index
      <4>1. k.tdq[c].ridx \in Index /\ RQ_NQS \in Nat \ {0}
        BY <1>1, QueuesAssumption DEF Typed, QueueType
      <4>2. (k.td[t].rqindex + 1) % RQ_NQS \in Index
        BY <3>0, IndexMod DEF Index
      <4> QED BY <4>1, <4>2 DEF AdvancedIdx
    <3>2. q = [tdq_runq_rem(out, c, t) EXCEPT !.td[t].state = "run",
                                              !.tdq[c].lowpri = k.td[t].pri]
      BY <1>6 DEF choosethread, t
    <3> HIDE DEF out
    <3>3. tdq_runq_rem(out, c, t) = k2
      BY <1>3 DEF tdq_runq_rem
    <3>a. /\ DOMAIN k.td = Threads(k.env) /\ DOMAIN k.tdq = Cpus(k.env)
          /\ DOMAIN k.tdq[c] = TdqFields /\ DOMAIN k.td[t] = TdFields /\ k.td[t].pri \in Priority
      BY <1>1, <2>1 DEF Typed, QueueType, ThreadType
    <3> HIDE DEF v, r, name, q
    <3>5. /\ DOMAIN k2 = {"td", "tdq", "cpu", "env"} /\ k2.env = k.env /\ k2.cpu = out.cpu
          /\ DOMAIN k2.td = DOMAIN k.td /\ DOMAIN k2.tdq = DOMAIN k.tdq
          /\ \A u \in Threads(k.env) \ {t} : k2.td[u] = k.td[u]
          /\ DOMAIN k2.td[t] = TdFields /\ k2.td[t].xferable = 0
          /\ \A f \in TdFields \ {"xferable"} : k2.td[t][f] = k.td[t][f]
      BY <1>3, <2>1, <3>a DEF TdFields
    <3>6. /\ \A e \in Cpus(k.env) \ {c} : k2.tdq[e] = k.tdq[e]
          /\ DOMAIN k2.tdq[c] = TdqFields
          /\ k2.tdq[c].transferable = k.tdq[c].transferable - k.td[t].xferable
          /\ k2.tdq[c].ridx = v /\ k2.tdq[c][name] = r
          /\ \A f \in TdqFields \ {"transferable", "ridx", name} : k2.tdq[c][f] = k.tdq[c][f]
      BY <1>3, <3>0, <3>a, ZenonT(60) DEF TdqFields, RunqNames
    <3> HIDE DEF k2
    <3>7. /\ DOMAIN q = {"td", "tdq", "cpu", "env"} /\ q.env = k2.env /\ q.cpu = k2.cpu
          /\ DOMAIN q.td = DOMAIN k2.td /\ DOMAIN q.tdq = DOMAIN k2.tdq
          /\ \A u \in Threads(k.env) \ {t} : q.td[u] = k2.td[u]
          /\ DOMAIN q.td[t] = TdFields /\ q.td[t].state = "run"
          /\ \A f \in TdFields \ {"state"} : q.td[t][f] = k2.td[t][f]
          /\ \A e \in Cpus(k.env) \ {c} : q.tdq[e] = k2.tdq[e]
          /\ DOMAIN q.tdq[c] = TdqFields /\ q.tdq[c].lowpri = k.td[t].pri
          /\ \A f \in TdqFields \ {"lowpri"} : q.tdq[c][f] = k2.tdq[c][f]
      BY <2>1, <3>2, <3>3, <3>5, <3>6, <3>a DEF TdFields, TdqFields
    <3>8. /\ q.tdq[c].load = k.tdq[c].load + 0
          /\ q.tdq[c].transferable = k.tdq[c].transferable - k.td[t].xferable
          /\ q.tdq[c].lowpri \in Priority /\ q.tdq[c].ridx \in Index
          /\ q.tdq[c][name] = r
          /\ \A f \in TdqFields \ {"load", "transferable", "lowpri", "ridx", name} :
                q.tdq[c][f] = k.tdq[c][f]
      <4>1. k.tdq[c].load + 0 = k.tdq[c].load
        BY <1>1 DEF Typed, QueueType
      <4> QED BY <3>0, <3>1, <3>6, <3>7, <3>a, <4>1 DEF TdqFields, RunqNames
    <3>9. /\ q.td[t].xferable = 0
          /\ \A f \in TdFields \ {"state", "xferable"} : q.td[t][f] = k.td[t][f]
      BY <3>5, <3>7 DEF TdFields
    <3>10. /\ DOMAIN q.cpu = DOMAIN k.cpu /\ q.cpu = out.cpu
           /\ \A d \in Cpus(k.env) : CpuType(q.cpu[d], k.env)
      BY <1>1, <1>3, <1>4, <3>5, <3>7 DEF Typed
    <3>11. /\ \A u \in Threads(k.env) \ {t} : q.td[u] = k.td[u]
           /\ \A d \in Cpus(k.env) \ {c} : q.tdq[d] = k.tdq[d]
      BY <3>5, <3>6, <3>7
    <3> QED BY <1>3, <3>5, <3>6, <3>7, <3>8, <3>9, <3>10, <3>11 DEF TakenOff, name, r
  <2> HIDE DEF q, out
  <2>3. Core(q, [x EXCEPT ![c] = @ + 1 + 0])
    <3> HIDE DEF x
    <3>1. Core(k, x) /\ c \in Cpus(k.env) /\ t \in Queued(k, c) /\ "run" \in {"canrun", "run"}
          /\ 0 \in Int /\ TakenOff(k, q, c, t, "run", 0)
      BY <1>1, <2>1, <2>2
    <3> QED BY ONLY <3>1, TakenOffCore
  <2>4. /\ q.env = k.env /\ q.cpu[c].op = Idle /\ q.cpu[c].cur = t
        /\ \A d \in Cpus(k.env) \ {c} : SameCpu(k.cpu[d], q.cpu[d])
        /\ \A u \in Threads(k.env) \ {t} : q.td[u] = k.td[u]
        /\ q.td[t].state = "run" /\ q.td[t].cpu = c
    BY <1>3, <2>1, <2>2 DEF TakenOff, SameCpu, TdFields, Queued
  <2>5. Unowned(k, c, t)
    <3>1. k.td[t].state = "runq"
      BY <2>1 DEF Queued
    <3> QED BY <1>1, <3>1, UnownedWhen
  <2>6. /\ Others(q, c)
        /\ \A d \in Cpus(k.env) \ {c} : Extra(q, d) = Extra(k, d)
    <3>1. \A u \in Threads(k.env) : OwnedSame(k.td[u], q.td[u]) \/ Unowned(k, c, u)
      BY <2>4, <2>5 DEF OwnedSame
    <3>2. /\ \A d \in Cpus(k.env) \ {c} : SameCpu(k.cpu[d], q.cpu[d])
          /\ q.env = k.env
      BY <2>4
    <3>3. Others(k, c) /\ Typed(k)
      BY <1>1
    <3>4. LeavesOthers(k, q, c)
      BY ONLY <3>1, <3>2 DEF LeavesOthers
    <3> QED BY ONLY <3>3, <3>4, OthersKept
  <2>7. Extra(q, c) = 1 /\ Owner(q, c) /\ ~Moving(q, c)
    BY <1>6, <2>4 DEF Extra, Busy, Owner, Moving, Idle
  <2>8. [x EXCEPT ![c] = @ + 1 + 0] = Loads(q, c, 1)
    <3>1. x[c] = 0 /\ DOMAIN x = Cpus(k.env) /\ \A d \in Cpus(k.env) \ {c} : x[d] = Extra(k, d)
      BY DEF Loads
    <3> HIDE DEF x
    <3>2. [x EXCEPT ![c] = @ + 1 + 0] =
            [d \in Cpus(k.env) |-> IF d = c THEN 1 ELSE Extra(k, d)]
      <4>1. [x EXCEPT ![c] = @ + 1 + 0] = [d \in Cpus(k.env) |-> IF d = c THEN x[c] + 1 + 0 ELSE x[d]]
        BY <3>1
      <4> QED BY <3>1, <4>1
    <3> QED BY <2>4, <2>6, <3>2 DEF Loads
  <2>9. QueuedBut(q, NoThread)
    BY <1>1, <2>4 DEF QueuedBut, Allowed
  <2>10. Good(q, c, 1)
    <3>1. SoundBut(q, c, 1, NoThread)
      BY <2>3, <2>6, <2>8, <2>9 DEF SoundBut
    <3>2. k.td[t].runq \in RunqNames
      BY <1>1, <2>1 DEF Typed, ThreadType
    <3>3. \A d \in Cpus(k.env) : SameSignals(k, q, d)
      BY <1>3, <2>2, <3>2 DEF TakenOff, SameSignals, CpuFields, TdqFields, RunqNames
    <3>4. ASSUME NEW u \in Threads(k.env) \ {NoThread}, Urgent(q, u)
          PROVE  Urgent(k, u) /\ q.td[u].cpu = k.td[u].cpu
      BY <2>4, <3>4 DEF Urgent
    <3>5. Alert(q, c, NoThread)
      <4> HIDE DEF Alert
      <4> QED BY <1>1, <2>4, <3>3, <3>4, AlertKept
    <3> QED BY <3>1, <3>5 DEF Good, GoodBut
  <2>11. Full(q)
    <3>1. Rests(q, c, NoThread)
      BY <1>6, <2>4 DEF Rests, Asleep
    <3> QED BY <2>4, <2>7, <2>10, <3>1, Leave
  <2> QED BY <2>4, <2>11 DEF q
<1> QED BY <1>5, <1>6

-----------------------------------------------------------------------------
(* What a cpu at work does next. *)

\* c's function is o from here on, or none.
LEMMA OpGood ==
    ASSUME NEW k, NEW c \in Cpus(k.env), NEW n, NEW s, GoodBut(k, c, n, s),
           NEW o, OpType(o, k.env)
    PROVE  LET q == Op(k, c, o)
           IN  /\ GoodBut(q, c, n, s) /\ q.env = k.env /\ q.td = k.td /\ q.tdq = k.tdq
               /\ q.cpu[c].op = o /\ q.cpu[c].cur = k.cpu[c].cur
               /\ q.cpu[c].ipc = k.cpu[c].ipc
               /\ \A d \in Cpus(k.env) \ {c} : q.cpu[d] = k.cpu[d]
               /\ \A t : Unowned(k, c, t) => Unowned(q, c, t)
<1> DEFINE q == Op(k, c, o)
<1>0. Typed(k)
  BY DEF GoodBut, SoundBut, Core
<1>1. /\ DOMAIN q = {"td", "tdq", "cpu", "env"} /\ q.env = k.env /\ q.td = k.td
      /\ q.tdq = k.tdq /\ DOMAIN q.cpu = Cpus(k.env)
      /\ \A d \in Cpus(k.env) \ {c} : q.cpu[d] = k.cpu[d]
      /\ DOMAIN q.cpu[c] = CpuFields /\ q.cpu[c].op = o
      /\ \A f \in CpuFields \ {"op"} : q.cpu[c][f] = k.cpu[c][f]
  BY <1>0 DEF Op, Typed, CpuType, CpuFields
<1> HIDE DEF q
<1>2. CpuType(q.cpu[c], k.env)
  BY <1>0, <1>1 DEF Typed, CpuType, CpuFields
<1>3. Typed(q)
  BY <1>0, <1>1, <1>2 DEF Typed
<1>4. Harmless(k, q, c)
  <2>1. \A d \in Cpus(k.env) : SameSignals(k, q, d)
    BY <1>1 DEF SameSignals, CpuFields
  <2> QED BY <1>1, <1>3, <2>1 DEF Harmless, Gentle, SameShape, SameThread, SameQueue, OwnedSame,
                                  SameCpu, Urgent
<1>5. GoodBut(q, c, n, s)
  BY <1>4, HarmlessKeeps
<1>6. \A t : Unowned(k, c, t) => Unowned(q, c, t)
  BY <1>1 DEF Unowned, Busy, Moving
<1>7. q.cpu[c].cur = k.cpu[c].cur /\ q.cpu[c].ipc = k.cpu[c].ipc
  BY <1>1 DEF CpuFields
<1> QED BY <1>1, <1>5, <1>6, <1>7 DEF q

\* c runs its thread, which counts, while it does something else.
Mine(k, c)   == IF k.cpu[c].cur = NoThread THEN 0 ELSE 1
OwnCur(k, c) == LET u == k.cpu[c].cur
                IN  u # NoThread => k.td[u].state = "run" /\ k.td[u].cpu = c
AtWork(k, c) ==
    c \in Cpus(k.env) /\ Good(k, c, Mine(k, c)) /\ OwnCur(k, c) /\ ~Asleep(k, c)
Plain(k, c)  == k.cpu[c].op.op \notin {"add", "migrate", "trysteal", "trytake"}

\* A cpu that is at none of the functions that switch works from its thread.
LEMMA Begin ==
    ASSUME NEW k, Full(k), NEW c \in Cpus(k.env),
           k.cpu[c].op.op \notin {"migrate", "trysteal", "trytake"}, ~Asleep(k, c)
    PROVE  AtWork(k, c)
<1>1. Good(k, c, Extra(k, c)) /\ Owner(k, c)
  BY Enter
<1>2. Extra(k, c) = Mine(k, c) /\ (Busy(k, c) <=> k.cpu[c].cur # NoThread)
  BY DEF Extra, Mine, Busy
<1> QED BY <1>1, <1>2 DEF AtWork, OwnCur, Owner

\* When it is done all is well.
LEMMA Finish ==
    ASSUME NEW k, NEW c, AtWork(k, c), Plain(k, c)
    PROVE  Full(k)
<1>1. Extra(k, c) = Mine(k, c) /\ (Busy(k, c) <=> k.cpu[c].cur # NoThread) /\ ~Moving(k, c)
  BY DEF Extra, Mine, Busy, Plain, Moving
<1>2. Owner(k, c)
  BY <1>1 DEF AtWork, OwnCur, Owner
<1>3. Rests(k, c, NoThread)
  BY DEF AtWork, Rests
<1> QED BY <1>1, <1>2, <1>3, Leave DEF AtWork

\* Or when it is at the next function that drops its locks.
LEMMA FinishOp ==
    ASSUME NEW k, NEW c, AtWork(k, c), NEW o, OpType(o, k.env),
           o.op \notin {"add", "migrate", "trysteal", "trytake"}
    PROVE  Full(Op(k, c, o)) /\ AtWork(Op(k, c, o), c) /\ Op(k, c, o).env = k.env
<1> DEFINE q == Op(k, c, o)
<1>1. /\ Good(q, c, Mine(k, c)) /\ q.env = k.env /\ q.td = k.td
      /\ q.cpu[c].op = o /\ q.cpu[c].cur = k.cpu[c].cur /\ q.cpu[c].ipc = k.cpu[c].ipc
  BY OpGood DEF AtWork, Good
<1> HIDE DEF q
<1>2. AtWork(q, c)
  BY <1>1 DEF AtWork, Mine, OwnCur, Asleep
<1>3. Full(q)
  BY <1>1, <1>2, Finish DEF Plain
<1> QED BY <1>1, <1>2, <1>3 DEF q

\* Quiet steps of a cpu at work.
LEMMA QuietWork ==
    ASSUME NEW k, NEW c, AtWork(k, c), NEW q, Quiet(k, q)
    PROVE  /\ AtWork(q, c) /\ q.env = k.env /\ q.cpu[c].op = k.cpu[c].op
           /\ (Plain(k, c) => Full(q))
<1>1. Typed(k) /\ c \in Cpus(k.env)
  BY DEF AtWork, Good, GoodBut, SoundBut, Core
<1>2. /\ q.env = k.env /\ q.cpu[c].op = k.cpu[c].op /\ q.cpu[c].cur = k.cpu[c].cur
      /\ \A u \in Threads(k.env) : q.td[u].state = k.td[u].state /\ q.td[u].cpu = k.td[u].cpu
  BY <1>1, QuietFacts
<1>3. k.cpu[c].cur # NoThread => k.cpu[c].cur \in Threads(k.env)
  BY <1>1 DEF Typed, CpuType
<1>4. Good(q, c, Mine(k, c))
  <2>1. Harmless(k, q, c)
    BY QuietIsHarmless
  <2> QED BY <2>1, HarmlessKeeps DEF AtWork, Good
<1>5. AtWork(q, c)
  <2>1. ~Asleep(q, c)
    BY <1>1, <1>2 DEF AtWork, Asleep, Quiet, SameSignals, Sleepy
  <2> QED BY <1>1, <1>2, <1>3, <1>4, <2>1 DEF AtWork, OwnCur, Mine
<1> QED BY <1>2, <1>5, Finish DEF Plain

\* A thread that nobody has and no queue holds is to be put on a queue.
Loose(k, c, t) ==
    t \in Threads(k.env) /\ k.td[t].state \notin {"runq", "run"} /\ Unowned(k, c, t)

\* They leave a thread loose.
LEMMA QuietLoose ==
    ASSUME NEW k, Typed(k), NEW c, NEW t, Loose(k, c, t), NEW q, Quiet(k, q)
    PROVE  Loose(q, c, t)
BY QuietFacts DEF Loose

\* tdq_notify: the cpu t is queued on has been told of it, and sleeps no more
\* if t is reason to wake it.
LEMMA Told ==
    ASSUME NEW k, NEW c, NEW n, NEW t \in Threads(k.env), SoundBut(k, c, n, NoThread),
           Alert(k, c, t), NEW d \in Cpus(k.env), k.td[t].cpu = d
    PROVE  Good(tdq_notify(k, d, t), c, n) /\ Quiet(k, tdq_notify(k, d, t))
<1> DEFINE q == tdq_notify(k, d, t)
<1>1. Typed(k) /\ k.td[t].pri \in Priority /\ Signalled(k, d)
  BY DEF SoundBut, Core, Typed, ThreadType, Alert
<1>2. Quiet(k, q) /\ q.td = k.td /\ q.env = k.env
  <2>1. q.td = k.td /\ q.env = k.env
    BY <1>1 DEF tdq_notify, cpu_idle_wakeup, ipi_cpu, Typed
  <2> QED BY <1>1, <2>1, NotifyQuiet
<1>3. ASSUME Asleep(q, d), Urgent(q, t) PROVE q.cpu[d].ipi
  <2>1. Asleep(k, d) /\ k.td[t].pri < PRI_MAX_IDLE
    BY <1>2, <1>3 DEF Asleep, Urgent, Quiet, Still, SameCpu, SameSignals, Sleepy
  <2>2. sched_shouldpreempt(k, k.td[t].pri, CurPri(k, d), TRUE)
    <3>1. CurPri(k, d) = PRI_MAX_IDLE /\ PRI_MAX_IDLE >= PRI_MIN_IDLE
      BY <2>1 DEF CurPri, Asleep, PRI_MAX_IDLE, PRI_MIN_IDLE
    <3> QED BY <2>1, <3>1 DEF sched_shouldpreempt
  <2>3. CASE k.tdq[d].ipipending
    BY <1>1, <1>2, <2>3 DEF Signalled, Quiet, SameSignals
  <2>4. CASE ~k.tdq[d].ipipending
    <3>1. k.tdq[d].cpu_idle /\ k.cpu[d].cur = NoThread /\ k.cpu[d].ipc = "asleep"
      BY <1>1, <2>1 DEF Signalled, Asleep, Sleepy
    <3>2. \/ q = cpu_idle_wakeup(k, d)
          \/ q = ipi_cpu([k EXCEPT !.tdq[d].ipipending = TRUE], d)
      BY <2>2, <2>4, <3>1 DEF tdq_notify
    <3>3. q # cpu_idle_wakeup(k, d)
      <4>1. cpu_idle_wakeup(k, d).cpu[d].ipc = "awake"
        BY <1>1, <3>1 DEF cpu_idle_wakeup, Typed, CpuType, CpuFields
      <4> QED BY <1>3, <4>1 DEF Asleep
    <3>4. ipi_cpu([k EXCEPT !.tdq[d].ipipending = TRUE], d).cpu[d].ipi
      BY <1>1 DEF ipi_cpu, Typed, CpuType, CpuFields
    <3> QED BY <3>2, <3>3, <3>4
  <2> QED BY <2>3, <2>4
<1> HIDE DEF q
<1>4. SoundBut(q, c, n, NoThread) /\ Alert(q, c, t)
  BY <1>2, QuietIsHarmless, SoundKept, HarmlessAlert DEF Harmless
<1>5. Alert(q, c, NoThread)
  <2> SUFFICES ASSUME NEW e \in Cpus(k.env), e # c, Asleep(q, e), ~q.cpu[e].ipi,
                      NEW u \in Threads(k.env), Urgent(q, u), q.td[u].cpu = e
               PROVE  FALSE
    BY <1>2, <1>4 DEF Alert, Rests
  <2>1. u = t
    BY <1>2, <1>4 DEF Alert, Rests
  <2>2. e = d
    BY <1>2, <2>1
  <2> QED BY <1>3, <2>1, <2>2
<1> QED BY <1>2, <1>4, <1>5 DEF q, Good, GoodBut

\* Placed: sched_add with the lock of the queue held.
LEMMA PlacedWork ==
    ASSUME NEW k, NEW c, AtWork(k, c), NEW t, Loose(k, c, t), Allowed(k, t),
           NEW flags, NEW q \in Placed(k, c, t, flags)
    PROVE  Full(q) /\ q.env = k.env
<1> DEFINE k1 == Op(k, c, Idle)
           to == k.td[t].cpu
<1>0. OpType(Idle, k.env) /\ Idle.op = "none"
  BY DEF OpType, Idle
<1>1. /\ AtWork(k1, c) /\ k1.env = k.env /\ k1.td = k.td /\ k1.cpu[c].op = Idle
      /\ Unowned(k1, c, t) /\ to \in Cpus(k.env) /\ k1.cpu[c].cur = k.cpu[c].cur
  <2>1. AtWork(k1, c)
    BY <1>0, FinishOp
  <2>2. /\ k1.env = k.env /\ k1.td = k.td /\ k1.cpu[c].op = Idle /\ Unowned(k1, c, t)
        /\ k1.cpu[c].cur = k.cpu[c].cur
    BY <1>0, OpGood DEF AtWork, Good, Loose
  <2>3. to \in Cpus(k.env)
    BY DEF AtWork, Good, GoodBut, SoundBut, Core, Typed, ThreadType, Loose
  <2> QED BY <2>1, <2>2, <2>3
<1> HIDE DEF k1
<1>2. PICK s \in Slots(k, t) :
         LET r == tdq_add(k1, to, t, flags, s)
         IN  IF to # c THEN q = tdq_notify(r, to, t) ELSE q \in {r, sched_setpreempt(r, c, t)}
  BY DEF Placed, k1
<1> DEFINE r == tdq_add(k1, to, t, flags, s)
<1>3. /\ SoundBut(r, c, Mine(k1, c), NoThread) /\ Alert(r, c, t)
      /\ (to = c => Good(r, c, Mine(k1, c))) /\ OnlyThread(k1, r, t)
  <2>1. /\ Good(k1, c, Mine(k1, c)) /\ to \in Cpus(k1.env) /\ t \in Threads(k1.env)
        /\ k1.td[t].cpu = to /\ k1.td[t].state # "runq" /\ Unowned(k1, c, t) /\ Allowed(k1, t)
        /\ s \in Slots(k1, t)
    BY <1>1 DEF AtWork, Loose, Allowed, Slots
  <2> QED BY ONLY <2>1, AddGood
<1>4. r.cpu = k1.cpu /\ r.env = k.env /\ c \in Cpus(k.env) /\ r.td[t].cpu = to
  BY <1>1, <1>3 DEF OnlyThread, AtWork
<1>5. Typed(r) /\ OwnCur(r, c) /\ ~Asleep(r, c) /\ Mine(r, c) = Mine(k1, c) /\ Plain(r, c)
  <2>1. k1.cpu[c].cur # NoThread => k1.cpu[c].cur \in Threads(k.env) \ {t}
    BY <1>1 DEF AtWork, Good, GoodBut, SoundBut, Core, Typed, CpuType, OwnCur, Loose
  <2>2. OwnCur(r, c) /\ ~Asleep(r, c)
    BY <1>1, <1>3, <1>4, <2>1 DEF AtWork, OwnCur, OnlyThread, Asleep
  <2> QED BY <1>1, <1>3, <1>4, <2>2 DEF SoundBut, Core, Mine, Plain, Idle
<1> HIDE DEF r
<1>6. CASE to # c
  <2>1. q = tdq_notify(r, to, t)
    BY <1>2, <1>6 DEF r
  <2>2. Good(q, c, Mine(r, c)) /\ Quiet(r, q)
    BY <1>1, <1>3, <1>4, <1>5, <2>1, Told DEF Loose
  <2>3. /\ q.env = k.env /\ q.cpu[c].op = r.cpu[c].op /\ q.cpu[c].cur = r.cpu[c].cur
        /\ \A u \in Threads(k.env) : q.td[u].state = r.td[u].state /\ q.td[u].cpu = r.td[u].cpu
    BY <1>4, <1>5, <2>2, QuietFacts
  <2>4. r.cpu[c].cur # NoThread => r.cpu[c].cur \in Threads(k.env)
    BY <1>4, <1>5 DEF Typed, CpuType
  <2>5. OwnCur(q, c) /\ Mine(q, c) = Mine(r, c) /\ Plain(q, c)
    BY <1>5, <2>3, <2>4 DEF OwnCur, Mine, Plain
  <2>6. ~Asleep(q, c)
    BY <1>4, <1>5, <2>2, <2>3 DEF Asleep, Quiet, SameSignals, Sleepy
  <2> QED BY <1>4, <2>2, <2>3, <2>5, <2>6, Finish DEF AtWork
<1>7. CASE to = c
  <2>1. AtWork(r, c)
    BY <1>3, <1>4, <1>5, <1>7 DEF AtWork
  <2>2. Quiet(r, q)
    BY <1>2, <1>4, <1>5, <1>7, QuietSelf, SetpreemptQuiet DEF r
  <2> QED BY <1>4, <1>5, <2>1, <2>2, QuietWork
<1> QED BY <1>6, <1>7

-----------------------------------------------------------------------------
(* Which thread is stolen. *)

\* A set of natural numbers has a least one.
LEMMA LeastNat ==
    ASSUME NEW S \in SUBSET Nat, S # {}
    PROVE  \E x \in S : \A y \in S : x <= y
<1>1. PICK n \in S : TRUE
  OBVIOUS
<1> DEFINE T == {x \in S : x <= n}
<1>2. n \in Nat /\ T \in SUBSET (0 .. n) /\ n \in T
  <2>1. n \in Nat
    BY <1>1
  <2>2. \A x \in T : x \in 0 .. n
    BY <2>1
  <2>3. n \in T
    BY <1>1, <2>1
  <2> HIDE DEF T
  <2> QED BY <2>1, <2>2, <2>3
<1>3. PICK x \in T : \A y \in T : x <= y
  <2> HIDE DEF T
  <2> QED BY <1>2, LeastElement
<1>4. \A y \in S : x <= y
  BY <1>1, <1>3
<1> QED BY <1>3, <1>4

\* A scan meets some place first.
LEMMA FirstMetIn ==
    ASSUME NEW S, S # {}, \A p \in S : p[1] \in Nat /\ p[2] \in Nat
    PROVE  FirstMet(S) \in S
<1> DEFINE A == {p[1] : p \in S}
<1>1. PICK a \in A : \A b \in A : a <= b
  <2>1. A \in SUBSET Nat /\ A # {}
    OBVIOUS
  <2> HIDE DEF A
  <2> QED BY <2>1, LeastNat
<1> DEFINE R == {p \in S : p[1] = a}
           B == {p[2] : p \in R}
<1>2. PICK b \in B : \A e \in B : b <= e
  <2>1. B \in SUBSET Nat /\ B # {}
    BY <1>1
  <2> HIDE DEF B
  <2> QED BY <2>1, LeastNat
<1>3. PICK p \in S : p[1] = a /\ p[2] = b
  BY <1>2
<1>4. \A r \in S : ~Sooner(r, p)
  <2> TAKE r \in S
  <2>1. a <= r[1] /\ (r[1] = a => b <= r[2]) /\ a \in Nat /\ b \in Nat /\ r[1] \in Nat /\ r[2] \in Nat
    BY <1>1, <1>2, <1>3
  <2> QED BY <2>1, <1>3 DEF Sooner
<1> QED BY <1>3, <1>4 DEF FirstMet

\* The threads of rq at some places, and what is taken from there.
LEMMA ThreadAtIs ==
    ASSUME NEW k, NEW rq, NEW places, NEW c, NEW Q,
           \A p \in places : p[1] \in Nat /\ p[2] \in Nat /\ rq[p[1]][p[2]] \in Q
    PROVE  LET t == ThreadAt(rq, Stealable(k, rq, places, c))
           IN  t = NoThread \/ (t \in Q /\ CanMigrate(k, t) /\ CanSched(k, t, c))
<1> DEFINE ok == Stealable(k, rq, places, c)
<1>1. \A p \in ok : /\ p[1] \in Nat /\ p[2] \in Nat /\ rq[p[1]][p[2]] \in Q
                    /\ CanMigrate(k, rq[p[1]][p[2]]) /\ CanSched(k, rq[p[1]][p[2]], c)
  BY DEF Stealable
<1> HIDE DEF ok
<1>2. CASE ok = {}
  BY <1>2 DEF ThreadAt, ok
<1>3. CASE ok # {}
  <2>1. FirstMet(ok) \in ok
    BY <1>1, <1>3, FirstMetIn
  <2>2. ThreadAt(rq, ok) = rq[FirstMet(ok)[1]][FirstMet(ok)[2]]
    BY <1>3 DEF ThreadAt
  <2> QED BY <1>1, <2>1, <2>2 DEF ok
<1> QED BY <1>2, <1>3

\* A run queue whose queues hold threads of Q.
LEMMA ScanIn ==
    ASSUME NEW T, NEW rq, \A i \in DOMAIN rq : i \in Nat /\ DOMAIN rq[i] \subseteq Nat /\ Range(rq[i]) \subseteq T,
           NEW i
    PROVE  \A p \in Scan(rq, i) : p[1] \in Nat /\ p[2] \in Nat /\ rq[p[1]][p[2]] \in T
<1> TAKE p \in Scan(rq, i)
<1>1. PICK j \in DOMAIN rq : p \in {j} \X DOMAIN rq[j]
  BY DEF Scan
<1>2. p[1] = j /\ p[2] \in DOMAIN rq[j]
  BY <1>1
<1>3. p[2] \in Nat /\ rq[j][p[2]] \in T
  BY <1>2 DEF Range
<1> QED BY <1>1, <1>2, <1>3

\* tdq_steal finds a thread of that queue that may move to c, or none.
LEMMA StealIs ==
    ASSUME NEW k, Typed(k), InPlace(k), NEW from \in Cpus(k.env), NEW c
    PROVE  LET t == tdq_steal(k, from, c)
           IN  t = NoThread \/ (t \in Queued(k, from) /\ CanMigrate(k, t) /\ CanSched(k, t, c))
<1> DEFINE q == k.tdq[from]
           Q == Queued(k, from)
           Fit(t) == t = NoThread \/ (t \in Q /\ CanMigrate(k, t) /\ CanSched(k, t, c))
           a == runq_steal(k, q.realtime, c)
           b == runq_steal_from(k, q.timeshare, c, q.ridx)
           d == runq_steal(k, q.idle, c)
<1>1. ASSUME NEW name \in RunqNames
      PROVE  \A i \in DOMAIN q[name] :
                i \in Nat /\ DOMAIN q[name][i] \subseteq Nat /\ Range(q[name][i]) \subseteq Q
  <2> SUFFICES ASSUME NEW i \in DOMAIN q[name]
               PROVE  i \in Nat /\ DOMAIN q[name][i] \subseteq Nat /\ Range(q[name][i]) \subseteq Q
    OBVIOUS
  <2>1. i \in Index /\ q[name][i] \in Seq(Threads(k.env)) /\ Holds(q[name], i) = Range(q[name][i])
    BY DEF Typed, QueueType, Queues, Holds
  <2>2. Range(q[name][i]) \subseteq Q
    BY <2>1 DEF InPlace, Listed
  <2>3. DOMAIN q[name][i] = 1 .. Len(q[name][i])
    BY <2>1
  <2> QED BY <2>1, <2>2, <2>3 DEF Index
<1>2. Fit(a) /\ Fit(d)
  <2>1. ASSUME NEW name \in RunqNames PROVE Fit(runq_steal(k, q[name], c))
    <3> DEFINE rq == q[name]
    <3>1. \A p \in Scan(rq, 0) : p[1] \in Nat /\ p[2] \in Nat /\ rq[p[1]][p[2]] \in Q
      <4>1. \A i \in DOMAIN rq : i \in Nat /\ DOMAIN rq[i] \subseteq Nat /\ Range(rq[i]) \subseteq Q
        BY <1>1
      <4> HIDE DEF rq, Q
      <4> QED BY <4>1, ScanIn
    <3> HIDE DEF rq, Q
    <3>2. LET t == ThreadAt(rq, Stealable(k, rq, Scan(rq, 0), c))
          IN  t = NoThread \/ (t \in Q /\ CanMigrate(k, t) /\ CanSched(k, t, c))
      BY ONLY <3>1, ThreadAtIs
    <3> QED BY <3>2 DEF runq_steal, rq
  <2> QED BY <2>1 DEF RunqNames
<1>3. Fit(b)
  <2> DEFINE rq    == q.timeshare
             round == IF q.ridx = 0 THEN rq ELSE Twice(rq)
             all   == Scan(round, q.ridx)
             later == {p \in all : p # FirstMet(all)}
             some  == IF later = {} THEN all ELSE later
  <2>1. \A i \in DOMAIN rq : i \in Nat /\ i < RQ_NQS /\ DOMAIN rq[i] \subseteq Nat /\ Range(rq[i]) \subseteq Q
    <3>1. \A i \in DOMAIN rq : i \in Nat /\ DOMAIN rq[i] \subseteq Nat /\ Range(rq[i]) \subseteq Q
      BY <1>1 DEF RunqNames
    <3>2. DOMAIN rq \subseteq Index
      BY DEF Typed, QueueType, Queues, RunqNames
    <3> HIDE DEF rq
    <3> QED BY <3>1, <3>2, QueuesAssumption DEF Index
  <2>2. \A i \in DOMAIN round :
           i \in Nat /\ DOMAIN round[i] \subseteq Nat /\ Range(round[i]) \subseteq Q
    <3>1. ASSUME NEW i \in DOMAIN Twice(rq)
          PROVE  /\ i \in Nat /\ DOMAIN Twice(rq)[i] \subseteq Nat
                 /\ Range(Twice(rq)[i]) \subseteq Q
      <4> HIDE DEF rq, Q
      <4>1. Twice(rq)[i] = rq[i % RQ_NQS] /\ (i \in DOMAIN rq \/ \E j \in DOMAIN rq : i = j + RQ_NQS)
        BY DEF Twice
      <4>2. RQ_NQS \in Nat /\ RQ_NQS > 0
        BY QueuesAssumption
      <4>3. i \in Nat /\ i % RQ_NQS \in DOMAIN rq
        <5>1. CASE i \in DOMAIN rq
          BY <2>1, <4>2, <5>1, ModSmall
        <5>2. CASE i \notin DOMAIN rq
          <6>1. PICK j \in DOMAIN rq : i = j + RQ_NQS
            BY <4>1, <5>2
          <6>2. j \in Nat /\ j < RQ_NQS /\ i \in Nat
            BY <2>1, <4>2, <6>1
          <6>3. (j + RQ_NQS) % RQ_NQS = j
            BY <4>2, <6>2
          <6> QED BY <6>1, <6>2, <6>3
        <5> QED BY <5>1, <5>2
      <4> QED BY <2>1, <4>1, <4>3
    <3> QED BY <2>1, <3>1
  <2> HIDE DEF rq, round, Q
  <2>3. \A p \in all : p[1] \in Nat /\ p[2] \in Nat /\ round[p[1]][p[2]] \in Q
    BY <2>2, ScanIn
  <2> HIDE DEF all
  <2>4. \A p \in some : p[1] \in Nat /\ p[2] \in Nat /\ round[p[1]][p[2]] \in Q
    BY <2>3
  <2> HIDE DEF some
  <2>5. LET t == ThreadAt(round, Stealable(k, round, some, c))
        IN  t = NoThread \/ (t \in Q /\ CanMigrate(k, t) /\ CanSched(k, t, c))
    BY ONLY <2>4, ThreadAtIs
  <2> QED BY <2>5 DEF runq_steal_from, some, all, round, rq
<1>4. tdq_steal(k, from, c) = FirstThread(<< a, b, d >>)
  BY DEF tdq_steal, FirstThread
<1> HIDE DEF a, b, d
<1>5. CASE a = NoThread /\ b = NoThread /\ d = NoThread
  BY <1>4, <1>5, FirstThreadIs
<1>6. CASE ~(a = NoThread /\ b = NoThread /\ d = NoThread)
  <2>1. tdq_steal(k, from, c) \in {a, b, d}
    BY <1>4, <1>6, FirstThreadIs
  <2> QED BY <1>2, <1>3, <2>1
<1> QED BY <1>5, <1>6

-----------------------------------------------------------------------------
(* Which cpus a search may find: eligible ones of its group. *)

\* A tree of groups.
Height(topo, height) ==
    \A g \in DOMAIN topo :
       /\ topo[g].kids \subseteq DOMAIN topo
       /\ \A i \in topo[g].kids :
             topo[i].mask \subseteq topo[g].mask /\ height[i] < height[g]
Tree(topo) ==
    \E n \in Nat : \E height \in [DOMAIN topo -> 0 .. n] : Height(topo, height)

\* The topology of a scene.
LEMMA TopologyIsTree ==
    ASSUME NEW e \in Scenes
    PROVE  Tree(e.topo) /\ \A g \in DOMAIN e.topo : e.topo[g].mask \subseteq Cpus(e)
<1> DEFINE topo == e.topo
<1>1. /\ IsFiniteSet(DOMAIN topo)
      /\ \A g \in DOMAIN topo :
            /\ topo[g].kids \subseteq DOMAIN topo /\ topo[g].mask \subseteq topo[TOP].mask
            /\ \A i \in topo[g].kids : topo[i].mask \subseteq topo[g].mask
      /\ \E height \in [DOMAIN topo -> 0 .. Cardinality(DOMAIN topo)] :
            \A g \in DOMAIN topo : \A i \in topo[g].kids : height[i] < height[g]
  BY ScenesAssumption
<1> HIDE DEF topo
<1>2. PICK height \in [DOMAIN topo -> 0 .. Cardinality(DOMAIN topo)] :
         \A g \in DOMAIN topo : \A i \in topo[g].kids : height[i] < height[g]
  BY <1>1
<1>3. Cardinality(DOMAIN topo) \in Nat
  BY <1>1, FS_CardinalityType
<1> QED BY <1>1, <1>2, <1>3 DEF Tree, Height, topo, Cpus

\* One step of the walk, for a group h whose children's results are f's.
Tagging(tag, x) == [tag |-> tag, load |-> x.load, best |-> x.best, cpus |-> x.cpus]
Rest(topo, h)   == topo[h].mask \ UNION {topo[i].mask : i \in topo[h].kids}
Items(topo, f, leaf, h) ==
    {Tagging(<< 0, i >>, f[i]) : i \in topo[h].kids}
        \cup {Tagging(<< 1, c >>, leaf[c]) : c \in Rest(topo, h)}
Step(topo, f, leaf, sign, h) == Found(Items(topo, f, leaf, h), sign)
IsWalk(topo, f, leaf, sign) ==
    f = [h \in DOMAIN topo |-> Step(topo, f, leaf, sign, h)]

\* Walks depend on nothing but what is below a group.
LEMMA StepSame ==
    ASSUME NEW topo, NEW leaf, NEW sign, NEW h, NEW f, NEW g,
           \A i \in topo[h].kids : g[i] = f[i]
    PROVE  Step(topo, g, leaf, sign, h) = Step(topo, f, leaf, sign, h)
<1>1. {Tagging(<< 0, i >>, g[i]) : i \in topo[h].kids}
        = {Tagging(<< 0, i >>, f[i]) : i \in topo[h].kids}
  OBVIOUS
<1> QED BY <1>1 DEF Step, Items

\* There is a walk from every group.
LEMMA WalkExists ==
    ASSUME NEW topo, Tree(topo), NEW leaf, NEW sign
    PROVE  \E f : IsWalk(topo, f, leaf, sign)
<1>0. PICK N \in Nat : \E height \in [DOMAIN topo -> 0 .. N] : Height(topo, height)
  BY DEF Tree
<1>1. PICK height \in [DOMAIN topo -> 0 .. N] : Height(topo, height)
  BY <1>0
<1>n. N \in Nat /\ height \in [DOMAIN topo -> 0 .. N] /\ \A h \in DOMAIN topo : height[h] \in 0 .. N
  BY <1>0, <1>1
<1>m. N + 1 \in Nat /\ \A h \in DOMAIN topo : height[h] < N + 1
  BY <1>n
<1>h. \A h \in DOMAIN topo :
         /\ topo[h].kids \subseteq DOMAIN topo
         /\ \A i \in topo[h].kids : topo[i].mask \subseteq topo[h].mask /\ height[i] < height[h]
  BY <1>1 DEF Height
<1> DEFINE Low(n)  == {h \in DOMAIN topo : height[h] < n}
           P(f, n) == \A h \in Low(n) : f[h] = Step(topo, f, leaf, sign, h)
           T       == {n \in Nat : \E f : P(f, n)}
<1>2. 0 \in T
  <2>1. Low(0) = {}
    BY <1>n, <1>h
  <2> QED BY <2>1
<1>3. ASSUME NEW n \in T PROVE n + 1 \in T
  <2>1. PICK f : P(f, n)
    OBVIOUS
  <2> DEFINE g == [h \in DOMAIN topo |-> IF h \in Low(n) THEN f[h]
                                         ELSE Step(topo, f, leaf, sign, h)]
  <2>2. ASSUME NEW h \in Low(n + 1) PROVE g[h] = Step(topo, g, leaf, sign, h)
    <3>1. \A i \in topo[h].kids : i \in Low(n)
      BY <1>n, <1>h
    <3>2. \A i \in topo[h].kids : g[i] = f[i]
      BY <3>1
    <3>3. g[h] = Step(topo, f, leaf, sign, h)
      BY <2>1
    <3> HIDE DEF g
    <3> QED BY <3>2, <3>3, StepSame
  <2>3. P(g, n + 1)
    BY <2>2
  <2> HIDE DEF g, P
  <2> QED BY <2>3
<1>4. T = Nat
  <2>1. T \in SUBSET Nat
    OBVIOUS
  <2> HIDE DEF T
  <2> QED BY <2>1, <1>2, <1>3, Induction
<1>5. PICK f : P(f, N + 1)
  <2>1. N + 1 \in T
    BY <1>4
  <2> HIDE DEF P
  <2> QED BY <2>1
<1> DEFINE w == [h \in DOMAIN topo |-> f[h]]
<1>6. \A h \in DOMAIN topo : f[h] = Step(topo, f, leaf, sign, h)
  <2>1. Low(N + 1) = DOMAIN topo
    BY ONLY <1>m
  <2> QED BY <1>5, <2>1
<1>7. \A h \in DOMAIN topo : Step(topo, w, leaf, sign, h) = Step(topo, f, leaf, sign, h)
  <2> TAKE h \in DOMAIN topo
  <2>1. \A i \in topo[h].kids : w[i] = f[i]
    BY <1>n, <1>h
  <2> HIDE DEF w
  <2> QED BY <2>1, StepSame
<1>8. IsWalk(topo, w, leaf, sign)
  BY <1>6, <1>7 DEF IsWalk
<1> QED BY <1>8

\* A choice among candidates is one of them.
LEMMA FoundIn ==
    ASSUME NEW items, NEW sign, NEW S, \A x \in items : x.cpus \subseteq S
    PROVE  Found(items, sign).cpus \subseteq S
BY DEF Found

\* A search walks cpus of its group and mask only.
LEMMA WalkIn ==
    ASSUME NEW topo, Tree(topo), NEW leaf, NEW sign, NEW f, IsWalk(topo, f, leaf, sign),
           NEW g \in DOMAIN topo, NEW S, \A c \in topo[g].mask : leaf[c].cpus \subseteq S
    PROVE  f[g].cpus \subseteq S
<1>0. PICK N \in Nat : \E height \in [DOMAIN topo -> 0 .. N] : Height(topo, height)
  BY DEF Tree
<1>1. PICK height \in [DOMAIN topo -> 0 .. N] : Height(topo, height)
  BY <1>0
<1>n. N \in Nat /\ height \in [DOMAIN topo -> 0 .. N] /\ \A h \in DOMAIN topo : height[h] \in 0 .. N
  BY <1>0, <1>1
<1>m. N + 1 \in Nat /\ \A h \in DOMAIN topo : height[h] < N + 1
  BY <1>n
<1>h. \A h \in DOMAIN topo :
         /\ topo[h].kids \subseteq DOMAIN topo
         /\ \A i \in topo[h].kids : topo[i].mask \subseteq topo[h].mask /\ height[i] < height[h]
  BY <1>1 DEF Height
<1> DEFINE In(h) == h \in DOMAIN topo /\ topo[h].mask \subseteq topo[g].mask
           T     == {n \in Nat : \A h : In(h) /\ height[h] < n => f[h].cpus \subseteq S}
<1>2. 0 \in T
  BY <1>n, <1>h
<1>3. ASSUME NEW n \in T PROVE n + 1 \in T
  <2> SUFFICES ASSUME NEW h, In(h), height[h] < n + 1 PROVE f[h].cpus \subseteq S
    OBVIOUS
  <2>1. \A i \in topo[h].kids : f[i].cpus \subseteq S
    <3> TAKE i \in topo[h].kids
    <3>1. In(i) /\ height[i] < n
      BY <1>n, <1>h
    <3> QED BY <3>1
  <2>2. \A c \in Rest(topo, h) : leaf[c].cpus \subseteq S
    BY DEF Rest
  <2>3. \A x \in Items(topo, f, leaf, h) : x.cpus \subseteq S
    BY <2>1, <2>2 DEF Items, Tagging
  <2>4. f[h] = Found(Items(topo, f, leaf, h), sign)
    BY DEF IsWalk, Step
  <2> QED BY <2>3, <2>4, FoundIn
<1>4. T = Nat
  <2>1. T \in SUBSET Nat
    OBVIOUS
  <2> HIDE DEF T
  <2> QED BY <2>1, <1>2, <1>3, Induction
<1>5. In(g) /\ height[g] < N + 1 /\ N + 1 \in T
  BY <1>m, <1>4
<1> QED BY <1>5

\* cpu_search finds cpus of its group, of those the leaves offer.
LEMMA SearchIn ==
    ASSUME NEW topo, Tree(topo), NEW g \in DOMAIN topo, NEW leaf, NEW sign,
           NEW S, \A c \in topo[g].mask : leaf[c].cpus \subseteq S
    PROVE  cpu_search(topo, g, leaf, sign) \subseteq S
<1> DEFINE walk == CHOOSE f : IsWalk(topo, f, leaf, sign)
<1>1. cpu_search(topo, g, leaf, sign) = walk[g].cpus
  BY DEF cpu_search, IsWalk, Step, Items, Tagging, Rest
<1>2. IsWalk(topo, walk, leaf, sign)
  BY WalkExists
<1> HIDE DEF walk
<1> QED BY <1>1, <1>2, WalkIn

\* sched_lowest returns cpus of the mask that are there.
LEMMA LowestIn ==
    ASSUME NEW e \in Scenes, NEW g \in DOMAIN e.topo, NEW q, NEW mask, NEW pri, NEW max, NEW prefer
    PROVE  sched_lowest(e.topo, q, g, mask, pri, max, prefer) \subseteq mask \cap Cpus(e)
<1> DEFINE topo == e.topo
           ok(c) == c \in mask /\ q[c].lowpri > pri /\ q[c].load <= max
           leaf  == [c \in topo[g].mask |->
                        Leaf(c, q[c].load * 256 - (IF c = prefer THEN 64 ELSE 0), ok(c))]
<1>1. \A c \in topo[g].mask : leaf[c].cpus \subseteq mask \cap Cpus(e)
  BY TopologyIsTree DEF Leaf
<1>2. sched_lowest(topo, q, g, mask, pri, max, prefer) = cpu_search(topo, g, leaf, 1)
  BY DEF sched_lowest
<1> HIDE DEF leaf
<1> QED BY <1>1, <1>2, SearchIn, TopologyIsTree

\* So does sched_highest.
LEMMA HighestIn ==
    ASSUME NEW e \in Scenes, NEW g \in DOMAIN e.topo, NEW q, NEW mask, NEW min
    PROVE  sched_highest(e.topo, q, g, mask, min) \subseteq mask \cap Cpus(e)
<1> DEFINE topo == e.topo
           ok(c) == c \in mask /\ q[c].load >= min /\ q[c].transferable # 0
           leaf  == [c \in topo[g].mask |-> Leaf(c, q[c].load * 256, ok(c))]
<1>1. \A c \in topo[g].mask : leaf[c].cpus \subseteq mask \cap Cpus(e)
  BY TopologyIsTree DEF Leaf
<1>2. sched_highest(topo, q, g, mask, min) = cpu_search(topo, g, leaf, -1)
  BY DEF sched_highest
<1> HIDE DEF leaf
<1> QED BY <1>1, <1>2, SearchIn, TopologyIsTree

\* The group sched_pickcpu searches first is one of the topology's.
LEMMA CacheGroupIs ==
    ASSUME NEW k, k.env \in Scenes, NEW c, NEW age
    PROVE  CacheGroup(k, c, age) = "" \/ CacheGroup(k, c, age) \in DOMAIN k.env.topo
<1> DEFINE topo == k.env.topo
           ok   == {g \in Holding(topo, c) : ~topo[g].thread /\ age < topo[g].level}
           all  == topo[TOP].mask
           M    == Cardinality(all)
           Lack(g) == M - Cardinality(topo[g].mask)
           L    == {Lack(g) : g \in ok}
<1>1. CASE ok = {}
  BY <1>1 DEF CacheGroup
<1>2. CASE ok # {}
  <2>1. /\ IsFiniteSet(all)
        /\ \A g \in DOMAIN topo :
              /\ topo[g].mask \subseteq all
              /\ \A h \in DOMAIN topo :
                    \/ topo[g].mask \cap topo[h].mask = {}
                    \/ topo[g].mask \subseteq topo[h].mask
                    \/ topo[h].mask \subseteq topo[g].mask
    BY ScenesAssumption
  <2>2. \A g \in ok : g \in DOMAIN topo /\ c \in topo[g].mask
    BY DEF Holding
  <2>3. CacheGroup(k, c, age) = CHOOSE g \in ok : \A h \in ok : topo[h].mask \subseteq topo[g].mask
    BY <1>2 DEF CacheGroup
  <2> HIDE DEF ok, topo, all
  <2>4. M \in Nat /\ \A g \in DOMAIN topo :
           /\ IsFiniteSet(topo[g].mask) /\ Cardinality(topo[g].mask) \in Nat
           /\ Lack(g) \in Nat
    <3> SUFFICES ASSUME NEW g \in DOMAIN topo
                 PROVE  /\ M \in Nat /\ IsFiniteSet(topo[g].mask)
                        /\ Cardinality(topo[g].mask) \in Nat /\ Lack(g) \in Nat
      BY <2>1, FS_CardinalityType
    <3>1. topo[g].mask \in SUBSET all
      BY <2>1
    <3>2. IsFiniteSet(topo[g].mask) /\ Cardinality(topo[g].mask) <= M
      BY <2>1, <3>1, FS_Subset
    <3>3. M \in Nat /\ Cardinality(topo[g].mask) \in Nat
      BY <2>1, <3>2, FS_CardinalityType
    <3> QED BY <3>2, <3>3
  <2>5. PICK g \in ok : \A h \in ok : Lack(g) <= Lack(h)
    <3>1. L \in SUBSET Nat /\ L # {}
      BY <1>2, <2>2, <2>4
    <3>2. PICK x \in L : \A y \in L : x <= y
      <4> HIDE DEF L
      <4> QED BY <3>1, LeastNat
    <3>3. PICK g \in ok : x = Lack(g)
      OBVIOUS
    <3> HIDE DEF Lack
    <3> QED BY <3>2, <3>3
  <2>6. \A h \in ok : topo[h].mask \subseteq topo[g].mask
    <3> TAKE h \in ok
    <3>1. g \in DOMAIN topo /\ h \in DOMAIN topo /\ topo[g].mask \cap topo[h].mask # {}
      BY <2>2
    <3>2. CASE topo[g].mask \subseteq topo[h].mask
      <4>1. Cardinality(topo[g].mask) <= Cardinality(topo[h].mask)
        BY <2>4, <3>1, <3>2, FS_Subset
      <4>2. Cardinality(topo[h].mask) <= Cardinality(topo[g].mask)
        BY <2>4, <2>5, <3>1
      <4>3. Cardinality(topo[h].mask) = Cardinality(topo[g].mask)
        BY <2>4, <3>1, <4>1, <4>2
      <4> QED BY <2>4, <3>1, <3>2, <4>3, FS_Subset
    <3> QED BY <2>1, <3>1, <3>2
  <2>7. CacheGroup(k, c, age) \in ok
    BY <2>3, <2>6
  <2> QED BY <2>2, <2>7 DEF topo
<1> QED BY <1>1, <1>2

\* sched_pickcpu keeps to the thread's cpus, unless the thread is pinned.
LEMMA PickIs ==
    ASSUME NEW k, Typed(k), NEW self \in Cpus(k.env), NEW t \in Threads(k.env), NEW flags,
           "OURSELF" \notin flags, NEW age, NEW intr,
           NEW c \in sched_pickcpu(k, self, t, flags, age, intr)
    PROVE  /\ c \in Cpus(k.env) /\ (c \in k.td[t].mask \/ k.td[t].pinned # 0)
           /\ c = k.td[t].cpu \/ c \in k.td[t].mask
<1> DEFINE d      == k.td[t]
           topo   == k.env.topo
           low(x) == k.tdq[x].lowpri
           toSelf == /\ d.pri <= PRI_MAX_ITHD
                     /\ intr /\ self \in d.mask /\ d.cpu # self
           last   == IF toSelf THEN self ELSE d.cpu
           leaf   == LeafOf(topo, last)
           idle   == /\ CanSched(k, t, last) /\ low(last) >= PRI_MIN_IDLE /\ age < 2
                     /\ topo[leaf].thread =>
                           \A x \in topo[leaf].mask : low(x) >= PRI_MIN_IDLE
           group  == CacheGroup(k, last, age)
           near   == IF group = "" THEN {}
                     ELSE IF topo[group].mask = topo[TOP].mask THEN {}
                     ELSE sched_lowest(topo, k.tdq, group, d.mask,
                                       Max({d.pri, PRI_MAX_TIMESHARE}), INT_MAX, last)
           better == sched_lowest(topo, k.tdq, TOP, d.mask, d.pri, INT_MAX, last)
           any    == sched_lowest(topo, k.tdq, TOP, d.mask, -1, INT_MAX, last)
           found  == IF near # {} THEN near ELSE IF better # {} THEN better ELSE any
           local(x) == /\ self \in d.mask /\ low(self) > d.pri
                       /\ low(x) < PRI_MIN_IDLE
                       /\ k.tdq[self].load <= k.tdq[x].load + 1
<1>1. /\ d.cpu \in Cpus(k.env) /\ k.env \in Scenes /\ TOP \in DOMAIN topo
      /\ CanMigrate(k, t) <=> d.pinned = 0
  BY ScenesAssumption DEF Typed, ThreadType, CanMigrate
<1>2. near \subseteq d.mask \cap Cpus(k.env)
  <2>1. group = "" \/ group \in DOMAIN topo
    BY <1>1, CacheGroupIs
  <2> DEFINE p == Max({d.pri, PRI_MAX_TIMESHARE})
  <2>2. group \in DOMAIN topo =>
           sched_lowest(topo, k.tdq, group, d.mask, p, INT_MAX, last) \subseteq d.mask \cap Cpus(k.env)
    <3> HIDE DEF group, p, last, d
    <3> QED BY <1>1, LowestIn
  <2> HIDE DEF group, p, last
  <2> QED BY <2>1, <2>2 DEF p
<1>3. better \subseteq d.mask \cap Cpus(k.env) /\ any \subseteq d.mask \cap Cpus(k.env)
  BY <1>1, LowestIn
<1>4. found \subseteq d.mask \cap Cpus(k.env)
  <2> HIDE DEF near, better, any
  <2> QED BY <1>2, <1>3
<1>5. idle => last \in d.mask
  BY DEF CanSched
<1>6. c \in IF "OURSELF" \in flags \/ ~CanMigrate(k, t) THEN {d.cpu}
            ELSE IF toSelf /\ low(self) > d.pri THEN {self}
            ELSE IF idle THEN {last}
            ELSE {IF local(x) THEN self ELSE x : x \in found}
  BY DEF sched_pickcpu
<1> HIDE DEF found, idle, last, local
<1>7. local(c) => self \in d.mask
  BY DEF local
<1>8. \A x : local(x) => self \in d.mask
  BY DEF local
<1>9. last \in Cpus(k.env)
  BY <1>1 DEF last
<1>10. CASE ~CanMigrate(k, t)
  BY <1>1, <1>6, <1>10
<1>11. CASE CanMigrate(k, t)
  <2>1. CASE toSelf /\ low(self) > d.pri
    BY <1>1, <1>6, <1>11, <2>1
  <2>2. CASE ~(toSelf /\ low(self) > d.pri) /\ idle
    BY <1>1, <1>5, <1>6, <1>9, <1>11, <2>2
  <2>3. CASE ~(toSelf /\ low(self) > d.pri) /\ ~idle
    <3>1. c \in {IF local(x) THEN self ELSE x : x \in found}
      BY <1>6, <1>11, <2>3
    <3> QED BY <1>1, <1>4, <1>8, <3>1
  <2> QED BY <2>1, <2>2, <2>3
<1> QED BY <1>10, <1>11

\* A search for a thread to steal settles on a cpu of its mask.
LEMMA StealFromIs ==
    ASSUME NEW k, k.env \in Scenes, NEW c, NEW mask, NEW n
    PROVE  StealFrom(k, c, mask, n) \subseteq Cpus(k.env) \cap mask
<1> DEFINE topo == k.env.topo
           Around(g) == {h \in Holding(topo, c) : topo[h].mask \subseteq topo[g].mask}
           rank(g) == Cardinality(Around(g))
           found(g) == sched_highest(topo, k.tdq, g, mask, steal_thresh)
           near == {g \in Holding(topo, c) : rank(g) <= n /\ found(g) # {}}
<1>1. CASE near = {}
  BY <1>1 DEF StealFrom
<1>2. CASE near # {}
  <2>1. IsFiniteSet(DOMAIN topo)
    BY ScenesAssumption
  <2>2. \A g \in near : g \in DOMAIN topo /\ rank(g) \in Nat
    <3> TAKE g \in near
    <3>1. Around(g) \in SUBSET DOMAIN topo
      BY DEF Holding
    <3> HIDE DEF Around
    <3> QED BY <2>1, <3>1, FS_Subset, FS_CardinalityType DEF Holding
  <2>3. \E g \in near : \A h \in near : rank(g) <= rank(h)
    <3> DEFINE R == {rank(g) : g \in near}
    <3> HIDE DEF rank, near
    <3>1. R \in SUBSET Nat /\ R # {}
      BY <1>2, <2>2
    <3>2. PICK x \in R : \A y \in R : x <= y
      <4> HIDE DEF R
      <4> QED BY <3>1, LeastNat
    <3> QED BY <3>2
  <2> DEFINE best == CHOOSE g \in near : \A h \in near : rank(g) <= rank(h)
  <2>4. best \in near
    <3> HIDE DEF near, rank
    <3> QED BY <2>3
  <2>5. StealFrom(k, c, mask, n) = found(best)
    BY <1>2 DEF StealFrom
  <2> HIDE DEF best, near
  <2>6. best \in DOMAIN topo /\ k.env \in Scenes
    BY <2>2, <2>4
  <2>7. sched_highest(topo, k.tdq, best, mask, steal_thresh) \subseteq mask \cap Cpus(k.env)
    BY ONLY <2>6, HighestIn
  <2> QED BY <2>5, <2>7
<1> QED BY <1>1, <1>2

-----------------------------------------------------------------------------
(* Adding a thread, wherever it is to run. *)

AtPlace(k, t, to) == [k EXCEPT !.td[t].cpu = to, !.td[t].state = "canrun"]

\* t is on its way to cpu to (sched_setcpu, sched_switch_migrate).
LEMMA SetPlace ==
    ASSUME NEW k, Typed(k), NEW t \in Threads(k.env), k.td[t].state # "runq",
           NEW to \in Cpus(k.env)
    PROVE  LET q == AtPlace(k, t, to)
           IN  /\ Rewrites(k, q, t) /\ q.td[t].cpu = to /\ q.td[t].state = "canrun"
               /\ \A g \in TdFields \ {"cpu", "state"} : q.td[t][g] = k.td[t][g]
<1> DEFINE q == [k EXCEPT !.td[t].cpu = to, !.td[t].state = "canrun"]
<1>1. /\ DOMAIN q = {"td", "tdq", "cpu", "env"} /\ q.env = k.env /\ q.cpu = k.cpu
      /\ q.tdq = k.tdq /\ DOMAIN q.td = Threads(k.env)
      /\ \A u \in Threads(k.env) \ {t} : q.td[u] = k.td[u]
      /\ DOMAIN q.td[t] = TdFields /\ q.td[t].cpu = to /\ q.td[t].state = "canrun"
      /\ \A g \in TdFields \ {"cpu", "state"} : q.td[t][g] = k.td[t][g]
  <2>1. DOMAIN k = {"td", "tdq", "cpu", "env"} /\ DOMAIN k.td = Threads(k.env)
        /\ ThreadType(k.td[t], k.env)
    BY Zenon DEF Typed
  <2>2. DOMAIN k.td[t] = TdFields
    BY Zenon, <2>1 DEF ThreadType
  <2> QED BY ONLY <2>1, <2>2, t \in Threads(k.env) DEF TdFields
<1> HIDE DEF q
<1>2. ThreadType(q.td[t], k.env)
  BY <1>1 DEF Typed, ThreadType, TdFields
<1>3. Typed(q)
  BY <1>1, <1>2 DEF Typed
<1>4. q.td[t].xferable = k.td[t].xferable
  BY <1>1 DEF TdFields
<1> QED BY <1>1, <1>3, <1>4 DEF Rewrites, ButThread, q, AtPlace

\* Rewriting a thread that c does not run, and that no one has.
LEMMA RewriteWork ==
    ASSUME NEW k, NEW c, AtWork(k, c), NEW t, Loose(k, c, t), NEW q, Rewrites(k, q, t)
    PROVE  AtWork(q, c) /\ Unowned(q, c, t) /\ q.env = k.env /\ q.cpu = k.cpu
<1>1. GoodBut(q, c, Mine(k, c), NoThread) /\ Unowned(q, c, t)
  BY RewriteGood DEF AtWork, Good, Loose
<1>2. k.cpu[c].cur # NoThread => k.cpu[c].cur \in Threads(k.env) \ {t}
  BY DEF AtWork, Good, GoodBut, SoundBut, Core, Typed, CpuType, OwnCur, Loose
<1>3. q.env = k.env /\ q.cpu = k.cpu /\ \A u \in Threads(k.env) \ {t} : q.td[u] = k.td[u]
  BY DEF Rewrites, ButThread
<1>4. AtWork(q, c)
  BY <1>1, <1>2, <1>3 DEF AtWork, Good, Mine, OwnCur, Asleep
<1> QED BY <1>1, <1>3, <1>4

\* An operation that c does not finish at once: t is on its way.
LEMMA FinishMoving ==
    ASSUME NEW k, NEW c \in Cpus(k.env), NEW n, Good(k, c, n), NEW t, Loose(k, c, t), Allowed(k, t),
           k.td[t].state = "canrun", NEW o, OpType(o, k.env), o.td = t,
           \/ o.op = "add" /\ n = Mine(k, c) /\ OwnCur(k, c)
           \/ o.op = "migrate" /\ n = 0,
           ~Asleep(k, c)
    PROVE  Full(Op(k, c, o)) /\ Op(k, c, o).env = k.env
<1> DEFINE q == Op(k, c, o)
<1>1. /\ Good(q, c, n) /\ q.env = k.env /\ q.td = k.td /\ q.cpu[c].op = o
      /\ q.cpu[c].cur = k.cpu[c].cur /\ q.cpu[c].ipc = k.cpu[c].ipc /\ Unowned(q, c, t)
  BY OpGood DEF Good, Loose
<1> HIDE DEF q
<1>2. Extra(q, c) = n /\ Owner(q, c)
  BY <1>1 DEF Extra, Owner, Busy, Moving, Mine, OwnCur, Allowed
<1>3. Full(q)
  <2>1. Rests(q, c, NoThread)
    BY <1>1 DEF Rests, Asleep
  <2> QED BY <1>1, <1>2, <2>1, Leave
<1> QED BY <1>1, <1>3 DEF q

\* sched_setcpu of a thread to a cpu it may run on.
LEMMA SetcpuWork ==
    ASSUME NEW k, NEW c, AtWork(k, c), NEW t, Loose(k, c, t), NEW to \in Cpus(k.env),
           to \in k.td[t].mask \/ k.td[t].pinned # 0,
           NEW flags, NEW held, NEW q \in sched_setcpu(k, c, t, to, flags, held)
    PROVE  Full(q) /\ q.env = k.env
<1> DEFINE set == AtPlace(k, t, to)
           o   == [op |-> "add", td |-> t, flags |-> flags]
<1>0. Typed(k) /\ t \in Threads(k.env) /\ k.td[t].state # "runq" /\ to \in Cpus(k.env)
  BY DEF AtWork, Good, GoodBut, SoundBut, Core, Loose
<1>1. /\ Rewrites(k, set, t) /\ set.td[t].cpu = to /\ set.td[t].state = "canrun"
      /\ \A g \in TdFields \ {"cpu", "state"} : set.td[t][g] = k.td[t][g]
  BY ONLY <1>0, SetPlace
<1>2. q \in IF to = held THEN Placed(set, c, t, flags) ELSE {Op(set, c, o)}
  BY DEF sched_setcpu, AtPlace
<1> HIDE DEF set
<1>3. AtWork(set, c) /\ set.env = k.env /\ Loose(set, c, t) /\ Allowed(set, t)
  <2>1. set.td[t].mask = k.td[t].mask /\ set.td[t].pinned = k.td[t].pinned
    BY <1>1 DEF TdFields
  <2> QED BY <1>1, <2>1, RewriteWork DEF Loose, Allowed
<1>4. Full(Op(set, c, o)) /\ Op(set, c, o).env = set.env
  <2>1. o.op = "add" /\ o.td = t /\ OpType(o, set.env)
    BY <1>3 DEF OpType, Loose
  <2>2. /\ c \in Cpus(set.env) /\ Good(set, c, Mine(set, c)) /\ OwnCur(set, c)
        /\ ~Asleep(set, c)
    BY <1>3 DEF AtWork
  <2> HIDE DEF o
  <2> QED BY <1>1, <1>3, <2>1, <2>2, FinishMoving
<1> QED BY <1>2, <1>3, <1>4, PlacedWork

\* sched_add.
LEMMA AddWork ==
    ASSUME NEW k, NEW c, AtWork(k, c), NEW t, Loose(k, c, t),
           NEW flags, "OURSELF" \notin flags, NEW held, NEW q \in sched_add(k, c, t, flags, held)
    PROVE  Full(q) /\ q.env = k.env
<1>1. PICK r \in sched_priority(k, t) :
         q \in UNION {sched_setcpu(r, c, t, to, flags, held) :
                  to \in UNION {sched_pickcpu(r, c, t, flags, x[1], x[2]) :
                                  x \in k.env.ages \X k.env.intr}}
  BY DEF sched_add
<1>2. PICK to \in UNION {sched_pickcpu(r, c, t, flags, x[1], x[2]) : x \in k.env.ages \X k.env.intr} :
         q \in sched_setcpu(r, c, t, to, flags, held)
  BY <1>1
<1>3. PICK x \in k.env.ages \X k.env.intr : to \in sched_pickcpu(r, c, t, flags, x[1], x[2])
  OBVIOUS
<1>4. Quiet(k, r) /\ Typed(k) /\ t \in Threads(k.env)
  BY PriorityQuiet DEF AtWork, Good, GoodBut, SoundBut, Core, Loose
<1>5. AtWork(r, c) /\ r.env = k.env /\ Loose(r, c, t)
  BY <1>4, QuietWork, QuietLoose
<1>6. to \in Cpus(r.env) /\ (to \in r.td[t].mask \/ r.td[t].pinned # 0)
  <2>1. Typed(r) /\ c \in Cpus(r.env) /\ t \in Threads(r.env)
    BY <1>5 DEF AtWork, Good, GoodBut, SoundBut, Core, Loose
  <2> QED BY <1>3, <2>1, PickIs
<1> QED BY <1>2, <1>5, <1>6, SetcpuWork

-----------------------------------------------------------------------------
(* Switching threads. *)

\* tdq_load_rem: c's thread no longer counts.
LEMMA LoadRemGood ==
    ASSUME NEW k, NEW c \in Cpus(k.env), NEW n, Good(k, c, n)
    PROVE  LET q == tdq_load_rem(k, c)
           IN  /\ Good(q, c, n - 1) /\ q.env = k.env /\ q.td = k.td /\ q.cpu = k.cpu
               /\ \A t : Unowned(k, c, t) => Unowned(q, c, t)
<1> DEFINE x == Loads(k, c, n)
           q == tdq_load_rem(k, c)
<1>1. Core(k, x) /\ Others(k, c) /\ QueuedBut(k, NoThread) /\ n \in Int /\ Typed(k)
      /\ Alert(k, c, NoThread)
  BY DEF Good, GoodBut, SoundBut, Core
<1>2. q.env = k.env /\ q.td = k.td /\ q.cpu = k.cpu
  BY <1>1 DEF tdq_load_rem, Typed
<1>3. Core(q, [x EXCEPT ![c] = @ + -1])
  <2>1. k.tdq[c].load - 1 = k.tdq[c].load + -1
    BY <1>1 DEF Typed, QueueType
  <2>2. q = [k EXCEPT !.tdq[c].load = @ + -1]
    BY <2>1 DEF tdq_load_rem
  <2> HIDE DEF q, x
  <2> QED BY <1>1, <2>2, LoadCore
<1> HIDE DEF q
<1>4. \A t : Unowned(k, c, t) => Unowned(q, c, t)
  BY <1>2 DEF Unowned, Busy, Moving
<1>5. /\ Others(q, c)
      /\ \A d \in Cpus(k.env) \ {c} : Extra(q, d) = Extra(k, d)
  <2>1. /\ \A u \in Threads(k.env) : OwnedSame(k.td[u], q.td[u]) \/ Unowned(k, c, u)
        /\ \A d \in Cpus(k.env) \ {c} : SameCpu(k.cpu[d], q.cpu[d])
    BY <1>2 DEF OwnedSame, SameCpu
  <2>2. Others(k, c) /\ Typed(k)
    BY <1>1
  <2>3. LeavesOthers(k, q, c)
    BY ONLY <1>2, <2>1 DEF LeavesOthers
  <2> QED BY ONLY <2>2, <2>3, OthersKept
<1>6. [x EXCEPT ![c] = @ + -1] = Loads(q, c, n - 1)
  <2>1. x[c] = n /\ DOMAIN x = Cpus(k.env) /\ \A d \in Cpus(k.env) \ {c} : x[d] = Extra(k, d)
    BY DEF Loads
  <2>2. n + -1 = n - 1
    BY <1>1
  <2> HIDE DEF x
  <2>3. [x EXCEPT ![c] = @ + -1] = [d \in Cpus(k.env) |-> IF d = c THEN n + -1 ELSE Extra(k, d)]
    BY <2>1
  <2> QED BY <1>2, <1>5, <2>2, <2>3 DEF Loads
<1>7. QueuedBut(q, NoThread)
  BY <1>1, <1>2 DEF QueuedBut, Allowed
<1>8. Good(q, c, n - 1)
  <2>1. SoundBut(q, c, n - 1, NoThread)
    BY <1>1, <1>3, <1>5, <1>6, <1>7 DEF SoundBut
  <2>2. \A d \in Cpus(k.env) : SameSignals(k, q, d)
    <3>1. SameFlags(k, q)
      BY <1>1 DEF q, tdq_load_rem, Typed, QueueType, TdqFields, SameFlags
    <3> QED BY <1>2, <3>1 DEF SameFlags, SameSignals
  <2>3. \A u \in Threads(k.env) \ {NoThread} :
           Urgent(q, u) => Urgent(k, u) /\ q.td[u].cpu = k.td[u].cpu
    BY <1>2 DEF Urgent
  <2>4. \A d \in Cpus(k.env) \ {c} : SameCpu(k.cpu[d], q.cpu[d])
    BY <1>2 DEF SameCpu
  <2>5. Alert(q, c, NoThread)
    <3> HIDE DEF Alert
    <3> QED BY <1>1, <1>2, <2>2, <2>3, <2>4, AlertKept
  <2> QED BY <2>1, <2>5 DEF Good, GoodBut
<1> QED BY <1>2, <1>4, <1>8 DEF q

\* SwitchRunning: the thread goes back to the queue, or on its way elsewhere.
LEMMA SwitchRunningDone ==
    ASSUME NEW k, NEW c \in Cpus(k.env), Good(k, c, 1), NEW t \in Threads(k.env),
           k.td[t].state = "run", k.td[t].cpu = c \/ k.td[t].pinned # 0, Unowned(k, c, t),
           ~Asleep(k, c), NEW flags, NEW q \in SwitchRunning(k, c, t, flags)
    PROVE  Full(q) /\ q.env = k.env
<1> DEFINE picks == UNION {sched_pickcpu(k, c, t, {}, x[1], x[2]) : x \in k.env.ages \X k.env.intr}
           away == CanMigrate(k, t) /\ ~CanSched(k, t, k.td[t].cpu)
           to   == IF away THEN picks ELSE {k.td[t].cpu}
           how  == {"OURSELF", "YIELDING"} \cup flags
           off(d) == [k EXCEPT !.td[t].cpu = d, !.td[t].state = "canrun"]
           o    == [op |-> "migrate", td |-> t, flags |-> how]
<1>0. Typed(k) /\ k.td[t].state # "runq" /\ k.td[t].pinned \in 0 .. 1
  BY DEF Good, GoodBut, SoundBut, Core, Typed, ThreadType
<1>1. \A d \in to : /\ d \in Cpus(k.env) /\ (d \in k.td[t].mask \/ k.td[t].pinned # 0)
                    /\ d = c => k.td[t].cpu = c
  <2>1. CASE away
    <3> SUFFICES ASSUME NEW d \in picks
                 PROVE  d \in Cpus(k.env) /\ (d \in k.td[t].mask \/ k.td[t].pinned # 0)
                        /\ (d = c => k.td[t].cpu = c)
      BY <2>1
    <3>1. PICK x \in k.env.ages \X k.env.intr : d \in sched_pickcpu(k, c, t, {}, x[1], x[2])
      OBVIOUS
    <3>2. /\ d \in Cpus(k.env) /\ (d \in k.td[t].mask \/ k.td[t].pinned # 0)
      BY <1>0, <3>1, PickIs
    <3>3. k.td[t].pinned = 0
      BY <2>1 DEF CanMigrate
    <3> QED BY <3>2, <3>3
  <2>2. CASE ~away
    BY <1>0, <2>2 DEF CanMigrate, CanSched, Typed, ThreadType
  <2> QED BY <2>1, <2>2
<1>2. \/ \E s \in Slots(k, t) : c \in to /\ q = choosethread(tdq_runq_add(k, c, t, how, s), c)
      \/ \E d \in to \ {c} : q = Op(tdq_load_rem(off(d), c), c, o)
  BY DEF SwitchRunning
<1> HIDE DEF to, how, o
<1>3. CASE \E s \in Slots(k, t) : c \in to /\ q = choosethread(tdq_runq_add(k, c, t, how, s), c)
  <2>1. PICK s \in Slots(k, t) : c \in to /\ q = choosethread(tdq_runq_add(k, c, t, how, s), c)
    BY <1>3
  <2> DEFINE r == tdq_runq_add(k, c, t, how, s)
  <2>2. Good(r, c, 1 - 1) /\ OnlyThread(k, r, t)
    <3>1. k.td[t].cpu = c /\ Allowed(k, t)
      BY <1>1, <2>1 DEF Allowed
    <3> QED BY <1>0, <3>1, RunqAddGood
  <2> HIDE DEF r
  <2>3. Good(r, c, 0) /\ c \in Cpus(r.env) /\ r.env = k.env
    BY <2>2 DEF OnlyThread
  <2> QED BY <2>1, <2>3, ChooseGood DEF r
<1>4. CASE \E d \in to \ {c} : q = Op(tdq_load_rem(off(d), c), c, o)
  <2>1. PICK d \in to \ {c} : q = Op(tdq_load_rem(off(d), c), c, o)
    BY <1>4
  <2>2. d \in Cpus(k.env) /\ (d \in k.td[t].mask \/ k.td[t].pinned # 0)
    BY <1>1
  <2> DEFINE r == AtPlace(k, t, d)
             m == tdq_load_rem(r, c)
  <2>3. off(d) = r
    BY DEF AtPlace
  <2> HIDE DEF off, r
  <2>4. /\ Rewrites(k, r, t) /\ r.td[t].cpu = d /\ r.td[t].state = "canrun"
        /\ \A g \in TdFields \ {"cpu", "state"} : r.td[t][g] = k.td[t][g]
    BY <1>0, <2>2, SetPlace DEF r
  <2>5. Good(r, c, 1) /\ Unowned(r, c, t) /\ r.env = k.env /\ r.cpu = k.cpu
    <3>1. GoodBut(k, c, 1, NoThread)
      BY DEF Good
    <3> QED BY <2>4, <3>1, RewriteGood DEF Good, Rewrites, ButThread
  <2>6. Good(m, c, 1 - 1) /\ m.env = k.env /\ m.td = r.td /\ m.cpu = r.cpu /\ Unowned(m, c, t)
    BY <2>5, LoadRemGood
  <2> HIDE DEF m
  <2>7. /\ Good(m, c, 0) /\ Loose(m, c, t) /\ Allowed(m, t) /\ m.td[t].state = "canrun"
    <3>1. r.td[t].mask = k.td[t].mask /\ r.td[t].pinned = k.td[t].pinned
      BY <2>4 DEF TdFields
    <3> QED BY <2>2, <2>4, <2>6, <3>1 DEF Loose, Allowed
  <2>8. o.op = "migrate" /\ o.td = t /\ OpType(o, m.env) /\ c \in Cpus(m.env)
    BY <2>6 DEF OpType, o
  <2>9. Full(Op(m, c, o)) /\ Op(m, c, o).env = m.env
    <3>1. ~Asleep(m, c)
      BY <2>5, <2>6 DEF Asleep
    <3> QED BY <2>7, <2>8, <3>1, FinishMoving
  <2> QED BY <2>1, <2>3, <2>6, <2>9 DEF m
<1> QED BY <1>2, <1>3, <1>4

\* The operations of a cpu that has no thread.
LEMMA FinishIdle ==
    ASSUME NEW k, NEW c \in Cpus(k.env), Good(k, c, 0), NEW o, OpType(o, k.env),
           o.op \in {"trysteal", "trytake"}, ~Asleep(k, c)
    PROVE  Full(Op(k, c, o)) /\ Op(k, c, o).env = k.env
<1> DEFINE q == Op(k, c, o)
<1>0. GoodBut(k, c, 0, NoThread)
  BY DEF Good
<1>1. /\ Good(q, c, 0) /\ q.env = k.env /\ q.cpu[c].op = o
      /\ q.cpu[c].cur = k.cpu[c].cur /\ q.cpu[c].ipc = k.cpu[c].ipc
  <2>1. /\ GoodBut(q, c, 0, NoThread) /\ q.env = k.env /\ q.cpu[c].op = o
        /\ q.cpu[c].cur = k.cpu[c].cur /\ q.cpu[c].ipc = k.cpu[c].ipc
    BY <1>0, OpGood
  <2> QED BY <2>1 DEF Good
<1> HIDE DEF q
<1>2. Extra(q, c) = 0 /\ Owner(q, c) /\ ~Moving(q, c)
  BY <1>1 DEF Extra, Owner, Busy, Moving
<1>3. Full(q)
  <2>1. Rests(q, c, NoThread)
    BY <1>1 DEF Rests, Asleep
  <2> QED BY <1>1, <1>2, <2>1, Leave
<1> QED BY <1>1, <1>3 DEF q

\* SwitchSleeping: a cpu left without load goes on to steal.
LEMMA SwitchSleepingDone ==
    ASSUME NEW k, NEW c \in Cpus(k.env), Good(k, c, 1), ~Asleep(k, c), NEW q \in SwitchSleeping(k, c)
    PROVE  Full(q) /\ q.env = k.env
<1> DEFINE m == tdq_load_rem(k, c)
           o == [op |-> "trysteal"]
<1>1. Good(m, c, 1 - 1) /\ m.env = k.env /\ ~Asleep(m, c)
  BY LoadRemGood DEF Asleep
<1>2. q = Op(m, c, o) \/ q = choosethread(m, c)
  BY DEF SwitchSleeping
<1> HIDE DEF m
<1>3. Full(Op(m, c, o)) /\ Op(m, c, o).env = m.env
  <2>1. o.op = "trysteal" /\ OpType(o, m.env)
    BY DEF OpType
  <2> HIDE DEF o
  <2> QED BY <1>1, <2>1, FinishIdle
<1> QED BY <1>1, <1>2, <1>3, ChooseGood

\* sched_switch: c's thread, if it has one, is not on a queue; one that still
\* runs is on its cpu, or bound elsewhere.
Ready(k, c) ==
    /\ c \in Cpus(k.env) /\ Good(k, c, Mine(k, c))
    /\ LET t == k.cpu[c].cur
       IN  t # NoThread =>
              /\ Unowned(k, c, t) /\ k.td[t].state # "runq"
              /\ k.td[t].state = "run" => (k.td[t].cpu = c \/ k.td[t].pinned # 0)

\* A cpu at work is ready to switch.
LEMMA WorkReady ==
    ASSUME NEW k, NEW c, AtWork(k, c)
    PROVE  Ready(k, c)
<1> DEFINE t == k.cpu[c].cur
<1>1. ASSUME t # NoThread PROVE Unowned(k, c, t)
  BY <1>1, UnownedWhen DEF AtWork, OwnCur, Good, GoodBut, SoundBut
<1> QED BY <1>1 DEF AtWork, OwnCur, Ready

\* sched_switch: all is well afterwards, or c is at one of the functions that
\* go on without its locks.
LEMMA SwitchDone ==
    ASSUME NEW k, NEW c, Ready(k, c), NEW preempt, NEW q \in sched_switch(k, c, preempt)
    PROVE  Full(q) /\ q.env = k.env
<1> DEFINE t    == k.cpu[c].cur
           d    == k.td[t]
           hurt == IF preempt /\ ~d.sliceend THEN {"PREEMPTED"} ELSE {}
           k1   == [k EXCEPT !.cpu[c].owe = FALSE]
           off  == [k EXCEPT !.cpu[c].owe = FALSE,
                             !.td[t] = [@ EXCEPT !.needresched = FALSE, !.sliceend = FALSE]]
<1>0. /\ Typed(k) /\ c \in Cpus(k.env) /\ (t = NoThread \/ t \in Threads(k.env))
      /\ Good(k, c, Mine(k, c))
  BY DEF Ready, Good, GoodBut, SoundBut, Core, Typed, CpuType
<1>1. Quiet(k, k1)
  BY <1>0, SetCpu
<1>2. q \in IF t = NoThread THEN {choosethread(k1, c)}
            ELSE IF d.state = "run" THEN SwitchRunning(off, c, t, hurt)
            ELSE SwitchSleeping(off, c)
  BY DEF sched_switch, Self
<1>3. CASE t = NoThread
  <2> HIDE DEF k1
  <2>1. Good(k1, c, 0) /\ k1.env = k.env
    <3>1. Harmless(k, k1, c) /\ GoodBut(k, c, 0, NoThread)
      BY <1>0, <1>1, <1>3, QuietIsHarmless DEF Mine, Good
    <3> QED BY <1>1, <3>1, HarmlessKeeps DEF Good, Quiet, Still
  <2> QED BY <1>0, <1>2, <1>3, <2>1, ChooseGood
<1>4. CASE t # NoThread
  <2> DEFINE k2 == [k1 EXCEPT !.td[t].needresched = FALSE]
             k3 == [k2 EXCEPT !.td[t].sliceend = FALSE]
  <2>1. off = k3
    <3>1. /\ DOMAIN k = {"td", "tdq", "cpu", "env"} /\ DOMAIN k.td = Threads(k.env)
          /\ DOMAIN k.td[t] = TdFields /\ t \in Threads(k.env)
      BY <1>0, <1>4 DEF Typed, ThreadType
    <3> QED BY <3>1 DEF TdFields
  <2> HIDE DEF k1
  <2>2. Typed(k1) /\ t \in Threads(k1.env) /\ k1.env = k.env
    BY <1>0, <1>1, <1>4 DEF Quiet, Still
  <2>3. Quiet(k1, k2)
    BY <2>2, SetThread
  <2> HIDE DEF k2
  <2>4. Typed(k2) /\ t \in Threads(k2.env)
    BY <2>2, <2>3 DEF Quiet, Still
  <2>5. Quiet(k2, k3)
    BY <2>4, SetThread
  <2> HIDE DEF k3, off, t
  <2>6. Quiet(k, off)
    BY <1>1, <2>1, <2>3, <2>5, QuietTwice
  <2>7. /\ off.env = k.env /\ off.td[t].state = k.td[t].state /\ off.td[t].cpu = k.td[t].cpu
        /\ off.td[t].pinned = k.td[t].pinned /\ (Unowned(k, c, t) => Unowned(off, c, t))
        /\ off.cpu[c].cur = t
    BY <1>0, <1>4, <2>6, QuietFacts DEF t
  <2>8. Good(off, c, 1)
    <3>1. Harmless(k, off, c) /\ GoodBut(k, c, 1, NoThread)
      BY <1>0, <1>4, <2>6, QuietIsHarmless DEF Mine, Good, t
    <3> QED BY <3>1, HarmlessKeeps DEF Good
  <2>a. ~Asleep(off, c)
    BY <1>4, <2>7 DEF Asleep
  <2>9. /\ Unowned(off, c, t) /\ t \in Threads(off.env) /\ c \in Cpus(off.env)
        /\ off.td[t].state = "run" => (off.td[t].cpu = c \/ off.td[t].pinned # 0)
    BY <1>0, <1>4, <2>7 DEF Ready, t
  <2>10. CASE d.state = "run"
    <3>1. q \in SwitchRunning(off, c, t, hurt) /\ off.td[t].state = "run"
      BY <1>2, <1>4, <2>7, <2>10
    <3> QED BY <2>7, <2>8, <2>9, <2>a, <3>1, SwitchRunningDone
  <2>11. CASE d.state # "run"
    <3>1. q \in SwitchSleeping(off, c)
      BY <1>2, <1>4, <2>11
    <3> QED BY <2>7, <2>8, <2>9, <2>a, <3>1, SwitchSleepingDone
  <2> QED BY <2>10, <2>11
<1> QED BY <1>3, <1>4

-----------------------------------------------------------------------------
(* What follows when a lock that was dropped is had again. *)

\* sched_switch_migrate: the thread arrives on the cpu it was on its way to.
LEMMA SwitchMigrateDone ==
    ASSUME NEW k, Full(k), NEW c \in Cpus(k.env), k.cpu[c].op.op = "migrate",
           NEW q \in sched_switch_migrate(k, c)
    PROVE  Full(q) /\ q.env = k.env
<1> DEFINE o == k.cpu[c].op
           t == o.td
           d == k.td[t].cpu
<1>1. /\ Good(k, c, 0) /\ Typed(k) /\ t \in Threads(k.env) /\ d \in Cpus(k.env)
      /\ k.td[t].state # "runq" /\ Unowned(k, c, t) /\ Allowed(k, t)
  <2>1. Good(k, c, Extra(k, c)) /\ Owner(k, c) /\ Moving(k, c) /\ Unowned(k, c, t)
    BY Enter DEF Moving
  <2>2. Extra(k, c) = 0
    BY DEF Extra, Busy
  <2>3. Typed(k) /\ t \in Threads(k.env)
    BY DEF Full, Good, GoodBut, SoundBut, Core, Typed, CpuType, OpType
  <2>4. k.td[t].state = "canrun" /\ Allowed(k, t)
    BY <2>1 DEF Owner
  <2> QED BY <2>1, <2>2, <2>3, <2>4 DEF Typed, ThreadType
<1>2. PICK s \in Slots(k, t) : q = choosethread(tdq_notify(tdq_add(k, d, t, o.flags, s), d, t), c)
  BY DEF sched_switch_migrate
<1> DEFINE r == tdq_add(k, d, t, o.flags, s)
           m == tdq_notify(r, d, t)
<1>3. /\ SoundBut(r, c, 0, NoThread) /\ Alert(r, c, t) /\ r.env = k.env /\ r.td[t].cpu = d
  <2>1. SoundBut(r, c, 0, NoThread) /\ Alert(r, c, t) /\ OnlyThread(k, r, t)
    <3> HIDE DEF t
    <3> QED BY <1>1, AddGood
  <2> QED BY <2>1 DEF OnlyThread
<1> HIDE DEF r, t, d
<1>4. Good(m, c, 0) /\ Quiet(r, m)
  BY <1>1, <1>3, Told
<1> HIDE DEF m
<1>5. m.env = k.env
  BY <1>3, <1>4 DEF Quiet, Still
<1> QED BY <1>2, <1>4, <1>5, ChooseGood DEF m, r

\* tdq_trysteal: a thread that is still there when both queues are locked is
\* moved to c, and run if it is the best.
LEMMA TrystealDone ==
    ASSUME NEW k, Full(k), NEW c \in Cpus(k.env), k.cpu[c].op.op \in {"trysteal", "trytake"},
           NEW q \in tdq_trysteal(k, c)
    PROVE  Full(q) /\ q.env = k.env
<1> DEFINE o     == k.cpu[c].op
           froms == StealFrom(k, c, AllCpus(k) \ {c}, trysteal_limit)
           t     == tdq_steal(k, o.from, c)
<1>1. Good(k, c, 0) /\ Typed(k) /\ InPlace(k) /\ ~Asleep(k, c)
  <2>1. Good(k, c, Extra(k, c)) /\ Extra(k, c) = 0 /\ Rests(k, c, NoThread)
    BY Enter DEF Extra, Busy
  <2>2. ~Asleep(k, c)
    BY <2>1 DEF Rests, Idle
  <2> QED BY <2>1, <2>2 DEF Good, GoodBut, SoundBut, Core
<1>2. Full(choosethread(k, c)) /\ choosethread(k, c).env = k.env
  BY <1>1, ChooseGood
<1>3. CASE o.op = "trysteal"
  <2>1. q = choosethread(k, c) \/ \E x \in froms : q = Op(k, c, [op |-> "trytake", from |-> x])
    BY <1>3 DEF tdq_trysteal
  <2>2. ASSUME NEW x \in froms
        PROVE  /\ Full(Op(k, c, [op |-> "trytake", from |-> x]))
               /\ Op(k, c, [op |-> "trytake", from |-> x]).env = k.env
    <3> DEFINE p == [op |-> "trytake", from |-> x]
    <3>1. x \in Cpus(k.env)
      BY <1>1, StealFromIs DEF Typed
    <3>2. p.op = "trytake" /\ OpType(p, k.env)
      BY <3>1 DEF OpType
    <3> HIDE DEF p
    <3>3. Full(Op(k, c, p)) /\ Op(k, c, p).env = k.env
      BY <1>1, <3>2, FinishIdle
    <3> QED BY <3>3 DEF p
  <2> HIDE DEF froms
  <2> QED BY <1>2, <2>1, <2>2
<1>4. CASE o.op # "trysteal"
  <2>1. o.op = "trytake" /\ o.from \in Cpus(k.env)
    BY <1>1, <1>4 DEF Typed, CpuType, OpType
  <2>2. q = choosethread(k, c) \/ (t # NoThread /\ \E m \in tdq_move(k, t, c) : q = choosethread(m, c))
    BY <1>4 DEF tdq_trysteal
  <2>3. ASSUME t # NoThread, NEW m \in tdq_move(k, t, c)
        PROVE  Full(choosethread(m, c)) /\ choosethread(m, c).env = k.env
    <3>1. t \in Queued(k, o.from) /\ CanSched(k, t, c)
      BY <1>1, <2>1, <2>3, StealIs
    <3> HIDE DEF t
    <3>2. t \in Threads(k.env) /\ k.td[t].state = "runq"
      BY <3>1 DEF Queued
    <3>3. Good(m, c, 0) /\ m.env = k.env
      BY <1>1, <2>3, <3>1, <3>2, MoveGood DEF ButThread
    <3> QED BY <3>3, ChooseGood
  <2> HIDE DEF t
  <2> QED BY <1>2, <2>2, <2>3
<1> QED BY <1>3, <1>4

\* The balancer gives its thread time, or goes on.
LEMMA ClockDone ==
    ASSUME NEW k, NEW c, AtWork(k, c), NEW q \in sched_clock(k, c)
    PROVE  Full(q) /\ q.env = k.env
<1> DEFINE d    == k.tdq[c]
           next == (d.idx + 1) % RQ_NQS
           v    == IF At(d.timeshare, d.ridx) = << >> THEN next ELSE d.ridx
           adv  == Advanced(k, c)
           t    == Self(k, c)
           idle == Op(adv, c, Idle)
           ends(x) == SliceEnded(x, t)
<1>0. Typed(k) /\ c \in Cpus(k.env) /\ (t = NoThread \/ t \in Threads(k.env))
  BY DEF AtWork, Good, GoodBut, SoundBut, Core, Typed, CpuType, Self
<1>1. \/ t = NoThread /\ q = idle
      \/ t # NoThread /\ \E x \in sched_priority(idle, t) : q = x \/ q = ends(x)
  <2>1. q \in IF t = NoThread THEN {idle}
              ELSE {IF end THEN ends(x) ELSE x : end \in k.env.ends, x \in sched_priority(idle, t)}
    BY DEF sched_clock
  <2> HIDE DEF idle, ends, t
  <2> QED BY <2>1
<1>2. Quiet(k, adv)
  <2>1. d.idx \in Index /\ d.ridx \in Index /\ next \in Index
    <3>1. d.idx \in Index /\ d.ridx \in Index
      BY <1>0 DEF Typed, QueueType
    <3> QED BY <3>1, IndexMod DEF Index
  <2> DEFINE k1 == [k EXCEPT !.tdq[c].idx = next]
             k2 == [k1 EXCEPT !.tdq[c].ridx = v]
  <2>2. v \in Index
    BY <2>1
  <2> HIDE DEF next, v
  <2>3. [k EXCEPT !.tdq[c] = [@ EXCEPT !.idx = next, !.ridx = v]] = k2
    <3>1. /\ DOMAIN k = {"td", "tdq", "cpu", "env"} /\ DOMAIN k.tdq = Cpus(k.env)
          /\ DOMAIN k.tdq[c] = TdqFields
      BY <1>0 DEF Typed, QueueType
    <3> QED BY <1>0, <3>1 DEF TdqFields
  <2>4. Quiet(k, k1)
    BY <1>0, <2>1, SetQueue
  <2> HIDE DEF k1
  <2>5. Quiet(k1, k2)
    BY <1>0, <2>2, <2>4, SetQueue DEF Quiet, Still
  <2>6. Quiet(k, k2)
    BY <2>4, <2>5, QuietTwice
  <2>7. adv = k \/ adv = [k EXCEPT !.tdq[c] = [@ EXCEPT !.idx = next, !.ridx = v]]
    BY DEF Advanced, next, v
  <2> HIDE DEF adv, d, k2
  <2> QED BY <1>0, <2>3, <2>6, <2>7, QuietSelf
<1> HIDE DEF adv
<1>3. AtWork(idle, c) /\ idle.env = k.env /\ idle.cpu[c].op = Idle /\ Full(idle)
  <2>1. AtWork(adv, c) /\ adv.env = k.env
    BY <1>2, QuietWork
  <2>2. OpType(Idle, adv.env) /\ Idle.op = "none"
    BY DEF OpType, Idle
  <2>3. AtWork(idle, c) /\ idle.env = adv.env /\ Full(idle)
    BY <2>1, <2>2, FinishOp
  <2>4. idle.cpu[c].op = Idle
    <3>1. GoodBut(adv, c, Mine(adv, c), NoThread) /\ c \in Cpus(adv.env)
      BY <2>1 DEF AtWork, Good
    <3> QED BY <2>2, <3>1, OpGood
  <2> QED BY <2>1, <2>3, <2>4
<1> HIDE DEF idle, t
<1>4. ASSUME t # NoThread, NEW x \in sched_priority(idle, t)
      PROVE  Quiet(idle, x) /\ Quiet(idle, ends(x))
  <2>0. Typed(idle) /\ t \in Threads(idle.env)
    BY <1>0, <1>3, <1>4 DEF AtWork, Good, GoodBut, SoundBut, Core
  <2>1. Quiet(idle, x)
    BY <1>4, <2>0, PriorityQuiet
  <2> DEFINE k1 == [x EXCEPT !.td[t].needresched = TRUE]
             k2 == [k1 EXCEPT !.td[t].sliceend = TRUE]
  <2>2. Typed(x) /\ t \in Threads(x.env)
    BY <2>0, <2>1 DEF Quiet, Still
  <2>3. ends(x) = k2
    <3>1. /\ DOMAIN x = {"td", "tdq", "cpu", "env"} /\ DOMAIN x.td = Threads(x.env)
          /\ DOMAIN x.td[t] = TdFields
      BY <2>2 DEF Typed, ThreadType
    <3> QED BY <2>2, <3>1 DEF TdFields, SliceEnded
  <2>4. Quiet(x, k1)
    BY <2>2, SetThread
  <2> HIDE DEF k1
  <2>5. Quiet(k1, k2)
    BY <2>2, <2>4, SetThread DEF Quiet, Still
  <2> HIDE DEF k2, ends
  <2> QED BY <2>1, <2>3, <2>4, <2>5, QuietTwice
<1> HIDE DEF ends
<1>5. Plain(idle, c)
  BY <1>3 DEF Plain, Idle
<1> QED BY <1>1, <1>3, <1>4, <1>5, QuietWork

\* The search for a cpu to give to.
LEMMA BalanceLowDone ==
    ASSUME NEW k, NEW c, AtWork(k, c), NEW high \in Cpus(k.env), NEW hmask, NEW lmask, NEW anylow,
           NEW q \in BalanceLow(k, c, high, hmask, lmask, anylow)
    PROVE  Full(q) /\ q.env = k.env
<1> DEFINE lows == sched_lowest(k.env.topo, k.tdq, TOP, lmask, -1, k.tdq[high].load - 1, high)
           pair(x) == [op |-> "pair", high |-> high, low |-> x, hmask |-> hmask, lmask |-> lmask]
           o == [op |-> "balance", hmask |-> hmask]
<1>1. \/ \E x \in lows : q = Op(k, c, pair(x))
      \/ q \in sched_clock(k, c)
      \/ q = Op(k, c, o)
  BY DEF BalanceLow
<1>2. ASSUME NEW x \in lows PROVE Full(Op(k, c, pair(x))) /\ Op(k, c, pair(x)).env = k.env
  <2>1. x \in Cpus(k.env)
    <3>1. k.env \in Scenes /\ TOP \in DOMAIN k.env.topo
      BY ScenesAssumption DEF AtWork, Good, GoodBut, SoundBut, Core, Typed
    <3> QED BY <3>1, LowestIn
  <2> DEFINE p == pair(x)
  <2>2. p.op = "pair" /\ OpType(p, k.env)
    BY <2>1 DEF OpType
  <2> HIDE DEF p
  <2>3. Full(Op(k, c, p)) /\ Op(k, c, p).env = k.env
    BY <2>2, FinishOp
  <2> QED BY <2>3 DEF p
<1>3. Full(Op(k, c, o)) /\ Op(k, c, o).env = k.env
  <2>1. o.op = "balance" /\ OpType(o, k.env)
    BY DEF OpType
  <2> HIDE DEF o
  <2> QED BY <2>1, FinishOp
<1> HIDE DEF lows, pair, o
<1> QED BY <1>1, <1>2, <1>3, ClockDone

\* sched_balance_group.
LEMMA BalanceGroupDone ==
    ASSUME NEW k, NEW c, AtWork(k, c), NEW q \in sched_balance_group(k, c)
    PROVE  Full(q) /\ q.env = k.env
<1> DEFINE hmask == k.cpu[c].op.hmask
           highs == sched_highest(k.env.topo, k.tdq, TOP, hmask, 2)
<1>1. highs \subseteq Cpus(k.env)
  <2>1. k.env \in Scenes /\ TOP \in DOMAIN k.env.topo
    BY ScenesAssumption DEF AtWork, Good, GoodBut, SoundBut, Core, Typed
  <2> QED BY <2>1, HighestIn
<1>2. \/ q \in sched_clock(k, c)
      \/ \E h \in highs : q \in BalanceLow(k, c, h, hmask \ {h}, hmask \ {h}, TRUE)
  BY DEF sched_balance_group
<1>3. ASSUME NEW h \in highs, q \in BalanceLow(k, c, h, hmask \ {h}, hmask \ {h}, TRUE)
      PROVE  Full(q) /\ q.env = k.env
  <2> DEFINE b == TRUE
  <2>1. h \in Cpus(k.env) /\ q \in BalanceLow(k, c, h, hmask \ {h}, hmask \ {h}, b)
    BY <1>1, <1>3
  <2> HIDE DEF hmask, b
  <2> QED BY <2>1, BalanceLowDone
<1> HIDE DEF highs
<1> QED BY <1>2, <1>3, ClockDone

\* sched_balance_pair: a thread goes from one cpu to another, under both locks.
LEMMA BalancePairDone ==
    ASSUME NEW k, NEW c, AtWork(k, c), k.cpu[c].op.op = "pair", NEW q \in sched_balance_pair(k, c)
    PROVE  Full(q) /\ q.env = k.env
<1> DEFINE o == k.cpu[c].op
           t == tdq_steal(k, o.high, o.low)
           p == [op |-> "balance", hmask |-> o.hmask \ {o.low}]
<1>0. /\ Typed(k) /\ InPlace(k) /\ c \in Cpus(k.env)
      /\ o.high \in Cpus(k.env) /\ o.low \in Cpus(k.env)
  BY DEF AtWork, Good, GoodBut, SoundBut, Core, Typed, CpuType, OpType
<1>1. \/ q \in BalanceLow(k, c, o.high, o.hmask, o.lmask \ {o.low}, FALSE)
      \/ t # NoThread /\ \E m \in tdq_move(k, t, o.low) :
            q = Op(IF o.low # c THEN tdq_notify(m, o.low, t) ELSE m, c, p)
  BY DEF sched_balance_pair
<1>2. ASSUME t # NoThread, NEW m \in tdq_move(k, t, o.low)
      PROVE  LET r == IF o.low # c THEN tdq_notify(m, o.low, t) ELSE m
             IN  Full(Op(r, c, p)) /\ Op(r, c, p).env = k.env
  <2>1. t \in Queued(k, o.high) /\ CanSched(k, t, o.low)
    BY <1>0, <1>2, StealIs
  <2> HIDE DEF t
  <2>2. t \in Threads(k.env) /\ k.td[t].state = "runq"
    BY <2>1 DEF Queued
  <2>3. /\ SoundBut(m, c, Mine(k, c), NoThread) /\ Alert(m, c, t)
        /\ (o.low = c => Good(m, c, Mine(k, c))) /\ ButThread(k, m, t) /\ m.td[t].cpu = o.low
    <3>1. Good(k, c, Mine(k, c))
      BY DEF AtWork
    <3> HIDE DEF o
    <3> QED BY <1>0, <1>2, <2>1, <2>2, <3>1, MoveGood
  <2>4. OwnCur(m, c) /\ ~Asleep(m, c) /\ Mine(m, c) = Mine(k, c) /\ m.env = k.env /\ Typed(m)
    <3>1. k.cpu[c].cur # NoThread => k.cpu[c].cur \in Threads(k.env) \ {t}
      BY <1>0, <2>2 DEF AtWork, Typed, CpuType, OwnCur
    <3> QED BY <1>0, <2>3, <3>1 DEF AtWork, Mine, OwnCur, Asleep, ButThread, SoundBut, Core
  <2> DEFINE r == IF o.low # c THEN tdq_notify(m, o.low, t) ELSE m
  <2>5. AtWork(r, c) /\ r.env = k.env
    <3>1. CASE o.low = c
      BY <1>0, <2>3, <2>4, <3>1 DEF AtWork
    <3>2. CASE o.low # c
      <4>1. Good(r, c, Mine(m, c)) /\ Quiet(m, r)
        <5> HIDE DEF o
        <5> QED BY <1>0, <2>2, <2>3, <2>4, <3>2, Told
      <4> HIDE DEF r
      <4>2. /\ r.env = k.env /\ r.cpu[c].cur = m.cpu[c].cur
            /\ \A u \in Threads(k.env) : r.td[u].state = m.td[u].state /\ r.td[u].cpu = m.td[u].cpu
        BY <1>0, <2>4, <4>1, QuietFacts
      <4>3. m.cpu[c].cur # NoThread => m.cpu[c].cur \in Threads(k.env)
        BY <1>0, <2>4 DEF Typed, CpuType
      <4>4. OwnCur(r, c) /\ Mine(r, c) = Mine(m, c)
        BY <2>4, <4>2, <4>3 DEF OwnCur, Mine
      <4>5. ~Asleep(r, c)
        BY <1>0, <2>4, <4>1, <4>2 DEF Asleep, Quiet, SameSignals, Sleepy
      <4> QED BY <1>0, <4>1, <4>2, <4>4, <4>5 DEF AtWork
    <3> QED BY <3>1, <3>2
  <2>6. p.op = "balance" /\ OpType(p, r.env)
    BY DEF OpType
  <2> HIDE DEF r, p
  <2>7. Full(Op(r, c, p)) /\ Op(r, c, p).env = k.env
    BY <2>5, <2>6, FinishOp
  <2> QED BY <2>7 DEF r
<1>3. ASSUME q \in BalanceLow(k, c, o.high, o.hmask, o.lmask \ {o.low}, FALSE)
      PROVE  Full(q) /\ q.env = k.env
  <2> DEFINE b == FALSE
  <2>1. q \in BalanceLow(k, c, o.high, o.hmask, o.lmask \ {o.low}, b)
    BY <1>3
  <2> HIDE DEF o, b
  <2> QED BY <1>0, <2>1, BalanceLowDone
<1> HIDE DEF t, p
<1> QED BY <1>1, <1>2, <1>3

-----------------------------------------------------------------------------
(* Changes of priority: quiet, unless the thread has to change queues. *)

\* An operation of c on thread t may lead to q.
Settled(k, q, t) == Full(q) /\ q.env = k.env /\ (k.td[t].state # "runq" => Quiet(k, q))

\* Quiet steps are such operations.
LEMMA QuietSettled ==
    ASSUME NEW k, NEW c, AtWork(k, c), Plain(k, c), NEW q, Quiet(k, q), NEW t
    PROVE  Settled(k, q, t)
BY QuietWork DEF Settled

\* So is one after a quiet step.
LEMMA AfterQuiet ==
    ASSUME NEW k, NEW c, AtWork(k, c), Plain(k, c), NEW q, Quiet(k, q), NEW t \in Threads(k.env),
           NEW r, Settled(q, r, t)
    PROVE  /\ Settled(k, r, t)
<1>1. q.env = k.env /\ q.td[t].state = k.td[t].state
  BY QuietFacts DEF AtWork, Good, GoodBut, SoundBut, Core
<1> QED BY <1>1, QuietTwice DEF Settled

\* sched_thread_priority: a queued thread with a better priority is taken off
\* its queue and added anew, maybe elsewhere; the others only change theirs.
LEMMA ThreadPriorityDone ==
    ASSUME NEW k, NEW c, AtWork(k, c), Plain(k, c), NEW t \in Threads(k.env), NEW prio \in Priority,
           NEW q \in sched_thread_priority(k, c, t, prio)
    PROVE  Settled(k, q, t)
<1> DEFINE d   == k.td[t]
           set == [k EXCEPT !.td[t].pri = prio]
           rem == sched_rem(k, t)
           r   == [rem EXCEPT !.td[t].pri = prio]
<1>0. Typed(k) /\ InPlace(k) /\ d.cpu \in Cpus(k.env) /\ c \in Cpus(k.env)
  BY DEF AtWork, Good, GoodBut, SoundBut, Core, Typed, ThreadType
<1>1. \/ q = k
      \/ d.state = "runq" /\ q \in sched_add(r, c, t, {"BORROWING"}, d.cpu)
      \/ /\ d.state = "runq" => prio >= d.pri
         /\ \/ q = [set EXCEPT !.tdq[d.cpu].lowpri = prio]
            \/ q = tdq_setlowpri(set, d.cpu, prio)
            \/ q = set
  <2>1. d.pri \in Int /\ prio \in Int
    BY <1>0 DEF Typed, ThreadType, Priority
  <2> QED BY <2>1 DEF sched_thread_priority
<1>2. Quiet(k, k)
  BY <1>0, QuietSelf
<1>3. ASSUME d.state = "runq" => prio >= d.pri
      PROVE  /\ Quiet(k, set) /\ Quiet(k, [set EXCEPT !.tdq[d.cpu].lowpri = prio])
             /\ Quiet(k, tdq_setlowpri(set, d.cpu, prio))
  <2>1. Quiet(k, set)
    BY <1>0, <1>3, SetThread
  <2> HIDE DEF set
  <2>2. Quiet(k, [set EXCEPT !.tdq[d.cpu].lowpri = prio])
    <3>1. Quiet(set, [set EXCEPT !.tdq[d.cpu].lowpri = prio])
      <4> HIDE DEF d
      <4>1. Typed(set) /\ d.cpu \in Cpus(set.env)
        BY <1>0, <2>1 DEF Quiet, Still
      <4> QED BY <4>1, SetQueue
    <3> QED BY <2>1, <3>1, QuietTwice
  <2>3. Quiet(k, tdq_setlowpri(set, d.cpu, prio))
    <3>1. Typed(set) /\ InPlace(set) /\ set.env = k.env
      BY <2>1, QuietWork DEF AtWork, Good, GoodBut, SoundBut, Core
    <3>2. Quiet(set, tdq_setlowpri(set, d.cpu, prio))
      BY <1>0, <3>1, SetlowpriQuiet
    <3> QED BY <2>1, <3>2, QuietTwice
  <2> QED BY <2>1, <2>2, <2>3
<1> HIDE DEF set
<1>6. ASSUME d.state = "runq", q \in sched_add(r, c, t, {"BORROWING"}, d.cpu)
      PROVE  Full(q) /\ q.env = k.env
  <2>1. /\ Good(rem, c, Mine(k, c)) /\ OnlyThread(k, rem, t) /\ rem.td[t].state = "canrun"
        /\ Unowned(rem, c, t)
    <3>1. GoodBut(k, c, Mine(k, c), t)
      <4>1. QueuedBut(k, NoThread) /\ NoThread \notin Threads(k.env)
        BY NoOne DEF AtWork, Good, GoodBut, SoundBut, Core, Typed
      <4>2. QueuedBut(k, t)
        BY <4>1 DEF QueuedBut
      <4> QED BY <4>2 DEF AtWork, Good, GoodBut, SoundBut
    <3> QED BY <1>6, <3>1, RemGood
  <2> HIDE DEF rem
  <2>2. AtWork(rem, c) /\ rem.env = k.env /\ Loose(rem, c, t)
    <3>1. k.cpu[c].cur # NoThread => k.cpu[c].cur \in Threads(k.env) \ {t}
      BY <1>0, <1>6 DEF AtWork, OwnCur, Typed, CpuType
    <3> QED BY <1>0, <2>1, <3>1 DEF AtWork, Mine, OwnCur, OnlyThread, Loose, Asleep
  <2>3. Quiet(rem, r)
    <3>1. Typed(rem) /\ t \in Threads(rem.env) /\ rem.td[t].state # "runq"
      BY <2>1, <2>2 DEF AtWork, Good, GoodBut, SoundBut, Core
    <3> QED BY <3>1, SetThread
  <2> HIDE DEF r
  <2>4. AtWork(r, c) /\ r.env = k.env /\ Loose(r, c, t)
    BY <2>2, <2>3, QuietWork, QuietLoose DEF AtWork, Good, GoodBut, SoundBut, Core
  <2> DEFINE flags == {"BORROWING"}
  <2>5. "OURSELF" \notin flags
    OBVIOUS
  <2> HIDE DEF flags, d
  <2>6. q \in sched_add(r, c, t, flags, d.cpu)
    BY <1>6 DEF flags
  <2> QED BY <2>4, <2>5, <2>6, AddWork
<1>7. CASE d.state = "runq" /\ q \in sched_add(r, c, t, {"BORROWING"}, d.cpu)
  BY <1>6, <1>7 DEF Settled
<1> HIDE DEF d, r
<1> QED BY <1>1, <1>2, <1>3, <1>7, QuietSettled

\* sched_lend_prio.
LEMMA LendPrioDone ==
    ASSUME NEW k, NEW c, AtWork(k, c), Plain(k, c), NEW t \in Threads(k.env), NEW prio \in Priority,
           NEW q \in sched_lend_prio(k, c, t, prio)
    PROVE  Settled(k, q, t)
<1> DEFINE r == [k EXCEPT !.td[t].borrowing = TRUE]
<1>1. Quiet(k, r) /\ Typed(k)
  BY SetThread DEF AtWork, Good, GoodBut, SoundBut, Core
<1>2. q \in sched_thread_priority(r, c, t, prio)
  BY DEF sched_lend_prio
<1> HIDE DEF r
<1>3. AtWork(r, c) /\ Plain(r, c) /\ t \in Threads(r.env)
  BY <1>1, QuietWork DEF Plain
<1>4. Settled(r, q, t)
  BY <1>2, <1>3, ThreadPriorityDone
<1> QED BY <1>1, <1>4, AfterQuiet

\* sched_unlend_prio.
LEMMA UnlendPrioDone ==
    ASSUME NEW k, NEW c, AtWork(k, c), Plain(k, c), NEW t \in Threads(k.env), NEW prio \in Priority,
           NEW q \in sched_unlend_prio(k, c, t, prio)
    PROVE  Settled(k, q, t)
<1> DEFINE d    == k.td[t]
           base == IF d.base \in PRI_MIN_TIMESHARE .. PRI_MAX_TIMESHARE THEN d.user ELSE d.base
           r    == [k EXCEPT !.td[t].borrowing = FALSE]
<1>1. Quiet(k, r) /\ Typed(k)
  BY SetThread DEF AtWork, Good, GoodBut, SoundBut, Core
<1>2. base \in Priority
  BY <1>1 DEF Typed, ThreadType
<1>3. q \in sched_thread_priority(r, c, t, base) \/ q \in sched_lend_prio(k, c, t, prio)
  BY DEF sched_unlend_prio
<1> HIDE DEF r, base
<1>4. AtWork(r, c) /\ Plain(r, c) /\ t \in Threads(r.env)
  BY <1>1, QuietWork DEF Plain
<1>5. CASE q \in sched_thread_priority(r, c, t, base)
  <2>1. Settled(r, q, t)
    BY <1>2, <1>4, <1>5, ThreadPriorityDone
  <2> QED BY <1>1, <2>1, AfterQuiet
<1> QED BY <1>3, <1>5, LendPrioDone

\* sched_prio.
LEMMA PrioDone ==
    ASSUME NEW k, NEW c, AtWork(k, c), Plain(k, c), NEW t \in Threads(k.env), NEW prio \in Priority,
           NEW q \in sched_prio(k, c, t, prio)
    PROVE  Settled(k, q, t)
<1> DEFINE r == [k EXCEPT !.td[t].base = prio]
<1>1. Quiet(k, r)
  BY SetThread DEF AtWork, Good, GoodBut, SoundBut, Core
<1>2. q = r \/ q \in sched_thread_priority(r, c, t, prio)
  BY DEF sched_prio
<1> HIDE DEF r
<1>3. AtWork(r, c) /\ Plain(r, c) /\ t \in Threads(r.env)
  BY <1>1, QuietWork DEF Plain
<1>4. CASE q \in sched_thread_priority(r, c, t, prio)
  <2>1. Settled(r, q, t)
    BY <1>3, <1>4, ThreadPriorityDone
  <2> QED BY <1>1, <2>1, AfterQuiet
<1> QED BY <1>1, <1>2, <1>4, QuietSettled

\* sched_lend_user_prio.
LEMMA LendUserPrioDone ==
    ASSUME NEW k, NEW c, AtWork(k, c), Plain(k, c), NEW t \in Threads(k.env), NEW prio \in Priority,
           NEW q \in sched_lend_user_prio(k, c, t, prio)
    PROVE  Settled(k, q, t)
<1> DEFINE v    == Min({prio, k.td[t].base_user})
           lent == [k EXCEPT !.td[t].lend_user = prio, !.td[t].user = v]
           k1   == [k EXCEPT !.td[t].lend_user = prio]
           k2   == [k1 EXCEPT !.td[t].user = v]
           d    == lent.td[t]
           r    == [lent EXCEPT !.td[t].needresched = @ \/ d.pri # d.user]
<1>0. Typed(k) /\ v \in Priority
  <2>1. Typed(k) /\ k.td[t].base_user \in Priority
    BY DEF AtWork, Good, GoodBut, SoundBut, Core, Typed, ThreadType
  <2> QED BY <2>1, MinPriority
<1>1. q \in sched_prio(lent, c, t, d.user) \/ q = r
  BY DEF sched_lend_user_prio
<1> HIDE DEF v
<1>2. lent = k2
  <2>1. /\ DOMAIN k = {"td", "tdq", "cpu", "env"} /\ DOMAIN k.td = Threads(k.env)
        /\ DOMAIN k.td[t] = TdFields
    BY <1>0 DEF Typed, ThreadType
  <2> QED BY <2>1 DEF TdFields
<1> HIDE DEF lent
<1>3. Quiet(k, k1)
  BY <1>0, SetThread
<1> HIDE DEF k1
<1>4. Quiet(k, lent)
  <2>1. Quiet(k1, k2)
    BY <1>0, <1>3, SetThread DEF Quiet, Still
  <2> HIDE DEF k2
  <2> QED BY <1>2, <1>3, <2>1, QuietTwice
<1>5. AtWork(lent, c) /\ Plain(lent, c) /\ t \in Threads(lent.env) /\ Typed(lent)
  BY <1>4, QuietWork DEF Plain, Quiet, Still
<1>6. d.user \in Priority
  BY <1>5 DEF Typed, ThreadType
<1>7. CASE q \in sched_prio(lent, c, t, d.user)
  <2>1. Settled(lent, q, t)
    <3> HIDE DEF d
    <3> QED BY <1>5, <1>6, <1>7, PrioDone
  <2> QED BY <1>4, <2>1, AfterQuiet
<1>8. CASE q = r
  <2> DEFINE b == d.needresched \/ d.pri # d.user
  <2>1. r = [lent EXCEPT !.td[t].needresched = b]
    OBVIOUS
  <2> HIDE DEF b, d
  <2>2. Quiet(lent, r)
    BY <1>5, <2>1, SetThread
  <2> HIDE DEF r
  <2>3. Quiet(k, r)
    BY <1>4, <2>2, QuietTwice
  <2> QED BY <1>8, <2>3, QuietSettled
<1> QED BY <1>1, <1>7, <1>8

\* sched_nice.
LEMMA NiceDone ==
    ASSUME NEW k, NEW c, AtWork(k, c), Plain(k, c), NEW t \in Threads(k.env),
           NEW q \in sched_nice(k, c, t)
    PROVE  Settled(k, q, t)
<1>1. PICK r \in sched_priority(k, t) : q \in sched_prio(r, c, t, r.td[t].base_user)
  BY DEF sched_nice
<1>2. Quiet(k, r)
  BY PriorityQuiet DEF AtWork, Good, GoodBut, SoundBut, Core
<1>3. AtWork(r, c) /\ Plain(r, c) /\ t \in Threads(r.env)
  BY <1>2, QuietWork DEF Plain
<1>4. r.td[t].base_user \in Priority
  BY <1>2, <1>3 DEF Quiet, Still, Typed, ThreadType
<1>5. Settled(r, q, t)
  BY <1>1, <1>3, <1>4, PrioDone
<1> QED BY <1>2, <1>5, AfterQuiet

\* sched_sleep.
LEMMA SleepPrioDone ==
    ASSUME NEW k, NEW c, AtWork(k, c), Plain(k, c), NEW t \in Threads(k.env),
           NEW q \in sched_sleep(k, c, t)
    PROVE  Settled(k, q, t)
<1>1. q = k \/ q \in sched_prio(k, c, t, static_boost)
  BY DEF sched_sleep
<1>2. static_boost \in Priority /\ Quiet(k, k)
  <2>1. Typed(k)
    BY DEF AtWork, Good, GoodBut, SoundBut, Core
  <2>2. static_boost = 152
    BY DEF static_boost, PRI_TIMESHARE_RANGE, PRI_INTERACT_RANGE,
           PRI_MAX_TIMESHARE, PRI_MIN_TIMESHARE, SCHED_PRI_NRESV, PRI_MIN_BATCH
  <2> QED BY <2>1, <2>2, QuietSelf DEF Priority, PRI_MAX_IDLE
<1> HIDE DEF static_boost
<1> QED BY <1>1, <1>2, PrioDone, QuietSettled

-----------------------------------------------------------------------------
(* What the running thread does to itself, fork and exit. *)

\* Rewriting the thread that c runs.
LEMMA RewriteOwn ==
    ASSUME NEW k, NEW c, AtWork(k, c), NEW t, t = k.cpu[c].cur, t # NoThread,
           NEW q, Rewrites(k, q, t),
           q.td[t].state = "run" => (q.td[t].cpu = c \/ q.td[t].pinned # 0)
    PROVE  /\ Ready(q, c) /\ Good(q, c, 1) /\ q.env = k.env /\ q.cpu = k.cpu
           /\ q.td[t].state = "run" /\ q.td[t].cpu = c => AtWork(q, c)
<1>1. Unowned(k, c, t) /\ GoodBut(k, c, 1, NoThread) /\ c \in Cpus(k.env)
  BY WorkReady DEF Ready, AtWork, Good, Mine
<1>2. GoodBut(q, c, 1, NoThread) /\ Unowned(q, c, t)
  BY <1>1, RewriteGood
<1>3. q.env = k.env /\ q.cpu = k.cpu /\ q.td[t].state # "runq"
  BY DEF Rewrites, ButThread
<1> QED BY <1>1, <1>2, <1>3 DEF Ready, AtWork, Good, Mine, OwnCur, Asleep

\* The thread c runs, with its pin set.
LEMMA PinOwn ==
    ASSUME NEW k, NEW c, AtWork(k, c), NEW t, t = k.cpu[c].cur, t # NoThread, NEW v \in 0 .. 1
    PROVE  LET q == WithOwn(k, t, "pinned", v)
           IN  /\ AtWork(q, c) /\ q.env = k.env /\ q.cpu = k.cpu /\ q.td[t].pinned = v
<1> DEFINE q == WithOwn(k, t, "pinned", v)
<1> DEFINE f == "pinned"
<1>0. /\ Typed(k) /\ t \in Threads(k.env) /\ k.td[t].state = "run" /\ k.td[t].cpu = c
      /\ f = "pinned"
  BY DEF AtWork, Good, GoodBut, SoundBut, Core, Typed, CpuType, OwnCur
<1>1. q = WithOwn(k, t, f, v)
  OBVIOUS
<1> HIDE DEF f, q
<1>2. Rewrites(k, q, t) /\ q.td[t][f] = v /\ \A g \in TdFields \ {f} : q.td[t][g] = k.td[t][g]
  <2>1. OwnField(f, v, k.env) /\ k.td[t].state # "runq"
    BY <1>0 DEF OwnField
  <2> QED BY <1>0, <1>1, <2>1, SetOwn
<1>3. q.td[t].state = "run" /\ q.td[t].cpu = c /\ q.td[t].pinned = v
  BY <1>0, <1>2 DEF TdFields
<1>4. AtWork(q, c) /\ q.env = k.env /\ q.cpu = k.cpu
  <2>1. AtWork(k, c) /\ t = k.cpu[c].cur /\ t # NoThread
    OBVIOUS
  <2> QED BY ONLY <1>2, <1>3, <2>1, RewriteOwn
<1> QED BY <1>3, <1>4 DEF q

\* Setting the bound flag and the pin of the thread c runs.
WithBound(k, t, b, v) == [k EXCEPT !.td[t] = [@ EXCEPT !.bound = b, !.pinned = v]]

\* It stays as it is otherwise.
LEMMA BoundOwn ==
    ASSUME NEW k, NEW c, AtWork(k, c), NEW t, t = k.cpu[c].cur, t # NoThread,
           NEW v \in 0 .. 1, NEW b
    PROVE  LET q == WithBound(k, t, b, v)
           IN  AtWork(q, c) /\ q.env = k.env /\ q.cpu = k.cpu /\ q.td[t].pinned = v
<1> DEFINE q  == WithBound(k, t, b, v)
           k1 == [k EXCEPT !.td[t].bound = b]
           k2 == WithOwn(k1, t, "pinned", v)
<1>0. Typed(k) /\ t \in Threads(k.env)
  BY DEF AtWork, Good, GoodBut, SoundBut, Core, Typed, CpuType
<1>1. q = k2
  <2>1. /\ DOMAIN k = {"td", "tdq", "cpu", "env"} /\ DOMAIN k.td = Threads(k.env)
        /\ DOMAIN k.td[t] = TdFields
    BY <1>0 DEF Typed, ThreadType
  <2> QED BY <1>0, <2>1 DEF TdFields, WithOwn, WithBound
<1>2. Quiet(k, k1) /\ k1.cpu = k.cpu
  <2>1. Quiet(k, k1)
    BY <1>0, SetThread
  <2> QED BY <1>0, <2>1 DEF Typed
<1> HIDE DEF q, k1
<1>3. AtWork(k1, c) /\ k1.env = k.env /\ t = k1.cpu[c].cur
  BY <1>2, QuietWork
<1>4. AtWork(k2, c) /\ k2.env = k1.env /\ k2.cpu = k1.cpu /\ k2.td[t].pinned = v
  BY <1>3, PinOwn
<1> QED BY <1>1, <1>2, <1>3, <1>4 DEF q

\* sched_bind: pinned first, the thread may be sent to a cpu that is not in
\* its mask.
LEMMA BindDone ==
    ASSUME NEW k, NEW c, AtWork(k, c), Plain(k, c), k.cpu[c].cur # NoThread,
           NEW to \in Cpus(k.env), NEW q \in sched_bind(k, c, to)
    PROVE  Full(q) /\ q.env = k.env
<1> DEFINE t == k.cpu[c].cur
           yes == TRUE
           b == WithBound(k, t, yes, 1)
           f == "cpu"
           m == WithOwn(b, t, f, to)
<1>1. q = b \/ q \in sched_switch(m, c, FALSE)
  BY DEF sched_bind, Self, WithOwn, WithBound
<1> HIDE DEF yes
<1>2. AtWork(b, c) /\ b.env = k.env /\ b.cpu = k.cpu /\ b.td[t].pinned = 1
  BY BoundOwn
<1> HIDE DEF b
<1>3. Full(b)
  BY <1>2, Finish DEF Plain
<1>4. CASE q \in sched_switch(m, c, FALSE)
  <2>1. /\ Typed(b) /\ t \in Threads(b.env) /\ b.td[t].state # "runq" /\ f = "cpu"
        /\ t = b.cpu[c].cur /\ t # NoThread
    BY <1>2 DEF AtWork, Good, GoodBut, SoundBut, Core, Typed, CpuType, OwnCur
  <2> HIDE DEF f, t, m
  <2>2. Rewrites(b, m, t) /\ m.td[t][f] = to /\ \A g \in TdFields \ {f} : m.td[t][g] = b.td[t][g]
    <3>1. OwnField(f, to, b.env)
      BY <1>2, <2>1 DEF OwnField
    <3> QED BY <2>1, <3>1, SetOwn DEF m
  <2>3. m.td[t].pinned # 0
    BY <1>2, <2>1, <2>2 DEF TdFields
  <2>4. Ready(m, c) /\ m.env = k.env
    BY <1>2, <2>1, <2>2, <2>3, RewriteOwn
  <2> DEFINE no == FALSE
  <2>5. q \in sched_switch(m, c, no)
    BY <1>4
  <2> HIDE DEF no
  <2> QED BY <2>4, <2>5, SwitchDone
<1> QED BY <1>1, <1>2, <1>3, <1>4

\* sched_unbind.
LEMMA UnbindDone ==
    ASSUME NEW k, NEW c, AtWork(k, c), Plain(k, c), k.cpu[c].cur # NoThread
    PROVE  Full(sched_unbind(k, c)) /\ sched_unbind(k, c).env = k.env
<1> DEFINE t == k.cpu[c].cur
           no == FALSE
           b == WithBound(k, t, no, 0)
<1>1. sched_unbind(k, c) = b
  BY DEF sched_unbind, Self, WithBound
<1> HIDE DEF no
<1>2. AtWork(b, c) /\ b.env = k.env /\ b.cpu = k.cpu
  BY BoundOwn
<1> HIDE DEF b
<1> QED BY <1>1, <1>2, Finish DEF Plain

\* sched_pin and sched_unpin.
LEMMA PinDone ==
    ASSUME NEW k, NEW c, AtWork(k, c), Plain(k, c), NEW t, t = k.cpu[c].cur, t # NoThread
    PROVE  LET q == [k EXCEPT !.td[t].pinned = 1 - @]
           IN  Full(q) /\ q.env = k.env
<1> DEFINE v == 1 - k.td[t].pinned
           q == WithOwn(k, t, "pinned", v)
<1>1. v \in 0 .. 1
  <2>1. k.td[t].pinned \in 0 .. 1
    BY DEF AtWork, Good, GoodBut, SoundBut, Core, Typed, CpuType, ThreadType
  <2> QED BY <2>1
<1>2. [k EXCEPT !.td[t].pinned = 1 - @] = q
  BY DEF WithOwn
<1> HIDE DEF v
<1>3. AtWork(q, c) /\ q.env = k.env /\ q.cpu = k.cpu
  BY <1>1, PinOwn
<1> HIDE DEF q
<1> QED BY <1>2, <1>3, Finish DEF Plain

\* Quiet steps of any cpu.
LEMMA QuietGood ==
    ASSUME NEW k, NEW c, NEW n, Good(k, c, n), NEW q, Quiet(k, q)
    PROVE  Good(q, c, n) /\ q.env = k.env
<1>1. Harmless(k, q, c) /\ GoodBut(k, c, n, NoThread)
  BY QuietIsHarmless DEF Good
<1> QED BY <1>1, HarmlessKeeps DEF Good, Quiet, Still

\* sched_userret.
LEMMA UserretDone ==
    ASSUME NEW k, NEW c, AtWork(k, c), Plain(k, c), NEW t \in Threads(k.env),
           k.td[t].state # "runq"
    PROVE  Full(sched_userret(k, c, t)) /\ sched_userret(k, c, t).env = k.env
<1> DEFINE v   == k.td[t].user
           k1  == [k EXCEPT !.td[t].pri = v]
           k2  == [k1 EXCEPT !.td[t].base = v]
           set == [k EXCEPT !.td[t] = [@ EXCEPT !.pri = v, !.base = v]]
<1>0. Typed(k) /\ v \in Priority /\ c \in Cpus(k.env)
  BY DEF AtWork, Good, GoodBut, SoundBut, Core, Typed, ThreadType
<1>1. set = k2
  <2>1. /\ DOMAIN k = {"td", "tdq", "cpu", "env"} /\ DOMAIN k.td = Threads(k.env)
        /\ DOMAIN k.td[t] = TdFields
    BY <1>0 DEF Typed, ThreadType
  <2> HIDE DEF v
  <2> QED BY <2>1 DEF TdFields
<1>2. sched_userret(k, c, t) = tdq_setlowpri(k2, c, v)
  BY <1>1 DEF sched_userret
<1> HIDE DEF v, set
<1>3. Quiet(k, k1)
  BY <1>0, SetThread
<1> HIDE DEF k1
<1>4. Quiet(k, k2)
  <2>1. Quiet(k1, k2)
    BY <1>0, <1>3, SetThread DEF Quiet, Still
  <2> HIDE DEF k2
  <2> QED BY <1>3, <2>1, QuietTwice
<1> HIDE DEF k2
<1>5. AtWork(k2, c) /\ k2.env = k.env /\ Plain(k2, c) /\ Typed(k2) /\ InPlace(k2)
  BY <1>4, QuietWork DEF Plain, AtWork, Good, GoodBut, SoundBut, Core
<1>6. Quiet(k2, tdq_setlowpri(k2, c, v))
  BY <1>0, <1>5, SetlowpriQuiet
<1> QED BY <1>2, <1>5, <1>6, QuietWork

\* A thread that is not on its way gets a new mask: all is as before, but a
\* queued one may be on a cpu that is not in it.
LEMMA MaskGood ==
    ASSUME NEW k, NEW c, AtWork(k, c), NEW t \in Threads(k.env), k.td[t].state # "canrun",
           NEW mask \in SUBSET Cpus(k.env)
    PROVE  LET q == WithOwn(k, t, "mask", mask)
               n == Mine(k, c)
           IN  /\ GoodBut(q, c, n, t) /\ q.env = k.env /\ q.cpu = k.cpu
               /\ q.td[t].state = k.td[t].state /\ q.td[t].cpu = k.td[t].cpu
               /\ Unowned(k, c, t) => Unowned(q, c, t)
               /\ (q.td[t].state = "runq" => q.td[t].cpu \in q.td[t].mask) => AtWork(q, c)
<1> DEFINE q == WithOwn(k, t, "mask", mask)
           n == Mine(k, c)
<1>0. /\ Typed(k) /\ SoundBut(k, c, n, NoThread) /\ Others(k, c) /\ QueuedBut(k, NoThread)
      /\ Alert(k, c, NoThread) /\ n \in Int /\ Core(k, Loads(k, c, n))
  BY DEF AtWork, Good, GoodBut, SoundBut, Core
<1>1. /\ DOMAIN q = {"td", "tdq", "cpu", "env"} /\ q.env = k.env /\ q.cpu = k.cpu
      /\ q.tdq = k.tdq /\ DOMAIN q.td = Threads(k.env)
      /\ \A u \in Threads(k.env) \ {t} : q.td[u] = k.td[u]
      /\ DOMAIN q.td[t] = TdFields /\ q.td[t].mask = mask
      /\ \A g \in TdFields \ {"mask"} : q.td[t][g] = k.td[t][g]
  BY <1>0 DEF Typed, ThreadType, TdFields, WithOwn
<1> HIDE DEF q
<1>2. ThreadType(q.td[t], k.env)
  BY <1>0, <1>1 DEF Typed, ThreadType, TdFields
<1>3. Typed(q)
  BY <1>0, <1>1, <1>2 DEF Typed
<1>4. SameShape(k, q) /\ q.td[t].state = k.td[t].state /\ q.td[t].cpu = k.td[t].cpu
  BY <1>1, <1>3 DEF SameShape, SameThread, SameQueue, TdFields
<1>5. /\ Others(q, c) /\ Loads(q, c, n) = Loads(k, c, n)
  <2>1. /\ \A d \in Cpus(k.env) \ {c} : SameCpu(k.cpu[d], q.cpu[d])
        /\ \A u \in Threads(k.env) : OwnedSame(k.td[u], q.td[u]) \/ Unowned(k, c, u)
    BY <1>1, <1>4 DEF SameCpu, OwnedSame
  <2>2. Others(k, c) /\ Typed(k) /\ q.env = k.env
    BY <1>0, <1>1
  <2>3. LeavesOthers(k, q, c)
    BY ONLY <2>1, <2>2 DEF LeavesOthers
  <2>4. /\ Others(q, c)
        /\ \A d \in Cpus(k.env) \ {c} :
              Busy(q, d) = Busy(k, d) /\ Moving(q, d) = Moving(k, d) /\ Extra(q, d) = Extra(k, d)
    BY ONLY <2>2, <2>3, OthersKept
  <2> HIDE DEF n
  <2> QED BY ONLY <2>2, <2>4, LoadsKept
<1>6. Core(q, Loads(q, c, n))
  BY <1>0, <1>4, <1>5, ShapeKeepsCore
<1>7. QueuedBut(q, t) /\ NoThread \notin Threads(k.env)
  BY <1>0, <1>1, NoOne DEF QueuedBut, Allowed, Typed
<1>8. GoodBut(q, c, n, t)
  <2>1. /\ \A d \in Cpus(k.env) : SameSignals(k, q, d)
        /\ \A d \in Cpus(k.env) \ {c} : SameCpu(k.cpu[d], q.cpu[d])
    BY <1>1 DEF SameSignals, SameCpu
  <2>2. \A u \in Threads(k.env) \ {NoThread} :
           Urgent(q, u) => Urgent(k, u) /\ q.td[u].cpu = k.td[u].cpu
    BY <1>1 DEF Urgent, TdFields
  <2>3. Alert(q, c, NoThread)
    <3> HIDE DEF Alert
    <3> QED BY <1>0, <1>1, <2>1, <2>2, AlertKept
  <2> HIDE DEF n
  <2> QED BY <1>0, <1>5, <1>6, <1>7, <2>3 DEF GoodBut, SoundBut
<1>9. Unowned(k, c, t) => Unowned(q, c, t)
  BY <1>1 DEF Unowned, Busy, Moving
<1>10. ASSUME q.td[t].state = "runq" => q.td[t].cpu \in q.td[t].mask PROVE AtWork(q, c)
  <2>1. QueuedBut(q, NoThread)
    BY <1>1, <1>7, <1>10 DEF QueuedBut, Allowed
  <2>2. Good(q, c, n)
    <3> HIDE DEF n
    <3> QED BY <1>8, <2>1 DEF GoodBut, SoundBut, Good
  <2>3. OwnCur(q, c) /\ Mine(q, c) = n /\ c \in Cpus(q.env) /\ ~Asleep(q, c)
    BY <1>0, <1>1, <1>4 DEF AtWork, OwnCur, Mine, Typed, CpuType, Asleep
  <2> QED BY <2>2, <2>3 DEF AtWork
<1> QED BY <1>1, <1>4, <1>8, <1>9, <1>10 DEF q

\* sched_rem by c of a queued thread, to be put elsewhere.
LEMMA RemWork ==
    ASSUME NEW k, NEW c \in Cpus(k.env), OwnCur(k, c), NEW t \in Threads(k.env),
           GoodBut(k, c, Mine(k, c), t), k.td[t].state = "runq", ~Asleep(k, c)
    PROVE  LET q == sched_rem(k, t)
           IN  AtWork(q, c) /\ q.env = k.env /\ Loose(q, c, t)
<1> DEFINE q == sched_rem(k, t)
<1>1. /\ Good(q, c, Mine(k, c)) /\ OnlyThread(k, q, t) /\ q.td[t].state = "canrun"
      /\ Unowned(q, c, t)
  BY RemGood
<1> HIDE DEF q
<1>2. k.cpu[c].cur # NoThread => k.cpu[c].cur \in Threads(k.env) \ {t}
  BY DEF GoodBut, SoundBut, Core, OwnCur, Typed, CpuType
<1> QED BY <1>1, <1>2 DEF AtWork, Mine, OwnCur, OnlyThread, Loose, Asleep, q

\* sched_affinity, with the new mask set.
LEMMA AffinityDone ==
    ASSUME NEW k, NEW c, AtWork(k, c), Plain(k, c), NEW t \in Threads(k.env),
           k.td[t].state # "canrun", NEW mask \in SUBSET Cpus(k.env),
           NEW q \in sched_affinity(WithOwn(k, t, "mask", mask), c, t)
    PROVE  Full(q) /\ q.env = k.env
<1> DEFINE m == WithOwn(k, t, "mask", mask)
           d == m.td[t]
           r == sched_rem(m, t)
           n == [m EXCEPT !.td[t].needresched = TRUE]
<1>1. /\ GoodBut(m, c, Mine(k, c), t) /\ m.env = k.env /\ m.cpu = k.cpu
      /\ d.state = k.td[t].state /\ d.cpu = k.td[t].cpu
      /\ (d.state = "runq" => d.cpu \in d.mask) => AtWork(m, c)
  BY MaskGood
<1>2. \/ q = m /\ (d.state = "runq" => d.cpu \in d.mask)
      \/ d.state = "runq" /\ q \in sched_add(r, c, t, {}, d.cpu)
      \/ d.state # "runq" /\ (q = n \/ q = ipi_cpu(n, d.cpu))
  BY DEF sched_affinity, CanSched
<1> HIDE DEF m
<1>3. CASE q = m /\ (d.state = "runq" => d.cpu \in d.mask)
  BY <1>1, <1>3, Finish DEF Plain
<1>4. CASE d.state = "runq" /\ q \in sched_add(r, c, t, {}, d.cpu)
  <2>1. AtWork(r, c) /\ r.env = m.env /\ Loose(r, c, t)
    <3>1. /\ c \in Cpus(m.env) /\ OwnCur(m, c) /\ t \in Threads(m.env)
          /\ GoodBut(m, c, Mine(m, c), t) /\ ~Asleep(m, c)
      <4>1. Typed(m)
        BY <1>1 DEF GoodBut, SoundBut, Core
      <4>2. \A u \in Threads(k.env) : u # t => m.td[u] = k.td[u]
        <5>1. DOMAIN k.td = Threads(k.env) /\ DOMAIN k = {"td", "tdq", "cpu", "env"}
          BY DEF AtWork, Good, GoodBut, SoundBut, Core, Typed
        <5> QED BY <5>1 DEF m, WithOwn
      <4> QED BY <1>1, <1>4, <4>1, <4>2 DEF AtWork, OwnCur, Mine, Typed, CpuType, Asleep
    <3> HIDE DEF r
    <3> QED BY <1>4, <3>1, RemWork DEF r
  <2> DEFINE flags == {}
  <2>2. "OURSELF" \notin flags /\ q \in sched_add(r, c, t, flags, d.cpu)
    BY <1>4
  <2> HIDE DEF flags, r, d
  <2> QED BY <1>1, <2>1, <2>2, AddWork
<1>5. CASE d.state # "runq" /\ (q = n \/ q = ipi_cpu(n, d.cpu))
  <2>1. AtWork(m, c) /\ Plain(m, c) /\ Typed(m) /\ t \in Threads(m.env) /\ d.cpu \in Cpus(m.env)
    BY <1>1, <1>5 DEF Plain, GoodBut, SoundBut, Core, Typed, ThreadType
  <2> DEFINE e == d.cpu
  <2>2. Quiet(m, n)
    BY <2>1, SetThread
  <2> HIDE DEF n, e, d
  <2>3. Quiet(m, ipi_cpu(n, e))
    <3>1. Typed(n) /\ e \in Cpus(n.env)
      BY <2>1, <2>2 DEF Quiet, Still, e
    <3>2. Quiet(n, ipi_cpu(n, e))
      BY <3>1, IpiQuiet
    <3> QED BY <2>2, <3>2, QuietTwice
  <2> QED BY <1>1, <1>5, <2>1, <2>2, <2>3, QuietWork DEF e
<1> QED BY <1>2, <1>3, <1>4, <1>5

\* sched_fork and sched_add of the child.
LEMMA ForkDone ==
    ASSUME NEW k, NEW c, AtWork(k, c), NEW t \in Threads(k.env), NEW child \in Threads(k.env),
           k.td[child].state = "dead",
           NEW q \in sched_priority([k EXCEPT !.td[child] = Child(k.td[t])], t),
           NEW r \in sched_add(q, c, child, {}, c)
    PROVE  Full(r) /\ r.env = k.env
<1> DEFINE k1 == [k EXCEPT !.td[child] = Child(k.td[t])]
<1>0. Typed(k) /\ InPlace(k) /\ Others(k, c)
  BY DEF AtWork, Good, GoodBut, SoundBut, Core
<1>1. Loose(k, c, child) /\ k.td[child].xferable = 0
  BY <1>0, UnownedWhen DEF Loose, InPlace
<1>2. Rewrites(k, k1, child) /\ k1.td[child].state = "new"
  <2>1. /\ DOMAIN k1 = {"td", "tdq", "cpu", "env"} /\ k1.env = k.env /\ k1.cpu = k.cpu
        /\ k1.tdq = k.tdq /\ DOMAIN k1.td = Threads(k.env)
        /\ \A u \in Threads(k.env) \ {child} : k1.td[u] = k.td[u]
        /\ k1.td[child] = Child(k.td[t])
    BY <1>0 DEF Typed
  <2> DEFINE d == k.td[t]
             x == Child(d)
  <2>2. ThreadType(d, k.env)
    BY <1>0 DEF Typed
  <2> HIDE DEF d
  <2>3. /\ DOMAIN x = TdFields /\ x.state = "new" /\ x.xferable = 0 /\ x.pri = d.base
        /\ x.base = d.base /\ x.user = d.base_user /\ x.base_user = d.base_user
        /\ x.lend_user = PRI_MAX_IDLE /\ x.cpu = d.cpu /\ x.mask = d.mask /\ x.pinned = 0
        /\ x.runq = d.runq /\ x.rqindex = d.rqindex
    BY <2>2 DEF Child, ThreadType, TdFields
  <2> HIDE DEF x
  <2>4. ThreadType(x, k.env)
    BY <2>2, <2>3 DEF ThreadType, Priority, PRI_MAX_IDLE
  <2> HIDE DEF k1
  <2>5. Typed(k1)
    BY <1>0, <2>1, <2>4 DEF Typed, d, x
  <2> QED BY <1>1, <2>1, <2>3, <2>5 DEF Rewrites, ButThread, d, x, Loose
<1> HIDE DEF k1
<1>3. AtWork(k1, c) /\ k1.env = k.env /\ Loose(k1, c, child)
  BY <1>1, <1>2, RewriteWork DEF Loose
<1>4. Quiet(k1, q) /\ Typed(k1)
  BY <1>3, PriorityQuiet DEF AtWork, Good, GoodBut, SoundBut, Core, k1
<1>5. AtWork(q, c) /\ q.env = k.env /\ Loose(q, c, child)
  BY <1>3, <1>4, QuietWork, QuietLoose
<1> DEFINE flags == {}
<1>6. "OURSELF" \notin flags /\ r \in sched_add(q, c, child, flags, c)
  OBVIOUS
<1> HIDE DEF flags
<1> QED BY <1>5, <1>6, AddWork

\* sched_exit_thread and sched_throw.
LEMMA ExitDone ==
    ASSUME NEW k, NEW c, AtWork(k, c), NEW t, t = k.cpu[c].cur, t # NoThread,
           NEW parent \in Threads(k.env),
           NEW q \in sched_priority([k EXCEPT !.td[t].state = "dead", !.cpu[c].owe = FALSE], parent)
    PROVE  LET r == choosethread(tdq_load_rem(q, c), c) IN Full(r) /\ r.env = k.env
<1> DEFINE no == FALSE
           f  == "state"
           k1 == [k EXCEPT !.cpu[c].owe = no]
           v  == "dead"
           k2 == WithOwn(k1, t, f, v)
<1>0. Typed(k) /\ t \in Threads(k.env) /\ c \in Cpus(k.env)
  BY DEF AtWork, Good, GoodBut, SoundBut, Core, Typed, CpuType
<1>1. k2 = [k EXCEPT !.td[t].state = "dead", !.cpu[c].owe = FALSE]
  <2>1. DOMAIN k = {"td", "tdq", "cpu", "env"}
    BY <1>0 DEF Typed
  <2> QED BY <2>1 DEF WithOwn
<1>2. no \in BOOLEAN /\ f = "state" /\ v = "dead"
  OBVIOUS
<1> HIDE DEF no, f, v
<1>3. Quiet(k, k1)
  BY <1>0, <1>2, SetCpu
<1> HIDE DEF k1
<1>4. AtWork(k1, c) /\ k1.env = k.env /\ k1.cpu[c].cur = t /\ k1.td[t].state # "runq"
  <2>1. AtWork(k1, c) /\ k1.env = k.env
    BY ONLY AtWork(k, c), <1>3, QuietWork
  <2>2. k1.cpu[c].cur = k.cpu[c].cur /\ k1.td[t].state = k.td[t].state
    BY ONLY <1>0, <1>3, QuietFacts
  <2>3. OwnCur(k, c)
    BY DEF AtWork
  <2>4. k.td[t].state = "run"
    BY <2>3 DEF OwnCur
  <2> QED BY ONLY t = k.cpu[c].cur, <2>1, <2>2, <2>4
<1>5. Rewrites(k1, k2, t) /\ k2.td[t][f] = v
  <2>1. Typed(k1) /\ t \in Threads(k1.env) /\ OwnField(f, v, k1.env)
    BY <1>0, <1>2, <1>4 DEF AtWork, Good, GoodBut, SoundBut, Core, OwnField
  <2> QED BY <1>4, <2>1, SetOwn
<1> HIDE DEF k2
<1>6. Good(k2, c, 1) /\ k2.env = k.env
  <2>1. k2.td[t].state = "dead"
    BY <1>2, <1>5
  <2> QED BY <1>4, <1>5, <2>1, RewriteOwn
<1>7. Quiet(k2, q)
  <2>1. Typed(k2) /\ parent \in Threads(k2.env) /\ q \in sched_priority(k2, parent)
    BY <1>1, <1>6 DEF Good, GoodBut, SoundBut, Core
  <2> QED BY <2>1, PriorityQuiet
<1>8. Good(q, c, 1) /\ q.env = k.env
  BY <1>6, <1>7, QuietGood
<1> DEFINE m == tdq_load_rem(q, c)
<1>9. Good(m, c, 1 - 1) /\ m.env = k.env
  BY <1>0, <1>8, LoadRemGood
<1> HIDE DEF m
<1>10. Good(m, c, 0) /\ c \in Cpus(m.env)
  BY <1>0, <1>9
<1> QED BY <1>9, <1>10, ChooseGood DEF m

-----------------------------------------------------------------------------
(* The actions. *)

\* The state of the specification as a record.
LEMMA KIs == K.td = td /\ K.tdq = tdq /\ K.cpu = cpu /\ K.env = env
BY DEF K

\* The invariant moves to the next state.
LEMMA Becomes ==
    ASSUME NEW k, Full(k), Become(k)
    PROVE  Full(K)'
<1>1. /\ DOMAIN K' = {"td", "tdq", "cpu", "env"} /\ K'.td = k.td /\ K'.tdq = k.tdq
      /\ K'.cpu = k.cpu /\ K'.env = k.env
  BY DEF K, Become
<1> DEFINE q == K'
<1> HIDE DEF q
<1>2. Quiet(k, q)
  <2>1. Typed(q)
    BY <1>1 DEF Full, Good, GoodBut, SoundBut, Core, Typed, q
  <2> QED BY <1>1, <2>1 DEF Quiet, Still, Calm, SameQueue, SameCpu, SameSignals, Urgent, q
<1>3. Full(q)
  BY <1>2, QuietGood DEF Full
<1> QED BY <1>3 DEF q

\* What a cpu that is at no function may work from.
LEMMA AtNone ==
    ASSUME Full(K), NEW c \in CPU, cpu[c].op = Idle
    PROVE  /\ c \in Cpus(K.env) /\ Plain(K, c) /\ Typed(K) /\ DOMAIN td = Threads(K.env)
           /\ Ready(K, c) /\ (~Asleep(K, c) => AtWork(K, c))
<1>1. Typed(K) /\ c \in Cpus(K.env) /\ DOMAIN td = Threads(K.env)
  BY KIs DEF Full, Good, GoodBut, SoundBut, Core, Typed, CPU
<1>2. K.cpu[c].op.op = "none"
  BY KIs DEF Idle
<1>3. Ready(K, c)
  <2>1. Good(K, c, Extra(K, c)) /\ Owner(K, c) /\ (Busy(K, c) => Unowned(K, c, K.cpu[c].cur))
    BY <1>1, Enter
  <2>2. Extra(K, c) = Mine(K, c) /\ (Busy(K, c) <=> K.cpu[c].cur # NoThread)
    BY <1>2 DEF Extra, Mine, Busy
  <2> QED BY <1>1, <2>1, <2>2 DEF Ready, Owner
<1> QED BY <1>1, <1>2, <1>3, Begin DEF Plain

\* An interrupt only wakes the cpu.
LEMMA RousedQuiet ==
    ASSUME NEW k, Typed(k), NEW c \in Cpus(k.env)
    PROVE  Quiet(k, Roused(k, c)) /\ ~Asleep(Roused(k, c), c)
<1> DEFINE v == IF k.cpu[c].cur = NoThread /\ k.cpu[c].ipc = "asleep" THEN "awake"
                ELSE k.cpu[c].ipc
           q == [k EXCEPT !.cpu[c].ipc = v]
<1>1. v \notin Sleepy \/ v = k.cpu[c].ipc
  BY DEF Sleepy
<1>2. ~(k.cpu[c].cur = NoThread /\ v = "asleep") /\ Roused(k, c) = q
  BY DEF Roused, Self
<1> HIDE DEF v
<1>3. Quiet(k, q)
  BY <1>1, SetCpu
<1>4. q.cpu[c].ipc = v /\ q.cpu[c].cur = k.cpu[c].cur
  BY DEF Typed, CpuType, CpuFields
<1> HIDE DEF q
<1> QED BY <1>2, <1>3, <1>4 DEF Asleep

\* The cpu it wakes works.
LEMMA RousedWork ==
    ASSUME Full(K), NEW c \in CPU, cpu[c].op = Idle
    PROVE  LET r == Roused(K, c)
           IN  /\ Quiet(K, r) /\ AtWork(r, c) /\ r.env = K.env /\ c \in Cpus(K.env)
               /\ Typed(K)
<1> DEFINE r == Roused(K, c)
<1>1. c \in Cpus(K.env) /\ Typed(K) /\ K.cpu[c].op.op = "none"
  BY AtNone, KIs DEF Idle
<1>2. Quiet(K, r) /\ ~Asleep(r, c)
  BY <1>1, RousedQuiet
<1> HIDE DEF r
<1>3. Full(r) /\ r.env = K.env
  BY <1>2, QuietGood DEF Full
<1>4. r.cpu[c].op = K.cpu[c].op
  BY <1>1, <1>2, QuietFacts
<1>5. AtWork(r, c)
  BY <1>1, <1>2, <1>3, <1>4, Begin
<1> QED BY <1>1, <1>2, <1>3, <1>5 DEF r

\* A function goes on where it dropped its locks: what it read before is
\* read anew, or is about the thread it moves, which is no one else's.
LEMMA ContinueKeeps ==
    ASSUME Full(K), NEW c \in CPU, Continue(c)
    PROVE  Full(K)'
<1> DEFINE o == K.cpu[c].op
           S == CASE o.op = "add" -> Placed(K, c, o.td, o.flags)
                  [] o.op = "migrate" -> sched_switch_migrate(K, c)
                  [] o.op \in {"trysteal", "trytake"} -> tdq_trysteal(K, c)
                  [] o.op = "balance" -> sched_balance_group(K, c)
                  [] o.op = "pair" -> sched_balance_pair(K, c)
                  [] OTHER -> {}
<1>1. PICK k \in S : Become(k)
  BY KIs DEF Continue
<1>2. /\ c \in Cpus(K.env) /\ Typed(K)
      /\ o.op \in {"none", "add", "migrate", "trysteal", "trytake", "balance", "pair"}
  BY KIs DEF Full, Good, GoodBut, SoundBut, Core, Typed, CPU, CpuType, OpType
<1>9. o.op # "none" => ~Asleep(K, c)
  BY <1>2, Enter DEF Rests, Idle
<1>3. CASE o.op = "add"
  <2>1. S = Placed(K, c, o.td, o.flags)
    BY <1>3
  <2>2. AtWork(K, c)
    BY <1>2, <1>3, <1>9, Begin
  <2>3. Loose(K, c, o.td) /\ Allowed(K, o.td)
    <3>1. Moving(K, c) /\ o.td \in Threads(K.env)
      BY <1>2, <1>3 DEF Moving, Typed, CpuType, OpType
    <3>2. Owner(K, c) /\ Unowned(K, c, o.td)
      BY <1>2, <3>1, Enter
    <3> QED BY <3>1, <3>2 DEF Owner, Loose
  <2> HIDE DEF S
  <2>4. Full(k)
    BY <1>1, <2>1, <2>2, <2>3, PlacedWork
  <2> QED BY <1>1, <2>4, Becomes
<1>4. CASE o.op = "migrate"
  <2>1. S = sched_switch_migrate(K, c)
    BY <1>4
  <2> HIDE DEF S
  <2>2. Full(k)
    BY <1>1, <1>2, <1>4, <2>1, SwitchMigrateDone
  <2> QED BY <1>1, <2>2, Becomes
<1>5. CASE o.op \in {"trysteal", "trytake"}
  <2>1. S = tdq_trysteal(K, c)
    BY <1>5
  <2> HIDE DEF S
  <2>2. Full(k)
    BY <1>1, <1>2, <1>5, <2>1, TrystealDone
  <2> QED BY <1>1, <2>2, Becomes
<1>6. CASE o.op = "balance"
  <2>1. S = sched_balance_group(K, c)
    BY <1>6
  <2> HIDE DEF S
  <2>2. Full(k)
    BY <1>1, <1>2, <1>6, <1>9, <2>1, Begin, BalanceGroupDone
  <2> QED BY <1>1, <2>2, Becomes
<1>7. CASE o.op = "pair"
  <2>1. S = sched_balance_pair(K, c)
    BY <1>7
  <2> HIDE DEF S
  <2>2. Full(k)
    BY <1>1, <1>2, <1>7, <1>9, <2>1, Begin, BalancePairDone
  <2> QED BY <1>1, <2>2, Becomes
<1>8. CASE o.op = "none"
  BY <1>1, <1>8
<1> QED BY <1>2, <1>3, <1>4, <1>5, <1>6, <1>7, <1>8

\* sched_wakeup: a sleeping thread is no cpu's and on no queue.
LEMMA WakeupKeeps ==
    ASSUME Full(K), NEW c \in CPU, NEW t \in Thread, Wakeup(c, t)
    PROVE  Full(K)'
<1> DEFINE r == Roused(K, c)
           flags == {}
<1>1. PICK k \in sched_add(r, c, t, flags, NoCpu) : Become(k)
  BY DEF Wakeup
<1>2. /\ c \in Cpus(K.env) /\ Ready(K, c) /\ t \in Threads(K.env) /\ K.td[t].state = "sleep"
      /\ Quiet(K, r) /\ AtWork(r, c) /\ Typed(K)
  BY AtNone, RousedWork, KIs DEF Wakeup, Interruptible, Thread
<1>3. Loose(K, c, t)
  BY <1>2, UnownedWhen DEF Loose, Ready, Good, GoodBut, SoundBut
<1> HIDE DEF r
<1>5. AtWork(r, c) /\ Loose(r, c, t)
  BY <1>2, <1>3, QuietLoose
<1>6. "OURSELF" \notin flags
  OBVIOUS
<1> HIDE DEF flags
<1>7. Full(k)
  BY <1>1, <1>5, <1>6, AddWork
<1> QED BY <1>1, <1>7, Becomes

\* The thread that c runs.
LEMMA Running ==
    ASSUME Full(K), NEW c \in CPU, NEW t \in Thread, Runs(c, t)
    PROVE  /\ c \in Cpus(K.env) /\ AtWork(K, c) /\ Plain(K, c) /\ Typed(K) /\ t \in Threads(K.env)
           /\ t = K.cpu[c].cur /\ t # NoThread /\ K.td[t].state = "run"
<1>1. t = K.cpu[c].cur /\ t # NoThread /\ cpu[c].op = Idle
  BY KIs DEF Runs, Working
<1>2. AtWork(K, c) /\ Plain(K, c) /\ Typed(K) /\ c \in Cpus(K.env) /\ t \in Threads(K.env)
  BY <1>1, AtNone DEF Thread, Asleep
<1> QED BY <1>1, <1>2 DEF AtWork, OwnCur

\* sched_sleep and mi_switch.
LEMMA SleepKeeps ==
    ASSUME Full(K), NEW c \in CPU, NEW t \in Thread, Sleep(c, t)
    PROVE  Full(K)'
<1> DEFINE f == "state"
           v == "sleep"
           no == FALSE
<1>1. PICK q \in sched_sleep(K, c, t) :
         \E k \in sched_switch(WithOwn(q, t, f, v), c, no) : Become(k)
  BY DEF Sleep, WithOwn
<1> DEFINE m == WithOwn(q, t, f, v)
<1>2. PICK k \in sched_switch(m, c, no) : Become(k)
  BY <1>1
<1>3. /\ AtWork(K, c) /\ Plain(K, c) /\ Typed(K) /\ t \in Threads(K.env)
      /\ t = K.cpu[c].cur /\ t # NoThread /\ K.td[t].state = "run"
  BY Running DEF Sleep
<1>4. Quiet(K, q)
  <2>1. Settled(K, q, t)
    BY <1>1, <1>3, SleepPrioDone
  <2> QED BY <1>3, <2>1 DEF Settled
<1>5. AtWork(q, c) /\ q.env = K.env /\ q.cpu[c].cur = t /\ q.td[t].state = "run" /\ Typed(q)
  BY <1>3, <1>4, QuietWork, QuietFacts DEF AtWork
<1>6. OwnField(f, v, q.env) /\ f = "state" /\ v = "sleep"
  BY DEF OwnField
<1> HIDE DEF f, v, no
<1>7. Rewrites(q, m, t) /\ m.td[t][f] = v
  BY <1>3, <1>5, <1>6, SetOwn
<1> HIDE DEF m
<1>8. m.td[t].state = "sleep"
  BY <1>6, <1>7
<1>9. Ready(m, c)
  BY <1>3, <1>5, <1>7, <1>8, RewriteOwn
<1>10. Full(k)
  BY <1>2, <1>9, SwitchDone
<1> QED BY <1>2, <1>10, Becomes

\* sched_relinquish.
LEMMA RelinquishKeeps ==
    ASSUME Full(K), NEW c \in CPU, NEW t \in Thread, Relinquish(c, t)
    PROVE  Full(K)'
<1> DEFINE no == FALSE
<1>1. PICK k \in sched_switch(K, c, no) : Become(k)
  BY DEF Relinquish
<1>2. Ready(K, c)
  BY Running, WorkReady DEF Relinquish
<1> HIDE DEF no
<1>3. Full(k)
  BY <1>1, <1>2, SwitchDone
<1> QED BY <1>1, <1>3, Becomes

\* The switch on the way back to user mode.
LEMMA AstKeeps ==
    ASSUME Full(K), NEW c \in CPU, NEW t \in Thread, Ast(c, t)
    PROVE  Full(K)'
<1> DEFINE no == FALSE
           p  == K.td[t].user
<1>1. PICK q \in sched_prio(K, c, t, p) : \E k \in sched_switch(q, c, no) : Become(k)
  BY KIs DEF Ast
<1>2. PICK k \in sched_switch(q, c, no) : Become(k)
  BY <1>1
<1>3. /\ AtWork(K, c) /\ Plain(K, c) /\ t \in Threads(K.env) /\ K.td[t].state = "run"
      /\ p \in Priority
  BY Running DEF Ast, Typed, ThreadType
<1> HIDE DEF no, p
<1>4. Quiet(K, q)
  <2>1. Settled(K, q, t)
    BY <1>1, <1>3, PrioDone
  <2> QED BY <1>3, <2>1 DEF Settled
<1>5. Full(k)
  BY <1>2, <1>3, <1>4, QuietWork, WorkReady, SwitchDone
<1> QED BY <1>2, <1>5, Becomes

\* sched_userret.
LEMMA UserretKeeps ==
    ASSUME Full(K), NEW c \in CPU, NEW t \in Thread, Userret(c, t)
    PROVE  Full(K)'
<1>1. /\ Become(sched_userret(K, c, t)) /\ AtWork(K, c) /\ Plain(K, c)
      /\ t \in Threads(K.env) /\ K.td[t].state # "runq"
  BY Running DEF Userret
<1> QED BY <1>1, UserretDone, Becomes

\* The switch at the end of a critical section.
LEMMA CriticalExitKeeps ==
    ASSUME Full(K), NEW c \in CPU, CriticalExit(c)
    PROVE  Full(K)'
<1> DEFINE yes == TRUE
<1>1. PICK k \in sched_switch(K, c, yes) : Become(k)
  BY DEF CriticalExit
<1>2. Ready(K, c)
  BY AtNone DEF CriticalExit, Interruptible
<1> HIDE DEF yes
<1>3. Full(k)
  BY <1>1, <1>2, SwitchDone
<1> QED BY <1>1, <1>3, Becomes

\* sched_preempt.
LEMMA PreemptKeeps ==
    ASSUME Full(K), NEW c \in CPU, Preempt(c)
    PROVE  Full(K)'
<1> DEFINE no  == FALSE
           yes == TRUE
           k1  == [K EXCEPT !.cpu[c].ipi = no]
           k2  == [k1 EXCEPT !.tdq[c].ipipending = no]
           k3  == Roused(k2, c)
           k4  == [k3 EXCEPT !.cpu[c].owe = yes]
<1>1. c \in Cpus(K.env) /\ Ready(K, c) /\ Plain(K, c) /\ Typed(K)
  BY AtNone DEF Preempt, Interruptible
<1>2. \/ \E q \in sched_switch(k3, c, yes) : Become(q)
      \/ Become(k4)
      \/ Become(k3)
  <2>1. k2 = [K EXCEPT !.cpu[c].ipi = FALSE, !.tdq[c].ipipending = FALSE]
    <3>1. DOMAIN K = {"td", "tdq", "cpu", "env"}
      BY <1>1 DEF Typed
    <3> QED BY <3>1
  <2> HIDE DEF k2
  <2> QED BY <2>1 DEF Preempt
<1>3. yes \in BOOLEAN /\ no \in BOOLEAN /\ ~no
  OBVIOUS
<1> HIDE DEF no, yes
<1>4. /\ Still(K, k1) /\ k1.td = K.td /\ k1.tdq = K.tdq
      /\ k1.cpu[c].ipc = K.cpu[c].ipc /\ \A d \in Cpus(K.env) \ {c} : k1.cpu[d] = K.cpu[d]
  <2>1. Still(K, k1)
    BY <1>1, <1>3, SetCpu
  <2> QED BY <1>1, <2>1 DEF Typed, CpuType, CpuFields
<1> HIDE DEF k1
<1>5. /\ Still(K, k2) /\ k2.td = K.td /\ k2.cpu = k1.cpu /\ k2.tdq[c].ipipending = no
      /\ k2.tdq[c].cpu_idle = K.tdq[c].cpu_idle
      /\ \A d \in Cpus(K.env) \ {c} : k2.tdq[d] = K.tdq[d]
  <2>1. Typed(k1) /\ k1.env = K.env
    BY <1>4 DEF Still
  <2>2. Still(k1, k2)
    BY <1>1, <1>3, <2>1, SetQueue
  <2>3. /\ k2.td = k1.td /\ k2.cpu = k1.cpu /\ k2.tdq[c].ipipending = no
        /\ k2.tdq[c].cpu_idle = k1.tdq[c].cpu_idle
        /\ \A d \in Cpus(K.env) \ {c} : k2.tdq[d] = k1.tdq[d]
    BY <1>1, <2>1 DEF Typed, QueueType, TdqFields
  <2> HIDE DEF k2
  <2> QED BY <1>4, <2>2, <2>3, StillTwice
<1> HIDE DEF k2
<1>6. /\ Still(K, k3) /\ k3.td = K.td /\ ~Asleep(k3, c) /\ SameSignals(k2, k3, c)
      /\ \A d \in Cpus(K.env) \ {c} : k3.tdq[d] = K.tdq[d] /\ k3.cpu[d] = K.cpu[d]
  <2>1. Typed(k2) /\ k2.env = K.env
    BY <1>5 DEF Still
  <2>2. Quiet(k2, k3) /\ ~Asleep(k3, c)
    BY <1>1, <2>1, RousedQuiet
  <2>3. /\ k3.td = k2.td /\ k3.tdq = k2.tdq
        /\ \A d \in Cpus(K.env) \ {c} : k3.cpu[d] = k2.cpu[d]
    BY <1>1, <2>1 DEF Roused, Typed
  <2> HIDE DEF k3
  <2>4. Still(K, k3)
    BY <1>5, <2>2, StillTwice DEF Quiet
  <2>5. SameSignals(k2, k3, c)
    BY <1>1, <2>1, <2>2 DEF Quiet
  <2> QED BY <1>4, <1>5, <2>2, <2>3, <2>4, <2>5
<1> HIDE DEF k3
<1>7. AtWork(k3, c) /\ Full(k3) /\ c \in Cpus(k3.env) /\ Typed(k3) /\ Plain(k3, c)
  <2>1. Signalled(K, c)
    BY <1>1 DEF Ready, Good, GoodBut, Alert
  <2>2. Signalled(k3, c)
    BY <1>3, <1>4, <1>5, <1>6, <2>1 DEF Signalled, SameSignals
  <2>3. Full(k3) /\ k3.env = K.env
    BY <1>1, <1>6, <2>2, StillFull DEF Rests
  <2>4. Typed(k3) /\ k3.cpu[c].op = K.cpu[c].op
    BY <1>1, <1>6 DEF Still, SameCpu
  <2>5. AtWork(k3, c)
    BY <1>1, <1>6, <2>3, <2>4, Begin DEF Plain
  <2> QED BY <1>1, <2>3, <2>4, <2>5 DEF Plain
<1>8. Full(k4)
  <2>1. Quiet(k3, k4)
    BY <1>3, <1>7, SetCpu
  <2> HIDE DEF k4
  <2> QED BY <1>7, <2>1, QuietWork
<1>9. ASSUME NEW q \in sched_switch(k3, c, yes) PROVE Full(q)
  BY <1>7, <1>9, WorkReady, SwitchDone
<1> HIDE DEF k4
<1> QED BY <1>2, <1>7, <1>8, <1>9, Becomes

\* The clock tick.
LEMMA ClockKeeps ==
    ASSUME Full(K), NEW c \in CPU, Clock(c)
    PROVE  Full(K)'
<1> DEFINE r == Roused(K, c)
           o == [op |-> "balance", hmask |-> CPU]
<1>1. (\E q \in sched_clock(r, c) : Become(q)) \/ Become(Op(r, c, o))
  BY DEF Clock
<1>2. AtWork(r, c)
  BY RousedWork DEF Clock, Interruptible
<1> HIDE DEF r
<1>3. Full(Op(r, c, o))
  <2>1. o.op = "balance" /\ OpType(o, r.env)
    BY DEF OpType
  <2> HIDE DEF o
  <2> QED BY <1>2, <2>1, FinishOp
<1>4. ASSUME NEW q \in sched_clock(r, c) PROVE Full(q)
  BY <1>2, <1>4, ClockDone
<1> HIDE DEF o
<1> QED BY <1>1, <1>3, <1>4, Becomes

\* The thread that changes another one's priority or mask.
LEMMA Changing ==
    ASSUME Full(K), NEW c \in CPU, Working(c), NEW t \in Thread
    PROVE  /\ AtWork(K, c) /\ Plain(K, c) /\ t \in Threads(K.env) /\ K.td[t].state = td[t].state
           /\ Typed(K)
BY AtNone, KIs DEF Working, Thread, Asleep

\* Priority lending.
LEMMA LendKeeps ==
    ASSUME Full(K), NEW c \in CPU, NEW t \in Thread, NEW p \in env.lends, Lend(c, t, p)
    PROVE  Full(K)'
<1>1. PICK k \in sched_lend_prio(K, c, t, p) \cup sched_unlend_prio(K, c, t, p) : Become(k)
  BY DEF Lend
<1>2. AtWork(K, c) /\ Plain(K, c) /\ t \in Threads(K.env) /\ Typed(K)
  BY Changing DEF Lend
<1>3. p \in Priority
  BY <1>2, KIs, ScenesAssumption DEF Typed, Priority
<1>4. Full(k)
  BY <1>1, <1>2, <1>3, LendPrioDone, UnlendPrioDone DEF Settled
<1> QED BY <1>1, <1>4, Becomes

\* sched_nice.
LEMMA NiceKeeps ==
    ASSUME Full(K), NEW c \in CPU, NEW t \in Thread, Nice(c, t)
    PROVE  Full(K)'
<1>1. PICK k \in sched_nice(K, c, t) : Become(k)
  BY DEF Nice
<1>2. Full(k)
  BY <1>1, Changing, NiceDone DEF Nice, Settled
<1> QED BY <1>1, <1>2, Becomes

\* User priority lending.
LEMMA LendUserKeeps ==
    ASSUME Full(K), NEW c \in CPU, NEW t \in Thread, NEW p \in env.lends, LendUser(c, t, p)
    PROVE  Full(K)'
<1>1. PICK k \in sched_lend_user_prio(K, c, t, p) : Become(k)
  BY DEF LendUser
<1>2. AtWork(K, c) /\ Plain(K, c) /\ t \in Threads(K.env) /\ Typed(K)
  BY Changing DEF LendUser
<1>3. p \in Priority
  BY <1>2, KIs, ScenesAssumption DEF Typed, Priority
<1>4. Full(k)
  BY <1>1, <1>2, <1>3, LendUserPrioDone DEF Settled
<1> QED BY <1>1, <1>4, Becomes

\* sched_bind.
LEMMA BindKeeps ==
    ASSUME Full(K), NEW c \in CPU, NEW t \in Thread, NEW to \in CPU, Bind(c, t, to)
    PROVE  Full(K)'
<1>1. PICK k \in sched_bind(K, c, to) : Become(k)
  BY DEF Bind
<1>2. to \in Cpus(K.env) /\ AtWork(K, c) /\ Plain(K, c) /\ K.cpu[c].cur # NoThread
  <2>1. AtWork(K, c) /\ Plain(K, c) /\ K.cpu[c].cur # NoThread /\ Typed(K)
    BY Running DEF Bind
  <2> QED BY <2>1, KIs DEF Typed, CPU
<1>3. Full(k)
  BY <1>1, <1>2, BindDone
<1> QED BY <1>1, <1>3, Becomes

\* sched_unbind.
LEMMA UnbindKeeps ==
    ASSUME Full(K), NEW c \in CPU, NEW t \in Thread, Unbind(c, t)
    PROVE  Full(K)'
<1>1. Become(sched_unbind(K, c)) /\ AtWork(K, c) /\ Plain(K, c) /\ K.cpu[c].cur # NoThread
  BY Running DEF Unbind
<1> QED BY <1>1, UnbindDone, Becomes

\* sched_pin and sched_unpin.
LEMMA PinKeeps ==
    ASSUME Full(K), NEW c \in CPU, NEW t \in Thread, Pin(c, t)
    PROVE  Full(K)'
<1> DEFINE q == [K EXCEPT !.td[t].pinned = 1 - @]
<1>1. Become(q) /\ AtWork(K, c) /\ Plain(K, c) /\ t = K.cpu[c].cur /\ t # NoThread
  BY Running DEF Pin
<1>2. Full(q)
  BY <1>1, PinDone
<1> HIDE DEF q
<1> QED BY <1>1, <1>2, Becomes

\* sched_affinity.
LEMMA AffinityKeeps ==
    ASSUME Full(K), NEW c \in CPU, NEW t \in Thread, NEW mask \in env.masks, Affinity(c, t, mask)
    PROVE  Full(K)'
<1>1. PICK k \in sched_affinity(WithOwn(K, t, "mask", mask), c, t) : Become(k)
  BY DEF Affinity, WithOwn
<1>2. AtWork(K, c) /\ Plain(K, c) /\ t \in Threads(K.env) /\ K.td[t].state # "canrun" /\ Typed(K)
  BY Changing DEF Affinity
<1>3. mask \in SUBSET Cpus(K.env)
  BY <1>2, KIs, ScenesAssumption DEF Typed, Cpus
<1>4. Full(k)
  BY <1>1, <1>2, <1>3, AffinityDone
<1> QED BY <1>1, <1>4, Becomes

\* sched_fork.
LEMMA ForkKeeps ==
    ASSUME Full(K), NEW c \in CPU, NEW t \in Thread, NEW child \in Thread, Fork(c, t, child)
    PROVE  Full(K)'
<1>1. PICK q \in sched_priority([K EXCEPT !.td[child] = Child(K.td[t])], t) :
         \E k \in sched_add(q, c, child, {}, c) : Become(k)
  BY KIs DEF Fork
<1>2. PICK k \in sched_add(q, c, child, {}, c) : Become(k)
  BY <1>1
<1>3. /\ AtWork(K, c) /\ t \in Threads(K.env) /\ child \in Threads(K.env)
      /\ K.td[child].state = "dead"
  <2>1. AtWork(K, c) /\ t \in Threads(K.env) /\ Typed(K)
    BY Running DEF Fork
  <2> QED BY <2>1, KIs DEF Fork, Thread, Typed
<1>4. Full(k)
  BY <1>1, <1>2, <1>3, ForkDone
<1> QED BY <1>2, <1>4, Becomes

\* sched_exit and sched_throw.
LEMMA ExitKeeps ==
    ASSUME Full(K), NEW c \in CPU, NEW t \in Thread, NEW parent \in Thread, Exit(c, t, parent)
    PROVE  Full(K)'
<1>1. PICK q \in sched_priority([K EXCEPT !.td[t].state = "dead", !.cpu[c].owe = FALSE], parent) :
         Become(choosethread(tdq_load_rem(q, c), c))
  BY DEF Exit
<1>2. /\ AtWork(K, c) /\ parent \in Threads(K.env) /\ t = K.cpu[c].cur /\ t # NoThread
  <2>1. AtWork(K, c) /\ t = K.cpu[c].cur /\ t # NoThread /\ Typed(K)
    BY Running DEF Exit
  <2> QED BY <2>1, KIs DEF Thread, Typed
<1>3. Full(choosethread(tdq_load_rem(q, c), c))
  BY <1>1, <1>2, ExitDone
<1> QED BY <1>1, <1>3, Becomes

-----------------------------------------------------------------------------
(* The idle loop. *)

\* A cpu in its idle loop.
LEMMA AtIdleIs ==
    ASSUME Full(K), NEW c \in CPU, cpu[c].op = Idle, cpu[c].cur = NoThread
    PROVE  /\ c \in Cpus(K.env) /\ Plain(K, c) /\ Typed(K) /\ Ready(K, c)
           /\ K.cpu[c].cur = NoThread
           /\ (cpu[c].ipc # "asleep" => AtWork(K, c))
BY AtNone, KIs DEF Asleep

\* Moving on in the loop, but not towards sleep.
LEMMA GotoQuiet ==
    ASSUME NEW k, Typed(k), NEW c \in Cpus(k.env), NEW ipc, ipc \notin Sleepy
    PROVE  Quiet(k, Goto(k, c, ipc))
BY SetCpu DEF Goto

\* A step of the loop that does not switch.
LEMMA IdleQuiet ==
    ASSUME Full(K), NEW q, Quiet(K, q), Become(q)
    PROVE  Full(K)'
<1>1. Full(q)
  BY QuietGood DEF Full
<1> QED BY <1>1, Becomes

\* A look at the load, and a switch if there is any.
LEMMA IdleTopKeeps ==
    ASSUME Full(K), NEW c \in CPU, IdleTop(c)
    PROVE  Full(K)'
<1> DEFINE no == FALSE
           r  == Goto(K, c, "decide")
<1>1. (\E k \in sched_switch(r, c, no) : Become(k)) \/ Become(r)
  BY DEF IdleTop
<1>2. AtWork(K, c) /\ Quiet(K, r) /\ cpu[c].op = Idle
  BY AtIdleIs, GotoQuiet DEF IdleTop, AtIdle, Sleepy
<1> HIDE DEF no, r
<1>3. Ready(r, c)
  BY <1>2, QuietWork, WorkReady
<1>4. ASSUME NEW k \in sched_switch(r, c, no) PROVE Full(k)
  BY <1>3, <1>4, SwitchDone
<1> QED BY <1>1, <1>2, <1>4, IdleQuiet, Becomes

\* The mask of cpus still to be searched is the loop's own.
LEMMA MaskQuiet ==
    ASSUME NEW k, Typed(k), NEW c \in Cpus(k.env), NEW mask
    PROVE  Quiet(k, [k EXCEPT !.cpu[c].mask = mask])
BY SetCpu

\* To steal or to sleep.
LEMMA IdleDecideKeeps ==
    ASSUME Full(K), NEW c \in CPU, IdleDecide(c)
    PROVE  Full(K)'
<1> DEFINE m == CPU \ {c}
           r == Goto(K, c, "search")
           q == [r EXCEPT !.cpu[c].mask = m]
           i == IF HasLoad(c) THEN "top" ELSE "store"
           s == Goto(K, c, i)
<1>1. Become(q) \/ Become(s)
  BY DEF IdleDecide
<1>2. c \in Cpus(K.env) /\ Typed(K) /\ Quiet(K, r) /\ Quiet(K, s) /\ cpu[c].op = Idle
  BY AtIdleIs, GotoQuiet DEF IdleDecide, AtIdle, Sleepy
<1> HIDE DEF m, r, s
<1>3. Quiet(K, q)
  <2>1. Quiet(r, q)
    BY <1>2, MaskQuiet DEF Quiet, Still
  <2> HIDE DEF q
  <2> QED BY <1>2, <2>1, QuietTwice
<1> HIDE DEF q
<1> QED BY <1>1, <1>2, <1>3, IdleQuiet

\* The search of tdq_idled, with no lock held.
LEMMA IdleSearchKeeps ==
    ASSUME Full(K), NEW c \in CPU, IdleSearch(c)
    PROVE  Full(K)'
<1> DEFINE froms == StealFrom(K, c, cpu[c].mask, Cardinality(DOMAIN env.topo))
           i == IF HasLoad(c) \/ ~On("nap") THEN "top" ELSE "store"
           r == Goto(K, c, i)
           none == {}
           q == [r EXCEPT !.cpu[c].mask = none]
           s == Goto(K, c, "take")
           p(x) == [s EXCEPT !.cpu[c].from = x]
<1>1. Become(q) \/ \E x \in froms : Become(p(x))
  BY DEF IdleSearch
<1>2. c \in Cpus(K.env) /\ Typed(K) /\ Quiet(K, r) /\ Quiet(K, s) /\ cpu[c].op = Idle
  BY AtIdleIs, GotoQuiet DEF IdleSearch, AtIdle, Sleepy
<1>3. froms \subseteq Cpus(K.env)
  <2>1. K.env \in Scenes
    BY <1>2 DEF Typed
  <2> QED BY <2>1, StealFromIs
<1> HIDE DEF froms, r, none, s
<1>4. Quiet(K, q)
  <2>1. Quiet(r, q)
    BY <1>2, MaskQuiet DEF Quiet, Still
  <2> HIDE DEF q
  <2> QED BY <1>2, <2>1, QuietTwice
<1>5. ASSUME NEW x \in froms PROVE Quiet(K, p(x))
  <2>1. Quiet(s, p(x))
    <3>1. Typed(s) /\ c \in Cpus(s.env) /\ x \in Cpus(s.env)
      BY <1>2, <1>3, <1>5 DEF Quiet, Still
    <3> QED BY <3>1, SetCpu
  <2> HIDE DEF p
  <2> QED BY <1>2, <2>1, QuietTwice
<1> HIDE DEF q, p
<1> QED BY <1>1, <1>2, <1>4, <1>5, IdleQuiet

\* cpu[c] as IdleTake leaves it.
WithIdle(k, c, from, ipc, mask) ==
    [k EXCEPT !.cpu[c] = [@ EXCEPT !.from = from, !.ipc = ipc, !.mask = mask]]

\* So are the other variables of tdq_idled.
LEMMA IdleFields ==
    ASSUME NEW k, Typed(k), NEW c \in Cpus(k.env), NEW from \in Cpus(k.env), NEW mask,
           NEW ipc, ipc \notin Sleepy
    PROVE  Quiet(k, WithIdle(k, c, from, ipc, mask))
<1> DEFINE q  == WithIdle(k, c, from, ipc, mask)
           k1 == [k EXCEPT !.cpu[c].from = from]
           k2 == [k1 EXCEPT !.cpu[c].ipc = ipc]
           k3 == [k2 EXCEPT !.cpu[c].mask = mask]
<1>1. q = k3
  <2>1. /\ DOMAIN k = {"td", "tdq", "cpu", "env"} /\ DOMAIN k.cpu = Cpus(k.env)
        /\ DOMAIN k.cpu[c] = CpuFields
    BY DEF Typed, CpuType
  <2> QED BY <2>1 DEF WithIdle, CpuFields
<1> HIDE DEF q
<1>2. Quiet(k, k1)
  BY SetCpu
<1> HIDE DEF k1
<1>3. Quiet(k1, k2)
  BY <1>2, SetCpu DEF Quiet, Still
<1> HIDE DEF k2
<1>4. Quiet(k2, k3)
  BY <1>2, <1>3, MaskQuiet DEF Quiet, Still
<1> HIDE DEF k3
<1>5. Quiet(k, k3)
  BY <1>2, <1>3, <1>4, QuietTwice
<1> QED BY <1>1, <1>5 DEF q

\* The end of tdq_idled: a thread found again under both locks is moved to c.
LEMMA IdleTakeKeeps ==
    ASSUME Full(K), NEW c \in CPU, IdleTake(c)
    PROVE  Full(K)'
<1> DEFINE from == cpu[c].from
           t    == tdq_steal(K, from, c)
           k0   == WithIdle(K, c, c, "top", {})
           no   == FALSE
           a    == cpu[c].mask
           b    == a \ {from}
           again(mask) == WithIdle(K, c, c, "search", mask)
<1>1. \/ \E k \in sched_switch(k0, c, no) : Become(k)
      \/ Become(again(a))
      \/ Become(again(b))
      \/ t # NoThread /\ \E q \in tdq_move(k0, t, c) : \E k \in sched_switch(q, c, no) : Become(k)
  BY DEF IdleTake, WithIdle
<1>2. /\ c \in Cpus(K.env) /\ AtWork(K, c) /\ Plain(K, c) /\ Typed(K) /\ InPlace(K)
      /\ K.cpu[c].cur = NoThread /\ cpu[c].op = Idle /\ from \in Cpus(K.env)
  <2>1. /\ c \in Cpus(K.env) /\ AtWork(K, c) /\ Plain(K, c) /\ Typed(K)
        /\ K.cpu[c].cur = NoThread /\ cpu[c].op = Idle
    BY AtIdleIs DEF IdleTake, AtIdle
  <2> QED BY <2>1, KIs DEF AtWork, Good, GoodBut, SoundBut, Core, Typed, CpuType
<1>3. Quiet(K, k0) /\ Quiet(K, again(a)) /\ Quiet(K, again(b))
  BY <1>2, IdleFields DEF Sleepy
<1>4. t = NoThread \/ (t \in Queued(K, from) /\ CanSched(K, t, c))
  BY <1>2, StealIs
<1> HIDE DEF k0, no, again, t, a, b, from
<1>5. AtWork(k0, c) /\ k0.env = K.env /\ k0.cpu[c].cur = NoThread
  BY <1>2, <1>3, QuietWork, QuietFacts
<1>6. ASSUME NEW k \in sched_switch(k0, c, no) PROVE Full(k)
  BY <1>5, <1>6, WorkReady, SwitchDone
<1>7. ASSUME t # NoThread, NEW q \in tdq_move(k0, t, c), NEW k \in sched_switch(q, c, no)
      PROVE  Full(k)
  <2>1. /\ t \in Threads(k0.env) /\ k0.td[t].state = "runq" /\ CanSched(k0, t, c)
        /\ c \in Cpus(k0.env) /\ Good(k0, c, 0)
    BY <1>2, <1>3, <1>4, <1>5, <1>7, QuietFacts DEF Queued, CanSched, AtWork, Mine
  <2>2. Good(q, c, 0) /\ ButThread(k0, q, t)
    BY <1>7, <2>1, MoveGood
  <2>3. Ready(q, c)
    BY <1>5, <2>1, <2>2 DEF Ready, ButThread, Mine
  <2> QED BY <1>7, <2>3, SwitchDone
<1> QED BY <1>1, <1>2, <1>3, <1>6, <1>7, IdleQuiet, Becomes

\* The steps that set or clear cpu_idle, or lead to sleep: cpu_idle is set
\* before the load is looked at again, so that a cpu that sleeps has no work.
LEMMA IdleMoves ==
    ASSUME Full(K), NEW c \in CPU, cpu[c].op = Idle, cpu[c].cur = NoThread, NEW ipc,
           NEW b \in BOOLEAN, NEW q, Become(q),
           \/ q = Goto(K, c, ipc) /\ (ipc \in Sleepy => cpu[c].ipc \in Sleepy)
           \/ q = [Goto(K, c, ipc) EXCEPT !.tdq[c].cpu_idle = b] /\ (ipc \in Sleepy => b),
           ipc = "asleep" => ~HasLoad(c)
    PROVE  Full(K)'
<1> DEFINE r == Goto(K, c, ipc)
           s == [r EXCEPT !.tdq[c].cpu_idle = b]
<1>1. c \in Cpus(K.env) /\ Typed(K) /\ K.cpu[c].cur = NoThread /\ K.cpu[c].op = Idle
  BY AtIdleIs, KIs
<1>2. /\ Signalled(K, c) /\ K.tdq[c].load = Cardinality(Queued(K, c))
      /\ IsFiniteSet(Queued(K, c))
  <2>1. NoCpu \notin Cpus(K.env)
    BY <1>1, NoOne DEF Typed
  <2>2. Signalled(K, c) /\ Counted(K, Loads(K, NoCpu, 0))
    BY <1>1 DEF Full, Good, GoodBut, SoundBut, Core, Alert
  <2>3. Loads(K, NoCpu, 0)[c] = 0
    BY <1>1, <2>1 DEF Loads, Extra, Busy
  <2>4. IsFiniteSet(Queued(K, c)) /\ Cardinality(Queued(K, c)) \in Nat
    BY <1>1, QueuedFinite, FS_CardinalityType
  <2> QED BY <1>1, <2>2, <2>3, <2>4 DEF Counted
<1>3. /\ Still(K, r) /\ r.td = K.td /\ r.tdq = K.tdq /\ r.cpu[c].ipc = ipc
      /\ r.cpu[c].ipi = K.cpu[c].ipi /\ \A d \in Cpus(K.env) \ {c} : r.cpu[d] = K.cpu[d]
  <2>1. Still(K, r)
    BY <1>1, SetCpu DEF Goto
  <2> QED BY <1>1, <2>1 DEF Goto, Typed, CpuType, CpuFields
<1> HIDE DEF r
<1>4. /\ Still(K, s) /\ s.td = K.td /\ s.cpu = r.cpu /\ s.tdq[c].cpu_idle = b
      /\ s.tdq[c].ipipending = K.tdq[c].ipipending
      /\ \A d \in Cpus(K.env) \ {c} : s.tdq[d] = K.tdq[d]
  <2>1. Typed(r) /\ r.env = K.env
    BY <1>3 DEF Still
  <2>2. Still(r, s)
    BY <1>1, <2>1, SetQueue
  <2>3. /\ s.td = r.td /\ s.cpu = r.cpu /\ s.tdq[c].cpu_idle = b
        /\ s.tdq[c].ipipending = r.tdq[c].ipipending
        /\ \A d \in Cpus(K.env) \ {c} : s.tdq[d] = r.tdq[d]
    BY <1>1, <2>1 DEF Typed, QueueType, TdqFields
  <2> HIDE DEF s
  <2> QED BY <1>3, <2>2, <2>3, StillTwice
<1>5. \/ q = r /\ (ipc \in Sleepy => K.cpu[c].ipc \in Sleepy)
      \/ q = s /\ (ipc \in Sleepy => b)
  BY KIs DEF r
<1> HIDE DEF s
<1>6. /\ Still(K, q) /\ q.td = K.td /\ q.cpu[c].ipc = ipc
      /\ \A d \in Cpus(K.env) \ {c} : q.tdq[d] = K.tdq[d] /\ q.cpu[d] = K.cpu[d]
  BY <1>3, <1>4, <1>5
<1>7. Signalled(q, c)
  BY <1>2, <1>3, <1>4, <1>5 DEF Signalled
<1>8. Rests(q, c, NoThread)
  <2> SUFFICES ASSUME ipc = "asleep"
               PROVE  q.cpu[c].op = Idle /\ \A u \in Threads(K.env) : Urgent(q, u) => q.td[u].cpu # c
    BY <1>6 DEF Rests, Asleep, Still
  <2>1. Queued(K, c) = {}
    <3>1. ~(K.tdq[c].load > 0)
      BY KIs DEF HasLoad
    <3>2. Cardinality(Queued(K, c)) = 0
      BY <1>2, <3>1, FS_CardinalityType
    <3> QED BY <1>2, <3>2, FS_EmptySet
  <2>2. \A u \in Threads(K.env) : Urgent(q, u) => q.td[u].cpu # c
    BY <1>6, <2>1 DEF Urgent, Queued
  <2>3. q.cpu[c].op = Idle
    BY <1>1, <1>6 DEF Still, SameCpu
  <2> QED BY <2>2, <2>3
<1>9. Full(q)
  BY <1>1, <1>6, <1>7, <1>8, StillFull
<1> QED BY <1>9, Becomes

\* cpu_idle is set, and the load looked at again.
LEMMA IdleMarkKeeps ==
    ASSUME Full(K), NEW c \in CPU, IdleStore(c) \/ IdleMark(c) \/ IdleAwake(c)
    PROVE  Full(K)'
<1> DEFINE yes == TRUE
           no  == FALSE
           set(ipc, b) == [Goto(K, c, ipc) EXCEPT !.tdq[c].cpu_idle = b]
<1>1. cpu[c].op = Idle /\ cpu[c].cur = NoThread
  BY DEF IdleStore, IdleMark, IdleAwake, AtIdle
<1>2. \/ Become(set("mark", yes))
      \/ Become(set("top", no))
      \/ Become(Goto(K, c, "enter")) /\ cpu[c].ipc = "mark"
  BY DEF IdleStore, IdleMark, IdleAwake, AtIdle
<1>3. yes \in BOOLEAN /\ no \in BOOLEAN /\ yes
  OBVIOUS
<1> HIDE DEF yes, no
<1>4. CASE Become(set("mark", yes))
  <2> DEFINE q   == set("mark", yes)
             ipc == "mark"
  <2>1. /\ Become(q) /\ q = [Goto(K, c, ipc) EXCEPT !.tdq[c].cpu_idle = yes]
        /\ (ipc \in Sleepy => yes) /\ (ipc = "asleep" => ~HasLoad(c))
    BY <1>3, <1>4
  <2> HIDE DEF q, ipc
  <2> QED BY <1>1, <1>3, <2>1, IdleMoves
<1>5. CASE Become(set("top", no))
  <2>1. "top" \notin Sleepy /\ "top" # "asleep"
    BY DEF Sleepy
  <2> QED BY <1>1, <1>3, <1>5, <2>1, IdleMoves
<1>6. CASE Become(Goto(K, c, "enter")) /\ cpu[c].ipc = "mark"
  BY <1>1, <1>3, <1>6, IdleMoves DEF Sleepy
<1> QED BY <1>2, <1>4, <1>5, <1>6

\* The way to sleep: sched_runnable is asked with interrupts disabled.
LEMMA IdleSleepKeeps ==
    ASSUME Full(K), NEW c \in CPU, IdleEnter(c) \/ IdleArmed(c)
    PROVE  Full(K)'
<1> DEFINE yes == TRUE
           ipc == IF cpu[c].ipc = "enter" THEN "armed"
                  ELSE IF sched_runnable(c) THEN "awake" ELSE "asleep"
<1>1. cpu[c].op = Idle /\ cpu[c].cur = NoThread /\ cpu[c].ipc \in Sleepy
  BY DEF IdleEnter, IdleArmed, AtIdle, Sleepy
<1>2. Become(Goto(K, c, ipc)) /\ (ipc = "asleep" => ~HasLoad(c))
  BY <1>1 DEF IdleEnter, IdleArmed, AtIdle, sched_runnable, HasLoad
<1>3. yes \in BOOLEAN
  OBVIOUS
<1> HIDE DEF yes, ipc
<1> QED BY <1>1, <1>2, <1>3, IdleMoves

-----------------------------------------------------------------------------
(* The specification. *)

\* At boot no queue holds a thread, and no cpu has one.
LEMMA InitFull ==
    ASSUME Init PROVE Full(K)
<1> DEFINE T == Threads(env)
           C == Cpus(env)
<1>1. env \in Scenes /\ RQ_NQS - 1 \in Nat
  BY QueuesAssumption DEF Init
<1>2. /\ DOMAIN td = T /\ \A t \in T : td[t] = NewThread(env.start[t])
      /\ DOMAIN tdq = C /\ \A c \in C : tdq[c] = tdq_setup
      /\ DOMAIN cpu = C
      /\ \A c \in C : cpu[c] = [cur |-> NoThread, op |-> Idle, owe |-> FALSE, ipi |-> FALSE,
                                ipc |-> "top", mask |-> {}, from |-> c]
  BY DEF Init, Threads, Cpus
<1>3. ASSUME NEW t \in T PROVE ThreadType(td[t], env) /\ td[t].state # "runq" /\ td[t].xferable = 0
  <2> DEFINE x == env.start[t]
  <2>1. /\ x.state \in {"sleep", "dead"} /\ x.pri \in Priority
        /\ x.cpu \in C /\ x.mask \subseteq C
    BY <1>1, ScenesAssumption DEF Threads, Cpus, Priority
  <2> HIDE DEF x
  <2>2. td[t] = NewThread(x)
    BY <1>2 DEF x
  <2> QED BY <1>1, <2>1, <2>2 DEF NewThread, ThreadType, TdFields, Priority, PRI_MAX_IDLE, RunqNames,
                                  Index
<1>4. Queues(runq_init, T) /\ \A i : Holds(runq_init, i) = {}
  BY DEF Queues, runq_init, Holds
<1>5. ASSUME NEW c \in C
      PROVE  /\ QueueType(tdq[c], env) /\ tdq[c].load = 0 /\ tdq[c].transferable = 0
             /\ \A name \in RunqNames, i \in Index : Holds(tdq[c][name], i) = {}
  <2> DEFINE q == tdq_setup
  <2>1. /\ DOMAIN q = TdqFields /\ q.load = 0 /\ q.transferable = 0 /\ q.lowpri = PRI_MAX_IDLE
        /\ q.ipipending \in BOOLEAN /\ q.cpu_idle \in BOOLEAN /\ q.idx = 0 /\ q.ridx = 0
        /\ q.realtime = runq_init /\ q.timeshare = runq_init /\ q.idle = runq_init
    BY DEF tdq_setup, TdqFields
  <2> HIDE DEF q
  <2>2. \A name \in RunqNames : q[name] = runq_init
    BY <2>1 DEF RunqNames
  <2>3. tdq[c] = q /\ 0 \in Index /\ PRI_MAX_IDLE \in Priority
    BY <1>1, <1>2 DEF q, Index, Priority, PRI_MAX_IDLE
  <2>4. \A name \in RunqNames : Queues(q[name], Threads(env))
                               /\ \A i \in Index : Holds(q[name], i) = {}
    BY <1>4, <2>2
  <2>5. QueueType(q, env)
    BY <2>1, <2>3, <2>4 DEF QueueType
  <2> QED BY <2>1, <2>3, <2>4, <2>5
<1>6. ASSUME NEW c \in C
      PROVE  CpuType(cpu[c], env) /\ cpu[c].cur = NoThread /\ cpu[c].op.op = "none"
  <2> DEFINE o == Idle
             no == FALSE
             none == {}
             p == [cur |-> NoThread, op |-> o, owe |-> no, ipi |-> no,
                   ipc |-> "top", mask |-> none, from |-> c]
  <2>1. o.op = "none" /\ no \in BOOLEAN /\ cpu[c] = p
    BY <1>2 DEF Idle
  <2> HIDE DEF o, no, none
  <2>2. /\ DOMAIN p = CpuFields /\ p.cur = NoThread /\ p.op = o /\ p.owe = no /\ p.ipi = no
        /\ p.from = c
    BY DEF CpuFields
  <2> HIDE DEF p
  <2> QED BY <2>1, <2>2 DEF CpuType, OpType
<1>7. DOMAIN K = {"td", "tdq", "cpu", "env"}
  BY DEF K
<1>8. Typed(K)
  BY <1>1, <1>2, <1>3, <1>5, <1>6, <1>7, KIs DEF Typed
<1>9. \A c \in C : Queued(K, c) = {} /\ Movable(K, c) = {}
  BY <1>3, KIs DEF Queued, Movable
<1>10. InPlace(K)
  BY <1>3, <1>5, <1>9, KIs DEF InPlace, Listed
<1>11. \A c \in C : ~Busy(K, c) /\ ~Moving(K, c) /\ Extra(K, c) = 0 /\ Owner(K, c)
  BY <1>6, KIs DEF Busy, Moving, Extra, Owner
<1> DEFINE x == Loads(K, NoCpu, 0)
<1>12. x \in [C -> Int] /\ \A c \in C : x[c] = 0
  BY <1>11, KIs DEF Loads
<1> HIDE DEF x
<1>13. Counted(K, x)
  <2>1. Cardinality({}) = 0
    BY FS_EmptySet
  <2> SUFFICES ASSUME NEW c \in C
               PROVE  /\ K.tdq[c].load = Cardinality(Queued(K, c)) + x[c]
                      /\ K.tdq[c].transferable = Cardinality(Movable(K, c))
    BY KIs DEF Counted
  <2>2. /\ tdq[c].load = 0 /\ tdq[c].transferable = 0 /\ x[c] = 0
        /\ Queued(K, c) = {} /\ Movable(K, c) = {}
    BY <1>5, <1>9, <1>12
  <2> QED BY <2>1, <2>2, KIs
<1>14. Others(K, NoCpu) /\ QueuedBut(K, NoThread)
  BY <1>3, <1>11, KIs DEF Others, QueuedBut
<1>15. \A c \in C : ~tdq[c].ipipending /\ cpu[c].ipc = "top"
  <2>1. ~tdq_setup.ipipending
    BY DEF tdq_setup
  <2> QED BY <1>2, <2>1
<1>16. Alert(K, NoCpu, NoThread)
  BY <1>2, <1>15, KIs DEF Alert, Signalled, Rests, Asleep, Sleepy
<1> QED BY <1>8, <1>10, <1>12, <1>13, <1>14, <1>16, KIs
        DEF Full, Good, GoodBut, SoundBut, Core, x

\* Every step of every cpu keeps the invariant.
LEMMA NextKeeps ==
    ASSUME Full(K), [Next]_vars PROVE Full(K)'
<1>1. CASE UNCHANGED vars
  <2>1. Become(K)
    BY <1>1, KIs DEF vars, Become
  <2> QED BY <2>1, Becomes
<1>2. CASE Next
  <2>1. PICK c \in CPU :
        \/ Continue(c) \/ sched_idletd(c)
        \/ Preempt(c) \/ CriticalExit(c) \/ Clock(c)
        \/ \E t \in Thread :
              \/ Wakeup(c, t) \/ Sleep(c, t) \/ Relinquish(c, t)
              \/ Ast(c, t) \/ Userret(c, t)
              \/ \E p \in env.lends : Lend(c, t, p) \/ LendUser(c, t, p)
              \/ Nice(c, t)
              \/ \E to \in CPU : Bind(c, t, to)
              \/ Unbind(c, t) \/ Pin(c, t)
              \/ \E mask \in env.masks : Affinity(c, t, mask)
              \/ \E u \in Thread : Fork(c, t, u) \/ Exit(c, t, u)
    BY <1>2 DEF Next
  <2>2. CASE sched_idletd(c)
    BY <2>2, IdleTopKeeps, IdleDecideKeeps, IdleSearchKeeps, IdleTakeKeeps,
       IdleMarkKeeps, IdleSleepKeeps
       DEF sched_idletd
  <2>3. CASE Continue(c) \/ Preempt(c) \/ CriticalExit(c) \/ Clock(c)
    BY <2>3, ContinueKeeps, PreemptKeeps, CriticalExitKeeps, ClockKeeps
  <2>4. ASSUME NEW t \in Thread,
               \/ Wakeup(c, t) \/ Sleep(c, t) \/ Relinquish(c, t) \/ Ast(c, t) \/ Userret(c, t)
        PROVE  Full(K)'
    BY <2>4, WakeupKeeps, SleepKeeps, RelinquishKeeps, AstKeeps, UserretKeeps
  <2>5. ASSUME NEW t \in Thread,
               \/ \E p \in env.lends : Lend(c, t, p) \/ LendUser(c, t, p)
               \/ Nice(c, t)
        PROVE  Full(K)'
    BY <2>5, LendKeeps, LendUserKeeps, NiceKeeps
  <2>6. ASSUME NEW t \in Thread,
               \/ \E to \in CPU : Bind(c, t, to)
               \/ Unbind(c, t) \/ Pin(c, t)
               \/ \E mask \in env.masks : Affinity(c, t, mask)
        PROVE  Full(K)'
    BY <2>6, BindKeeps, UnbindKeeps, PinKeeps, AffinityKeeps
  <2>7. ASSUME NEW t \in Thread, \E u \in Thread : Fork(c, t, u) \/ Exit(c, t, u)
        PROVE  Full(K)'
    BY <2>7, ForkKeeps, ExitKeeps
  <2> QED BY <2>1, <2>2, <2>3, <2>4, <2>5, <2>6, <2>7
<1> QED BY <1>1, <1>2

\* The inductive invariant: the queues, the counts and the cpus' claims to
\* threads agree, whichever cpus are in the middle of a steal, a migration, an
\* addition or the balancer (sched_switch_migrate, tdq_trysteal, sched_add,
\* sched_balance_group).
THEOREM FullHolds == Spec => []Full(K)
BY InitFull, NextKeeps, PTL DEF Spec

\* Its types are those of the variables.
LEMMA FullGivesTypes ==
    ASSUME Full(K) PROVE TypeOK
<1>1. Typed(K) /\ Counted(K, Loads(K, NoCpu, 0))
  BY DEF Full, Good, GoodBut, SoundBut, Core
<1>2. /\ DOMAIN td = Threads(env) /\ DOMAIN tdq = Cpus(env) /\ DOMAIN cpu = Cpus(env)
      /\ \A t \in Thread : ThreadType(td[t], env)
      /\ \A c \in CPU : QueueType(tdq[c], env) /\ CpuType(cpu[c], env)
  BY <1>1, KIs DEF Typed, Thread, CPU
<1>3. ASSUME NEW t \in Thread
      PROVE  /\ td[t].state \in {"dead", "new", "sleep", "canrun", "runq", "run"}
             /\ {td[t].pri, td[t].base, td[t].user, td[t].base_user, td[t].lend_user}
                   \subseteq 0 .. PRI_MAX_IDLE
             /\ td[t].cpu \in CPU /\ td[t].mask \subseteq CPU /\ td[t].pinned \in 0 .. 1
             /\ td[t].rqindex \in 0 .. RQ_NQS - 1
  BY <1>2 DEF ThreadType, Priority, Index, CPU
<1>4. ASSUME NEW c \in CPU
      PROVE  tdq[c].load \in Nat /\ tdq[c].transferable \in Nat
  <2>1. Cardinality(Queued(K, c)) \in Nat /\ Cardinality(Movable(K, c)) \in Nat
    BY <1>1, QueuedFinite, FS_CardinalityType
  <2>2. /\ tdq[c].load = Cardinality(Queued(K, c)) + Extra(K, c)
        /\ tdq[c].transferable = Cardinality(Movable(K, c))
    <3>1. NoCpu \notin Cpus(K.env) /\ c \in Cpus(K.env)
      BY <1>1, <1>2, NoOne, KIs DEF Typed, CPU
    <3> QED BY <1>1, <3>1, KIs DEF Counted, Loads
  <2> QED BY <2>1, <2>2 DEF Extra
<1>5. ASSUME NEW c \in CPU
      PROVE  /\ tdq[c].lowpri \in 0 .. PRI_MAX_IDLE
             /\ {tdq[c].idx, tdq[c].ridx} \subseteq 0 .. RQ_NQS - 1
             /\ {tdq[c].ipipending, tdq[c].cpu_idle} \subseteq BOOLEAN
             /\ \A name \in RunqNames : RunqType(tdq[c][name])
             /\ cpu[c].cur \in Thread \cup {NoThread}
             /\ {cpu[c].owe, cpu[c].ipi} \subseteq BOOLEAN
  <2>1. QueueType(tdq[c], env) /\ CpuType(cpu[c], env) /\ Thread = Threads(env)
    BY <1>2 DEF Thread
  <2>2. \A name \in RunqNames : RunqType(tdq[c][name])
    BY <2>1 DEF QueueType, RunqType, Queues, Index
  <2> QED BY <2>1, <2>2 DEF QueueType, CpuType, Priority, Index
<1> QED BY <1>3, <1>4, <1>5 DEF TypeOK

\* It says what QueuesConsistent says.
LEMMA FullGivesQueues ==
    ASSUME Full(K) PROVE QueuesConsistent
<1>1. Typed(K) /\ InPlace(K) /\ Counted(K, Loads(K, NoCpu, 0))
  BY DEF Full, Good, GoodBut, SoundBut, Core
<1>2. /\ DOMAIN td = Threads(env) /\ DOMAIN tdq = Cpus(env) /\ DOMAIN cpu = Cpus(env)
      /\ \A c \in CPU, name \in RunqNames : Queues(tdq[c][name], Thread)
      /\ \A t \in Thread : td[t].runq \in RunqNames /\ td[t].rqindex \in Index
  BY <1>1, KIs DEF Typed, Thread, CPU, QueueType, ThreadType
<1> SUFFICES ASSUME NEW c \in CPU
    PROVE LET mine == {t \in Thread : td[t].state = "runq" /\ td[t].cpu = c}
              busy == /\ cpu[c].cur # NoThread
                      /\ cpu[c].op.op \notin {"migrate", "trysteal", "trytake"}
          IN  /\ tdq[c].load = Cardinality(mine) + (IF busy THEN 1 ELSE 0)
              /\ tdq[c].transferable = Cardinality({t \in mine : td[t].pinned = 0})
              /\ \A t \in mine :
                    /\ td[t].rqindex \in DOMAIN tdq[c][td[t].runq]
                    /\ t \in Range(tdq[c][td[t].runq][td[t].rqindex])
              /\ \A name \in RunqNames : \A i \in DOMAIN tdq[c][name] :
                    LET q == tdq[c][name][i]
                    IN  /\ IsInjective(q)
                        /\ \A t \in Range(q) :
                              t \in mine /\ td[t].runq = name /\ td[t].rqindex = i
  BY FullGivesTypes DEF QueuesConsistent
<1> DEFINE mine == {t \in Thread : td[t].state = "runq" /\ td[t].cpu = c}
<1>3. mine = Queued(K, c) /\ {t \in mine : td[t].pinned = 0} = Movable(K, c)
  BY <1>2, KIs DEF Queued, Movable, Thread
<1>4. /\ tdq[c].load = Cardinality(Queued(K, c)) + Extra(K, c)
      /\ tdq[c].transferable = Cardinality(Movable(K, c))
  <2>1. NoCpu \notin Cpus(K.env) /\ c \in Cpus(K.env)
    BY <1>1, <1>2, NoOne, KIs DEF Typed, CPU
  <2> QED BY <1>1, <2>1, KIs DEF Counted, Loads
<1>5. \A name \in RunqNames, i \in Index :
         Holds(tdq[c][name], i) = {t \in mine : td[t].runq = name /\ td[t].rqindex = i}
  BY <1>1, <1>2, <1>3, KIs DEF InPlace, Listed, CPU
<1>6. ASSUME NEW t \in mine
      PROVE  /\ td[t].rqindex \in DOMAIN tdq[c][td[t].runq]
             /\ t \in Range(tdq[c][td[t].runq][td[t].rqindex])
  <2>1. t \in Holds(tdq[c][td[t].runq], td[t].rqindex)
    BY <1>2, <1>5
  <2> QED BY <2>1 DEF Holds
<1>7. ASSUME NEW name \in RunqNames, NEW i \in DOMAIN tdq[c][name]
      PROVE  /\ IsInjective(tdq[c][name][i])
             /\ \A t \in Range(tdq[c][name][i]) :
                   t \in mine /\ td[t].runq = name /\ td[t].rqindex = i
  <2>1. i \in Index /\ IsInjective(tdq[c][name][i])
    BY <1>2 DEF Queues
  <2> QED BY <1>5, <2>1 DEF Holds
<1>8. Extra(K, c) = IF /\ cpu[c].cur # NoThread
                       /\ cpu[c].op.op \notin {"migrate", "trysteal", "trytake"}
                    THEN 1 ELSE 0
  BY KIs DEF Extra, Busy
<1> HIDE DEF mine
<1>9. tdq[c].transferable = Cardinality({t \in mine : td[t].pinned = 0})
  BY <1>3, <1>4
<1>10. tdq[c].load = Cardinality(mine) + (IF /\ cpu[c].cur # NoThread
                                            /\ cpu[c].op.op \notin {"migrate", "trysteal", "trytake"}
                                         THEN 1 ELSE 0)
  BY <1>3, <1>4, <1>8
<1> QED BY <1>6, <1>7, <1>9, <1>10 DEF mine

\* And what PlacedWhereAllowed says.
LEMMA FullGivesPlaces ==
    ASSUME Full(K) PROVE PlacedWhereAllowed
<1>1. Typed(K) /\ Others(K, NoCpu) /\ QueuedBut(K, NoThread) /\ NoCpu \notin Cpus(K.env)
      /\ NoThread \notin Threads(K.env)
  BY NoOne DEF Full, Good, GoodBut, SoundBut, Core, Typed
<1>2. ASSUME NEW t \in Thread, td[t].state = "runq"
      PROVE  td[t].cpu \in td[t].mask \/ td[t].pinned # 0
  BY <1>1, <1>2, KIs DEF QueuedBut, Allowed, Typed, Thread
<1>3. ASSUME NEW t \in Thread, NEW c \in CPU, Runs(c, t) PROVE td[t].cpu = c
  <2>1. c \in Cpus(K.env) /\ Owner(K, c)
    BY <1>1, KIs DEF Typed, CPU, Others
  <2>2. Busy(K, c) /\ K.cpu[c].cur = t
    BY <1>3, KIs DEF Runs, Working, Busy, Idle
  <2> QED BY <2>1, <2>2, KIs DEF Owner
<1> QED BY <1>2, <1>3 DEF PlacedWhereAllowed

\* And what NoIdleWithWork says: a thread that is no reason to wake a cpu has
\* the worst priority.
LEMMA FullGivesRest ==
    ASSUME Full(K) PROVE NoIdleWithWork
<1>1. Typed(K) /\ NoCpu \notin Cpus(K.env) /\ NoThread \notin Threads(K.env)
  BY NoOne DEF Full, Good, GoodBut, SoundBut, Core, Typed
<1>2. /\ DOMAIN td = Threads(K.env) /\ DOMAIN cpu = Cpus(K.env)
      /\ \A t \in Thread : td[t].pri \in Priority
  BY <1>1, KIs DEF Typed, ThreadType, Thread
<1> SUFFICES ASSUME NEW c \in CPU
             PROVE  /\ AtIdle(c, "asleep") /\ ~cpu[c].ipi =>
                          \A t \in Thread : td[t].state = "runq" /\ td[t].cpu = c =>
                                               td[t].pri = PRI_MAX_IDLE
                    /\ tdq[c].ipipending => cpu[c].ipi
  BY DEF NoIdleWithWork
<1>3. c \in Cpus(K.env) /\ Signalled(K, c) /\ Rests(K, c, NoThread)
  BY <1>1, <1>2 DEF Full, Good, GoodBut, Alert, CPU
<1>4. tdq[c].ipipending => cpu[c].ipi
  BY <1>3, KIs DEF Signalled
<1>5. ASSUME AtIdle(c, "asleep"), ~cpu[c].ipi,
             NEW t \in Thread, td[t].state = "runq", td[t].cpu = c
      PROVE  td[t].pri = PRI_MAX_IDLE
  <2>1. Asleep(K, c) /\ ~K.cpu[c].ipi /\ t \in Threads(K.env) \ {NoThread}
    BY <1>1, <1>2, <1>5, KIs DEF AtIdle, Asleep, Thread
  <2>2. ~Urgent(K, t)
    BY <1>3, <1>5, <2>1, KIs DEF Rests
  <2> QED BY <1>2, <1>5, <2>2, KIs DEF Urgent, Priority, PRI_MAX_IDLE
<1> QED BY <1>4, <1>5

\* Every variable has its type: no load and no transferable count is ever
\* negative, and the calendar's indices and every thread's queue exist
\* (tdq_load_rem, tdq_runq_rem, sched_clock, tdq_runq_add).
THEOREM UleTypes == Spec => []TypeOK
BY FullHolds, FullGivesTypes, PTL

\* Loads, transferable counts and queues are what the threads say, for every
\* number of cpus and threads, every topology that is a tree and every
\* interleaving of stealing, balancing and migrating (tdq_runq_add,
\* tdq_runq_rem, tdq_move, sched_switch_migrate).
THEOREM CountsHold == Spec => []QueuesConsistent
BY FullHolds, FullGivesQueues, PTL

\* A thread is queued only on a cpu of its mask or one it is pinned to, and
\* runs only where it is assigned (sched_pickcpu, sched_affinity, sched_bind,
\* tdq_steal).
THEOREM PlacesHold == Spec => []PlacedWhereAllowed
BY FullHolds, FullGivesPlaces, PTL

\* No cpu sleeps on a thread it has been given, unless an interrupt is on its
\* way or the thread has the idle thread's own priority, and an IPI that is
\* marked as pending has been sent: cpu_idle and the load are written and read
\* without a common lock by tdq_notify and sched_idletd, in opposite orders.
THEOREM NoCpuSleepsOnWork == Spec => []NoIdleWithWork
BY FullHolds, FullGivesRest, PTL
=============================================================================
