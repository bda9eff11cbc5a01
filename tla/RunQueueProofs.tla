--------------------------- MODULE RunQueueProofs ---------------------------
(***************************************************************************)
(* The run queue keeps its structure and its order for any set of threads, *)
(* priorities, cpus and sysctl values, and runq_add made of its four tests *)
(* amounts to the atomic one unless the sysctl is written during the call. *)
(***************************************************************************)
EXTENDS RunQueue, FiniteSetsExt, SequencesExt, FiniteSetTheorems,
        SequenceTheorems, WellFoundedInduction, TLAPS

-----------------------------------------------------------------------------
(* Facts about numbers and about what the queue operations return. *)

\* A set of natural numbers that is not empty has a least element.
LEMMA LeastElement ==
    ASSUME NEW T \in SUBSET Nat, T # {}
    PROVE  \E x \in T : \A y \in T : x <= y
<1> DEFINE R == OpToRel(<, Nat)
<1>1. IsWellFoundedOn(R, Nat)
  BY NatLessThanWellFounded
<1>2. \A x, y \in Nat : y < x => << y, x >> \in R
  BY Zenon DEF OpToRel
<1> HIDE DEF R
<1>3. PICK x \in T : \A y \in T : ~ (<< y, x >> \in R)
  BY <1>1, WFMin
<1>4. \A y \in T : ~ (y < x)
  BY <1>2, <1>3
<1> QED BY <1>4

\* Min, with which runq_findbit is modelled, is the least element.
LEMMA MinProperties ==
    ASSUME NEW S \in SUBSET Nat, S # {}
    PROVE  Min(S) \in S /\ \A j \in S : Min(S) <= j
BY LeastElement DEF Min

\* What InsertAt (TAILQ_INSERT_HEAD, _TAIL and _BEFORE) returns.
LEMMA InsertAtProperties ==
    ASSUME NEW S, NEW q \in Seq(S), NEW e \in S, NEW k \in 1 .. Len(q) + 1
    PROVE  /\ InsertAt(q, k, e) \in Seq(S)
           /\ Len(InsertAt(q, k, e)) = Len(q) + 1
           /\ \A j \in 1 .. Len(q) + 1 :
                InsertAt(q, k, e)[j] =
                    IF j < k THEN q[j] ELSE IF j = k THEN e ELSE q[j - 1]
<1> DEFINE a == SubSeq(q, 1, k - 1)
           b == SubSeq(q, k, Len(q))
<1>1. /\ a \in Seq(S) /\ Len(a) = k - 1
      /\ \A j \in 1 .. k - 1 : a[j] = q[j]
  <2>1. \A j \in 1 .. k - 1 : q[j] \in S
    BY LenProperties, ElementOfSeq
  <2> QED BY <2>1, SubSeqProperties, LenProperties
<1>2. /\ b \in Seq(S) /\ Len(b) = Len(q) - k + 1
      /\ \A j \in 1 .. Len(q) - k + 1 : b[j] = q[k + j - 1]
  <2>1. \A j \in k .. Len(q) : q[j] \in S
    BY LenProperties, ElementOfSeq
  <2> QED BY <2>1, SubSeqProperties, LenProperties
<1>3. /\ <<e>> \in Seq(S) /\ Len(<<e>>) = 1 /\ <<e>>[1] = e
  OBVIOUS
<1> DEFINE c == a \o <<e>>
<1>4. /\ c \in Seq(S) /\ Len(c) = k
      /\ \A j \in 1 .. k : c[j] = IF j < k THEN q[j] ELSE e
  <2> HIDE DEF a, b
  <2> QED BY <1>1, <1>3, ConcatProperties, LenProperties
<1>5. InsertAt(q, k, e) = c \o b
  BY DEF InsertAt
<1> HIDE DEF a, b, c
<1>6. /\ c \o b \in Seq(S)
      /\ Len(c \o b) = Len(c) + Len(b)
      /\ \A j \in 1 .. Len(c) + Len(b) :
            (c \o b)[j] = IF j <= Len(c) THEN c[j] ELSE b[j - Len(c)]
  BY <1>2, <1>4, ConcatProperties
<1>7. Len(q) \in Nat
  BY LenProperties
<1>8. Len(c \o b) = Len(q) + 1
  BY <1>2, <1>4, <1>6, <1>7
<1>9. ASSUME NEW j \in 1 .. Len(q) + 1
      PROVE  (c \o b)[j] = IF j < k THEN q[j] ELSE IF j = k THEN e ELSE q[j - 1]
  <2>1. CASE j <= k
    BY <2>1, <1>2, <1>4, <1>6, <1>7
  <2>2. CASE j > k
    <3>1. (c \o b)[j] = b[j - k]
      BY <2>2, <1>2, <1>4, <1>6, <1>7
    <3>2. b[j - k] = q[k + (j - k) - 1]
      BY <2>2, <1>2, <1>7
    <3>3. k + (j - k) - 1 = j - 1
      BY <1>7
    <3> QED BY <2>2, <3>1, <3>2, <3>3, <1>7
  <2>3. j <= k \/ j > k
    BY <1>7
  <2> QED BY <2>1, <2>2, <2>3
<1> QED BY <1>5, <1>6, <1>8, <1>9

\* What RemoveAt (TAILQ_REMOVE) returns.
LEMMA RemoveAtProperties ==
    ASSUME NEW S, NEW q \in Seq(S), NEW k \in 1 .. Len(q)
    PROVE  /\ RemoveAt(q, k) \in Seq(S)
           /\ Len(RemoveAt(q, k)) = Len(q) - 1
           /\ \A j \in 1 .. Len(q) - 1 :
                RemoveAt(q, k)[j] = IF j < k THEN q[j] ELSE q[j + 1]
<1> DEFINE a == SubSeq(q, 1, k - 1)
           b == SubSeq(q, k + 1, Len(q))
<1>1. /\ a \in Seq(S) /\ Len(a) = k - 1
      /\ \A j \in 1 .. k - 1 : a[j] = q[j]
  <2>1. \A j \in 1 .. k - 1 : q[j] \in S
    BY LenProperties, ElementOfSeq
  <2> QED BY <2>1, SubSeqProperties, LenProperties
<1>2. /\ b \in Seq(S) /\ Len(b) = Len(q) - k
      /\ \A j \in 1 .. Len(q) - k : b[j] = q[k + j]
  <2>1. \A j \in k + 1 .. Len(q) : q[j] \in S
    BY LenProperties, ElementOfSeq
  <2> QED BY <2>1, SubSeqProperties, LenProperties
<1>3. RemoveAt(q, k) = a \o b
  BY DEF RemoveAt
<1> HIDE DEF a, b
<1>4. /\ a \o b \in Seq(S)
      /\ Len(a \o b) = Len(a) + Len(b)
      /\ \A j \in 1 .. Len(a) + Len(b) :
            (a \o b)[j] = IF j <= Len(a) THEN a[j] ELSE b[j - Len(a)]
  BY <1>1, <1>2, ConcatProperties
<1>5. Len(q) \in Nat
  BY LenProperties
<1>6. Len(a \o b) = Len(q) - 1
  BY <1>1, <1>2, <1>4, <1>5
<1>7. ASSUME NEW j \in 1 .. Len(q) - 1
      PROVE  (a \o b)[j] = IF j < k THEN q[j] ELSE q[j + 1]
  <2>1. CASE j < k
    BY <2>1, <1>1, <1>2, <1>4, <1>5
  <2>2. CASE j >= k
    <3>1. (a \o b)[j] = b[j - (k - 1)]
      BY <2>2, <1>1, <1>2, <1>4, <1>5
    <3>2. b[j - (k - 1)] = q[k + (j - (k - 1))]
      BY <2>2, <1>2, <1>5
    <3>3. k + (j - (k - 1)) = j + 1
      BY <1>5
    <3> QED BY <2>2, <3>1, <3>2, <3>3, <1>5
  <2>3. j < k \/ j >= k
    BY <1>5
  <2> QED BY <2>1, <2>2, <2>3
<1> QED BY <1>3, <1>4, <1>6, <1>7

-----------------------------------------------------------------------------
RunqType == [rq_queues : [Index -> Seq(Thread)], rq_status : SUBSET Index]

\* What Link does to a run queue, field by field.
LEMMA LinkProperties ==
    ASSUME NEW r \in RunqType, NEW i \in Index, NEW td \in Thread,
           NEW k \in 1 .. Len(r.rq_queues[i]) + 1
    PROVE  LET s == Link(r, i, k, td)
           IN  /\ s \in RunqType
               /\ s.rq_status = r.rq_status \cup {i}
               /\ \A j \in Index \ {i} : s.rq_queues[j] = r.rq_queues[j]
               /\ s.rq_queues[i] = InsertAt(r.rq_queues[i], k, td)
               /\ Len(s.rq_queues[i]) = Len(r.rq_queues[i]) + 1
               /\ \A j \in 1 .. Len(r.rq_queues[i]) + 1 :
                    s.rq_queues[i][j] =
                        IF j < k THEN r.rq_queues[i][j]
                        ELSE IF j = k THEN td ELSE r.rq_queues[i][j - 1]
<1> DEFINE q == InsertAt(r.rq_queues[i], k, td)
           s == Link(r, i, k, td)
<1>1. r.rq_queues \in [Index -> Seq(Thread)] /\ r.rq_status \in SUBSET Index
  BY DEF RunqType
<1>2. /\ q \in Seq(Thread)
      /\ Len(q) = Len(r.rq_queues[i]) + 1
      /\ \A j \in 1 .. Len(r.rq_queues[i]) + 1 :
            q[j] = IF j < k THEN r.rq_queues[i][j]
                   ELSE IF j = k THEN td ELSE r.rq_queues[i][j - 1]
  BY <1>1, InsertAtProperties
<1> HIDE DEF q
<1>3. s = [rq_queues |-> [r.rq_queues EXCEPT ![i] = q],
           rq_status |-> r.rq_status \cup {i}]
  <2>1. r = [rq_queues |-> r.rq_queues, rq_status |-> r.rq_status]
    BY DEF RunqType
  <2>2. runq_setbit(r, i) =
            [rq_queues |-> r.rq_queues, rq_status |-> r.rq_status \cup {i}]
    <3> DEFINE x == r.rq_status \cup {i}
    <3>1. runq_setbit(r, i) = [r EXCEPT !.rq_status = x]
      BY DEF runq_setbit
    <3> HIDE DEF x
    <3>2. [r EXCEPT !.rq_status = x] = [rq_queues |-> r.rq_queues, rq_status |-> x]
      BY <2>1
    <3> QED BY <3>1, <3>2 DEF x
  <2> DEFINE t == runq_setbit(r, i)
  <2>3. Link(r, i, k, td) = [t EXCEPT !.rq_queues[i] = q]
    BY <1>1, <2>2 DEF Link, q
  <2> HIDE DEF t
  <2>4. t = [rq_queues |-> r.rq_queues, rq_status |-> r.rq_status \cup {i}]
    BY <2>2 DEF t
  <2> QED BY <1>1, <2>3, <2>4
<1> HIDE DEF s
<1>4. s.rq_queues = [r.rq_queues EXCEPT ![i] = q]
  BY <1>3
<1>5. s.rq_status = r.rq_status \cup {i}
  BY <1>3
<1>6. s.rq_queues[i] = q /\ \A j \in Index \ {i} : s.rq_queues[j] = r.rq_queues[j]
  BY <1>1, <1>4
<1>7. s.rq_queues \in [Index -> Seq(Thread)]
  BY <1>1, <1>2, <1>4
<1>8. s \in RunqType
  BY <1>3, <1>4, <1>5, <1>7, <1>1 DEF RunqType
<1> QED BY <1>2, <1>5, <1>6, <1>8 DEF s, q

\* What Unlink does to a run queue, field by field.
LEMMA UnlinkProperties ==
    ASSUME NEW r \in RunqType, NEW i \in Index,
           NEW k \in 1 .. Len(r.rq_queues[i])
    PROVE  LET s == Unlink(r, i, k)
           IN  /\ s \in RunqType
               /\ s.rq_status = IF Len(r.rq_queues[i]) = 1
                                THEN r.rq_status \ {i} ELSE r.rq_status
               /\ \A j \in Index \ {i} : s.rq_queues[j] = r.rq_queues[j]
               /\ Len(s.rq_queues[i]) = Len(r.rq_queues[i]) - 1
               /\ \A j \in 1 .. Len(r.rq_queues[i]) - 1 :
                    s.rq_queues[i][j] =
                        IF j < k THEN r.rq_queues[i][j]
                        ELSE r.rq_queues[i][j + 1]
<1> DEFINE q == RemoveAt(r.rq_queues[i], k)
           s == Unlink(r, i, k)
<1>1. r.rq_queues \in [Index -> Seq(Thread)] /\ r.rq_status \in SUBSET Index
  BY DEF RunqType
<1>2. /\ q \in Seq(Thread)
      /\ Len(q) = Len(r.rq_queues[i]) - 1
      /\ \A j \in 1 .. Len(r.rq_queues[i]) - 1 :
            q[j] = IF j < k THEN r.rq_queues[i][j] ELSE r.rq_queues[i][j + 1]
  BY <1>1, RemoveAtProperties
<1>3. q = << >> <=> Len(r.rq_queues[i]) = 1
  <2>1. Len(r.rq_queues[i]) \in Nat
    BY <1>1, LenProperties
  <2>2. q = << >> <=> Len(q) = 0
    BY <1>2, EmptySeq
  <2> QED BY <1>2, <2>1, <2>2
<1> HIDE DEF q
<1> DEFINE t == IF q = << >> THEN r.rq_status \ {i} ELSE r.rq_status
<1>4. s = [rq_queues |-> [r.rq_queues EXCEPT ![i] = q], rq_status |-> t]
  BY <1>1 DEF Unlink, runq_clrbit, q, RunqType
<1> HIDE DEF s
<1>5. s.rq_queues = [r.rq_queues EXCEPT ![i] = q]
  BY <1>4
<1>6. s.rq_status = t
  BY <1>4
<1>7. s.rq_queues[i] = q /\ \A j \in Index \ {i} : s.rq_queues[j] = r.rq_queues[j]
  BY <1>1, <1>5
<1>8. s.rq_queues \in [Index -> Seq(Thread)]
  BY <1>1, <1>2, <1>5
<1>9. s \in RunqType
  BY <1>4, <1>5, <1>6, <1>8, <1>1 DEF RunqType
<1> QED BY <1>2, <1>3, <1>6, <1>7, <1>9 DEF s

-----------------------------------------------------------------------------
\* QueuesConsistent of a run queue r, for threads with the
\* states st and the indices idx.
Good(r, st, idx) ==
    /\ \A i \in Index : i \in r.rq_status <=> Len(r.rq_queues[i]) > 0
    /\ \A i \in Index : \A k \in 1 .. Len(r.rq_queues[i]) :
          st[r.rq_queues[i][k]] = "RUNQ" /\ idx[r.rq_queues[i][k]] = i
    /\ \A i \in Index : \A j, k \in 1 .. Len(r.rq_queues[i]) :
          r.rq_queues[i][j] = r.rq_queues[i][k] => j = k

\* RunnableIsLinked of a run queue r.
Present(r, st, idx) ==
    \A td \in Thread : st[td] = "RUNQ" =>
        \E k \in 1 .. Len(r.rq_queues[idx[td]]) : r.rq_queues[idx[td]][k] = td

StateType == [Thread -> {"OFF", "RUNQ"}]
IndexType == [Thread -> Index]
\* Linking a thread that is not runnable yet keeps the structure.
LEMMA LinkGood ==
    ASSUME NEW r \in RunqType, NEW st \in StateType, NEW idx \in IndexType,
           NEW i \in Index, NEW td \in Thread,
           NEW k \in 1 .. Len(r.rq_queues[i]) + 1,
           Good(r, st, idx), st[td] = "OFF"
    PROVE  Good(Link(r, i, k, td), [st EXCEPT ![td] = "RUNQ"],
                [idx EXCEPT ![td] = i])
<1> DEFINE s   == Link(r, i, k, td)
           n   == Len(r.rq_queues[i])
           st2 == [st EXCEPT ![td] = "RUNQ"]
           ix2 == [idx EXCEPT ![td] = i]
<1>1. /\ s \in RunqType
      /\ s.rq_status = r.rq_status \cup {i}
      /\ \A j \in Index \ {i} : s.rq_queues[j] = r.rq_queues[j]
      /\ Len(s.rq_queues[i]) = n + 1
      /\ \A j \in 1 .. n + 1 :
            s.rq_queues[i][j] = IF j < k THEN r.rq_queues[i][j]
                                ELSE IF j = k THEN td ELSE r.rq_queues[i][j - 1]
  BY LinkProperties
<1>2. \A j \in Index : /\ Len(r.rq_queues[j]) \in Nat
                        /\ \A l \in 1 .. Len(r.rq_queues[j]) :
                             r.rq_queues[j][l] \in Thread
  BY LenProperties, ElementOfSeq DEF RunqType
<1>3. \A j \in Index : \A l \in 1 .. Len(r.rq_queues[j]) :
         r.rq_queues[j][l] # td
  BY DEF Good
<1>4. /\ \A u \in Thread : u # td => st2[u] = st[u] /\ ix2[u] = idx[u]
      /\ st2[td] = "RUNQ" /\ ix2[td] = i
  BY DEF StateType, IndexType
<1> HIDE DEF s, st2, ix2
<1>5. \A j \in Index : j \in s.rq_status <=> Len(s.rq_queues[j]) > 0
  <2>1. \A j \in Index \ {i} : j \in s.rq_status <=> Len(s.rq_queues[j]) > 0
    BY <1>1 DEF Good
  <2>2. i \in s.rq_status /\ Len(s.rq_queues[i]) > 0
    BY <1>1, <1>2
  <2> QED BY <2>1, <2>2
<1>6. ASSUME NEW j \in Index, NEW l \in 1 .. Len(s.rq_queues[j])
      PROVE  st2[s.rq_queues[j][l]] = "RUNQ" /\ ix2[s.rq_queues[j][l]] = j
  <2>1. CASE j # i
    BY <2>1, <1>1, <1>2, <1>3, <1>4 DEF Good
  <2>2. CASE j = i /\ l < k
    <3>1. l \in 1 .. n /\ s.rq_queues[j][l] = r.rq_queues[i][l]
      BY <2>2, <1>1, <1>2
    <3> QED BY <3>1, <2>2, <1>2, <1>3, <1>4 DEF Good
  <2>3. CASE j = i /\ l = k
    BY <2>3, <1>1, <1>2, <1>4
  <2>4. CASE j = i /\ l > k
    <3>1. l - 1 \in 1 .. n /\ s.rq_queues[j][l] = r.rq_queues[i][l - 1]
      BY <2>4, <1>1, <1>2
    <3> QED BY <3>1, <2>4, <1>2, <1>3, <1>4 DEF Good
  <2>5. l < k \/ l = k \/ l > k
    BY <1>2, <1>1
  <2> QED BY <2>1, <2>2, <2>3, <2>4, <2>5
<1>7. ASSUME NEW j \in Index,
             NEW l \in 1 .. Len(s.rq_queues[j]),
             NEW m \in 1 .. Len(s.rq_queues[j]),
             s.rq_queues[j][l] = s.rq_queues[j][m]
      PROVE  l = m
  <2>1. CASE j # i
    BY <2>1, <1>1, <1>7 DEF Good
  <2>2. CASE j = i
    <3> DEFINE Old(x) == IF x < k THEN x ELSE x - 1
    <3>0. n \in Nat
      BY <1>2
    <3> HIDE DEF n
    <3>1. ASSUME NEW x \in 1 .. n + 1, x # k
          PROVE  Old(x) \in 1 .. n /\ s.rq_queues[i][x] = r.rq_queues[i][Old(x)]
      <4>1. k \in 1 .. n + 1
        BY DEF n
      <4>2. CASE x < k
        <5>1. Old(x) = x /\ x \in 1 .. n
          BY <4>1, <4>2, <3>0
        <5>2. s.rq_queues[i][x] = r.rq_queues[i][x]
          BY <1>1, <4>2
        <5> QED BY <5>1, <5>2
      <4>3. CASE x > k
        <5>1. Old(x) = x - 1 /\ x - 1 \in 1 .. n /\ ~(x < k)
          BY <4>1, <4>3, <3>0
        <5>2. s.rq_queues[i][x] = r.rq_queues[i][x - 1]
          BY <1>1, <5>1, <3>1
        <5> QED BY <5>1, <5>2
      <4>4. x < k \/ x > k
        BY <4>1, <3>0, <3>1
      <4> QED BY <4>2, <4>3, <4>4
    <3>2. s.rq_queues[i][k] = td
      BY <1>1 DEF n
    <3>3. l \in 1 .. n + 1 /\ m \in 1 .. n + 1
      BY <2>2, <1>1
    <3>4. CASE l = k \/ m = k
      <4>1. \A x \in 1 .. n + 1 : x # k => s.rq_queues[i][x] # td
        BY <3>1, <1>3 DEF n
      <4> QED BY <4>1, <3>2, <3>3, <3>4, <1>7, <2>2
    <3>5. CASE l # k /\ m # k
      <4>1. /\ Old(l) \in 1 .. n /\ s.rq_queues[i][l] = r.rq_queues[i][Old(l)]
            /\ Old(m) \in 1 .. n /\ s.rq_queues[i][m] = r.rq_queues[i][Old(m)]
        BY <3>1, <3>3, <3>5
      <4>2. r.rq_queues[i][Old(l)] = r.rq_queues[i][Old(m)]
        BY <4>1, <1>7, <2>2
      <4> HIDE DEF Old
      <4>3. Old(l) = Old(m)
        BY <4>1, <4>2 DEF Good, n
      <4> QED BY <4>3, <3>0, <3>3, <3>5 DEF Old
    <3> QED BY <3>4, <3>5
  <2> QED BY <2>1, <2>2
<1>8. Good(s, st2, ix2)
  BY <1>5, <1>6, <1>7 DEF Good
<1> QED BY <1>8 DEF s, st2, ix2

\* Unlinking a thread and taking its state off the run queue keeps it too.
LEMMA UnlinkGood ==
    ASSUME NEW r \in RunqType, NEW st \in StateType, NEW idx \in IndexType,
           NEW i \in Index, NEW td \in Thread,
           NEW k \in 1 .. Len(r.rq_queues[i]),
           Good(r, st, idx), r.rq_queues[i][k] = td
    PROVE  Good(Unlink(r, i, k), [st EXCEPT ![td] = "OFF"], idx)
<1> DEFINE s   == Unlink(r, i, k)
           n   == Len(r.rq_queues[i])
           st2 == [st EXCEPT ![td] = "OFF"]
<1>1. /\ s \in RunqType
      /\ s.rq_status = IF n = 1 THEN r.rq_status \ {i} ELSE r.rq_status
      /\ \A j \in Index \ {i} : s.rq_queues[j] = r.rq_queues[j]
      /\ Len(s.rq_queues[i]) = n - 1
      /\ \A j \in 1 .. n - 1 :
            s.rq_queues[i][j] = IF j < k THEN r.rq_queues[i][j]
                                ELSE r.rq_queues[i][j + 1]
  BY UnlinkProperties
<1>2. \A j \in Index : /\ Len(r.rq_queues[j]) \in Nat
                        /\ \A l \in 1 .. Len(r.rq_queues[j]) :
                             r.rq_queues[j][l] \in Thread
  BY LenProperties, ElementOfSeq DEF RunqType
<1>3. \A j \in Index : \A l \in 1 .. Len(r.rq_queues[j]) :
         r.rq_queues[j][l] = td => j = i /\ l = k
  BY DEF Good
<1>4. \A u \in Thread : u # td => st2[u] = st[u]
  BY DEF StateType
<1> HIDE DEF s, st2
<1> DEFINE Old(x) == IF x < k THEN x ELSE x + 1
<1>5. \A x \in 1 .. n - 1 :
         /\ Old(x) \in 1 .. n /\ Old(x) # k
         /\ s.rq_queues[i][x] = r.rq_queues[i][Old(x)]
  <2> TAKE x \in 1 .. n - 1
  <2>1. n \in Nat /\ k \in 1 .. n
    BY <1>2
  <2> HIDE DEF n
  <2>2. CASE x < k
    BY <2>1, <2>2, <1>1
  <2>3. CASE x >= k
    BY <2>1, <2>3, <1>1
  <2> QED BY <2>1, <2>2, <2>3
<1>6. \A j \in Index : j \in s.rq_status <=> Len(s.rq_queues[j]) > 0
  <2>1. \A j \in Index \ {i} : j \in s.rq_status <=> Len(s.rq_queues[j]) > 0
    BY <1>1 DEF Good
  <2>2. i \in s.rq_status <=> Len(s.rq_queues[i]) > 0
    <3>1. n \in Nat /\ n > 0 /\ i \in r.rq_status
      BY <1>2 DEF Good
    <3> HIDE DEF n
    <3>2. CASE n = 1
      BY <3>1, <3>2, <1>1
    <3>3. CASE n > 1
      BY <3>1, <3>3, <1>1
    <3> QED BY <3>1, <3>2, <3>3
  <2> QED BY <2>1, <2>2
<1>7. ASSUME NEW j \in Index, NEW l \in 1 .. Len(s.rq_queues[j])
      PROVE  st2[s.rq_queues[j][l]] = "RUNQ" /\ idx[s.rq_queues[j][l]] = j
  <2>1. CASE j # i
    BY <2>1, <1>1, <1>2, <1>3, <1>4 DEF Good
  <2>2. CASE j = i
    <3>1. l \in 1 .. n - 1
      BY <2>2, <1>1
    <3>2. /\ Old(l) \in 1 .. n /\ Old(l) # k
          /\ s.rq_queues[i][l] = r.rq_queues[i][Old(l)]
      BY <3>1, <1>5
    <3> HIDE DEF Old
    <3>3. r.rq_queues[i][Old(l)] # td /\ r.rq_queues[i][Old(l)] \in Thread
      BY <3>2, <1>2, <1>3
    <3>4. st[r.rq_queues[i][Old(l)]] = "RUNQ" /\ idx[r.rq_queues[i][Old(l)]] = i
      BY <3>2 DEF Good
    <3> QED BY <3>2, <3>3, <3>4, <2>2, <1>4
  <2> QED BY <2>1, <2>2
<1>8. ASSUME NEW j \in Index,
             NEW l \in 1 .. Len(s.rq_queues[j]),
             NEW m \in 1 .. Len(s.rq_queues[j]),
             s.rq_queues[j][l] = s.rq_queues[j][m]
      PROVE  l = m
  <2>1. CASE j # i
    BY <2>1, <1>1, <1>8 DEF Good
  <2>2. CASE j = i
    <3>1. l \in 1 .. n - 1 /\ m \in 1 .. n - 1
      BY <2>2, <1>1
    <3>2. /\ Old(l) \in 1 .. n /\ s.rq_queues[i][l] = r.rq_queues[i][Old(l)]
          /\ Old(m) \in 1 .. n /\ s.rq_queues[i][m] = r.rq_queues[i][Old(m)]
      BY <3>1, <1>5
    <3>3. r.rq_queues[i][Old(l)] = r.rq_queues[i][Old(m)]
      BY <3>2, <1>8, <2>2
    <3> HIDE DEF Old
    <3>4. Old(l) = Old(m)
      BY <3>2, <3>3 DEF Good
    <3> QED BY <3>1, <3>4, <1>2 DEF Old
  <2> QED BY <2>1, <2>2
<1>9. Good(s, st2, idx)
  BY <1>6, <1>7, <1>8 DEF Good
<1> QED BY <1>9 DEF s, st2

LEMMA LinkPresent ==
    ASSUME NEW r \in RunqType, NEW st \in StateType, NEW idx \in IndexType,
           NEW i \in Index, NEW td \in Thread,
           NEW k \in 1 .. Len(r.rq_queues[i]) + 1,
           Present(r, st, idx)
    PROVE  Present(Link(r, i, k, td), [st EXCEPT ![td] = "RUNQ"],
                   [idx EXCEPT ![td] = i])
<1> DEFINE s   == Link(r, i, k, td)
           n   == Len(r.rq_queues[i])
           st2 == [st EXCEPT ![td] = "RUNQ"]
           ix2 == [idx EXCEPT ![td] = i]
<1>1. /\ \A j \in Index \ {i} : s.rq_queues[j] = r.rq_queues[j]
      /\ Len(s.rq_queues[i]) = n + 1
      /\ \A j \in 1 .. n + 1 :
            s.rq_queues[i][j] = IF j < k THEN r.rq_queues[i][j]
                                ELSE IF j = k THEN td ELSE r.rq_queues[i][j - 1]
  BY LinkProperties
<1>2. n \in Nat
  BY LenProperties DEF RunqType
<1>3. /\ \A u \in Thread : u # td => st2[u] = st[u] /\ ix2[u] = idx[u]
      /\ ix2[td] = i
  BY DEF StateType, IndexType
<1> HIDE DEF s, st2, ix2
<1>4. ASSUME NEW u \in Thread, st2[u] = "RUNQ"
      PROVE  \E l \in 1 .. Len(s.rq_queues[ix2[u]]) : s.rq_queues[ix2[u]][l] = u
  <2>1. CASE u = td
    <3>1. k \in 1 .. Len(s.rq_queues[i]) /\ s.rq_queues[i][k] = td
      BY <1>1, <1>2
    <3> QED BY <2>1, <3>1, <1>3
  <2>2. CASE u # td
    <3>1. /\ ix2[u] = idx[u] /\ st[u] = "RUNQ" /\ idx[u] \in Index
      BY <2>2, <1>3, <1>4 DEF IndexType
    <3>2. PICK l \in 1 .. Len(r.rq_queues[idx[u]]) : r.rq_queues[idx[u]][l] = u
      BY <3>1 DEF Present
    <3>3. CASE idx[u] # i
      BY <3>1, <3>2, <3>3, <1>1
    <3>4. CASE idx[u] = i
      <4> DEFINE new == IF l < k THEN l ELSE l + 1
      <4>1. new \in 1 .. n + 1 /\ s.rq_queues[i][new] = u
        <5>1. l \in 1 .. n /\ r.rq_queues[i][l] = u
          BY <3>2, <3>4
        <5>2. n \in Nat /\ k \in 1 .. n + 1
          BY <1>2
        <5> HIDE DEF n
        <5>3. CASE l < k
          BY <5>1, <5>2, <5>3, <1>1
        <5>4. CASE l >= k
          <6>1. l + 1 \in 1 .. n + 1 /\ l + 1 > k /\ (l + 1) - 1 = l
            BY <5>1, <5>2, <5>4
          <6>2. s.rq_queues[i][l + 1] = r.rq_queues[i][(l + 1) - 1]
            BY <6>1, <5>2, <1>1
          <6> QED BY <6>1, <6>2, <5>1, <5>2, <5>4
        <5> QED BY <5>1, <5>2, <5>3, <5>4
      <4> QED BY <4>1, <3>1, <3>4, <1>1
    <3> QED BY <3>3, <3>4
  <2> QED BY <2>1, <2>2
<1>5. Present(s, st2, ix2)
  BY <1>4 DEF Present
<1> QED BY <1>5 DEF s, st2, ix2

\* After an unlink every other runnable thread is still found.
LEMMA UnlinkPresent ==
    ASSUME NEW r \in RunqType, NEW st \in StateType, NEW idx \in IndexType,
           NEW i \in Index, NEW td \in Thread,
           NEW k \in 1 .. Len(r.rq_queues[i]),
           Present(r, st, idx), r.rq_queues[i][k] = td
    PROVE  Present(Unlink(r, i, k), [st EXCEPT ![td] = "OFF"], idx)
<1> DEFINE s   == Unlink(r, i, k)
           n   == Len(r.rq_queues[i])
           st2 == [st EXCEPT ![td] = "OFF"]
<1>1. /\ \A j \in Index \ {i} : s.rq_queues[j] = r.rq_queues[j]
      /\ Len(s.rq_queues[i]) = n - 1
      /\ \A j \in 1 .. n - 1 :
            s.rq_queues[i][j] = IF j < k THEN r.rq_queues[i][j]
                                ELSE r.rq_queues[i][j + 1]
  BY UnlinkProperties
<1>2. n \in Nat
  BY LenProperties DEF RunqType
<1>3. /\ \A u \in Thread : u # td => st2[u] = st[u]
      /\ st2[td] = "OFF"
  BY DEF StateType
<1> HIDE DEF s, st2
<1>4. ASSUME NEW u \in Thread, st2[u] = "RUNQ"
      PROVE  \E l \in 1 .. Len(s.rq_queues[idx[u]]) : s.rq_queues[idx[u]][l] = u
  <2>1. /\ u # td /\ st[u] = "RUNQ" /\ idx[u] \in Index
    BY <1>3, <1>4 DEF IndexType
  <2>2. PICK l \in 1 .. Len(r.rq_queues[idx[u]]) : r.rq_queues[idx[u]][l] = u
    BY <2>1 DEF Present
  <2>3. CASE idx[u] # i
    BY <2>1, <2>2, <2>3, <1>1
  <2>4. CASE idx[u] = i
    <3> DEFINE new == IF l < k THEN l ELSE l - 1
    <3>1. new \in 1 .. n - 1 /\ s.rq_queues[i][new] = u
      BY <2>1, <2>2, <2>4, <1>1, <1>2, SMTT(60)
    <3> QED BY <3>1, <2>4, <1>1
  <2> QED BY <2>3, <2>4
<1>5. Present(s, st2, idx)
  BY <1>4 DEF Present
<1> QED BY <1>5 DEF s, st2

\* Good and Present are the properties of RunQueue.
LEMMA GoodIsConsistent ==
    ASSUME TypeOK
    PROVE  /\ Good(rq, td_state, td_rqindex) <=> QueuesConsistent
           /\ Present(rq, td_state, td_rqindex) => RunnableIsLinked
<1>1. \A i \in Index : rq.rq_queues[i] # << >> <=> Len(rq.rq_queues[i]) > 0
  <2> TAKE i \in Index
  <2>1. rq.rq_queues[i] \in Seq(Thread)
    BY DEF TypeOK
  <2> QED BY <2>1, EmptySeq
<1> QED BY <1>1 DEF Good, Present, StatusBits, QueuesConsistent,
                    LinkedIsRunnable, LinkedOnce, RunnableIsLinked

\* Every step keeps the types, and what is on the queues consistent.
LEMMA NextKeepsGood ==
    ASSUME TypeOK, Good(rq, td_state, td_rqindex), [Next]_vars
    PROVE  TypeOK' /\ Good(rq, td_state, td_rqindex)'
<1> USE DEF RunqType, StateType, IndexType
<1>0. /\ rq \in RunqType /\ td_state \in StateType /\ td_rqindex \in IndexType
      /\ td_priority \in [Thread -> Priority] /\ td_lastcpu \in [Thread -> Cpu \cup {NOCPU}]
      /\ kern_switch_choose \in Int /\ policy \in Policies
  BY DEF TypeOK
<1>1. ASSUME NEW td \in Thread, NEW preempted \in Preempted,
             RunqAdd(td, preempted)
      PROVE  TypeOK' /\ Good(rq, td_state, td_rqindex)'
  <2>1. PICK i \in Index : \E k \in 1 .. Len(rq.rq_queues[i]) + 1 :
              /\ rq' = Link(rq, i, k, td)
              /\ td_rqindex' = [td_rqindex EXCEPT ![td] = i]
    BY <1>1 DEF RunqAdd
  <2>2. PICK k \in 1 .. Len(rq.rq_queues[i]) + 1 :
              /\ rq' = Link(rq, i, k, td)
              /\ td_rqindex' = [td_rqindex EXCEPT ![td] = i]
    BY <2>1
  <2>3. /\ td_state[td] = "OFF"
        /\ td_state' = [td_state EXCEPT ![td] = "RUNQ"]
        /\ UNCHANGED << td_priority, td_lastcpu, kern_switch_choose, policy >>
    BY <1>1 DEF RunqAdd
  <2>4. rq' \in RunqType
    BY <1>0, <2>2, LinkProperties
  <2>5. Good(rq', td_state', td_rqindex')
    BY <1>0, <2>2, <2>3, LinkGood
  <2>6. TypeOK'
    BY <1>0, <2>2, <2>3, <2>4 DEF TypeOK
  <2> QED BY <2>5, <2>6 DEF Good
<1>2. ASSUME NEW td \in Thread, RunqAddNowhere(td)
      PROVE  TypeOK' /\ Good(rq, td_state, td_rqindex)'
  <2>1. /\ td_state[td] = "OFF"
        /\ td_state' = [td_state EXCEPT ![td] = "RUNQ"]
        /\ UNCHANGED << rq, td_priority, td_rqindex, td_lastcpu,
                        kern_switch_choose, policy >>
    BY <1>2 DEF RunqAddNowhere
  <2>2. TypeOK'
    BY <1>0, <2>1 DEF TypeOK
  <2>3. \A i \in Index : \A k \in 1 .. Len(rq.rq_queues[i]) :
            rq.rq_queues[i][k] \in Thread
    BY <1>0, ElementOfSeq
  <2>4. \A i \in Index : \A k \in 1 .. Len(rq.rq_queues[i]) :
            td_state'[rq.rq_queues[i][k]] = "RUNQ"
    BY <1>0, <2>1, <2>3 DEF Good
  <2> QED BY <2>1, <2>2, <2>4 DEF Good
<1>3. ASSUME NEW td \in Thread, NEW k \in 1 .. Len(rq.rq_queues[td_rqindex[td]]),
             rq.rq_queues[td_rqindex[td]][k] = td,
             rq' = Unlink(rq, td_rqindex[td], k),
             td_state' = [td_state EXCEPT ![td] = "OFF"],
             td_lastcpu' \in [Thread -> Cpu \cup {NOCPU}],
             UNCHANGED << td_priority, td_rqindex, kern_switch_choose, policy >>
      PROVE  TypeOK' /\ Good(rq, td_state, td_rqindex)'
  <2>1. td_rqindex[td] \in Index
    BY <1>0
  <2>2. rq' \in RunqType
    BY <1>0, <1>3, <2>1, UnlinkProperties
  <2>3. Good(rq', td_state', td_rqindex)
    BY <1>0, <1>3, <2>1, UnlinkGood
  <2>4. TypeOK'
    BY <1>0, <1>3, <2>2 DEF TypeOK
  <2> QED BY <1>3, <2>3, <2>4 DEF Good
<1>4. ASSUME NEW td \in Thread, RunqRemove(td)
      PROVE  TypeOK' /\ Good(rq, td_state, td_rqindex)'
  BY <1>0, <1>3, <1>4 DEF RunqRemove
<1>5. ASSUME NEW cpu \in Cpu, RunqTake(cpu)
      PROVE  TypeOK' /\ Good(rq, td_state, td_rqindex)'
  <2>1. PICK td \in Thread :
          /\ \E k \in 1 .. Len(rq.rq_queues[td_rqindex[td]]) :
                /\ rq.rq_queues[td_rqindex[td]][k] = td
                /\ rq' = Unlink(rq, td_rqindex[td], k)
          /\ td_state' = [td_state EXCEPT ![td] = "OFF"]
          /\ td_lastcpu' = [td_lastcpu EXCEPT ![td] = cpu]
          /\ UNCHANGED << td_priority, td_rqindex, kern_switch_choose, policy >>
    BY <1>5 DEF RunqTake
  <2>2. td_lastcpu' \in [Thread -> Cpu \cup {NOCPU}]
    BY <1>0, <2>1
  <2> QED BY <1>3, <2>1, <2>2
<1>6. ASSUME NEW td \in Thread, NEW prio \in Pri, Elevate(td, prio)
      PROVE  TypeOK' /\ Good(rq, td_state, td_rqindex)'
  <2>1. PICK k \in 1 .. Len(rq.rq_queues[td_rqindex[td]]) :
          /\ rq.rq_queues[td_rqindex[td]][k] = td
          /\ \E i \in Index :
               \E l \in 1 .. Len(Unlink(rq, td_rqindex[td], k).rq_queues[i]) + 1 :
                 /\ rq' = Link(Unlink(rq, td_rqindex[td], k), i, l, td)
                 /\ td_rqindex' = [td_rqindex EXCEPT ![td] = i]
    BY <1>6 DEF Elevate
  <2> DEFINE out == Unlink(rq, td_rqindex[td], k)
             off == [td_state EXCEPT ![td] = "OFF"]
  <2>2. PICK i \in Index : \E l \in 1 .. Len(out.rq_queues[i]) + 1 :
          /\ rq' = Link(out, i, l, td)
          /\ td_rqindex' = [td_rqindex EXCEPT ![td] = i]
    BY <2>1
  <2>3. PICK l \in 1 .. Len(out.rq_queues[i]) + 1 :
          /\ rq' = Link(out, i, l, td)
          /\ td_rqindex' = [td_rqindex EXCEPT ![td] = i]
    BY <2>2
  <2>4. /\ td_state[td] = "RUNQ"
        /\ td_priority' = [td_priority EXCEPT ![td] = prio]
        /\ UNCHANGED << td_state, td_lastcpu, kern_switch_choose, policy >>
    BY <1>6 DEF Elevate
  <2>5. td_rqindex[td] \in Index
    BY <1>0
  <2>6. out \in RunqType
    BY <1>0, <2>1, <2>5, UnlinkProperties
  <2>7. Good(out, off, td_rqindex)
    BY <1>0, <2>1, <2>5, UnlinkGood
  <2>8. /\ off \in StateType /\ off[td] = "OFF"
        /\ td_state = [off EXCEPT ![td] = "RUNQ"]
    BY <1>0, <2>4
  <2> HIDE DEF out, off
  <2>9. rq' \in RunqType
    BY <2>3, <2>6, LinkProperties
  <2>10. Good(rq', td_state, td_rqindex')
    BY <1>0, <2>3, <2>6, <2>7, <2>8, LinkGood
  <2>11. TypeOK'
    BY <1>0, <2>3, <2>4, <2>9, PriAssumption DEF TypeOK
  <2> QED BY <2>4, <2>10, <2>11 DEF Good
<1>7. ASSUME NEW td \in Thread, NEW prio \in Pri,
             Demote(td, prio) \/ Reprioritize(td, prio)
      PROVE  TypeOK' /\ Good(rq, td_state, td_rqindex)'
  <2>1. /\ td_priority' = [td_priority EXCEPT ![td] = prio]
        /\ UNCHANGED << rq, td_rqindex, td_state, td_lastcpu,
                        kern_switch_choose, policy >>
    BY <1>7 DEF Demote, Reprioritize
  <2>2. TypeOK'
    BY <1>0, <2>1, PriAssumption DEF TypeOK
  <2> QED BY <2>1, <2>2 DEF Good
<1>8. ASSUME NEW mode \in policy.modes, sysctl_kernChoice(mode)
      PROVE  TypeOK' /\ Good(rq, td_state, td_rqindex)'
  <2>1. /\ kern_switch_choose' = mode
        /\ UNCHANGED << rq, td_priority, td_rqindex, td_state, td_lastcpu, policy >>
    BY <1>8 DEF sysctl_kernChoice
  <2>2. kern_switch_choose' \in Int
    BY <1>0, <2>1, PolicyAssumption
  <2>3. TypeOK'
    BY <1>0, <2>1, <2>2 DEF TypeOK
  <2> QED BY <2>1, <2>3 DEF Good
<1>9. ASSUME UNCHANGED vars
      PROVE  TypeOK' /\ Good(rq, td_state, td_rqindex)'
  <2>1. TypeOK'
    BY <1>9 DEF vars, TypeOK
  <2> QED BY <1>9, <2>1 DEF vars, Good
<1> QED
  BY <1>1, <1>2, <1>4, <1>5, <1>6, <1>7, <1>8, <1>9 DEF Next
\* The empty run queue is consistent.
LEMMA InitGood ==
    ASSUME Init
    PROVE  /\ TypeOK
           /\ Good(rq, td_state, td_rqindex)
           /\ Present(rq, td_state, td_rqindex)
<1>1. \A i \in Index : runq_init.rq_queues[i] = << >>
  BY DEF runq_init
<1>2. runq_init \in RunqType
  BY DEF runq_init, RunqType
<1>3. rq = runq_init /\ td_state = [td \in Thread |-> "OFF"]
  BY DEF Init
<1>4. TypeOK
  <2>1. /\ td_priority \in [Thread -> Priority] /\ td_lastcpu \in [Thread -> Cpu \cup {NOCPU}]
        /\ td_rqindex = [td \in Thread |-> 0] /\ kern_switch_choose \in Int
        /\ policy \in Policies
    <3>1. /\ td_priority \in [Thread -> Pri] /\ td_lastcpu \in [Thread -> Cpu \cup {NOCPU}]
          /\ td_rqindex = [td \in Thread |-> 0]
          /\ policy \in Policies /\ kern_switch_choose \in policy.modes
      BY DEF Init
    <3>2. td_priority \in [Thread -> Priority]
      BY <3>1, PriAssumption
    <3>3. kern_switch_choose \in Int
      BY <3>1, PolicyAssumption
    <3> QED BY <3>1, <3>2, <3>3
  <2>2. td_rqindex \in [Thread -> Index]
    BY <2>1 DEF Index, RQ_NQS
  <2>3. rq \in RunqType /\ td_state \in [Thread -> {"OFF", "RUNQ"}]
    BY <1>2, <1>3
  <2> QED BY <2>1, <2>2, <2>3 DEF TypeOK, RunqType
<1>5. Good(rq, td_state, td_rqindex)
  BY <1>1, <1>3 DEF Good, runq_init
<1>6. Present(rq, td_state, td_rqindex)
  BY <1>3 DEF Present
<1> QED BY <1>4, <1>5, <1>6

\* In every behaviour of the run queue, with any sysctl values, the variables
\* keep their types, the status bits say which queues are empty (the KASSERTs
\* of runq_choose), and no thread is linked twice or out of runq_remove's reach.
THEOREM StructureHolds == Spec => [](TypeOK /\ QueuesConsistent)
<1> DEFINE Inv == TypeOK /\ Good(rq, td_state, td_rqindex)
<1>1. Init => Inv
  BY InitGood
<1>2. Inv /\ [Next]_vars => Inv'
  BY NextKeepsGood
<1>3. Inv => TypeOK /\ QueuesConsistent
  BY GoodIsConsistent
<1> QED BY <1>1, <1>2, <1>3, PTL DEF Spec

\* Every step keeps runnable threads linked while kern.sched.kernChoice names
\* one of the four algorithms.
LEMMA NextKeepsPresent ==
    ASSUME policy.modes \subseteq 1 .. 4, kern_switch_choose \in 1 .. 4,
           TypeOK, Present(rq, td_state, td_rqindex), [Next]_vars
    PROVE  /\ (kern_switch_choose \in 1 .. 4)' /\ policy' = policy
           /\ Present(rq, td_state, td_rqindex)'
<1> USE DEF RunqType, StateType, IndexType
<1> DEFINE Goal == /\ (kern_switch_choose \in 1 .. 4)' /\ policy' = policy
                   /\ Present(rq, td_state, td_rqindex)'
<1>0. /\ rq \in RunqType /\ td_state \in StateType /\ td_rqindex \in IndexType
  BY DEF TypeOK
<1>1. ASSUME NEW td \in Thread, NEW preempted \in Preempted,
             RunqAdd(td, preempted)
      PROVE  Goal
  <2>1. PICK i \in Index : \E k \in 1 .. Len(rq.rq_queues[i]) + 1 :
              /\ rq' = Link(rq, i, k, td)
              /\ td_rqindex' = [td_rqindex EXCEPT ![td] = i]
    BY <1>1 DEF RunqAdd
  <2>2. PICK k \in 1 .. Len(rq.rq_queues[i]) + 1 :
              /\ rq' = Link(rq, i, k, td)
              /\ td_rqindex' = [td_rqindex EXCEPT ![td] = i]
    BY <2>1
  <2>3. Present(Link(rq, i, k, td), [td_state EXCEPT ![td] = "RUNQ"],
                [td_rqindex EXCEPT ![td] = i])
    BY <1>0, LinkPresent
  <2> QED BY <1>1, <2>2, <2>3 DEF RunqAdd, Present
<1>2. ASSUME NEW td \in Thread, NEW k \in 1 .. Len(rq.rq_queues[td_rqindex[td]]),
             rq.rq_queues[td_rqindex[td]][k] = td,
             rq' = Unlink(rq, td_rqindex[td], k),
             td_state' = [td_state EXCEPT ![td] = "OFF"],
             UNCHANGED << td_rqindex, kern_switch_choose, policy >>
      PROVE  Goal
  <2>1. td_rqindex[td] \in Index
    BY <1>0
  <2>2. Present(rq', td_state', td_rqindex)
    BY <1>0, <1>2, <2>1, UnlinkPresent
  <2> QED BY <1>2, <2>2 DEF Present
<1>3. ASSUME NEW td \in Thread, RunqRemove(td)
      PROVE  Goal
  BY <1>2, <1>3 DEF RunqRemove
<1>4. ASSUME NEW cpu \in Cpu, RunqTake(cpu)
      PROVE  Goal
  BY <1>2, <1>4 DEF RunqTake
<1>5. ASSUME NEW td \in Thread, NEW prio \in Pri, Elevate(td, prio)
      PROVE  Goal
  <2>1. PICK k \in 1 .. Len(rq.rq_queues[td_rqindex[td]]) :
          /\ rq.rq_queues[td_rqindex[td]][k] = td
          /\ \E i \in Index :
               \E l \in 1 .. Len(Unlink(rq, td_rqindex[td], k).rq_queues[i]) + 1 :
                 /\ rq' = Link(Unlink(rq, td_rqindex[td], k), i, l, td)
                 /\ td_rqindex' = [td_rqindex EXCEPT ![td] = i]
    BY <1>5 DEF Elevate
  <2> DEFINE out == Unlink(rq, td_rqindex[td], k)
             off == [td_state EXCEPT ![td] = "OFF"]
  <2>2. PICK i \in Index : \E l \in 1 .. Len(out.rq_queues[i]) + 1 :
          /\ rq' = Link(out, i, l, td)
          /\ td_rqindex' = [td_rqindex EXCEPT ![td] = i]
    BY <2>1
  <2>3. PICK l \in 1 .. Len(out.rq_queues[i]) + 1 :
          /\ rq' = Link(out, i, l, td)
          /\ td_rqindex' = [td_rqindex EXCEPT ![td] = i]
    BY <2>2
  <2>4. td_rqindex[td] \in Index
    BY <1>0
  <2>5. out \in RunqType
    BY <1>0, <2>1, <2>4, UnlinkProperties
  <2>6. Present(out, off, td_rqindex)
    BY <1>0, <2>1, <2>4, UnlinkPresent
  <2>7. /\ off \in StateType
        /\ td_state = [off EXCEPT ![td] = "RUNQ"]
    BY <1>0, <1>5 DEF Elevate
  <2> HIDE DEF out, off
  <2>8. Present(rq', td_state, td_rqindex')
    BY <1>0, <2>3, <2>5, <2>6, <2>7, LinkPresent
  <2> QED BY <1>5, <2>8 DEF Elevate, Present
<1>6. ASSUME NEW td \in Thread, RunqAddNowhere(td)
      PROVE  Goal
  BY <1>6 DEF RunqAddNowhere
<1>7. ASSUME NEW td \in Thread, NEW prio \in Pri,
             Demote(td, prio) \/ Reprioritize(td, prio)
      PROVE  Goal
  BY <1>7 DEF Demote, Reprioritize, Present
<1>8. ASSUME NEW mode \in policy.modes, sysctl_kernChoice(mode)
      PROVE  Goal
  BY <1>8 DEF sysctl_kernChoice, Present
<1>9. ASSUME UNCHANGED vars
      PROVE  Goal
  BY <1>9 DEF vars, Present
<1> QED
  BY <1>1, <1>3, <1>4, <1>5, <1>6, <1>7, <1>8, <1>9 DEF Next

\* In particular the types: no priority maps to an index outside the 64 queues.
THEOREM RunQueueTypesHold == Spec => []TypeOK
BY StructureHolds, PTL

\* While kern.sched.kernChoice is only given the values 1 to 4, a thread made
\* runnable is linked where a cpu can choose it, through every order of adds,
\* removals, priority changes and switches of the algorithm.
THEOREM NoThreadIsLost == Spec => []RunnableIsLinked
<1> DEFINE Linked == policy.modes \subseteq 1 .. 4 =>
                        /\ kern_switch_choose \in 1 .. 4
                        /\ Present(rq, td_state, td_rqindex)
           Inv == TypeOK /\ Good(rq, td_state, td_rqindex) /\ Linked
<1>1. Init => Inv
  BY InitGood DEF Init
<1>2. Inv /\ [Next]_vars => Inv'
  <2> SUFFICES ASSUME Inv, [Next]_vars PROVE Inv'
    OBVIOUS
  <2>1. TypeOK' /\ Good(rq, td_state, td_rqindex)'
    BY NextKeepsGood
  <2>2. policy' = policy
    BY DEF Next, vars, RunqAdd, RunqAddNowhere, RunqRemove, RunqTake, Elevate,
           Demote, Reprioritize, sysctl_kernChoice
  <2>3. Linked'
    BY <2>2, NextKeepsPresent
  <2> QED BY <2>1, <2>3
<1>3. Inv => RunnableIsLinked
  BY GoodIsConsistent DEF RunnableIsLinked
<1> QED BY <1>1, <1>2, <1>3, PTL DEF Spec
-----------------------------------------------------------------------------
\* What the order of the queues rests on, for a constant algorithm mode.

\* Every runnable thread is on the queue of its priority, except that the
\* splatter algorithms spread the user threads over the user queues.
Placed(idx, st, pri, mode) ==
    \A td \in Thread : st[td] = "RUNQ" =>
        IF mode \in {1, 2} \/ checkKern(pri[td])
        THEN idx[td] = pri[td] \div RQ_PPQ
        ELSE SortedIndex(idx[td])

\* UserQueuesSorted of a run queue r.
Ordered(r, pri, mode) ==
    mode \in {2, 4} =>
        \A i \in Index : SortedIndex(i) =>
            \A j, k \in 1 .. Len(r.rq_queues[i]) :
                j < k => pri[r.rq_queues[i][j]] <= pri[r.rq_queues[i][k]]

\* NeverPlacedTooLow of one thread.
High(idx, pri, td) == RQ_PPQ * idx[td] <= pri[td]

PriorityType == [Thread -> Priority]

LEMMA NumbersAreIntegers == Priority \subseteq Int /\ Index \subseteq Int
BY DEF Priority, Index, RQ_NQS

\* The user queues are those of the user priorities.
LEMMA SortedIndices ==
    ASSUME NEW p \in Priority
    PROVE  /\ p \div RQ_PPQ \in Index
           /\ RQ_PPQ * (p \div RQ_PPQ) <= p
           /\ checkKern(p) <=> ~SortedIndex(p \div RQ_PPQ)
           /\ p < 48 <=> p \div RQ_PPQ < 12
BY DEF Priority, Index, RQ_NQS, RQ_PPQ, checkKern, SortedIndex

\* Where runq_add links a thread.
LEMMA AddPlaces ==
    ASSUME NEW r, NEW pri \in PriorityType, NEW mode \in 1 .. 4,
           NEW td \in Thread, NEW preempted, NEW i \in Index, NEW k,
           runq_add(r, pri, mode, td, preempted, i, k)
    PROVE  /\ IF mode \in {1, 2} \/ checkKern(pri[td])
              THEN i = pri[td] \div RQ_PPQ ELSE SortedIndex(i)
           /\ mode \in {2, 4} /\ SortedIndex(i)
                => SortedPosition(r.rq_queues[i], pri, td, k)
<1>0. pri[td] \in Priority
  BY DEF PriorityType
<1>1. i \in SplatterIndices(pri[td]) =>
          IF checkKern(pri[td]) THEN i = pri[td] \div RQ_PPQ ELSE SortedIndex(i)
  <2>1. \A d \in Draw : ~checkKern(d) => SortedIndex(d \div RQ_PPQ)
    BY SortedIndices, DrawAssumption
  <2> QED BY <2>1 DEF SplatterIndices
<1>2. checkKern(pri[td]) <=> ~SortedIndex(pri[td] \div RQ_PPQ)
  BY <1>0, SortedIndices
<1> QED
  BY <1>1, <1>2 DEF runq_add, AddFifo, AddSorted, AddSplatter, AddSplatterSorted

\* Linking a thread where runq_add says keeps the order.
LEMMA LinkOrdered ==
    ASSUME NEW r \in RunqType, NEW pri \in PriorityType, NEW mode \in 1 .. 4,
           NEW td \in Thread, NEW preempted, NEW i \in Index,
           NEW k \in 1 .. Len(r.rq_queues[i]) + 1,
           runq_add(r, pri, mode, td, preempted, i, k),
           Ordered(r, pri, mode)
    PROVE  Ordered(Link(r, i, k, td), pri, mode)
<1> DEFINE s == Link(r, i, k, td)
           q == r.rq_queues[i]
           n == Len(q)
<1>1. /\ \A j \in Index \ {i} : s.rq_queues[j] = r.rq_queues[j]
      /\ Len(s.rq_queues[i]) = n + 1
      /\ \A j \in 1 .. n + 1 :
            s.rq_queues[i][j] = IF j < k THEN q[j]
                                ELSE IF j = k THEN td ELSE q[j - 1]
  BY LinkProperties
<1>2. q \in Seq(Thread) /\ n \in Nat /\ \A j \in 1 .. n : q[j] \in Thread
  BY LenProperties, ElementOfSeq DEF RunqType
<1>3. \A u \in Thread : pri[u] \in Int
  <2> TAKE u \in Thread
  <2>1. pri[u] \in Priority
    BY DEF PriorityType
  <2> QED BY <2>1, NumbersAreIntegers
<1>4. mode \in {2, 4} /\ SortedIndex(i) => SortedPosition(q, pri, td, k)
  BY AddPlaces
<1> HIDE DEF s
<1> SUFFICES ASSUME mode \in {2, 4}, NEW h \in Index, SortedIndex(h),
                    NEW a \in 1 .. Len(s.rq_queues[h]),
                    NEW b \in 1 .. Len(s.rq_queues[h]), a < b
             PROVE  pri[s.rq_queues[h][a]] <= pri[s.rq_queues[h][b]]
  BY DEF Ordered, s
<1>5. CASE h # i
  BY <1>5, <1>1 DEF Ordered
<1>6. CASE h = i
  <2>1. /\ \A j \in 1 .. k - 1 : pri[q[j]] <= pri[td]
        /\ k <= n => pri[q[k]] > pri[td]
    BY <1>4, <1>6 DEF SortedPosition
  <2>2. \A c, e \in 1 .. n : c <= e => pri[q[c]] <= pri[q[e]]
    <3> TAKE c, e \in 1 .. n
    <3>1. CASE c < e
      BY <3>1, <1>6 DEF Ordered
    <3>2. CASE c = e
      BY <3>2, <1>2, <1>3
    <3> QED BY <3>1, <3>2, <1>2
  <2>3. a \in 1 .. n + 1 /\ b \in 1 .. n + 1 /\ k \in 1 .. n + 1
    BY <1>1, <1>6
  <2>4. /\ s.rq_queues[h][a] = IF a < k THEN q[a] ELSE IF a = k THEN td ELSE q[a - 1]
        /\ s.rq_queues[h][b] = IF b < k THEN q[b] ELSE IF b = k THEN td ELSE q[b - 1]
    BY <1>1, <1>6, <2>3
  <2> HIDE DEF n, q
  <2>5. CASE b < k
    <3>1. a \in 1 .. n /\ b \in 1 .. n
      BY <2>3, <2>5, <1>2
    <3> QED BY <2>2, <2>3, <2>4, <2>5, <3>1
  <2>6. CASE b = k
    <3>1. a \in 1 .. k - 1
      BY <2>3, <2>6
    <3> QED BY <2>1, <2>3, <2>4, <2>6, <3>1
  <2>7. CASE b > k
    <3>1. b - 1 \in 1 .. n /\ b - 1 >= k /\ s.rq_queues[h][b] = q[b - 1]
      BY <2>3, <2>4, <2>7, <1>2
    <3>2. CASE a < k
      <4>1. a \in 1 .. n /\ s.rq_queues[h][a] = q[a] /\ a <= b - 1
        BY <2>3, <2>4, <3>1, <3>2, <1>2
      <4> QED BY <2>2, <3>1, <4>1
    <3>3. CASE a = k
      <4>1. k \in 1 .. n /\ pri[q[k]] <= pri[q[b - 1]] /\ s.rq_queues[h][a] = td
        BY <2>2, <2>3, <2>4, <3>1, <3>3, <1>2
      <4>2. pri[td] < pri[q[k]] /\ q[k] \in Thread /\ q[b - 1] \in Thread
        BY <2>1, <4>1, <3>1, <1>2
      <4>3. pri[td] \in Int /\ pri[q[k]] \in Int /\ pri[q[b - 1]] \in Int
        BY <4>2, <1>3
      <4> QED BY <4>1, <4>2, <4>3, <3>1
    <3>4. CASE a > k
      <4>1. a - 1 \in 1 .. n /\ s.rq_queues[h][a] = q[a - 1] /\ a - 1 <= b - 1
        BY <2>3, <2>4, <3>4, <1>2
      <4> QED BY <2>2, <3>1, <4>1
    <3> QED BY <3>2, <3>3, <3>4, <2>3
  <2> QED BY <2>5, <2>6, <2>7, <2>3
<1> QED BY <1>5, <1>6

\* Removing a thread keeps the order of the others.
LEMMA UnlinkOrdered ==
    ASSUME NEW r \in RunqType, NEW pri, NEW mode, NEW i \in Index,
           NEW k \in 1 .. Len(r.rq_queues[i]), Ordered(r, pri, mode)
    PROVE  Ordered(Unlink(r, i, k), pri, mode)
<1> DEFINE s == Unlink(r, i, k)
           q == r.rq_queues[i]
           n == Len(q)
<1>1. /\ \A j \in Index \ {i} : s.rq_queues[j] = r.rq_queues[j]
      /\ Len(s.rq_queues[i]) = n - 1
      /\ \A j \in 1 .. n - 1 : s.rq_queues[i][j] = IF j < k THEN q[j] ELSE q[j + 1]
  BY UnlinkProperties
<1>2. n \in Nat
  BY LenProperties DEF RunqType
<1> HIDE DEF s
<1> SUFFICES ASSUME mode \in {2, 4}, NEW h \in Index, SortedIndex(h),
                    NEW a \in 1 .. Len(s.rq_queues[h]),
                    NEW b \in 1 .. Len(s.rq_queues[h]), a < b
             PROVE  pri[s.rq_queues[h][a]] <= pri[s.rq_queues[h][b]]
  BY DEF Ordered, s
<1>3. CASE h # i
  BY <1>3, <1>1 DEF Ordered
<1>4. CASE h = i
  <2> DEFINE Old(x) == IF x < k THEN x ELSE x + 1
  <2>1. a \in 1 .. n - 1 /\ b \in 1 .. n - 1
    BY <1>1, <1>4
  <2>2. /\ Old(a) \in 1 .. n /\ Old(b) \in 1 .. n /\ Old(a) < Old(b)
        /\ s.rq_queues[h][a] = q[Old(a)] /\ s.rq_queues[h][b] = q[Old(b)]
    BY <1>1, <1>2, <1>4, <2>1, SMTT(60)
  <2> HIDE DEF Old
  <2> QED BY <2>2, <1>4 DEF Ordered
<1> QED BY <1>3, <1>4
\* A thread that is not on the queues may change its priority.
LEMMA RepriorityOrdered ==
    ASSUME NEW r \in RunqType, NEW pri \in PriorityType, NEW mode,
           NEW td \in Thread, NEW p,
           \A i \in Index : \A k \in 1 .. Len(r.rq_queues[i]) :
                r.rq_queues[i][k] # td,
           Ordered(r, pri, mode)
    PROVE  Ordered(r, [pri EXCEPT ![td] = p], mode)
<1>1. \A i \in Index : \A k \in 1 .. Len(r.rq_queues[i]) :
          [pri EXCEPT ![td] = p][r.rq_queues[i][k]] = pri[r.rq_queues[i][k]]
  <2>1. \A i \in Index : \A k \in 1 .. Len(r.rq_queues[i]) :
            r.rq_queues[i][k] \in Thread
    BY ElementOfSeq DEF RunqType
  <2> QED BY <2>1 DEF PriorityType
<1> QED BY <1>1 DEF Ordered

-----------------------------------------------------------------------------
\* The inductive invariant of the order.
OrderInv ==
    /\ kern_switch_choose \in policy.modes
    /\ Steady /\ kern_switch_choose \in 1 .. 4 =>
          /\ Present(rq, td_state, td_rqindex)
          /\ Placed(td_rqindex, td_state, td_priority, kern_switch_choose)
          /\ Ordered(rq, td_priority, kern_switch_choose)
    /\ policy.modes \subseteq {1, 2} => \A td \in Thread :
          td_state[td] = "RUNQ" => High(td_rqindex, td_priority, td)

\* It implies what is promised of the order.
LEMMA OrderInvIsOrderKept ==
    ASSUME TypeOK, Good(rq, td_state, td_rqindex), OrderInv
    PROVE  OrderKept
<1> USE DEF RunqType
<1>0. /\ rq \in RunqType /\ td_priority \in PriorityType
      /\ td_rqindex \in IndexType
  BY DEF TypeOK, PriorityType, IndexType
<1>1. UserQueuesSorted
  BY DEF UserQueuesSorted, OrderInv, Ordered
<1>2. NeverPlacedTooLow
  BY DEF NeverPlacedTooLow, OrderInv, High
<1>3. BestFirst
  <2> DEFINE best == runq_choose(rq)
             mode == kern_switch_choose
  <2>1. SUFFICES ASSUME Steady, mode \in 1 .. 4, NEW td \in Thread,
                        td_state[td] = "RUNQ"
                 PROVE  LET Group(u) == td_priority[u] \div RQ_PPQ
                        IN  /\ mode \in {1, 2} => Group(best) <= Group(td)
                            /\ mode = 2 /\ ~checkKern(td_priority[best])
                                 => td_priority[best] <= td_priority[td]
                            /\ (mode \in {3, 4} /\ checkKern(td_priority[td])
                                  /\ (checkKern(td_priority[best])
                                        \/ td_priority[td] < 48))
                                 => Group(best) <= Group(td)
    BY DEF BestFirst
  <2> DEFINE h == td_rqindex[td]
  <2>2. /\ Present(rq, td_state, td_rqindex)
        /\ Placed(td_rqindex, td_state, td_priority, mode)
        /\ Ordered(rq, td_priority, mode)
    BY <2>1 DEF OrderInv
  <2>3. PICK l \in 1 .. Len(rq.rq_queues[h]) : rq.rq_queues[h][l] = td
    BY <2>1, <2>2 DEF Present
  <2>4. h \in Index /\ \A j \in Index : /\ Len(rq.rq_queues[j]) \in Nat
                                       /\ rq.rq_queues[j] \in Seq(Thread)
    BY <1>0, LenProperties DEF IndexType
  <2>5. h \in rq.rq_status
    BY <2>3, <2>4 DEF Good
  <2> DEFINE i == Min(rq.rq_status)
  <2>6. i \in rq.rq_status /\ i <= h
    <3>1. rq.rq_status \in SUBSET Nat /\ rq.rq_status # {}
      <4>1. Index \subseteq Nat
        BY DEF Index, RQ_NQS
      <4> QED BY <4>1, <1>0, <2>5
    <3>2. i \in rq.rq_status /\ \A j \in rq.rq_status : i <= j
      <4> DEFINE S == rq.rq_status
      <4> HIDE DEF S
      <4>1. Min(S) \in S /\ \A j \in S : Min(S) <= j
        BY <3>1, MinProperties DEF S
      <4> QED BY <4>1 DEF S
    <3> QED BY <3>2, <2>5
  <2> HIDE DEF i
  <2>7. i \in Index /\ 1 \in 1 .. Len(rq.rq_queues[i])
    <3>1. i \in Index
      BY <1>0, <2>6
    <3> QED BY <3>1, <2>4, <2>6 DEF Good
  <2>8. best = rq.rq_queues[i][1]
    <3>1. runq_findbit(rq) = i
      BY <2>5 DEF runq_findbit, i
    <3>2. i # -1
      BY <2>7 DEF Index, RQ_NQS
    <3>3. best = Head(rq.rq_queues[i])
      BY <3>1, <3>2 DEF runq_choose
    <3> QED BY <3>3, <2>4, <2>7, HeadTailProperties
  <2> HIDE DEF best, h
  <2>9. best \in Thread /\ td_state[best] = "RUNQ" /\ td_rqindex[best] = i
    <3>1. best \in Thread
      BY <2>4, <2>7, <2>8, ElementOfSeq
    <3> QED BY <3>1, <2>7, <2>8 DEF Good
  <2> DEFINE pb == td_priority[best]
             pt == td_priority[td]
  <2>10. pb \in Priority /\ pt \in Priority
    BY <1>0, <2>9 DEF PriorityType
  <2>11. /\ IF mode \in {1, 2} \/ checkKern(pb)
            THEN i = pb \div RQ_PPQ ELSE SortedIndex(i)
         /\ IF mode \in {1, 2} \/ checkKern(pt)
            THEN h = pt \div RQ_PPQ ELSE SortedIndex(h)
    BY <2>1, <2>2, <2>9 DEF Placed, h
  <2>12. mode = 2 /\ SortedIndex(i) /\ h = i => pb <= pt
    <3> SUFFICES ASSUME mode = 2, SortedIndex(i), h = i PROVE pb <= pt
      OBVIOUS
    <3>1. CASE l = 1
      <4>1. best = td
        BY <3>1, <2>3, <2>8
      <4>2. pb \in Int
        BY <2>10, NumbersAreIntegers
      <4> QED BY <4>1, <4>2
    <3>2. CASE l # 1
      <4>1. 1 < l /\ l \in 1 .. Len(rq.rq_queues[i])
        BY <3>2, <2>3, <2>4
      <4> QED BY <4>1, <2>2, <2>3, <2>7, <2>8 DEF Ordered
    <3> QED BY <3>1, <3>2
  <2> HIDE DEF mode, pb, pt
  <2>13. mode \in {1, 2} => pb \div RQ_PPQ <= pt \div RQ_PPQ
    BY <2>6, <2>11
  <2>14. mode = 2 /\ ~checkKern(pb) => pb <= pt
    <3> SUFFICES ASSUME mode = 2, ~checkKern(pb) PROVE pb <= pt
      OBVIOUS
    <3>1. CASE i = h
      BY <3>1, <2>10, <2>11, <2>12, SortedIndices
    <3>2. CASE i # h
      <4>1. pb \div RQ_PPQ < pt \div RQ_PPQ
        BY <3>2, <2>6, <2>7, <2>4, <2>11 DEF Index, RQ_NQS
      <4> QED BY <4>1, <2>10 DEF Priority, RQ_PPQ
    <3> QED BY <3>1, <3>2
  <2>15. (mode \in {3, 4} /\ checkKern(pt) /\ (checkKern(pb) \/ pt < 48))
            => pb \div RQ_PPQ <= pt \div RQ_PPQ
    <3> SUFFICES ASSUME mode \in {3, 4}, checkKern(pt), checkKern(pb) \/ pt < 48
                 PROVE  pb \div RQ_PPQ <= pt \div RQ_PPQ
      OBVIOUS
    <3>1. CASE checkKern(pb)
      BY <3>1, <2>6, <2>11
    <3>2. CASE ~checkKern(pb) /\ pt < 48
      <4>1. h < 12 /\ SortedIndex(i)
        BY <3>2, <2>10, <2>11, SortedIndices
      <4>2. i >= 12
        BY <4>1 DEF SortedIndex
      <4>3. i \in Int /\ h \in Int
        BY <2>4, <2>7 DEF Index, RQ_NQS
      <4> QED BY <4>1, <4>2, <4>3, <2>6
    <3> QED BY <3>1, <3>2
  <2> QED BY <2>13, <2>14, <2>15 DEF mode, pb, pt
<1> QED BY <1>1, <1>2, <1>3 DEF OrderKept
\* A change of a thread that is not runnable does not matter.
LEMMA PlacedOthers ==
    ASSUME NEW idx \in IndexType, NEW st \in StateType, NEW pri \in PriorityType,
           NEW mode, NEW td \in Thread, NEW i, NEW p,
           Placed(idx, st, pri, mode),
           IF mode \in {1, 2} \/ checkKern(p) THEN i = p \div RQ_PPQ ELSE SortedIndex(i)
    PROVE  Placed([idx EXCEPT ![td] = i], [st EXCEPT ![td] = "RUNQ"],
                  [pri EXCEPT ![td] = p], mode)
<1> SUFFICES ASSUME NEW u \in Thread, [st EXCEPT ![td] = "RUNQ"][u] = "RUNQ"
             PROVE  IF mode \in {1, 2} \/ checkKern([pri EXCEPT ![td] = p][u])
                    THEN [idx EXCEPT ![td] = i][u]
                            = [pri EXCEPT ![td] = p][u] \div RQ_PPQ
                    ELSE SortedIndex([idx EXCEPT ![td] = i][u])
  BY DEF Placed
<1>1. CASE u = td
  <2>1. [pri EXCEPT ![td] = p][u] = p /\ [idx EXCEPT ![td] = i][u] = i
    BY <1>1 DEF PriorityType, IndexType
  <2> QED BY <2>1
<1>2. CASE u # td
  <2>1. /\ [pri EXCEPT ![td] = p][u] = pri[u] /\ [idx EXCEPT ![td] = i][u] = idx[u]
        /\ st[u] = "RUNQ"
    BY <1>2 DEF PriorityType, IndexType, StateType
  <2> QED BY <2>1 DEF Placed
<1> QED BY <1>1, <1>2

\* Every step keeps the order.
LEMMA NextKeepsOrder ==
    ASSUME TypeOK, Good(rq, td_state, td_rqindex), OrderInv, [Next]_vars
    PROVE  OrderInv'
<1> USE DEF RunqType, StateType, IndexType, PriorityType
<1>0. /\ rq \in RunqType /\ td_state \in StateType /\ td_rqindex \in IndexType
      /\ td_priority \in PriorityType
  BY DEF TypeOK
<1>1. policy' = policy
  BY DEF Next, vars, RunqAdd, RunqAddNowhere, RunqRemove, RunqTake, Elevate,
         Demote, Reprioritize, sysctl_kernChoice
<1> DEFINE mode == kern_switch_choose
<1>2. kern_switch_choose' \in policy.modes
      /\ (Steady => kern_switch_choose' = kern_switch_choose)
  <2>1. CASE \E m \in policy.modes : sysctl_kernChoice(m)
    BY <2>1 DEF sysctl_kernChoice, OrderInv, Steady
  <2>2. CASE ~ \E m \in policy.modes : sysctl_kernChoice(m)
    <3>1. kern_switch_choose' = kern_switch_choose
      BY <2>2 DEF Next, vars, RunqAdd, RunqAddNowhere, RunqRemove, RunqTake,
                  Elevate, Demote, Reprioritize
    <3> QED BY <3>1 DEF OrderInv
  <2> QED BY <2>1, <2>2
<1>3. Steady' = Steady
  BY <1>1 DEF Steady
<1>4. ASSUME Steady, mode \in 1 .. 4
      PROVE  Present(rq, td_state, td_rqindex)'
  <2>1. policy.modes \subseteq 1 .. 4
    BY <1>4 DEF OrderInv, Steady
  <2> QED BY <2>1, <1>4, NextKeepsPresent DEF OrderInv
<1> DEFINE Ord(r, idx, st, pri) ==
               /\ Steady /\ mode \in 1 .. 4 =>
                     Placed(idx, st, pri, mode) /\ Ordered(r, pri, mode)
               /\ policy.modes \subseteq {1, 2} => \A u \in Thread :
                     st[u] = "RUNQ" => High(idx, pri, u)
           Goal == Ord(rq', td_rqindex', td_state', td_priority')
<1>5. Ord(rq, td_rqindex, td_state, td_priority)
  BY DEF OrderInv
<1>6. ASSUME NEW r \in RunqType, NEW idx \in IndexType, NEW st \in StateType,
             NEW pri \in PriorityType, NEW td \in Thread, NEW p \in Priority,
             Steady /\ mode \in 1 .. 4 =>
                Placed(idx, st, pri, mode) /\ Ordered(r, [pri EXCEPT ![td] = p], mode),
             policy.modes \subseteq {1, 2} => \A u \in Thread :
                st[u] = "RUNQ" => High(idx, pri, u),
             NEW preempted, NEW i \in Index, NEW k \in 1 .. Len(r.rq_queues[i]) + 1,
             runq_add(r, [pri EXCEPT ![td] = p], mode, td, preempted, i, k)
      PROVE  Ord(Link(r, i, k, td), [idx EXCEPT ![td] = i],
                 [st EXCEPT ![td] = "RUNQ"], [pri EXCEPT ![td] = p])
  <2> DEFINE pri2 == [pri EXCEPT ![td] = p]
             idx2 == [idx EXCEPT ![td] = i]
             st2  == [st EXCEPT ![td] = "RUNQ"]
  <2>1. pri2 \in PriorityType /\ pri2[td] = p /\ idx2[td] = i
    OBVIOUS
  <2>2. \A u \in Thread : u # td =>
          pri2[u] = pri[u] /\ idx2[u] = idx[u] /\ st2[u] = st[u]
    OBVIOUS
  <2>3. ASSUME mode \in 1 .. 4
        PROVE  IF mode \in {1, 2} \/ checkKern(p)
               THEN i = p \div RQ_PPQ ELSE SortedIndex(i)
    <3> HIDE DEF pri2, mode
    <3>1. runq_add(r, pri2, mode, td, preempted, i, k)
      BY <1>6 DEF pri2
    <3> QED BY <3>1, <2>1, <2>3, AddPlaces
  <2>4. ASSUME Steady, mode \in 1 .. 4
        PROVE  Placed(idx2, st2, pri2, mode) /\ Ordered(Link(r, i, k, td), pri2, mode)
    <3>1. Placed(idx2, st2, pri2, mode)
      BY <1>6, <2>3, <2>4, PlacedOthers
    <3> HIDE DEF pri2, mode
    <3>2. runq_add(r, pri2, mode, td, preempted, i, k) /\ Ordered(r, pri2, mode)
      BY <1>6, <2>4 DEF pri2
    <3>3. Ordered(Link(r, i, k, td), pri2, mode)
      BY <3>2, <2>1, <2>4, LinkOrdered
    <3> QED BY <3>1, <3>3 DEF pri2, mode
  <2>5. ASSUME policy.modes \subseteq {1, 2}, NEW u \in Thread, st2[u] = "RUNQ"
        PROVE  High(idx2, pri2, u)
    <3>1. CASE u = td
      <4>1. mode \in {1, 2}
        BY <2>5 DEF OrderInv
      <4>2. i = p \div RQ_PPQ
        BY <4>1, <2>3
      <4> QED BY <3>1, <4>2, <2>1, SortedIndices DEF High
    <3>2. CASE u # td
      BY <3>2, <1>6, <2>2, <2>5 DEF High
    <3> QED BY <3>1, <3>2
  <2> QED BY <2>4, <2>5
<1>7. ASSUME NEW td \in Thread, NEW k \in 1 .. Len(rq.rq_queues[td_rqindex[td]])
      PROVE  Ord(Unlink(rq, td_rqindex[td], k), td_rqindex,
                 [td_state EXCEPT ![td] = "OFF"], td_priority)
  <2>1. td_rqindex[td] \in Index
    BY <1>0
  <2>2. Ordered(rq, td_priority, mode) =>
          Ordered(Unlink(rq, td_rqindex[td], k), td_priority, mode)
    BY <1>0, <2>1, UnlinkOrdered
  <2>3. \A u \in Thread : [td_state EXCEPT ![td] = "OFF"][u] = "RUNQ" =>
          td_state[u] = "RUNQ"
    BY <1>0
  <2>4. Placed(td_rqindex, td_state, td_priority, mode) =>
          Placed(td_rqindex, [td_state EXCEPT ![td] = "OFF"], td_priority, mode)
    BY <2>3 DEF Placed
  <2> QED BY <1>5, <2>2, <2>3, <2>4
<1> HIDE DEF Ord, mode
<1>8. ASSUME NEW td \in Thread, NEW preempted \in Preempted,
             RunqAdd(td, preempted)
      PROVE  Goal
  <2>1. PICK i \in Index : \E k \in 1 .. Len(rq.rq_queues[i]) + 1 :
              /\ runq_add(rq, td_priority, mode, td, preempted, i, k)
              /\ rq' = Link(rq, i, k, td)
              /\ td_rqindex' = [td_rqindex EXCEPT ![td] = i]
    BY <1>8 DEF RunqAdd, mode
  <2>2. PICK k \in 1 .. Len(rq.rq_queues[i]) + 1 :
              /\ runq_add(rq, td_priority, mode, td, preempted, i, k)
              /\ rq' = Link(rq, i, k, td)
              /\ td_rqindex' = [td_rqindex EXCEPT ![td] = i]
    BY <2>1
  <2>3. td_priority[td] \in Priority
        /\ [td_priority EXCEPT ![td] = td_priority[td]] = td_priority
    BY <1>0
  <2> DEFINE p == td_priority[td]
  <2> HIDE DEF p
  <2>5. p \in Priority /\ [td_priority EXCEPT ![td] = p] = td_priority
    BY <2>3 DEF p
  <2>6. runq_add(rq, [td_priority EXCEPT ![td] = p], mode, td, preempted, i, k)
    BY <2>2, <2>5
  <2>7. /\ Steady /\ mode \in 1 .. 4 =>
             /\ Placed(td_rqindex, td_state, td_priority, mode)
             /\ Ordered(rq, [td_priority EXCEPT ![td] = p], mode)
        /\ policy.modes \subseteq {1, 2} => \A u \in Thread :
             td_state[u] = "RUNQ" => High(td_rqindex, td_priority, u)
    BY <1>5, <2>5 DEF Ord
  <2>4. Ord(Link(rq, i, k, td), [td_rqindex EXCEPT ![td] = i],
            [td_state EXCEPT ![td] = "RUNQ"], [td_priority EXCEPT ![td] = p])
    BY <1>0, <1>6, <2>5, <2>6, <2>7
  <2> QED BY <1>8, <2>2, <2>3, <2>4 DEF RunqAdd, p
<1>9. ASSUME NEW td \in Thread, RunqAddNowhere(td)
      PROVE  Goal
  <2>1. mode \notin 1 .. 4 /\ mode \in policy.modes
    BY <1>9 DEF RunqAddNowhere, OrderInv, mode
  <2> QED BY <2>1 DEF Ord
<1>10. ASSUME NEW td \in Thread, RunqRemove(td)
      PROVE  Goal
  <2>1. PICK k \in 1 .. Len(rq.rq_queues[td_rqindex[td]]) :
          rq' = Unlink(rq, td_rqindex[td], k)
    BY <1>10 DEF RunqRemove
  <2>2. /\ td_state' = [td_state EXCEPT ![td] = "OFF"]
        /\ td_priority' = td_priority /\ td_rqindex' = td_rqindex
    BY <1>10 DEF RunqRemove
  <2> QED BY <1>7, <2>1, <2>2
<1>11. ASSUME NEW cpu \in Cpu, RunqTake(cpu)
      PROVE  Goal
  <2>1. PICK td \in Thread :
          /\ \E k \in 1 .. Len(rq.rq_queues[td_rqindex[td]]) :
                rq' = Unlink(rq, td_rqindex[td], k)
          /\ td_state' = [td_state EXCEPT ![td] = "OFF"]
          /\ td_priority' = td_priority /\ td_rqindex' = td_rqindex
    BY <1>11 DEF RunqTake
  <2>2. PICK k \in 1 .. Len(rq.rq_queues[td_rqindex[td]]) :
          rq' = Unlink(rq, td_rqindex[td], k)
    BY <2>1
  <2> QED BY <1>7, <2>1, <2>2
<1>12. ASSUME NEW td \in Thread, NEW prio \in Pri, Elevate(td, prio)
      PROVE  Goal
  <2> DEFINE idx0 == td_rqindex[td]
  <2>1. PICK k \in 1 .. Len(rq.rq_queues[idx0]) :
          /\ rq.rq_queues[idx0][k] = td
          /\ \E i \in Index : \E l \in 1 .. Len(Unlink(rq, idx0, k).rq_queues[i]) + 1 :
               /\ runq_add(Unlink(rq, idx0, k), td_priority', mode, td, FALSE, i, l)
               /\ rq' = Link(Unlink(rq, idx0, k), i, l, td)
               /\ td_rqindex' = [td_rqindex EXCEPT ![td] = i]
    BY <1>12 DEF Elevate, mode
  <2> DEFINE out == Unlink(rq, idx0, k)
             off == [td_state EXCEPT ![td] = "OFF"]
  <2>2. PICK i \in Index : \E l \in 1 .. Len(out.rq_queues[i]) + 1 :
          /\ runq_add(out, td_priority', mode, td, FALSE, i, l)
          /\ rq' = Link(out, i, l, td)
          /\ td_rqindex' = [td_rqindex EXCEPT ![td] = i]
    BY <2>1
  <2>3. PICK l \in 1 .. Len(out.rq_queues[i]) + 1 :
          /\ runq_add(out, td_priority', mode, td, FALSE, i, l)
          /\ rq' = Link(out, i, l, td)
          /\ td_rqindex' = [td_rqindex EXCEPT ![td] = i]
    BY <2>2
  <2>4. idx0 \in Index /\ prio \in Priority
    BY <1>0, PriAssumption
  <2>5. out \in RunqType
    BY <1>0, <2>4, UnlinkProperties
  <2>6. Ord(out, td_rqindex, off, td_priority)
    BY <1>7
  <2>7. \A j \in Index : \A m \in 1 .. Len(out.rq_queues[j]) :
           out.rq_queues[j][m] # td
    <3>1. Good(out, off, td_rqindex)
      BY <1>0, <2>1, <2>4, UnlinkGood
    <3>2. off[td] = "OFF"
      BY <1>0
    <3> QED BY <3>1, <3>2 DEF Good
  <2>8. /\ off \in StateType
        /\ [off EXCEPT ![td] = "RUNQ"] = td_state
        /\ td_state' = td_state
        /\ td_priority' = [td_priority EXCEPT ![td] = prio]
    BY <1>0, <1>12 DEF Elevate
  <2> HIDE DEF out, off, idx0
  <2>9. Ordered(out, td_priority, mode)
          => Ordered(out, [td_priority EXCEPT ![td] = prio], mode)
    BY <1>0, <2>5, <2>7, RepriorityOrdered
  <2>10. Ord(Link(out, i, l, td), [td_rqindex EXCEPT ![td] = i],
             [off EXCEPT ![td] = "RUNQ"], [td_priority EXCEPT ![td] = prio])
    BY <1>0, <1>6, <2>3, <2>4, <2>5, <2>6, <2>8, <2>9 DEF Ord
  <2> QED BY <2>3, <2>8, <2>10
<1>13. ASSUME NEW td \in Thread, NEW prio \in Pri, Demote(td, prio)
      PROVE  Goal
  <2>1. /\ ~Steady /\ td_priority' = [td_priority EXCEPT ![td] = prio]
        /\ prio > td_priority[td]
        /\ UNCHANGED << rq, td_rqindex, td_state >>
    BY <1>13 DEF Demote, Steady
  <2>2. ASSUME NEW u \in Thread, High(td_rqindex, td_priority, u)
        PROVE  High(td_rqindex, td_priority', u)
    <3>1. /\ td_rqindex[td] \in Int /\ td_priority[td] \in Int /\ prio \in Int
      BY <1>0, PriAssumption, NumbersAreIntegers
    <3>2. CASE u = td
      BY <3>1, <3>2, <2>1, <2>2, <1>0 DEF High, RQ_PPQ
    <3>3. CASE u # td
      BY <3>3, <2>1, <2>2, <1>0 DEF High
    <3> QED BY <3>2, <3>3
  <2> QED BY <2>1, <2>2, <1>5 DEF Ord
<1>14. ASSUME NEW td \in Thread, NEW prio \in Pri, Reprioritize(td, prio)
      PROVE  Goal
  <2>1. /\ td_state[td] = "OFF" /\ td_priority' = [td_priority EXCEPT ![td] = prio]
        /\ UNCHANGED << rq, td_rqindex, td_state >>
    BY <1>14 DEF Reprioritize
  <2>2. \A j \in Index : \A m \in 1 .. Len(rq.rq_queues[j]) : rq.rq_queues[j][m] # td
    BY <2>1 DEF Good
  <2>3. Ordered(rq, td_priority, mode) => Ordered(rq, td_priority', mode)
    BY <1>0, <2>1, <2>2, RepriorityOrdered
  <2>4. \A u \in Thread : td_state[u] = "RUNQ" => td_priority'[u] = td_priority[u]
    BY <1>0, <2>1
  <2>5. Placed(td_rqindex, td_state, td_priority, mode)
          => Placed(td_rqindex, td_state, td_priority', mode)
    BY <2>4 DEF Placed
  <2> QED BY <1>5, <2>1, <2>3, <2>4, <2>5 DEF Ord, High
<1>15. ASSUME NEW m \in policy.modes, sysctl_kernChoice(m)
      PROVE  Goal
  BY <1>5, <1>15 DEF sysctl_kernChoice
<1>16. ASSUME UNCHANGED vars
      PROVE  Goal
  BY <1>5, <1>16 DEF vars
<1>17. Goal
  BY <1>8, <1>9, <1>10, <1>11, <1>12, <1>13, <1>14, <1>15, <1>16 DEF Next
<1> QED
  BY <1>1, <1>2, <1>3, <1>4, <1>17 DEF OrderInv, Ord, mode

\* While the sysctl is left alone and no queued thread is demoted, the sorted
\* algorithms keep the user queues in priority order and each algorithm offers
\* the thread it promises; with algorithms 1 and 2 no thread ever waits on a
\* queue worse than its priority.
THEOREM OrderHolds == Spec => []OrderKept
<1> DEFINE Inv == TypeOK /\ Good(rq, td_state, td_rqindex) /\ OrderInv
<1>1. Init => Inv
  <2> SUFFICES ASSUME Init PROVE Inv
    OBVIOUS
  <2>1. /\ TypeOK /\ Good(rq, td_state, td_rqindex)
        /\ Present(rq, td_state, td_rqindex)
    BY InitGood
  <2>2. \A td \in Thread : td_state[td] = "OFF"
    BY DEF Init
  <2>3. \A i \in Index : Len(rq.rq_queues[i]) = 0
    BY DEF Init, runq_init
  <2>4. Ordered(rq, td_priority, kern_switch_choose)
    BY <2>3 DEF Ordered
  <2> QED BY <2>1, <2>2, <2>4 DEF OrderInv, Placed, Init
<1>2. Inv /\ [Next]_vars => Inv'
  BY NextKeepsGood, NextKeepsOrder
<1>3. Inv => OrderKept
  BY OrderInvIsOrderKept
<1> QED BY <1>1, <1>2, <1>3, PTL DEF Spec

-----------------------------------------------------------------------------
(***************************************************************************)
(* runq_add made of its four tests (RunqAddSteps), beside a value for the  *)
(* sysctl and a variable for the call in progress, over the same run queue *)
(* that RunQueue calls atomically.                                         *)
(***************************************************************************)
CONSTANT Mode
VARIABLE add
Steps == INSTANCE RunqAddSteps

\* The tests made before the one that is next.
Passed(m) == CASE m = 2 -> {} [] m = 3 -> {2} [] m = 4 -> {2, 3} [] m = 1 -> {2, 3, 4}

\* Unless the sysctl was written since the call began, a call in progress has
\* linked its thread if the test of the algorithm in force has been made, and only
\* then, and once.
Call(a) ==
    /\ a = [td |-> a.td, preempted |-> a.preempted, test |-> a.test, linked |-> a.linked,
            wrote |-> a.wrote]
    /\ a.td \in Thread /\ a.preempted \in Preempted /\ a.linked \in 0 .. 2
    /\ a.test \in 1 .. 4 /\ a.wrote \in BOOLEAN /\ td_state[a.td] = "RUNQ"
    /\ ~a.wrote => a.linked = (IF kern_switch_choose \in Passed(a.test) THEN 1 ELSE 0)
StepsInv ==
    /\ td_state \in [Thread -> {"OFF", "RUNQ"}]
    /\ add = Steps!Idle \/ Call(add)

\* What the state of the threads is to RunQueue.
Abs(s, a) ==
    [td \in Thread |->
        IF td # a.td \/ a.linked = 1 THEN s[td]
        ELSE IF a.linked = 0 THEN "OFF" ELSE "LINKED TWICE"]

LEMMA AbsIdle ==
    ASSUME NEW s \in [Thread -> {"OFF", "RUNQ"}] PROVE Abs(s, Steps!Idle) = s
BY NoThreadAssumption DEF Abs, Steps!Idle

\* The state of a thread in a call changes when it is linked.
LEMMA AbsLinks ==
    ASSUME NEW s \in [Thread -> {"OFF", "RUNQ"}], NEW a, NEW b, a.td \in Thread, a.linked = 0,
           s[a.td] = "RUNQ", b = Steps!Idle \/ (b.td = a.td /\ b.linked = 1)
    PROVE  Abs(s, a)[a.td] = "OFF" /\ Abs(s, b) = [Abs(s, a) EXCEPT ![a.td] = "RUNQ"]
<1>1. Abs(s, b) = s
  <2>1. CASE b = Steps!Idle
    BY <2>1, AbsIdle
  <2>2. CASE b.linked = 1
    BY <2>2 DEF Abs
  <2> QED BY <2>1, <2>2
<1>2. \A td \in Thread : Abs(s, a)[td] = IF td = a.td THEN "OFF" ELSE s[td]
  BY DEF Abs
<1>3. Abs(s, a) = [td \in Thread |-> Abs(s, a)[td]]
  BY DEF Abs
<1> HIDE DEF Abs
<1> QED BY <1>1, <1>2, <1>3

\* The operators on run queues are the same ones in both modules.
LEMMA SameLink ==
    ASSUME NEW r, NEW i, NEW k, NEW td
    PROVE  /\ Steps!Link(r, i, k, td) = Steps!Atomic!Link(r, i, k, td)
           /\ Steps!Unlink(r, i, k) = Steps!Atomic!Unlink(r, i, k)
<1>1. \A q : Steps!InsertAt(q, k, td) = Steps!Atomic!InsertAt(q, k, td)
  BY DEF Steps!InsertAt, Steps!Atomic!InsertAt
<1>2. \A q : Steps!RemoveAt(q, k) = Steps!Atomic!RemoveAt(q, k)
  BY DEF Steps!RemoveAt, Steps!Atomic!RemoveAt
<1>3. Steps!Link(r, i, k, td) = Steps!Atomic!Link(r, i, k, td)
  BY <1>1, Zenon DEF Steps!Link, Steps!Atomic!Link, Steps!runq_setbit, Steps!Atomic!runq_setbit
<1>4. Steps!Unlink(r, i, k) = Steps!Atomic!Unlink(r, i, k)
  <2> DEFINE q == Steps!RemoveAt(r.rq_queues[i], k)
             p == Steps!Atomic!RemoveAt(r.rq_queues[i], k)
             U(x) == LET rest == [r EXCEPT !.rq_queues[i] = x]
                     IN  IF rest.rq_queues[i] = << >>
                         THEN [rest EXCEPT !.rq_status = @ \ {i}] ELSE rest
  <2>1. q = p
    BY <1>2
  <2>2. Steps!Unlink(r, i, k) = U(q)
    BY Zenon DEF Steps!Unlink, Steps!runq_clrbit
  <2>3. Steps!Atomic!Unlink(r, i, k) = U(p)
    BY Zenon DEF Steps!Atomic!Unlink, Steps!Atomic!runq_clrbit
  <2> HIDE DEF q, p, U
  <2> QED BY <2>1, <2>2, <2>3
<1> QED BY <1>3, <1>4

LEMMA SameAdd ==
    ASSUME NEW r, NEW pri, NEW m, NEW td, NEW preempted, NEW i, NEW k
    PROVE  Steps!runq_add(r, pri, m, td, preempted, i, k)
             = Steps!Atomic!runq_add(r, pri, m, td, preempted, i, k)
<1>1. \A q : Steps!FifoPosition(q, preempted) = Steps!Atomic!FifoPosition(q, preempted)
  BY DEF Steps!FifoPosition, Steps!Atomic!FifoPosition
<1>2. \A q : Steps!SortedPosition(q, pri, td, k) = Steps!Atomic!SortedPosition(q, pri, td, k)
  BY Zenon DEF Steps!SortedPosition, Steps!Atomic!SortedPosition
<1>3. \A p : Steps!checkKern(p) = Steps!Atomic!checkKern(p)
  BY Zenon DEF Steps!checkKern, Steps!Atomic!checkKern
<1>4. \A p : Steps!SplatterIndices(p) = Steps!Atomic!SplatterIndices(p)
  BY <1>3, Zenon DEF Steps!SplatterIndices, Steps!Atomic!SplatterIndices,
     Steps!RQ_PPQ, Steps!Atomic!RQ_PPQ
<1>5. Steps!SortedIndex(i) = Steps!Atomic!SortedIndex(i)
  BY DEF Steps!SortedIndex, Steps!Atomic!SortedIndex
<1>6. Steps!AddFifo(r, pri, td, preempted, i, k)
        = Steps!Atomic!AddFifo(r, pri, td, preempted, i, k)
  BY <1>1, Zenon DEF Steps!AddFifo, Steps!Atomic!AddFifo, Steps!RQ_PPQ, Steps!Atomic!RQ_PPQ
<1>7. Steps!AddSorted(r, pri, td, preempted, i, k)
        = Steps!Atomic!AddSorted(r, pri, td, preempted, i, k)
  BY <1>1, <1>2, <1>5, Zenon DEF Steps!AddSorted, Steps!Atomic!AddSorted,
     Steps!RQ_PPQ, Steps!Atomic!RQ_PPQ
<1>8. Steps!AddSplatter(r, pri, td, preempted, i, k)
        = Steps!Atomic!AddSplatter(r, pri, td, preempted, i, k)
  BY <1>1, <1>4, Zenon DEF Steps!AddSplatter, Steps!Atomic!AddSplatter
<1>9. Steps!AddSplatterSorted(r, pri, td, preempted, i, k)
        = Steps!Atomic!AddSplatterSorted(r, pri, td, preempted, i, k)
  BY <1>1, <1>2, <1>3, <1>4, Zenon DEF Steps!AddSplatterSorted, Steps!Atomic!AddSplatterSorted
<1> QED BY <1>6, <1>7, <1>8, <1>9, Zenon DEF Steps!runq_add, Steps!Atomic!runq_add

\* The last test leads out of the function, the others to the next one.
LEMMA GoesOn ==
    ASSUME Call(add), NEW linked \in 0 .. 1, Steps!GoOn(linked),
           ~add.wrote => linked = (IF \/ kern_switch_choose \in Passed(add.test)
                                      \/ kern_switch_choose = add.test THEN 1 ELSE 0),
           td_state' = td_state, kern_switch_choose' = kern_switch_choose
    PROVE  \/ add.test = 1 /\ Steps!Return
           \/ /\ add.test # 1 /\ Call(add)' /\ add'.td = add.td
              /\ add'.linked = linked
<1>1. add.test \in {1, 2, 3, 4}
  BY DEF Call
<1>2. CASE add.test = 1
  BY <1>2 DEF Steps!GoOn, Steps!NextTest
<1>3. CASE add.test # 1
  <2> DEFINE n == Steps!NextTest(add.test)
  <2>1. n # 0 /\ n \in 1 .. 4 /\ Passed(n) = Passed(add.test) \cup {add.test}
    BY <1>1, <1>3 DEF Steps!NextTest, Passed
  <2>2. add' = [add EXCEPT !.test = n, !.linked = linked]
    BY <2>1 DEF Steps!GoOn
  <2> HIDE DEF n
  <2>3. add' = [td |-> add.td, preempted |-> add.preempted, test |-> n, linked |-> linked,
                wrote |-> add.wrote]
    BY <2>2, Zenon DEF Call
  <2>4. ~add.wrote => linked = (IF kern_switch_choose \in Passed(n) THEN 1 ELSE 0)
    BY <2>1
  <2>5. /\ add'.td = add.td /\ add'.preempted = add.preempted /\ add'.test = n
        /\ add'.linked = linked /\ add'.wrote = add.wrote
    BY <2>3
  <2>6. Call(add)'
    BY <2>1, <2>3, <2>4, <2>5 DEF Call
  <2> QED BY <1>3, <2>5, <2>6
<1> QED BY <1>2, <1>3

\* Both modules have the same queues and the same empty run queue.
LEMMA SameInit ==
    Steps!Index = Steps!Atomic!Index /\ Steps!runq_init = Steps!Atomic!runq_init
<1>1. Steps!Index = Steps!Atomic!Index
  BY DEF Steps!Index, Steps!Atomic!Index, Steps!RQ_NQS, Steps!Atomic!RQ_NQS
<1> QED BY <1>1 DEF Steps!runq_init, Steps!Atomic!runq_init

\* A call in progress is not Idle.
LEMMA InCall == ASSUME StepsInv, add # Steps!Idle PROVE Call(add)
BY DEF StepsInv

\* Before and after a step the abstract state of the threads is Abs of the
\* concrete one.
LEMMA AbstractIsAbs ==
    /\ Steps!AbstractState = Abs(td_state, add)
    /\ Steps!AbstractState' = Abs(td_state', add')
BY DEF Steps!AbstractState, Abs

\* Entering runq_add changes nothing for RunQueue.
LEMMA EnterStutters ==
    ASSUME StepsInv, NEW td \in Thread, NEW preempted \in Preempted, Steps!Enter(td, preempted)
    PROVE  StepsInv' /\ UNCHANGED Steps!Atomic!vars
<1> DEFINE a == [td |-> td, preempted |-> preempted, test |-> 2, linked |-> 0,
                wrote |-> FALSE]
<1>1. /\ add = Steps!Idle /\ td_state[td] = "OFF"
      /\ td_state' = [td_state EXCEPT ![td] = "RUNQ"] /\ add' = a
      /\ UNCHANGED << rq, td_priority, td_rqindex, kern_switch_choose >>
      /\ td_state \in [Thread -> {"OFF", "RUNQ"}]
  BY DEF Steps!Enter, StepsInv
<1>2. a.td = td /\ a.preempted = preempted /\ a.test = 2 /\ a.linked = 0 /\ a.wrote = FALSE
  OBVIOUS
<1>3. td_state' \in [Thread -> {"OFF", "RUNQ"}] /\ td_state'[td] = "RUNQ"
  BY <1>1
<1>4. Call(add)'
  <2>1. /\ add'.td = td /\ add'.preempted = preempted /\ add'.test = 2
        /\ add'.linked = 0 /\ add'.wrote = FALSE
    BY <1>1
  <2>2. kern_switch_choose' \notin Passed(2)
    BY DEF Passed
  <2> QED BY <1>1, <1>3, <2>1, <2>2 DEF Call
<1>5. Abs(td_state', add') = Abs(td_state, add)
  <2>1. Abs(td_state, add) = td_state
    BY <1>1, AbsIdle
  <2>2. \A t \in Thread :
            (IF t # a.td \/ a.linked = 1 THEN td_state'[t]
             ELSE IF a.linked = 0 THEN "OFF" ELSE "LINKED TWICE") = td_state[t]
    BY <1>1, <1>2
  <2>3. Abs(td_state', add') = [t \in Thread |-> td_state[t]]
    BY <1>1, <2>2 DEF Abs
  <2> QED BY <1>1, <2>1, <2>3
<1> QED BY <1>1, <1>3, <1>4, <1>5, AbstractIsAbs DEF StepsInv, Steps!Atomic!vars

\* A test that fails changes nothing for RunQueue unless it is the last one of a
\* call that has not linked its thread: then either no algorithm is named, or the
\* sysctl was written during the call.
LEMMA FailIsNowhere ==
    ASSUME StepsInv, Steps!TestFails
    PROVE  /\ StepsInv'
           /\ \/ \E td \in Thread : Steps!Atomic!RunqAddNowhere(td)
              \/ add.wrote /\ Steps!ReturnsUnlinked
              \/ UNCHANGED Steps!Atomic!vars
<1>1. /\ add # Steps!Idle /\ add.test # kern_switch_choose /\ add.linked < 2
      /\ Steps!GoOn(add.linked)
      /\ UNCHANGED << rq, td_priority, td_rqindex, td_state, kern_switch_choose >>
      /\ td_state \in [Thread -> {"OFF", "RUNQ"}]
  BY DEF Steps!TestFails, StepsInv
<1>2. Call(add)
  BY <1>1, InCall
<1>3. /\ add.td \in Thread /\ add.linked \in 0 .. 1 /\ td_state[add.td] = "RUNQ"
      /\ ~add.wrote => add.linked = (IF kern_switch_choose \in Passed(add.test) THEN 1 ELSE 0)
  BY <1>1, <1>2 DEF Call
<1>4. \/ add.test = 1 /\ Steps!Return
      \/ add.test # 1 /\ Call(add)' /\ add'.td = add.td /\ add'.linked = add.linked
  BY <1>1, <1>2, <1>3, GoesOn
<1>5. StepsInv'
  BY <1>1, <1>4 DEF StepsInv, Steps!Return
<1>6. CASE Call(add)' /\ add'.td = add.td /\ add'.linked = add.linked
  <2>1. Abs(td_state', add') = Abs(td_state, add)
    BY <1>1, <1>6 DEF Abs
  <2> QED BY <1>1, <1>5, <2>1, AbstractIsAbs DEF Steps!Atomic!vars
<1>7. CASE add.test = 1 /\ Steps!Return /\ add.linked = 1
  <2>1. Abs(td_state', add') = td_state
    BY <1>1, <1>7, AbsIdle DEF Steps!Return
  <2>2. Abs(td_state, add) = td_state
    BY <1>1, <1>7 DEF Abs
  <2> QED BY <1>1, <1>5, <2>1, <2>2, AbstractIsAbs DEF Steps!Atomic!vars
<1>8. CASE add.test = 1 /\ Steps!Return /\ add.linked = 0 /\ add.wrote
  BY <1>5, <1>8 DEF Steps!ReturnsUnlinked
<1>9. CASE add.test = 1 /\ Steps!Return /\ add.linked = 0 /\ ~add.wrote
  <2>1. kern_switch_choose \notin 1 .. 4
    BY <1>1, <1>3, <1>9 DEF Passed
  <2>2. add' = Steps!Idle
    BY <1>9 DEF Steps!Return
  <2>3. /\ Abs(td_state, add)[add.td] = "OFF"
        /\ Abs(td_state, add') = [Abs(td_state, add) EXCEPT ![add.td] = "RUNQ"]
    BY <1>1, <1>3, <1>9, <2>2, AbsLinks
  <2>4. Steps!Atomic!RunqAddNowhere(add.td)
    BY <1>1, <2>1, <2>3, AbstractIsAbs DEF Steps!Atomic!RunqAddNowhere
  <2> QED BY <1>3, <1>5, <2>4
<1> QED BY <1>3, <1>4, <1>6, <1>7, <1>8, <1>9

\* A test that succeeds in a call that has not linked its thread is RunQueue's
\* RunqAdd.
LEMMA SuccessIsAdd ==
    ASSUME StepsInv, Steps!TestSucceeds
    PROVE  /\ StepsInv'
           /\ \E td \in Thread, preempted \in Preempted : Steps!Atomic!RunqAdd(td, preempted)
<1> DEFINE m == kern_switch_choose
<1>1. PICK i \in Steps!Index : \E k \in 1 .. Len(rq.rq_queues[i]) + 1 :
          /\ Steps!runq_add(rq, td_priority, m, add.td, add.preempted, i, k)
          /\ rq' = Steps!Link(rq, i, k, add.td)
          /\ td_rqindex' = [td_rqindex EXCEPT ![add.td] = i]
          /\ IF Steps!LinkedBefore(i, k) THEN Steps!Return ELSE Steps!GoOn(1)
  BY Zenon DEF Steps!TestSucceeds
<1>2. PICK k \in 1 .. Len(rq.rq_queues[i]) + 1 :
          /\ Steps!runq_add(rq, td_priority, m, add.td, add.preempted, i, k)
          /\ rq' = Steps!Link(rq, i, k, add.td)
          /\ td_rqindex' = [td_rqindex EXCEPT ![add.td] = i]
          /\ IF Steps!LinkedBefore(i, k) THEN Steps!Return ELSE Steps!GoOn(1)
  BY <1>1, Zenon
<1>3. /\ add # Steps!Idle /\ add.test = m /\ add.linked = 0
      /\ UNCHANGED << td_priority, td_state, kern_switch_choose >>
      /\ td_state \in [Thread -> {"OFF", "RUNQ"}]
  BY DEF Steps!TestSucceeds, StepsInv
<1>4. Call(add)
  BY <1>3, InCall
<1>5. add.td \in Thread /\ add.preempted \in Preempted /\ td_state[add.td] = "RUNQ"
  BY <1>4 DEF Call
<1>6. add' = Steps!Idle \/ (Call(add)' /\ add'.td = add.td /\ add'.linked = 1)
  <2>1. CASE Steps!Return
    BY <2>1 DEF Steps!Return
  <2>2. CASE Steps!GoOn(1)
    BY <2>2, <1>3, <1>4, GoesOn DEF Steps!Return
  <2> QED BY <1>2, <2>1, <2>2
<1>7. StepsInv'
  BY <1>3, <1>6 DEF StepsInv
<1>8. /\ Abs(td_state, add)[add.td] = "OFF"
      /\ Abs(td_state, add') = [Abs(td_state, add) EXCEPT ![add.td] = "RUNQ"]
  BY <1>3, <1>5, <1>6, AbsLinks
<1>9. /\ i \in Steps!Atomic!Index
      /\ Steps!Atomic!runq_add(rq, td_priority, m, add.td, add.preempted, i, k)
      /\ rq' = Steps!Atomic!Link(rq, i, k, add.td)
  BY <1>2, SameInit, SameAdd, SameLink
<1>10. Steps!Atomic!RunqAdd(add.td, add.preempted)
  BY <1>2, <1>3, <1>8, <1>9, AbstractIsAbs DEF Steps!Atomic!RunqAdd
<1> QED BY <1>5, <1>7, <1>10

\* No thread is linked a second time unless the sysctl was written during the call.
LEMMA AgainAfterWrite ==
    ASSUME StepsInv, Steps!LinksAgain PROVE StepsInv' /\ add.wrote
<1>1. /\ add # Steps!Idle /\ add.test = kern_switch_choose /\ add.linked = 1
      /\ add' = [add EXCEPT !.linked = 2]
      /\ UNCHANGED << rq, td_priority, td_rqindex, td_state, kern_switch_choose >>
      /\ td_state \in [Thread -> {"OFF", "RUNQ"}]
  BY DEF Steps!LinksAgain, StepsInv
<1>2. Call(add)
  BY <1>1, InCall
<1>3. add.wrote
  BY <1>1, <1>2 DEF Call, Passed
<1>4. add' = [td |-> add.td, preempted |-> add.preempted, test |-> add.test, linked |-> 2,
              wrote |-> add.wrote]
  BY <1>1, <1>2, Zenon DEF Call
<1>5. /\ add'.td = add.td /\ add'.preempted = add.preempted /\ add'.test = add.test
      /\ add'.linked = 2 /\ add'.wrote = add.wrote
  BY <1>4
<1>6. Call(add)'
  <2>0. /\ add.td \in Thread /\ add.preempted \in Preempted /\ add.test \in 1 .. 4
        /\ add.wrote \in BOOLEAN /\ td_state[add.td] = "RUNQ" /\ td_state' = td_state
        /\ 2 \in 0 .. 2
    BY <1>1, <1>2, SMT DEF Call
  <2>1. /\ add'.td \in Thread /\ add'.preempted \in Preempted /\ add'.test \in 1 .. 4
        /\ add'.wrote \in BOOLEAN /\ add'.wrote
        /\ td_state'[add'.td] = "RUNQ" /\ add'.linked \in 0 .. 2
    BY ONLY <2>0, <1>3, <1>5, Zenon
  <2>2. add' = [td |-> add'.td, preempted |-> add'.preempted, test |-> add'.test,
                linked |-> add'.linked, wrote |-> add'.wrote]
    <3>1. ASSUME NEW b,
                 b = [td |-> add.td, preempted |-> add.preempted, test |-> add.test,
                      linked |-> 2, wrote |-> add.wrote]
          PROVE  b = [td |-> b.td, preempted |-> b.preempted, test |-> b.test,
                      linked |-> b.linked, wrote |-> b.wrote]
      <4>1. /\ b.td = add.td /\ b.preempted = add.preempted /\ b.test = add.test
            /\ b.linked = 2 /\ b.wrote = add.wrote
        BY <3>1
      <4> QED BY <3>1, <4>1, Zenon
    <3> QED BY <1>4, <3>1
  <2> QED BY <2>1, <2>2, Zenon DEF Call
<1> QED BY <1>1, <1>3, <1>6 DEF StepsInv

\* The write of the sysctl is RunQueue's at any moment of a call.
LEMMA WriteIsTheSame ==
    ASSUME StepsInv, NEW mode \in Mode, Steps!sysctl_kernChoice(mode)
    PROVE  StepsInv' /\ Steps!Atomic!sysctl_kernChoice(mode)
<1>1. /\ kern_switch_choose' = mode /\ UNCHANGED << rq, td_priority, td_rqindex, td_state >>
      /\ add' = IF add = Steps!Idle THEN Steps!Idle ELSE [add EXCEPT !.wrote = TRUE]
      /\ td_state \in [Thread -> {"OFF", "RUNQ"}]
  BY DEF Steps!sysctl_kernChoice, StepsInv
<1>2. CASE add = Steps!Idle
  <2>1. add' = add
    BY <1>1, <1>2
  <2>2. Abs(td_state', add') = Abs(td_state, add)
    BY <1>1, <2>1, Zenon DEF Abs
  <2> QED BY <1>1, <1>2, <2>1, <2>2, AbstractIsAbs DEF StepsInv, Steps!Atomic!sysctl_kernChoice
<1>3. CASE add # Steps!Idle
  <2>1. Call(add)
    BY <1>3, InCall
  <2>2. add' = [td |-> add.td, preempted |-> add.preempted, test |-> add.test,
                linked |-> add.linked, wrote |-> TRUE]
    BY <1>1, <1>3, <2>1, Zenon DEF Call
  <2>3. /\ add'.td = add.td /\ add'.preempted = add.preempted /\ add'.test = add.test
        /\ add'.linked = add.linked /\ add'.wrote = TRUE
    BY <2>2
  <2>4. Call(add)'
    BY <1>1, <2>1, <2>2, <2>3 DEF Call
  <2>5. Abs(td_state', add') = Abs(td_state, add)
    BY <1>1, <2>3, Zenon DEF Abs
  <2> QED BY <1>1, <2>4, <2>5, AbstractIsAbs DEF StepsInv, Steps!Atomic!sysctl_kernChoice
<1> QED BY <1>2, <1>3

\* Between two calls the other operations are those of RunQueue.
LEMMA OthersAreTheSame ==
    ASSUME StepsInv,
           \/ \E td \in Thread : Steps!RunqRemove(td)
           \/ \E td \in Thread, prio \in Pri : Steps!Reprioritize(td, prio)
    PROVE  StepsInv' /\ Steps!Atomic!Next
<1>1. add = Steps!Idle /\ add' = add
  BY DEF Steps!RunqRemove, Steps!Reprioritize
<1>2. td_state \in [Thread -> {"OFF", "RUNQ"}]
  BY DEF StepsInv
<1>3. td_state' \in [Thread -> {"OFF", "RUNQ"}]
  BY <1>2 DEF Steps!RunqRemove, Steps!Reprioritize
<1>4. Steps!AbstractState = td_state /\ Steps!AbstractState' = td_state'
  BY <1>1, <1>2, <1>3, AbsIdle, AbstractIsAbs
<1>5. StepsInv'
  BY <1>1, <1>3 DEF StepsInv
<1>6. CASE \E td \in Thread : Steps!RunqRemove(td)
  <2>1. PICK td \in Thread : Steps!RunqRemove(td)
    BY <1>6
  <2>2. PICK k \in 1 .. Len(rq.rq_queues[td_rqindex[td]]) :
            rq.rq_queues[td_rqindex[td]][k] = td /\ rq' = Steps!Unlink(rq, td_rqindex[td], k)
    BY <2>1 DEF Steps!RunqRemove
  <2>3. rq' = Steps!Atomic!Unlink(rq, td_rqindex[td], k)
    BY <2>2, SameLink
  <2>4. /\ td_state[td] = "RUNQ" /\ td_state' = [td_state EXCEPT ![td] = "OFF"]
        /\ UNCHANGED << td_priority, td_rqindex, kern_switch_choose >>
    BY <2>1 DEF Steps!RunqRemove
  <2>5. Steps!Atomic!RunqRemove(td)
    BY <1>4, <2>2, <2>3, <2>4 DEF Steps!Atomic!RunqRemove
  <2> QED BY <1>5, <2>5 DEF Steps!Atomic!Next
<1>7. CASE \E td \in Thread, prio \in Pri : Steps!Reprioritize(td, prio)
  <2>1. PICK td \in Thread, prio \in Pri : Steps!Reprioritize(td, prio)
    BY <1>7
  <2>2. Steps!Atomic!Reprioritize(td, prio)
    BY <1>4, <2>1 DEF Steps!Reprioritize, Steps!Atomic!Reprioritize
  <2> QED BY <1>5, <2>2 DEF Steps!Atomic!Next
<1> QED BY <1>6, <1>7

\* Every step of the four tests is a step of RunQueue, changes nothing there, or is
\* one of the two that only a write during the call makes possible.
LEMMA StepsAreSteps ==
    ASSUME StepsInv, [Steps!Next]_(Steps!vars)
    PROVE  /\ StepsInv'
           /\ [Steps!Atomic!Next \/ (add.wrote /\ (Steps!LinksAgain \/ Steps!ReturnsUnlinked))]_
                (Steps!Atomic!vars)
<1>1. CASE UNCHANGED Steps!vars
  <2>1. /\ td_state' = td_state /\ add' = add
        /\ UNCHANGED << rq, td_priority, td_rqindex, kern_switch_choose >>
    BY <1>1 DEF Steps!vars
  <2>2. StepsInv'
    BY <2>1 DEF StepsInv, Call
  <2> QED BY <2>1, <2>2, AbstractIsAbs DEF Steps!Atomic!vars
<1>2. CASE \E td \in Thread, preempted \in Preempted : Steps!Enter(td, preempted)
  BY <1>2, EnterStutters
<1>3. CASE Steps!TestFails
  BY <1>3, FailIsNowhere DEF Steps!Atomic!Next
<1>4. CASE Steps!TestSucceeds
  BY <1>4, SuccessIsAdd DEF Steps!Atomic!Next
<1>5. CASE Steps!LinksAgain
  BY <1>5, AgainAfterWrite
<1>6. CASE \/ \E td \in Thread : Steps!RunqRemove(td)
           \/ \E td \in Thread, prio \in Pri : Steps!Reprioritize(td, prio)
  BY <1>6, OthersAreTheSame
<1>7. CASE \E mode \in Mode : Steps!sysctl_kernChoice(mode)
  <2>1. PICK mode \in Mode : Steps!sysctl_kernChoice(mode)
    BY <1>7
  <2>2. Steps!Atomic!Next
    BY <2>1, WriteIsTheSame DEF Steps!Atomic!Next
  <2> QED BY <2>1, <2>2, WriteIsTheSame
<1> QED BY <1>1, <1>2, <1>3, <1>4, <1>5, <1>6, <1>7, Zenon DEF Steps!Next

\* runq_add makes its four tests one after the other and goes on testing after most
\* links, while the sysctl may be written at any time.  It is one atomic choice of
\* an algorithm, the RunqAdd of RunQueue, except for two steps, and those only in a
\* call during which the sysctl was written: a second link of the thread, and a
\* return without one.  Mode has the value kernChoice starts with.
THEOREM AddIsAtomic == 1 \in Mode => (Steps!Spec => Steps!ImplementsAtomicAdd)
<1> SUFFICES ASSUME 1 \in Mode PROVE Steps!Spec => Steps!ImplementsAtomicAdd
  OBVIOUS
<1>1. Steps!Init => StepsInv /\ Steps!Atomic!Init
  <2> SUFFICES ASSUME Steps!Init PROVE StepsInv /\ Steps!Atomic!Init
    OBVIOUS
  <2>1. /\ rq = Steps!runq_init /\ td_priority \in [Thread -> Pri]
        /\ td_rqindex = [td \in Thread |-> 0] /\ td_state = [td \in Thread |-> "OFF"]
        /\ kern_switch_choose = 1 /\ add = Steps!Idle
    BY DEF Steps!Init
  <2>2. td_state \in [Thread -> {"OFF", "RUNQ"}]
    BY <2>1
  <2>3. StepsInv
    BY <2>1, <2>2 DEF StepsInv
  <2>4. Steps!AbstractState = [td \in Thread |-> "OFF"]
    BY <2>1, <2>2, AbsIdle, AbstractIsAbs
  <2> QED BY <2>1, <2>3, <2>4, SameInit DEF Steps!Atomic!Init
<1> QED BY <1>1, StepsAreSteps, PTL
        DEF Steps!Spec, Steps!ImplementsAtomicAdd
=============================================================================
