------------------------- MODULE PageDaemonsProofs --------------------------
(***************************************************************************)
(* What the page daemons of FreeBSD 10, 11 and 12 never do to a page,      *)
(* whatever the number of pages, objects and threads, the size of batches  *)
(* and clusters, and whatever else happens to the pages in the meantime:   *)
(* lose data that nobody knows to be modified, let a page change while it  *)
(* is written, or take a page that is pinned, or whose data is not saved.  *)
(*                                                                         *)
(* A thread looks at a page under its locks, gives some of them up, and    *)
(* acts on what it has seen.  The inductive invariant, IInv, says what is  *)
(* still true at each place of the code of what a thread has seen (Sees),  *)
(* beside what holds of every page (PageSound) and of what a thread keeps  *)
(* for itself (ThreadSound).  It needs that no two threads have the lock   *)
(* of one object, and that no page is handed to the pager twice.           *)
(*                                                                         *)
(* Most steps are of a few kinds.  Queue operations leave the data of all  *)
(* pages as it is (Same).  What processes may do at any moment is calm     *)
(* (Calmly): it takes away mappings and pins, and gives modified bits,     *)
(* which no thread has to fear.  The rest, faults, pins, busying, freeing  *)
(* and paging out, is stopped by a lock, or is the thread's own doing.     *)
(* Every action leads to Good: IInv again, and nothing taken wrongly.      *)
(***************************************************************************)
EXTENDS PageDaemons, FiniteSetTheorems, SequenceTheorems, WellFoundedInduction, TLAPS

-----------------------------------------------------------------------------
(* The inductive invariant. *)

\* The places of the code, by what a thread has there: both locks of a page, and
\* what it knows of the page by then; a page to be cleaned; a cluster; no locks; a
\* page of its own.
LockedPcs ==
    {"iref", "itest", "iunmap", "idecide", "lref", "ltest", "lunmap", "ldecide",
     "busy", "ref", "test", "unmap", "unmap10", "decide", "grow", "clean", "cluster"}
UnusedPcs == LockedPcs \ {"iref", "lref", "busy"}
UnheldPcs == LockedPcs \ {"busy", "ref", "clean", "cluster"}
DecidedPcs == {"idecide", "ldecide", "decide", "grow"}
CleanPcs == {"clean", "vget", "vpage", "vqueue", "recheck", "cluster"}
ClusterPcs == {"back", "forward", "flush"}
UnlockedPcs ==
    {"idle", "abegin", "pick", "page", "held", "relock", "wobject", "gvnode", "vget", "put"}
PagePcs ==
    LockedPcs \cup CleanPcs
      \cup {"page", "wpage", "wobject", "wqueue", "held", "llock", "lobj", "alock"}

\* What the pages and queues are made of.
VmTypes(v) ==
    /\ DOMAIN v = {"page", "tq", "cnt"}
    /\ v.page \in [Page -> PageRecord]

\* What a thread keeps for itself: which locks it has at which place, that its page
\* is one, that a cluster is of pages of one object, in a row and none twice.
ThreadSound(s) ==
    /\ DOMAIN s = DOMAIN IdleThread
    /\ s.queue \in Queue \cup {"NONE"}
    /\ s.pc # "put" => s.flushing = {}
    /\ s.pc \in UnlockedPcs => ~s.objLocked
    /\ s.pc \in LockedPcs \cup {"held", "wqueue", "vqueue"} => s.mtx = s.m
    /\ s.pc \in LockedPcs \cup ClusterPcs \cup {"vpage", "vqueue", "recheck", "severe"}
          => s.objLocked
    /\ s.pc \in PagePcs \ {"iref", "itest", "iunmap", "idecide"} => s.m \in Page
    /\ s.pc \in CleanPcs \cup ClusterPcs \cup {"put", "severe"} => s.object # NoObject
    /\ s.pc \in ClusterPcs \cup {"put", "severe"} => s.cluster \in Seq(Page)
    /\ s.pc \in {"back", "forward"} =>
          s.cluster # << >> /\ \A i \in DOMAIN s.cluster : s.cluster[i] = s.cluster[1] + i - 1
    /\ s.pc \in {"flush", "put", "severe"} =>
          \A i, j \in DOMAIN s.cluster : s.cluster[i] = s.cluster[j] => i = j
    /\ s.pc = "put" => s.flushing = ToSet(s.cluster)

\* What thread s may rely on of page p at its place: under the locks the page stays
\* in the object, is not busied and not pinned, and, once decided on, is clean or
\* unmapped; between them only that it was valid; pages of a cluster stay idle, and
\* those handed to the pager stay protected and busy.
Sees(ver, s, p, pg) ==
    /\ s.m = p =>
        /\ s.pc \in LockedPcs => pg.object = s.object
        /\ s.pc \in UnusedPcs => pg.busy = "no"
        /\ s.pc \in UnheldPcs \/ (s.pc = "ref" /\ ver = 11)
              => ~pg.hold /\ (ver = 12 => ~pg.wire)
        /\ s.pc \in DecidedPcs => (pg.valid /\ ~pg.dirty => pg.mapped = "no")
        /\ s.pc \in CleanPcs /\ pg.object = s.object => pg.valid
    /\ p \in ToSet(s.cluster) =>
        /\ s.pc \in ClusterPcs =>
              /\ pg.object = s.object /\ pg.busy = "no" /\ pg.valid
              /\ ver > 10 => pg.mapped # "rw"
        /\ s.pc = "severe" => pg.object = s.object
    /\ p \in s.flushing =>
        /\ pg.mapped # "rw" /\ pg.valid
        /\ pg.busy = "shared" /\ pg.object = s.object

\* A mapped page, besides, is one of an object that somebody uses.
IInv ==
    /\ version \in {10, 11, 12}
    /\ VmTypes(vm)
    /\ obj \in [Object -> ObjectRecord]
    /\ th = [t \in Thread |-> th[t]]
    /\ \A p \in Page :
          /\ PageSound(vm.page[p])
          /\ Resident(p) /\ vm.page[p].mapped # "no" => ObjectOf(p).users
    /\ \A t \in Thread :
          /\ ThreadSound(th[t])
          /\ \A p \in Page : Sees(version, th[t], p, vm.page[p])
    /\ \A t, u \in Thread : t # u =>
          /\ ~(th[t].objLocked /\ th[u].objLocked /\ th[t].object = th[u].object)
          /\ th[t].flushing \cap th[u].flushing = {}

\* A page that leaves its object becomes free; nobody uses or pins it (a wired page is
\* kept by version 12; the others rely on its being on no queue), and the backing
\* store has its data, unless the object is gone or the pager has refused the page
\* (VM_PAGER_BAD) and it was cleaned without having been saved.
TakenRightly ==
    \A p \in Page :
        Resident(p) /\ vm'.page[p].object # vm.page[p].object =>
            /\ vm'.page[p].object = NoObject
            /\ vm.page[p].busy = "no" /\ ~vm.page[p].hold
            /\ version = 12 => ~vm.page[p].wire
            /\ vm.page[p].store \in {"same", "lost"} \/ ObjectOf(p).dead
OnlySavedOrRefusedIsTaken == [][TakenRightly]_vars
-----------------------------------------------------------------------------
(* Numbers, and the steps of a fold. *)

\* A set of natural numbers that is not empty has a least element.
LEMMA LeastElement ==
    ASSUME NEW T \in SUBSET Nat, T # {}
    PROVE  \E x \in T : \A y \in T : x <= y
<1> DEFINE R == OpToRel(<, Nat)
<1>1. IsWellFoundedOn(R, Nat)
  BY NatLessThanWellFounded
<1>2. \A x, y \in Nat : y < x => << y, x >> \in R
  BY Zenon DEF OpToRel
<1> HIDE DEF R
<1>3. PICK x \in T : \A y \in T : ~ (<< y, x >> \in R)
  BY <1>1, WFMin
<1>4. \A y \in T : ~ (y < x)
  BY <1>2, <1>3
<1> QED BY <1>4

\* Induction over the natural numbers, stated for a set of them.
LEMMA Induction ==
    ASSUME NEW T \in SUBSET Nat, 0 \in T, \A n \in T : n + 1 \in T
    PROVE  T = Nat
<1> SUFFICES ASSUME Nat \ T # {} PROVE FALSE
  OBVIOUS
<1>1. PICK m \in Nat \ T : \A j \in Nat \ T : m <= j
  <2> DEFINE D == Nat \ T
  <2>1. D \in SUBSET Nat /\ D # {}
    OBVIOUS
  <2> HIDE DEF D
  <2>2. \E m \in D : \A j \in D : m <= j
    BY <2>1, LeastElement
  <2> QED BY <2>2 DEF D
<1>2. m - 1 \in Nat \ T
  BY <1>1
<1> QED BY <1>1, <1>2

\* Min is the least element of a set of numbers.
LEMMA MinProperties ==
    ASSUME NEW S \in SUBSET Nat, S # {}
    PROVE  Min(S) \in S /\ \A j \in S : Min(S) <= j
BY LeastElement DEF Min

\* Max is the greatest element of a finite set of numbers.
LEMMA MaxProperties ==
    ASSUME NEW n \in Nat, NEW S \in SUBSET (0 .. n), S # {}
    PROVE  Max(S) \in S /\ \A j \in S : j <= Max(S)
<1> DEFINE T == {n - x : x \in S}
<1>0. \A y \in S : n - y \in T /\ n - y \in Nat
  OBVIOUS
<1>1. T \in SUBSET Nat /\ T # {}
  <2>1. \A z \in T : z \in Nat
    BY <1>0
  <2>2. PICK y \in S : TRUE
    OBVIOUS
  <2>3. n - y \in T
    BY <1>0
  <2> QED BY <2>1, <2>3
<1>3. \A m \in T : \E x \in S : m = n - x
  OBVIOUS
<1> HIDE DEF T
<1>2. PICK m \in T : \A y \in T : m <= y
  BY <1>1, LeastElement
<1>4. PICK x \in S : m = n - x
  BY <1>3
<1>5. \A y \in S : y <= x
  <2> TAKE y \in S
  <2>1. n - x <= n - y
    BY <1>0, <1>2, <1>4
  <2> QED BY <2>1
<1> QED BY <1>5 DEF Max

\* The same for the numbers of the elements of a batch.
LEMMA MaxOfNext ==
    ASSUME NEW n \in Nat, NEW S \in SUBSET (1 .. n + 1), S # {}
    PROVE  Max(S) \in S /\ \A j \in S : j <= Max(S)
<1> DEFINE k == n + 1
<1>1. k \in Nat /\ S \in SUBSET (0 .. k)
  OBVIOUS
<1> HIDE DEF k
<1> QED BY <1>1, MaxProperties

-----------------------------------------------------------------------------
(* Queue operations keep the data of pages. *)

\* The data of a page: all but its place in the queues and how often it was
\* used.
Kept(a, b) ==
    /\ b.object = a.object /\ b.valid = a.valid /\ b.dirty = a.dirty
    /\ b.hold = a.hold /\ b.wire = a.wire /\ b.busy = a.busy
    /\ b.mapped = a.mapped /\ b.pmod = a.pmod /\ b.store = a.store
Same(v, w) == VmTypes(w) /\ \A p \in Page : Kept(v.page[p], w.page[p])

\* Same composes.
LEMMA SameTrans ==
    ASSUME NEW v, NEW w, NEW x, Same(v, w), Same(w, x) PROVE Same(v, x)
BY DEF Same, Kept

\* Nothing done is the same.
LEMMA SameRefl == ASSUME NEW v, VmTypes(v) PROVE Same(v, v)
BY DEF Same, Kept

\* A page replaced; an index that is no page's replaces nothing.
LEMMA PutPage ==
    ASSUME NEW v, VmTypes(v), NEW p, NEW a, p \in Page => a \in PageRecord
    PROVE  /\ VmTypes([v EXCEPT !.page[p] = a])
           /\ \A x \in Page : [v EXCEPT !.page[p] = a].page[x] = IF x = p THEN a ELSE v.page[x]
BY DEF VmTypes

\* A page replaced by one with the same data.
LEMMA PutSame ==
    ASSUME NEW v, VmTypes(v), NEW p, NEW a,
           p \in Page => a \in PageRecord /\ Kept(v.page[p], a)
    PROVE  Same(v, [v EXCEPT !.page[p] = a])
<1> DEFINE w == [v EXCEPT !.page[p] = a]
<1>1. VmTypes(w) /\ \A x \in Page : w.page[x] = IF x = p THEN a ELSE v.page[x]
  BY PutPage
<1> HIDE DEF w
<1>2. \A x \in Page : Kept(v.page[x], v.page[x])
  BY DEF Kept
<1>3. ASSUME NEW x \in Page PROVE Kept(v.page[x], w.page[x])
  <2>1. CASE x = p
    <3>1. w.page[x] = a /\ Kept(v.page[p], a)
      BY <1>1, <2>1
    <3> QED BY <2>1, <3>1
  <2>2. CASE x # p
    <3>1. w.page[x] = v.page[x]
      BY <1>1, <2>2
    <3> QED BY <1>2, <3>1
  <2> QED BY <2>1, <2>2
<1>4. Same(v, w)
  BY <1>1, <1>3 DEF Same
<1> QED BY <1>4 DEF w

\* The fields the queue operations change.
LEMMA SetQueue ==
    ASSUME NEW v, VmTypes(v), NEW p, NEW q \in Queue \cup {"NONE"}
    PROVE  Same(v, [v EXCEPT !.page[p].queue = q])
<1>1. ASSUME NEW a \in PageRecord
      PROVE  [a EXCEPT !.queue = q] \in PageRecord /\ Kept(a, [a EXCEPT !.queue = q])
  BY DEF Kept, PageRecord
<1>2. p \in Page => v.page[p] \in PageRecord
  BY DEF VmTypes
<1>3. p \in Page => /\ [v.page[p] EXCEPT !.queue = q] \in PageRecord
                   /\ Kept(v.page[p], [v.page[p] EXCEPT !.queue = q])
  BY <1>1, <1>2
<1> QED BY <1>3, PutSame

\* PGA_REQUEUE and PGA_REQUEUE_HEAD,
LEMMA SetRequeue ==
    ASSUME NEW v, VmTypes(v), NEW p, NEW how \in {"no", "tail", "head"}
    PROVE  Same(v, [v EXCEPT !.page[p].requeue = how])
<1>1. ASSUME NEW a \in PageRecord
      PROVE  [a EXCEPT !.requeue = how] \in PageRecord /\ Kept(a, [a EXCEPT !.requeue = how])
  BY DEF Kept, PageRecord
<1>2. p \in Page => v.page[p] \in PageRecord
  BY DEF VmTypes
<1>3. p \in Page => /\ [v.page[p] EXCEPT !.requeue = how] \in PageRecord
                   /\ Kept(v.page[p], [v.page[p] EXCEPT !.requeue = how])
  BY <1>1, <1>2
<1> QED BY <1>3, PutSame

\* PGA_ENQUEUED,
LEMMA SetEnqueued ==
    ASSUME NEW v, VmTypes(v), NEW p, NEW b \in BOOLEAN
    PROVE  Same(v, [v EXCEPT !.page[p].enqueued = b])
<1>1. ASSUME NEW a \in PageRecord
      PROVE  [a EXCEPT !.enqueued = b] \in PageRecord /\ Kept(a, [a EXCEPT !.enqueued = b])
  BY DEF Kept, PageRecord
<1>2. p \in Page => v.page[p] \in PageRecord
  BY DEF VmTypes
<1>3. p \in Page => /\ [v.page[p] EXCEPT !.enqueued = b] \in PageRecord
                   /\ Kept(v.page[p], [v.page[p] EXCEPT !.enqueued = b])
  BY <1>1, <1>2
<1> QED BY <1>3, PutSame

\* PGA_DEQUEUE,
LEMMA SetDequeue ==
    ASSUME NEW v, VmTypes(v), NEW p, NEW b \in BOOLEAN
    PROVE  Same(v, [v EXCEPT !.page[p].dequeue = b])
<1>1. ASSUME NEW a \in PageRecord
      PROVE  [a EXCEPT !.dequeue = b] \in PageRecord /\ Kept(a, [a EXCEPT !.dequeue = b])
  BY DEF Kept, PageRecord
<1>2. p \in Page => v.page[p] \in PageRecord
  BY DEF VmTypes
<1>3. p \in Page => /\ [v.page[p] EXCEPT !.dequeue = b] \in PageRecord
                   /\ Kept(v.page[p], [v.page[p] EXCEPT !.dequeue = b])
  BY <1>1, <1>2
<1> QED BY <1>3, PutSame

\* PG_WINATCFLS,
LEMMA SetWinatcfls ==
    ASSUME NEW v, VmTypes(v), NEW p, NEW b \in BOOLEAN
    PROVE  Same(v, [v EXCEPT !.page[p].winatcfls = b])
<1>1. ASSUME NEW a \in PageRecord
      PROVE  [a EXCEPT !.winatcfls = b] \in PageRecord /\ Kept(a, [a EXCEPT !.winatcfls = b])
  BY DEF Kept, PageRecord
<1>2. p \in Page => v.page[p] \in PageRecord
  BY DEF VmTypes
<1>3. p \in Page => /\ [v.page[p] EXCEPT !.winatcfls = b] \in PageRecord
                   /\ Kept(v.page[p], [v.page[p] EXCEPT !.winatcfls = b])
  BY <1>1, <1>2
<1> QED BY <1>3, PutSame

\* the age of a page,
LEMMA SetAct ==
    ASSUME NEW v, VmTypes(v), NEW p, NEW n \in 0 .. ActModulus - 1
    PROVE  Same(v, [v EXCEPT !.page[p].act = n])
<1>1. ASSUME NEW a \in PageRecord
      PROVE  [a EXCEPT !.act = n] \in PageRecord /\ Kept(a, [a EXCEPT !.act = n])
  BY DEF Kept, PageRecord
<1>2. p \in Page => v.page[p] \in PageRecord
  BY DEF VmTypes
<1>3. p \in Page => /\ [v.page[p] EXCEPT !.act = n] \in PageRecord
                   /\ Kept(v.page[p], [v.page[p] EXCEPT !.act = n])
  BY <1>1, <1>2
<1> QED BY <1>3, PutSame

\* and the queues themselves, which hold no data.
LEMMA SetQueues ==
    ASSUME NEW v, VmTypes(v), NEW q, NEW s, NEW n
    PROVE  /\ Same(v, [v EXCEPT !.tq[q] = s])
           /\ Same(v, [v EXCEPT !.cnt[q] = n])
BY DEF Same, Kept, VmTypes

\* TAILQ_REMOVE.
LEMMA UnlinkSame == ASSUME NEW v, VmTypes(v), NEW p PROVE Same(v, Unlink(v, p))
<1> DEFINE q == v.page[p].queue
           a == [v EXCEPT !.tq[q] = Remove(@, p)]
           b == [a EXCEPT !.cnt[q] = @ - 1]
           c == [b EXCEPT !.page[p].enqueued = FALSE]
<1>1. Same(v, a)
  BY SetQueues
<1>2. Same(a, b)
  <2> HIDE DEF a
  <2> QED BY <1>1, SetQueues DEF Same
<1>3. Same(b, c)
  <2> HIDE DEF b
  <2> QED BY <1>2, SetEnqueued DEF Same
<1>4. Same(v, c)
  BY <1>1, <1>2, <1>3, SameTrans
<1>5. Unlink(v, p) = v \/ Unlink(v, p) = c
  BY DEF Unlink
<1> QED BY <1>4, <1>5, SameRefl

\* TAILQ_INSERT_HEAD and _TAIL.
LEMMA LinkSame == ASSUME NEW v, VmTypes(v), NEW p, NEW how PROVE Same(v, Link(v, p, how))
<1> DEFINE q == v.page[p].queue
           a == [v EXCEPT !.tq[q] = IF how = "head" /\ q = "INACTIVE"
                            THEN InsertBefore(@, InactHead, p) ELSE Append(@, p)]
           b == [a EXCEPT !.cnt[q] = @ + 1]
           c == [b EXCEPT !.page[p].enqueued = TRUE]
           d == [c EXCEPT !.page[p].requeue = "no"]
<1>1. Same(v, a)
  BY SetQueues
<1>2. Same(a, b)
  <2> HIDE DEF a
  <2> QED BY <1>1, SetQueues DEF Same
<1>3. Same(b, c)
  <2> HIDE DEF b
  <2> QED BY <1>2, SetEnqueued DEF Same
<1>4. Same(c, d)
  <2> HIDE DEF c
  <2> QED BY <1>3, SetRequeue DEF Same
<1>5. Link(v, p, how) = d
  BY DEF Link
<1> HIDE DEF a, b, c, d
<1> QED BY <1>1, <1>2, <1>3, <1>4, <1>5, SameTrans

\* vm_page_dequeue.
LEMMA DequeueSame == ASSUME NEW v, VmTypes(v), NEW p PROVE Same(v, Dequeue(v, p))
<1> DEFINE a == Unlink(v, p)
           b == [a EXCEPT !.page[p].queue = "NONE"]
           c == [b EXCEPT !.page[p].requeue = "no"]
           d == [c EXCEPT !.page[p].dequeue = FALSE]
<1>1. Same(v, a)
  BY UnlinkSame
<1>2. Same(a, b)
  <2> HIDE DEF a
  <2> QED BY <1>1, SetQueue DEF Same
<1>3. Same(b, c)
  <2> HIDE DEF b
  <2> QED BY <1>2, SetRequeue DEF Same
<1>4. Same(c, d)
  <2> HIDE DEF c
  <2> QED BY <1>3, SetDequeue DEF Same
<1>5. Dequeue(v, p) = d
  BY DEF Dequeue
<1> HIDE DEF a, b, c, d
<1> QED BY <1>1, <1>2, <1>3, <1>4, <1>5, SameTrans

\* A page is assigned to a queue, to be put there later.
LEMMA EnqueueSame ==
    ASSUME NEW v, VmTypes(v), NEW p, NEW q \in Queue \cup {"NONE"}, NEW how \in {"no", "tail", "head"}
    PROVE  Same(v, Enqueue(v, p, q, how))
<1> DEFINE a == [v EXCEPT !.page[p].queue = q]
           b == [a EXCEPT !.page[p].requeue = how]
<1>1. Same(v, a)
  BY SetQueue
<1>2. Same(a, b)
  <2> HIDE DEF a
  <2> QED BY <1>1, SetRequeue DEF Same
<1>3. Enqueue(v, p, q, how) = b
  BY DEF Enqueue
<1> HIDE DEF a, b
<1> QED BY <1>1, <1>2, <1>3, SameTrans

\* vm_pqbatch_process_page: what the flags of a page ask for.
LEMMA CompleteSame == ASSUME NEW v, VmTypes(v), NEW p PROVE Same(v, Complete(v, p))
<1>1. Same(v, Dequeue(v, p))
  BY DequeueSame
<1>2. Same(v, Link(Unlink(v, p), p, v.page[p].requeue))
  <2> DEFINE u == Unlink(v, p)
  <2>1. Same(v, u)
    BY UnlinkSame
  <2> HIDE DEF u
  <2>2. Same(u, Link(u, p, v.page[p].requeue))
    BY <2>1, LinkSame DEF Same
  <2>3. Same(v, Link(u, p, v.page[p].requeue))
    BY <2>1, <2>2, SameTrans
  <2> QED BY <2>3 DEF u
<1>3. \/ Complete(v, p) = Dequeue(v, p)
      \/ Complete(v, p) = Link(Unlink(v, p), p, v.page[p].requeue)
      \/ Complete(v, p) = v
  <2>1. CASE v.page[p].dequeue
    BY <2>1, Zenon DEF Complete, Pending
  <2>2. CASE ~v.page[p].dequeue /\ v.page[p].requeue # "no"
    BY <2>2, Zenon DEF Complete, Pending
  <2>3. CASE ~v.page[p].dequeue /\ ~(v.page[p].requeue # "no")
    BY <2>3, Zenon DEF Complete, Pending
  <2> QED BY <2>1, <2>2, <2>3
<1> QED BY <1>1, <1>2, <1>3, SameRefl

\* The same, at once, before version 12.
LEMMA SettleSame == ASSUME NEW v, VmTypes(v), NEW p PROVE Same(v, Settle(v, p))
BY CompleteSame, SameRefl DEF Settle

\* vm_page_requeue.
LEMMA RequeueSame == ASSUME NEW v, VmTypes(v), NEW p PROVE Same(v, Requeue(v, p))
<1> DEFINE how == IF v.page[p].requeue = "head" THEN v.page[p].requeue ELSE "tail"
<1>1. how \in {"no", "tail", "head"}
  OBVIOUS
<1>2. Requeue(v, p) = [v EXCEPT !.page[p].requeue = how]
  BY Zenon DEF Requeue
<1> HIDE DEF how
<1>3. Same(v, [v EXCEPT !.page[p].requeue = how])
  BY <1>1, SetRequeue
<1> QED BY <1>2, <1>3

\* vm_page_dequeue_deferred.
LEMMA DequeueDeferredSame == ASSUME NEW v, VmTypes(v), NEW p PROVE Same(v, DequeueDeferred(v, p))
<1> DEFINE b == v.page[p].queue # "NONE"
<1>1. b \in BOOLEAN
  OBVIOUS
<1>2. DequeueDeferred(v, p) = [v EXCEPT !.page[p].dequeue = b]
  BY Zenon DEF DequeueDeferred
<1> HIDE DEF b
<1>3. Same(v, [v EXCEPT !.page[p].dequeue = b])
  BY <1>1, SetDequeue
<1> QED BY <1>2, <1>3

\* From one queue to another.
LEMMA MoveToSame ==
    ASSUME NEW v, VmTypes(v), NEW p, NEW q \in Queue, NEW how \in {"no", "tail", "head"}
    PROVE  Same(v, MoveTo(v, p, q, how))
<1> DEFINE d == Dequeue(v, p)
<1>1. Same(v, d)
  BY DequeueSame
<1>2. Same(d, Enqueue(d, p, q, how))
  <2> HIDE DEF d
  <2> QED BY <1>1, EnqueueSame DEF Same
<1>3. MoveTo(v, p, q, how) = v \/ MoveTo(v, p, q, how) = Enqueue(d, p, q, how)
  BY Zenon DEF MoveTo
<1> HIDE DEF d
<1>4. Same(v, Enqueue(d, p, q, how))
  BY <1>1, <1>2, SameTrans
<1> QED BY <1>3, <1>4, SameRefl

\* vm_page_activate.
LEMMA ActivateSame == ASSUME NEW v, VmTypes(v), NEW p PROVE Same(v, Activate(v, p))
<1> DEFINE a == MoveTo(v, p, "ACTIVE", "tail")
           n == IF a.page[p].act < ActInit THEN ActInit ELSE a.page[p].act
           w == [a EXCEPT !.page[p].act = n]
<1>1. Same(v, a)
  BY MoveToSame DEF Queue
<1>2. Activate(v, p) = v \/ Activate(v, p) = w
  BY Zenon DEF Activate
<1>3. ASSUME p \in Page PROVE n \in 0 .. ActModulus - 1
  <2>1. a.page[p].act \in 0 .. ActModulus - 1
    BY <1>1, <1>3 DEF Same, VmTypes, PageRecord
  <2> QED BY <2>1, ActAssumption
<1>4. CASE p \in Page
  <2> HIDE DEF a, n
  <2>1. Same(a, w)
    BY <1>1, <1>3, <1>4, SetAct DEF Same
  <2> HIDE DEF w
  <2> QED BY <1>1, <1>2, <2>1, SameTrans, SameRefl
<1>5. CASE p \notin Page
  <2> DEFINE r == [a.page[p] EXCEPT !.act = n]
  <2>1. w = [a EXCEPT !.page[p] = r]
    OBVIOUS
  <2> HIDE DEF a, r, w
  <2>2. Same(a, w)
    BY <1>1, <1>5, <2>1, PutSame DEF Same
  <2> QED BY <1>1, <1>2, <2>2, SameTrans, SameRefl
<1> QED BY <1>4, <1>5

\* vm_page_deactivate.
LEMMA DeactivateSame == ASSUME NEW v, VmTypes(v), NEW p PROVE Same(v, Deactivate(v, p))
<1> DEFINE a == MoveTo(v, p, "INACTIVE", "tail")
           w == [a EXCEPT !.page[p].winatcfls = FALSE]
<1>1. Same(v, a)
  BY MoveToSame DEF Queue
<1>2. Deactivate(v, p) = v \/ Deactivate(v, p) = w
  BY Zenon DEF Deactivate
<1> HIDE DEF a
<1>3. Same(a, w)
  BY <1>1, SetWinatcfls DEF Same
<1> HIDE DEF w
<1> QED BY <1>1, <1>2, <1>3, SameTrans, SameRefl

\* vm_page_deactivate_noreuse.
LEMMA NoreuseSame == ASSUME NEW v, VmTypes(v), NEW p PROVE Same(v, DeactivateNoreuse(v, p))
<1> DEFINE a == MoveTo(v, p, "INACTIVE", "head")
           w == [a EXCEPT !.page[p].requeue = "head"]
<1>1. Same(v, a)
  BY MoveToSame DEF Queue
<1>2. DeactivateNoreuse(v, p) = v \/ DeactivateNoreuse(v, p) = w
  BY Zenon DEF DeactivateNoreuse
<1> HIDE DEF a
<1>3. Same(a, w)
  BY <1>1, SetRequeue DEF Same
<1> HIDE DEF w
<1> QED BY <1>1, <1>2, <1>3, SameTrans, SameRefl

\* vm_page_launder.
LEMMA LaunderSame == ASSUME NEW v, VmTypes(v), NEW p PROVE Same(v, Launder(v, p))
<1>1. Same(v, MoveTo(v, p, "LAUNDRY", "tail"))
  BY MoveToSame DEF Queue
<1> QED BY <1>1, RequeueSame, SameRefl DEF Launder

\* vm_page_unswappable.
LEMMA UnswappableSame == ASSUME NEW v, VmTypes(v), NEW p PROVE Same(v, Unswappable(v, p))
BY MoveToSame DEF Unswappable, Queue

\* act_count is advanced.
LEMMA AdvanceSame == ASSUME NEW v, VmTypes(v), NEW p, NEW n \in Nat PROVE Same(v, Advance(v, p, n))
<1> DEFINE a == v.page[p]
           k == (a.act + n) % ActModulus
           r == [a EXCEPT !.act = k]
<1>1. Advance(v, p, n) = [v EXCEPT !.page[p] = r]
  BY DEF Advance
<1>2. ASSUME p \in Page PROVE r \in PageRecord /\ Kept(a, r)
  <2>1. a \in PageRecord /\ a.act \in Nat
    BY <1>2 DEF VmTypes, PageRecord
  <2>2. k \in 0 .. ActModulus - 1
    BY <2>1, ActAssumption
  <2> HIDE DEF a, k
  <2> QED BY <2>1, <2>2 DEF PageRecord, Kept
<1> HIDE DEF r
<1>3. Same(v, [v EXCEPT !.page[p] = r])
  BY <1>2, PutSame DEF a
<1> QED BY <1>1, <1>3

-----------------------------------------------------------------------------
(* Putting pages back. *)

\* vm_pageout_reinsert_inactive_page, for one page.
LEMMA ReinsertPageSame ==
    ASSUME NEW v, VmTypes(v), NEW p
    PROVE  Same(v, vm_pageout_reinsert_inactive_page(v, p))
<1> DEFINE a == [v EXCEPT !.tq["INACTIVE"] = InsertBefore(@, Marker, p)]
           b == [a EXCEPT !.cnt["INACTIVE"] = @ + 1]
           c == [b EXCEPT !.page[p].enqueued = TRUE]
<1>1. Same(v, a)
  BY SetQueues
<1>2. Same(a, b)
  <2> HIDE DEF a
  <2> QED BY <1>1, SetQueues DEF Same
<1>3. Same(b, c)
  <2> HIDE DEF b
  <2> QED BY <1>2, SetEnqueued DEF Same
<1>4. \/ vm_pageout_reinsert_inactive_page(v, p) = v
      \/ vm_pageout_reinsert_inactive_page(v, p) = Link(v, p, v.page[p].requeue)
      \/ vm_pageout_reinsert_inactive_page(v, p) = c
  BY Zenon DEF vm_pageout_reinsert_inactive_page
<1> HIDE DEF a, b, c
<1>5. Same(v, c)
  BY <1>1, <1>2, <1>3, SameTrans
<1> QED BY <1>4, <1>5, LinkSame, SameRefl

\* All of a batch: each step of the loop is one of the lemma above.
LEMMA ReinsertAllSame ==
    ASSUME NEW v, VmTypes(v), NEW bq
    PROVE  Same(v, ReinsertAll(v, bq))
<1> DEFINE I == [i \in 1 .. BatchSize |-> i]
           Op(w, i) == IF i > Len(bq) THEN w
                       ELSE vm_pageout_reinsert_inactive_page(w, bq[Len(bq) - i + 1])
           Is(g, n) == g = [s \in SUBSET (1 .. n) |->
                              IF s = {} THEN v ELSE Op(g[s \ {Max(s)}], I[Max(s)])]
           T == {n \in Nat : \E g : Is(g, n)}
<1>1. T = Nat
  <2>1. 0 \in T
    <3> DEFINE g == [s \in SUBSET (1 .. 0) |-> v]
    <3>1. \A s \in SUBSET (1 .. 0) : s = {}
      OBVIOUS
    <3> HIDE DEF Op, I
    <3>2. Is(g, 0)
      BY <3>1
    <3> QED BY <3>2
  <2>2. ASSUME NEW n \in T PROVE n + 1 \in T
    <3>0. n \in Nat
      OBVIOUS
    <3>1. PICK g : Is(g, n)
      OBVIOUS
    <3> HIDE DEF Op, I
    <3> DEFINE h == [s \in SUBSET (1 .. n + 1) |->
                       IF n + 1 \in s THEN Op(g[s \ {n + 1}], I[n + 1]) ELSE g[s]]
    <3>2. ASSUME NEW s \in SUBSET (1 .. n + 1)
          PROVE  h[s] = IF s = {} THEN v ELSE Op(h[s \ {Max(s)}], I[Max(s)])
      <4>1. CASE n + 1 \in s
        <5>2. Max(s) \in s /\ \A j \in s : j <= Max(s)
          <6>1. s # {}
            BY <4>1
          <6> HIDE DEF T, Is
          <6> QED BY <3>0, <6>1, MaxOfNext
        <5>3. Max(s) = n + 1
          <6> HIDE DEF T, Is, h
          <6>1. Max(s) \in 1 .. n + 1
            BY <5>2
          <6>2. n + 1 <= Max(s)
            BY <5>2, <4>1
          <6> QED BY <3>0, <6>1, <6>2
        <5>4. s \ {n + 1} \in SUBSET (1 .. n) /\ s \ {n + 1} \in SUBSET (1 .. n + 1)
          OBVIOUS
        <5>5. h[s \ {n + 1}] = g[s \ {n + 1}]
          BY <5>4
        <5> QED BY <4>1, <5>3, <5>5
      <4>2. CASE n + 1 \notin s
        <5>1. s \in SUBSET (1 .. n)
          BY <4>2
        <5>2. h[s] = g[s] /\ h[s \ {Max(s)}] = g[s \ {Max(s)}]
          BY <4>2
        <5> QED BY <3>1, <5>1, <5>2
      <4> QED BY <4>1, <4>2
    <3>3. Is(h, n + 1)
      <4> DEFINE k == [s \in SUBSET (1 .. n + 1) |->
                         IF s = {} THEN v ELSE Op(h[s \ {Max(s)}], I[Max(s)])]
      <4>1. \A s \in SUBSET (1 .. n + 1) : h[s] = k[s]
        BY <3>2
      <4>2. h = k
        <5> HIDE DEF k
        <5>1. h = [s \in SUBSET (1 .. n + 1) |-> h[s]]
          OBVIOUS
        <5>2. k = [s \in SUBSET (1 .. n + 1) |-> k[s]]
          BY DEF k
        <5> HIDE DEF h
        <5> QED BY <4>1, <5>1, <5>2
      <4> QED BY <4>2
    <3>4. \E f : Is(f, n + 1)
      <4> HIDE DEF Is, h
      <4> QED BY <3>3
    <3> HIDE DEF Is
    <3> QED BY <3>4
  <2> HIDE DEF T
  <2>3. T \in SUBSET Nat
    BY DEF T
  <2> QED BY <2>1, <2>2, <2>3, Induction
<1>2. PICK g : Is(g, BatchSize) /\ ReinsertAll(v, bq) = g[1 .. BatchSize]
  <2> DEFINE c == CHOOSE g : Is(g, BatchSize)
  <2>1. BatchSize \in T
    BY <1>1, BatchAssumption
  <2>2. \E g : Is(g, BatchSize)
    BY <2>1
  <2>3. Is(c, BatchSize)
    <3> HIDE DEF Is
    <3> QED BY <2>2
  <2>4. DOMAIN I = 1 .. BatchSize
    OBVIOUS
  <2>5. ReinsertAll(v, bq) = c[1 .. BatchSize]
    BY <2>4 DEF ReinsertAll, FoldLeft, MapThenFoldSet
  <2> HIDE DEF Is, c
  <2> QED BY <2>3, <2>5
<1> DEFINE K == {n \in Nat : n <= BatchSize => \A s \in SUBSET (1 .. n) : Same(v, g[s])}
<1>3. K = Nat
  <2>1. 0 \in K
    <3>1. \A s \in SUBSET (1 .. 0) : s = {}
      OBVIOUS
    <3>2. g[{}] = v
      BY <1>2
    <3> QED BY <3>1, <3>2, SameRefl
  <2>2. ASSUME NEW n \in K PROVE n + 1 \in K
    <3> SUFFICES ASSUME n + 1 <= BatchSize, NEW s \in SUBSET (1 .. n + 1) PROVE Same(v, g[s])
      OBVIOUS
    <3>0. n \in Nat /\ BatchSize \in Nat
      BY BatchAssumption
    <3>1. CASE s = {}
      BY <3>1, <1>2, SameRefl
    <3>2. CASE s # {}
      <4> DEFINE m == Max(s)
      <4>2. m \in s /\ \A j \in s : j <= m
        BY <3>0, <3>2, MaxOfNext
      <4> HIDE DEF m
      <4>3. s \ {m} \in SUBSET (1 .. n)
        BY <4>2, <3>0
      <4>4. Same(v, g[s \ {m}])
        BY <4>3, <3>0
      <4>5. s \in SUBSET (1 .. BatchSize)
        BY <3>0
      <4>6. g[s] = Op(g[s \ {m}], I[m])
        BY <1>2, <3>2, <4>5 DEF m
      <4> DEFINE w == g[s \ {m}]
                 p == bq[Len(bq) - I[m] + 1]
      <4>7. g[s] = w \/ g[s] = vm_pageout_reinsert_inactive_page(w, p)
        BY <4>6
      <4> HIDE DEF w, p, Op, I, Is
      <4>8. Same(w, vm_pageout_reinsert_inactive_page(w, p))
        BY <4>4, ReinsertPageSame DEF Same, w
      <4> QED BY <4>4, <4>7, <4>8, SameTrans DEF w
    <3> QED BY <3>1, <3>2
  <2> HIDE DEF K
  <2>3. K \in SUBSET Nat
    BY DEF K
  <2> QED BY <2>1, <2>2, <2>3, Induction
<1>4. BatchSize \in K /\ BatchSize <= BatchSize
  BY <1>3, BatchAssumption
<1> DEFINE all == 1 .. BatchSize
<1>5. all \in SUBSET all
  OBVIOUS
<1>6. Same(v, g[all])
  BY <1>4, <1>5
<1> QED BY <1>2, <1>6

-----------------------------------------------------------------------------
(* Steps and what the threads see. *)

\* What may happen to a page whoever looks at it: it is unmapped in part or
\* wholly, modified, unpinned, or moved between queues.
Calm(a, b) ==
    /\ b.object = a.object /\ b.valid = a.valid /\ b.busy = a.busy
    /\ (b.hold => a.hold) /\ (b.wire => a.wire) /\ (a.dirty => b.dirty)
    /\ (b.mapped = "rw" => a.mapped = "rw") /\ (a.mapped = "no" => b.mapped = "no")
    /\ PageSound(b)
Calmly(v, w) == VmTypes(w) /\ \A p \in Page : Calm(v.page[p], w.page[p])

\* The same data is calm,
LEMMA KeptCalm ==
    ASSUME NEW a, NEW b, PageSound(a), Kept(a, b) PROVE Calm(a, b)
BY DEF Kept, Calm, PageSound

\* and so is a queue operation.
LEMMA SameCalmly ==
    ASSUME NEW v, NEW w, \A p \in Page : PageSound(v.page[p]), Same(v, w)
    PROVE  Calmly(v, w)
BY KeptCalm DEF Same, Calmly

\* Calm steps compose.
LEMMA CalmTrans ==
    ASSUME NEW v, NEW w, NEW x, Calmly(v, w), Calmly(w, x) PROVE Calmly(v, x)
BY DEF Calmly, Calm

\* No thread loses what it relies on to a calm step.
LEMMA CalmSees ==
    ASSUME NEW ver, NEW s, NEW p, NEW a, NEW b, Sees(ver, s, p, a), Calm(a, b)
    PROVE  Sees(ver, s, p, b)
BY DEF Sees, Calm

\* The physical map's operations are of this kind.
LEMMA MapCalm ==
    ASSUME NEW a \in PageRecord, PageSound(a)
    PROVE  /\ TestDirty(a) \in PageRecord /\ Calm(a, TestDirty(a))
           /\ RemoveWrite(a) \in PageRecord /\ Calm(a, RemoveWrite(a))
           /\ RemoveAll(a) \in PageRecord /\ Calm(a, RemoveAll(a))
<1> DEFINE d == a.dirty \/ a.pmod
           r == a.referenced \/ a.pref
           m == IF a.mapped = "rw" THEN "ro" ELSE a.mapped
<1>0. /\ d \in BOOLEAN /\ r \in BOOLEAN /\ m \in {"no", "ro"}
      /\ a.dirty => d
      /\ d => a.dirty \/ a.pmod
      /\ a.pmod => d
      /\ m = "no" <=> a.mapped = "no"
  BY DEF PageRecord
<1>1. TestDirty(a) = [a EXCEPT !.dirty = d]
  BY DEF TestDirty
<1>2. RemoveWrite(a) = [a EXCEPT !.mapped = m, !.dirty = d, !.pmod = FALSE]
  BY Zenon DEF RemoveWrite
<1>3. RemoveAll(a) = [a EXCEPT !.mapped = "no", !.dirty = d, !.pmod = FALSE,
                               !.referenced = r, !.pref = FALSE]
  BY Zenon DEF RemoveAll
<1> HIDE DEF d, r, m
<1>4. TestDirty(a) \in PageRecord
  BY <1>0, <1>1 DEF PageRecord
<1>5. Calm(a, TestDirty(a))
  BY <1>0, <1>1 DEF PageRecord, PageSound, Calm
<1>6. RemoveWrite(a) \in PageRecord
  BY <1>0, <1>2, ZenonT(60) DEF PageRecord
<1>7. Calm(a, RemoveWrite(a))
  BY <1>0, <1>2 DEF PageRecord, PageSound, Calm
<1>8. RemoveAll(a) \in PageRecord
  BY <1>0, <1>3, ZenonT(60) DEF PageRecord
<1>9. Calm(a, RemoveAll(a))
  BY <1>0, <1>3 DEF PageRecord, PageSound, Calm
<1> QED BY <1>4, <1>5, <1>6, <1>7, <1>8, <1>9

\* Clearing the reference bits is not about the data.
LEMMA ForgetKept ==
    ASSUME NEW a \in PageRecord, NEW mappings \in BOOLEAN
    PROVE  Forget(a, mappings) \in PageRecord /\ Kept(a, Forget(a, mappings))
<1> DEFINE r == a.pref /\ ~mappings
<1>1. Forget(a, mappings) = [a EXCEPT !.pref = r, !.referenced = FALSE]
  BY DEF Forget
<1>2. r \in BOOLEAN
  OBVIOUS
<1> HIDE DEF r
<1>3. Forget(a, mappings) \in PageRecord
  <2> DEFINE b == [a EXCEPT !.pref = r]
  <2>1. b \in PageRecord
    BY ONLY <1>2, a \in PageRecord DEF PageRecord
  <2>2. Forget(a, mappings) = [b EXCEPT !.referenced = FALSE]
    BY ONLY <1>1
  <2> HIDE DEF b
  <2> QED BY ONLY <2>1, <2>2 DEF PageRecord
<1>4. Kept(a, Forget(a, mappings))
  BY <1>1 DEF Kept, PageRecord
<1> QED BY <1>3, <1>4

-----------------------------------------------------------------------------
\* One thread moves, or none, while the pages stay calm.
Good == IInv' /\ TakenRightly

\* No thread moves, and the pages stay calm.
LEMMA CalmStep ==
    ASSUME IInv, version' = version, th' = th, Calmly(vm, vm'),
           obj' \in [Object -> ObjectRecord],
           \A p \in Page : Resident(p) /\ vm'.page[p].mapped # "no"
                              => obj'[vm.page[p].object].users
    PROVE  Good
<1>1. \A t \in Thread, p \in Page : Sees(version, th[t], p, vm'.page[p])
  BY CalmSees DEF IInv, Calmly
<1>2. \A p \in Page : vm'.page[p].object = vm.page[p].object /\ PageSound(vm'.page[p])
  BY DEF Calmly, Calm
<1>3. VmTypes(vm')
  BY DEF Calmly
<1>4. IInv'
  BY <1>1, <1>2, <1>3 DEF IInv, Resident, ObjectOf
<1>5. TakenRightly
  BY <1>2 DEF TakenRightly
<1> QED BY <1>4, <1>5 DEF Good

\* One thread moves to where it relies on what is so, the pages stay calm.
LEMMA ThreadStep ==
    ASSUME IInv, NEW t \in Thread, NEW s, th' = [th EXCEPT ![t] = s],
           version' = version, Calmly(vm, vm'),
           obj' \in [Object -> ObjectRecord],
           \A o \in Object : obj'[o].users = obj[o].users,
           ThreadSound(s), \A p \in Page : Sees(version, s, p, vm'.page[p]),
           s.objLocked => ~ObjectTaken(t, s.object),
           s.flushing \subseteq th[t].flushing
    PROVE  Good
<1>1. \A u \in Thread : u # t => \A p \in Page : Sees(version, th[u], p, vm'.page[p])
  BY CalmSees DEF IInv, Calmly
<1>2. \A p \in Page : /\ vm'.page[p].object = vm.page[p].object /\ PageSound(vm'.page[p])
                      /\ vm.page[p].mapped = "no" => vm'.page[p].mapped = "no"
  BY DEF Calmly, Calm
<1>3. VmTypes(vm')
  BY DEF Calmly
<1>4. th'[t] = s /\ \A u \in Thread : u # t => th'[u] = th[u]
  BY DEF IInv
<1>5. th' = [u \in Thread |-> th'[u]]
  BY DEF IInv
<1>6. ASSUME NEW p \in Page PROVE PageSound(vm'.page[p]) /\ (Resident(p) /\ vm.page[p].mapped # "no" => ObjectOf(p).users)'
  <2>1. Resident(p) => vm.page[p].object \in Object
    BY DEF IInv, VmTypes, PageRecord, Resident
  <2> QED BY <1>2, <2>1 DEF IInv, Resident, ObjectOf
<1>7. ASSUME NEW u \in Thread PROVE ThreadSound(th'[u]) /\ \A p \in Page : Sees(version', th'[u], p, vm'.page[p])
  BY <1>1, <1>4 DEF IInv
<1>8. ASSUME NEW u \in Thread, NEW w \in Thread, u # w
      PROVE  /\ ~(th'[u].objLocked /\ th'[w].objLocked /\ th'[u].object = th'[w].object)
             /\ th'[u].flushing \cap th'[w].flushing = {}
  <2>1. CASE u = t
    BY <2>1, <1>4, <1>8 DEF IInv, ObjectTaken
  <2>2. CASE w = t
    BY <2>2, <1>4, <1>8 DEF IInv, ObjectTaken
  <2>3. CASE u # t /\ w # t
    BY <2>3, <1>4, <1>8 DEF IInv
  <2> QED BY <2>1, <2>2, <2>3
<1>9. IInv'
  BY <1>3, <1>5, <1>6, <1>7, <1>8 DEF IInv
<1>10. TakenRightly
  BY <1>2 DEF TakenRightly
<1> QED BY <1>9, <1>10 DEF Good

-----------------------------------------------------------------------------
(* Kinds of steps. *)

\* The places where a thread has nothing to say of any page.
RestPcs ==
    {"idle", "abegin", "inext", "ilock", "iobj", "iend", "anext", "aend", "lnext", "lend",
     "pick", "relock"}
Rests(s) ==
    /\ DOMAIN s = DOMAIN IdleThread /\ s.queue \in Queue \cup {"NONE"} /\ s.flushing = {}
    /\ s.pc \in RestPcs /\ (s.pc \in UnlockedPcs => ~s.objLocked)

\* The objects may end, nothing else.
Objects ==
    /\ version' = version /\ obj' \in [Object -> ObjectRecord]
    /\ \A o \in Object : obj'[o].users = obj[o].users

\* A step that leaves objects alone leaves their users alone.
LEMMA QuietlyObjects == ASSUME IInv, Quietly PROVE Objects
BY DEF IInv, Quietly, Objects

\* An object has one thread with its lock.
LEMMA AloneWithObject ==
    ASSUME IInv, NEW t \in Thread, th[t].objLocked PROVE ~ObjectTaken(t, th[t].object)
BY DEF IInv, ObjectTaken

\* A thread moves to where it relies on nothing.
LEMMA RestStep ==
    ASSUME IInv, NEW t \in Thread, NEW s, Go(t, s), Objects, Calmly(vm, vm'), Rests(s),
           s.objLocked => th[t].objLocked /\ th[t].object = s.object
    PROVE  Good
<1>1. ThreadSound(s)
  BY DEF Rests, ThreadSound, RestPcs, UnlockedPcs, LockedPcs, CleanPcs, ClusterPcs, PagePcs
<1>2. \A p \in Page : Sees(version, s, p, vm'.page[p])
  BY DEF Rests, Sees, RestPcs, LockedPcs, UnusedPcs, UnheldPcs, DecidedPcs, CleanPcs, ClusterPcs
<1>3. s.objLocked => ~ObjectTaken(t, s.object)
  BY AloneWithObject
<1>4. s.flushing \subseteq th[t].flushing
  BY DEF Rests
<1> QED BY <1>1, <1>2, <1>3, <1>4, ThreadStep DEF Go, Objects

\* A thread that holds the locks of its page and its object goes on with it.
Seen(ver, x, pg) ==
    /\ x \in UnusedPcs => pg.busy = "no"
    /\ x \in UnheldPcs \/ (x = "ref" /\ ver = 11) => ~pg.hold /\ (ver = 12 => ~pg.wire)
    /\ x \in DecidedPcs => (pg.valid /\ ~pg.dirty => pg.mapped = "no")
    /\ x \in CleanPcs => pg.valid

\* A thread moves on with both locks.
LEMMA LockedStep ==
    ASSUME IInv, NEW t \in Thread, NEW x, Go(t, [th[t] EXCEPT !.pc = x]),
           th[t].pc \in LockedPcs, x \in LockedPcs,
           Objects, Calmly(vm, vm'),
           th[t].m \in Page \/ x \in {"iref", "itest", "iunmap", "idecide"},
           x \in CleanPcs => th[t].object # NoObject,
           th[t].m \in Page => Seen(version, x, vm'.page[th[t].m])
    PROVE  Good
<1> DEFINE s == [th[t] EXCEPT !.pc = x]
<1>0. ThreadSound(th[t])
  BY DEF IInv
<1>1. /\ DOMAIN s = DOMAIN IdleThread /\ s.pc = x /\ s.m = th[t].m /\ s.mtx = th[t].mtx
      /\ s.object = th[t].object /\ s.objLocked = th[t].objLocked /\ s.queue = th[t].queue
      /\ s.flushing = th[t].flushing /\ s.cluster = th[t].cluster
  BY <1>0 DEF ThreadSound, IdleThread
<1>2. /\ s.mtx = s.m /\ s.objLocked /\ s.queue \in Queue \cup {"NONE"} /\ s.flushing = {}
  BY <1>0, <1>1 DEF ThreadSound, LockedPcs
<1> HIDE DEF s
<1>3. ThreadSound(s)
  BY <1>1, <1>2 DEF ThreadSound, UnlockedPcs, LockedPcs, CleanPcs, ClusterPcs, PagePcs
<1>4. ASSUME NEW p \in Page PROVE Sees(version, s, p, vm'.page[p])
  <2>1. vm'.page[p].object = vm.page[p].object
    BY DEF Calmly, Calm
  <2>2. s.m = p => vm.page[p].object = s.object
    BY <1>1 DEF IInv, Sees
  <2>3. s.m = p => Seen(version, x, vm'.page[p])
    BY <1>1
  <2>4. x \notin ClusterPcs \cup {"severe"}
    BY DEF LockedPcs, ClusterPcs
  <2> QED BY <1>1, <1>2, <2>1, <2>2, <2>3, <2>4 DEF Sees, Seen
<1>5. s.objLocked => ~ObjectTaken(t, s.object)
  BY <1>1, <1>2, AloneWithObject
<1>6. th' = [th EXCEPT ![t] = s]
  BY DEF Go, s
<1>7. s.flushing \subseteq th[t].flushing
  BY <1>1
<1> QED BY <1>3, <1>4, <1>5, <1>6, <1>7, ThreadStep DEF Objects

\* The physical map's operations on one page of the system.
LEMMA TestDirtyCalmly ==
    ASSUME IInv, NEW p, NEW v, \A x \in Page : PageSound(v.page[x]), VmTypes(v)
    PROVE  /\ Calmly(v, [v EXCEPT !.page[p] = TestDirty(v.page[p])])
           /\ Calmly(v, [v EXCEPT !.page[p] = RemoveWrite(v.page[p])])
           /\ Calmly(v, [v EXCEPT !.page[p] = RemoveAll(v.page[p])])
<1>1. ASSUME NEW a, p \in Page => a \in PageRecord /\ Calm(v.page[p], a)
      PROVE  Calmly(v, [v EXCEPT !.page[p] = a])
  <2> DEFINE w == [v EXCEPT !.page[p] = a]
  <2>1. VmTypes(w) /\ \A x \in Page : w.page[x] = IF x = p THEN a ELSE v.page[x]
    BY <1>1, PutPage
  <2> HIDE DEF w
  <2>2. \A x \in Page : Calm(v.page[x], v.page[x])
    BY KeptCalm DEF Kept
  <2>3. ASSUME NEW x \in Page PROVE Calm(v.page[x], w.page[x])
    <3>1. CASE x = p
      BY <1>1, <2>1, <3>1
    <3>2. CASE x # p
      BY <2>1, <2>2, <3>2
    <3> QED BY <3>1, <3>2
  <2>4. Calmly(v, w)
    BY <2>1, <2>3 DEF Calmly
  <2> QED BY <2>4 DEF w
<1>2. p \in Page => v.page[p] \in PageRecord /\ PageSound(v.page[p])
  BY DEF VmTypes
<1> QED BY <1>1, <1>2, MapCalm

\* A queue operation is calm in any state that can be reached,
LEMMA CalmSame == ASSUME IInv, NEW w, Same(vm, w) PROVE Calmly(vm, w)
BY SameCalmly DEF IInv

\* and so is doing nothing.
LEMMA CalmSelf == ASSUME IInv PROVE Calmly(vm, vm)
BY CalmSame, SameRefl DEF IInv

\* The dirty test and the removal of mappings, under both locks.
LEMMA TestDirtyGood ==
    ASSUME IInv, NEW t \in Thread, NEW pc \in {"itest", "ltest", "test"},
           NEW clean \in {"iunmap", "lunmap", "unmap", "unmap10"},
           NEW dirty \in {"idecide", "ldecide", "decide"},
           th[t].m \in Page \/ (clean = "iunmap" /\ dirty = "idecide"),
           TestDirtyStep(t, pc, clean, dirty)
    PROVE  Good
<1> DEFINE p == th[t].m
           pg == TestDirty(vm.page[p])
           x == IF pg.dirty THEN dirty ELSE clean
<1>1. /\ th[t].pc = pc /\ vm' = [vm EXCEPT !.page[p] = pg]
      /\ Go(t, [th[t] EXCEPT !.pc = x]) /\ Objects
  BY QuietlyObjects DEF TestDirtyStep, SetPage, Quiet
<1>2. Calmly(vm, vm')
  BY <1>1, TestDirtyCalmly DEF IInv
<1>3. p \in Page => vm'.page[p] = pg /\ vm.page[p] \in PageRecord /\ Calm(vm.page[p], pg)
  BY <1>1, <1>2 DEF IInv, VmTypes, Calmly
<1>4. p \in Page => Sees(version, th[t], p, vm.page[p])
  BY DEF IInv
<1>5. p \in Page => Seen(version, x, vm'.page[p])
  BY <1>1, <1>3, <1>4 DEF Sees, Seen, Calm, LockedPcs, UnusedPcs, UnheldPcs, DecidedPcs, CleanPcs
<1>6. x \in LockedPcs /\ x \notin CleanPcs /\ th[t].pc \in LockedPcs
  BY <1>1 DEF LockedPcs, CleanPcs
<1>7. p \in Page \/ x \in {"iref", "itest", "iunmap", "idecide"}
  OBVIOUS
<1> HIDE DEF x, pg
<1> QED BY <1>1, <1>2, <1>5, <1>6, <1>7, LockedStep

\* After pmap_remove_all the page is not mapped when it is decided on.
LEMMA RemoveAllGood ==
    ASSUME IInv, NEW t \in Thread, NEW pc \in {"iunmap", "lunmap", "unmap", "unmap10"},
           NEW next \in {"idecide", "ldecide", "decide", "grow"},
           th[t].m \in Page \/ next = "idecide",
           RemoveAllStep(t, pc, next)
    PROVE  Good
<1> DEFINE p == th[t].m
           pg == RemoveAll(vm.page[p])
<1>1. /\ th[t].pc = pc /\ vm' = [vm EXCEPT !.page[p] = pg]
      /\ Go(t, [th[t] EXCEPT !.pc = next]) /\ Objects
  BY QuietlyObjects DEF RemoveAllStep, SetPage, Quiet
<1>2. Calmly(vm, vm')
  BY <1>1, TestDirtyCalmly DEF IInv
<1>3. p \in Page => vm'.page[p] = pg /\ vm.page[p] \in PageRecord /\ Calm(vm.page[p], pg)
  BY <1>1, <1>2 DEF IInv, VmTypes, Calmly
<1>4. p \in Page => Sees(version, th[t], p, vm.page[p]) /\ pg.mapped = "no"
  BY <1>3 DEF IInv, RemoveAll, PageRecord
<1>5. p \in Page => Seen(version, next, vm'.page[p])
  BY <1>1, <1>3, <1>4 DEF Sees, Seen, Calm, LockedPcs, UnusedPcs, UnheldPcs, DecidedPcs, CleanPcs
<1>6. next \in LockedPcs /\ next \notin CleanPcs /\ th[t].pc \in LockedPcs
  BY <1>1 DEF LockedPcs, CleanPcs
<1>7. p \in Page \/ next \in {"iref", "itest", "iunmap", "idecide"}
  OBVIOUS
<1> HIDE DEF pg
<1> QED BY <1>1, <1>2, <1>5, <1>6, <1>7, LockedStep

-----------------------------------------------------------------------------
(* Scan operations, and freeing a page. *)

\* vm_pageout_init_scan and _end_scan move only the marker.
LEMMA ScanSame ==
    ASSUME NEW v, VmTypes(v), NEW q, NEW after
    PROVE  /\ Same(v, vm_pageout_init_scan(v, q, after))
           /\ Same(v, vm_pageout_end_scan(v, q))
<1>1. Same(v, vm_pageout_init_scan(v, q, after))
  <2> DEFINE x == IF after = NoPage THEN << Marker >> \o v.tq[q]
                  ELSE InsertAfter(v.tq[q], after, Marker)
  <2>1. vm_pageout_init_scan(v, q, after) = [v EXCEPT !.tq[q] = x]
    BY Zenon DEF vm_pageout_init_scan
  <2> HIDE DEF x
  <2>2. Same(v, [v EXCEPT !.tq[q] = x])
    BY SetQueues
  <2> QED BY <2>1, <2>2
<1>2. Same(v, vm_pageout_end_scan(v, q))
  BY SetQueues DEF vm_pageout_end_scan
<1> QED BY <1>1, <1>2

\* A scan goes on with its object, its locks and its queue.
Continues(s, r) ==
    /\ DOMAIN r = DOMAIN IdleThread /\ r.queue = s.queue /\ r.flushing = s.flushing
    /\ r.objLocked = s.objLocked /\ r.object = s.object

\* vm_pageout_collect_batch moves only places in queues,
LEMMA CollectSame ==
    ASSUME NEW v, VmTypes(v), NEW s, DOMAIN s = DOMAIN IdleThread, NEW dequeue
    PROVE  LET c == vm_pageout_collect_batch(v, s, dequeue) IN
           Same(v, c.v) /\ Continues(s, c.s) /\ c.s.pc = s.pc
<1> DEFINE tq == v.tq[s.queue]
           rest == SubSeq(tq, At(tq, Marker) + 1, Len(tq))
           Batch(k) == IF dequeue THEN Pages(SubSeq(rest, 1, k)) ELSE SubSeq(rest, 1, k)
           n == Min({k \in 0 .. Len(rest) :
                       \/ k = Len(rest) \/ s.scanned + k >= s.maxscan
                       \/ Len(Batch(k)) = BatchSize})
           taken == IF dequeue THEN ToSet(Batch(n)) ELSE {}
           passed == SelectSeq(SubSeq(rest, 1, n), LAMBDA e : e \notin taken)
           new == SubSeq(tq, 1, At(tq, Marker) - 1) \o passed
                    \o << Marker >> \o SubSeq(rest, n + 1, Len(rest))
           pages == [p \in Page |-> IF p \in taken
                       THEN [v.page[p] EXCEPT !.enqueued = FALSE] ELSE v.page[p]]
           left == v.cnt[s.queue] - Cardinality(taken)
           w == [v EXCEPT !.tq[s.queue] = new, !.cnt[s.queue] = left, !.page = pages]
<1>1. vm_pageout_collect_batch(v, s, dequeue)
        = [v |-> w, s |-> [s EXCEPT !.bq = Batch(n), !.scanned = @ + n]]
  BY Zenon DEF vm_pageout_collect_batch
<1>2. Same(v, w)
  <2>1. ASSUME NEW p \in Page PROVE pages[p] \in PageRecord /\ Kept(v.page[p], pages[p])
    <3>1. pages[p] = v.page[p] \/ pages[p] = [v.page[p] EXCEPT !.enqueued = FALSE]
      OBVIOUS
    <3> HIDE DEF pages
    <3>2. v.page[p] \in PageRecord
      BY DEF VmTypes
    <3>3. ASSUME NEW a \in PageRecord
          PROVE  [a EXCEPT !.enqueued = FALSE] \in PageRecord
      BY ONLY <3>3 DEF PageRecord
    <3>4. ASSUME NEW a \in PageRecord
          PROVE  Kept(a, a) /\ Kept(a, [a EXCEPT !.enqueued = FALSE])
      BY ONLY <3>4 DEF PageRecord, Kept
    <3> QED BY ONLY <3>1, <3>2, <3>3, <3>4
  <2>2. pages = [p \in Page |-> pages[p]]
    OBVIOUS
  <2> HIDE DEF pages, new, left
  <2>3. DOMAIN w = DOMAIN v /\ w.page = pages
    BY DEF VmTypes
  <2> HIDE DEF w
  <2> QED BY <2>1, <2>2, <2>3 DEF Same, VmTypes
<1> DEFINE b == Batch(n)
           k == s.scanned + n
<1>3. vm_pageout_collect_batch(v, s, dequeue)
        = [v |-> w, s |-> [s EXCEPT !.bq = b, !.scanned = k]]
  BY <1>1
<1> HIDE DEF w, b, k
<1> DEFINE c == vm_pageout_collect_batch(v, s, dequeue)
<1>4. c.v = w /\ c.s = [s EXCEPT !.bq = b, !.scanned = k]
  BY <1>3
<1> HIDE DEF c
<1>5. Continues(s, c.s) /\ c.s.pc = s.pc
  BY <1>4 DEF Continues, IdleThread
<1>6. Same(v, c.v)
  BY <1>2, <1>4
<1> QED BY <1>5, <1>6 DEF c

\* and so does vm_pageout_next.
LEMMA NextSame ==
    ASSUME NEW v, VmTypes(v), NEW s, DOMAIN s = DOMAIN IdleThread, NEW dequeue
    PROVE  LET r == vm_pageout_next(v, s, dequeue) IN
           Same(v, r.v) /\ Continues(s, r.s) /\ r.s.pc = s.pc
<1> DEFINE d == vm_pageout_collect_batch(v, s, dequeue)
           c == IF s.bq = << >> THEN d ELSE [v |-> v, s |-> s]
           r == vm_pageout_next(v, s, dequeue)
<1>1. Same(v, d.v) /\ Continues(s, d.s) /\ d.s.pc = s.pc
  BY CollectSame
<1>2. DOMAIN d = {"v", "s"}
  BY DEF vm_pageout_collect_batch
<1>3. r = IF c.s.bq = << >> THEN [c EXCEPT !.s.m = NoPage]
          ELSE [c EXCEPT !.s.m = Last(c.s.bq), !.s.bq = Front(c.s.bq)]
  BY Zenon DEF vm_pageout_next
<1> HIDE DEF d, r
<1>4. Same(v, c.v) /\ Continues(s, c.s) /\ c.s.pc = s.pc /\ DOMAIN c = {"v", "s"}
  <2>1. CASE s.bq = << >>
    <3>1. c = d
      BY <2>1
    <3> QED BY <1>1, <1>2, <3>1
  <2>2. CASE s.bq # << >>
    <3>1. c = [v |-> v, s |-> s]
      BY <2>2
    <3> QED BY <3>1, SameRefl DEF Continues
  <2> QED BY <2>1, <2>2
<1> HIDE DEF c
<1>5. r.v = c.v /\ Continues(s, r.s) /\ r.s.pc = s.pc
  <2>1. CASE c.s.bq = << >>
    <3>1. r = [c EXCEPT !.s.m = NoPage]
      BY <1>3, <2>1
    <3>2. r.v = c.v /\ r.s = [c.s EXCEPT !.m = NoPage]
      BY <1>4, <3>1
    <3> QED BY <1>4, <3>2 DEF Continues, IdleThread
  <2>2. CASE c.s.bq # << >>
    <3> DEFINE m == Last(c.s.bq)
               b == Front(c.s.bq)
    <3>1. r = [c EXCEPT !.s.m = m, !.s.bq = b]
      BY <1>3, <2>2
    <3> HIDE DEF m, b
    <3>2. r.v = c.v /\ r.s = [c.s EXCEPT !.m = m, !.bq = b]
      BY <1>4, <3>1
    <3> QED BY <1>4, <3>2 DEF Continues, IdleThread
  <2> QED BY <2>1, <2>2
<1>6. Same(v, r.v)
  BY <1>4, <1>5
<1> QED BY <1>5, <1>6 DEF r

\* The change of the page lock between two pages keeps the rest.
LEMMA ChangeLockContinues ==
    ASSUME NEW s, NEW r, Continues(s, r) PROVE Continues(s, ChangeLock(r))
BY DEF Continues, ChangeLock, IdleThread

\* A free page holds no data.
LEMMA FreePageSound == FreePage \in PageRecord /\ PageSound(FreePage)
BY ActAssumption DEF FreePage, PageRecord, PageSound, StoreState

\* vm_page_free empties one page.
LEMMA FreePages ==
    ASSUME NEW v, VmTypes(v), NEW p
    PROVE  /\ VmTypes(Free(v, p))
           /\ p \in Page => Free(v, p).page[p] = FreePage
           /\ \A x \in Page : x # p => Kept(v.page[x], Free(v, p).page[x])
<1> DEFINE d == Dequeue(v, p)
           w == [d EXCEPT !.page[p] = FreePage]
<1>1. Same(v, d)
  BY DequeueSame
<1>2. Free(v, p) = w
  BY DEF Free
<1> HIDE DEF d
<1>3. VmTypes(w) /\ \A x \in Page : w.page[x] = IF x = p THEN FreePage ELSE d.page[x]
  BY <1>1, PutPage, FreePageSound DEF Same
<1> HIDE DEF w
<1> QED BY <1>1, <1>2, <1>3 DEF Same

\* A page that no thread but t may use is taken from its object.
LEMMA TakenSees ==
    ASSUME IInv, NEW p \in Page, NEW u \in Thread, NEW pg,
           vm.page[p].busy = "no", pg.object = NoObject,
           ~(th[u].objLocked /\ vm.page[p].object = th[u].object)
    PROVE  Sees(version, th[u], p, pg)
<1>1. Sees(version, th[u], p, vm.page[p]) /\ ThreadSound(th[u])
  BY DEF IInv
<1>2. p \notin th[u].flushing
  BY <1>1 DEF Sees
<1>3. ~(th[u].m = p /\ th[u].pc \in LockedPcs)
  BY <1>1 DEF Sees, ThreadSound
<1>4. ~(p \in ToSet(th[u].cluster) /\ th[u].pc \in ClusterPcs \cup {"severe"})
  BY <1>1 DEF Sees, ThreadSound
<1>5. th[u].m = p /\ th[u].pc \in CleanPcs => pg.object # th[u].object
  BY <1>1 DEF ThreadSound
<1> QED BY <1>1, <1>2, <1>3, <1>4, <1>5
    DEF Sees, UnusedPcs, UnheldPcs, DecidedPcs, LockedPcs

\* One page is freed, the others stay calm.
LEMMA FreeStep ==
    ASSUME IInv, NEW t \in Thread, NEW s, Go(t, s), Objects, NEW p \in Page,
           VmTypes(vm'), vm'.page[p] = FreePage,
           \A x \in Page : x # p => Kept(vm.page[x], vm'.page[x]),
           ThreadSound(s), \A x \in Page : Sees(version, s, x, vm'.page[x]),
           s.objLocked => th[t].objLocked /\ th[t].object = s.object, s.flushing = {},
           th[t].objLocked, vm.page[p].object = th[t].object,
           vm.page[p].busy = "no", ~vm.page[p].hold, version = 12 => ~vm.page[p].wire,
           vm.page[p].store \in {"same", "lost"}
    PROVE  Good
<1>1. th'[t] = s /\ \A u \in Thread : u # t => th'[u] = th[u]
  BY DEF IInv, Go
<1>2. \A x \in Page : x # p => Calm(vm.page[x], vm'.page[x])
  BY KeptCalm DEF IInv
<1>3. ASSUME NEW u \in Thread, u # t, NEW x \in Page PROVE Sees(version, th[u], x, vm'.page[x])
  <2>1. CASE x # p
    BY <1>2, <2>1, CalmSees DEF IInv
  <2>2. CASE x = p
    <3>1. FreePage.object = NoObject
      BY DEF FreePage
    <3>2. ~(th[u].objLocked /\ vm.page[p].object = th[u].object)
      BY <1>3 DEF IInv
    <3> QED BY <2>2, <3>1, <3>2, TakenSees
  <2> QED BY <2>1, <2>2
<1>4. ASSUME NEW x \in Page
      PROVE  PageSound(vm'.page[x]) /\ (Resident(x) /\ vm.page[x].mapped # "no" => ObjectOf(x).users)'
  <2>1. CASE x = p
    BY <2>1, FreePageSound DEF FreePage, Resident
  <2>2. CASE x # p
    <3>1. Calm(vm.page[x], vm'.page[x])
      BY <1>2, <2>2
    <3>2. Resident(x) => vm.page[x].object \in Object
      BY DEF IInv, VmTypes, PageRecord, Resident
    <3> QED BY <3>1, <3>2 DEF IInv, Calm, Objects, Resident, ObjectOf
  <2> QED BY <2>1, <2>2
<1>5. ASSUME NEW u \in Thread PROVE ThreadSound(th'[u]) /\ \A x \in Page : Sees(version', th'[u], x, vm'.page[x])
  BY <1>1, <1>3 DEF IInv, Objects
<1>6. ASSUME NEW u \in Thread, NEW w \in Thread, u # w
      PROVE  /\ ~(th'[u].objLocked /\ th'[w].objLocked /\ th'[u].object = th'[w].object)
             /\ th'[u].flushing \cap th'[w].flushing = {}
  BY <1>1, <1>6 DEF IInv
<1>7. th' = [u \in Thread |-> th'[u]]
  BY DEF IInv, Go
<1>8. IInv'
  BY <1>4, <1>5, <1>6, <1>7 DEF IInv, Objects
<1>9. TakenRightly
  <2> SUFFICES ASSUME NEW x \in Page, Resident(x), vm'.page[x].object # vm.page[x].object
               PROVE  /\ vm'.page[x].object = NoObject
                      /\ vm.page[x].busy = "no" /\ ~vm.page[x].hold
                      /\ version = 12 => ~vm.page[x].wire
                      /\ vm.page[x].store \in {"same", "lost"} \/ ObjectOf(x).dead
    BY DEF TakenRightly
  <2>1. x = p
    BY <1>2 DEF Calm
  <2> QED BY <2>1 DEF FreePage
<1> QED BY <1>8, <1>9 DEF Good

\* Under both locks a page is freed that is clean, or invalid, and unmapped.
LEMMA FreeGood ==
    ASSUME IInv, NEW t \in Thread, NEW s, Go(t, s), Objects, Rests(s),
           s.objLocked => th[t].objLocked /\ th[t].object = s.object,
           vm' = Free(vm, th[t].m), th[t].pc \in DecidedPcs,
           th[t].m \in Page => ~vm.page[th[t].m].valid \/ ~vm.page[th[t].m].dirty
    PROVE  Good
<1> DEFINE p == th[t].m
<1>1. VmTypes(vm) /\ ThreadSound(th[t])
  BY DEF IInv
<1>2. CASE p \in Page
  <2>1. /\ VmTypes(vm') /\ vm'.page[p] = FreePage
        /\ \A x \in Page : x # p => Kept(vm.page[x], vm'.page[x])
    BY <1>1, <1>2, FreePages
  <2>2. Sees(version, th[t], p, vm.page[p]) /\ PageSound(vm.page[p]) /\ vm.page[p] \in PageRecord
    BY <1>2 DEF IInv, VmTypes
  <2>3. th[t].objLocked
    BY <1>1 DEF ThreadSound, DecidedPcs, LockedPcs
  <2>4. /\ vm.page[p].object = th[t].object /\ vm.page[p].busy = "no" /\ ~vm.page[p].hold
        /\ version = 12 => ~vm.page[p].wire
        /\ vm.page[p].valid /\ ~vm.page[p].dirty => vm.page[p].mapped = "no"
    BY <2>2 DEF Sees, DecidedPcs, LockedPcs, UnusedPcs, UnheldPcs
  <2>5. vm.page[p].store \in {"same", "lost"}
    BY <1>2, <2>2, <2>4 DEF PageSound, PageRecord, StoreState
  <2>6. ThreadSound(s)
    BY DEF Rests, ThreadSound, RestPcs, UnlockedPcs, LockedPcs, CleanPcs, ClusterPcs, PagePcs
  <2>7. \A x \in Page : Sees(version, s, x, vm'.page[x])
    BY DEF Rests, Sees, RestPcs, LockedPcs, UnusedPcs, UnheldPcs, DecidedPcs, CleanPcs, ClusterPcs
  <2>8. s.flushing = {}
    BY DEF Rests
  <2> QED BY <1>2, <2>1, <2>3, <2>4, <2>5, <2>6, <2>7, <2>8, FreeStep
<1>3. CASE p \notin Page
  <2>1. Same(vm, vm')
    <3>1. VmTypes(Free(vm, p)) /\ \A x \in Page : x # p => Kept(vm.page[x], Free(vm, p).page[x])
      BY <1>1, FreePages
    <3> QED BY <1>3, <3>1 DEF Same
  <2> QED BY <2>1, CalmSame, RestStep
<1> QED BY <1>2, <1>3

-----------------------------------------------------------------------------
(* FreeBSD 12: the inactive queue. *)

\* A thread goes on to a place of rest, with its object or without.
LEMMA Continue ==
    ASSUME IInv, NEW t \in Thread, NEW s, Go(t, s), Objects, Calmly(vm, vm'),
           Continues(th[t], s), th[t].pc # "put", s.pc \in RestPcs \ UnlockedPcs
    PROVE  Good
<1>1. ThreadSound(th[t])
  BY DEF IInv
<1>2. Rests(s)
  BY <1>1 DEF ThreadSound, Rests, Continues
<1>3. s.objLocked => th[t].objLocked /\ th[t].object = s.object
  BY DEF Continues
<1> QED BY <1>2, <1>3, RestStep

\* A thread goes on without its object, to a place of rest.
LEMMA Leave ==
    ASSUME IInv, NEW t \in Thread, NEW s, Go(t, s), Objects, Calmly(vm, vm'),
           DOMAIN s = DOMAIN IdleThread, s.queue \in Queue \cup {"NONE"},
           s.flushing = {} \/ (s.flushing = th[t].flushing /\ th[t].pc # "put"),
           ~s.objLocked, s.pc \in RestPcs
    PROVE  Good
<1>1. ThreadSound(th[t])
  BY DEF IInv
<1>2. Rests(s)
  BY <1>1 DEF ThreadSound, Rests
<1> QED BY <1>2, RestStep

\* vm_pageout_scan_inactive begins.
LEMMA InactiveBeginGood ==
    ASSUME IInv, NEW t \in Thread, InactiveBegin(t) PROVE Good
<1>1. PICK n \in Shortages \ {0} :
         Go(t, [Scanning(th[t], "INACTIVE", vm.cnt["INACTIVE"]) EXCEPT !.left = n, !.pc = "inext"])
  BY DEF InactiveBegin
<1> DEFINE s == [Scanning(th[t], "INACTIVE", vm.cnt["INACTIVE"]) EXCEPT !.left = n, !.pc = "inext"]
<1>2. Objects /\ th[t].pc = "idle" /\ ThreadSound(th[t])
  BY DEF InactiveBegin, Begin, IInv, Objects
<1>3. Calmly(vm, vm')
  BY ScanSame, CalmSame DEF InactiveBegin, IInv
<1>4. /\ DOMAIN s = DOMAIN IdleThread /\ s.queue = "INACTIVE" /\ ~s.objLocked
      /\ s.flushing = th[t].flushing /\ s.pc = "inext"
  BY <1>2 DEF Scanning, ThreadSound, IdleThread, UnlockedPcs
<1> HIDE DEF s
<1> QED BY <1>1, <1>2, <1>3, <1>4, Leave DEF s, Queue, RestPcs

\* The next page of the batch.
LEMMA InactiveNextGood ==
    ASSUME IInv, NEW t \in Thread, InactiveNext(t) PROVE Good
<1> DEFINE r == IF th[t].left > 0 THEN vm_pageout_next(vm, th[t], TRUE)
                ELSE [v |-> vm, s |-> [th[t] EXCEPT !.m = NoPage]]
           s == [ChangeLock(r.s) EXCEPT !.pc = IF r.s.m = NoPage THEN "iend" ELSE "ilock"]
<1>1. th[t].pc = "inext" /\ vm' = r.v /\ Go(t, s) /\ Objects
  BY QuietlyObjects DEF InactiveNext, Quiet
<1>2. VmTypes(vm) /\ DOMAIN th[t] = DOMAIN IdleThread
  BY DEF IInv, ThreadSound
<1>3. Same(vm, r.v) /\ Continues(th[t], r.s)
  <2>1. CASE th[t].left > 0
    BY <1>2, <2>1, NextSame
  <2>2. CASE ~(th[t].left > 0)
    <3>1. r.v = vm /\ r.s = [th[t] EXCEPT !.m = NoPage]
      BY <2>2
    <3> HIDE DEF r
    <3> QED BY <1>2, <3>1, SameRefl DEF Continues, IdleThread
  <2> QED BY <2>1, <2>2
<1> HIDE DEF r
<1>4. Continues(th[t], s) /\ s.pc \in {"iend", "ilock"}
  BY <1>3, ChangeLockContinues DEF Continues, IdleThread
<1> HIDE DEF s
<1> QED BY <1>1, <1>3, <1>4, Continue, CalmSame DEF RestPcs, UnlockedPcs

\* Pages that the scan skips are put aside.
LEMMA ReinsertGood ==
    ASSUME IInv, NEW t \in Thread, NEW v, NEW s, Reinsert(t, v, s), Objects,
           Same(vm, v), Continues(th[t], s), th[t].pc # "put"
    PROVE  Good
<1> DEFINE r == vm_pageout_reinsert_inactive(v, s)
<1>1. vm' = r.v /\ Go(t, r.s)
  BY DEF Reinsert
<1>2. Same(v, r.v) /\ Continues(th[t], r.s) /\ r.s.pc = "inext"
  <2>1. CASE Len(s.rq) < BatchSize
    <3>1. r = [v |-> v, s |-> [s EXCEPT !.rq = Append(s.rq, s.m), !.pc = "inext"]]
      BY <2>1, Zenon DEF vm_pageout_reinsert_inactive
    <3>2. r.v = v /\ r.s = [s EXCEPT !.rq = Append(s.rq, s.m), !.pc = "inext"]
      BY <3>1
    <3> HIDE DEF r
    <3> QED BY <3>2, SameRefl DEF Same, Continues, IdleThread
  <2>2. CASE ~(Len(s.rq) < BatchSize)
    <3> DEFINE w == vm_pageout_reinsert_inactive_page(v, s.m)
               x == ReinsertAll(w, s.rq)
    <3>1. r = [v |-> x, s |-> [s EXCEPT !.rq = << >>, !.pc = "inext"]]
      BY <2>2, Zenon DEF vm_pageout_reinsert_inactive
    <3>2. Same(v, w)
      BY ReinsertPageSame DEF Same
    <3>3. Same(w, x)
      BY <3>2, ReinsertAllSame DEF Same
    <3> HIDE DEF x, w
    <3>4. r.v = x /\ r.s = [s EXCEPT !.rq = << >>, !.pc = "inext"]
      BY <3>1
    <3> HIDE DEF r
    <3>5. Same(v, x)
      BY <3>2, <3>3, SameTrans
    <3> QED BY <3>4, <3>5 DEF Continues, IdleThread
  <2> QED BY <2>1, <2>2
<1> HIDE DEF r
<1>3. Calmly(vm, vm')
  BY <1>1, <1>2, SameTrans, CalmSame
<1> QED BY <1>1, <1>2, <1>3, Continue DEF RestPcs, UnlockedPcs

\* The object lock of a page under the page lock.
LEMMA LockObjectGood ==
    ASSUME IInv, NEW t \in Thread, NEW s, NEW locked \in {"iref", "lref"},
           NEW busy \in {"iobj", "lobj"}, LockObject(t, s, locked, busy),
           Objects, vm' = vm, th[t].pc # "put",
           Continues(th[t], s), s.mtx = s.m,
           s.m \in Page \/ (locked = "iref" /\ busy = "iobj"),
           s.m \in Page => ~vm.page[s.m].hold /\ ~vm.page[s.m].wire
    PROVE  Good
<1> DEFINE o == vm.page[s.m].object
           r == IF s.object = o THEN s ELSE [s EXCEPT !.object = o, !.objLocked = FALSE]
<1>1. ThreadSound(th[t]) /\ Calmly(vm, vm')
  BY CalmSelf DEF IInv
<1>2. /\ DOMAIN r = DOMAIN IdleThread /\ r.queue \in Queue \cup {"NONE"} /\ r.flushing = {}
      /\ r.object = o /\ r.m = s.m /\ r.mtx = s.m
      /\ r.objLocked => th[t].objLocked /\ th[t].object = o
  BY <1>1 DEF ThreadSound, Continues, IdleThread
<1>3. \/ /\ r.objLocked \/ ~ObjectTaken(t, o)
         /\ Go(t, [r EXCEPT !.objLocked = TRUE, !.pc = locked])
      \/ ~r.objLocked /\ Go(t, [r EXCEPT !.mtx = NoPage, !.pc = busy])
  BY Zenon DEF LockObject
<1> HIDE DEF r
<1>4. CASE /\ r.objLocked \/ ~ObjectTaken(t, o)
           /\ Go(t, [r EXCEPT !.objLocked = TRUE, !.pc = locked])
  <2> DEFINE u == [r EXCEPT !.objLocked = TRUE, !.pc = locked]
  <2>1. /\ DOMAIN u = DOMAIN IdleThread /\ u.queue \in Queue \cup {"NONE"} /\ u.flushing = {}
        /\ u.object = o /\ u.m = s.m /\ u.mtx = s.m /\ u.objLocked /\ u.pc = locked
    BY <1>2 DEF IdleThread
  <2>2. th' = [th EXCEPT ![t] = u]
    BY <1>4 DEF Go
  <2>3. ~ObjectTaken(t, u.object)
    BY <1>2, <1>4, <2>1, AloneWithObject
  <2> HIDE DEF u, o
  <2>4. ThreadSound(u)
    BY <2>1 DEF ThreadSound, UnlockedPcs, LockedPcs, CleanPcs, ClusterPcs, PagePcs
  <2>5. \A p \in Page : Sees(version, u, p, vm'.page[p])
    BY <2>1 DEF Sees, LockedPcs, UnusedPcs, UnheldPcs, DecidedPcs, CleanPcs, ClusterPcs, o
  <2> QED BY <1>1, <2>1, <2>2, <2>3, <2>4, <2>5, ThreadStep DEF Objects
<1>5. CASE ~r.objLocked /\ Go(t, [r EXCEPT !.mtx = NoPage, !.pc = busy])
  <2> DEFINE u == [r EXCEPT !.mtx = NoPage, !.pc = busy]
  <2>1. /\ DOMAIN u = DOMAIN IdleThread /\ u.queue \in Queue \cup {"NONE"} /\ u.flushing = {}
        /\ u.m = s.m /\ ~u.objLocked /\ u.pc = busy
    BY <1>2, <1>5 DEF IdleThread
  <2>2. th' = [th EXCEPT ![t] = u]
    BY <1>5 DEF Go
  <2> HIDE DEF u, o
  <2>4. ThreadSound(u)
    BY <2>1 DEF ThreadSound, UnlockedPcs, LockedPcs, CleanPcs, ClusterPcs, PagePcs
  <2>5. \A p \in Page : Sees(version, u, p, vm'.page[p])
    BY <2>1 DEF Sees, LockedPcs, UnusedPcs, UnheldPcs, DecidedPcs, CleanPcs, ClusterPcs
  <2> QED BY <1>1, <2>1, <2>2, <2>4, <2>5, ThreadStep DEF Objects
<1> QED BY <1>3, <1>4, <1>5

\* The object lock is waited for.
LEMMA WaitObjectGood ==
    ASSUME IInv, NEW t \in Thread, NEW busy, NEW recheck,
           (busy = "iobj" /\ recheck = "ilock") \/ (busy = "lobj" /\ recheck = "llock"),
           WaitObject(t, busy, recheck)
    PROVE  Good
<1> DEFINE u == [th[t] EXCEPT !.objLocked = TRUE, !.pc = recheck]
<1>1. ThreadSound(th[t]) /\ Calmly(vm, vm') /\ Objects
  BY CalmSelf, QuietlyObjects DEF IInv, WaitObject, Quiet
<1>2. th[t].pc = busy /\ ~ObjectLocked(th[t].object) /\ th' = [th EXCEPT ![t] = u]
  BY DEF WaitObject, Go
<1>3. /\ DOMAIN u = DOMAIN IdleThread /\ u.queue \in Queue \cup {"NONE"} /\ u.flushing = {}
      /\ u.m = th[t].m /\ u.object = th[t].object /\ u.pc = recheck
      /\ busy = "lobj" => u.m \in Page
  BY <1>1, <1>2 DEF IdleThread, ThreadSound, PagePcs
<1> HIDE DEF u
<1>4. ThreadSound(u)
  BY <1>3 DEF ThreadSound, UnlockedPcs, LockedPcs, CleanPcs, ClusterPcs, PagePcs
<1>5. \A p \in Page : Sees(version, u, p, vm'.page[p])
  BY <1>3 DEF Sees, LockedPcs, UnusedPcs, UnheldPcs, DecidedPcs, CleanPcs, ClusterPcs
<1>6. ~ObjectTaken(t, u.object)
  BY <1>2, <1>3 DEF ObjectTaken, ObjectLocked
<1> QED BY <1>1, <1>2, <1>3, <1>4, <1>5, <1>6, ThreadStep DEF Objects

\* The page under its lock: pinned or moved pages are skipped.
LEMMA InactivePageGood ==
    ASSUME IInv, NEW t \in Thread, InactivePage(t) PROVE Good
<1> DEFINE s == [th[t] EXCEPT !.mtx = th[t].m]
           pg == vm.page[s.m]
           there == VmPageQueue(pg) = "INACTIVE"
           again == pg.enqueued \/ pg.requeue # "no" \/ pg.hold
<1>1. ThreadSound(th[t]) /\ VmTypes(vm) /\ Objects
  BY QuietlyObjects DEF IInv, InactivePage
<1>2. Continues(th[t], s) /\ s.pc = th[t].pc /\ s.m = th[t].m /\ s.mtx = s.m
  BY <1>1 DEF ThreadSound, Continues, IdleThread
<1>3. s.pc = "ilock"
  BY DEF InactivePage
<1>4. \/ vm' = vm /\ Go(t, [s EXCEPT !.pc = "inext"])
      \/ Reinsert(t, vm, s)
      \/ vm' = DequeueDeferred(vm, s.m) /\ Go(t, [s EXCEPT !.pc = "inext"])
      \/ ~pg.hold /\ ~pg.wire /\ LockObject(t, s, "iref", "iobj") /\ vm' = vm
  BY Zenon DEF InactivePage
<1> HIDE DEF s
<1>5. Continues(th[t], [s EXCEPT !.pc = "inext"]) /\ [s EXCEPT !.pc = "inext"].pc = "inext"
  BY <1>2 DEF Continues, IdleThread
<1>6. CASE vm' = vm /\ Go(t, [s EXCEPT !.pc = "inext"])
  BY <1>1, <1>2, <1>3, <1>5, <1>6, CalmSelf, Continue DEF RestPcs, UnlockedPcs
<1>7. CASE Reinsert(t, vm, s)
  BY <1>1, <1>2, <1>3, <1>7, SameRefl, ReinsertGood
<1>8. CASE vm' = DequeueDeferred(vm, s.m) /\ Go(t, [s EXCEPT !.pc = "inext"])
  BY <1>1, <1>2, <1>3, <1>5, <1>8, DequeueDeferredSame, CalmSame, Continue DEF RestPcs, UnlockedPcs
<1>9. CASE ~pg.hold /\ ~pg.wire /\ LockObject(t, s, "iref", "iobj") /\ vm' = vm
  BY <1>1, <1>2, <1>3, <1>9, LockObjectGood
<1> QED BY <1>4, <1>6, <1>7, <1>8, <1>9

\* Clearing the reference bits of one page of the system.
LEMMA ForgetSame ==
    ASSUME NEW v, VmTypes(v), NEW p, NEW mappings \in BOOLEAN
    PROVE  Same(v, [v EXCEPT !.page[p] = Forget(@, mappings)])
<1>1. p \in Page => Forget(v.page[p], mappings) \in PageRecord /\ Kept(v.page[p], Forget(v.page[p], mappings))
  BY ForgetKept DEF VmTypes
<1> QED BY <1>1, PutSame

\* A page of an object that nobody references is not mapped.
LEMMA NoReferences ==
    ASSUME IInv, NEW p \in Page, RefCount(vm.page[p].object) = 0
    PROVE  vm.page[p].mapped = "no"
<1> DEFINE o == vm.page[p].object
           R == {t \in Thread : th[t].refd /\ th[t].object = o}
<1>1. IsFiniteSet(R)
  BY NoiseAssumption, FS_Subset
<1>2. Cardinality(R) \in Nat
  BY <1>1, FS_CardinalityType
<1>3. RefCount(o) = (IF obj[o].users THEN 1 ELSE 0) + Cardinality(R)
  BY DEF RefCount
<1> HIDE DEF R, o
<1>4. ~obj[o].users
  BY <1>2, <1>3 DEF o
<1> QED BY <1>4 DEF o, IInv, PageSound, Resident, ObjectOf

\* A page in nobody's use is tested, or decided on at once.
LEMMA GoOnGood ==
    ASSUME IInv, NEW t \in Thread, NEW w, Same(vm, w), vm' = w, Objects,
           th[t].pc \in LockedPcs, NEW x, Go(t, [th[t] EXCEPT !.pc = x]),
           x \in {"itest", "idecide", "ltest", "ldecide", "test", "decide"},
           th[t].m \in Page \/ x \in {"itest", "idecide"},
           th[t].m \in Page =>
              LET pg == vm.page[th[t].m] IN
              /\ pg.busy = "no" /\ ~pg.hold /\ (version = 12 => ~pg.wire)
              /\ x \in {"idecide", "ldecide", "decide"}
                   => ~pg.valid \/ RefCount(th[t].object) = 0
    PROVE  Good
<1>1. Calmly(vm, vm')
  BY CalmSame
<1>2. ASSUME th[t].m \in Page PROVE Seen(version, x, vm'.page[th[t].m])
  <2> DEFINE p == th[t].m
  <2>1. Kept(vm.page[p], vm'.page[p])
    BY <1>2 DEF Same
  <2>2. vm.page[p].object = th[t].object
    BY <1>2 DEF IInv, Sees
  <2>3. x \in {"idecide", "ldecide", "decide"} => ~vm.page[p].valid \/ vm.page[p].mapped = "no"
    BY <1>2, <2>2, NoReferences
  <2> HIDE DEF p
  <2>4. vm.page[p].busy = "no" /\ ~vm.page[p].hold /\ (version = 12 => ~vm.page[p].wire)
    BY <1>2 DEF p
  <2>5. Seen(version, x, vm'.page[p])
    BY <2>1, <2>3, <2>4 DEF Kept, Seen, UnusedPcs, UnheldPcs, DecidedPcs, LockedPcs, CleanPcs
  <2> QED BY <2>5 DEF p
<1>3. x \in LockedPcs /\ x \notin CleanPcs
  BY DEF LockedPcs, CleanPcs
<1> QED BY <1>1, <1>2, <1>3, LockedStep

\* What was referenced is activated or put aside.
LEMMA InactiveReferencedGood ==
    ASSUME IInv, NEW t \in Thread, InactiveReferenced(t), version = 12 PROVE Good
<1> DEFINE s == th[t]
           pg == vm.page[s.m]
           mapped == RefCount(s.object) # 0
           delta == ActDelta(pg, mapped)
           v == [vm EXCEPT !.page[s.m] = Forget(@, mapped)]
           x == IF mapped THEN "itest" ELSE "idecide"
           back == [v EXCEPT !.page[s.m].requeue = "tail"]
           act == Advance(Activate(v, s.m), s.m, delta + ActAdvance)
<1>1. ThreadSound(th[t]) /\ VmTypes(vm) /\ Objects /\ s.pc = "iref" /\ s.pc \in LockedPcs
  BY QuietlyObjects DEF IInv, InactiveReferenced, Quiet, LockedPcs
<1>2. Same(vm, v)
  BY <1>1, ForgetSame
<1>3. \/ Reinsert(t, vm, s)
      \/ pg.busy = "no" /\ ~pg.valid /\ Go(t, [s EXCEPT !.pc = "idecide"]) /\ vm' = vm
      \/ vm' = act /\ Go(t, [s EXCEPT !.pc = "inext"])
      \/ Reinsert(t, back, s)
      \/ pg.busy = "no" /\ vm' = v /\ Go(t, [s EXCEPT !.pc = x])
  BY Zenon DEF InactiveReferenced
<1>4. Same(vm, back)
  <2> HIDE DEF v
  <2>1. Same(v, back)
    BY <1>2, SetRequeue DEF Same
  <2> QED BY <1>2, <2>1, SameTrans
<1>5. Same(vm, act)
  <2> DEFINE a == Activate(v, s.m)
  <2>1. delta + ActAdvance \in Nat
    BY ActAssumption DEF ActDelta
  <2> HIDE DEF v, delta
  <2>2. Same(v, a)
    BY <1>2, ActivateSame DEF Same
  <2> HIDE DEF a
  <2>3. Same(a, Advance(a, s.m, delta + ActAdvance))
    BY <2>1, <2>2, AdvanceSame DEF Same
  <2> QED BY <1>2, <2>2, <2>3, SameTrans DEF a
<1>6. Continues(th[t], s) /\ Continues(th[t], [s EXCEPT !.pc = "inext"]) /\ [s EXCEPT !.pc = "inext"].pc = "inext"
  BY <1>1 DEF ThreadSound, Continues, IdleThread
<1>7. s.m \in Page => ~pg.hold /\ ~pg.wire
  BY <1>1 DEF IInv, Sees, UnheldPcs, LockedPcs
<1> HIDE DEF v, back, act
<1>8. CASE Reinsert(t, vm, s)
  BY <1>1, <1>6, <1>8, SameRefl, ReinsertGood
<1>9. CASE pg.busy = "no" /\ ~pg.valid /\ Go(t, [s EXCEPT !.pc = "idecide"]) /\ vm' = vm
  BY <1>1, <1>7, <1>9, SameRefl, GoOnGood
<1>10. CASE vm' = act /\ Go(t, [s EXCEPT !.pc = "inext"])
  BY <1>1, <1>5, <1>6, <1>10, CalmSame, Continue DEF RestPcs, UnlockedPcs
<1>11. CASE Reinsert(t, back, s)
  BY <1>1, <1>4, <1>6, <1>11, ReinsertGood
<1>12. CASE pg.busy = "no" /\ vm' = v /\ Go(t, [s EXCEPT !.pc = x])
  <2>1. x \in {"itest", "idecide"} /\ (x = "idecide" => RefCount(s.object) = 0)
    OBVIOUS
  <2> HIDE DEF x
  <2> QED BY <1>1, <1>2, <1>7, <1>12, <2>1, GoOnGood
<1> QED BY <1>3, <1>8, <1>9, <1>10, <1>11, <1>12

\* A clean page is freed, a dirty one goes to the laundry.
LEMMA InactiveDecideGood ==
    ASSUME IInv, NEW t \in Thread, InactiveDecide(t) PROVE Good
<1> DEFINE s == th[t]
           pg == vm.page[s.m]
           f == [s EXCEPT !.left = @ - 1, !.pc = "inext"]
           l == [s EXCEPT !.pc = "inext"]
<1>1. ThreadSound(th[t]) /\ VmTypes(vm) /\ Objects /\ s.pc = "idecide"
  BY QuietlyObjects DEF IInv, InactiveDecide, Quiet
<1>2. \/ (~pg.valid \/ ~pg.dirty) /\ vm' = Free(vm, s.m) /\ Go(t, f)
      \/ (vm' = vm \/ vm' = Launder(vm, s.m)) /\ Go(t, l)
  BY Zenon DEF InactiveDecide
<1>3. Continues(s, f) /\ f.pc = "inext" /\ Continues(s, l) /\ l.pc = "inext"
  BY <1>1 DEF ThreadSound, Continues, IdleThread
<1> HIDE DEF f, l
<1>4. CASE (~pg.valid \/ ~pg.dirty) /\ vm' = Free(vm, s.m) /\ Go(t, f)
  <2>1. Rests(f)
    BY <1>1, <1>3 DEF Rests, ThreadSound, Continues, RestPcs, UnlockedPcs
  <2>2. f.objLocked => th[t].objLocked /\ th[t].object = f.object
    BY <1>3 DEF Continues
  <2> QED BY <1>1, <1>4, <2>1, <2>2, FreeGood DEF DecidedPcs
<1>5. CASE (vm' = vm \/ vm' = Launder(vm, s.m)) /\ Go(t, l)
  <2>1. Same(vm, vm')
    BY <1>1, <1>5, SameRefl, LaunderSame
  <2> QED BY <1>1, <1>3, <1>5, <2>1, CalmSame, Continue DEF RestPcs, UnlockedPcs
<1> QED BY <1>2, <1>4, <1>5

\* The scan ends, pages put aside go back.
LEMMA InactiveEndGood ==
    ASSUME IInv, NEW t \in Thread, InactiveEnd(t) PROVE Good
<1> DEFINE a == ReinsertAll(vm, th[t].rq)
           b == ReinsertAll(a, th[t].bq)
           s == [IdleThread EXCEPT !.pc = "abegin"]
<1>1. vm' = vm_pageout_end_scan(b, "INACTIVE") /\ Go(t, s) /\ Objects
  BY QuietlyObjects DEF InactiveEnd, Quiet
<1>2. Same(vm, a)
  BY ReinsertAllSame DEF IInv
<1> HIDE DEF a
<1>3. Same(a, b)
  BY <1>2, ReinsertAllSame DEF Same
<1> HIDE DEF b
<1>4. Same(b, vm')
  BY <1>1, <1>3, ScanSame DEF Same
<1>5. Calmly(vm, vm')
  BY <1>2, <1>3, <1>4, SameTrans, CalmSame
<1>6. DOMAIN s = DOMAIN IdleThread /\ s.queue = "NONE" /\ s.flushing = {} /\ ~s.objLocked /\ s.pc = "abegin"
  BY DEF IdleThread
<1>7. s.queue \in Queue \cup {"NONE"} /\ s.pc \in RestPcs
  BY <1>6 DEF RestPcs
<1> HIDE DEF s
<1>8. Go(t, s) /\ Objects
  BY <1>1
<1>9. Rests(s)
  BY <1>6, <1>7 DEF Rests
<1> QED BY <1>5, <1>6, <1>8, <1>9, RestStep

-----------------------------------------------------------------------------
(* FreeBSD 12: the active queue. *)

\* vm_pageout_scan_active begins.
LEMMA ActiveBeginGood ==
    ASSUME IInv, NEW t \in Thread, ActiveBegin(t) PROVE Good
<1>1. PICK page_shortage \in Shortages, min_scan \in 0 .. vm.cnt["ACTIVE"] :
         LET max_scan == IF page_shortage > 0 THEN vm.cnt["ACTIVE"] ELSE min_scan
         IN  Go(t, [Scanning(th[t], "ACTIVE", max_scan)
                        EXCEPT !.left = page_shortage, !.pc = "anext"])
  BY DEF ActiveBegin
<1> DEFINE max_scan == IF page_shortage > 0 THEN vm.cnt["ACTIVE"] ELSE min_scan
           s == [Scanning(th[t], "ACTIVE", max_scan) EXCEPT !.left = page_shortage, !.pc = "anext"]
<1>2. Objects /\ th[t].pc \in {"idle", "abegin"} /\ ThreadSound(th[t])
  BY DEF ActiveBegin, Begin, IInv, Objects
<1>3. Calmly(vm, vm')
  BY ScanSame, CalmSame DEF ActiveBegin, IInv
<1>4. /\ DOMAIN s = DOMAIN IdleThread /\ s.queue = "ACTIVE" /\ ~s.objLocked
      /\ s.flushing = {} /\ s.pc = "anext"
  <2> HIDE DEF max_scan
  <2> QED BY <1>2 DEF Scanning, ThreadSound, IdleThread, UnlockedPcs
<1>5. Go(t, s)
  BY <1>1
<1> HIDE DEF s
<1>6. Rests(s)
  BY <1>4 DEF Rests, RestPcs, UnlockedPcs, Queue
<1> QED BY <1>2, <1>3, <1>4, <1>5, <1>6, RestStep

\* A thread goes on to lock its next page.
LEMMA NextPage ==
    ASSUME IInv, NEW t \in Thread, NEW s, Go(t, s), Objects, Calmly(vm, vm'),
           Continues(th[t], s), th[t].pc # "put", s.pc \in {"llock", "alock"}, s.m \in Page
    PROVE  Good
<1>1. ThreadSound(th[t])
  BY DEF IInv
<1>2. ThreadSound(s) /\ s.flushing \subseteq th[t].flushing /\ s.flushing = {}
  BY <1>1 DEF Continues, ThreadSound, UnlockedPcs, LockedPcs, CleanPcs, ClusterPcs, PagePcs
<1>3. \A p \in Page : Sees(version, s, p, vm'.page[p])
  BY <1>2 DEF Sees, LockedPcs, UnusedPcs, UnheldPcs, DecidedPcs, CleanPcs, ClusterPcs
<1>4. s.objLocked => ~ObjectTaken(t, s.object)
  BY AloneWithObject DEF Continues
<1> QED BY <1>2, <1>3, <1>4, ThreadStep DEF Go, Objects

\* The next page, where the clock hand may have to be moved.
LEMMA ActiveNextGood ==
    ASSUME IInv, NEW t \in Thread, ActiveNext(t) PROVE Good
<1> DEFINE r == vm_pageout_next(vm, th[t], FALSE)
           a == [r.v EXCEPT !.tq["ACTIVE"] = WrapClock(@)]
           wrapped == vm_pageout_end_scan(a, "ACTIVE")
           w == vm_pageout_init_scan(wrapped, "ACTIVE", Clock0)
           s == Scanning(r.s, "ACTIVE", r.s.maxscan - r.s.scanned)
           x == CASE r.s.m = NoPage -> "aend"
                  [] r.s.m \in Page -> "alock"
                  [] OTHER -> "anext"
           u == [ChangeLock(r.s) EXCEPT !.pc = x]
<1>1. th[t].pc = "anext" /\ Objects /\ VmTypes(vm) /\ ThreadSound(th[t])
  BY QuietlyObjects DEF ActiveNext, Quiet, IInv
<1>2. (vm' = w /\ Go(t, s)) \/ (vm' = r.v /\ Go(t, u))
  <2>1. \/ r.s.m = Clock1 /\ vm' = w /\ Go(t, s)
        \/ r.s.m # Clock1 /\ vm' = r.v /\ Go(t, u)
    BY Zenon DEF ActiveNext
  <2> HIDE DEF w, s, r, u
  <2> QED BY <2>1
<1>3. Same(vm, r.v) /\ Continues(th[t], r.s) /\ r.s.pc = "anext"
  <2>1. DOMAIN th[t] = DOMAIN IdleThread
    BY <1>1 DEF ThreadSound
  <2>2. Same(vm, r.v) /\ Continues(th[t], r.s) /\ r.s.pc = th[t].pc
    BY <1>1, <2>1, NextSame, ZenonT(60)
  <2> HIDE DEF r
  <2> QED BY <1>1, <2>2
<1>4. Same(vm, w)
  <2>1. Same(r.v, a)
    BY <1>3, SetQueues DEF Same
  <2> HIDE DEF a
  <2>2. Same(a, wrapped)
    BY <2>1, ScanSame DEF Same
  <2> HIDE DEF wrapped
  <2>3. Same(wrapped, w)
    BY <2>2, ScanSame DEF Same
  <2> HIDE DEF w
  <2> QED BY <1>3, <2>1, <2>2, <2>3, SameTrans
<1> HIDE DEF w
<1>5. CASE vm' = w /\ Go(t, s)
  <2>1. /\ DOMAIN s = DOMAIN IdleThread /\ s.queue = "ACTIVE" /\ s.flushing = {} /\ s.pc = "anext"
        /\ s.objLocked => th[t].objLocked /\ th[t].object = s.object
    <3> HIDE DEF r
    <3> QED BY <1>1, <1>3 DEF Scanning, Continues, IdleThread, ThreadSound
  <2> HIDE DEF s
  <2>2. Rests(s)
    BY <2>1 DEF Rests, RestPcs, UnlockedPcs, Queue
  <2> QED BY <1>1, <1>4, <1>5, <2>1, <2>2, CalmSame, RestStep
<1>6. CASE vm' = r.v /\ Go(t, u)
  <2>1. Continues(th[t], u) /\ u.pc = x /\ u.m = r.s.m
    <3> HIDE DEF r, x
    <3>1. Continues(th[t], ChangeLock(r.s)) /\ ChangeLock(r.s).m = r.s.m
      BY <1>3, ChangeLockContinues DEF ChangeLock, Continues, IdleThread
    <3> QED BY <3>1 DEF Continues, IdleThread
  <2>2. x \in {"aend", "anext"} \/ (x = "alock" /\ r.s.m \in Page)
    <3> HIDE DEF r, x
    <3>1. CASE r.s.m = NoPage
      <4>1. r.s.m \notin Page
        BY <3>1, PageAssumption DEF NoPage
      <4>2. x = "aend"
        BY <3>1, <4>1, Zenon DEF x
      <4> QED BY <4>2
    <3>2. CASE r.s.m # NoPage /\ r.s.m \in Page
      <4>1. x = "alock"
        BY <3>2, Zenon DEF x
      <4> QED BY <3>2, <4>1
    <3>3. CASE r.s.m # NoPage /\ r.s.m \notin Page
      <4>1. x = "anext"
        BY <3>3, Zenon DEF x
      <4> QED BY <4>1
    <3> QED BY <3>1, <3>2, <3>3
  <2>3. Calmly(vm, vm') /\ th[t].pc # "put"
    BY <1>1, <1>3, <1>6, CalmSame
  <2> HIDE DEF x, u, r
  <2>4. CASE x \in {"aend", "anext"}
    BY <1>1, <1>6, <2>1, <2>3, <2>4, Continue DEF RestPcs, UnlockedPcs
  <2>5. CASE x = "alock" /\ r.s.m \in Page
    BY <1>1, <1>6, <2>1, <2>3, <2>5, NextPage
  <2> QED BY <2>2, <2>4, <2>5
<1> QED BY <1>2, <1>5, <1>6

\* The age of a page.
LEMMA MinOfTwo ==
    ASSUME NEW a \in Nat, NEW b \in Nat
    PROVE  Min({a, b}) \in {a, b} /\ Min({a, b}) <= b
<1> DEFINE S == {a, b}
<1>1. S \in SUBSET Nat /\ S # {} /\ b \in S
  OBVIOUS
<1> HIDE DEF S
<1>2. Min(S) \in S /\ \A j \in S : Min(S) <= j
  BY <1>1, MinProperties
<1>3. Min(S) <= b
  BY <1>1, <1>2
<1> QED BY <1>2, <1>3 DEF S

\* The age stays in its field.
LEMMA NewAge ==
    ASSUME NEW pg \in PageRecord, NEW delta \in Nat
    PROVE  /\ Min({pg.act + ActAdvance + delta, ActMax}) \in 0 .. ActModulus - 1
           /\ Less(pg.act, ActDecline) \in 0 .. ActModulus - 1
           /\ Aged(pg, delta) \in 0 .. ActModulus - 1
<1>1. pg.act \in 0 .. ActModulus - 1
  BY DEF PageRecord
<1>2. /\ pg.act + ActAdvance + delta \in Nat /\ ActMax \in Nat /\ ActDecline \in Nat
      /\ ActMax < ActModulus /\ ActModulus \in Nat
  BY <1>1, ActAssumption
<1>3. Min({pg.act + ActAdvance + delta, ActMax}) \in 0 .. ActModulus - 1
  <2> DEFINE a == pg.act + ActAdvance + delta
             m == Min({a, ActMax})
  <2>1. a \in Nat
    BY <1>2
  <2> HIDE DEF a
  <2>2. m \in {a, ActMax} /\ m <= ActMax
    BY <1>2, <2>1, MinOfTwo
  <2> HIDE DEF m
  <2>3. m \in 0 .. ActModulus - 1
    BY <1>2, <2>1, <2>2
  <2> QED BY <2>3 DEF m, a
<1>4. Less(pg.act, ActDecline) \in 0 .. ActModulus - 1
  BY <1>1, <1>2 DEF Less
<1> QED BY <1>3, <1>4 DEF Aged

\* A page looked at on the active queue is given its age.
LEMMA AgeSame ==
    ASSUME NEW v, VmTypes(v), NEW p, NEW mappings \in BOOLEAN, NEW act,
           p \in Page => act \in 0 .. ActModulus - 1
    PROVE  Same(v, [v EXCEPT !.page[p] = [Forget(@, mappings) EXCEPT !.act = act]])
<1> DEFINE a == v.page[p]
           f == Forget(a, mappings)
           b == [f EXCEPT !.act = act]
<1>1. p \in Page => b \in PageRecord /\ Kept(a, b)
  <2>1. p \in Page => f \in PageRecord /\ Kept(a, f)
    BY ForgetKept DEF VmTypes
  <2> HIDE DEF f, a
  <2> QED BY <2>1 DEF PageRecord, Kept
<1>2. Same(v, [v EXCEPT !.page[p] = b])
  BY <1>1, PutSame
<1> QED BY <1>2

\* What the reference bits count is a number.
LEMMA DeltaNat == ASSUME NEW pg, NEW mappings PROVE ActDelta(pg, mappings) \in Nat
BY DEF ActDelta

\* The page is aged, and perhaps deactivated.
LEMMA ActivePageGood ==
    ASSUME IInv, NEW t \in Thread, ActivePage(t) PROVE Good
<1> DEFINE s == [th[t] EXCEPT !.mtx = th[t].m, !.pc = "anext"]
           pg == vm.page[s.m]
           mapped == Resident(s.m) /\ RefCount(pg.object) # 0
           delta == ActDelta(pg, mapped)
           act == IF delta # 0 THEN Min({pg.act + ActAdvance + delta, ActMax})
                  ELSE Less(pg.act, ActDecline)
           v == [vm EXCEPT !.page[s.m] = [Forget(@, mapped) EXCEPT !.act = act]]
           l1 == [s EXCEPT !.left = Less(@, act_scan_laundry_weight)]
           l2 == [s EXCEPT !.left = Less(@, 1)]
<1>1. th[t].pc = "alock" /\ Objects /\ VmTypes(vm) /\ ThreadSound(th[t])
  BY QuietlyObjects DEF ActivePage, Quiet, IInv
<1>2. /\ \/ vm' = vm \/ vm' = DequeueDeferred(vm, s.m) \/ vm' = v
         \/ vm' = Deactivate(v, s.m) \/ vm' = Launder(v, s.m)
      /\ Go(t, s) \/ Go(t, l1) \/ Go(t, l2)
  BY Zenon DEF ActivePage
<1>3. /\ Continues(th[t], s) /\ s.pc = "anext" /\ Continues(th[t], l1) /\ l1.pc = "anext"
      /\ Continues(th[t], l2) /\ l2.pc = "anext" /\ s.m = th[t].m
  BY <1>1 DEF ThreadSound, Continues, IdleThread
<1>4. Same(vm, v)
  <2>1. s.m \in Page => act \in 0 .. ActModulus - 1
    <3>1. s.m \in Page => pg \in PageRecord
      BY <1>1 DEF VmTypes
    <3>2. delta \in Nat
      BY DeltaNat
    <3> HIDE DEF s, pg, delta
    <3> QED BY <3>1, <3>2, NewAge
  <2>2. mapped \in BOOLEAN
    OBVIOUS
  <2> HIDE DEF act, mapped, s
  <2> QED BY <1>1, <2>1, <2>2, AgeSame
<1> HIDE DEF v, s, l1, l2
<1>5. Same(vm, vm')
  <2>1. Same(v, Deactivate(v, s.m)) /\ Same(v, Launder(v, s.m))
    BY <1>4, DeactivateSame, LaunderSame DEF Same
  <2>2. Same(vm, vm) /\ Same(vm, DequeueDeferred(vm, s.m))
    BY <1>1, SameRefl, DequeueDeferredSame
  <2>3. Same(vm, Deactivate(v, s.m)) /\ Same(vm, Launder(v, s.m))
    BY <1>4, <2>1, SameTrans
  <2> QED BY <1>2, <1>4, <2>2, <2>3
<1>6. th[t].pc # "put" /\ "anext" \in RestPcs \ UnlockedPcs /\ Calmly(vm, vm')
  BY <1>1, <1>5, CalmSame DEF RestPcs, UnlockedPcs
<1> QED BY <1>1, <1>2, <1>3, <1>6, Continue

\* The scan ends.
LEMMA ActiveEndGood ==
    ASSUME IInv, NEW t \in Thread, ActiveEnd(t) PROVE Good
<1> DEFINE a == [vm EXCEPT !.tq["ACTIVE"] = InsertAfter(Remove(@, Clock0), Marker, Clock0)]
<1>1. vm' = vm_pageout_end_scan(a, "ACTIVE") /\ Go(t, IdleThread) /\ Objects
  BY QuietlyObjects DEF ActiveEnd, Quiet
<1>2. Same(vm, a)
  BY SetQueues DEF IInv
<1> HIDE DEF a
<1>3. Same(a, vm')
  BY <1>1, <1>2, ScanSame DEF Same
<1>4. Calmly(vm, vm')
  BY <1>2, <1>3, SameTrans, CalmSame
<1>5. Rests(IdleThread) /\ ~IdleThread.objLocked
  BY DEF Rests, IdleThread, RestPcs
<1> QED BY <1>1, <1>4, <1>5, RestStep

-----------------------------------------------------------------------------
(* FreeBSD 12: the laundry. *)

\* A scan of the laundry begins on one of its queues.
LEMMA LaunderScanGood ==
    ASSUME IInv, NEW t \in Thread, NEW s, NEW v, NEW q \in Queue,
           LaunderScan(t, s, v, q), Objects, Same(vm, v),
           DOMAIN s = DOMAIN IdleThread, s.flushing = {}, ~s.objLocked
    PROVE  Good
<1> DEFINE u == [Scanning(s, q, v.cnt[q]) EXCEPT !.pc = "lnext"]
<1>1. vm' = vm_pageout_init_scan(v, q, NoPage) /\ Go(t, u)
  BY DEF LaunderScan
<1>2. Calmly(vm, vm')
  <2>1. Same(v, vm')
    BY <1>1, ScanSame DEF Same
  <2> QED BY <2>1, SameTrans, CalmSame
<1>3. /\ DOMAIN u = DOMAIN IdleThread /\ u.queue = q /\ u.flushing = {} /\ ~u.objLocked
      /\ u.pc = "lnext"
  BY DEF Scanning, IdleThread
<1> HIDE DEF u
<1>4. Rests(u)
  BY <1>3 DEF Rests, RestPcs
<1> QED BY <1>1, <1>2, <1>3, <1>4, RestStep

\* vm_pageout_launder begins.
LEMMA LaunderBeginGood ==
    ASSUME IInv, NEW t \in Thread, LaunderBegin(t) PROVE Good
<1>1. PICK n \in Shortages \ {0}, in_shortfall \in BOOLEAN :
         LaunderScan(t, [th[t] EXCEPT !.left = n, !.shortfall = in_shortfall], vm,
                     IF knob.swapdev THEN "UNSWAPPABLE" ELSE "LAUNDRY")
  BY DEF LaunderBegin
<1> DEFINE s == [th[t] EXCEPT !.left = n, !.shortfall = in_shortfall]
           q == IF knob.swapdev THEN "UNSWAPPABLE" ELSE "LAUNDRY"
<1>2. Objects /\ th[t].pc = "idle" /\ ThreadSound(th[t])
  BY DEF LaunderBegin, Begin, IInv, Objects
<1>3. DOMAIN s = DOMAIN IdleThread /\ s.flushing = {} /\ ~s.objLocked
  BY <1>2 DEF ThreadSound, IdleThread, UnlockedPcs
<1>4. q \in Queue /\ Same(vm, vm)
  BY SameRefl DEF Queue, IInv
<1>5. LaunderScan(t, s, vm, q)
  BY <1>1
<1> HIDE DEF s, q
<1> QED BY <1>2, <1>3, <1>4, <1>5, LaunderScanGood

\* The next page, of this queue or the next one.
LEMMA LaunderNextGood ==
    ASSUME IInv, NEW t \in Thread, LaunderNext(t) PROVE Good
<1> DEFINE r == IF th[t].left > 0 THEN vm_pageout_next(vm, th[t], FALSE)
                ELSE [v |-> vm, s |-> [th[t] EXCEPT !.m = NoPage]]
           x == CASE r.s.m = NoPage -> "lend"
                  [] r.s.m \in Page -> "llock"
                  [] OTHER -> "lnext"
           u == [ChangeLock(r.s) EXCEPT !.pc = x]
<1>1. th[t].pc = "lnext" /\ vm' = r.v /\ Go(t, u) /\ Objects
  <2>1. th[t].pc = "lnext" /\ vm' = r.v /\ Go(t, u) /\ Quiet
    BY Zenon DEF LaunderNext
  <2> HIDE DEF r, u
  <2> QED BY <2>1, QuietlyObjects DEF Quiet
<1>2. VmTypes(vm) /\ DOMAIN th[t] = DOMAIN IdleThread
  BY DEF IInv, ThreadSound
<1>3. Same(vm, r.v) /\ Continues(th[t], r.s)
  <2>1. CASE th[t].left > 0
    BY <1>2, <2>1, NextSame
  <2>2. CASE ~(th[t].left > 0)
    <3>1. r.v = vm /\ r.s = [th[t] EXCEPT !.m = NoPage]
      BY <2>2
    <3> HIDE DEF r
    <3> QED BY <1>2, <3>1, SameRefl DEF Continues, IdleThread
  <2> QED BY <2>1, <2>2
<1> HIDE DEF r
<1>4. Continues(th[t], u) /\ u.pc = x /\ u.m = r.s.m
  <2> HIDE DEF x
  <2>1. Continues(th[t], ChangeLock(r.s)) /\ ChangeLock(r.s).m = r.s.m
    BY <1>3, ChangeLockContinues DEF ChangeLock, Continues, IdleThread
  <2> QED BY <2>1 DEF Continues, IdleThread
<1>5. x \in {"lend", "lnext"} \/ (x = "llock" /\ r.s.m \in Page)
  <2> HIDE DEF x
  <2>1. CASE r.s.m = NoPage
    <3>1. r.s.m \notin Page
      BY <2>1, PageAssumption DEF NoPage
    <3>2. x = "lend"
      BY <2>1, <3>1, Zenon DEF x
    <3> QED BY <3>2
  <2>2. CASE r.s.m # NoPage /\ r.s.m \in Page
    <3>1. x = "llock"
      BY <2>2, Zenon DEF x
    <3> QED BY <2>2, <3>1
  <2>3. CASE r.s.m # NoPage /\ r.s.m \notin Page
    <3>1. x = "lnext"
      BY <2>3, Zenon DEF x
    <3> QED BY <3>1
  <2> QED BY <2>1, <2>2, <2>3
<1>6. Calmly(vm, vm') /\ th[t].pc # "put"
  BY <1>1, <1>3, CalmSame
<1> HIDE DEF x, u
<1>7. CASE x \in {"lend", "lnext"}
  BY <1>1, <1>4, <1>6, <1>7, Continue DEF RestPcs, UnlockedPcs
<1>8. CASE x = "llock" /\ r.s.m \in Page
  BY <1>1, <1>4, <1>6, <1>8, NextPage
<1> QED BY <1>5, <1>7, <1>8

\* The page under its lock.
LEMMA LaunderPageGood ==
    ASSUME IInv, NEW t \in Thread, LaunderPage(t) PROVE Good
<1> DEFINE s == [th[t] EXCEPT !.mtx = th[t].m]
           pg == vm.page[s.m]
           next == [s EXCEPT !.pc = "lnext"]
<1>1. ThreadSound(th[t]) /\ VmTypes(vm) /\ Objects
  BY QuietlyObjects DEF IInv, LaunderPage
<1>2. s.pc = "llock"
  BY DEF LaunderPage
<1>3. \/ Go(t, next) /\ (vm' = vm \/ vm' = Requeue(vm, s.m) \/ vm' = DequeueDeferred(vm, s.m))
      \/ ~pg.hold /\ ~pg.wire /\ LockObject(t, s, "lref", "lobj") /\ vm' = vm
  BY Zenon DEF LaunderPage, Held
<1>4. /\ Continues(th[t], s) /\ s.pc = th[t].pc /\ s.m = th[t].m /\ s.mtx = s.m
      /\ Continues(th[t], next) /\ next.pc = "lnext"
  BY <1>1 DEF ThreadSound, Continues, IdleThread
<1> HIDE DEF s, next
<1>5. CASE Go(t, next) /\ (vm' = vm \/ vm' = Requeue(vm, s.m) \/ vm' = DequeueDeferred(vm, s.m))
  <2>1. Same(vm, vm')
    BY <1>1, <1>5, SameRefl, RequeueSame, DequeueDeferredSame
  <2> QED BY <1>1, <1>2, <1>4, <1>5, <2>1, CalmSame, Continue DEF RestPcs, UnlockedPcs
<1>6. CASE ~pg.hold /\ ~pg.wire /\ LockObject(t, s, "lref", "lobj") /\ vm' = vm
  <2>1. s.m \in Page
    BY <1>1, <1>2, <1>4 DEF ThreadSound, PagePcs
  <2> QED BY <1>1, <1>2, <1>4, <1>6, <2>1, LockObjectGood
<1> QED BY <1>3, <1>5, <1>6

\* What was referenced is activated or put aside.
LEMMA LaunderReferencedGood ==
    ASSUME IInv, NEW t \in Thread, LaunderReferenced(t), version = 12 PROVE Good
<1> DEFINE s == th[t]
           pg == vm.page[s.m]
           mapped == RefCount(s.object) # 0
           delta == ActDelta(pg, mapped)
           v == [vm EXCEPT !.page[s.m] = Forget(@, mapped)]
           x == IF mapped THEN "ltest" ELSE "ldecide"
           act == Advance(Activate(v, s.m), s.m, delta + ActAdvance)
           n1 == [s EXCEPT !.pc = "lnext"]
           n2 == [s EXCEPT !.left = IF s.shortfall THEN @ ELSE @ - 1, !.pc = "lnext"]
<1>1. ThreadSound(th[t]) /\ VmTypes(vm) /\ Objects /\ s.pc = "lref" /\ s.pc \in LockedPcs
  BY QuietlyObjects DEF IInv, LaunderReferenced, Quiet, LockedPcs
<1>2. Same(vm, v)
  BY <1>1, ForgetSame
<1>3. \/ vm' = vm /\ Go(t, n1)
      \/ pg.busy = "no" /\ ~pg.valid /\ Go(t, [s EXCEPT !.pc = "ldecide"]) /\ vm' = vm
      \/ vm' = act /\ Go(t, n2)
      \/ vm' = Requeue(v, s.m) /\ Go(t, n1)
      \/ pg.busy = "no" /\ vm' = v /\ Go(t, [s EXCEPT !.pc = x])
  BY Zenon DEF LaunderReferenced
<1>5. Same(vm, act)
  <2> DEFINE a == Activate(v, s.m)
  <2>1. delta + ActAdvance \in Nat
    BY ActAssumption DEF ActDelta
  <2> HIDE DEF v, delta
  <2>2. Same(v, a)
    BY <1>2, ActivateSame DEF Same
  <2> HIDE DEF a
  <2>3. Same(a, Advance(a, s.m, delta + ActAdvance))
    BY <2>1, <2>2, AdvanceSame DEF Same
  <2> QED BY <1>2, <2>2, <2>3, SameTrans DEF a
<1>6. Continues(s, n1) /\ n1.pc = "lnext" /\ Continues(s, n2) /\ n2.pc = "lnext"
  BY <1>1 DEF ThreadSound, Continues, IdleThread
<1>7. s.m \in Page /\ ~pg.hold /\ ~pg.wire
  BY <1>1 DEF IInv, Sees, UnheldPcs, LockedPcs, ThreadSound, PagePcs
<1> HIDE DEF v, act, n1, n2
<1>8. CASE \/ vm' = vm /\ Go(t, n1)
           \/ vm' = act /\ Go(t, n2)
           \/ vm' = Requeue(v, s.m) /\ Go(t, n1)
  <2>1. Same(v, Requeue(v, s.m))
    BY <1>2, RequeueSame DEF Same
  <2>2. Same(vm, vm')
    BY <1>1, <1>2, <1>5, <1>8, <2>1, SameRefl, SameTrans
  <2> QED BY <1>1, <1>6, <1>8, <2>2, CalmSame, Continue DEF RestPcs, UnlockedPcs
<1>9. CASE pg.busy = "no" /\ ~pg.valid /\ Go(t, [s EXCEPT !.pc = "ldecide"]) /\ vm' = vm
  BY <1>1, <1>7, <1>9, SameRefl, GoOnGood
<1>12. CASE pg.busy = "no" /\ vm' = v /\ Go(t, [s EXCEPT !.pc = x])
  <2>1. x \in {"ltest", "ldecide"} /\ (x = "ldecide" => RefCount(s.object) = 0)
    OBVIOUS
  <2> HIDE DEF x
  <2> QED BY <1>1, <1>2, <1>7, <1>12, <2>1, GoOnGood
<1> QED BY <1>3, <1>8, <1>9, <1>12

\* A dirty page that is to be written: its thread enters vm_pageout_clean.
LEMMA ToCleanGood ==
    ASSUME IInv, NEW t \in Thread, th[t].pc \in {"ldecide", "decide"}, th[t].m \in Page,
           vm.page[th[t].m].valid, vm' = vm, Go(t, [th[t] EXCEPT !.pc = "clean"]), Objects
    PROVE  Good
<1>1. Sees(version, th[t], th[t].m, vm.page[th[t].m]) /\ PageSound(vm.page[th[t].m])
  BY DEF IInv
<1>2. th[t].object # NoObject /\ vm.page[th[t].m].busy = "no"
  BY <1>1 DEF Sees, PageSound, LockedPcs, UnusedPcs
<1>3. Seen(version, "clean", vm'.page[th[t].m])
  BY <1>1, <1>2 DEF Seen, UnheldPcs, DecidedPcs, LockedPcs
<1>4. "clean" \in LockedPcs /\ th[t].pc \in LockedPcs
  BY DEF LockedPcs
<1> QED BY <1>2, <1>3, <1>4, CalmSelf, LockedStep

\* A clean page is freed, a dirty one is to be written.
LEMMA LaunderDecideGood ==
    ASSUME IInv, NEW t \in Thread, LaunderDecide(t) PROVE Good
<1> DEFINE s == th[t]
           pg == vm.page[s.m]
           n == [s EXCEPT !.pc = "lnext"]
<1>1. ThreadSound(th[t]) /\ VmTypes(vm) /\ Objects /\ s.pc = "ldecide"
  BY QuietlyObjects DEF IInv, LaunderDecide, Quiet
<1>2. \/ (~pg.valid \/ ~pg.dirty) /\ vm' = Free(vm, s.m) /\ Go(t, n)
      \/ (vm' = vm \/ vm' = Requeue(vm, s.m)) /\ Go(t, n)
      \/ pg.valid /\ vm' = vm /\ Go(t, [s EXCEPT !.pc = "clean"])
  BY Zenon DEF LaunderDecide
<1>3. Continues(s, n) /\ n.pc = "lnext" /\ s.m \in Page
  BY <1>1 DEF ThreadSound, Continues, IdleThread, PagePcs, LockedPcs
<1> HIDE DEF n
<1>4. CASE (~pg.valid \/ ~pg.dirty) /\ vm' = Free(vm, s.m) /\ Go(t, n)
  <2>1. Rests(n)
    BY <1>1, <1>3 DEF Rests, ThreadSound, Continues, RestPcs, UnlockedPcs
  <2>2. n.objLocked => th[t].objLocked /\ th[t].object = n.object
    BY <1>3 DEF Continues
  <2> QED BY <1>1, <1>4, <2>1, <2>2, FreeGood DEF DecidedPcs
<1>5. CASE (vm' = vm \/ vm' = Requeue(vm, s.m)) /\ Go(t, n)
  <2>1. Same(vm, vm')
    BY <1>1, <1>5, SameRefl, RequeueSame
  <2> QED BY <1>1, <1>3, <1>5, <2>1, CalmSame, Continue DEF RestPcs, UnlockedPcs
<1>6. CASE pg.valid /\ vm' = vm /\ Go(t, [s EXCEPT !.pc = "clean"])
  BY <1>1, <1>3, <1>6, ToCleanGood
<1> QED BY <1>2, <1>4, <1>5, <1>6

\* A thread that waits for work relies on nothing.
LEMMA IdleRests ==
    /\ Rests(IdleThread) /\ ~IdleThread.objLocked
    /\ Rests([IdleThread EXCEPT !.pc = "abegin"]) /\ ~[IdleThread EXCEPT !.pc = "abegin"].objLocked
BY DEF Rests, IdleThread, RestPcs

\* The scan ends.
LEMMA LaunderEndGood ==
    ASSUME IInv, NEW t \in Thread, LaunderEnd(t) PROVE Good
<1> DEFINE s == Unlocked(th[t])
           v == vm_pageout_end_scan(vm, s.queue)
<1>1. ThreadSound(th[t]) /\ VmTypes(vm) /\ Objects /\ s.pc = "lend"
  BY QuietlyObjects DEF IInv, LaunderEnd, Quiet
<1>2. LaunderScan(t, s, v, "LAUNDRY") \/ (vm' = v /\ Go(t, IdleThread))
  BY DEF LaunderEnd
<1>3. DOMAIN s = DOMAIN IdleThread /\ s.flushing = {} /\ ~s.objLocked
  BY <1>1 DEF ThreadSound, Unlocked, IdleThread
<1>4. Same(vm, v)
  BY <1>1, ScanSame
<1> HIDE DEF s, v
<1>5. CASE LaunderScan(t, s, v, "LAUNDRY")
  BY <1>1, <1>3, <1>4, <1>5, LaunderScanGood DEF Queue
<1>6. CASE vm' = v /\ Go(t, IdleThread)
  BY <1>1, <1>4, <1>6, CalmSame, IdleRests, RestStep
<1> QED BY <1>2, <1>5, <1>6

-----------------------------------------------------------------------------
(* Cleaning a cluster of pages. *)

\* One thread moves, and no page changes its object.
LEMMA StirStep ==
    ASSUME IInv, NEW t \in Thread, NEW s, Go(t, s), Objects, VmTypes(vm'),
           \A p \in Page :
              /\ vm'.page[p].object = vm.page[p].object /\ PageSound(vm'.page[p])
              /\ vm.page[p].mapped = "no" => vm'.page[p].mapped = "no"
              /\ \A u \in Thread : u # t => Sees(version, th[u], p, vm'.page[p]),
           ThreadSound(s), \A p \in Page : Sees(version, s, p, vm'.page[p]),
           s.objLocked => ~ObjectTaken(t, s.object),
           \A u \in Thread : u # t => s.flushing \cap th[u].flushing = {}
    PROVE  Good
<1>1. th'[t] = s /\ \A u \in Thread : u # t => th'[u] = th[u]
  BY DEF IInv, Go
<1>2. th' = [u \in Thread |-> th'[u]]
  BY DEF IInv, Go
<1>3. ASSUME NEW p \in Page
      PROVE  PageSound(vm'.page[p]) /\ (Resident(p) /\ vm.page[p].mapped # "no" => ObjectOf(p).users)'
  <2>1. Resident(p) => vm.page[p].object \in Object
    BY DEF IInv, VmTypes, PageRecord, Resident
  <2> QED BY <2>1 DEF IInv, Objects, Resident, ObjectOf
<1>4. ASSUME NEW u \in Thread
      PROVE  ThreadSound(th'[u]) /\ \A p \in Page : Sees(version', th'[u], p, vm'.page[p])
  BY <1>1 DEF IInv, Objects
<1>5. ASSUME NEW u \in Thread, NEW w \in Thread, u # w
      PROVE  /\ ~(th'[u].objLocked /\ th'[w].objLocked /\ th'[u].object = th'[w].object)
             /\ th'[u].flushing \cap th'[w].flushing = {}
  <2>1. CASE u = t
    BY <2>1, <1>1, <1>5 DEF IInv, ObjectTaken
  <2>2. CASE w = t
    BY <2>2, <1>1, <1>5 DEF IInv, ObjectTaken
  <2>3. CASE u # t /\ w # t
    BY <2>3, <1>1, <1>5 DEF IInv
  <2> QED BY <2>1, <2>2, <2>3
<1>6. IInv'
  BY <1>2, <1>3, <1>4, <1>5 DEF IInv, Objects
<1>7. TakenRightly
  BY DEF TakenRightly
<1> QED BY <1>6, <1>7 DEF Good

\* The end of vm_pageout_clean, when no page changed but calmly.
LEMMA DoneRests ==
    ASSUME IInv, NEW t \in Thread, NEW n, CleanDone(t, n)
    PROVE  Objects /\ \E s : Go(t, s) /\ Rests(s) /\ ~s.objLocked
<1> DEFINE a == Counting(th[t], n)
           b == Unlocked(a)
           x == IF version = 12 THEN "lnext" ELSE "relock"
           s == [b EXCEPT !.refd = FALSE, !.cluster = << >>, !.back = FALSE,
                          !.flushing = {}, !.pc = x]
<1>1. Go(t, IdleThread) \/ Go(t, s)
  BY Zenon DEF CleanDone
<1>2. DOMAIN th[t] = DOMAIN IdleThread /\ th[t].queue \in Queue \cup {"NONE"}
  BY DEF IInv, ThreadSound
<1>3. DOMAIN a = DOMAIN IdleThread /\ a.queue = th[t].queue
  <2> DEFINE l == Less(th[t].left, IF version = 10 THEN Once(n) ELSE n)
             m == Less(th[t].maxlaunder, Once(n))
             k == CASE version = 12 -> th[t].scanned + n
                    [] version = 11 -> th[t].scanned + Less(n, 1)
                    [] version = 10 -> th[t].scanned
  <2>1. a = [th[t] EXCEPT !.left = l, !.maxlaunder = m, !.scanned = k]
    BY Zenon DEF Counting
  <2> HIDE DEF l, m, k, a
  <2> QED BY <1>2, <2>1 DEF IdleThread
<1> HIDE DEF a
<1>4. DOMAIN b = DOMAIN IdleThread /\ b.queue = th[t].queue /\ ~b.objLocked
  BY <1>2, <1>3 DEF Unlocked, IdleThread
<1> HIDE DEF b
<1>5. x \in {"lnext", "relock"}
  OBVIOUS
<1> HIDE DEF x
<1>6. /\ DOMAIN s = DOMAIN IdleThread /\ s.queue = th[t].queue /\ ~s.objLocked
      /\ s.flushing = {} /\ s.pc = x
  BY <1>4 DEF IdleThread
<1> HIDE DEF s
<1>7. Rests(s)
  BY <1>2, <1>5, <1>6 DEF Rests, RestPcs
<1>8. Objects
  <2>1. version' = version /\ (obj' = obj \/ obj' = [obj EXCEPT ![th[t].object].dead = TRUE])
    BY DEF CleanDone
  <2>2. obj \in [Object -> ObjectRecord]
    BY DEF IInv
  <2> DEFINE d == [obj EXCEPT ![th[t].object].dead = TRUE]
  <2>3. d \in [Object -> ObjectRecord]
    BY <2>2 DEF ObjectRecord
  <2>4. \A y \in Object : d[y].users = obj[y].users
    BY <2>2 DEF ObjectRecord
  <2> HIDE DEF d
  <2>5. obj' = obj \/ obj' = d
    BY <2>1 DEF d
  <2> QED BY <2>1, <2>2, <2>3, <2>4, <2>5 DEF Objects
<1>9. CASE Go(t, IdleThread)
  BY <1>8, <1>9, IdleRests
<1>10. CASE Go(t, s)
  BY <1>6, <1>7, <1>8, <1>10
<1> QED BY <1>1, <1>9, <1>10

\* The same, as a step.
LEMMA CleanDoneGood ==
    ASSUME IInv, NEW t \in Thread, NEW n, CleanDone(t, n), Calmly(vm, vm') PROVE Good
<1>1. PICK s : Objects /\ Go(t, s) /\ Rests(s) /\ ~s.objLocked
  BY DoneRests
<1> QED BY <1>1, RestStep

\* What a thread knows of the page it is to write and of its object.
LEMMA KnowsPage ==
    ASSUME IInv, NEW t \in Thread, th[t].pc \in CleanPcs \cup {"held"}
    PROVE  /\ th[t].m \in Page /\ th[t].flushing = {} /\ DOMAIN th[t] = DOMAIN IdleThread
           /\ th[t].queue \in Queue \cup {"NONE"}
           /\ Sees(version, th[t], th[t].m, vm.page[th[t].m])
           /\ vm.page[th[t].m] \in PageRecord /\ PageSound(vm.page[th[t].m])
<1>1. ThreadSound(th[t])
  BY DEF IInv
<1>2. th[t].m \in Page /\ th[t].pc # "put"
  BY <1>1 DEF ThreadSound, PagePcs, CleanPcs
<1> QED BY <1>1, <1>2 DEF IInv, ThreadSound, VmTypes

\* Between the locks: the page is remembered, and that it was valid.
LEMMA BetweenStep ==
    ASSUME IInv, NEW t \in Thread, NEW s, Go(t, s), Objects, vm' = vm,
           th[t].pc \in CleanPcs, s.pc \in CleanPcs \ LockedPcs,
           DOMAIN s = DOMAIN IdleThread, s.queue = th[t].queue, s.m = th[t].m,
           s.object = th[t].object, s.flushing = th[t].flushing,
           s.objLocked => ~ObjectTaken(t, s.object),
           s.objLocked <=> s.pc \in {"recheck", "vpage", "vqueue"},
           s.pc = "vqueue" => s.mtx = s.m
    PROVE  Good
<1>1. /\ th[t].m \in Page /\ th[t].flushing = {}
      /\ Sees(version, th[t], th[t].m, vm.page[th[t].m])
      /\ th[t].queue \in Queue \cup {"NONE"}
  BY KnowsPage
<1>2. ThreadSound(th[t])
  BY DEF IInv
<1>3. ThreadSound(s)
  BY <1>1, <1>2 DEF ThreadSound, CleanPcs, LockedPcs, ClusterPcs, UnlockedPcs, PagePcs
<1>4. ASSUME NEW p \in Page PROVE Sees(version, s, p, vm'.page[p])
  <2>1. s.m = p /\ vm'.page[p].object = s.object => vm'.page[p].valid
    BY <1>1 DEF Sees
  <2>2. /\ s.pc \notin LockedPcs \cup ClusterPcs \cup {"severe", "ref"} /\ s.pc \notin UnusedPcs
        /\ s.pc \notin UnheldPcs /\ s.pc \notin DecidedPcs
    BY DEF CleanPcs, LockedPcs, ClusterPcs, UnusedPcs, UnheldPcs, DecidedPcs
  <2> QED BY <1>1, <2>1, <2>2 DEF Sees
<1>5. s.flushing \subseteq th[t].flushing
  OBVIOUS
<1> QED BY <1>3, <1>4, <1>5, CalmSelf, ThreadStep DEF Go, Objects

\* Both locks are held again, or still: the cluster is to be formed.
LEMMA LockedAgain ==
    ASSUME IInv, NEW t \in Thread, NEW s, Go(t, s), Objects, vm' = vm,
           th[t].pc \in CleanPcs, s.pc = "cluster",
           DOMAIN s = DOMAIN IdleThread, s.queue = th[t].queue, s.m = th[t].m,
           s.object = th[t].object, s.flushing = th[t].flushing,
           s.objLocked, th[t].objLocked, s.mtx = s.m,
           vm.page[s.m].object = s.object, vm.page[s.m].busy = "no"
    PROVE  Good
<1>1. /\ th[t].m \in Page /\ th[t].flushing = {}
      /\ Sees(version, th[t], th[t].m, vm.page[th[t].m])
      /\ th[t].queue \in Queue \cup {"NONE"}
  BY KnowsPage
<1>2. ThreadSound(th[t])
  BY DEF IInv
<1>3. ThreadSound(s)
  BY <1>1, <1>2 DEF ThreadSound, CleanPcs, LockedPcs, ClusterPcs, UnlockedPcs, PagePcs
<1>4. ASSUME NEW p \in Page PROVE Sees(version, s, p, vm'.page[p])
  <2>1. s.m = p => vm'.page[p].valid /\ vm'.page[p].object = s.object /\ vm'.page[p].busy = "no"
    BY <1>1 DEF Sees
  <2> QED BY <1>1, <2>1 DEF Sees, CleanPcs, LockedPcs, ClusterPcs, UnusedPcs, UnheldPcs, DecidedPcs
<1>5. s.flushing \subseteq th[t].flushing /\ ~ObjectTaken(t, s.object)
  BY AloneWithObject
<1> QED BY <1>3, <1>4, <1>5, CalmSelf, ThreadStep DEF Go, Objects

\* vm_pageout_clean gives the page lock up, and for a vnode the object lock too.
LEMMA CleanStartGood ==
    ASSUME IInv, NEW t \in Thread, CleanStart(t) PROVE Good
<1> DEFINE a == [th[t] EXCEPT !.pc = "cluster"]
           b == [th[t] EXCEPT !.mtx = NoPage, !.refd = TRUE, !.objLocked = FALSE, !.pc = "vget"]
<1>1. th[t].pc = "clean" /\ vm' = vm
  BY DEF CleanStart
<1>2. (Go(t, a) /\ Quiet) \/ CleanDone(t, 0) \/ (Go(t, b) /\ Quiet)
  BY DEF CleanStart
<1>3. th[t].pc \in CleanPcs /\ th[t].pc \in LockedPcs /\ ThreadSound(th[t])
  BY <1>1 DEF CleanPcs, LockedPcs, IInv
<1>4. /\ DOMAIN th[t] = DOMAIN IdleThread /\ th[t].m \in Page
      /\ Sees(version, th[t], th[t].m, vm.page[th[t].m])
  BY <1>3, KnowsPage
<1>5. CASE Go(t, a) /\ Quiet
  <2>1. /\ a.pc = "cluster" /\ DOMAIN a = DOMAIN IdleThread /\ a.queue = th[t].queue
        /\ a.m = th[t].m /\ a.object = th[t].object /\ a.flushing = th[t].flushing
        /\ a.objLocked = th[t].objLocked /\ a.mtx = th[t].mtx
    BY <1>4 DEF IdleThread
  <2>2. th[t].objLocked /\ th[t].mtx = th[t].m
    BY <1>3 DEF ThreadSound
  <2>3. vm.page[th[t].m].object = th[t].object /\ vm.page[th[t].m].busy = "no"
    BY <1>1, <1>4 DEF Sees, LockedPcs, UnusedPcs
  <2> HIDE DEF a
  <2>4. Objects
    BY <1>5, QuietlyObjects DEF Quiet
  <2> QED BY <1>1, <1>3, <1>5, <2>1, <2>2, <2>3, <2>4, LockedAgain
<1>6. CASE Go(t, b) /\ Quiet
  <2>1. /\ b.pc = "vget" /\ DOMAIN b = DOMAIN IdleThread /\ b.queue = th[t].queue
        /\ b.m = th[t].m /\ b.object = th[t].object /\ b.flushing = th[t].flushing
        /\ ~b.objLocked
    BY <1>4 DEF IdleThread
  <2> HIDE DEF b
  <2>2. b.pc \in CleanPcs \ LockedPcs
    BY <2>1 DEF CleanPcs, LockedPcs
  <2>3. Objects
    BY <1>6, QuietlyObjects DEF Quiet
  <2> QED BY <1>1, <1>3, <1>6, <2>1, <2>2, <2>3, BetweenStep
<1>7. CASE CleanDone(t, 0)
  BY <1>1, <1>7, CalmSelf, CleanDoneGood
<1> QED BY <1>2, <1>5, <1>6, <1>7

\* vget sleeps, and the page is looked up again.
LEMMA CleanVgetGood ==
    ASSUME IInv, NEW t \in Thread, CleanVget(t) PROVE Good
<1> DEFINE b == [th[t] EXCEPT !.objLocked = TRUE, !.pc = "recheck"]
<1>1. th[t].pc = "vget" /\ vm' = vm
  BY DEF CleanVget
<1>2. CleanDone(t, 0) \/ (~ObjectLocked(th[t].object) /\ Go(t, b) /\ Quiet)
  BY DEF CleanVget
<1>3. th[t].pc \in CleanPcs
  BY <1>1 DEF CleanPcs
<1>4. CASE ~ObjectLocked(th[t].object) /\ Go(t, b) /\ Quiet
  <2>0. DOMAIN th[t] = DOMAIN IdleThread
    BY <1>3, KnowsPage
  <2>1. /\ b.pc = "recheck" /\ DOMAIN b = DOMAIN IdleThread /\ b.queue = th[t].queue
        /\ b.m = th[t].m /\ b.object = th[t].object /\ b.flushing = th[t].flushing
        /\ b.objLocked
    BY <2>0 DEF IdleThread
  <2> HIDE DEF b
  <2>2. b.pc \in CleanPcs \ LockedPcs
    BY <2>1 DEF CleanPcs, LockedPcs
  <2>3. Objects
    BY <1>4, QuietlyObjects DEF Quiet
  <2>4. ~ObjectTaken(t, b.object)
    BY <1>4, <2>1 DEF ObjectTaken, ObjectLocked
  <2> QED BY <1>1, <1>3, <1>4, <2>1, <2>2, <2>3, <2>4, BetweenStep
<1>5. CASE CleanDone(t, 0)
  BY <1>1, <1>5, CalmSelf, CleanDoneGood
<1> QED BY <1>2, <1>4, <1>5

\* The page may have moved, been freed or pinned: it is tested again.
LEMMA CleanPageGood ==
    ASSUME IInv, NEW t \in Thread, CleanPage(t) PROVE Good
<1> DEFINE s == [th[t] EXCEPT !.mtx = th[t].m, !.pc = "cluster"]
<1>1. th[t].pc = "recheck" /\ vm' = vm
  BY DEF CleanPage
<1>2. \/ CleanDone(t, 0)
      \/ StillToClean(th[t], vm.page[th[t].m]) /\ Go(t, s) /\ Quiet
  BY Zenon DEF CleanPage
<1>3. th[t].pc \in CleanPcs
  BY <1>1 DEF CleanPcs
<1>4. CASE StillToClean(th[t], vm.page[th[t].m]) /\ Go(t, s) /\ Quiet
  <2>0. DOMAIN th[t] = DOMAIN IdleThread
    BY <1>3, KnowsPage
  <2>1. /\ s.pc = "cluster" /\ DOMAIN s = DOMAIN IdleThread /\ s.queue = th[t].queue
        /\ s.m = th[t].m /\ s.object = th[t].object /\ s.flushing = th[t].flushing
        /\ s.objLocked = th[t].objLocked /\ s.mtx = s.m
    BY <2>0 DEF IdleThread
  <2> HIDE DEF s
  <2>2. th[t].objLocked
    BY <1>1 DEF IInv, ThreadSound
  <2>3. vm.page[th[t].m].object = th[t].object /\ vm.page[th[t].m].busy = "no"
    BY <1>4 DEF StillToClean
  <2>4. Objects
    BY <1>4, QuietlyObjects DEF Quiet
  <2> QED BY <1>1, <1>3, <1>4, <2>1, <2>2, <2>3, <2>4, LockedAgain
<1>5. CASE CleanDone(t, 0)
  BY <1>1, <1>5, CalmSelf, CleanDoneGood
<1> QED BY <1>2, <1>4, <1>5

\* A cluster grows, of consecutive pages of one object.
ClusterPage(o, pg) ==
    pg.object = o /\ pg.busy = "no" /\ pg.valid /\ (version > 10 => pg.mapped # "rw")
Consecutive(c) ==
    c \in Seq(Page) /\ c # << >> /\ \A i \in DOMAIN c : c[i] = c[1] + i - 1

\* A cluster of pages in a row has none of them twice.
LEMMA ConsecutiveFacts ==
    ASSUME NEW c, Consecutive(c)
    PROVE  /\ Len(c) \in Nat \ {0} /\ DOMAIN c = 1 .. Len(c) /\ c[1] \in Page /\ c[1] \in Nat
           /\ \A i, j \in DOMAIN c : c[i] = c[j] => i = j
<1>1. Len(c) \in Nat \ {0} /\ DOMAIN c = 1 .. Len(c)
  BY DEF Consecutive
<1>2. 1 \in DOMAIN c
  BY <1>1
<1>3. c[1] \in Page
  BY <1>1, <1>2 DEF Consecutive
<1>4. c[1] \in Nat
  BY <1>3, PageAssumption
<1>5. DOMAIN c \subseteq Nat
  BY <1>1
<1> QED BY <1>1, <1>3, <1>4, <1>5 DEF Consecutive

\* A cluster grows by pages that are fit for it.
LEMMA ClusterStep ==
    ASSUME IInv, NEW t \in Thread, NEW s, Go(t, s), Objects, Calmly(vm, vm'),
           th[t].objLocked, th[t].object # NoObject, th[t].flushing = {},
           DOMAIN s = DOMAIN IdleThread, s.queue = th[t].queue, s.object = th[t].object,
           s.flushing = th[t].flushing, s.objLocked, s.pc \in ClusterPcs, Consecutive(s.cluster),
           \A p \in ToSet(s.cluster) : ClusterPage(s.object, vm'.page[p])
    PROVE  Good
<1>1. ThreadSound(th[t])
  BY DEF IInv
<1>2. \A i, j \in DOMAIN s.cluster : s.cluster[i] = s.cluster[j] => i = j
  BY ConsecutiveFacts
<1>3. ThreadSound(s)
  BY <1>1, <1>2
     DEF ThreadSound, CleanPcs, LockedPcs, ClusterPcs, UnlockedPcs, PagePcs, Consecutive
<1>4. ASSUME NEW p \in Page PROVE Sees(version, s, p, vm'.page[p])
  BY DEF Sees, ClusterPage, CleanPcs, LockedPcs, ClusterPcs, UnusedPcs, UnheldPcs, DecidedPcs
<1>5. s.flushing \subseteq th[t].flushing /\ ~ObjectTaken(t, s.object)
  BY AloneWithObject
<1> QED BY <1>3, <1>4, <1>5, ThreadStep DEF Go, Objects

\* vm_pageout_cluster begins with the page alone.
LEMMA ClusterStartGood ==
    ASSUME IInv, NEW t \in Thread, ClusterStart(t) PROVE Good
<1> DEFINE m == th[t].m
           pg == vm.page[m]
           s == [th[t] EXCEPT !.mtx = NoPage, !.cluster = << m >>, !.back = TRUE, !.pc = "back"]
           w == IF version = 10 THEN pg ELSE RemoveWrite(pg)
<1>1. th[t].pc = "cluster" /\ vm' = [vm EXCEPT !.page[m] = w] /\ Go(t, s) /\ Objects
  <2>1. th[t].pc = "cluster" /\ vm' = [vm EXCEPT !.page[m] = w] /\ Go(t, s) /\ Quiet
    BY DEF ClusterStart, SetPage
  <2> QED BY <2>1, QuietlyObjects DEF Quiet
<1>2. /\ m \in Page /\ th[t].flushing = {} /\ DOMAIN th[t] = DOMAIN IdleThread
      /\ Sees(version, th[t], m, pg) /\ pg \in PageRecord /\ PageSound(pg)
  <2>1. th[t].pc \in CleanPcs
    BY <1>1 DEF CleanPcs
  <2> QED BY <2>1, KnowsPage
<1>3. VmTypes(vm) /\ \A p \in Page : PageSound(vm.page[p])
  BY DEF IInv
<1>4. Calmly(vm, vm') /\ vm'.page[m] = w
  <2>1. CASE version = 10
    <3>1. w = pg
      BY <2>1
    <3>2. Same(vm, [vm EXCEPT !.page[m] = pg])
      BY <1>2, <1>3, PutSame DEF Kept
    <3> HIDE DEF w
    <3>3. Same(vm, vm')
      BY <1>1, <3>1, <3>2
    <3> QED BY <1>1, <1>2, <1>3, <3>1, <3>3, CalmSame DEF VmTypes
  <2>2. CASE version # 10
    <3>1. w = RemoveWrite(pg)
      BY <2>2
    <3> HIDE DEF w
    <3>2. Calmly(vm, [vm EXCEPT !.page[m] = RemoveWrite(pg)])
      BY <1>3, TestDirtyCalmly
    <3> QED BY <1>1, <1>2, <1>3, <3>1, <3>2 DEF VmTypes
  <2> QED BY <2>1, <2>2
<1>5. ClusterPage(th[t].object, w)
  <2>1. pg.object = th[t].object /\ pg.busy = "no" /\ pg.valid
    BY <1>1, <1>2 DEF Sees, LockedPcs, UnusedPcs, CleanPcs
  <2>2. Calm(pg, w)
    BY <1>2, <1>4 DEF Calmly
  <2>3. version > 10 => w.mapped # "rw"
    BY <1>2 DEF RemoveWrite, PageRecord
  <2> HIDE DEF w
  <2> QED BY <2>1, <2>2, <2>3 DEF ClusterPage, Calm
<1>6. /\ DOMAIN s = DOMAIN IdleThread /\ s.queue = th[t].queue /\ s.object = th[t].object
      /\ s.flushing = th[t].flushing /\ s.objLocked = th[t].objLocked
      /\ s.cluster = << m >> /\ s.pc = "back"
  BY <1>2 DEF IdleThread
<1>7. th[t].objLocked /\ th[t].object # NoObject
  BY <1>1 DEF IInv, ThreadSound, CleanPcs, LockedPcs
<1>8. Consecutive(<< m >>)
  <2>1. m \in Page /\ m \in Nat
    BY <1>2, PageAssumption
  <2>2. << m >> \in Seq(Page) /\ << m >> # << >> /\ DOMAIN << m >> = {1} /\ << m >>[1] = m
    BY <2>1
  <2> QED BY <2>1, <2>2 DEF Consecutive
<1>9. ToSet(<< m >>) = {m}
  BY DEF ToSet
<1> HIDE DEF s, w
<1> QED BY <1>1, <1>2, <1>4, <1>5, <1>6, <1>7, <1>8, <1>9, ClusterStep DEF ClusterPcs

\* A page that joins is fit for the cluster, and what it replaces.
LEMMA TryNeighbourGood ==
    ASSUME IInv, NEW p, NEW o, TryNeighbour(p, o)
    PROVE  Calmly(vm, vm') /\ (Joins(p, o) => p \in Page /\ ClusterPage(o, vm'.page[p]))
<1> DEFINE w == IF Joins(p, o) THEN Protect(vm.page[p]) ELSE TestDirty(vm.page[p])
<1>1. \/ vm' = vm /\ ~Neighbour(p, o)
      \/ vm' = [vm EXCEPT !.page[p] = w] /\ Neighbour(p, o)
  BY Zenon DEF TryNeighbour
<1>2. VmTypes(vm) /\ \A x \in Page : PageSound(vm.page[x])
  BY DEF IInv
<1>3. CASE vm' = vm /\ ~Neighbour(p, o)
  BY <1>3, CalmSelf DEF Joins
<1>4. CASE vm' = [vm EXCEPT !.page[p] = w] /\ Neighbour(p, o)
  <2>1. p \in Page /\ vm.page[p].object = o /\ vm.page[p].busy = "no"
    BY <1>4 DEF Neighbour
  <2>2. w = TestDirty(vm.page[p]) \/ w = RemoveWrite(vm.page[p])
    BY DEF Protect
  <2>3. Joins(p, o) => /\ vm.page[p].valid
                       /\ version > 10 => w.mapped # "rw"
    <3>1. vm.page[p] \in PageRecord /\ PageSound(vm.page[p])
      BY <1>2, <2>1 DEF VmTypes
    <3>2. Joins(p, o) => TestDirty(vm.page[p]).dirty
      BY DEF Joins
    <3>3. TestDirty(vm.page[p]).dirty => vm.page[p].dirty \/ vm.page[p].pmod
      BY <3>1 DEF TestDirty, PageRecord
    <3>4. Joins(p, o) /\ version > 10 => w = RemoveWrite(vm.page[p])
      BY DEF Protect
    <3>5. RemoveWrite(vm.page[p]).mapped # "rw"
      BY <3>1 DEF RemoveWrite, PageRecord
    <3> HIDE DEF w
    <3> QED BY <3>1, <3>2, <3>3, <3>4, <3>5 DEF PageSound
  <2> HIDE DEF w
  <2>4. Calmly(vm, vm')
    BY <1>2, <1>4, <2>2, TestDirtyCalmly
  <2>5. vm'.page[p] = w
    BY <1>2, <1>4, <2>1 DEF VmTypes
  <2>6. Calm(vm.page[p], w)
    BY <2>1, <2>4, <2>5 DEF Calmly
  <2> QED BY <2>1, <2>3, <2>4, <2>5, <2>6 DEF ClusterPage, Calm
<1> QED BY <1>1, <1>3, <1>4

\* The pages of a cluster stay fit for it.
LEMMA ClusterStays ==
    ASSUME IInv, NEW t \in Thread, th[t].pc \in {"back", "forward"}, Calmly(vm, vm')
    PROVE  /\ Consecutive(th[t].cluster) /\ th[t].objLocked /\ th[t].object # NoObject
           /\ th[t].flushing = {} /\ DOMAIN th[t] = DOMAIN IdleThread
           /\ \A p \in ToSet(th[t].cluster) : ClusterPage(th[t].object, vm'.page[p])
<1>1. ThreadSound(th[t])
  BY DEF IInv
<1>2. Consecutive(th[t].cluster) /\ ToSet(th[t].cluster) \subseteq Page
  BY <1>1 DEF ThreadSound, ClusterPcs, Consecutive, ToSet
<1>3. ASSUME NEW p \in ToSet(th[t].cluster) PROVE ClusterPage(th[t].object, vm'.page[p])
  <2>1. Sees(version, th[t], p, vm.page[p]) /\ Calm(vm.page[p], vm'.page[p])
    BY <1>2 DEF IInv, Calmly
  <2> QED BY <2>1 DEF Sees, Calm, ClusterPage, ClusterPcs
<1> QED BY <1>1, <1>2, <1>3 DEF ThreadSound, ClusterPcs

\* Pages before it,
LEMMA ClusterBackGood ==
    ASSUME IInv, NEW t \in Thread, ClusterBack(t) PROVE Good
<1> DEFINE s == th[t]
           c == s.cluster
           p == Head(c) - 1
           d == << p >> \o c
           x == IF p % PageCount = 0 THEN "forward" ELSE "back"
           a == [s EXCEPT !.pc = "forward"]
           b == [s EXCEPT !.cluster = d, !.pc = x]
           e == [s EXCEPT !.back = FALSE, !.pc = "forward"]
<1>1. s.pc = "back" /\ Objects
  BY QuietlyObjects DEF ClusterBack, Quiet
<1>2. \/ vm' = vm /\ Go(t, a)
      \/ TryNeighbour(p, s.object) /\ (\/ Joins(p, s.object) /\ Go(t, b)
                                       \/ Go(t, e))
  BY Zenon DEF ClusterBack
<1>3. Calmly(vm, vm')
  <2> HIDE DEF a, b, e, p
  <2> QED BY <1>2, CalmSelf, TryNeighbourGood
<1>4. /\ Consecutive(c) /\ s.objLocked /\ s.object # NoObject /\ s.flushing = {}
      /\ DOMAIN s = DOMAIN IdleThread
      /\ \A y \in ToSet(c) : ClusterPage(s.object, vm'.page[y])
  BY <1>1, <1>3, ClusterStays
<1>5. CASE Go(t, a) \/ Go(t, e)
  <2>1. ASSUME NEW r, r = a \/ r = e
        PROVE  /\ DOMAIN r = DOMAIN IdleThread /\ r.queue = s.queue /\ r.object = s.object
               /\ r.flushing = s.flushing /\ r.objLocked = s.objLocked
               /\ r.cluster = c /\ r.pc = "forward"
    BY <1>4, <2>1 DEF IdleThread
  <2>2. PICK r : (r = a \/ r = e) /\ Go(t, r)
    BY <1>5
  <2> HIDE DEF a, e
  <2> QED BY <1>1, <1>3, <1>4, <2>1, <2>2, ClusterStep DEF ClusterPcs
<1>6. CASE TryNeighbour(p, s.object) /\ Joins(p, s.object) /\ Go(t, b)
  <2>1. p \in Page /\ ClusterPage(s.object, vm'.page[p])
    <3> HIDE DEF p, b
    <3> QED BY <1>6, TryNeighbourGood
  <2>2. c \in Seq(Page) /\ c # << >> /\ c[1] = p + 1 /\ c[1] \in Nat /\ p \in Nat
    BY <1>4, <2>1, PageAssumption DEF Consecutive
  <2>3. x \in {"forward", "back"}
    OBVIOUS
  <2> HIDE DEF x, p
  <2>4. Consecutive(d) /\ ToSet(d) = {p} \cup ToSet(c)
    <3>1. d \in Seq(Page) /\ Len(d) = Len(c) + 1 /\ d # << >> /\ d[1] = p
      BY <2>1, <2>2
    <3>2. ASSUME NEW i \in DOMAIN d, i > 1 PROVE i - 1 \in DOMAIN c /\ d[i] = c[i - 1]
      BY <2>1, <2>2, <3>1, <3>2
    <3>3. ASSUME NEW i \in DOMAIN d PROVE d[i] = d[1] + i - 1
      <4>1. CASE i = 1
        BY <2>2, <3>1, <4>1
      <4>2. CASE i # 1
        <5>1. i \in Nat /\ i > 1
          BY <3>1, <4>2
        <5>2. i - 1 \in DOMAIN c /\ d[i] = c[i - 1]
          BY <3>2, <5>1
        <5>3. c[i - 1] = c[1] + (i - 1) - 1
          BY <1>4, <5>2 DEF Consecutive
        <5>4. d[i] = p + 1 + (i - 1) - 1
          BY <2>2, <5>2, <5>3
        <5>5. p + 1 + (i - 1) - 1 = p + i - 1
          BY <2>2, <5>1
        <5>6. d[1] = p
          BY <3>1
        <5> HIDE DEF d
        <5> QED BY <5>4, <5>5, <5>6
      <4> QED BY <4>1, <4>2
    <3>4. ASSUME NEW i \in DOMAIN c PROVE i + 1 \in DOMAIN d /\ d[i + 1] = c[i]
      BY <2>1, <2>2, <3>1
    <3>5. 1 \in DOMAIN d
      BY <3>1
    <3>6. DOMAIN d \subseteq Nat /\ \A i \in DOMAIN d : i >= 1
      BY <3>1
    <3> HIDE DEF d, c
    <3>7. ToSet(d) \subseteq {p} \cup ToSet(c)
      BY <3>1, <3>2, <3>6 DEF ToSet
    <3>8. {p} \cup ToSet(c) \subseteq ToSet(d)
      BY <3>1, <3>4, <3>5 DEF ToSet
    <3> QED BY <3>1, <3>3, <3>7, <3>8 DEF Consecutive
  <2> HIDE DEF d
  <2>5. /\ DOMAIN b = DOMAIN IdleThread /\ b.queue = s.queue /\ b.object = s.object
        /\ b.flushing = s.flushing /\ b.objLocked = s.objLocked
        /\ b.cluster = d /\ b.pc = x
    BY <1>4 DEF IdleThread
  <2> HIDE DEF b
  <2>6. \A y \in ToSet(d) : ClusterPage(s.object, vm'.page[y])
    BY <1>4, <2>1, <2>4
  <2> QED BY <1>1, <1>3, <1>4, <1>6, <2>3, <2>4, <2>5, <2>6, ClusterStep DEF ClusterPcs
<1> QED BY <1>2, <1>5, <1>6

\* and pages behind it.
LEMMA ClusterForwardGood ==
    ASSUME IInv, NEW t \in Thread, ClusterForward(t) PROVE Good
<1> DEFINE s == th[t]
           c == s.cluster
           p == Last(c) + 1
           d == Append(c, p)
           x == IF s.back THEN "back" ELSE "flush"
           a == [s EXCEPT !.pc = "flush"]
           b == [s EXCEPT !.cluster = d]
           e == [s EXCEPT !.pc = x]
<1>1. s.pc = "forward" /\ Objects
  BY QuietlyObjects DEF ClusterForward, Quiet
<1>2. \/ vm' = vm /\ Go(t, a)
      \/ TryNeighbour(p, s.object) /\ (\/ Joins(p, s.object) /\ Go(t, b)
                                       \/ Go(t, e))
  BY Zenon DEF ClusterForward
<1>3. Calmly(vm, vm')
  <2> HIDE DEF a, b, e, p
  <2> QED BY <1>2, CalmSelf, TryNeighbourGood
<1>4. /\ Consecutive(c) /\ s.objLocked /\ s.object # NoObject /\ s.flushing = {}
      /\ DOMAIN s = DOMAIN IdleThread
      /\ \A y \in ToSet(c) : ClusterPage(s.object, vm'.page[y])
  BY <1>1, <1>3, ClusterStays
<1>5. CASE Go(t, a) \/ Go(t, e)
  <2>0. x \in {"back", "flush"}
    OBVIOUS
  <2> HIDE DEF x
  <2>1. ASSUME NEW r, r = a \/ r = e
        PROVE  /\ DOMAIN r = DOMAIN IdleThread /\ r.queue = s.queue /\ r.object = s.object
               /\ r.flushing = s.flushing /\ r.objLocked = s.objLocked
               /\ r.cluster = c /\ r.pc \in {"back", "flush"}
    BY <1>4, <2>0, <2>1 DEF IdleThread
  <2>2. PICK r : (r = a \/ r = e) /\ Go(t, r)
    BY <1>5
  <2> HIDE DEF a, e
  <2> QED BY <1>1, <1>3, <1>4, <2>1, <2>2, ClusterStep DEF ClusterPcs
<1>6. CASE TryNeighbour(p, s.object) /\ Joins(p, s.object) /\ Go(t, b)
  <2>1. p \in Page /\ ClusterPage(s.object, vm'.page[p])
    <3> HIDE DEF p, b
    <3> QED BY <1>6, TryNeighbourGood
  <2>2. /\ c \in Seq(Page) /\ c # << >> /\ c[1] \in Nat /\ Len(c) \in Nat \ {0}
        /\ c[Len(c)] = c[1] + Len(c) - 1 /\ p = c[Len(c)] + 1
    <3>1. Len(c) \in Nat \ {0} /\ DOMAIN c = 1 .. Len(c) /\ c[1] \in Nat
      BY <1>4, ConsecutiveFacts
    <3>2. Len(c) \in DOMAIN c
      BY <3>1
    <3>3. c \in Seq(Page) /\ c # << >> /\ c[Len(c)] = c[1] + Len(c) - 1
      BY <1>4, <3>2 DEF Consecutive
    <3> QED BY <3>1, <3>3 DEF Last
  <2> HIDE DEF p
  <2>4. Consecutive(d) /\ ToSet(d) = {p} \cup ToSet(c)
    <3>1. /\ d \in Seq(Page) /\ DOMAIN d = 1 .. Len(c) + 1 /\ d # << >>
          /\ d[Len(c) + 1] = p /\ \A i \in 1 .. Len(c) : d[i] = c[i]
      <4>1. d \in Seq(Page) /\ Len(d) = Len(c) + 1
        BY <2>1, <2>2
      <4>2. d[Len(c) + 1] = p /\ \A i \in 1 .. Len(c) : d[i] = c[i]
        BY <2>1, <2>2
      <4>3. DOMAIN d = 1 .. Len(d)
        BY <4>1
      <4> HIDE DEF d
      <4>4. d # << >>
        BY <2>2, <4>1
      <4> QED BY <4>1, <4>2, <4>3, <4>4
    <3>2. DOMAIN c = 1 .. Len(c)
      BY <2>2
    <3> HIDE DEF d
    <3>3. d[1] = c[1]
      BY <2>2, <3>1
    <3>4. ASSUME NEW i \in DOMAIN d PROVE d[i] = d[1] + i - 1
      <4>1. CASE i = Len(c) + 1
        BY <2>2, <3>1, <3>3, <4>1
      <4>2. CASE i # Len(c) + 1
        <5>1. i \in 1 .. Len(c)
          BY <2>2, <3>1, <4>2
        <5> QED BY <1>4, <3>1, <3>2, <3>3, <5>1 DEF Consecutive
      <4> QED BY <4>1, <4>2
    <3>5. Len(c) + 1 \in DOMAIN d /\ DOMAIN c \subseteq DOMAIN d
      BY <2>2, <3>1, <3>2
    <3>6. \A i \in DOMAIN d : i \in DOMAIN c \/ i = Len(c) + 1
      BY <2>2, <3>1, <3>2
    <3> HIDE DEF c
    <3>7. ToSet(d) \subseteq {p} \cup ToSet(c)
      BY <3>1, <3>2, <3>6 DEF ToSet
    <3>8. {p} \cup ToSet(c) \subseteq ToSet(d)
      BY <3>1, <3>2, <3>5 DEF ToSet
    <3> QED BY <3>1, <3>4, <3>7, <3>8 DEF Consecutive
  <2> HIDE DEF d
  <2>5. /\ DOMAIN b = DOMAIN IdleThread /\ b.queue = s.queue /\ b.object = s.object
        /\ b.flushing = s.flushing /\ b.objLocked = s.objLocked
        /\ b.cluster = d /\ b.pc = s.pc
    BY <1>4 DEF IdleThread
  <2> HIDE DEF b
  <2>6. \A y \in ToSet(d) : ClusterPage(s.object, vm'.page[y])
    BY <1>4, <2>1, <2>4
  <2> QED BY <1>1, <1>3, <1>4, <1>6, <2>4, <2>5, <2>6, ClusterStep DEF ClusterPcs
<1> QED BY <1>2, <1>5, <1>6

-----------------------------------------------------------------------------
(* Handing a cluster to the pager. *)

\* A thread at rest is sound and relies on nothing.
LEMMA RestSound ==
    ASSUME NEW s, Rests(s)
    PROVE  ThreadSound(s) /\ \A ver, p, pg : Sees(ver, s, p, pg)
<1>1. ThreadSound(s)
  BY DEF Rests, ThreadSound, RestPcs, UnlockedPcs, LockedPcs, CleanPcs, ClusterPcs, PagePcs
<1>2. ASSUME NEW ver, NEW p, NEW pg PROVE Sees(ver, s, p, pg)
  BY DEF Rests, Sees, RestPcs, LockedPcs, UnusedPcs, UnheldPcs, DecidedPcs, CleanPcs, ClusterPcs
<1> QED BY <1>1, <1>2

\* A page whose object a thread does not hold, and that is not in its cluster:
\* it knows no more than that the page was valid.
LEMMA OthersSee ==
    ASSUME IInv, NEW u \in Thread, NEW p \in Page, NEW pg,
           ~(th[u].objLocked /\ th[u].object = vm.page[p].object), p \notin th[u].flushing,
           pg.object = vm.page[p].object, pg.valid = vm.page[p].valid
    PROVE  Sees(version, th[u], p, pg)
<1>1. Sees(version, th[u], p, vm.page[p]) /\ ThreadSound(th[u])
  BY DEF IInv
<1>2. ~(th[u].m = p /\ th[u].pc \in LockedPcs)
  BY <1>1 DEF Sees, ThreadSound
<1>3. ~(p \in ToSet(th[u].cluster) /\ th[u].pc \in ClusterPcs \cup {"severe"})
  BY <1>1 DEF Sees, ThreadSound
<1> QED BY <1>1, <1>2, <1>3 DEF Sees, UnusedPcs, UnheldPcs, DecidedPcs, LockedPcs

\* A page that is busied and protected is a page still.
LEMMA BusiedRecord ==
    ASSUME NEW a \in PageRecord, NEW x \in StoreState
    PROVE  [a EXCEPT !.busy = "shared", !.store = x] \in PageRecord
BY DEF PageRecord

\* A page of the cluster, busied and protected: it cannot change any more.
LEMMA HandOverFit ==
    ASSUME version \in {10, 11, 12}, NEW pg \in PageRecord, PageSound(pg), NEW o, ClusterPage(o, pg)
    PROVE  LET w == HandOver(pg) IN
           /\ w \in PageRecord /\ PageSound(w) /\ w.object = pg.object /\ w.valid
           /\ w.busy = "shared" /\ w.mapped # "rw" /\ (pg.mapped = "no" => w.mapped = "no")
<1> DEFINE b == IF version = 10 THEN RemoveWrite(pg) ELSE pg
           x == Written(b.store)
           w == [b EXCEPT !.busy = "shared", !.store = x]
<1>1. /\ b \in PageRecord /\ PageSound(b) /\ b.object = pg.object /\ b.valid /\ b.busy = "no"
      /\ b.mapped # "rw" /\ (pg.mapped = "no" => b.mapped = "no")
  <2>1. CASE version = 10
    <3>1. b = RemoveWrite(pg)
      BY <2>1
    <3> HIDE DEF b
    <3>2. b \in PageRecord /\ Calm(pg, b)
      BY <3>1, MapCalm
    <3>3. b.mapped # "rw"
      BY <3>1 DEF RemoveWrite, PageRecord
    <3> QED BY <3>2, <3>3 DEF Calm, ClusterPage
  <2>2. CASE version # 10
    <3>1. b = pg
      BY <2>2
    <3> HIDE DEF b
    <3> QED BY <2>2, <3>1 DEF ClusterPage
  <2> QED BY <2>1, <2>2
<1>2. HandOver(pg) = w
  BY Zenon DEF HandOver
<1> HIDE DEF b
<1>3. x \in StoreState /\ x # "older" /\ (x = "writing" => b.store \in {"older", "writing"})
  BY <1>1 DEF Written, PageRecord, StoreState
<1> HIDE DEF x
<1>4. w \in PageRecord
  <2>1. b \in PageRecord /\ x \in StoreState
    BY <1>1, <1>3
  <2> QED BY <2>1, BusiedRecord
<1>5. PageSound(w)
  <2>1. ~b.pmod /\ (x = "writing" => b.dirty)
    BY <1>1, <1>3 DEF PageSound
  <2>2. /\ w.pmod = b.pmod /\ w.mapped = b.mapped /\ w.dirty = b.dirty /\ w.valid = b.valid
        /\ w.store = x /\ w.busy = "shared" /\ w.object = b.object
    BY <1>1 DEF PageRecord
  <2> HIDE DEF w
  <2> QED BY <1>1, <1>3, <2>1, <2>2 DEF PageSound
<1>6. /\ w.object = pg.object /\ w.valid /\ w.busy = "shared" /\ w.mapped # "rw"
      /\ pg.mapped = "no" => w.mapped = "no"
  BY <1>1 DEF PageRecord
<1> HIDE DEF w
<1> QED BY <1>2, <1>4, <1>5, <1>6

\* vm_pageout_flush: every page of the cluster is busied and protected from writes.
LEMMA FlushStartGood ==
    ASSUME IInv, NEW t \in Thread, FlushStart(t) PROVE Good
<1> DEFINE c == ToSet(th[t].cluster)
           f == [p \in Page |-> IF p \in c THEN HandOver(vm.page[p]) ELSE vm.page[p]]
           s == [th[t] EXCEPT !.flushing = c, !.objLocked = FALSE, !.pc = "put"]
<1>1. th[t].pc = "flush" /\ vm' = [vm EXCEPT !.page = f] /\ Go(t, s) /\ Objects
  <2>1. th[t].pc = "flush" /\ vm' = [vm EXCEPT !.page = f] /\ Go(t, s) /\ Quiet
    BY DEF FlushStart
  <2> QED BY <2>1, QuietlyObjects DEF Quiet
<1>2. /\ DOMAIN th[t] = DOMAIN IdleThread /\ th[t].queue \in Queue \cup {"NONE"}
      /\ th[t].objLocked /\ th[t].object # NoObject /\ th[t].cluster \in Seq(Page)
      /\ \A i, j \in DOMAIN th[t].cluster : th[t].cluster[i] = th[t].cluster[j] => i = j
  BY <1>1 DEF IInv, ThreadSound, ClusterPcs
<1>3. c \subseteq Page
  BY <1>2 DEF ToSet
<1>4. ASSUME NEW p \in c PROVE ClusterPage(th[t].object, vm.page[p])
  <2>1. Sees(version, th[t], p, vm.page[p])
    BY <1>3 DEF IInv
  <2> QED BY <1>1, <2>1 DEF Sees, ClusterPage, ClusterPcs
<1>5. vm'.page = f /\ DOMAIN vm' = DOMAIN vm
  BY <1>1 DEF IInv, VmTypes
<1>6. ASSUME NEW p \in c
      PROVE  /\ vm'.page[p] \in PageRecord /\ PageSound(vm'.page[p])
             /\ vm'.page[p].object = th[t].object /\ vm'.page[p].object = vm.page[p].object
             /\ vm'.page[p].valid /\ vm.page[p].valid
             /\ vm'.page[p].busy = "shared" /\ vm'.page[p].mapped # "rw"
             /\ vm.page[p].mapped = "no" => vm'.page[p].mapped = "no"
  <2>1. vm'.page[p] = HandOver(vm.page[p])
    BY <1>3, <1>5
  <2>2. vm.page[p] \in PageRecord /\ PageSound(vm.page[p]) /\ version \in {10, 11, 12}
    BY <1>3 DEF IInv, VmTypes
  <2>3. ClusterPage(th[t].object, vm.page[p])
    BY <1>4
  <2> QED BY <2>1, <2>2, <2>3, HandOverFit DEF ClusterPage
<1>7. \A p \in Page : p \notin c => vm'.page[p] = vm.page[p]
  BY <1>5
<1>8. VmTypes(vm')
  <2>1. f = [p \in Page |-> f[p]]
    OBVIOUS
  <2>2. \A p \in Page : vm'.page[p] \in PageRecord
    BY <1>6, <1>7 DEF IInv, VmTypes
  <2> HIDE DEF f
  <2> QED BY <1>5, <2>1, <2>2 DEF IInv, VmTypes
<1> HIDE DEF f
<1>9. ASSUME NEW u \in Thread, u # t, NEW p \in Page
      PROVE  Sees(version, th[u], p, vm'.page[p]) /\ (p \in c => p \notin th[u].flushing)
  <2>1. Sees(version, th[u], p, vm.page[p])
    BY DEF IInv
  <2>2. CASE p \in c
    <3>1. ClusterPage(th[t].object, vm.page[p])
      BY <1>4, <2>2
    <3>2. p \notin th[u].flushing
      BY <2>1, <3>1 DEF Sees, ClusterPage
    <3>3. ~(th[u].objLocked /\ th[u].object = vm.page[p].object)
      BY <1>2, <1>9, <3>1 DEF IInv, ClusterPage
    <3>4. vm'.page[p].object = vm.page[p].object /\ vm'.page[p].valid = vm.page[p].valid
      <4>1. vm'.page[p].valid = TRUE /\ vm.page[p].valid = TRUE
        <5>1. vm'.page[p].valid \in BOOLEAN /\ vm.page[p].valid \in BOOLEAN
          BY <1>8 DEF IInv, VmTypes, PageRecord
        <5> QED BY <1>6, <2>2, <5>1
      <4> QED BY <1>6, <2>2, <4>1
    <3> QED BY <3>2, <3>3, <3>4, OthersSee
  <2>3. CASE p \notin c
    BY <1>7, <2>1, <2>3
  <2> QED BY <2>2, <2>3
<1>10. /\ DOMAIN s = DOMAIN IdleThread /\ s.queue = th[t].queue /\ s.object = th[t].object
       /\ s.cluster = th[t].cluster /\ s.flushing = c /\ ~s.objLocked /\ s.pc = "put"
  BY <1>2 DEF IdleThread
<1> HIDE DEF s
<1>11. ThreadSound(s)
  BY <1>2, <1>10 DEF ThreadSound, CleanPcs, LockedPcs, ClusterPcs, UnlockedPcs, PagePcs
<1>12. ASSUME NEW p \in Page PROVE Sees(version, s, p, vm'.page[p])
  BY <1>6, <1>10
     DEF Sees, CleanPcs, LockedPcs, ClusterPcs, UnusedPcs, UnheldPcs, DecidedPcs
<1>13. ASSUME NEW p \in Page
       PROVE  /\ vm'.page[p].object = vm.page[p].object /\ PageSound(vm'.page[p])
              /\ vm.page[p].mapped = "no" => vm'.page[p].mapped = "no"
  BY <1>6, <1>7 DEF IInv
<1>14. \A u \in Thread : u # t => s.flushing \cap th[u].flushing = {}
  BY <1>3, <1>9, <1>10
<1> QED BY <1>1, <1>8, <1>9, <1>10, <1>11, <1>12, <1>13, <1>14, StirStep

-----------------------------------------------------------------------------
(* What becomes of a cluster. *)

\* A page whose write was tried: left to the pager, written, or not written.
Ended(a, b) ==
    /\ b.object = a.object /\ b.valid = a.valid /\ b.hold = a.hold /\ b.wire = a.wire
    /\ b.mapped = a.mapped /\ b.pmod = a.pmod
    /\ \/ b.busy = a.busy /\ b.dirty = a.dirty /\ b.store = a.store
       \/ b.busy = "no" /\ ~b.dirty /\ b.store \in {WrittenBack(a.store), GivenUp(a.store)}
       \/ b.busy = "no" /\ b.dirty = a.dirty /\ b.store = NotWritten(a.store)
EndedOnly(v, w, p) ==
    /\ VmTypes(w) /\ Ended(v.page[p], w.page[p])
    /\ \A x \in Page : x # p => Kept(v.page[x], w.page[x])

\* A queue operation after the page has ended its write.
LEMMA EndedKept ==
    ASSUME NEW v, NEW w, NEW x, NEW p \in Page, EndedOnly(v, w, p), Same(w, x)
    PROVE  EndedOnly(v, x, p)
<1>1. VmTypes(x) /\ \A y \in Page : Kept(w.page[y], x.page[y])
  BY Zenon DEF Same
<1>2. Ended(v.page[p], w.page[p]) /\ \A y \in Page : y # p => Kept(v.page[y], w.page[y])
  BY Zenon DEF EndedOnly
<1>3. Ended(v.page[p], x.page[p])
  <2>1. Kept(w.page[p], x.page[p])
    BY <1>1
  <2> QED BY ONLY <1>2, <2>1 DEF Ended, Kept
<1>4. ASSUME NEW y \in Page, y # p PROVE Kept(v.page[y], x.page[y])
  <2>1. Kept(w.page[y], x.page[y]) /\ Kept(v.page[y], w.page[y])
    BY <1>1, <1>2, <1>4
  <2> QED BY ONLY <2>1 DEF Kept
<1> QED BY <1>1, <1>3, <1>4 DEF EndedOnly

\* The pager's answer for one page: only this page is unbusied.
LEMMA FlushedPages ==
    ASSUME NEW v, VmTypes(v), NEW p \in Page, NEW status, NEW type
    PROVE  EndedOnly(v, Flushed(v, p, status, type), p)
<1> DEFINE a == v.page[p]
           sa == [a EXCEPT !.busy = "no", !.store = NotWritten(@)]
           end == IF status = "OK" THEN WrittenBack(a.store) ELSE GivenUp(a.store)
           ca == [a EXCEPT !.busy = "no", !.dirty = FALSE, !.store = end]
           stays == [v EXCEPT !.page[p].busy = "no", !.page[p].store = NotWritten(@)]
           clean == [v EXCEPT !.page[p].busy = "no", !.page[p].dirty = FALSE,
                              !.page[p].store = IF status = "OK" THEN WrittenBack(@)
                                                ELSE GivenUp(@)]
<1>1. a \in PageRecord
  BY DEF VmTypes
<1>2. EndedOnly(v, v, p)
  BY DEF EndedOnly, Ended, Kept
<1>3. EndedOnly(v, stays, p)
  <2>1. stays = [v EXCEPT !.page[p] = sa]
    BY DEF VmTypes, PageRecord
  <2>2. sa \in PageRecord /\ Ended(a, sa)
    <3>1. NotWritten(a.store) \in StoreState
      BY <1>1 DEF PageRecord, NotWritten, StoreState
    <3> QED BY <1>1, <3>1, ZenonT(60) DEF PageRecord, Ended
  <2> HIDE DEF sa, stays
  <2>3. VmTypes(stays) /\ \A x \in Page : stays.page[x] = IF x = p THEN sa ELSE v.page[x]
    BY <2>1, <2>2, PutPage
  <2> QED BY <2>2, <2>3 DEF EndedOnly, Kept
<1>4. EndedOnly(v, clean, p)
  <2>1. clean = [v EXCEPT !.page[p] = ca]
    BY DEF VmTypes, PageRecord
  <2>2. ca \in PageRecord /\ Ended(a, ca)
    <3>1. end \in StoreState /\ end \in {WrittenBack(a.store), GivenUp(a.store)}
      BY <1>1 DEF PageRecord, WrittenBack, GivenUp, StoreState
    <3> HIDE DEF end
    <3> QED BY <1>1, <3>1, ZenonT(60) DEF PageRecord, Ended
  <2> HIDE DEF ca, clean
  <2>3. VmTypes(clean) /\ \A x \in Page : clean.page[x] = IF x = p THEN ca ELSE v.page[x]
    BY <2>1, <2>2, PutPage
  <2> QED BY <2>2, <2>3 DEF EndedOnly, Kept
<1>5. \/ Flushed(v, p, status, type) = v
      \/ Flushed(v, p, status, type) = Settle(DeactivateNoreuse(clean, p), p)
      \/ Flushed(v, p, status, type) = clean
      \/ Flushed(v, p, status, type) = Unswappable(stays, p)
      \/ Flushed(v, p, status, type) = stays
      \/ Flushed(v, p, status, type) = Settle(Activate(stays, p), p)
  BY Zenon DEF Flushed
<1> HIDE DEF clean, stays
<1>6. EndedOnly(v, Settle(DeactivateNoreuse(clean, p), p), p)
  <2> DEFINE w == DeactivateNoreuse(clean, p)
  <2>1. Same(clean, w)
    BY <1>4, NoreuseSame DEF EndedOnly
  <2> HIDE DEF w
  <2>2. Same(w, Settle(w, p))
    BY <2>1, SettleSame DEF Same
  <2>3. Same(clean, Settle(w, p))
    BY <2>1, <2>2, SameTrans
  <2> QED BY <1>4, <2>3, EndedKept DEF w
<1>7. EndedOnly(v, Unswappable(stays, p), p)
  <2>1. Same(stays, Unswappable(stays, p))
    BY <1>3, UnswappableSame DEF EndedOnly
  <2> QED BY <1>3, <2>1, EndedKept
<1>8. EndedOnly(v, Settle(Activate(stays, p), p), p)
  <2> DEFINE w == Activate(stays, p)
  <2>1. Same(stays, w)
    BY <1>3, ActivateSame DEF EndedOnly
  <2> HIDE DEF w
  <2>2. Same(w, Settle(w, p))
    BY <2>1, SettleSame DEF Same
  <2>3. Same(stays, Settle(w, p))
    BY <2>1, <2>2, SameTrans
  <2> QED BY <1>3, <2>3, EndedKept DEF w
<1> QED BY <1>2, <1>3, <1>4, <1>5, <1>6, <1>7, <1>8

\* All pages of a cluster, each of which is in it once.
EndedThose(v, w, P) ==
    /\ VmTypes(w)
    /\ \A x \in Page : IF x \in P THEN Ended(v.page[x], w.page[x])
                                  ELSE Kept(v.page[x], w.page[x])

\* One more page of the cluster.
LEMMA EndedNext ==
    ASSUME NEW v, NEW w, NEW x, NEW P, NEW p \in Page, p \notin P,
           EndedThose(v, w, P), EndedOnly(w, x, p)
    PROVE  EndedThose(v, x, P \cup {p})
<1>1. /\ VmTypes(x) /\ Ended(w.page[p], x.page[p])
      /\ \A y \in Page : y # p => Kept(w.page[y], x.page[y])
  BY Zenon DEF EndedOnly
<1>2. ASSUME NEW y \in Page
      PROVE  IF y \in P THEN Ended(v.page[y], w.page[y]) ELSE Kept(v.page[y], w.page[y])
  BY Zenon DEF EndedThose
<1>3. Ended(v.page[p], x.page[p])
  <2>1. Kept(v.page[p], w.page[p])
    BY <1>2
  <2> QED BY ONLY <1>1, <2>1 DEF Ended, Kept
<1>4. ASSUME NEW y \in Page, y \in P PROVE Ended(v.page[y], x.page[y])
  <2>1. Ended(v.page[y], w.page[y]) /\ Kept(w.page[y], x.page[y])
    BY <1>1, <1>2, <1>4
  <2> QED BY ONLY <2>1 DEF Ended, Kept
<1>5. ASSUME NEW y \in Page, y # p, y \notin P PROVE Kept(v.page[y], x.page[y])
  <2>1. Kept(v.page[y], w.page[y]) /\ Kept(w.page[y], x.page[y])
    BY <1>1, <1>2, <1>5
  <2> QED BY ONLY <2>1 DEF Kept
<1> QED BY <1>1, <1>3, <1>4, <1>5 DEF EndedThose

\* The pager's answer for the whole cluster, page by page.
LEMMA FlushedAllEnds ==
    ASSUME NEW v, VmTypes(v), NEW c \in Seq(Page), NEW status, NEW type,
           \A i, j \in DOMAIN c : c[i] = c[j] => i = j
    PROVE  EndedThose(v, FlushedAll(v, c, status, type), ToSet(c))
<1> DEFINE N == Len(c)
           Op(w, p) == Flushed(w, p, status[p], type)
           Is(g, n) == g = [s \in SUBSET (1 .. n) |->
                              IF s = {} THEN v ELSE Op(g[s \ {Max(s)}], c[Max(s)])]
           T == {n \in Nat : \E g : Is(g, n)}
<1>0. N \in Nat /\ DOMAIN c = 1 .. N
  OBVIOUS
<1>1. T = Nat
  <2>1. 0 \in T
    <3> DEFINE g == [s \in SUBSET (1 .. 0) |-> v]
    <3>1. \A s \in SUBSET (1 .. 0) : s = {}
      OBVIOUS
    <3> HIDE DEF Op
    <3>2. Is(g, 0)
      BY <3>1
    <3> QED BY <3>2
  <2>2. ASSUME NEW n \in T PROVE n + 1 \in T
    <3>0. n \in Nat
      OBVIOUS
    <3>1. PICK g : Is(g, n)
      OBVIOUS
    <3> HIDE DEF Op
    <3> DEFINE h == [s \in SUBSET (1 .. n + 1) |->
                       IF n + 1 \in s THEN Op(g[s \ {n + 1}], c[n + 1]) ELSE g[s]]
    <3>2. ASSUME NEW s \in SUBSET (1 .. n + 1)
          PROVE  h[s] = IF s = {} THEN v ELSE Op(h[s \ {Max(s)}], c[Max(s)])
      <4>1. CASE n + 1 \in s
        <5>2. Max(s) \in s /\ \A j \in s : j <= Max(s)
          <6>1. s # {}
            BY <4>1
          <6> HIDE DEF T, Is
          <6> QED BY <3>0, <6>1, MaxOfNext
        <5>3. Max(s) = n + 1
          <6> HIDE DEF T, Is, h
          <6>1. Max(s) \in 1 .. n + 1
            BY <5>2
          <6>2. n + 1 <= Max(s)
            BY <5>2, <4>1
          <6> QED BY <3>0, <6>1, <6>2
        <5>4. s \ {n + 1} \in SUBSET (1 .. n) /\ s \ {n + 1} \in SUBSET (1 .. n + 1)
          OBVIOUS
        <5>5. h[s \ {n + 1}] = g[s \ {n + 1}]
          BY <5>4
        <5> QED BY <4>1, <5>3, <5>5
      <4>2. CASE n + 1 \notin s
        <5>1. s \in SUBSET (1 .. n)
          BY <4>2
        <5>2. h[s] = g[s] /\ h[s \ {Max(s)}] = g[s \ {Max(s)}]
          BY <4>2
        <5> QED BY <3>1, <5>1, <5>2
      <4> QED BY <4>1, <4>2
    <3>3. Is(h, n + 1)
      <4> DEFINE k == [s \in SUBSET (1 .. n + 1) |->
                         IF s = {} THEN v ELSE Op(h[s \ {Max(s)}], c[Max(s)])]
      <4>1. \A s \in SUBSET (1 .. n + 1) : h[s] = k[s]
        BY <3>2
      <4>2. h = k
        <5> HIDE DEF k
        <5>1. h = [s \in SUBSET (1 .. n + 1) |-> h[s]]
          OBVIOUS
        <5>2. k = [s \in SUBSET (1 .. n + 1) |-> k[s]]
          BY DEF k
        <5> HIDE DEF h
        <5> QED BY <4>1, <5>1, <5>2
      <4> QED BY <4>2
    <3>4. \E f : Is(f, n + 1)
      <4> HIDE DEF Is, h
      <4> QED BY <3>3
    <3> HIDE DEF Is
    <3> QED BY <3>4
  <2> HIDE DEF T
  <2>3. T \in SUBSET Nat
    BY DEF T
  <2> QED BY <2>1, <2>2, <2>3, Induction
<1>2. PICK g : Is(g, N) /\ FlushedAll(v, c, status, type) = g[1 .. N]
  <2> DEFINE k == CHOOSE g : Is(g, N)
  <2>1. N \in T
    BY <1>0, <1>1
  <2>2. \E g : Is(g, N)
    BY <2>1
  <2>3. Is(k, N)
    <3> HIDE DEF Is
    <3> QED BY <2>2
  <2>5. FlushedAll(v, c, status, type) = k[1 .. N]
    BY <1>0 DEF FlushedAll, FoldLeft, MapThenFoldSet
  <2> HIDE DEF Is, k
  <2> QED BY <2>3, <2>5
<1> DEFINE On(s) == {c[i] : i \in s}
<1>8. On({}) = {}
  OBVIOUS
<1> HIDE DEF On, Is
<1> DEFINE K == {n \in Nat : n <= N => \A s \in SUBSET (1 .. n) : EndedThose(v, g[s], On(s))}
<1>3. K = Nat
  <2>1. 0 \in K
    <3>1. \A s \in SUBSET (1 .. 0) : s = {}
      OBVIOUS
    <3>2. g[{}] = v
      BY <1>2 DEF Is
    <3>3. EndedThose(v, v, {})
      BY DEF EndedThose, Kept
    <3> QED BY <1>8, <3>1, <3>2, <3>3
  <2>2. ASSUME NEW n \in K PROVE n + 1 \in K
    <3>0. n \in Nat /\ N \in Nat /\ n + 1 \in Nat
      BY <1>0
    <3> HIDE DEF N
    <3> SUFFICES ASSUME n + 1 <= N, NEW s \in SUBSET (1 .. n + 1) PROVE EndedThose(v, g[s], On(s))
      BY <3>0
    <3>1. CASE s = {}
      <4>1. g[s] = v
        BY <3>1, <1>2 DEF Is
      <4> QED BY <1>8, <3>1, <4>1 DEF EndedThose, Kept
    <3>2. CASE s # {}
      <4> DEFINE m == Max(s)
                 r == s \ {m}
      <4>2. m \in s /\ \A j \in s : j <= m
        BY <3>0, <3>2, MaxOfNext
      <4>5. s \in SUBSET (1 .. N)
        BY <3>0
      <4>6. g[s] = Op(g[r], c[m])
        BY <1>2, <3>2, <4>5 DEF Is
      <4> HIDE DEF m
      <4>3. r \in SUBSET (1 .. n)
        BY <4>2, <3>0
      <4>4. EndedThose(v, g[r], On(r))
        BY <4>3, <3>0
      <4>7. c[m] \in Page /\ c[m] \notin On(r) /\ On(s) = On(r) \cup {c[m]}
        <5>1. m \in DOMAIN c /\ r \subseteq DOMAIN c
          BY <1>0, <4>2, <4>5
        <5>2. c[m] \in Page
          BY <5>1
        <5>3. c[m] \notin On(r)
          BY <5>1 DEF On
        <5>4. On(s) = On(r) \cup {c[m]}
          BY <4>2 DEF On
        <5> QED BY <5>2, <5>3, <5>4
      <4> DEFINE w == g[r]
                 p == c[m]
      <4>8. EndedOnly(w, Flushed(w, p, status[p], type), p)
        <5> HIDE DEF w, p, On, Is, K
        <5>1. VmTypes(w) /\ p \in Page
          BY <4>4, <4>7 DEF EndedThose, w, p
        <5> QED BY <5>1, FlushedPages
      <4>9. g[s] = Flushed(w, p, status[p], type)
        BY <4>6
      <4> HIDE DEF Op, Is, K, On, r
      <4>10. EndedOnly(g[r], g[s], c[m])
        BY <4>8, <4>9
      <4>11. EndedThose(v, g[s], On(r) \cup {c[m]})
        BY <4>4, <4>7, <4>10, EndedNext
      <4> QED BY <4>7, <4>11
    <3> QED BY <3>1, <3>2
  <2> HIDE DEF K
  <2>3. K \in SUBSET Nat
    BY DEF K
  <2> QED BY <2>1, <2>2, <2>3, Induction
<1>4. N \in K /\ N <= N
  BY <1>0, <1>3
<1> DEFINE all == 1 .. N
<1>5. all \in SUBSET all
  OBVIOUS
<1>6. EndedThose(v, g[all], On(all))
  BY <1>4, <1>5
<1>7. On(all) = ToSet(c)
  BY <1>0 DEF ToSet, On
<1> HIDE DEF K
<1> QED BY <1>2, <1>6, <1>7

\* The pager answers for the pages of a cluster, and its thread goes on.
LEMMA FlushDoneGood ==
    ASSUME IInv, NEW t \in Thread, FlushDone(t) PROVE Good
<1> DEFINE o == th[t].object
           c == th[t].cluster
           type == obj[o].type
<1>1. PICK status \in [th[t].flushing -> PagerStatus] :
         LET n == Cardinality({p \in th[t].flushing : Counted(status[p], type)}) IN
         /\ vm' = FlushedAll(vm, c, status, type)
         /\ \/ version > 10 /\ CleanDone(t, n)
            \/ /\ version = 10 /\ Quiet
               /\ Go(t, [Counting(th[t], n) EXCEPT
                            !.objLocked = TRUE, !.flushing = {}, !.pc = "severe"])
  BY DEF FlushDone
<1> DEFINE n == Cardinality({p \in th[t].flushing : Counted(status[p], type)})
           a == Counting(th[t], n)
           s == [a EXCEPT !.objLocked = TRUE, !.flushing = {}, !.pc = "severe"]
<1>2. th[t].pc = "put" /\ ~ObjectLocked(o)
  BY DEF FlushDone
<1>3. /\ vm' = FlushedAll(vm, c, status, type)
      /\ CleanDone(t, n) \/ (Quiet /\ Go(t, s))
  BY <1>1
<1>4. /\ DOMAIN th[t] = DOMAIN IdleThread /\ th[t].queue \in Queue \cup {"NONE"}
      /\ o # NoObject /\ c \in Seq(Page) /\ \A i, j \in DOMAIN c : c[i] = c[j] => i = j
      /\ th[t].flushing = ToSet(c)
  BY <1>2 DEF IInv, ThreadSound
<1>5. EndedThose(vm, vm', ToSet(c))
  BY <1>3, <1>4, FlushedAllEnds DEF IInv
<1>6. ToSet(c) \subseteq Page
  BY <1>4 DEF ToSet
<1>7. ASSUME NEW p \in ToSet(c)
      PROVE  /\ vm.page[p].mapped # "rw" /\ vm.page[p].valid /\ vm.page[p].busy = "shared"
             /\ vm.page[p].object = o
             /\ vm.page[p] \in PageRecord /\ PageSound(vm.page[p])
             /\ Ended(vm.page[p], vm'.page[p]) /\ vm'.page[p] \in PageRecord
  <2>1. Sees(version, th[t], p, vm.page[p]) /\ vm.page[p] \in PageRecord /\ PageSound(vm.page[p])
    BY <1>6 DEF IInv, VmTypes
  <2>2. Ended(vm.page[p], vm'.page[p]) /\ vm'.page[p] \in PageRecord
    BY <1>5, <1>6 DEF EndedThose, VmTypes
  <2> QED BY <1>4, <2>1, <2>2 DEF Sees
<1>8. ASSUME NEW p \in Page
      PROVE  /\ vm'.page[p].object = vm.page[p].object /\ PageSound(vm'.page[p])
             /\ vm.page[p].mapped = "no" => vm'.page[p].mapped = "no"
  <2>1. CASE p \in ToSet(c)
    <3>1. PageSound(vm'.page[p])
      BY <1>7, <2>1 DEF PageSound, Ended, PageRecord, WrittenBack, GivenUp, NotWritten, StoreState
    <3> QED BY <1>7, <2>1, <3>1 DEF Ended
  <2>2. CASE p \notin ToSet(c)
    <3>1. Calm(vm.page[p], vm'.page[p])
      BY <1>5, <2>2, KeptCalm DEF EndedThose, IInv
    <3> QED BY <3>1 DEF Calm
  <2> QED BY <2>1, <2>2
<1>9. ASSUME NEW u \in Thread, u # t, NEW p \in Page PROVE Sees(version, th[u], p, vm'.page[p])
  <2>1. CASE p \in ToSet(c)
    <3>1. p \notin th[u].flushing
      BY <1>4, <1>9, <2>1 DEF IInv
    <3>2. ~(th[u].objLocked /\ th[u].object = vm.page[p].object)
      BY <1>2, <1>7, <2>1 DEF ObjectLocked
    <3> QED BY <1>7, <2>1, <3>1, <3>2, OthersSee DEF Ended
  <2>2. CASE p \notin ToSet(c)
    <3>1. Calm(vm.page[p], vm'.page[p])
      BY <1>5, <2>2, KeptCalm DEF EndedThose, IInv
    <3> QED BY <3>1, CalmSees DEF IInv
  <2> QED BY <2>1, <2>2
<1>10. VmTypes(vm')
  BY <1>5 DEF EndedThose
<1>11. CASE CleanDone(t, n)
  <2>1. PICK r : Objects /\ Go(t, r) /\ Rests(r) /\ ~r.objLocked
    BY <1>11, DoneRests
  <2>2. r.flushing = {}
    BY <2>1 DEF Rests
  <2>3. ThreadSound(r) /\ \A p \in Page : Sees(version, r, p, vm'.page[p])
    BY <2>1, RestSound
  <2> QED BY <1>8, <1>9, <1>10, <2>1, <2>2, <2>3, StirStep
<1>12. CASE Quiet /\ Go(t, s)
  <2>1. /\ DOMAIN a = DOMAIN IdleThread /\ a.queue = th[t].queue /\ a.object = o
        /\ a.cluster = c
    <3> DEFINE l == Less(th[t].left, IF version = 10 THEN Once(n) ELSE n)
               m == Less(th[t].maxlaunder, Once(n))
               k == CASE version = 12 -> th[t].scanned + n
                      [] version = 11 -> th[t].scanned + Less(n, 1)
                      [] version = 10 -> th[t].scanned
    <3>1. a = [th[t] EXCEPT !.left = l, !.maxlaunder = m, !.scanned = k]
      BY Zenon DEF Counting
    <3> HIDE DEF l, m, k, a
    <3> QED BY <1>4, <3>1 DEF IdleThread
  <2> HIDE DEF a
  <2>2. /\ DOMAIN s = DOMAIN IdleThread /\ s.queue = th[t].queue /\ s.object = o
        /\ s.cluster = c /\ s.flushing = {} /\ s.objLocked /\ s.pc = "severe"
    BY <2>1 DEF IdleThread
  <2> HIDE DEF s
  <2>3. ThreadSound(s)
    BY <1>4, <2>2 DEF ThreadSound, CleanPcs, LockedPcs, ClusterPcs, UnlockedPcs, PagePcs
  <2>4. ASSUME NEW p \in Page PROVE Sees(version, s, p, vm'.page[p])
    <3>1. p \in ToSet(c) => vm'.page[p].object = o
      BY <1>7 DEF Ended
    <3> QED BY <2>2, <3>1
        DEF Sees, CleanPcs, LockedPcs, ClusterPcs, UnusedPcs, UnheldPcs, DecidedPcs
  <2>5. ~ObjectTaken(t, s.object)
    BY <1>2, <2>2 DEF ObjectTaken, ObjectLocked
  <2>6. Objects
    BY <1>12, QuietlyObjects DEF Quiet
  <2> QED BY <1>8, <1>9, <1>10, <1>12, <2>2, <2>3, <2>4, <2>5, <2>6, StirStep
<1> QED BY <1>3, <1>11, <1>12

\* All of vm_pageout_clean.
LEMMA CleanGood ==
    ASSUME IInv, NEW t \in Thread, Clean(t) PROVE Good
BY CleanStartGood, CleanVgetGood, CleanPageGood, ClusterStartGood, ClusterBackGood,
   ClusterForwardGood, FlushStartGood, FlushDoneGood DEF Clean

-----------------------------------------------------------------------------
(* FreeBSD 10 and 11: scans with a marker. *)

WaitPcs == {"page", "held", "wobject", "wpage", "wqueue"}

\* On the way to a page and its locks nothing is known of it yet.
LEMMA WaitStep ==
    ASSUME IInv, NEW t \in Thread, NEW s, Go(t, s), Objects, Calmly(vm, vm'),
           DOMAIN s = DOMAIN IdleThread, s.queue = th[t].queue,
           s.flushing = th[t].flushing, th[t].pc # "put", s.pc \in WaitPcs, s.m \in Page,
           s.pc \in {"held", "wqueue"} => s.mtx = s.m,
           s.objLocked => s.pc \in {"wpage", "wqueue"} /\ ~ObjectTaken(t, s.object)
    PROVE  Good
<1>1. ThreadSound(th[t])
  BY DEF IInv
<1>2. ThreadSound(s)
  BY <1>1 DEF ThreadSound, WaitPcs, LockedPcs, CleanPcs, ClusterPcs, UnlockedPcs, PagePcs
<1>3. ASSUME NEW p \in Page PROVE Sees(version, s, p, vm'.page[p])
  BY <1>1 DEF ThreadSound, Sees, WaitPcs, LockedPcs, CleanPcs, ClusterPcs, UnusedPcs, UnheldPcs, DecidedPcs
<1>4. s.flushing \subseteq th[t].flushing
  OBVIOUS
<1> QED BY <1>2, <1>3, <1>4, ThreadStep DEF Go, Objects

\* A thread that has both locks of a page: what it has seen of it stays true.
LEMMA HoldStep ==
    ASSUME IInv, NEW t \in Thread, NEW s, Go(t, s), Objects, Calmly(vm, vm'),
           DOMAIN s = DOMAIN IdleThread, s.queue = th[t].queue,
           s.flushing = th[t].flushing, th[t].pc # "put", s.m \in Page, s.mtx = s.m,
           s.objLocked, ~ObjectTaken(t, s.object), s.pc \in LockedPcs,
           s.pc \in CleanPcs => s.object # NoObject,
           vm'.page[s.m].object = s.object, Seen(version, s.pc, vm'.page[s.m])
    PROVE  Good
<1>1. ThreadSound(th[t])
  BY DEF IInv
<1>2. ThreadSound(s)
  BY <1>1 DEF ThreadSound, LockedPcs, CleanPcs, ClusterPcs, UnlockedPcs, PagePcs
<1>3. ASSUME NEW p \in Page PROVE Sees(version, s, p, vm'.page[p])
  <2>1. s.flushing = {} /\ s.pc \notin ClusterPcs \cup {"severe"}
    BY <1>1 DEF ThreadSound, LockedPcs, ClusterPcs
  <2> QED BY <2>1 DEF Sees, Seen
<1>4. s.flushing \subseteq th[t].flushing
  OBVIOUS
<1> QED BY <1>2, <1>3, <1>4, ThreadStep DEF Go, Objects

\* The marker of a scan moves, no page does.
LEMMA MarkSame ==
    ASSUME IInv, NEW t \in Thread PROVE Same(vm, Mark(vm, t)) /\ Same(vm, Unmark(vm, t))
BY SetQueues DEF IInv, Mark, Unmark

\* A thread lets go of everything and takes the next entry, or locks the queue.
Gone(s, r) ==
    /\ DOMAIN r = DOMAIN IdleThread /\ r.queue = s.queue /\ r.flushing = s.flushing
    /\ ~r.objLocked /\ r.pc \in {"pick", "relock"} /\ r.m = s.m

\* A page skipped or dropped: the thread gives its locks up,
LEMMA DropGone ==
    ASSUME NEW s, DOMAIN s = DOMAIN IdleThread
    PROVE  /\ Gone(s, Skipped(s)) /\ Gone(s, Dropped(s))
           /\ \A n : Gone(s, [Skipped(s) EXCEPT !.left = n]) /\ Gone(s, [Dropped(s) EXCEPT !.left = n])
<1> DEFINE u == Unlocked(s)
<1>1. /\ DOMAIN u = DOMAIN IdleThread /\ u.queue = s.queue /\ u.flushing = s.flushing
      /\ ~u.objLocked /\ u.m = s.m
  BY DEF Unlocked, IdleThread
<1>2. Skipped(s) = [u EXCEPT !.pc = "pick"] /\ Dropped(s) = [u EXCEPT !.pc = "relock"]
  BY DEF Skipped, Dropped
<1> HIDE DEF u
<1>3. /\ Gone(s, Skipped(s)) /\ DOMAIN Skipped(s) = DOMAIN IdleThread
      /\ Gone(s, Dropped(s)) /\ DOMAIN Dropped(s) = DOMAIN IdleThread
  BY <1>1, <1>2 DEF Gone, IdleThread
<1>4. ASSUME NEW n, NEW r, Gone(s, r) PROVE Gone(s, [r EXCEPT !.left = n])
  BY <1>4 DEF Gone, IdleThread
<1> QED BY <1>3, <1>4

\* relies on nothing any more,
LEMMA GoneRests ==
    ASSUME IInv, NEW t \in Thread, NEW s, NEW r, Gone(s, r), th[t].pc # "put",
           s.queue = th[t].queue, s.flushing = th[t].flushing
    PROVE  Rests(r) /\ ~r.objLocked
<1>1. ThreadSound(th[t])
  BY DEF IInv
<1> QED BY <1>1 DEF Gone, Rests, RestPcs, ThreadSound

\* and the step is good.
LEMMA GoneGood ==
    ASSUME IInv, NEW t \in Thread, NEW s, NEW r, Go(t, r), Gone(s, r), th[t].pc # "put",
           s.queue = th[t].queue, s.flushing = th[t].flushing, Objects, Calmly(vm, vm')
    PROVE  Good
BY GoneRests, RestStep

\* The next page is looked for.
LEMMA SkippedGood ==
    ASSUME IInv, NEW t \in Thread, NEW s, Go(t, Skipped(s)),
           Objects, Calmly(vm, vm'), th[t].pc # "put",
           DOMAIN s = DOMAIN IdleThread, s.queue = th[t].queue, s.flushing = th[t].flushing
    PROVE  Good
BY DropGone, GoneGood

\* A scan with a marker begins.
LEMMA ScanGood ==
    ASSUME IInv, NEW t \in Thread, NEW s, NEW q \in Queue, Scan(t, s, q), vm' = vm, Objects,
           DOMAIN s = DOMAIN IdleThread, s.flushing = {}, ~s.objLocked
    PROVE  Good
<1> DEFINE r == [s EXCEPT !.queue = q, !.qlocked = TRUE, !.next = First(vm.tq[q]),
                          !.maxscan = vm.cnt[q], !.scanned = 0, !.pc = "pick"]
<1>1. Go(t, r)
  BY DEF Scan
<1>2. /\ DOMAIN r = DOMAIN IdleThread /\ r.queue = q /\ r.flushing = {} /\ ~r.objLocked
      /\ r.pc = "pick"
  BY DEF IdleThread
<1> HIDE DEF r
<1> QED BY <1>1, <1>2, CalmSelf, Leave DEF RestPcs

\* The next page of a queue, and what makes a scan pass over it.
LEMMA PickGood ==
    ASSUME IInv, NEW t \in Thread, Pick(t) PROVE Good
<1> DEFINE s == th[t]
           x == IF s.scan = "inactive" THEN "abegin" ELSE "idle"
           y == IF s.next \in Page THEN "page" ELSE "pick"
           succ == Succ(vm.tq[s.queue], s.next)
           a == [IdleThread EXCEPT !.pc = x]
           b == [s EXCEPT !.m = s.next, !.next = succ, !.scanned = @ + 1, !.pc = y]
<1>1. s.pc = "pick" /\ vm' = vm /\ (Go(t, a) \/ Go(t, b)) /\ Objects
  <2>1. s.pc = "pick" /\ vm' = vm /\ (Go(t, a) \/ Go(t, b)) /\ Quiet
    BY Zenon DEF Pick
  <2> QED BY <2>1, QuietlyObjects DEF Quiet
<1>2. ThreadSound(s)
  BY DEF IInv
<1>3. CASE Go(t, a)
  <2>1. x \in {"abegin", "idle"}
    OBVIOUS
  <2>2. Rests(a) /\ ~a.objLocked
    <3> HIDE DEF x
    <3> QED BY <2>1 DEF Rests, IdleThread, RestPcs
  <2> HIDE DEF a
  <2> QED BY <1>1, <1>3, <2>2, CalmSelf, RestStep
<1>4. CASE Go(t, b)
  <2>1. y = "pick" \/ (y = "page" /\ s.next \in Page)
    OBVIOUS
  <2> HIDE DEF y, succ
  <2>2. /\ DOMAIN b = DOMAIN IdleThread /\ b.queue = s.queue /\ b.flushing = s.flushing
        /\ b.objLocked = s.objLocked /\ b.m = s.next /\ b.pc = y
    BY <1>2 DEF ThreadSound, IdleThread
  <2> HIDE DEF b
  <2>3. ~s.objLocked /\ s.queue \in Queue \cup {"NONE"}
    BY <1>1, <1>2 DEF ThreadSound, UnlockedPcs
  <2>4. CASE y = "pick"
    BY <1>1, <1>4, <2>2, <2>3, <2>4, CalmSelf, Leave DEF RestPcs
  <2>5. CASE y = "page" /\ s.next \in Page
    BY <1>1, <1>4, <2>2, <2>3, <2>5, CalmSelf, WaitStep DEF WaitPcs
  <2> QED BY <2>1, <2>4, <2>5
<1> QED BY <1>1, <1>3, <1>4

\* The page lock is tried,
LEMMA TryPageGood ==
    ASSUME IInv, NEW t \in Thread, TryPage(t) PROVE Good
<1> DEFINE a == [th[t] EXCEPT !.mtx = th[t].m, !.pc = "held"]
           b == [th[t] EXCEPT !.qlocked = FALSE, !.pc = "wpage"]
<1>1. th[t].pc = "page" /\ Objects
  BY QuietlyObjects DEF TryPage
<1>2. (Go(t, a) /\ vm' = vm) \/ (Go(t, b) /\ vm' = Mark(vm, t))
  BY DEF TryPage
<1>3. ThreadSound(th[t])
  BY DEF IInv
<1>4. /\ DOMAIN a = DOMAIN IdleThread /\ a.queue = th[t].queue /\ a.flushing = th[t].flushing
      /\ a.objLocked = th[t].objLocked /\ a.m = th[t].m /\ a.mtx = th[t].m /\ a.pc = "held"
      /\ DOMAIN b = DOMAIN IdleThread /\ b.queue = th[t].queue /\ b.flushing = th[t].flushing
      /\ b.objLocked = th[t].objLocked /\ b.m = th[t].m /\ b.pc = "wpage"
  BY <1>3 DEF ThreadSound, IdleThread
<1> HIDE DEF a, b
<1>5. ~th[t].objLocked /\ th[t].m \in Page
  BY <1>1, <1>3 DEF ThreadSound, UnlockedPcs, PagePcs
<1>6. Calmly(vm, vm')
  BY <1>2, CalmSelf, MarkSame, CalmSame
<1> QED BY <1>1, <1>2, <1>4, <1>5, <1>6, WaitStep DEF WaitPcs

\* then the object lock.
LEMMA TryObjectGood ==
    ASSUME IInv, NEW t \in Thread, TryObject(t) PROVE Good
<1> DEFINE s == th[t]
           o == vm.page[s.m].object
           a == [s EXCEPT !.object = o, !.objLocked = TRUE, !.pc = "busy"]
           b == [s EXCEPT !.object = o, !.mtx = NoPage, !.qlocked = FALSE, !.pc = "wobject"]
<1>1. s.pc = "held" /\ Objects
  BY QuietlyObjects DEF TryObject
<1>2. \/ Go(t, Skipped(s)) /\ vm' = vm
      \/ ~ObjectTaken(t, o) /\ Go(t, a) /\ vm' = vm
      \/ Go(t, b) /\ vm' = Mark(vm, t)
  BY DEF TryObject
<1>3. ThreadSound(s)
  BY DEF IInv
<1>4. DOMAIN s = DOMAIN IdleThread /\ ~s.objLocked /\ s.m \in Page /\ s.mtx = s.m
  BY <1>1, <1>3 DEF ThreadSound, UnlockedPcs, PagePcs
<1>5. CASE Go(t, Skipped(s)) /\ vm' = vm
  BY <1>1, <1>4, <1>5, CalmSelf, SkippedGood
<1>6. CASE ~ObjectTaken(t, o) /\ Go(t, a) /\ vm' = vm
  <2>1. /\ DOMAIN a = DOMAIN IdleThread /\ a.queue = s.queue /\ a.flushing = s.flushing
        /\ a.objLocked /\ a.object = o /\ a.m = s.m /\ a.mtx = s.mtx /\ a.pc = "busy"
    BY <1>4 DEF IdleThread
  <2> HIDE DEF a
  <2>2. Seen(version, "busy", vm'.page[s.m])
    BY DEF Seen, UnusedPcs, UnheldPcs, DecidedPcs, CleanPcs
  <2>3. "busy" \in LockedPcs /\ "busy" \notin CleanPcs
    BY DEF LockedPcs, CleanPcs
  <2> QED BY <1>1, <1>4, <1>6, <2>1, <2>2, <2>3, CalmSelf, HoldStep
<1>7. CASE Go(t, b) /\ vm' = Mark(vm, t)
  <2>1. /\ DOMAIN b = DOMAIN IdleThread /\ b.queue = s.queue /\ b.flushing = s.flushing
        /\ b.objLocked = s.objLocked /\ b.m = s.m /\ b.pc = "wobject"
    BY <1>4 DEF IdleThread
  <2> HIDE DEF b
  <2> QED BY <1>1, <1>4, <1>7, <2>1, MarkSame, CalmSame, WaitStep DEF WaitPcs
<1> QED BY <1>2, <1>5, <1>6, <1>7

\* vm_pageout_fallback_object_lock waits for the object,
LEMMA WaitForObjectGood ==
    ASSUME IInv, NEW t \in Thread, WaitForObject(t) PROVE Good
<1> DEFINE a == [th[t] EXCEPT !.objLocked = TRUE, !.pc = "wpage"]
<1>1. th[t].pc = "wobject" /\ ~ObjectLocked(th[t].object) /\ Go(t, a) /\ vm' = vm /\ Objects
  BY QuietlyObjects DEF WaitForObject, Quiet
<1>2. ThreadSound(th[t])
  BY DEF IInv
<1>3. /\ DOMAIN a = DOMAIN IdleThread /\ a.queue = th[t].queue /\ a.flushing = th[t].flushing
      /\ a.object = th[t].object /\ a.m = th[t].m /\ a.pc = "wpage"
  BY <1>2 DEF ThreadSound, IdleThread
<1> HIDE DEF a
<1>4. th[t].m \in Page /\ ~ObjectTaken(t, a.object)
  BY <1>1, <1>2, <1>3 DEF ThreadSound, PagePcs, ObjectTaken, ObjectLocked
<1> QED BY <1>1, <1>3, <1>4, CalmSelf, WaitStep DEF WaitPcs

\* for the page,
LEMMA WaitPageGood ==
    ASSUME IInv, NEW t \in Thread, WaitPage(t) PROVE Good
<1> DEFINE a == [th[t] EXCEPT !.mtx = th[t].m, !.pc = "wqueue"]
<1>1. th[t].pc = "wpage" /\ Go(t, a) /\ vm' = vm /\ Objects
  BY QuietlyObjects DEF WaitPage, Quiet
<1>2. ThreadSound(th[t])
  BY DEF IInv
<1>3. /\ DOMAIN a = DOMAIN IdleThread /\ a.queue = th[t].queue /\ a.flushing = th[t].flushing
      /\ a.object = th[t].object /\ a.m = th[t].m /\ a.pc = "wqueue" /\ a.mtx = a.m
      /\ a.objLocked = th[t].objLocked
  BY <1>2 DEF ThreadSound, IdleThread
<1> HIDE DEF a
<1>4. th[t].m \in Page /\ (a.objLocked => ~ObjectTaken(t, a.object))
  BY <1>1, <1>2, <1>3, AloneWithObject DEF ThreadSound, PagePcs
<1> QED BY <1>1, <1>3, <1>4, CalmSelf, WaitStep DEF WaitPcs

\* and for the queue; then the page may have moved.
LEMMA WaitQueueGood ==
    ASSUME IInv, NEW t \in Thread, WaitQueue(t) PROVE Good
<1> DEFINE s == [th[t] EXCEPT !.next = AfterMarker(t), !.qlocked = TRUE]
           x == IF s.objLocked THEN "busy" ELSE "held"
           r == [s EXCEPT !.pc = x]
<1>1. th[t].pc = "wqueue" /\ vm' = Unmark(vm, t) /\ Objects
  BY QuietlyObjects DEF WaitQueue, Quiet
<1>2. Go(t, Skipped(s)) \/ (PageUnchanged(t) /\ Go(t, r))
  BY Zenon DEF WaitQueue
<1>3. ThreadSound(th[t])
  BY DEF IInv
<1>4. /\ DOMAIN s = DOMAIN IdleThread /\ s.queue = th[t].queue /\ s.flushing = th[t].flushing
      /\ s.object = th[t].object /\ s.m = th[t].m /\ s.mtx = th[t].mtx
      /\ s.objLocked = th[t].objLocked
  BY <1>3 DEF ThreadSound, IdleThread
<1> HIDE DEF s
<1>5. Calmly(vm, vm') /\ th[t].m \in Page /\ th[t].mtx = th[t].m
  BY <1>1, <1>3, MarkSame, CalmSame DEF ThreadSound, PagePcs
<1>6. CASE Go(t, Skipped(s))
  BY <1>1, <1>4, <1>5, <1>6, SkippedGood
<1>7. CASE PageUnchanged(t) /\ Go(t, r)
  <2>1. /\ DOMAIN r = DOMAIN IdleThread /\ r.queue = th[t].queue /\ r.flushing = th[t].flushing
        /\ r.object = th[t].object /\ r.m = th[t].m /\ r.mtx = th[t].mtx
        /\ r.objLocked = th[t].objLocked /\ r.pc = x
    <3> HIDE DEF x
    <3> QED BY <1>4 DEF IdleThread
  <2> HIDE DEF r
  <2>2. CASE ~s.objLocked
    <3>1. x = "held"
      BY <2>2
    <3> QED BY <1>1, <1>4, <1>5, <1>7, <2>1, <2>2, <3>1, WaitStep DEF WaitPcs
  <2>3. CASE s.objLocked
    <3>1. x = "busy"
      BY <2>3
    <3>2. vm'.page[r.m].object = r.object
      BY <1>4, <1>5, <1>7, <2>1, <2>3 DEF PageUnchanged, Calmly, Calm
    <3>3. Seen(version, "busy", vm'.page[r.m])
      BY DEF Seen, UnusedPcs, UnheldPcs, DecidedPcs, CleanPcs
    <3>4. "busy" \in LockedPcs /\ "busy" \notin CleanPcs
      BY DEF LockedPcs, CleanPcs
    <3>5. ~ObjectTaken(t, r.object)
      BY <1>4, <2>1, <2>3, AloneWithObject
    <3> QED BY <1>1, <1>4, <1>5, <1>7, <2>1, <2>3, <3>1, <3>2, <3>3, <3>4, <3>5, HoldStep
  <2> QED BY <2>2, <2>3
<1> QED BY <1>2, <1>6, <1>7

\* Both locks are held: a page in use is passed over, or the queue is unlocked.
LEMMA TakeGood ==
    ASSUME IInv, NEW t \in Thread, Take(t), version # 12 PROVE Good
<1> DEFINE s == th[t]
           p == s.m
           r == [s EXCEPT !.qlocked = FALSE, !.pc = "ref"]
<1>1. s.pc = "busy" /\ Objects
  BY QuietlyObjects DEF Take, Quiet
<1>2. \/ vm' = vm /\ Go(t, Skipped(s))
      \/ /\ ~HeldNow(s) /\ vm.page[p].busy = "no" /\ Go(t, r)
         /\ vm' = Dequeue(Mark(vm, t), p) \/ vm' = Mark(vm, t)
  BY Zenon DEF Take
<1>3. ThreadSound(s)
  BY DEF IInv
<1>4. DOMAIN s = DOMAIN IdleThread /\ s.objLocked /\ p \in Page /\ s.mtx = p
  BY <1>1, <1>3 DEF ThreadSound, LockedPcs, PagePcs
<1>5. CASE vm' = vm /\ Go(t, Skipped(s))
  BY <1>1, <1>4, <1>5, CalmSelf, SkippedGood
<1>6. CASE /\ ~HeldNow(s) /\ vm.page[p].busy = "no" /\ Go(t, r)
           /\ vm' = Dequeue(Mark(vm, t), p) \/ vm' = Mark(vm, t)
  <2>1. Same(vm, vm')
    <3>1. Same(vm, Mark(vm, t))
      BY MarkSame
    <3>2. Same(Mark(vm, t), Dequeue(Mark(vm, t), p))
      BY <3>1, DequeueSame DEF Same
    <3> QED BY <1>6, <3>1, <3>2, SameTrans
  <2>2. /\ DOMAIN r = DOMAIN IdleThread /\ r.queue = s.queue /\ r.flushing = s.flushing
        /\ r.object = s.object /\ r.m = p /\ r.mtx = s.mtx
        /\ r.objLocked = s.objLocked /\ r.pc = "ref"
    BY <1>4 DEF IdleThread
  <2> HIDE DEF r
  <2>3. Sees(version, s, p, vm.page[p])
    BY <1>4 DEF IInv
  <2>4. vm'.page[p].object = s.object /\ vm'.page[p].busy = "no" /\ vm'.page[p].hold = vm.page[p].hold
    BY <1>1, <1>4, <1>6, <2>1, <2>3 DEF Same, Kept, Sees, LockedPcs
  <2>5. version = 11 => ~vm.page[p].hold
    BY <1>6 DEF HeldNow, HoldMatters
  <2>6. Seen(version, "ref", vm'.page[p])
    BY <2>4, <2>5 DEF Seen, UnheldPcs, DecidedPcs, CleanPcs
  <2>7. "ref" \in LockedPcs /\ "ref" \notin CleanPcs /\ ~ObjectTaken(t, r.object)
    BY <1>4, <2>2, AloneWithObject DEF LockedPcs, CleanPcs
  <2> QED BY <1>1, <1>4, <1>6, <2>1, <2>2, <2>4, <2>6, <2>7, CalmSame, HoldStep
<1> QED BY <1>2, <1>5, <1>6

\* The queue is locked again, and the scan goes on at its marker.
LEMMA RelockGood ==
    ASSUME IInv, NEW t \in Thread, Relock(t) PROVE Good
<1> DEFINE a == [th[t] EXCEPT !.next = AfterMarker(t), !.qlocked = TRUE, !.pc = "pick"]
<1>1. th[t].pc = "relock" /\ vm' = Unmark(vm, t) /\ Go(t, a) /\ Objects
  BY QuietlyObjects DEF Relock, Quiet
<1>2. ThreadSound(th[t])
  BY DEF IInv
<1>3. /\ DOMAIN a = DOMAIN IdleThread /\ a.queue = th[t].queue /\ a.flushing = th[t].flushing
      /\ a.objLocked = th[t].objLocked /\ a.pc = "pick"
  BY <1>2 DEF ThreadSound, IdleThread
<1> HIDE DEF a
<1>4. ~th[t].objLocked /\ th[t].queue \in Queue \cup {"NONE"}
  BY <1>1, <1>2 DEF ThreadSound, UnlockedPcs
<1> QED BY <1>1, <1>3, <1>4, MarkSame, CalmSame, Leave DEF RestPcs

-----------------------------------------------------------------------------
(* FreeBSD 11. *)

\* One more queue operation.
LEMMA ThenSame ==
    ASSUME NEW v, NEW w, Same(v, w), NEW p
    PROVE  /\ Same(v, Settle(w, p)) /\ Same(v, Complete(w, p)) /\ Same(v, Dequeue(w, p))
           /\ Same(v, Requeue(w, p)) /\ Same(v, Activate(w, p)) /\ Same(v, Deactivate(w, p))
           /\ Same(v, Launder(w, p)) /\ Same(v, DeactivateNoreuse(w, p))
           /\ \A n \in Nat : Same(v, Advance(w, p, n))
           /\ \A q \in Queue \cup {"NONE"} : Same(v, Enqueue(w, p, q, "tail"))
<1>1. VmTypes(w)
  BY DEF Same
<1>2. /\ Same(w, Settle(w, p)) /\ Same(w, Complete(w, p)) /\ Same(w, Dequeue(w, p))
      /\ Same(w, Requeue(w, p)) /\ Same(w, Activate(w, p)) /\ Same(w, Deactivate(w, p))
      /\ Same(w, Launder(w, p)) /\ Same(w, DeactivateNoreuse(w, p))
  BY <1>1, SettleSame, CompleteSame, DequeueSame, RequeueSame, ActivateSame, DeactivateSame,
     LaunderSame, NoreuseSame
<1>3. \A n \in Nat : Same(w, Advance(w, p, n))
  BY <1>1, AdvanceSame
<1>4. \A q \in Queue \cup {"NONE"} : Same(w, Enqueue(w, p, q, "tail"))
  BY <1>1, EnqueueSame
<1> QED BY <1>2, <1>3, <1>4, SameTrans

\* A scan begins.
LEMMA BeginObjects ==
    ASSUME IInv, NEW t \in Thread, NEW from, Begin(t, from), from \subseteq {"idle", "abegin"}
    PROVE  /\ Objects /\ DOMAIN th[t] = DOMAIN IdleThread /\ th[t].flushing = {}
           /\ ~th[t].objLocked
<1>1. th[t].pc \in {"idle", "abegin"} /\ ThreadSound(th[t])
  BY DEF Begin, IInv
<1>2. Objects
  BY DEF Begin, Objects, IInv
<1> QED BY <1>1, <1>2 DEF ThreadSound, UnlockedPcs

\* Its scans begin.
LEMMA Begin11Good ==
    ASSUME IInv, NEW t \in Thread, InactiveBegin_11(t) \/ LaunderBegin_11(t) \/ ActiveBegin_11(t)
    PROVE  Good
<1>1. CASE InactiveBegin_11(t)
  <2>1. PICK n \in Shortages \ {0} : Scan(t, [th[t] EXCEPT !.scan = "inactive", !.left = n], "INACTIVE")
    BY <1>1 DEF InactiveBegin_11
  <2> DEFINE s == [th[t] EXCEPT !.scan = "inactive", !.left = n]
  <2>2. Objects /\ DOMAIN th[t] = DOMAIN IdleThread /\ th[t].flushing = {} /\ ~th[t].objLocked
    BY <1>1, BeginObjects DEF InactiveBegin_11
  <2>3. DOMAIN s = DOMAIN IdleThread /\ s.flushing = {} /\ ~s.objLocked
    BY <2>2 DEF IdleThread
  <2>4. Scan(t, s, "INACTIVE") /\ vm' = vm /\ "INACTIVE" \in Queue
    BY <1>1, <2>1 DEF InactiveBegin_11, Queue
  <2> HIDE DEF s
  <2> QED BY <2>2, <2>3, <2>4, ScanGood
<1>2. CASE LaunderBegin_11(t)
  <2>1. PICK n \in Shortages \ {0}, in_shortfall \in BOOLEAN :
           Scan(t, [th[t] EXCEPT !.scan = "launder", !.left = n, !.shortfall = in_shortfall], "LAUNDRY")
    BY <1>2 DEF LaunderBegin_11
  <2> DEFINE s == [th[t] EXCEPT !.scan = "launder", !.left = n, !.shortfall = in_shortfall]
  <2>2. Objects /\ DOMAIN th[t] = DOMAIN IdleThread /\ th[t].flushing = {} /\ ~th[t].objLocked
    BY <1>2, BeginObjects DEF LaunderBegin_11
  <2>3. DOMAIN s = DOMAIN IdleThread /\ s.flushing = {} /\ ~s.objLocked
    BY <2>2 DEF IdleThread
  <2>4. Scan(t, s, "LAUNDRY") /\ vm' = vm /\ "LAUNDRY" \in Queue
    BY <1>2, <2>1 DEF LaunderBegin_11, Queue
  <2> HIDE DEF s
  <2> QED BY <2>2, <2>3, <2>4, ScanGood
<1>3. CASE ActiveBegin_11(t)
  <2>1. PICK shortage \in Shortages, min_scan \in IF fifo THEN {0} ELSE 0 .. vm.cnt["ACTIVE"] :
           Scan(t, [th[t] EXCEPT !.scan = "active", !.minscan = min_scan,
                                 !.left = shortage * act_scan_laundry_weight], "ACTIVE")
    BY <1>3 DEF ActiveBegin_11
  <2> DEFINE n == shortage * act_scan_laundry_weight
             s == [th[t] EXCEPT !.scan = "active", !.minscan = min_scan, !.left = n]
  <2>2. Objects /\ DOMAIN th[t] = DOMAIN IdleThread /\ th[t].flushing = {} /\ ~th[t].objLocked
    BY <1>3, BeginObjects DEF ActiveBegin_11
  <2>4. Scan(t, s, "ACTIVE") /\ vm' = vm /\ "ACTIVE" \in Queue
    BY <1>3, <2>1 DEF ActiveBegin_11, Queue
  <2> HIDE DEF n
  <2>3. DOMAIN s = DOMAIN IdleThread /\ s.flushing = {} /\ ~s.objLocked
    BY <2>2 DEF IdleThread
  <2> HIDE DEF s
  <2> QED BY <2>2, <2>3, <2>4, ScanGood
<1> QED BY <1>1, <1>2, <1>3

\* What a thread knows that looks at a page whose locks it holds.
LEMMA KnowsLocked ==
    ASSUME IInv, NEW t \in Thread, th[t].pc \in {"busy", "ref", "decide", "grow"}
    PROVE  /\ th[t].m \in Page /\ DOMAIN th[t] = DOMAIN IdleThread /\ th[t].objLocked
           /\ th[t].mtx = th[t].m /\ th[t].queue \in Queue \cup {"NONE"}
           /\ Sees(version, th[t], th[t].m, vm.page[th[t].m])
           /\ vm.page[th[t].m] \in PageRecord /\ PageSound(vm.page[th[t].m])
           /\ VmTypes(vm) /\ th[t].pc \in LockedPcs
<1>1. ThreadSound(th[t]) /\ VmTypes(vm) /\ th[t].pc \in LockedPcs
  BY DEF IInv, LockedPcs
<1>2. th[t].m \in Page
  BY <1>1 DEF ThreadSound, PagePcs
<1> QED BY <1>1, <1>2 DEF IInv, ThreadSound, VmTypes

\* The references of an inactive page.
LEMMA Referenced11Good ==
    ASSUME IInv, NEW t \in Thread, ReferencedFifo(t) \/ Referenced_11(t), version = 11 PROVE Good
<1> DEFINE s == th[t]
           p == s.m
           pg == vm.page[p]
           mapped == RefCount(s.object) # 0
           delta == ActDelta(pg, mapped)
           v == [vm EXCEPT !.page[p] = Forget(@, mapped)]
           n == IF s.scan = "launder" /\ ~s.shortfall THEN Dropped(s).left - 1 ELSE Dropped(s).left
           x == ToTest(s)
           act == Advance(Settle(Activate(v, p), p), p, delta + ActAdvance)
           enq == Complete(Enqueue(v, p, s.queue, "tail"), p)
<1>1. s.pc = "ref" /\ Objects
  <2>1. s.pc = "ref" /\ Quiet
    BY DEF ReferencedFifo, Referenced_11
  <2> QED BY <2>1, QuietlyObjects DEF Quiet
<1>2. /\ p \in Page /\ DOMAIN s = DOMAIN IdleThread /\ s.queue \in Queue \cup {"NONE"}
      /\ VmTypes(vm) /\ s.pc \in LockedPcs /\ pg.busy = "no" /\ ~pg.hold
  BY <1>1, KnowsLocked DEF Sees, UnusedPcs, LockedPcs
<1>3. \/ vm' = act /\ Go(t, [Dropped(s) EXCEPT !.left = n])
      \/ vm' = enq /\ Go(t, Dropped(s))
      \/ (vm' = vm \/ vm' = v) /\ Go(t, [s EXCEPT !.pc = x])
      \/ ~pg.valid /\ vm' = vm /\ Go(t, [s EXCEPT !.pc = "decide"])
  <2>1. CASE ReferencedFifo(t)
    BY <2>1, Zenon DEF ReferencedFifo
  <2>2. CASE Referenced_11(t)
    BY <2>2, Zenon DEF Referenced_11
  <2> QED BY <2>1, <2>2
<1>4. Same(vm, v) /\ Same(vm, vm)
  BY <1>2, ForgetSame, SameRefl
<1>5. delta + ActAdvance \in Nat
  BY ActAssumption, DeltaNat
<1> HIDE DEF v, delta
<1>6. Same(vm, act)
  <2> DEFINE a == Activate(v, p)
             b == Settle(a, p)
  <2>1. Same(vm, a)
    BY <1>4, ThenSame
  <2> HIDE DEF a
  <2>2. Same(vm, b)
    BY <2>1, ThenSame
  <2> HIDE DEF b
  <2>3. Same(vm, Advance(b, p, delta + ActAdvance))
    BY <1>5, <2>2, ThenSame
  <2> QED BY <2>3 DEF a, b
<1>7. Same(vm, enq)
  <2> DEFINE a == Enqueue(v, p, s.queue, "tail")
  <2>1. Same(vm, a)
    BY <1>2, <1>4, ThenSame
  <2> HIDE DEF a
  <2>2. Same(vm, Complete(a, p))
    BY <2>1, ThenSame
  <2> QED BY <2>2 DEF a
<1> HIDE DEF act, enq, n
<1>8. CASE \/ vm' = act /\ Go(t, [Dropped(s) EXCEPT !.left = n])
           \/ vm' = enq /\ Go(t, Dropped(s))
  BY <1>1, <1>2, <1>6, <1>7, <1>8, CalmSame, DropGone, GoneGood
<1>9. CASE (vm' = vm \/ vm' = v) /\ Go(t, [s EXCEPT !.pc = x])
  <2>1. x = "test" \/ (x = "decide" /\ RefCount(s.object) = 0)
    BY DEF ToTest
  <2> HIDE DEF x
  <2> QED BY <1>1, <1>2, <1>4, <1>9, <2>1, GoOnGood
<1>10. CASE ~pg.valid /\ vm' = vm /\ Go(t, [s EXCEPT !.pc = "decide"])
  BY <1>1, <1>2, <1>4, <1>10, GoOnGood
<1> QED BY <1>3, <1>8, <1>9, <1>10

\* A clean page is freed, a dirty one laundered or cleaned.
LEMMA Decide11Good ==
    ASSUME IInv, NEW t \in Thread, Decide_11(t) PROVE Good
<1> DEFINE s == th[t]
           p == s.m
           pg == vm.page[p]
           n == IF s.scan = "inactive" THEN Dropped(s).left - 1 ELSE Dropped(s).left
           laundered == Settle(Launder(vm, p), p)
           requeued == Complete(Requeue(vm, p), p)
<1>1. s.pc = "decide" /\ Objects
  BY QuietlyObjects DEF Decide_11, Quiet
<1>2. p \in Page /\ DOMAIN s = DOMAIN IdleThread /\ VmTypes(vm) /\ s.pc # "put"
  BY <1>1, KnowsLocked
<1>3. \/ /\ ~pg.valid \/ ~pg.dirty
         /\ vm' = Free(vm, p) /\ Go(t, [Dropped(s) EXCEPT !.left = n])
      \/ (vm' = vm \/ vm' = laundered \/ vm' = requeued) /\ Go(t, Dropped(s))
      \/ pg.valid /\ vm' = vm /\ Go(t, [s EXCEPT !.pc = "clean"])
  BY Zenon DEF Decide_11
<1> HIDE DEF n
<1>4. CASE /\ ~pg.valid \/ ~pg.dirty
           /\ vm' = Free(vm, p) /\ Go(t, [Dropped(s) EXCEPT !.left = n])
  <2> DEFINE r == [Dropped(s) EXCEPT !.left = n]
  <2>1. Gone(s, r)
    BY <1>2, DropGone
  <2>2. Rests(r) /\ ~r.objLocked
    BY <1>2, <2>1, GoneRests
  <2> HIDE DEF r
  <2>3. Go(t, r) /\ s.pc \in DecidedPcs
    BY <1>1, <1>4 DEF r, DecidedPcs
  <2> QED BY <1>1, <1>4, <2>2, <2>3, FreeGood
<1>5. CASE (vm' = vm \/ vm' = laundered \/ vm' = requeued) /\ Go(t, Dropped(s))
  <2>1. Same(vm, vm) /\ Same(vm, laundered) /\ Same(vm, requeued)
    <3>1. Same(vm, vm)
      BY <1>2, SameRefl
    <3>2. Same(vm, Launder(vm, p)) /\ Same(vm, Requeue(vm, p))
      BY <3>1, ThenSame
    <3> QED BY <3>1, <3>2, ThenSame
  <2> HIDE DEF laundered, requeued
  <2> QED BY <1>1, <1>2, <1>5, <2>1, CalmSame, DropGone, GoneGood
<1>6. CASE pg.valid /\ vm' = vm /\ Go(t, [s EXCEPT !.pc = "clean"])
  BY <1>1, <1>2, <1>6, ToCleanGood
<1> QED BY <1>3, <1>4, <1>5, <1>6

\* A page of the active queue.
LEMMA ActivePage11Good ==
    ASSUME IInv, NEW t \in Thread, ActiveFifo(t) \/ ActivePage_11(t) PROVE Good
<1> DEFINE s == Skipped(th[t])
           p == s.m
           pg == vm.page[p]
           mapped == RefCount(pg.object) # 0
           delta == ActDelta(pg, mapped)
           act == Aged(pg, delta)
           v == [vm EXCEPT !.page[p] = [Forget(@, mapped) EXCEPT !.act = act]]
           w == Dequeue(v, p)
           l1 == Less(s.left, act_scan_laundry_weight)
           l2 == Less(s.left, 1)
<1>1. th[t].pc = "held" /\ Objects /\ VmTypes(vm) /\ ThreadSound(th[t])
  <2>1. th[t].pc = "held" /\ Quiet
    BY DEF ActiveFifo, ActivePage_11
  <2> QED BY <2>1, QuietlyObjects DEF Quiet, IInv
<1>2. /\ \/ vm' = Complete(Requeue(v, p), p)
         \/ vm' = Settle(Deactivate(w, p), p)
         \/ vm' = Settle(Launder(w, p), p)
      /\ \/ Go(t, s) \/ Go(t, [s EXCEPT !.left = l1]) \/ Go(t, [s EXCEPT !.left = l2])
  <2>1. CASE ActiveFifo(t)
    BY <2>1, Zenon DEF ActiveFifo
  <2>2. CASE ActivePage_11(t)
    BY <2>2, Zenon DEF ActivePage_11
  <2> QED BY <2>1, <2>2
<1>3. /\ Gone(th[t], s) /\ Gone(th[t], [s EXCEPT !.left = l1]) /\ Gone(th[t], [s EXCEPT !.left = l2])
  BY <1>1, DropGone DEF ThreadSound
<1> HIDE DEF s
<1>4. Same(vm, v)
  <2>1. p \in Page => act \in 0 .. ActModulus - 1
    <3>1. p \in Page => pg \in PageRecord
      BY <1>1 DEF VmTypes
    <3>2. delta \in Nat
      BY DeltaNat
    <3> HIDE DEF p, pg, delta
    <3> QED BY <3>1, <3>2, NewAge
  <2>2. mapped \in BOOLEAN
    OBVIOUS
  <2> HIDE DEF act, mapped, p
  <2> QED BY <1>1, <2>1, <2>2, AgeSame
<1> HIDE DEF v, p
<1>5. Same(vm, Requeue(v, p)) /\ Same(vm, w)
  BY <1>4, ThenSame
<1> HIDE DEF w
<1>6. Same(vm, Deactivate(w, p)) /\ Same(vm, Launder(w, p))
  BY <1>5, ThenSame
<1>7. Same(vm, vm')
  BY <1>2, <1>5, <1>6, ThenSame
<1> QED BY <1>1, <1>2, <1>3, <1>7, CalmSame, GoneGood

\* All of its steps.
LEMMA Scan11Good ==
    ASSUME IInv, NEW t \in Thread, Scan11(t), version = 11 PROVE Good
<1>1. CASE vm_pageout_scan_11(t)
  <2>1. th[t].pc \in {"test", "unmap"} => th[t].m \in Page
    BY DEF IInv, ThreadSound, PagePcs, LockedPcs
  <2>2. CASE TestDirtyStep(t, "test", "unmap", "decide")
    BY <2>1, <2>2, TestDirtyGood DEF TestDirtyStep
  <2>3. CASE RemoveAllStep(t, "unmap", "decide")
    BY <2>1, <2>3, RemoveAllGood DEF RemoveAllStep
  <2> QED BY <1>1, <2>2, <2>3, Begin11Good, Referenced11Good, Decide11Good, ActivePage11Good
      DEF vm_pageout_scan_11
<1>2. CASE vm_pageout_launder_11(t)
  BY <1>2, Begin11Good DEF vm_pageout_launder_11
<1>3. CASE Pick(t) \/ TryObject(t) \/ Take(t) \/ Relock(t)
  BY <1>3, PickGood, TryObjectGood, TakeGood, RelockGood
<1>4. CASE vm_pageout_page_lock(t) \/ vm_pageout_fallback_object_lock(t)
  BY <1>4, TryPageGood, WaitPageGood, WaitForObjectGood, WaitQueueGood
     DEF vm_pageout_page_lock, vm_pageout_fallback_object_lock
<1>5. CASE vm_pageout_clean_11(t) \/ vm_pageout_cluster(t) \/ vm_pageout_flush_11(t)
  BY <1>5, CleanGood DEF vm_pageout_clean_11, vm_pageout_cluster, vm_pageout_flush_11, Clean
<1> QED BY <1>1, <1>2, <1>3, <1>4, <1>5 DEF Scan11

-----------------------------------------------------------------------------
(* FreeBSD 10. *)

\* Its scans begin.
LEMMA Begin10Good ==
    ASSUME IInv, NEW t \in Thread,
           InactiveBegin_10(t) \/ vm_pageout_grow_cache(t) \/ ActiveBegin_10(t)
    PROVE  Good
<1>1. CASE InactiveBegin_10(t)
  <2>1. PICK n \in Shortages \ {0}, urgent \in BOOLEAN :
           Scan(t, [th[t] EXCEPT !.scan = "inactive", !.left = n, !.shortfall = urgent,
                                 !.maxlaunder = IF urgent THEN Cardinality(Page) ELSE 1],
                "INACTIVE")
    BY <1>1 DEF InactiveBegin_10
  <2> DEFINE k == IF urgent THEN Cardinality(Page) ELSE 1
             s == [th[t] EXCEPT !.scan = "inactive", !.left = n, !.shortfall = urgent,
                                !.maxlaunder = k]
  <2>2. Objects /\ DOMAIN th[t] = DOMAIN IdleThread /\ th[t].flushing = {} /\ ~th[t].objLocked
    BY <1>1, BeginObjects DEF InactiveBegin_10
  <2>4. Scan(t, s, "INACTIVE") /\ vm' = vm /\ "INACTIVE" \in Queue
    BY <1>1, <2>1 DEF InactiveBegin_10, Queue
  <2> HIDE DEF k
  <2>3. DOMAIN s = DOMAIN IdleThread /\ s.flushing = {} /\ ~s.objLocked
    BY <2>2 DEF IdleThread
  <2> HIDE DEF s
  <2> QED BY <2>2, <2>3, <2>4, ScanGood
<1>2. CASE vm_pageout_grow_cache(t)
  <2>1. PICK tries \in 0 .. 2, q \in {"INACTIVE", "ACTIVE"} :
           Scan(t, [th[t] EXCEPT !.scan = "grow", !.shortfall = tries > 0], q)
    BY <1>2 DEF vm_pageout_grow_cache
  <2> DEFINE k == tries > 0
             s == [th[t] EXCEPT !.scan = "grow", !.shortfall = k]
  <2>2. Objects /\ DOMAIN th[t] = DOMAIN IdleThread /\ th[t].flushing = {} /\ ~th[t].objLocked
    BY <1>2, BeginObjects DEF vm_pageout_grow_cache
  <2>4. Scan(t, s, q) /\ vm' = vm /\ q \in Queue
    BY <1>2, <2>1 DEF vm_pageout_grow_cache, Queue
  <2> HIDE DEF k
  <2>3. DOMAIN s = DOMAIN IdleThread /\ s.flushing = {} /\ ~s.objLocked
    BY <2>2 DEF IdleThread
  <2> HIDE DEF s
  <2> QED BY <2>2, <2>3, <2>4, ScanGood
<1>3. CASE ActiveBegin_10(t)
  <2>1. PICK shortage \in Shortages :
           Scan(t, [th[t] EXCEPT !.scan = "active", !.left = shortage], "ACTIVE")
    BY <1>3 DEF ActiveBegin_10
  <2> DEFINE s == [th[t] EXCEPT !.scan = "active", !.left = shortage]
  <2>2. Objects /\ DOMAIN th[t] = DOMAIN IdleThread /\ th[t].flushing = {} /\ ~th[t].objLocked
    BY <1>3, BeginObjects DEF ActiveBegin_10
  <2>3. DOMAIN s = DOMAIN IdleThread /\ s.flushing = {} /\ ~s.objLocked
    BY <2>2 DEF IdleThread
  <2>4. Scan(t, s, "ACTIVE") /\ vm' = vm /\ "ACTIVE" \in Queue
    BY <1>3, <2>1 DEF ActiveBegin_10, Queue
  <2> HIDE DEF s
  <2> QED BY <2>2, <2>3, <2>4, ScanGood
<1> QED BY <1>1, <1>2, <1>3

\* The references of an inactive page.
LEMMA Referenced10Good ==
    ASSUME IInv, NEW t \in Thread, Referenced_10(t), version = 10 PROVE Good
<1> DEFINE s == th[t]
           p == s.m
           pg == vm.page[p]
           mapped == RefCount(s.object) # 0
           delta == ActDelta(pg, mapped)
           v == [vm EXCEPT !.page[p] = Forget(@, mapped)]
           act == Advance(Settle(Activate(v, p), p), p, delta + ActAdvance)
           req == Complete(Requeue(v, p), p)
<1>1. s.pc = "ref" /\ Objects
  BY QuietlyObjects DEF Referenced_10, Quiet
<1>2. /\ p \in Page /\ DOMAIN s = DOMAIN IdleThread /\ VmTypes(vm) /\ s.pc \in LockedPcs
      /\ pg.busy = "no"
  BY <1>1, KnowsLocked DEF Sees, UnusedPcs, LockedPcs
<1>3. \/ (vm' = act \/ vm' = req \/ vm' = v) /\ Go(t, Dropped(s))
      \/ ~pg.hold /\ vm' = v /\ Go(t, [s EXCEPT !.pc = "test"])
  BY Zenon DEF Referenced_10
<1>4. Same(vm, v)
  BY <1>2, ForgetSame
<1>5. delta + ActAdvance \in Nat
  BY ActAssumption, DeltaNat
<1> HIDE DEF v, delta
<1>6. Same(vm, act)
  <2> DEFINE a == Activate(v, p)
             b == Settle(a, p)
  <2>1. Same(vm, a)
    BY <1>4, ThenSame
  <2> HIDE DEF a
  <2>2. Same(vm, b)
    BY <2>1, ThenSame
  <2> HIDE DEF b
  <2>3. Same(vm, Advance(b, p, delta + ActAdvance))
    BY <1>5, <2>2, ThenSame
  <2> QED BY <2>3 DEF a, b
<1>7. Same(vm, req)
  BY <1>4, ThenSame
<1> HIDE DEF act, req
<1>8. CASE (vm' = act \/ vm' = req \/ vm' = v) /\ Go(t, Dropped(s))
  BY <1>1, <1>2, <1>4, <1>6, <1>7, <1>8, CalmSame, DropGone, GoneGood
<1>9. CASE ~pg.hold /\ vm' = v /\ Go(t, [s EXCEPT !.pc = "test"])
  BY <1>1, <1>2, <1>4, <1>9, GoOnGood
<1> QED BY <1>3, <1>8, <1>9

\* A clean page is freed or cached, a dirty one cleaned.
LEMMA Decide10Good ==
    ASSUME IInv, NEW t \in Thread, Decide_10(t) PROVE Good
<1> DEFINE s == th[t]
           p == s.m
           pg == vm.page[p]
           n == Dropped(s).left - 1
           requeued == Complete(Requeue(vm, p), p)
           again == [requeued EXCEPT !.page[p].winatcfls = TRUE]
<1>1. s.pc = "decide" /\ Objects
  BY QuietlyObjects DEF Decide_10, Quiet
<1>2. p \in Page /\ DOMAIN s = DOMAIN IdleThread /\ VmTypes(vm) /\ s.pc # "put"
  BY <1>1, KnowsLocked
<1>3. \/ /\ ~(pg.valid /\ pg.dirty)
         /\ vm' = Free(vm, p) /\ Go(t, [Dropped(s) EXCEPT !.left = n])
      \/ (vm' = vm \/ vm' = requeued \/ vm' = again) /\ Go(t, Dropped(s))
      \/ pg.valid /\ vm' = vm /\ Go(t, [s EXCEPT !.pc = "clean"])
  BY Zenon DEF Decide_10
<1> HIDE DEF n
<1>4. CASE /\ ~(pg.valid /\ pg.dirty)
           /\ vm' = Free(vm, p) /\ Go(t, [Dropped(s) EXCEPT !.left = n])
  <2> DEFINE r == [Dropped(s) EXCEPT !.left = n]
  <2>1. Gone(s, r)
    BY <1>2, DropGone
  <2>2. Rests(r) /\ ~r.objLocked
    BY <1>2, <2>1, GoneRests
  <2> HIDE DEF r
  <2>3. Go(t, r) /\ s.pc \in DecidedPcs
    BY <1>1, <1>4 DEF r, DecidedPcs
  <2> QED BY <1>1, <1>4, <2>2, <2>3, FreeGood
<1>5. CASE (vm' = vm \/ vm' = requeued \/ vm' = again) /\ Go(t, Dropped(s))
  <2>1. Same(vm, vm) /\ Same(vm, requeued)
    <3>1. Same(vm, vm)
      BY <1>2, SameRefl
    <3> QED BY <3>1, ThenSame
  <2> HIDE DEF requeued
  <2>2. Same(vm, again)
    <3>1. VmTypes(requeued)
      BY <2>1 DEF Same
    <3>2. Same(requeued, again)
      BY <3>1, SetWinatcfls
    <3> QED BY <2>1, <3>2, SameTrans
  <2> HIDE DEF again
  <2> QED BY <1>1, <1>2, <1>5, <2>1, <2>2, CalmSame, DropGone, GoneGood
<1>6. CASE pg.valid /\ vm' = vm /\ Go(t, [s EXCEPT !.pc = "clean"])
  BY <1>1, <1>2, <1>6, ToCleanGood
<1> QED BY <1>3, <1>4, <1>5, <1>6

\* A page of the active queue.
LEMMA ActivePage10Good ==
    ASSUME IInv, NEW t \in Thread, ActivePage_10(t) PROVE Good
<1> DEFINE s == Skipped(th[t])
           p == s.m
           pg == vm.page[p]
           mapped == RefCount(pg.object) # 0
           delta == ActDelta(pg, mapped)
           act == Aged(pg, delta)
           v == [vm EXCEPT !.page[p] = [Forget(@, mapped) EXCEPT !.act = act]]
           l == s.left - 1
<1>1. th[t].pc = "held" /\ Objects /\ VmTypes(vm) /\ ThreadSound(th[t])
  BY QuietlyObjects DEF ActivePage_10, Quiet, IInv
<1>2. /\ \/ vm' = Complete(Requeue(v, p), p)
         \/ vm' = Settle(Deactivate(Dequeue(v, p), p), p)
      /\ Go(t, s) \/ Go(t, [s EXCEPT !.left = l])
  BY Zenon DEF ActivePage_10
<1>3. Gone(th[t], s) /\ Gone(th[t], [s EXCEPT !.left = l])
  BY <1>1, DropGone DEF ThreadSound
<1> HIDE DEF s
<1>4. Same(vm, v)
  <2>1. p \in Page => act \in 0 .. ActModulus - 1
    <3>1. p \in Page => pg \in PageRecord
      BY <1>1 DEF VmTypes
    <3>2. delta \in Nat
      BY DeltaNat
    <3> HIDE DEF p, pg, delta
    <3> QED BY <3>1, <3>2, NewAge
  <2>2. mapped \in BOOLEAN
    OBVIOUS
  <2> HIDE DEF act, mapped, p
  <2> QED BY <1>1, <2>1, <2>2, AgeSame
<1> HIDE DEF v, p
<1>5. Same(vm, Requeue(v, p)) /\ Same(vm, Dequeue(v, p))
  BY <1>4, ThenSame
<1>6. Same(vm, Deactivate(Dequeue(v, p), p))
  BY <1>5, ThenSame
<1>7. Same(vm, vm')
  BY <1>2, <1>5, <1>6, ThenSame
<1> QED BY <1>1, <1>2, <1>3, <1>7, CalmSame, GoneGood

\* vm_pageout_launder looks at a page under its locks.
LEMMA GrowLookGood ==
    ASSUME IInv, NEW t \in Thread, GrowLook(t), version = 10 PROVE Good
<1> DEFINE s == th[t]
           p == s.m
           pg == TestDirty(vm.page[p])
           x == IF ~pg.dirty /\ RefCount(s.object) # 0 THEN "unmap" ELSE "grow"
<1>1. s.pc = "busy" /\ s.scan = "grow" /\ Objects
  BY QuietlyObjects DEF GrowLook, Quiet
<1>2. /\ p \in Page /\ DOMAIN s = DOMAIN IdleThread /\ s.pc \in LockedPcs /\ s.pc # "put"
      /\ vm.page[p] \in PageRecord /\ PageSound(vm.page[p]) /\ VmTypes(vm)
      /\ vm.page[p].object = s.object
  BY <1>1, KnowsLocked DEF Sees
<1>3. \/ vm' = vm /\ Go(t, Skipped(s))
      \/ /\ ~HeldNow(s) /\ pg.busy = "no"
         /\ vm' = [vm EXCEPT !.page[p] = pg] /\ Go(t, [s EXCEPT !.pc = x])
  BY Zenon DEF GrowLook, SetPage
<1>4. CASE vm' = vm /\ Go(t, Skipped(s))
  BY <1>1, <1>2, <1>4, CalmSelf, SkippedGood
<1>5. CASE /\ ~HeldNow(s) /\ pg.busy = "no"
           /\ vm' = [vm EXCEPT !.page[p] = pg] /\ Go(t, [s EXCEPT !.pc = x])
  <2>1. ~vm.page[p].hold
    BY <1>1, <1>5 DEF HeldNow, HoldMatters
  <2>2. Calmly(vm, vm')
    BY <1>2, <1>5, TestDirtyCalmly DEF IInv
  <2>3. vm'.page[p] = pg
    BY <1>2, <1>5 DEF VmTypes
  <2>4. Calm(vm.page[p], pg)
    BY <1>2, <2>2, <2>3 DEF Calmly
  <2>5. x = "unmap" \/ (x = "grow" /\ (pg.dirty \/ RefCount(s.object) = 0))
    OBVIOUS
  <2>6. RefCount(s.object) = 0 => vm.page[p].mapped = "no"
    BY <1>2, NoReferences
  <2> HIDE DEF x, pg
  <2>7. Seen(version, x, vm'.page[p])
    BY <1>5, <2>1, <2>3, <2>4, <2>5, <2>6
       DEF Seen, Calm, LockedPcs, UnusedPcs, UnheldPcs, DecidedPcs, CleanPcs
  <2>8. x \in LockedPcs /\ x \notin CleanPcs
    BY <2>5 DEF LockedPcs, CleanPcs
  <2> QED BY <1>1, <1>2, <1>5, <2>2, <2>7, <2>8, LockedStep
<1> QED BY <1>3, <1>4, <1>5

\* Then the page is cached, passed over, or written.
LEMMA GrowDecideGood ==
    ASSUME IInv, NEW t \in Thread, GrowDecide(t), version = 10 PROVE Good
<1> DEFINE s == th[t]
           p == s.m
           pg == vm.page[p]
           a == [s EXCEPT !.mtx = NoPage, !.qlocked = FALSE, !.refd = TRUE,
                          !.objLocked = FALSE, !.pc = "gvnode"]
           b == [s EXCEPT !.mtx = NoPage, !.qlocked = FALSE,
                          !.cluster = << p >>, !.pc = "flush"]
<1>1. s.pc = "grow" /\ Objects
  BY QuietlyObjects DEF GrowDecide, Quiet
<1>2. /\ p \in Page /\ DOMAIN s = DOMAIN IdleThread /\ s.pc \in LockedPcs /\ s.pc # "put"
      /\ s.objLocked /\ Sees(version, s, p, pg) /\ ThreadSound(s) /\ s.flushing = {}
      /\ pg \in PageRecord /\ PageSound(pg) /\ VmTypes(vm)
  <2>1. ThreadSound(s)
    BY DEF IInv
  <2> QED BY <1>1, <2>1, KnowsLocked DEF ThreadSound
<1>3. pg.object = s.object /\ pg.busy = "no"
  BY <1>1, <1>2 DEF Sees, LockedPcs, UnusedPcs
<1>4. \/ ~pg.dirty /\ vm' = Free(vm, p) /\ Go(t, Skipped(s))
      \/ vm' = vm /\ Go(t, Skipped(s))
      \/ pg.dirty /\ vm' = vm /\ (Go(t, a) \/ Go(t, b))
  BY Zenon DEF GrowDecide
<1>5. CASE ~pg.dirty /\ vm' = Free(vm, p) /\ Go(t, Skipped(s))
  <2>1. Gone(s, Skipped(s))
    BY <1>2, DropGone
  <2>2. Rests(Skipped(s)) /\ ~Skipped(s).objLocked
    BY <1>2, <2>1, GoneRests
  <2>3. s.pc \in DecidedPcs
    BY <1>1 DEF DecidedPcs
  <2> QED BY <1>1, <1>5, <2>2, <2>3, FreeGood
<1>6. CASE vm' = vm /\ Go(t, Skipped(s))
  BY <1>1, <1>2, <1>6, CalmSelf, SkippedGood
<1>7. CASE pg.dirty /\ vm' = vm /\ Go(t, a)
  <2>1. /\ DOMAIN a = DOMAIN IdleThread /\ a.pc = "gvnode" /\ ~a.objLocked
        /\ a.queue = s.queue /\ a.flushing = s.flushing
    BY <1>2 DEF IdleThread
  <2> HIDE DEF a
  <2>2. ThreadSound(a)
    BY <1>2, <2>1 DEF ThreadSound, LockedPcs, CleanPcs, ClusterPcs, UnlockedPcs, PagePcs
  <2>3. ASSUME NEW q \in Page PROVE Sees(version, a, q, vm'.page[q])
    BY <1>2, <2>1
       DEF Sees, LockedPcs, CleanPcs, ClusterPcs, UnusedPcs, UnheldPcs, DecidedPcs
  <2> QED BY <1>1, <1>2, <1>7, <2>1, <2>2, <2>3, CalmSelf, ThreadStep DEF Go, Objects
<1>8. CASE pg.dirty /\ vm' = vm /\ Go(t, b)
  <2>1. /\ DOMAIN b = DOMAIN IdleThread /\ b.pc = "flush" /\ b.objLocked = s.objLocked
        /\ b.queue = s.queue /\ b.flushing = s.flushing /\ b.object = s.object
        /\ b.cluster = << p >>
    BY <1>2 DEF IdleThread
  <2> HIDE DEF b
  <2>2. pg.valid /\ s.object # NoObject
    BY <1>2, <1>3, <1>8 DEF PageSound
  <2>3. Consecutive(<< p >>)
    <3>1. p \in Page /\ p \in Nat
      BY <1>2, PageAssumption
    <3>2. << p >> \in Seq(Page) /\ << p >> # << >> /\ DOMAIN << p >> = {1} /\ << p >>[1] = p
      BY <3>1
    <3> QED BY <3>1, <3>2 DEF Consecutive
  <2>4. ToSet(<< p >>) = {p}
    BY DEF ToSet
  <2>5. ClusterPage(s.object, vm'.page[p])
    BY <1>3, <1>8, <2>2 DEF ClusterPage
  <2> QED BY <1>1, <1>2, <1>8, <2>1, <2>2, <2>3, <2>4, <2>5, CalmSelf, ClusterStep DEF ClusterPcs
<1> QED BY <1>4, <1>5, <1>6, <1>7, <1>8

\* Elements of a finite set in some order, none of them twice.
LEMMA SomeOrder ==
    ASSUME NEW S, IsFiniteSet(S)
    PROVE  LET c == SetToSeq(S) IN
           /\ c \in Seq(S) /\ ToSet(c) \subseteq S
           /\ \A i, j \in DOMAIN c : c[i] = c[j] => i = j
<1> DEFINE n == Cardinality(S)
           c == SetToSeq(S)
<1>1. n \in Nat /\ ExistsBijection(1 .. n, S)
  BY FS_CardinalityType
<1>2. PICK g : g \in Bijection(1 .. n, S)
  BY <1>1 DEF ExistsBijection
<1> HIDE DEF n
<1>3. g \in [1 .. n -> S] /\ IsInjective(g)
  BY <1>2 DEF Bijection, Injection, IsInjective
<1>4. c \in [1 .. n -> S] /\ IsInjective(c)
  <2>1. c = CHOOSE f \in [1 .. n -> S] : IsInjective(f)
    BY DEF SetToSeq, n
  <2> QED BY <1>3, <2>1
<1> HIDE DEF c
<1>5. c \in Seq(S) /\ DOMAIN c = 1 .. n
  BY <1>1, <1>4
<1>6. \A i, j \in DOMAIN c : c[i] = c[j] => i = j
  BY <1>4 DEF IsInjective
<1>7. ToSet(c) \subseteq S
  BY <1>4, <1>5 DEF ToSet
<1> QED BY <1>5, <1>6, <1>7 DEF c

\* Version 10 forms a cluster of whatever it finds of the object.
LEMMA GrowVnodeGood ==
    ASSUME IInv, NEW t \in Thread, GrowVnode(t), version = 10 PROVE Good
<1> DEFINE s == th[t]
           dirty == {p \in Page : /\ vm.page[p].object = s.object
                                  /\ vm.page[p].busy = "no" /\ vm.page[p].valid
                                  /\ TestDirty(vm.page[p]).dirty}
           c == SetToSeq(dirty)
           r == [s EXCEPT !.objLocked = TRUE, !.pc = "flush", !.cluster = c]
<1>1. s.pc = "gvnode" /\ ~ObjectLocked(s.object) /\ vm' = vm
  BY DEF GrowVnode
<1>2. CleanDone(t, 0) \/ (dirty # {} /\ Go(t, r) /\ Quiet)
  BY Zenon DEF GrowVnode
<1>3. CASE CleanDone(t, 0)
  BY <1>1, <1>3, CalmSelf, CleanDoneGood
<1>4. CASE dirty # {} /\ Go(t, r) /\ Quiet
  <2>1. ThreadSound(s) /\ DOMAIN s = DOMAIN IdleThread /\ s.flushing = {}
        /\ s.queue \in Queue \cup {"NONE"}
    BY <1>1 DEF IInv, ThreadSound
  <2>2. IsFiniteSet(dirty) /\ dirty \subseteq Page
    BY PageAssumption, FS_Subset
  <2>3. \A q \in dirty :
           vm.page[q].object = s.object /\ vm.page[q].busy = "no" /\ vm.page[q].valid
    OBVIOUS
  <2>4. PICK q : q \in dirty
    BY <1>4
  <2> HIDE DEF dirty
  <2>5. /\ c \in Seq(dirty) /\ ToSet(c) \subseteq dirty
        /\ \A i, j \in DOMAIN c : c[i] = c[j] => i = j
    BY <2>2, SomeOrder
  <2>6. c \in Seq(Page)
    BY <2>2, <2>5
  <2>7. s.object # NoObject
    BY <2>2, <2>3, <2>4 DEF IInv, PageSound
  <2> HIDE DEF c
  <2>8. /\ DOMAIN r = DOMAIN IdleThread /\ r.pc = "flush" /\ r.objLocked /\ r.cluster = c
        /\ r.queue = s.queue /\ r.flushing = s.flushing /\ r.object = s.object
    BY <2>1 DEF IdleThread
  <2> HIDE DEF r
  <2>9. ThreadSound(r)
    BY <2>1, <2>5, <2>6, <2>7, <2>8
       DEF ThreadSound, LockedPcs, CleanPcs, ClusterPcs, UnlockedPcs, PagePcs
  <2>10. ASSUME NEW p \in Page PROVE Sees(version, r, p, vm'.page[p])
    BY <1>1, <2>1, <2>3, <2>5, <2>8
       DEF Sees, LockedPcs, CleanPcs, ClusterPcs, UnusedPcs, UnheldPcs, DecidedPcs
  <2>11. ~ObjectTaken(t, r.object)
    BY <1>1, <2>8 DEF ObjectTaken, ObjectLocked
  <2> QED BY <1>1, <1>4, <2>8, <2>9, <2>10, <2>11, CalmSelf, QuietlyObjects, ThreadStep
      DEF Go, Objects, Quiet
<1> QED BY <1>2, <1>3, <1>4

\* The pages just written: each may be cached, the others wait.
LEMMA Tails ==
    ASSUME NEW c \in Seq(Page), c # << >>, \A i, j \in DOMAIN c : c[i] = c[j] => i = j
    PROVE  /\ Head(c) \in ToSet(c) /\ Head(c) \in Page
           /\ Tail(c) \in Seq(Page) /\ ToSet(Tail(c)) \subseteq ToSet(c) \ {Head(c)}
           /\ \A i, j \in DOMAIN Tail(c) : Tail(c)[i] = Tail(c)[j] => i = j
<1>1. /\ Len(c) \in Nat \ {0} /\ DOMAIN c = 1 .. Len(c) /\ Head(c) = c[1]
      /\ Tail(c) \in Seq(Page) /\ DOMAIN Tail(c) = 1 .. Len(c) - 1
  OBVIOUS
<1>2. \A i \in DOMAIN Tail(c) : i + 1 \in DOMAIN c /\ i + 1 # 1 /\ Tail(c)[i] = c[i + 1]
  BY <1>1
<1>3. 1 \in DOMAIN c
  BY <1>1
<1>4. \A i, j \in DOMAIN Tail(c) : Tail(c)[i] = Tail(c)[j] => i = j
  <2>1. \A i, j \in DOMAIN Tail(c) : i + 1 = j + 1 => i = j
    BY <1>1
  <2> QED BY <1>2, <2>1
<1>5. ToSet(Tail(c)) \subseteq ToSet(c) \ {Head(c)}
  <2>1. ASSUME NEW i \in DOMAIN Tail(c) PROVE Tail(c)[i] \in ToSet(c) /\ Tail(c)[i] # Head(c)
    BY <1>1, <1>2, <1>3 DEF ToSet
  <2> QED BY <2>1 DEF ToSet
<1>6. Head(c) \in ToSet(c) /\ Head(c) \in Page
  BY <1>1, <1>3 DEF ToSet
<1> QED BY <1>1, <1>4, <1>5, <1>6

\* vm_page_try_to_cache, for the pages that were written.
LEMMA FlushSevereGood ==
    ASSUME IInv, NEW t \in Thread, FlushSevere(t), version = 10 PROVE Good
<1> DEFINE s == th[t]
           p == Head(s.cluster)
           c == Tail(s.cluster)
           r == [s EXCEPT !.cluster = c]
           pg == RemoveAll(vm.page[p])
<1>1. s.pc = "severe"
  BY DEF FlushSevere
<1>2. \/ vm' = vm /\ CleanDone(t, 0)
      \/ s.cluster # << >> /\ Quiet /\ Go(t, r) /\ (vm' = vm \/ vm' = TryToCache(p))
  BY DEF FlushSevere
<1>3. CASE vm' = vm /\ CleanDone(t, 0)
  BY <1>3, CalmSelf, CleanDoneGood
<1>4. CASE s.cluster # << >> /\ Quiet /\ Go(t, r) /\ (vm' = vm \/ vm' = TryToCache(p))
  <2>1. ThreadSound(s) /\ VmTypes(vm) /\ \A x \in Page : Sees(version, s, x, vm.page[x])
    BY DEF IInv
  <2>2. /\ DOMAIN s = DOMAIN IdleThread /\ s.flushing = {} /\ s.objLocked
        /\ s.queue \in Queue \cup {"NONE"} /\ s.object # NoObject /\ s.cluster \in Seq(Page)
        /\ \A i, j \in DOMAIN s.cluster : s.cluster[i] = s.cluster[j] => i = j
    BY <1>1, <2>1 DEF ThreadSound, ClusterPcs
  <2>3. /\ p \in ToSet(s.cluster) /\ p \in Page
        /\ c \in Seq(Page) /\ ToSet(c) \subseteq ToSet(s.cluster) \ {p}
        /\ \A i, j \in DOMAIN c : c[i] = c[j] => i = j
    BY <1>4, <2>2, Tails
  <2>4. \A x \in Page : x \in ToSet(s.cluster) => vm.page[x].object = s.object
    BY <1>1, <2>1 DEF Sees
  <2>5. vm.page[p] \in PageRecord /\ PageSound(vm.page[p])
    BY <2>3 DEF IInv, VmTypes
  <2>6. /\ vm' = TryToCache(p)
        => \/ vm' = vm
           \/ vm' = [vm EXCEPT !.page[p] = pg]
           \/ ~vm.page[p].dirty /\ ~Held(pg) /\ pg.busy = "no" /\ ~pg.dirty /\ vm' = Free(vm, p)
    BY Zenon DEF TryToCache
  <2> HIDE DEF c
  <2>7. /\ DOMAIN r = DOMAIN IdleThread /\ r.pc = "severe" /\ r.objLocked /\ r.cluster = c
        /\ r.queue = s.queue /\ r.flushing = s.flushing /\ r.object = s.object /\ r.m = s.m
    BY <1>1, <2>2 DEF IdleThread
  <2> HIDE DEF r, p
  <2>8. ThreadSound(r)
    BY <2>2, <2>3, <2>7 DEF ThreadSound, LockedPcs, CleanPcs, ClusterPcs, UnlockedPcs, PagePcs
  <2>9. ASSUME NEW x \in Page, NEW a, x # p => a.object = vm.page[x].object
        PROVE  Sees(version, r, x, a)
    BY <2>2, <2>3, <2>4, <2>7, <2>9
       DEF Sees, LockedPcs, CleanPcs, ClusterPcs, UnusedPcs, UnheldPcs, DecidedPcs
  <2>10. Objects
    BY <1>4, QuietlyObjects DEF Quiet
  <2>11. ASSUME Calmly(vm, vm') PROVE Good
    <3>1. \A x \in Page : Sees(version, r, x, vm'.page[x])
      BY <2>9, <2>11 DEF Calmly, Calm
    <3>2. ~ObjectTaken(t, r.object)
      BY <2>2, <2>7, AloneWithObject
    <3> QED BY <1>4, <2>7, <2>8, <2>10, <2>11, <3>1, <3>2, ThreadStep DEF Go, Objects
  <2>12. CASE vm' = vm
    BY <2>11, <2>12, CalmSelf
  <2>13. CASE vm' = [vm EXCEPT !.page[p] = pg]
    BY <2>1, <2>11, <2>13, TestDirtyCalmly DEF IInv
  <2>14. CASE ~vm.page[p].dirty /\ ~Held(pg) /\ pg.busy = "no" /\ ~pg.dirty /\ vm' = Free(vm, p)
    <3>1. /\ vm.page[p].busy = "no" /\ ~vm.page[p].hold /\ ~vm.page[p].pmod
      BY <2>5, <2>14 DEF RemoveAll, Held, PageRecord
    <3>2. vm.page[p].store \in {"same", "lost"}
      BY <2>5, <2>14, <3>1 DEF PageSound, PageRecord, StoreState
    <3>3. VmTypes(vm') /\ vm'.page[p] = FreePage
          /\ \A x \in Page : x # p => Kept(vm.page[x], vm'.page[x])
      BY <2>1, <2>3, <2>14, FreePages
    <3>4. \A x \in Page : Sees(version, r, x, vm'.page[x])
      BY <2>9, <3>3 DEF Kept
    <3> QED BY <1>4, <2>2, <2>3, <2>4, <2>7, <2>8, <2>10, <3>1, <3>2, <3>3, <3>4, FreeStep
  <2> QED BY <1>4, <2>6, <2>12, <2>13, <2>14
<1> QED BY <1>2, <1>3, <1>4

\* The vnode is locked while no lock is held,
LEMMA VgetGood ==
    ASSUME IInv, NEW t \in Thread, Vget(t) PROVE Good
<1> DEFINE a == [th[t] EXCEPT !.objLocked = TRUE, !.pc = "vpage"]
           b == [th[t] EXCEPT !.mtx = th[t].m, !.pc = "vqueue"]
<1>1. vm' = vm /\ th[t].pc \in {"vget", "vpage"}
  BY DEF Vget
<1>2. \/ CleanDone(t, 0)
      \/ th[t].pc = "vget" /\ ~ObjectLocked(th[t].object) /\ Go(t, a) /\ Quiet
      \/ th[t].pc = "vpage" /\ Go(t, b) /\ Quiet
  BY DEF Vget
<1>3. th[t].pc \in CleanPcs
  BY <1>1 DEF CleanPcs
<1>4. DOMAIN th[t] = DOMAIN IdleThread
  BY <1>3, KnowsPage
<1>5. CASE th[t].pc = "vget" /\ ~ObjectLocked(th[t].object) /\ Go(t, a) /\ Quiet
  <2>1. /\ a.pc = "vpage" /\ DOMAIN a = DOMAIN IdleThread /\ a.queue = th[t].queue
        /\ a.m = th[t].m /\ a.object = th[t].object /\ a.flushing = th[t].flushing
        /\ a.objLocked
    BY <1>4 DEF IdleThread
  <2> HIDE DEF a
  <2>2. a.pc \in CleanPcs \ LockedPcs
    BY <2>1 DEF CleanPcs, LockedPcs
  <2>3. Objects
    BY <1>5, QuietlyObjects DEF Quiet
  <2>4. ~ObjectTaken(t, a.object)
    BY <1>5, <2>1 DEF ObjectTaken, ObjectLocked
  <2> QED BY <1>1, <1>3, <1>5, <2>1, <2>2, <2>3, <2>4, BetweenStep
<1>6. CASE th[t].pc = "vpage" /\ Go(t, b) /\ Quiet
  <2>1. /\ b.pc = "vqueue" /\ DOMAIN b = DOMAIN IdleThread /\ b.queue = th[t].queue
        /\ b.m = th[t].m /\ b.object = th[t].object /\ b.flushing = th[t].flushing
        /\ b.objLocked = th[t].objLocked /\ b.mtx = b.m
    BY <1>4 DEF IdleThread
  <2> HIDE DEF b
  <2>2. b.pc \in CleanPcs \ LockedPcs
    BY <2>1 DEF CleanPcs, LockedPcs
  <2>3. Objects
    BY <1>6, QuietlyObjects DEF Quiet
  <2>4. th[t].objLocked
    BY <1>6 DEF IInv, ThreadSound
  <2>5. ~ObjectTaken(t, b.object)
    BY <2>1, <2>4, AloneWithObject
  <2> QED BY <1>1, <1>3, <1>6, <2>1, <2>2, <2>3, <2>4, <2>5, BetweenStep
<1>7. CASE CleanDone(t, 0)
  BY <1>1, <1>7, CalmSelf, CleanDoneGood
<1> QED BY <1>2, <1>5, <1>6, <1>7

\* and the page is tested again.
LEMMA VnodeRecheckGood ==
    ASSUME IInv, NEW t \in Thread, VnodeRecheck(t) PROVE Good
<1> DEFINE m == th[t].m
           s == [th[t] EXCEPT !.pc = "cluster"]
           req == Complete(Requeue(vm, m), m)
<1>1. th[t].pc = "vqueue"
  BY DEF VnodeRecheck
<1>2. \/ (vm' = vm \/ vm' = req) /\ CleanDone(t, 0)
      \/ /\ vm.page[m].object = th[t].object /\ vm.page[m].busy = "no"
         /\ vm' = vm /\ Go(t, s) /\ Quiet
  BY Zenon DEF VnodeRecheck
<1>3. th[t].pc \in CleanPcs
  BY <1>1 DEF CleanPcs
<1>4. DOMAIN th[t] = DOMAIN IdleThread
  BY <1>3, KnowsPage
<1>5. CASE (vm' = vm \/ vm' = req) /\ CleanDone(t, 0)
  <2>1. Same(vm, vm)
    BY SameRefl DEF IInv
  <2>2. Same(vm, req)
    BY <2>1, ThenSame
  <2> HIDE DEF req
  <2> QED BY <1>5, <2>1, <2>2, CalmSame, CleanDoneGood
<1>6. CASE /\ vm.page[m].object = th[t].object /\ vm.page[m].busy = "no"
           /\ vm' = vm /\ Go(t, s) /\ Quiet
  <2>1. /\ s.pc = "cluster" /\ DOMAIN s = DOMAIN IdleThread /\ s.queue = th[t].queue
        /\ s.m = th[t].m /\ s.object = th[t].object /\ s.flushing = th[t].flushing
        /\ s.objLocked = th[t].objLocked /\ s.mtx = th[t].mtx
    BY <1>4 DEF IdleThread
  <2> HIDE DEF s
  <2>2. th[t].objLocked /\ th[t].mtx = th[t].m
    BY <1>1 DEF IInv, ThreadSound
  <2>3. Objects
    BY <1>6, QuietlyObjects DEF Quiet
  <2> QED BY <1>3, <1>6, <2>1, <2>2, <2>3, LockedAgain
<1> QED BY <1>2, <1>5, <1>6

\* All of its steps.
LEMMA Scan10Good ==
    ASSUME IInv, NEW t \in Thread, Scan10(t), version = 10 PROVE Good
<1>1. th[t].pc \in {"test", "unmap10", "unmap"} => th[t].m \in Page
  BY DEF IInv, ThreadSound, PagePcs, LockedPcs
<1>2. CASE vm_pageout_scan_10(t)
  <2>1. CASE TestDirtyStep(t, "test", "unmap10", "decide")
    BY <1>1, <2>1, TestDirtyGood DEF TestDirtyStep
  <2>2. CASE RemoveAllStep(t, "unmap10", "decide")
    BY <1>1, <2>2, RemoveAllGood DEF RemoveAllStep
  <2> QED BY <1>2, <2>1, <2>2, Begin10Good, Referenced10Good, Decide10Good, ActivePage10Good,
             CleanStartGood, VgetGood, VnodeRecheckGood
      DEF vm_pageout_scan_10
<1>3. CASE vm_pageout_grow_cache(t) \/ vm_pageout_launder_10(t)
  <2>1. CASE RemoveAllStep(t, "unmap", "grow")
    BY <1>1, <2>1, RemoveAllGood DEF RemoveAllStep
  <2> QED BY <1>3, <2>1, Begin10Good, GrowLookGood, GrowDecideGood, GrowVnodeGood
      DEF vm_pageout_launder_10
<1>4. CASE Pick(t) \/ TryObject(t) \/ Take(t) \/ Relock(t)
  BY <1>4, PickGood, TryObjectGood, TakeGood, RelockGood
<1>5. CASE vm_pageout_page_lock(t) \/ vm_pageout_fallback_object_lock(t)
  BY <1>5, TryPageGood, WaitPageGood, WaitForObjectGood, WaitQueueGood
     DEF vm_pageout_page_lock, vm_pageout_fallback_object_lock
<1>6. CASE vm_pageout_clean_10(t) \/ vm_pageout_flush_10(t)
  BY <1>6, ClusterStartGood, ClusterBackGood, ClusterForwardGood, FlushStartGood, FlushDoneGood,
     FlushSevereGood DEF vm_pageout_clean_10, vm_pageout_flush_10
<1> QED BY <1>2, <1>3, <1>4, <1>5, <1>6 DEF Scan10

-----------------------------------------------------------------------------
(* FreeBSD 12: all of its steps. *)

\* All of its steps.
LEMMA Scan12Good ==
    ASSUME IInv, NEW t \in Thread, Scan12(t), version = 12 PROVE Good
<1>1. th[t].pc \in {"ltest", "lunmap"} => th[t].m \in Page
  BY DEF IInv, ThreadSound, PagePcs, LockedPcs
<1>2. CASE ScanInactive(t)
  <2>1. CASE TestDirtyStep(t, "itest", "iunmap", "idecide")
    BY <2>1, TestDirtyGood
  <2>2. CASE RemoveAllStep(t, "iunmap", "idecide")
    BY <2>2, RemoveAllGood
  <2>3. CASE WaitObject(t, "iobj", "ilock")
    BY <2>3, WaitObjectGood
  <2> QED BY <1>2, <2>1, <2>2, <2>3, InactiveBeginGood, InactiveNextGood, InactivePageGood,
             InactiveReferencedGood, InactiveDecideGood, InactiveEndGood DEF ScanInactive
<1>3. CASE ScanActive(t)
  BY <1>3, ActiveBeginGood, ActiveNextGood, ActivePageGood, ActiveEndGood DEF ScanActive
<1>4. CASE ScanLaundry(t)
  <2>1. CASE TestDirtyStep(t, "ltest", "lunmap", "ldecide")
    BY <1>1, <2>1, TestDirtyGood DEF TestDirtyStep
  <2>2. CASE RemoveAllStep(t, "lunmap", "ldecide")
    BY <1>1, <2>2, RemoveAllGood DEF RemoveAllStep
  <2>3. CASE WaitObject(t, "lobj", "llock")
    BY <2>3, WaitObjectGood
  <2> QED BY <1>4, <2>1, <2>2, <2>3, LaunderBeginGood, LaunderNextGood, LaunderPageGood,
             LaunderReferencedGood, LaunderDecideGood, LaunderEndGood, CleanGood DEF ScanLaundry
<1> QED BY <1>2, <1>3, <1>4 DEF Scan12

-----------------------------------------------------------------------------
(* Everyone else. *)

\* One page changes, and perhaps its place in the queues; no thread moves.
LEMMA PageStep ==
    ASSUME IInv, OtherUnchanged, NEW p \in Page, NEW a \in PageRecord, PageSound(a),
           Same([vm EXCEPT !.page[p] = a], vm'),
           a.object # NoObject /\ a.mapped # "no" => obj[a.object].users,
           \A u \in Thread : Sees(version, th[u], p, a),
           Resident(p) /\ a.object # vm.page[p].object =>
              /\ a.object = NoObject /\ vm.page[p].busy = "no" /\ ~Held(vm.page[p])
              /\ ObjectOf(p).dead
    PROVE  Good
<1>1. VmTypes(vm) /\ version' = version /\ th' = th /\ obj' = obj
  BY DEF IInv, OtherUnchanged
<1>2. Kept(a, vm'.page[p]) /\ \A x \in Page : x # p => Kept(vm.page[x], vm'.page[x])
  <2> DEFINE w == [vm EXCEPT !.page[p] = a]
  <2>1. \A x \in Page : w.page[x] = IF x = p THEN a ELSE vm.page[x]
    BY <1>1, PutPage
  <2> HIDE DEF w
  <2>2. Same(w, vm')
    BY DEF w
  <2> QED BY <2>1, <2>2 DEF Same
<1>3. Calm(a, vm'.page[p]) /\ \A x \in Page : x # p => Calm(vm.page[x], vm'.page[x])
  BY <1>2, KeptCalm DEF IInv
<1>4. VmTypes(vm')
  BY DEF Same
<1>5. ASSUME NEW u \in Thread, NEW x \in Page PROVE Sees(version, th[u], x, vm'.page[x])
  BY <1>3, CalmSees DEF IInv
<1>6. ASSUME NEW x \in Page
      PROVE  PageSound(vm'.page[x]) /\ (Resident(x) /\ vm.page[x].mapped # "no" => ObjectOf(x).users)'
  <2>1. PageSound(vm'.page[x])
    BY <1>3 DEF Calm
  <2>2. CASE x = p
    BY <1>1, <1>2, <2>1, <2>2 DEF Resident, ObjectOf, Kept
  <2>3. CASE x # p
    BY <1>1, <1>2, <2>1, <2>3 DEF Resident, ObjectOf, Kept, IInv
  <2> QED BY <2>2, <2>3
<1>7. IInv'
  BY <1>1, <1>4, <1>5, <1>6 DEF IInv
<1>8. TakenRightly
  BY <1>2 DEF TakenRightly, Kept, Held
<1> QED BY <1>7, <1>8 DEF Good

\* The usual shape of it: the page's data changed, then its place in a queue.
LEMMA PutStep ==
    ASSUME IInv, OtherUnchanged, NEW p \in Page, NEW a \in PageRecord, PageSound(a),
           Same([vm EXCEPT !.page[p] = a], vm'), a.object = vm.page[p].object,
           a.object # NoObject /\ a.mapped # "no" => ObjectOf(p).users,
           \A u \in Thread : Sees(version, th[u], p, a)
    PROVE  Good
BY PageStep DEF ObjectOf

\* A page that is not busy, and whose object is not locked.
LEMMA UnlockedSees ==
    ASSUME IInv, NEW p \in Page, NEW a, ~ObjectLocked(vm.page[p].object),
           vm.page[p].busy = "no", a.object = vm.page[p].object, a.valid = vm.page[p].valid
    PROVE  \A u \in Thread : Sees(version, th[u], p, a)
<1> TAKE u \in Thread
<1>1. p \notin th[u].flushing
  BY DEF IInv, Sees
<1>2. ~(th[u].objLocked /\ th[u].object = vm.page[p].object)
  BY DEF ObjectLocked
<1> QED BY <1>1, <1>2, OthersSee

\* A pin of a page whose lock nobody has.
LEMMA PinSees ==
    ASSUME IInv, NEW p \in Page, NEW a, ~PageLocked(p), a.object = vm.page[p].object,
           a.valid = vm.page[p].valid, a.busy = vm.page[p].busy, a.mapped = vm.page[p].mapped
    PROVE  \A u \in Thread : Sees(version, th[u], p, a)
<1> TAKE u \in Thread
<1>1. Sees(version, th[u], p, vm.page[p]) /\ ThreadSound(th[u]) /\ th[u].mtx # p
  BY DEF IInv, PageLocked
<1>2. th[u].m = p => th[u].pc \notin LockedPcs
  BY <1>1 DEF ThreadSound
<1> QED BY <1>1, <1>2 DEF Sees, UnheldPcs, UnusedPcs, DecidedPcs, LockedPcs

\* A fault needs the object lock, and a page that is not busy.
LEMMA FaultGood ==
    ASSUME IInv, NEW p \in Page, NEW how \in {"ro", "rw"}, Fault(p, how) PROVE Good
<1> DEFINE a == [vm.page[p] EXCEPT !.mapped = how]
           w == [vm EXCEPT !.page[p] = a]
<1>1. /\ Resident(p) /\ ~ObjectLocked(vm.page[p].object) /\ ObjectOf(p).users
      /\ vm.page[p].valid /\ vm.page[p].busy = "no" /\ vm.page[p].mapped # "rw"
      /\ OtherUnchanged
  BY DEF Fault
<1>2. VmTypes(vm) /\ vm.page[p] \in PageRecord /\ PageSound(vm.page[p])
  BY DEF IInv, VmTypes
<1>3. vm' = Settle(Activate(w, p), p)
  BY <1>2 DEF Fault, VmTypes
<1>4. /\ a \in PageRecord /\ a.object = vm.page[p].object /\ a.valid = vm.page[p].valid
      /\ PageSound(a)
  BY <1>1, <1>2 DEF PageRecord, PageSound
<1> HIDE DEF a
<1>5. Same(w, w)
  BY <1>2, <1>4, PutPage, SameRefl
<1>6. Same(w, Activate(w, p))
  BY <1>5, ThenSame
<1>7. Same(w, vm')
  BY <1>3, <1>6, ThenSame
<1>8. \A u \in Thread : Sees(version, th[u], p, a)
  BY <1>1, <1>4, UnlockedSees
<1> QED BY <1>1, <1>4, <1>7, <1>8, PutStep

\* A page is held under its lock,
LEMMA HoldGood ==
    ASSUME IInv, NEW p \in Page, Hold(p) PROVE Good
<1> DEFINE a == [vm.page[p] EXCEPT !.hold = TRUE]
<1>1. ~PageLocked(p) /\ vm' = [vm EXCEPT !.page[p] = a] /\ OtherUnchanged
  BY DEF Hold, SetPage
<1>2. VmTypes(vm) /\ vm.page[p] \in PageRecord /\ PageSound(vm.page[p])
  BY DEF IInv, VmTypes
<1>3. /\ a \in PageRecord /\ a.object = vm.page[p].object /\ a.valid = vm.page[p].valid
      /\ a.busy = vm.page[p].busy /\ a.mapped = vm.page[p].mapped /\ PageSound(a)
  BY <1>2 DEF PageRecord, PageSound
<1> HIDE DEF a
<1>4. Same([vm EXCEPT !.page[p] = a], vm')
  BY <1>1, <1>2, <1>3, PutPage, SameRefl
<1>5. \A u \in Thread : Sees(version, th[u], p, a)
  BY <1>1, <1>3, PinSees
<1>6. a.object # NoObject /\ a.mapped # "no" => ObjectOf(p).users
  BY <1>3 DEF IInv, Resident
<1> QED BY <1>1, <1>3, <1>4, <1>5, <1>6, PutStep

\* or wired.
LEMMA WireGood ==
    ASSUME IInv, NEW p \in Page, Wire(p) PROVE Good
<1> DEFINE a == [vm.page[p] EXCEPT !.wire = TRUE]
           w == [vm EXCEPT !.page[p] = a]
<1>2. VmTypes(vm) /\ vm.page[p] \in PageRecord /\ PageSound(vm.page[p])
  BY DEF IInv, VmTypes
<1>1. ~PageLocked(p) /\ (vm' = w \/ vm' = Dequeue(w, p)) /\ OtherUnchanged
  <2>1. w = [vm EXCEPT !.page[p].wire = TRUE]
    BY <1>2 DEF VmTypes
  <2> HIDE DEF w
  <2> QED BY <2>1 DEF Wire
<1>3. /\ a \in PageRecord /\ a.object = vm.page[p].object /\ a.valid = vm.page[p].valid
      /\ a.busy = vm.page[p].busy /\ a.mapped = vm.page[p].mapped /\ PageSound(a)
  BY <1>2 DEF PageRecord, PageSound
<1> HIDE DEF a
<1>4. Same(w, w)
  BY <1>2, <1>3, PutPage, SameRefl
<1>5. Same(w, vm')
  BY <1>1, <1>4, ThenSame
<1>6. \A u \in Thread : Sees(version, th[u], p, a)
  BY <1>1, <1>3, PinSees
<1>7. a.object # NoObject /\ a.mapped # "no" => ObjectOf(p).users
  BY <1>3 DEF IInv, Resident
<1> QED BY <1>1, <1>3, <1>5, <1>6, <1>7, PutStep

\* vm_page_xbusy, and its end.
LEMMA BusyGood ==
    ASSUME IInv, NEW p \in Page, Busy(p) \/ Unbusy(p) PROVE Good
<1>1. VmTypes(vm) /\ vm.page[p] \in PageRecord /\ PageSound(vm.page[p])
  BY DEF IInv, VmTypes
<1>2. ASSUME NEW b \in {"no", "exclusive"}, OtherUnchanged, vm.page[p].busy # "shared",
             vm' = [vm EXCEPT !.page[p] = [vm.page[p] EXCEPT !.busy = b]],
             \A u \in Thread : Sees(version, th[u], p, [vm.page[p] EXCEPT !.busy = b])
      PROVE  Good
  <2> DEFINE a == [vm.page[p] EXCEPT !.busy = b]
  <2>1. /\ a \in PageRecord /\ a.object = vm.page[p].object
        /\ a.mapped = vm.page[p].mapped /\ PageSound(a)
    BY <1>1, <1>2 DEF PageRecord, PageSound
  <2>2. \A u \in Thread : Sees(version, th[u], p, a)
    BY <1>2
  <2>3. vm' = [vm EXCEPT !.page[p] = a]
    BY <1>2
  <2> HIDE DEF a
  <2>4. Same([vm EXCEPT !.page[p] = a], vm')
    BY <1>1, <2>1, <2>3, PutPage, SameRefl
  <2>5. a.object # NoObject /\ a.mapped # "no" => ObjectOf(p).users
    BY <2>1 DEF IInv, Resident
  <2> QED BY <1>2, <2>1, <2>2, <2>4, <2>5, PutStep
<1>3. CASE Busy(p)
  <2> DEFINE a == [vm.page[p] EXCEPT !.busy = "exclusive"]
  <2>1. /\ ~ObjectLocked(vm.page[p].object) /\ vm.page[p].busy = "no" /\ OtherUnchanged
        /\ vm' = [vm EXCEPT !.page[p] = a]
    BY <1>3 DEF Busy, SetPage
  <2>2. a.object = vm.page[p].object /\ a.valid = vm.page[p].valid
    BY <1>1 DEF PageRecord
  <2>3. \A u \in Thread : Sees(version, th[u], p, a)
    BY <2>1, <2>2, UnlockedSees
  <2> QED BY <1>2, <2>1, <2>3
<1>4. CASE Unbusy(p)
  <2> DEFINE a == [vm.page[p] EXCEPT !.busy = "no"]
  <2>1. /\ vm.page[p].busy = "exclusive" /\ OtherUnchanged /\ vm' = [vm EXCEPT !.page[p] = a]
    BY <1>4 DEF Unbusy, SetPage
  <2>2. /\ a.object = vm.page[p].object /\ a.valid = vm.page[p].valid /\ a.busy = "no"
        /\ a.hold = vm.page[p].hold /\ a.wire = vm.page[p].wire
        /\ a.mapped = vm.page[p].mapped /\ a.dirty = vm.page[p].dirty
    BY <1>1 DEF PageRecord
  <2> HIDE DEF a
  <2>3. ASSUME NEW u \in Thread PROVE Sees(version, th[u], p, a)
    <3>1. Sees(version, th[u], p, vm.page[p])
      BY DEF IInv
    <3> QED BY <2>1, <2>2, <3>1 DEF Sees
  <2> QED BY <1>2, <2>1, <2>3 DEF a
<1> QED BY <1>3, <1>4

\* A page replaced, whatever became of its place in the queues.
LEMMA PutAlone ==
    ASSUME NEW v, VmTypes(v), NEW p \in Page, NEW a \in PageRecord, NEW w, VmTypes(w),
           w.page[p] = a, \A x \in Page : x # p => Kept(v.page[x], w.page[x])
    PROVE  Same([v EXCEPT !.page[p] = a], w)
<1> DEFINE u == [v EXCEPT !.page[p] = a]
<1>1. \A x \in Page : u.page[x] = IF x = p THEN a ELSE v.page[x]
  BY DEF VmTypes
<1> HIDE DEF u
<1>2. Kept(a, a)
  BY DEF Kept
<1>3. Same(u, w)
  BY <1>1, <1>2 DEF Same
<1> QED BY <1>3 DEF u

\* The pages of a dead object are freed.
LEMMA TerminateGood ==
    ASSUME IInv, NEW p \in Page, Terminate(p) PROVE Good
<1>1. /\ ObjectOf(p).dead /\ ~ObjectLocked(vm.page[p].object) /\ vm.page[p].busy = "no"
      /\ ~Held(vm.page[p]) /\ vm' = Free(vm, p) /\ OtherUnchanged
  BY DEF Terminate
<1>2. VmTypes(vm)
  BY DEF IInv
<1>3. /\ VmTypes(vm') /\ vm'.page[p] = FreePage
      /\ \A x \in Page : x # p => Kept(vm.page[x], vm'.page[x])
  BY <1>1, <1>2, FreePages
<1>4. FreePage.object = NoObject /\ FreePage \in PageRecord /\ PageSound(FreePage)
  BY FreePageSound DEF FreePage
<1>5. Same([vm EXCEPT !.page[p] = FreePage], vm')
  BY <1>2, <1>3, <1>4, PutAlone
<1>6. \A u \in Thread : Sees(version, th[u], p, FreePage)
  BY <1>1, <1>4, TakenSees DEF ObjectLocked
<1> QED BY <1>1, <1>4, <1>5, <1>6, PageStep

\* A free page is nothing to anyone; a thread that still means it has no lock.
LEMMA AllocateGood ==
    ASSUME IInv, NEW p \in Page, NEW o \in Object, Allocate(p, o) PROVE Good
<1> DEFINE a == [FreePage EXCEPT !.object = o, !.valid = TRUE]
           w == [vm EXCEPT !.page[p] = a]
<1>1. /\ vm.page[p].object = NoObject /\ ~PageLocked(p) /\ OtherUnchanged
      /\ vm' = Settle(Activate(w, p), p)
  BY DEF Allocate, Resident
<1>2. VmTypes(vm) /\ PageSound(vm.page[p])
  BY DEF IInv
<1>3. /\ a \in PageRecord /\ a.object = o /\ a.valid /\ a.mapped = "no" /\ a.busy = "no"
      /\ PageSound(a) /\ o # NoObject
  BY FreePageSound, ObjectAssumption DEF FreePage, PageRecord, PageSound
<1> HIDE DEF a
<1>4. Same(w, w)
  BY <1>2, <1>3, PutPage, SameRefl
<1>5. Same(w, Activate(w, p))
  BY <1>4, ThenSame
<1>6. Same(w, vm')
  BY <1>1, <1>5, ThenSame
<1>7. ASSUME NEW u \in Thread PROVE Sees(version, th[u], p, a)
  <2>1. Sees(version, th[u], p, vm.page[p]) /\ ThreadSound(th[u]) /\ th[u].mtx # p
    BY <1>1 DEF IInv, PageLocked
  <2>2. th[u].m = p => th[u].pc \notin LockedPcs
    BY <2>1 DEF ThreadSound
  <2>3. p \notin th[u].flushing
    BY <1>1, <1>2, <2>1 DEF Sees, PageSound
  <2>4. p \in ToSet(th[u].cluster) => th[u].pc \notin ClusterPcs \cup {"severe"}
    BY <1>1, <2>1 DEF Sees, ThreadSound
  <2> QED BY <1>3, <2>2, <2>3, <2>4 DEF Sees, UnheldPcs, UnusedPcs, DecidedPcs, LockedPcs
<1> QED BY <1>1, <1>3, <1>6, <1>7, PageStep DEF Resident

\* The pager finishes a page-out that was left pending.
LEMMA PagerDoneGood ==
    ASSUME IInv, NEW p \in Page, NEW ok \in BOOLEAN, PagerDone(p, ok) PROVE Good
<1> DEFINE pg == vm.page[p]
           d == pg.dirty /\ ~ok
           s == IF pg.store = "writing" THEN (IF ok THEN "same" ELSE "older") ELSE pg.store
           a == [pg EXCEPT !.busy = "no", !.dirty = d, !.store = s]
<1>1. /\ pg.busy = "shared" /\ \A t \in Thread : p \notin th[t].flushing
      /\ vm' = [vm EXCEPT !.page[p] = a] /\ OtherUnchanged
  BY DEF PagerDone, SetPage
<1>2. VmTypes(vm) /\ pg \in PageRecord /\ PageSound(pg)
  BY DEF IInv, VmTypes
<1>3. /\ d \in BOOLEAN /\ (d => pg.dirty) /\ s \in StoreState
      /\ s # "writing" /\ (s = "older" => d)
  BY <1>1, <1>2 DEF PageRecord, PageSound, StoreState
<1> HIDE DEF d, s
<1>4. /\ a \in PageRecord /\ a.object = pg.object /\ a.valid = pg.valid /\ a.busy = "no"
      /\ a.mapped = pg.mapped /\ a.hold = pg.hold /\ a.wire = pg.wire
      /\ a.dirty = d /\ a.store = s /\ a.pmod = pg.pmod
  BY <1>2, <1>3, ZenonT(60) DEF PageRecord
<1> HIDE DEF a
<1>5. PageSound(a)
  BY <1>2, <1>3, <1>4 DEF PageSound
<1>6. Same([vm EXCEPT !.page[p] = a], vm')
  BY <1>1, <1>2, <1>4, PutPage, SameRefl
<1>7. ASSUME NEW u \in Thread PROVE Sees(version, th[u], p, a)
  <2>1. Sees(version, th[u], p, pg) /\ p \notin th[u].flushing
    BY <1>1 DEF IInv
  <2> QED BY <1>1, <1>4, <2>1 DEF Sees, UnusedPcs, DecidedPcs, UnheldPcs, LockedPcs
<1>8. a.object # NoObject /\ a.mapped # "no" => ObjectOf(p).users
  BY <1>4 DEF IInv, Resident
<1> QED BY <1>1, <1>4, <1>5, <1>6, <1>7, <1>8, PutStep

-----------------------------------------------------------------------------
(* Everyone else, calmly. *)

\* Everyone else, while the pages stay calm.
LEMMA CalmUsers ==
    ASSUME IInv, OtherUnchanged, Calmly(vm, vm') PROVE Good
<1>1. version' = version /\ th' = th /\ obj' = obj /\ obj \in [Object -> ObjectRecord]
  BY DEF OtherUnchanged, IInv
<1>2. \A p \in Page : vm.page[p].mapped = "no" => vm'.page[p].mapped = "no"
  BY DEF Calmly, Calm
<1>3. \A p \in Page : Resident(p) /\ vm'.page[p].mapped # "no" => obj'[vm.page[p].object].users
  BY <1>1, <1>2 DEF IInv, ObjectOf
<1> QED BY <1>1, <1>3, CalmStep

\* One page changes calmly, and perhaps its place in a queue.
LEMMA PutCalm ==
    ASSUME IInv, NEW p \in Page, NEW a \in PageRecord, Calm(vm.page[p], a), NEW w,
           Same([vm EXCEPT !.page[p] = a], w)
    PROVE  Calmly(vm, w)
<1> DEFINE u == [vm EXCEPT !.page[p] = a]
<1>1. VmTypes(vm) /\ \A x \in Page : PageSound(vm.page[x])
  BY DEF IInv
<1>2. \A x \in Page : u.page[x] = IF x = p THEN a ELSE vm.page[x]
  BY <1>1 DEF VmTypes
<1>3. VmTypes(u)
  BY <1>1, PutPage
<1> HIDE DEF u
<1>4. \A x \in Page : Kept(vm.page[x], vm.page[x])
  BY DEF Kept
<1>5. Calmly(vm, u)
  BY <1>1, <1>2, <1>3, <1>4, KeptCalm DEF Calmly
<1>6. \A x \in Page : PageSound(u.page[x])
  BY <1>5 DEF Calmly, Calm
<1>7. Same(u, w)
  BY DEF u
<1> QED BY <1>5, <1>6, <1>7, SameCalmly, CalmTrans

\* Processes read and write through their mappings, unpin and reference.
LEMMA AccessGood ==
    ASSUME IInv, NEW p \in Page, Load(p) \/ Store(p) \/ Unhold(p) \/ Reference(p) PROVE Good
<1>1. VmTypes(vm) /\ vm.page[p] \in PageRecord /\ PageSound(vm.page[p])
  BY DEF IInv, VmTypes
<1>2. ASSUME NEW a \in PageRecord, Calm(vm.page[p], a), vm' = [vm EXCEPT !.page[p] = a],
             OtherUnchanged
      PROVE  Good
  <2>1. Same([vm EXCEPT !.page[p] = a], vm')
    BY <1>1, <1>2, PutPage, SameRefl
  <2> QED BY <1>2, <2>1, PutCalm, CalmUsers
<1>3. CASE Load(p)
  <2> DEFINE a == [vm.page[p] EXCEPT !.pref = TRUE]
  <2>1. a \in PageRecord /\ Calm(vm.page[p], a)
    BY <1>1, ZenonT(60) DEF PageRecord, Calm, PageSound
  <2>2. vm' = [vm EXCEPT !.page[p] = a] /\ OtherUnchanged
    BY <1>3 DEF Load, SetPage
  <2> HIDE DEF a
  <2> QED BY <1>2, <2>1, <2>2
<1>4. CASE Store(p)
  <2> DEFINE a == [vm.page[p] EXCEPT !.pmod = TRUE, !.pref = TRUE, !.store = "older"]
  <2>0. vm.page[p].mapped = "rw"
    BY <1>4 DEF Store
  <2>1. a \in PageRecord /\ Calm(vm.page[p], a)
    <3>1. a \in PageRecord
      BY <1>1 DEF PageRecord, StoreState
    <3>2. PageSound(vm.page[p])
      BY <1>1
    <3>3. /\ a.object = vm.page[p].object /\ a.valid = vm.page[p].valid
          /\ a.busy = vm.page[p].busy /\ a.hold = vm.page[p].hold
          /\ a.wire = vm.page[p].wire /\ a.dirty = vm.page[p].dirty
          /\ a.mapped = vm.page[p].mapped
      BY <1>1 DEF PageRecord
    <3> QED BY <2>0, <3>1, <3>2, <3>3 DEF Calm, PageSound
  <2>2. vm' = [vm EXCEPT !.page[p] = a] /\ OtherUnchanged
    BY <1>4 DEF Store, SetPage
  <2> HIDE DEF a
  <2> QED BY <1>2, <2>1, <2>2
<1>5. CASE Unhold(p)
  <2> DEFINE a == [vm.page[p] EXCEPT !.hold = FALSE]
  <2>0. /\ a \in PageRecord /\ a.object = vm.page[p].object /\ a.valid = vm.page[p].valid
        /\ a.dirty = vm.page[p].dirty /\ a.hold = FALSE /\ a.wire = vm.page[p].wire
        /\ a.busy = vm.page[p].busy /\ a.mapped = vm.page[p].mapped
        /\ a.pmod = vm.page[p].pmod /\ a.store = vm.page[p].store
    BY <1>1 DEF PageRecord
  <2>1. a \in PageRecord /\ Calm(vm.page[p], a)
    BY <1>1, <2>0, Zenon DEF Calm, PageSound
  <2>2. vm' = [vm EXCEPT !.page[p] = a] /\ OtherUnchanged
    BY <1>5 DEF Unhold, SetPage
  <2> HIDE DEF a
  <2> QED BY <1>2, <2>1, <2>2
<1>6. CASE Reference(p)
  <2> DEFINE a == [vm.page[p] EXCEPT !.referenced = TRUE]
  <2>1. a \in PageRecord /\ Calm(vm.page[p], a)
    BY <1>1, ZenonT(60) DEF PageRecord, Calm, PageSound
  <2>2. vm' = [vm EXCEPT !.page[p] = a] /\ OtherUnchanged
    BY <1>6 DEF Reference, SetPage
  <2> HIDE DEF a
  <2> QED BY <1>2, <2>1, <2>2
<1> QED BY <1>3, <1>4, <1>5, <1>6

\* An unwired page may go to the inactive queue.
LEMMA UnwireGood ==
    ASSUME IInv, NEW p \in Page, Unwire(p) PROVE Good
<1> DEFINE a == [vm.page[p] EXCEPT !.wire = FALSE]
           w == [vm EXCEPT !.page[p] = a]
<1>1. VmTypes(vm) /\ vm.page[p] \in PageRecord /\ PageSound(vm.page[p])
  BY DEF IInv, VmTypes
<1>2. (vm' = w \/ vm' = Settle(Deactivate(w, p), p)) /\ OtherUnchanged
  <2>1. w = [vm EXCEPT !.page[p].wire = FALSE]
    BY <1>1 DEF VmTypes
  <2> HIDE DEF w
  <2> QED BY <2>1 DEF Unwire
<1>3. a \in PageRecord /\ Calm(vm.page[p], a)
  <2>0. /\ a \in PageRecord /\ a.object = vm.page[p].object /\ a.valid = vm.page[p].valid
        /\ a.dirty = vm.page[p].dirty /\ a.wire = FALSE /\ a.hold = vm.page[p].hold
        /\ a.busy = vm.page[p].busy /\ a.mapped = vm.page[p].mapped
        /\ a.pmod = vm.page[p].pmod /\ a.store = vm.page[p].store
    BY <1>1 DEF PageRecord
  <2> QED BY <1>1, <2>0, Zenon DEF Calm, PageSound
<1> HIDE DEF a
<1>4. Same(w, w)
  BY <1>1, <1>3, PutPage, SameRefl
<1>5. Same(w, Deactivate(w, p))
  BY <1>4, ThenSame
<1>6. Same(w, vm')
  BY <1>2, <1>4, <1>5, ThenSame
<1> QED BY <1>2, <1>3, <1>6, PutCalm, CalmUsers

\* madvise, and the batches of queue operations that were put off.
LEMMA QueueGood ==
    ASSUME IInv, NEW p \in Page, Advise(p) \/ ProcessBatch(p) PROVE Good
<1>1. Same(vm, vm)
  BY SameRefl DEF IInv
<1>2. Same(vm, Requeue(vm, p)) /\ Same(vm, DeactivateNoreuse(vm, p)) /\ Same(vm, Complete(vm, p))
  BY <1>1, ThenSame
<1>3. Same(vm, vm') /\ OtherUnchanged
  BY <1>2, ThenSame DEF Advise, ProcessBatch
<1> QED BY <1>3, CalmSame, CalmUsers

\* The mappings of all pages of an object go.
LEMMA UnmapCalmly ==
    ASSUME IInv, NEW o
    PROVE  /\ Calmly(vm, UnmapObject(vm, o))
           /\ \A p \in Page : vm.page[p].object = o => UnmapObject(vm, o).page[p].mapped = "no"
<1> DEFINE f == [p \in Page |-> IF vm.page[p].object = o THEN RemoveAll(vm.page[p]) ELSE vm.page[p]]
           w == [vm EXCEPT !.page = f]
<1>1. VmTypes(vm) /\ \A p \in Page : PageSound(vm.page[p]) /\ vm.page[p] \in PageRecord
  BY DEF IInv, VmTypes
<1>2. ASSUME NEW p \in Page
      PROVE  f[p] \in PageRecord /\ Calm(vm.page[p], f[p])
  <2>1. RemoveAll(vm.page[p]) \in PageRecord /\ Calm(vm.page[p], RemoveAll(vm.page[p]))
    BY <1>1, MapCalm
  <2>2. Calm(vm.page[p], vm.page[p])
    BY <1>1, KeptCalm DEF Kept
  <2> QED BY <1>1, <2>1, <2>2
<1>3. \A p \in Page : vm.page[p].object = o => f[p].mapped = "no"
  BY <1>1 DEF RemoveAll, PageRecord
<1>4. w = UnmapObject(vm, o)
  BY DEF UnmapObject
<1>5. f \in [Page -> PageRecord]
  BY <1>2
<1> HIDE DEF f
<1>6. VmTypes(w) /\ w.page = f
  BY <1>1, <1>5 DEF VmTypes
<1> HIDE DEF w
<1>7. Calmly(vm, w) /\ \A p \in Page : vm.page[p].object = o => w.page[p].mapped = "no"
  BY <1>2, <1>3, <1>6 DEF Calmly
<1> QED BY <1>4, <1>7

\* The last mapping of an object goes.
LEMMA UnreferenceGood ==
    ASSUME IInv, NEW o \in Object, Unreference(o) PROVE Good
<1> DEFINE d == obj[o].type = "SWAP" /\ RefCount(o) = 1
           b == [obj EXCEPT ![o].users = FALSE, ![o].dead = d]
<1>1. vm' = UnmapObject(vm, o) /\ obj' = b /\ version' = version /\ th' = th
  BY DEF Unreference
<1>2. Calmly(vm, vm') /\ \A p \in Page : vm.page[p].object = o => vm'.page[p].mapped = "no"
  BY <1>1, UnmapCalmly
<1>3. d \in BOOLEAN /\ obj \in [Object -> ObjectRecord]
  BY DEF IInv
<1> HIDE DEF d
<1>4. b \in [Object -> ObjectRecord] /\ \A y \in Object : y # o => b[y].users = obj[y].users
  BY <1>3 DEF ObjectRecord
<1> HIDE DEF b
<1>5. \A p \in Page : vm.page[p].mapped = "no" => vm'.page[p].mapped = "no"
  BY <1>2 DEF Calmly, Calm
<1>6. ASSUME NEW p \in Page, Resident(p), vm'.page[p].mapped # "no"
      PROVE  obj'[vm.page[p].object].users
  <2>1. vm.page[p].object \in Object \ {o}
    BY <1>2, <1>6 DEF IInv, VmTypes, PageRecord, Resident
  <2>2. obj[vm.page[p].object].users
    BY <1>5, <1>6 DEF IInv, ObjectOf
  <2> QED BY <1>1, <1>4, <2>1, <2>2
<1> QED BY <1>1, <1>2, <1>4, <1>6, CalmStep

\* The vnode of an object is reclaimed.
LEMMA ReclaimGood ==
    ASSUME IInv, NEW o \in Object, ReclaimVnode(o) PROVE Good
<1> DEFINE d == RefCount(o) = 0
           b == [obj EXCEPT ![o].vnode = FALSE, ![o].dead = d]
<1>1. vm' = vm /\ obj' = b /\ version' = version /\ th' = th
  BY DEF ReclaimVnode
<1>2. d \in BOOLEAN /\ obj \in [Object -> ObjectRecord]
  BY DEF IInv
<1> HIDE DEF d
<1>3. b \in [Object -> ObjectRecord] /\ \A y \in Object : b[y].users = obj[y].users
  BY <1>2 DEF ObjectRecord
<1> HIDE DEF b
<1>4. ASSUME NEW p \in Page, Resident(p), vm'.page[p].mapped # "no"
      PROVE  obj'[vm.page[p].object].users
  <2>1. vm.page[p].object \in Object
    BY <1>4 DEF IInv, VmTypes, PageRecord, Resident
  <2>2. obj[vm.page[p].object].users
    BY <1>1, <1>4 DEF IInv, ObjectOf
  <2> QED BY <1>1, <1>3, <2>1, <2>2
<1> QED BY <1>1, <1>3, <1>4, CalmSelf, CalmStep

\* Everyone else.
LEMMA UsersGood ==
    ASSUME IInv, Users PROVE Good
<1>1. CASE \E p \in Page :
              \/ Load(p) \/ Store(p) \/ Busy(p) \/ Unbusy(p) \/ Reference(p)
              \/ Advise(p) \/ ProcessBatch(p) \/ Terminate(p)
              \/ Hold(p) \/ Unhold(p) \/ Wire(p) \/ Unwire(p)
  BY <1>1, AccessGood, BusyGood, QueueGood, TerminateGood, HoldGood, WireGood, UnwireGood
<1>2. CASE \E p \in Page :
              \/ \E how \in {"ro", "rw"} : Fault(p, how)
              \/ \E o \in Object : Allocate(p, o)
              \/ \E ok \in BOOLEAN : PagerDone(p, ok)
  BY <1>2, FaultGood, AllocateGood, PagerDoneGood
<1>3. CASE \E o \in Object : Unreference(o) \/ ReclaimVnode(o)
  BY <1>3, UnreferenceGood, ReclaimGood
<1> QED BY <1>1, <1>2, <1>3, Zenon DEF Users

-----------------------------------------------------------------------------
(* The swap daemon of FreeBSD 10. *)

\* The greater of two numbers is one of them.
LEMMA MaxOfTwo ==
    ASSUME NEW a \in Nat, NEW b \in Nat
    PROVE  Max({a, b}) \in {a, b}
<1>1. \E x \in {a, b} : \A y \in {a, b} : x >= y
  <2>1. a >= b \/ b >= a
    OBVIOUS
  <2> QED BY <2>1
<1> QED BY <1>1 DEF Max

\* A page of a process is aged, and perhaps unmapped.
LEMMA AgedCalm ==
    ASSUME IInv, NEW p \in Page, NEW n \in 0 .. ActModulus - 1
    PROVE  LET fresh == [vm.page[p] EXCEPT !.pref = FALSE, !.referenced = FALSE]
               a == [fresh EXCEPT !.act = n]
               b == [RemoveAll(fresh) EXCEPT !.act = n]
           IN  /\ fresh \in PageRecord
               /\ a \in PageRecord /\ Calm(vm.page[p], a)
               /\ RemoveAll(fresh) \in PageRecord /\ Calm(vm.page[p], RemoveAll(fresh))
               /\ b \in PageRecord /\ Calm(vm.page[p], b)
<1> DEFINE fresh == [vm.page[p] EXCEPT !.pref = FALSE, !.referenced = FALSE]
           r == RemoveAll(fresh)
<1>1. vm.page[p] \in PageRecord /\ PageSound(vm.page[p])
  BY DEF IInv, VmTypes
<1>2. fresh \in PageRecord /\ Kept(vm.page[p], fresh)
  BY <1>1 DEF PageRecord, Kept
<1>3. Calm(vm.page[p], fresh) /\ PageSound(fresh)
  BY <1>1, <1>2, KeptCalm DEF Calm
<1> HIDE DEF fresh
<1>4. r \in PageRecord /\ Calm(fresh, r)
  BY <1>2, <1>3, MapCalm
<1>5. Calm(vm.page[p], r) /\ PageSound(r)
  BY <1>3, <1>4 DEF Calm
<1> HIDE DEF r
<1>6. ASSUME NEW x \in PageRecord, Calm(vm.page[p], x)
      PROVE  [x EXCEPT !.act = n] \in PageRecord /\ Calm(vm.page[p], [x EXCEPT !.act = n])
  BY <1>6 DEF PageRecord, Calm, PageSound
<1> QED BY <1>2, <1>3, <1>4, <1>5, <1>6 DEF r, fresh

\* vm_pageout_object_deactivate_pages, page by page,
LEMMA DeactivatePageGood ==
    ASSUME IInv, NEW p \in Page, vm_pageout_object_deactivate_pages(p) PROVE Good
<1> DEFINE pg == vm.page[p]
           fresh == [pg EXCEPT !.pref = FALSE, !.referenced = FALSE]
           Aging(n) == [vm EXCEPT !.page[p] = [fresh EXCEPT !.act = n]]
           less == Less(pg.act, ActDecline)
           up == Max({pg.act, ActInit})
           more == IF up < ActMax - ActAdvance THEN up + ActAdvance ELSE up
           r == RemoveAll(fresh)
           z == [RemoveAll(fresh) EXCEPT !.act = 0]
<1>1. VmTypes(vm) /\ pg \in PageRecord
  BY DEF IInv, VmTypes
<1>2. /\ \/ vm' = Advance(Settle(Activate(Aging(pg.act), p), p), p, 1)
         \/ vm' = [vm EXCEPT !.page[p] = r]
         \/ vm' = Settle(Deactivate([vm EXCEPT !.page[p] = z], p), p)
         \/ vm' = Complete(Requeue(Aging(less), p), p)
         \/ vm' = Complete(Requeue(Aging(more), p), p)
      /\ OtherUnchanged
  BY Zenon DEF vm_pageout_object_deactivate_pages, SetPage
<1>3. pg.act \in 0 .. ActModulus - 1 /\ pg.act \in Nat
  BY <1>1, ActAssumption DEF PageRecord
<1>4. less \in 0 .. ActModulus - 1
  BY <1>1, NewAge
<1>5. more \in 0 .. ActModulus - 1
  <2>1. up \in {pg.act, ActInit}
    BY <1>3, MaxOfTwo, ActAssumption
  <2> HIDE DEF up
  <2> QED BY <1>3, <2>1, ActAssumption
<1>6. 0 \in 0 .. ActModulus - 1
  BY ActAssumption
<1> HIDE DEF less, more
<1>7. ASSUME NEW a \in PageRecord, Calm(pg, a), Same([vm EXCEPT !.page[p] = a], vm') PROVE Good
  BY <1>2, <1>7, PutCalm, CalmUsers
<1>8. \A n \in 0 .. ActModulus - 1 :
        [fresh EXCEPT !.act = n] \in PageRecord /\ Calm(pg, [fresh EXCEPT !.act = n])
  BY AgedCalm
<1>9. r \in PageRecord /\ Calm(pg, r) /\ z \in PageRecord /\ Calm(pg, z)
  BY <1>6, AgedCalm
<1> HIDE DEF r, z, fresh
<1>10. \A a \in PageRecord : Same([vm EXCEPT !.page[p] = a], [vm EXCEPT !.page[p] = a])
  BY <1>1, PutPage, SameRefl
<1>11. ASSUME NEW n \in 0 .. ActModulus - 1,
              \/ vm' = Advance(Settle(Activate(Aging(n), p), p), p, 1)
              \/ vm' = Complete(Requeue(Aging(n), p), p)
       PROVE  Good
  <2> DEFINE a == [fresh EXCEPT !.act = n]
             w == Aging(n)
  <2>1. a \in PageRecord /\ Calm(pg, a)
    BY <1>8
  <2>2. w = [vm EXCEPT !.page[p] = a]
    OBVIOUS
  <2>3. Same(w, w)
    BY <1>10, <2>1, <2>2
  <2>4. \/ vm' = Advance(Settle(Activate(w, p), p), p, 1)
        \/ vm' = Complete(Requeue(w, p), p)
    BY <1>11
  <2> HIDE DEF a, w
  <2>5. Same(w, Activate(w, p)) /\ Same(w, Requeue(w, p))
    BY <2>3, ThenSame
  <2>6. Same(w, Settle(Activate(w, p), p)) /\ Same(w, Complete(Requeue(w, p), p))
    BY <2>5, ThenSame
  <2>7. Same(w, Advance(Settle(Activate(w, p), p), p, 1))
    BY <2>6, ThenSame
  <2>8. Same(w, vm')
    BY <2>4, <2>6, <2>7
  <2> QED BY <1>7, <2>1, <2>2, <2>8
<1>12. CASE vm' = [vm EXCEPT !.page[p] = r]
  BY <1>7, <1>9, <1>10, <1>12
<1>13. CASE vm' = Settle(Deactivate([vm EXCEPT !.page[p] = z], p), p)
  <2> DEFINE w == [vm EXCEPT !.page[p] = z]
  <2>1. Same(w, w)
    BY <1>9, <1>10
  <2>2. vm' = Settle(Deactivate(w, p), p)
    BY <1>13
  <2> HIDE DEF w
  <2>3. Same(w, Deactivate(w, p))
    BY <2>1, ThenSame
  <2>4. Same(w, vm')
    BY <2>2, <2>3, ThenSame
  <2> QED BY <1>7, <1>9, <2>4 DEF w
<1> HIDE DEF pg, Aging
<1> QED BY <1>2, <1>3, <1>4, <1>5, <1>11, <1>12, <1>13 DEF pg

\* and for all of a map.
LEMMA DeactivateGood ==
    ASSUME IInv, vm_pageout_map_deactivate_pages PROVE Good
<1>1. CASE \E p \in Page : vm_pageout_object_deactivate_pages(p)
  BY <1>1, DeactivatePageGood
<1>2. CASE \E o \in Object : vm' = UnmapObject(vm, o) /\ OtherUnchanged
  BY <1>2, UnmapCalmly, CalmUsers
<1> QED BY <1>1, <1>2 DEF vm_pageout_map_deactivate_pages, UnmapObject

-----------------------------------------------------------------------------
(* The theorems. *)

\* Every action.
LEMMA NextGood == ASSUME IInv, Next PROVE Good
<1>1. CASE \E t \in Thread :
              \/ version = 12 /\ Scan12(t)
              \/ version = 11 /\ Scan11(t)
              \/ version = 10 /\ Scan10(t)
  BY <1>1, Scan12Good, Scan11Good, Scan10Good
<1>2. CASE vm_pageout_map_deactivate_pages
  BY <1>2, DeactivateGood
<1>3. CASE Users
  BY <1>3, UsersGood
<1>4. CASE \E k \in Knobs : SetKnob(k)
  BY <1>4, CalmSelf, CalmUsers DEF SetKnob, OtherUnchanged
<1>5. CASE Finished
  BY <1>5, CalmSelf, CalmUsers DEF Finished, vars, OtherUnchanged
<1> QED BY <1>1, <1>2, <1>3, <1>4, <1>5, Zenon DEF Next

\* Every step, of a thread, of anyone else, or of nobody.
LEMMA StepGood == ASSUME IInv, [Next]_vars PROVE Good
<1>1. CASE UNCHANGED vars
  BY <1>1, CalmSelf, CalmUsers DEF vars, OtherUnchanged
<1> QED BY <1>1, NextGood

\* The scenes that the model begins with are of sound pages, and all threads are idle.
LEMMA InitGood == ASSUME Init PROVE IInv
<1>1. PICK scene \in Scenes :
         LET pgs == [p \in Page |->
                        IF version > 10 \/ scene.pages[p].queue # "LAUNDRY"
                        THEN scene.pages[p]
                        ELSE [scene.pages[p] EXCEPT !.queue = "INACTIVE"]]
         IN
         /\ version \in scene.versions
         /\ obj \in [Object -> scene.objects]
         /\ \A p \in Page : pgs[p].mapped # "no" \/ pgs[p].dirty
                           => obj[pgs[p].object].users
         /\ vm = [page |-> pgs, tq |-> [q \in Queue |-> InitialQueue(pgs, q)],
                  cnt |-> [q \in Queue |-> Cardinality({p \in Page : pgs[p].queue = q})]]
  BY Zenon DEF Init
<1> DEFINE pgs == [p \in Page |->
                        IF version > 10 \/ scene.pages[p].queue # "LAUNDRY"
                        THEN scene.pages[p]
                        ELSE [scene.pages[p] EXCEPT !.queue = "INACTIVE"]]
           tq == [q \in Queue |-> InitialQueue(pgs, q)]
           cnt == [q \in Queue |-> Cardinality({p \in Page : pgs[p].queue = q})]
<1>2. /\ version \in {10, 11, 12} /\ obj \in [Object -> ObjectRecord]
      /\ scene.pages \in [Page -> PageRecord] /\ \A p \in Page : PageSound(scene.pages[p])
  BY <1>1, ScenesAssumption
<1>3. ASSUME NEW p \in Page PROVE pgs[p] \in PageRecord /\ PageSound(pgs[p])
  <2>1. scene.pages[p] \in PageRecord /\ PageSound(scene.pages[p])
    BY <1>2
  <2> DEFINE a == [scene.pages[p] EXCEPT !.queue = "INACTIVE"]
  <2>2. a \in PageRecord /\ PageSound(a)
    BY <2>1 DEF PageRecord, PageSound, Queue
  <2>3. pgs[p] = scene.pages[p] \/ pgs[p] = a
    OBVIOUS
  <2> HIDE DEF pgs, a
  <2> QED BY <2>1, <2>2, <2>3
<1>4. vm = [page |-> pgs, tq |-> tq, cnt |-> cnt]
  BY <1>1
<1>5. \A p \in Page : pgs[p].mapped # "no" => obj[pgs[p].object].users
  BY <1>1
<1>6. pgs \in [Page -> PageRecord]
  BY <1>3
<1> HIDE DEF pgs, tq, cnt
<1>7. VmTypes(vm) /\ vm.page = pgs
  BY <1>4, <1>6 DEF VmTypes
<1>8. th = [t \in Thread |-> IdleThread]
  BY DEF Init
<1>9. ThreadSound(IdleThread) /\ \A p \in Page : Sees(version, IdleThread, p, vm.page[p])
  BY IdleRests, RestSound
<1>10. IdleThread.objLocked = FALSE /\ IdleThread.flushing = {}
  BY DEF IdleThread
<1>11. \A p \in Page : PageSound(vm.page[p])
                         /\ (Resident(p) /\ vm.page[p].mapped # "no" => ObjectOf(p).users)
  BY <1>3, <1>5, <1>7 DEF ObjectOf
<1> QED BY <1>2, <1>7, <1>8, <1>9, <1>10, <1>11 DEF IInv

\* The inductive invariant: whatever locks vm_pageout_scan, _launder, _clean and _flush
\* of the three versions give up and take again, what a thread relies on of a page
\* still holds when it acts on it.
THEOREM Invariant == Spec => []IInv
<1>1. Init => IInv
  BY InitGood
<1>2. IInv /\ [Next]_vars => IInv'
  BY StepGood DEF Good
<1> QED BY <1>1, <1>2, PTL DEF Spec

\* The dirty bit is never lost by the daemon's own doing: a page whose data the backing
\* store does not have is known to be modified, in the page or in the mapping through
\* which it was written, although pmap_remove_all, pmap_remove_write and vm_page_undirty
\* clear bits all the time.  Only a page the pager refused (VM_PAGER_BAD) is clean
\* without having been saved, until it is written to again.
THEOREM LossIsNeverSilent == Spec => []NoSilentLoss
<1>1. IInv => NoSilentLoss
  BY DEF IInv, NoSilentLoss, PageSound
<1> QED BY <1>1, Invariant, PTL

\* What vm_pageout_flush has handed to the pager stays valid, busy and in its object,
\* and nobody can write to it, until the pager has answered.
THEOREM ClusterHolds == Spec => []ClusterProtected
<1>1. ASSUME IInv PROVE ClusterProtected
  <2>1. ASSUME NEW t \in Thread, NEW p \in th[t].flushing PROVE p \in Page
    BY <2>1, <1>1 DEF IInv, ThreadSound, ToSet
  <2> QED BY <1>1, <2>1 DEF IInv, ClusterProtected, Sees
<1> QED BY <1>1, Invariant, PTL

\* A page leaves its object only when nobody has it busy or held (or wired, which
\* version 12 tests again after it has removed the mappings) and the backing store has
\* its data, or the object is dead, or the pager has refused what the page held and it
\* was not written to since: none of the scans frees or caches a page on what it has
\* seen before it gave up a lock.
THEOREM TakenIfSavedOrRefused == Spec => OnlySavedOrRefusedIsTaken
<1>1. IInv /\ [Next]_vars => [TakenRightly]_vars
  BY StepGood DEF Good
<1> QED BY <1>1, Invariant, PTL DEF Spec, OnlySavedOrRefusedIsTaken
=============================================================================
