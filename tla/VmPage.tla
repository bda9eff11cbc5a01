------------------------------- MODULE VmPage -------------------------------
(***************************************************************************)
(* Pages, page queues and the physical map, as the page daemons use them.  *)
(* vm_page.c, vm_object.c and the pmap are not in the repository: what is  *)
(* here is what the daemons rely on.  A VM state v is a record of          *)
(*   page   the vm_page of every page,                                     *)
(*   tq     the TAILQ of every page queue, markers included,               *)
(*   cnt    pq_cnt of every page queue.                                    *)
(* A queue operation may be lazy: it leaves PGA_REQUEUE, PGA_REQUEUE_HEAD  *)
(* or PGA_DEQUEUE on the page, and Complete carries it out later.          *)
(***************************************************************************)
EXTENDS Integers, Sequences, FiniteSets, SequencesExt

CONSTANTS
    Page,           \* the pages: numbers, their page indices
    Object,         \* the VM objects
    ActInit, ActAdvance, ActDecline, ActMax,    \* ACT_INIT ... ACT_MAX
    ActModulus      \* act_count is a u_char: 256

ASSUME PageAssumption == Page \subseteq Nat \ {0} /\ IsFiniteSet(Page)
ASSUME ActAssumption ==
    /\ {ActInit, ActAdvance, ActDecline, ActMax, ActModulus} \subseteq Nat
    /\ ActInit <= ActMax /\ ActMax < ActModulus /\ 0 < ActDecline

Queue == {"INACTIVE", "ACTIVE", "LAUNDRY", "UNSWAPPABLE"}

\* Entries of a TAILQ that are not pages: the marker of a daemon's scan and the
\* one another thread keeps on its stack, the two hands of the clock in the
\* active queue, and vmd_inacthead in the inactive queue.
Marker == -1
StackMarker == -2
Clock0 == -3
Clock1 == -4
InactHead == -5
NoPage == 0
NoObject == "none"

ASSUME ObjectAssumption == NoObject \notin Object

\* What the backing store has of a page: its data, an older version, one that is
\* being written, or an older one that stays since the pager refused the page
\* (VM_PAGER_BAD) and the page was cleaned all the same.
StoreState == {"same", "older", "writing", "lost"}

PageRecord ==
    [object: Object \cup {NoObject},            \* NoObject: the page is free
     queue: Queue \cup {"NONE"},
     enqueued: BOOLEAN,                         \* PGA_ENQUEUED
     requeue: {"no", "tail", "head"},           \* PGA_REQUEUE, PGA_REQUEUE_HEAD
     dequeue: BOOLEAN,                          \* PGA_DEQUEUE
     referenced: BOOLEAN,                       \* PGA_REFERENCED
     valid: BOOLEAN, dirty: BOOLEAN,
     winatcfls: BOOLEAN,                        \* PG_WINATCFLS
     hold: BOOLEAN, wire: BOOLEAN,
     busy: {"no", "shared", "exclusive"},
     act: 0 .. ActModulus - 1,
     mapped: {"no", "ro", "rw"},                \* its mappings in the pmap,
     pmod: BOOLEAN, pref: BOOLEAN,              \* their modified, accessed bits
     store: StoreState]                         \* the copy in the backing store

FreePage ==
    [object |-> NoObject, queue |-> "NONE", enqueued |-> FALSE, requeue |-> "no",
     dequeue |-> FALSE, referenced |-> FALSE, valid |-> FALSE, dirty |-> FALSE,
     winatcfls |-> FALSE, hold |-> FALSE, wire |-> FALSE, busy |-> "no", act |-> 0, mapped |-> "no",
     pmod |-> FALSE, pref |-> FALSE, store |-> "same"]

Held(pg) == pg.hold \/ pg.wire
VmPageQueue(pg) == IF pg.dequeue THEN "NONE" ELSE pg.queue
InLaundry(pg) == VmPageQueue(pg) \in {"LAUNDRY", "UNSWAPPABLE"}

\* The physical map: what is known of a page's accesses moves from the
\* mappings into the page when the mappings are removed or write-protected.
TestDirty(pg) == [pg EXCEPT !.dirty = @ \/ pg.pmod]
RemoveWrite(pg) ==
    [pg EXCEPT !.mapped = IF @ = "rw" THEN "ro" ELSE @,
               !.dirty = @ \/ pg.pmod, !.pmod = FALSE]
RemoveAll(pg) ==
    [pg EXCEPT !.mapped = "no", !.dirty = @ \/ pg.pmod, !.pmod = FALSE,
               !.referenced = @ \/ pg.pref, !.pref = FALSE]

-----------------------------------------------------------------------------
(* TAILQ operations. *)

At(s, e) == CHOOSE i \in DOMAIN s : s[i] = e
Succ(s, e) == IF At(s, e) = Len(s) THEN NoPage ELSE s[At(s, e) + 1]
First(s) == IF s = << >> THEN NoPage ELSE Head(s)
DirectlyBefore(s, e, x) == \E i \in 1 .. Len(s) - 1 : s[i] = e /\ s[i + 1] = x
InsertBefore(s, e, x) == InsertAt(s, At(s, e), x)
InsertAfter(s, e, x) == InsertAt(s, At(s, e) + 1, x)
Pages(s) == SelectSeq(s, LAMBDA e : e \in Page)

\* Take a page off the TAILQ it is on.
Unlink(v, p) ==
    LET q == v.page[p].queue IN
    IF ~v.page[p].enqueued THEN v
    ELSE [v EXCEPT !.tq[q] = Remove(@, p), !.cnt[q] = @ - 1,
                   !.page[p].enqueued = FALSE]

\* Put it at the tail, or in front of vmd_inacthead.
Link(v, p, how) ==
    LET q == v.page[p].queue IN
    [v EXCEPT !.tq[q] = IF how = "head" /\ q = "INACTIVE"
                        THEN InsertBefore(@, InactHead, p) ELSE Append(@, p),
              !.cnt[q] = @ + 1,
              !.page[p].enqueued = TRUE, !.page[p].requeue = "no"]

Dequeue(v, p) ==
    [Unlink(v, p) EXCEPT !.page[p].queue = "NONE", !.page[p].requeue = "no",
                         !.page[p].dequeue = FALSE]
Enqueue(v, p, q, how) ==
    [v EXCEPT !.page[p].queue = q, !.page[p].requeue = how]
Pending(pg) == pg.dequeue \/ pg.requeue # "no"

\* vm_pqbatch_process_page: carry out what the flags of a page ask for.
Complete(v, p) ==
    CASE v.page[p].dequeue -> Dequeue(v, p)
      [] ~v.page[p].dequeue /\ v.page[p].requeue # "no" ->
            Link(Unlink(v, p), p, v.page[p].requeue)
      [] ~Pending(v.page[p]) -> v

Requeue(v, p) ==
    [v EXCEPT !.page[p].requeue = IF @ = "head" THEN @ ELSE "tail"]
DequeueDeferred(v, p) ==
    [v EXCEPT !.page[p].dequeue = v.page[p].queue # "NONE"]
MoveTo(v, p, q, how) ==
    IF v.page[p].wire \/ VmPageQueue(v.page[p]) = q THEN v
    ELSE Enqueue(Dequeue(v, p), p, q, how)
Activate(v, p) ==
    IF v.page[p].wire THEN v
    ELSE [MoveTo(v, p, "ACTIVE", "tail") EXCEPT
             !.page[p].act = IF @ < ActInit THEN ActInit ELSE @]
Deactivate(v, p) ==
    IF VmPageQueue(v.page[p]) = "INACTIVE" THEN v
    ELSE [MoveTo(v, p, "INACTIVE", "tail") EXCEPT !.page[p].winatcfls = FALSE]
DeactivateNoreuse(v, p) ==
    IF v.page[p].wire THEN v
    ELSE [MoveTo(v, p, "INACTIVE", "head") EXCEPT !.page[p].requeue = "head"]
Launder(v, p) ==
    IF v.page[p].wire THEN v
    ELSE IF InLaundry(v.page[p]) THEN Requeue(v, p)
    ELSE MoveTo(v, p, "LAUNDRY", "tail")
Unswappable(v, p) == MoveTo(v, p, "UNSWAPPABLE", "tail")
Free(v, p) == [Dequeue(v, p) EXCEPT !.page[p] = FreePage]

\* act_count += n, in a u_char.
Advance(v, p, n) == [v EXCEPT !.page[p].act = (@ + n) % ActModulus]

\* pmap_ts_referenced and PGA_REFERENCED: how often the page was referenced,
\* and the page with that forgotten.
ActDelta(pg, mappings) ==
    (IF mappings /\ pg.pref THEN 1 ELSE 0) + (IF pg.referenced THEN 1 ELSE 0)
Forget(pg, mappings) ==
    [pg EXCEPT !.pref = @ /\ ~mappings, !.referenced = FALSE]

-----------------------------------------------------------------------------
(***************************************************************************)
(* Everyone else who touches the pages a page daemon scans: processes that *)
(* read and write through their mappings without any lock, faults, pins,   *)
(* the end of an object, and the lazy page-queue batches of FreeBSD 12.    *)
(* None of it is in the repository; the daemons' checks and comments say   *)
(* what may happen while they do not hold the page or the object lock.     *)
(***************************************************************************)
CONSTANTS
    Thread,         \* the daemon's threads
    MaxNoise        \* bound: interferences of other parties

ASSUME NoiseAssumption == MaxNoise \in Nat /\ IsFiniteSet(Thread)

VARIABLES
    version,        \* which page daemon runs: 10, 11 or 12
    vm,             \* pages and queues, see VmPage
    obj,            \* the VM objects
    th,             \* the local variables of the daemon's threads
    noise           \* interferences left

usersVars == << version, vm, obj, th, noise >>

ObjectRecord ==
    [type: {"VNODE", "SWAP"}, users: BOOLEAN, dead: BOOLEAN, vnode: BOOLEAN]

\* The locks are the daemon's: everyone else locks, acts and unlocks at once.
PageLocked(p) == \E t \in Thread : th[t].mtx = p
ObjectLocked(o) == \E t \in Thread : th[t].objLocked /\ th[t].object = o
Resident(p) == vm.page[p].object # NoObject
ObjectOf(p) == obj[vm.page[p].object]

\* ref_count: mappings of processes, and references the daemon took.
RefCount(o) ==
    (IF obj[o].users THEN 1 ELSE 0)
        + Cardinality({t \in Thread : th[t].refd /\ th[t].object = o})

\* Nobody but t holds the lock of one of these page queues.
QueuesFree(t, Q) == \A u \in Thread \ {t} : ~(th[u].qlocked /\ th[u].queue \in Q)
Anyone == "anyone"
CanMove(p, q) == QueuesFree(Anyone, {q, vm.page[p].queue})

\* Before version 12 a queue operation is carried out at once.
Settle(v, p) == IF version = 12 THEN v ELSE Complete(v, p)

Interfere == noise > 0 /\ noise' = noise - 1
SetPage(p, pg) == vm' = [vm EXCEPT !.page[p] = pg]
OtherUnchanged == UNCHANGED << version, obj, th >>

\* Lock-free accesses through a mapping.
Load(p) ==
    /\ Interfere
    /\ vm.page[p].mapped # "no" /\ ~vm.page[p].pref
    /\ SetPage(p, [vm.page[p] EXCEPT !.pref = TRUE])
    /\ OtherUnchanged
Store(p) ==
    /\ Interfere
    /\ vm.page[p].mapped = "rw"
    /\ SetPage(p, [vm.page[p] EXCEPT !.pmod = TRUE, !.pref = TRUE,
                                     !.store = "older"])
    /\ OtherUnchanged

\* A fault maps the page and activates it.  It waits for a busy page.
Fault(p, how) ==
    /\ Interfere
    /\ Resident(p) /\ ~ObjectLocked(vm.page[p].object) /\ ~PageLocked(p)
    /\ ObjectOf(p).users /\ ~ObjectOf(p).dead
    /\ vm.page[p].valid /\ vm.page[p].busy = "no"
    /\ vm.page[p].mapped \notin {how, "rw"}
    /\ CanMove(p, "ACTIVE")
    /\ vm' = Settle(Activate([vm EXCEPT !.page[p].mapped = how], p), p)
    /\ OtherUnchanged

\* vm_page_hold, vm_page_wire: under the page lock.  A wired page leaves its
\* queue, in version 12 when a scan next meets it.
Hold(p) ==
    /\ Interfere
    /\ Resident(p) /\ ~PageLocked(p) /\ ~ObjectOf(p).dead /\ ~vm.page[p].hold
    /\ SetPage(p, [vm.page[p] EXCEPT !.hold = TRUE])
    /\ OtherUnchanged
Unhold(p) ==
    /\ ~PageLocked(p) /\ vm.page[p].hold
    /\ SetPage(p, [vm.page[p] EXCEPT !.hold = FALSE])
    /\ UNCHANGED noise /\ OtherUnchanged
Wire(p) ==
    /\ Interfere
    /\ Resident(p) /\ ~PageLocked(p) /\ ~ObjectOf(p).dead /\ ~vm.page[p].wire
    /\ CanMove(p, "NONE")
    /\ LET v == [vm EXCEPT !.page[p].wire = TRUE] IN
       vm' = IF version = 12 THEN v ELSE Dequeue(v, p)
    /\ OtherUnchanged
Unwire(p) ==
    /\ ~PageLocked(p) /\ vm.page[p].wire
    /\ CanMove(p, "INACTIVE")
    /\ LET v == [vm EXCEPT !.page[p].wire = FALSE] IN
       vm' = IF VmPageQueue(v.page[p]) = "NONE" THEN Settle(Deactivate(v, p), p) ELSE v
    /\ UNCHANGED noise /\ OtherUnchanged

\* vm_page_xbusy: under the object lock.
Busy(p) ==
    /\ Interfere
    /\ Resident(p) /\ ~ObjectLocked(vm.page[p].object) /\ ~ObjectOf(p).dead
    /\ vm.page[p].busy = "no"
    /\ SetPage(p, [vm.page[p] EXCEPT !.busy = "exclusive"])
    /\ OtherUnchanged
Unbusy(p) ==
    /\ vm.page[p].busy = "exclusive"
    /\ SetPage(p, [vm.page[p] EXCEPT !.busy = "no"])
    /\ UNCHANGED noise /\ OtherUnchanged

\* vm_page_reference: an atomic flag.
Reference(p) ==
    /\ Interfere
    /\ Resident(p) /\ ~vm.page[p].referenced
    /\ SetPage(p, [vm.page[p] EXCEPT !.referenced = TRUE])
    /\ OtherUnchanged

\* madvise: the page is wanted at the tail, or at the head, of a queue.
Advise(p) ==
    /\ Interfere
    /\ Resident(p) /\ ~PageLocked(p)
    /\ VmPageQueue(vm.page[p]) = "INACTIVE" /\ CanMove(p, "INACTIVE")
    /\ \/ vm' = Settle(Requeue(vm, p), p)
       \/ vm' = Settle(DeactivateNoreuse(vm, p), p)
    /\ OtherUnchanged

\* A lazy batch is processed under the queue lock alone.
ProcessBatch(p) ==
    /\ Pending(vm.page[p])
    /\ vm' = Complete(vm, p)
    /\ UNCHANGED noise /\ OtherUnchanged

UnmapObject(v, o) ==
    [v EXCEPT !.page = [p \in Page |->
        IF v.page[p].object = o THEN RemoveAll(v.page[p]) ELSE v.page[p]]]

\* The last process unmaps an object; a swap object dies with it.
Unreference(o) ==
    /\ Interfere
    /\ obj[o].users /\ ~ObjectLocked(o)
    /\ vm' = UnmapObject(vm, o)
    /\ obj' = [obj EXCEPT ![o].users = FALSE,
                          ![o].dead = obj[o].type = "SWAP" /\ RefCount(o) = 1]
    /\ UNCHANGED << version, th >>

\* The vnode is reclaimed: v_object goes, and so does an unused object.
ReclaimVnode(o) ==
    /\ Interfere
    /\ obj[o].vnode /\ ~obj[o].users /\ ~ObjectLocked(o)
    /\ obj' = [obj EXCEPT ![o].vnode = FALSE, ![o].dead = RefCount(o) = 0]
    /\ UNCHANGED << version, vm, th >>

\* vm_object_terminate frees the pages of a dead object.
Terminate(p) ==
    /\ Resident(p) /\ ObjectOf(p).dead
    /\ ~ObjectLocked(vm.page[p].object) /\ ~PageLocked(p)
    /\ vm.page[p].busy = "no" /\ ~Held(vm.page[p]) /\ CanMove(p, "NONE")
    /\ vm' = Free(vm, p)
    /\ UNCHANGED noise /\ OtherUnchanged

\* A free page is used again, perhaps for another object.
Allocate(p, o) ==
    /\ Interfere
    /\ ~Resident(p) /\ ~PageLocked(p) /\ ~ObjectLocked(o)
    /\ obj[o].users /\ ~obj[o].dead /\ CanMove(p, "ACTIVE")
    /\ vm' = Settle(Activate([vm EXCEPT !.page[p] =
                [FreePage EXCEPT !.object = o, !.valid = TRUE]], p), p)
    /\ OtherUnchanged

\* The pager finishes a page-out that was left pending.
PagerDone(p, ok) ==
    /\ vm.page[p].busy = "shared"
    /\ \A t \in Thread : p \notin th[t].flushing
    /\ SetPage(p, [vm.page[p] EXCEPT
          !.busy = "no",
          !.dirty = @ /\ ~ok,
          !.store = IF @ = "writing" THEN (IF ok THEN "same" ELSE "older") ELSE @])
    /\ UNCHANGED noise /\ OtherUnchanged

Users ==
    \/ \E p \in Page :
          \/ Load(p) \/ Store(p) \/ Busy(p) \/ Unbusy(p) \/ Reference(p)
          \/ Advise(p) \/ ProcessBatch(p) \/ Terminate(p)
          \/ \E how \in {"ro", "rw"} : Fault(p, how)
          \/ Hold(p) \/ Unhold(p) \/ Wire(p) \/ Unwire(p)
          \/ \E o \in Object : Allocate(p, o)
          \/ \E ok \in BOOLEAN : PagerDone(p, ok)
    \/ \E o \in Object : Unreference(o) \/ ReclaimVnode(o)
=============================================================================
