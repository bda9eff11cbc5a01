---------------------------- MODULE PageDaemons -----------------------------
(***************************************************************************)
(* The page daemons of three FreeBSD versions over the same pages and the  *)
(* same users.  The version is chosen at the start and does not change.    *)
(***************************************************************************)
EXTENDS PageScan12, PageScan11, PageScan10

CONSTANTS
    Scenes          \* records of pages and objects at the start, and of the
                    \*   versions that start with them

ASSUME BatchAssumption == BatchSize \in Nat \ {0}

\* What the dirty bits say of a page: a modified bit stands in a writable
\* mapping; a mapped or dirty page is valid; data the store does not have is
\* known to be modified; a page is written while it is busy and cannot change.
PageSound(pg) ==
    /\ pg.pmod => pg.mapped = "rw"
    /\ pg.mapped # "no" \/ pg.dirty => pg.valid
    /\ pg.store = "older" => pg.dirty \/ pg.pmod
    /\ pg.store = "writing" => pg.busy = "shared" /\ pg.dirty
    /\ pg.busy = "shared" => pg.mapped # "rw" /\ pg.store # "older"
    /\ pg.object = NoObject => ~pg.valid

ASSUME ScenesAssumption ==
    \A scene \in Scenes :
        /\ scene.versions \subseteq {10, 11, 12}
        /\ scene.objects \subseteq ObjectRecord
        /\ scene.pages \in [Page -> PageRecord]
        /\ \A p \in Page : PageSound(scene.pages[p])

InitialQueue(pgs, q) ==
    LET on == SetToSortSeq({p \in Page : pgs[p].queue = q}, <) IN
    CASE q = "ACTIVE" -> << Clock0 >> \o on \o << Clock1 >>
      [] q = "INACTIVE" -> << InactHead >> \o on
      [] OTHER -> on

Init ==
    /\ \E scene \in Scenes :
          LET pgs == [p \in Page |->
                         IF version > 10 \/ scene.pages[p].queue # "LAUNDRY"
                         THEN scene.pages[p]
                         ELSE [scene.pages[p] EXCEPT !.queue = "INACTIVE"]]
          IN
          /\ version \in scene.versions
          /\ obj \in [Object -> scene.objects]
          /\ \A p \in Page : pgs[p].mapped # "no" \/ pgs[p].dirty
                            => obj[pgs[p].object].users
          /\ vm = [page |-> pgs, tq |-> [q \in Queue |-> InitialQueue(pgs, q)],
                   cnt |-> [q \in Queue |-> Cardinality({p \in Page : pgs[p].queue = q})]]
    /\ th = [t \in Thread |-> IdleThread]
    /\ noise = MaxNoise
    /\ knob = [k \in Knobs |-> FALSE]
    /\ passes = [t \in Thread |-> 0]

\* All scans are over: nothing is left waiting for a lock.
Finished ==
    /\ \A t \in Thread : th[t].pc \in {"idle", "abegin"}
    /\ UNCHANGED vars

Next ==
    \/ \E t \in Thread :
          \/ version = 12 /\ Scan12(t)
          \/ version = 11 /\ Scan11(t)
          \/ version = 10 /\ Scan10(t)
    \/ version = 10 /\ vm_pageout_map_deactivate_pages
    \/ Users /\ UNCHANGED << knob, passes >>
    \/ \E k \in Knobs : SetKnob(k)
    \/ Finished

Spec == Init /\ [][Next]_vars

-----------------------------------------------------------------------------
(* Properties *)

\* Pages, objects and threads have their types; act_count stays in its range.
TypeOK ==
    /\ version \in {10, 11, 12} /\ noise \in 0 .. MaxNoise
    /\ vm.page \in [Page -> PageRecord]
    /\ obj \in [Object -> ObjectRecord]
    /\ knob \in [Knobs -> BOOLEAN]
    /\ \A t \in Thread :
          th[t].m \in Page \cup {NoPage, Clock0, Clock1, InactHead, Marker, StackMarker}

\* Data that the backing store does not have is not forgotten: the page, or a
\* mapping of it, is known to be modified, or the page is being written and
\* busy.  Only the pages the pager refuses are forgotten ("lost", VM_PAGER_BAD).
\* A page that is free has no such data (the dirty tests of
\* vm_pageout_scan_inactive, vm_pageout_launder, vm_pageout_flush).
NoSilentLoss ==
    \A p \in Page : Resident(p) =>
        /\ vm.page[p].store = "older" => vm.page[p].dirty \/ vm.page[p].pmod
        /\ vm.page[p].store = "writing" => vm.page[p].busy = "shared"

\* A page is on the TAILQ of its queue once if PGA_ENQUEUED says so, and on no
\* other; pq_cnt is the number of pages there; no marker stays behind.
\* vm_pageout_collect_batch and vm_pageout_reinsert_inactive_page update the
\* three separately, while others queue the same pages.
QueuesConsistent ==
    TypeOK /\ \A q \in Queue :
        /\ vm.cnt[q] = Len(Pages(vm.tq[q]))
        /\ \A p \in Page :
              Cardinality({i \in DOMAIN vm.tq[q] : vm.tq[q][i] = p})
                  = IF vm.page[p].enqueued /\ vm.page[p].queue = q THEN 1 ELSE 0
        /\ (\A t \in Thread : th[t].queue # q)
              => {Marker, StackMarker} \cap ToSet(vm.tq[q]) = {}

\* No page drops out of the daemon's sight: one that is in no queue is wired,
\* about to be queued, in the hands of a scan, or its object is dead.
NoStrayPage ==
    \A p \in Page : Resident(p) =>
        \/ vm.page[p].enqueued \/ Pending(vm.page[p]) \/ vm.page[p].wire
        \/ ObjectOf(p).dead
        \/ \E t \in Thread :
              \/ p \in ToSet(th[t].bq) \cup ToSet(th[t].rq)
              \/ th[t].m = p /\ (th[t].mtx = p \/ version = 12)

\* While the pager reads a cluster its pages are valid, busy, of one object,
\* and cannot be written through a mapping (vm_pageout_flush asserts the first
\* and the last for every page).
ClusterProtected ==
    \A t \in Thread : \A p \in th[t].flushing :
        /\ vm.page[p].mapped # "rw" /\ vm.page[p].valid
        /\ vm.page[p].busy = "shared" /\ vm.page[p].object = th[t].object

\* What the daemon promises to the owners of the pages, see PageReclaim.
Reclaim == INSTANCE PageReclaim WITH
    resident <- {p \in Page : Resident(p)},
    unsaved <- {p \in Page : vm.page[p].store \in {"older", "writing"}},
    refused <- {p \in Page : vm.page[p].store = "lost"},
    pinned <- {p \in Page : Held(vm.page[p]) \/ vm.page[p].busy # "no"},
    dead <- {p \in Page : Resident(p) /\ ObjectOf(p).dead}
ReclaimSpec == Reclaim!Spec
=============================================================================
