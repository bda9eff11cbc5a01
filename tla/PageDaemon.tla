----------------------------- MODULE PageDaemon -----------------------------
(***************************************************************************)
(* What the page daemons of the three versions have in common: the local   *)
(* variables of a scan, the dirty test, and writing a cluster of pages.    *)
(* The code is that of vm_pageout.c, the same in vm_pageout_test.c but for *)
(* the differences noted.                                                  *)
(***************************************************************************)
EXTENDS VmPage, FiniteSetsExt

CONSTANTS
    PageCount,      \* vm_pageout_page_count, the size of a cluster
    Shortages,      \* page_shortage and launder at the start of a scan
    MaxPasses       \* bound: the scans of a thread

ASSUME DaemonAssumption ==
    PageCount \in Nat \ {0} /\ Shortages \subseteq Nat /\ MaxPasses \in Nat

VARIABLES
    knob,           \* swap devices and sysctls
    passes          \* the scans each thread has begun

vars == << version, vm, obj, th, noise, knob, passes >>

\* swapdev_enabled, disable_swap_pageouts, vm_pagemode
Knobs == {"swapdev", "noswap", "fifo"}
KnobsOf(ver) == CASE ver = 12 -> {"swapdev", "noswap"}
                  [] ver = 11 -> {"noswap", "fifo"}
                  [] ver = 10 -> {"noswap"}

IdleThread ==
    [pc |-> "idle", scan |-> "none", queue |-> "NONE", m |-> NoPage, next |-> NoPage,
     object |-> NoObject, objLocked |-> FALSE, mtx |-> NoPage, refd |-> FALSE,
     qlocked |-> FALSE, bq |-> << >>, rq |-> << >>, maxscan |-> 0, minscan |-> 0,
     scanned |-> 0, left |-> 0, maxlaunder |-> 0, shortfall |-> FALSE,
     cluster |-> << >>, back |-> FALSE, flushing |-> {}]

Go(t, s) == th' = [th EXCEPT ![t] = s]
Quietly == UNCHANGED << version, obj, knob, passes >>
Quiet == Quietly /\ UNCHANGED noise
act_scan_laundry_weight == 3
Less(n, k) == IF n > k THEN n - k ELSE 0    \* only the sign of n - k is used

Begin(t, from) ==
    /\ th[t].pc \in from /\ passes[t] < MaxPasses
    /\ passes' = [passes EXCEPT ![t] = @ + 1]
    /\ UNCHANGED << version, obj, noise, knob >>

CanLock(t, p) == th[t].mtx = p \/ ~PageLocked(p)
Unlocked(s) ==
    [s EXCEPT !.mtx = NoPage, !.objLocked = FALSE, !.object = NoObject]

\* A try-lock fails when another thread has the lock, or somebody else.
ObjectTaken(t, o) == \E u \in Thread \ {t} : th[u].objLocked /\ th[u].object = o
TryFails(taken) == IF taken THEN UNCHANGED noise ELSE Interfere

\* An administrator sets a knob; vm_pageout_swapon, vm_pageout_swapoff.
SetKnob(k) ==
    /\ Interfere /\ k \in KnobsOf(version)
    /\ knob' = [knob EXCEPT ![k] = ~@]
    /\ UNCHANGED << version, vm, obj, th, passes >>

\* Test the dirty bits, and when they are clear remove the mappings, which may
\* have been written through in between.
TestDirtyStep(t, pc, clean, dirty) ==
    LET pg == TestDirty(vm.page[th[t].m]) IN
    /\ th[t].pc = pc
    /\ SetPage(th[t].m, pg)
    /\ Go(t, [th[t] EXCEPT !.pc = IF pg.dirty THEN dirty ELSE clean])
    /\ Quiet
RemoveAllStep(t, pc, next) ==
    /\ th[t].pc = pc
    /\ SetPage(th[t].m, RemoveAll(vm.page[th[t].m]))
    /\ Go(t, [th[t] EXCEPT !.pc = next])
    /\ Quiet

-----------------------------------------------------------------------------
(* vm_pageout_clean *)

\* n pages count as laundered, in version 10 as one.
Once(n) == IF n > 0 THEN 1 ELSE 0
Counting(s, n) ==
    [s EXCEPT !.left = Less(@, IF version = 10 THEN Once(n) ELSE n),
              !.maxlaunder = Less(@, Once(n)),
              !.scanned = CASE version = 12 -> @ + n
                            [] version = 11 -> @ + Less(n, 1)
                            [] version = 10 -> @]

\* Leave vm_pageout_clean: every lock is dropped, and the reference too; the
\* last reference of an object that lost its vnode ends it.  The scan goes on.
CleanDone(t, n) ==
    LET s == th[t]
        last == s.refd /\ RefCount(s.object) = 1 /\ ~obj[s.object].vnode
    IN  /\ obj' = IF last THEN [obj EXCEPT ![s.object].dead = TRUE] ELSE obj
        /\ Go(t, IF s.scan = "grow" THEN IdleThread
                 ELSE [Unlocked(Counting(s, n)) EXCEPT
                         !.refd = FALSE, !.cluster = << >>, !.back = FALSE,
                         !.flushing = {}, !.pc = IF version = 12 THEN "lnext" ELSE "relock"])
        /\ UNCHANGED << version, noise, knob, passes >>

\* A vnode's page: start a write, and give up both locks to get the vnode.
CleanStart(t) ==
    LET s == th[t] IN
    /\ s.pc = "clean"
    /\ UNCHANGED vm
    /\ \/ /\ obj[s.object].type = "SWAP"
          /\ Go(t, [s EXCEPT !.pc = "cluster"]) /\ Quiet
       \/ obj[s.object].type = "VNODE" /\ CleanDone(t, 0)
       \/ /\ obj[s.object].type = "VNODE"
          /\ Go(t, [s EXCEPT !.mtx = NoPage, !.refd = TRUE,
                             !.objLocked = FALSE, !.pc = "vget"])
          /\ Quiet

CleanVget(t) ==
    /\ th[t].pc = "vget"
    /\ UNCHANGED vm
    /\ \/ CleanDone(t, 0)
       \/ /\ ~ObjectLocked(th[t].object) /\ ~obj[th[t].object].vnode
          /\ CleanDone(t, 0)
       \/ /\ ~ObjectLocked(th[t].object) /\ obj[th[t].object].vnode
          /\ Go(t, [th[t] EXCEPT !.objLocked = TRUE, !.pc = "recheck"])
          /\ Quiet

\* What may have happened to the page while nothing was locked.
StillToClean(s, pg) ==
    /\ InLaundry(pg) /\ pg.object = s.object /\ pg.dirty
    /\ pg.busy = "no" /\ ~Held(pg)

CleanPage(t) ==
    LET s == th[t]
        ok == StillToClean(s, vm.page[s.m])
    IN  /\ s.pc = "recheck" /\ ~PageLocked(s.m)
        /\ UNCHANGED vm
        /\ \/ ~ok /\ CleanDone(t, 0)
           \/ ok /\ Go(t, [s EXCEPT !.mtx = s.m, !.pc = "cluster"]) /\ Quiet

-----------------------------------------------------------------------------
(* vm_pageout_cluster *)

\* From version 11 on a page is write-protected when it joins the cluster; in
\* version 10 vm_pageout_flush does that.
Protect(pg) == IF version = 10 THEN TestDirty(pg) ELSE RemoveWrite(pg)

ClusterStart(t) ==
    LET s == th[t]
        pg == vm.page[s.m]
    IN  /\ s.pc = "cluster"
        /\ SetPage(s.m, IF version = 10 THEN pg ELSE RemoveWrite(pg))
        /\ Go(t, [s EXCEPT !.mtx = NoPage, !.cluster = << s.m >>, !.back = TRUE,
                           !.pc = "back"])
        /\ Quiet

\* A neighbour joins if it belongs to the object, is dirty, in the queue that
\* is laundered, and nobody uses it.
Neighbour(p, o) == p \in Page /\ vm.page[p].object = o /\ vm.page[p].busy = "no"
Joins(p, o) ==
    /\ Neighbour(p, o) /\ TestDirty(vm.page[p]).dirty
    /\ ~Held(vm.page[p])
    /\ IF version = 10 THEN vm.page[p].queue = "INACTIVE" ELSE InLaundry(vm.page[p])
TryNeighbour(p, o) ==
    /\ Neighbour(p, o) /\ (version = 10 \/ TestDirty(vm.page[p]).dirty)
          => ~PageLocked(p)
    /\ vm' = IF ~Neighbour(p, o) THEN vm
             ELSE [vm EXCEPT !.page[p] = IF Joins(p, o) THEN Protect(@)
                                         ELSE TestDirty(@)]

\* Backwards first, to a page_count boundary, then forwards, then backwards
\* again if there is room and no page refused.
ClusterBack(t) ==
    LET s == th[t]
        p == Head(s.cluster) - 1
    IN  /\ s.pc = "back"
        /\ IF ~s.back \/ Len(s.cluster) = PageCount
           THEN UNCHANGED vm /\ Go(t, [s EXCEPT !.pc = "forward"])
           ELSE /\ TryNeighbour(p, s.object)
                /\ Go(t, IF Joins(p, s.object)
                         THEN [s EXCEPT
                            !.cluster = << p >> \o @,
                            !.pc = IF p % PageCount = 0 THEN "forward" ELSE "back"]
                         ELSE [s EXCEPT !.back = FALSE, !.pc = "forward"])
        /\ Quiet

ClusterForward(t) ==
    LET s == th[t]
        p == Last(s.cluster) + 1
        more == IF s.back THEN "back" ELSE "flush"
    IN  /\ s.pc = "forward"
        /\ IF Len(s.cluster) = PageCount
           THEN UNCHANGED vm /\ Go(t, [s EXCEPT !.pc = "flush"])
           ELSE /\ TryNeighbour(p, s.object)
                /\ Go(t, IF Joins(p, s.object) THEN [s EXCEPT !.cluster = Append(@, p)]
                         ELSE [s EXCEPT !.pc = more])
        /\ Quiet

-----------------------------------------------------------------------------
(* vm_pageout_flush *)

Written(store) == IF store = "older" THEN "writing" ELSE store
WrittenBack(store) == IF store = "writing" THEN "same" ELSE store
GivenUp(store) == IF store = "writing" THEN "lost" ELSE store
NotWritten(store) == IF store = "writing" THEN "older" ELSE store

\* Mutant: the write protection was forgotten.
HandOverWriteable(pg) == [pg EXCEPT !.busy = "shared", !.store = Written(@)]

\* What is busied and write-protected cannot be dirtied while it is written.
HandOver(pg) ==
    [(IF version = 10 THEN RemoveWrite(pg) ELSE pg)
        EXCEPT !.busy = "shared", !.store = Written(@)]

\* Busy the cluster and hand it to the pager, which drops the object lock and
\* reads the pages.
FlushStart(t) ==
    LET s == th[t]
        c == ToSet(s.cluster)
    IN  /\ s.pc = "flush"
        /\ vm' = [vm EXCEPT !.page = [p \in Page |->
                    IF p \in c THEN HandOver(vm.page[p]) ELSE vm.page[p]]]
        /\ Go(t, [s EXCEPT !.flushing = c, !.objLocked = FALSE, !.pc = "put"])
        /\ Quiet

PagerStatus == {"OK", "PEND", "BAD", "ERROR", "FAIL", "AGAIN"}

\* Mutant: a page counts as clean whatever became of its page-out.
FlushedHopeful(v, p, status, type) ==
    IF status = "PEND" THEN v
    ELSE [v EXCEPT !.page[p].busy = "no", !.page[p].dirty = FALSE,
                   !.page[p].store = IF status = "OK" THEN WrittenBack(@) ELSE NotWritten(@)]

\* What becomes of one page.  The pager has marked a page clean when it is OK.
\* A page it refuses as outside the object is cleaned too, "so the changes will
\* be lost".
\* A page that could not be written goes back to the active queue, or, if swap
\* space is lacking, to the unswappable pages of version 12.  Version 10 leaves
\* a written page where it is.
Flushed(v, p, status, type) ==
    LET stays == [v EXCEPT !.page[p].busy = "no", !.page[p].store = NotWritten(@)]
        clean == [v EXCEPT !.page[p].busy = "no", !.page[p].dirty = FALSE,
                           !.page[p].store = IF status = "OK" THEN WrittenBack(@)
                                             ELSE GivenUp(@)]
    IN  CASE status = "PEND" -> v
          [] status \in {"OK", "BAD"} ->
                IF version > 10 /\ InLaundry(v.page[p])
                THEN Settle(DeactivateNoreuse(clean, p), p) ELSE clean
          [] status = "FAIL" /\ type = "SWAP" /\ version = 12 ->
                Unswappable(stays, p)
          [] status = "AGAIN" -> stays
          [] OTHER -> Settle(Activate(stays, p), p)

FlushedAll(v, cluster, status, type) ==
    FoldLeft(LAMBDA w, p : Flushed(w, p, status[p], type), v, cluster)

Counted(status, type) ==
    \/ status \in {"OK", "PEND"}
    \/ status = "FAIL" /\ type = "SWAP" /\ version = 12

FlushDone(t) ==
    LET s == th[t]
        type == obj[s.object].type
    IN  /\ s.pc = "put" /\ ~ObjectLocked(s.object)
        /\ \A p \in s.flushing : ~PageLocked(p)
        /\ QueuesFree(t, {"INACTIVE", "ACTIVE", "LAUNDRY"})
        /\ \E status \in [s.flushing -> PagerStatus] :
              LET n == Cardinality({p \in s.flushing : Counted(status[p], type)}) IN
              /\ vm' = FlushedAll(vm, s.cluster, status, type)
              /\ \/ version > 10 /\ CleanDone(t, n)
                 \/ /\ version = 10 /\ Quiet
                    /\ Go(t, [Counting(s, n) EXCEPT
                                 !.objLocked = TRUE, !.flushing = {}, !.pc = "severe"])

Clean(t) ==
    \/ CleanStart(t) \/ CleanVget(t) \/ CleanPage(t)
    \/ ClusterStart(t) \/ ClusterBack(t) \/ ClusterForward(t)
    \/ FlushStart(t) \/ FlushDone(t)
=============================================================================
