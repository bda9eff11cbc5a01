----------------------------- MODULE MarkerScan -----------------------------
(***************************************************************************)
(* Scanning a page queue the way FreeBSD 10 and 11 do (vm_pageout_test.c): *)
(* the queue lock is held while a page is looked at.  To wait for a lock,  *)
(* or to handle the page, the queue is unlocked; a marker behind the page  *)
(* keeps the place, and tells afterwards whether the page is still there.  *)
(* A thread is at one of                                                   *)
(*   pick      about to take the next entry of the locked queue,           *)
(*   page      about to try the page lock,                                 *)
(*   held      about to look at hold_count and try the object lock,        *)
(*   wobject, wpage, wqueue    waiting for those locks, a marker in place, *)
(*   busy      about to look at the busy lock,                             *)
(*   relock    done with a page, about to lock the queue again.            *)
(* After the inactive queue comes the active one (abegin).                 *)
(***************************************************************************)
EXTENDS PageDaemon

MarkerOf(t) == IF t = "ld" THEN StackMarker ELSE Marker
Mark(v, t) == [v EXCEPT !.tq[th[t].queue] = InsertAfter(@, th[t].m, MarkerOf(t))]
Unmark(v, t) == [v EXCEPT !.tq[th[t].queue] = Remove(@, MarkerOf(t))]
AfterMarker(t) == Succ(vm.tq[th[t].queue], MarkerOf(t))

Skipped(s) == [Unlocked(s) EXCEPT !.pc = "pick"]
Dropped(s) == [Unlocked(s) EXCEPT !.pc = "relock"]

\* Lock queue q and take its first entry.
Scan(t, s, q) ==
    /\ QueuesFree(t, {q})
    /\ Go(t, [s EXCEPT !.queue = q, !.qlocked = TRUE, !.next = First(vm.tq[q]),
                       !.maxscan = vm.cnt[q], !.scanned = 0, !.pc = "pick"])

\* The next entry, markers passed over; a grow_cache looks at all of them.
Pick(t) ==
    LET s == th[t]
        more == \/ s.scan = "grow" \/ s.scanned < s.minscan
                \/ s.left > 0 /\ s.scanned < s.maxscan
    IN  /\ s.pc = "pick"
        /\ Go(t, IF s.next = NoPage \/ ~more
                 THEN [IdleThread EXCEPT !.pc = IF s.scan = "inactive" THEN "abegin" ELSE "idle"]
                 ELSE [s EXCEPT !.m = s.next, !.next = Succ(vm.tq[s.queue], s.next),
                                !.scanned = @ + 1,
                                !.pc = IF s.next \in Page THEN "page" ELSE "pick"])
        /\ UNCHANGED vm /\ Quiet

\* vm_pageout_page_lock: try, else wait with the queue unlocked.
TryPage(t) ==
    LET s == th[t] IN
    /\ s.pc = "page"
    /\ \/ /\ ~PageLocked(s.m)
          /\ Go(t, [s EXCEPT !.mtx = s.m, !.pc = "held"])
          /\ UNCHANGED << vm, noise >>
       \/ /\ TryFails(PageLocked(s.m))
          /\ vm' = Mark(vm, t)
          /\ Go(t, [s EXCEPT !.qlocked = FALSE, !.pc = "wpage"])
    /\ Quietly

\* Version 10 looks at hold_count of an inactive page much later.
HoldMatters(s) == ~(version = 10 /\ s.scan = "inactive")
HeldNow(s) == HoldMatters(s) /\ vm.page[s.m].hold

\* Try the object lock; vm_pageout_fallback_object_lock when that fails.
TryObject(t) ==
    LET s == th[t]
        o == vm.page[s.m].object
    IN  /\ s.pc = "held" /\ s.scan # "active"
        /\ \/ HeldNow(s) /\ Go(t, Skipped(s)) /\ UNCHANGED << vm, noise >>
           \/ /\ ~HeldNow(s) /\ ~ObjectTaken(t, o)
              /\ Go(t, [s EXCEPT !.object = o, !.objLocked = TRUE, !.pc = "busy"])
              /\ UNCHANGED << vm, noise >>
           \/ /\ ~HeldNow(s) /\ TryFails(ObjectTaken(t, o))
              /\ vm' = Mark(vm, t)
              /\ Go(t, [s EXCEPT !.object = o, !.mtx = NoPage, !.qlocked = FALSE,
                                 !.pc = "wobject"])
        /\ Quietly

WaitForObject(t) ==
    /\ th[t].pc = "wobject" /\ ~ObjectLocked(th[t].object)
    /\ Go(t, [th[t] EXCEPT !.objLocked = TRUE, !.pc = "wpage"])
    /\ UNCHANGED vm /\ Quiet
WaitPage(t) ==
    /\ th[t].pc = "wpage" /\ ~PageLocked(th[t].m)
    /\ Go(t, [th[t] EXCEPT !.mtx = th[t].m, !.pc = "wqueue"])
    /\ UNCHANGED vm /\ Quiet

\* The page is where it was, and, if its object was waited for, belongs to it.
PageUnchanged(t) ==
    LET s == th[t] IN
    /\ DirectlyBefore(vm.tq[s.queue], s.m, MarkerOf(t))
    /\ s.objLocked => vm.page[s.m].object = s.object

WaitQueue(t) ==
    LET s == [th[t] EXCEPT !.next = AfterMarker(t), !.qlocked = TRUE] IN
    /\ th[t].pc = "wqueue" /\ QueuesFree(t, {s.queue})
    /\ vm' = Unmark(vm, t)
    /\ Go(t, IF ~PageUnchanged(t) THEN Skipped(s)
             ELSE [s EXCEPT !.pc = IF s.objLocked THEN "busy" ELSE "held"])
    /\ Quiet

\* A page in use is passed over.  Otherwise a marker goes behind it and the
\* queue is unlocked; version 11 takes an inactive page off the queue.
Take(t) ==
    LET s == th[t] IN
    /\ s.pc = "busy" /\ s.scan # "grow"
    /\ IF HeldNow(s) \/ vm.page[s.m].busy # "no"
       THEN UNCHANGED vm /\ Go(t, Skipped(s))
       ELSE /\ vm' = IF version = 11 /\ s.scan = "inactive"
                     THEN Dequeue(Mark(vm, t), s.m) ELSE Mark(vm, t)
            /\ Go(t, [s EXCEPT !.qlocked = FALSE, !.pc = "ref"])
    /\ Quiet

Relock(t) ==
    /\ th[t].pc = "relock" /\ QueuesFree(t, {th[t].queue})
    /\ vm' = Unmark(vm, t)
    /\ Go(t, [th[t] EXCEPT !.next = AfterMarker(t), !.qlocked = TRUE, !.pc = "pick"])
    /\ Quiet

vm_pageout_page_lock(t) == TryPage(t) \/ WaitPage(t)
vm_pageout_fallback_object_lock(t) == WaitForObject(t) \/ WaitQueue(t)

-----------------------------------------------------------------------------
(* Steps the scans share. *)

\* Move the page of a scan, if the queues it leaves and enters are not locked.
CanMoveTo(t, q) == QueuesFree(t, {q, vm.page[th[t].m].queue})

\* Age an active page: its new act_count.
Aged(pg, delta) ==
    IF delta # 0 THEN Min({pg.act + ActAdvance + delta, ActMax})
    ELSE Less(pg.act, ActDecline)
=============================================================================
