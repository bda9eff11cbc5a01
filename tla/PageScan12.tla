----------------------------- MODULE PageScan12 -----------------------------
(***************************************************************************)
(* The queue scans of the page daemon of FreeBSD 12 (vm_pageout.c): "pd"   *)
(* scans the inactive and the active queue in turn, "ld" launders.  A scan *)
(* collects pages in batches under the queue lock and handles them under   *)
(* the page and object locks, so a page may change between the two.        *)
(***************************************************************************)
EXTENDS PageDaemon

CONSTANT BatchSize      \* VM_BATCHQUEUE_SIZE

-----------------------------------------------------------------------------
(* Scanning a queue in batches. *)

\* The marker goes to the head of the queue, or behind a clock hand.
vm_pageout_init_scan(v, q, after) ==
    [v EXCEPT !.tq[q] = IF after = NoPage THEN << Marker >> \o @
                        ELSE InsertAfter(@, after, Marker)]

Scanning(s, q, n) ==
    [s EXCEPT !.queue = q, !.bq = << >>, !.maxscan = n, !.scanned = 0]

vm_pageout_end_scan(v, q) == [v EXCEPT !.tq[q] = Remove(@, Marker)]

\* Up to BatchSize entries behind the marker, which moves behind them.  With
\* dequeue the pages leave the TAILQ but keep their queue, and other markers
\* are passed over.
vm_pageout_collect_batch(v, s, dequeue) ==
    LET tq == v.tq[s.queue]
        rest == SubSeq(tq, At(tq, Marker) + 1, Len(tq))
        Batch(k) == IF dequeue THEN Pages(SubSeq(rest, 1, k)) ELSE SubSeq(rest, 1, k)
        n == Min({k \in 0 .. Len(rest) :
                    \/ k = Len(rest) \/ s.scanned + k >= s.maxscan
                    \/ Len(Batch(k)) = BatchSize})
        taken == IF dequeue THEN ToSet(Batch(n)) ELSE {}
        passed == SelectSeq(SubSeq(rest, 1, n), LAMBDA e : e \notin taken)
    IN  [v |-> [v EXCEPT
            !.tq[s.queue] = SubSeq(tq, 1, At(tq, Marker) - 1) \o passed
                            \o << Marker >> \o SubSeq(rest, n + 1, Len(rest)),
            !.cnt[s.queue] = @ - Cardinality(taken),
            !.page = [p \in Page |-> IF p \in taken
                         THEN [v.page[p] EXCEPT !.enqueued = FALSE]
                         ELSE v.page[p]]],
         s |-> [s EXCEPT !.bq = Batch(n), !.scanned = @ + n]]

\* The next entry of the batch in m, NoPage at the end.  A batch is a stack.
vm_pageout_next(v, s, dequeue) ==
    LET c == IF s.bq = << >> THEN vm_pageout_collect_batch(v, s, dequeue)
             ELSE [v |-> v, s |-> s]
    IN  IF c.s.bq = << >> THEN [c EXCEPT !.s.m = NoPage]
        ELSE [c EXCEPT !.s.m = Last(c.s.bq), !.s.bq = Front(c.s.bq)]

\* vm_page_change_lock: the lock of the last page is dropped first.  A marker
\* is passed over, locks and all; at the end the lock is dropped.
ChangeLock(s) ==
    IF s.m \in (Page \cup {NoPage}) \ {s.mtx} THEN [s EXCEPT !.mtx = NoPage] ELSE s

\* The object lock is only tried under a page lock: another thread or another
\* party may have it.  Then the page lock is dropped, the object locked, and
\* the page, which may have changed, looked at again.
LockObject(t, s, locked, busy) ==
    LET o == vm.page[s.m].object
        r == IF s.object = o THEN s
             ELSE [s EXCEPT !.object = o, !.objLocked = FALSE]
    IN  \/ /\ r.objLocked \/ ~ObjectTaken(t, o)
           /\ Go(t, [r EXCEPT !.objLocked = TRUE, !.pc = locked])
           /\ UNCHANGED noise
        \/ /\ ~r.objLocked
           /\ Go(t, [r EXCEPT !.mtx = NoPage, !.pc = busy])
           /\ TryFails(ObjectTaken(t, o))

WaitObject(t, busy, recheck) ==
    /\ th[t].pc = busy
    /\ ~ObjectLocked(th[t].object)
    /\ Go(t, [th[t] EXCEPT !.objLocked = TRUE, !.pc = recheck])
    /\ UNCHANGED vm /\ Quiet

-----------------------------------------------------------------------------
(* vm_pageout_scan_inactive *)

\* Mutant: a page that was queued again meanwhile is inserted a second time.
reinsert_unchecked(v, p) ==
    IF v.page[p].queue # "INACTIVE" THEN v
    ELSE [v EXCEPT !.tq["INACTIVE"] = InsertBefore(@, Marker, p),
                   !.cnt["INACTIVE"] = @ + 1, !.page[p].enqueued = TRUE]

\* Put a dequeued page back, unless it has left the queue or is back already.
vm_pageout_reinsert_inactive_page(v, p) ==
    IF v.page[p].queue # "INACTIVE" \/ v.page[p].enqueued THEN v
    ELSE IF v.page[p].requeue # "no" THEN Link(v, p, v.page[p].requeue)
    ELSE [v EXCEPT !.tq["INACTIVE"] = InsertBefore(@, Marker, p),
                   !.cnt["INACTIVE"] = @ + 1, !.page[p].enqueued = TRUE]

\* All pages of a batch, which has room for BatchSize, last one first.
ReinsertAll(v, bq) ==
    FoldLeft(LAMBDA w, i : IF i > Len(bq) THEN w
                           ELSE vm_pageout_reinsert_inactive_page(w, bq[Len(bq) - i + 1]),
             v, [i \in 1 .. BatchSize |-> i])

\* A page is kept in rq; a full batch is reinserted at once.
vm_pageout_reinsert_inactive(v, s) ==
    IF Len(s.rq) < BatchSize
    THEN [v |-> v, s |-> [s EXCEPT !.rq = Append(@, s.m), !.pc = "inext"]]
    ELSE [v |-> ReinsertAll(vm_pageout_reinsert_inactive_page(v, s.m), s.rq),
          s |-> [s EXCEPT !.rq = << >>, !.pc = "inext"]]

Reinsert(t, v, s) ==
    LET r == vm_pageout_reinsert_inactive(v, s) IN vm' = r.v /\ Go(t, r.s)

InactiveBegin(t) ==
    /\ t = "pd" /\ Begin(t, {"idle"})
    /\ vm' = vm_pageout_init_scan(vm, "INACTIVE", NoPage)
    /\ \E n \in Shortages \ {0} :
          Go(t, [Scanning(th[t], "INACTIVE", vm.cnt["INACTIVE"])
                    EXCEPT !.left = n, !.pc = "inext"])

InactiveNext(t) ==
    LET r == IF th[t].left > 0 THEN vm_pageout_next(vm, th[t], TRUE)
             ELSE [v |-> vm, s |-> [th[t] EXCEPT !.m = NoPage]]
    IN  /\ th[t].pc = "inext"
        /\ vm' = r.v
        /\ Go(t, [ChangeLock(r.s) EXCEPT
                     !.pc = IF r.s.m = NoPage THEN "iend" ELSE "ilock"])
        /\ Quiet

\* Under the page lock: is the page still there, and may it go?
InactivePage(t) ==
    LET s == [th[t] EXCEPT !.mtx = th[t].m]
        pg == vm.page[s.m]
        there == VmPageQueue(pg) = "INACTIVE"
        again == pg.enqueued \/ pg.requeue # "no" \/ pg.hold
    IN  /\ s.pc = "ilock" /\ CanLock(t, s.m)
        /\ \/ ~there /\ UNCHANGED << vm, noise >> /\ Go(t, [s EXCEPT !.pc = "inext"])
           \/ there /\ again /\ Reinsert(t, vm, s) /\ UNCHANGED noise
           \/ /\ there /\ ~again /\ pg.wire
              /\ vm' = DequeueDeferred(vm, s.m)
              /\ Go(t, [s EXCEPT !.pc = "inext"]) /\ UNCHANGED noise
           \/ /\ there /\ ~again /\ ~pg.wire
              /\ LockObject(t, s, "iref", "iobj") /\ UNCHANGED vm
        /\ Quietly

\* Under the object lock as well: busy, invalid and referenced pages.
InactiveReferenced(t) ==
    LET s == th[t]
        pg == vm.page[s.m]
        mapped == RefCount(s.object) # 0
        delta == ActDelta(pg, mapped)
        v == [vm EXCEPT !.page[s.m] = Forget(@, mapped)]
    IN  /\ s.pc = "iref"
        /\ \/ pg.busy # "no" /\ Reinsert(t, vm, s)
           \/ /\ pg.busy = "no" /\ ~pg.valid
              /\ Go(t, [s EXCEPT !.pc = "idecide"]) /\ UNCHANGED vm
           \/ /\ pg.busy = "no" /\ pg.valid
              /\ \/ /\ delta # 0 /\ mapped
                    /\ vm' = Advance(Activate(v, s.m), s.m, delta + ActAdvance)
                    /\ Go(t, [s EXCEPT !.pc = "inext"])
                 \/ /\ delta # 0 /\ ~mapped /\ ~obj[s.object].dead
                    /\ Reinsert(t, [v EXCEPT !.page[s.m].requeue = "tail"], s)
                 \/ /\ delta = 0 \/ (~mapped /\ obj[s.object].dead)
                    /\ vm' = v
                    /\ Go(t, [s EXCEPT !.pc = IF mapped THEN "itest" ELSE "idecide"])
        /\ Quiet

\* Mutant: the dirty bits are not looked at again after the mappings are gone.
InactiveDecideBlindly(t) ==
    /\ th[t].pc = "idecide"
    /\ vm' = Free(vm, th[t].m)
    /\ Go(t, [th[t] EXCEPT !.left = @ - 1, !.pc = "inext"])
    /\ Quiet

\* Free a clean page, launder a dirty one, leave a dead object's dirty page.
InactiveDecide(t) ==
    LET s == th[t]
        pg == vm.page[s.m]
    IN  /\ s.pc = "idecide"
        /\ \/ /\ ~pg.valid \/ ~pg.dirty
              /\ vm' = Free(vm, s.m)
              /\ Go(t, [s EXCEPT !.left = @ - 1, !.pc = "inext"])
           \/ /\ pg.valid /\ pg.dirty
              /\ vm' = IF obj[s.object].dead THEN vm ELSE Launder(vm, s.m)
              /\ Go(t, [s EXCEPT !.pc = "inext"])
        /\ Quiet

\* Mutant: the pages left in the last batch are forgotten.
InactiveEndForgetful(t) ==
    /\ th[t].pc = "iend"
    /\ vm' = vm_pageout_end_scan(ReinsertAll(vm, th[t].rq), "INACTIVE")
    /\ Go(t, [IdleThread EXCEPT !.pc = "abegin"])
    /\ Quiet

\* The pages kept back and the rest of the batch return to the queue.
InactiveEnd(t) ==
    /\ th[t].pc = "iend"
    /\ vm' = vm_pageout_end_scan(
                ReinsertAll(ReinsertAll(vm, th[t].rq), th[t].bq), "INACTIVE")
    /\ Go(t, [IdleThread EXCEPT !.pc = "abegin"])
    /\ Quiet

ScanInactive(t) ==
    \/ InactiveBegin(t) \/ InactiveNext(t) \/ InactivePage(t)
    \/ WaitObject(t, "iobj", "ilock") \/ InactiveReferenced(t)
    \/ TestDirtyStep(t, "itest", "iunmap", "idecide")
    \/ RemoveAllStep(t, "iunmap", "idecide")
    \/ InactiveDecide(t) \/ InactiveEnd(t)

-----------------------------------------------------------------------------
(* vm_pageout_scan_active *)

\* After the inactive queue, or without it when there is no shortage.  The
\* whole queue under a shortage, else what the update period asks for.
ActiveBegin(t) ==
    /\ t = "pd" /\ Begin(t, {"idle", "abegin"})
    /\ vm' = vm_pageout_init_scan(vm, "ACTIVE", Clock0)
    /\ \E page_shortage \in Shortages, min_scan \in 0 .. vm.cnt["ACTIVE"] :
          LET max_scan == IF page_shortage > 0 THEN vm.cnt["ACTIVE"] ELSE min_scan
          IN  Go(t, [Scanning(th[t], "ACTIVE", max_scan)
                        EXCEPT !.left = page_shortage, !.pc = "anext"])

\* At the second hand the clock wraps: both hands move to the ends of the
\* queue and the scan starts again with what is left of max_scan.
WrapClock(tq) ==
    << Clock0 >> \o SelectSeq(tq, LAMBDA e : e \notin {Clock0, Clock1}) \o << Clock1 >>

ActiveNext(t) ==
    LET r == vm_pageout_next(vm, th[t], FALSE)
        wrapped == vm_pageout_end_scan([r.v EXCEPT !.tq["ACTIVE"] = WrapClock(@)],
                                       "ACTIVE")
    IN  /\ th[t].pc = "anext"
        /\ \/ /\ r.s.m = Clock1
              /\ vm' = vm_pageout_init_scan(wrapped, "ACTIVE", Clock0)
              /\ Go(t, Scanning(r.s, "ACTIVE", r.s.maxscan - r.s.scanned))
           \/ /\ r.s.m # Clock1
              /\ vm' = r.v
              /\ Go(t, [ChangeLock(r.s) EXCEPT
                           !.pc = CASE r.s.m = NoPage -> "aend"
                                    [] r.s.m \in Page -> "alock"
                                    [] OTHER -> "anext"])
        /\ Quiet

\* Age an active page; at act_count 0 it leaves the queue, to the inactive
\* queue or, dirty and under a shortage, to the laundry.
ActivePage(t) ==
    LET s == [th[t] EXCEPT !.mtx = th[t].m, !.pc = "anext"]
        pg == vm.page[s.m]
        mapped == Resident(s.m) /\ RefCount(pg.object) # 0
        delta == ActDelta(pg, mapped)
        act == IF delta # 0 THEN Min({pg.act + ActAdvance + delta, ActMax})
               ELSE Less(pg.act, ActDecline)
        v == [vm EXCEPT !.page[s.m] = [Forget(@, mapped) EXCEPT !.act = act]]
    IN  /\ th[t].pc = "alock" /\ CanLock(t, s.m)
        /\ \/ VmPageQueue(pg) # "ACTIVE" /\ UNCHANGED vm /\ Go(t, s)
           \/ /\ VmPageQueue(pg) = "ACTIVE" /\ pg.wire
              /\ vm' = DequeueDeferred(vm, s.m) /\ Go(t, s)
           \/ /\ VmPageQueue(pg) = "ACTIVE" /\ ~pg.wire
              /\ \/ act # 0 /\ vm' = v /\ Go(t, s)
                 \/ act = 0 /\ s.left = 0 /\ vm' = Deactivate(v, s.m) /\ Go(t, s)
                 \/ /\ act = 0 /\ s.left > 0 /\ ~pg.dirty
                    /\ vm' = Deactivate(v, s.m)
                    /\ Go(t, [s EXCEPT !.left = Less(@, act_scan_laundry_weight)])
                 \/ /\ act = 0 /\ s.left > 0 /\ pg.dirty
                    /\ vm' = Launder(v, s.m)
                    /\ Go(t, [s EXCEPT !.left = Less(@, 1)])
        /\ Quiet

\* The first hand stays behind the pages scanned.
ActiveEnd(t) ==
    /\ th[t].pc = "aend"
    /\ vm' = vm_pageout_end_scan(
                [vm EXCEPT !.tq["ACTIVE"] =
                    InsertAfter(Remove(@, Clock0), Marker, Clock0)], "ACTIVE")
    /\ Go(t, IdleThread)
    /\ Quiet

ScanActive(t) == ActiveBegin(t) \/ ActiveNext(t) \/ ActivePage(t) \/ ActiveEnd(t)

-----------------------------------------------------------------------------
(* vm_pageout_launder *)

LaunderScan(t, s, v, q) ==
    /\ vm' = vm_pageout_init_scan(v, q, NoPage)
    /\ Go(t, [Scanning(s, q, v.cnt[q]) EXCEPT !.pc = "lnext"])

\* The unswappable pages come first once there is a swap device.
LaunderBegin(t) ==
    /\ t = "ld" /\ Begin(t, {"idle"})
    /\ \E n \in Shortages \ {0}, in_shortfall \in BOOLEAN :
          LaunderScan(t, [th[t] EXCEPT !.left = n, !.shortfall = in_shortfall], vm,
                      IF knob.swapdev THEN "UNSWAPPABLE" ELSE "LAUNDRY")

LaunderNext(t) ==
    LET r == IF th[t].left > 0 THEN vm_pageout_next(vm, th[t], FALSE)
             ELSE [v |-> vm, s |-> [th[t] EXCEPT !.m = NoPage]]
    IN  /\ th[t].pc = "lnext"
        /\ vm' = r.v
        /\ Go(t, [ChangeLock(r.s) EXCEPT
                     !.pc = CASE r.s.m = NoPage -> "lend"
                              [] r.s.m \in Page -> "llock"
                              [] OTHER -> "lnext"])
        /\ Quiet

LaunderPage(t) ==
    LET s == [th[t] EXCEPT !.mtx = th[t].m]
        pg == vm.page[s.m]
        next == [s EXCEPT !.pc = "lnext"]
    IN  /\ s.pc = "llock" /\ CanLock(t, s.m)
        /\ \/ /\ VmPageQueue(pg) # s.queue
              /\ UNCHANGED << vm, noise >> /\ Go(t, next)
           \/ /\ VmPageQueue(pg) = s.queue /\ UNCHANGED noise
              /\ \/ pg.requeue = "tail" /\ vm' = Requeue(vm, s.m) /\ Go(t, next)
                 \/ pg.requeue # "tail" /\ pg.hold /\ UNCHANGED vm /\ Go(t, next)
                 \/ /\ pg.requeue # "tail" /\ ~pg.hold /\ pg.wire
                    /\ vm' = DequeueDeferred(vm, s.m) /\ Go(t, next)
           \/ /\ VmPageQueue(pg) = s.queue /\ pg.requeue # "tail" /\ ~Held(pg)
              /\ LockObject(t, s, "lref", "lobj") /\ UNCHANGED vm
        /\ Quietly

LaunderReferenced(t) ==
    LET s == th[t]
        pg == vm.page[s.m]
        mapped == RefCount(s.object) # 0
        delta == ActDelta(pg, mapped)
        v == [vm EXCEPT !.page[s.m] = Forget(@, mapped)]
    IN  /\ s.pc = "lref"
        /\ \/ pg.busy # "no" /\ UNCHANGED vm /\ Go(t, [s EXCEPT !.pc = "lnext"])
           \/ /\ pg.busy = "no" /\ ~pg.valid
              /\ UNCHANGED vm /\ Go(t, [s EXCEPT !.pc = "ldecide"])
           \/ /\ pg.busy = "no" /\ pg.valid
              /\ \/ /\ delta # 0 /\ mapped
                    /\ vm' = Advance(Activate(v, s.m), s.m, delta + ActAdvance)
                    /\ Go(t, [s EXCEPT !.left = IF s.shortfall THEN @ ELSE @ - 1,
                                       !.pc = "lnext"])
                 \/ /\ delta # 0 /\ ~mapped /\ ~obj[s.object].dead
                    /\ vm' = Requeue(v, s.m)
                    /\ Go(t, [s EXCEPT !.pc = "lnext"])
                 \/ /\ delta = 0 \/ (~mapped /\ obj[s.object].dead)
                    /\ vm' = v
                    /\ Go(t, [s EXCEPT !.pc = IF mapped THEN "ltest" ELSE "ldecide"])
        /\ Quiet

\* Free a clean page, clean a dirty one.
LaunderDecide(t) ==
    LET s == th[t]
        pg == vm.page[s.m]
        o == s.object
        noswap == obj[o].type = "SWAP" /\ knob.noswap
    IN  /\ s.pc = "ldecide"
        /\ \/ /\ ~pg.valid \/ ~pg.dirty
              /\ vm' = Free(vm, s.m) /\ Go(t, [s EXCEPT !.pc = "lnext"])
           \/ /\ pg.valid /\ pg.dirty /\ obj[o].dead
              /\ UNCHANGED vm /\ Go(t, [s EXCEPT !.pc = "lnext"])
           \/ /\ pg.valid /\ pg.dirty /\ ~obj[o].dead
              /\ \/ noswap /\ vm' = Requeue(vm, s.m) /\ Go(t, [s EXCEPT !.pc = "lnext"])
                 \/ ~noswap /\ UNCHANGED vm /\ Go(t, [s EXCEPT !.pc = "clean"])
        /\ Quiet

LaunderEnd(t) ==
    LET s == Unlocked(th[t])
        v == vm_pageout_end_scan(vm, s.queue)
    IN  /\ s.pc = "lend"
        /\ IF s.left > 0 /\ s.queue = "UNSWAPPABLE" THEN LaunderScan(t, s, v, "LAUNDRY")
           ELSE vm' = v /\ Go(t, IdleThread)
        /\ Quiet

ScanLaundry(t) ==
    \/ LaunderBegin(t) \/ LaunderNext(t) \/ LaunderPage(t)
    \/ WaitObject(t, "lobj", "llock") \/ LaunderReferenced(t)
    \/ TestDirtyStep(t, "ltest", "lunmap", "ldecide")
    \/ RemoveAllStep(t, "lunmap", "ldecide")
    \/ LaunderDecide(t) \/ LaunderEnd(t)
    \/ Clean(t)

-----------------------------------------------------------------------------
Scan12(t) == ScanInactive(t) \/ ScanActive(t) \/ ScanLaundry(t)
=============================================================================
