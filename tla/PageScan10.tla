----------------------------- MODULE PageScan10 -----------------------------
(***************************************************************************)
(* The scans of FreeBSD 10 (vm_pageout_test2.c), which has no laundry.     *)
(* Thread "pd" runs vm_pageout_scan; thread "ld" is an allocation that     *)
(* calls vm_pageout_grow_cache, with its marker on the same queues.        *)
(* vm_page_cache is modelled as freeing the page.                          *)
(***************************************************************************)
EXTENDS MarkerScan

vm_pageout_clean_10(t) == ClusterStart(t) \/ ClusterBack(t) \/ ClusterForward(t)

\* vm_page_try_to_cache, external.
TryToCache(p) ==
    LET pg == RemoveAll(vm.page[p]) IN
    IF vm.page[p].dirty \/ Held(pg) \/ pg.busy # "no" THEN vm
    ELSE IF pg.dirty THEN [vm EXCEPT !.page[p] = pg]
    ELSE Free(vm, p)

\* When memory is severely short the pages that were written are cached.
FlushSevere(t) ==
    LET s == th[t]
        p == Head(s.cluster)
    IN  /\ s.pc = "severe"
        /\ \/ s.cluster = << >> /\ UNCHANGED vm /\ CleanDone(t, 0)
           \/ /\ s.cluster # << >> /\ Quiet
              /\ Go(t, [s EXCEPT !.cluster = Tail(@)])
              /\ \/ UNCHANGED vm
                 \/ ~PageLocked(p) /\ QueuesFree(t, {vm.page[p].queue}) /\ vm' = TryToCache(p)
vm_pageout_flush_10(t) == FlushStart(t) \/ FlushDone(t) \/ FlushSevere(t)

-----------------------------------------------------------------------------
(* vm_pageout_grow_cache, vm_pageout_launder *)

\* tries is 0, 1 or 2: from 1 on dirty pages are cleaned, from 2 on the active
\* queue is gone through too.  shortfall stands for tries > 0.
vm_pageout_grow_cache(t) ==
    /\ t = "ld" /\ Begin(t, {"idle"})
    /\ \E tries \in 0 .. 2, q \in {"INACTIVE", "ACTIVE"} :
          /\ q = "ACTIVE" => tries = 2
          /\ Scan(t, [th[t] EXCEPT !.scan = "grow", !.shortfall = tries > 0], q)
    /\ UNCHANGED vm

\* With page, object and queue locked: unmap a clean page, cache it if it is
\* still clean, and write a dirty one with the queue unlocked: all of a
\* vnode's pages, or this page to swap.
GrowLook(t) ==
    LET s == th[t]
        pg == TestDirty(vm.page[s.m])
    IN  /\ s.pc = "busy" /\ s.scan = "grow"
        /\ \/ /\ HeldNow(s) \/ pg.busy # "no"
              /\ UNCHANGED vm /\ Go(t, Skipped(s))
           \/ /\ ~HeldNow(s) /\ pg.busy = "no"
              /\ SetPage(s.m, pg)
              /\ Go(t, [s EXCEPT !.pc = IF ~pg.dirty /\ RefCount(s.object) # 0
                                        THEN "unmap" ELSE "grow"])
        /\ Quiet

GrowDecide(t) ==
    LET s == th[t]
        pg == vm.page[s.m]
        o == s.object
    IN  /\ s.pc = "grow"
        /\ \/ ~pg.dirty /\ vm' = Free(vm, s.m) /\ Go(t, Skipped(s))
           \/ /\ pg.dirty /\ (~s.shortfall \/ obj[o].dead)
              /\ UNCHANGED vm /\ Go(t, Skipped(s))
           \/ /\ pg.dirty /\ s.shortfall /\ ~obj[o].dead
              /\ UNCHANGED vm
              /\ Go(t, IF obj[o].type = "VNODE"
                       THEN [s EXCEPT !.mtx = NoPage, !.qlocked = FALSE, !.refd = TRUE,
                                      !.objLocked = FALSE, !.pc = "gvnode"]
                       ELSE [s EXCEPT !.mtx = NoPage, !.qlocked = FALSE,
                                      !.cluster = << s.m >>, !.pc = "flush"])
        /\ Quiet

\* vm_object_page_clean, external: the dirty pages nobody keeps busy, in some
\* order.
GrowVnode(t) ==
    LET s == th[t]
        dirty == {p \in Page : /\ vm.page[p].object = s.object
                               /\ vm.page[p].busy = "no" /\ vm.page[p].valid
                               /\ TestDirty(vm.page[p]).dirty}
    IN  /\ s.pc = "gvnode" /\ ~ObjectLocked(s.object)
        /\ UNCHANGED vm
        /\ IF dirty = {} THEN CleanDone(t, 0)
           ELSE /\ Go(t, [s EXCEPT !.objLocked = TRUE, !.pc = "flush",
                                   !.cluster = SetToSeq(dirty)])
                /\ Quiet

vm_pageout_launder_10(t) ==
    GrowLook(t) \/ RemoveAllStep(t, "unmap", "grow") \/ GrowDecide(t) \/ GrowVnode(t)

-----------------------------------------------------------------------------
(* vm_pageout_scan: the inactive queue *)

\* shortfall stands for pass > 1.
InactiveBegin_10(t) ==
    /\ t = "pd" /\ Begin(t, {"idle"})
    /\ \E n \in Shortages \ {0}, urgent \in BOOLEAN :
          Scan(t, [th[t] EXCEPT !.scan = "inactive", !.left = n, !.shortfall = urgent,
                                !.maxlaunder = IF urgent THEN Cardinality(Page) ELSE 1],
               "INACTIVE")
    /\ UNCHANGED vm

Referenced_10(t) ==
    LET s == th[t]
        pg == vm.page[s.m]
        mapped == RefCount(s.object) # 0
        delta == ActDelta(pg, mapped)
        v == [vm EXCEPT !.page[s.m] = Forget(@, mapped)]
    IN  /\ s.pc = "ref"
        /\ \/ /\ delta # 0 /\ mapped /\ CanMoveTo(t, "ACTIVE")
              /\ vm' = Advance(Settle(Activate(v, s.m), s.m), s.m, delta + ActAdvance)
              /\ Go(t, Dropped(s))
           \/ /\ delta # 0 /\ ~mapped /\ CanMoveTo(t, "INACTIVE")
              /\ vm' = Complete(Requeue(v, s.m), s.m) /\ Go(t, Dropped(s))
           \/ delta = 0 /\ pg.hold /\ vm' = v /\ Go(t, Dropped(s))
           \/ delta = 0 /\ ~pg.hold /\ vm' = v /\ Go(t, [s EXCEPT !.pc = "test"])
        /\ Quiet

\* defer_swap_pageouts, and whether memory is short enough to swap all the
\* same, may be anything.
MayClean(o) == obj[o].type = "VNODE" \/ ~knob.noswap

\* Free an invalid page, cache a clean one.  A dirty page goes round the queue
\* once more before it is cleaned, unless memory is short.
Decide_10(t) ==
    LET s == th[t]
        pg == vm.page[s.m]
        o == s.object
        dirty == pg.valid /\ pg.dirty
        again == ~pg.winatcfls /\ ~s.shortfall
        clean == dirty /\ ~again /\ s.maxlaunder > 0
        requeued == Complete(Requeue(vm, s.m), s.m)
    IN  /\ s.pc = "decide"
        /\ \/ /\ ~dirty /\ CanMoveTo(t, "NONE")
              /\ vm' = Free(vm, s.m) /\ Go(t, [Dropped(s) EXCEPT !.left = @ - 1])
           \/ /\ dirty /\ again /\ CanMoveTo(t, "INACTIVE")
              /\ vm' = [requeued EXCEPT !.page[s.m].winatcfls = TRUE]
              /\ Go(t, Dropped(s))
           \/ dirty /\ ~again /\ ~clean /\ UNCHANGED vm /\ Go(t, Dropped(s))
           \/ /\ clean /\ (obj[o].type = "SWAP" \/ obj[o].dead)
              /\ CanMoveTo(t, "INACTIVE")
              /\ vm' = requeued /\ Go(t, Dropped(s))
           \/ /\ clean /\ MayClean(o) /\ ~obj[o].dead
              /\ UNCHANGED vm /\ Go(t, [s EXCEPT !.pc = "clean"])
        /\ Quiet

\* vget, then the object, page and queue locks again.
Vget(t) ==
    LET s == th[t] IN
    /\ UNCHANGED vm
    /\ \/ s.pc = "vget" /\ ~ObjectLocked(s.object) /\ CleanDone(t, 0)
       \/ /\ s.pc = "vget" /\ ~ObjectLocked(s.object) /\ obj[s.object].vnode
          /\ Go(t, [s EXCEPT !.objLocked = TRUE, !.pc = "vpage"]) /\ Quiet
       \/ /\ s.pc = "vpage" /\ ~PageLocked(s.m)
          /\ Go(t, [s EXCEPT !.mtx = s.m, !.pc = "vqueue"]) /\ Quiet

\* Is the page still in front of the marker, in the object, and unused?
VnodeRecheck(t) ==
    LET s == th[t]
        pg == vm.page[s.m]
        same == pg.object = s.object /\ DirectlyBefore(vm.tq["INACTIVE"], s.m, Marker)
    IN  /\ s.pc = "vqueue" /\ QueuesFree(t, {"INACTIVE"})
        /\ \/ /\ ~same \/ pg.busy # "no"
              /\ UNCHANGED vm /\ CleanDone(t, 0)
           \/ /\ same /\ pg.busy = "no" /\ pg.hold
              /\ vm' = Complete(Requeue(vm, s.m), s.m) /\ CleanDone(t, 0)
           \/ /\ same /\ pg.busy = "no" /\ ~pg.hold
              /\ UNCHANGED vm /\ Go(t, [s EXCEPT !.pc = "cluster"]) /\ Quiet

-----------------------------------------------------------------------------
(* vm_pageout_scan: the active queue *)

ActiveBegin_10(t) ==
    /\ t = "pd" /\ Begin(t, {"idle", "abegin"})
    /\ \E shortage \in Shortages :
          Scan(t, [th[t] EXCEPT !.scan = "active", !.left = shortage], "ACTIVE")
    /\ UNCHANGED vm

ActivePage_10(t) ==
    LET s == Skipped(th[t])
        p == s.m
        pg == vm.page[p]
        mapped == RefCount(pg.object) # 0
        act == Aged(pg, ActDelta(pg, mapped))
        v == [vm EXCEPT !.page[p] = [Forget(@, mapped) EXCEPT !.act = act]]
    IN  /\ th[t].pc = "held" /\ s.scan = "active"
        /\ QueuesFree(t, {"INACTIVE"})
        /\ \/ act # 0 /\ vm' = Complete(Requeue(v, p), p) /\ Go(t, s)
           \/ /\ act = 0
              /\ vm' = Settle(Deactivate(Dequeue(v, p), p), p)
              /\ Go(t, [s EXCEPT !.left = @ - 1])
        /\ Quiet

vm_pageout_scan_10(t) ==
    \/ InactiveBegin_10(t) \/ Referenced_10(t)
    \/ TestDirtyStep(t, "test", "unmap10", "decide")
    \/ RemoveAllStep(t, "unmap10", "decide")
    \/ Decide_10(t) \/ CleanStart(t) \/ Vget(t) \/ VnodeRecheck(t)
    \/ ActiveBegin_10(t) \/ ActivePage_10(t)

-----------------------------------------------------------------------------
(* The swap daemon takes pages from a process that is too large.           *)

\* One page of vm_pageout_object_deactivate_pages, under the object's read
\* lock and the page lock.  A shared object's pages are not unmapped.
vm_pageout_object_deactivate_pages(p) ==
    LET pg == vm.page[p]
        fresh == [pg EXCEPT !.pref = FALSE, !.referenced = FALSE]
        delta == pg.pref \/ pg.referenced
        Aging(n) == [vm EXCEPT !.page[p] = [fresh EXCEPT !.act = n]]
        less == Less(pg.act, ActDecline)
        up == Max({pg.act, ActInit})
        more == IF up < ActMax - ActAdvance THEN up + ActAdvance ELSE up
    IN  /\ Interfere
        /\ pg.object # NoObject /\ ~ObjectLocked(pg.object) /\ ~PageLocked(p)
        /\ pg.busy = "no" /\ ~Held(pg) /\ pg.mapped # "no"
        /\ QueuesFree(Anyone, {"ACTIVE", "INACTIVE"})
        /\ \/ /\ pg.queue # "ACTIVE" /\ delta
              /\ vm' = Advance(Settle(Activate(Aging(pg.act), p), p), p, 1)
           \/ /\ pg.queue = "INACTIVE" /\ ~delta
              /\ SetPage(p, RemoveAll(fresh))
           \/ /\ pg.queue = "ACTIVE" /\ ~delta /\ less = 0
              /\ vm' = Settle(Deactivate([vm EXCEPT !.page[p] =
                            [RemoveAll(fresh) EXCEPT !.act = 0]], p), p)
           \/ /\ pg.queue = "ACTIVE" /\ ~delta
              /\ vm' = Complete(Requeue(Aging(less), p), p)
           \/ /\ pg.queue = "ACTIVE" /\ delta
              /\ vm' = Complete(Requeue(Aging(more), p), p)
        /\ OtherUnchanged /\ UNCHANGED << knob, passes >>

\* The largest unshared object first, then the others, until the process is
\* small enough; a process that shall have nothing loses all its mappings.
vm_pageout_map_deactivate_pages ==
    \/ \E p \in Page : vm_pageout_object_deactivate_pages(p)
    \/ /\ Interfere
       /\ \E o \in Object :
             vm' = [vm EXCEPT !.page = [p \in Page |->
                      IF vm.page[p].object = o THEN RemoveAll(vm.page[p]) ELSE vm.page[p]]]
       /\ OtherUnchanged /\ UNCHANGED << knob, passes >>

Scan10(t) ==
    \/ vm_pageout_scan_10(t) \/ vm_pageout_grow_cache(t) \/ vm_pageout_launder_10(t)
    \/ Pick(t) \/ TryObject(t) \/ Take(t) \/ Relock(t)
    \/ vm_pageout_page_lock(t) \/ vm_pageout_fallback_object_lock(t)
    \/ vm_pageout_clean_10(t) \/ vm_pageout_flush_10(t)
=============================================================================
