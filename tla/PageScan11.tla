----------------------------- MODULE PageScan11 -----------------------------
(***************************************************************************)
(* The scans of FreeBSD 11 with the students' FIFO mode                    *)
(* (vm_pageout_test.c; test1.c is the same file without that mode):        *)
(* vm_pageout_scan in thread "pd", vm_pageout_launder in thread "ld".      *)
(***************************************************************************)
EXTENDS MarkerScan

fifo == knob.fifo           \* vm_pagemode # 0

vm_pageout_clean_11(t) == CleanStart(t) \/ CleanVget(t) \/ CleanPage(t)
vm_pageout_cluster(t) == ClusterStart(t) \/ ClusterBack(t) \/ ClusterForward(t)
vm_pageout_flush_11(t) == FlushStart(t) \/ FlushDone(t)

InactiveBegin_11(t) ==
    /\ t = "pd" /\ Begin(t, {"idle"})
    /\ \E n \in Shortages \ {0} :
          Scan(t, [th[t] EXCEPT !.scan = "inactive", !.left = n], "INACTIVE")
    /\ UNCHANGED vm

LaunderBegin_11(t) ==
    /\ t = "ld" /\ Begin(t, {"idle"})
    /\ \E n \in Shortages \ {0}, in_shortfall \in BOOLEAN :
          Scan(t, [th[t] EXCEPT !.scan = "launder", !.left = n,
                                !.shortfall = in_shortfall], "LAUNDRY")
    /\ UNCHANGED vm

\* Where a page goes on that is not in use: a mapped one is tested for being
\* dirty first.
ToTest(s) == IF RefCount(s.object) # 0 THEN "test" ELSE "decide"

\* Under FIFO a reference to an inactive page is not looked at.
Blind(s) == fifo /\ s.scan = "inactive"
ReferencedFifo(t) ==
    LET s == th[t]
    IN  /\ s.pc = "ref" /\ Blind(s)
        /\ Go(t, [s EXCEPT !.pc = IF vm.page[s.m].valid THEN ToTest(s) ELSE "decide"])
        /\ UNCHANGED vm /\ Quiet

\* Invalid pages go.  A referenced page is activated, or requeued if it is
\* unmapped.
Referenced_11(t) ==
    LET s == th[t]
        pg == vm.page[s.m]
        mapped == RefCount(s.object) # 0
        delta == ActDelta(pg, mapped)
        v == [vm EXCEPT !.page[s.m] = Forget(@, mapped)]
    IN  /\ s.pc = "ref" /\ ~Blind(s)
        /\ \/ ~pg.valid /\ UNCHANGED vm /\ Go(t, [s EXCEPT !.pc = "decide"])
           \/ /\ pg.valid
              /\ \/ /\ delta # 0 /\ mapped /\ CanMoveTo(t, "ACTIVE")
                    /\ vm' = Advance(Settle(Activate(v, s.m), s.m), s.m, delta + ActAdvance)
                    /\ Go(t, [Dropped(s) EXCEPT
                          !.left = IF s.scan = "launder" /\ ~s.shortfall THEN @ - 1 ELSE @])
                 \/ /\ delta # 0 /\ ~mapped /\ ~obj[s.object].dead
                    /\ CanMoveTo(t, s.queue)
                    /\ vm' = Complete(Enqueue(v, s.m, s.queue, "tail"), s.m)
                    /\ Go(t, Dropped(s))
                 \/ /\ delta = 0 \/ (~mapped /\ obj[s.object].dead)
                    /\ vm' = v /\ Go(t, [s EXCEPT !.pc = ToTest(s)])
        /\ Quiet

\* Free a clean page; launder a dirty inactive one, clean one of the laundry.
Decide_11(t) ==
    LET s == th[t]
        pg == vm.page[s.m]
        keep == obj[s.object].type = "SWAP" /\ knob.noswap
    IN  /\ s.pc = "decide"
        /\ \/ /\ ~pg.valid \/ ~pg.dirty
              /\ CanMoveTo(t, "NONE")
              /\ vm' = Free(vm, s.m)
              /\ Go(t, [Dropped(s) EXCEPT !.left = IF s.scan = "inactive" THEN @ - 1 ELSE @])
           \/ /\ pg.valid /\ pg.dirty /\ obj[s.object].dead
              /\ UNCHANGED vm /\ Go(t, Dropped(s))
           \/ /\ pg.valid /\ pg.dirty /\ ~obj[s.object].dead
              /\ \/ /\ s.scan = "inactive" /\ CanMoveTo(t, "LAUNDRY")
                    /\ vm' = Settle(Launder(vm, s.m), s.m) /\ Go(t, Dropped(s))
                 \/ /\ s.scan = "launder" /\ keep /\ CanMoveTo(t, "LAUNDRY")
                    /\ vm' = Complete(Requeue(vm, s.m), s.m) /\ Go(t, Dropped(s))
                 \/ /\ s.scan = "launder" /\ ~keep
                    /\ UNCHANGED vm /\ Go(t, [s EXCEPT !.pc = "clean"])
        /\ Quiet

\* The active queue: all of it under a shortage, else what the update period
\* asks for, which is nothing under FIFO.
ActiveBegin_11(t) ==
    /\ t = "pd" /\ Begin(t, {"idle", "abegin"})
    /\ \E shortage \in Shortages,
          min_scan \in IF fifo THEN {0} ELSE 0 .. vm.cnt["ACTIVE"] :
          Scan(t, [th[t] EXCEPT !.scan = "active", !.minscan = min_scan,
                                !.left = shortage * act_scan_laundry_weight], "ACTIVE")
    /\ UNCHANGED vm

\* Under FIFO a page of the active queue leaves it when the scan comes to it.
ActiveFifo(t) ==
    LET s == Skipped(th[t])
        pg == vm.page[s.m]
        mapped == RefCount(pg.object) # 0
        act == Aged(pg, ActDelta(pg, mapped))
        v == [vm EXCEPT !.page[s.m] = [Forget(@, mapped) EXCEPT !.act = act]]
    IN  /\ th[t].pc = "held" /\ s.scan = "active" /\ fifo
        /\ QueuesFree(t, {"INACTIVE", "LAUNDRY"})
        /\ vm' = Settle(Deactivate(Dequeue(v, s.m), s.m), s.m) /\ Go(t, s)
        /\ Quiet

\* Age the page.  At act_count 0 it leaves the queue.
ActivePage_11(t) ==
    LET s == Skipped(th[t])
        p == s.m
        pg == vm.page[p]
        mapped == RefCount(pg.object) # 0
        act == Aged(pg, ActDelta(pg, mapped))
        v == [vm EXCEPT !.page[p] = [Forget(@, mapped) EXCEPT !.act = act]]
    IN  /\ th[t].pc = "held" /\ s.scan = "active" /\ ~fifo
        /\ QueuesFree(t, {"INACTIVE", "LAUNDRY"})
        /\ \/ act # 0 /\ vm' = Complete(Requeue(v, p), p) /\ Go(t, s)
           \/ /\ act = 0 /\ s.left = 0
              /\ vm' = Settle(Deactivate(Dequeue(v, p), p), p) /\ Go(t, s)
           \/ /\ act = 0 /\ s.left > 0 /\ ~pg.dirty
              /\ vm' = Settle(Deactivate(Dequeue(v, p), p), p)
              /\ Go(t, [s EXCEPT !.left = Less(@, act_scan_laundry_weight)])
           \/ /\ act = 0 /\ s.left > 0 /\ pg.dirty
              /\ vm' = Settle(Launder(Dequeue(v, p), p), p)
              /\ Go(t, [s EXCEPT !.left = Less(@, 1)])
        /\ Quiet

vm_pageout_scan_11(t) ==
    \/ InactiveBegin_11(t) \/ ReferencedFifo(t) \/ Referenced_11(t) \/ Decide_11(t)
    \/ ActiveBegin_11(t) \/ ActiveFifo(t) \/ ActivePage_11(t)
    \/ TestDirtyStep(t, "test", "unmap", "decide")
    \/ RemoveAllStep(t, "unmap", "decide")
vm_pageout_launder_11(t) == LaunderBegin_11(t)

Scan11(t) ==
    \/ vm_pageout_scan_11(t) \/ vm_pageout_launder_11(t)
    \/ Pick(t) \/ TryObject(t) \/ Take(t) \/ Relock(t)
    \/ vm_pageout_page_lock(t) \/ vm_pageout_fallback_object_lock(t)
    \/ vm_pageout_clean_11(t) \/ vm_pageout_cluster(t) \/ vm_pageout_flush_11(t)
=============================================================================
