---------------------------- MODULE PageControl -----------------------------
(***************************************************************************)
(* How a page daemon is driven: processes that allocate, run low and wake  *)
(* it, its worker's loop, and from version 11 on the laundry thread it     *)
(* posts requests to.  A scan is what PageDaemons checks in detail; here   *)
(* it moves some of the pages it could.  One memory domain.                *)
(***************************************************************************)
EXTENDS Thresholds, FiniteSetsExt

CONSTANTS
    Proc,           \* processes that allocate and free pages
    TotalPages,
    FreeMin, FreeTarget, WakeupThresh,      \* vmd_free_min, ... of the domain
    BackgroundTarget, BackgroundMax, BackgroundRate,    \* in pages
    InactiveTarget, LaundryWeight,          \* vmd_inactive_target, act_scan_laundry_weight
    LaunderCycles,  \* VM_LAUNDER_RATE / VM_INACT_SCAN_RATE
    PidOutputs,     \* what pidctrl_daemon may return
    MaxAllocs,      \* bound: allocations
    MaxFreed        \* bound: clean pages freed, or wakeups, that are remembered

ASSUME ControlAssumption ==
    /\ {TotalPages, FreeMin, FreeTarget, WakeupThresh, BackgroundTarget, BackgroundMax,
        BackgroundRate, InactiveTarget, LaundryWeight, LaunderCycles, MaxAllocs, MaxFreed} \subseteq Nat
    /\ PidOutputs \subseteq Nat
    /\ FreeMin <= WakeupThresh /\ WakeupThresh <= FreeTarget /\ FreeTarget <= TotalPages
    /\ FreeMin < FreeTarget /\ LaundryWeight > 0 /\ LaunderCycles > 0

VARIABLES
    version,        \* 10, 11 or 12
    free, clean, dirty,     \* free pages; inactive, clean; in the laundry
    wanted,         \* vm_pageout_wanted, whether it is set
    needed,         \* vm_pages_needed of versions 10 and 11
    deficit,        \* vm_pageout_deficit
    request,        \* vmd_laundry_request
    freed,          \* vmd_clean_pages_freed, in version 11 the count v_pdwakeups
    al,             \* where each process is
    wk, lw,         \* the worker and the laundry thread
    allocs          \* allocations left

pageVars == << free, clean, dirty >>
askVars == << wanted, needed, deficit >>
laundryVars == << request, freed, lw >>
ctlVars == << version, pageVars, askVars, laundryVars, al, wk, allocs >>

vm_paging_target == FreeTarget - free
vm_paging_needed == free < WakeupThresh
vm_page_count_min == free < FreeMin
used == TotalPages - free - clean - dirty
Capped(n) == IF n > MaxFreed THEN MaxFreed ELSE n
Least(a, b) == IF a < b THEN a ELSE b
AtLeast0(n) == IF n > 0 THEN n ELSE 0

ControlInit(ver) ==
    /\ free \in FreeMin .. TotalPages /\ clean = 0 /\ dirty = 0
    /\ wanted = 0 /\ needed = FALSE /\ deficit = 0
    /\ request = "IDLE" /\ freed = 0
    /\ al = [a \in Proc |-> "run"]
    /\ wk = [pc |-> "top", pass |-> 0, met |-> TRUE, start |-> 0, left |-> 0]
    \* last_target is not initialized.
    /\ \E garbage \in (IF ver = 12 THEN {0, BackgroundMax + BackgroundTarget} ELSE {0}) :
          lw = [pc |-> IF ver = 10 THEN "none" ELSE "decide", target |-> 0, launder |-> 0,
                shortfall |-> 0, cycle |-> 0, in |-> FALSE, last |-> garbage, nfreed |-> 0]
    /\ allocs = MaxAllocs

GoAl(a, pc) == al' = [al EXCEPT ![a] = pc]
\* wakeup(&v_free_count)
WakeWaiters(who) == [a \in Proc |-> IF who[a] = "asleep" THEN "run" ELSE who[a]]
WorkerWoken(w) ==
    [w EXCEPT !.pc = IF @ = "asleep" THEN "woken" ELSE @]

\* vm_page_free, outside: the last free page a waiter needs wakes it.
FreePages(n) ==
    LET wake == version < 12 /\ needed /\ free + n >= FreeMin IN
    /\ free' = free + n
    /\ needed' = (needed /\ ~wake)
    /\ al' = IF wake THEN WakeWaiters(al) ELSE al

-----------------------------------------------------------------------------
(* Processes.  The allocator is vm_page.c, what it calls is here. *)

WorkerLocked == wk.pc \in {"test", "sleep"}

Alloc(a) ==
    /\ al[a] = "run" /\ allocs > 0 /\ free > 0 /\ ~vm_page_count_min
    /\ free' = free - 1 /\ allocs' = allocs - 1
    /\ GoAl(a, IF free - 1 < WakeupThresh THEN "wake" ELSE "run")
    /\ UNCHANGED << version, clean, dirty, askVars, laundryVars, wk >>

\* Too few pages: version 12 asks and tries again, the others wait.
AllocFails(a) ==
    /\ al[a] = "run" /\ vm_page_count_min
    /\ deficit' = 1
    /\ GoAl(a, IF version = 12 THEN "wake" ELSE "wait")
    /\ UNCHANGED << version, pageVars, wanted, needed, laundryVars, wk, allocs >>

\* Pages are freed, or come to be inactive, outside the daemon.
Release(a) ==
    /\ al[a] = "run" /\ used > 0 /\ allocs > 0
    /\ allocs' = allocs - 1
    /\ \/ FreePages(1) /\ UNCHANGED << clean, dirty >>
       \/ clean' = clean + 1 /\ UNCHANGED << free, dirty, needed, al >>
       \/ dirty' = dirty + 1 /\ UNCHANGED << free, clean, needed, al >>
    /\ UNCHANGED << version, wanted, deficit, laundryVars, wk >>

\* pagedaemon_wakeup: the first one to ask takes the lock and notifies.  Of
\* the counter it only matters whether it is zero.
Wake(a) ==
    /\ al[a] = "wake" /\ version = 12
    /\ wanted' = 1
    /\ GoAl(a, IF wanted = 0 THEN "notify" ELSE "run")
    /\ UNCHANGED << version, pageVars, needed, deficit, laundryVars, wk, allocs >>
Notify(a) ==
    /\ al[a] = "notify" /\ version = 12 /\ ~WorkerLocked
    /\ wanted' = 1
    /\ wk' = WorkerWoken(wk)
    /\ GoAl(a, "run")
    /\ UNCHANGED << version, pageVars, needed, deficit, laundryVars, allocs >>

\* pagedaemon_wakeup without a lock, in version 10 on vm_pages_needed.
Ask(n) == IF version = 11 THEN wanted' = 1 /\ UNCHANGED needed
          ELSE needed' = TRUE /\ UNCHANGED wanted
Asked == IF version = 11 THEN wanted = 1 ELSE needed
Wakeup(a) ==
    /\ al[a] = "wake" /\ version < 12
    /\ GoAl(a, IF Asked THEN "run" ELSE "notify")
    /\ UNCHANGED << version, pageVars, askVars, laundryVars, wk, allocs >>
SetAndNotify(a) ==
    /\ al[a] = "notify" /\ version < 12
    /\ Ask(1)
    /\ wk' = WorkerWoken(wk)
    /\ GoAl(a, "run")
    /\ UNCHANGED << version, pageVars, deficit, laundryVars, allocs >>

\* pagedaemon_wait, called with the free queues locked; in version 10 it is
\* the caller's.  The wakeup may be spurious: an advisory one is easily lost.
pagedaemon_wait(a) ==
    /\ al[a] = "wait" /\ version < 12 /\ ~WorkerLocked
    /\ IF vm_page_count_min
       THEN /\ wk' = IF (version = 11 /\ wanted = 0) \/ ~needed THEN WorkerWoken(wk) ELSE wk
            /\ wanted' = IF version = 11 THEN 1 ELSE wanted
            /\ needed' = TRUE
            /\ GoAl(a, "asleep")
       ELSE GoAl(a, "run") /\ UNCHANGED << wanted, needed, wk >>
    /\ UNCHANGED << version, pageVars, deficit, laundryVars, allocs >>

-----------------------------------------------------------------------------
(* vm_pageout_worker *)

Workers == UNCHANGED << version, allocs >>
Keep == UNCHANGED << pageVars, deficit, laundryVars >> /\ Workers

\* Mutant: the limit is checked before wanted is cleared.
CheckThenClear ==
    /\ version = 12
    /\ \/ wk.pc = "top" /\ UNCHANGED wanted
          /\ wk' = [wk EXCEPT !.pc = IF vm_paging_needed THEN "woken" ELSE "clear"]
       \/ wk.pc = "clear" /\ wanted' = 0 /\ wk' = [wk EXCEPT !.pc = "sleep"]
    /\ UNCHANGED << needed, al >> /\ Keep

\* Version 12: clear wanted, and only then look whether to run again.
ClearWanted ==
    /\ version = 12 /\ wk.pc = "top"
    /\ wanted' = 0
    /\ wk' = [wk EXCEPT !.pc = "test"]
    /\ UNCHANGED << needed, al >> /\ Keep
TestNeeded ==
    /\ version = 12 /\ wk.pc = "test"
    /\ wk' = [wk EXCEPT !.pc = IF vm_paging_needed THEN "woken" ELSE "asleep"]
    /\ UNCHANGED << askVars, al >> /\ Keep

\* Version 11: wake the waiters if there are pages again, forget the request
\* if the scan met its target.
ClearIfMet ==
    /\ version = 11 /\ wk.pc = "top"
    /\ IF needed /\ ~vm_page_count_min
       THEN needed' = FALSE /\ al' = WakeWaiters(al)
       ELSE UNCHANGED << needed, al >>
    /\ wanted' = IF wk.met THEN 0 ELSE wanted
    /\ wk' = [wk EXCEPT !.pc = "test"]
    /\ Keep
TestWanted ==
    /\ version = 11 /\ wk.pc = "test"
    /\ wk' = CASE wanted = 1 -> [wk EXCEPT !.pc = "again", !.pass = 1]
               [] wanted = 0 /\ needed -> [wk EXCEPT !.pc = "again", !.pass = IF @ = 0 THEN 1 ELSE @]
               [] OTHER -> [wk EXCEPT !.pc = "sleep"]
    /\ UNCHANGED << askVars, al >> /\ Keep

\* Version 10: the same on vm_pages_needed alone.
ClearNeeded ==
    /\ version = 10 /\ wk.pc = "top"
    /\ needed' = (needed /\ (vm_page_count_min \/ vm_paging_needed))
    /\ al' = IF needed /\ ~vm_page_count_min THEN WakeWaiters(al) ELSE al
    /\ wk' = [wk EXCEPT !.pc = "test"]
    /\ UNCHANGED wanted /\ Keep
TestPass ==
    /\ version = 10 /\ wk.pc = "test"
    /\ wk' = CASE needed /\ wk.pass <= 1 -> [wk EXCEPT !.pc = "again"]
               [] needed /\ wk.pass > 1 -> [wk EXCEPT !.pc = "sleep"]
               [] ~needed -> [wk EXCEPT !.pc = "sleep", !.pass = 0]
    /\ UNCHANGED << askVars, al >> /\ Keep

\* Between the test and the sleep a wakeup without the lock is lost.
Sleep ==
    /\ wk.pc = "sleep"
    /\ wk' = [wk EXCEPT !.pc = "asleep"]
    /\ UNCHANGED << askVars, al >> /\ Keep
Timeout ==
    /\ wk.pc = "asleep"
    /\ wk' = [wk EXCEPT !.pc = "timeout"]
    /\ UNCHANGED << askVars, al >> /\ Keep

\* Begin the next scan.  pidctrl_daemon of version 12, which is outside, asks
\* for any number of pages; vm_pageout_lowmem may find some in the caches.
Scan12(s) ==
    /\ version = 12 /\ wk.pc \in {"woken", "timeout"}
    /\ wanted' = 1
    /\ \E found \in 0 .. Least(1, used) :
          /\ free' = free + (IF s > 0 THEN found ELSE 0)
          /\ wk' = [wk EXCEPT !.pc = IF s > 0 THEN "scan" ELSE "active",
                              !.start = AtLeast0(s - found) + deficit,
                              !.left = AtLeast0(s - found) + deficit]
    /\ deficit' = IF s > 0 THEN 0 ELSE deficit
    /\ UNCHANGED << clean, dirty, needed, al, laundryVars >> /\ Workers

\* Versions 10 and 11: the paging target and the deficit, at level 1 and above;
\* version 10 scans for them at every level.
StartOfScan(pass) == IF version = 10 \/ pass > 0 THEN vm_paging_target + deficit ELSE 0
\* Only a sleep that a wakeup has ended counts in v_pdwakeups.
Scan11 ==
    LET pass == CASE version = 11 -> IF wk.pc = "timeout" THEN 0 ELSE 1
                  [] version = 10 -> IF needed THEN Least(wk.pass + 1, 2) ELSE wk.pass
    IN  /\ version < 12 /\ wk.pc \in {"again", "woken", "timeout"}
        /\ wk' = [wk EXCEPT !.pc = "scan", !.pass = pass,
                            !.start = StartOfScan(pass), !.left = StartOfScan(pass)]
        /\ deficit' = IF version = 10 \/ pass > 0 THEN 0 ELSE deficit
        /\ freed' = IF version = 11 /\ wk.pc = "woken" THEN Capped(freed + 1) ELSE freed
        /\ UNCHANGED << pageVars, wanted, needed, al, request, lw >> /\ Workers

\* The inactive queue: n pages are freed, k turn out to be modified.  Without a
\* laundry thread w of them are written at once.
ScanInactive(n, k, w) ==
    /\ wk.pc = "scan"
    /\ n <= Least(clean, AtLeast0(wk.left)) /\ k <= clean - n
    /\ w <= IF version = 10 /\ wk.start > 0 THEN dirty ELSE 0
    /\ FreePages(n)
    /\ clean' = clean - n - k + w /\ dirty' = dirty + k - w
    /\ wk' = IF version = 10 THEN [wk EXCEPT !.pc = "active", !.start = 0, !.left = 0]
             ELSE [wk EXCEPT !.pc = "post", !.left = @ - n]
    /\ UNCHANGED << wanted, deficit, laundryVars >> /\ Workers

\* Tell the laundry thread, unless it has a request it has not yet taken up.
Posted(left) == IF left > 0 THEN "SHORTFALL" ELSE "BACKGROUND"
CanPost(swapdev) == request = "IDLE" /\ wk.start > 0 /\ (version = 11 \/ dirty > 0 \/ swapdev)

\* Mutant: the request is posted and nobody is told.
PostQuietly(swapdev) ==
    /\ wk.pc = "post"
    /\ request' = IF CanPost(swapdev) THEN Posted(wk.left) ELSE request
    /\ freed' = IF version = 12 THEN Capped(freed + wk.start - wk.left) ELSE freed
    /\ wk' = [wk EXCEPT !.pc = "active", !.start = 0, !.left = 0,
                        !.met = version = 12 \/ wk.left <= 0]
    /\ UNCHANGED << pageVars, askVars, lw, al >> /\ Workers

\* swapdev: a swap device is configured just now.  In version 12 target_met only
\* lengthens a pause, so it is kept for version 11 alone.
PostRequest(swapdev) ==
    /\ wk.pc = "post"
    /\ request' = IF CanPost(swapdev) THEN Posted(wk.left) ELSE request
    /\ lw' = IF CanPost(swapdev) /\ lw.pc = "asleep" THEN [lw EXCEPT !.pc = "take"] ELSE lw
    /\ freed' = IF version = 12 THEN Capped(freed + wk.start - wk.left) ELSE freed
    /\ wk' = [wk EXCEPT !.pc = "active", !.start = 0, !.left = 0,
                        !.met = version = 12 \/ wk.left <= 0]
    /\ UNCHANGED << pageVars, askVars, al >> /\ Workers

\* The active queue, if pages of it are wanted.
vm_pageout_active_target ==
    (InactiveTarget + vm_paging_target - (clean + dirty \div LaundryWeight)) * LaundryWeight
ScanActive(n, k) ==
    /\ wk.pc = "active"
    /\ n + k <= used
    /\ vm_pageout_active_target > 0 \/ n + k = 0
    /\ clean' = clean + n /\ dirty' = dirty + k
    /\ wk' = [wk EXCEPT !.pc = "top"]
    /\ UNCHANGED << free, askVars, al, laundryVars >> /\ Workers

-----------------------------------------------------------------------------
(* vm_pageout_laundry_worker *)

Thread == UNCHANGED << version, free, askVars, al, wk, allocs >>

\* Decide how many pages to launder, and why.  In version 12 what the daemon
\* freed since the last laundering lowers the bar for a background laundering,
\* in version 11 how often it was woken.
howmany(x, y) == (x + y - 1) \div y
BackgroundDue(l) ==
    LET times == IF version = 12 THEN isqrt(howmany(l.nfreed + 1, FreeTarget - FreeMin))
                 ELSE isqrt(l.nfreed)
    IN  l.target = 0 /\ (version = 12 \/ l.nfreed > 0) /\ dirty * times >= free + clean

Background(l0) ==
    LET due == IF BackgroundDue(l0) THEN [l0 EXCEPT !.target = BackgroundTarget] ELSE l0
        l == CASE due.target > 0 /\ due.nfreed > 0 ->
                    [due EXCEPT !.nfreed = 0, !.last = due.target]
               [] due.target > 0 /\ due.nfreed = 0 /\ due.last - due.target >= BackgroundMax ->
                    [due EXCEPT !.target = 0]
               [] OTHER -> due
    IN  [l EXCEPT !.launder = IF due.target > 0 THEN Least(BackgroundRate, l.target) ELSE 0]

Shortfall(l) ==
    [l EXCEPT !.launder = l.target \div l.cycle, !.cycle = @ - 1,
              !.nfreed = IF version = 11 THEN 0 ELSE @]

Decide ==
    LET l == IF version = 12 THEN lw ELSE [lw EXCEPT !.nfreed = Capped(@ + freed)]
        next == CASE l.shortfall > 0 ->
                       Shortfall([l EXCEPT !.in = TRUE, !.cycle = LaunderCycles,
                                           !.target = l.shortfall])
                  [] l.shortfall <= 0 /\ ~l.in -> Background(l)
                  [] l.shortfall <= 0 /\ l.in /\ (l.cycle = 0 \/ vm_paging_target <= 0) ->
                       Background([l EXCEPT !.in = FALSE, !.target = 0])
                  [] OTHER -> Shortfall(l)
    IN  /\ lw.pc = "decide"
        /\ lw' = [next EXCEPT !.shortfall = 0,
                              !.pc = IF next.launder > 0 THEN "launder" ELSE "check"]
        /\ freed' = IF version = 12 THEN freed ELSE 0
        /\ UNCHANGED << clean, dirty, request >> /\ Thread

\* vm_pageout_launder: n pages become clean, by clustering even one more.
Launder(n) ==
    /\ lw.pc = "launder" /\ n <= Least(dirty, lw.launder + 1)
    /\ clean' = clean + n /\ dirty' = dirty - n
    /\ lw' = [lw EXCEPT !.pc = "check", !.launder = 0, !.target = @ - Least(n, @)]
    /\ UNCHANGED << request, freed >> /\ Thread

\* Take up a request, a shortfall even during a background laundering.
Taken(l) ==
    LET start == request = "SHORTFALL" /\ (~l.in \/ l.cycle = 0) IN
    [l EXCEPT !.pc = "decide", !.target = IF start THEN 0 ELSE @,
              !.shortfall = IF start THEN vm_paging_target + deficit ELSE 0,
              !.nfreed = IF version = 12 THEN Capped(@ + freed) ELSE @]
TakeRequest ==
    /\ lw' = Taken(lw)
    /\ request' = IF lw'.target = 0 THEN "IDLE" ELSE request
    /\ freed' = IF version = 12 THEN 0 ELSE freed

\* Under the queue lock, which the sleep gives up: sleep if there is nothing to
\* do.
CheckRequest ==
    /\ \/ lw.pc = "check" /\ (lw.target # 0 \/ request # "IDLE") /\ TakeRequest
       \/ lw.pc = "check" /\ lw.target = 0 /\ request = "IDLE"
             /\ lw' = [lw EXCEPT !.pc = "asleep"] /\ UNCHANGED << request, freed >>
       \/ lw.pc = "take" /\ TakeRequest
    /\ UNCHANGED << clean, dirty >> /\ Thread

-----------------------------------------------------------------------------
Worker ==
    \/ ClearWanted \/ TestNeeded \/ ClearIfMet \/ TestWanted \/ ClearNeeded \/ TestPass
    \/ Sleep \/ Timeout \/ Scan11 \/ \E s \in PidOutputs : Scan12(s)
    \/ \E n \in 0 .. TotalPages, k, w \in 0 .. 1 : ScanInactive(n, k, w)
    \/ \E n, k \in 0 .. 1 : ScanActive(n, k)
    \/ \E swapdev \in BOOLEAN : PostRequest(swapdev)
LaundryWorker ==
    Decide \/ CheckRequest \/ \E n \in 0 .. TotalPages : Launder(n)
Caller(a) ==
    Wake(a) \/ Notify(a) \/ Wakeup(a) \/ SetAndNotify(a) \/ pagedaemon_wait(a)

ControlNext ==
    \/ Worker \/ LaundryWorker
    \/ \E a \in Proc : Alloc(a) \/ AllocFails(a) \/ Release(a) \/ Caller(a)

-----------------------------------------------------------------------------
(* Properties *)

\* Every page is counted once; the assertions of the laundry thread hold: its
\* target and its cycle are never negative.
ControlTypeOK ==
    /\ {free, clean, dirty, used} \subseteq 0 .. TotalPages
    /\ wanted \in 0 .. 1 /\ needed \in BOOLEAN /\ deficit \in 0 .. 1
    /\ request \in {"IDLE", "BACKGROUND", "SHORTFALL"} /\ freed \in 0 .. MaxFreed
    /\ lw.target >= 0 /\ lw.cycle >= 0 /\ lw.launder >= 0

\* Nobody sleeps on work.  In version 12, when pages are needed the worker does
\* not sleep unless somebody is about to wake it: "We need to clear wanted before
\* we check the limits.  This prevents races with wakers" (vm_pageout.c:1912).  In
\* versions 10 and 11 who waits for pages is known to the daemon, and in version
\* 11 it is then not asleep (pagedaemon_wait and the worker agree on
\* vm_pages_needed under the lock of the free queues).  The laundry thread does
\* not sleep on a request.
NoLostWakeup ==
    /\ version = 12 /\ wk.pc = "asleep" /\ vm_paging_needed =>
          \E a \in Proc : al[a] \in {"wake", "notify"}
    /\ version < 12 /\ (\E a \in Proc : al[a] = "asleep") => needed
    /\ version = 11 /\ needed => wk.pc \notin {"sleep", "asleep"}
    /\ lw.pc = "asleep" => request = "IDLE"

\* Whoever is short of pages, while some could be reclaimed; this must not last.
Short(a) ==
    /\ IF version = 12 THEN vm_page_count_min ELSE al[a] = "asleep"
    /\ clean + dirty > 0
=============================================================================
