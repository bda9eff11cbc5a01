------------------------- MODULE PageControlsProofs -------------------------
(***************************************************************************)
(* What is proved of the parts of PageControls: no thread of a page daemon *)
(* sleeps while there is work for it, and the out-of-memory killer counts  *)
(* its votes and its holds, whatever the number of pages, of domains and   *)
(* of processes.                                                           *)
(***************************************************************************)
EXTENDS PageControls, FiniteSetTheorems, SequenceTheorems,
        WellFoundedInduction, TLAPS

-----------------------------------------------------------------------------
(* Facts about numbers. *)

LEMMA DivNat ==
    ASSUME NEW x \in Nat, NEW y \in Nat, y > 0 PROVE x \div y \in Nat /\ x \div y <= x
OBVIOUS

\* A set of natural numbers that is not empty has a least element.
LEMMA LeastElement ==
    ASSUME NEW T \in SUBSET Nat, T # {}
    PROVE  \E x \in T : \A y \in T : x <= y
<1> DEFINE R == OpToRel(<, Nat)
<1>1. IsWellFoundedOn(R, Nat)
  BY NatLessThanWellFounded
<1>2. \A x, y \in Nat : y < x => << y, x >> \in R
  BY Zenon DEF OpToRel
<1> HIDE DEF R
<1>3. PICK x \in T : \A y \in T : ~ (<< y, x >> \in R)
  BY <1>1, WFMin
<1>4. \A y \in T : ~ (y < x)
  BY <1>2, <1>3
<1> QED BY <1>4

-----------------------------------------------------------------------------
Places == {"run", "wake", "notify", "wait", "asleep"}
WorkerState ==
    [pc : {"top", "test", "sleep", "asleep", "timeout", "again", "woken", "scan", "post",
           "active"},
     pass : Nat, met : BOOLEAN, start : Int, left : Int]
ThreadState ==
    [pc : {"none", "decide", "launder", "check", "take", "asleep"}, target : Nat,
     launder : Nat, shortfall : Int, cycle : Nat, in : BOOLEAN, last : Int, nfreed : Nat]

-----------------------------------------------------------------------------
(* The worker and the laundry thread. *)

\* What the assertions of ControlTypeOK rest on: what is left of a scan is never
\* more than it began with, so that the pages freed are counted upwards.
ControlTypes ==
    /\ version \in {10, 11, 12}
    /\ free \in Nat /\ clean \in Nat /\ dirty \in Nat
    /\ free + clean + dirty <= TotalPages
    /\ wanted \in 0 .. 1 /\ needed \in BOOLEAN /\ deficit \in 0 .. 1
    /\ request \in {"IDLE", "BACKGROUND", "SHORTFALL"} /\ freed \in 0 .. MaxFreed
    /\ al \in [Proc -> Places] /\ allocs \in Nat
    /\ wk \in WorkerState /\ wk.left <= wk.start
    /\ lw \in ThreadState

\* From the moment the worker has cleared wanted until it runs again, whoever
\* set it is still to notify the worker.
NotifierComes == version = 12 =>
    /\ wk.pc # "sleep"
    /\ wk.pc \in {"test", "asleep"} /\ wanted # 0 => \E a \in Proc : al[a] = "notify"

ControlInv == ControlTypes /\ NotifierComes /\ NoLostWakeup

-----------------------------------------------------------------------------
(* The out-of-memory killer. *)

Measuring == {"measure", "compare"}
Killing   == {"walk"} \cup Measuring
DomState ==
    [pc : {"scan", "vote", "unvote"} \cup Killing, oom : BOOLEAN, seq : 0 .. OomSeq,
     cur : Nat, big : Nat, bigsize : Nat, size : Nat]
ProcState ==
    [size : Nat, protected : BOOLEAN, alive : BOOLEAN, hold : Nat,
     lock : {"no", "daemon", "other"}, map : BOOLEAN, killed : BOOLEAN]

OomTypes ==
    /\ version \in {10, 11, 12} /\ domains \subseteq Domain /\ vote \in Int
    /\ dom \in [Domain -> DomState] /\ proc \in Seq(ProcState)
    /\ hopeless \in BOOLEAN /\ exits \in Nat

\* Where a daemon is tells whether its vote is in, and what it holds.
Settled(s) ==
    /\ s.pc \in {"vote"} \cup Killing => s.oom
    /\ s.pc = "unvote" => ~s.oom
    /\ s.pc \notin Killing => s.big = 0
    /\ s.big \in 0 .. Len(proc)
    /\ s.pc \in Measuring => s.cur \in 1 .. Len(proc)
Daemons == \A d \in Domain : Settled(dom[d])

Voted == {d \in domains : dom[d].oom /\ dom[d].pc # "vote"}
Going == {d \in domains : dom[d].pc = "unvote"}
Votes == vote = Cardinality(Voted) + Cardinality(Going)

\* Version 10 does not hold processes, but who is locked is used once only.
HeldAs(q, uses) ==
    /\ uses > 0 => q.alive
    /\ IF version = 10
       THEN q.hold = 0 /\ uses <= 1 /\ (q.lock = "daemon" <=> uses > 0)
       ELSE q.hold = uses
Held == \A p \in 1 .. Len(proc) : HeldAs(proc[p], Oom!Uses(p))

OomInv == OomTypes /\ Daemons /\ Votes /\ Held

-----------------------------------------------------------------------------
(* The worker and the laundry thread: processes. *)

LEMMA ControlStart == Init => ControlInv
<1> SUFFICES ASSUME Init PROVE ControlInv
  OBVIOUS
<1>1. version \in {10, 11, 12}
  BY DEF Init
<1>2. \E v \in {10, 11, 12} : ControlInit(v)
  BY <1>1 DEF Init
<1>3. ControlTypes
  <2>1. PICK v \in {10, 11, 12} : ControlInit(v)
    BY <1>2
  <2>2. wk \in WorkerState /\ wk.left <= wk.start
    BY <2>1 DEF ControlInit, WorkerState
  <2>3. lw \in ThreadState
    BY <2>1, ControlAssumption DEF ControlInit, ThreadState
  <2>4. al \in [Proc -> Places]
    BY <2>1 DEF ControlInit, Places
  <2>5. /\ free \in Nat /\ clean \in Nat /\ dirty \in Nat /\ free + clean + dirty <= TotalPages
        /\ freed \in 0 .. MaxFreed /\ allocs \in Nat
    BY <2>1, ControlAssumption DEF ControlInit
  <2>6. needed \in BOOLEAN
    BY <2>1 DEF ControlInit
  <2>7. wanted = 0 /\ deficit = 0 /\ request = "IDLE"
    BY <2>1 DEF ControlInit
  <2> QED BY <1>1, <2>2, <2>3, <2>4, <2>5, <2>6, <2>7 DEF ControlTypes
<1>4. NotifierComes /\ NoLostWakeup
  BY <1>2 DEF NotifierComes, NoLostWakeup, ControlInit
<1> QED BY <1>3, <1>4 DEF ControlInv

LEMMA ControlStutter == ControlInv /\ UNCHANGED ctlVars => ControlInv'
BY DEF ControlInv, ControlTypes, NotifierComes, NoLostWakeup, ctlVars, pageVars, askVars,
       laundryVars, vm_paging_needed

\* The places of the processes are only ever changed one at a time, or by
\* waking all that wait.
LEMMA PlacesKept ==
    ASSUME ControlInv, NEW a \in Proc, NEW p \in Places
    PROVE  [al EXCEPT ![a] = p] \in [Proc -> Places] /\ WakeWaiters(al) \in [Proc -> Places]
BY DEF ControlInv, ControlTypes, WakeWaiters, Places

LEMMA WokenWorker == ASSUME NEW w \in WorkerState PROVE
    /\ WorkerWoken(w) \in WorkerState
    /\ WorkerWoken(w).start = w.start /\ WorkerWoken(w).left = w.left
    /\ WorkerWoken(w).pc = IF w.pc = "asleep" THEN "woken" ELSE w.pc
BY DEF WorkerWoken, WorkerState

LEMMA AllocStep ==
    ASSUME ControlInv, NEW a \in Proc, Alloc(a) \/ AllocFails(a) PROVE ControlInv'
<1> USE DEF ControlInv
<1>1. CASE Alloc(a)
  <2>1. ControlTypes'
    BY <1>1, PlacesKept, ControlAssumption
    DEF Alloc, ControlTypes, GoAl, Places, vm_page_count_min, askVars, laundryVars
  <2>2. NotifierComes'
    BY <1>1 DEF Alloc, NotifierComes, GoAl, askVars, ControlTypes
  <2>3. NoLostWakeup'
    BY <1>1, ControlAssumption DEF Alloc, NoLostWakeup, GoAl, askVars, laundryVars, ControlTypes,
           vm_paging_needed, vm_page_count_min
  <2> QED BY <2>1, <2>2, <2>3
<1>2. CASE AllocFails(a)
  <2>1. ControlTypes'
    BY <1>2, PlacesKept, ControlAssumption
    DEF AllocFails, ControlTypes, GoAl, Places, pageVars, laundryVars
  <2>2. NotifierComes'
    BY <1>2 DEF AllocFails, NotifierComes, GoAl, ControlTypes
  <2>3. NoLostWakeup'
    BY <1>2 DEF AllocFails, NoLostWakeup, GoAl, pageVars, laundryVars, ControlTypes, vm_paging_needed
  <2> QED BY <2>1, <2>2, <2>3
<1> QED BY <1>1, <1>2

\* More free pages, and who waits for them is woken.
LEMMA FreePagesStep ==
    ASSUME ControlInv, NEW n \in Nat, FreePages(n), UNCHANGED << version, wk, lw, request, wanted >>
    PROVE  /\ free' = free + n /\ needed' \in BOOLEAN /\ al' \in [Proc -> Places]
           /\ NotifierComes' /\ NoLostWakeup'
<1> USE DEF ControlInv
<1>1. free' = free + n /\ needed' \in BOOLEAN /\ al' \in [Proc -> Places]
  BY DEF FreePages, ControlTypes, WakeWaiters, Places
<1>2. NotifierComes'
  BY DEF FreePages, NotifierComes, ControlTypes
<1>3. NoLostWakeup'
  BY <1>1, ControlAssumption
  DEF FreePages, NoLostWakeup, ControlTypes, WakeWaiters, Places, vm_paging_needed
<1> QED BY <1>1, <1>2, <1>3

LEMMA ReleaseStep == ASSUME ControlInv, NEW a \in Proc, Release(a) PROVE ControlInv'
<1> USE DEF ControlInv
<1> USE DEF Release, laundryVars
<1>1. CASE FreePages(1) /\ UNCHANGED << clean, dirty >>
  <2>1. /\ free' = free + 1 /\ needed' \in BOOLEAN /\ al' \in [Proc -> Places]
        /\ NotifierComes' /\ NoLostWakeup'
    BY <1>1, FreePagesStep
  <2>2. ControlTypes'
    BY <1>1, <2>1, ControlAssumption DEF ControlTypes, used
  <2> QED BY <2>1, <2>2
<1>2. CASE \/ clean' = clean + 1 /\ UNCHANGED << free, dirty, needed, al >>
           \/ dirty' = dirty + 1 /\ UNCHANGED << free, clean, needed, al >>
  <2>1. ControlTypes'
    BY <1>2, ControlAssumption DEF ControlTypes, used
  <2>2. NotifierComes' /\ NoLostWakeup'
    BY <1>2 DEF NotifierComes, NoLostWakeup, vm_paging_needed
  <2> QED BY <2>1, <2>2
<1> QED BY <1>1, <1>2

LEMMA CallerStep == ASSUME ControlInv, NEW a \in Proc, Caller(a) PROVE ControlInv'
<1> USE DEF ControlInv
<1>1. CASE Wake(a)
  <2>1. ControlTypes'
    BY <1>1, PlacesKept DEF Wake, ControlTypes, GoAl, Places, pageVars, laundryVars
  <2>2. NotifierComes' /\ NoLostWakeup'
    BY <1>1 DEF Wake, NotifierComes, NoLostWakeup, GoAl, ControlTypes, pageVars, laundryVars,
                vm_paging_needed
  <2> QED BY <2>1, <2>2
<1>2. CASE Notify(a)
  <2>1. ControlTypes'
    BY <1>2, PlacesKept, WokenWorker
    DEF Notify, ControlTypes, GoAl, Places, pageVars, laundryVars
  <2>2. NotifierComes' /\ NoLostWakeup'
    BY <1>2, WokenWorker
    DEF Notify, NotifierComes, NoLostWakeup, GoAl, ControlTypes, pageVars, laundryVars,
        vm_paging_needed, WorkerLocked
  <2> QED BY <2>1, <2>2
<1>3. CASE Wakeup(a)
  <2>1. ControlTypes'
    BY <1>3, PlacesKept DEF Wakeup, ControlTypes, GoAl, Places, pageVars, laundryVars, askVars
  <2>2. NotifierComes' /\ NoLostWakeup'
    BY <1>3 DEF Wakeup, NotifierComes, NoLostWakeup, GoAl, ControlTypes, pageVars, laundryVars,
                askVars, vm_paging_needed
  <2> QED BY <2>1, <2>2
<1>4. CASE SetAndNotify(a)
  <2>1. ControlTypes'
    <3>1. wanted' \in 0 .. 1 /\ needed' \in BOOLEAN
      <4>1. wanted' = 1 \/ wanted' = wanted
        BY <1>4 DEF SetAndNotify, Ask
      <4>2. needed' = TRUE \/ needed' = needed
        BY <1>4 DEF SetAndNotify, Ask
      <4>3. needed' \in BOOLEAN
        BY <4>2, Zenon DEF ControlTypes
      <4> QED BY <4>1, <4>3 DEF ControlTypes
    <3>2. al' \in [Proc -> Places] /\ wk' \in WorkerState /\ wk'.left <= wk'.start
      BY <1>4, PlacesKept, WokenWorker DEF SetAndNotify, ControlTypes, GoAl, Places
    <3> QED BY <1>4, <3>1, <3>2 DEF SetAndNotify, ControlTypes, pageVars, laundryVars
  <2>2. NotifierComes' /\ NoLostWakeup'
    BY <1>4, WokenWorker
    DEF SetAndNotify, Ask, NotifierComes, NoLostWakeup, GoAl, ControlTypes, pageVars,
        laundryVars, vm_paging_needed
  <2> QED BY <2>1, <2>2
<1>5. CASE pagedaemon_wait(a)
  <2>1. ControlTypes'
    <3>1. wanted' \in 0 .. 1 /\ needed' \in BOOLEAN
      <4>1. wanted' = 1 \/ wanted' = wanted
        BY <1>5 DEF pagedaemon_wait
      <4>2. needed' = TRUE \/ needed' = needed
        BY <1>5 DEF pagedaemon_wait
      <4>3. needed' \in BOOLEAN
        BY <4>2, Zenon DEF ControlTypes
      <4> QED BY <4>1, <4>3 DEF ControlTypes
    <3>2. al' \in [Proc -> Places]
      BY <1>5, PlacesKept DEF pagedaemon_wait, GoAl, Places
    <3>3. wk' = wk \/ wk' = WorkerWoken(wk)
      BY <1>5 DEF pagedaemon_wait
    <3>4. wk' \in WorkerState /\ wk'.left <= wk'.start
      BY <3>3, WokenWorker DEF ControlTypes
    <3> QED BY <1>5, <3>1, <3>2, <3>4 DEF pagedaemon_wait, ControlTypes, pageVars, laundryVars
  <2>2. NotifierComes'
    BY <1>5 DEF pagedaemon_wait, NotifierComes
  <2>3. NoLostWakeup'
    BY <1>5, WokenWorker
    DEF pagedaemon_wait, NoLostWakeup, GoAl, ControlTypes, pageVars, laundryVars, WorkerLocked
  <2> QED BY <2>1, <2>2, <2>3
<1> QED BY <1>1, <1>2, <1>3, <1>4, <1>5 DEF Caller

-----------------------------------------------------------------------------
(* The worker and the laundry thread: their steps. *)

\* What changes neither pages nor requests: the loop of the worker.
LEMMA LoopStep ==
    ASSUME ControlInv, Keep,
           \/ ClearWanted \/ TestNeeded \/ ClearIfMet \/ TestWanted \/ ClearNeeded \/ TestPass
           \/ Sleep \/ Timeout
    PROVE  ControlInv'
<1> USE DEF ControlInv, Keep, Workers, pageVars, laundryVars, askVars
<1> DEFINE Goes(pc) == wk' = [wk EXCEPT !.pc = pc]
           Types    == /\ wk' \in WorkerState /\ wk'.left <= wk'.start
                       /\ wanted' \in 0 .. 1 /\ needed' \in BOOLEAN /\ al' \in [Proc -> Places]
<1>1. ASSUME Types PROVE ControlTypes'
  BY <1>1 DEF ControlTypes
<1>2. WakeWaiters(al) \in [Proc -> Places]
  BY DEF ControlTypes, WakeWaiters, Places
<1>3. CASE ClearWanted
  <2>1. Types
    BY <1>3 DEF ClearWanted, ControlTypes, WorkerState
  <2>2. wk'.pc = "test"
    BY <1>3 DEF ClearWanted, ControlTypes, WorkerState
  <2>3. NotifierComes' /\ NoLostWakeup'
    BY <1>3, <2>2 DEF ClearWanted, NotifierComes, NoLostWakeup
  <2> QED BY <1>1, <2>1, <2>3
<1>4. CASE TestNeeded
  <2>1. Types
    BY <1>4 DEF TestNeeded, ControlTypes, WorkerState
  <2>2. wk'.pc = IF vm_paging_needed THEN "woken" ELSE "asleep"
    BY <1>4 DEF TestNeeded, ControlTypes, WorkerState
  <2>3. NotifierComes' /\ NoLostWakeup'
    BY <1>4, <2>2 DEF TestNeeded, NotifierComes, NoLostWakeup, vm_paging_needed
  <2> QED BY <1>1, <2>1, <2>3
<1>5. CASE ClearIfMet
  <2>1. Types
    <3>1. wanted' \in 0 .. 1
      BY <1>5 DEF ClearIfMet, ControlTypes
    <3>2. needed' = FALSE \/ needed' = needed
      BY <1>5 DEF ClearIfMet
    <3>3. needed' \in BOOLEAN
      BY <3>2, Zenon DEF ControlTypes
    <3>4. al' \in [Proc -> Places]
      BY <1>5, <1>2 DEF ClearIfMet, ControlTypes
    <3> QED BY <1>5, <3>1, <3>3, <3>4 DEF ClearIfMet, ControlTypes, WorkerState
  <2>2. wk'.pc = "test"
    BY <1>5 DEF ClearIfMet, ControlTypes, WorkerState
  <2>3. NotifierComes' /\ NoLostWakeup'
    BY <1>5, <2>2 DEF ClearIfMet, NotifierComes, NoLostWakeup, WakeWaiters, ControlTypes
  <2> QED BY <1>1, <2>1, <2>3
<1>6. CASE TestWanted
  <2>1. wk' \in WorkerState /\ wk'.left <= wk'.start
    <3>1. \E pc \in {"again", "sleep"}, pass \in Nat : wk' = [wk EXCEPT !.pc = pc, !.pass = pass]
      <4>1. wk.pass \in Nat /\ [wk EXCEPT !.pc = "sleep"] = [wk EXCEPT !.pc = "sleep", !.pass = wk.pass]
        BY DEF ControlTypes, WorkerState
      <4>2. CASE wanted = 1
        <5>1. wk' = [wk EXCEPT !.pc = "again", !.pass = 1]
          BY <1>6, <4>2 DEF TestWanted
        <5> QED BY <5>1
      <4>3. CASE wanted = 0 /\ needed
        <5>1. wk' = [wk EXCEPT !.pc = "again", !.pass = IF wk.pass = 0 THEN 1 ELSE wk.pass]
          BY <1>6, <4>3 DEF TestWanted
        <5> QED BY <4>1, <5>1
      <4>4. CASE wanted = 0 /\ ~needed
        <5>1. wk' = [wk EXCEPT !.pc = "sleep"]
          BY <1>6, <4>4 DEF TestWanted
        <5> QED BY <4>1, <5>1
      <4>5. wanted = 1 \/ wanted = 0
        BY DEF ControlTypes
      <4> QED BY <4>2, <4>3, <4>4, <4>5
    <3> QED BY <3>1 DEF ControlTypes, WorkerState
  <2>2. wk'.pc = IF wanted = 1 \/ needed THEN "again" ELSE "sleep"
    BY <1>6 DEF TestWanted, ControlTypes, WorkerState
  <2>3. NotifierComes' /\ NoLostWakeup'
    BY <1>6, <2>2 DEF TestWanted, NotifierComes, NoLostWakeup
  <2> QED BY <1>1, <1>6, <2>1, <2>3 DEF TestWanted, ControlTypes
<1>7. CASE ClearNeeded
  <2>1. Types
    <3>1. needed' \in BOOLEAN
      BY <1>7 DEF ClearNeeded
    <3>2. al' \in [Proc -> Places]
      BY <1>7, <1>2 DEF ClearNeeded, ControlTypes
    <3> QED BY <1>7, <3>1, <3>2 DEF ClearNeeded, ControlTypes, WorkerState
  <2>2. wk'.pc = "test"
    BY <1>7 DEF ClearNeeded, ControlTypes, WorkerState
  <2>3. NotifierComes' /\ NoLostWakeup'
    BY <1>7, <2>2, ControlAssumption
    DEF ClearNeeded, NotifierComes, NoLostWakeup, WakeWaiters, ControlTypes
  <2> QED BY <1>1, <2>1, <2>3
<1>8. CASE TestPass
  <2>1. wk' \in WorkerState /\ wk'.left <= wk'.start
    <3>1. \E pc \in {"again", "sleep"}, pass \in Nat : wk' = [wk EXCEPT !.pc = pc, !.pass = pass]
      <4>0. wk.pass \in Nat
        BY DEF ControlTypes, WorkerState
      <4>1. \A pc : [wk EXCEPT !.pc = pc] = [wk EXCEPT !.pc = pc, !.pass = wk.pass]
        BY DEF ControlTypes, WorkerState
      <4>2. CASE needed /\ wk.pass <= 1
        <5>1. wk' = [wk EXCEPT !.pc = "again"]
          BY <1>8, <4>0, <4>2 DEF TestPass
        <5> QED BY <4>0, <4>1, <5>1
      <4>3. CASE needed /\ wk.pass > 1
        <5>1. ~(wk.pass <= 1)
          BY <4>0, <4>3
        <5>2. wk' = [wk EXCEPT !.pc = "sleep"]
          BY <1>8, <4>0, <4>3, <5>1 DEF TestPass
        <5> QED BY <4>0, <4>1, <5>2
      <4>4. CASE ~needed
        <5>1. wk' = [wk EXCEPT !.pc = "sleep", !.pass = 0]
          BY <1>8, <4>4 DEF TestPass
        <5> QED BY <5>1
      <4>5. wk.pass <= 1 \/ wk.pass > 1
        BY <4>0
      <4> QED BY <4>2, <4>3, <4>4, <4>5
    <3> QED BY <3>1 DEF ControlTypes, WorkerState
  <2>2. NotifierComes' /\ NoLostWakeup'
    BY <1>8 DEF TestPass, NotifierComes, NoLostWakeup
  <2> QED BY <1>1, <1>8, <2>1, <2>2 DEF TestPass, ControlTypes
<1>9. CASE Sleep
  <2>1. Types
    BY <1>9 DEF Sleep, ControlTypes, WorkerState
  <2>2. wk'.pc = "asleep"
    BY <1>9 DEF Sleep, ControlTypes, WorkerState
  <2>3. NotifierComes' /\ NoLostWakeup'
    BY <1>9, <2>2 DEF Sleep, NotifierComes, NoLostWakeup
  <2> QED BY <1>1, <2>1, <2>3
<1>10. CASE Timeout
  <2>1. Types
    BY <1>10 DEF Timeout, ControlTypes, WorkerState
  <2>2. wk'.pc = "timeout"
    BY <1>10 DEF Timeout, ControlTypes, WorkerState
  <2>3. NotifierComes' /\ NoLostWakeup'
    BY <1>10, <2>2 DEF Timeout, NotifierComes, NoLostWakeup
  <2> QED BY <1>1, <2>1, <2>3
<1> QED BY <1>3, <1>4, <1>5, <1>6, <1>7, <1>8, <1>9, <1>10

LEMMA CappedIs == ASSUME NEW n \in Nat PROVE Capped(n) \in 0 .. MaxFreed
BY ControlAssumption DEF Capped

\* Where the worker goes with a new number of pages, and what else it may note.
LEMMA Sets ==
    ASSUME NEW w \in WorkerState, NEW v, NEW pc \in {"scan", "post", "active"},
           NEW x \in Int, NEW y \in Int, y <= x,
           \/ v = [w EXCEPT !.pc = pc, !.start = x, !.left = y]
           \/ \E pass \in Nat : v = [w EXCEPT !.pc = pc, !.pass = pass, !.start = x, !.left = y]
           \/ \E met \in BOOLEAN : v = [w EXCEPT !.pc = pc, !.start = x, !.left = y, !.met = met]
    PROVE  v \in WorkerState /\ v.pc = pc /\ v.left <= v.start
<1>1. CASE v = [w EXCEPT !.pc = pc, !.start = x, !.left = y]
  BY <1>1 DEF WorkerState
<1>2. ASSUME NEW pass \in Nat, v = [w EXCEPT !.pc = pc, !.pass = pass, !.start = x, !.left = y]
      PROVE  v \in WorkerState /\ v.pc = pc /\ v.left <= v.start
  BY <1>2 DEF WorkerState
<1>3. ASSUME NEW met \in BOOLEAN, v = [w EXCEPT !.pc = pc, !.start = x, !.left = y, !.met = met]
      PROVE  v \in WorkerState /\ v.pc = pc /\ v.left <= v.start
  BY <1>3 DEF WorkerState
<1> QED BY <1>1, <1>2, <1>3

LEMMA ScanStep ==
    ASSUME ControlInv,
           \/ Scan11
           \/ \E s \in PidOutputs : Scan12(s)
           \/ \E n \in 0 .. TotalPages, k, w \in 0 .. 1 : ScanInactive(n, k, w)
           \/ \E n, k \in 0 .. 1 : ScanActive(n, k)
           \/ \E swapdev \in BOOLEAN : PostRequest(swapdev)
    PROVE  ControlInv'
<1> USE DEF ControlInv, Workers, pageVars, laundryVars, askVars
<1>1. ASSUME NEW s \in PidOutputs, Scan12(s) PROVE ControlInv'
  <2>1. s \in Nat
    BY ControlAssumption
  <2>2. PICK found \in 0 .. Least(1, used) :
          /\ free' = free + (IF s > 0 THEN found ELSE 0)
          /\ wk' = [wk EXCEPT !.pc = IF s > 0 THEN "scan" ELSE "active",
                              !.start = AtLeast0(s - found) + deficit,
                              !.left = AtLeast0(s - found) + deficit]
    BY <1>1 DEF Scan12
  <2>3. found \in Nat /\ free + found + clean + dirty <= TotalPages
    BY ControlAssumption DEF Least, used, ControlTypes
  <2>4. AtLeast0(s - found) + deficit \in Int
    BY <2>1, <2>3 DEF AtLeast0, ControlTypes
  <2> HIDE DEF AtLeast0
  <2>5. /\ wk' \in WorkerState /\ wk'.left <= wk'.start
        /\ wk'.pc \in {"scan", "active"}
    <3> DEFINE pc == IF s > 0 THEN "scan" ELSE "active"
               x == AtLeast0(s - found) + deficit
    <3>1. wk' = [wk EXCEPT !.pc = pc, !.start = x, !.left = x]
      BY <2>2
    <3>2. pc \in {"scan", "active"} /\ x \in Int /\ wk \in WorkerState
      BY <2>4 DEF ControlTypes
    <3> HIDE DEF pc, x
    <3>3. x <= x
      BY <3>2
    <3> QED BY <3>1, <3>2, <3>3, Sets
  <2>6. ControlTypes'
    <3>1. free' \in Nat /\ free' + clean + dirty <= TotalPages
      BY <2>2, <2>3, ControlAssumption DEF ControlTypes
    <3>2. deficit' = 0 \/ deficit' = deficit
      BY <1>1 DEF Scan12
    <3>3. UNCHANGED << version, clean, dirty, needed, al, request, freed, lw, allocs >> /\ wanted' = 1
      BY <1>1 DEF Scan12
    <3> QED BY <2>5, <3>1, <3>2, <3>3 DEF ControlTypes
  <2>7. NotifierComes' /\ NoLostWakeup'
    BY <1>1, <2>5 DEF Scan12, NotifierComes, NoLostWakeup
  <2> QED BY <2>6, <2>7
<1>2. CASE Scan11
  <2>1. wk.pass \in Nat /\ wk.pass + 1 \in Nat /\ Least(wk.pass + 1, 2) \in Nat
    BY DEF ControlTypes, WorkerState, Least
  <2>2. \E pass \in Nat :
          wk' = [wk EXCEPT !.pc = "scan", !.pass = pass,
                           !.start = StartOfScan(pass), !.left = StartOfScan(pass)]
    <3>1. CASE version = 11 /\ wk.pc # "timeout"
      BY <1>2, <2>1, <3>1 DEF Scan11
    <3>2. CASE version = 11 /\ wk.pc = "timeout"
      BY <1>2, <2>1, <3>2 DEF Scan11
    <3>3. CASE version = 10
      BY <1>2, <2>1, <3>3 DEF Scan11
    <3>4. version < 12 /\ wk.pc \in {"again", "woken", "timeout"}
      BY <1>2 DEF Scan11
    <3>5. version = 10 \/ version = 11
      BY <3>4 DEF ControlTypes
    <3> QED BY <3>1, <3>2, <3>3, <3>4, <3>5
  <2>3. \A pass \in Nat : StartOfScan(pass) \in Int
    BY ControlAssumption DEF StartOfScan, vm_paging_target, ControlTypes
  <2>4. wk' \in WorkerState /\ wk'.left <= wk'.start /\ wk'.pc = "scan"
    <3>1. PICK pass \in Nat :
            wk' = [wk EXCEPT !.pc = "scan", !.pass = pass,
                             !.start = StartOfScan(pass), !.left = StartOfScan(pass)]
      BY <2>2
    <3> DEFINE x == StartOfScan(pass)
    <3>2. x \in Int /\ wk \in WorkerState
      BY <2>3 DEF ControlTypes
    <3>3. wk' = [wk EXCEPT !.pc = "scan", !.pass = pass, !.start = x, !.left = x]
      BY <3>1
    <3> HIDE DEF x
    <3>4. x <= x
      BY <3>2
    <3>5. "scan" \in {"scan", "post", "active"}
      OBVIOUS
    <3>6. \E q \in Nat : wk' = [wk EXCEPT !.pc = "scan", !.pass = q, !.start = x, !.left = x]
      BY <3>3
    <3> QED BY ONLY <3>2, <3>4, <3>5, <3>6, Sets, Zenon
  <2>5. freed' \in 0 .. MaxFreed /\ deficit' \in 0 .. 1
    <3>1. freed + 1 \in Nat
      BY ControlAssumption DEF ControlTypes
    <3>2. freed' = Capped(freed + 1) \/ freed' = freed
      BY <1>2 DEF Scan11
    <3>3. deficit' = 0 \/ deficit' = deficit
      BY <1>2 DEF Scan11
    <3> QED BY <3>1, <3>2, <3>3, CappedIs DEF ControlTypes
  <2>6. ControlTypes'
    BY <1>2, <2>4, <2>5 DEF Scan11, ControlTypes
  <2>7. NotifierComes' /\ NoLostWakeup'
    BY <1>2, <2>4 DEF Scan11, NotifierComes, NoLostWakeup
  <2> QED BY <2>6, <2>7
<1>3. ASSUME NEW n \in 0 .. TotalPages, NEW k \in 0 .. 1, NEW w \in 0 .. 1, ScanInactive(n, k, w)
      PROVE  ControlInv'
  <2>1. n \in Nat /\ n <= clean /\ k <= clean - n /\ w <= dirty
    <3>1. clean \in Nat /\ dirty \in Nat /\ wk.left \in Int /\ TotalPages \in Nat
      BY ControlAssumption DEF ControlTypes, WorkerState
    <3>2. n <= Least(clean, AtLeast0(wk.left))
      BY <1>3 DEF ScanInactive
    <3>3. AtLeast0(wk.left) \in Nat
      BY <3>1 DEF AtLeast0
    <3>4. n <= clean
      <4> HIDE DEF AtLeast0
      <4> QED BY <3>1, <3>2, <3>3 DEF Least
    <3>5. k <= clean - n /\ w <= IF version = 10 /\ wk.start > 0 THEN dirty ELSE 0
      BY <1>3 DEF ScanInactive
    <3> QED BY <3>1, <3>4, <3>5
  <2>2. wk' \in WorkerState /\ wk'.left <= wk'.start /\ wk'.pc \in {"active", "post"}
    <3>1. CASE version = 10
      <4>1. wk' = [wk EXCEPT !.pc = "active", !.start = 0, !.left = 0]
        BY <1>3, <3>1 DEF ScanInactive
      <4>2. wk \in WorkerState
        BY DEF ControlTypes
      <4>3. "active" \in {"scan", "post", "active"} /\ 0 \in Int /\ 0 <= 0
        OBVIOUS
      <4>4. wk' \in WorkerState /\ wk'.pc = "active" /\ wk'.left <= wk'.start
        BY ONLY <4>1, <4>2, <4>3, Sets, Zenon
      <4> QED BY <4>4
    <3>2. CASE version # 10
      <4>1. wk' = [wk EXCEPT !.pc = "post", !.left = wk.left - n]
        BY <1>3, <3>2 DEF ScanInactive
      <4>2. wk.left - n \in Int /\ wk.left - n <= wk.start
        BY <2>1 DEF ControlTypes, WorkerState
      <4> QED BY <4>1, <4>2 DEF ControlTypes, WorkerState
    <3> QED BY <3>1, <3>2
  <2>3. free' = free + n /\ needed' \in BOOLEAN /\ al' \in [Proc -> Places]
    BY <1>3, <2>1 DEF ScanInactive, FreePages, ControlTypes, WakeWaiters, Places
  <2>4. ControlTypes'
    <3>1. /\ clean' \in Nat /\ dirty' \in Nat /\ free' \in Nat
          /\ free' + clean' + dirty' <= TotalPages
      <4>1. clean' = clean - n - k + w /\ dirty' = dirty + k - w
        BY <1>3 DEF ScanInactive
      <4>2. TotalPages \in Nat
        BY ControlAssumption
      <4> QED BY <2>1, <2>3, <4>1, <4>2 DEF ControlTypes
    <3> QED BY <1>3, <2>2, <2>3, <3>1 DEF ScanInactive, ControlTypes
  <2>5. NotifierComes' /\ NoLostWakeup'
    BY <1>3, <2>2 DEF ScanInactive, FreePages, NotifierComes, NoLostWakeup, WakeWaiters, ControlTypes
  <2> QED BY <2>4, <2>5
<1>4. ASSUME NEW n \in 0 .. 1, NEW k \in 0 .. 1, ScanActive(n, k) PROVE ControlInv'
  <2>1. clean + n \in Nat /\ dirty + k \in Nat /\ free + (clean + n) + (dirty + k) <= TotalPages
    BY <1>4, ControlAssumption DEF ScanActive, ControlTypes, used
  <2>2. wk' \in WorkerState /\ wk'.left <= wk'.start /\ wk'.pc = "top"
    BY <1>4 DEF ScanActive, ControlTypes, WorkerState
  <2>3. ControlTypes'
    BY <1>4, <2>1, <2>2 DEF ScanActive, ControlTypes
  <2>4. NotifierComes' /\ NoLostWakeup'
    BY <1>4, <2>2 DEF ScanActive, NotifierComes, NoLostWakeup
  <2> QED BY <2>3, <2>4
<1>5. ASSUME NEW swapdev \in BOOLEAN, PostRequest(swapdev) PROVE ControlInv'
  <2> USE <1>5
  <2>1. PICK met : wk' = [wk EXCEPT !.pc = "active", !.start = 0, !.left = 0, !.met = met]
                    /\ met \in BOOLEAN
    BY DEF PostRequest
  <2>2. wk' \in WorkerState /\ wk'.left <= wk'.start /\ wk'.pc = "active"
    <3>1. wk \in WorkerState
      BY DEF ControlTypes
    <3>2. "active" \in {"scan", "post", "active"} /\ 0 \in Int /\ 0 <= 0
      OBVIOUS
    <3> QED BY ONLY <2>1, <3>1, <3>2, Sets, Zenon
  <2>3. freed' \in 0 .. MaxFreed
    <3>1. freed + wk.start - wk.left \in Nat
      BY ControlAssumption DEF ControlTypes, WorkerState
    <3>2. freed' = Capped(freed + wk.start - wk.left) \/ freed' = freed
      BY DEF PostRequest
    <3> QED BY <3>1, <3>2, CappedIs DEF ControlTypes
  <2>4. request' \in {"IDLE", "BACKGROUND", "SHORTFALL"}
    BY DEF PostRequest, Posted, ControlTypes
  <2>5. /\ lw' \in ThreadState
        /\ lw'.pc = "asleep" => lw.pc = "asleep" /\ request' = request
    BY DEF PostRequest, ControlTypes, ThreadState
  <2>6. ControlTypes'
    BY <2>2, <2>3, <2>4, <2>5 DEF PostRequest, ControlTypes
  <2>7. NotifierComes' /\ NoLostWakeup'
    BY <2>2, <2>5 DEF PostRequest, NotifierComes, NoLostWakeup
  <2> QED BY <2>6, <2>7
<1> QED BY <1>1, <1>2, <1>3, <1>4, <1>5

\* What a laundering and a shortfall make of the thread's state.
LEMMA BackgroundIs ==
    ASSUME NEW l \in ThreadState
    PROVE  Background(l) \in ThreadState
<1> DEFINE due == IF BackgroundDue(l) THEN [l EXCEPT !.target = BackgroundTarget] ELSE l
           m == CASE due.target > 0 /\ due.nfreed > 0 ->
                       [due EXCEPT !.nfreed = 0, !.last = due.target]
                  [] due.target > 0 /\ due.nfreed = 0 /\ due.last - due.target >= BackgroundMax ->
                       [due EXCEPT !.target = 0]
                  [] OTHER -> due
           n == IF due.target > 0 THEN Least(BackgroundRate, m.target) ELSE 0
<1>1. due \in ThreadState
  BY ControlAssumption DEF ThreadState
<1>2. Background(l) = [m EXCEPT !.launder = n]
  BY DEF Background
<1> HIDE DEF due
<1>3. m \in ThreadState
  <2>1. CASE due.target > 0 /\ due.nfreed > 0
    <3>1. m = [due EXCEPT !.nfreed = 0, !.last = due.target]
      BY <2>1
    <3> DEFINE m1 == [due EXCEPT !.nfreed = 0]
               last == due.target
    <3>2. m1 \in ThreadState /\ last \in Int
      BY <1>1 DEF ThreadState
    <3>3. m = [m1 EXCEPT !.last = last]
      BY <1>1, <3>1 DEF ThreadState
    <3> HIDE DEF m, m1, last
    <3> QED BY <3>2, <3>3 DEF ThreadState
  <2>2. CASE due.target > 0 /\ due.nfreed = 0
    <3>1. ~(due.nfreed > 0)
      BY <2>2
    <3>2. m = [due EXCEPT !.target = 0] \/ m = due
      BY <2>2, <3>1
    <3> HIDE DEF m
    <3> QED BY <1>1, <3>2 DEF ThreadState
  <2>3. CASE ~(due.target > 0)
    <3>1. m = due
      BY <2>3
    <3> QED BY <1>1, <3>1
  <2>4. due.nfreed > 0 \/ due.nfreed = 0
    BY <1>1 DEF ThreadState
  <2> QED BY <2>1, <2>2, <2>3, <2>4
<1> HIDE DEF m
<1>4. n \in Nat
  BY <1>3, ControlAssumption DEF Least, ThreadState
<1> HIDE DEF n
<1> QED BY <1>2, <1>3, <1>4 DEF ThreadState

LEMMA ShortfallIs ==
    ASSUME NEW l \in ThreadState, l.cycle > 0
    PROVE  Shortfall(l) \in ThreadState
<1>1. l.target \div l.cycle \in Nat
  <2>1. l.target \in Nat /\ l.cycle \in Nat
    BY DEF ThreadState
  <2> QED BY <2>1, DivNat
<1> DEFINE x == l.target \div l.cycle
<1>2. Shortfall(l) = [l EXCEPT !.launder = x, !.cycle = l.cycle - 1,
                               !.nfreed = IF version = 11 THEN 0 ELSE l.nfreed]
  BY DEF Shortfall
<1> DEFINE k == IF version = 11 THEN 0 ELSE l.nfreed
           c == l.cycle - 1
           m == [l EXCEPT !.launder = x]
           r == [m EXCEPT !.cycle = c]
<1>3. x \in Nat /\ k \in Nat /\ c \in Nat
  BY <1>1 DEF ThreadState
<1>4. Shortfall(l) = [r EXCEPT !.nfreed = k]
  <2> HIDE DEF x
  <2> QED BY <1>2 DEF ThreadState
<1> HIDE DEF x, k, c
<1>5. m \in ThreadState
  BY <1>3 DEF ThreadState
<1> HIDE DEF m
<1>6. r \in ThreadState
  BY <1>3, <1>5 DEF ThreadState
<1> HIDE DEF r
<1> QED BY <1>3, <1>4, <1>6 DEF ThreadState

LEMMA DecideStep == ASSUME ControlInv, Decide PROVE ControlInv'
<1> USE DEF ControlInv
<1> DEFINE l == IF version = 12 THEN lw ELSE [lw EXCEPT !.nfreed = Capped(lw.nfreed + freed)]
           next == CASE l.shortfall > 0 ->
                       Shortfall([l EXCEPT !.in = TRUE, !.cycle = LaunderCycles,
                                           !.target = l.shortfall])
                  [] l.shortfall <= 0 /\ ~l.in -> Background(l)
                  [] l.shortfall <= 0 /\ l.in /\ (l.cycle = 0 \/ vm_paging_target <= 0) ->
                       Background([l EXCEPT !.in = FALSE, !.target = 0])
                  [] OTHER -> Shortfall(l)
           pc == IF next.launder > 0 THEN "launder" ELSE "check"
<1>1. l \in ThreadState
  <2>1. lw.nfreed + freed \in Nat /\ lw \in ThreadState
    BY ControlAssumption DEF ControlTypes, ThreadState
  <2>2. Capped(lw.nfreed + freed) \in Nat
    BY <2>1, CappedIs, ControlAssumption
  <2> HIDE DEF Capped
  <2> QED BY <2>1, <2>2 DEF ThreadState
<1>2. lw' = [next EXCEPT !.shortfall = 0, !.pc = pc]
  BY DEF Decide
<1> HIDE DEF l
<1>3. next \in ThreadState
  <2>1. l.shortfall \in Int /\ l.cycle \in Nat /\ l.in \in BOOLEAN
    BY <1>1 DEF ThreadState
  <2>2. CASE l.shortfall > 0
    <3> DEFINE m == [l EXCEPT !.in = TRUE, !.cycle = LaunderCycles, !.target = l.shortfall]
    <3>1. next = Shortfall(m)
      BY <2>1, <2>2
    <3> DEFINE m1 == [l EXCEPT !.in = TRUE]
               m2 == [m1 EXCEPT !.cycle = LaunderCycles]
               x  == l.shortfall
    <3>2. m = [m2 EXCEPT !.target = x] /\ m1 \in ThreadState
      BY <1>1 DEF ThreadState
    <3>3. LaunderCycles \in Nat /\ LaunderCycles > 0 /\ x \in Nat
      BY <2>1, <2>2, ControlAssumption
    <3> HIDE DEF m, next, m1, x
    <3>4. m2 \in ThreadState /\ m2.cycle = LaunderCycles
      BY <3>2, <3>3 DEF ThreadState
    <3> HIDE DEF m2
    <3>5. m \in ThreadState /\ m.cycle > 0
      BY <3>2, <3>3, <3>4 DEF ThreadState
    <3> QED BY <3>1, <3>5, ShortfallIs
  <2>3. CASE l.shortfall <= 0 /\ ~l.in
    <3>1. next = Background(l)
      BY <2>1, <2>3
    <3> QED BY <1>1, <3>1, BackgroundIs
  <2>4. CASE l.shortfall <= 0 /\ l.in /\ (l.cycle = 0 \/ vm_paging_target <= 0)
    <3> DEFINE m == [l EXCEPT !.in = FALSE, !.target = 0]
    <3>1. next = Background(m)
      BY <2>1, <2>4
    <3>2. m \in ThreadState
      BY <1>1 DEF ThreadState
    <3> HIDE DEF m, next
    <3> QED BY <3>1, <3>2, BackgroundIs
  <2>5. CASE l.shortfall <= 0 /\ l.in /\ l.cycle # 0 /\ ~(vm_paging_target <= 0)
    <3>1. next = Shortfall(l)
      BY <2>1, <2>5
    <3>2. l.cycle > 0
      BY <2>1, <2>5
    <3> HIDE DEF next
    <3> QED BY <1>1, <3>1, <3>2, ShortfallIs
  <2>6. l.shortfall > 0 \/ l.shortfall <= 0
    BY <2>1
  <2> QED BY <2>2, <2>3, <2>4, <2>5, <2>6
<1>4. pc \in {"launder", "check"}
  OBVIOUS
<1> HIDE DEF next, pc
<1>5. lw' \in ThreadState /\ lw'.pc = pc
  <2> DEFINE m == [next EXCEPT !.shortfall = 0]
  <2>1. m \in ThreadState /\ lw' = [m EXCEPT !.pc = pc]
    BY <1>2, <1>3 DEF ThreadState
  <2> HIDE DEF m
  <2> QED BY <1>4, <2>1 DEF ThreadState
<1>6. freed' \in 0 .. MaxFreed
  BY ControlAssumption DEF Decide, ControlTypes
<1>7. ControlTypes'
  BY <1>5, <1>6 DEF Decide, Thread, ControlTypes, askVars
<1>8. NotifierComes' /\ NoLostWakeup'
  BY <1>4, <1>5 DEF Decide, Thread, NotifierComes, NoLostWakeup, askVars, vm_paging_needed
<1> QED BY <1>7, <1>8

LEMMA LaunderStep ==
    ASSUME ControlInv, NEW n \in 0 .. TotalPages, Launder(n) PROVE ControlInv'
<1> USE DEF ControlInv
<1>1. n \in Nat /\ dirty \in Nat /\ clean \in Nat /\ lw \in ThreadState
  BY ControlAssumption DEF ControlTypes
<1>2. n <= dirty
  BY <1>1 DEF Launder, Least, ThreadState
<1>3. clean' = clean + n /\ dirty' = dirty - n
  BY DEF Launder
<1> DEFINE x == lw.target - Least(n, lw.target)
<1>4. x \in Nat
  BY <1>1 DEF Least, ThreadState
<1>5. lw' = [lw EXCEPT !.pc = "check", !.launder = 0, !.target = x]
  BY DEF Launder
<1> HIDE DEF x
<1>6. lw' \in ThreadState /\ lw'.pc = "check"
  BY <1>1, <1>4, <1>5 DEF ThreadState
<1>7. clean' \in Nat /\ dirty' \in Nat /\ free + clean' + dirty' <= TotalPages
  BY <1>1, <1>2, <1>3, ControlAssumption DEF ControlTypes
<1>8. ControlTypes'
  BY <1>6, <1>7 DEF Launder, Thread, ControlTypes, askVars
<1>9. NotifierComes' /\ NoLostWakeup'
  BY <1>6 DEF Launder, Thread, NotifierComes, NoLostWakeup, askVars, vm_paging_needed
<1> QED BY <1>8, <1>9

LEMMA CheckStep == ASSUME ControlInv, CheckRequest PROVE ControlInv'
<1> USE DEF ControlInv
<1>1. CASE TakeRequest
  <2> DEFINE start == request = "SHORTFALL" /\ (~lw.in \/ lw.cycle = 0)
             t == IF start THEN 0 ELSE lw.target
             s == IF start THEN vm_paging_target + deficit ELSE 0
             k == IF version = 12 THEN Capped(lw.nfreed + freed) ELSE lw.nfreed
  <2>1. lw' = [lw EXCEPT !.pc = "decide", !.target = t, !.shortfall = s, !.nfreed = k]
    BY <1>1 DEF TakeRequest, Taken
  <2>2. t \in Nat /\ s \in Int
    BY ControlAssumption DEF ControlTypes, ThreadState, vm_paging_target
  <2>3. k \in Nat
    <3>1. lw.nfreed \in Nat /\ lw.nfreed + freed \in Nat
      BY ControlAssumption DEF ControlTypes, ThreadState
    <3>2. Capped(lw.nfreed + freed) \in Nat
      BY <3>1, CappedIs, ControlAssumption
    <3> QED BY <3>1, <3>2
  <2> HIDE DEF t, s, k
  <2>4. lw' \in ThreadState /\ lw'.pc = "decide"
    BY <2>1, <2>2, <2>3 DEF ControlTypes, ThreadState
  <2>5. request' \in {"IDLE", "BACKGROUND", "SHORTFALL"} /\ freed' \in 0 .. MaxFreed
    BY <1>1, ControlAssumption DEF TakeRequest, ControlTypes
  <2>6. ControlTypes'
    BY <2>4, <2>5 DEF CheckRequest, Thread, ControlTypes, askVars
  <2>7. NotifierComes' /\ NoLostWakeup'
    BY <2>4 DEF CheckRequest, Thread, NotifierComes, NoLostWakeup, askVars, vm_paging_needed
  <2> QED BY <2>6, <2>7
<1>2. CASE request = "IDLE" /\ lw' = [lw EXCEPT !.pc = "asleep"] /\ UNCHANGED << request, freed >>
  <2>1. lw' \in ThreadState
    BY <1>2 DEF ControlTypes, ThreadState
  <2>2. ControlTypes'
    BY <1>2, <2>1 DEF CheckRequest, Thread, ControlTypes, askVars
  <2>3. NotifierComes' /\ NoLostWakeup'
    BY <1>2 DEF CheckRequest, Thread, NotifierComes, NoLostWakeup, askVars, vm_paging_needed
  <2> QED BY <2>2, <2>3
<1> QED BY <1>1, <1>2 DEF CheckRequest

LEMMA ControlSteps == ControlInv /\ ControlNext => ControlInv'
<1> SUFFICES ASSUME ControlInv, ControlNext PROVE ControlInv'
  OBVIOUS
<1>1. CASE Worker
  <2>1. ASSUME ClearWanted \/ TestNeeded \/ ClearIfMet \/ TestWanted \/ ClearNeeded \/ TestPass
                 \/ Sleep \/ Timeout
        PROVE  ControlInv'
    <3>1. Keep
      BY <2>1 DEF ClearWanted, TestNeeded, ClearIfMet, TestWanted, ClearNeeded, TestPass, Sleep, Timeout
    <3> QED BY <2>1, <3>1, LoopStep
  <2> QED BY <1>1, <2>1, ScanStep DEF Worker
<1>2. CASE LaundryWorker
  BY <1>2, DecideStep, CheckStep, LaunderStep DEF LaundryWorker
<1>3. CASE \E a \in Proc : Alloc(a) \/ AllocFails(a) \/ Release(a) \/ Caller(a)
  BY <1>3, AllocStep, ReleaseStep, CallerStep
<1> QED BY <1>1, <1>2, <1>3 DEF ControlNext

LEMMA ControlInvariant == Spec => []ControlInv
<1>1. ControlInv /\ [Next]_vars => ControlInv'
  <2> SUFFICES ASSUME ControlInv, [Next]_vars PROVE ControlInv'
    OBVIOUS
  <2>1. CASE ControlNext
    BY <2>1, ControlSteps
  <2>2. CASE UNCHANGED ctlVars
    BY <2>2, ControlStutter
  <2> QED BY <2>1, <2>2 DEF Next, InControl, InOom, InSwap, vars
<1> QED BY ControlStart, <1>1, PTL DEF Spec

\* No thread sleeps while there is work for it: when pages are needed the worker
\* is awake or somebody is about to notify it, who waits for pages is known to the
\* daemon, and the laundry thread has no request.
THEOREM NobodyOversleeps == Spec => []NobodySleepsOnWork
<1>1. ControlInv => NobodySleepsOnWork
  BY DEF ControlInv, NobodySleepsOnWork
<1> QED BY <1>1, ControlInvariant, PTL

-----------------------------------------------------------------------------
(* The out-of-memory killer: what a daemon adds to the counts. *)

Num(b)      == IF b THEN 1 ELSE 0
HasVoted(s) == s.oom /\ s.pc # "vote"
IsGoing(s)  == s.pc = "unvote"
Measures(s, p) == s.cur = p /\ s.pc \in Measuring
UsesOf(s, p)   == Num(s.big = p) + Num(Measures(s, p))

LEMMA SameCardinality == \A S : Oom!Cardinality(S) = Cardinality(S)
BY Zenon DEF Oom!Cardinality, Cardinality

\* Two sets of which only one element may be in one and not in the other.
LEMMA OneMember ==
    ASSUME NEW S, IsFiniteSet(S), NEW d \in S, NEW A \in SUBSET S, NEW B \in SUBSET S,
           A \ {d} = B \ {d}
    PROVE  /\ Cardinality(A) \in Nat /\ Cardinality(B) \in Nat
           /\ Cardinality(B) = Cardinality(A) + Num(d \in B) - Num(d \in A)
           /\ Cardinality(A) >= Num(d \in A) /\ Cardinality(A) <= Cardinality(S)
<1>1. IsFiniteSet(A) /\ IsFiniteSet(B) /\ Cardinality(A) <= Cardinality(S)
  BY FS_Subset
<1>2. Cardinality(A) \in Nat /\ Cardinality(B) \in Nat
  BY <1>1, FS_CardinalityType
<1>3. /\ Cardinality(A \ {d}) = Cardinality(A) - Num(d \in A)
      /\ Cardinality(B \ {d}) = Cardinality(B) - Num(d \in B)
  <2>1. Cardinality(A \ {d}) = IF d \in A THEN Cardinality(A) - 1 ELSE Cardinality(A)
    BY <1>1, FS_RemoveElement
  <2>2. Cardinality(B \ {d}) = IF d \in B THEN Cardinality(B) - 1 ELSE Cardinality(B)
    BY <1>1, FS_RemoveElement
  <2> QED BY <1>2, <2>1, <2>2 DEF Num
<1>4. Cardinality(A \ {d}) \in Nat
  BY <1>1, FS_RemoveElement, FS_CardinalityType
<1> QED BY <1>1, <1>2, <1>3, <1>4 DEF Num

\* The daemon d has come to the state s.
Moves(d, s) == dom' = [dom EXCEPT ![d] = s] /\ UNCHANGED << version, domains >>

LEMMA Finite == OomTypes => IsFiniteSet(domains) /\ Cardinality(domains) \in Nat
BY OomAssumption, FS_Subset, FS_CardinalityType DEF OomTypes

LEMMA MovedIs ==
    ASSUME OomTypes, NEW d \in domains, NEW s \in DomState, Moves(d, s)
    PROVE  /\ dom' \in [Domain -> DomState] /\ dom'[d] = s /\ domains' = domains
           /\ \A e \in domains : dom[e] \in DomState /\ (e # d => dom'[e] = dom[e])
           /\ \A e \in Domain : e # d => dom'[e] = dom[e]
BY DEF OomTypes, Moves

LEMMA VotesCount ==
    ASSUME OomTypes, NEW d \in domains, NEW s \in DomState, Moves(d, s)
    PROVE  /\ Cardinality(Voted) \in Nat /\ Cardinality(Going) \in Nat
           /\ Cardinality(Voted') = Cardinality(Voted) + Num(HasVoted(s)) - Num(HasVoted(dom[d]))
           /\ Cardinality(Going') = Cardinality(Going) + Num(IsGoing(s)) - Num(IsGoing(dom[d]))
<1>1. IsFiniteSet(domains)
  BY Finite
<1>2. /\ dom'[d] = s /\ domains' = domains
      /\ \A e \in domains : e # d => dom'[e] = dom[e]
  BY MovedIs
<1>3. /\ Voted \in SUBSET domains /\ Voted' \in SUBSET domains
      /\ Voted \ {d} = Voted' \ {d}
      /\ d \in Voted <=> HasVoted(dom[d])
      /\ d \in Voted' <=> HasVoted(s)
  BY <1>2 DEF Voted, HasVoted
<1>4. /\ Going \in SUBSET domains /\ Going' \in SUBSET domains
      /\ Going \ {d} = Going' \ {d}
      /\ d \in Going <=> IsGoing(dom[d])
      /\ d \in Going' <=> IsGoing(s)
  BY <1>2 DEF Going, IsGoing
<1>5. /\ Cardinality(Voted) \in Nat
      /\ Cardinality(Voted') = Cardinality(Voted) + Num(d \in Voted') - Num(d \in Voted)
  BY <1>1, <1>3, OneMember
<1>6. /\ Cardinality(Going) \in Nat
      /\ Cardinality(Going') = Cardinality(Going) + Num(d \in Going') - Num(d \in Going)
  BY <1>1, <1>4, OneMember
<1> QED BY <1>3, <1>4, <1>5, <1>6 DEF Num

LEMMA UsesCount ==
    ASSUME OomTypes, NEW d \in domains, NEW s \in DomState, Moves(d, s), NEW p \in Nat
    PROVE  /\ Oom!Uses(p) \in Nat /\ Oom!Uses(p)' \in Nat
           /\ Oom!Uses(p)' = Oom!Uses(p) + UsesOf(s, p) - UsesOf(dom[d], p)
           /\ Oom!Uses(p) >= UsesOf(dom[d], p)
<1>1. IsFiniteSet(domains)
  BY Finite
<1>2. /\ dom'[d] = s /\ domains' = domains
      /\ \A e \in domains : e # d => dom'[e] = dom[e]
  BY MovedIs
<1> DEFINE B == {e \in domains : dom[e].big = p}
           C == {e \in domains : dom[e].cur = p /\ dom[e].pc \in {"measure", "compare"}}
<1>3. /\ B \in SUBSET domains /\ B' \in SUBSET domains /\ B \ {d} = B' \ {d}
      /\ d \in B <=> dom[d].big = p
      /\ d \in B' <=> s.big = p
  BY <1>2
<1>4. /\ C \in SUBSET domains /\ C' \in SUBSET domains /\ C \ {d} = C' \ {d}
      /\ d \in C <=> Measures(dom[d], p)
      /\ d \in C' <=> Measures(s, p)
  BY <1>2 DEF Measures, Measuring
<1>5. Oom!Uses(p) = Cardinality(B) + Cardinality(C) /\ Oom!Uses(p)' = Cardinality(B') + Cardinality(C')
  BY SameCardinality, Zenon DEF Oom!Uses
<1> HIDE DEF B, C
<1>6. /\ Cardinality(B) \in Nat /\ Cardinality(B') \in Nat /\ Cardinality(B) >= Num(d \in B)
      /\ Cardinality(B') = Cardinality(B) + Num(d \in B') - Num(d \in B)
  BY <1>1, <1>3, OneMember
<1>7. /\ Cardinality(C) \in Nat /\ Cardinality(C') \in Nat /\ Cardinality(C) >= Num(d \in C)
      /\ Cardinality(C') = Cardinality(C) + Num(d \in C') - Num(d \in C)
  BY <1>1, <1>4, OneMember
<1> QED BY <1>3, <1>4, <1>5, <1>6, <1>7 DEF Num, UsesOf

\* At most two uses for each daemon.
LEMMA UsesBounded ==
    ASSUME OomTypes, NEW p \in Nat
    PROVE  Oom!Uses(p) \in 0 .. 2 * Cardinality(Domain)
<1>1. IsFiniteSet(Domain) /\ domains \in SUBSET Domain
  BY OomAssumption DEF OomTypes
<1> DEFINE B == {e \in domains : dom[e].big = p}
           C == {e \in domains : dom[e].cur = p /\ dom[e].pc \in {"measure", "compare"}}
<1>2. B \in SUBSET Domain /\ C \in SUBSET Domain
  BY <1>1
<1>3. Oom!Uses(p) = Cardinality(B) + Cardinality(C)
  BY SameCardinality, Zenon DEF Oom!Uses
<1> HIDE DEF B, C
<1>4. /\ Cardinality(B) \in Nat /\ Cardinality(C) \in Nat /\ Cardinality(Domain) \in Nat
      /\ Cardinality(B) <= Cardinality(Domain) /\ Cardinality(C) <= Cardinality(Domain)
  BY <1>1, <1>2, FS_Subset, FS_CardinalityType
<1> QED BY <1>3, <1>4

-----------------------------------------------------------------------------
(* The out-of-memory killer: its steps. *)

LEMMA Typed ==
    ASSUME OomInv
    PROVE  /\ Len(proc) \in Nat /\ DOMAIN proc = 1 .. Len(proc)
           /\ \A p \in 1 .. Len(proc) : proc[p] \in ProcState
           /\ \A d \in domains : dom[d] \in DomState /\ Settled(dom[d])
BY DEF OomInv, OomTypes, Daemons

\* A daemon that moves keeps the invariant if it counts its vote, and holds what
\* it uses and nothing else.
LEMMA MoveKeeps ==
    ASSUME OomInv, NEW d \in domains, NEW s \in DomState, Moves(d, s),
           UNCHANGED << hopeless, exits >>, Settled(s),
           vote' = vote + Num(HasVoted(s)) - Num(HasVoted(dom[d]))
                        + Num(IsGoing(s)) - Num(IsGoing(dom[d])),
           proc' \in Seq(ProcState), Len(proc') = Len(proc),
           \A p \in 1 .. Len(proc) :
                HeldAs(proc'[p], Oom!Uses(p) + UsesOf(s, p) - UsesOf(dom[d], p))
    PROVE  OomInv'
<1>1. OomTypes
  BY DEF OomInv
<1>2. /\ dom' \in [Domain -> DomState] /\ dom'[d] = s /\ domains' = domains
      /\ \A e \in Domain : e # d => dom'[e] = dom[e]
  BY <1>1, MovedIs
<1>3. OomTypes'
  BY <1>1, <1>2 DEF OomTypes, Moves, Num
<1>4. Daemons'
  BY <1>2 DEF OomInv, Daemons, Settled
<1>5. Votes'
  BY <1>1, VotesCount DEF OomInv, Votes, Num
<1>6. Held'
  <2>1. version' = version
    BY DEF Moves
  <2>2. \A p \in 1 .. Len(proc) : Oom!Uses(p)' = Oom!Uses(p) + UsesOf(s, p) - UsesOf(dom[d], p)
    BY <1>1, UsesCount, Typed
  <2> QED BY <2>1, <2>2 DEF Held, HeldAs
<1> QED BY <1>3, <1>4, <1>5, <1>6 DEF OomInv

\* So it does if it uses what it has used.
LEMMA QuietMove ==
    ASSUME OomInv, NEW d \in domains, NEW s \in DomState, Moves(d, s),
           UNCHANGED << hopeless, exits, proc >>, Settled(s),
           vote' = vote + Num(HasVoted(s)) - Num(HasVoted(dom[d]))
                        + Num(IsGoing(s)) - Num(IsGoing(dom[d])),
           \A p \in 1 .. Len(proc) : UsesOf(s, p) = UsesOf(dom[d], p)
    PROVE  OomInv'
<1>1. \A p \in 1 .. Len(proc) : HeldAs(proc'[p], Oom!Uses(p) + UsesOf(s, p) - UsesOf(dom[d], p))
  <2> TAKE p \in 1 .. Len(proc)
  <2>1. Oom!Uses(p) \in Nat
    BY Typed, UsesCount DEF OomInv
  <2>2. UsesOf(s, p) \in Int
    BY DEF UsesOf, Num
  <2>3. HeldAs(proc[p], Oom!Uses(p))
    BY DEF OomInv, Held
  <2>4. Oom!Uses(p) + UsesOf(s, p) - UsesOf(dom[d], p) = Oom!Uses(p)
    BY <2>1, <2>2
  <2> QED BY <2>3, <2>4
<1>2. proc' \in Seq(ProcState) /\ Len(proc') = Len(proc)
  BY DEF OomInv, OomTypes
<1> QED BY <1>1, <1>2, MoveKeeps

\* Away from the walk nothing is used.
LEMMA UsesNothing ==
    ASSUME NEW s, Settled(s), s.pc \notin Killing
    PROVE  \A p \in 1 .. Len(proc) : UsesOf(s, p) = 0
BY DEF Settled, UsesOf, Num, Measures, Measuring, Killing

LEMMA VoteSteps ==
    ASSUME OomInv, NEW d \in domains,
           (\E failed \in BOOLEAN : Oom!mightbe_oom(d, failed)) \/ Oom!Vote(d) \/ Oom!Unvote(d)
    PROVE  OomInv'
<1> DEFINE old == dom[d]
<1>1. old \in DomState /\ Settled(old)
  BY Typed
<1>2. vote \in Int /\ Len(proc) \in Nat
  BY Typed DEF OomInv, OomTypes
<1>3. ASSUME NEW failed \in BOOLEAN, Oom!mightbe_oom(d, failed) PROVE OomInv'
  <2> DEFINE troubled == Oom!LowOnBoth(failed) \/ (version # 10 /\ Oom!OomSequence(d, failed) >= OomSeq)
             seq == IF version = 10 \/ troubled THEN 0 ELSE Oom!OomSequence(d, failed)
             oom == troubled
             pc  == IF troubled = old.oom THEN "scan" ELSE IF troubled THEN "vote" ELSE "unvote"
  <2>1. seq \in 0 .. OomSeq
    <3>1. old.seq \in Nat /\ OomSeq \in Nat
      BY <1>1, OomAssumption DEF DomState
    <3>2. Oom!OomSequence(d, failed) \in Nat
      BY <3>1 DEF Oom!OomSequence
    <3> QED BY <3>1, <3>2
  <2>2. old.pc = "scan" /\ old.big = 0
    BY <1>1, <1>3 DEF Oom!mightbe_oom, Settled, Killing, Measuring
  <2>3. \E s \in DomState :
          /\ dom' = [dom EXCEPT ![d] = s]
          /\ s.big = 0
          /\ \/ s.pc = "scan" /\ s.oom = old.oom
             \/ s.pc = "unvote" /\ ~s.oom /\ old.oom
             \/ s.pc = "vote" /\ s.oom /\ ~old.oom
    <3> DEFINE s == [old EXCEPT !.seq = seq]
    <3>1. s \in DomState /\ s.pc = "scan" /\ s.big = 0 /\ s.oom = old.oom /\ old.oom \in BOOLEAN
      BY <1>1, <2>1, <2>2 DEF DomState
    <3>2. \/ dom' = [dom EXCEPT ![d] = s]
          \/ old.oom /\ dom' = [dom EXCEPT ![d] = [s EXCEPT !.oom = FALSE, !.pc = "unvote"]]
          \/ ~old.oom /\ dom' = [dom EXCEPT ![d] = [s EXCEPT !.oom = TRUE, !.pc = "vote"]]
      BY <1>3, <3>1 DEF Oom!mightbe_oom, Oom!GoDom
    <3> HIDE DEF s
    <3>3. /\ [s EXCEPT !.oom = FALSE, !.pc = "unvote"] \in DomState
          /\ [s EXCEPT !.oom = TRUE, !.pc = "vote"] \in DomState
      BY <3>1 DEF DomState
    <3> QED BY <3>1, <3>2, <3>3 DEF DomState
  <2>4. PICK s \in DomState :
          /\ dom' = [dom EXCEPT ![d] = s]
          /\ s.big = 0
          /\ \/ s.pc = "scan" /\ s.oom = old.oom
             \/ s.pc = "unvote" /\ ~s.oom /\ old.oom
             \/ s.pc = "vote" /\ s.oom /\ ~old.oom
    BY <2>3
  <2>5. Moves(d, s) /\ UNCHANGED << hopeless, exits, proc, vote >>
    BY <1>3, <2>4 DEF Oom!mightbe_oom, Oom!Rest, Moves
  <2>6. Settled(s) /\ s.pc \notin Killing
    BY <1>2, <2>4 DEF Settled, Killing, Measuring
  <2>7. \A p \in 1 .. Len(proc) : UsesOf(s, p) = UsesOf(old, p)
    BY <1>1, <2>2, <2>6, UsesNothing DEF Killing, Measuring
  <2>8. vote' = vote + Num(HasVoted(s)) - Num(HasVoted(old)) + Num(IsGoing(s)) - Num(IsGoing(old))
    BY <1>2, <2>2, <2>4, <2>5 DEF Num, HasVoted, IsGoing
  <2> QED BY <2>5, <2>6, <2>7, <2>8, QuietMove
<1>4. CASE Oom!Vote(d)
  <2> DEFINE pc == IF vote = Oom!Cardinality(domains) - 1 THEN "walk" ELSE "scan"
             s  == [old EXCEPT !.pc = pc, !.cur = 0, !.big = 0, !.bigsize = 0]
  <2>1. old.pc = "vote" /\ old.oom
    BY <1>1, <1>4 DEF Oom!Vote, Settled
  <2>2. Moves(d, s) /\ UNCHANGED << hopeless, exits, proc >> /\ vote' = vote + 1
    BY <1>4 DEF Oom!Vote, Oom!GoDom, Oom!Rest, Oom!Nobody, Moves
  <2>3. pc \in {"walk", "scan"}
    OBVIOUS
  <2> HIDE DEF pc
  <2>4. /\ s \in DomState /\ s.pc = pc /\ s.oom = old.oom /\ s.big = 0 /\ s.cur = 0
    BY <1>1, <2>3 DEF DomState, Killing
  <2> HIDE DEF s
  <2>5. Settled(s)
    BY <1>2, <2>1, <2>3, <2>4 DEF Settled, Killing, Measuring
  <2>6. \A p \in 1 .. Len(proc) : UsesOf(s, p) = 0 /\ UsesOf(old, p) = 0
    BY <1>1, <2>1, <2>3, <2>4, UsesNothing DEF UsesOf, Num, Measures, Measuring, Killing
  <2>7. vote' = vote + Num(HasVoted(s)) - Num(HasVoted(old)) + Num(IsGoing(s)) - Num(IsGoing(old))
    BY <1>2, <2>1, <2>2, <2>3, <2>4 DEF Num, HasVoted, IsGoing
  <2> QED BY <2>2, <2>4, <2>5, <2>6, <2>7, QuietMove
<1>5. CASE Oom!Unvote(d)
  <2> DEFINE s == [old EXCEPT !.pc = "scan"]
  <2>1. old.pc = "unvote" /\ ~old.oom
    BY <1>1, <1>5 DEF Oom!Unvote, Settled
  <2>2. Moves(d, s) /\ UNCHANGED << hopeless, exits, proc >> /\ vote' = vote - 1
    BY <1>5 DEF Oom!Unvote, Oom!GoDom, Oom!Rest, Moves
  <2>3. /\ s \in DomState /\ s.pc = "scan" /\ s.oom = old.oom /\ s.big = old.big
    BY <1>1 DEF DomState
  <2> HIDE DEF s
  <2>4. Settled(s)
    BY <1>1, <1>2, <2>1, <2>3 DEF Settled, Killing, Measuring
  <2>5. \A p \in 1 .. Len(proc) : UsesOf(s, p) = 0 /\ UsesOf(old, p) = 0
    BY <1>1, <2>1, <2>3, <2>4, UsesNothing DEF Measuring, Killing
  <2>6. vote' = vote + Num(HasVoted(s)) - Num(HasVoted(old)) + Num(IsGoing(s)) - Num(IsGoing(old))
    BY <1>2, <2>1, <2>2, <2>3 DEF Num, HasVoted, IsGoing
  <2> QED BY <2>2, <2>3, <2>4, <2>5, <2>6, QuietMove
<1> QED BY <1>3, <1>4, <1>5

\* The walk finds a process that has not gone, or ends.
LEMMA NextAliveIs ==
    ASSUME OomInv, NEW c \in Nat
    PROVE  LET p == Oom!NextAlive(c) IN p = 0 \/ (p \in 1 .. Len(proc) /\ proc[p].alive)
<1> DEFINE later == {j \in 1 .. Len(proc) : j > c /\ proc[j].alive}
<1>1. Len(proc) \in Nat /\ Oom!Procs = 1 .. Len(proc)
  BY Typed DEF Oom!Procs
<1>2. Oom!NextAlive(c) = IF later = {} THEN 0 ELSE CHOOSE j \in later : \A k \in later : j <= k
  BY <1>1 DEF Oom!NextAlive, Oom!Nobody
<1>3. CASE later # {}
  <2>1. later \in SUBSET (0 .. Len(proc))
    BY <1>1
  <2> HIDE DEF later
  <2>2. \E j \in later : \A k \in later : j <= k
    BY <1>1, <1>3, <2>1, LeastElement
  <2>3. Oom!NextAlive(c) \in later
    BY <1>2, <1>3, <2>2
  <2> QED BY <2>3 DEF later
<1>4. CASE later = {}
  <2>1. Oom!NextAlive(c) = 0
    BY <1>2, <1>4
  <2> QED BY <2>1
<1> QED BY <1>3, <1>4

\* A process that is used once more, or once less, is held or locked for it.
LEMMA UsedOnceMore ==
    ASSUME NEW q \in ProcState, NEW n \in Nat, HeldAs(q, n), q.alive, q.lock = "no"
    PROVE  LET r == IF version = 10 THEN [q EXCEPT !.lock = "daemon"] ELSE [q EXCEPT !.hold = q.hold + 1]
           IN  r \in ProcState /\ HeldAs(r, n + 1)
<1>1. CASE version = 10
  <2>1. n = 0
    BY <1>1 DEF HeldAs
  <2> QED BY <1>1, <2>1 DEF HeldAs, ProcState
<1>2. CASE version # 10
  BY <1>2 DEF HeldAs, ProcState
<1> QED BY <1>1, <1>2

LEMMA UsedOnceLess ==
    ASSUME NEW q \in ProcState, NEW n \in Nat, HeldAs(q, n), n > 0
    PROVE  LET r == IF version = 10 THEN [q EXCEPT !.lock = "no"] ELSE [q EXCEPT !.hold = q.hold - 1]
           IN  r \in ProcState /\ HeldAs(r, n - 1)
<1>1. CASE version = 10
  <2>1. n = 1
    BY <1>1 DEF HeldAs
  <2> QED BY <1>1, <2>1 DEF HeldAs, ProcState
<1>2. CASE version # 10
  BY <1>2 DEF HeldAs, ProcState
<1> QED BY <1>1, <1>2

LEMMA ProcSet ==
    ASSUME NEW s \in Seq(ProcState), NEW p \in 1 .. Len(s), NEW r \in ProcState
    PROVE  LET t == [s EXCEPT ![p] = r] IN
           /\ t \in Seq(ProcState) /\ Len(t) = Len(s) /\ t[p] = r
           /\ \A q \in 1 .. Len(s) : q # p => t[q] = s[q]
OBVIOUS

LEMMA ReleaseIs ==
    ASSUME OomInv, NEW p \in 1 .. Len(proc)
    PROVE  Oom!Release(p) = [proc EXCEPT ![p] = IF version = 10 THEN [proc[p] EXCEPT !.lock = "no"]
                                                ELSE [proc[p] EXCEPT !.hold = proc[p].hold - 1]]
<1>1. p # 0
  OBVIOUS
<1> QED BY <1>1, Typed DEF Oom!Release, Oom!Nobody

LEMMA VisitStep == ASSUME OomInv, NEW d \in domains, Oom!Visit(d) PROVE OomInv'
<1> DEFINE old == dom[d]
           p == Oom!NextAlive(old.cur)
<1>1. old \in DomState /\ Settled(old) /\ vote \in Int /\ proc \in Seq(ProcState) /\ Len(proc) \in Nat
  BY Typed DEF OomInv, OomTypes
<1>2. /\ old.pc = "walk" /\ p # 0 /\ (version = 10 \/ proc[p].lock = "no")
      /\ UNCHANGED << hopeless, exits, vote, version, domains >>
  BY DEF Oom!Visit, Oom!Rest, Oom!Nobody
<1>3. p \in 1 .. Len(proc) /\ proc[p].alive
  BY <1>1, <1>2, NextAliveIs DEF DomState
<1>4. CASE Oom!Skipped(p)
  <2> DEFINE s == [old EXCEPT !.cur = p]
  <2>1. Moves(d, s) /\ UNCHANGED proc
    BY <1>2, <1>4 DEF Oom!Visit, Oom!GoDom, Moves
  <2> HIDE DEF p
  <2>2. /\ s \in DomState /\ s.pc = "walk" /\ s.oom = old.oom /\ s.big = old.big
    BY <1>1, <1>2, <1>3, SMTT(60) DEF DomState
  <2> HIDE DEF s
  <2>3. Settled(s)
    BY <1>1, <1>2, <2>2 DEF Settled, Killing, Measuring
  <2>4. \A q \in 1 .. Len(proc) : UsesOf(s, q) = UsesOf(old, q)
    BY <1>2, <2>2 DEF UsesOf, Num, Measures, Measuring
  <2>5. vote' = vote + Num(HasVoted(s)) - Num(HasVoted(old)) + Num(IsGoing(s)) - Num(IsGoing(old))
    BY <1>1, <1>2, <2>2 DEF Num, HasVoted, IsGoing
  <2> QED BY <1>2, <2>1, <2>2, <2>3, <2>4, <2>5, QuietMove
<1>5. CASE ~Oom!Skipped(p)
  <2> DEFINE s == [old EXCEPT !.cur = p, !.pc = "measure"]
             r == IF version = 10 THEN [proc[p] EXCEPT !.lock = "daemon"]
                  ELSE [proc[p] EXCEPT !.hold = proc[p].hold + 1]
  <2>1. Moves(d, s)
    BY <1>2, <1>5 DEF Oom!Visit, Oom!GoDom, Moves
  <2>2. proc[p].lock = "no"
    BY <1>5 DEF Oom!Skipped
  <2>3. proc' = [proc EXCEPT ![p] = r]
    BY <1>2, <1>5 DEF Oom!Visit, Oom!KeepLocked, Oom!Hold
  <2> HIDE DEF p
  <2>4. r \in ProcState /\ HeldAs(r, Oom!Uses(p) + 1)
    <3>1. Oom!Uses(p) \in Nat
      BY <1>3, UsesBounded DEF OomInv
    <3>2. proc[p] \in ProcState /\ HeldAs(proc[p], Oom!Uses(p))
      BY <1>3, Typed DEF OomInv, Held
    <3> QED BY <1>3, <2>2, <3>1, <3>2, UsedOnceMore
  <2>5. /\ s \in DomState /\ s.pc = "measure" /\ s.oom = old.oom /\ s.big = old.big /\ s.cur = p
    <3>1. p \in Nat /\ "measure" \in {"scan", "vote", "unvote"} \cup Killing
      BY <1>1, <1>3 DEF Killing, Measuring
    <3> DEFINE m == [old EXCEPT !.cur = p]
    <3>2. /\ m \in DomState /\ m.oom = old.oom /\ m.big = old.big /\ m.cur = p
          /\ s = [m EXCEPT !.pc = "measure"]
      BY <1>1, <3>1 DEF DomState
    <3> HIDE DEF m, s
    <3> QED BY <3>1, <3>2 DEF DomState
  <2> HIDE DEF s, r
  <2>6. Settled(s)
    BY <1>1, <1>2, <1>3, <2>5 DEF Settled, Killing, Measuring
  <2>7. vote' = vote + Num(HasVoted(s)) - Num(HasVoted(old)) + Num(IsGoing(s)) - Num(IsGoing(old))
    BY <1>1, <1>2, <2>5 DEF Num, HasVoted, IsGoing
  <2>8. /\ proc' \in Seq(ProcState) /\ Len(proc') = Len(proc) /\ proc'[p] = r
        /\ \A q \in 1 .. Len(proc) : q # p => proc'[q] = proc[q]
    BY <1>1, <1>3, <2>3, <2>4, ProcSet
  <2>9. \A q \in 1 .. Len(proc) : HeldAs(proc'[q], Oom!Uses(q) + UsesOf(s, q) - UsesOf(old, q))
    <3> TAKE q \in 1 .. Len(proc)
    <3>1. Oom!Uses(q) \in Nat /\ HeldAs(proc[q], Oom!Uses(q))
      BY UsesBounded DEF OomInv, Held
    <3>2. UsesOf(s, q) = UsesOf(old, q) + Num(q = p) /\ UsesOf(old, q) \in Int
      BY <1>2, <2>5 DEF UsesOf, Num, Measures, Measuring
    <3>3. Oom!Uses(q) + UsesOf(s, q) - UsesOf(old, q) = Oom!Uses(q) + Num(q = p)
      BY <3>1, <3>2 DEF Num
    <3>4. CASE q = p
      BY <2>4, <2>8, <3>3, <3>4 DEF Num
    <3>5. CASE q # p
      <4>1. Oom!Uses(q) + UsesOf(s, q) - UsesOf(old, q) = Oom!Uses(q)
        BY <3>1, <3>3, <3>5 DEF Num
      <4> QED BY <2>8, <3>1, <3>5, <4>1
    <3> QED BY <3>4, <3>5
  <2> QED BY <1>2, <2>1, <2>5, <2>6, <2>7, <2>8, <2>9, MoveKeeps
<1> QED BY <1>4, <1>5

LEMMA MeasureStep == ASSUME OomInv, NEW d \in domains, Oom!Measure(d) PROVE OomInv'
<1> DEFINE old == dom[d]
           size == Oom!PageCount(old.cur)
           s == [old EXCEPT !.pc = "compare", !.size = size]
<1>1. old \in DomState /\ Settled(old) /\ vote \in Int /\ Len(proc) \in Nat
  BY Typed DEF OomInv, OomTypes
<1>2. old.pc = "measure" /\ Moves(d, s) /\ UNCHANGED << hopeless, exits, vote, proc >>
  BY DEF Oom!Measure, Oom!GoDom, Oom!Rest, Moves
<1>3. size \in Nat
  <2>1. proc[old.cur] \in ProcState
    BY <1>1, <1>2, Typed DEF Settled, Measuring
  <2> QED BY <2>1 DEF Oom!PageCount, ProcState
<1> HIDE DEF size
<1>4. /\ s \in DomState /\ s.pc = "compare" /\ s.oom = old.oom /\ s.big = old.big /\ s.cur = old.cur
  BY <1>1, <1>3 DEF DomState, Killing, Measuring
<1> HIDE DEF s
<1>5. Settled(s)
  BY <1>1, <1>2, <1>4 DEF Settled, Killing, Measuring
<1>6. \A q \in 1 .. Len(proc) : UsesOf(s, q) = UsesOf(old, q)
  BY <1>2, <1>4 DEF UsesOf, Num, Measures, Measuring
<1>7. vote' = vote + Num(HasVoted(s)) - Num(HasVoted(old)) + Num(IsGoing(s)) - Num(IsGoing(old))
  BY <1>1, <1>2, <1>4 DEF Num, HasVoted, IsGoing
<1> QED BY <1>2, <1>4, <1>5, <1>6, <1>7, QuietMove

\* A daemon that uses a process is one of its uses.
LEMMA UsesAtLeast ==
    ASSUME OomTypes, NEW d \in domains, NEW p \in Nat
    PROVE  Oom!Uses(p) \in Nat /\ Oom!Uses(p) >= UsesOf(dom[d], p)
<1>1. IsFiniteSet(domains)
  BY Finite
<1> DEFINE B == {e \in domains : dom[e].big = p}
           C == {e \in domains : dom[e].cur = p /\ dom[e].pc \in {"measure", "compare"}}
<1>2. /\ B \in SUBSET domains /\ C \in SUBSET domains
      /\ d \in B <=> dom[d].big = p
      /\ d \in C <=> Measures(dom[d], p)
  BY DEF Measures, Measuring
<1>3. Oom!Uses(p) = Cardinality(B) + Cardinality(C)
  BY SameCardinality, Zenon DEF Oom!Uses
<1> HIDE DEF B, C
<1>4. Cardinality(B) \in Nat /\ Cardinality(B) >= Num(d \in B)
  BY <1>1, <1>2, OneMember
<1>5. Cardinality(C) \in Nat /\ Cardinality(C) >= Num(d \in C)
  BY <1>1, <1>2, OneMember
<1> QED BY <1>2, <1>3, <1>4, <1>5 DEF UsesOf, Num

\* What a release does to the holds, for a daemon that stops using big or cur.
LEMMA ReleaseKeeps ==
    ASSUME OomInv, NEW d \in domains, NEW p \in 1 .. Len(proc), UsesOf(dom[d], p) > 0
    PROVE  LET t == Oom!Release(p) IN
           /\ t \in Seq(ProcState) /\ Len(t) = Len(proc)
           /\ HeldAs(t[p], Oom!Uses(p) - 1)
           /\ \A q \in 1 .. Len(proc) : q # p => t[q] = proc[q]
<1> DEFINE r == IF version = 10 THEN [proc[p] EXCEPT !.lock = "no"]
                ELSE [proc[p] EXCEPT !.hold = proc[p].hold - 1]
<1>1. dom[d] \in DomState /\ proc \in Seq(ProcState) /\ OomTypes
  BY Typed DEF OomInv, OomTypes
<1>2. Oom!Uses(p) \in Nat /\ Oom!Uses(p) > 0
  <2>1. Oom!Uses(p) \in Nat /\ Oom!Uses(p) >= UsesOf(dom[d], p)
    BY <1>1, UsesAtLeast
  <2>2. UsesOf(dom[d], p) \in Nat
    BY DEF UsesOf, Num
  <2> QED BY <2>1, <2>2
<1>3. proc[p] \in ProcState /\ HeldAs(proc[p], Oom!Uses(p))
  BY Typed DEF OomInv, Held
<1>4. r \in ProcState /\ HeldAs(r, Oom!Uses(p) - 1)
  BY <1>2, <1>3, UsedOnceLess
<1>5. Oom!Release(p) = [proc EXCEPT ![p] = r]
  BY ReleaseIs
<1> HIDE DEF r
<1> QED BY <1>1, <1>4, <1>5, ProcSet

LEMMA CompareStep == ASSUME OomInv, NEW d \in domains, Oom!Compare(d) PROVE OomInv'
<1> DEFINE old == dom[d]
           bigger == old.size > old.bigsize
           s == IF bigger THEN [old EXCEPT !.pc = "walk", !.big = old.cur, !.bigsize = old.size]
                ELSE [old EXCEPT !.pc = "walk"]
           p == IF bigger THEN old.big ELSE old.cur
<1>1. old \in DomState /\ Settled(old) /\ vote \in Int /\ proc \in Seq(ProcState) /\ Len(proc) \in Nat
  BY Typed DEF OomInv, OomTypes
<1>2. /\ old.pc = "compare" /\ Moves(d, s) /\ UNCHANGED << hopeless, exits, vote >>
      /\ proc' = Oom!Release(p)
  BY DEF Oom!Compare, Oom!GoDom, Oom!Rest, Moves
<1>3. old.cur \in 1 .. Len(proc) /\ old.big \in 0 .. Len(proc) /\ old.oom
  BY <1>1, <1>2 DEF Settled, Killing, Measuring
<1> HIDE DEF bigger
<1>4. /\ s \in DomState /\ s.pc = "walk" /\ s.oom = old.oom
      /\ s.big = IF bigger THEN old.cur ELSE old.big
  <2>1. CASE bigger
    <3> DEFINE m == [old EXCEPT !.pc = "walk"]
               n == [m EXCEPT !.big = old.cur]
    <3>1. m \in DomState /\ m.pc = "walk" /\ m.oom = old.oom /\ s = [n EXCEPT !.bigsize = old.size]
      BY <1>1, <2>1 DEF DomState, Killing
    <3>2. old.cur \in Nat /\ old.size \in Nat
      BY <1>1 DEF DomState
    <3> HIDE DEF m, s
    <3>3. n \in DomState /\ n.pc = "walk" /\ n.oom = old.oom /\ n.big = old.cur
      BY <3>1, <3>2 DEF DomState
    <3> HIDE DEF n
    <3> QED BY <2>1, <3>1, <3>2, <3>3 DEF DomState
  <2>2. CASE ~bigger
    BY <1>1, <2>2 DEF DomState, Killing
  <2> QED BY <2>1, <2>2
<1> HIDE DEF s
<1>5. Settled(s)
  BY <1>1, <1>3, <1>4 DEF Settled, Killing, Measuring
<1>6. vote' = vote + Num(HasVoted(s)) - Num(HasVoted(old)) + Num(IsGoing(s)) - Num(IsGoing(old))
  BY <1>1, <1>2, <1>3, <1>4 DEF Num, HasVoted, IsGoing
\* It stops using p, if that is a process.
<1>7. \A q \in 1 .. Len(proc) : UsesOf(s, q) = UsesOf(old, q) - Num(q = p)
  BY <1>2, <1>3, <1>4 DEF UsesOf, Num, Measures, Measuring
<1>8. p \in 0 .. Len(proc)
  BY <1>3
<1> HIDE DEF p
<1>9. CASE p = 0
  <2>1. proc' = proc
    BY <1>2, <1>9 DEF Oom!Release, Oom!Nobody
  <2>2. \A q \in 1 .. Len(proc) : UsesOf(s, q) = UsesOf(old, q)
    <3> TAKE q \in 1 .. Len(proc)
    <3>1. UsesOf(old, q) \in Int /\ q # 0
      BY <1>1 DEF UsesOf, Num
    <3>2. UsesOf(s, q) = UsesOf(old, q) - Num(q = p)
      BY <1>7
    <3>3. Num(q = p) = 0
      BY <1>9, <3>1 DEF Num
    <3> QED BY <3>1, <3>2, <3>3
  <2> QED BY <1>2, <1>4, <1>5, <1>6, <2>1, <2>2, QuietMove
<1>10. CASE p # 0
  <2>1. p \in 1 .. Len(proc)
    BY <1>1, <1>8, <1>10
  <2>2. UsesOf(old, p) > 0
    <3>1. UsesOf(s, p) = UsesOf(old, p) - 1
      BY <1>7, <2>1 DEF Num
    <3>2. UsesOf(s, p) \in Nat /\ UsesOf(old, p) \in Int
      BY DEF UsesOf, Num
    <3> QED BY <3>1, <3>2
  <2>3. /\ proc' \in Seq(ProcState) /\ Len(proc') = Len(proc)
        /\ HeldAs(proc'[p], Oom!Uses(p) - 1)
        /\ \A q \in 1 .. Len(proc) : q # p => proc'[q] = proc[q]
    BY <1>2, <2>1, <2>2, ReleaseKeeps
  <2>4. \A q \in 1 .. Len(proc) : HeldAs(proc'[q], Oom!Uses(q) + UsesOf(s, q) - UsesOf(old, q))
    <3> TAKE q \in 1 .. Len(proc)
    <3>1. Oom!Uses(q) \in Nat /\ HeldAs(proc[q], Oom!Uses(q)) /\ UsesOf(old, q) \in Int
      <4>1. Oom!Uses(q) \in Nat /\ HeldAs(proc[q], Oom!Uses(q))
        BY UsesBounded DEF OomInv, Held
      <4>2. UsesOf(old, q) \in Int
        BY DEF UsesOf, Num
      <4> QED BY <4>1, <4>2
    <3>2. Oom!Uses(q) + UsesOf(s, q) - UsesOf(old, q) = Oom!Uses(q) - Num(q = p)
      BY <1>7, <3>1 DEF Num
    <3>3. CASE q = p
      BY <2>3, <3>2, <3>3 DEF Num
    <3>4. CASE q # p
      <4>1. Oom!Uses(q) - Num(q = p) = Oom!Uses(q)
        BY <3>1, <3>4 DEF Num
      <4> QED BY <2>3, <3>1, <3>2, <3>4, <4>1
    <3> QED BY <3>3, <3>4
  <2> QED BY <1>2, <1>4, <1>5, <1>6, <2>3, <2>4, MoveKeeps
<1> QED BY <1>9, <1>10

\* At the end of the walk the largest process is killed and released.
LEMMA KillStep == ASSUME OomInv, NEW d \in domains, Oom!Kill(d) PROVE OomInv'
<1> DEFINE old == dom[d]
           p == old.big
           s == [old EXCEPT !.oom = FALSE, !.pc = "unvote", !.cur = 0, !.big = 0,
                            !.bigsize = 0, !.size = 0]
<1>1. old \in DomState /\ Settled(old) /\ vote \in Int /\ proc \in Seq(ProcState) /\ Len(proc) \in Nat
  BY Typed DEF OomInv, OomTypes
<1>2. /\ old.pc = "walk" /\ Moves(d, s) /\ UNCHANGED << hopeless, exits, vote >>
      /\ proc' = IF p = 0 THEN proc ELSE [Oom!Release(p) EXCEPT ![p].killed = TRUE]
  BY DEF Oom!Kill, Oom!GoDom, Oom!Rest, Oom!Nobody, Moves
<1>3. old.big \in 0 .. Len(proc) /\ old.oom
  BY <1>1, <1>2 DEF Settled, Killing, Measuring
<1>4. /\ s \in DomState /\ s.pc = "unvote" /\ s.oom = FALSE /\ s.big = 0 /\ s.cur = 0
  <2> DEFINE m == [old EXCEPT !.oom = FALSE, !.pc = "unvote"]
             n == [m EXCEPT !.cur = 0, !.big = 0]
  <2>1. m \in DomState /\ m.pc = "unvote" /\ m.oom = FALSE /\ s = [n EXCEPT !.bigsize = 0, !.size = 0]
    BY <1>1 DEF DomState
  <2> HIDE DEF m, s
  <2>2. n \in DomState /\ n.pc = "unvote" /\ n.oom = FALSE /\ n.big = 0 /\ n.cur = 0
    BY <2>1 DEF DomState
  <2> HIDE DEF n
  <2> QED BY <2>1, <2>2 DEF DomState
<1> HIDE DEF s
<1>5. Settled(s)
  BY <1>1, <1>4 DEF Settled, Killing, Measuring
<1>6. vote' = vote + Num(HasVoted(s)) - Num(HasVoted(old)) + Num(IsGoing(s)) - Num(IsGoing(old))
  BY <1>1, <1>2, <1>3, <1>4 DEF Num, HasVoted, IsGoing
<1>7. \A q \in 1 .. Len(proc) : UsesOf(s, q) = 0 /\ UsesOf(old, q) = Num(q = p)
  BY <1>2, <1>4 DEF UsesOf, Num, Measures, Measuring
<1>8. CASE p = 0
  <2>1. \A q \in 1 .. Len(proc) : UsesOf(s, q) = UsesOf(old, q)
    BY <1>7, <1>8 DEF Num
  <2> QED BY <1>2, <1>4, <1>5, <1>6, <1>8, <2>1, QuietMove
<1>9. CASE p # 0
  <2> DEFINE t == Oom!Release(p)
             r == [t[p] EXCEPT !.killed = TRUE]
  <2>1. p \in 1 .. Len(proc)
    BY <1>1, <1>3, <1>9
  <2>2. UsesOf(old, p) > 0
    BY <1>7, <2>1 DEF Num
  <2>3. /\ t \in Seq(ProcState) /\ Len(t) = Len(proc)
        /\ HeldAs(t[p], Oom!Uses(p) - 1)
        /\ \A q \in 1 .. Len(proc) : q # p => t[q] = proc[q]
    BY <2>1, <2>2, ReleaseKeeps
  <2>4. proc' = [t EXCEPT ![p] = r]
    BY <1>2, <1>9, <2>1, <2>3
  <2> HIDE DEF t
  <2>5. t[p] \in ProcState
    BY <2>1, <2>3
  <2>6. r \in ProcState /\ HeldAs(r, Oom!Uses(p) - 1)
    BY <2>3, <2>5 DEF ProcState, HeldAs
  <2> HIDE DEF r
  <2>7. /\ proc' \in Seq(ProcState) /\ Len(proc') = Len(proc) /\ proc'[p] = r
        /\ \A q \in 1 .. Len(proc) : q # p => proc'[q] = proc[q]
    <3>1. p \in 1 .. Len(t)
      BY <2>1, <2>3
    <3>2. /\ proc' \in Seq(ProcState) /\ Len(proc') = Len(t) /\ proc'[p] = r
          /\ \A q \in 1 .. Len(t) : q # p => proc'[q] = t[q]
      BY <2>3, <2>4, <2>6, <3>1, ProcSet
    <3> QED BY <2>3, <3>2
  <2>8. \A q \in 1 .. Len(proc) : HeldAs(proc'[q], Oom!Uses(q) + UsesOf(s, q) - UsesOf(old, q))
    <3> TAKE q \in 1 .. Len(proc)
    <3>1. Oom!Uses(q) \in Nat /\ HeldAs(proc[q], Oom!Uses(q))
      BY UsesBounded DEF OomInv, Held
    <3>2. Oom!Uses(q) + UsesOf(s, q) - UsesOf(old, q) = Oom!Uses(q) - Num(q = p)
      BY <1>7, <3>1 DEF Num
    <3>3. CASE q = p
      BY <2>6, <2>7, <3>2, <3>3 DEF Num
    <3>4. CASE q # p
      <4>1. Oom!Uses(q) - Num(q = p) = Oom!Uses(q)
        BY <3>1, <3>4 DEF Num
      <4> QED BY <2>7, <3>1, <3>2, <3>4, <4>1
    <3> QED BY <3>3, <3>4
  <2> QED BY <1>2, <1>4, <1>5, <1>6, <2>7, <2>8, MoveKeeps
<1> QED BY <1>8, <1>9

\* What others do to a process leaves its holds and the daemons alone.
LEMMA OtherKeeps ==
    ASSUME OomInv, NEW p \in 1 .. Len(proc), NEW r \in ProcState, HeldAs(r, Oom!Uses(p)),
           proc' = [proc EXCEPT ![p] = r], exits' \in Nat,
           UNCHANGED << version, domains, vote, dom, hopeless >>
    PROVE  OomInv'
<1>1. proc \in Seq(ProcState)
  BY DEF OomInv, OomTypes
<1>2. /\ proc' \in Seq(ProcState) /\ Len(proc') = Len(proc) /\ proc'[p] = r
      /\ \A q \in 1 .. Len(proc) : q # p => proc'[q] = proc[q]
  BY <1>1, ProcSet
<1>3. OomTypes'
  BY <1>2 DEF OomInv, OomTypes
<1>4. Daemons'
  BY <1>2 DEF OomInv, Daemons, Settled
<1>5. Votes'
  BY DEF OomInv, Votes, Voted, Going
<1>6. \A q : Oom!Uses(q)' = Oom!Uses(q)
  BY DEF Oom!Uses
<1>7. Held'
  BY <1>2, <1>6 DEF OomInv, Held, HeldAs
<1> QED BY <1>3, <1>4, <1>5, <1>7 DEF OomInv

LEMMA OthersStep ==
    ASSUME OomInv, NEW p \in Oom!Procs,
           \/ Oom!LockMap(p) \/ Oom!UnlockMap(p) \/ Oom!LockProc(p) \/ Oom!UnlockProc(p)
           \/ Oom!Protect(p) \/ Oom!Exit(p)
    PROVE  OomInv'
<1> DEFINE q == proc[p]
<1>1. /\ p \in 1 .. Len(proc) /\ q \in ProcState
      /\ HeldAs(q, Oom!Uses(p)) /\ Oom!Uses(p) \in Nat /\ exits \in Nat
  <2>1. p \in 1 .. Len(proc) /\ q \in ProcState
    BY Typed DEF Oom!Procs
  <2>2. HeldAs(q, Oom!Uses(p))
    BY <2>1 DEF OomInv, Held
  <2>3. OomTypes /\ exits \in Nat
    BY DEF OomInv, OomTypes
  <2>4. Oom!Uses(p) \in 0 .. 2 * Cardinality(Domain)
    BY <2>1, <2>3, UsesBounded
  <2>5. Oom!Uses(p) \in Nat
    BY <2>4
  <2> QED BY <2>1, <2>2, <2>3, <2>5
<1>2. UNCHANGED << version, domains, vote, dom, hopeless >> /\ exits' \in Nat
  BY <1>1 DEF Oom!LockMap, Oom!UnlockMap, Oom!LockProc, Oom!UnlockProc, Oom!Protect, Oom!Exit,
              Oom!Others, Oom!Free
<1>3. CASE Oom!LockMap(p)
  <2>1. proc' = [proc EXCEPT ![p] = [q EXCEPT !.map = TRUE]]
    BY <1>3 DEF Oom!LockMap
  <2>2. [q EXCEPT !.map = TRUE] \in ProcState /\ HeldAs([q EXCEPT !.map = TRUE], Oom!Uses(p))
    BY <1>1 DEF ProcState, HeldAs
  <2> QED BY <1>1, <1>2, <2>1, <2>2, OtherKeeps
<1>4. CASE Oom!UnlockMap(p)
  <2>1. proc' = [proc EXCEPT ![p] = [q EXCEPT !.map = FALSE]]
    BY <1>4 DEF Oom!UnlockMap
  <2>2. [q EXCEPT !.map = FALSE] \in ProcState /\ HeldAs([q EXCEPT !.map = FALSE], Oom!Uses(p))
    BY <1>1 DEF ProcState, HeldAs
  <2> QED BY <1>1, <1>2, <2>1, <2>2, OtherKeeps
<1>5. CASE Oom!LockProc(p)
  <2>1. q.lock = "no" /\ proc' = [proc EXCEPT ![p] = [q EXCEPT !.lock = "other"]]
    BY <1>5 DEF Oom!LockProc
  <2>2. [q EXCEPT !.lock = "other"] \in ProcState /\ HeldAs([q EXCEPT !.lock = "other"], Oom!Uses(p))
    BY <1>1, <2>1 DEF ProcState, HeldAs
  <2> QED BY <1>1, <1>2, <2>1, <2>2, OtherKeeps
<1>6. CASE Oom!UnlockProc(p)
  <2>1. q.lock = "other" /\ proc' = [proc EXCEPT ![p] = [q EXCEPT !.lock = "no"]]
    BY <1>6 DEF Oom!UnlockProc
  <2>2. [q EXCEPT !.lock = "no"] \in ProcState /\ HeldAs([q EXCEPT !.lock = "no"], Oom!Uses(p))
    BY <1>1, <2>1 DEF ProcState, HeldAs
  <2> QED BY <1>1, <1>2, <2>1, <2>2, OtherKeeps
<1>7. CASE Oom!Protect(p)
  <2>1. proc' = [proc EXCEPT ![p] = [q EXCEPT !.protected = ~q.protected]]
    BY <1>7 DEF Oom!Protect
  <2> DEFINE r == [q EXCEPT !.protected = ~q.protected]
  <2>2. r \in ProcState /\ HeldAs(r, Oom!Uses(p))
    BY <1>1 DEF ProcState, HeldAs
  <2> QED BY <1>1, <1>2, <2>1, <2>2, OtherKeeps
\* Who exits is neither held nor locked, and so it is not used.
<1>8. CASE Oom!Exit(p)
  <2>1. q.hold = 0 /\ q.lock = "no" /\ proc' = [proc EXCEPT ![p] = [q EXCEPT !.alive = FALSE]]
    BY <1>8 DEF Oom!Exit
  <2>2. Oom!Uses(p) = 0
    BY <1>1, <2>1 DEF HeldAs
  <2> DEFINE r == [q EXCEPT !.alive = FALSE]
  <2>3. r \in ProcState /\ r.hold = 0 /\ r.lock = "no"
    BY <1>1, <2>1 DEF ProcState
  <2>4. proc' = [proc EXCEPT ![p] = r]
    BY <2>1
  <2> HIDE DEF r
  <2>5. HeldAs(r, Oom!Uses(p))
    BY <2>2, <2>3 DEF HeldAs
  <2> QED BY <1>1, <1>2, <2>3, <2>4, <2>5, OtherKeeps
<1> QED BY <1>3, <1>4, <1>5, <1>6, <1>7, <1>8

LEMMA OomSame ==
    ASSUME OomInv, hopeless' \in BOOLEAN, UNCHANGED << version, domains, vote, dom, proc, exits >>
    PROVE  OomInv'
<1>1. OomTypes' /\ Daemons' /\ Votes'
  BY DEF OomInv, OomTypes, Daemons, Settled, Votes, Voted, Going
<1>2. \A q : Oom!Uses(q)' = Oom!Uses(q)
  BY DEF Oom!Uses
<1>3. Held'
  BY <1>2 DEF OomInv, Held, HeldAs
<1> QED BY <1>1, <1>3 DEF OomInv

LEMMA OomSteps == OomInv /\ Oom!OomNext => OomInv'
<1> SUFFICES ASSUME OomInv, Oom!OomNext PROVE OomInv'
  OBVIOUS
<1>1. ASSUME NEW d \in domains, Oom!OomDaemon(d) PROVE OomInv'
  BY <1>1, VoteSteps, VisitStep, MeasureStep, CompareStep, KillStep DEF Oom!OomDaemon
<1>2. CASE Oom!Despair
  BY <1>2, OomSame DEF Oom!Despair
<1> QED BY <1>1, <1>2, OthersStep DEF Oom!OomNext

\* A machine before any daemon has failed; the other parts have no domains.
LEMMA OomStart == Init => OomInv
<1> SUFFICES ASSUME Init PROVE OomInv
  OBVIOUS
<1>1. version \in {10, 11, 12}
  BY DEF Init
<1>2. PICK ds \in SUBSET Domain, lists \in SUBSET Seq([size : Nat, protected : BOOLEAN]) :
        Oom!OomInit(ds, lists)
  <2>1. {<< >>} \in SUBSET Seq([size : Nat, protected : BOOLEAN])
    OBVIOUS
  <2> QED BY <2>1, OomAssumption DEF Init, OomOff
<1>3. PICK l \in lists : proc = [p \in DOMAIN l |->
          [size |-> l[p].size, protected |-> l[p].protected, alive |-> TRUE,
           hold |-> 0, lock |-> "no", map |-> FALSE, killed |-> FALSE]]
  BY <1>2 DEF Oom!OomInit
<1>4. /\ domains \in SUBSET Domain /\ vote = 0 /\ hopeless = FALSE /\ exits \in Nat
      /\ dom = [d \in Domain |-> [pc |-> "scan", oom |-> FALSE, seq |-> 0, cur |-> 0, big |-> 0,
                                  bigsize |-> 0, size |-> 0]]
  BY <1>2, OomAssumption DEF Oom!OomInit, Oom!Idle, Oom!Nobody
<1>5. /\ proc \in Seq(ProcState) /\ Len(proc) \in Nat
      /\ \A p \in 1 .. Len(proc) : proc[p].hold = 0 /\ proc[p].lock = "no"
  <2> DEFINE Kind == [size : Nat, protected : BOOLEAN]
  <2>a. l \in Seq(Kind)
    BY <1>2
  <2> HIDE DEF Kind
  <2>1. Len(l) \in Nat /\ DOMAIN l = 1 .. Len(l) /\ \A p \in 1 .. Len(l) : l[p] \in Kind
    BY <2>a
  <2>2. proc \in [1 .. Len(l) -> ProcState]
    <3> SUFFICES ASSUME NEW p \in 1 .. Len(l)
                 PROVE  [size |-> l[p].size, protected |-> l[p].protected, alive |-> TRUE,
                         hold |-> 0, lock |-> "no", map |-> FALSE, killed |-> FALSE] \in ProcState
      BY <1>3, <2>1
    <3>1. l[p].size \in Nat /\ l[p].protected \in BOOLEAN
      BY <2>1 DEF Kind
    <3> QED BY <3>1 DEF ProcState
  <2>3. proc \in Seq(ProcState) /\ Len(proc) = Len(l)
    BY <2>1, <2>2
  <2> QED BY <1>3, <2>1, <2>3
<1>6. OomTypes
  <2> DEFINE idle == [pc |-> "scan", oom |-> FALSE, seq |-> 0, cur |-> 0, big |-> 0,
                      bigsize |-> 0, size |-> 0]
  <2>a. 0 \in 0 .. OomSeq
    BY OomAssumption
  <2>b. idle \in DomState
    BY <2>a DEF DomState
  <2> HIDE DEF idle
  <2>c. dom = [d \in Domain |-> idle]
    BY <1>4 DEF idle
  <2>1. dom \in [Domain -> DomState]
    BY <2>b, <2>c
  <2>2. domains \subseteq Domain /\ vote \in Int /\ exits \in Nat
    BY <1>4
  <2>4. hopeless \in BOOLEAN
    BY <1>4, Zenon
  <2>3. proc \in Seq(ProcState)
    BY <1>5
  <2> QED BY ONLY <1>1, <2>1, <2>2, <2>3, <2>4, Zenon DEF OomTypes
<1>7. Daemons
  BY <1>4, <1>5 DEF Daemons, Settled, Killing, Measuring
<1>8. Votes
  <2>1. Voted = {} /\ Going = {}
    BY <1>4 DEF Voted, Going
  <2> QED BY <1>4, <2>1, FS_EmptySet DEF Votes
<1>9. Held
  <2> SUFFICES ASSUME NEW p \in 1 .. Len(proc) PROVE HeldAs(proc[p], Oom!Uses(p))
    BY DEF Held
  <2> DEFINE B == {d \in domains : dom[d].big = p}
             C == {d \in domains : dom[d].cur = p /\ dom[d].pc \in {"measure", "compare"}}
  <2>1. B = {} /\ C = {}
    BY <1>4
  <2>2. Oom!Uses(p) = Cardinality(B) + Cardinality(C)
    BY SameCardinality, Zenon DEF Oom!Uses
  <2> HIDE DEF B, C
  <2>3. Oom!Uses(p) = 0
    BY <2>1, <2>2, FS_EmptySet
  <2> QED BY <1>5, <2>3 DEF HeldAs
<1> QED BY <1>6, <1>7, <1>8, <1>9 DEF OomInv

\* No part changes the version.
LEMMA VersionKept == ControlNext => UNCHANGED version
<1>1. ASSUME NEW a \in Proc, Alloc(a) \/ AllocFails(a) \/ Release(a) \/ Caller(a)
      PROVE  version' = version
  BY <1>1 DEF Alloc, AllocFails, Release, Caller, Wake, Notify, Wakeup, SetAndNotify,
              pagedaemon_wait
<1>2. ASSUME Worker PROVE version' = version
  BY <1>2 DEF Worker, ClearWanted, TestNeeded, ClearIfMet, TestWanted, ClearNeeded, TestPass,
              Sleep, Timeout, Scan11, Scan12, ScanInactive, ScanActive, PostRequest, Keep, Workers
<1>3. ASSUME LaundryWorker PROVE version' = version
  BY <1>3 DEF LaundryWorker, Decide, CheckRequest, Launder, Thread
<1> QED BY <1>1, <1>2, <1>3 DEF ControlNext

LEMMA OomOrNothing ==
    [Next]_vars => (InOom(Oom!OomNext) \/ UNCHANGED << version, ownOomVars >>)
<1>1. CASE InControl(ControlNext)
  BY <1>1, VersionKept DEF InControl
<1>2. CASE InSwap(Swap!SwapNext)
  BY <1>2 DEF InSwap, ctlVars
<1>3. CASE UNCHANGED vars
  BY <1>3 DEF vars, ctlVars
<1> QED BY <1>1, <1>2, <1>3 DEF Next

LEMMA OomStep == OomInv /\ [Next]_vars => OomInv'
<1> SUFFICES ASSUME OomInv, [Next]_vars PROVE OomInv'
  OBVIOUS
<1>1. CASE InOom(Oom!OomNext)
  BY <1>1, OomSteps DEF InOom
<1>2. CASE UNCHANGED << version, ownOomVars >>
  <2>1. hopeless \in BOOLEAN
    BY DEF OomInv, OomTypes
  <2> QED BY <1>2, <2>1, OomSame DEF ownOomVars
<1> QED BY <1>1, <1>2, OomOrNothing

LEMMA OomInvariant == Spec => []OomInv
<1>1. Init => OomInv
  BY OomStart
<1>2. OomInv /\ [Next]_vars => OomInv'
  BY OomStep
<1> QED BY <1>1, <1>2, PTL DEF Spec

-----------------------------------------------------------------------------
(* The out-of-memory killer: its theorems. *)

LEMMA OomIsTyped == OomInv => Oom!OomTypeOK
<1> SUFFICES ASSUME OomInv PROVE Oom!OomTypeOK
  OBVIOUS
<1>1. OomTypes /\ DOMAIN proc = 1 .. Len(proc) /\ Len(proc) \in Nat
  BY Typed DEF OomInv
<1>2. ASSUME NEW d \in Domain
      PROVE  dom[d].seq \in 0 .. OomSeq /\ dom[d].big \in DOMAIN proc \cup {0}
  <2>1. dom[d] \in DomState /\ Settled(dom[d])
    BY DEF OomInv, OomTypes, Daemons
  <2> QED BY <1>1, <2>1 DEF DomState, Settled
<1>3. ASSUME NEW p \in DOMAIN proc
      PROVE  proc[p].hold \in 0 .. 2 * Cardinality(Domain)
  <2>1. Oom!Uses(p) \in 0 .. 2 * Cardinality(Domain) /\ Cardinality(Domain) \in Nat
    BY <1>1, <1>3, UsesBounded, OomAssumption, FS_CardinalityType
  <2>2. HeldAs(proc[p], Oom!Uses(p))
    BY <1>1, <1>3 DEF OomInv, Held
  <2> QED BY <2>1, <2>2 DEF HeldAs
<1>4. Oom!Cardinality(Domain) = Cardinality(Domain)
  BY SameCardinality
<1> QED BY <1>2, <1>3, <1>4 DEF Oom!OomTypeOK, Oom!Procs, Oom!Nobody

LEMMA OomCounts == OomInv => Oom!OomConsistent
<1> SUFFICES ASSUME OomInv PROVE Oom!OomConsistent
  OBVIOUS
<1>1. DOMAIN proc = 1 .. Len(proc) /\ Held /\ Votes /\ OomTypes
  BY Typed DEF OomInv
<1>2. vote = Oom!Cardinality({d \in domains : dom[d].oom /\ dom[d].pc # "vote"})
             + Oom!Cardinality({d \in domains : dom[d].pc = "unvote"})
  BY <1>1, SameCardinality, Zenon DEF Votes, Voted, Going
<1>3. ASSUME NEW p \in DOMAIN proc
      PROVE  /\ Oom!Uses(p) > 0 => proc[p].alive
             /\ IF version = 10 THEN (proc[p].lock = "daemon") <=> (Oom!Uses(p) > 0)
                ELSE proc[p].hold = Oom!Uses(p)
  <2>1. HeldAs(proc[p], Oom!Uses(p))
    BY <1>1, <1>3 DEF Held
  <2> QED BY <2>1 DEF HeldAs
<1> QED BY <1>2, <1>3 DEF Oom!OomConsistent, Oom!Procs

\* The counters of each part are what it asserts of them.  The killer's votes,
\* vm_pageout_oom_vote, are those of the daemons that voted and have not recalled
\* it; every process that a daemon measures or has chosen is held, or locked, as
\* often as it is used, nothing else is, and it has not gone: _PHOLD and PRELE
\* balance on every path of vm_pageout_oom.
THEOREM VotesAndHoldsCount == Spec => []OomConsistent
<1>1. ControlInv /\ OomInv => OomConsistent
  <2> SUFFICES ASSUME ControlInv, OomInv PROVE OomConsistent
    OBVIOUS
  <2>1. ControlTypes
    BY DEF ControlInv
  <2>2. {free, clean, dirty, used} \subseteq 0 .. TotalPages
    BY <2>1, ControlAssumption DEF ControlTypes, used
  <2>3. lw.target >= 0 /\ lw.cycle >= 0 /\ lw.launder >= 0
    BY <2>1 DEF ControlTypes, ThreadState
  <2>4. ControlTypeOK
    BY <2>1, <2>2, <2>3 DEF ControlTypeOK, ControlTypes
  <2> QED BY <2>4, OomIsTyped, OomCounts DEF OomConsistent, TypeOK
<1> QED BY <1>1, ControlInvariant, OomInvariant, PTL

\* Who completes the quorum finds every other daemon's vote in.
LEMMA QuorumIsAll ==
    ASSUME OomInv, NEW d \in domains, Oom!Vote(d), vote = Cardinality(domains) - 1
    PROVE  \A e \in domains \ {d} : dom[e].oom \/ dom[e].pc = "unvote"
<1> DEFINE S == domains \ {d}
           V == Voted \cup Going
<1>1. IsFiniteSet(domains) /\ Cardinality(domains) \in Nat /\ domains \subseteq Domain
  BY Finite DEF OomInv, OomTypes
<1>2. IsFiniteSet(S) /\ Cardinality(S) = Cardinality(domains) - 1
  BY <1>1, FS_RemoveElement
<1>3. Voted \subseteq S /\ Going \subseteq S
  BY DEF Oom!Vote, Voted, Going
<1>4. Voted \cap Going = {}
  <2>1. \A e \in domains : dom[e].pc = "unvote" => ~dom[e].oom
    BY <1>1 DEF OomInv, Daemons, Settled
  <2> QED BY <2>1 DEF Voted, Going
<1>5. IsFiniteSet(Voted) /\ IsFiniteSet(Going)
  BY <1>2, <1>3, FS_Subset
<1>6. Cardinality(V) = Cardinality(Voted) + Cardinality(Going)
  <2>1. Cardinality(V) = Cardinality(Voted) + Cardinality(Going) - Cardinality(Voted \cap Going)
    BY <1>5, FS_Union
  <2>2. Cardinality(Voted \cap Going) = 0
    BY <1>4, FS_EmptySet
  <2>3. Cardinality(Voted) \in Nat /\ Cardinality(Going) \in Nat
    BY <1>5, FS_CardinalityType
  <2> QED BY <2>1, <2>2, <2>3
<1>7. Cardinality(V) = Cardinality(S)
  BY <1>2, <1>6 DEF OomInv, Votes
<1>8. V \in SUBSET S
  BY <1>3
<1> HIDE DEF S, V
<1>9. V = S
  BY <1>2, <1>7, <1>8, FS_Subset
<1> QED BY <1>9 DEF S, V, Voted, Going

\* vm_pageout_mightbe_oom starts a kill only when every other page daemon of the
\* machine has failed too, whatever the number of domains and the order in which
\* they vote and recall: at most a recall is on its way.
THEOREM QuorumFirst == Spec => KillsByQuorum
<1> DEFINE Late(d) == \A e \in domains \ {d} : dom[e].oom \/ dom[e].pc = "unvote"
           Starts(d) == dom[d].pc = "vote" /\ dom'[d].pc = "walk"
<1>1. ASSUME OomInv, [Next]_vars
      PROVE  [\A d \in domains : Starts(d) => Late(d)]_(Oom!oomVars)
  <2>1. InOom(Oom!OomNext) \/ UNCHANGED << version, ownOomVars >>
    BY <1>1, OomOrNothing
  <2>2. CASE UNCHANGED << version, ownOomVars >>
    BY <2>2 DEF ownOomVars, Oom!oomVars
  <2>3. ASSUME Oom!OomNext, NEW d \in domains, Starts(d) PROVE Late(d)
    <3>1. dom \in [Domain -> DomState] /\ domains \subseteq Domain
      BY <1>1 DEF OomInv, OomTypes
    <3>2. dom' # dom
      BY <2>3
    <3>3. PICK e \in domains : Oom!OomDaemon(e)
      BY <2>3, <3>2 DEF Oom!OomNext, Oom!Despair, Oom!LockMap, Oom!UnlockMap, Oom!LockProc,
           Oom!UnlockProc, Oom!Protect, Oom!Exit, Oom!Others, Oom!Free
    <3>4. \E s : dom' = [dom EXCEPT ![e] = s]
      BY <3>3 DEF Oom!OomDaemon, Oom!mightbe_oom, Oom!Vote, Oom!Unvote, Oom!Visit, Oom!Measure,
           Oom!Compare, Oom!Kill, Oom!GoDom
    <3>5. e = d
      BY <2>3, <3>1, <3>4
    <3>6. Oom!Vote(d)
      BY <2>3, <3>3, <3>5 DEF Oom!OomDaemon, Oom!mightbe_oom, Oom!Unvote, Oom!Visit, Oom!Measure,
           Oom!Compare, Oom!Kill
    <3>7. vote = Cardinality(domains) - 1
      <4>1. Oom!Cardinality(domains) = Cardinality(domains)
        BY SameCardinality
      <4>2. dom'[d].pc = IF vote = Oom!Cardinality(domains) - 1 THEN "walk" ELSE "scan"
        BY <3>1, <3>6 DEF Oom!Vote, Oom!GoDom, DomState
      <4> QED BY <2>3, <4>1, <4>2
    <3> QED BY <1>1, <3>6, <3>7, QuorumIsAll
  <2> QED BY <2>1, <2>2, <2>3 DEF InOom
<1>2. [][\A d \in domains : Starts(d) => Late(d)]_(Oom!oomVars) => KillsByQuorum
  BY PTL DEF KillsByQuorum, Oom!KillsByQuorum
<1> QED BY <1>1, <1>2, OomInvariant, PTL DEF Spec
=============================================================================
