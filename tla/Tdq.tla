-------------------------------- MODULE Tdq --------------------------------
(***************************************************************************)
(* ULE's per-cpu thread queue, struct tdq of sched_ule.c, over the run     *)
(* queue of the kern_switch.c beside it (whose runq_add always splatters   *)
(* user threads), as operators on a scheduler state                        *)
(*     k == [td, tdq, cpu, env]                                            *)
(*   td   per thread: state, priorities, td_sched                          *)
(*   tdq  per cpu: load, transferable, lowpri, ipipending, cpu_idle, the   *)
(*        calendar's idx and ridx, and three run queues                    *)
(*   cpu  per cpu: cur (NoThread for the idle thread), ipc (where the idle *)
(*        thread is), ipi (an IPI_PREEMPT is on its way) and, for the      *)
(*        module Ule, op and owe                                           *)
(*   env  what is fixed: topology, preempt_thresh, the way cpu_idle sleeps *)
(* Everything here runs under the lock of the queue, or queues, it changes.*)
(*                                                                         *)
(* A run queue is the function from the indices of its non-empty queues to *)
(* the threads on them, so that its domain is its set of status bits.      *)
(***************************************************************************)
EXTENDS Integers, Sequences, SequencesExt, FiniteSets, FiniteSetsExt, CpuSearch

CONSTANTS
    NoThread,       \* in cur: the cpu's idle thread; elsewhere: NULL
    RQ_NQS,         \* queues in a run queue, 64 in the kernel
    SortedIndex     \* the queues runq_add keeps sorted, 30 .. 55 of the 64

ASSUME QueuesAssumption == RQ_NQS \in Nat \ {0} /\ 256 % RQ_NQS = 0
ASSUME SortedAssumption == SortedIndex \subseteq 0 .. RQ_NQS - 1

RQ_PPQ == 256 \div RQ_NQS

\* Priorities: interrupt, realtime, kernel, timeshare and idle threads.
PRI_MAX_ITHD      == 47
PRI_MIN_TIMESHARE == 120
PRI_MAX_TIMESHARE == 223
PRI_MIN_IDLE      == 224
PRI_MAX_IDLE      == 255
SCHED_PRI_NRESV   == 40     \* PRIO_MAX - PRIO_MIN

\* The timeshare range: the lower part for interactive threads, the rest,
\* which the calendar spreads over its queues, for batch threads.
PRI_TIMESHARE_RANGE == PRI_MAX_TIMESHARE - PRI_MIN_TIMESHARE + 1
PRI_INTERACT_RANGE  == (PRI_TIMESHARE_RANGE - SCHED_PRI_NRESV) \div 2
PRI_BATCH_RANGE     == PRI_TIMESHARE_RANGE - PRI_INTERACT_RANGE
PRI_MAX_INTERACT    == PRI_MIN_TIMESHARE + PRI_INTERACT_RANGE - 1
PRI_MIN_BATCH       == PRI_MIN_TIMESHARE + PRI_INTERACT_RANGE
PRI_MAX_BATCH       == PRI_MAX_TIMESHARE

-----------------------------------------------------------------------------
\* The run queue (kern_switch.c).

runq_init == [i \in {} |-> << >>]
At(rq, i) == IF i \in DOMAIN rq THEN rq[i] ELSE << >>

runq_setbit(rq, i) == [j \in DOMAIN rq \cup {i} |-> At(rq, j)]
runq_clrbit(rq, i) == [j \in DOMAIN rq \ {i} |-> rq[j]]
runq_findbit(rq) == IF DOMAIN rq = {} THEN -1 ELSE Min(DOMAIN rq)

\* The first set bit from i on, wrapping around to the beginning just once.
runq_findbit_from(rq, i) ==
    LET after == {j \in DOMAIN rq : j >= i}
    IN  IF after = {} THEN runq_findbit(rq) ELSE Min(after)

checkKern(p) == p < 48 \/ (p > 79 /\ p < 120)

\* The queues a random user priority leads to.
UserIndex == {p \div RQ_PPQ : p \in {q \in 0 .. 255 : ~checkKern(q)}}

\* Link t into queue i: in priority order behind its equals, or at the end
\* its being preempted calls for.
Linked(rq, i, t, q) == [runq_setbit(rq, i) EXCEPT ![i] = q]
ByPriority(q, td, t) ==
    LET worse == {n \in 1 .. Len(q) : td[q[n]].pri > td[t].pri}
    IN  InsertAt(q, IF worse = {} THEN Len(q) + 1 ELSE Min(worse), t)
ByArrival(q, t, preempted) == IF preempted THEN << t >> \o q ELSE Append(q, t)

\* The queue runq_add uses for t when slot is what random() gives it.
AddIndex(td, t, slot) == IF checkKern(td[t].pri) THEN td[t].pri \div RQ_PPQ ELSE slot

runq_add(rq, td, t, preempted, slot) ==
    LET i == AddIndex(td, t, slot)
    IN  Linked(rq, i, t, IF ~checkKern(td[t].pri) /\ i \in SortedIndex
                         THEN ByPriority(At(rq, i), td, t)
                         ELSE ByArrival(At(rq, i), t, preempted))
runq_add_pri(rq, t, i, preempted) == Linked(rq, i, t, ByArrival(At(rq, i), t, preempted))

TAILQ_REMOVE(q, t) == RemoveAt(q, CHOOSE n \in DOMAIN q : q[n] = t)
runq_remove(rq, t, i) ==
    IF rq[i] = << t >> THEN runq_clrbit(rq, i)
                       ELSE [rq EXCEPT ![i] = TAILQ_REMOVE(@, t)]

\* What runq_remove_idx does to *idx: move on from a queue that it empties.
AdvancedIdx(rq, t, i, idx) ==
    IF idx = i /\ rq[i] = << t >> THEN (i + 1) % RQ_NQS ELSE idx

FirstOf(rq, i) == IF i = -1 THEN NoThread ELSE Head(rq[i])
runq_choose(rq) == FirstOf(rq, runq_findbit(rq))
runq_choose_from(rq, i) == FirstOf(rq, runq_findbit_from(rq, i))

-----------------------------------------------------------------------------
\* struct tdq: choosing, adding and removing threads.

tdq_setup ==
    [load |-> 0, transferable |-> 0, lowpri |-> PRI_MAX_IDLE,
     ipipending |-> FALSE, cpu_idle |-> FALSE, idx |-> 0, ridx |-> 0,
     realtime |-> runq_init, timeshare |-> runq_init, idle |-> runq_init]

CurPri(k, c) == IF k.cpu[c].cur = NoThread THEN PRI_MAX_IDLE
                                           ELSE k.td[k.cpu[c].cur].pri

CanMigrate(k, t)  == k.td[t].pinned = 0
CanSched(k, t, c) == c \in k.td[t].mask

\* Is a thread of priority pri to preempt one of priority cpri?
sched_shouldpreempt(k, pri, cpri, remote) ==
    /\ pri < cpri
    /\ \/ cpri >= PRI_MIN_IDLE
       \/ /\ k.env.preempt_thresh # 0
          /\ \/ pri <= k.env.preempt_thresh
             \/ remote /\ pri <= PRI_MAX_INTERACT /\ cpri > PRI_MAX_INTERACT

\* Mutant: the slot is counted from the removal index.
CalendarSlotFromRidx(q, pri, flags) ==
    IF flags \cap {"BORROWING", "PREEMPTED"} # {} THEN q.ridx
    ELSE ((RQ_NQS * (pri - PRI_MIN_BATCH)) \div PRI_BATCH_RANGE + q.ridx) % RQ_NQS

\* The calendar queue for a batch thread: as far behind the insertion index
\* as its priority is in the batch range, but never the queue that is being
\* drained; a borrowing or preempted thread goes exactly there.
CalendarSlot(q, pri, flags) ==
    LET i == ((RQ_NQS * (pri - PRI_MIN_BATCH)) \div PRI_BATCH_RANGE + q.idx) % RQ_NQS
    IN  IF flags \cap {"BORROWING", "PREEMPTED"} # {} THEN q.ridx
        ELSE IF q.ridx # q.idx /\ i = q.ridx THEN (i - 1) % RQ_NQS
        ELSE i

RunqFor(pri) ==
    CASE pri < PRI_MIN_BATCH -> "realtime"
      [] pri \in PRI_MIN_BATCH .. PRI_MAX_BATCH -> "timeshare"
      [] pri > PRI_MAX_BATCH -> "idle"

\* The values of slot that make a difference for t.
Slots(k, t) ==
    IF checkKern(k.td[t].pri) \/ RunqFor(k.td[t].pri) = "timeshare" THEN {0}
                                                                     ELSE UserIndex

tdq_runq_add(k, c, t, flags, slot) ==
    LET pri  == k.td[t].pri
        name == RunqFor(pri)
        i    == IF name = "timeshare" THEN CalendarSlot(k.tdq[c], pri, flags)
                                      ELSE AddIndex(k.td, t, slot)
        hurt == "PREEMPTED" \in flags
    IN  [k EXCEPT
          !.td[t] = [@ EXCEPT !.state = "runq", !.runq = name, !.rqindex = i,
                              !.xferable = IF CanMigrate(k, t) THEN 1 ELSE k.td[t].xferable],
          !.tdq[c].transferable = @ + (IF CanMigrate(k, t) THEN 1 ELSE 0),
          !.tdq[c][name] = IF name = "timeshare"
                           THEN runq_add_pri(@, t, i, hurt)
                           ELSE runq_add(@, k.td, t, hurt, slot)]

\* Mutant: the thread goes without being taken off the transferable count.
RunqRemKeepsCount(k, c, t) ==
    LET d == k.td[t]
        q == k.tdq[c]
    IN  [k EXCEPT
          !.td[t].xferable = 0,
          !.tdq[c].ridx = IF d.runq = "timeshare" /\ q.idx # q.ridx
                          THEN AdvancedIdx(q.timeshare, t, d.rqindex, @) ELSE @,
          !.tdq[c][d.runq] = runq_remove(@, t, d.rqindex)]

tdq_runq_rem(k, c, t) ==
    LET d == k.td[t]
        q == k.tdq[c]
    IN  [k EXCEPT
          !.td[t].xferable = 0,
          !.tdq[c].transferable = @ - d.xferable,
          !.tdq[c].ridx = IF d.runq = "timeshare" /\ q.idx # q.ridx
                          THEN AdvancedIdx(q.timeshare, t, d.rqindex, @) ELSE @,
          !.tdq[c][d.runq] = runq_remove(@, t, d.rqindex)]

tdq_load_add(k, c) == [k EXCEPT !.tdq[c].load = @ + 1]
tdq_load_rem(k, c) == [k EXCEPT !.tdq[c].load = @ - 1]

\* The first of: realtime, timeshare from the removal index, idle.
tdq_choose(k, c) ==
    LET q     == k.tdq[c]
        first == << runq_choose(q.realtime),
                    runq_choose_from(q.timeshare, q.ridx),
                    runq_choose(q.idle) >>
        some  == {n \in 1 .. 3 : first[n] # NoThread}
    IN  IF some = {} THEN NoThread ELSE first[Min(some)]

\* lowpri becomes the priority of the current thread, or that of the thread
\* that would be chosen if it is better.
tdq_setlowpri(k, c, cpri) ==
    LET t == tdq_choose(k, c)
    IN  [k EXCEPT !.tdq[c].lowpri =
            IF t = NoThread THEN cpri ELSE Min({cpri, k.td[t].pri})]

tdq_add(k, c, t, flags, slot) ==
    tdq_load_add(
        tdq_runq_add([k EXCEPT !.tdq[c].lowpri = Min({@, k.td[t].pri})],
                     c, t, flags, slot), c)

\* Take t off the queue it is on without running it.
sched_rem(k, t) ==
    LET c   == k.td[t].cpu
        out == tdq_load_rem(tdq_runq_rem([k EXCEPT !.td[t].state = "canrun"], c, t), c)
    IN  IF k.td[t].pri = k.tdq[c].lowpri
        THEN tdq_setlowpri(out, c, CurPri(out, c)) ELSE out

-----------------------------------------------------------------------------
\* Moving threads between cpus.

\* The places of a run queue from queue i on, and the one a scan, queue by
\* queue, meets first.
Scan(rq, i) == UNION {{j} \X DOMAIN rq[j] : j \in {m \in DOMAIN rq : m >= i}}
Sooner(p, r) == p[1] < r[1] \/ (p[1] = r[1] /\ p[2] < r[2])
FirstMet(places) == CHOOSE p \in places : \A r \in places : ~Sooner(r, p)

Stealable(k, rq, places, c) ==
    {p \in places : CanMigrate(k, rq[p[1]][p[2]]) /\ CanSched(k, rq[p[1]][p[2]], c)}
ThreadAt(rq, ok) ==
    IF ok = {} THEN NoThread ELSE LET p == FirstMet(ok) IN rq[p[1]][p[2]]

runq_steal(k, rq, c) == ThreadAt(rq, Stealable(k, rq, Scan(rq, 0), c))

\* A scan of the calendar from its removal index, then, unless that is 0, of
\* all of it once more.  The first thread met is left to its cpu; only when
\* no other is met after it may it be taken.
Twice(rq) == [j \in DOMAIN rq \cup {i + RQ_NQS : i \in DOMAIN rq} |-> rq[j % RQ_NQS]]
runq_steal_from(k, rq, c, start) ==
    LET round == IF start = 0 THEN rq ELSE Twice(rq)
        all   == Scan(round, start)
        later == {p \in all : p # FirstMet(all)}
    IN  ThreadAt(round, Stealable(k, round, IF later = {} THEN all ELSE later, c))

tdq_steal(k, from, c) ==
    LET q     == k.tdq[from]
        found == << runq_steal(k, q.realtime, c),
                    runq_steal_from(k, q.timeshare, c, q.ridx),
                    runq_steal(k, q.idle, c) >>
        some  == {n \in 1 .. 3 : found[n] # NoThread}
    IN  IF some = {} THEN NoThread ELSE found[Min(some)]

\* The states after t is moved to the queue of cpu c.
tdq_move(k, t, c) ==
    {tdq_add([sched_rem(k, t) EXCEPT !.td[t].cpu = c], c, t, {"YIELDING"}, slot) :
        slot \in Slots(k, t)}

\* cpu_idle_wakeup of the machine: a cpu that sleeps in mwait, or that is in
\* cpu_idle but not asleep yet, is woken by a write to memory; a halted one
\* takes an interrupt.
NeedsInterrupt(k, c) == k.env.sleep = "hlt" /\ k.cpu[c].ipc \in {"armed", "asleep"}
cpu_idle_wakeup(k, c) ==
    [k EXCEPT !.cpu[c].ipc = IF @ \in {"armed", "asleep"} THEN "awake" ELSE @]

ipi_cpu(k, c) == [k EXCEPT !.cpu[c].ipi = TRUE]

\* Tell cpu c of thread t on its queue.
tdq_notify(k, c, t) ==
    LET q    == k.tdq[c]
        idle == k.cpu[c].cur = NoThread
    IN  IF q.ipipending \/ ~sched_shouldpreempt(k, k.td[t].pri, CurPri(k, c), TRUE)
        THEN k
        ELSE IF idle /\ ~q.cpu_idle THEN k
        ELSE IF idle /\ ~NeedsInterrupt(k, c) THEN cpu_idle_wakeup(k, c)
        ELSE ipi_cpu([k EXCEPT !.tdq[c].ipipending = TRUE], c)
=============================================================================
