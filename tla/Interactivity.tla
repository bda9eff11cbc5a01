--------------------------- MODULE Interactivity ----------------------------
(***************************************************************************)
(* What ULE remembers of a thread to find out how interactive it is and    *)
(* how much of a cpu it uses, and the priority it makes of that: the       *)
(* module Ule leaves priorities to chance.  A thread and a child of it     *)
(* run, wait, sleep, fork and exit, each on a cpu of its own.              *)
(*                                                                         *)
(* Of ts_ltick and ts_ftick only differences matter: since is the time     *)
(* from ts_ltick to now and span that from ts_ftick to ts_ltick.  Integers *)
(* have Width bits and wrap.                                               *)
(***************************************************************************)
EXTENDS Integers

CONSTANTS
    hz, stathz,     \* ticks, and clock interrupts, of a second
    Width,          \* bits of an int
    Delay,          \* times that pass while neither thread runs
    Nice,           \* nice values
    Interact,       \* values of kern.sched.interact
    Ran,            \* clock interrupts that the thread has been running at first
    MaxSteps        \* bound on the length of a history

SHIFT == 1024       \* 1 << SCHED_TICK_SHIFT

TICK_TARG    == hz * 10
TICK_MAX     == TICK_TARG + hz
SLP_RUN_MAX  == (hz * 5) * SHIFT
SLP_RUN_FORK == (hz \div 2) * SHIFT
HALF         == 50          \* SCHED_INTERACT_HALF

PRI_MIN_INTERACT == 120
PRI_MAX_INTERACT == 151
PRI_MIN_BATCH    == 152
PRI_MAX_BATCH    == 223
PRI_NHALF        == 20
SCHED_PRI_MIN    == PRI_MIN_BATCH + PRI_NHALF
SCHED_PRI_RANGE  == PRI_MAX_BATCH - PRI_NHALF - SCHED_PRI_MIN + 1

Smaller(a, b) == IF a < b THEN a ELSE b
Larger(a, b)  == IF a > b THEN a ELSE b

\* Conversions to unsigned and to signed integers of the width.
U(x) == x % 2 ^ Width
S(x) == IF U(x) < 2 ^ (Width - 1) THEN U(x) ELSE U(x) - 2 ^ Width

-----------------------------------------------------------------------------
\* sched_initticks, sysctl_kern_quantum and tdq_slice.
realstathz    == IF stathz # 0 THEN stathz ELSE hz
tickincr      == Larger(1, (hz * SHIFT) \div realstathz)
sched_slice(rate) == rate \div 10
sched_slice_min(slice) == slice \div 6
QuantumOf(rate, slice) == (1000000 \div rate) * slice
SetQuantum(rate, new_val) ==
    LET period == 1000000 \div rate IN Larger(1, (new_val + period \div 2) \div period)

\* For a queue with so many threads that count.
tdq_slice(slice, sysload) ==
    LET load == sysload - 1 IN
    IF load >= 6 THEN sched_slice_min(slice) ELSE IF load <= 1 THEN slice ELSE slice \div load

-----------------------------------------------------------------------------
\* Mutant: a history that is a little too long is never halved.
UpdateBarely(h) ==
    LET sum == U(h.run + h.slp) IN
    IF sum < SLP_RUN_MAX THEN h
    ELSE IF sum > SLP_RUN_MAX * 2
    THEN IF h.run > h.slp THEN [h EXCEPT !.run = SLP_RUN_MAX, !.slp = 1]
         ELSE [h EXCEPT !.slp = SLP_RUN_MAX, !.run = 1]
    ELSE [h EXCEPT !.run = (@ \div 5) * 4, !.slp = (@ \div 5) * 4]

\* A history that has become too long is shortened.
sched_interact_update(h) ==
    LET sum == U(h.run + h.slp) IN
    IF sum < SLP_RUN_MAX THEN h
    ELSE IF sum > SLP_RUN_MAX * 2
    THEN IF h.run > h.slp THEN [h EXCEPT !.run = SLP_RUN_MAX, !.slp = 1]
         ELSE [h EXCEPT !.slp = SLP_RUN_MAX, !.run = 1]
    ELSE IF sum > (SLP_RUN_MAX \div 5) * 6
    THEN [h EXCEPT !.run = @ \div 2, !.slp = @ \div 2]
    ELSE [h EXCEPT !.run = (@ \div 5) * 4, !.slp = (@ \div 5) * 4]

sched_interact_fork(h) ==
    LET sum   == U(h.run + h.slp)
        ratio == sum \div SLP_RUN_FORK
    IN  IF sum > SLP_RUN_FORK THEN [h EXCEPT !.run = @ \div ratio, !.slp = @ \div ratio] ELSE h

\* The sliding history of ticks, when the thread has run or not since.
sched_pctcpu_update(h, run) ==
    LET idle == h.since >= TICK_TARG
        long == ~idle /\ S(h.since + h.span) >= TICK_MAX
        kept == IF idle THEN 0
                ELSE IF long THEN (h.ticks \div h.span) * (TICK_TARG - h.since) ELSE h.ticks
    IN  [h EXCEPT !.ticks = S(kept + IF run THEN h.since * SHIFT ELSE 0),
                  !.span = IF idle \/ long THEN TICK_TARG ELSE h.since + h.span,
                  !.since = 0]

sched_interact_score(h, interact) ==
    IF interact <= HALF /\ h.run >= h.slp THEN HALF
    ELSE IF h.run > h.slp THEN 2 * HALF - h.slp \div Larger(1, h.run \div HALF)
    ELSE IF h.slp > h.run THEN h.run \div Larger(1, h.slp \div HALF)
    ELSE IF h.run # 0 THEN HALF ELSE 0

\* The share of the cpu as a number of priorities.
PRI_TICKS(h) ==
    LET total == Larger(h.span, hz)
        per   == (total + SCHED_PRI_RANGE - 1) \div SCHED_PRI_RANGE
    IN  (h.ticks \div SHIFT) \div per

Score(h, nice, interact) == Larger(0, sched_interact_score(h, interact) + nice)

\* Mutant: the share may be the whole range.
PriorityOfShare(h, nice, interact) ==
    IF Score(h, nice, interact) < interact
    THEN PRI_MIN_INTERACT
            + ((PRI_MAX_INTERACT - PRI_MIN_INTERACT + 1) \div interact) * Score(h, nice, interact)
    ELSE SCHED_PRI_MIN + nice + IF h.ticks = 0 THEN 0 ELSE PRI_TICKS(h)

sched_priority(h, nice, interact) ==
    IF Score(h, nice, interact) < interact
    THEN PRI_MIN_INTERACT
            + ((PRI_MAX_INTERACT - PRI_MIN_INTERACT + 1) \div interact) * Score(h, nice, interact)
    ELSE SCHED_PRI_MIN + nice
            + IF h.ticks = 0 THEN 0 ELSE Smaller(PRI_TICKS(h), SCHED_PRI_RANGE - 1)

-----------------------------------------------------------------------------
VARIABLES
    th,             \* the thread and its child: history, and whether it is
                    \*   on a cpu, queued, asleep (since slept) or none
    overslept,      \* a sleep was long enough for its ticks to wrap
    steps

vars == << th, overslept, steps >>

New == [slp |-> 0, run |-> 0, ticks |-> 0, since |-> 0, span |-> 0, at |-> "queue",
        slept |-> 0]
Gone == [New EXCEPT !.at = "none"]

Later(h, d) ==
    IF h.at = "none" THEN h
    ELSE [h EXCEPT !.since = U(@ + d), !.slept = IF h.at = "sleep" THEN U(@ + d) ELSE 0]

\* What sched_clock does for a thread that runs.
Charged(h) ==
    sched_interact_update([sched_pctcpu_update(h, TRUE) EXCEPT !.run = U(@ + tickincr)])

\* The thread has been running since it was created.
Running(n) ==
    LET after[k \in 0 .. n] ==
            IF k = 0 THEN [New EXCEPT !.at = "cpu"]
            ELSE Charged(Later(after[k - 1], hz \div realstathz))
    IN  after[n]

Init ==
    /\ \E n \in Ran : th = [t \in {"parent", "child"} |-> IF t = "parent" THEN Running(n) ELSE Gone]
    /\ overslept = FALSE /\ steps = 0

Step == steps < MaxSteps /\ steps' = steps + 1
Set(t, h) == th' = [th EXCEPT ![t] = h]

\* A clock interrupt, one or the other number of ticks after the last.
sched_clock ==
    /\ Step
    /\ \E t \in DOMAIN th : th[t].at = "cpu"
    /\ \E d \in {hz \div realstathz, (hz + realstathz - 1) \div realstathz} :
          th' = [t \in DOMAIN th |-> IF th[t].at = "cpu" THEN Charged(Later(th[t], d))
                                     ELSE Later(th[t], d)]
    /\ UNCHANGED overslept

\* Time passes while others run.
Pass ==
    /\ Step
    /\ \A t \in DOMAIN th : th[t].at # "cpu"
    /\ \E d \in Delay : th' = [t \in DOMAIN th |-> Later(th[t], d)]
    /\ UNCHANGED overslept

\* The thread is switched to, or away from.
sched_switch(t) ==
    /\ Step
    /\ \/ /\ th[t].at = "cpu"
          /\ \E to \in {"queue", "sleep"} :
                Set(t, [sched_pctcpu_update(th[t], TRUE) EXCEPT !.at = to])
       \/ /\ th[t].at = "queue"
          /\ Set(t, [sched_pctcpu_update(th[t], FALSE) EXCEPT !.at = "cpu"])
    /\ UNCHANGED overslept

\* A sleep of no tick is not counted, nor one that began in tick 0.
sched_wakeup(t) ==
    LET h == [th[t] EXCEPT !.at = "queue", !.slept = 0]
        slept == [h EXCEPT !.slp = U(@ + th[t].slept * SHIFT)]
    IN  /\ Step /\ th[t].at = "sleep"
        /\ \/ Set(t, h) /\ UNCHANGED overslept
           \/ /\ th[t].slept # 0
              /\ Set(t, sched_pctcpu_update(sched_interact_update(slept), FALSE))
              /\ overslept' = (overslept \/ h.slp + th[t].slept * SHIFT + h.run >= 2 ^ Width)

\* Parent and child are penalized.
sched_fork ==
    /\ Step /\ th["parent"].at = "cpu" /\ th["child"].at = "none"
    /\ LET h == sched_pctcpu_update(th["parent"], TRUE) IN
       th' = [t \in DOMAIN th |->
                IF t = "parent" THEN sched_interact_update([h EXCEPT !.run = U(@ + tickincr)])
                ELSE [sched_interact_fork(h) EXCEPT !.at = "queue"]]
    /\ UNCHANGED overslept

\* The child's running time is given to the parent.
sched_exit ==
    /\ Step /\ th["child"].at = "cpu"
    /\ th' = [t \in DOMAIN th |->
                IF t = "child" THEN Gone
                ELSE sched_interact_update([th[t] EXCEPT !.run = U(@ + th["child"].run)])]
    /\ UNCHANGED overslept

Next ==
    \/ sched_clock \/ Pass \/ sched_fork \/ sched_exit
    \/ \E t \in DOMAIN th : sched_switch(t) \/ sched_wakeup(t)

Spec == Init /\ [][Next]_vars

-----------------------------------------------------------------------------
\* The assertions of sched_priority, and "scaled to a [0, 100] integer":
\* whatever a thread has been through, and if it has slept until its time
\* wrapped, its priority is in the range of its kind, for every nice value
\* and setting of the sysctl.
PriorityInRange ==
    \A t \in DOMAIN th, nice \in Nice, interact \in Interact :
        LET pri == sched_priority(th[t], nice, interact) IN
        /\ sched_interact_score(th[t], interact) \in 0 .. 100
        /\ IF Score(th[t], nice, interact) < interact
           THEN pri \in PRI_MIN_INTERACT .. PRI_MAX_INTERACT
           ELSE pri \in PRI_MIN_BATCH .. PRI_MAX_BATCH

\* "Enforces a maximum limit on the amount of scheduling history", unless a
\* sum has wrapped; and a thread has used no more than the whole of its cpu.
HistoryBounded ==
    \A t \in DOMAIN th :
        /\ ~overslept => th[t].run + th[t].slp <= SLP_RUN_MAX + 1
        /\ th[t].ticks \in 0 .. th[t].span * SHIFT
=============================================================================
