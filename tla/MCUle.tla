------------------------------- MODULE MCUle -------------------------------
(***************************************************************************)
(* Ule on two cpus.                                                        *)
(***************************************************************************)
EXTENDS Ule, TLC

CONSTANTS t1, t2, t3

Group(mask, kids, level, thread) ==
    [mask |-> mask, kids |-> kids, level |-> level, thread |-> thread]

\* Two cpus that share a last level cache, are threads of one core, or are in
\* packages of their own.
Flat  == [g \in {TOP} |-> Group({0, 1}, {}, 3, FALSE)]
Smt   == [g \in {TOP} |-> Group({0, 1}, {}, 2, TRUE)]
Split == [g \in {TOP, "p0", "p1"} |->
            CASE g = TOP  -> Group({0, 1}, {"p0", "p1"}, 0, FALSE)
              [] g = "p0" -> Group({0}, {}, 3, FALSE)
              [] g = "p1" -> Group({1}, {}, 3, FALSE)]

Both == {0, 1}
Sleeper(pri) == [state |-> "sleep", system |-> FALSE, pri |-> pri, cpu |-> 0, mask |-> Both]
Dead(pri)    == [Sleeper(pri) EXCEPT !.state = "dead"]
System(pri)  == [Sleeper(pri) EXCEPT !.system = TRUE]

\* Two batch threads sleep and wake, on cpus that halt or sleep in mwait; the
\* last means that the idle thread goes to sleep when it finds nothing.
Sleeping ==
    [topo |-> Flat, preempt_thresh |-> 80, sleep |-> "hlt", acts |-> {"nap", "sleep"},
     start |-> (t1 :> Sleeper(160) @@ t2 :> Sleeper(160)), prios |-> {160},
     lends |-> {}, masks |-> {}, ages |-> {0}, intr |-> {FALSE}, who |-> {}, ends |-> BOOLEAN]
Mwait == [Sleeping EXCEPT !.sleep = "mwait", !.topo = Smt]

Busy == [Sleeping EXCEPT !.start = (t1 :> Sleeper(152) @@ t2 :> Sleeper(152)), !.prios = {152}]

\* Threads run, one of a low priority on the first cpu only, and are balanced.
Balancing ==
    [Busy EXCEPT !.acts = {"clock", "balance"}, !.topo = Split,
        !.start = (t1 :> Sleeper(152) @@ t2 :> [System(200) EXCEPT !.mask = {0}])]

\* Threads are lent priorities.
Lending ==
    [Busy EXCEPT !.acts = {"sleep", "lend"}, !.lends = {100}, !.who = {t1}]

\* The user priorities of threads change.
Nicing ==
    [Busy EXCEPT !.acts = {"yield", "nice"}, !.prios = {130, 152}, !.who = {t1},
        !.start = (t1 :> Sleeper(152) @@ t2 :> System(100))]

Sharing ==
    [Busy EXCEPT !.acts = {"yield", "lend_user"}, !.lends = {130, 255}, !.who = {t1},
        !.start = (t1 :> Sleeper(152) @@ t2 :> System(100))]

\* Threads bind and pin themselves and are restricted to cpus.
Binding ==
    [Sleeping EXCEPT !.acts = {"nap", "yield", "bind"}, !.who = {t1, t2}]
Restricting ==
    [Busy EXCEPT !.acts = {"yield", "pin", "affinity"}, !.masks = {{0}, Both}, !.who = {t1}]

\* Threads fork and exit.
Forking ==
    [Sleeping EXCEPT !.acts = {"nap", "fork"},
        !.start = (t1 :> Sleeper(160) @@ t2 :> Dead(160) @@ t3 :> Dead(160))]

\* An interrupt thread, a batch thread and one of idle priority, some waking
\* in interrupts and after a long time.
Interrupting ==
    [Sleeping EXCEPT !.acts = {"nap", "sleep", "critical"}, !.topo = Split,
        !.ages = {0, 9}, !.intr = BOOLEAN,
        !.start = (t1 :> System(40) @@ t3 :> Sleeper(160))]
Demoting ==
    [Sleeping EXCEPT !.acts = {"nap", "sleep", "critical"}, !.topo = Smt,
        !.start = (t1 :> System(255) @@ t3 :> Sleeper(160))]

MCScenes ==
    {Sleeping, Mwait, Balancing, Lending, Nicing, Sharing, Binding, Restricting,
     Forking, Interrupting, Demoting}

\* One cpu, batch threads of two priorities, slices of one tick.
One == [g \in {TOP} |-> Group({0}, {}, 3, FALSE)]
Calendar ==
    [Sleeping EXCEPT !.acts = {"sleep", "clock"}, !.topo = One, !.ends = {TRUE},
        !.start = (t1 :> [System(152) EXCEPT !.mask = {0}]
                @@ t2 :> [System(152) EXCEPT !.mask = {0}]
                @@ t3 :> [System(223) EXCEPT !.mask = {0}])]
LiveScenes == {Calendar}
=============================================================================
