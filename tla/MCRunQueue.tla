----------------------------- MODULE MCRunQueue -----------------------------
(***************************************************************************)
(* Instances of RunQueue for TLC.                                          *)
(***************************************************************************)
EXTENDS RunQueue, TLC

\* An interrupt priority, two realtime priorities of one queue and a kernel
\* priority behind them.
PriMixed == {40, 50, 51, 100}

Policy(modes, demotes) == [modes |-> modes, demotes |-> demotes]

\* The sysctl is given values that name no algorithm, any algorithm, one of
\* the first two, or is left alone.
AllPolicies ==
    {Policy({0, 4}, TRUE), Policy(1 .. 4, TRUE), Policy({1, 2}, TRUE)}
        \cup {Policy({m}, FALSE) : m \in 1 .. 4}

\* random() % 256 hits a kernel priority (drawn again), the queue of 50 and
\* 51, and the last queue.
DrawSome == {47, 50, 255}

\* With Fuzz = 1 no operation looks at td_lastcpu, so one value of it will do.
OnceRun == Init /\ \A td \in Thread : td_lastcpu[td] # NOCPU
OnceRunSpec == OnceRun /\ [][Next]_vars

Symmetric == Permutations(Thread)
=============================================================================
