---------------------------- MODULE MCRunqSmall -----------------------------
(***************************************************************************)
(* Two small questions about run queues, one or the other of which is      *)
(* chosen at the start: is every thread chosen in the end, and does        *)
(* runq_add, made in steps (RunqAddSteps), amount to an atomic one.        *)
(***************************************************************************)
EXTENDS RunQueue

CONSTANT Pair       \* the threads of RunqAddSteps

VARIABLES part, s_rq, s_priority, s_rqindex, s_state, s_choose, add

stepVars == << s_rq, s_priority, s_rqindex, s_state, s_choose, add >>
smallVars == << part, vars, stepVars >>

Steps == INSTANCE RunqAddSteps WITH
    Thread <- Pair, Pri <- {40, 50, 51}, Mode <- 0 .. 4, Preempted <- BOOLEAN,
    rq <- s_rq, td_priority <- s_priority, td_rqindex <- s_rqindex,
    td_state <- s_state, kern_switch_choose <- s_choose

\* Fixed at algorithm 1 or 2.
FixedFifo == {[modes |-> {m}, demotes |-> FALSE] : m \in {1, 2}}

\* The queue of 50 and 51, and the last queue.
DrawSome == {50, 255}

SmallInit ==
    /\ Init /\ Steps!Init
    /\ part \in {"whole", "steps"}
    /\ part = "whole" => s_priority = [td \in Pair |-> 40]
    /\ part = "steps" => /\ td_lastcpu = [td \in Thread |-> NOCPU]
                         /\ policy = CHOOSE p \in Policies : TRUE

SmallNext ==
    /\ \/ part = "whole" /\ Next /\ UNCHANGED stepVars
       \/ part = "steps" /\ Steps!Next /\ UNCHANGED vars
    /\ UNCHANGED part

\* Every cpu keeps asking for a thread (the idle loop and the clock).
SmallSpec ==
    /\ SmallInit /\ [][SmallNext]_smallVars
    /\ \A cpu \in Cpu : WF_smallVars(part = "whole" /\ RunqTake(cpu) /\ UNCHANGED << stepVars, part >>)

\* See RunqAddSteps: unless the sysctl is written during the call, the four
\* tests of runq_add amount to one atomic choice of an algorithm.
ImplementsAtomicAdd == Steps!ImplementsAtomicAdd
=============================================================================
