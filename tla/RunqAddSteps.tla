---------------------------- MODULE RunqAddSteps ----------------------------
(***************************************************************************)
(* runq_add as it is written: four tests of kern_switch_choose, one after  *)
(* the other, in the order 2, 3, 4, 1.  The caller holds the thread-queue  *)
(* lock, so no other run-queue operation comes between them; the handler   *)
(* of kern.sched.kernChoice takes no lock, so a write of it does.  Only    *)
(* the paths of algorithms 2 and 4 that link in front of another thread    *)
(* return at once: after the others the remaining tests are still made,    *)
(* and after a write one of them may link the thread a second time.        *)
(***************************************************************************)
EXTENDS Runq

CONSTANTS Pri, Mode, Preempted

VARIABLES
    rq, td_priority, td_rqindex, td_state, kern_switch_choose,
    add                 \* the runq_add in progress, or Idle

vars == << rq, td_priority, td_rqindex, td_state, kern_switch_choose, add >>

\* add.test is the next test; add.linked counts the links made; add.wrote says
\* (for the properties only) that the sysctl was written since the call began.
Idle == [td |-> NoThread, preempted |-> FALSE, test |-> 0, linked |-> 0, wrote |-> FALSE]

\* Mutant: the test for algorithm 1 is missing.
NextTestWithoutFifo(m) == CASE m = 2 -> 3 [] m = 3 -> 4 [] m \in {4, 1} -> 0

\* The tests in program order, 0 being the end of the function.
NextTest(m) == CASE m = 2 -> 3 [] m = 3 -> 4 [] m = 4 -> 1 [] m = 1 -> 0

Init ==
    /\ rq = runq_init
    /\ td_priority \in [Thread -> Pri]
    /\ td_rqindex = [td \in Thread |-> 0]
    /\ td_state = [td \in Thread |-> "OFF"]
    /\ kern_switch_choose = 1
    /\ add = Idle

\* Queue a runnable thread: TD_SET_RUNQ and the call of runq_add.
Enter(td, preempted) ==
    /\ add = Idle
    /\ td_state[td] = "OFF"
    /\ td_state' = [td_state EXCEPT ![td] = "RUNQ"]
    /\ add' = [td |-> td, preempted |-> preempted, test |-> 2, linked |-> 0, wrote |-> FALSE]
    /\ UNCHANGED << rq, td_priority, td_rqindex, kern_switch_choose >>

\* Leave runq_add.
Return == add' = Idle

\* Go on with the next test, or leave after the last one.
GoOn(linked) ==
    IF NextTest(add.test) = 0 THEN Return
    ELSE add' = [add EXCEPT !.test = NextTest(@), !.linked = linked]

\* A test that fails.
TestFails ==
    /\ add # Idle /\ add.test # kern_switch_choose /\ add.linked < 2
    /\ GoOn(add.linked)
    /\ UNCHANGED << rq, td_priority, td_rqindex, td_state, kern_switch_choose >>

\* The TAILQ_INSERT_BEFORE of algorithms 2 and 4 is followed by a return.
LinkedBefore(i, k) ==
    /\ k <= Len(rq.rq_queues[i])
    /\ \/ add.test = 2 /\ SortedIndex(i)
       \/ add.test = 4 /\ ~checkKern(td_priority[add.td])

\* A test that succeeds, in a call that has not linked the thread, and the
\* algorithm behind it.
TestSucceeds ==
    /\ add # Idle /\ add.test = kern_switch_choose /\ add.linked = 0
    /\ \E i \in Index : \E k \in 1 .. Len(rq.rq_queues[i]) + 1 :
          /\ runq_add(rq, td_priority, kern_switch_choose,
                      add.td, add.preempted, i, k)
          /\ rq' = Link(rq, i, k, add.td)
          /\ td_rqindex' = [td_rqindex EXCEPT ![add.td] = i]
          /\ IF LinkedBefore(i, k) THEN Return ELSE GoOn(1)
    /\ UNCHANGED << td_priority, td_state, kern_switch_choose >>

\* A test that succeeds in a call that has linked the thread already: it is
\* linked again, over its own links.  No two sequences describe the queues any
\* more; the model stops here, but for the sysctl.
LinksAgain ==
    /\ add # Idle /\ add.test = kern_switch_choose /\ add.linked = 1
    /\ add' = [add EXCEPT !.linked = 2]
    /\ UNCHANGED << rq, td_priority, td_rqindex, td_state, kern_switch_choose >>

\* Remove a queued thread: sched_rem, or the thread chosen to run.
RunqRemove(td) ==
    /\ add = Idle
    /\ td_state[td] = "RUNQ"
    /\ \E k \in 1 .. Len(rq.rq_queues[td_rqindex[td]]) :
          /\ rq.rq_queues[td_rqindex[td]][k] = td
          /\ rq' = Unlink(rq, td_rqindex[td], k)
    /\ td_state' = [td_state EXCEPT ![td] = "OFF"]
    /\ UNCHANGED << td_priority, td_rqindex, kern_switch_choose, add >>

\* sched_thread_priority of a thread that is not queued.
Reprioritize(td, prio) ==
    /\ add = Idle
    /\ td_state[td] = "OFF" /\ prio # td_priority[td]
    /\ td_priority' = [td_priority EXCEPT ![td] = prio]
    /\ UNCHANGED << rq, td_rqindex, td_state, kern_switch_choose, add >>

\* A write of kern.sched.kernChoice, at any time: the handler takes no lock.
sysctl_kernChoice(mode) ==
    /\ kern_switch_choose' = mode
    /\ add' = IF add = Idle THEN Idle ELSE [add EXCEPT !.wrote = TRUE]
    /\ UNCHANGED << rq, td_priority, td_rqindex, td_state >>

Next ==
    \/ \E td \in Thread, preempted \in Preempted : Enter(td, preempted)
    \/ TestFails
    \/ TestSucceeds
    \/ LinksAgain
    \/ \E td \in Thread : RunqRemove(td)
    \/ \E td \in Thread, prio \in Pri : Reprioritize(td, prio)
    \/ \E mode \in Mode : sysctl_kernChoice(mode)

Spec == Init /\ [][Next]_vars

-----------------------------------------------------------------------------
\* The thread of the call in progress counts as queued from its first link,
\* and is in no state RunQueue knows after a second one.
AbstractState ==
    [td \in Thread |->
        IF td # add.td \/ add.linked = 1 THEN td_state[td]
        ELSE IF add.linked = 0 THEN "OFF" ELSE "LINKED TWICE"]

Atomic == INSTANCE RunQueue WITH
            td_state <- AbstractState,
            td_lastcpu <- [td \in Thread |-> 0], Cpu <- {0}, NOCPU <- 1, Fuzz <- 1,
            policy <- [modes |-> Mode, demotes |-> FALSE],
            Policies <- {[modes |-> Mode, demotes |-> FALSE]}

\* The call returns without having linked its thread.
ReturnsUnlinked == add.linked = 0 /\ TestFails /\ Return

\* The four tests of runq_add, made one after the other while the sysctl is
\* written, are one atomic choice of an algorithm, made at the first link with
\* the value of that moment: RunQueue's RunqAdd.  Only a write during the call
\* can make a second test succeed, or make all four miss an algorithm that the
\* sysctl names.
ImplementsAtomicAdd ==
    /\ Atomic!Init
    /\ [][Atomic!Next \/ (add.wrote /\ (LinksAgain \/ ReturnsUnlinked))]_(Atomic!vars)
=============================================================================
