------------------------------ MODULE RunQueue ------------------------------
(***************************************************************************)
(* One struct runq (ULE's tdq_realtime or tdq_idle) and what the scheduler *)
(* does to it, each under the thread-queue lock and so atomic: queueing a  *)
(* runnable thread, removing one, taking the thread to run next, changing  *)
(* a thread's priority, and a write of the sysctl kern.sched.kernChoice    *)
(* between two of them.  The accounting around these calls (load, lowpri,  *)
(* transferable counts) does not touch the run queue and is left out.      *)
(***************************************************************************)
EXTENDS Runq

CONSTANTS
    Pri,        \* the priorities threads are given
    Policies,   \* how the machine may be used, see policy
    Preempted,  \* the values of flags & SRQ_PREEMPTED in calls of runq_add
    Cpu,        \* the cpus that choose a thread
    NOCPU,      \* the td_lastcpu of a thread that never ran
    Fuzz        \* the fuzz argument of runq_choose_fuzz, 1 being "normal"

ASSUME PriAssumption  == Pri \subseteq Priority
ASSUME PolicyAssumption == \A p \in Policies : p.modes \subseteq Int
ASSUME PreemptedAssumption == Preempted \subseteq BOOLEAN
ASSUME CpuAssumption == NOCPU \notin Cpu
ASSUME FuzzAssumption == Fuzz \in Nat

VARIABLES
    rq,                 \* the struct runq
    td_priority,        \* per thread
    td_rqindex,         \* per thread: index of the queue it was linked on
    td_state,           \* per thread: "RUNQ" (TD_SET_RUNQ) or "OFF"
    td_lastcpu,         \* per thread: the cpu it last ran on, or NOCPU
    kern_switch_choose, \* the algorithm runq_add uses
    policy              \* the values its sysctl is given (modes), and whether
                        \*   queued threads are demoted (demotes)

vars == << rq, td_priority, td_rqindex, td_state, td_lastcpu,
           kern_switch_choose, policy >>

\* The sysctl has its default or a value written before the first thread.  A
\* thread may be new (sched_fork_thread sets NOCPU) or have run before.
Init ==
    /\ rq = runq_init
    /\ td_priority \in [Thread -> Pri]
    /\ td_rqindex = [td \in Thread |-> 0]
    /\ td_state = [td \in Thread |-> "OFF"]
    /\ td_lastcpu \in [Thread -> Cpu \cup {NOCPU}]
    /\ policy \in Policies
    /\ kern_switch_choose \in policy.modes

-----------------------------------------------------------------------------
\* Mutant: td_rqindex keeps the priority, not the index of the queue.
RunqAddRawIndex(td, preempted) ==
    /\ td_state[td] = "OFF"
    /\ td_state' = [td_state EXCEPT ![td] = "RUNQ"]
    /\ \E i \in Index : \E k \in 1 .. Len(rq.rq_queues[i]) + 1 :
          /\ runq_add(rq, td_priority, kern_switch_choose, td, preempted, i, k)
          /\ rq' = Link(rq, i, k, td)
    /\ td_rqindex' = [td_rqindex EXCEPT ![td] = td_priority[td]]
    /\ UNCHANGED << td_priority, td_lastcpu, kern_switch_choose, policy >>

\* Mutant: td_rqindex is computed from the priority after a random queue was
\* drawn.
RunqAddPriorityIndex(td, preempted) ==
    /\ td_state[td] = "OFF"
    /\ td_state' = [td_state EXCEPT ![td] = "RUNQ"]
    /\ \E i \in Index : \E k \in 1 .. Len(rq.rq_queues[i]) + 1 :
          /\ runq_add(rq, td_priority, kern_switch_choose, td, preempted, i, k)
          /\ rq' = Link(rq, i, k, td)
    /\ td_rqindex' = [td_rqindex EXCEPT ![td] = td_priority[td] \div RQ_PPQ]
    /\ UNCHANGED << td_priority, td_lastcpu, kern_switch_choose, policy >>

\* Queue a runnable thread: TD_SET_RUNQ, then runq_add.
RunqAdd(td, preempted) ==
    /\ td_state[td] = "OFF"
    /\ td_state' = [td_state EXCEPT ![td] = "RUNQ"]
    /\ \E i \in Index : \E k \in 1 .. Len(rq.rq_queues[i]) + 1 :
          /\ runq_add(rq, td_priority, kern_switch_choose, td, preempted, i, k)
          /\ rq' = Link(rq, i, k, td)
          /\ td_rqindex' = [td_rqindex EXCEPT ![td] = i]
    /\ UNCHANGED << td_priority, td_lastcpu, kern_switch_choose, policy >>

\* The same call when kern_switch_choose names no algorithm: none of the four
\* tests of runq_add succeeds and the thread is not linked anywhere.
RunqAddNowhere(td) ==
    /\ td_state[td] = "OFF"
    /\ kern_switch_choose \notin 1 .. 4
    /\ td_state' = [td_state EXCEPT ![td] = "RUNQ"]
    /\ UNCHANGED << rq, td_priority, td_rqindex, td_lastcpu,
                    kern_switch_choose, policy >>

\* Mutant: the caller does not set the state afterwards.
RunqRemoveKeepsState(td) ==
    /\ td_state[td] = "RUNQ"
    /\ \E k \in 1 .. Len(rq.rq_queues[td_rqindex[td]]) :
          /\ rq.rq_queues[td_rqindex[td]][k] = td
          /\ rq' = Unlink(rq, td_rqindex[td], k)
    /\ UNCHANGED << td_priority, td_rqindex, td_state, td_lastcpu,
                    kern_switch_choose, policy >>

\* Remove a queued thread (sched_rem): runq_remove finds its queue through
\* td_rqindex, and the caller sets the state afterwards.
RunqRemove(td) ==
    /\ td_state[td] = "RUNQ"
    /\ \E k \in 1 .. Len(rq.rq_queues[td_rqindex[td]]) :
          /\ rq.rq_queues[td_rqindex[td]][k] = td
          /\ rq' = Unlink(rq, td_rqindex[td], k)
    /\ td_state' = [td_state EXCEPT ![td] = "OFF"]
    /\ UNCHANGED << td_priority, td_rqindex, td_lastcpu, kern_switch_choose, policy >>

\* A cpu takes the thread the run queue offers and runs it.
RunqTake(cpu) ==
    \E td \in Thread :
      /\ td = runq_choose_fuzz(rq, Fuzz, cpu, td_lastcpu)
      /\ \E k \in 1 .. Len(rq.rq_queues[td_rqindex[td]]) :
            /\ rq.rq_queues[td_rqindex[td]][k] = td
            /\ rq' = Unlink(rq, td_rqindex[td], k)
      /\ td_state' = [td_state EXCEPT ![td] = "OFF"]
      /\ td_lastcpu' = [td_lastcpu EXCEPT ![td] = cpu]
      /\ UNCHANGED << td_priority, td_rqindex, kern_switch_choose, policy >>

\* sched_thread_priority of a queued thread to a better (smaller) priority:
\* remove it, assign, and queue it again (SRQ_BORROWING).
Elevate(td, prio) ==
    /\ td_state[td] = "RUNQ" /\ prio < td_priority[td]
    /\ td_priority' = [td_priority EXCEPT ![td] = prio]
    /\ \E k \in 1 .. Len(rq.rq_queues[td_rqindex[td]]) :
          /\ rq.rq_queues[td_rqindex[td]][k] = td
          /\ LET out == Unlink(rq, td_rqindex[td], k)
             IN  \E i \in Index : \E l \in 1 .. Len(out.rq_queues[i]) + 1 :
                   /\ runq_add(out, td_priority', kern_switch_choose,
                               td, FALSE, i, l)
                   /\ rq' = Link(out, i, l, td)
                   /\ td_rqindex' = [td_rqindex EXCEPT ![td] = i]
    /\ UNCHANGED << td_state, td_lastcpu, kern_switch_choose, policy >>

\* sched_thread_priority of a queued thread to a worse (greater) priority:
\* the assignment at the end of the function, the thread staying where it is.
Demote(td, prio) ==
    /\ policy.demotes /\ td_state[td] = "RUNQ" /\ prio > td_priority[td]
    /\ td_priority' = [td_priority EXCEPT ![td] = prio]
    /\ UNCHANGED << rq, td_rqindex, td_state, td_lastcpu, kern_switch_choose, policy >>

\* sched_thread_priority of a thread that is not queued.
Reprioritize(td, prio) ==
    /\ td_state[td] = "OFF" /\ prio # td_priority[td]
    /\ td_priority' = [td_priority EXCEPT ![td] = prio]
    /\ UNCHANGED << rq, td_rqindex, td_state, td_lastcpu, kern_switch_choose, policy >>

\* A write of kern.sched.kernChoice.
sysctl_kernChoice(mode) ==
    /\ kern_switch_choose' = mode
    /\ UNCHANGED << rq, td_priority, td_rqindex, td_state, td_lastcpu, policy >>

-----------------------------------------------------------------------------
Next ==
    \/ \E td \in Thread, preempted \in Preempted : RunqAdd(td, preempted)
    \/ \E td \in Thread : RunqAddNowhere(td)
    \/ \E td \in Thread : RunqRemove(td)
    \/ \E cpu \in Cpu : RunqTake(cpu)
    \/ \E td \in Thread, prio \in Pri : Elevate(td, prio)
    \/ \E td \in Thread, prio \in Pri : Demote(td, prio)
    \/ \E td \in Thread, prio \in Pri : Reprioritize(td, prio)
    \/ \E mode \in policy.modes : sysctl_kernChoice(mode)

Spec == Init /\ [][Next]_vars

-----------------------------------------------------------------------------
\* Every variable has its type.
TypeOK ==
    /\ rq \in [rq_queues : [Index -> Seq(Thread)], rq_status : SUBSET Index]
    /\ td_priority \in [Thread -> Priority]
    /\ td_rqindex \in [Thread -> Index]
    /\ td_state \in [Thread -> {"OFF", "RUNQ"}]
    /\ td_lastcpu \in [Thread -> Cpu \cup {NOCPU}]
    /\ kern_switch_choose \in Int
    /\ policy \in Policies

\* The sysctl keeps its value, and no queued thread is demoted.
Steady == (\A m, n \in policy.modes : m = n) /\ ~policy.demotes

\* A status bit is set exactly for the non-empty queues, whatever order adds,
\* removals and priority changes come in: the KASSERTs "no thread on busy
\* queue" of the runq_choose functions hold, and no queued thread is hidden
\* from runq_findbit.
StatusBits ==
    \A i \in Index : i \in rq.rq_status <=> rq.rq_queues[i] # << >>

\* What is on the queues is runnable and is found through td_rqindex, the
\* only way runq_remove_idx has to find it.
LinkedIsRunnable ==
    \A i \in Index : \A k \in 1 .. Len(rq.rq_queues[i]) :
        LET td == rq.rq_queues[i][k]
        IN  td_state[td] = "RUNQ" /\ td_rqindex[td] = i

\* No queue holds a thread twice (with LinkedIsRunnable: no two places of the
\* run queue hold the same thread, which a tail queue cannot represent).
LinkedOnce ==
    \A i \in Index : \A j, k \in 1 .. Len(rq.rq_queues[i]) :
        rq.rq_queues[i][j] = rq.rq_queues[i][k] => j = k

\* No thread is in two places of the run queue, each queued thread can be
\* found and unlinked again, and the status bits lead to every one of them.
QueuesConsistent == StatusBits /\ LinkedIsRunnable /\ LinkedOnce

\* "Add the thread to the queue": a thread that was made runnable is linked
\* on the queue td_rqindex names, so that some cpu can choose it, as long as
\* the sysctl is only given the values of the four algorithms.
RunnableIsLinked ==
    policy.modes \subseteq 1 .. 4 => \A td \in Thread :
        td_state[td] = "RUNQ" =>
            \E k \in 1 .. Len(rq.rq_queues[td_rqindex[td]]) :
                rq.rq_queues[td_rqindex[td]][k] = td

\* The user queues of the sorted algorithms stay in priority order as long
\* as the algorithm is not switched and no queued thread is demoted.
UserQueuesSorted ==
    Steady /\ kern_switch_choose \in {2, 4} =>
        \A i \in Index : SortedIndex(i) =>
            \A j, k \in 1 .. Len(rq.rq_queues[i]) :
                j < k => td_priority[rq.rq_queues[i][j]]
                            <= td_priority[rq.rq_queues[i][k]]

\* What each algorithm still promises of "the highest priority process on the
\* run queue": 1 and 2 offer a thread of the best group of RQ_PPQ priorities
\* and 2 the very best thread when it is a user one; the splatter algorithms
\* keep the order among kernel threads, and interrupt-level threads (below
\* 48) ahead of all user threads.
BestFirst ==
    LET best == runq_choose(rq)
        Group(td) == td_priority[td] \div RQ_PPQ
    IN  Steady => \A td \in Thread : td_state[td] = "RUNQ" =>
          /\ kern_switch_choose \in {1, 2} => Group(best) <= Group(td)
          /\ (kern_switch_choose = 2 /\ ~checkKern(td_priority[best]))
                => td_priority[best] <= td_priority[td]
          /\ (kern_switch_choose \in {3, 4} /\ checkKern(td_priority[td])
                /\ (checkKern(td_priority[best]) \/ td_priority[td] < 48))
                => Group(best) <= Group(td)

\* With algorithms 1 and 2 a thread waits on the queue of its priority or of
\* a better one, even after demotions and switches between the two: no
\* thread is ever worse placed than its priority says.
NeverPlacedTooLow ==
    policy.modes \subseteq {1, 2} => \A td \in Thread :
        td_state[td] = "RUNQ" => RQ_PPQ * td_rqindex[td] <= td_priority[td]

\* The order of the queues, as far as the algorithms keep one.
OrderKept == UserQueuesSorted /\ BestFirst /\ NeverPlacedTooLow

\* A thread queued by algorithm 1 or 2 among threads of its own priority is
\* eventually taken off the queue again, or it is a new thread and comes to
\* stand first.  Of a new thread no more can be said: no cpu prefers it, and
\* with fuzz > 1 the cpus may take their own threads from behind it for ever.
EventuallyChosen ==
    \A td \in Thread :
      /\ (td_state[td] = "RUNQ" /\ td_lastcpu[td] # NOCPU) ~> td_state[td] = "OFF"
      /\ td_state[td] = "RUNQ" ~>
            td_state[td] = "OFF" \/ runq_choose(rq) = td
=============================================================================
