-------------------------------- MODULE Runq --------------------------------
(***************************************************************************)
(* The run-queue operations of testkernel/kern_switch.c as operators on a  *)
(* struct runq: an array of RQ_NQS tail queues and a bit set that says     *)
(* which of them are non-empty.  The state machines that call them are     *)
(* RunQueue (one queue, atomic calls) and RunqAddSteps (runq_add test by   *)
(* test).                                                                  *)
(*                                                                         *)
(* A tail queue is a sequence of threads.  The status words are one set of *)
(* indices: how the bits are packed into words is not observable.          *)
(***************************************************************************)
EXTENDS Integers, Sequences, SequencesExt, FiniteSetsExt

CONSTANTS
    Thread,     \* the threads (struct thread)
    NoThread,   \* the NULL that runq_choose returns for an empty run queue
    Draw        \* the values random() % 256 takes in the instance

RQ_NQS == 64
RQ_PPQ == 4

Index    == 0 .. RQ_NQS - 1
Priority == 0 .. 255

ASSUME NoThreadAssumption == NoThread \notin Thread
ASSUME DrawAssumption     == Draw \subseteq Priority

-----------------------------------------------------------------------------
\* checkKern of runq_add: interrupt and kernel priorities.  Everything else
\* (realtime, timeshare and idle) is "user" to the splatter algorithms.
checkKern(p) == p < 48 \/ (p > 79 /\ p < 120)

\* The queue indices that the sorted algorithm (2) keeps in priority order.
\* They are exactly the indices of the priorities that are not checkKern.
SortedIndex(i) == i \in (12 .. 19) \cup (30 .. 63)

\* runq_init: all queues empty, all bits clear.
runq_init == [rq_queues |-> [i \in Index |-> << >>], rq_status |-> {}]

runq_setbit(rq, i) == [rq EXCEPT !.rq_status = @ \cup {i}]
runq_clrbit(rq, i) == [rq EXCEPT !.rq_status = @ \ {i}]

\* Index of the first set bit, -1 when there is none.
runq_findbit(rq) ==
    IF rq.rq_status = {} THEN -1 ELSE Min(rq.rq_status)

\* Index of the first set bit at or after i, wrapping to 0 once.
runq_findbit_from(rq, i) ==
    LET after == {j \in rq.rq_status : j >= i}
    IN  IF after # {} THEN Min(after) ELSE runq_findbit(rq)

runq_check(rq) == rq.rq_status # {}

-----------------------------------------------------------------------------
\* Link td as the k-th element of queue i, with the queue's bit set.
Link(rq, i, k, td) ==
    [runq_setbit(rq, i) EXCEPT !.rq_queues[i] = InsertAt(@, k, td)]

\* Mutant: the preempted flag is read the wrong way round.
FifoPositionSwapped(q, preempted) == IF preempted THEN Len(q) + 1 ELSE 1

\* The flags-driven position of the FIFO algorithms: a preempted thread goes
\* to the head, every other thread to the tail.
FifoPosition(q, preempted) == IF preempted THEN 1 ELSE Len(q) + 1

\* Mutant: the comparison of the scan is turned round.
SortedPositionSwapped(q, pri, td, k) ==
    /\ k \in 1 .. Len(q) + 1
    /\ \A j \in 1 .. k - 1 : pri[q[j]] >= pri[td]
    /\ k <= Len(q) => pri[q[k]] < pri[td]

\* Position k is where the TAILQ_FOREACH of the sorted algorithms links td:
\* in front of the first thread whose td_priority is greater, else the tail.
SortedPosition(q, pri, td, k) ==
    /\ k \in 1 .. Len(q) + 1
    /\ \A j \in 1 .. k - 1 : pri[q[j]] <= pri[td]
    /\ k <= Len(q) => pri[q[k]] > pri[td]

\* The queue the splatter algorithms choose: a kernel thread keeps the queue
\* of its priority, a user thread gets the queue of a random user priority
\* (the while(true) draws again until the priority is not a kernel one).
SplatterIndices(p) ==
    IF checkKern(p) THEN {p \div RQ_PPQ}
    ELSE {d \div RQ_PPQ : d \in {e \in Draw : ~checkKern(e)}}

-----------------------------------------------------------------------------
\* The four algorithms of runq_add.  Each says that it may link td as the
\* k-th element of queue i, pri being the threads' td_priority.

\* kern_switch_choose = 1: the original FreeBSD algorithm.
AddFifo(rq, pri, td, preempted, i, k) ==
    /\ i = pri[td] \div RQ_PPQ
    /\ k = FifoPosition(rq.rq_queues[i], preempted)

\* kern_switch_choose = 2: user queues in priority order.
AddSorted(rq, pri, td, preempted, i, k) ==
    /\ i = pri[td] \div RQ_PPQ
    /\ IF SortedIndex(i)
       THEN SortedPosition(rq.rq_queues[i], pri, td, k)
       ELSE k = FifoPosition(rq.rq_queues[i], preempted)

\* kern_switch_choose = 3: user threads on a random user queue.
AddSplatter(rq, pri, td, preempted, i, k) ==
    /\ i \in SplatterIndices(pri[td])
    /\ k = FifoPosition(rq.rq_queues[i], preempted)

\* kern_switch_choose = 4: random user queue, each in priority order.
AddSplatterSorted(rq, pri, td, preempted, i, k) ==
    /\ i \in SplatterIndices(pri[td])
    /\ IF checkKern(pri[td])
       THEN k = FifoPosition(rq.rq_queues[i], preempted)
       ELSE SortedPosition(rq.rq_queues[i], pri, td, k)

\* runq_add for a value of kern_switch_choose that does not change during
\* the call: the algorithm whose test succeeds.
runq_add(rq, pri, mode, td, preempted, i, k) ==
    \/ mode = 2 /\ AddSorted(rq, pri, td, preempted, i, k)
    \/ mode = 3 /\ AddSplatter(rq, pri, td, preempted, i, k)
    \/ mode = 4 /\ AddSplatterSorted(rq, pri, td, preempted, i, k)
    \/ mode = 1 /\ AddFifo(rq, pri, td, preempted, i, k)

-----------------------------------------------------------------------------
\* Unlink td, the k-th element of queue i, and clear the bit of a queue that
\* becomes empty (runq_remove, and runq_remove_idx but for its *idx).
Unlink(rq, i, k) ==
    LET rest == [rq EXCEPT !.rq_queues[i] = RemoveAt(@, k)]
    IN  IF rest.rq_queues[i] = << >> THEN runq_clrbit(rest, i) ELSE rest

\* The first thread of the first non-empty queue, NULL if there is none.
runq_choose(rq) ==
    LET i == runq_findbit(rq)
    IN  IF i = -1 THEN NoThread ELSE Head(rq.rq_queues[i])

\* runq_choose, but with fuzz > 1 the first of the leading fuzz threads that
\* last ran on this cpu is preferred to the head.
runq_choose_fuzz(rq, fuzz, cpu, lastcpu) ==
    LET i    == runq_findbit(rq)
        q    == rq.rq_queues[i]
        ours == {k \in 1 .. Min({fuzz, Len(q)}) : lastcpu[q[k]] = cpu}
    IN  IF i = -1 THEN NoThread
        ELSE IF fuzz > 1 /\ ours # {} THEN q[Min(ours)] ELSE Head(q)
=============================================================================
