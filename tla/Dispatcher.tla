----------------------------- MODULE Dispatcher -----------------------------
(***************************************************************************)
(* The worker pool of asgn2/httpserver.c: main accepts connections and     *)
(* hands each to a worker, handle_task serves it and makes itself          *)
(* available again.  What a worker does with a connection is the module    *)
(* Requests; here it is one step, and what it does to the descriptors of   *)
(* others: a PUT closes its file twice (lines 196 and 242), and of several *)
(* healthchecks at once one closes the descriptor of another (line 117),   *)
(* which the other will close again.  If accept has returned the number in *)
(* between, it is a client's connection that is closed.                    *)
(*                                                                         *)
(* The fields client_sockd and available are plain ints that main and the  *)
(* worker write and read without a lock.  Each access is a step of its     *)
(* own, and two stores with no call between them may be made in either     *)
(* order (the build is -O2).                                               *)
(***************************************************************************)
EXTENDS Integers, FiniteSets

CONSTANTS
    threadNum,      \* number of workers (-N)
    Sockd,          \* the numbers accept returns for connections
    Free,           \* INT_MIN: a worker without a connection
    Failed,         \* -1: accept failed
    MaxAccepted,    \* bound on the number of connections
    MaxFailed       \* bound on the number of failing accepts

ASSUME ThreadNumAssumption == threadNum \in Nat \ {0}
ASSUME SockdAssumption == Free \notin Sockd /\ Failed \notin Sockd
ASSUME BoundsAssumption == MaxAccepted \in Nat /\ MaxFailed \in Nat

Worker == 0 .. threadNum - 1

VARIABLES
    accepted,       \* connections accepted so far
    failures,       \* failing accepts so far
    open,           \* the numbers that are open connections
    again,          \* per worker: a number that it has closed, or that was
                    \*   closed under it, and that it will close again; Failed
                    \*   when it has
    struck,         \* such a close has hit a connection
    client_sockd,   \* per worker
    available,      \* per worker
    pc,             \* per worker: where handle_task is
    todo,           \* per worker: stores of its release still to be made
    main,           \* main: pc, loop variable i, accepted socket, stores to make
    count,          \* main's count modulo threadNum
    polls           \* see WaitForWork; fixed by the build

fds == << accepted, failures, open, again, struck >>
vars == << fds, client_sockd, available, pc, todo, main, count, polls >>

Stores == {"client_sockd", "available"}

Init ==
    /\ accepted = 0 /\ failures = 0
    /\ open = {} /\ again = [w \in Worker |-> Free] /\ struck = FALSE
    /\ client_sockd = [w \in Worker |-> Free]
    /\ available = [w \in Worker |-> TRUE]
    /\ pc = [w \in Worker |-> "check"]
    /\ todo = [w \in Worker |-> {}]
    /\ main = [pc |-> "accept", i |-> 0, sockd |-> Free, todo |-> {}]
    /\ count = 0
    /\ polls \in BOOLEAN

-----------------------------------------------------------------------------
\* handle_task

\* Mutant: the loop tests available too, which main clears.
TakeWorkAvailable(w) ==
    /\ pc[w] = "check" /\ client_sockd[w] \in Sockd /\ available[w]
    /\ pc' = [pc EXCEPT ![w] = "serve"]
    /\ UNCHANGED << fds, client_sockd, available, todo, main,
                    count, polls >>

\* while(client_sockd < 0) is left when there is a connection.
TakeWork(w) ==
    /\ pc[w] = "check" /\ client_sockd[w] \in Sockd
    /\ pc' = [pc EXCEPT ![w] = "serve"]
    /\ UNCHANGED << fds, client_sockd, available, todo, main,
                    count, polls >>

\* The test fails and pthread_cond_wait is called.  Its mutex argument is the
\* address of a pointer to a mutex: the call either fails at once, and the
\* worker polls (nothing changes), or it blocks.
WaitForWork(w) ==
    /\ ~polls
    /\ pc[w] = "check" /\ client_sockd[w] \notin Sockd
    /\ pc' = [pc EXCEPT ![w] = "wait"]
    /\ UNCHANGED << fds, client_sockd, available, todo, main,
                    count, polls >>

\* The worker is on the condition variable; a signal before this is lost.
FallAsleep(w) ==
    /\ pc[w] = "wait"
    /\ pc' = [pc EXCEPT ![w] = "asleep"]
    /\ UNCHANGED << fds, client_sockd, available, todo, main,
                    count, polls >>

\* A spurious wake-up.
WakeUp(w) ==
    /\ pc[w] = "asleep"
    /\ pc' = [pc EXCEPT ![w] = "check"]
    /\ UNCHANGED << fds, client_sockd, available, todo, main,
                    count, polls >>

\* A file that the worker's request has open is closed, at line 196 or by
\* another healthcheck, and the worker will close its number once more.
CloseFile(w) ==
    /\ pc[w] = "serve" /\ again[w] = Free
    /\ \E d \in Sockd \ open : again' = [again EXCEPT ![w] = d]
    /\ UNCHANGED << accepted, failures, open, struck, client_sockd, available, pc,
                    todo, main, count, polls >>

\* Line 242, or 117: by now the number may be a connection.
CloseAgain(w) ==
    /\ again[w] \in Sockd
    /\ open' = open \ {again[w]}
    /\ struck' = (struck \/ again[w] \in open)
    /\ again' = [again EXCEPT ![w] = Failed]
    /\ UNCHANGED << accepted, failures, client_sockd, available, pc, todo, main,
                    count, polls >>

\* Read, process, respond, log, and close(client_sockd).
Serve(w) ==
    /\ pc[w] = "serve" /\ again[w] \notin Sockd
    /\ open' = open \ {client_sockd[w]}
    /\ again' = [again EXCEPT ![w] = Free]
    /\ pc' = [pc EXCEPT ![w] = "release"]
    /\ todo' = [todo EXCEPT ![w] = Stores]
    /\ UNCHANGED << accepted, failures, struck, client_sockd, available, main,
                    count, polls >>

\* available = 1 and client_sockd = INT_MIN.
Release(w) ==
    /\ pc[w] = "release"
    /\ \E x \in todo[w] :
          /\ todo' = [todo EXCEPT ![w] = @ \ {x}]
          /\ available' = [available EXCEPT ![w] = @ \/ x = "available"]
          /\ client_sockd' = [client_sockd EXCEPT ![w] =
                                IF x = "client_sockd" THEN Free ELSE @]
    /\ UNCHANGED << fds, pc, main, count, polls >>

\* pthread_cond_signal(&Maincondition_var), and round the loop.
SignalMain(w) ==
    /\ pc[w] = "release" /\ todo[w] = {}
    /\ pc' = [pc EXCEPT ![w] = "check"]
    /\ main' = [main EXCEPT !.pc = IF @ = "asleep" THEN "woken" ELSE @]
    /\ UNCHANGED << fds, client_sockd, available, todo, count, polls >>

-----------------------------------------------------------------------------
\* main

\* accept returns a number that is not open; the scan starts at
\* count % threadNum.
Accept(d) ==
    /\ main.pc = "accept" /\ d \notin open /\ accepted < MaxAccepted
    /\ accepted' = accepted + 1
    /\ open' = open \cup {d}
    /\ main' = [main EXCEPT !.pc = "scan", !.i = count, !.sockd = d]
    /\ UNCHANGED << failures, again, struck, client_sockd, available, pc, todo,
                    count, polls >>

\* accept returns -1, which is handed on like a connection.
AcceptFails ==
    /\ main.pc = "accept" /\ failures < MaxFailed
    /\ failures' = failures + 1
    /\ main' = [main EXCEPT !.pc = "scan", !.i = count, !.sockd = Failed]
    /\ UNCHANGED << accepted, open, again, struck, client_sockd, available, pc, todo,
                    count, polls >>

\* Mutant: the worker is taken without looking at available.
ScanBlindly ==
    /\ main.pc = "scan"
    /\ main' = [main EXCEPT !.pc = "assign", !.todo = Stores]
    /\ UNCHANGED << fds, client_sockd, available, pc, todo, count, polls >>

\* One round of the for loop: take an available worker, or wait after the
\* last one, or look at the next.
Scan ==
    /\ main.pc = "scan"
    /\ main' = IF available[main.i]
               THEN [main EXCEPT !.pc = "assign", !.todo = Stores]
               ELSE IF main.i = threadNum - 1 THEN [main EXCEPT !.pc = "wait"]
               ELSE [main EXCEPT !.i = @ + 1]
    /\ UNCHANGED << fds, client_sockd, available, pc, todo, count, polls >>

\* Mutant: available is not cleared.
AssignKeepsAvailable ==
    /\ main.pc = "assign"
    /\ \E x \in main.todo :
          /\ main' = [main EXCEPT !.todo = @ \ {x}]
          /\ client_sockd' = [client_sockd EXCEPT ![main.i] =
                                IF x = "client_sockd" THEN main.sockd ELSE @]
    /\ UNCHANGED << fds, available, pc, todo, count, polls >>

\* workers[i].client_sockd = client_sockd and workers[i].available = 0.
Assign ==
    /\ main.pc = "assign"
    /\ \E x \in main.todo :
          /\ main' = [main EXCEPT !.todo = @ \ {x}]
          /\ available' = [available EXCEPT ![main.i] = @ /\ x # "available"]
          /\ client_sockd' = [client_sockd EXCEPT ![main.i] =
                                IF x = "client_sockd" THEN main.sockd ELSE @]
    /\ UNCHANGED << fds, pc, todo, count, polls >>

\* count++ and back to accept.
NextAccept ==
    /\ main' = [pc |-> "accept", i |-> 0, sockd |-> Free, todo |-> {}]
    /\ count' = (count + 1) % threadNum

\* Mutant: the break is missing, and the loop goes on to the next worker.
SignalWorkerNoBreak ==
    /\ main.pc = "assign" /\ main.todo = {}
    /\ pc' = [pc EXCEPT ![main.i] = IF @ = "asleep" THEN "check" ELSE @]
    /\ main' = IF main.i = threadNum - 1 THEN [main EXCEPT !.pc = "wait"]
               ELSE [main EXCEPT !.pc = "scan", !.i = @ + 1]
    /\ UNCHANGED << fds, client_sockd, available, todo, count, polls >>

\* pthread_cond_signal(&workers[i].condition_var), break.
SignalWorker ==
    /\ main.pc = "assign" /\ main.todo = {}
    /\ pc' = [pc EXCEPT ![main.i] = IF @ = "asleep" THEN "check" ELSE @]
    /\ NextAccept
    /\ UNCHANGED << fds, client_sockd, available, todo, polls >>

\* pthread_cond_wait(&Maincondition_var, &Mainlock): Mainlock protects
\* nothing, so a signal sent before main is on the variable is lost.
MainFallAsleep ==
    /\ main.pc = "wait"
    /\ main' = [main EXCEPT !.pc = "asleep"]
    /\ UNCHANGED << fds, client_sockd, available, pc, todo, count, polls >>

\* A spurious wake-up.
MainWakeUp ==
    /\ main.pc = "asleep"
    /\ main' = [main EXCEPT !.pc = "woken"]
    /\ UNCHANGED << fds, client_sockd, available, pc, todo, count, polls >>

\* i = 0 and then the i++ of the for loop: worker 0 is not looked at, and
\* with a single worker the loop ends without a worker.
Rescan ==
    /\ main.pc = "woken"
    /\ IF threadNum > 1
       THEN main' = [main EXCEPT !.pc = "scan", !.i = 1] /\ count' = count
       ELSE NextAccept
    /\ UNCHANGED << fds, client_sockd, available, pc, todo, polls >>

-----------------------------------------------------------------------------
WorkerStep(w) ==
    TakeWork(w) \/ WaitForWork(w) \/ FallAsleep(w) \/ CloseAgain(w) \/ Serve(w)
        \/ Release(w) \/ SignalMain(w)

MainStep == Scan \/ Assign \/ SignalWorker \/ MainFallAsleep \/ Rescan

Next ==
    \/ \E w \in Worker : WorkerStep(w) \/ CloseFile(w) \/ WakeUp(w)
    \/ \E d \in Sockd : Accept(d)
    \/ AcceptFails
    \/ MainStep
    \/ MainWakeUp

Spec == Init /\ [][Next]_vars

\* Threads that can run do run.  Nothing makes a condition variable wake up
\* spuriously, and nothing makes clients connect.
FairSpec ==
    /\ Spec
    /\ WF_vars(MainStep)
    /\ \A w \in Worker : WF_vars(WorkerStep(w))

-----------------------------------------------------------------------------
\* Every variable has its type.
TypeOK ==
    /\ accepted \in 0 .. MaxAccepted /\ failures \in 0 .. MaxFailed
    /\ open \subseteq Sockd /\ struck \in BOOLEAN
    /\ again \in [Worker -> Sockd \cup {Free, Failed}]
    /\ client_sockd \in [Worker -> Sockd \cup {Free, Failed}]
    /\ available \in [Worker -> BOOLEAN]
    /\ pc \in [Worker -> {"check", "wait", "asleep", "serve", "release"}]
    /\ todo \in [Worker -> SUBSET Stores]
    /\ main \in [pc : {"accept", "scan", "assign", "wait", "asleep", "woken"},
                 i : Worker, sockd : Sockd \cup {Free, Failed},
                 todo : SUBSET Stores]
    /\ count \in Worker
    /\ polls \in BOOLEAN

\* Worker w is about to erase its client_sockd.
Erasing(w) == pc[w] = "release" /\ "client_sockd" \in todo[w]

\* Worker w has connection d: it is serving it, or will.
Has(w, d) == client_sockd[w] = d /\ ~Erasing(w)

\* main has accepted d and not stored it in a worker yet.
InMain(d) ==
    /\ main.sockd = d
    /\ main.pc = "assign" => "client_sockd" \in main.todo

\* d is open, and nobody will ever serve it.
Lost(d) == d \in open /\ ~InMain(d) /\ \A w \in Worker : ~Has(w, d)

\* Worker w will never be given a connection again.
Retired(w) ==
    /\ pc[w] # "serve" /\ (pc[w] = "release" => "available" \notin todo[w])
    /\ client_sockd[w] \notin Sockd \/ Erasing(w)
    /\ LET stores == IF main.i = w THEN main.todo ELSE {}
       IN  "client_sockd" \notin stores /\ (~available[w] \/ "available" \in stores)

\* At most one of main and the workers has d, and while one has, d is open.
OneOwner ==
    \A d \in Sockd :
        /\ \A v, w \in Worker : Has(v, d) /\ Has(w, d) => v = w
        /\ InMain(d) => d \in open /\ \A w \in Worker : ~Has(w, d)
        /\ \A w \in Worker : Has(w, d) => d \in open

\* Until a stray close of lines 117 and 242 has hit a connection, no number is
\* in the hands of two threads, in spite of the unprotected hand-over through
\* client_sockd and available and of the numbers being used again, and no
\* worker runs a request on a descriptor that is closed.
SingleOwner == struck \/ OneOwner

\* main never replaces the connection of a worker that is serving it.
ServesUndisturbed ==
    [][\A w \in Worker : pc[w] = "serve" => client_sockd'[w] = client_sockd[w]]_vars

\* The race between Assign and Release loses connections, but each one takes
\* a worker out of the pool with it, so that at most threadNum are ever lost,
\* and then nobody is left to serve (threadNum > 1: with one worker Rescan
\* drops connections as well).  Stray closes do not add to them.
LossRetiresWorker ==
    Cardinality({d \in Sockd : Lost(d)}) <= Cardinality({w \in Worker : Retired(w)})

\* A worker that is out of the pool stays out of it.
RetiredForever ==
    [][\A w \in Worker : Retired(w) => Retired(w)']_vars

\* With workers that poll, a connection that reached a worker is closed in the
\* end, unless the release race loses it.
AssignedIsFinished ==
    \A d \in Sockd : (polls /\ \E w \in Worker : Has(w, d))
                        ~> (d \notin open \/ Lost(d))
=============================================================================
