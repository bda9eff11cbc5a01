-------------------------- MODULE DispatcherProofs --------------------------
(***************************************************************************)
(* The hand-over of connections, proved for every number of workers, every *)
(* set of descriptors, and both behaviours of pthread_cond_wait.           *)
(***************************************************************************)
EXTENDS Dispatcher, FiniteSetTheorems, TLAPS

\* Worker w must not be given a connection.
Leaving(w) == pc[w] = "release" /\ "available" \in todo[w]
Busy(w) == (client_sockd[w] \in Sockd /\ ~Erasing(w)) \/ Leaving(w)

\* main has stores to make only while it assigns, and no socket at accept.
MainShape ==
    /\ main.todo # {} => main.pc = "assign"
    /\ main.pc = "accept" => main.sockd = Free

\* A worker that serves has a connection.
ServingHolds == \A w \in Worker : pc[w] = "serve" => client_sockd[w] \in Sockd

\* A busy worker is unavailable, or main is just about to make it so; and main
\* is not about to overwrite its connection.
BusyIsUnavailable ==
    \A w \in Worker : Busy(w) =>
        /\ main.i = w => "client_sockd" \notin main.todo
        /\ available[w] => main.i = w /\ "available" \in main.todo

\* Between main's two stores, in the order available, client_sockd.
TakenFirst ==
    ("client_sockd" \in main.todo /\ "available" \notin main.todo)
        => ~available[main.i]

\* A worker that is not available again has no connection, or is about to
\* erase it.
LeavingIsEmpty ==
    \A w \in Worker : Leaving(w) => client_sockd[w] \notin Sockd \/ Erasing(w)

Shape == MainShape /\ ServingHolds /\ BusyIsUnavailable /\ TakenFirst /\ LeavingIsEmpty
IInv == TypeOK /\ Shape /\ SingleOwner

\* Facts about the constants that the leaves use.
LEMMA ConstantFacts ==
    /\ 0 \in Worker
    /\ threadNum > 1 => 1 \in Worker
    /\ \A k \in Worker : k # threadNum - 1 => k + 1 \in Worker
    /\ \A k \in Worker : (k + 1) % threadNum \in Worker
BY ThreadNumAssumption DEF Worker

\* The invariant holds before main accepts anything.
LEMMA InitIInv == Init => IInv
<1> SUFFICES ASSUME Init PROVE IInv
  OBVIOUS
<1>1. TypeOK
  <2>1. accepted \in 0 .. MaxAccepted /\ failures \in 0 .. MaxFailed /\ count \in Worker
    BY ConstantFacts, BoundsAssumption DEF Init
  <2>2. /\ main \in [pc : {"accept", "scan", "assign", "wait", "asleep", "woken"},
                     i : Worker, sockd : Sockd \cup {Free, Failed},
                     todo : SUBSET Stores]
        /\ pc \in [Worker -> {"check", "wait", "asleep", "serve", "release"}]
        /\ todo \in [Worker -> SUBSET Stores]
    BY ConstantFacts DEF Init
  <2>3. /\ open \subseteq Sockd /\ struck \in BOOLEAN
        /\ again \in [Worker -> Sockd \cup {Free, Failed}]
        /\ client_sockd \in [Worker -> Sockd \cup {Free, Failed}]
    BY DEF Init
  <2>4. available \in [Worker -> BOOLEAN] /\ polls \in BOOLEAN
    BY DEF Init
  <2> QED BY <2>1, <2>2, <2>3, <2>4 DEF TypeOK
<1>2. SingleOwner
  BY SockdAssumption DEF Init, SingleOwner, OneOwner, InMain, Has
<1>3. Shape
  BY SockdAssumption DEF Init, Shape, MainShape, ServingHolds, BusyIsUnavailable,
     TakenFirst, LeavingIsEmpty, Busy, Leaving
<1> QED BY <1>1, <1>2, <1>3 DEF IInv

\* Every step keeps the types.
LEMMA NextKeepsTypes == TypeOK /\ MainShape /\ ServingHolds /\ [Next]_vars => TypeOK'
<1> SUFFICES ASSUME TypeOK, MainShape, ServingHolds, [Next]_vars PROVE TypeOK'
  OBVIOUS
<1>1. ASSUME NEW w \in Worker,
             TakeWork(w) \/ WaitForWork(w) \/ FallAsleep(w) \/ WakeUp(w) \/ SignalMain(w)
      PROVE  TypeOK'
  BY <1>1 DEF TakeWork, WaitForWork, FallAsleep, WakeUp, SignalMain, TypeOK, fds
<1>2. ASSUME NEW w \in Worker, CloseFile(w) \/ CloseAgain(w) PROVE TypeOK'
  <2>1. open' \subseteq Sockd /\ struck' \in BOOLEAN
    BY <1>2 DEF CloseFile, CloseAgain, TypeOK
  <2>2. again' \in [Worker -> Sockd \cup {Free, Failed}]
    BY <1>2 DEF CloseFile, CloseAgain, TypeOK
  <2>3. UNCHANGED << accepted, failures, client_sockd, available, pc, todo, main,
                     count, polls >>
    BY <1>2 DEF CloseFile, CloseAgain
  <2> QED BY <2>1, <2>2, <2>3 DEF TypeOK
<1>3. ASSUME NEW w \in Worker, Serve(w) PROVE TypeOK'
  BY <1>3 DEF Serve, TypeOK, Stores
<1>4. ASSUME NEW w \in Worker, Release(w) PROVE TypeOK'
  BY <1>4 DEF Release, TypeOK, Stores, fds
<1>5. ASSUME NEW d \in Sockd, Accept(d) PROVE TypeOK'
  <2>1. accepted' \in 0 .. MaxAccepted
    BY <1>5, BoundsAssumption DEF Accept, TypeOK
  <2> QED BY <2>1, <1>5, ConstantFacts DEF Accept, TypeOK
<1>6. ASSUME AcceptFails PROVE TypeOK'
  <2>1. failures' \in 0 .. MaxFailed
    BY <1>6, BoundsAssumption DEF AcceptFails, TypeOK
  <2> QED BY <2>1, <1>6 DEF AcceptFails, TypeOK
<1>7. ASSUME Scan PROVE TypeOK'
  BY <1>7, ConstantFacts DEF Scan, TypeOK, Stores, fds
<1>8. ASSUME Assign PROVE TypeOK'
  BY <1>8 DEF Assign, TypeOK, Stores, fds
<1>9. ASSUME SignalWorker PROVE TypeOK'
  BY <1>9, ConstantFacts DEF SignalWorker, NextAccept, TypeOK, fds
<1>10. ASSUME MainFallAsleep \/ MainWakeUp PROVE TypeOK'
  BY <1>10 DEF MainFallAsleep, MainWakeUp, TypeOK, fds
<1>11. ASSUME Rescan PROVE TypeOK'
  <2>1. /\ main' \in [pc : {"accept", "scan", "assign", "wait", "asleep", "woken"},
                      i : Worker, sockd : Sockd \cup {Free, Failed},
                      todo : SUBSET Stores]
        /\ count' \in Worker
    <3>1. CASE threadNum > 1
      <4>1. main' = [main EXCEPT !.pc = "scan", !.i = 1] /\ count' = count
        BY <1>11, <3>1 DEF Rescan
      <4> QED BY <4>1, <3>1, ConstantFacts DEF TypeOK
    <3>2. CASE ~(threadNum > 1)
      <4>1. NextAccept
        BY <1>11, <3>2 DEF Rescan
      <4>2. count' \in Worker
        BY <4>1, ConstantFacts DEF NextAccept, TypeOK
      <4>3. main'.todo = {} /\ main' \in [pc : {"accept"}, i : {0}, sockd : {Free},
                                         todo : {{}}]
        BY <4>1 DEF NextAccept
      <4> QED BY <4>2, <4>3, ConstantFacts
    <3> QED BY <3>1, <3>2
  <2>2. UNCHANGED << accepted, failures, open, again, struck >>
        /\ UNCHANGED << client_sockd, available, pc, todo, polls >>
    BY <1>11 DEF Rescan, fds
  <2> QED BY <2>1, <2>2 DEF TypeOK
<1>12. CASE UNCHANGED vars
  <2>1. UNCHANGED << accepted, failures, open, again, struck >>
        /\ UNCHANGED << client_sockd, available, pc, todo >>
        /\ UNCHANGED << main, count, polls >>
    BY <1>12 DEF vars, fds
  <2> QED BY Zenon, <2>1 DEF TypeOK
<1> QED
  BY <1>1, <1>2, <1>3, <1>4, <1>5, <1>6, <1>7, <1>8, <1>9, <1>10, <1>11, <1>12
     DEF Next, WorkerStep, MainStep

\* What a step of a worker that stores nothing and closes no connection, or of
\* main on a condition variable, does to the invariant.
QuietStep ==
    /\ UNCHANGED << open, struck, client_sockd, available, todo >>
    /\ main'.i = main.i /\ main'.todo = main.todo /\ main'.sockd = main.sockd
    /\ main'.pc \in {"assign", "accept"} \/ main.pc \in {"assign", "accept"}
          => main'.pc = main.pc
    /\ \A w \in Worker : /\ Erasing(w)' <=> Erasing(w)
                         /\ Leaving(w)' <=> Leaving(w)
                         /\ pc'[w] = "serve" => client_sockd[w] \in Sockd

LEMMA QuietKeepsShape == IInv /\ QuietStep => Shape' /\ SingleOwner'
<1> SUFFICES ASSUME IInv, QuietStep PROVE Shape' /\ SingleOwner'
  OBVIOUS
<1>1. \A w \in Worker : Busy(w)' <=> Busy(w)
  BY DEF QuietStep, Busy
<1>2. Shape'
  BY <1>1 DEF QuietStep, IInv, Shape, MainShape, ServingHolds, BusyIsUnavailable,
     TakenFirst, LeavingIsEmpty
<1>3. \A d \in Sockd : /\ InMain(d)' <=> InMain(d)
                       /\ \A w \in Worker : Has(w, d)' <=> Has(w, d)
  BY DEF QuietStep, InMain, Has
<1> QED BY <1>2, <1>3 DEF QuietStep, IInv, SingleOwner, OneOwner

\* What a step of main does that leaves accept, or looks for a worker.
MainMoves ==
    /\ UNCHANGED << client_sockd, available, todo >>
    /\ main.todo = {}
    /\ main'.todo = {} \/ (main'.todo = Stores /\ main'.pc = "assign" /\ available[main'.i])
    /\ main'.pc = "accept" => main'.sockd = Free
    /\ main'.pc # "assign" => main'.todo = {}
    /\ main'.i \in Worker
    /\ \A w \in Worker : pc'[w] = pc[w] \/ (pc[w] = "asleep" /\ pc'[w] = "check")

LEMMA MainKeepsShape == IInv /\ MainMoves => Shape'
<1> SUFFICES ASSUME IInv, MainMoves PROVE Shape'
  OBVIOUS
<1>1. \A w \in Worker : /\ Erasing(w)' <=> Erasing(w)
                        /\ Leaving(w)' <=> Leaving(w)
                        /\ Busy(w)' <=> Busy(w)
  BY DEF MainMoves, Busy, Erasing, Leaving
<1>2. \A w \in Worker : Busy(w) => ~available[w]
  BY DEF MainMoves, IInv, Shape, BusyIsUnavailable
<1>3. BusyIsUnavailable'
  BY <1>1, <1>2 DEF MainMoves, BusyIsUnavailable, Stores
<1>4. LeavingIsEmpty'
  BY <1>1 DEF MainMoves, IInv, Shape, LeavingIsEmpty
<1>5. MainShape' /\ ServingHolds' /\ TakenFirst'
  BY DEF MainMoves, IInv, Shape, MainShape, ServingHolds, TakenFirst, Stores
<1> QED BY <1>3, <1>4, <1>5 DEF Shape

\* Every step of a worker or of main keeps the invariant.
LEMMA NextKeepsIInv == IInv /\ [Next]_vars => IInv'
<1> SUFFICES ASSUME IInv, [Next]_vars PROVE Shape' /\ SingleOwner'
  BY NextKeepsTypes DEF IInv, Shape
<1>t. TypeOK
  BY DEF IInv
<1>1. ASSUME NEW w \in Worker,
             \/ TakeWork(w) \/ WaitForWork(w) \/ FallAsleep(w) \/ WakeUp(w)
             \/ SignalMain(w) \/ CloseFile(w)
      PROVE  QuietStep
  <2>1. /\ UNCHANGED << open, struck, client_sockd, available, todo >>
        /\ main'.i = main.i /\ main'.todo = main.todo /\ main'.sockd = main.sockd
        /\ main'.pc = main.pc \/ (main.pc = "asleep" /\ main'.pc = "woken")
    BY <1>1, <1>t DEF TakeWork, WaitForWork, FallAsleep, WakeUp, SignalMain, CloseFile,
       fds, TypeOK
  <2>2. \A v \in Worker : \/ pc'[v] = pc[v]
                          \/ /\ pc[v] = "release" => todo[v] = {}
                             /\ pc'[v] # "release"
                             /\ pc'[v] = "serve" => client_sockd[v] \in Sockd
    BY <1>1, <1>t DEF TakeWork, WaitForWork, FallAsleep, WakeUp, SignalMain, CloseFile,
       TypeOK
  <2>3. \A v \in Worker : /\ Erasing(v)' <=> Erasing(v)
                          /\ Leaving(v)' <=> Leaving(v)
    BY <2>1, <2>2 DEF Erasing, Leaving
  <2>4. \A v \in Worker : pc'[v] = "serve" => client_sockd[v] \in Sockd
    BY <2>2 DEF IInv, Shape, ServingHolds
  <2> QED BY <2>1, <2>3, <2>4 DEF QuietStep
<1>2. ASSUME NEW w \in Worker, CloseAgain(w) PROVE Shape' /\ SingleOwner'
  <2>1. /\ UNCHANGED << client_sockd, available, todo, pc, main >>
        /\ struck' \/ (~struck /\ open' = open)
    BY <1>2, <1>t DEF CloseAgain, TypeOK
  <2>2. Shape'
    BY <2>1 DEF IInv, Shape, MainShape, ServingHolds, BusyIsUnavailable, TakenFirst,
       LeavingIsEmpty, Busy, Leaving, Erasing
  <2>3. SingleOwner'
    BY <2>1 DEF IInv, SingleOwner, OneOwner, Has, InMain, Erasing
  <2> QED BY <2>2, <2>3
<1>3. ASSUME NEW w \in Worker, Serve(w) PROVE Shape' /\ SingleOwner'
  <2>1. /\ UNCHANGED << struck, client_sockd, available, main >>
        /\ open' = open \ {client_sockd[w]} /\ pc[w] = "serve"
        /\ pc'[w] = "release" /\ todo'[w] = Stores
        /\ \A v \in Worker : v # w => pc'[v] = pc[v] /\ todo'[v] = todo[v]
    BY <1>3, <1>t DEF Serve, TypeOK
  <2>2. Busy(w) /\ Has(w, client_sockd[w]) /\ Erasing(w)' /\ client_sockd[w] \in Sockd
    BY <2>1 DEF IInv, Shape, ServingHolds, Busy, Has, Erasing, Stores
  <2>3. \A v \in Worker : v # w => /\ Erasing(v)' <=> Erasing(v)
                                   /\ Leaving(v)' <=> Leaving(v)
                                   /\ Busy(v)' <=> Busy(v)
    BY <2>1 DEF Erasing, Leaving, Busy
  <2>4. Shape'
    <3>1. BusyIsUnavailable'
      BY <2>1, <2>2, <2>3 DEF IInv, Shape, BusyIsUnavailable
    <3>2. LeavingIsEmpty'
      BY <2>1, <2>2, <2>3 DEF IInv, Shape, LeavingIsEmpty
    <3>3. MainShape' /\ ServingHolds' /\ TakenFirst'
      BY <2>1 DEF IInv, Shape, MainShape, ServingHolds, TakenFirst
    <3> QED BY <3>1, <3>2, <3>3 DEF Shape
  <2>5. ASSUME OneOwner PROVE OneOwner'
    <3>1. \A d \in Sockd : (InMain(d)' <=> InMain(d)) /\ ~Has(w, d)'
      BY <2>1, <2>2 DEF InMain, Has
    <3>2. \A v \in Worker, d \in Sockd : v # w => (Has(v, d)' <=> Has(v, d))
      BY <2>1, <2>3 DEF Has
    <3>3. ~InMain(client_sockd[w])
          /\ \A v \in Worker : v # w => ~Has(v, client_sockd[w])
      BY <2>2, <2>5 DEF OneOwner
    <3> QED BY <2>1, <2>5, <3>1, <3>2, <3>3 DEF OneOwner
  <2> QED BY <2>1, <2>4, <2>5 DEF IInv, SingleOwner
<1>4. ASSUME NEW w \in Worker, Release(w) PROVE Shape' /\ SingleOwner'
  <2>1. PICK x \in todo[w] :
           /\ todo' = [todo EXCEPT ![w] = @ \ {x}]
           /\ available' = [available EXCEPT ![w] = @ \/ x = "available"]
           /\ client_sockd' = [client_sockd EXCEPT ![w] =
                                 IF x = "client_sockd" THEN Free ELSE @]
    BY <1>4 DEF Release
  <2>2. UNCHANGED << open, struck, pc, main >> /\ pc[w] = "release" /\ x \in Stores
    BY <1>4, <2>1, <1>t DEF Release, fds, TypeOK
  <2>3. /\ todo'[w] = todo[w] \ {x}
        /\ available'[w] = (available[w] \/ x = "available")
        /\ client_sockd'[w] = IF x = "client_sockd" THEN Free ELSE client_sockd[w]
        /\ \A v \in Worker : v # w => /\ todo'[v] = todo[v]
                                      /\ available'[v] = available[v]
                                      /\ client_sockd'[v] = client_sockd[v]
    BY <2>1, <1>t DEF TypeOK
  <2>4. \A v \in Worker : v # w => /\ Erasing(v)' <=> Erasing(v)
                                   /\ Leaving(v)' <=> Leaving(v)
                                   /\ Busy(v)' <=> Busy(v)
    BY <2>2, <2>3 DEF Erasing, Leaving, Busy
  <2>5. ASSUME Busy(w)' PROVE Busy(w) /\ available'[w] = available[w]
    <3>1. CASE x = "available"
      <4>1. Leaving(w) /\ ~Leaving(w)' /\ (Erasing(w)' <=> Erasing(w))
        BY <2>2, <2>3, <3>1 DEF Leaving, Erasing
      <4>2. client_sockd'[w] = client_sockd[w]
        BY <2>3, <3>1
      <4> QED BY <2>5, <4>1, <4>2 DEF IInv, Shape, LeavingIsEmpty, Busy
    <3>2. CASE x = "client_sockd"
      <4>1. Leaving(w)' /\ Leaving(w)
        BY <2>2, <2>3, <2>5, <3>2, SockdAssumption DEF Leaving, Busy
      <4>2. available[w] \in BOOLEAN
        BY <1>t DEF TypeOK
      <4> QED BY <2>3, <3>2, <4>1, <4>2 DEF Busy
    <3> QED BY <2>2, <3>1, <3>2 DEF Stores
  <2>6. Shape'
    <3>1. BusyIsUnavailable'
      BY <2>2, <2>3, <2>4, <2>5 DEF IInv, Shape, BusyIsUnavailable
    <3>2. Leaving(w)' => client_sockd'[w] \notin Sockd \/ Erasing(w)'
      <4>1. CASE x = "available"
        BY <2>2, <2>3, <4>1 DEF Leaving
      <4>2. CASE x = "client_sockd"
        BY <2>3, <4>2, SockdAssumption
      <4> QED BY <2>2, <4>1, <4>2 DEF Stores
    <3>3. LeavingIsEmpty'
      BY <2>3, <2>4, <3>2 DEF IInv, Shape, LeavingIsEmpty
    <3>4. TakenFirst'
      <4>1. Leaving(w) => ~(main.i = w /\ "client_sockd" \in main.todo)
        BY DEF IInv, Shape, BusyIsUnavailable, Busy
      <4>2. x = "available" => Leaving(w)
        BY <2>2 DEF Leaving
      <4>3. \A v \in Worker : available'[v] => available[v] \/ (v = w /\ x = "available")
        BY <2>3
      <4>4. main.i \in Worker
        BY <1>t DEF TypeOK
      <4> QED BY <2>2, <4>1, <4>2, <4>3, <4>4 DEF IInv, Shape, TakenFirst
    <3>5. MainShape' /\ ServingHolds'
      BY <2>2, <2>3 DEF IInv, Shape, MainShape, ServingHolds
    <3> QED BY <3>1, <3>3, <3>4, <3>5 DEF Shape
  <2>7. \A v \in Worker, d \in Sockd : Has(v, d)' => Has(v, d)
    BY <2>2, <2>3, <2>4, SockdAssumption DEF Has, Erasing, Stores
  <2>8. SingleOwner'
    BY <2>2, <2>7 DEF IInv, SingleOwner, OneOwner, InMain
  <2> QED BY <2>6, <2>8
<1>5. ASSUME NEW d \in Sockd, Accept(d) PROVE Shape' /\ SingleOwner'
  <2>1. /\ UNCHANGED << struck, client_sockd, available, todo, pc >>
        /\ main.pc = "accept" /\ d \notin open /\ open' = open \cup {d}
        /\ main'.pc = "scan" /\ main'.i \in Worker /\ main'.sockd = d
        /\ main'.todo = main.todo
    BY <1>5, <1>t DEF Accept, TypeOK
  <2>2. main.todo = {} /\ main.sockd = Free
    BY <2>1 DEF IInv, Shape, MainShape
  <2>3. Shape'
    BY <2>1, <2>2, MainKeepsShape DEF MainMoves
  <2>4. \A w \in Worker, e \in Sockd : Has(w, e)' <=> Has(w, e)
    BY <2>1 DEF Has, Erasing
  <2>5. \A e \in Sockd : InMain(e)' => e = d
    BY <2>1 DEF InMain
  <2>6. SingleOwner'
    BY <2>1, <2>4, <2>5 DEF IInv, SingleOwner, OneOwner
  <2> QED BY <2>3, <2>6
<1>6. ASSUME AcceptFails \/ Scan \/ SignalWorker \/ Rescan
      PROVE  /\ MainMoves /\ UNCHANGED << open, struck >>
             /\ \A e \in Sockd : InMain(e)' => InMain(e)
  <2>1. CASE AcceptFails
    <3>1. /\ main.pc = "accept" /\ main' = [main EXCEPT !.pc = "scan", !.i = count, !.sockd = Failed]
          /\ UNCHANGED << open, struck, client_sockd, available, todo, pc >>
      BY <2>1 DEF AcceptFails
    <3>2. main'.pc = "scan" /\ main'.i \in Worker /\ main'.sockd = Failed
          /\ main'.todo = main.todo
      BY <3>1, <1>t DEF TypeOK
    <3>3. main.todo = {}
      BY <3>1 DEF IInv, Shape, MainShape
    <3> QED BY <3>1, <3>2, <3>3, SockdAssumption DEF MainMoves, InMain
  <2>2. CASE Scan
    <3>1. /\ main.pc = "scan"
          /\ UNCHANGED << open, struck, client_sockd, available, todo, pc >>
      BY <2>2 DEF Scan, fds
    <3>2. main.todo = {}
      BY <3>1 DEF IInv, Shape, MainShape
    <3>3. /\ main'.sockd = main.sockd /\ main'.i \in Worker
          /\ \/ main'.pc = "assign" /\ main'.todo = Stores /\ available[main'.i]
             \/ main'.pc \in {"scan", "wait"} /\ main'.todo = main.todo
      BY <2>2, <1>t, ConstantFacts DEF Scan, TypeOK
    <3> QED BY <3>1, <3>2, <3>3 DEF MainMoves, InMain
  <2>3. CASE SignalWorker
    <3>1. /\ main.todo = {} /\ main' = [pc |-> "accept", i |-> 0, sockd |-> Free, todo |-> {}]
          /\ UNCHANGED << open, struck, client_sockd, available, todo >>
      BY <2>3 DEF SignalWorker, NextAccept, fds
    <3>2. \A w \in Worker : pc'[w] = pc[w] \/ (pc[w] = "asleep" /\ pc'[w] = "check")
      BY <2>3, <1>t DEF SignalWorker, TypeOK
    <3> QED BY <3>1, <3>2, ConstantFacts, SockdAssumption DEF MainMoves, InMain
  <2>4. CASE Rescan
    <3>1. /\ main.pc = "woken"
          /\ UNCHANGED << open, struck, client_sockd, available, todo, pc >>
      BY <2>4 DEF Rescan, fds
    <3>2. main.todo = {}
      BY <3>1 DEF IInv, Shape, MainShape
    <3>3. \/ main' = [main EXCEPT !.pc = "scan", !.i = 1] /\ 1 \in Worker
          \/ main' = [pc |-> "accept", i |-> 0, sockd |-> Free, todo |-> {}]
      BY <2>4, ConstantFacts DEF Rescan, NextAccept
    <3>4. CASE main' = [main EXCEPT !.pc = "scan", !.i = 1] /\ 1 \in Worker
      <4>1. main'.pc = "scan" /\ main'.i = 1 /\ main'.sockd = main.sockd
            /\ main'.todo = main.todo
        BY <3>4, <1>t DEF TypeOK
      <4> QED BY <3>1, <3>2, <3>4, <4>1 DEF MainMoves, InMain
    <3>5. CASE main' = [pc |-> "accept", i |-> 0, sockd |-> Free, todo |-> {}]
      BY <3>1, <3>2, <3>5, ConstantFacts, SockdAssumption DEF MainMoves, InMain
    <3> QED BY <3>3, <3>4, <3>5
  <2> QED BY <1>6, <2>1, <2>2, <2>3, <2>4
<1>7. ASSUME AcceptFails \/ Scan \/ SignalWorker \/ Rescan PROVE Shape' /\ SingleOwner'
  <2>1. /\ MainMoves /\ UNCHANGED << open, struck >>
        /\ \A e \in Sockd : InMain(e)' => InMain(e)
    BY <1>6, <1>7
  <2>2. \A w \in Worker, e \in Sockd : Has(w, e)' <=> Has(w, e)
    BY <2>1 DEF MainMoves, Has, Erasing
  <2>3. SingleOwner'
    BY <2>1, <2>2 DEF IInv, SingleOwner, OneOwner
  <2> QED BY <2>1, <2>3, MainKeepsShape
<1>8. ASSUME Assign PROVE Shape' /\ SingleOwner'
  <2>1. PICK x \in main.todo :
           /\ main' = [main EXCEPT !.todo = @ \ {x}]
           /\ available' = [available EXCEPT ![main.i] = @ /\ x # "available"]
           /\ client_sockd' = [client_sockd EXCEPT ![main.i] =
                                 IF x = "client_sockd" THEN main.sockd ELSE @]
    BY <1>8 DEF Assign
  <2>2. UNCHANGED << open, struck, pc, todo >> /\ main.pc = "assign"
    BY <1>8 DEF Assign, fds
  <2>3. /\ main'.i = main.i /\ main'.todo = main.todo \ {x} /\ main'.sockd = main.sockd
        /\ main'.pc = main.pc /\ main.i \in Worker /\ x \in Stores
    BY <2>1, <1>t DEF TypeOK
  <2>4. /\ available'[main.i] = (available[main.i] /\ x # "available")
        /\ client_sockd'[main.i] = IF x = "client_sockd" THEN main.sockd
                                   ELSE client_sockd[main.i]
        /\ \A v \in Worker : v # main.i => /\ available'[v] = available[v]
                                           /\ client_sockd'[v] = client_sockd[v]
    BY <2>1, <2>3, <1>t DEF TypeOK
  <2>5. \A v \in Worker : (Erasing(v)' <=> Erasing(v)) /\ (Leaving(v)' <=> Leaving(v))
    BY <2>2 DEF Erasing, Leaving
  <2>6. x = "client_sockd" => ~Busy(main.i)
    BY <2>3 DEF IInv, Shape, BusyIsUnavailable
  <2>7. BusyIsUnavailable'
    <3> SUFFICES ASSUME NEW v \in Worker, Busy(v)'
                 PROVE  /\ main'.i = v => "client_sockd" \notin main'.todo
                        /\ available'[v] => main'.i = v /\ "available" \in main'.todo
      BY DEF BusyIsUnavailable
    <3>1. CASE v # main.i
      <4>1. Busy(v)
        BY <3>1, <2>4, <2>5 DEF Busy
      <4> QED BY <3>1, <4>1, <2>3, <2>4 DEF IInv, Shape, BusyIsUnavailable
    <3>2. CASE v = main.i /\ x = "available"
      <4>1. Busy(v)
        BY <3>2, <2>4, <2>5 DEF Busy
      <4> QED BY <3>2, <4>1, <2>3, <2>4 DEF IInv, Shape, BusyIsUnavailable
    <3>3. CASE v = main.i /\ x = "client_sockd"
      <4>1. available'[v] => available[v]
        BY <3>3, <2>4
      <4> QED BY <3>3, <4>1, <2>3 DEF IInv, Shape, TakenFirst
    <3> QED BY <3>1, <3>2, <3>3, <2>3 DEF Stores
  <2>8. TakenFirst'
    BY <2>3, <2>4 DEF IInv, Shape, TakenFirst
  <2>9. LeavingIsEmpty'
    <3>1. \A v \in Worker : Leaving(v) => client_sockd'[v] = client_sockd[v]
      BY <2>3, <2>4, <2>6 DEF Busy
    <3> QED BY <2>5, <3>1 DEF IInv, Shape, LeavingIsEmpty
  <2>10. ServingHolds'
    <3>1. \A v \in Worker : pc[v] = "serve" => client_sockd'[v] = client_sockd[v]
      BY <2>3, <2>4, <2>6 DEF Busy, IInv, Shape, ServingHolds, Erasing
    <3> QED BY <2>2, <3>1 DEF IInv, Shape, ServingHolds
  <2>11. MainShape'
    BY <2>2, <2>3 DEF MainShape
  <2>12. SingleOwner'
    <3> SUFFICES ASSUME ~struck, OneOwner PROVE OneOwner'
      BY <2>2 DEF IInv, SingleOwner
    <3>1. \A v \in Worker, d \in Sockd : v # main.i \/ x = "available"
             => (Has(v, d)' <=> Has(v, d))
      BY <2>4, <2>5, <2>3 DEF Has, Stores
    <3>2. CASE x = "available"
      <4>1. \A d \in Sockd : InMain(d)' <=> InMain(d)
        BY <3>2, <2>2, <2>3 DEF InMain
      <4> QED BY <3>1, <3>2, <4>1, <2>2 DEF OneOwner
    <3>3. CASE x = "client_sockd"
      <4>1. \A d \in Sockd : ~InMain(d)'
        BY <3>3, <2>2, <2>3 DEF InMain
      <4>2. \A d \in Sockd : Has(main.i, d)' => InMain(d)
        BY <3>3, <2>2, <2>3, <2>4 DEF InMain, Has
      <4> QED BY <3>1, <4>1, <4>2, <2>2, <2>3 DEF OneOwner
    <3> QED BY <3>2, <3>3, <2>3 DEF Stores
  <2> QED BY <2>7, <2>8, <2>9, <2>10, <2>11, <2>12 DEF Shape
<1>9. ASSUME MainFallAsleep \/ MainWakeUp PROVE QuietStep
  <2>1. /\ UNCHANGED << open, struck, client_sockd, available, todo, pc >>
        /\ main'.i = main.i /\ main'.todo = main.todo /\ main'.sockd = main.sockd
        /\ main.pc \in {"wait", "asleep"} /\ main'.pc \in {"asleep", "woken"}
    BY <1>9, <1>t DEF MainFallAsleep, MainWakeUp, fds, TypeOK
  <2> QED BY <2>1 DEF QuietStep, IInv, Shape, ServingHolds, Erasing, Leaving
<1>10. CASE UNCHANGED vars
  <2>1. QuietStep
    BY <1>10 DEF vars, fds, QuietStep, IInv, Shape, ServingHolds, Erasing, Leaving
  <2> QED BY <2>1, QuietKeepsShape
<1> QED
  BY <1>1, <1>2, <1>3, <1>4, <1>5, <1>7, <1>8, <1>9, <1>10, QuietKeepsShape
     DEF Next, WorkerStep, MainStep

\* The invariant of the pool.
LEMMA IInvHolds == Spec => []IInv
<1>1. Init => IInv
  BY InitIInv
<1>2. IInv /\ [Next]_vars => IInv'
  BY NextKeepsIInv
<1> QED BY <1>1, <1>2, PTL DEF Spec

\* Whatever the order in which main and the workers store client_sockd and
\* available, and although numbers are used again: until the second close of
\* a PUT (line 242) or a healthcheck's close of another's number (line 117)
\* has hit a connection, no connection has two owners, and no worker runs a
\* request on a descriptor that has been closed.
THEOREM HandOverIsSafe == Spec => [](TypeOK /\ SingleOwner)
<1>1. IInv => TypeOK /\ SingleOwner
  BY DEF IInv
<1> QED BY <1>1, IInvHolds, PTL

\* main never replaces the connection of a worker that is serving it.
THEOREM ServingIsUndisturbed == Spec => ServesUndisturbed
<1> DEFINE Kept == \A w \in Worker : pc[w] = "serve" => client_sockd'[w] = client_sockd[w]
<1>1. IInv /\ [Next]_vars => [Kept]_vars
  <2> SUFFICES ASSUME IInv, Next PROVE Kept
    OBVIOUS
  <2>1. ASSUME NEW w \in Worker, Release(w) PROVE Kept
    BY <2>1 DEF Release, IInv, TypeOK
  <2>2. ASSUME Assign PROVE Kept
    <3> SUFFICES ASSUME NEW w \in Worker, pc[w] = "serve", main.i = w
                 PROVE  client_sockd'[w] = client_sockd[w]
      BY <2>2 DEF Assign, IInv, TypeOK
    <3>1. "client_sockd" \notin main.todo
      BY DEF IInv, Shape, ServingHolds, BusyIsUnavailable, Busy, Erasing
    <3> QED BY <2>2, <3>1 DEF Assign, IInv, TypeOK
  <2>3. ASSUME NEW w \in Worker,
               \/ TakeWork(w) \/ WaitForWork(w) \/ FallAsleep(w) \/ WakeUp(w)
               \/ CloseFile(w) \/ CloseAgain(w) \/ Serve(w) \/ SignalMain(w)
        PROVE  client_sockd' = client_sockd
    BY <2>3 DEF TakeWork, WaitForWork, FallAsleep, WakeUp, CloseFile, CloseAgain, Serve,
       SignalMain
  <2>4. ASSUME \/ \E d \in Sockd : Accept(d)
               \/ AcceptFails \/ Scan \/ SignalWorker \/ MainFallAsleep \/ MainWakeUp
               \/ Rescan
        PROVE  client_sockd' = client_sockd
    BY <2>4 DEF Accept, AcceptFails, Scan, SignalWorker, MainFallAsleep, MainWakeUp, Rescan
  <2>5. client_sockd' = client_sockd => Kept
    OBVIOUS
  <2> HIDE DEF Kept
  <2> QED BY Zenon, <2>1, <2>2, <2>3, <2>4, <2>5 DEF Next, WorkerStep, MainStep
<1>2. ServesUndisturbed <=> [][Kept]_vars
  BY DEF ServesUndisturbed
<1> HIDE DEF Kept
<1> QED BY <1>1, <1>2, IInvHolds, PTL DEF Spec

\* A worker that is out of the pool stays out of it.
LEMMA RetiredStays ==
    ASSUME IInv, [Next]_vars, NEW w \in Worker, Retired(w)
    PROVE  Retired(w)'
<1>t. TypeOK /\ MainShape
  BY DEF IInv, Shape
<1> USE DEF Retired, Erasing
<1>1. ASSUME NEW v \in Worker,
             \/ TakeWork(v) \/ WaitForWork(v) \/ FallAsleep(v) \/ WakeUp(v)
             \/ SignalMain(v) \/ Serve(v)
      PROVE  Retired(w)'
  <2>1. UNCHANGED << client_sockd, available >>
        /\ main'.i = main.i /\ main'.todo = main.todo
    BY <1>1, <1>t DEF TakeWork, WaitForWork, FallAsleep, WakeUp, SignalMain, Serve,
       fds, TypeOK
  <2>2. \/ pc'[w] = pc[w] /\ todo'[w] = todo[w]
        \/ pc'[w] \in {"check", "wait", "asleep"} /\ client_sockd[w] \notin Sockd
    BY <1>1, <1>t DEF TakeWork, WaitForWork, FallAsleep, WakeUp, SignalMain, Serve,
       TypeOK
  <2> QED BY <2>1, <2>2
<1>2. ASSUME NEW v \in Worker, CloseFile(v) \/ CloseAgain(v) PROVE Retired(w)'
  BY <1>2 DEF CloseFile, CloseAgain
<1>3. ASSUME NEW v \in Worker, Release(v) PROVE Retired(w)'
  <2>1. UNCHANGED << pc, main >>
    BY <1>3 DEF Release
  <2>2. \/ UNCHANGED << todo[w], available[w], client_sockd[w] >>
        \/ /\ v = w /\ pc[w] = "release"
           /\ \E x \in todo[w] :
                /\ todo'[w] = todo[w] \ {x}
                /\ available'[w] = (available[w] \/ x = "available")
                /\ client_sockd'[w] = IF x = "client_sockd" THEN Free ELSE client_sockd[w]
    BY <1>3, <1>t DEF Release, TypeOK
  <2> QED BY <2>1, <2>2, SockdAssumption
<1>4. ASSUME NEW d \in Sockd, Accept(d) PROVE Retired(w)'
  BY <1>4, <1>t DEF Accept, TypeOK, MainShape
<1>5. ASSUME AcceptFails PROVE Retired(w)'
  BY <1>5, <1>t DEF AcceptFails, TypeOK, MainShape
<1>6. ASSUME Scan PROVE Retired(w)'
  BY <1>6, <1>t DEF Scan, TypeOK, MainShape, Stores
<1>7. ASSUME Assign PROVE Retired(w)'
  <2>1. PICK x \in main.todo :
           /\ main' = [main EXCEPT !.todo = @ \ {x}]
           /\ available' = [available EXCEPT ![main.i] = @ /\ x # "available"]
           /\ client_sockd' = [client_sockd EXCEPT ![main.i] =
                                 IF x = "client_sockd" THEN main.sockd ELSE @]
    BY <1>7 DEF Assign
  <2>2. UNCHANGED << pc, todo >>
    BY <1>7 DEF Assign
  <2>3. CASE main.i = w
    <3>1. x = "available"
      BY <2>1, <2>3, <1>t DEF TypeOK, Stores
    <3>2. /\ main'.i = w /\ main'.todo = main.todo \ {x}
          /\ client_sockd'[w] = client_sockd[w]
      BY <2>1, <2>3, <3>1, <1>t DEF TypeOK
    <3>3. ~available'[w]
      BY <2>1, <2>3, <3>1, <1>t DEF TypeOK
    <3> QED BY <2>2, <2>3, <3>2, <3>3
  <2>4. CASE main.i # w
    BY <2>1, <2>2, <2>4, <1>t DEF TypeOK
  <2> QED BY <2>3, <2>4
<1>8. ASSUME SignalWorker \/ Rescan PROVE Retired(w)'
  <2>1. main.todo = {} /\ main'.todo = {}
    <3>1. CASE SignalWorker
      BY <3>1 DEF SignalWorker, NextAccept
    <3>2. CASE Rescan
      <4>1. main.todo = {}
        BY <3>2, <1>t DEF Rescan, MainShape
      <4>2. CASE threadNum > 1
        BY <3>2, <4>1, <4>2, <1>t DEF Rescan, TypeOK
      <4>3. CASE ~(threadNum > 1)
        BY <3>2, <4>1, <4>3 DEF Rescan, NextAccept
      <4> QED BY <4>2, <4>3
    <3> QED BY <1>8, <3>1, <3>2
  <2>2. UNCHANGED << client_sockd, available, todo >>
    BY <1>8 DEF SignalWorker, Rescan
  <2>3. pc'[w] = pc[w] \/ (pc[w] = "asleep" /\ pc'[w] = "check")
    BY <1>8, <1>t DEF SignalWorker, Rescan, TypeOK
  <2> QED BY <2>1, <2>2, <2>3
<1>9. ASSUME MainFallAsleep \/ MainWakeUp PROVE Retired(w)'
  BY <1>9, <1>t DEF MainFallAsleep, MainWakeUp, TypeOK
<1>10. CASE UNCHANGED vars
  BY <1>10 DEF vars
<1> QED
  BY <1>1, <1>2, <1>3, <1>4, <1>5, <1>6, <1>7, <1>8, <1>9, <1>10
     DEF Next, WorkerStep, MainStep

\* The release race and failing accepts shrink the pool for good.
THEOREM RetirementIsFinal == Spec => RetiredForever
<1> DEFINE Stays == \A w \in Worker : Retired(w) => Retired(w)'
<1>1. IInv /\ [Next]_vars => [Stays]_vars
  BY RetiredStays
<1>2. RetiredForever <=> [][Stays]_vars
  BY DEF RetiredForever
<1> HIDE DEF Stays
<1> QED BY <1>1, <1>2, IInvHolds, PTL DEF Spec
-----------------------------------------------------------------------------
LostConn == {d \in Sockd : Lost(d)}
RetiredWorker == {w \in Worker : Retired(w)}

\* A step loses at most one connection, and takes a worker out of the pool
\* when it does: main's store of a connection in a worker that has made itself
\* available and will still store client_sockd = INT_MIN.
LEMMA LossRetires ==
    ASSUME threadNum > 1, IInv, [Next]_vars
    PROVE  \/ LostConn' \subseteq LostConn
           \/ \E d \in Sockd, w \in Worker :
                /\ LostConn' \subseteq LostConn \cup {d}
                /\ w \in RetiredWorker' /\ w \notin RetiredWorker
<1> DEFINE Goal == \/ LostConn' \subseteq LostConn
                   \/ \E d \in Sockd, w \in Worker :
                        /\ LostConn' \subseteq LostConn \cup {d}
                        /\ w \in RetiredWorker' /\ w \notin RetiredWorker
<1>t. TypeOK /\ Shape
  BY DEF IInv
<1>0. ASSUME open' \subseteq open,
             \A d \in Sockd : InMain(d) => InMain(d)',
             \A d \in Sockd, w \in Worker : Has(w, d) => Has(w, d)' \/ d \notin open'
      PROVE  LostConn' \subseteq LostConn
  BY <1>0 DEF LostConn, Lost
<1>1. ASSUME NEW w \in Worker,
             \/ TakeWork(w) \/ WaitForWork(w) \/ FallAsleep(w) \/ WakeUp(w)
             \/ SignalMain(w)
      PROVE  LostConn' \subseteq LostConn
  <2>1. UNCHANGED << open, client_sockd, todo >>
        /\ main'.sockd = main.sockd /\ main'.todo = main.todo
        /\ (main'.pc = "assign" => main.pc = "assign")
    BY <1>1, <1>t DEF TakeWork, WaitForWork, FallAsleep, WakeUp, SignalMain, fds, TypeOK
  <2>2. \A v \in Worker : pc'[v] = pc[v] \/ pc'[v] # "release"
    BY <1>1, <1>t DEF TakeWork, WaitForWork, FallAsleep, WakeUp, SignalMain, TypeOK
  <2> QED BY <1>0, <2>1, <2>2 DEF InMain, Has, Erasing
<1>2. ASSUME NEW w \in Worker, CloseFile(w) \/ CloseAgain(w)
      PROVE  LostConn' \subseteq LostConn
  <2>1. open' \subseteq open /\ UNCHANGED << client_sockd, todo, pc, main >>
    BY <1>2 DEF CloseFile, CloseAgain
  <2> QED BY <1>0, <2>1 DEF InMain, Has, Erasing
<1>3. ASSUME NEW w \in Worker, Serve(w) PROVE LostConn' \subseteq LostConn
  <2>1. /\ UNCHANGED << client_sockd, main >> /\ open' = open \ {client_sockd[w]}
        /\ \A v \in Worker : v # w => pc'[v] = pc[v] /\ todo'[v] = todo[v]
    BY <1>3, <1>t DEF Serve, TypeOK
  <2> QED BY <1>0, <2>1 DEF InMain, Has, Erasing
<1>4. ASSUME NEW w \in Worker, Release(w) PROVE LostConn' \subseteq LostConn
  <2>1. PICK x \in todo[w] :
          /\ todo' = [todo EXCEPT ![w] = @ \ {x}]
          /\ client_sockd' = [client_sockd EXCEPT ![w] =
                                IF x = "client_sockd" THEN Free ELSE @]
    BY <1>4 DEF Release
  <2>2. UNCHANGED << open, main, pc >> /\ pc[w] = "release"
    BY <1>4 DEF Release, fds
  <2>3. /\ todo'[w] = todo[w] \ {x}
        /\ client_sockd'[w] = IF x = "client_sockd" THEN Free ELSE client_sockd[w]
        /\ \A v \in Worker : v # w => /\ todo'[v] = todo[v]
                                      /\ client_sockd'[v] = client_sockd[v]
    BY <2>1, <1>t DEF TypeOK
  <2>4. \A d \in Sockd : Has(w, d) => Has(w, d)'
    BY <2>1, <2>2, <2>3 DEF Has, Erasing
  <2>5. \A d \in Sockd, v \in Worker : v # w /\ Has(v, d) => Has(v, d)'
    BY <2>2, <2>3 DEF Has, Erasing
  <2> QED BY <1>0, <2>2, <2>4, <2>5 DEF InMain
<1>5. ASSUME NEW d \in Sockd, Accept(d) PROVE LostConn' \subseteq LostConn
  <2>1. main.pc = "accept" /\ main.sockd = Free
    BY <1>5, <1>t DEF Accept, Shape, MainShape
  <2>2. \A e \in Sockd : ~InMain(e)
    BY <2>1, SockdAssumption DEF InMain
  <2>3. InMain(d)'
    BY <1>5, <1>t DEF Accept, InMain, TypeOK
  <2>4. open' = open \cup {d} /\ UNCHANGED << client_sockd, todo, pc >>
    BY <1>5 DEF Accept
  <2> QED BY <2>2, <2>3, <2>4 DEF LostConn, Lost, Has, Erasing
<1>6. ASSUME AcceptFails PROVE LostConn' \subseteq LostConn
  <2>1. main.pc = "accept" /\ main.sockd = Free
    BY <1>6, <1>t DEF AcceptFails, Shape, MainShape
  <2>2. \A e \in Sockd : ~InMain(e)
    BY <2>1, SockdAssumption DEF InMain
  <2>3. UNCHANGED << open, client_sockd, todo, pc >>
    BY <1>6 DEF AcceptFails
  <2> QED BY <1>0, <2>2, <2>3 DEF Has, Erasing
<1>7. ASSUME Scan \/ MainFallAsleep \/ MainWakeUp \/ Rescan
      PROVE  LostConn' \subseteq LostConn
  <2>1. /\ main'.sockd = main.sockd
        /\ main'.pc = "assign" => main'.todo = Stores
    <3>1. CASE Scan
      BY <3>1, <1>t DEF Scan, TypeOK
    <3>2. CASE MainFallAsleep \/ MainWakeUp
      BY <3>2, <1>t DEF MainFallAsleep, MainWakeUp, TypeOK
    <3>3. CASE Rescan
      BY <3>3, <1>t DEF Rescan, TypeOK
    <3> QED BY <1>7, <3>1, <3>2, <3>3
  <2>2. UNCHANGED << open, client_sockd, todo, pc >>
    BY <1>7 DEF Scan, MainFallAsleep, MainWakeUp, Rescan, fds
  <2> QED BY <1>0, <2>1, <2>2 DEF InMain, Has, Erasing, Stores
<1>8. ASSUME SignalWorker PROVE LostConn' \subseteq LostConn
  <2>1. \A d \in Sockd : ~InMain(d)
    BY <1>8 DEF SignalWorker, InMain
  <2>2. \A v \in Worker : pc'[v] = pc[v] \/ pc'[v] # "release"
    BY <1>8, <1>t DEF SignalWorker, TypeOK
  <2>3. UNCHANGED << open, client_sockd, todo >>
    BY <1>8 DEF SignalWorker, fds
  <2> QED BY <1>0, <2>1, <2>2, <2>3 DEF Has, Erasing
<1>9. ASSUME Assign PROVE Goal
  <2>1. PICK x \in main.todo :
          /\ main' = [main EXCEPT !.todo = @ \ {x}]
          /\ available' = [available EXCEPT ![main.i] = @ /\ x # "available"]
          /\ client_sockd' = [client_sockd EXCEPT ![main.i] =
                                IF x = "client_sockd" THEN main.sockd ELSE @]
    BY <1>9 DEF Assign
  <2>2. /\ UNCHANGED << open, pc, todo >> /\ main.pc = "assign" /\ main.i \in Worker
        /\ main'.sockd = main.sockd /\ main'.pc = main.pc /\ main'.i = main.i
        /\ main'.todo = main.todo \ {x} /\ x \in Stores
    BY <1>9, <2>1, <1>t DEF Assign, fds, TypeOK
  <2>3. /\ client_sockd'[main.i] = IF x = "client_sockd" THEN main.sockd
                                   ELSE client_sockd[main.i]
        /\ available'[main.i] = (available[main.i] /\ x # "available")
        /\ \A v \in Worker : v # main.i => client_sockd'[v] = client_sockd[v]
    BY <2>1, <2>2, <1>t DEF TypeOK
  <2>4. CASE x = "available"
    <3>1. \A d \in Sockd : InMain(d) => InMain(d)'
      BY <2>2, <2>4 DEF InMain
    <3>2. \A d \in Sockd, v \in Worker : Has(v, d) => Has(v, d)'
      BY <2>2, <2>3, <2>4 DEF Has, Erasing
    <3> QED BY <1>0, <2>2, <3>1, <3>2
  <2>5. CASE x = "client_sockd"
    <3>1. \A d \in Sockd : InMain(d) => d = main.sockd
      BY DEF InMain
    <3>2. ~Busy(main.i)
      BY <2>1, <2>2, <2>5, <1>t DEF Shape, BusyIsUnavailable
    <3>3. \A d \in Sockd, v \in Worker : Has(v, d) => Has(v, d)'
      BY <2>2, <2>3, <3>2 DEF Busy, Has, Erasing
    <3>4. \A d \in Sockd : Lost(d)' => Lost(d) \/ d = main.sockd
      BY <2>2, <3>1, <3>3 DEF Lost
    <3>5. CASE Erasing(main.i) /\ main.sockd \in Sockd
      <4>1. main.i \notin RetiredWorker
        BY <2>1, <2>2, <2>5 DEF RetiredWorker, Retired
      <4>2. ~available'[main.i] \/ "available" \in main'.todo
        BY <2>1, <2>2, <2>3, <2>5, <1>t DEF Shape, TakenFirst
      <4>3. pc'[main.i] = "release" /\ Erasing(main.i)' /\ "available" \notin todo'[main.i]
        BY <2>2, <3>2, <3>5 DEF Erasing, Busy, Leaving
      <4>4. main.i \in RetiredWorker'
        BY <2>2, <2>5, <4>2, <4>3 DEF RetiredWorker, Retired
      <4>5. LostConn' \subseteq LostConn \cup {main.sockd}
        BY <3>4 DEF LostConn
      <4> QED BY <2>2, <3>5, <4>1, <4>4, <4>5
    <3>6. CASE ~Erasing(main.i)
      <4>1. Has(main.i, main.sockd)'
        BY <2>2, <2>3, <2>5, <3>6 DEF Has, Erasing
      <4>2. \A d \in Sockd : Lost(d)' => Lost(d)
        BY <2>2, <3>4, <4>1 DEF Lost
      <4> QED BY <4>2 DEF LostConn
    <3>7. CASE main.sockd \notin Sockd
      BY <3>4, <3>7 DEF LostConn
    <3> QED BY <3>5, <3>6, <3>7
  <2> QED BY <2>2, <2>4, <2>5 DEF Stores
<1>10. ASSUME UNCHANGED vars PROVE LostConn' \subseteq LostConn
  <2>1. UNCHANGED << open, client_sockd, todo, pc, main >>
    BY <1>10 DEF vars, fds
  <2> QED BY <1>0, <2>1 DEF InMain, Has, Erasing
<1> HIDE DEF Goal
<1>11. LostConn' \subseteq LostConn => Goal
  BY DEF Goal
<1>12. Goal
  BY <1>1, <1>2, <1>3, <1>4, <1>5, <1>6, <1>7, <1>8, <1>9, <1>10, <1>11
     DEF Next, WorkerStep, MainStep
<1> QED BY <1>12 DEF Goal

\* Every lost connection can be charged to a retired worker of its own.
Charged ==
    \E f \in [LostConn -> RetiredWorker] :
        \A c, e \in LostConn : f[c] = f[e] => c = e

LEMMA NextKeepsCharged ==
    ASSUME threadNum > 1, IInv, Charged, [Next]_vars
    PROVE  Charged'
<1>1. PICK f \in [LostConn -> RetiredWorker] :
        \A c, e \in LostConn : f[c] = f[e] => c = e
  BY DEF Charged
<1>2. RetiredWorker \subseteq RetiredWorker'
  BY RetiredStays DEF RetiredWorker
<1>3. CASE LostConn' \subseteq LostConn
  <2> DEFINE g == [c \in LostConn' |-> f[c]]
  <2>1. g \in [LostConn' -> RetiredWorker']
    BY <1>1, <1>2, <1>3
  <2>2. \A c, e \in LostConn' : g[c] = g[e] => c = e
    BY <1>1, <1>3
  <2> HIDE DEF g
  <2> QED BY <2>1, <2>2 DEF Charged
<1>4. ASSUME NEW c \in Sockd, NEW w \in Worker,
             LostConn' \subseteq LostConn \cup {c},
             w \in RetiredWorker', w \notin RetiredWorker
      PROVE  Charged'
  <2> DEFINE g == [e \in LostConn' |-> IF e \in LostConn THEN f[e] ELSE w]
  <2>1. g \in [LostConn' -> RetiredWorker']
    BY <1>1, <1>2, <1>4
  <2>2. \A e \in LostConn' : g[e] = IF e \in LostConn THEN f[e] ELSE w
    OBVIOUS
  <2> HIDE DEF g
  <2>3. \A e \in LostConn : f[e] \in RetiredWorker
    BY <1>1
  <2>4. \A d, e \in LostConn' : g[d] = g[e] => d = e
    BY <1>1, <1>4, <2>2, <2>3
  <2> QED BY <2>1, <2>4 DEF Charged
<1> QED BY <1>3, <1>4, LossRetires

\* Unless there is a single worker, at most as many connections are lost as
\* workers have left the pool: a race between main's and a worker's two
\* unprotected stores costs one of each.
THEOREM EachLossCostsAWorker ==
    ASSUME threadNum > 1
    PROVE  Spec => []LossRetiresWorker
<1> DEFINE Inv == IInv /\ Charged
<1>1. Init => Inv
  <2> SUFFICES ASSUME Init PROVE Charged
    BY InitIInv
  <2>1. LostConn = {}
    BY DEF LostConn, Lost, Init
  <2> DEFINE f == [c \in LostConn |-> 0]
  <2>2. f \in [LostConn -> RetiredWorker] /\ \A c, e \in LostConn : f[c] = f[e] => c = e
    BY <2>1
  <2> HIDE DEF f
  <2> QED BY <2>2 DEF Charged
<1>2. Inv /\ [Next]_vars => Inv'
  BY NextKeepsIInv, NextKeepsCharged
<1>3. Inv => LossRetiresWorker
  <2> SUFFICES ASSUME Charged
               PROVE  Cardinality(LostConn) <= Cardinality(RetiredWorker)
    BY DEF LossRetiresWorker, LostConn, RetiredWorker
  <2>1. IsFiniteSet(RetiredWorker)
    <3>1. IsFiniteSet(0 .. threadNum - 1)
      BY FS_Interval, ThreadNumAssumption
    <3>2. RetiredWorker \subseteq 0 .. threadNum - 1
      BY DEF RetiredWorker, Worker
    <3> QED BY <3>1, <3>2, FS_Subset
  <2>2. PICK f \in [LostConn -> RetiredWorker] :
          \A c, e \in LostConn : f[c] = f[e] => c = e
    BY DEF Charged
  <2>3. f \in Injection(LostConn, RetiredWorker)
    BY <2>2 DEF Injection, IsInjective
  <2> QED BY <2>1, <2>3, FS_Injection
<1> QED BY <1>1, <1>2, <1>3, PTL DEF Spec
=============================================================================
