------------------------ MODULE LoadBalancerProofs ------------------------
(***************************************************************************)
(* Proofs about LoadBalancer, for any number of servers, threads, clients  *)
(* and parts, and any scenes.                                              *)
(*                                                                         *)
(* That a thread uses open sockets only is not inductive: it needs that    *)
(* main owns what it has accepted and not handed over yet, and that only   *)
(* thread 0 is ever handed a socket.  That determineBest is right needs    *)
(* that its registers hold the counters of the server it stands for.       *)
(***************************************************************************)
EXTENDS LoadBalancer, TLAPS

Port == Server \cup {NoPort}
Socket == Client \cup {Free, Failed}
Counters == [alive : BOOLEAN, total : Nat, fail : Nat]
Scan == [i : 0 .. numServers, port : Port, total : Nat, fail : Nat,
         seen : SUBSET (Server \X Counters)]

Idle == {"check", "wait", "asleep"}

\* The records, in full.
MainRecord == [pc : {"accept", "count", "store", "scan", "test", "signal", "give"},
               sockd : Socket, reg : 0 .. hcRequest, scan : Scan]
ProbeRecord == [pc : {"lock", "exchange", "scan", "wait", "gone"},
                i : 0 .. numServers, scan : Scan]
Thread == [pc : Idle \cup {"connect", "connected", "bridge", "close", "reset"},
           port : Port, sockd : Socket, left : 0 .. Parts, ready : BOOLEAN]
Connection == [st : {"away", "waiting", "open", "closed"},
               req : {"unsent", "sent", "forwarded"}, gone : BOOLEAN]

Types ==
    /\ server \in [Server -> Counters]
    /\ lock \in [Server -> {"none", "probe"}]
    /\ bestServerport \in Port /\ requestCounter \in 0 .. hcRequest - 1
    /\ client_sockd \in [Worker -> Socket]
    /\ main \in MainRecord /\ probe \in ProbeRecord
    /\ worker \in [Worker -> Thread] /\ conn \in [Client -> Connection]
    /\ env \in Scenes /\ exhausted \in BOOLEAN
    /\ probe.pc = "exchange" => probe.i < numServers

\* Only the first thread is ever handed a socket.
FirstOnly ==
    \A w \in Worker \ {0} : client_sockd[w] = Free /\ worker[w].pc \in Idle

\* What main has accepted and not handed over is open, and nobody else's; or it
\* is the -1 of an accept that failed.
MainOwns ==
    main.pc # "accept" /\ main.sockd # Failed =>
        /\ main.sockd \in Client /\ conn[main.sockd].st = "open"
        /\ main.sockd # client_sockd[0]
        /\ worker[0].pc = "bridge" => main.sockd # worker[0].sockd
MainFailed == main.sockd = Failed => exhausted

\* A socket handed over has been accepted, and is open until thread 0 closes it.
Given ==
    /\ client_sockd[0] = Failed => exhausted
    /\ client_sockd[0] \in Client =>
          /\ conn[client_sockd[0]].st \in {"open", "closed"}
          /\ worker[0].pc # "reset" => conn[client_sockd[0]].st = "open"
    /\ worker[0].pc \in {"connect", "connected", "bridge", "close"} => client_sockd[0] # Free
    /\ worker[0].pc = "bridge" =>
          /\ worker[0].sockd # Free
          /\ worker[0].sockd = Failed => exhausted
          /\ worker[0].sockd \in Client => conn[worker[0].sockd].st = "open"

SocketInv == Types /\ FirstOnly /\ MainOwns /\ MainFailed /\ Given

\* The registers of determineBest: it has seen the servers before i, and port,
\* total and fail are those of the best one that was alive.
AliveSeen(scan) == {x \in scan.seen : x[2].alive}
Best(scan, x) ==
    /\ x \in AliveSeen(scan)
    /\ x[1] = scan.port /\ x[2].total = scan.total /\ x[2].fail = scan.fail
    /\ \A y \in AliveSeen(scan) \ {x} : Ahead(x, y)
ScanInv(scan) ==
    /\ \A x \in scan.seen : x[1] < scan.i
    /\ AliveSeen(scan) = {} => scan.port = NoPort
    /\ AliveSeen(scan) # {} => \E x \in AliveSeen(scan) : Best(scan, x)

-----------------------------------------------------------------------------
\* Facts about the constants that the leaves use.
LEMMA ConstantFacts ==
    /\ 0 \in Worker /\ NoPort \notin Server /\ NoPort \in Port
    /\ Free \in Socket /\ Free \notin Client /\ Parts \in Nat
    /\ Failed \in Socket /\ Failed \notin Client /\ Failed # Free
    /\ numServers \in Nat /\ hcRequest \in Nat \ {0}
BY BalancerAssumption DEF Worker, Server, NoPort, Port, Socket

\* Descriptors that have run out stay so.
LEMMA ExhaustedStays ==
    ASSUME exhausted \in BOOLEAN, Leak \/ UNCHANGED exhausted
    PROVE  exhausted' \in BOOLEAN /\ (exhausted => exhausted')
BY DEF Leak

\* Before its loop determineBest has seen nothing.
LEMMA NoScanIsScan == NoScan \in Scan /\ ScanInv(NoScan)
BY ConstantFacts DEF NoScan, Scan, ScanInv, AliveSeen

\* A round of determineBest's loop keeps the types of its registers.
LEMMA ScannedIsScan ==
    ASSUME Types, NEW scan \in Scan, scan.i < numServers
    PROVE  /\ Scanned(scan, scan.i) \in Scan
           /\ Scanned(scan, scan.i).i = scan.i + 1
           /\ Scanned(scan, scan.i).seen = scan.seen \cup {<< scan.i, server[scan.i] >>}
<1> DEFINE i == scan.i
           x == << i, server[i] >>
           next == [scan EXCEPT !.i = i + 1, !.seen = @ \cup {x}]
<1>1. i \in Server /\ i + 1 \in 0 .. numServers
  BY ConstantFacts DEF Scan, Server
<1>2. server[i] \in Counters
  BY <1>1 DEF Types
<1>3. x \in Server \X Counters
  BY <1>1, <1>2
<1>4. scan.seen \cup {x} \in SUBSET (Server \X Counters)
  BY <1>3 DEF Scan
<1>5. /\ next \in Scan /\ next.i = i + 1 /\ next.seen = scan.seen \cup {x}
  <2> HIDE DEF x
  <2> QED
    BY <1>1, <1>4 DEF Scan
<1>6. i \in Port /\ server[i].total \in Nat /\ server[i].fail \in Nat
  BY <1>1, <1>2 DEF Port, Counters
<1>7. ASSUME NEW s \in Scan, s.i = i + 1, s.seen = scan.seen \cup {x}
      PROVE  LET t == [s EXCEPT !.port = i, !.total = server[i].total, !.fail = server[i].fail]
             IN  t \in Scan /\ t.i = s.i /\ t.seen = s.seen
  BY <1>6 DEF Scan
<1> QED
  <2> HIDE DEF next
  <2>1. LET t == [next EXCEPT !.port = i, !.total = server[i].total, !.fail = server[i].fail]
        IN  t \in Scan /\ t.i = i + 1 /\ t.seen = scan.seen \cup {x}
    BY <1>5, <1>7
  <2> QED
    BY <1>5, <2>1 DEF Scanned, next

\* Ahead is transitive on counters that are numbers.
LEMMA AheadTransitive ==
    ASSUME NEW x \in Server \X Counters, NEW y \in Server \X Counters,
           NEW z \in Server \X Counters, Ahead(x, y), Ahead(y, z)
    PROVE  Ahead(x, z)
<1>1. \A u \in Server \X Counters : u[1] \in Int /\ u[2].total \in Nat /\ u[2].fail \in Nat
  BY ConstantFacts DEF Server, Counters
<1> QED
  BY <1>1 DEF Ahead

\* A round of the loop keeps the registers on the best server seen so far.
LEMMA ScannedIsBest ==
    ASSUME Types, NEW scan \in Scan, scan.i < numServers, ScanInv(scan)
    PROVE  ScanInv(Scanned(scan, scan.i))
<1> DEFINE i == scan.i
           s == server[i]
           new == << i, s >>
           t == Scanned(scan, i)
           better == /\ s.alive
                     /\ \/ scan.port = NoPort \/ s.total < scan.total
                        \/ s.total = scan.total /\ s.fail < scan.fail
<1>1. i \in Server /\ s \in Counters /\ new \in Server \X Counters
  BY ConstantFacts DEF Scan, Server, Types
<1>2. t \in Scan /\ t.i = i + 1 /\ t.seen = scan.seen \cup {new}
  BY ScannedIsScan
<1>3. /\ better => t.port = i /\ t.total = s.total /\ t.fail = s.fail
      /\ ~better => t.port = scan.port /\ t.total = scan.total /\ t.fail = scan.fail
  BY <1>1, ConstantFacts DEF Scanned, Scan, Counters
<1>4. new[1] = i /\ new[2] = s
  OBVIOUS
<1>5. \A x \in scan.seen : x \in Server \X Counters /\ x[1] < i
  BY DEF ScanInv, Scan
<1>6. \A x \in t.seen : x[1] < t.i
  <2>1. \A x \in scan.seen : x[1] < i + 1
    BY <1>1, <1>5, ConstantFacts DEF Server
  <2>2. new[1] < i + 1
    BY <1>1, <1>4 DEF Server
  <2> QED
    BY <1>2, <2>1, <2>2
<1>7. AliveSeen(t) = AliveSeen(scan) \cup (IF s.alive THEN {new} ELSE {})
  BY <1>2, <1>4 DEF AliveSeen
<1>8. AliveSeen(scan) \subseteq scan.seen
  BY DEF AliveSeen
<1> HIDE DEF i, s, new, t, better
<1> SUFFICES ScanInv(t)
  BY DEF t, i
<1>9. CASE better
  <2>1. s.alive
    BY <1>9 DEF better
  <2>2. ASSUME NEW y \in AliveSeen(scan) PROVE Ahead(new, y)
    <3>1. PICK x \in AliveSeen(scan) : Best(scan, x)
      BY <2>2 DEF ScanInv
    <3>2. /\ x \in Server \X Counters /\ y \in Server \X Counters
          /\ y = x \/ Ahead(x, y)
      BY <3>1, <1>5, <1>8 DEF Best
    <3>3. x[1] = scan.port /\ scan.port # NoPort
      BY <3>1, <3>2, ConstantFacts DEF Best
    <3>4. Ahead(new, x)
      BY <1>4, <1>9, <3>1, <3>3 DEF Best, better, Ahead
    <3> QED
      BY <1>1, <3>2, <3>4, AheadTransitive
  <2>3. new \in AliveSeen(t)
    BY <1>7, <2>1
  <2>4. Best(t, new)
    BY <1>3, <1>4, <1>7, <1>9, <2>2, <2>3 DEF Best
  <2> QED
    BY <1>6, <2>3, <2>4 DEF ScanInv
<1>10. CASE ~better
  <2>1. CASE AliveSeen(scan) = {}
    <3>1. scan.port = NoPort
      BY <2>1 DEF ScanInv
    <3>2. ~s.alive
      BY <1>10, <3>1 DEF better
    <3>3. AliveSeen(t) = {}
      BY <1>7, <2>1, <3>2
    <3> QED
      BY <1>3, <1>6, <1>10, <3>1, <3>3 DEF ScanInv
  <2>2. CASE AliveSeen(scan) # {}
    <3>1. PICK x \in AliveSeen(scan) : Best(scan, x)
      BY <2>2 DEF ScanInv
    <3>2. x \in Server \X Counters /\ x[1] < i
      BY <1>5, <1>8
    <3>3. s.alive => Ahead(x, new)
      <4>1. x[2].total = scan.total /\ x[2].fail = scan.fail
        BY <3>1 DEF Best
      <4>2. s.alive => ~(s.total < scan.total) /\ ~(s.total = scan.total /\ s.fail < scan.fail)
        BY <1>10 DEF better
      <4>3. /\ s.total \in Nat /\ s.fail \in Nat
            /\ x[2].total \in Nat /\ x[2].fail \in Nat
        BY <1>1, <3>2 DEF Counters
      <4> QED
        BY <1>4, <3>2, <4>1, <4>2, <4>3 DEF Ahead
    <3>4. \A y \in AliveSeen(t) \ {x} : Ahead(x, y)
      BY <1>7, <3>1, <3>3 DEF Best
    <3>5. x \in AliveSeen(t)
      BY <1>7
    <3>6. Best(t, x)
      BY <1>3, <1>10, <3>1, <3>4, <3>5 DEF Best
    <3> QED
      BY <1>6, <3>5, <3>6 DEF ScanInv
  <2> QED
    BY <2>1, <2>2
<1> QED
  BY <1>9, <1>10

-----------------------------------------------------------------------------
\* The sockets.
LEMMA InitSocketInv == Init => SocketInv
<1> SUFFICES ASSUME Init PROVE SocketInv
  OBVIOUS
<1> USE DEF Init
<1>1. server \in [Server -> Counters] /\ lock \in [Server -> {"none", "probe"}]
  BY DEF Counters
<1>2. main \in MainRecord
  BY ConstantFacts, NoScanIsScan DEF MainRecord
<1>3. probe \in ProbeRecord
  BY ConstantFacts, NoScanIsScan DEF ProbeRecord
<1>4. worker \in [Worker -> Thread] /\ conn \in [Client -> Connection]
  BY ConstantFacts DEF Unused, Thread, Idle, Connection
<1>a. requestCounter \in 0 .. hcRequest - 1 /\ bestServerport \in Port
  BY ConstantFacts
<1>b. client_sockd \in [Worker -> Socket]
  BY ConstantFacts
<1>c. env \in Scenes /\ exhausted \in BOOLEAN /\ probe.pc # "exchange"
  OBVIOUS
<1>5. Types
  BY ONLY <1>1, <1>2, <1>3, <1>4, <1>a, <1>b, <1>c DEF Types
<1>6. \A w \in Worker : client_sockd[w] = Free /\ worker[w].pc = "check"
  BY DEF Unused
<1>7. main.pc = "accept" /\ main.sockd = Free
  OBVIOUS
<1>8. FirstOnly /\ MainOwns /\ MainFailed
  BY <1>6, <1>7, ConstantFacts DEF FirstOnly, MainOwns, MainFailed, Idle
<1>9. Given
  BY <1>6, ConstantFacts DEF Given
<1> QED
  BY <1>5, <1>8, <1>9 DEF SocketInv

\* main accepts, counts, chooses and hands over.
LEMMA MainKeepsSocketInv ==
    ASSUME SocketInv, Main, UNCHANGED << running, exhausted, env >>
    PROVE  SocketInv'
<1> USE ConstantFacts
<1>a. Types /\ FirstOnly /\ MainOwns /\ MainFailed /\ Given
  BY DEF SocketInv
<1>b. main.scan \in Scan /\ main.scan.port \in Port
  BY <1>a DEF Types, MainRecord, Scan
<1>c. /\ main \in MainRecord /\ conn \in [Client -> Connection]
      /\ main.reg \in 0 .. hcRequest /\ requestCounter \in 0 .. hcRequest - 1
  BY <1>a DEF Types, MainRecord
<1>1. CASE MainAccept
  <2>1. PICK k \in Client : /\ conn[k].st = "waiting"
                            /\ conn' = [conn EXCEPT ![k].st = "open"]
                            /\ main' = [main EXCEPT !.pc = "count", !.sockd = k]
    BY <1>1 DEF MainAccept
  <2>2. main' \in MainRecord
    BY <1>c, <2>1 DEF MainRecord, Socket
  <2>3. conn' \in [Client -> Connection]
    BY <1>c, <2>1 DEF Connection
  <2>4. Types'
    BY <1>1, <1>a, <2>2, <2>3 DEF MainAccept, Types, shared
  <2>5. FirstOnly' /\ MainOwns' /\ MainFailed' /\ Given'
    BY <1>1, <1>a, <2>1 DEF MainAccept, Types, MainRecord, FirstOnly, MainOwns, MainFailed, Given
  <2> QED
    BY <2>4, <2>5 DEF SocketInv
<1>2. CASE MainLoad
  <2>1. main' = [main EXCEPT !.pc = "store", !.reg = requestCounter + 1]
    BY <1>2 DEF MainLoad
  <2>2. requestCounter + 1 \in 0 .. hcRequest
    BY <1>c
  <2>3. main' \in MainRecord
    BY <1>c, <2>1, <2>2 DEF MainRecord
  <2>4. Types'
    BY <1>2, <1>a, <2>3 DEF MainLoad, Types, shared
  <2>5. FirstOnly' /\ MainOwns' /\ MainFailed' /\ Given'
    BY <1>2, <1>a DEF MainLoad, Types, MainRecord, FirstOnly, MainOwns, MainFailed, Given
  <2> QED
    BY <2>4, <2>5 DEF SocketInv
<1>3. CASE MainStore
  <2>1. main' = [main EXCEPT !.pc = "scan", !.reg = 0]
    BY <1>3 DEF MainStore
  <2>2. 0 \in 0 .. hcRequest
    OBVIOUS
  <2>3. main' \in MainRecord
    BY <1>c, <2>1, <2>2 DEF MainRecord
  <2>4. requestCounter' \in 0 .. hcRequest - 1
    <3>1. requestCounter' = IF main.reg = hcRequest THEN 0 ELSE main.reg
      BY <1>3 DEF MainStore
    <3> QED
      BY <1>c, <3>1
  <2>5. Types'
    BY <1>3, <1>a, <2>3, <2>4 DEF MainStore, Types
  <2>6. FirstOnly' /\ MainOwns' /\ MainFailed' /\ Given'
    BY <1>3, <1>a DEF MainStore, Types, MainRecord, FirstOnly, MainOwns, MainFailed, Given
  <2> QED
    BY <2>5, <2>6 DEF SocketInv
<1>4. CASE MainScan
  <2>1. Scanned(main.scan, main.scan.i) \in Scan
    BY <1>4, <1>a, <1>b, ScannedIsScan DEF MainScan, Scans
  <2>2. Types'
    BY <1>4, <1>a, <2>1, BalancerAssumption DEF MainScan, Scans, Types, MainRecord, shared
  <2>3. FirstOnly' /\ MainOwns' /\ MainFailed' /\ Given'
    BY <1>4, <1>a DEF MainScan, Scans, Types, MainRecord, shared, FirstOnly, MainOwns, MainFailed, Given
  <2> QED
    BY <2>2, <2>3 DEF SocketInv
<1>5. CASE MainPick
  <2>1. main.pc = "scan" /\ bestServerport' \in Port /\ main' = [main EXCEPT !.pc = "test"]
    BY <1>5, <1>b DEF MainPick, ScanDone
  <2>2. main' \in MainRecord
    BY <1>c, <2>1 DEF MainRecord
  <2>3. Types'
    BY <1>5, <1>a, <2>1, <2>2 DEF MainPick, Types
  <2>4. FirstOnly' /\ MainOwns' /\ MainFailed' /\ Given'
    BY <1>5, <1>a, <2>1
       DEF MainPick, Types, MainRecord, FirstOnly, MainOwns, MainFailed, Given
  <2> QED
    BY <2>3, <2>4 DEF SocketInv
<1>8. CASE MainTest
  <2>0. main.pc = "test" /\ UNCHANGED << shared, client_sockd, probe, worker >>
    BY <1>8 DEF MainTest
  <2>1. CASE /\ conn' = IF main.sockd = Failed THEN conn
                        ELSE [conn EXCEPT ![main.sockd].st = "closed"]
             /\ main' = [main EXCEPT !.pc = "accept", !.sockd = Free, !.scan = NoScan]
    <3>1. main' \in MainRecord /\ main'.pc = "accept" /\ main'.sockd = Free
      BY <1>c, <2>1, NoScanIsScan DEF MainRecord
    <3>2. conn' \in [Client -> Connection]
      BY <1>c, <2>1 DEF Connection
    <3>3. Types'
      BY <1>a, <2>0, <3>1, <3>2 DEF Types, shared
    <3>4. FirstOnly' /\ MainOwns' /\ MainFailed'
      BY <1>a, <2>0, <3>1 DEF FirstOnly, MainOwns, MainFailed
    <3>5. Given'
      BY <1>a, <1>c, <2>0, <2>1 DEF Types, MainOwns, Given
    <3> QED
      BY <3>3, <3>4, <3>5 DEF SocketInv
  <2>2. CASE main' = [main EXCEPT !.pc = "signal", !.scan = NoScan] /\ UNCHANGED conn
    <3>1. main' \in MainRecord /\ main'.pc = "signal" /\ main'.sockd = main.sockd
      BY <1>c, <2>2, NoScanIsScan DEF MainRecord
    <3>2. Types'
      BY <1>a, <2>0, <2>2, <3>1 DEF Types, shared
    <3>3. FirstOnly' /\ MainOwns' /\ MainFailed' /\ Given'
      BY <1>a, <2>0, <2>2, <3>1 DEF FirstOnly, MainOwns, MainFailed, Given
    <3> QED
      BY <3>2, <3>3 DEF SocketInv
  <2> QED
    BY <1>8, <2>1, <2>2 DEF MainTest
<1>9. CASE MainAcceptFails
  <2>1. /\ main.pc = "accept" /\ exhausted
        /\ main' = [main EXCEPT !.pc = "count", !.sockd = Failed]
        /\ UNCHANGED << shared, client_sockd, probe, worker, conn >>
    BY <1>9 DEF MainAcceptFails
  <2>2. main' \in MainRecord /\ main'.sockd = Failed
    BY <1>c, <2>1 DEF MainRecord
  <2>3. Types'
    BY <1>a, <2>1, <2>2 DEF Types, shared
  <2>4. FirstOnly' /\ MainOwns' /\ MainFailed' /\ Given'
    BY <1>a, <2>1, <2>2 DEF FirstOnly, MainOwns, MainFailed, Given
  <2> QED
    BY <2>3, <2>4 DEF SocketInv
<1>6. CASE MainSignal
  <2>2. Types'
    BY <1>6, <1>a, BalancerAssumption DEF MainSignal, Thread, Idle, Types, MainRecord, shared
  <2>3. FirstOnly' /\ MainOwns' /\ MainFailed' /\ Given'
    BY <1>6, <1>a DEF MainSignal, Thread, Idle, Types, MainRecord, shared, FirstOnly, MainOwns, MainFailed, Given
  <2> QED
    BY <2>2, <2>3 DEF SocketInv
<1>7. CASE MainGive
  <2>2. Types'
    BY <1>7, <1>a, BalancerAssumption DEF MainGive, Socket, Types, MainRecord, shared
  <2>3. FirstOnly' /\ MainOwns' /\ MainFailed' /\ Given'
    BY <1>7, <1>a DEF MainGive, Socket, Types, MainRecord, shared, FirstOnly, MainOwns, MainFailed, Given
  <2> QED
    BY <2>2, <2>3 DEF SocketInv
<1> QED
  BY <1>1, <1>2, <1>3, <1>4, <1>5, <1>6, <1>7, <1>8, <1>9 DEF Main

\* The prober touches no socket.
LEMMA ProbeKeepsSocketInv ==
    ASSUME SocketInv, Probe, UNCHANGED env
    PROVE  SocketInv'
<1> USE ConstantFacts
<1>a. Types
  BY DEF SocketInv
<1>b. /\ probe \in ProbeRecord /\ server \in [Server -> Counters]
      /\ lock \in [Server -> {"none", "probe"}] /\ probe.i \in 0 .. numServers
      /\ probe.scan \in Scan /\ probe.scan.port \in Port
  BY <1>a DEF Types, ProbeRecord, Scan
<1>c. probe.pc = "exchange" => probe.i \in Server /\ probe.i + 1 \in 0 .. numServers
  BY <1>a, <1>b DEF Types, Server
<1>e. UNCHANGED << client_sockd, main, worker, conn >>
  BY DEF Probe
<1>h. exhausted' \in BOOLEAN /\ (exhausted => exhausted')
  BY <1>a, ExhaustedStays DEF Probe, Types
<1>d. FirstOnly' /\ MainOwns' /\ MainFailed' /\ Given'
  BY <1>e, <1>h DEF SocketInv, FirstOnly, MainOwns, MainFailed, Given
\* What a lock, an unlock and the next round do to types.
<1>f. probe.pc = "exchange" =>
          Unlocked \in [Server -> {"none", "probe"}] /\ NextServer \in ProbeRecord
                                                   /\ NextServer.pc = "lock"
  BY <1>b, <1>c DEF Unlocked, NextServer, ProbeRecord
<1>1. ASSUME server' \in [Server -> Counters], lock' \in [Server -> {"none", "probe"}],
             bestServerport' \in Port, requestCounter' \in 0 .. hcRequest - 1,
             probe' \in ProbeRecord, probe'.pc = "exchange" => probe'.i < numServers
      PROVE  SocketInv'
  BY <1>1, <1>a, <1>d, <1>e, <1>h DEF SocketInv, Types
<1>g. bestServerport \in Port /\ requestCounter \in 0 .. hcRequest - 1
  BY <1>a DEF Types
<1>2. CASE ProbeLock /\ UNCHANGED << bestServerport, requestCounter >>
  <2>1. probe.i < numServers /\ probe' = [probe EXCEPT !.pc = "exchange"]
    BY <1>2 DEF ProbeLock
  <2>2. probe' \in ProbeRecord /\ probe'.i < numServers
    BY <1>b, <2>1 DEF ProbeRecord
  <2> QED
    BY <1>2, <1>b, <1>g, <1>1, <2>2 DEF ProbeLock
<1>3. CASE ProbeDead /\ UNCHANGED << bestServerport, requestCounter >>
  <2>1. server' \in [Server -> Counters]
    BY <1>3, <1>b DEF ProbeDead, Counters
  <2> QED
    BY <1>3, <1>f, <1>g, <1>1, <2>1 DEF ProbeDead
<1>4. CASE ProbeGood /\ UNCHANGED << bestServerport, requestCounter >>
  <2>1. PICK x \in env.answers :
           server' = [server EXCEPT ![probe.i] = [@ EXCEPT !.total = x[1], !.fail = x[2]]]
    BY <1>4 DEF ProbeGood
  <2>2. x[1] \in Nat /\ x[2] \in Nat
    BY <1>a, BalancerAssumption DEF Types
  <2>3. server' \in [Server -> Counters]
    BY <1>b, <2>1, <2>2 DEF Counters
  <2> QED
    BY <1>4, <1>f, <1>g, <1>1, <2>3 DEF ProbeGood
<1>5. CASE ProbeShort /\ UNCHANGED << bestServerport, requestCounter >>
  BY <1>5, <1>a, <1>b, <1>g, <1>1 DEF ProbeShort, Types
<1>6. CASE ProbeError /\ UNCHANGED << bestServerport, requestCounter >>
  <2>1. probe' \in ProbeRecord /\ probe'.pc = "gone"
    BY <1>6, <1>b DEF ProbeError, ProbeRecord
  <2> QED
    BY <1>6, <1>b, <1>g, <1>1, <2>1 DEF ProbeError
<1>7. CASE ProbeRound /\ UNCHANGED << bestServerport, requestCounter >>
  <2>1. probe' = [probe EXCEPT !.pc = "scan", !.i = 0] /\ 0 \in 0 .. numServers
    BY <1>7 DEF ProbeRound
  <2>2. probe' \in ProbeRecord /\ probe'.pc = "scan"
    BY <1>b, <2>1 DEF ProbeRecord
  <2> QED
    BY <1>7, <1>b, <1>g, <1>1, <2>2 DEF ProbeRound
<1>8. CASE ProbeScan /\ UNCHANGED << bestServerport, requestCounter >>
  <2>1. /\ probe.pc = "scan" /\ probe.scan.i < numServers
        /\ probe' = [probe EXCEPT !.scan = Scanned(probe.scan, probe.scan.i)]
    BY <1>8, <1>b DEF ProbeScan, Scans, ProbeRecord
  <2>2. Scanned(probe.scan, probe.scan.i) \in Scan
    BY <1>a, <1>b, <2>1, ScannedIsScan
  <2>3. probe' \in ProbeRecord /\ probe'.pc = "scan"
    BY <1>b, <2>1, <2>2 DEF ProbeRecord
  <2> QED
    BY <1>8, <1>b, <1>g, <1>1, <2>3 DEF ProbeScan
<1>9. CASE ProbePick /\ UNCHANGED << server, lock, running >>
  <2>1. probe' \in ProbeRecord /\ probe'.pc = "wait"
    BY <1>9, <1>b, NoScanIsScan DEF ProbePick, ProbeRecord
  <2> QED
    BY <1>9, <1>b, <1>g, <1>1, <2>1 DEF ProbePick
<1>10. CASE ProbeWait /\ UNCHANGED << server, lock, running >>
  <2>1. probe' \in ProbeRecord /\ probe'.pc = "lock"
    BY <1>10, <1>b DEF ProbeWait, ProbeRecord
  <2>2. 0 \in 0 .. hcRequest - 1
    OBVIOUS
  <2> QED
    BY <1>10, <1>b, <1>g, <1>1, <2>1, <2>2 DEF ProbeWait
<1> QED
  BY <1>2, <1>3, <1>4, <1>5, <1>6, <1>7, <1>8, <1>9, <1>10 DEF Probe

\* A thread: only the first one gets past the check.
LEMMA ThreadKeepsSocketInv ==
    ASSUME SocketInv, NEW w \in Worker, handle_connection(w), UNCHANGED env
    PROVE  SocketInv'
<1> USE ConstantFacts
<1>a. Types /\ FirstOnly /\ MainOwns /\ MainFailed /\ Given
  BY DEF SocketInv
<1>b. /\ worker \in [Worker -> Thread] /\ conn \in [Client -> Connection]
      /\ client_sockd \in [Worker -> Socket] /\ bestServerport \in Port
  BY <1>a DEF Types
<1>c. UNCHANGED << shared, main, probe >>
  BY DEF handle_connection
<1>f. exhausted' \in BOOLEAN /\ (exhausted => exhausted')
  BY <1>a, ExhaustedStays DEF handle_connection, Types
<1>g. MainFailed'
  BY <1>a, <1>c, <1>f DEF MainFailed
<1>1. ASSUME worker' \in [Worker -> Thread], conn' \in [Client -> Connection],
             client_sockd' \in [Worker -> Socket], FirstOnly', MainOwns', Given'
      PROVE  SocketInv'
  BY <1>1, <1>a, <1>c, <1>f, <1>g DEF SocketInv, Types, shared
\* The next place of a thread.
<1>d. ASSUME NEW pc \in Idle \cup {"connect", "connected", "bridge", "close", "reset"}, Goto(w, pc)
      PROVE  worker' \in [Worker -> Thread]
  BY <1>b, <1>d DEF Goto, Thread
<1>2. CASE Check(w)
  <2>1. worker' \in [Worker -> Thread]
    BY <1>2, <1>d DEF Check, Idle
  <2>2. FirstOnly' /\ MainOwns' /\ Given'
    BY <1>2, <1>a, <1>b, <1>c, <1>f DEF Check, Goto, Thread, Idle, FirstOnly, MainOwns, Given
  <2> QED
    BY <1>2, <1>b, <1>1, <2>1, <2>2 DEF Check
<1>3. CASE Wait(w)
  <2>1. worker' \in [Worker -> Thread]
    BY <1>3, <1>d DEF Wait, Idle
  <2>2. FirstOnly' /\ MainOwns' /\ Given'
    BY <1>3, <1>a, <1>b, <1>c, <1>f DEF Wait, Goto, Thread, Idle, FirstOnly, MainOwns, Given
  <2> QED
    BY <1>3, <1>b, <1>1, <2>1, <2>2 DEF Wait
<1>4. w = 0 \/ Check(w) \/ Wait(w)
  BY <1>a DEF FirstOnly, handle_connection, Connect, Refused, Connected, BridgeNothing,
              Bridges, BridgeRequest,
              BridgeResponse, BridgeTimeout, Close, Reset, Idle
<1>e. \A k \in Worker \ {0} : w = 0 /\ worker' = [worker EXCEPT ![0] = worker'[0]]
                                    => worker'[k] = worker[k]
  BY <1>b
<1>5. CASE w = 0 /\ (Connect(w) \/ Refused(w) \/ Connected(w))
  <2>1. worker' \in [Worker -> Thread]
    <3>1. CASE Connect(w)
      <4>1. \A u \in Thread, port \in Port :
               [u EXCEPT !.pc = "connected", !.port = port] \in Thread
        BY ONLY TRUE DEF Thread
      <4>2. worker' = [worker EXCEPT ![w] = [worker[w] EXCEPT !.pc = "connected",
                                                              !.port = bestServerport]]
        BY <1>b, <3>1 DEF Connect
      <4> QED
        BY ONLY <1>b, <4>1, <4>2
    <3>2. CASE Refused(w)
      <4>1. \A u \in Thread : [u EXCEPT !.pc = "close", !.port = NoPort] \in Thread
        BY ONLY TRUE DEF Thread, Port
      <4>2. worker' = [worker EXCEPT ![w] = [worker[w] EXCEPT !.pc = "close", !.port = NoPort]]
        BY <1>b, <3>2 DEF Refused
      <4> QED
        BY ONLY <1>b, <4>1, <4>2
    <3>3. CASE Connected(w)
      BY <1>b, <3>3, BalancerAssumption DEF Connected, Thread
    <3> QED
      BY <1>5, <3>1, <3>2, <3>3
  <2>2. FirstOnly'
    BY <1>5, <1>a, <1>b DEF Connect, Refused, Connected, FirstOnly
  <2>3. MainOwns' /\ Given'
    <3>1. CASE Connect(w)
      BY <1>5, <1>a, <1>b, <1>c, <1>f, <3>1 DEF Connect, Thread, MainOwns, Given
    <3>2. CASE Refused(w)
      BY <1>5, <1>a, <1>b, <1>c, <1>f, <3>2 DEF Refused, Thread, MainOwns, Given
    <3>3. CASE Connected(w)
      <4>1. /\ worker[0].pc = "connected" /\ UNCHANGED << client_sockd, conn >>
            /\ worker'[0].pc = "bridge" /\ worker'[0].sockd = client_sockd[0]
        BY <1>5, <1>b, <3>3 DEF Connected
      <4> QED
        BY <1>a, <1>b, <1>c, <1>f, <4>1 DEF MainOwns, Given, Socket
    <3> QED
      BY <1>5, <3>1, <3>2, <3>3
  <2> QED
    BY <1>5, <1>b, <1>1, <2>1, <2>2, <2>3 DEF Connect, Refused, Connected
<1>6. CASE w = 0 /\ BridgeRequest(w)
  <2>1. worker' \in [Worker -> Thread]
    BY <1>6, <1>b, <1>d DEF BridgeRequest
  <2>2. worker[0].sockd \in Client
    BY <1>6, <1>a, <1>b DEF BridgeRequest, Bridges, Given, Thread, Socket
  <2>3. conn' \in [Client -> Connection] /\ \A k \in Client : conn'[k].st = conn[k].st
    BY <1>6, <1>b, <2>2 DEF BridgeRequest, Connection
  <2>4. FirstOnly'
    BY <1>6, <1>a, <1>b DEF BridgeRequest, Goto, FirstOnly
  <2>5. MainOwns'
    BY <1>6, <1>a, <1>b, <1>c, <2>3 DEF BridgeRequest, Bridges, Goto, Thread, MainOwns
  <2>6. Given'
    BY <1>6, <1>a, <1>b, <1>f, <2>2, <2>3
       DEF BridgeRequest, Bridges, Goto, Thread, Socket, Given
  <2> QED
    BY <1>6, <1>b, <1>1, <2>1, <2>3, <2>4, <2>5, <2>6 DEF BridgeRequest
<1>7. CASE w = 0 /\ BridgeResponse(w)
  <2>1. worker[w].left > 0 => worker[w].left - 1 \in 0 .. Parts
    BY <1>b DEF Thread
  <2>2. CASE worker[w].left > 0
    <3> DEFINE t == [worker[w] EXCEPT !.ready = FALSE, !.left = worker[w].left - 1]
    <3>1. worker' = [worker EXCEPT ![w] = t]
      <4>1. worker' = [worker EXCEPT ![w].ready = FALSE, ![w].left = @ - 1]
        BY <1>7, <2>2 DEF BridgeResponse
      <4> QED
        BY ONLY <1>b, <4>1
    <3>2. worker' \in [Worker -> Thread]
      <4>1. ASSUME NEW u \in Thread, NEW left \in 0 .. Parts
            PROVE  [u EXCEPT !.ready = FALSE, !.left = left] \in Thread
        BY DEF Thread
      <4>2. t \in Thread
        BY <1>b, <2>1, <2>2, <4>1
      <4> HIDE DEF t
      <4> QED
        BY <1>b, <3>1, <4>2
    <3>3. UNCHANGED << client_sockd, conn >>
      BY <1>7 DEF BridgeResponse
    <3>4. worker'[0].pc = worker[0].pc /\ worker'[0].sockd = worker[0].sockd
      BY <1>7, <1>b, <3>1 DEF Thread
    <3>5. FirstOnly'
      BY <1>7, <1>a, <1>b, <3>1, <3>3 DEF FirstOnly
    <3>6. MainOwns' /\ Given'
      BY <1>a, <1>c, <1>f, <3>3, <3>4 DEF MainOwns, Given
    <3> QED
      BY <1>b, <1>1, <3>2, <3>3, <3>5, <3>6
  <2>3. CASE ~(worker[w].left > 0)
    <3>1. worker' \in [Worker -> Thread]
      BY <1>7, <1>d, <2>3 DEF BridgeResponse
    <3>2. FirstOnly' /\ MainOwns' /\ Given'
      BY <1>7, <1>a, <1>b, <1>c, <1>f, <2>3
         DEF BridgeResponse, Bridges, Goto, Thread, FirstOnly, MainOwns, Given
    <3> QED
      BY <1>7, <1>b, <1>1, <3>1, <3>2 DEF BridgeResponse
  <2> QED
    BY <2>2, <2>3
<1>8. CASE w = 0 /\ BridgeTimeout(w)
  <2>1. worker' \in [Worker -> Thread]
    BY <1>8, <1>b, <1>d DEF BridgeTimeout
  <2>2. FirstOnly' /\ MainOwns' /\ Given'
    BY <1>8, <1>a, <1>b, <1>c, <1>f
       DEF BridgeTimeout, Bridges, Goto, Thread, FirstOnly, MainOwns, Given
  <2> QED
    BY <1>8, <1>b, <1>1, <2>1, <2>2 DEF BridgeTimeout
<1>9. CASE w = 0 /\ Close(w)
  <2>1. worker' \in [Worker -> Thread]
    <3>1. Unused \in Thread
      <4>1. 0 \in 0 .. Parts
        OBVIOUS
      <4> QED
        BY <4>1 DEF Unused, Thread, Idle
    <3>2. ASSUME NEW t \in Thread PROVE [t EXCEPT !.pc = "reset"] \in Thread
      BY DEF Thread
    <3>3. [Unused EXCEPT !.pc = "reset"] \in Thread
      BY <3>1, <3>2
    <3> QED
      BY <1>9, <1>b, <3>3 DEF Close
  <2>2. client_sockd[0] \in Client \cup {Failed}
    BY <1>9, <1>a, <1>b DEF Close, Given, Socket
  <2>3. /\ conn' \in [Client -> Connection]
        /\ client_sockd[0] \in Client => conn'[client_sockd[0]].st = "closed"
        /\ \A k \in Client \ {client_sockd[0]} : conn'[k] = conn[k]
    BY <1>9, <1>b, <2>2 DEF Close, Connection
  <2>4. FirstOnly'
    BY <1>9, <1>a, <1>b DEF Close, FirstOnly
  <2>5. worker'[0].pc = "reset" /\ UNCHANGED client_sockd
    BY <1>9, <1>b DEF Close, Unused
  <2>6. MainOwns' /\ Given'
    BY <1>a, <1>c, <1>f, <2>2, <2>3, <2>5 DEF MainOwns, Given
  <2> QED
    BY <1>9, <1>b, <1>1, <2>1, <2>3, <2>4, <2>6 DEF Close
<1>11. CASE w = 0 /\ BridgeNothing(w)
  <2>1. worker' \in [Worker -> Thread]
    BY <1>11, <1>b, <1>d DEF BridgeNothing
  <2>2. FirstOnly' /\ MainOwns' /\ Given'
    BY <1>11, <1>a, <1>b, <1>c, <1>f
       DEF BridgeNothing, Goto, Thread, FirstOnly, MainOwns, Given
  <2> QED
    BY <1>11, <1>b, <1>1, <2>1, <2>2 DEF BridgeNothing
<1>10. CASE w = 0 /\ Reset(w)
  <2>1. worker' \in [Worker -> Thread]
    BY <1>10, <1>d DEF Reset, Idle
  <2>2. FirstOnly' /\ MainOwns' /\ Given'
    BY <1>10, <1>a, <1>b, <1>c, <1>f DEF Reset, Goto, Thread, Idle, FirstOnly, MainOwns, Given
  <2> QED
    BY <1>10, <1>b, <1>1, <2>1, <2>2 DEF Reset
<1> QED
  BY <1>2, <1>3, <1>4, <1>5, <1>6, <1>7, <1>8, <1>9, <1>10, <1>11 DEF handle_connection

LEMMA NextKeepsSocketInv == SocketInv /\ [Next]_vars => SocketInv'
<1> SUFFICES ASSUME SocketInv, [Next]_vars PROVE SocketInv'
  OBVIOUS
<1>1. CASE Main /\ UNCHANGED << running, exhausted, env >>
  BY <1>1, MainKeepsSocketInv
<1>2. CASE Probe /\ UNCHANGED env
  BY <1>2, ProbeKeepsSocketInv
<1>3. CASE UNCHANGED env /\ \E w \in Worker : handle_connection(w)
  BY <1>3, ThreadKeepsSocketInv
<1>4. CASE UNCHANGED env /\ \E w \in Worker : ServerStep(w)
  <2>1. PICK w \in Worker : ServerStep(w)
    BY <1>4
  <2>2. worker' = [worker EXCEPT ![w].ready = TRUE] /\ worker \in [Worker -> Thread]
    BY <2>1 DEF ServerStep, SocketInv, Types
  <2>3. /\ worker' \in [Worker -> Thread]
        /\ \A k \in Worker : worker'[k].pc = worker[k].pc /\ worker'[k].sockd = worker[k].sockd
    BY <2>2 DEF Thread
  <2> QED
    BY <1>4, <2>1, <2>3, ConstantFacts
       DEF SocketInv, FirstOnly, MainOwns, MainFailed, Given, Types, shared, ServerStep
<1>5. CASE UNCHANGED env /\ \E k \in Client : ClientStep(k)
  <2>1. PICK k \in Client : ClientStep(k)
    BY <1>5
  <2>2. conn \in [Client -> Connection]
    BY DEF SocketInv, Types
  <2>3. /\ conn' \in [Client -> Connection]
        /\ \A c \in Client : conn'[c].st = conn[c].st \/ conn[c].st = "away"
    <3>1. \/ conn[k].st = "away" /\ conn' = [conn EXCEPT ![k].st = "waiting"]
          \/ conn' = [conn EXCEPT ![k].req = "sent"]
          \/ conn' = [conn EXCEPT ![k].gone = TRUE]
      BY <2>1 DEF ClientStep
    <3>2. CASE conn[k].st = "away" /\ conn' = [conn EXCEPT ![k].st = "waiting"]
      BY ONLY <2>2, <3>2 DEF Connection
    <3>3. CASE conn' = [conn EXCEPT ![k].req = "sent"]
      BY ONLY <2>2, <3>3 DEF Connection
    <3>4. CASE conn' = [conn EXCEPT ![k].gone = TRUE]
      BY ONLY <2>2, <3>4 DEF Connection
    <3> QED
      BY <3>1, <3>2, <3>3, <3>4
  <2>4. Types'
    BY <1>5, <2>1, <2>3 DEF SocketInv, Types, ClientStep, shared
  <2>5. FirstOnly'
    BY <2>1 DEF SocketInv, FirstOnly, ClientStep
  <2>6. MainOwns' /\ MainFailed'
    BY <2>1, <2>3 DEF SocketInv, MainOwns, MainFailed, ClientStep
  <2>7. client_sockd[0] \in Socket /\ worker[0].sockd \in Socket
    BY ConstantFacts DEF SocketInv, Types, Thread
  <2>8. Given'
    BY <2>1, <2>3, <2>7 DEF SocketInv, Given, ClientStep, Socket
  <2> QED
    BY <2>4, <2>5, <2>6, <2>8 DEF SocketInv
<1>6. CASE UNCHANGED vars
  BY <1>6 DEF SocketInv, FirstOnly, MainOwns, MainFailed, Given, Types, vars
<1> QED
  BY <1>1, <1>2, <1>3, <1>4, <1>5, <1>6 DEF Next

\* A thread bridges and closes open sockets only, however fast clients come and
\* whatever main writes over client_sockd[0], for any number of servers,
\* threads and clients.
THEOREM SocketsAreOpen == Spec => []UsesOpenSockets
<1>1. SocketInv => UsesOpenSockets
  <2> SUFFICES ASSUME SocketInv PROVE UsesOpenSockets
    OBVIOUS
  <2>1. TypeOK
    <3>1. /\ main \in MainRecord /\ probe \in ProbeRecord /\ worker \in [Worker -> Thread]
          /\ probe.i \in 0 .. numServers
      BY DEF SocketInv, Types, ProbeRecord
    <3>2. main.reg \in 0 .. hcRequest /\ main.scan \in Scan /\ probe.scan \in Scan
      BY <3>1 DEF MainRecord, ProbeRecord
    <3>3. ScanType(main.scan) /\ ScanType(probe.scan)
      BY <3>2 DEF ScanType, Scan, Port
    <3>4. probe.i \in Server \cup {numServers}
      BY <3>1, ConstantFacts DEF Server
    <3>5. \A w \in Worker : worker[w].left \in 0 .. Parts /\ worker[w].sockd \in Client \cup {Free, Failed}
      BY <3>1 DEF Thread, Socket
    <3> QED
      BY <3>2, <3>3, <3>4, <3>5 DEF SocketInv, Types, TypeOK, Counters, Port, Socket
  <2>2. client_sockd[0] \in Socket /\ worker[0].sockd \in Socket
    BY ConstantFacts DEF SocketInv, Types, Thread
  <2> QED
    BY <2>1, <2>2, ConstantFacts
       DEF SocketInv, FirstOnly, Given, Usable, UsesOpenSockets, Idle, Socket
<1> QED
  BY <1>1, InitSocketInv, NextKeepsSocketInv, PTL DEF Spec

-----------------------------------------------------------------------------
\* The choice of a server.

\* Each step leaves a scan alone, starts it anew or takes it one server on.
LEMMA NextKeepsScans ==
    ASSUME SocketInv, [Next]_vars, ScanInv(main.scan), ScanInv(probe.scan)
    PROVE  ScanInv(main'.scan) /\ ScanInv(probe'.scan)
<1>1. /\ main \in MainRecord /\ probe \in ProbeRecord
      /\ main.scan \in Scan /\ probe.scan \in Scan
  BY DEF SocketInv, Types, MainRecord, ProbeRecord
<1>2. \/ main'.scan = main.scan \/ main'.scan = NoScan
      \/ Scans(main) /\ main'.scan = Scanned(main.scan, main.scan.i)
  <2>1. CASE Main
    BY <1>1, <2>1 DEF Main, MainAccept, MainAcceptFails, MainLoad, MainStore,
                      MainScan, MainPick, MainTest, MainSignal,
                      MainGive, MainRecord
  <2>2. CASE UNCHANGED main
    BY <2>2
  <2> QED
    BY <2>1, <2>2 DEF Next, vars, Probe, handle_connection, ServerStep, ClientStep
<1>3. \/ probe'.scan = probe.scan \/ probe'.scan = NoScan
      \/ Scans(probe) /\ probe'.scan = Scanned(probe.scan, probe.scan.i)
  <2>1. CASE Probe
    BY <1>1, <2>1 DEF Probe, ProbeLock, ProbeDead, ProbeGood, ProbeShort, ProbeError,
                      ProbeRound, ProbeScan, ProbePick, ProbeWait, NextServer, ProbeRecord
  <2>2. CASE UNCHANGED probe
    BY <2>2
  <2>3. Main => UNCHANGED probe
    BY DEF Main, MainAccept, MainAcceptFails, MainLoad, MainStore, MainScan, MainPick,
       MainTest, MainSignal, MainGive
  <2> QED
    BY <2>1, <2>2, <2>3 DEF Next, vars, handle_connection, ServerStep, ClientStep
<1>4. ScanInv(main'.scan)
  BY <1>1, <1>2, NoScanIsScan, ScannedIsBest DEF SocketInv, Scans
<1>5. ScanInv(probe'.scan)
  BY <1>1, <1>3, NoScanIsScan, ScannedIsBest DEF SocketInv, Scans
<1> QED
  BY <1>4, <1>5

ScansInv == SocketInv /\ ScanInv(main.scan) /\ ScanInv(probe.scan)

\* determineBest returns the best of the servers it has looked at, although the
\* prober changes their counters in between, for any number of servers.
THEOREM BestServerIsChosen == Spec => []BestOfSeen
<1>1. Init => ScansInv
  BY InitSocketInv, NoScanIsScan DEF Init, ScansInv
<1>2. ScansInv /\ [Next]_vars => ScansInv'
  <2> SUFFICES ASSUME ScansInv, [Next]_vars PROVE ScansInv'
    OBVIOUS
  <2>1. SocketInv' /\ ScanInv(main'.scan) /\ ScanInv(probe'.scan)
    BY NextKeepsSocketInv, NextKeepsScans DEF ScansInv
  <2> QED
    BY <2>1 DEF ScansInv
<1>3. ScansInv => BestOfSeen
  BY DEF ScansInv, ScanInv, BestOfSeen, AliveSeen, Best
<1> QED
  BY <1>1, <1>2, <1>3, PTL DEF Spec
=============================================================================
