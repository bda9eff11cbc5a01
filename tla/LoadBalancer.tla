---------------------------- MODULE LoadBalancer ----------------------------
(***************************************************************************)
(* The load balancer, asgn3/loadbalancer.c: main accepts clients, picks    *)
(* the least loaded server and hands the socket to a thread, which bridges *)
(* the two connections; a prober asks every server for its counters.       *)
(*                                                                         *)
(* Only servers[i] has a lock; bestServerport, requestCounter and the      *)
(* client_sockd of a thread are read and written without one.  A step is   *)
(* what lies between two accesses to them, or between two system calls.    *)
(* determineBest takes the locks one by one and is a step per server.      *)
(*                                                                         *)
(* A wait of a thread passes the address of a pointer as its mutex: it     *)
(* either returns at once, and the thread polls, or it blocks.  The        *)
(* prober's wait, whose time limit is half uninitialized, may return any   *)
(* time, so that main's signal to it makes no difference.                  *)
(*                                                                         *)
(* A health check never closes its socket, nor does a connect that fails.  *)
(* Once the descriptors are exhausted accept and connect may fail; nobody  *)
(* checks what accept has returned.                                        *)
(***************************************************************************)
EXTENDS Integers

CONSTANTS
    numServers,     \* servers, 0 .. numServers - 1 as on the command line
    parallelOp,     \* threads (-N)
    hcRequest,      \* requests between two signals to the prober (-R)
    Client,         \* the connections clients open
    Free,           \* INT_MIN: a thread without a socket
    Failed,         \* -1, from accept
    Parts,          \* pieces in which a server sends its response
    Scenes          \* records of polls (see above), gentle (clients come one
                    \*   at a time, when the thread is idle), faults, the
                    \*   counters in the answers to health checks, and the
                    \*   sets of servers (up) that are alive at first

ASSUME BalancerAssumption ==
    /\ numServers \in Nat \ {0} /\ parallelOp \in Nat \ {0} /\ hcRequest \in Nat \ {0}
    /\ Parts \in Nat /\ Free \notin Client /\ Failed \notin Client \cup {Free}
    /\ \A scene \in Scenes : scene.answers \subseteq Nat \X Nat

Server == 0 .. numServers - 1
Worker == 0 .. parallelOp - 1
NoPort == -1

VARIABLES
    server,         \* alive, total_requests and fail_requests of each
    lock,           \* who holds servers[i].lock: "none", "main" or "probe"
    bestServerport, requestCounter,
    client_sockd,   \* of each thread
    main,           \* pc, socket, register, and determineBest's variables
    probe,          \* pc, loop variable, and determineBest's variables
    worker,         \* of each: pc, port, socket, parts to come, part readable
    conn,           \* of each client: its socket, its request, what it got
    running,        \* no signal has killed the process
    exhausted,      \* the descriptors have run out
    env             \* the scene

shared == << server, lock, bestServerport, requestCounter >>
vars == << server, lock, bestServerport, requestCounter, client_sockd, main,
           probe, worker, conn, running, exhausted, env >>

\* determineBest before its loop; seen is what it has read, for BestOfSeen.
NoScan == [i |-> 0, port |-> NoPort, total |-> 0, fail |-> 0, seen |-> {}]

Unused == [pc |-> "check", port |-> NoPort, sockd |-> Free, left |-> 0, ready |-> FALSE]

Init ==
    /\ env \in Scenes /\ running = TRUE /\ exhausted = FALSE
    /\ \E up \in env.up :
          server = [i \in Server |-> [alive |-> i \in up, total |-> 0, fail |-> 0]]
    /\ lock = [i \in Server |-> "none"]
    /\ bestServerport = NoPort /\ requestCounter = 0     \* port 0, nobody's either
    /\ client_sockd = [w \in Worker |-> Free]
    /\ main = [pc |-> "accept", sockd |-> Free, reg |-> 0, scan |-> NoScan]
    /\ probe = [pc |-> "lock", i |-> 0, scan |-> NoScan]
    /\ worker = [w \in Worker |-> Unused]
    /\ conn = [k \in Client |-> [st |-> "away", req |-> "unsent", gone |-> FALSE]]

\* A descriptor is left open, which may have been the last.
Leak == exhausted' \in {exhausted, exhausted \/ "leak" \in env.faults}

-----------------------------------------------------------------------------
\* determineBest.

\* Mutant: a tie on the requests is decided for the later server.
ScannedLater(scan, i) ==
    LET s == server[i]
        better == s.alive /\ (scan.port = NoPort \/ s.total <= scan.total)
        next == [scan EXCEPT !.i = i + 1, !.seen = @ \cup {<< i, s >>}]
    IN  IF better THEN [next EXCEPT !.port = i, !.total = s.total, !.fail = s.fail] ELSE next

\* One server more: the fewest requests win, then the fewest failures.
Scanned(scan, i) ==
    LET s == server[i]
        better == /\ s.alive
                  /\ \/ scan.port = NoPort \/ s.total < scan.total
                     \/ s.total = scan.total /\ s.fail < scan.fail
        next == [scan EXCEPT !.i = i + 1, !.seen = @ \cup {<< i, s >>}]
    IN  IF better THEN [next EXCEPT !.port = i, !.total = s.total, !.fail = s.fail] ELSE next

\* The step for server i of the scan in the record who.
Scans(who) ==
    /\ who.pc = "scan" /\ who.scan.i < numServers
    /\ lock[who.scan.i] = "none"
ScanDone(who) == who.pc = "scan" /\ who.scan.i = numServers

-----------------------------------------------------------------------------
\* main.

\* (What is sent to a client is left out.)
MainAccept ==
    /\ main.pc = "accept"
    /\ \E k \in Client :
          /\ conn[k].st = "waiting"
          /\ conn' = [conn EXCEPT ![k].st = "open"]
          /\ main' = [main EXCEPT !.pc = "count", !.sockd = k]
    /\ UNCHANGED << shared, client_sockd, probe, worker >>

\* -1 goes the way of a socket.
MainAcceptFails ==
    /\ main.pc = "accept" /\ exhausted
    /\ main' = [main EXCEPT !.pc = "count", !.sockd = Failed]
    /\ UNCHANGED << shared, client_sockd, probe, worker, conn >>

\* requestCounter++ is a load and a store.
MainLoad ==
    /\ main.pc = "count"
    /\ main' = [main EXCEPT !.pc = "store", !.reg = requestCounter + 1]
    /\ UNCHANGED << shared, client_sockd, probe, worker, conn >>

MainStore ==
    /\ main.pc = "store"
    /\ requestCounter' = IF main.reg = hcRequest THEN 0 ELSE main.reg
    /\ main' = [main EXCEPT !.pc = "scan", !.reg = 0]
    /\ UNCHANGED << server, lock, bestServerport, client_sockd, probe, worker, conn >>

MainScan ==
    /\ Scans(main)
    /\ main' = [main EXCEPT !.scan = Scanned(@, @.i)]
    /\ UNCHANGED << shared, client_sockd, probe, worker, conn >>

MainPick ==
    /\ ScanDone(main)
    /\ bestServerport' = main.scan.port
    /\ main' = [main EXCEPT !.pc = "test"]
    /\ UNCHANGED << server, lock, requestCounter, client_sockd, probe, worker, conn >>

\* What is tested is the value stored, or what the prober has stored since.
\* Without a server the client is refused.
MainTest ==
    /\ main.pc = "test"
    /\ \E port \in {main.scan.port, bestServerport} :
          IF port = NoPort
          THEN /\ conn' = IF main.sockd = Failed THEN conn
                          ELSE [conn EXCEPT ![main.sockd].st = "closed"]
               /\ main' = [main EXCEPT !.pc = "accept", !.sockd = Free, !.scan = NoScan]
          ELSE main' = [main EXCEPT !.pc = "signal", !.scan = NoScan] /\ UNCHANGED conn
    /\ UNCHANGED << shared, client_sockd, probe, worker >>

\* pthread_cond_signal of the first thread, which always succeeds; then, with
\* no regard to what that thread is doing, the socket.
MainSignal ==
    /\ main.pc = "signal"
    /\ worker' = [worker EXCEPT ![0].pc = IF @ = "asleep" THEN "check" ELSE @]
    /\ main' = [main EXCEPT !.pc = "give"]
    /\ UNCHANGED << shared, client_sockd, probe, conn >>
MainGive ==
    /\ main.pc = "give"
    /\ client_sockd' = [client_sockd EXCEPT ![0] = main.sockd]
    /\ main' = [main EXCEPT !.pc = "accept", !.sockd = Free]
    /\ UNCHANGED << shared, probe, worker, conn >>

Main ==
    \/ MainAccept \/ MainAcceptFails \/ MainLoad \/ MainStore \/ MainScan \/ MainPick
    \/ MainTest \/ MainSignal \/ MainGive

-----------------------------------------------------------------------------
\* probeHealthcheck.

ProbeLock ==
    /\ probe.pc = "lock" /\ probe.i < numServers /\ lock[probe.i] = "none"
    /\ lock' = [lock EXCEPT ![probe.i] = "probe"]
    /\ probe' = [probe EXCEPT !.pc = "exchange"]
    /\ UNCHANGED << server, running >>

Unlocked == [lock EXCEPT ![probe.i] = "none"]
NextServer == [probe EXCEPT !.pc = "lock", !.i = @ + 1]

\* Mutant: the lock of a dead server is kept.
ProbeDeadKeepsLock ==
    /\ probe.pc = "exchange" /\ ("dead" \in env.faults \/ exhausted)
    /\ server' = [server EXCEPT ![probe.i].alive = FALSE]
    /\ probe' = NextServer
    /\ UNCHANGED << lock, running >>

\* No connection, or an answer that is not 200; nothing revives a server.
ProbeDead ==
    /\ probe.pc = "exchange" /\ ("dead" \in env.faults \/ exhausted)
    /\ server' = [server EXCEPT ![probe.i].alive = FALSE]
    /\ lock' = Unlocked /\ probe' = NextServer
    /\ UNCHANGED running

\* The seven words of a good answer.
ProbeGood ==
    /\ probe.pc = "exchange"
    /\ \E x \in env.answers :
          server' = [server EXCEPT ![probe.i] = [@ EXCEPT !.total = x[1], !.fail = x[2]]]
    /\ lock' = Unlocked /\ probe' = NextServer
    /\ UNCHANGED running

\* Fewer words: a NULL or unset pointer is read.  (If it happens to point to
\* something, this is ProbeDead or ProbeGood.)
ProbeShort ==
    /\ probe.pc = "exchange" /\ "short" \in env.faults
    /\ running' = FALSE
    /\ UNCHANGED << server, lock, probe >>

\* recv fails: the thread returns, and the lock is never released.
ProbeError ==
    /\ probe.pc = "exchange" /\ "error" \in env.faults
    /\ probe' = [probe EXCEPT !.pc = "gone"]
    /\ UNCHANGED << server, lock, running >>

ProbeRound ==
    /\ probe.pc = "lock" /\ probe.i = numServers
    /\ probe' = [probe EXCEPT !.pc = "scan", !.i = 0]
    /\ UNCHANGED << server, lock, running >>
ProbeScan ==
    /\ Scans(probe)
    /\ probe' = [probe EXCEPT !.scan = Scanned(@, @.i)]
    /\ UNCHANGED << server, lock, running >>

ProbePick ==
    /\ ScanDone(probe)
    /\ bestServerport' = probe.scan.port
    /\ probe' = [probe EXCEPT !.pc = "wait", !.scan = NoScan]
    /\ UNCHANGED requestCounter
ProbeWait ==
    /\ probe.pc = "wait"
    /\ requestCounter' = 0
    /\ probe' = [probe EXCEPT !.pc = "lock"]
    /\ UNCHANGED bestServerport

Probe ==
    /\ \/ (ProbeDead \/ ProbeGood) /\ Leak /\ UNCHANGED << bestServerport, requestCounter >>
       \/ /\ ProbeLock \/ ProbeShort \/ ProbeError \/ ProbeRound \/ ProbeScan
          /\ UNCHANGED << bestServerport, requestCounter, exhausted >>
       \/ (ProbePick \/ ProbeWait) /\ UNCHANGED << server, lock, running, exhausted >>
    /\ UNCHANGED << client_sockd, main, worker, conn >>

-----------------------------------------------------------------------------
\* handle_connection, bridge_loop and bridge_connections.

Goto(w, pc) == worker' = [worker EXCEPT ![w].pc = pc]

\* A socket is there; or the wait fails at once (nothing changes) or blocks,
\* where a signal that comes before it is on the condition variable is lost.
Check(w) ==
    /\ worker[w].pc = "check"
    /\ IF client_sockd[w] \notin {Free, Failed} THEN Goto(w, "connect")
       ELSE ~env.polls /\ Goto(w, "wait")
    /\ UNCHANGED << client_sockd, conn, running >>
Wait(w) ==
    worker[w].pc = "wait" /\ Goto(w, "asleep") /\ UNCHANGED << client_sockd, conn, running >>

Connect(w) ==
    /\ worker[w].pc = "connect"
    /\ worker' = [worker EXCEPT ![w] = [@ EXCEPT !.pc = "connected", !.port = bestServerport]]
    /\ UNCHANGED << client_sockd, conn, running >>

\* The port -1 is nobody's.
Refused(w) ==
    /\ worker[w].pc = "connected"
    /\ worker' = [worker EXCEPT ![w] = [@ EXCEPT !.pc = "close", !.port = NoPort]]
    /\ UNCHANGED << client_sockd, conn, running >>
Connected(w) ==
    /\ worker[w].pc = "connected" /\ worker[w].port # NoPort
    /\ worker' = [worker EXCEPT ![w] = [pc |-> "bridge", port |-> NoPort, left |-> Parts,
                                        ready |-> FALSE, sockd |-> client_sockd[w]]]
    /\ UNCHANGED << client_sockd, conn, running >>

\* select: the client first, then the server, else in the end the time limit.
Bridges(w) == worker[w].pc = "bridge" /\ worker[w].sockd # Failed
FromClient(w) == LET d == conn[worker[w].sockd] IN d.req = "sent" \/ d.gone
Asked(w) == conn[worker[w].sockd].req = "forwarded"

\* The socket had become -1: FD_SET of it is checked and aborts, or select, recv
\* or send fails.
BridgeNothing(w) ==
    /\ worker[w].pc = "bridge" /\ worker[w].sockd = Failed
    /\ \/ Goto(w, "close") /\ UNCHANGED running
       \/ running' = FALSE /\ UNCHANGED worker
    /\ UNCHANGED << client_sockd, conn >>

BridgeRequest(w) ==
    /\ Bridges(w) /\ FromClient(w)
    /\ IF conn[worker[w].sockd].req = "sent"
       THEN conn' = [conn EXCEPT ![worker[w].sockd].req = "forwarded"] /\ UNCHANGED worker
       ELSE Goto(w, "close") /\ UNCHANGED conn
    /\ UNCHANGED << client_sockd, running >>

\* A part of the response, or the end of the server's connection.  (A client
\* that is gone is met by BridgeRequest first, unless it goes in between.)
BridgeResponse(w) ==
    /\ Bridges(w) /\ ~FromClient(w) /\ worker[w].ready
    /\ IF worker[w].left > 0
       THEN worker' = [worker EXCEPT ![w].ready = FALSE, ![w].left = @ - 1]
       ELSE Goto(w, "close")
    /\ UNCHANGED << client_sockd, conn, running >>

\* Three seconds of silence.  Nothing catches SIGPIPE, should the client have
\* gone by the time of the send.
BridgeTimeout(w) ==
    /\ Bridges(w) /\ ~FromClient(w) /\ ~worker[w].ready
    /\ \/ Goto(w, "close") /\ UNCHANGED running
       \/ "hangup" \in env.faults /\ running' = FALSE /\ UNCHANGED worker
    /\ UNCHANGED << client_sockd, conn >>

\* close of what client_sockd holds by now, and its reset.
Close(w) ==
    /\ worker[w].pc = "close"
    /\ conn' = IF client_sockd[w] = Failed THEN conn
               ELSE [conn EXCEPT ![client_sockd[w]].st = "closed"]
    /\ worker' = [worker EXCEPT ![w] = [Unused EXCEPT !.pc = "reset"]]
    /\ UNCHANGED << client_sockd, running >>

\* Mutant: client_sockd keeps the socket.
ResetNothing(w) ==
    /\ worker[w].pc = "reset" /\ Goto(w, "check")
    /\ UNCHANGED << client_sockd, conn, running >>
Reset(w) ==
    /\ worker[w].pc = "reset"
    /\ client_sockd' = [client_sockd EXCEPT ![w] = Free] /\ Goto(w, "check")
    /\ UNCHANGED << conn, running >>

handle_connection(w) ==
    /\ \/ /\ \/ Check(w) \/ Wait(w) \/ Connect(w) \/ Connected(w) \/ BridgeNothing(w)
             \/ BridgeRequest(w) \/ BridgeResponse(w) \/ BridgeTimeout(w)
             \/ Close(w) \/ Reset(w)
          /\ UNCHANGED exhausted
       \/ Refused(w) /\ Leak
    /\ UNCHANGED << shared, main, probe >>

-----------------------------------------------------------------------------
\* Clients and servers.

Quiet == /\ main.pc = "accept" /\ \A k \in Client : conn[k].st # "waiting"
         /\ client_sockd[0] \in {Free, Failed} /\ worker[0].pc \in {"check", "asleep"}

ClientStep(k) ==
    /\ \/ /\ conn[k].st = "away" /\ (env.gentle => Quiet)
          /\ conn' = [conn EXCEPT ![k].st = "waiting"]
       \/ /\ conn[k].st = "open" /\ conn[k].req = "unsent" /\ ~conn[k].gone
          /\ conn' = [conn EXCEPT ![k].req = "sent"]
       \/ /\ "hangup" \in env.faults /\ conn[k].st = "open" /\ ~conn[k].gone
          /\ conn' = [conn EXCEPT ![k].gone = TRUE]
    /\ UNCHANGED << shared, client_sockd, main,
                    probe, worker, running, exhausted >>

\* The next part, or the end of the connection, becomes readable.
ServerStep(w) ==
    /\ Bridges(w) /\ Asked(w) /\ ~worker[w].ready
    /\ worker' = [worker EXCEPT ![w].ready = TRUE]
    /\ UNCHANGED << shared, client_sockd, main,
                    probe, conn, running, exhausted >>

Next ==
    /\ running /\ UNCHANGED env
    /\ \/ Main /\ UNCHANGED << running, exhausted >>
       \/ Probe
       \/ \E w \in Worker : handle_connection(w) \/ ServerStep(w)
       \/ \E k \in Client : ClientStep(k)

Spec == Init /\ [][Next]_vars

\* Threads run on; select and the health checks end.  A mutex that is free
\* over and over is got in the end: the prober holds the lock of one server
\* at a time and is busy with the network in between.
FairSpec ==
    /\ Spec
    /\ WF_vars(Main /\ UNCHANGED << running, exhausted, env >> /\ running)
    /\ SF_vars(MainScan /\ UNCHANGED << running, exhausted, env >> /\ running)
    /\ WF_vars(Probe /\ UNCHANGED env /\ running)
    /\ \A w \in Worker : WF_vars(handle_connection(w) /\ UNCHANGED env /\ running)

-----------------------------------------------------------------------------
\* Types; requestCounter stays below hcRequest, which main compares it with
\* for equality only, although the prober's reset may be overwritten by main.
ScanType(scan) ==
    scan.i \in 0 .. numServers /\ scan.port \in Server \cup {NoPort}
TypeOK ==
    /\ server \in [Server -> [alive : BOOLEAN, total : Nat, fail : Nat]]
    /\ lock \in [Server -> {"none", "probe"}]
    /\ bestServerport \in Server \cup {NoPort}
    /\ requestCounter \in 0 .. hcRequest - 1 /\ main.reg \in 0 .. hcRequest
    /\ client_sockd \in [Worker -> Client \cup {Free, Failed}] /\ exhausted \in BOOLEAN
    /\ ScanType(main.scan) /\ ScanType(probe.scan) /\ probe.i \in Server \cup {numServers}
    /\ \A w \in Worker : /\ worker[w].left \in 0 .. Parts
                          /\ worker[w].sockd \in Client \cup {Free, Failed}

\* A thread bridges and closes only sockets that are open, although main may
\* replace its client_sockd at any moment, or the -1 of an accept that failed:
\* a socket is never closed twice (its number may belong to another client by
\* then) nor given up in use, and a thread takes up no -1 of itself.
Usable(sockd) ==
    sockd # Free /\ IF sockd = Failed THEN exhausted ELSE conn[sockd].st = "open"
UsesOpenSockets ==
    TypeOK /\ \A w \in Worker :
        /\ worker[w].pc \in {"connect", "connected", "close"} => Usable(client_sockd[w])
        /\ worker[w].pc = "bridge" => Usable(worker[w].sockd)

\* determineBest returns a server that was alive when it was looked at, and of
\* those the first of the ones with the fewest requests and, among these, the
\* fewest failures, however the prober's updates come in between.
Ahead(x, y) ==
    \/ x[2].total < y[2].total
    \/ x[2].total = y[2].total /\ x[2].fail < y[2].fail
    \/ x[2].total = y[2].total /\ x[2].fail = y[2].fail /\ x[1] < y[1]
BestOfSeen ==
    \A who \in {main.scan, probe.scan} :
        LET alive == {x \in who.seen : x[2].alive}
        IN  IF alive = {} THEN who.port = NoPort
            ELSE \E x \in alive :
                    x[1] = who.port /\ \A y \in alive \ {x} : Ahead(x, y)

\* As long as clients come one at a time, no health check fails half way and
\* the threads poll, every client is answered or refused and its connection
\* closed; nobody waits for ever for the lock of a server.  The health checks
\* leave a descriptor open each: it is so until they have used up all of them.
Orderly == env.gentle /\ env.polls /\ env.faults \subseteq {"dead", "leak"}
EventuallyEnded ==
    \A k \in Client :
        conn[k].st = "waiting" /\ Orderly ~> (conn[k].st = "closed" \/ exhausted)
=============================================================================
