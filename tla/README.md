# A TLA+ verification of the programs in School_stuff

The repository is a collection of course work. This project models the parts
that carry state and logic of their own: the FreeBSD run queue and ULE scheduler
with changed queueing, three versions of the page daemon, the multi-threaded
HTTP server, the load balancer in front of it, the single-threaded servers, and
the shell.

## 1. Inventory

| part | source | state | operations |
|---|---|---|---|
| run queue | `Benchmark-tests-gitlab-asgn2/testkernel/kern_switch.c` | 64 tail queues, a status bit per queue, `td_rqindex` and `td_priority` of each thread, `kern_switch_choose` | `runq_add` (four algorithms), `runq_add_pri`, `runq_remove(_idx)`, `runq_choose(_fuzz, _from)`, the sysctl |
| ULE scheduler | `Benchmark-tests-gitlab-asgn2/sched_ule.c`, `kern_switch.c` | per cpu three run queues, calendar indices, load, `lowpri`, idle and interrupt flags; per thread state, priorities, cpu, mask, history | add, remove, choose, switch, sleep and wake, fork and exit, priorities lent and changed, bind, pin and affinity, steal, balance, migrate, clock, idle thread |
| page daemon | `misc-code/vm_pageout.c` (FreeBSD 12) | page queues, batch queue, `act_count`, busy and dirty bits, shortfalls, laundry requests, out-of-memory votes | inactive and active scan, launder, cluster, flush, wake-ups, OOM walk |
| its experiments | `misc-code/vm_pageout_test.c` (FreeBSD 11), `vm_pageout_test2.c` (FreeBSD 10) | the same, with markers in the queues; swap-out daemon | `vm_pageout_scan` with queue orders changed, page cache, `vm_daemon` |
| worker pool | `CSE130-v2/asgn2/httpserver.c` | `client_sockd` and `available` of each worker, `count`, two condition variables | accept, scan, assign, signal; take, release |
| request handling | same file | `httpObject` of each worker, the files, `healthcheck` and `hcfd`, one lock, two counters, log offset | read, process, respond, count, log |
| log records | same file | `log_string`, `lcount` | reserve an extent, hex dump |
| load balancer | `CSE130-v2/asgn3/loadbalancer.c` | server table with a lock each, best port, request counter, worker array | dispatch, probe, determine best, bridge |
| single-threaded servers | `CSE130-v2/asgn1/httpserver.c`, `CSE130-v1/asgn3/httpserver.cpp` | one message, kept from request to request; files | read, process, respond |
| shell | `CS111/assgn-1/myshell.c` | descriptors, redirection flags and names, two pipes | scan a line, redirect, pipe, fork, wait |
| the rest | other C++ servers, `dog`, benchmarks, C++ exercises, CE12 labs, browser snippets, notes | | |

How they interact. The scheduler calls the run queue with the thread-queue lock
held; cpus look at each other's queues without it and lock two at a time to move
a thread; the sysctl handler writes `kern_switch_choose` under no lock at all.
The page daemon shares the pages with every process that touches them, with the
pager and with its own laundry thread, and is woken by whoever runs short of
memory. In the server, `main` hands a socket to a worker through two plain
integers; workers share one mutex (request processing, log offset), and share the
counters, the `healthcheck` file and its descriptor `hcfd` partly outside it. The
load balancer is a client of the server: it reads the `healthcheck` file and
forwards connections to it.

What is hard. A sysctl write in the middle of `runq_add`; a thread stolen, bound
and woken at once; an idle cpu that goes to sleep while it is given work; a page
written to between the test of its dirty bit and its free; wake-ups that come too
early; votes taken back while the last one is cast; a lock-free hand-over; a
worker's state surviving from one client to the next; file operations split over
several system calls; log extents reserved before the record exists; counters
read while they are being changed; descriptors left open in a shell. The list,
line by line, is `hazards` in `PROJECT.json`.

What makes each part correct. Run queue: the status bits say which queues are
empty, every runnable thread is linked once and can be found, the chosen thread
is the one the algorithm promises, nobody starves in a queue. Scheduler: counts
and queues agree, no cpu sleeps on work, a thread is queued only where it may
run, and is run in the end. Page daemon: nobody's data is lost, the queues stay
whole, no page drops out of sight, pressure is answered, and a process is killed
only when all domains have failed. Pool: a connection has one owner, is served
while open, and is finished. Requests: files change and are read as a whole, every
response is counted once, log records are disjoint, every client is answered.
Balancer: sockets are used while open and closed once, the best server seen is
used, orderly clients are answered. Single-threaded servers: no request suffers
from the one before. Shell: a line runs as it is written and pipes end.

## 2. Modules

| module | models |
|---|---|
| `Runq` | the operations on a `struct runq` as operators, with the four placements of `runq_add` |
| `RunQueue` | one run queue under its lock: add, remove, take, priority changes, sysctl writes |
| `RunqAddSteps` | `runq_add` as four separate tests of `kern_switch_choose`, which is written at any time; compared step by step with `RunQueue` |
| `CpuSearch` | the recursive searches of the cpu topology, as a recursive function |
| `Tdq` | a cpu's `struct tdq`: three run queues, calendar, load, `lowpri`, notify, steal, with the run queue of `kern_switch.c` |
| `Ule` | the cpus, threads, interrupts, balancer and idle threads over `Tdq` and `CpuSearch` |
| `Interactivity` | history, priority and time slice of a thread, by itself |
| `VmPage` | external: page, object, pmap and page-queue operations, and everyone else who uses pages |
| `PageDaemon` | what the three versions share: clean, cluster, flush |
| `PageScan12`, `PageScan11`, `PageScan10` | the scans of each version; `MarkerScan` is what 10 and 11 share |
| `PageReclaim` | abstract: what a page daemon promises to the owners of memory |
| `PageDaemons` | one of the three over the same pages and users; refines `PageReclaim` |
| `PageControl`, `PageOom`, `SwapDaemon` | when the daemon and launderer run, sleep and are woken; votes and the OOM walk; the swap-out daemon |
| `PageControls` | one of those three, with their liveness |
| `Thresholds` | the limits of free memory; the integer square root |
| `Dispatcher` | `main` and the loop of `handle_task`, each access to `client_sockd` and `available` a step |
| `FileStore` | abstract: a PUT stores the body that was sent, a GET returns the file as a whole; less for a request that is cut |
| `Requests` | what a worker does with a connection, system call by system call where they interleave; refines `FileStore` |
| `LogFormat`, `LogRecord` | the length of a log record, and the loop of `snprintf` calls that builds it |
| `LoadBalancer` | `main`, prober, threads, clients and servers |
| `Servers` | the single-threaded servers in C and C++ |
| `Shell` | the shell's loop and its children, as descriptor tables |
| `Sequential` | the parts without concurrency, one chosen at the start, and the pure functions |
| `MC...` | values for the constants |
| `...Proofs` | the theorems of section 4 |

Correspondence. Names of variables and actions are those of the code where TLA+
allows it; `map` in `PROJECT.json` gives the lines of every definition. `pc` (or
`at`, `op`) stands for the place in a function. What a function does under one
hold of its locks is one step; where it drops them, or reads memory without any,
a step ends. A queue is a sequence; a draw of `random()` is a choice from a set.

- HTTP. A request is its method, name and Content-Length; `BAD` stands for every
  request the parser answers with 400. The content of a file is the number of the
  connection whose body it is, and a length; -1 marks a mixture.
- Run queue. `RunQueue.policy` is chosen in `Init` and never changes; it says how
  the sysctl is used and whether queued threads are demoted, so that one run can
  check what holds under each use. In the same way `env` selects a scene in `Ule`
  and `LoadBalancer`, `part` and `version` a program in the page daemon's modules.
- Conditions on a bad mutex. Both servers call `pthread_cond_wait` with the
  address of a pointer in place of a mutex (asgn2 line 334, asgn3 line 279), which
  is undefined: it fails at once (`polls`), or blocks.
- Races. `client_sockd` and `available` are plain ints written by two threads and
  compiled with `-O2`; two stores without a call between them are made in either
  order (`Stores`, `todo`). The counters that a healthcheck reads are read one by
  one in any order. `hcfd` is one variable for all workers: `close(hcfd)` may
  close the descriptor of another worker and leak the own one (`HcClose`).
- Strokes. A PUT closes its file twice (196 and 242), and a healthcheck may close or
  write a descriptor that another one has closed (116, 117). The number may belong to
  somebody else by then: a connection that `accept` has just returned
  (`Dispatcher.CloseAgain`, `struck`), or a file or connection in use
  (`Requests.HcWrite`, `HcClose`, `CloseAgain`). `Dispatcher` goes on after it;
  `Requests` ends there, since any file can be hit when the number is used again.
- Pages. `store` says what the backing store has of a page's data (`same`, `older`,
  `writing`, `lost`); `pmod` and `mapped` are the page table's view, `dirty` the
  page's. Users write, fault, wire, busy, free and terminate at any step, as often
  as `MaxNoise` allows.
- ULE. Left to chance: when a slice ends, how long ago a thread ran, and the
  priority its history earns (`Interactivity` shows that it is in its range).
- Shell. Descriptors are numbers handed out lowest first; a pipe has a read and
  a write end; children are their tables at `exec`.

## 3. Runs

| run | question | answer |
|---|---|---|
| `runq` | does the structure survive every order of calls; is a runnable thread linked; do the algorithms keep their order? | yes: `QueuesConsistent` always; `RunnableIsLinked` while only 1 to 4 are written to the sysctl; of `OrderKept`, `NeverPlacedTooLow` with 1 and 2, demotions included, `UserQueuesSorted` and `BestFirst` with one algorithm and no demotion |
| `runq_small` | does a queue of equals starve a thread when two cpus prefer their own; are the four tests of `runq_add` one atomic choice? | not a thread that has run before, while a new one may be passed over once it is first (`EventuallyChosen`); yes, but for a second link and a return without one, which only a sysctl write during the call makes possible (`ImplementsAtomicAdd`) |
| `ule` | do counts, queues and threads agree while cpus steal, balance, migrate, wake, bind, restrict, lend; does a cpu sleep on work; is a thread queued where it may not run? | they agree (`QueuesConsistent`); no (`NoIdleWithWork`, `PlacedWhereAllowed`) |
| `ule_live` | does the calendar starve a batch thread behind those that keep coming? | no (`EventuallyRuns`) |
| `pageout` | do the scans of all three versions keep everybody's data while processes write, fault, wire and free? | yes, but for pages the pager refuses with `VM_PAGER_BAD`, whose changes the code gives up: `NoSilentLoss`, `QueuesConsistent`, `NoStrayPage`, `ClusterProtected`; they implement `PageReclaim` (`ReclaimSpec`); no deadlock |
| `pageout_ctl` | can a wake-up be lost, an OOM kill come without its quorum, a vote or a hold leak; is pressure answered? | no; yes (`Progress`) |
| `pool` | can the lock-free hand-over mix up connections? | not the hand-over: one owner, only open connections are served (`SingleOwner`), a worker is not disturbed. But a file that is closed twice (242, 117) can take a connection with it, and after that a closed one may be served: `SingleOwner` holds until then. The race at line 390 loses connections, and at most as many as workers are retired (`LossRetiresWorker`, `RetiredForever`), with strokes or without. A polling worker finishes what it was given |
| `requests` | are files replaced by what was sent and returned as a whole, log records disjoint, counters right? | yes, until a stray close or write has hit something. When a body comes short or a call fails, the file is lost, or zeros are sent under the length announced: `FileStore` allows this for that request, and no more |
| `requests_live` | is every connection answered and closed? | yes, if clients send their bodies or close, unless a descriptor is closed under its owner |
| `requests_stale` | is a file truncated only when asked for? | violated: a connection closed without a request repeats the worker's last one |
| `balancer` | are sockets used while open and closed once, the best server seen chosen, orderly clients answered? | yes, whatever the prober does meanwhile; orderly clients until the descriptors have run out |
| `sequential` | do the records fit their extent; do requests suffer from earlier ones; do lines run as written and pipes end; are priorities in range; are the pure functions right? | yes, where the code can promise it (see below) |

`requests_stale` is the finding of `PROJECT.json`. A consistency invariant that
begins with `TypeOK` (`QueuesConsistent`, `OomConsistent`, `UsesOpenSockets`)
also checks the types.

What the models show beside the properties. Each of these is a behaviour of the
code that a model has; the properties are stated for what the code can promise.

- `kern_switch.c`. A sysctl write between two tests of `runq_add` links a thread
  twice or never (line 405): `LinksAgain` and `ReturnsUnlinked` of `RunqAddSteps`.
  A second link overwrites the thread's links and leaves two broken tail queues,
  which are not followed further. A value outside 1..4 links a thread nowhere (487).
  A forked thread (`NOCPU`, `sched_ule.c:2246`) that stands first is passed over for
  ever when, with fuzz 2, each cpu always finds a thread of its own behind it.
- `sched_ule.c`. When a queued thread is demoted and then moved away, `lowpri` of
  an idle cpu stays what it was (2596). A sleep of about 2^22 ticks wraps
  `slptime`. `sched_interact_fork` lets a history exceed `SCHED_SLP_RUN_FORK`
  almost twice over. The invariants do not depend on these.
- Page daemon. A page that the pager answers `VM_PAGER_BAD` for (outside the range
  of its object) is cleaned though nothing was written, "so the changes will be lost
  if the page is reclaimed" (`vm_pageout.c` 489 to 501): its `store` is then `lost`,
  until a process writes to it again. `NoSilentLoss`, `PageReclaim` (`refused`) and
  the theorems allow this one loss and no other. A pending background request masks
  a shortfall (1583); with two domains out-of-memory votes need not coincide (1618),
  so `Progress` is about daemons that have all failed for good; the laundry worker
  of version 12 can read `last_target` before it is set. On small memories the
  wakeup threshold is below `v_free_min`, though the comment at
  `vm_pageout_test.c:1907` says 10% above it: in version 12 for a minimum of 46 or
  47 pages, before for 46 to 49, 78, 79 and 89. `FunctionsRight` asks for it from 48
  and 90 on.
- Server of asgn2. `main` may wait for ever though a worker is available (515).
  A healthcheck may report more failures than requests (116). A PUT body is read
  under the lock, so one silent client stops everybody (188). After one status 500
  a worker answers every connection with 500 (69). The second close of a PUT's file
  (242) or of `hcfd` (117) can close a connection just accepted, or another worker's
  file. A GET whose second `open` or whose `read` fails (312) still sends as many bytes
  as it has announced, of zeros or of what the buffer held. Errors of `open` other than
  `EACCES` and `ENOENT` lead to a response with status 0. The log of a PUT re-reads
  the file after the lock was released (357). `log_string` is shorter than the
  record of a file of some 9,500 bytes (368).
- Load balancer. All connections go to `parallels[0]`, since
  `pthread_cond_signal` returns 0 (404): a second client overwrites the socket of
  the first, which is lost. A thread that blocks misses a signal that comes before
  the store, so `EventuallyEnded` is about polling threads and clients that come one
  at a time. A receive error leaves a server locked (232); a short answer crashes
  (258); a server once down is never used again (223); a timeout sends 500 into
  the middle of a response (164); neither the connections of the
  prober (221) nor those opened at start-up (349) are ever closed, nor is the socket of
  a connect that fails (63 to 81). When that has used up the descriptors, `accept`
  returns -1, which is handed on like a socket (389, 405): it overwrites the one that
  thread 0 is serving, and `select` on it fails or aborts.
- Single-threaded servers. In C, the status of an earlier request can stay in force
  and an empty connection after a PUT truncates the file again, so
  `AnsweredForItself` is about requests that arrive; `content_length` bytes are
  written whatever was read; after one failure every request is answered with 500
  (36). In C++, a name is refused after its file has been
  created or truncated, and a HEAD empties the file; the file stays open (112 to 127),
  so that after enough such names no file can be opened and every request is refused
  with 400. `AnsweredForItself` has these two cases (`Spoilt`): it asks of a spoilt
  server only that it refuses and changes no file.
- Shell. The last stage of a pipe runs with its output in a pipe nobody reads;
  `a | b ; c` gives `c` the exhausted pipe; `a | b < f` reads the pipe, not `f`;
  `a < f | b` starts again at the first word and crashes; the parent waits for the
  writer before it starts the reader; descriptors of a pipe and of files stay open
  in the parent until it runs out of them. `RunsAsWritten` is about lines with
  one kind of separator, `;` or `|`, after any lines before.

Bounds and why they are enough.

- `runq`: three threads (head, middle and tail of a queue, and two queues at
  once), four priorities: an interrupt one, two of one user queue, and a kernel
  one behind them; draws that hit a kernel priority, the user queue and the last
  queue; seven policies. Threads are symmetric. `runq_small`: three threads of one
  priority, two cpus, fuzz 2; two threads for the steps of `runq_add`.
- `ule`: two cpus (every lock pair, a thief and its victim) in three topologies,
  two or three threads, and eleven scenes of the actions that compete for the
  same thread; two queue indices instead of 64, so that queues are shared and
  the calendar wraps. `ule_live`: one cpu, three batch threads of two priorities,
  a calendar of four slots.
- `pageout`: two neighbouring pages of one object (a cluster has two ends), a
  daemon and a launderer, batches of two, one interference of others at any step,
  six scenes at the start (versions 10 and 12 launder two pages together for files
  only; with swap space, one page beside others). With one page a cluster has no
  neighbour, and with two the batch is full and the marker has pages on both
  sides.
- `pageout_ctl`: two pages, of which two should be free; two domains (a quorum
  is more than one); two processes of different size; one vote sequence of two.
- `pool`: three workers (the rescan from worker 1 differs from a scan from 0 and
  the last worker is another one), three connections on two descriptor numbers, so
  that a number is used again while a worker is still to close it, one failing accept,
  both values of `polls`. With one worker `Rescan` drops a connection
  without retiring a worker; `LossRetiresWorker` is about two or more.
- `requests`: two workers, three connections, so that one worker serves a second
  client while the other is anywhere; a PUT of 21 bytes (one line of the dump and
  a byte) and one without Content-Length; descriptors for two leaks. Workers are
  symmetric. `requests_live` has no symmetry and a smaller set of requests.
- `balancer`: two servers (a better and a worse), two threads of which the code uses
  one, two clients, a probe after two requests, five scenes, one of which runs out
  of descriptors. When that happens is left to chance (any leak may be the last).
- `sequential`: records of 0 to 101 bytes; three requests in a row with bodies of
  none, one and more than two buffers; two descriptors, which two refused names use
  up; three lines of twenty with the state that stays between them; seven steps of a
  history in which 20-bit ticks wrap; four cpus with three topologies and all loads
  from 0 to 2; square roots around the limits of 16 and 32 bits; memories of 10 to
  100,000 pages.

Deadlock is checked for the run queue, the scheduler and the page daemons. The
servers, the balancer and the shell may stop when their bounded number of clients or
lines has been served, so their runs do not check it.

Fairness.

- `MCRunqSmall.SmallSpec`: each cpu keeps asking for a thread, as the idle loop
  and the clock do.
- `Ule.FairSpec`: code that has started goes on, a thread that must be switched out
  returns to user mode, and clock interrupts keep coming. It is weak and strong
  fairness with the enabling conditions written out.
- `PageControls.Fairness`: every thread runs, a scan and the pager do not fail for
  ever (strong: they may fail any finite number of times), holders let go of locks.
- `Dispatcher.FairSpec`: `main` and the workers run when they can; nothing is
  assumed of spurious wake-ups, and clients need not connect.
- `Requests.FairSpec`: workers run; `FairSpecBodies` adds that a client that
  announced a body sends it or closes. The mutex is weakly fair only: with finitely
  many connections a worker cannot be overtaken for ever.
- `LoadBalancer.FairSpec`: main, prober and threads run; `main` gets a server's
  lock in the end although the prober takes it again and again (strong). Nothing is
  assumed of how long the descriptors last; `EventuallyEnded` allows for their end.

## 4. Proofs

Checked by TLAPS for every value of the constants that satisfies the named
assumptions of the modules. Of each module: what is proved, which invariant is
inductive, and why what is wanted is not.

- `RunQueueProofs`. `StructureHolds` (types, `QueuesConsistent`) and its half
  `RunQueueTypesHold`: what is on the queues is runnable, linked once and found
  through `td_rqindex`. `Good` is inductive as it stands; the work is in what
  inserting into and removing from a sequence does (`InsertAtProperties`,
  `RemoveAtProperties`). `NoThreadIsLost` (`RunnableIsLinked`) needs that the value
  of the sysctl in force is one of the four. `OrderHolds` (`OrderKept`): which
  queue a thread is on does not say where it belongs once its priority has
  changed, so `OrderInv` adds the index each algorithm has given it (`Placed`), that
  the sorted queues are sorted, and, for algorithms 1 and 2, that the index is
  never beyond the priority, demoted or not. `AddIsAtomic` (`ImplementsAtomicAdd`):
  every step of `runq_add` made of its four tests, with the sysctl written at any
  moment, is a step of `RunQueue`, linearised at the first link, or none, except a
  second link and a return without one in a call during which the sysctl was written.
  Most links are followed by the tests that remain, so the invariant `StepsInv` says
  that a call without a write has linked its thread exactly if the test of the
  algorithm in force is behind it: a test that succeeds finds the thread unlinked,
  and the last test that fails with the thread unlinked has met a value that names
  no algorithm. Assumed:
  `Mode` has the default value 1, with which `kern_switch_choose` starts.
- `DispatcherProofs`. `HandOverIsSafe` (`SingleOwner`), `ServingIsUndisturbed`,
  `RetirementIsFinal`. Main assigns to a worker whose flag it has read earlier, and
  the worker's own stores are still to come: `IInv` adds that a busy worker is
  unavailable until its release has stored `available`, that main's choice stays
  free until it is taken, and, until a stray close has hit one, that a closed
  connection is nobody's but the releasing worker's. `EachLossCostsAWorker`
  (`LossRetiresWorker`) compares the sizes of two sets, whatever strokes there have
  been: the invariant `Charged` says that there is an injection from lost
  connections to retired workers, and each step that loses a connection extends it.
  It assumes more than one worker: alone, a worker is not retired.
- `RequestsProofs`. `LogAndCounters`, `CountersAddUp` (`CountersMatch`),
  `RequestsTypesHold`: `IInv` adds mutual exclusion, that everything reserved or
  written lies below `offset` and apart from everything else (`Extents`, which rests
  on `WrittenFits`), and how far the counters are ahead of the responses between
  counting and sending (`Counting`). `FilesAreWhole`: `Requests` implements
  `FileStore`. Every step is a put, a get or a stutter: the request in force
  is the one that was asked for (`Asked`), so that a PUT whose body arrives stores what
  was sent (`WrittenAsAsked`) and a cut one no more than was announced; the length a GET
  announces is still that of the file when it is sent, and a file whose first `open`
  failed for want of descriptors is not opened by the second either (`Lengths`).
- `SequentialProofs`. Servers: `EachForItself` (`AnsweredForItself`) and
  `NothingIsLost` (`BodiesWhole`); the invariant says of each place in the code
  which part of the body has been read and stored, and of a request that found the
  server spoilt (`conn.spoilt`) that it is on its way to be refused. History:
  `HistoryIsBounded`; the sum of run and sleep time alone is not inductive, since
  20-bit and 32-bit counters wrap, so `Kept` bounds ticks by the time that passed.
  `PriorityIsInRange`: the score is computed with truncating divisions from
  any such history. Log record: `RecordFits`, for every file length the loop
  writes at most what `totallen` reserves and exactly `WrittenLen`; the loop is a
  state machine, so the induction over the length is the one over its steps.
  Shell: `PipesComeToAnEnd` (`EndOfInputComes`): no command inherits the write end of
  the pipe it reads; `Writes` says that the one write end open is that of the
  command under way. Assumed (`ServersAssumption`, `HistoryAssumption`,
  `ShellAssumption`): requests are of the four kinds, 22 `hz` in fixed point fit an
  int, there is a longest line.
- `LoadBalancerProofs`. `SocketsAreOpen` (`UsesOpenSockets`): main owns what it has
  accepted and not handed over, only thread 0 is ever handed a socket, and a -1 is
  handed over only once descriptors have run out (`MainFailed`, `exhausted`).
  `BestServerIsChosen` (`BestOfSeen`): the registers of `determineBest` hold the
  counters of the server they stand for, though the prober changes them meanwhile.
  Assumed of the servers (`BalancerAssumption`): health checks answer with two
  natural numbers.
- `PageControlsProofs`. `NobodyOversleeps` (`NobodySleepsOnWork`): once the worker
  has cleared `vm_pageout_wanted`, whoever sets it is still to notify it
  (`NotifierComes`). `VotesAndHoldsCount` (`OomConsistent`) and `QuorumFirst`
  (`KillsByQuorum`): the vote counter is the number of domains that have voted plus
  those about to take their vote back, and a process is held as often as daemons
  point at it; `Settled` ties both to the place of each daemon. Sums are
  cardinalities of sets, so that no induction over sequences is needed.
- `UleProofs`. `CountsHold` (`QueuesConsistent`), `PlacesHold`
  (`PlacedWhereAllowed`), `NoCpuSleepsOnWork` (`NoIdleWithWork`), `UleTypes`
  (`TypeOK`). None of the properties is inductive:
  between two locks a thread is on no queue, and whether it is still counted
  depends on which function its cpu is in the middle of. The invariant `Full` says
  for each cpu which thread it answers for: a cpu that runs its thread owns it, one
  in `sched_add` or `sched_switch_migrate` owns the thread it moves, which is to be
  queued where it may be, one in `tdq_trysteal` owns none (`Owner`), and no two
  cpus own the same (`Others`); every queue holds exactly the threads that say so,
  and `ts_flags` says of a queued thread whether it counts as transferable
  (`InPlace`). Inside a step, while cpu `c` is at work, `Good(k, c, n)` holds: its
  load is `n` more than its queued threads. Entering a function takes `c` out of
  `Full`, each operator of `Tdq` and `Ule` keeps `Good` or shifts `n`, and leaving
  it puts `c` and the threads in its hands back. Counts are cardinalities of sets.
  For `NoCpuSleepsOnWork` the invariant also says of every cpu what it is told by
  (`Alert`): from the store of `cpu_idle` until the cpu is awake again the flag is
  set, an IPI marked as pending is on its way, and a cpu that sleeps has an interrupt
  coming or no thread of a better priority than the idle thread's (`Rests`).
  A thread just queued on another cpu is exempt until `tdq_notify` has seen to it;
  the cpu that is on its way to sleep has either looked at the load after that, or
  `tdq_notify` has seen `cpu_idle`.
  Assumed (`ScenesAssumption`): cpus and threads are finite, the groups of the
  topology form a tree, priorities and masks that are given are priorities and
  masks. `cpu_search` relies on the tree, since it descends from a group to those
  below it, and `sched_pickcpu` on the nesting, since it takes the widest group
  around a cpu.
- `PageDaemonsProofs`. All three versions, any number of pages, objects and threads,
  any sizes of batches and clusters. `LossIsNeverSilent` (`NoSilentLoss`),
  `ClusterHolds` (`ClusterProtected`), and `TakenIfSavedOrRefused`, an action
  property that is the proved part of what `PageReclaim` promises: a page leaves its
  object only when nobody has it busy or held (in version 12: or wired), and its
  data is saved, its object dead, or the page refused by the pager. What makes these
  hard is that a thread looks at a page under two locks, gives one or both up, and
  then acts. The inductive invariant `IInv` says, for every place of the code, what
  the thread may still rely on (`Sees`): with both locks, that the page is in the
  object, not busied or pinned, and, once it has been decided on, clean or unmapped;
  with neither, only that it was valid; of the pages of a cluster, that they are
  idle, valid and, before the pager has them, protected, and of those the pager has,
  that they stay busy and unwritable. `PageSound` relates the dirty bits of a page
  to those of its mappings, and `ThreadSound` a thread's place to its locks. No two
  threads hold the lock of one object or wait for the pager with the same page. The
  proof is about kinds of steps first: queue operations keep the data of pages
  (`Same`), what processes do at any moment is calm (`Calmly`: it takes mappings and
  pins away and sets modified bits, and no thread relies on the contrary), and a
  page changes otherwise only by a step that needs a lock nobody else has. Each
  action then leads to `Good`, which is `IInv` again and nothing taken wrongly.
  Assumed (`ScenesAssumption`): the pages a scene begins with satisfy `PageSound`.
- All of them. Facts about division, least elements and sequences are proved where
  they are used; `Induction` is the library's induction over the naturals said of a
  set instead of an operator (proved from the existence of least elements), since
  an operator parameter cannot be instantiated here.

Only model-checked:

- liveness, which the provers do not reach: `EventuallyRuns`, `Progress`,
  the properties of `runq_small`, `pool`, `requests_live` and `balancer` that
  assume fairness;
- the page daemons' `QueuesConsistent` and `NoStrayPage`: a page is taken off a queue
  by `SelectSeq` and found by its place in the sequence, and what `SelectSeq` keeps is
  an induction over the sequence that the provers cannot be given;
- the refinement of `PageReclaim` by `PageDaemons` as a whole: in versions 10 and 11
  that no wired page is taken rests on the queues' contents, since a wired page is
  on none. `TakenIfSavedOrRefused` is what does not need them;
- `RunsAsWritten` of the shell, which compares with a recursive reading of the line,
  and `FunctionsRight`, whose functions are recursive (`cpu_search`, `isqrt`) or
  compared with a reference over bounded inputs.

## 5. What is left out

- Run queue and ULE: statistics, tracing, the sysctls that only print; topology
  discovery; `sched_pctcpu` as reported to users; processors that come and go.
- Page daemon: the pid controller is a choice of its output; `uma_reclaim` and
  the low-memory handlers; start-up of the kernel threads; reservations and NUMA
  policy. The two queue scans do not run in the same model as the control of when
  they run: `PageControl` takes what a scan frees as a choice.
- Server of asgn2: socket set-up and options; the text of requests and responses.
  `Requests` takes the stack that holds the `httpObject`s to be zero,
  Content-Length not to be negative, the first line of a request to have three
  words, and bodies to fit the buffer (a longer one is read and written in rounds by
  the same calls). After `recv` returns -1 the buffer still holds the previous
  request or body; the model treats it like an empty receive. A write to a closed
  client, which would raise SIGPIPE, is not modelled. Only leaked descriptors count
  against `FdLimit`. The model ends with the first close or write that hits a
  descriptor of another (`struck`); what that does to the other request, a failing
  call, is among the outcomes its steps have anyhow. `count` is kept modulo
  `threadNum`; after 2^31 connections it would be negative and index before the array
  (520), which no model reaches.
- Load balancer: option parsing; the bytes of requests and responses; what the
  servers do is external, and the server of asgn2 is not composed with it: its
  healthcheck answers are a choice.
- Shell: the lexer; what the commands do; signals.

Not modelled: `CSE130-v1/asgn1` connects a socket it listens on and exits, and
`CSE130-v1/asgn2` ends after printing its first request; `dog` and the benchmarks
have no state of their own; the C++ exercises, CE12 labs and browser snippets are
small sequential programs or fragments. The other `kern_switch` files are earlier
stages of the two that are modelled. See `components` in `PROJECT.json`.

## 6. What could come next

What is modelled covers the parts of the repository that keep state, and what is
proved covers the safety properties of every concurrent part. What is left to prove
are the contents of the page queues (`QueuesConsistent`, `NoStrayPage`), and with them
the whole refinement of `PageReclaim`.
