----------------------------- MODULE Sequential -----------------------------
(***************************************************************************)
(* What runs by itself: the log records of asgn2's server, the single-     *)
(* threaded servers, the shell, the history of a thread in ULE, and the    *)
(* pure functions of the schedulers and the page daemons.  One of these    *)
(* parts is chosen at the start; the others stay as they start.            *)
(***************************************************************************)
EXTENDS LogRecord, Sequences, FiniteSets, FiniteSetsExt

CONSTANTS
    File, kind, Request, Nothing, MaxConn, FdLimit, Buffer, \* see Servers
    Lines, MaxLines, MaxFd,                                 \* see Shell
    hz, stathz, Width, Delay, Nice, Interact, Ran, MaxSteps, \* see Interactivity
    UintDigits,                                             \* see Thresholds
    Inputs                                                  \* of the functions

VARIABLES
    part, input,
    which, files, message, errno, at_server, conn, answer, before, broken, leaked, running,
    shell_line, lines, args, at, flag, file, fdPipe1, fdPipe2, fd, child, ran, at_shell,
    th, overslept, steps

Srv  == INSTANCE Servers WITH pc <- at_server
Sh   == INSTANCE Shell WITH line <- shell_line, pc <- at_shell
Hist == INSTANCE Interactivity
Cpus == INSTANCE CpuSearch
Mem  == INSTANCE Thresholds

ASSUME ServersAssumption ==
    LET Req == [method : {"GET", "PUT", "HEAD", "BAD"}, name : File, len : Nat] IN
    /\ Request \subseteq Req /\ Nothing \notin Req
    /\ MaxConn \in Nat /\ FdLimit \in Nat /\ Buffer \in Nat \ {0}

\* Standard input, output and error exist; the array of tokens bounds a line.
ASSUME ShellAssumption ==
    /\ MaxFd \in Nat /\ MaxFd >= 2 /\ Lines \subseteq Seq(STRING)
    /\ \E l \in Lines : \A m \in Lines : Len(m) <= Len(l)

\* An int holds the ticks of a history, and twice as many.
ASSUME HistoryAssumption ==
    /\ hz \in Nat /\ hz >= 2 /\ stathz \in Nat /\ MaxSteps \in Nat
    /\ 2 ^ Width \in Nat /\ 2 ^ Width = 2 * 2 ^ (Width - 1)
    /\ 2 ^ (Width - 1) \in Nat /\ 22 * hz * Hist!SHIFT <= 2 ^ (Width - 1)
    /\ Delay \subseteq Nat /\ Ran \subseteq Nat
    /\ Nice \subseteq -20 .. 20 /\ Interact \subseteq Int

logVars == vars
srvVars == << which, files, message, errno, at_server, conn, answer, before, broken, leaked,
              running >>
shVars  == << shell_line, lines, args, at, flag, file, fdPipe1, fdPipe2, fd, child, ran, at_shell >>
thVars  == << th, overslept, steps >>
seqVars == << part, input, logVars, srvVars, shVars, thVars >>

Some(set) == CHOOSE x \in set : TRUE
LogOff   == /\ original_length = Some(Lengths) /\ line = Some(LineLengths)
            /\ method = "HEAD"
SrvOff   == which = "c" /\ message = [req |-> Nothing, status |-> 0, content_length |-> 0]
HistOff  == th = [t \in {"parent", "child"} |-> Hist!Gone]

SeqInit ==
    /\ part \in {"log", "servers", "shell", "history", "functions"}
    /\ (part # "log" => LogOff) /\ Init
    /\ (part # "servers" => SrvOff) /\ Srv!Init
    /\ Sh!Init
    /\ IF part = "history" THEN Hist!Init ELSE HistOff /\ overslept = FALSE /\ steps = 0
    /\ IF part = "functions" THEN input \in Inputs ELSE input = [f |-> "none"]

InLog(A)     == part = "log" /\ A /\ UNCHANGED << srvVars, shVars, thVars >>
InServers(A) == part = "servers" /\ A /\ UNCHANGED << logVars, shVars, thVars >>
InShell(A)   == part = "shell" /\ A /\ UNCHANGED << logVars, srvVars, thVars >>
InHistory(A) == part = "history" /\ A /\ UNCHANGED << logVars, srvVars, shVars >>

SeqNext ==
    /\ InLog(Next) \/ InServers(Srv!Next) \/ InShell(Sh!Next) \/ InHistory(Hist!Next)
    /\ UNCHANGED << part, input >>

SeqSpec == SeqInit /\ [][SeqNext]_seqVars

-----------------------------------------------------------------------------
\* See Servers: no request suffers from one before, and bodies are whole.
AnsweredForItself == Srv!AnsweredForItself
BodiesWhole       == Srv!BodiesWhole

\* See Shell: lines run as they are written, and pipes come to an end.
RunsAsWritten   == Sh!RunsAsWritten
EndOfInputComes == Sh!EndOfInputComes

\* See Interactivity: the priority is in its range and the history bounded.
PriorityInRange == Hist!PriorityInRange
HistoryBounded  == Hist!HistoryBounded

\* isqrt rounds down.
RootRight(n) == LET r == Mem!isqrt(n) IN r * r <= n /\ n < (r + 1) * (r + 1)

\* The cpu that is found is eligible and at the end of a path on which no
\* group has a sibling with an eligible cpu and less load, and if a cpu is
\* eligible one is found.
SearchRight(x) ==
    LET Load(g) == MapThenSumSet(LAMBDA c : x.load[c], x.topo[g].mask)
        able    == {g \in DOMAIN x.topo : x.topo[g].mask \cap x.able # {}}
        found   == Cpus!cpu_search(x.topo, Cpus!TOP,
                        [c \in DOMAIN x.load |-> Cpus!Leaf(c, x.load[c], c \in x.able)], x.sign)
    IN  /\ found \subseteq x.able
        /\ found = {} <=> x.able = {}
        /\ \A c \in found, p \in DOMAIN x.topo : \A g, h \in x.topo[p].kids \cap able :
              c \in x.topo[g].mask => x.sign * Load(g) <= x.sign * Load(h)

\* The limits of free memory are in the order that the daemons rely on
\* (PageControl assumes it).  The wakeup threshold is above the minimum only
\* from some size of memory on: a minimum of 48 pages in version 12, 90 before.
LimitsRight(x) ==
    LET m == CASE x.version = 12 -> Mem!Limits12(x.machine, x.pages, x.free)
               [] x.version = 11 -> Mem!Limits11(x.pages, x.free)
               [] x.version = 10 -> Mem!Limits10(x.pages, x.free)
        b == m.basic
    IN  /\ b.free_severe < b.free_min /\ b.free_min < b.free_target
        /\ b.free_min >= (IF x.version = 12 THEN 48 ELSE 90) => b.free_min <= m.wakeup_thresh
        /\ m.wakeup_thresh <= b.free_target
        /\ b.inactive_target <= x.free \div 3 /\ m.background_launder_target >= 0

\* A quantum that is read and written back does not change, and a slice is
\* "no less than sched_slice_min" and no more than what was asked for.
SliceRight(x) ==
    LET slice == Hist!SetQuantum(x.rate, x.new_val) IN
    /\ Hist!SetQuantum(x.rate, Hist!QuantumOf(x.rate, slice)) = slice
    /\ Hist!tdq_slice(slice, x.sysload) \in Hist!sched_slice_min(slice) .. slice

\* The functions do what their comments say, and the record that was written
\* has the length that the module Requests takes for it.
FunctionsRight ==
    /\ WrittenIsWrittenLen
    /\ part = "functions" =>
          CASE input.f = "isqrt"      -> RootRight(input.n)
            [] input.f = "cpu_search" -> SearchRight(input)
            [] input.f = "limits"     -> LimitsRight(input)
            [] input.f = "slice"      -> SliceRight(input)
=============================================================================
