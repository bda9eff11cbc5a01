---------------------------- MODULE PageControls ----------------------------
(***************************************************************************)
(* The three independent parts of how page daemons are driven: the worker  *)
(* with its laundry thread, the out-of-memory killer and the swap-out      *)
(* daemon.  One of them runs, chosen at the start.                         *)
(***************************************************************************)
EXTENDS PageControl

CONSTANTS Domain, OomSeq, ProcLists, MaxExits,            \* see PageOom
          SwapProcs, Hz, TickMod, MaxAttempts, EarlyAttempts    \* see SwapDaemon

VARIABLES part, domains, vote, dom, proc, hopeless, exits,
          racct, req, ticks, lastrun, rss, vd

Oom == INSTANCE PageOom
Swap == INSTANCE SwapDaemon

ASSUME OomAssumption ==
    /\ Domain # {} /\ IsFiniteSet(Domain) /\ {OomSeq, MaxExits} \subseteq Nat
    /\ ProcLists \subseteq Seq([size : Nat, protected : BOOLEAN])
ASSUME SwapAssumption ==
    /\ SwapProcs \in Seq(Swap!ProcKind)
    /\ {Hz, TickMod, MaxAttempts, EarlyAttempts} \subseteq Nat

ownOomVars == << domains, vote, dom, proc, hopeless, exits >>
ownSwapVars == << racct, req, ticks, lastrun, rss, vd >>
vars == << part, ctlVars, ownOomVars, ownSwapVars >>

\* A part that does not run stays as it starts.
OomOff == Oom!OomInit({}, {<< >>})
SwapOff == Swap!SwapInit /\ ~racct

Init ==
    /\ part \in {"control", "oom", "swap"}
    /\ version \in IF part = "swap" THEN {10} ELSE {10, 11, 12}
    /\ IF part = "control" THEN ControlInit(version) ELSE ControlInit(10) /\ free = FreeMin
    /\ IF part = "oom" THEN \E ds \in SUBSET Domain \ {{}} : Oom!OomInit(ds, ProcLists) ELSE OomOff
    /\ IF part = "swap" THEN Swap!SwapInit ELSE SwapOff

InControl(A) == part = "control" /\ A /\ UNCHANGED << part, ownOomVars, ownSwapVars >>
InOom(A) == part = "oom" /\ A /\ UNCHANGED << part, ctlVars, ownSwapVars >>
InSwap(A) == part = "swap" /\ A /\ UNCHANGED << part, ctlVars, ownOomVars >>

Next == InControl(ControlNext) \/ InOom(Oom!OomNext) \/ InSwap(Swap!SwapNext)

\* Every thread runs.  A scan, or the pager, does not fail for ever; the pid
\* controller asks for pages some time.  As neither the part nor the version
\* changes, conditions on different ones share a disjunction.
Fairness ==
    /\ WF_vars(InControl(Worker) \/ InSwap(Swap!VmDaemon)
                  \/ InOom(\E p \in Oom!Procs : Oom!UnlockMap(p) \/ Oom!UnlockProc(p)))
    /\ WF_vars(InControl(LaundryWorker) \/ InSwap(Swap!Tick))
    /\ \A a \in Proc : WF_vars(InControl(Caller(a)))
    /\ SF_vars(InControl(\/ \E s \in PidOutputs \ {0} : Scan12(s)
                          \/ ScanInactive(0, 0, 1)))
    /\ SF_vars(InControl(\E n \in 1 .. TotalPages : ScanInactive(n, 0, 0)))
    /\ SF_vars(InControl(\E n \in 1 .. TotalPages : Launder(n)))
    /\ \A d \in Domain : WF_vars(InOom(d \in domains /\ Oom!OomDaemon(d)))
Spec == Init /\ [][Next]_vars /\ Fairness

-----------------------------------------------------------------------------
\* What each part asserts of its counters, the assertions of the laundry thread
\* among them.
TypeOK ==
    /\ part = "control" => ControlTypeOK
    /\ part = "oom" => Oom!OomTypeOK

\* See PageControl: no thread sleeps while there is work for it.
NobodySleepsOnWork == part = "control" => NoLostWakeup

\* See PageOom: the votes, the holds and the locks are accounted for.
OomConsistent == TypeOK /\ (part = "oom" => Oom!OomConsistent)

\* See PageOom: nobody kills before all daemons have failed.
KillsByQuorum == Oom!KillsByQuorum

\* Memory pressure is answered: who waits for pages gets some, a machine that
\* cannot free any kills a process, and a swap-out request is served.
Pressed(a) ==
    \/ part = "control" /\ Short(a)
    \/ part = "oom" /\ Oom!KillDue
    \/ part = "swap" /\ Swap!Unserved
Answered(a) ==
    \/ part = "control" /\ ~Short(a)
    \/ part = "oom" /\ Oom!SomebodyKilled
    \/ part = "swap" /\ Swap!Served
Progress == \A a \in Proc : Pressed(a) ~> Answered(a)
=============================================================================
