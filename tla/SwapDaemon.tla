----------------------------- MODULE SwapDaemon -----------------------------
(***************************************************************************)
(* The swap-out daemon of version 10: requests that wake it at most once a *)
(* second, and its walk over the processes, which unmaps what they have in *)
(* memory beyond their limits.                                             *)
(***************************************************************************)
EXTENDS Integers, Sequences, FiniteSets

CONSTANTS
    SwapProcs,      \* the list of processes: their kinds, see ProcKind
    Hz,             \* ticks in a second
    TickMod,        \* ticks wrap
    MaxAttempts,    \* 10
    EarlyAttempts   \* 8: up to here a quarter of a process at most

ProcKind == [skip : BOOLEAN, inmem : BOOLEAN, limit : Nat, avail : Nat, rss : Nat]

VARIABLES
    racct,          \* RACCT is compiled in
    req,            \* vm_pageout_req_swapout
    ticks, lastrun,
    rss,            \* vmspace_resident_count of each process
    vd              \* the daemon

swapVars == << racct, req, ticks, lastrun, rss, vd >>

SwapInit ==
    /\ racct \in BOOLEAN
    /\ req = {} /\ ticks = 0 /\ lastrun = 0
    /\ rss = [i \in DOMAIN SwapProcs |-> SwapProcs[i].rss]
    /\ vd = [pc |-> "top", flags |-> {}, cur |-> 0, attempts |-> 0, again |-> FALSE]

Tick ==
    /\ ticks' = (ticks + 1) % TickMod
    /\ UNCHANGED << racct, req, lastrun, rss, vd >>

\* vm_req_vmdaemon
Request(r) ==
    LET due == ticks > lastrun + Hz \/ ticks < lastrun IN
    /\ req' = req \cup {r}
    /\ lastrun' = IF due THEN ticks ELSE lastrun
    /\ vd' = IF due /\ vd.pc = "asleep" THEN [vd EXCEPT !.pc = "take"] ELSE vd
    /\ UNCHANGED << racct, ticks, rss >>

\* The daemon sleeps before it looks; with RACCT for a second at most.
FallAsleep ==
    /\ vd.pc = "top"
    /\ vd' = [vd EXCEPT !.pc = "asleep"]
    /\ UNCHANGED << racct, req, ticks, lastrun, rss >>
WakeUp ==
    /\ vd.pc = "asleep" /\ racct
    /\ vd' = [vd EXCEPT !.pc = "take"]
    /\ UNCHANGED << racct, req, ticks, lastrun, rss >>
Take ==
    /\ vd.pc = "take"
    /\ req' = {}
    /\ vd' = [vd EXCEPT !.pc = "walk", !.flags = req, !.cur = 1, !.attempts = 1, !.again = FALSE]
    /\ UNCHANGED << racct, ticks, lastrun, rss >>

\* vm_pageout_map_deactivate_pages gets a process down to a limit, or not.
Deactivated(n, limit) == IF n <= limit THEN {n} ELSE {n, limit}
Available(k, n) ==
    IF vd.attempts <= EarlyAttempts /\ k.avail < n - n \div 4 THEN n - n \div 4 ELSE k.avail

\* Over its rlimit, or swapped out; then, with RACCT, over what is available.
WalkProc ==
    LET k == SwapProcs[vd.cur]
        n == rss[vd.cur]
        limit == IF k.inmem THEN k.limit ELSE 0
    IN  /\ vd.pc = "walk" /\ vd.cur <= Len(SwapProcs)
        /\ \E m \in (IF k.skip THEN {n} ELSE Deactivated(n, limit)) :
           \E l \in (IF racct /\ ~k.skip /\ n > k.avail THEN Deactivated(m, Available(k, n)) ELSE {m}) :
              /\ rss' = [rss EXCEPT ![vd.cur] = l]
              /\ vd' = [vd EXCEPT !.cur = @ + 1,
                                  !.again = @ \/ (racct /\ ~k.skip /\ n > k.avail
                                                    /\ l > Available(k, n))]
        /\ UNCHANGED << racct, req, ticks, lastrun >>

\* Mutant: attempts is counted from one again.
EndWalkForever ==
    /\ vd.pc = "walk" /\ vd.cur > Len(SwapProcs)
    /\ vd' = IF vd.again /\ vd.attempts <= MaxAttempts
             THEN [vd EXCEPT !.cur = 1] ELSE [vd EXCEPT !.pc = "top", !.cur = 0]
    /\ UNCHANGED << racct, req, ticks, lastrun, rss >>

\* Once more, but not for ever.
EndWalk ==
    /\ vd.pc = "walk" /\ vd.cur > Len(SwapProcs)
    /\ vd' = IF vd.again /\ vd.attempts <= MaxAttempts
             THEN [vd EXCEPT !.cur = 1, !.attempts = @ + 1]
             ELSE [vd EXCEPT !.pc = "top", !.cur = 0]
    /\ UNCHANGED << racct, req, ticks, lastrun, rss >>

VmDaemon == FallAsleep \/ WakeUp \/ Take \/ WalkProc \/ EndWalk
SwapNext == Tick \/ VmDaemon \/ \E r \in {"NORMAL", "IDLE"} : Request(r)

-----------------------------------------------------------------------------
\* With RACCT, whose timeout makes up for the wakeups that vm_req_vmdaemon does
\* not send or the daemon does not hear, every request must be served; without,
\* the daemon must go back to sleep, however many processes stay over their
\* limits.
Unserved == IF racct THEN req # {} ELSE vd.pc = "walk"
Served == vd.pc = IF racct THEN "take" ELSE "asleep"
=============================================================================
