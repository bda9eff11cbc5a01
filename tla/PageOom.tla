------------------------------ MODULE PageOom -------------------------------
(***************************************************************************)
(* The out-of-memory killer.  Every page daemon that fails votes; the one  *)
(* that completes the quorum walks the list of processes and kills the     *)
(* largest.  Versions 11 and 12 hold a process while they measure it,      *)
(* version 10 keeps it locked and skips those that are locked already.     *)
(***************************************************************************)
EXTENDS Integers, Sequences, FiniteSets

CONSTANTS
    Domain,         \* the memory domains, one page daemon each
    OomSeq,         \* vm_pageout_oom_seq
    ProcLists,      \* allproc: sequences of processes, their size (vmspace_swap_count
                    \* and vm_pageout_oom_pagecount) and whether they are protected
    MaxExits        \* bound: exits, locks taken and map locks taken by others

VARIABLES
    version,        \* 10, 11 or 12
    domains,        \* the domains this machine has
    vote,           \* vm_pageout_oom_vote
    dom,            \* vmd_oom, vmd_oom_seq and the page daemon's walk
    proc,           \* the processes
    hopeless,       \* from now on no scan frees a page
    exits           \* what others may still do

oomVars == << version, domains, vote, dom, proc, hopeless, exits >>

Procs == DOMAIN proc
Nobody == 0
Idle == [pc |-> "scan", oom |-> FALSE, seq |-> 0, cur |-> Nobody, big |-> Nobody,
         bigsize |-> 0, size |-> 0]

\* protected: PRS_NEW, P_SYSTEM, P_PROTECTED, P_INEXEC, P_WEXIT, pid 1, P_KILLED
\* and a thread in a state in between.
OomInit(ds, lists) ==
    /\ domains = ds
    /\ vote = 0
    /\ dom = [d \in Domain |-> Idle]
    /\ \E l \in lists :
          proc = [p \in DOMAIN l |->
                    [size |-> l[p].size, protected |-> l[p].protected, alive |-> TRUE,
                     hold |-> 0, lock |-> "no", map |-> FALSE, killed |-> FALSE]]
    /\ hopeless = FALSE
    /\ exits = MaxExits

GoDom(d, s) == dom' = [dom EXCEPT ![d] = s]
Rest == UNCHANGED << version, domains, hopeless, exits >>

-----------------------------------------------------------------------------
(* vm_pageout_mightbe_oom *)

\* A daemon votes when OomSeq scans in a row freed nothing; in version 10 when
\* the scan left memory and swap space low.
OomSequence(d, failed) == IF failed THEN dom[d].seq + 1 ELSE 0
LowOnBoth(failed) == version = 10 /\ failed
mightbe_oom(d, failed) ==
    LET seq == OomSequence(d, failed)
        troubled == LowOnBoth(failed) \/ (version # 10 /\ seq >= OomSeq)
        s == [dom[d] EXCEPT !.seq = IF version = 10 \/ troubled THEN 0 ELSE seq]
    IN  /\ dom[d].pc = "scan" /\ (hopeless => failed)
        /\ CASE ~troubled /\ ~s.oom -> GoDom(d, s)
             [] ~troubled /\ s.oom -> GoDom(d, [s EXCEPT !.oom = FALSE, !.pc = "unvote"])
             [] troubled /\ s.oom -> GoDom(d, s)
             [] troubled /\ ~s.oom -> GoDom(d, [s EXCEPT !.oom = TRUE, !.pc = "vote"])
        /\ UNCHANGED << vote, proc >> /\ Rest

\* Mutant: one vote less is enough.
VoteEarly(d) ==
    /\ dom[d].pc = "vote"
    /\ vote' = vote + 1
    /\ GoDom(d, [dom[d] EXCEPT
                    !.pc = IF vote >= Cardinality(domains) - 2 THEN "walk" ELSE "scan",
                    !.cur = Nobody, !.big = Nobody, !.bigsize = 0])
    /\ UNCHANGED proc /\ Rest

\* The one that completes the quorum kills.
Vote(d) ==
    /\ dom[d].pc = "vote"
    /\ vote' = vote + 1
    /\ GoDom(d, [dom[d] EXCEPT
                    !.pc = IF vote = Cardinality(domains) - 1 THEN "walk" ELSE "scan",
                    !.cur = Nobody, !.big = Nobody, !.bigsize = 0])
    /\ UNCHANGED proc /\ Rest

Unvote(d) ==
    /\ dom[d].pc = "unvote"
    /\ vote' = vote - 1
    /\ GoDom(d, [dom[d] EXCEPT !.pc = "scan"])
    /\ UNCHANGED proc /\ Rest

-----------------------------------------------------------------------------
(* vm_pageout_oom *)

\* allproc_lock is shared while a daemon is at one of these.
Walking(d) ==
    dom[d].pc = "walk" \/ (version = 10 /\ dom[d].pc \in {"measure", "compare"})
NextAlive(i) ==
    LET later == {j \in Procs : j > i /\ proc[j].alive} IN
    IF later = {} THEN Nobody ELSE CHOOSE j \in later : \A k \in later : j <= k

\* System, protected and killed processes are passed over, and in version 10
\* those that are locked, by others or as the largest so far.
Skipped(p) == proc[p].protected \/ proc[p].killed \/ proc[p].lock # "no"
\* A process is held, or stays locked, while it is measured.
Hold(p) == [proc EXCEPT ![p].hold = @ + 1]
KeepLocked(p) == [proc EXCEPT ![p].lock = "daemon"]
Visit(d) ==
    LET p == NextAlive(dom[d].cur) IN
    /\ dom[d].pc = "walk" /\ p # Nobody
    /\ version = 10 \/ proc[p].lock = "no"
    /\ IF Skipped(p)
       THEN GoDom(d, [dom[d] EXCEPT !.cur = p]) /\ UNCHANGED proc
       ELSE /\ GoDom(d, [dom[d] EXCEPT !.cur = p, !.pc = "measure"])
            /\ proc' = IF version = 10 THEN KeepLocked(p) ELSE Hold(p)
    /\ UNCHANGED vote /\ Rest

Release(p) ==
    IF p = Nobody THEN proc
    ELSE IF version = 10 THEN [proc EXCEPT ![p].lock = "no"]
    ELSE [proc EXCEPT ![p].hold = @ - 1]

\* What killing p would free.  Its map may be locked; then it is passed over.
PageCount(p) == IF proc[p].map THEN 0 ELSE proc[p].size
Measure(d) ==
    /\ dom[d].pc = "measure"
    /\ GoDom(d, [dom[d] EXCEPT !.pc = "compare", !.size = PageCount(dom[d].cur)])
    /\ UNCHANGED << vote, proc >> /\ Rest

\* Mutant: the process that was the largest is not released.
CompareLeaky(d) ==
    LET s == dom[d]
        bigger == s.size > s.bigsize
    IN  /\ s.pc = "compare"
        /\ proc' = IF bigger THEN proc ELSE Release(s.cur)
        /\ GoDom(d, IF bigger THEN [s EXCEPT !.pc = "walk", !.big = s.cur, !.bigsize = s.size]
                    ELSE [s EXCEPT !.pc = "walk"])
        /\ UNCHANGED vote /\ Rest

Compare(d) ==
    LET s == dom[d]
        bigger == s.size > s.bigsize
    IN  /\ s.pc = "compare"
        /\ proc' = IF bigger THEN Release(s.big) ELSE Release(s.cur)
        /\ GoDom(d, IF bigger THEN [s EXCEPT !.pc = "walk", !.big = s.cur, !.bigsize = s.size]
                    ELSE [s EXCEPT !.pc = "walk"])
        /\ UNCHANGED vote /\ Rest

\* The end of the list: kill, release, and recall the vote.
Kill(d) ==
    LET s == dom[d] IN
    /\ s.pc = "walk" /\ NextAlive(s.cur) = Nobody
    /\ s.big # Nobody => version = 10 \/ proc[s.big].lock = "no"
    /\ proc' = IF s.big = Nobody THEN proc
               ELSE [Release(s.big) EXCEPT ![s.big].killed = TRUE]
    /\ GoDom(d, [s EXCEPT !.oom = FALSE, !.pc = "unvote", !.cur = Nobody, !.big = Nobody,
                          !.bigsize = 0, !.size = 0])
    /\ UNCHANGED vote /\ Rest

-----------------------------------------------------------------------------
(* Others, outside: processes lock one another and their maps, and exit. *)

Others == exits > 0 /\ exits' = exits - 1 /\ UNCHANGED << version, domains, vote, dom, hopeless >>
Free == UNCHANGED << version, domains, vote, dom, hopeless, exits >>
LockMap(p) == Others /\ proc[p].alive /\ ~proc[p].map /\ proc' = [proc EXCEPT ![p].map = TRUE]
UnlockMap(p) == Free /\ proc[p].map /\ proc' = [proc EXCEPT ![p].map = FALSE]
LockProc(p) ==
    /\ Others /\ proc[p].alive /\ proc[p].lock = "no"
    /\ proc' = [proc EXCEPT ![p].lock = "other"]
UnlockProc(p) == Free /\ proc[p].lock = "other" /\ proc' = [proc EXCEPT ![p].lock = "no"]
Protect(p) ==
    /\ Others /\ proc[p].alive /\ proc[p].lock = "no"
    /\ proc' = [proc EXCEPT ![p].protected = ~@]
\* exit1 waits for the holds to be released; the list needs its lock.
Exit(p) ==
    /\ IF proc[p].killed THEN Free ELSE Others
    /\ proc[p].alive /\ proc[p].hold = 0 /\ proc[p].lock = "no"
    /\ \A d \in domains : ~Walking(d)
    /\ proc' = [proc EXCEPT ![p].alive = FALSE]
Despair ==
    /\ ~hopeless /\ hopeless' = TRUE
    /\ UNCHANGED << version, domains, vote, dom, proc, exits >>

OomDaemon(d) ==
    \/ \E failed \in BOOLEAN : mightbe_oom(d, failed)
    \/ Vote(d) \/ Unvote(d) \/ Visit(d) \/ Measure(d) \/ Compare(d) \/ Kill(d)
OomNext ==
    \/ \E d \in domains : OomDaemon(d)
    \/ \E p \in Procs : LockMap(p) \/ UnlockMap(p) \/ LockProc(p) \/ UnlockProc(p)
                      \/ Protect(p) \/ Exit(p)
    \/ Despair

-----------------------------------------------------------------------------
(* Properties *)

OomTypeOK ==
    /\ \A d \in Domain : dom[d].seq \in 0 .. OomSeq /\ dom[d].big \in Procs \cup {Nobody}
    /\ \A p \in Procs : proc[p].hold \in 0 .. 2 * Cardinality(Domain)

\* "Trying to kill processes before all pagedaemons failed to reach free target
\* is premature" (vm_pageout.c:1639): who starts to kill has seen every other
\* daemon's vote, which may at most be about to be withdrawn.
KillsByQuorum ==
    [][\A d \in domains : dom[d].pc = "vote" /\ dom'[d].pc = "walk" =>
          \A e \in domains \ {d} : dom[e].oom \/ dom[e].pc = "unvote"]_oomVars

\* vm_pageout_oom_vote is the number of daemons whose vmd_oom says that they
\* voted, but for those that are between the flag and the counter.  A process that
\* a daemon measures, or has chosen, is held as often as that, or locked; nothing
\* else is; and it has not gone.
Uses(p) ==
    Cardinality({d \in domains : dom[d].big = p})
        + Cardinality({d \in domains : dom[d].cur = p /\ dom[d].pc \in {"measure", "compare"}})
OomConsistent ==
    /\ vote = Cardinality({d \in domains : dom[d].oom /\ dom[d].pc # "vote"})
              + Cardinality({d \in domains : dom[d].pc = "unvote"})
    /\ \A p \in Procs : Uses(p) > 0 => proc[p].alive
    /\ \A p \in Procs : IF version = 10 THEN (proc[p].lock = "daemon") <=> (Uses(p) > 0)
                        ELSE proc[p].hold = Uses(p)

\* "If the inactive queue scan fails repeatedly to meet its target, kill the
\* largest process" (vm_pageout.c:1618): so it must on a machine with one domain,
\* and in version 10.  With two it need not: a daemon recalls its vote after the
\* kill or a better scan, and the votes may never be there at the same time.
Killable(p) == proc[p].alive /\ ~proc[p].protected /\ ~proc[p].map /\ proc[p].size > 0
KillDue ==
    /\ hopeless /\ exits = 0 /\ \E p \in Procs : Killable(p)
    /\ version = 10 \/ Cardinality(domains) = 1
SomebodyKilled == \E p \in Procs : proc[p].killed
=============================================================================
