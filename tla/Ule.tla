-------------------------------- MODULE Ule --------------------------------
(***************************************************************************)
(* The ULE scheduler, sched_ule.c: cpus that run threads, wake them, fork, *)
(* change priorities, bind and restrict them to cpus, take clock ticks and *)
(* interrupts, balance their load, and, when they have nothing to run, go  *)
(* through the idle thread's loop, stealing and sleeping.                  *)
(*                                                                         *)
(* A step is what the code does under one hold of its locks, or one access *)
(* to memory it makes without any.  A function that drops its locks and    *)
(* takes others is several steps, in between which its cpu, interrupts     *)
(* disabled, does nothing else: cpu[c].op names the function and holds its *)
(* local variables.  The operators return the set of states their call may *)
(* lead to.                                                                *)
(*                                                                         *)
(* Left to chance: when a tick ends a slice, whether switch counts differ, *)
(* how long ago a thread ran, and the priority its history earns it        *)
(* (sched_priority; see SchedPriority).                                    *)
(***************************************************************************)
EXTENDS Tdq

CONSTANTS
    Scenes      \* what an instance does: records of a topology (topo), the
                \*   threads' first state (start), what may happen (acts) and
                \*   the values that are given to things, see env

\* The groups of a topology form a tree: what is below a group is lower, and
\* two groups are nested or have no cpu in common.
ASSUME ScenesAssumption ==
    \A s \in Scenes :
        LET topo == s.topo
            all  == topo[TOP].mask
        IN  /\ TOP \in DOMAIN topo /\ IsFiniteSet(DOMAIN topo)
            /\ all \in SUBSET Nat /\ IsFiniteSet(all)
            /\ \A g \in DOMAIN topo :
                  /\ topo[g].kids \subseteq DOMAIN topo /\ topo[g].mask \subseteq all
                  /\ \A i \in topo[g].kids : topo[i].mask \subseteq topo[g].mask
                  /\ \A h \in DOMAIN topo :
                        \/ topo[g].mask \cap topo[h].mask = {}
                        \/ topo[g].mask \subseteq topo[h].mask
                        \/ topo[h].mask \subseteq topo[g].mask
            /\ \E height \in [DOMAIN topo -> 0 .. Cardinality(DOMAIN topo)] :
                  \A g \in DOMAIN topo : \A i \in topo[g].kids : height[i] < height[g]
            /\ IsFiniteSet(DOMAIN s.start) /\ NoThread \notin DOMAIN s.start
            /\ \A t \in DOMAIN s.start :
                  /\ s.start[t].state \in {"sleep", "dead"}
                  /\ s.start[t].pri \in 0 .. PRI_MAX_IDLE
                  /\ s.start[t].cpu \in all /\ s.start[t].mask \subseteq all
            /\ s.prios \cup s.lends \subseteq 0 .. PRI_MAX_IDLE
            /\ s.masks \subseteq SUBSET all

VARIABLES td, tdq, cpu, env

vars == << td, tdq, cpu, env >>
K == [td |-> td, tdq |-> tdq, cpu |-> cpu, env |-> env]
Become(k) == td' = k.td /\ tdq' = k.tdq /\ cpu' = k.cpu /\ env' = k.env

Thread == DOMAIN td
CPU    == DOMAIN cpu
Idle   == [op |-> "none"]
steal_thresh   == 2
trysteal_limit == 2
static_boost   == PRI_MIN_BATCH

Self(k, c)     == k.cpu[c].cur
AllCpus(k)     == DOMAIN k.cpu
Timeshare(k, t) == ~k.td[t].system
Op(k, c, op)   == [k EXCEPT !.cpu[c].op = op]

-----------------------------------------------------------------------------
\* Choosing a cpu for a thread.

\* The group of the last level cache to search first: the largest group
\* around a cpu whose threads do not share a core and to which the thread's
\* affinity, age old, has not expired; "" if there is none.
CacheGroup(k, c, age) ==
    LET topo == k.env.topo
        ok   == {g \in Holding(topo, c) : ~topo[g].thread /\ age < topo[g].level}
    IN  IF ok = {} THEN ""
        ELSE CHOOSE g \in ok : \A h \in ok : topo[h].mask \subseteq topo[g].mask

\* Mutant: the search over all cpus forgets the thread's mask.
PickcpuAnywhere(k, self, t, flags, age, intr) ==
    IF "OURSELF" \in flags \/ ~CanMigrate(k, t) THEN {k.td[t].cpu}
    ELSE sched_lowest(k.env.topo, k.tdq, TOP, AllCpus(k), -1, INT_MAX, k.td[t].cpu)

\* The cpus sched_pickcpu may return for t when it is called on self, from an
\* interrupt if intr.
sched_pickcpu(k, self, t, flags, age, intr) ==
    LET d      == k.td[t]
        topo   == k.env.topo
        low(c) == k.tdq[c].lowpri
        toSelf == /\ d.pri <= PRI_MAX_ITHD
                  /\ intr /\ self \in d.mask /\ d.cpu # self
        last   == IF toSelf THEN self ELSE d.cpu
        leaf   == LeafOf(topo, last)
        idle   == /\ CanSched(k, t, last) /\ low(last) >= PRI_MIN_IDLE /\ age < 2
                  /\ topo[leaf].thread =>
                        \A c \in topo[leaf].mask : low(c) >= PRI_MIN_IDLE
        group  == CacheGroup(k, last, age)
        near   == IF group = "" THEN {}
                  ELSE IF topo[group].mask = topo[TOP].mask THEN {}
                  ELSE sched_lowest(topo, k.tdq, group, d.mask,
                                    Max({d.pri, PRI_MAX_TIMESHARE}), INT_MAX, last)
        better == sched_lowest(topo, k.tdq, TOP, d.mask, d.pri, INT_MAX, last)
        found  == IF near # {} THEN near
                  ELSE IF better # {} THEN better
                  ELSE sched_lowest(topo, k.tdq, TOP, d.mask, -1, INT_MAX, last)
        local(c) == /\ self \in d.mask /\ low(self) > d.pri
                    /\ low(c) < PRI_MIN_IDLE
                    /\ k.tdq[self].load <= k.tdq[c].load + 1
    IN  IF "OURSELF" \in flags \/ ~CanMigrate(k, t) THEN {d.cpu}
        ELSE IF toSelf /\ low(self) > d.pri THEN {self}
        ELSE IF idle THEN {last}
        ELSE {IF local(c) THEN self ELSE c : c \in found}

\* Priorities of their user the history of a timeshare thread may earn it.
sched_user_prio(k, t, pri) ==
    [k EXCEPT !.td[t].base_user = pri,
              !.td[t].user = IF k.td[t].lend_user <= pri THEN @ ELSE pri]
sched_priority(k, t) ==
    IF Timeshare(k, t) THEN {sched_user_prio(k, t, p) : p \in k.env.prios} ELSE {k}

\* The current thread of c is to make way for t, now or on its next return
\* to user mode.
sched_setpreempt(k, c, t) ==
    LET pri  == k.td[t].pri
        ctd  == Self(k, c)
        flag == IF ctd # NoThread /\ pri < CurPri(k, c)
                THEN [k EXCEPT !.td[ctd].needresched = TRUE] ELSE k
    IN  IF sched_shouldpreempt(k, pri, CurPri(k, c), FALSE)
        THEN [flag EXCEPT !.cpu[c].owe = TRUE] ELSE flag

\* sched_setcpu and sched_add, up to where the lock of the chosen queue is
\* asked for.  held is the cpu whose queue lock is the thread's lock already.
NoCpu == -1
Placed(k, c, t, flags) ==
    LET to == k.td[t].cpu
    IN  {IF to # c THEN tdq_notify(q, to, t)
         ELSE IF "YIELDING" \in flags THEN q ELSE sched_setpreempt(q, c, t) :
            q \in {tdq_add(Op(k, c, Idle), to, t, flags, s) : s \in Slots(k, t)}}

sched_setcpu(k, c, t, to, flags, held) ==
    LET set == [k EXCEPT !.td[t].cpu = to, !.td[t].state = "canrun"]
    IN  IF to = held THEN Placed(set, c, t, flags)
        ELSE {Op(set, c, [op |-> "add", td |-> t, flags |-> flags])}

sched_add(k, c, t, flags, held) ==
    UNION {UNION {sched_setcpu(q, c, t, to, flags, held) :
                    to \in UNION {sched_pickcpu(q, c, t, flags, x[1], x[2]) :
                                    x \in k.env.ages \X k.env.intr}} :
           q \in sched_priority(k, t)}

-----------------------------------------------------------------------------
\* Switching threads.

\* sched_choose and choosethread: take the next thread off its queue and run
\* it, the idle thread if there is none.
choosethread(k, c) ==
    LET t   == tdq_choose(k, c)
        out == [k EXCEPT !.cpu[c] = [@ EXCEPT !.op = Idle, !.cur = t]]
    IN  IF t = NoThread THEN [out EXCEPT !.tdq[c].lowpri = PRI_MAX_IDLE]
        ELSE [tdq_runq_rem(out, c, t) EXCEPT !.td[t].state = "run",
                                             !.tdq[c].lowpri = k.td[t].pri]

\* sched_switch of a running thread: onto its queue, or, when it is bound to
\* or restricted to other cpus, off to one of those (sched_switch_migrate,
\* which first drops the lock of this cpu's queue).
SwitchRunning(k, c, t, flags) ==
    LET to == IF CanMigrate(k, t) /\ ~CanSched(k, t, k.td[t].cpu)
              THEN UNION {sched_pickcpu(k, c, t, {}, x[1], x[2]) :
                            x \in k.env.ages \X k.env.intr}
              ELSE {k.td[t].cpu}
        how == {"OURSELF", "YIELDING"} \cup flags
    IN  {choosethread(tdq_runq_add(k, c, t, how, s), c) :
            s \in IF c \in to THEN Slots(k, t) ELSE {}}
        \cup {Op(tdq_load_rem([k EXCEPT !.td[t].cpu = d, !.td[t].state = "canrun"], c),
                 c, [op |-> "migrate", td |-> t, flags |-> how]) : d \in to \ {c}}

\* sched_switch of a thread that goes to sleep: a cpu that is left without
\* load tries to steal a thread before it idles.
SwitchSleeping(k, c) ==
    LET out == tdq_load_rem(k, c)
    IN  IF out.tdq[c].load = 0 THEN {Op(out, c, [op |-> "trysteal"])}
                               ELSE {choosethread(out, c)}

sched_switch(k, c, preempt) ==
    LET t    == Self(k, c)
        d    == k.td[t]
        hurt == IF preempt /\ ~d.sliceend THEN {"PREEMPTED"} ELSE {}
        off  == [k EXCEPT !.cpu[c].owe = FALSE,
                          !.td[t] = [@ EXCEPT !.needresched = FALSE, !.sliceend = FALSE]]
    IN  IF t = NoThread THEN {choosethread([k EXCEPT !.cpu[c].owe = FALSE], c)}
        ELSE IF d.state = "run" THEN SwitchRunning(off, c, t, hurt)
        ELSE SwitchSleeping(off, c)

\* sched_switch_migrate, once both queues are locked.
sched_switch_migrate(k, c) ==
    LET o == k.cpu[c].op
        d == k.td[o.td].cpu
    IN  {choosethread(tdq_notify(q, d, o.td), c) :
            q \in {tdq_add(k, d, o.td, o.flags, s) : s \in Slots(k, o.td)}}

\* The cpus a search for a thread to steal may settle on: those of the first
\* of at most n groups, from the smallest around c, that has any.
StealFrom(k, c, mask, n) ==
    LET topo   == k.env.topo
        rank(g) == Cardinality({h \in Holding(topo, c) : topo[h].mask \subseteq topo[g].mask})
        found(g) == sched_highest(topo, k.tdq, g, mask, steal_thresh)
        near   == {g \in Holding(topo, c) : rank(g) <= n /\ found(g) # {}}
    IN  IF near = {} THEN {}
        ELSE found(CHOOSE g \in near : \A h \in near : rank(g) <= rank(h))

WorthStealing(k, from) ==
    k.tdq[from].load >= steal_thresh /\ k.tdq[from].transferable # 0

\* tdq_trysteal: search with no lock held, then with both locks take a thread
\* if it is still there and this cpu has been given none meanwhile.
tdq_trysteal(k, c) ==
    LET o     == k.cpu[c].op
        froms == StealFrom(k, c, AllCpus(k) \ {c}, trysteal_limit)
        t     == tdq_steal(k, o.from, c)
    IN  IF o.op = "trysteal"
        THEN IF k.tdq[c].load > 0 \/ froms = {} THEN {choosethread(k, c)}
             ELSE {Op(k, c, [op |-> "trytake", from |-> x]) : x \in froms}
        ELSE IF k.tdq[c].load > 0 \/ ~WorthStealing(k, o.from) \/ t = NoThread
             THEN {choosethread(k, c)}
             ELSE {choosethread(q, c) : q \in tdq_move(k, t, c)}

\* A thread that is bound is unbound first, which makes no difference here.
sched_bind(k, c, to) ==
    LET t == Self(k, c)
        b == [k EXCEPT !.td[t] = [@ EXCEPT !.bound = TRUE, !.pinned = 1]]
    IN  IF to = c THEN {b}
        ELSE sched_switch([b EXCEPT !.td[t].cpu = to], c, FALSE)
sched_unbind(k, c) ==
    [k EXCEPT !.td[Self(k, c)] = [@ EXCEPT !.bound = FALSE, !.pinned = 0]]

-----------------------------------------------------------------------------
\* Priorities.  c is the cpu that calls; the caller holds t's lock.

sched_thread_priority(k, c, t, prio) ==
    LET d   == k.td[t]
        q   == k.tdq[d.cpu]
        set == [k EXCEPT !.td[t].pri = prio]
    IN  IF d.pri = prio THEN {k}
        ELSE IF d.state = "runq" /\ prio < d.pri
        THEN sched_add([sched_rem(k, t) EXCEPT !.td[t].pri = prio],
                       c, t, {"BORROWING"}, d.cpu)
        ELSE IF d.state = "run" /\ prio < q.lowpri
        THEN {[set EXCEPT !.tdq[d.cpu].lowpri = prio]}
        ELSE IF d.state = "run" /\ q.lowpri = d.pri
        THEN {tdq_setlowpri(set, d.cpu, prio)}
        ELSE {set}

sched_lend_prio(k, c, t, prio) ==
    sched_thread_priority([k EXCEPT !.td[t].borrowing = TRUE], c, t, prio)

\* The priority t falls back to, prio being the best still lent to it.
sched_unlend_prio(k, c, t, prio) ==
    LET d    == k.td[t]
        base == IF d.base \in PRI_MIN_TIMESHARE .. PRI_MAX_TIMESHARE
                THEN d.user ELSE d.base
    IN  IF prio >= base
        THEN sched_thread_priority([k EXCEPT !.td[t].borrowing = FALSE], c, t, base)
        ELSE sched_lend_prio(k, c, t, prio)

sched_prio(k, c, t, prio) ==
    LET set == [k EXCEPT !.td[t].base = prio]
    IN  IF k.td[t].borrowing /\ k.td[t].pri < prio THEN {set}
        ELSE sched_thread_priority(set, c, t, prio)

sched_lend_user_prio(k, c, t, prio) ==
    LET lent == [k EXCEPT !.td[t].lend_user = prio,
                           !.td[t].user = Min({prio, k.td[t].base_user})]
        d    == lent.td[t]
    IN  IF d.pri > d.user THEN sched_prio(lent, c, t, d.user)
        ELSE {[lent EXCEPT !.td[t].needresched = @ \/ d.pri # d.user]}

\* One thread of the process.
sched_nice(k, c, t) ==
    UNION {sched_prio(q, c, t, q.td[t].base_user) : q \in sched_priority(k, t)}

sched_userret(k, c, t) ==
    LET user == k.td[t].user
    IN  tdq_setlowpri([k EXCEPT !.td[t] = [@ EXCEPT !.pri = user, !.base = user]], c, user)

\* The boost of a thread that sleeps in the kernel.
sched_sleep(k, c, t) ==
    IF Timeshare(k, t) /\ k.td[t].pri > static_boost
    THEN sched_prio(k, c, t, static_boost) ELSE {k}

\* A change of t's mask, by a thread or interrupt on cpu c.
sched_affinity(k, c, t) ==
    LET d == k.td[t]
    IN  IF CanSched(k, t, d.cpu) THEN {k}
        ELSE IF d.state = "runq" THEN sched_add(sched_rem(k, t), c, t, {}, d.cpu)
        ELSE IF d.state # "run" THEN {k}
        ELSE LET n == [k EXCEPT !.td[t].needresched = TRUE]
             IN  {IF t = Self(k, c) THEN n ELSE ipi_cpu(n, d.cpu)}

-----------------------------------------------------------------------------
\* The clock and the balancer.

\* What sched_clock does once the balancer is done: advance the calendar's
\* insertion index when the removal index has caught up, and charge the
\* current thread for the tick, which may end its slice.
Advanced(k, c) ==
    LET q    == k.tdq[c]
        next == (q.idx + 1) % RQ_NQS
    IN  IF q.idx # q.ridx THEN k
        ELSE [k EXCEPT !.tdq[c] = [@ EXCEPT
                !.idx = next,
                !.ridx = IF At(q.timeshare, q.ridx) = << >> THEN next ELSE q.ridx]]
SliceEnded(k, t) ==
    [k EXCEPT !.td[t] = [@ EXCEPT !.needresched = TRUE, !.sliceend = TRUE]]
sched_clock(k, c) ==
    LET t    == Self(k, c)
        idle == Op(Advanced(k, c), c, Idle)
    IN  IF t = NoThread THEN {idle}
        ELSE {IF end THEN SliceEnded(x, t) ELSE x :
                end \in k.env.ends, x \in sched_priority(idle, t)}

\* sched_balance_group from its for (;;): a cpu to take from, among hmask, and
\* one to give to, with less load, among the rest of hmask.
BalanceLow(k, c, high, hmask, lmask, anylow) ==
    LET lows == sched_lowest(k.env.topo, k.tdq, TOP, lmask, -1,
                             k.tdq[high].load - 1, high)
    IN  IF lows # {}
        THEN {Op(k, c, [op |-> "pair", high |-> high, low |-> x,
                        hmask |-> hmask, lmask |-> lmask]) : x \in lows}
        ELSE IF anylow THEN sched_clock(k, c)
        ELSE {Op(k, c, [op |-> "balance", hmask |-> hmask])}

sched_balance_group(k, c) ==
    LET hmask == k.cpu[c].op.hmask
        highs == sched_highest(k.env.topo, k.tdq, TOP, hmask, 2)
    IN  IF highs = {} THEN sched_clock(k, c)
        ELSE UNION {BalanceLow(k, c, h, hmask \ {h}, hmask \ {h}, TRUE) : h \in highs}

\* sched_balance_pair, and what follows it in sched_balance_group.
sched_balance_pair(k, c) ==
    LET o == k.cpu[c].op
        t == tdq_steal(k, o.high, o.low)
        next(q) == Op(q, c, [op |-> "balance", hmask |-> o.hmask \ {o.low}])
    IN  IF \/ k.tdq[o.high].transferable = 0
           \/ k.tdq[o.high].load <= k.tdq[o.low].load
           \/ t = NoThread
        THEN BalanceLow(k, c, o.high, o.hmask, o.lmask \ {o.low}, FALSE)
        ELSE {next(IF o.low # c THEN tdq_notify(q, o.low, t) ELSE q) :
                q \in tdq_move(k, t, o.low)}

-----------------------------------------------------------------------------
\* The state machine.  An action needs its name in the scene's acts.

On(act) == act \in env.acts

\* No function of the kernel that has interrupts disabled is under way on c.
Interruptible(c) == /\ cpu[c].op = Idle
                    /\ ~(cpu[c].cur = NoThread /\ cpu[c].ipc = "armed")

\* An interrupt wakes a sleeping cpu.
Roused(k, c) == [k EXCEPT !.cpu[c].ipc = IF Self(k, c) = NoThread /\ @ = "asleep"
                                         THEN "awake" ELSE @]

\* The lock of t can be taken: it is neither on its way between two queues
\* nor being switched out.
Lockable(t) ==
    \A c \in CPU :
        /\ cpu[c].op.op \in {"add", "migrate"} => cpu[c].op.td # t
        /\ cpu[c].op.op \in {"trysteal", "trytake"} => cpu[c].cur # t

Working(c) == cpu[c].op = Idle /\ cpu[c].cur # NoThread
Runs(c, t) == Working(c) /\ cpu[c].cur = t

\* A function that dropped its locks goes on.
Continue(c) ==
    \E k \in CASE cpu[c].op.op = "add" ->
                    Placed(K, c, cpu[c].op.td, cpu[c].op.flags)
              [] cpu[c].op.op = "migrate" -> sched_switch_migrate(K, c)
              [] cpu[c].op.op \in {"trysteal", "trytake"} -> tdq_trysteal(K, c)
              [] cpu[c].op.op = "balance" -> sched_balance_group(K, c)
              [] cpu[c].op.op = "pair" -> sched_balance_pair(K, c)
              [] OTHER -> {} :
        Become(k)

\* sched_wakeup: c's thread, or an interrupt on c, makes t runnable.
Wakeup(c, t) ==
    /\ Interruptible(c) /\ td[t].state = "sleep" /\ Lockable(t)
    /\ \E k \in sched_add(Roused(K, c), c, t, {}, NoCpu) : Become(k)

\* sched_sleep and mi_switch.
Sleep(c, t) ==
    /\ On("sleep") /\ Runs(c, t)
    /\ \E q \in sched_sleep(K, c, t) :
          \E k \in sched_switch([q EXCEPT !.td[t].state = "sleep"], c, FALSE) :
              Become(k)

\* sched_relinquish.
Relinquish(c, t) ==
    On("yield") /\ Runs(c, t) /\ \E k \in sched_switch(K, c, FALSE) : Become(k)

\* On the way back to user mode: the switch TDF_NEEDRESCHED asks for, and the
\* return to the user priority.
Ast(c, t) ==
    /\ Runs(c, t) /\ td[t].needresched
    /\ \E q \in sched_prio(K, c, t, td[t].user) :
          \E k \in sched_switch(q, c, FALSE) : Become(k)
Userret(c, t) ==
    /\ Runs(c, t) /\ td[t].pri # td[t].user /\ ~td[t].system
    /\ Become(sched_userret(K, c, t))

\* critical_exit_preempt: the end of the section in which a wakeup found that
\* its thread is to run at once.
CriticalExit(c) ==
    /\ Interruptible(c) /\ cpu[c].owe
    /\ \E k \in sched_switch(K, c, TRUE) : Become(k)

\* Mutant: the IPI is forgotten only when it makes the cpu switch.
PreemptKeepsPending(c) ==
    /\ Interruptible(c) /\ cpu[c].ipi
    /\ LET k == Roused([K EXCEPT !.cpu[c].ipi = FALSE], c)
       IN  IF CurPri(k, c) > k.tdq[c].lowpri
           THEN \E q \in sched_switch([k EXCEPT !.tdq[c].ipipending = FALSE], c, TRUE) :
                    Become(q)
           ELSE Become(k)

\* sched_preempt: an IPI_PREEMPT arrives; in a critical section of the
\* current thread the switch is owed.
Preempt(c) ==
    /\ Interruptible(c) /\ cpu[c].ipi
    /\ LET k == Roused([K EXCEPT !.cpu[c].ipi = FALSE,
                                 !.tdq[c].ipipending = FALSE], c)
       IN  IF CurPri(k, c) > k.tdq[c].lowpri
           THEN \/ \E q \in sched_switch(k, c, TRUE) : Become(q)
                \/ On("critical") /\ Become([k EXCEPT !.cpu[c].owe = TRUE])
           ELSE Become(k)

\* A clock tick: the first cpu may start the balancer.
Clock(c) ==
    /\ On("clock") /\ Interruptible(c)
    /\ LET k == Roused(K, c)
       IN  \/ \E q \in sched_clock(k, c) : Become(q)
           \/ /\ On("balance") /\ c = Min(CPU)
              /\ Become(Op(k, c, [op |-> "balance", hmask |-> CPU]))

\* Changes of priorities, by the thread c runs.
Lend(c, t, prio) ==
    /\ On("lend") /\ t \in env.who /\ Working(c) /\ td[t].state \in {"sleep", "runq", "run"}
    /\ Lockable(t)
    /\ \/ prio < td[t].pri /\ \E k \in sched_lend_prio(K, c, t, prio) : Become(k)
       \/ td[t].borrowing /\ \E k \in sched_unlend_prio(K, c, t, prio) : Become(k)
Nice(c, t) ==
    /\ On("nice") /\ t \in env.who /\ Working(c)
    /\ td[t].state \in {"sleep", "runq", "run"} /\ Lockable(t) /\ ~td[t].system
    /\ \E k \in sched_nice(K, c, t) : Become(k)
LendUser(c, t, prio) ==
    /\ On("lend_user") /\ t \in env.who /\ Working(c)
    /\ td[t].state \in {"sleep", "runq", "run"} /\ Lockable(t)
    /\ prio # td[t].lend_user
    /\ \E k \in sched_lend_user_prio(K, c, t, prio) : Become(k)

\* Where threads may run: the current thread binds, unbinds or pins itself,
\* and a thread gives t a new mask.
Bind(c, t, to) ==
    /\ On("bind") /\ t \in env.who /\ Runs(c, t) /\ (td[t].pinned = 0 \/ td[t].bound)
    /\ \E k \in sched_bind(K, c, to) : Become(k)
Unbind(c, t) ==
    On("bind") /\ Runs(c, t) /\ td[t].bound /\ Become(sched_unbind(K, c))
Pin(c, t) ==
    /\ On("pin") /\ t \in env.who /\ Runs(c, t) /\ ~td[t].bound
    /\ Become([K EXCEPT !.td[t].pinned = 1 - @])
Affinity(c, t, mask) ==
    /\ On("affinity") /\ t \in env.who /\ Working(c)
    /\ td[t].state \in {"sleep", "runq", "run"} /\ Lockable(t) /\ mask # td[t].mask
    /\ \E k \in sched_affinity([K EXCEPT !.td[t].mask = mask], c, t) : Become(k)

\* sched_fork_thread: the child copies its parent, but for what is borrowed.
Child(d) == [d EXCEPT !.state = "new", !.pri = d.base, !.borrowing = FALSE,
                      !.lend_user = PRI_MAX_IDLE, !.user = d.base_user,
                      !.needresched = FALSE, !.sliceend = FALSE,
                      !.pinned = 0, !.bound = FALSE, !.xferable = 0]

\* sched_fork, and sched_add of the child when it is complete.
Fork(c, t, child) ==
    /\ On("fork") /\ Runs(c, t) /\ td[child].state = "dead"
    /\ \E q \in sched_priority([K EXCEPT !.td[child] = Child(td[t])], t) :
          \E k \in sched_add(q, c, child, {}, c) : Become(k)

\* sched_exit_thread, whose parent pays for the child, and sched_throw.
Exit(c, t, parent) ==
    /\ On("fork") /\ Runs(c, t) /\ parent # t /\ ~td[t].system /\ td[t].pinned = 0
    /\ td[parent].state \in {"sleep", "runq", "run"} /\ Lockable(parent)
    /\ \E q \in sched_priority([K EXCEPT !.td[t].state = "dead", !.cpu[c].owe = FALSE],
                               parent) :
          Become(choosethread(tdq_load_rem(q, c), c))
-----------------------------------------------------------------------------
\* The idle thread's loop, sched_idletd.  ipc says where it is: at the top,
\* about to look for a thread to steal (decide, search, take), about to set
\* cpu_idle (store), past that (mark), in cpu_idle (enter), with its sleep
\* state set and interrupts disabled (armed), asleep, or awake again.

AtIdle(c, ipc) ==
    cpu[c].op = Idle /\ cpu[c].cur = NoThread /\ cpu[c].ipc = ipc
Goto(k, c, ipc) == [k EXCEPT !.cpu[c].ipc = ipc]
HasLoad(c) == tdq[c].load > 0

IdleTop(c) ==
    /\ AtIdle(c, "top")
    /\ IF HasLoad(c)
       THEN \E k \in sched_switch(Goto(K, c, "decide"), c, FALSE) : Become(k)
       ELSE Become(Goto(K, c, "decide"))

\* Steal when there have been switches since the last time, else go to sleep;
\* on a cpu that is interrupted all the time there always have been.
IdleDecide(c) ==
    /\ AtIdle(c, "decide")
    /\ \/ Become([Goto(K, c, "search") EXCEPT !.cpu[c].mask = CPU \ {c}])
       \/ Become(Goto(K, c, IF HasLoad(c) THEN "top" ELSE "store"))

\* tdq_idled: the search, with no lock held.
IdleSearch(c) ==
    /\ AtIdle(c, "search")
    /\ LET froms == StealFrom(K, c, cpu[c].mask, Cardinality(DOMAIN env.topo))
       IN  IF HasLoad(c) \/ froms = {}
           THEN Become([Goto(K, c, IF HasLoad(c) \/ ~On("nap") THEN "top" ELSE "store")
                            EXCEPT !.cpu[c].mask = {}])
           ELSE \E x \in froms : Become([Goto(K, c, "take") EXCEPT !.cpu[c].from = x])

\* tdq_idled, once both queues are locked: switch to a thread that arrived or
\* was stolen, or search again when there was none after all.
IdleTake(c) ==
    LET from == cpu[c].from
        t    == tdq_steal(K, from, c)
        k0   == [K EXCEPT !.cpu[c] = [@ EXCEPT !.from = c, !.ipc = "top", !.mask = {}]]
        again(mask) == [K EXCEPT !.cpu[c] = [@ EXCEPT !.from = c, !.ipc = "search",
                                                      !.mask = mask]]
    IN  /\ AtIdle(c, "take")
        /\ IF HasLoad(c) THEN \E k \in sched_switch(k0, c, FALSE) : Become(k)
           ELSE IF ~WorthStealing(K, from) THEN Become(again(cpu[c].mask))
           ELSE IF t = NoThread THEN Become(again(cpu[c].mask \ {from}))
           ELSE \E q \in tdq_move(k0, t, c) :
                  \E k \in sched_switch(q, c, FALSE) : Become(k)

IdleStore(c) ==
    /\ AtIdle(c, "store")
    /\ Become([Goto(K, c, "mark") EXCEPT !.tdq[c].cpu_idle = TRUE])

IdleMark(c) ==
    /\ AtIdle(c, "mark")
    /\ Become(IF HasLoad(c)
              THEN [Goto(K, c, "top") EXCEPT !.tdq[c].cpu_idle = FALSE]
              ELSE Goto(K, c, "enter"))

\* cpu_idle of the machine: set the sleep state with interrupts disabled, and
\* sleep unless sched_runnable says that there is load.
IdleEnter(c) == AtIdle(c, "enter") /\ Become(Goto(K, c, "armed"))
sched_runnable(c) ==
    IF cpu[c].cur = NoThread THEN tdq[c].load > 0 ELSE tdq[c].load - 1 > 0
IdleArmed(c) ==
    AtIdle(c, "armed")
    /\ Become(Goto(K, c, IF sched_runnable(c) THEN "awake" ELSE "asleep"))
IdleAwake(c) ==
    /\ AtIdle(c, "awake")
    /\ Become([Goto(K, c, "top") EXCEPT !.tdq[c].cpu_idle = FALSE])

sched_idletd(c) ==
    \/ IdleTop(c) \/ IdleDecide(c) \/ IdleSearch(c) \/ IdleTake(c) \/ IdleStore(c)
    \/ IdleMark(c) \/ IdleEnter(c) \/ IdleArmed(c) \/ IdleAwake(c)

-----------------------------------------------------------------------------
\* A thread as it is before it first runs.
NewThread(x) ==
    [state |-> x.state, system |-> x.system, pri |-> x.pri, base |-> x.pri,
     user |-> x.pri, base_user |-> x.pri, lend_user |-> PRI_MAX_IDLE,
     borrowing |-> FALSE, cpu |-> x.cpu, mask |-> x.mask, pinned |-> 0,
     bound |-> FALSE, needresched |-> FALSE, sliceend |-> FALSE,
     runq |-> "realtime", rqindex |-> 0, xferable |-> 0]

\* sched_setup, and sched_throw of each cpu's boot: every cpu in its idle loop
\* and the threads asleep, or not created yet.
Init ==
    /\ env \in Scenes
    /\ td = [t \in DOMAIN env.start |-> NewThread(env.start[t])]
    /\ tdq = [c \in env.topo[TOP].mask |-> tdq_setup]
    /\ cpu = [c \in env.topo[TOP].mask |->
                 [cur |-> NoThread, op |-> Idle, owe |-> FALSE, ipi |-> FALSE,
                  ipc |-> "top", mask |-> {}, from |-> c]]

Next ==
    \E c \in CPU :
        \/ Continue(c) \/ sched_idletd(c)
        \/ Preempt(c) \/ CriticalExit(c) \/ Clock(c)
        \/ \E t \in Thread :
              \/ Wakeup(c, t) \/ Sleep(c, t) \/ Relinquish(c, t)
              \/ Ast(c, t) \/ Userret(c, t)
              \/ \E p \in env.lends : Lend(c, t, p) \/ LendUser(c, t, p)
              \/ Nice(c, t)
              \/ \E to \in CPU : Bind(c, t, to)
              \/ Unbind(c, t) \/ Pin(c, t)
              \/ \E mask \in env.masks : Affinity(c, t, mask)
              \/ \E u \in Thread : Fork(c, t, u) \/ Exit(c, t, u)

Spec == Init /\ [][Next]_vars

\* Code that has started goes on; a thread that is to be switched out reaches
\* the return to user mode; clock interrupts keep coming, and one that finds
\* interrupts disabled stays pending until they are enabled.  This is weak and
\* strong fairness with the condition under which an action is enabled and
\* changes something written out, for TLC's sake.
Ticks(c) ==
    /\ On("clock") /\ Interruptible(c)
    /\ \/ tdq[c].idx = tdq[c].ridx
       \/ cpu[c].cur # NoThread /\ ~td[cpu[c].cur].sliceend

Everywhere == UNION {s.topo[TOP].mask : s \in Scenes}
Everyone   == UNION {DOMAIN s.start : s \in Scenes}
FairSpec ==
    /\ Spec
    /\ \A c \in Everywhere :
          /\ <>[](c \in CPU /\ cpu[c].op # Idle) => []<><< Continue(c) >>_vars
          /\ <>[](c \in CPU /\ cpu[c].op = Idle /\ cpu[c].cur = NoThread /\ cpu[c].ipc # "asleep")
                => []<><< sched_idletd(c) >>_vars
          /\ <>[](c \in CPU /\ Interruptible(c) /\ cpu[c].ipi) => []<><< Preempt(c) >>_vars
          /\ <>[](c \in CPU /\ Interruptible(c) /\ cpu[c].owe) => []<><< CriticalExit(c) >>_vars
          /\ []<>(c \in CPU /\ Ticks(c)) => []<><< Clock(c) >>_vars
          /\ \A t \in Everyone :
                <>[](c \in CPU /\ t \in Thread /\ Runs(c, t) /\ td[t].needresched)
                    => []<><< Ast(c, t) >>_vars

-----------------------------------------------------------------------------
\* Types.
RunqNames == {"realtime", "timeshare", "idle"}
RunqType(rq) ==
    /\ DOMAIN rq \subseteq 0 .. RQ_NQS - 1
    /\ \A i \in DOMAIN rq : rq[i] \in Seq(Thread) /\ rq[i] # << >>
TypeOK ==
    /\ \A t \in Thread :
          /\ td[t].state \in {"dead", "new", "sleep", "canrun", "runq", "run"}
          /\ {td[t].pri, td[t].base, td[t].user, td[t].base_user, td[t].lend_user}
                \subseteq 0 .. PRI_MAX_IDLE
          /\ td[t].cpu \in CPU /\ td[t].mask \subseteq CPU /\ td[t].pinned \in 0 .. 1
          /\ td[t].rqindex \in 0 .. RQ_NQS - 1
    /\ \A c \in CPU :
          /\ {tdq[c].load, tdq[c].transferable} \subseteq Nat
          /\ tdq[c].lowpri \in 0 .. PRI_MAX_IDLE
          /\ {tdq[c].idx, tdq[c].ridx} \subseteq 0 .. RQ_NQS - 1
          /\ {tdq[c].ipipending, tdq[c].cpu_idle} \subseteq BOOLEAN
          /\ \A name \in RunqNames : RunqType(tdq[c][name])
          /\ cpu[c].cur \in Thread \cup {NoThread}
          /\ {cpu[c].owe, cpu[c].ipi} \subseteq BOOLEAN

\* What the scheduler counts is what is there, whichever cpus have been
\* stealing from, balancing with or migrating to each other: a queued thread
\* is on exactly one queue, the one its td_sched names, of the cpu it is
\* assigned to; a cpu's load is the number of its queued threads and its
\* running one; its transferable count that of its queued threads that may
\* migrate (tdq_runq_add, tdq_runq_rem, tdq_move, sched_switch_migrate).
QueuesConsistent ==
    TypeOK /\ \A c \in CPU :
        LET mine   == {t \in Thread : td[t].state = "runq" /\ td[t].cpu = c}
            busy   == /\ cpu[c].cur # NoThread
                      /\ cpu[c].op.op \notin {"migrate", "trysteal", "trytake"}
        IN  /\ tdq[c].load = Cardinality(mine) + (IF busy THEN 1 ELSE 0)
            /\ tdq[c].transferable = Cardinality({t \in mine : td[t].pinned = 0})
            /\ \A t \in mine :
                  /\ td[t].rqindex \in DOMAIN tdq[c][td[t].runq]
                  /\ t \in Range(tdq[c][td[t].runq][td[t].rqindex])
            /\ \A name \in RunqNames : \A i \in DOMAIN tdq[c][name] :
                  LET q == tdq[c][name][i]
                  IN  /\ IsInjective(q)
                      /\ \A t \in Range(q) :
                            t \in mine /\ td[t].runq = name /\ td[t].rqindex = i

\* No cpu sleeps while it has threads to run: whoever gave it one has seen
\* cpu_idle and woken it, or it has seen the load; and a cpu that is marked as
\* having an IPI pending has one on its way.  (A thread of the worst priority
\* is no reason to interrupt an idle thread, which has it as well.)
NoIdleWithWork ==
    \A c \in CPU :
        /\ AtIdle(c, "asleep") /\ ~cpu[c].ipi =>
              \A t \in Thread : td[t].state = "runq" /\ td[t].cpu = c =>
                                   td[t].pri = PRI_MAX_IDLE
        /\ tdq[c].ipipending => cpu[c].ipi

\* A thread is queued only where it may run: on a cpu of its mask, unless it
\* is pinned; a thread runs on the cpu it is assigned to, so that a bound one
\* runs where it was bound.
PlacedWhereAllowed ==
    \A t \in Thread :
        /\ td[t].state = "runq" => td[t].cpu \in td[t].mask \/ td[t].pinned # 0
        /\ \A c \in CPU : Runs(c, t) => td[t].cpu = c

\* Every queued thread is run in the end, however the others sleep and wake
\* and whatever priority in its range it has: the calendar drains the queue at
\* ridx while what is added goes to later ones (sched_clock, tdq_runq_add).
EventuallyRuns ==
    \A t \in Everyone :
        t \in Thread /\ td[t].state = "runq" ~> t \in Thread /\ td[t].state # "runq"
=============================================================================
