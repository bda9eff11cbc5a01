----------------------------- MODULE CpuSearch -----------------------------
(***************************************************************************)
(* cpu_search of sched_ule.c: the walk over the tree of cpu groups that    *)
(* finds the least (most) loaded eligible cpu on the least (most) loaded   *)
(* path.  A topology is a function from group names to records             *)
(*     [mask, kids, level, thread, up]                                     *)
(* kids being the names of the child groups and up the name of the parent, *)
(* "top" the root.  What the walk reads of a struct tdq are its load,      *)
(* lowpri and transferable count.                                          *)
(*                                                                         *)
(* The random number that cpu_search subtracts from a cpu's load (0 .. 31, *)
(* less than the step between two loads) only decides between cpus that    *)
(* are otherwise equal: a search returns the set of cpus it may settle on, *)
(* the empty set for its -1.                                               *)
(***************************************************************************)
EXTENDS Integers, FiniteSets, FiniteSetsExt

TOP     == "top"
INT_MAX == 2147483647

\* A child of a group as cpu_search compares them: the load of the whole
\* child, the load of the cpu found in it, and the cpus that may be found.
Leaf(c, load, eligible) ==
    [load |-> load, best |-> load, cpus |-> IF eligible THEN {c} ELSE {}]

Before(x, y, sign) ==
    \/ sign * x.load < sign * y.load
    \/ x.load = y.load /\ sign * x.best < sign * y.best

\* Mutant: the least loaded cpu of all children, the paths to them ignored.
FoundAnywhere(items, sign) ==
    LET found == {x \in items : x.cpus # {}}
        first == {x \in found : \A y \in found : sign * x.best <= sign * y.best}
    IN  [load |-> MapThenSumSet(LAMBDA x : x.load, items),
         best |-> IF first = {} THEN 0 ELSE (CHOOSE x \in first : TRUE).best,
         cpus |-> UNION {x.cpus : x \in first}]

\* The result for a group from those of its children: the sum of the loads,
\* and the cpus of the first of the children in which any was found.
Found(items, sign) ==
    LET found == {x \in items : x.cpus # {}}
        first == {x \in found : \A y \in found : ~Before(y, x, sign)}
    IN  [load |-> MapThenSumSet(LAMBDA x : x.load, items),
         best |-> IF first = {} THEN 0 ELSE (CHOOSE x \in first : TRUE).best,
         cpus |-> UNION {x.cpus : x \in first}]

\* The walk from group g: child groups first, then the cpus in none of them.
\* sign is 1 for the lowest load and -1 for the highest.
cpu_search(topo, g, leaf, sign) ==
    LET Rest(h) == topo[h].mask \ UNION {topo[i].mask : i \in topo[h].kids}
        Tagged(tag, x) == [tag |-> tag, load |-> x.load,
                           best |-> x.best, cpus |-> x.cpus]
        walk[h \in DOMAIN topo] ==
            Found({Tagged(<< 0, i >>, walk[i]) : i \in topo[h].kids}
                    \cup {Tagged(<< 1, c >>, leaf[c]) : c \in Rest(h)}, sign)
    IN  walk[g].cpus

\* The cpu of mask with the least load among those whose lowpri is greater
\* than pri and whose load is at most maxload.  A cpu's load counts 256, and
\* the preferred one is a quarter of that lighter.
sched_lowest(topo, tdq, g, mask, pri, maxload, prefer) ==
    cpu_search(topo, g,
        [c \in topo[g].mask |->
            Leaf(c, tdq[c].load * 256 - (IF c = prefer THEN 64 ELSE 0),
                 c \in mask /\ tdq[c].lowpri > pri /\ tdq[c].load <= maxload)], 1)

\* The cpu of mask with the highest load among those that have a load of
\* minload and a thread that may be transferred.
sched_highest(topo, tdq, g, mask, minload) ==
    cpu_search(topo, g,
        [c \in topo[g].mask |->
            Leaf(c, tdq[c].load * 256,
                 c \in mask /\ tdq[c].load >= minload /\ tdq[c].transferable # 0)], -1)

\* The smallest group of a cpu (smp_topo_find), and the groups that hold it
\* from the smallest to the root.
LeafOf(topo, c) ==
    CHOOSE g \in DOMAIN topo :
        c \in topo[g].mask /\ \A i \in topo[g].kids : c \notin topo[i].mask
Holding(topo, c) == {g \in DOMAIN topo : c \in topo[g].mask}
=============================================================================
