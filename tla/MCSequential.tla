---------------------------- MODULE MCSequential ----------------------------
(***************************************************************************)
(* Inputs of Sequential's parts for TLC.                                   *)
(***************************************************************************)
EXTENDS Sequential

CONSTANTS plain, short, dir, secret, lost

\* Five lines of a record and their neighbours.
SomeLengths == 0 .. 101
FirstLines  == {16, 45}

\* Files of every kind, and bodies of none, one and more than two buffers.
Kinds ==
    [f \in File |->
        CASE f = plain -> "plain" [] f = short -> "short" [] f = dir -> "directory"
          [] f = secret -> "denied" [] f = lost -> "orphan"]
Of(m, f, l) == [method |-> m, name |-> f, len |-> l]
Requests == {Of("PUT", plain, l) : l \in {0, Buffer, 2 * Buffer + 1}}
    \cup {Of("GET", f, 0) : f \in File}
    \cup {Of("PUT", f, 1) : f \in File \ {plain}}
    \cup {Of("HEAD", plain, 0), Of("BAD", plain, 0)}

\* Commands, pipelines, lists, redirections, and mixtures of them.
CommandLines ==
    {<< >>, <<"w">>, <<"w", "w", "w", "w", "w">>, <<"cd", "w">>, <<"exit">>,
     <<"w", "|", "w">>, <<"w", "|", "w", "w", "|", "w">>, <<"w", "|", "w", "|", "w", "|", "w">>,
     <<"w", ";", "w">>, <<"w", "w", ";", "w", ";", "w">>,
     <<"w", "<", "w">>, <<"w", ">", "w">>, <<"w", ">&", "w">>, <<"w", ">>", "w">>,
     <<"w", ">">>, <<"w", "<", "w", "|", "w">>, <<"w", "|", "w", ">", "w">>,
     <<"w", "|", "w", "<", "w">>,
     <<"w", "|", "w", ";", "w">>, <<"w", ";", "w", "|", "w">>}

\* All values of so many cpus in pairs and packages, and one by itself.
Group(mask, kids) == [mask |-> mask, kids |-> kids]
Pairs == [g \in {"top", "p0", "p1"} |->
            CASE g = "top" -> Group(0 .. 3, {"p0", "p1"})
              [] g = "p0" -> Group({0, 1}, {}) [] g = "p1" -> Group({2, 3}, {})]
Deep  == [g \in {"top", "p0", "p1", "c0", "c1"} |->
            CASE g = "top" -> Group(0 .. 3, {"p0", "p1"})
              [] g = "p0" -> Group({0, 1, 2}, {"c0", "c1"}) [] g = "p1" -> Group({3}, {})
              [] g = "c0" -> Group({0}, {}) [] g = "c1" -> Group({1, 2}, {})]
Flat  == [g \in {"top"} |-> Group(0 .. 3, {})]
Searches ==
    {[f |-> "cpu_search", topo |-> t, load |-> l, able |-> a, sign |-> s] :
        t \in {Pairs, Deep, Flat}, l \in [0 .. 3 -> 0 .. 2],
        a \in {{}, {1}, {0, 3}, {1, 2}, 0 .. 3}, s \in {1, -1}}

Roots == {[f |-> "isqrt", n |-> n] :
            n \in 0 .. 300 \cup {k * k - d : k \in {1000, 32767, 32768, 46339}, d \in {0, 1}}}
Limited ==
    {[f |-> "limits", version |-> v, machine |-> n * m, pages |-> n, free |-> n] :
        v \in {10, 11, 12}, m \in {1, 2},
        n \in {10, 1024, 1025, 1999, 2000, 2305, 4000, 5119} \cup {k * 1000 : k \in 6 .. 100}}
Slices == {[f |-> "slice", rate |-> r, new_val |-> v, sysload |-> l] :
            r \in {50, 100, 127, 128, 1000}, v \in {1, 1000, 16000, 94000, 1000000},
            l \in 0 .. 9}
AllInputs == Searches \cup Roots
                \cup {x \in Limited : x.version = 12 \/ x.machine = x.pages} \cup Slices

BothNice == {-20, 20}
=============================================================================
