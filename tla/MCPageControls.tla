--------------------------- MODULE MCPageControls ---------------------------
(* Two pages and a process; two domains and two processes; two processes,  *)
(* of which one hogs memory and one is swapped out.                        *)
EXTENDS PageControls

MCProcLists ==
    {<< [size |-> 1, protected |-> FALSE], [size |-> 2, protected |-> FALSE] >>,
     << [size |-> 1, protected |-> FALSE], [size |-> 2, protected |-> TRUE] >>}
MCSwapProcs ==
    << [skip |-> FALSE, inmem |-> TRUE, limit |-> 2, avail |-> 1, rss |-> 4],
       [skip |-> FALSE, inmem |-> FALSE, limit |-> 2, avail |-> 4, rss |-> 1] >>
=============================================================================
