--------------------------- MODULE MCLoadBalancer ---------------------------
(***************************************************************************)
(* LoadBalancer with clients that come one at a time to a balancer whose   *)
(* threads poll, with hasty clients, with clients that hang up, with       *)
(* health checks that fail half way, and with descriptors that run out.    *)
(***************************************************************************)
EXTENDS LoadBalancer

Gentle == [polls |-> TRUE, gentle |-> TRUE, faults |-> {"dead"},
           answers |-> {<< 1, 0 >>}, up |-> SUBSET Server]
Faulty == [polls |-> TRUE, gentle |-> TRUE, faults |-> {"short", "error"},
           answers |-> {<< 0, 1 >>, << 1, 0 >>}, up |-> {Server}]
Hasty  == [polls |-> FALSE, gentle |-> FALSE, faults |-> {},
           answers |-> {<< 0, 0 >>}, up |-> {Server}]
Leaving == [Hasty EXCEPT !.polls = TRUE, !.faults = {"hangup"}]

Leaking == [Gentle EXCEPT !.faults = {"leak"}, !.answers = {<< 0, 0 >>}, !.up = {{0}}]

MCScenes == {Gentle, Faulty, Hasty, Leaving, Leaking}
=============================================================================
