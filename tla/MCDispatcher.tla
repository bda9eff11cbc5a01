---------------------------- MODULE MCDispatcher ----------------------------
(***************************************************************************)
(* Instances of Dispatcher for TLC.                                        *)
(***************************************************************************)
EXTENDS Dispatcher, TLC

\* Numbers are interchangeable; workers are scanned in order and are not.
SymmetricSockd == Permutations(Sockd)
=============================================================================
