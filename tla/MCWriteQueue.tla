---------------------------- MODULE MCWriteQueue ----------------------------
(***************************************************************************)
(* The plugins of a node with the default configuration, in the order they *)
(* start (programs/deltad/main.cpp): the chain plugin, the p2p plugin with *)
(* its one thread, the web server with a pool of threads of which one      *)
(* sends transactions and two read.                                        *)
(***************************************************************************)
EXTENDS WriteQueue

CONSTANTS p2p, api, r1, r2

DefaultCallers == {p2p, api}
DefaultReaders == {r1, r2}
DefaultOrder == <<{Chain}, {p2p}, {api, r1, r2}>>
=============================================================================
