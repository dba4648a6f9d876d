---------------------------- MODULE MCHubServer ----------------------------
(***************************************************************************)
(* Finite instances of HubServer.                                          *)
(***************************************************************************)
EXTENDS HubServer, TLC

\* Safety runs: connections, and devices, are interchangeable.
Symmetry == Permutations(Connections) \cup Permutations(Devices)
=============================================================================
