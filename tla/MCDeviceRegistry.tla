-------------------------- MODULE MCDeviceRegistry --------------------------
(***************************************************************************)
(* Finite instances of DeviceRegistry.                                     *)
(***************************************************************************)
EXTENDS DeviceRegistry, TLC

Symmetry == Permutations(Ports)
=============================================================================
