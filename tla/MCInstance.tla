----------------------------- MODULE MCInstance -----------------------------
(* Module Instance for TLC: the ports are interchangeable. *)
EXTENDS Instance, TLC

PortSymmetry == Permutations(Ports)
=============================================================================
