----------------------------- MODULE MCDevices -----------------------------
(* Instances of Devices for TLC: the couriers are of company a, and staff *)
(* of company b try to get hold of them and of a's devices.               *)
EXTENDS Devices, TLC
CONSTANTS a, b
MCSymmetry == Permutations(Conns) \cup Permutations(Devices) \cup Permutations(Couriers)
MCEmployer == [c \in Couriers |-> a]
=============================================================================
