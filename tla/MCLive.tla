------------------------------- MODULE MCLive -------------------------------
(* Instances of Live for TLC: the couriers are of company a, and the tab of *)
(* a or of b.                                                               *)
EXTENDS Live, TLC
CONSTANTS a, b
MCEmployer == [c \in Couriers |-> a]
MCSymmetry == Permutations(Requests) \cup Permutations(Statuses)
=============================================================================
