------------------------ MODULE MCOrderTransactions ------------------------
(***************************************************************************)
(* OrderTransactions, its refinement and the summary of its rows on small  *)
(* sets of orders, couriers and request slots.                             *)
(***************************************************************************)
EXTENDS OrderRefinement, OrderAnalytics, TLC

\* Orders, couriers and request slots are interchangeable: the code never compares ids by order.
Symmetry == Permutations(Orders) \cup Permutations(Couriers) \cup Permutations(Requests)

=============================================================================
