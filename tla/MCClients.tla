----------------------------- MODULE MCClients -----------------------------
(* Instances of Clients and its refinement for TLC. Nothing tells two      *)
(* pairs of tokens, or two tasks, apart. Two states with the same view     *)
(* have the same successors and satisfy the same properties: nothing reads *)
(* the access token of a task once it has fetched, a revoked token may as  *)
(* well not have expired, and nothing is expected of disturbed clients.    *)
EXTENDS ClientRefinement, TLC
ClientSymmetry == Permutations(Pairs) \cup Permutations(Tasks)

Undisturbed == Clients \ disturbed
InUse(r) == IF pc[r] = "fetching" THEN work[r] ELSE [work[r] EXCEPT !.access = NoPair]
ClientView ==
    <<kind, stored, screen, fresh, row, revoked, lapsed \ revoked, pc, disturbed,
      [r \in Tasks |-> InUse(r)], [k \in Undisturbed |-> session[k]],
      IF Undisturbed = {} THEN {} ELSE left>>
=============================================================================
