--------------------------- MODULE MCAuthSessions ---------------------------
(***************************************************************************)
(* AuthSessions and its refinement on small sets of tokens and codes.      *)
(***************************************************************************)
EXTENDS SessionRefinement, TLC

\* Tokens, codes and request slots are interchangeable: the code only compares them for equality.
Symmetry == Permutations(Tokens) \cup Permutations(Codes) \cup Permutations(Requests)

=============================================================================
