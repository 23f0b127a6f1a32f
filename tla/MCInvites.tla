----------------------------- MODULE MCInvites -----------------------------
(* Instances of Invites for TLC. Nothing tells two e-mail addresses, two *)
(* invites, two requests or two tabs apart.                              *)
EXTENDS Invites, TLC

InviteSymmetry ==
    Permutations(Emails) \cup Permutations(Invites) \cup Permutations(Requests)
        \cup Permutations(Tabs) \cup Permutations(Companies)

=============================================================================
