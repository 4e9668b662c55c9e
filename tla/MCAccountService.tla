-------------------------- MODULE MCAccountService --------------------------
(* AccountService on small instances. *)
EXTENDS AccountService, TLC

\* Nothing distinguishes ids, names, addresses, passwords or request slots.
Symmetry ==
  Permutations(Accounts) \cup Permutations(Names) \cup Permutations(Emails)
    \cup Permutations(Tokens) \cup Permutations(Requests) \cup Permutations(Passwords)
=============================================================================
