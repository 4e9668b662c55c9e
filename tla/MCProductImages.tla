-------------------------- MODULE MCProductImages --------------------------
(* ProductImages on small instances. *)
EXTENDS ProductImages, TLC

\* Nothing distinguishes products, keys or request slots.
Symmetry ==
  Permutations(Products) \cup Permutations(Keys) \cup Permutations(Requests)
=============================================================================
