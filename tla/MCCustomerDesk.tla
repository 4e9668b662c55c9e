--------------------------- MODULE MCCustomerDesk ---------------------------
(* CustomerDesk on small instances. *)
EXTENDS CustomerDesk, TLC

CONSTANTS c1, c2, c3, k1, k2

\* Two of the ids begin with the same digits.
MCPrefix == (c1 :> k1) @@ (c2 :> k1) @@ (c3 :> k2)

\* Nothing distinguishes those two ids, data or request slots.
Symmetry ==
  Permutations({c1, c2}) \cup Permutations(Data) \cup Permutations(Requests)
=============================================================================
