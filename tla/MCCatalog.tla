----------------------------- MODULE MCCatalog -----------------------------
(* Catalog on small instances. *)
EXTENDS Catalog, TLC

CONSTANTS x, y, lower, upper, c1

\* A new product or an edit: two SKUs, one in both cases, both prices, with and
\* without a category and a status.
MCInputs ==
  {[sku |-> <<x, lower>>, cat |-> None, price |-> 1, status |-> ""],
   [sku |-> <<x, upper>>, cat |-> c1, price |-> 2, status |-> "inactive"],
   [sku |-> <<y, lower>>, cat |-> None, price |-> 1, status |-> ""]}

MCLabels == {<<x, lower>>}

\* Nothing distinguishes product ids, tenants or request slots.
Symmetry ==
  Permutations(Products) \cup Permutations(Tenants)
    \cup Permutations(Requests)
=============================================================================
