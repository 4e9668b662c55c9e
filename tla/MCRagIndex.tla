----------------------------- MODULE MCRagIndex -----------------------------
(* RagIndex on small instances. *)
EXTENDS RagIndex, TLC

CONSTANTS prod, cust, t1, t2, short, long

\* A product of one tenant, a customer of another.
MCTenantOf == (prod :> t1) @@ (cust :> t2)
MCTypeOf == (prod :> "product") @@ (cust :> "customer")
MCTypes == <<"product", "customer">>

\* A text of one window, and one of two.
MCWords == (short :> 2) @@ (long :> 5)
=============================================================================
