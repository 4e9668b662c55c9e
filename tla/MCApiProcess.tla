---------------------------- MODULE MCApiProcess ----------------------------
(* ApiProcess on small instances. *)
EXTENDS ApiProcess, TLC

CONSTANTS server, seed1, seed2

\* A server with two migrations beside seeders of a later version.
MCKnown == (server :> 2) @@ (seed1 :> 3) @@ (seed2 :> 3)
MCMaxRequests == (server :> 3)

\* A tenant, a category, a product and an order.
MCScript == <<"upsert", "unique", "product", "plain">>
=============================================================================
