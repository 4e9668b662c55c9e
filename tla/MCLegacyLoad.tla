---------------------------- MODULE MCLegacyLoad ----------------------------
(* LegacyLoad on small instances. *)
EXTENDS LegacyLoad, TLC

CONSTANTS user, prod, cust1, cust2, shop

\* A seller, a product, two customers without a loyalty code, and a customer
\* that only the new system knows.
MCTableOf == (user :> 1) @@ (prod :> 2) @@ (cust1 :> 3) @@ (cust2 :> 3) @@ (shop :> 3)
MCRefs == (user :> {}) @@ (prod :> {user}) @@ (cust1 :> {user}) @@ (cust2 :> {user})
            @@ (shop :> {user})
MCKey == (user :> Absent) @@ (prod :> Absent) @@ (cust1 :> "empty") @@ (cust2 :> "empty")
            @@ (shop :> Absent)
=============================================================================
