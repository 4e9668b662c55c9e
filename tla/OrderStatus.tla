---------------------------- MODULE OrderStatus ----------------------------
(***************************************************************************)
(* The order statuses of the orders table and the transition table that    *)
(* orders.CanTransition consults.                                          *)
(***************************************************************************)

\* The CHECK constraint of orders.status.
Status == {"pending", "payment_received", "payment_accepted", "shipped",
           "expired", "cancelled", "rejected"}

\* Go's `transitions` map: the statuses a status may be moved to.
transitions ==
  [s \in Status |->
     CASE s = "pending"          -> {"payment_received", "cancelled", "expired"}
       [] s = "payment_received" -> {"payment_accepted", "rejected", "cancelled"}
       [] s = "payment_accepted" -> {"shipped", "cancelled"}
       [] s = "rejected"         -> {"payment_received"}
       [] OTHER                  -> {}]

CanTransition(from, to) == from \in Status /\ to \in transitions[from]

\* Statuses from which the table allows no move.
Closed == {"shipped", "expired", "cancelled"}
=============================================================================
