--------------------------- MODULE OrderLifecycle ---------------------------
(***************************************************************************)
(* What the order API promises about the status of an order, with no       *)
(* requests, statements or failures in sight.                              *)
(*                                                                         *)
(* The service checks CanTransition against the status it READ and then    *)
(* writes without looking again, so the promise cannot be "every change    *)
(* follows the transition table".  What survives the races is weaker: a    *)
(* status is only ever given to an order that at some time had a status    *)
(* from which the table allows it -- except "payment_accepted", which the  *)
(* payment gateway may set at any time.                                    *)
(***************************************************************************)
EXTENDS OrderStatus

CONSTANT Orders

VARIABLES
  status,    \* status[o]: a Status, "none" before checkout, "deleted" after
  visited    \* visited[o]: every status order o has had

vars == <<status, visited>>

Init ==
  /\ status  = [o \in Orders |-> "none"]
  /\ visited = [o \in Orders |-> {}]

Become(o, s) ==
  /\ status'  = [status EXCEPT ![o] = s]
  /\ visited' = [visited EXCEPT ![o] = @ \cup {s}]

\* A checkout or a seller creates the order.
Open(o) == status[o] = "none" /\ Become(o, "pending")

\* A status change justified by some status the order has had.
Advance(o) ==
  /\ status[o] \in Status
  /\ \E from \in visited[o], to \in Status :
        CanTransition(from, to) /\ Become(o, to)

\* The gateway reports the order paid.
Accept(o) == status[o] \in Status /\ Become(o, "payment_accepted")

\* The seller deletes the order; its id is never used again.
Remove(o) ==
  /\ status[o] \in Status
  /\ status' = [status EXCEPT ![o] = "deleted"]
  /\ UNCHANGED visited

Next == \E o \in Orders : Open(o) \/ Advance(o) \/ Accept(o) \/ Remove(o)

Spec == Init /\ [][Next]_vars
=============================================================================
