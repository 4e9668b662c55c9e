----------------------------- MODULE OrderFlow -----------------------------
(***************************************************************************)
(* The order money flow of the API: orders, their payments, and the HTTP   *)
(* requests that work on them.  Every SQL statement the code issues        *)
(* outside an explicit transaction commits by itself, so a handler that    *)
(* reads, decides and writes is several actions here, and other requests   *)
(* run between them.  A request slot r \in Requests is one goroutine of    *)
(* one API replica; req[r].at names the statement it issues next.          *)
(***************************************************************************)
EXTENDS OrderStatus, Naturals, FiniteSets

CONSTANTS
  Orders,      \* order ids (UUIDs: never used twice)
  Payments,    \* payment ids
  Requests,    \* request slots
  Tenants,
  Owner,       \* Owner[o]: orders.tenant_id
  MaxFaults,   \* bound: statements that fail and requests that are cut off
  NoOrder, NoPayment, NoTenant

ASSUME OwnerAssumption == Owner \in [Orders -> Tenants]
ASSUME FaultsAssumption == MaxFaults \in Nat
ASSUME NoneAssumption ==
  NoOrder \notin Orders /\ NoPayment \notin Payments /\ NoTenant \notin Tenants

VARIABLES
  status,      \* orders.status, or "none" / "deleted" when there is no row
  payment,     \* payments: [ord, kind, status]
  files,       \* payments whose proof file is in object storage
  req,         \* the request each slot is serving
  faults,      \* failures so far
  (* history *)
  visited,     \* visited[o]: every status order o has had
  gateway,     \* orders the gateway's callback has set to payment_accepted
  cleared,     \* payments that have been "verified" at some time
  answered,    \* proof uploads answered 201
  confirmed,   \* charges whose order_confirmed message was sent
  actedFor     \* <<t, o>>: rows of order o were changed on behalf of tenant t

rows == <<status, payment, files>>
history == <<visited, gateway, cleared, answered, confirmed, actedFor>>
vars == <<rows, req, faults, history>>

PaymentStatus == {"submitted", "verified", "rejected"}
Point == {"idle", "set_write", "upload_put", "proof_read", "proof_add",
          "proof_move", "charge_add", "hook_pay", "hook_status", "hook_notify"}

Request == [at   : Point,
            ten  : Tenants \cup {NoTenant},    \* tenant the statements name
            ord  : Orders \cup {NoOrder},
            pay  : Payments \cup {NoPayment},
            seen : Status \cup {"none"},       \* status the request has read
            to   : Status \cup {"none"}]       \* status it will write

PaymentRecord == [ord    : Orders \cup {NoOrder},
                  kind   : {"none", "proof", "charge"},
                  status : PaymentStatus \cup {"none", "deleted"}]

Idle == [at |-> "idle", ten |-> NoTenant, ord |-> NoOrder, pay |-> NoPayment,
         seen |-> "none", to |-> "none"]
NoRow == [ord |-> NoOrder, kind |-> "none", status |-> "none"]

\* One invariant for the types of all variables.
TypeOK ==
  /\ status    \in [Orders -> Status \cup {"none", "deleted"}]
  /\ payment   \in [Payments -> PaymentRecord]
  /\ files     \subseteq Payments
  /\ req       \in [Requests -> Request]
  /\ faults    \in 0 .. MaxFaults
  /\ visited   \in [Orders -> SUBSET Status]
  /\ gateway   \subseteq Orders
  /\ cleared   \subseteq Payments
  /\ answered  \subseteq Payments
  /\ confirmed \subseteq Payments
  /\ actedFor  \subseteq Tenants \X Orders

Init ==
  /\ status    = [o \in Orders |-> "none"]
  /\ payment   = [p \in Payments |-> NoRow]
  /\ files     = {}
  /\ req       = [r \in Requests |-> Idle]
  /\ faults    = 0
  /\ visited   = [o \in Orders |-> {}]
  /\ gateway   = {}
  /\ cleared   = {}
  /\ answered  = {}
  /\ confirmed = {}
  /\ actedFor  = {}

-----------------------------------------------------------------------------
(* Rows and statements *)

OrderRow(o)   == status[o] \in Status
PaymentRow(p) == payment[p].status \in PaymentStatus

\* A payment id no row, stored file or request has used.
Fresh(p) ==
  /\ payment[p] = NoRow
  /\ p \notin files
  /\ \A r \in Requests : req[r].pay # p

\* Mutant: an upsert, which brings a deleted order back.
UpdateStatusUpsert(t, o, s) ==
  IF Owner[o] = t
  THEN /\ status'   = [status EXCEPT ![o] = s]
       /\ visited'  = [visited EXCEPT ![o] = @ \cup {s}]
       /\ actedFor' = actedFor \cup {<<t, o>>}
  ELSE UNCHANGED <<status, visited, actedFor>>

\* repo.UpdateStatus: UPDATE orders SET status=s WHERE id=o AND tenant_id=t.
\* The current status is not part of the WHERE clause.
UpdateStatus(t, o, s) ==
  IF OrderRow(o) /\ Owner[o] = t
  THEN /\ status'   = [status EXCEPT ![o] = s]
       /\ visited'  = [visited EXCEPT ![o] = @ \cup {s}]
       /\ actedFor' = actedFor \cup {<<t, o>>}
  ELSE UNCHANGED <<status, visited, actedFor>>

\* repo.AddPayment: INSERT INTO payments; the foreign key needs the order row.
AddPayment(p, o, k) ==
  /\ OrderRow(o)
  /\ payment' = [payment EXCEPT
                   ![p] = [ord |-> o, kind |-> k, status |-> "submitted"]]

\* Mutant: the join with orders is dropped from the UPDATE.
PaymentOfAnyTenant(t, p) == t \in Tenants /\ PaymentRow(p)

\* repo.SetPaymentStatus: the payment of any order of tenant t.
PaymentOf(t, p) == PaymentRow(p) /\ Owner[payment[p].ord] = t

SetPaymentStatus(t, p, s) ==
  IF PaymentOf(t, p)
  THEN /\ payment'  = [payment EXCEPT ![p].status = s]
       /\ cleared'  = IF s = "verified" THEN cleared \cup {p} ELSE cleared
       /\ actedFor' = actedFor \cup {<<t, payment[p].ord>>}
  ELSE UNCHANGED <<payment, cleared, actedFor>>

(* Requests *)

At(r, point) == req[r].at = point
Start(r, q)  == At(r, "idle") /\ req' = [req EXCEPT ![r] = q]
Goto(r, point) == req' = [req EXCEPT ![r].at = point]
Finish(r) == req' = [req EXCEPT ![r] = Idle]

\* One more statement fails, or one more request is cut off.
Fault == faults < MaxFaults /\ faults' = faults + 1

-----------------------------------------------------------------------------
(* Creating and deleting orders: one transaction, one statement. *)

\* Service.CreateAdmin and GuestCheckout, to the commit of repo.Create.
CreateOrder(o) ==
  /\ status[o] = "none"
  /\ status'  = [status EXCEPT ![o] = "pending"]
  /\ visited' = [visited EXCEPT ![o] = {"pending"}]
  /\ UNCHANGED <<payment, files, req, faults, gateway, cleared, answered,
                 confirmed, actedFor>>

\* Mutant: the foreign key does not cascade.
DeleteOrderOnly(t, o) ==
  /\ OrderRow(o) /\ Owner[o] = t
  /\ status'   = [status EXCEPT ![o] = "deleted"]
  /\ actedFor' = actedFor \cup {<<t, o>>}
  /\ UNCHANGED <<payment, files, req, faults, visited, gateway, cleared,
                 answered, confirmed>>

\* Service.Delete; ON DELETE CASCADE takes the payments, the files stay.
DeleteOrder(t, o) ==
  /\ OrderRow(o) /\ Owner[o] = t
  /\ status'   = [status EXCEPT ![o] = "deleted"]
  /\ payment'  = [p \in Payments |->
                    IF PaymentRow(p) /\ payment[p].ord = o
                    THEN [payment[p] EXCEPT !.status = "deleted"]
                    ELSE payment[p]]
  /\ actedFor' = actedFor \cup {<<t, o>>}
  /\ UNCHANGED <<files, req, faults, visited, gateway, cleared, answered,
                 confirmed>>

-----------------------------------------------------------------------------
(* PATCH /orders/:id/status and the copilot's advance_order_status *)

\* Mutant: the transition table is not consulted.
SetStatusReadUnchecked(r, t, o, to) ==
  /\ OrderRow(o) /\ Owner[o] = t
  /\ status[o] # to
  /\ Start(r, [at |-> "set_write", ten |-> t, ord |-> o, pay |-> NoPayment,
               seen |-> status[o], to |-> to])
  /\ UNCHANGED <<rows, faults, history>>

\* Service.UpdateStatus up to CanTransition; a request for the status the
\* order has, or for one the table does not allow, ends here unchanged.
SetStatusRead(r, t, o, to) ==
  /\ OrderRow(o) /\ Owner[o] = t
  /\ CanTransition(status[o], to)
  /\ Start(r, [at |-> "set_write", ten |-> t, ord |-> o, pay |-> NoPayment,
               seen |-> status[o], to |-> to])
  /\ UNCHANGED <<rows, faults, history>>

SetStatusWrite(r) ==
  /\ At(r, "set_write")
  /\ UpdateStatus(req[r].ten, req[r].ord, req[r].to)
  /\ Finish(r)
  /\ UNCHANGED <<payment, files, faults, gateway, cleared, answered, confirmed>>

-----------------------------------------------------------------------------
(* POST /invoice/:id/payment: PublicUploadPayment, then AddPaymentProof *)

\* The handler finds the order and accepts the file.
UploadRead(r, o, p) ==
  /\ OrderRow(o) /\ Fresh(p)
  /\ Start(r, [Idle EXCEPT !.at = "upload_put", !.ten = Owner[o],
                           !.ord = o, !.pay = p])
  /\ UNCHANGED <<rows, faults, history>>

UploadPut(r) ==
  /\ At(r, "upload_put")
  /\ files' = files \cup {req[r].pay}
  /\ Goto(r, "proof_read")
  /\ UNCHANGED <<status, payment, faults, history>>

\* AddPaymentProof reads the order again, and keeps the status it saw.
ProofRead(r) ==
  /\ At(r, "proof_read")
  /\ IF OrderRow(req[r].ord)
     THEN req' = [req EXCEPT ![r].at = "proof_add",
                             ![r].seen = status[req[r].ord]]
     ELSE Finish(r)
  /\ UNCHANGED <<rows, faults, history>>

\* Mutant: the upload is answered before the order is moved.
ProofAddAnswers(r) ==
  /\ At(r, "proof_add")
  /\ \/ /\ AddPayment(req[r].pay, req[r].ord, "proof")
        /\ Goto(r, "proof_move")
        /\ answered' = answered \cup {req[r].pay}
     \/ /\ ~OrderRow(req[r].ord)
        /\ Finish(r)
        /\ UNCHANGED <<payment, answered>>
  /\ UNCHANGED <<status, files, faults, visited, gateway, cleared, confirmed,
                 actedFor>>

\* The row is inserted whatever the order's status; without an order row the
\* foreign key refuses it and the stored file stays behind.
ProofAdd(r) ==
  /\ At(r, "proof_add")
  /\ \/ /\ AddPayment(req[r].pay, req[r].ord, "proof")
        /\ Goto(r, "proof_move")
     \/ /\ ~OrderRow(req[r].ord)
        /\ Finish(r)
        /\ UNCHANGED payment
  /\ UNCHANGED <<status, files, faults, history>>

\* Only an order seen as pending is moved; a failure of the UPDATE is dropped
\* (`_ =`) and the upload is answered 201 all the same.
ProofMove(r) ==
  /\ At(r, "proof_move")
  /\ \/ /\ req[r].seen = "pending"
        /\ UpdateStatus(req[r].ten, req[r].ord, "payment_received")
        /\ UNCHANGED faults
     \/ /\ req[r].seen # "pending"
        /\ UNCHANGED <<status, visited, actedFor, faults>>
     \/ /\ req[r].seen = "pending"
        /\ Fault
        /\ UNCHANGED <<status, visited, actedFor>>
  /\ answered' = answered \cup {req[r].pay}
  /\ Finish(r)
  /\ UNCHANGED <<payment, files, gateway, cleared, confirmed>>

\* PATCH /payments/:pid: the seller's verdict on one payment, one statement.
\* The order is not touched.
VerifyPayment(t, p, accept) ==
  /\ PaymentOf(t, p)
  /\ SetPaymentStatus(t, p, IF accept THEN "verified" ELSE "rejected")
  /\ UNCHANGED <<status, files, req, faults, visited, gateway, answered,
                 confirmed>>

-----------------------------------------------------------------------------
(* The payment gateway: POST /orders/:id/charge, POST /payments/webhook *)

ChargeRead(r, t, o, p) ==
  /\ OrderRow(o) /\ Owner[o] = t /\ Fresh(p)
  /\ Start(r, [Idle EXCEPT !.at = "charge_add", !.ten = t, !.ord = o, !.pay = p])
  /\ UNCHANGED <<rows, faults, history>>

ChargeAdd(r) ==
  /\ At(r, "charge_add")
  /\ \/ AddPayment(req[r].pay, req[r].ord, "charge")
     \/ ~OrderRow(req[r].ord) /\ UNCHANGED payment
  /\ Finish(r)
  /\ UNCHANGED <<status, files, faults, history>>

\* The gateway reports a charge paid, possibly more than once and at any later
\* time; the order's status is not looked at.
HookRead(r, p) ==
  /\ payment[p].kind = "charge"
  /\ OrderRow(payment[p].ord)
  /\ Start(r, [Idle EXCEPT !.at = "hook_pay", !.ten = Owner[payment[p].ord],
                           !.ord = payment[p].ord, !.pay = p])
  /\ UNCHANGED <<rows, faults, history>>

\* Each of the three calls of the callback may fail; each failure is dropped.
HookPay(r) ==
  /\ At(r, "hook_pay")
  /\ \/ SetPaymentStatus(req[r].ten, req[r].pay, "verified") /\ UNCHANGED faults
     \/ Fault /\ UNCHANGED <<payment, cleared, actedFor>>
  /\ Goto(r, "hook_status")
  /\ UNCHANGED <<status, files, visited, gateway, answered, confirmed>>

\* Mutant: the callback moves the order only where the table allows it.
HookStatusByTable(r) ==
  /\ At(r, "hook_status")
  /\ IF OrderRow(req[r].ord) /\ CanTransition(status[req[r].ord], "payment_accepted")
     THEN /\ UpdateStatus(req[r].ten, req[r].ord, "payment_accepted")
          /\ gateway' = gateway \cup {req[r].ord}
     ELSE UNCHANGED <<status, visited, gateway, actedFor>>
  /\ Goto(r, "hook_notify")
  /\ UNCHANGED <<payment, files, faults, cleared, answered, confirmed>>

HookStatus(r) ==
  /\ At(r, "hook_status")
  /\ \/ /\ UpdateStatus(req[r].ten, req[r].ord, "payment_accepted")
        /\ gateway' = IF OrderRow(req[r].ord) THEN gateway \cup {req[r].ord}
                                              ELSE gateway
        /\ UNCHANGED faults
     \/ Fault /\ UNCHANGED <<status, visited, gateway, actedFor>>
  /\ Goto(r, "hook_notify")
  /\ UNCHANGED <<payment, files, cleared, answered, confirmed>>

HookNotify(r) ==
  /\ At(r, "hook_notify")
  /\ \/ confirmed' = confirmed \cup {req[r].pay} /\ UNCHANGED faults
     \/ Fault /\ UNCHANGED confirmed
  /\ Finish(r)
  /\ UNCHANGED <<rows, visited, gateway, cleared, answered, actedFor>>

-----------------------------------------------------------------------------
\* A request ends early: the process dies, the client goes away and its
\* context is cancelled, or a statement whose error is returned fails.
CutOff(r) ==
  /\ ~At(r, "idle")
  /\ Fault
  /\ Finish(r)
  /\ UNCHANGED <<rows, history>>

Step(r) ==
  \/ SetStatusWrite(r)
  \/ UploadPut(r) \/ ProofRead(r) \/ ProofAdd(r) \/ ProofMove(r)
  \/ ChargeAdd(r)
  \/ HookPay(r) \/ HookStatus(r) \/ HookNotify(r)
  \/ CutOff(r)

Arrive(r) ==
  \/ \E t \in Tenants, o \in Orders, to \in Status : SetStatusRead(r, t, o, to)
  \/ \E o \in Orders, p \in Payments : UploadRead(r, o, p)
  \/ \E t \in Tenants, o \in Orders, p \in Payments : ChargeRead(r, t, o, p)
  \/ \E p \in Payments : HookRead(r, p)

Next ==
  \/ \E o \in Orders : CreateOrder(o)
  \/ \E t \in Tenants, o \in Orders : DeleteOrder(t, o)
  \/ \E t \in Tenants, p \in Payments, accept \in BOOLEAN :
        VerifyPayment(t, p, accept)
  \/ \E r \in Requests : Arrive(r) \/ Step(r)

Spec == Init /\ [][Next]_vars
-----------------------------------------------------------------------------
(* Properties *)

\* Every status an order has ever had is explained by its history: it is the
\* "pending" of its creation, the "payment_accepted" of a gateway callback, or
\* the table allows it after some other status the order has had.  So no order
\* is ever shipped that was not accepted, or rejected that was not received,
\* although UpdateStatus writes without looking at the status it replaces.
Explained(o, s) ==
  \/ s = "pending"
  \/ s = "payment_accepted" /\ o \in gateway
  \/ \E from \in visited[o] : CanTransition(from, s)

LifecycleProvenance == \A o \in Orders : \A s \in visited[o] : Explained(o, s)

\* A pending order that was moved on never becomes pending again, whatever
\* requests overlap: what AddPaymentProof relies on when it compares the
\* status it read before the INSERT.
NeverReopened ==
  [][\A o \in Orders : status[o] # "none" /\ status[o] # "pending"
                          => status'[o] # "pending"]_status

\* Once an upload was answered 201, its order is not (any more) pending, even
\* if the order was moved by others between the handler's statements; unless
\* something has failed, for the handler drops the error of its last statement.
AnsweredProofLeavesPending ==
  \A p \in answered :
     faults = 0 /\ PaymentRow(p) => status[payment[p].ord] # "pending"

\* When the confirmation of a paid callback has been sent, the payment was
\* marked verified and its order was moved to payment_accepted, unless the
\* order (and with it the payment) was deleted or something has failed.
Settled(p) ==
  PaymentRow(p) => p \in cleared /\ "payment_accepted" \in visited[payment[p].ord]

PaidCallbackSettles == faults = 0 => \A p \in confirmed : Settled(p)

\* A payment row belongs to an existing order, and the proof it names is in
\* object storage, through deletes between an upload's read and its INSERT.
PaymentRowsWhole ==
  \A p \in Payments :
     PaymentRow(p) => /\ OrderRow(payment[p].ord)
                      /\ payment[p].kind = "proof" => p \in files

\* No statement issued for one tenant changes an order or a payment of
\* another: the tenant check of the read protects the later writes, and the
\* payment's UPDATE joins its order.
TenantIsolation == \A ta \in actedFor : Owner[ta[2]] = ta[1]

\* The money flow keeps the promise of OrderLifecycle.
Lifecycle == INSTANCE OrderLifecycle
ImplementsLifecycle == Lifecycle!Spec

(* The inductive strengthening of the invariants above *)

\* What a request under way knows: its order and the order's tenant, a payment
\* of its own, and a status that its order has had.
RequestSound(q) ==
  /\ q.at # "idle" => q.ord \in Orders /\ q.ten = Owner[q.ord]
  /\ q.at \notin {"idle", "set_write"} => q.pay \in Payments
  /\ q.at \in {"proof_read", "proof_add", "proof_move"} => q.pay \in files
  /\ q.at \in {"set_write", "proof_add", "proof_move"} =>
        q.seen \in visited[q.ord]
  /\ q.at = "set_write" => CanTransition(q.seen, q.to)

RequestsSound == \A r \in Requests : RequestSound(req[r])

\* A payment that was ever inserted names its order.
PaymentsNamed ==
  \A p \in Payments : payment[p].kind # "none" \/ PaymentRow(p)
                      => payment[p].ord \in Orders

\* The history of an order starts at its creation and includes the present.
HistorySound ==
  \A o \in Orders :
    /\ status[o] = "none" => visited[o] = {}
    /\ OrderRow(o) => status[o] \in visited[o]
    /\ visited[o] # {} => "pending" \in visited[o]

OrderInv ==
  /\ TypeOK
  /\ RequestsSound
  /\ PaymentsNamed
  /\ HistorySound
  /\ LifecycleProvenance
  /\ PaymentRowsWhole
  /\ TenantIsolation

(* The inductive strengthening of AnsweredProofLeavesPending and               *)
(* PaidCallbackSettles, on top of OrderInv                                     *)

Left(o) == status[o] \notin {"none", "pending"}

\* A payment id that is still to be inserted is in one request's hands; one that
\* was inserted names the order of whoever works on it.
Adding == {"upload_put", "proof_read", "proof_add", "charge_add"}
Inserted(p) == payment[p].kind # "none"

HandsSound ==
  /\ \A r \in Requests : req[r].at \in Adding =>
       /\ ~Inserted(req[r].pay)
       /\ \A s \in Requests \ {r} : req[s].pay # req[r].pay
  /\ \A r \in Requests :
       req[r].at \in {"proof_move", "hook_pay", "hook_status", "hook_notify"} =>
         Inserted(req[r].pay) /\ payment[req[r].pay].ord = req[r].ord
  /\ \A p \in answered \cup confirmed : Inserted(p)

\* A proof that will not move its order has read that it had left "pending".
SeenLeft(q) ==
  q.at \in {"proof_add", "proof_move"} /\ q.seen # "pending" => Left(q.ord)

\* What the callback has done so far, if nothing has failed.
HookSound(q) ==
  faults = 0 /\ PaymentRow(q.pay) =>
    /\ q.at \in {"hook_status", "hook_notify"} => q.pay \in cleared
    /\ q.at = "hook_notify" => "payment_accepted" \in visited[q.ord]

SettleInv ==
  /\ HandsSound
  /\ \A r \in Requests : SeenLeft(req[r])
  /\ \A r \in Requests : req[r].pay \in Payments => HookSound(req[r])
  /\ AnsweredProofLeavesPending
  /\ PaidCallbackSettles

(* What the code's comments and documents say, and the code does not do *)

\* "the allowed forward transitions" (repo.go): a status a seller changes is
\* changed along the table.
SellerFollowsTable ==
  [][\A o \in Orders :
        /\ o \notin gateway'
        /\ status[o] \in Status /\ status'[o] \in Status
        /\ status'[o] # status[o]
        => CanTransition(status[o], status'[o])]_vars
=============================================================================
