-------------------------- MODULE OrderFlowProofs --------------------------
(***************************************************************************)
(* OrderInv is an inductive invariant of the money flow, for any orders,   *)
(* payments, request slots, tenants and any number of failures; and the    *)
(* money flow implements OrderLifecycle.                                   *)
(***************************************************************************)
EXTENDS OrderFlow, TLAPS

(* Facts about the transition table *)

\* The table moves an order between statuses, and never to "pending".
LEMMA TableSound ==
  \A from, to : CanTransition(from, to) => to \in Status \ {"pending"}
  <1> SUFFICES ASSUME NEW from \in Status, NEW to, to \in transitions[from]
               PROVE  to \in Status \ {"pending"}
    BY DEF CanTransition
  <1>1. transitions[from] \subseteq Status \ {"pending"}
    BY DEF transitions, Status
  <1> QED
    BY <1>1

(* The initial states *)

\* The invariant holds when there are no orders and no requests.
LEMMA InitInv == Init => OrderInv
  <1> SUFFICES ASSUME Init PROVE OrderInv
    OBVIOUS
  <1> USE DEF Init
  <1>1. TypeOK
    BY FaultsAssumption DEF TypeOK, PaymentRecord, Request, Idle, NoRow, Point
  <1>2. RequestsSound
    BY DEF RequestsSound, RequestSound, Idle
  <1>3. PaymentsNamed /\ HistorySound /\ LifecycleProvenance /\ PaymentRowsWhole
    BY DEF PaymentsNamed, HistorySound, LifecycleProvenance, PaymentRowsWhole,
           PaymentRow, OrderRow, NoRow, PaymentStatus, Status
  <1>4. TenantIsolation
    BY DEF TenantIsolation
  <1> QED
    BY <1>1, <1>2, <1>3, <1>4 DEF OrderInv

(* Types *)

\* Moving a request on keeps its type.
LEMMA GotoType ==
  ASSUME req \in [Requests -> Request], NEW r \in Requests, NEW point \in Point
  PROVE  [req EXCEPT ![r].at = point] \in [Requests -> Request]
  BY DEF Request

\* So does moving it on while remembering the status it has read.
LEMMA ReadType ==
  ASSUME req \in [Requests -> Request], NEW r \in Requests, NEW point \in Point,
         NEW s \in Status
  PROVE  [req EXCEPT ![r].at = point, ![r].seen = s] \in [Requests -> Request]
  <1> DEFINE q == [req[r] EXCEPT !.at = point, !.seen = s]
  <1>1. q \in Request
    BY DEF Request
  <1>2. [req EXCEPT ![r].at = point, ![r].seen = s] = [req EXCEPT ![r] = q]
    OBVIOUS
  <1> QED
    BY <1>1, <1>2

\* So does emptying its slot.
LEMMA FinishType ==
  ASSUME req \in [Requests -> Request], NEW r \in Requests
  PROVE  [req EXCEPT ![r] = Idle] \in [Requests -> Request]
  BY DEF Request, Idle, Point

\* repo.UpdateStatus keeps the types of the rows it writes.
LEMMA UpdateStatusType ==
  ASSUME TypeOK, NEW t, NEW o \in Orders, NEW s \in Status, UpdateStatus(t, o, s)
  PROVE  /\ status' \in [Orders -> Status \cup {"none", "deleted"}]
         /\ visited' \in [Orders -> SUBSET Status]
         /\ actedFor' \subseteq Tenants \X Orders
  BY OwnerAssumption DEF TypeOK, UpdateStatus

\* repo.SetPaymentStatus keeps the types of the payments.
LEMMA SetPaymentStatusType ==
  ASSUME TypeOK, PaymentsNamed, NEW t, NEW p \in Payments,
         NEW s \in PaymentStatus, SetPaymentStatus(t, p, s)
  PROVE  /\ payment' \in [Payments -> PaymentRecord]
         /\ cleared' \subseteq Payments
         /\ actedFor' \subseteq Tenants \X Orders
  BY OwnerAssumption DEF PaymentRecord, TypeOK, PaymentsNamed, SetPaymentStatus, PaymentOf

\* repo.AddPayment keeps the types of the payments.
LEMMA AddPaymentType ==
  ASSUME TypeOK, NEW p \in Payments, NEW o \in Orders,
         NEW k \in {"proof", "charge"}, AddPayment(p, o, k)
  PROVE  payment' \in [Payments -> PaymentRecord]
  BY DEF PaymentRecord, TypeOK, AddPayment, PaymentStatus

\* A failure stays within the bound on failures.
LEMMA FaultType == TypeOK /\ Fault => faults' \in 0 .. MaxFaults
  BY FaultsAssumption DEF TypeOK, Fault

\* Every statement of a request keeps the types of all variables.
LEMMA StepType ==
  ASSUME TypeOK, RequestsSound, PaymentsNamed, NEW r \in Requests, Step(r)
  PROVE  TypeOK'
  <1> USE DEF rows, history
  <1>0. /\ req \in [Requests -> Request]
        /\ RequestSound(req[r])
        /\ Point = {"idle", "set_write", "upload_put", "proof_read", "proof_add",
                    "proof_move", "charge_add", "hook_pay", "hook_status",
                    "hook_notify"}
    BY DEF TypeOK, RequestsSound, Point
  <1>1. CASE SetStatusWrite(r)
    <2>1. req[r].ord \in Orders /\ req[r].to \in Status
      BY <1>0, <1>1, TableSound DEF SetStatusWrite, RequestSound, At
    <2> QED
      BY <1>0, <1>1, <2>1, UpdateStatusType, FinishType
      DEF SetStatusWrite, Finish, TypeOK
  <1>2. CASE UploadPut(r)
    <2>1. req[r].pay \in Payments
      BY <1>0, <1>2 DEF UploadPut, RequestSound, At
    <2> QED
      BY <1>0, <1>2, <2>1, GotoType DEF UploadPut, Goto, TypeOK
  <1>3. CASE ProofRead(r)
    <2>1. CASE OrderRow(req[r].ord)
      <3>1. status[req[r].ord] \in Status /\ "proof_add" \in Point
        BY <2>1 DEF OrderRow, Point
      <3>2. [req EXCEPT ![r].at = "proof_add", ![r].seen = status[req[r].ord]]
               \in [Requests -> Request]
        BY <1>0, <3>1, ReadType
      <3> QED
        BY <1>3, <2>1, <3>2 DEF ProofRead, TypeOK
    <2>2. CASE ~OrderRow(req[r].ord)
      BY <1>0, <1>3, <2>2, FinishType DEF ProofRead, Finish, TypeOK
    <2> QED
      BY <2>1, <2>2
  <1>4. CASE ProofAdd(r)
    <2>1. req[r].ord \in Orders /\ req[r].pay \in Payments
      BY <1>0, <1>4 DEF ProofAdd, RequestSound, At
    <2>2. req' \in [Requests -> Request]
      <3>1. [req EXCEPT ![r].at = "proof_move"] \in [Requests -> Request]
        BY <1>0, GotoType
      <3> QED
        BY <1>0, <1>4, <3>1, FinishType DEF ProofAdd, Goto, Finish
    <2>3. payment' \in [Payments -> PaymentRecord]
      BY <1>4, <2>1, AddPaymentType DEF ProofAdd, TypeOK
    <2> QED
      BY <1>4, <2>2, <2>3 DEF ProofAdd, TypeOK
  <1>5. CASE ProofMove(r)
    <2>1. req[r].ord \in Orders /\ req[r].pay \in Payments
      BY <1>0, <1>5 DEF ProofMove, RequestSound, At
    <2>2. /\ status' \in [Orders -> Status \cup {"none", "deleted"}]
          /\ visited' \in [Orders -> SUBSET Status]
          /\ actedFor' \subseteq Tenants \X Orders
      BY <1>5, <2>1, UpdateStatusType DEF ProofMove, TypeOK, Status
    <2>3. faults' \in 0 .. MaxFaults
      BY <1>5, FaultType DEF ProofMove, TypeOK
    <2> QED
      BY <1>0, <1>5, <2>1, <2>2, <2>3, FinishType DEF ProofMove, Finish, TypeOK
  <1>6. CASE ChargeAdd(r)
    <2>1. req[r].ord \in Orders /\ req[r].pay \in Payments
      BY <1>0, <1>6 DEF ChargeAdd, RequestSound, At
    <2> QED
      BY <1>0, <1>6, <2>1, AddPaymentType, FinishType DEF ChargeAdd, Finish, TypeOK
  <1>7. CASE HookPay(r)
    <2>1. req[r].pay \in Payments
      BY <1>0, <1>7 DEF HookPay, RequestSound, At
    <2>2. /\ payment' \in [Payments -> PaymentRecord]
          /\ cleared' \subseteq Payments
          /\ actedFor' \subseteq Tenants \X Orders
      BY <1>7, <2>1, SetPaymentStatusType DEF HookPay, TypeOK, PaymentStatus
    <2>3. faults' \in 0 .. MaxFaults
      BY <1>7, FaultType DEF HookPay, TypeOK
    <2> QED
      BY <1>0, <1>7, <2>2, <2>3, GotoType DEF HookPay, Goto, TypeOK
  <1>8. CASE HookStatus(r)
    <2>1. req[r].ord \in Orders
      BY <1>0, <1>8 DEF HookStatus, RequestSound, At
    <2>2. /\ status' \in [Orders -> Status \cup {"none", "deleted"}]
          /\ visited' \in [Orders -> SUBSET Status]
          /\ actedFor' \subseteq Tenants \X Orders
      BY <1>8, <2>1, UpdateStatusType DEF HookStatus, TypeOK, Status
    <2>3. faults' \in 0 .. MaxFaults /\ gateway' \subseteq Orders
      BY <1>8, <2>1, FaultType DEF HookStatus, TypeOK
    <2> QED
      BY <1>0, <1>8, <2>2, <2>3, GotoType DEF HookStatus, Goto, TypeOK
  <1>9. CASE HookNotify(r)
    <2>1. req[r].pay \in Payments
      BY <1>0, <1>9 DEF HookNotify, RequestSound, At
    <2>2. faults' \in 0 .. MaxFaults /\ confirmed' \subseteq Payments
      BY <1>9, <2>1, FaultType DEF HookNotify, TypeOK
    <2> QED
      BY <1>0, <1>9, <2>2, FinishType DEF HookNotify, Finish, TypeOK
  <1>10. CASE CutOff(r)
    BY <1>0, <1>10, FinishType, FaultType DEF CutOff, Finish, TypeOK
  <1> QED
    BY <1>1, <1>2, <1>3, <1>4, <1>5, <1>6, <1>7, <1>8, <1>9, <1>10 DEF Step

\* Every new request keeps the types of all variables.
LEMMA ArriveType ==
  ASSUME TypeOK, PaymentsNamed, NEW r \in Requests, Arrive(r)
  PROVE  TypeOK'
  <1> SUFFICES req' \in [Requests -> Request]
    BY DEF Arrive, SetStatusRead, UploadRead, ChargeRead, HookRead, rows, history,
           TypeOK
  <1> USE OwnerAssumption DEF TypeOK, Start, Request, Idle, Point
  <1>1. ASSUME NEW t \in Tenants, NEW o \in Orders, NEW to \in Status,
               SetStatusRead(r, t, o, to)
        PROVE  req' \in [Requests -> Request]
    BY <1>1 DEF SetStatusRead, OrderRow
  <1>2. ASSUME NEW o \in Orders, NEW p \in Payments, UploadRead(r, o, p)
        PROVE  req' \in [Requests -> Request]
    BY <1>2 DEF UploadRead
  <1>3. ASSUME NEW t \in Tenants, NEW o \in Orders, NEW p \in Payments,
               ChargeRead(r, t, o, p)
        PROVE  req' \in [Requests -> Request]
    BY <1>3 DEF ChargeRead
  <1>4. ASSUME NEW p \in Payments, HookRead(r, p)
        PROVE  req' \in [Requests -> Request]
    BY <1>4 DEF HookRead, PaymentsNamed
  <1> QED
    BY <1>1, <1>2, <1>3, <1>4 DEF Arrive

\* TypeOK is preserved by every step.
LEMMA NextType == OrderInv /\ [Next]_vars => TypeOK'
  <1> SUFFICES ASSUME OrderInv, [Next]_vars PROVE TypeOK'
    OBVIOUS
  <1>0. TypeOK /\ RequestsSound /\ PaymentsNamed
    BY DEF OrderInv
  <1>1. ASSUME NEW o \in Orders, CreateOrder(o) PROVE TypeOK'
    BY <1>0, <1>1 DEF CreateOrder, TypeOK, Status
  <1>2. ASSUME NEW t \in Tenants, NEW o \in Orders, DeleteOrder(t, o) PROVE TypeOK'
    BY <1>0, <1>2 DEF DeleteOrder, TypeOK, PaymentRecord
  <1>3. ASSUME NEW t \in Tenants, NEW p \in Payments, NEW accept \in BOOLEAN,
               VerifyPayment(t, p, accept)
        PROVE  TypeOK'
    BY <1>0, <1>3, SetPaymentStatusType DEF VerifyPayment, TypeOK, PaymentStatus
  <1>4. CASE UNCHANGED vars
    BY <1>0, <1>4 DEF vars, rows, history, TypeOK
  <1> QED
    BY <1>0, <1>1, <1>2, <1>3, <1>4, StepType, ArriveType DEF Next

(* Every step of the money flow is a step of OrderLifecycle, or leaves the   *)
(* statuses alone.                                                           *)

\* OrderLifecycle uses the same statuses and the same table.
LEMMA SameTable ==
  /\ Lifecycle!Status = Status
  /\ \A from, to : Lifecycle!CanTransition(from, to) <=> CanTransition(from, to)
  <1>1. Lifecycle!Status = Status
    BY DEF Status, Lifecycle!Status
  <1>2. Lifecycle!transitions = transitions
    BY <1>1 DEF transitions, Lifecycle!transitions
  <1> QED
    BY <1>1, <1>2 DEF CanTransition, Lifecycle!CanTransition

\* repo.UpdateStatus gives an existing order the status, or changes nothing.
LEMMA UpdateStatusStep ==
  ASSUME TypeOK, NEW t, NEW o \in Orders, NEW s, UpdateStatus(t, o, s)
  PROVE  \/ UNCHANGED Lifecycle!vars
         \/ status[o] \in Status /\ Lifecycle!Become(o, s)
  BY DEF UpdateStatus, OrderRow, Lifecycle!vars, Lifecycle!Become

\* Every step of the money flow is a step of the lifecycle or a stutter.
LEMMA LifecycleStep == OrderInv /\ [Next]_vars => [Lifecycle!Next]_(Lifecycle!vars)
  <1> SUFFICES ASSUME OrderInv, [Next]_vars
               PROVE  [Lifecycle!Next]_(Lifecycle!vars)
    OBVIOUS
  <1> USE DEF rows, history
  <1>0. TypeOK /\ RequestsSound /\ HistorySound
    BY DEF OrderInv
  <1>1. ASSUME NEW o \in Orders, CreateOrder(o) PROVE Lifecycle!Next
    <2>1. visited[o] = {}
      BY <1>0, <1>1 DEF CreateOrder, HistorySound
    <2>2. Lifecycle!Open(o)
      BY <1>0, <1>1, <2>1 DEF CreateOrder, TypeOK, Lifecycle!Open, Lifecycle!Become
    <2> QED
      BY <2>2 DEF Lifecycle!Next
  <1>2. ASSUME NEW t \in Tenants, NEW o \in Orders, DeleteOrder(t, o)
        PROVE  Lifecycle!Next
    <2>1. Lifecycle!Remove(o)
      BY <1>2, SameTable DEF DeleteOrder, OrderRow, Lifecycle!Remove
    <2> QED
      BY <2>1 DEF Lifecycle!Next
  <1>3. ASSUME NEW r \in Requests, Step(r)
        PROVE  [Lifecycle!Next]_(Lifecycle!vars)
    <2>0. RequestSound(req[r])
      BY <1>0 DEF RequestsSound
    <2>1. CASE SetStatusWrite(r)
      <3>1. /\ req[r].ord \in Orders
            /\ req[r].seen \in visited[req[r].ord]
            /\ CanTransition(req[r].seen, req[r].to)
        BY <2>0, <2>1 DEF SetStatusWrite, At, RequestSound
      <3>2. req[r].to \in Status
        BY <3>1, TableSound
      <3>3. UpdateStatus(req[r].ten, req[r].ord, req[r].to)
        BY <2>1 DEF SetStatusWrite
      <3>4. CASE status[req[r].ord] \in Status /\ Lifecycle!Become(req[r].ord, req[r].to)
        BY <3>1, <3>2, <3>4, SameTable DEF Lifecycle!Next, Lifecycle!Advance
      <3> QED
        BY <1>0, <3>1, <3>3, <3>4, UpdateStatusStep
    <2>2. CASE ProofMove(r)
      <3>1. req[r].ord \in Orders /\ req[r].seen \in visited[req[r].ord]
        BY <2>0, <2>2 DEF ProofMove, At, RequestSound
      <3>2. CASE UNCHANGED <<status, visited>>
        BY <3>2 DEF Lifecycle!vars
      <3>3. CASE /\ req[r].seen = "pending"
                 /\ UpdateStatus(req[r].ten, req[r].ord, "payment_received")
        <4>1. /\ CanTransition("pending", "payment_received")
              /\ "payment_received" \in Status
          BY DEF CanTransition, transitions, Status
        <4>2. CASE /\ status[req[r].ord] \in Status
                   /\ Lifecycle!Become(req[r].ord, "payment_received")
          BY <3>1, <3>3, <4>1, <4>2, SameTable DEF Lifecycle!Next, Lifecycle!Advance
        <4> QED
          BY <1>0, <3>1, <3>3, <4>2, UpdateStatusStep
      <3> QED
        BY <2>2, <3>2, <3>3 DEF ProofMove
    <2>3. CASE HookStatus(r)
      <3>1. req[r].ord \in Orders
        BY <2>0, <2>3 DEF HookStatus, At, RequestSound
      <3>2. CASE UNCHANGED <<status, visited>>
        BY <3>2 DEF Lifecycle!vars
      <3>3. CASE UpdateStatus(req[r].ten, req[r].ord, "payment_accepted")
        <4>1. CASE /\ status[req[r].ord] \in Status
                   /\ Lifecycle!Become(req[r].ord, "payment_accepted")
          BY <3>1, <4>1, SameTable DEF Lifecycle!Next, Lifecycle!Accept
        <4> QED
          BY <1>0, <3>1, <3>3, <4>1, UpdateStatusStep
      <3> QED
        BY <2>3, <3>2, <3>3 DEF HookStatus
    <2>4. CASE \/ UploadPut(r) \/ ProofRead(r) \/ ProofAdd(r) \/ ChargeAdd(r)
               \/ HookPay(r) \/ HookNotify(r) \/ CutOff(r)
      BY <2>4 DEF UploadPut, ProofRead, ProofAdd, ChargeAdd, HookPay, HookNotify,
                  CutOff, Lifecycle!vars
    <2> QED
      BY <1>3, <2>1, <2>2, <2>3, <2>4 DEF Step
  <1>4. ASSUME NEW r \in Requests, Arrive(r) PROVE UNCHANGED Lifecycle!vars
    BY <1>4 DEF Arrive, SetStatusRead, UploadRead, ChargeRead, HookRead, Lifecycle!vars
  <1>5. ASSUME NEW t \in Tenants, NEW p \in Payments, NEW accept \in BOOLEAN,
               VerifyPayment(t, p, accept)
        PROVE  UNCHANGED Lifecycle!vars
    BY <1>5 DEF VerifyPayment, Lifecycle!vars
  <1>6. CASE UNCHANGED vars
    BY <1>6 DEF vars, Lifecycle!vars
  <1> QED
    BY <1>1, <1>2, <1>3, <1>4, <1>5, <1>6 DEF Next

\* Histories only grow, and start with "pending".
LEMMA HistoryStep ==
  ASSUME OrderInv, [Next]_vars
  PROVE  /\ \A o \in Orders : visited[o] \subseteq visited'[o]
         /\ HistorySound'
  <1>0. TypeOK /\ HistorySound /\ [Lifecycle!Next]_(Lifecycle!vars)
    BY LifecycleStep DEF OrderInv
  <1> USE <1>0, SameTable DEF TypeOK, HistorySound, OrderRow, Lifecycle!Become
  <1>1. ASSUME NEW o \in Orders, Lifecycle!Open(o)
        PROVE  (\A x \in Orders : visited[x] \subseteq visited'[x]) /\ HistorySound'
    BY <1>1 DEF Lifecycle!Open, Status
  <1>2. ASSUME NEW o \in Orders, Lifecycle!Advance(o)
        PROVE  (\A x \in Orders : visited[x] \subseteq visited'[x]) /\ HistorySound'
    BY <1>2 DEF Lifecycle!Advance, Status
  <1>3. ASSUME NEW o \in Orders, Lifecycle!Accept(o)
        PROVE  (\A x \in Orders : visited[x] \subseteq visited'[x]) /\ HistorySound'
    BY <1>3 DEF Lifecycle!Accept, Status
  <1>4. ASSUME NEW o \in Orders, Lifecycle!Remove(o)
        PROVE  (\A x \in Orders : visited[x] \subseteq visited'[x]) /\ HistorySound'
    BY <1>4 DEF Lifecycle!Remove, Status
  <1>5. CASE UNCHANGED Lifecycle!vars
    BY <1>5 DEF Lifecycle!vars
  <1> QED
    BY <1>1, <1>2, <1>3, <1>4, <1>5 DEF Lifecycle!Next

(* Requests stay sound: another slot's request only sees files and histories *)
(* grow, and each statement of a request establishes what the next needs.    *)

\* Nothing in the money flow removes a stored proof.
LEMMA FilesGrow == [Next]_vars => files \subseteq files'
  BY DEF Next, vars, rows, history, CreateOrder, DeleteOrder, VerifyPayment,
         Arrive, SetStatusRead, UploadRead, ChargeRead, HookRead, Step,
         SetStatusWrite, UploadPut, ProofRead, ProofAdd, ProofMove, ChargeAdd,
         HookPay, HookStatus, HookNotify, CutOff

\* A step that touches one slot only has to show that slot sound.
LEMMA OneSlot ==
  ASSUME OrderInv, [Next]_vars, NEW r \in Requests,
         \A x \in Requests : x # r => req'[x] = req[x],
         RequestSound(req[r])'
  PROVE  RequestsSound'
  <1> SUFFICES ASSUME NEW x \in Requests PROVE RequestSound(req[x])'
    BY DEF RequestsSound
  <1>1. req \in [Requests -> Request] /\ RequestSound(req[x])
    BY DEF OrderInv, TypeOK, RequestsSound
  <1>2. CASE x = r
    BY <1>2
  <1>3. CASE x # r
    <2>1. req'[x] = req[x]
      BY <1>1, <1>3
    <2>2. files \subseteq files' /\ \A o \in Orders : visited[o] \subseteq visited'[o]
      BY FilesGrow, HistoryStep
    <2> QED
      BY <1>1, <2>1, <2>2 DEF RequestSound
  <1> QED
    BY <1>2, <1>3

\* What requests under way know stays true, whoever else takes a step.
LEMMA RequestsStep == OrderInv /\ [Next]_vars => RequestsSound'
  <1> SUFFICES ASSUME OrderInv, [Next]_vars PROVE RequestsSound'
    OBVIOUS
  <1>0. /\ TypeOK /\ RequestsSound /\ PaymentsNamed /\ HistorySound
        /\ files \subseteq files'
        /\ \A o \in Orders : visited[o] \subseteq visited'[o]
    BY FilesGrow, HistoryStep DEF OrderInv
  <1>1. CASE req' = req
    BY <1>0, <1>1 DEF RequestsSound, RequestSound
  <1>2. ASSUME NEW r \in Requests, Finish(r) PROVE RequestsSound'
    <2>1. req' = [req EXCEPT ![r] = Idle] /\ req \in [Requests -> Request]
      BY <1>0, <1>2 DEF Finish, TypeOK
    <2>2. RequestSound(req[r])'
      BY <2>1 DEF RequestSound, Idle
    <2> QED
      BY <2>1, <2>2, OneSlot
  <1>3. ASSUME NEW r \in Requests, Step(r) PROVE RequestsSound'
    <2>0. RequestSound(req[r]) /\ req[r] \in Request /\ req \in [Requests -> Request]
      BY <1>0 DEF RequestsSound, TypeOK
    <2>1. CASE \/ SetStatusWrite(r) \/ ProofMove(r) \/ ChargeAdd(r)
               \/ HookNotify(r) \/ CutOff(r)
      BY <1>2, <2>1 DEF SetStatusWrite, ProofMove, ChargeAdd, HookNotify, CutOff
    <2>2. CASE UploadPut(r)
      <3> DEFINE q == [req[r] EXCEPT !.at = "proof_read"]
      <3>1. req'[r] = q /\ \A x \in Requests : x # r => req'[x] = req[x]
        BY <2>0, <2>2 DEF UploadPut, Goto
      <3>2. RequestSound(req[r])'
        BY <1>0, <2>0, <2>2, <3>1 DEF UploadPut, RequestSound, At, Request
      <3> QED
        BY <3>1, <3>2, OneSlot
    <2>3. CASE ProofRead(r) /\ OrderRow(req[r].ord)
      <3> DEFINE q == [req[r] EXCEPT !.at = "proof_add",
                                     !.seen = status[req[r].ord]]
      <3>1. req'[r] = q /\ \A x \in Requests : x # r => req'[x] = req[x]
        BY <2>0, <2>3 DEF ProofRead
      <3>2. /\ req[r].ord \in Orders
            /\ status[req[r].ord] \in visited'[req[r].ord]
        BY <1>0, <2>0, <2>3 DEF ProofRead, RequestSound, At, HistorySound
      <3>3. RequestSound(req[r])'
        BY <1>0, <2>0, <2>3, <3>1, <3>2 DEF ProofRead, RequestSound, At, Request
      <3> QED
        BY <3>1, <3>3, OneSlot
    <2>4. CASE ProofRead(r) /\ ~OrderRow(req[r].ord)
      BY <1>2, <2>4 DEF ProofRead
    <2>5. CASE ProofAdd(r)
      <3> DEFINE q == [req[r] EXCEPT !.at = "proof_move"]
      <3>1. CASE req' = [req EXCEPT ![r] = q]
        <4>0. req'[r] = q /\ \A x \in Requests : x # r => req'[x] = req[x]
          BY <2>0, <3>1
        <4>1. RequestSound(req[r])'
          BY <1>0, <2>0, <2>5, <4>0 DEF ProofAdd, RequestSound, At, Request
        <4> QED
          BY <4>0, <4>1, OneSlot
      <3>2. Goto(r, "proof_move") => req' = [req EXCEPT ![r] = q]
        BY <2>0 DEF Goto
      <3> QED
        BY <1>2, <2>5, <3>1, <3>2 DEF ProofAdd
    <2>6. CASE HookPay(r)
      <3> DEFINE q == [req[r] EXCEPT !.at = "hook_status"]
      <3>1. req'[r] = q /\ \A x \in Requests : x # r => req'[x] = req[x]
        BY <2>0, <2>6 DEF HookPay, Goto
      <3>2. RequestSound(req[r])'
        BY <1>0, <2>0, <2>6, <3>1 DEF HookPay, RequestSound, At, Request
      <3> QED
        BY <3>1, <3>2, OneSlot
    <2>7. CASE HookStatus(r)
      <3> DEFINE q == [req[r] EXCEPT !.at = "hook_notify"]
      <3>1. req'[r] = q /\ \A x \in Requests : x # r => req'[x] = req[x]
        BY <2>0, <2>7 DEF HookStatus, Goto
      <3>2. RequestSound(req[r])'
        BY <1>0, <2>0, <2>7, <3>1 DEF HookStatus, RequestSound, At, Request
      <3> QED
        BY <3>1, <3>2, OneSlot
    <2> QED
      BY <1>3, <2>1, <2>2, <2>3, <2>4, <2>5, <2>6, <2>7 DEF Step
  <1>4. ASSUME NEW r \in Requests, Arrive(r) PROVE RequestsSound'
    <2>0. req \in [Requests -> Request]
      BY <1>0 DEF TypeOK
    <2>1. ASSUME NEW t \in Tenants, NEW o \in Orders, NEW to \in Status,
                 SetStatusRead(r, t, o, to)
          PROVE  RequestsSound'
      <3> DEFINE q == [at |-> "set_write", ten |-> t, ord |-> o,
                       pay |-> NoPayment, seen |-> status[o], to |-> to]
      <3>1. status[o] \in visited'[o] /\ CanTransition(status[o], to) /\ Owner[o] = t
        BY <1>0, <2>1 DEF SetStatusRead, HistorySound
      <3>2. req'[r] = q /\ \A x \in Requests : x # r => req'[x] = req[x]
        BY <2>0, <2>1 DEF SetStatusRead, Start
      <3>3. RequestSound(req[r])'
        BY <3>1, <3>2 DEF RequestSound
      <3> QED
        BY <3>2, <3>3, OneSlot
    <2>2. ASSUME NEW o \in Orders, NEW p \in Payments, UploadRead(r, o, p)
          PROVE  RequestsSound'
      <3> DEFINE q == [Idle EXCEPT !.at = "upload_put", !.ten = Owner[o],
                                   !.ord = o, !.pay = p]
      <3>1. req'[r] = q /\ \A x \in Requests : x # r => req'[x] = req[x]
        BY <2>0, <2>2 DEF UploadRead, Start
      <3>2. RequestSound(req[r])'
        BY <3>1 DEF RequestSound, Idle
      <3> QED
        BY <3>1, <3>2, OneSlot
    <2>3. ASSUME NEW t \in Tenants, NEW o \in Orders, NEW p \in Payments,
                 ChargeRead(r, t, o, p)
          PROVE  RequestsSound'
      <3> DEFINE q == [Idle EXCEPT !.at = "charge_add", !.ten = t, !.ord = o,
                                   !.pay = p]
      <3>1. req'[r] = q /\ \A x \in Requests : x # r => req'[x] = req[x]
        BY <2>0, <2>3 DEF ChargeRead, Start
      <3>2. RequestSound(req[r])'
        BY <2>3, <3>1 DEF ChargeRead, RequestSound, Idle
      <3> QED
        BY <3>1, <3>2, OneSlot
    <2>4. ASSUME NEW p \in Payments, HookRead(r, p) PROVE RequestsSound'
      <3> DEFINE o == payment[p].ord
                 q == [Idle EXCEPT !.at = "hook_pay", !.ten = Owner[o],
                                   !.ord = o, !.pay = p]
      <3>1. o \in Orders
        BY <1>0, <2>4 DEF HookRead, PaymentsNamed
      <3>2. req'[r] = q /\ \A x \in Requests : x # r => req'[x] = req[x]
        BY <2>0, <2>4 DEF HookRead, Start
      <3>3. RequestSound(req[r])'
        BY <3>1, <3>2 DEF RequestSound, Idle
      <3> QED
        BY <3>2, <3>3, OneSlot
    <2> QED
      BY <1>4, <2>1, <2>2, <2>3, <2>4 DEF Arrive
  <1> QED
    BY <1>1, <1>3, <1>4 DEF Next, vars, CreateOrder, DeleteOrder, VerifyPayment

(* Payments name live orders, and their proofs are stored.                   *)

\* Payments name live orders and stored proofs after every step.
LEMMA PaymentsStep ==
  OrderInv /\ [Next]_vars => PaymentsNamed' /\ PaymentRowsWhole'
  <1> SUFFICES ASSUME OrderInv, [Next]_vars
               PROVE  PaymentsNamed' /\ PaymentRowsWhole'
    OBVIOUS
  <1> USE DEF PaymentsNamed, PaymentRowsWhole, PaymentRow, rows, history
  <1>0. /\ TypeOK /\ RequestsSound /\ PaymentsNamed /\ PaymentRowsWhole
        /\ files \subseteq files'
    BY FilesGrow DEF OrderInv
  <1>1. CASE /\ payment' = payment
             /\ \A o \in Orders : OrderRow(o) => OrderRow(o)'
    BY <1>0, <1>1
  <1>2. ASSUME NEW t, NEW o, NEW s, o \in Orders, s \in Status, UpdateStatus(t, o, s),
               payment' = payment
        PROVE  PaymentsNamed' /\ PaymentRowsWhole'
    BY <1>0, <1>1, <1>2 DEF UpdateStatus, OrderRow, TypeOK
  <1>3. ASSUME NEW o \in Orders, CreateOrder(o)
        PROVE  PaymentsNamed' /\ PaymentRowsWhole'
    BY <1>0, <1>1, <1>3 DEF CreateOrder, OrderRow, TypeOK, Status
  <1>4. ASSUME NEW t \in Tenants, NEW o \in Orders, DeleteOrder(t, o)
        PROVE  PaymentsNamed' /\ PaymentRowsWhole'
    <2>1. ASSUME NEW p \in Payments
          PROVE  /\ payment'[p].ord = payment[p].ord
                 /\ payment'[p].kind = payment[p].kind
                 /\ PaymentRow(p)' => PaymentRow(p) /\ payment[p].ord # o
      BY <1>0, <1>4 DEF DeleteOrder, TypeOK, PaymentRecord, PaymentStatus
    <2>2. \A x \in Orders : x # o => status'[x] = status[x]
      BY <1>0, <1>4 DEF DeleteOrder, TypeOK
    <2> QED
      BY <1>0, <2>1, <2>2 DEF OrderRow
  <1>5. ASSUME NEW t, NEW p \in Payments, NEW s \in PaymentStatus,
               SetPaymentStatus(t, p, s), status' = status
        PROVE  PaymentsNamed' /\ PaymentRowsWhole'
    <2>1. ASSUME NEW x \in Payments
          PROVE  /\ payment'[x].ord = payment[x].ord
                 /\ payment'[x].kind = payment[x].kind
                 /\ PaymentRow(x)' <=> PaymentRow(x)
      BY <1>0, <1>5 DEF SetPaymentStatus, PaymentOf, TypeOK, PaymentRecord
    <2> QED
      BY <1>0, <1>5, <2>1 DEF OrderRow
  <1>6. ASSUME NEW p \in Payments, NEW o \in Orders, NEW k \in {"proof", "charge"},
               AddPayment(p, o, k), status' = status, k = "proof" => p \in files
        PROVE  PaymentsNamed' /\ PaymentRowsWhole'
    BY <1>0, <1>6 DEF AddPayment, OrderRow, TypeOK, PaymentRecord
  <1>7. ASSUME NEW r \in Requests, Step(r)
        PROVE  PaymentsNamed' /\ PaymentRowsWhole'
    <2>0. RequestSound(req[r])
      BY <1>0 DEF RequestsSound
    <2>1. CASE SetStatusWrite(r)
      <3>1. req[r].ord \in Orders /\ req[r].to \in Status
        BY <2>0, <2>1, TableSound DEF SetStatusWrite, RequestSound, At
      <3> QED
        BY <1>2, <2>1, <3>1 DEF SetStatusWrite
    <2>2. CASE ProofMove(r)
      <3>1. req[r].ord \in Orders /\ "payment_received" \in Status
        BY <2>0, <2>2 DEF ProofMove, RequestSound, At, Status
      <3> QED
        BY <1>1, <1>2, <2>2, <3>1 DEF ProofMove, OrderRow
    <2>3. CASE HookStatus(r)
      <3>1. req[r].ord \in Orders /\ "payment_accepted" \in Status
        BY <2>0, <2>3 DEF HookStatus, RequestSound, At, Status
      <3> QED
        BY <1>1, <1>2, <2>3, <3>1 DEF HookStatus, OrderRow
    <2>4. CASE ProofAdd(r)
      <3>1. req[r].ord \in Orders /\ req[r].pay \in Payments /\ req[r].pay \in files
        BY <2>0, <2>4 DEF ProofAdd, RequestSound, At
      <3> QED
        BY <1>1, <1>6, <2>4, <3>1 DEF ProofAdd, OrderRow
    <2>5. CASE ChargeAdd(r)
      <3>1. req[r].ord \in Orders /\ req[r].pay \in Payments
        BY <2>0, <2>5 DEF ChargeAdd, RequestSound, At
      <3> QED
        BY <1>1, <1>6, <2>5, <3>1 DEF ChargeAdd, OrderRow
    <2>6. CASE HookPay(r)
      <3>1. req[r].pay \in Payments /\ "verified" \in PaymentStatus
        BY <2>0, <2>6 DEF HookPay, RequestSound, At, PaymentStatus
      <3> QED
        BY <1>1, <1>5, <2>6, <3>1 DEF HookPay, OrderRow
    <2>7. CASE UploadPut(r) \/ ProofRead(r) \/ HookNotify(r) \/ CutOff(r)
      BY <1>1, <2>7 DEF UploadPut, ProofRead, HookNotify, CutOff, OrderRow
    <2> QED
      BY <1>7, <2>1, <2>2, <2>3, <2>4, <2>5, <2>6, <2>7 DEF Step
  <1>8. ASSUME NEW t \in Tenants, NEW p \in Payments, NEW accept \in BOOLEAN,
               VerifyPayment(t, p, accept)
        PROVE  PaymentsNamed' /\ PaymentRowsWhole'
    BY <1>5, <1>8 DEF VerifyPayment, PaymentStatus
  <1>9. CASE UNCHANGED vars \/ \E r \in Requests : Arrive(r)
    BY <1>1, <1>9 DEF vars, Arrive, SetStatusRead, UploadRead, ChargeRead, HookRead,
                      OrderRow
  <1> QED
    BY <1>3, <1>4, <1>7, <1>8, <1>9 DEF Next

(* Every status is explained by the history.                                 *)

\* The gateway never takes an acceptance back.
LEMMA GatewayGrows == [Next]_vars => gateway \subseteq gateway'
  BY DEF Next, vars, rows, history, CreateOrder, DeleteOrder, VerifyPayment,
         Arrive, SetStatusRead, UploadRead, ChargeRead, HookRead, Step,
         SetStatusWrite, UploadPut, ProofRead, ProofAdd, ProofMove, ChargeAdd,
         HookPay, HookStatus, HookNotify, CutOff

\* Every status is explained by the history after every step.
LEMMA ProvenanceStep == OrderInv /\ [Next]_vars => LifecycleProvenance'
  <1> SUFFICES ASSUME OrderInv, [Next]_vars PROVE LifecycleProvenance'
    OBVIOUS
  <1>0. /\ TypeOK /\ RequestsSound /\ HistorySound /\ LifecycleProvenance
        /\ gateway \subseteq gateway'
        /\ \A o \in Orders : visited[o] \subseteq visited'[o]
    BY GatewayGrows, HistoryStep DEF OrderInv
  <1>1. ASSUME NEW o \in Orders, NEW s,
               visited' = visited \/ visited' = [visited EXCEPT ![o] = @ \cup {s}],
               \/ s = "pending"
               \/ s = "payment_accepted" /\ o \in gateway'
               \/ \E from \in visited[o] : CanTransition(from, s)
        PROVE  LifecycleProvenance'
    <2> SUFFICES ASSUME NEW x \in Orders, NEW u \in visited'[x]
                 PROVE  Explained(x, u)'
      BY DEF LifecycleProvenance
    <2>1. CASE u \in visited[x]
      BY <1>0, <2>1 DEF LifecycleProvenance, Explained
    <2>2. CASE x = o /\ u = s
      BY <1>0, <1>1, <2>2 DEF Explained
    <2> QED
      BY <1>0, <1>1, <2>1, <2>2 DEF TypeOK
  <1>2. CASE visited' = visited
    BY <1>0, <1>2 DEF LifecycleProvenance, Explained
  <1>3. ASSUME NEW o \in Orders, CreateOrder(o) PROVE LifecycleProvenance'
    <2>1. visited' = [visited EXCEPT ![o] = @ \cup {"pending"}]
      BY <1>0, <1>3 DEF CreateOrder, HistorySound
    <2> QED
      BY <1>1, <2>1
  <1>4. ASSUME NEW r \in Requests, Step(r) PROVE LifecycleProvenance'
    <2>0. RequestSound(req[r])
      BY <1>0 DEF RequestsSound
    <2>1. CASE SetStatusWrite(r)
      BY <1>1, <2>0, <2>1 DEF SetStatusWrite, At, UpdateStatus, RequestSound
    <2>2. CASE ProofMove(r)
      <3>1. req[r].ord \in Orders /\ req[r].seen \in visited[req[r].ord]
        BY <2>0, <2>2 DEF ProofMove, At, RequestSound
      <3>2. CanTransition("pending", "payment_received")
        BY DEF CanTransition, transitions, Status
      <3> QED
        BY <1>1, <1>2, <2>2, <3>1, <3>2 DEF ProofMove, UpdateStatus
    <2>3. CASE HookStatus(r)
      <3>1. req[r].ord \in Orders
        BY <2>0, <2>3 DEF HookStatus, At, RequestSound
      <3> QED
        BY <1>1, <1>2, <2>3, <3>1 DEF HookStatus, UpdateStatus
    <2>4. CASE \/ UploadPut(r) \/ ProofRead(r) \/ ProofAdd(r) \/ ChargeAdd(r)
               \/ HookPay(r) \/ HookNotify(r) \/ CutOff(r)
      BY <1>2, <2>4 DEF UploadPut, ProofRead, ProofAdd, ChargeAdd, HookPay,
                        HookNotify, CutOff, history
    <2> QED
      BY <1>4, <2>1, <2>2, <2>3, <2>4 DEF Step
  <1> QED
    BY <1>2, <1>3, <1>4 DEF Next, vars, history, DeleteOrder, VerifyPayment, Arrive,
       SetStatusRead, UploadRead, ChargeRead, HookRead

(* Statements stay within their tenant.                                      *)

\* Statements stay within their tenant in every step.
LEMMA TenantStep == OrderInv /\ [Next]_vars => TenantIsolation'
  <1> SUFFICES ASSUME OrderInv, [Next]_vars PROVE TenantIsolation'
    OBVIOUS
  <1> USE DEF TenantIsolation
  <1>0. TypeOK /\ RequestsSound /\ TenantIsolation
    BY DEF OrderInv
  <1>1. CASE actedFor' = actedFor
    BY <1>0, <1>1
  <1>2. ASSUME NEW t, NEW o, NEW s, UpdateStatus(t, o, s) PROVE TenantIsolation'
    BY <1>0, <1>2 DEF UpdateStatus
  <1>3. ASSUME NEW t, NEW p, NEW s, SetPaymentStatus(t, p, s) PROVE TenantIsolation'
    BY <1>0, <1>3 DEF SetPaymentStatus, PaymentOf
  <1>4. ASSUME NEW t, NEW o, DeleteOrder(t, o) PROVE TenantIsolation'
    BY <1>0, <1>4 DEF DeleteOrder
  <1>5. ASSUME NEW r \in Requests, Step(r) PROVE TenantIsolation'
    BY <1>1, <1>2, <1>3, <1>5
    DEF Step, SetStatusWrite, UploadPut, ProofRead, ProofAdd, ProofMove, ChargeAdd,
        HookPay, HookStatus, HookNotify, CutOff, history
  <1>6. ASSUME NEW t \in Tenants, NEW p \in Payments, NEW accept \in BOOLEAN,
               VerifyPayment(t, p, accept)
        PROVE  TenantIsolation'
    BY <1>3, <1>6 DEF VerifyPayment
  <1> QED
    BY <1>1, <1>4, <1>5, <1>6 DEF Next, vars, history, CreateOrder, Arrive,
       SetStatusRead, UploadRead, ChargeRead, HookRead

(* Answered uploads and confirmed callbacks have done their work.            *)

\* An order that has left "pending" never returns to it.
LEMMA LeftStays ==
  ASSUME OrderInv, [Next]_vars, NEW o \in Orders, Left(o)
  PROVE  Left(o)'
  <1>0. TypeOK /\ [Lifecycle!Next]_(Lifecycle!vars)
    BY LifecycleStep DEF OrderInv
  <1> USE <1>0 DEF TypeOK, Left, Lifecycle!Become
  <1>1. ASSUME NEW x \in Orders, Lifecycle!Open(x) PROVE Left(o)'
    BY <1>1 DEF Lifecycle!Open
  <1>2. ASSUME NEW x \in Orders, Lifecycle!Advance(x) PROVE Left(o)'
    BY <1>2, SameTable, TableSound DEF Lifecycle!Advance, Status
  <1>3. ASSUME NEW x \in Orders, Lifecycle!Accept(x) PROVE Left(o)'
    BY <1>3 DEF Lifecycle!Accept
  <1>4. ASSUME NEW x \in Orders, Lifecycle!Remove(x) PROVE Left(o)'
    BY <1>4 DEF Lifecycle!Remove
  <1>5. CASE UNCHANGED Lifecycle!vars
    BY <1>5 DEF Lifecycle!vars
  <1> QED
    BY <1>1, <1>2, <1>3, <1>4, <1>5 DEF Lifecycle!Next

\* Failures are not forgotten, nor is what a payment has been through.
LEMMA PastStays ==
  ASSUME TypeOK, [Next]_vars
  PROVE  (faults' = 0 => faults = 0) /\ cleared \subseteq cleared'
  <1>1. faults' = faults \/ Fault
    BY DEF Next, vars, rows, history, CreateOrder, DeleteOrder,
       VerifyPayment, Arrive, SetStatusRead, UploadRead, ChargeRead, HookRead, Step,
       SetStatusWrite, UploadPut, ProofRead, ProofAdd, ProofMove, ChargeAdd, HookPay,
       HookStatus, HookNotify, CutOff
  <1>2. Fault => faults' # 0
    BY FaultsAssumption DEF TypeOK, Fault
  <1>3. cleared' = cleared \/ \E t, p, s : SetPaymentStatus(t, p, s)
    BY DEF Next, vars, rows, history, CreateOrder, DeleteOrder,
       VerifyPayment, Arrive, SetStatusRead, UploadRead, ChargeRead, HookRead, Step,
       SetStatusWrite, UploadPut, ProofRead, ProofAdd, ProofMove, ChargeAdd, HookPay,
       HookStatus, HookNotify, CutOff
  <1>4. cleared \subseteq cleared'
    BY <1>3 DEF SetPaymentStatus
  <1> QED
    BY <1>1, <1>2, <1>4

\* Only the two INSERTs make a payment, and nothing gives it another order or
\* brings its row back.
LEMMA PaymentKept ==
  ASSUME OrderInv, SettleInv, [Next]_vars, NEW p \in Payments
  PROVE  /\ Inserted(p) => /\ Inserted(p)' /\ payment'[p].ord = payment[p].ord
                           /\ PaymentRow(p)' => PaymentRow(p)
         /\ Inserted(p)' => \/ Inserted(p)
                            \/ \E r \in Requests : /\ ProofAdd(r) \/ ChargeAdd(r)
                                                   /\ req[r].pay = p
  <1> DEFINE Kept == /\ payment'[p].kind = payment[p].kind
                     /\ payment'[p].ord = payment[p].ord
                     /\ PaymentRow(p)' => PaymentRow(p)
  <1>0. TypeOK /\ RequestsSound /\ HandsSound
    BY DEF OrderInv, SettleInv
  <1> USE DEF rows, history, PaymentRow
  <1>1. CASE payment' = payment
    BY <1>1 DEF Inserted
  <1>2. ASSUME NEW t, NEW x \in Payments, NEW s \in PaymentStatus,
               SetPaymentStatus(t, x, s)
        PROVE  Kept
    BY <1>0, <1>2 DEF SetPaymentStatus, PaymentOf, TypeOK, PaymentRecord
  <1>3. ASSUME NEW t \in Tenants, NEW o \in Orders, DeleteOrder(t, o) PROVE Kept
    BY <1>0, <1>3 DEF DeleteOrder, TypeOK, PaymentRecord, PaymentStatus
  <1>4. ASSUME NEW t \in Tenants, NEW x \in Payments, NEW accept \in BOOLEAN,
               VerifyPayment(t, x, accept)
        PROVE  Kept
    BY <1>2, <1>4 DEF VerifyPayment, PaymentStatus
  <1>5. ASSUME NEW r \in Requests, HookPay(r) PROVE Kept
    <2>1. req[r].pay \in Payments /\ "verified" \in PaymentStatus
      BY <1>0, <1>5 DEF HookPay, RequestsSound, RequestSound, At, PaymentStatus
    <2> QED
      BY <1>2, <1>5, <2>1 DEF HookPay
  <1>6. ASSUME NEW r \in Requests, ProofAdd(r) \/ ChargeAdd(r), req[r].pay # p PROVE Kept
    BY <1>0, <1>6 DEF ProofAdd, ChargeAdd, AddPayment, TypeOK
  <1>7. ASSUME NEW r \in Requests, ProofAdd(r) \/ ChargeAdd(r), req[r].pay = p
        PROVE  ~Inserted(p)
    BY <1>0, <1>7 DEF HandsSound, Adding, ProofAdd, ChargeAdd, At
  <1>8. CASE Kept
    BY <1>8 DEF Inserted
  <1> QED
    BY <1>1, <1>3, <1>4, <1>5, <1>6, <1>7, <1>8
    DEF Next, vars, CreateOrder, Arrive, SetStatusRead, UploadRead, ChargeRead,
        HookRead, Step, SetStatusWrite, UploadPut, ProofRead, ProofMove, HookStatus,
        HookNotify, CutOff

\* Whoever inserts a payment goes on to another statement.
LEMMA AddMoves ==
  ASSUME TypeOK, NEW r \in Requests, ProofAdd(r) \/ ChargeAdd(r)
  PROVE  req[r].at \in Adding /\ req'[r].at \notin Adding
  BY DEF TypeOK, Request, ProofAdd, ChargeAdd, At, Goto, Finish, Idle, Adding

\* A step of one slot keeps the payments apart, if what it holds next was its
\* own, is fresh, or was inserted.
LEMMA HandsOneSlot ==
  ASSUME OrderInv, SettleInv, [Next]_vars, NEW r \in Requests,
         \A x \in Requests : x # r => req'[x] = req[x],
         req'[r].at \in Adding =>
           \/ req[r].at \in Adding /\ req'[r].pay = req[r].pay
           \/ req'[r].pay \in Payments /\ Fresh(req'[r].pay),
         \/ req'[r].pay \in {req[r].pay, NoPayment}
         \/ req'[r].pay \in Payments /\ (Fresh(req'[r].pay) \/ Inserted(req'[r].pay)),
         req'[r].at \in {"proof_move", "hook_pay", "hook_status", "hook_notify"} =>
           /\ payment'[req'[r].pay].kind # "none"
           /\ payment'[req'[r].pay].ord = req'[r].ord,
         \A p \in answered' \cup confirmed' : Inserted(p)'
  PROVE  HandsSound'
  <1>0. /\ TypeOK /\ RequestsSound /\ HandsSound
        /\ \A x \in Requests : RequestSound(req[x])
    BY DEF OrderInv, SettleInv, RequestsSound
  <1>1. \A x \in Requests : req[x].at \in Adding => req[x].pay \in Payments
    BY <1>0 DEF RequestSound, Adding
  <1>2. ASSUME NEW x \in Requests, req'[x].at \in Adding
        PROVE  req'[x].pay \in Payments /\ ~Inserted(req'[x].pay)
               /\ \A y \in Requests \ {x} : req'[y].pay # req'[x].pay
    <2>1. CASE x # r
      <3>1. req'[x] = req[x] /\ ~Inserted(req[x].pay) /\ req[x].pay \in Payments
        BY <1>0, <1>1, <1>2, <2>1 DEF HandsSound
      <3>2. \A y \in Requests \ {x, r} : req'[y].pay # req'[x].pay
        BY <1>0, <1>2, <2>1, <3>1 DEF HandsSound
      <3>3. req[r].pay # req[x].pay /\ NoPayment # req[x].pay
        BY <1>0, <1>2, <2>1, <3>1, NoneAssumption DEF HandsSound
      <3>4. req'[r].pay # req[x].pay
        BY <3>1, <3>3 DEF Fresh
      <3> QED
        BY <3>1, <3>2, <3>4
    <2>2. CASE x = r
      <3>1. CASE req[r].at \in Adding /\ req'[r].pay = req[r].pay
        BY <1>0, <1>1, <2>2, <3>1 DEF HandsSound
      <3>2. CASE req'[r].pay \in Payments /\ Fresh(req'[r].pay)
        BY <2>2, <3>2 DEF Fresh, NoRow, Inserted
      <3> QED
        BY <1>2, <2>2, <3>1, <3>2
    <2> QED
      BY <2>1, <2>2
  <1>3. ASSUME NEW x \in Requests, req'[x].at \in Adding PROVE payment'[req'[x].pay].kind = "none"
    <2>0. ASSUME NEW p \in Payments, payment'[p].kind # "none"
          PROVE  Inserted(p) \/ \E s \in Requests : /\ ProofAdd(s) \/ ChargeAdd(s)
                                                  /\ req[s].pay = p
      BY <2>0, PaymentKept DEF Inserted
    <2> SUFFICES ASSUME payment'[req'[x].pay].kind # "none" PROVE FALSE
      OBVIOUS
    <2>1. PICK s \in Requests : /\ ProofAdd(s) \/ ChargeAdd(s)
                                /\ req[s].pay = req'[x].pay
      BY <1>2, <1>3, <2>0
    <2>2. req[s].at \in Adding /\ req'[s].at \notin Adding /\ s # x
      BY <1>0, <1>3, <2>1, AddMoves
    <2>3. s = r
      BY <2>2
    <2>4. req'[x] = req[x]
      BY <2>2, <2>3
    <2> QED
      BY <1>0, <1>3, <2>1, <2>2, <2>4 DEF HandsSound
  <1>4. ASSUME NEW x \in Requests \ {r},
               req[x].at \in {"proof_move", "hook_pay", "hook_status", "hook_notify"}
        PROVE  payment'[req[x].pay].kind # "none" /\ payment'[req[x].pay].ord = req[x].ord
    <2>0. ASSUME NEW p \in Payments, Inserted(p)
          PROVE  payment'[p].kind # "none" /\ payment'[p].ord = payment[p].ord
      BY <2>0, PaymentKept DEF Inserted
    <2>1. /\ req[x].pay \in Payments /\ Inserted(req[x].pay)
          /\ payment[req[x].pay].ord = req[x].ord
      BY <1>0, <1>4 DEF HandsSound, RequestSound
    <2> QED
      BY <2>0, <2>1
  <1>5. req'[r].at \in {"proof_move", "hook_pay", "hook_status", "hook_notify"} =>
          payment'[req'[r].pay].kind # "none" /\ payment'[req'[r].pay].ord = req'[r].ord
    OBVIOUS
  <1>6. ASSUME NEW x \in Requests,
               req'[x].at \in {"proof_move", "hook_pay", "hook_status", "hook_notify"}
        PROVE  /\ payment'[req'[x].pay].kind # "none"
               /\ payment'[req'[x].pay].ord = req'[x].ord
    BY <1>4, <1>5, <1>6
  <1> QED
    BY <1>2, <1>3, <1>6 DEF HandsSound, Inserted

\* Payments to be inserted are in one request's hands after every step.
LEMMA HandsStep ==
  ASSUME OrderInv, SettleInv, [Next]_vars PROVE HandsSound'
  <1>0. /\ TypeOK /\ RequestsSound /\ HandsSound
        /\ req \in [Requests -> Request]
        /\ \A x \in Requests : RequestSound(req[x])
    BY DEF OrderInv, SettleInv, RequestsSound, TypeOK
  <1>1. ASSUME NEW p \in Payments, Inserted(p)
        PROVE  payment'[p].kind # "none" /\ payment'[p].ord = payment[p].ord
    BY <1>1, PaymentKept DEF Inserted
  <1>2. \A p \in answered \cup confirmed : Inserted(p)'
    BY <1>0, <1>1 DEF HandsSound, TypeOK, Inserted
  <1> USE DEF rows, history
  <1>3. CASE req' = req /\ answered' = answered /\ confirmed' = confirmed
    <2>1. ASSUME NEW x \in Requests, req[x].at \in Adding
          PROVE  payment'[req[x].pay].kind = "none"
      <3>1. req[x].pay \in Payments /\ ~Inserted(req[x].pay)
        BY <1>0, <2>1 DEF RequestSound, HandsSound, Adding
      <3>2. ASSUME NEW p \in Payments, payment'[p].kind # "none" PROVE Inserted(p)
        BY <1>0, <1>3, <3>2, PaymentKept, AddMoves DEF Inserted
      <3> QED
        BY <3>1, <3>2
    <2>2. ASSUME NEW x \in Requests,
                 req[x].at \in {"proof_move", "hook_pay", "hook_status", "hook_notify"}
          PROVE  payment'[req[x].pay].kind # "none" /\ payment'[req[x].pay].ord = req[x].ord
      BY <1>0, <1>1, <2>2 DEF RequestSound, HandsSound
    <2> QED
      BY <1>0, <1>2, <1>3, <2>1, <2>2 DEF HandsSound, Inserted
  <1>4. ASSUME NEW r \in Requests, Finish(r),
               \A p \in answered' \cup confirmed' : Inserted(p)'
        PROVE  HandsSound'
    <2>1. req'[r] = Idle /\ \A x \in Requests : x # r => req'[x] = req[x]
      BY <1>0, <1>4 DEF Finish
    <2>2. /\ req'[r].at \notin Adding \cup {"proof_move", "hook_pay", "hook_status",
                                            "hook_notify"}
          /\ req'[r].pay = NoPayment
      BY <2>1 DEF Idle, Adding
    <2> QED
      BY <1>4, <2>1, <2>2, HandsOneSlot
  <1>5. ASSUME NEW r \in Requests, Step(r) PROVE HandsSound'
    <2>0. req[r] \in Request /\ RequestSound(req[r])
      BY <1>0
    <2>1. CASE SetStatusWrite(r) \/ ChargeAdd(r) \/ CutOff(r)
      <3>1. Finish(r) /\ answered' = answered /\ confirmed' = confirmed
        BY <2>1 DEF SetStatusWrite, ChargeAdd, CutOff
      <3> QED
        BY <1>2, <1>4, <3>1
    <2>2. CASE ProofMove(r) \/ HookNotify(r)
      <3>1. req[r].pay \in Payments /\ Inserted(req[r].pay)
        BY <1>0, <2>0, <2>2 DEF ProofMove, HookNotify, At, RequestSound, HandsSound
      <3>2. payment'[req[r].pay].kind # "none"
        BY <1>1, <3>1
      <3>3. /\ Finish(r)
            /\ answered' \cup confirmed' \subseteq answered \cup confirmed \cup {req[r].pay}
        BY <2>2 DEF ProofMove, HookNotify
      <3> QED
        BY <1>2, <1>4, <3>2, <3>3 DEF Inserted
    <2>3. CASE UploadPut(r) \/ (ProofRead(r) /\ OrderRow(req[r].ord))
      <3>1. /\ req'[r].pay = req[r].pay /\ req'[r].at \in {"proof_read", "proof_add"}
            /\ req[r].at \in Adding
            /\ \A x \in Requests : x # r => req'[x] = req[x]
        BY <1>0, <2>0, <2>3 DEF UploadPut, ProofRead, Goto, At, Adding, Request
      <3>2. \A p \in answered' \cup confirmed' : Inserted(p)'
        BY <1>2, <2>3 DEF UploadPut, ProofRead
      <3> QED
        BY <3>1, <3>2, HandsOneSlot
    <2>4. CASE ProofRead(r) /\ ~OrderRow(req[r].ord)
      <3>1. Finish(r) /\ answered' = answered /\ confirmed' = confirmed
        BY <2>4 DEF ProofRead
      <3> QED
        BY <1>2, <1>4, <3>1
    <2>5. CASE ProofAdd(r) /\ Finish(r)
      <3>1. answered' = answered /\ confirmed' = confirmed
        BY <2>5 DEF ProofAdd
      <3> QED
        BY <1>2, <1>4, <2>5, <3>1
    <2>6. CASE ProofAdd(r) /\ AddPayment(req[r].pay, req[r].ord, "proof")
               /\ Goto(r, "proof_move")
      <3>1. /\ req'[r].pay = req[r].pay /\ req'[r].ord = req[r].ord
            /\ req'[r].at = "proof_move"
            /\ \A x \in Requests : x # r => req'[x] = req[x]
        BY <1>0, <2>0, <2>6 DEF Goto, Request
      <3>2. \A p \in answered' \cup confirmed' : Inserted(p)'
        BY <1>2, <2>6 DEF ProofAdd
      <3>3. req[r].pay \in Payments
        BY <2>0, <2>6 DEF ProofAdd, At, RequestSound
      <3>4. payment'[req[r].pay].kind = "proof" /\ payment'[req[r].pay].ord = req[r].ord
        BY <1>0, <2>6, <3>3 DEF AddPayment, TypeOK
      <3> QED
        BY <3>1, <3>2, <3>4, HandsOneSlot DEF Adding
    <2>7. CASE HookPay(r) \/ HookStatus(r)
      <3>1. /\ req'[r].pay = req[r].pay /\ req'[r].ord = req[r].ord
            /\ req'[r].at \in {"hook_status", "hook_notify"}
            /\ \A x \in Requests : x # r => req'[x] = req[x]
        BY <1>0, <2>0, <2>7 DEF HookPay, HookStatus, Goto, Request
      <3>2. \A p \in answered' \cup confirmed' : Inserted(p)'
        BY <1>2, <2>7 DEF HookPay, HookStatus
      <3>3. /\ req[r].pay \in Payments /\ Inserted(req[r].pay)
            /\ payment[req[r].pay].ord = req[r].ord
        BY <1>0, <2>0, <2>7 DEF HookPay, HookStatus, At, RequestSound, HandsSound
      <3>4. payment'[req[r].pay].kind # "none" /\ payment'[req[r].pay].ord = req[r].ord
        BY <1>1, <3>3
      <3> QED
        BY <3>1, <3>2, <3>4, HandsOneSlot DEF Adding
    <2> QED
      BY <1>5, <2>1, <2>2, <2>3, <2>4, <2>5, <2>6, <2>7 DEF Step, ProofAdd
  <1>6. ASSUME NEW r \in Requests, Arrive(r) PROVE HandsSound'
    <2>0. \A p \in answered' \cup confirmed' : Inserted(p)'
      BY <1>2, <1>6 DEF Arrive, SetStatusRead, UploadRead, ChargeRead, HookRead
    <2>1. ASSUME NEW t \in Tenants, NEW o \in Orders, NEW to \in Status,
                 SetStatusRead(r, t, o, to)
          PROVE  HandsSound'
      <3>1. /\ req'[r].at = "set_write" /\ req'[r].pay = NoPayment
            /\ \A x \in Requests : x # r => req'[x] = req[x]
        BY <1>0, <2>1 DEF SetStatusRead, Start
      <3> QED
        BY <2>0, <3>1, HandsOneSlot DEF Adding
    <2>2. ASSUME NEW p \in Payments, NEW point \in {"upload_put", "charge_add"},
                 NEW t, NEW o, Fresh(p),
                 Start(r, [Idle EXCEPT !.at = point, !.ten = t, !.ord = o, !.pay = p])
          PROVE  HandsSound'
      <3>1. /\ req'[r].at = point /\ req'[r].pay = p
            /\ \A x \in Requests : x # r => req'[x] = req[x]
        BY <1>0, <2>2 DEF Start, Idle
      <3> QED
        BY <2>0, <2>2, <3>1, HandsOneSlot
    <2>3. ASSUME NEW p \in Payments, HookRead(r, p) PROVE HandsSound'
      <3>1. /\ req'[r].at = "hook_pay" /\ req'[r].pay = p
            /\ req'[r].ord = payment[p].ord
            /\ \A x \in Requests : x # r => req'[x] = req[x]
        BY <1>0, <2>3 DEF HookRead, Start, Idle
      <3>2. Inserted(p)
        BY <2>3 DEF HookRead, Inserted
      <3>3. payment'[p].kind # "none" /\ payment'[p].ord = payment[p].ord
        BY <1>1, <3>2
      <3> QED
        BY <2>0, <3>1, <3>2, <3>3, HandsOneSlot DEF Adding
    <2> QED
      BY <1>6, <2>1, <2>2, <2>3 DEF Arrive, UploadRead, ChargeRead
  <1> QED
    BY <1>3, <1>5, <1>6 DEF Next, vars, CreateOrder, DeleteOrder, VerifyPayment

\* A new request is at its first statement, and in an idle slot.
LEMMA ArriveSlot ==
  ASSUME TypeOK, NEW r \in Requests, Arrive(r), NEW x \in Requests
  PROVE  \/ req'[x] = req[x]
         \/ req'[x].at \in {"set_write", "upload_put", "charge_add", "hook_pay"}
  <1>0. req \in [Requests -> Request]
    BY DEF TypeOK
  <1>2. ASSUME NEW t \in Tenants, NEW o \in Orders, NEW to \in Status,
               SetStatusRead(r, t, o, to)
        PROVE  req'[x] = req[x] \/ req'[x].at = "set_write"
    BY <1>0, <1>2 DEF SetStatusRead, Start
  <1>3. ASSUME NEW o \in Orders, NEW p \in Payments, UploadRead(r, o, p)
        PROVE  req'[x] = req[x] \/ req'[x].at = "upload_put"
    BY <1>0, <1>3 DEF UploadRead, Start, Idle
  <1>4. ASSUME NEW t \in Tenants, NEW o \in Orders, NEW p \in Payments,
               ChargeRead(r, t, o, p)
        PROVE  req'[x] = req[x] \/ req'[x].at = "charge_add"
    BY <1>0, <1>4 DEF ChargeRead, Start, Idle
  <1>5. ASSUME NEW p \in Payments, HookRead(r, p)
        PROVE  req'[x] = req[x] \/ req'[x].at = "hook_pay"
    BY <1>0, <1>5 DEF HookRead, Start, Idle
  <1> QED
    BY <1>2, <1>3, <1>4, <1>5 DEF Arrive

\* A proof that will not move its order has read that it need not.
LEMMA SeenStep ==
  ASSUME OrderInv, SettleInv, [Next]_vars, NEW x \in Requests
  PROVE  SeenLeft(req[x])'
  <1>0. /\ TypeOK /\ SeenLeft(req[x]) /\ RequestSound(req[x])
        /\ req \in [Requests -> Request]
    BY DEF OrderInv, SettleInv, RequestsSound, TypeOK
  <1>1. \A o \in Orders : Left(o) => status'[o] \notin {"none", "pending"}
    BY LeftStays DEF Left
  <1> USE DEF rows, history
  <1>2. CASE req'[x] = req[x]
    BY <1>0, <1>1, <1>2 DEF SeenLeft, RequestSound, Left
  <1>3. CASE req'[x].at \notin {"proof_add", "proof_move"}
    BY <1>3 DEF SeenLeft
  <1>4. CASE ProofRead(x) /\ OrderRow(req[x].ord)
    <2>1. req'[x].seen = status[req[x].ord] /\ req'[x].ord = req[x].ord
      BY <1>0, <1>4 DEF ProofRead, Request
    <2>2. status[req[x].ord] # "pending" => status'[req[x].ord] \notin {"none", "pending"}
      BY <1>4 DEF ProofRead, OrderRow, Status
    <2> QED
      BY <2>1, <2>2 DEF SeenLeft, Left
  <1>5. CASE ProofAdd(x) /\ Goto(x, "proof_move")
    <2>1. /\ req'[x].seen = req[x].seen /\ req'[x].ord = req[x].ord
          /\ req[x].at = "proof_add"
      BY <1>0, <1>5 DEF ProofAdd, At, Goto, Request
    <2> QED
      BY <1>0, <1>1, <2>1 DEF SeenLeft, RequestSound, Left
  <1>6. ASSUME NEW r \in Requests, Step(r) PROVE SeenLeft(req[x])'
    <2>1. CASE r # x
      <3>1. req'[x] = req[x]
        BY <1>0, <1>6, <2>1
        DEF Step, SetStatusWrite, UploadPut, ProofRead, ProofAdd, ProofMove, ChargeAdd,
            HookPay, HookStatus, HookNotify, CutOff, Finish, Goto
      <3> QED
        BY <1>2, <3>1
    <2>2. CASE r = x
      <3>1. CASE Finish(x)
        BY <1>0, <1>3, <3>1 DEF Finish, Idle
      <3>2. CASE UploadPut(x) \/ HookPay(x) \/ HookStatus(x)
        <4>1. req'[x].at \in {"proof_read", "hook_status", "hook_notify"}
          BY <1>0, <3>2 DEF UploadPut, HookPay, HookStatus, Goto, Request
        <4> QED
          BY <1>3, <4>1
      <3>3. ProofRead(x) => OrderRow(req[x].ord) \/ Finish(x)
        BY DEF ProofRead
      <3>4. ProofAdd(x) => Goto(x, "proof_move") \/ Finish(x)
        BY DEF ProofAdd
      <3> QED
        BY <1>4, <1>5, <1>6, <2>2, <3>1, <3>2, <3>3, <3>4
        DEF Step, SetStatusWrite, ProofMove, ChargeAdd, HookNotify, CutOff
    <2> QED
      BY <2>1, <2>2
  <1>7. ASSUME NEW r \in Requests, Arrive(r) PROVE SeenLeft(req[x])'
    <2>1. \/ req'[x] = req[x]
          \/ req'[x].at \in {"set_write", "upload_put", "charge_add", "hook_pay"}
      BY <1>0, <1>7, ArriveSlot
    <2> QED
      BY <1>2, <1>3, <2>1
  <1> QED
    BY <1>2, <1>6, <1>7 DEF Next, vars, CreateOrder, DeleteOrder, VerifyPayment

\* What the callback has done is still done when its next statement runs.
LEMMA HookStep ==
  ASSUME OrderInv, SettleInv, [Next]_vars, NEW x \in Requests,
         req'[x].pay \in Payments
  PROVE  HookSound(req[x])'
  <1>0. /\ TypeOK /\ RequestSound(req[x]) /\ HandsSound /\ PaymentRowsWhole
        /\ req[x].pay \in Payments => HookSound(req[x])
        /\ req \in [Requests -> Request]
    BY DEF OrderInv, SettleInv, RequestsSound, TypeOK
  <1>1. /\ faults' = 0 => faults = 0
        /\ cleared \subseteq cleared'
        /\ \A o \in Orders : visited[o] \subseteq visited'[o]
    BY <1>0, PastStays, HistoryStep
  <1>2. ASSUME NEW p \in Payments, Inserted(p), payment'[p].status \in PaymentStatus
        PROVE  PaymentRow(p)
    BY <1>2, PaymentKept DEF PaymentRow
  <1> USE DEF rows, history
  <1>3. CASE req'[x].at \notin {"hook_status", "hook_notify"}
    BY <1>3 DEF HookSound
  <1>4. CASE req'[x] = req[x] /\ req[x].at \in {"hook_status", "hook_notify"}
    <2>1. /\ req[x].pay \in Payments /\ Inserted(req[x].pay) /\ req[x].ord \in Orders
      BY <1>0, <1>4 DEF HandsSound, RequestSound
    <2> QED
      BY <1>0, <1>1, <1>2, <1>4, <2>1 DEF HookSound, PaymentRow
  <1>5. CASE HookPay(x)
    <2>1. /\ req'[x].at = "hook_status" /\ req'[x].pay = req[x].pay
          /\ req[x].at = "hook_pay"
      BY <1>0, <1>5 DEF HookPay, At, Goto, Request
    <2>2. /\ req[x].pay \in Payments /\ Inserted(req[x].pay)
          /\ payment[req[x].pay].ord = req[x].ord /\ req[x].ten = Owner[req[x].ord]
      BY <1>0, <2>1 DEF HandsSound, RequestSound
    <2>3. CASE Fault
      <3>1. faults' # 0
        BY <1>0, <2>3, FaultsAssumption DEF Fault, TypeOK
      <3> QED
        BY <3>1 DEF HookSound
    <2>4. CASE SetPaymentStatus(req[x].ten, req[x].pay, "verified")
      <3>1. PaymentRow(req[x].pay) => req[x].pay \in cleared'
        BY <2>2, <2>4 DEF SetPaymentStatus, PaymentOf
      <3> QED
        BY <1>2, <2>1, <2>2, <3>1 DEF HookSound, PaymentRow
    <2> QED
      BY <1>5, <2>3, <2>4 DEF HookPay
  <1>6. CASE HookStatus(x)
    <2>1. /\ req'[x].at = "hook_notify" /\ req'[x].pay = req[x].pay
          /\ req'[x].ord = req[x].ord /\ req[x].at = "hook_status"
      BY <1>0, <1>6 DEF HookStatus, At, Goto, Request
    <2>2. /\ req[x].pay \in Payments /\ Inserted(req[x].pay) /\ req[x].ord \in Orders
          /\ payment[req[x].pay].ord = req[x].ord /\ req[x].ten = Owner[req[x].ord]
      BY <1>0, <2>1 DEF HandsSound, RequestSound
    <2>3. CASE Fault
      <3>1. faults' # 0
        BY <1>0, <2>3, FaultsAssumption DEF Fault, TypeOK
      <3> QED
        BY <3>1 DEF HookSound
    <2>4. CASE UpdateStatus(req[x].ten, req[x].ord, "payment_accepted")
      <3>1. PaymentRow(req[x].pay) => "payment_accepted" \in visited'[req[x].ord]
        BY <1>0, <2>2, <2>4 DEF UpdateStatus, PaymentRowsWhole, TypeOK
      <3>2. faults = 0 /\ PaymentRow(req[x].pay) => req[x].pay \in cleared
        BY <1>0, <2>1, <2>2 DEF HookSound
      <3> QED
        BY <1>1, <1>2, <2>1, <2>2, <3>1, <3>2 DEF HookSound, PaymentRow
    <2> QED
      BY <1>6, <2>3, <2>4 DEF HookStatus
  <1>7. ASSUME NEW r \in Requests, Step(r)
        PROVE  \/ req'[x] = req[x] \/ HookPay(x) \/ HookStatus(x)
               \/ req'[x].at \notin {"hook_status", "hook_notify"}
    <2>1. CASE r # x
      BY <1>0, <1>7, <2>1
      DEF Step, SetStatusWrite, UploadPut, ProofRead, ProofAdd, ProofMove, ChargeAdd,
          HookPay, HookStatus, HookNotify, CutOff, Finish, Goto
    <2>2. CASE r = x /\ Finish(x)
      BY <1>0, <2>2 DEF Finish, Idle
    <2>3. CASE r = x /\ (UploadPut(x) \/ ProofRead(x) \/ ProofAdd(x)) /\ ~Finish(x)
      BY <1>0, <2>3 DEF UploadPut, ProofRead, ProofAdd, Goto, Request
    <2> QED
      BY <1>7, <2>1, <2>2, <2>3
      DEF Step, SetStatusWrite, ProofMove, ChargeAdd, HookNotify, CutOff
  <1>8. ASSUME NEW r \in Requests, Arrive(r)
        PROVE  \/ req'[x] = req[x]
               \/ req'[x].at \notin {"hook_status", "hook_notify"}
    BY <1>0, <1>8, ArriveSlot
  <1> QED
    BY <1>3, <1>4, <1>5, <1>6, <1>7, <1>8
    DEF Next, vars, CreateOrder, DeleteOrder, VerifyPayment

\* An answered upload's order has left "pending" after every step.
LEMMA AnsweredStep ==
  ASSUME OrderInv, SettleInv, [Next]_vars PROVE AnsweredProofLeavesPending'
  <1>0. /\ TypeOK /\ RequestsSound /\ HandsSound /\ PaymentRowsWhole
        /\ PaymentsNamed /\ AnsweredProofLeavesPending
        /\ faults' = 0 => faults = 0
    BY PastStays DEF OrderInv, SettleInv
  <1>1. \A o \in Orders : Left(o) => status'[o] \notin {"none", "pending"}
    BY LeftStays DEF Left
  <1>2. ASSUME NEW p \in Payments, Inserted(p), payment'[p].status \in PaymentStatus
        PROVE  /\ PaymentRow(p) /\ payment'[p].ord = payment[p].ord
               /\ payment[p].ord \in Orders /\ OrderRow(payment[p].ord)
    <2>1. PaymentRow(p) /\ payment'[p].ord = payment[p].ord
      BY <1>2, PaymentKept DEF PaymentRow
    <2> QED
      BY <1>0, <2>1 DEF PaymentsNamed, PaymentRowsWhole
  <1>3. SUFFICES ASSUME NEW p \in answered', faults' = 0,
                        payment'[p].status \in PaymentStatus
                 PROVE  status'[payment'[p].ord] # "pending"
    BY DEF AnsweredProofLeavesPending, PaymentRow
  <1>4. CASE p \in answered
    <2>1. p \in Payments /\ Inserted(p)
      BY <1>0, <1>4 DEF HandsSound, TypeOK
    <2>2. status[payment[p].ord] # "pending"
      BY <1>0, <1>2, <1>3, <1>4, <2>1 DEF AnsweredProofLeavesPending
    <2>3. Left(payment[p].ord)
      BY <1>2, <1>3, <2>1, <2>2 DEF Left, OrderRow, Status
    <2> QED
      BY <1>1, <1>2, <1>3, <2>1, <2>3
  <1>5. ASSUME NEW r \in Requests, ProofMove(r), p = req[r].pay
        PROVE  status'[payment'[p].ord] # "pending"
    <2>0. RequestSound(req[r]) /\ SeenLeft(req[r])
      BY <1>0 DEF RequestsSound, SettleInv
    <2>1. /\ p \in Payments /\ Inserted(p) /\ payment[p].ord = req[r].ord
          /\ req[r].at = "proof_move"
          /\ req[r].ord \in Orders /\ req[r].ten = Owner[req[r].ord]
      BY <1>0, <1>5, <2>0 DEF ProofMove, At, RequestSound, HandsSound
    <2>2. OrderRow(req[r].ord) /\ payment'[p].ord = req[r].ord
      BY <1>2, <1>3, <2>1
    <2>3. CASE req[r].seen # "pending"
      BY <1>1, <2>0, <2>1, <2>2, <2>3 DEF SeenLeft
    <2>4. CASE UpdateStatus(req[r].ten, req[r].ord, "payment_received")
      BY <1>0, <2>1, <2>2, <2>4 DEF UpdateStatus, TypeOK
    <2>5. ~Fault
      BY <1>0, <1>3, FaultsAssumption DEF Fault, TypeOK
    <2> QED
      BY <1>5, <2>3, <2>4, <2>5 DEF ProofMove
  <1>6. p \in answered \/ \E r \in Requests : ProofMove(r) /\ p = req[r].pay
    BY DEF Next, vars, rows, history, CreateOrder, DeleteOrder, VerifyPayment,
       Arrive, SetStatusRead, UploadRead, ChargeRead, HookRead, Step, SetStatusWrite,
       UploadPut, ProofRead, ProofAdd, ProofMove, ChargeAdd, HookPay, HookStatus,
       HookNotify, CutOff
  <1> QED
    BY <1>4, <1>5, <1>6

\* A confirmed payment has been recorded and its order accepted after every step.
LEMMA PaidStep ==
  ASSUME OrderInv, SettleInv, [Next]_vars PROVE PaidCallbackSettles'
  <1>0. /\ TypeOK /\ RequestsSound /\ HandsSound /\ PaymentsNamed /\ PaidCallbackSettles
        /\ faults' = 0 => faults = 0
        /\ cleared \subseteq cleared'
        /\ \A o \in Orders : visited[o] \subseteq visited'[o]
    BY PastStays, HistoryStep DEF OrderInv, SettleInv
  <1>2. ASSUME NEW p \in Payments, Inserted(p), payment'[p].status \in PaymentStatus
        PROVE  /\ PaymentRow(p) /\ payment'[p].ord = payment[p].ord
               /\ payment[p].ord \in Orders
    <2>1. PaymentRow(p) /\ payment'[p].ord = payment[p].ord
      BY <1>2, PaymentKept DEF PaymentRow
    <2> QED
      BY <1>0, <2>1 DEF PaymentsNamed
  <1>3. SUFFICES ASSUME NEW p \in confirmed', faults' = 0,
                        payment'[p].status \in PaymentStatus
                 PROVE  p \in cleared' /\ "payment_accepted" \in visited'[payment'[p].ord]
    BY DEF PaidCallbackSettles, Settled, PaymentRow
  <1>4. CASE p \in confirmed
    <2>1. p \in Payments /\ Inserted(p)
      BY <1>0, <1>4 DEF HandsSound, TypeOK
    <2>2. p \in cleared /\ "payment_accepted" \in visited[payment[p].ord]
      BY <1>0, <1>2, <1>3, <1>4, <2>1 DEF PaidCallbackSettles, Settled
    <2> QED
      BY <1>0, <1>2, <1>3, <2>1, <2>2
  <1>5. ASSUME NEW r \in Requests, HookNotify(r), p = req[r].pay
        PROVE  p \in cleared' /\ "payment_accepted" \in visited'[payment'[p].ord]
    <2>0. RequestSound(req[r]) /\ req[r].at = "hook_notify"
      BY <1>0, <1>5 DEF RequestsSound, HookNotify, At
    <2>1. /\ p \in Payments /\ Inserted(p) /\ payment[p].ord = req[r].ord
          /\ req[r].ord \in Orders
      BY <1>0, <1>5, <2>0 DEF RequestSound, HandsSound
    <2>2. HookSound(req[r])
      BY <1>5, <2>1 DEF SettleInv
    <2>3. p \in cleared /\ "payment_accepted" \in visited[req[r].ord]
      BY <1>0, <1>2, <1>3, <1>5, <2>0, <2>1, <2>2 DEF HookSound
    <2> QED
      BY <1>0, <1>2, <1>3, <2>1, <2>3
  <1>6. p \in confirmed \/ \E r \in Requests : HookNotify(r) /\ p = req[r].pay
    BY DEF Next, vars, rows, history, CreateOrder, DeleteOrder, VerifyPayment,
       Arrive, SetStatusRead, UploadRead, ChargeRead, HookRead, Step, SetStatusWrite,
       UploadPut, ProofRead, ProofAdd, ProofMove, ChargeAdd, HookPay, HookStatus,
       HookNotify, CutOff
  <1> QED
    BY <1>4, <1>5, <1>6

-----------------------------------------------------------------------------
(* The theorems *)

\* The inductive invariant, for every set of orders, payments, request slots
\* and tenants, and any number of failing statements and cut-off requests.
THEOREM Invariance == Spec => []OrderInv
  <1>1. OrderInv /\ [Next]_vars => OrderInv'
    BY NextType, RequestsStep, PaymentsStep, HistoryStep, ProvenanceStep, TenantStep
    DEF OrderInv
  <1> QED
    BY InitInv, <1>1, PTL DEF Spec

\* The variables keep their types: repo.go's statements only ever store a
\* status the CHECK constraints of orders and payments know.
THEOREM TypeCorrect == Spec => []TypeOK
  <1>1. OrderInv => TypeOK
    BY DEF OrderInv
  <1> QED
    BY Invariance, <1>1, PTL

\* Although Service.UpdateStatus, AddPaymentProof and the gateway's callback
\* write without looking at the status they replace, every status an order was
\* ever given is explained by its history.
THEOREM Provenance == Spec => []LifecycleProvenance
  <1>1. OrderInv => LifecycleProvenance
    BY DEF OrderInv
  <1> QED
    BY Invariance, <1>1, PTL

\* A payment row always belongs to an existing order and names a stored proof,
\* though orders are deleted while uploads and charges are under way.
THEOREM WholePayments == Spec => []PaymentRowsWhole
  <1>1. OrderInv => PaymentRowsWhole
    BY DEF OrderInv
  <1> QED
    BY Invariance, <1>1, PTL

\* No statement of the money flow changes another tenant's order or payment.
THEOREM Isolation == Spec => []TenantIsolation
  <1>1. OrderInv => TenantIsolation
    BY DEF OrderInv
  <1> QED
    BY Invariance, <1>1, PTL

\* The money flow implements OrderLifecycle: each statement is a step of the
\* lifecycle or leaves it alone, whatever the interleaving.
THEOREM Refinement == Spec => ImplementsLifecycle
  <1>1. Init => Lifecycle!Init
    BY DEF Init, Lifecycle!Init
  <1>2. OrderInv /\ [Next]_vars => [Lifecycle!Next]_(Lifecycle!vars)
    BY LifecycleStep
  <1> QED
    BY Invariance, <1>1, <1>2, PTL DEF Spec, ImplementsLifecycle, Lifecycle!Spec

\* An order that has left "pending" never returns to it.
THEOREM NoReopening == Spec => NeverReopened
  <1>1. OrderInv /\ [Next]_vars
        => [\A o \in Orders : status[o] # "none" /\ status[o] # "pending"
                              => status'[o] # "pending"]_status
    <2> SUFFICES ASSUME OrderInv, [Next]_vars, NEW o \in Orders,
                        status[o] # "none", status[o] # "pending"
                 PROVE  status'[o] # "pending"
      OBVIOUS
    <2> QED
      BY LeftStays DEF Left
  <1> QED
    BY Invariance, <1>1, PTL DEF Spec, NeverReopened

\* What uploads and callbacks have done so far, statement by statement, is an
\* invariant on top of the first one.
THEOREM Settling == Spec => []SettleInv
  <1>1. Init => SettleInv
    <2> SUFFICES ASSUME Init PROVE SettleInv
      OBVIOUS
    <2> USE DEF Init
    <2>1. HandsSound /\ \A r \in Requests : SeenLeft(req[r]) /\ HookSound(req[r])
      BY DEF HandsSound, SeenLeft, HookSound, Idle, Adding
    <2>2. AnsweredProofLeavesPending /\ PaidCallbackSettles
      BY DEF AnsweredProofLeavesPending, PaidCallbackSettles
    <2> QED
      BY <2>1, <2>2 DEF SettleInv
  <1>2. OrderInv /\ SettleInv /\ [Next]_vars => SettleInv'
    BY HandsStep, SeenStep, HookStep, AnsweredStep, PaidStep DEF SettleInv
  <1> QED
    BY Invariance, <1>1, <1>2, PTL DEF Spec

\* Where nothing has failed, the order of an upload answered 201 has left
\* "pending", whoever moved it between AddPaymentProof's statements.
THEOREM ProofsMoveOrders == Spec => []AnsweredProofLeavesPending
  <1>1. SettleInv => AnsweredProofLeavesPending
    BY DEF SettleInv
  <1> QED
    BY Settling, <1>1, PTL

\* Where nothing has failed, a customer is told that an order is confirmed only
\* after its payment was recorded and it was accepted.
THEOREM ConfirmedIsPaid == Spec => []PaidCallbackSettles
  <1>1. SettleInv => PaidCallbackSettles
    BY DEF SettleInv
  <1> QED
    BY Settling, <1>1, PTL
=============================================================================
