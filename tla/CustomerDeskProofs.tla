-------------------------- MODULE CustomerDeskProofs --------------------------
(* Customers' rows, codes and pages, for any number of customers and requests. *)
EXTENDS CustomerDesk, FiniteSetTheorems, TLAPS

(***************************************************************************)
(* DeskInv is inductive: a row has one creation under way at most, which   *)
(* will give it what it answers unless an edit or a failure is on record.  *)
(***************************************************************************)

LEMMA Apart ==
  /\ None \notin Customers /\ None \notin Row /\ Deleted \notin Row /\ None # Deleted
  /\ NoCode \notin Codes
  /\ \A c \in Customers : Prefix[c] \in Codes
BY DeskAssumption

LEMMA CodedRow ==
  ASSUME NEW c \in Customers, NEW row \in Row
  PROVE  /\ Coded(c, row) \in Row /\ Coded(c, row).ten = row.ten
         /\ Coded(c, row).code # NoCode
         /\ row.code # NoCode => Coded(c, row) = row
BY Apart DEF Coded, Row

LEMMA FaultType == RowsTypeOK /\ (Fault \/ UNCHANGED faults) => faults' \in 0 .. MaxFaults
BY DeskAssumption DEF RowsTypeOK, Fault

LEMMA DeskInit == Init => DeskInv
BY Apart, DeskAssumption
   DEF Init, DeskInv, RowsTypeOK, Idle, Request, RequestSound, At, Here,
       CodesExplained, AnswersStand

\* No two rows of a tenant share a code after one row was written with a code
\* that was free.
LEMMA WrittenApart ==
  ASSUME DeskInv, NEW c \in Customers, NEW row \in Row,
         CodeFree(row.ten, c, row.code), customer' = [customer EXCEPT ![c] = row]
  PROVE  /\ Here' = Here \cup {c}
         /\ \A d \in Here', e \in Here' : d # e /\ customer'[d].ten = customer'[e].ten
              => customer'[d].code # customer'[e].code
<1>1. Here' = Here \cup {c} /\ customer'[c] = row
      /\ \A d \in Customers \ {c} : customer'[d] = customer[d]
  BY DEF Here, DeskInv, RowsTypeOK
<1>2. \A d \in Here \ {c} : customer[d].ten = row.ten => customer[d].code # row.code
  BY DEF CodeFree, Owns, Here
<1>. QED
  BY <1>1, <1>2 DEF DeskInv, CodesExplained, Here

LEMMA CreateKeeps ==
  ASSUME DeskInv, NEW r \in Requests, NEW c \in Customers, NEW row \in Row,
         Create(r, c, row)
  PROVE  DeskInv'
<1>1. /\ customer' = [customer EXCEPT ![c] = row] /\ customer[c] = None
      /\ CodeFree(row.ten, c, row.code) /\ req[r].at = "idle"
      /\ wanted' = [wanted EXCEPT ![c] = Coded(c, row)]
      /\ faults' = faults /\ overlapped' = overlapped /\ codeless' = codeless
  BY DEF Create, Insert, At
<1>2. /\ customer'[c] = row /\ wanted'[c] = Coded(c, row) /\ Coded(c, row) \in Row
      /\ \A d \in Customers \ {c} : customer'[d] = customer[d] /\ wanted'[d] = wanted[d]
  BY <1>1, CodedRow DEF DeskInv, RowsTypeOK
<1>3. \A s \in Requests : req[s].cust # c
  BY <1>1, Apart DEF DeskInv, RequestSound
<1>. DEFINE q == [at |-> "assign", cust |-> c, row |-> row]
<1>4. IF row.code = NoCode THEN req' = [req EXCEPT ![r] = q] ELSE req' = req
  BY DEF Create
<1>5. q \in Request /\ q.at = "assign" /\ q.cust = c /\ q.row = row
  BY DEF Request
<1>. HIDE DEF q
<1>6. /\ \A s \in Requests \ {r} : req'[s] = req[s]
      /\ IF row.code = NoCode THEN req'[r] = q ELSE req'[r] = req[r]
  BY <1>4 DEF DeskInv, RowsTypeOK
<1>7. RowsTypeOK'
  BY <1>1, <1>2, <1>4, <1>5 DEF DeskInv, RowsTypeOK
<1>8. /\ Here' = Here \cup {c} /\ c \notin Here
      /\ \A d \in Here', e \in Here' : d # e /\ customer'[d].ten = customer'[e].ten
           => customer'[d].code # customer'[e].code
  BY <1>1, Apart, WrittenApart DEF Here
<1>9. ASSUME NEW s \in Requests PROVE RequestSound(s)'
  <2>1. CASE row.code = NoCode /\ s = r
    <3>1. At(r, "idle")' <=> q.cust = None
      BY <1>5, <1>6, <2>1, Apart DEF At
    <3>2. customer'[c] # None
      BY <1>2, Apart
    <3>. QED
      BY <1>2, <1>3, <1>5, <1>6, <2>1, <3>1, <3>2 DEF RequestSound
  <2>2. CASE ~(row.code = NoCode /\ s = r)
    <3>1. req'[s] = req[s] /\ req[s].cust # c
      BY <1>3, <1>6, <2>2
    <3>2. req[s].cust \in Customers => \A t \in Requests \ {s} : req'[t].cust # req[s].cust
      BY <1>3, <1>5, <1>6 DEF DeskInv, RequestSound
    <3>. QED
      BY <1>1, <1>2, <1>8, <3>1, <3>2 DEF DeskInv, RequestSound, At, Here
  <2>. QED
    BY <2>1, <2>2
<1>10. \A d \in Here' : wanted'[d] \in Row
  BY <1>2, <1>8 DEF DeskInv, Here
<1>11. ASSUME NEW d \in Here \ {c}, Pending(d) PROVE Pending(d)'
  <2>1. PICK s \in Requests : req[s].cust = d
    BY <1>11 DEF Pending
  <2>2. s # r
    BY <1>1, <2>1, Apart DEF DeskInv, RequestSound, At, Here
  <2>. QED
    BY <1>6, <2>1, <2>2 DEF Pending
<1>12. ASSUME NEW d \in Here \ {c}, Pending(d)' PROVE Pending(d)
  BY <1>5, <1>6, <1>12 DEF Pending
<1>13. row.code = NoCode => Pending(c)'
  BY <1>5, <1>6 DEF Pending
<1>14. CodesExplained'
  BY <1>1, <1>2, <1>8, <1>11, <1>13 DEF CodesExplained, DeskInv, Here
<1>15. AnswersStand'
  BY <1>1, <1>2, <1>8, <1>11, <1>12, <1>13, CodedRow DEF AnswersStand, DeskInv, Here
<1>. QED
  BY <1>7, <1>9, <1>10, <1>14, <1>15 DEF DeskInv

\* A slot that is free again: its row has no creation under way any more.
LEMMA Frees ==
  ASSUME DeskInv, NEW r \in Requests, NEW c, req[r].cust = c, ~At(r, "idle"), Finish(r)
  PROVE  /\ req' \in [Requests -> Request] /\ req'[r].cust = None
         /\ c \in Customers
         /\ \A s \in Requests \ {r} : req'[s] = req[s] /\ req[s].cust # c
         /\ ~Pending(c)'
         /\ \A d \in Customers \ {c} : Pending(d)' <=> Pending(d)
<1>1. Idle \in Request /\ Idle.cust = None
  BY DEF Idle, Request
<1>2. c \in Customers
  BY DEF DeskInv, RequestSound, RowsTypeOK, Request
<1>3. /\ req' \in [Requests -> Request] /\ req'[r].cust = None
      /\ \A s \in Requests \ {r} : req'[s] = req[s] /\ req[s].cust # c
  BY <1>1, <1>2 DEF Finish, DeskInv, RowsTypeOK, RequestSound
<1>4. ~Pending(c)'
  BY <1>2, <1>3, Apart DEF Pending
<1>5. ASSUME NEW d \in Customers \ {c} PROVE Pending(d)' <=> Pending(d)
  <2>1. \A s \in Requests : req'[s].cust = d <=> req[s].cust = d
    BY <1>2, <1>3, Apart
  <2>. QED
    BY <2>1 DEF Pending
<1>. QED
  BY <1>2, <1>3, <1>4, <1>5

\* The end of a creation: its row is as it was, and then noted as codeless, or
\* is what the creation answered.
LEMMA AssignKeeps ==
  ASSUME DeskInv, NEW r \in Requests, Assign(r) \/ CutOff(r)
  PROVE  DeskInv'
<1>. DEFINE c == req[r].cust
            row == Coded(c, req[r].row)
<1>1. ~At(r, "idle") /\ Finish(r)
  BY DEF Assign, CutOff, At
<1>2. c \in Customers /\ req[r].row \in Row /\ row \in Row
      /\ row.ten = req[r].row.ten /\ row.code # NoCode
  <2>1. c \in Customers
    BY <1>1, Frees
  <2>2. req[r].row \in Row
    BY <2>1 DEF DeskInv, RequestSound
  <2>. QED
    BY <2>1, <2>2, CodedRow
<1>3. wanted' = wanted /\ overlapped' = overlapped /\ faults' \in 0 .. MaxFaults
  BY FaultType DEF Assign, CutOff, DeskInv
<1>4. \/ customer' = customer /\ codeless' = codeless \cup ({c} \cap Here)
      \/ /\ customer' = [customer EXCEPT ![c] = row] /\ codeless' = codeless
         /\ c \in Here /\ CodeFree(row.ten, c, row.code)
  BY <1>2 DEF Assign, CutOff, Update, Updatable, Owns, Here
<1>5. Here' = Here
  BY <1>2, <1>4 DEF Here, DeskInv, RowsTypeOK
<1>6. RowsTypeOK'
  BY <1>1, <1>2, <1>3, <1>4, Frees DEF DeskInv, RowsTypeOK, Here
<1>7. \A d \in Here : /\ d # c => customer'[d] = customer[d]
                      /\ d \in codeless => d \in codeless'
                      /\ d \in codeless' => d \in codeless \/ d = c
                      /\ customer'[d].ten = customer[d].ten
  <2>1. c \in Here => customer[c].ten = row.ten
    BY <1>2 DEF DeskInv, RequestSound
  <2>. QED
    BY <1>2, <1>4, <2>1 DEF DeskInv, RowsTypeOK, Here
<1>8. ASSUME NEW s \in Requests PROVE RequestSound(s)'
  <2>1. CASE s = r
    <3>1. req'[r].at = "idle" /\ req'[r].cust = None
      BY <1>1 DEF Finish, Idle, DeskInv, RowsTypeOK
    <3>. QED
      BY <2>1, <3>1, Apart DEF RequestSound, At, Here
  <2>2. CASE s # r
    <3>1. req'[s] = req[s] /\ req[s].cust # c
      BY <1>1, <2>2, Frees
    <3>2. ASSUME req[s].cust \in Customers
          PROVE  \A t \in Requests \ {s} : req'[t].cust # req[s].cust
      BY <1>1, <3>1, <3>2, Frees, Apart DEF DeskInv, RequestSound
    <3>3. req[s].cust \in Customers => customer'[req[s].cust] = customer[req[s].cust]
      BY <1>4, <3>1 DEF DeskInv, RowsTypeOK
    <3>. QED
      BY <1>3, <1>5, <3>1, <3>2, <3>3 DEF DeskInv, RequestSound, At, Here
  <2>. QED
    BY <2>1, <2>2
<1>9. \A d \in Here' : wanted'[d] \in Row
  BY <1>3, <1>5 DEF DeskInv
<1>10. c \in Here \ codeless' => customer'[c] = row
  BY <1>4 DEF DeskInv, RowsTypeOK, Here
<1>11. \A d \in Here, e \in Here : d # e /\ customer'[d].ten = customer'[e].ten
         => customer'[d].code # customer'[e].code
  BY <1>2, <1>4, <1>5, WrittenApart DEF DeskInv, CodesExplained
<1>12. CodesExplained'
  <2>. SUFFICES ASSUME NEW d \in Here, customer'[d].code = NoCode
                PROVE  Pending(d)' \/ d \in codeless' \/ wanted'[d].code = NoCode
    BY <1>5, <1>11 DEF CodesExplained
  <2>1. CASE d = c
    BY <1>2, <1>10, <2>1
  <2>2. CASE d # c
    BY <1>1, <1>3, <1>7, <2>2, Frees DEF DeskInv, CodesExplained, Here
  <2>. QED
    BY <2>1, <2>2
<1>13. AnswersStand'
  <2>. SUFFICES ASSUME NEW d \in Here, ~Pending(d)', d \notin codeless' \cup overlapped
                PROVE  customer'[d] = wanted[d]
    BY <1>3, <1>5 DEF AnswersStand
  <2>1. CASE d = c
    BY <1>10, <2>1 DEF DeskInv, RequestSound
  <2>2. CASE d # c
    BY <1>1, <1>7, <2>2, Frees DEF DeskInv, AnswersStand, Here
  <2>. QED
    BY <2>1, <2>2
<1>. QED
  BY <1>6, <1>8, <1>9, <1>12, <1>13 DEF DeskInv

LEMMA EditKeeps ==
  ASSUME DeskInv, NEW c \in Customers, NEW row \in Row, Edit(c, row)
  PROVE  DeskInv'
<1>1. /\ customer' = [customer EXCEPT ![c] = row] /\ wanted' = [wanted EXCEPT ![c] = row]
      /\ c \in Here /\ customer[c].ten = row.ten /\ CodeFree(row.ten, c, row.code)
      /\ req' = req /\ faults' = faults /\ codeless' = codeless
      /\ overlapped' = IF Pending(c) THEN overlapped \cup {c} ELSE overlapped
  BY DEF Edit, Update, Updatable, Owns, Here
<1>2. /\ customer'[c] = row /\ wanted'[c] = row
      /\ \A d \in Customers \ {c} : customer'[d] = customer[d] /\ wanted'[d] = wanted[d]
  BY <1>1 DEF DeskInv, RowsTypeOK
<1>3. /\ Here' = Here
      /\ \A d \in Here, e \in Here : d # e /\ customer'[d].ten = customer'[e].ten
           => customer'[d].code # customer'[e].code
  <2>1. Here \cup {c} = Here
    BY <1>1
  <2>2. /\ Here' = Here \cup {c}
        /\ \A d \in Here', e \in Here' : d # e /\ customer'[d].ten = customer'[e].ten
             => customer'[d].code # customer'[e].code
    BY <1>1, WrittenApart
  <2>. QED
    BY <2>1, <2>2
<1>4. RowsTypeOK'
  BY <1>1 DEF DeskInv, RowsTypeOK
<1>5. \A d \in Customers : Pending(d)' <=> Pending(d)
  BY <1>1 DEF Pending
<1>6. ASSUME NEW s \in Requests PROVE RequestSound(s)'
  <2>1. req[s].cust = c => c \in overlapped'
    BY <1>1 DEF Pending
  <2>2. customer'[c] # None
    BY <1>2, Apart
  <2>. QED
    BY <1>1, <1>2, <1>3, <2>1, <2>2 DEF DeskInv, RequestSound, At, Here
<1>7. \A d \in Here' : wanted'[d] \in Row
  BY <1>2, <1>3 DEF DeskInv, Here
<1>8. CodesExplained'
  BY <1>1, <1>2, <1>3, <1>5 DEF DeskInv, CodesExplained, Here
<1>9. AnswersStand'
  BY <1>1, <1>2, <1>3, <1>5 DEF DeskInv, AnswersStand, Here
<1>. QED
  BY <1>4, <1>6, <1>7, <1>8, <1>9 DEF DeskInv

LEMMA DeleteKeeps ==
  ASSUME DeskInv, NEW t \in Tenants, NEW c \in Customers, DeleteCustomer(t, c)
  PROVE  DeskInv'
<1>1. /\ customer' = [customer EXCEPT ![c] = Deleted] /\ wanted' = [wanted EXCEPT ![c] = None]
      /\ c \in Here /\ req' = req /\ faults' = faults
      /\ codeless' = codeless \ {c} /\ overlapped' = overlapped \ {c}
  BY DEF DeleteCustomer, Owns, Here
<1>2. /\ Here' = Here \ {c}
      /\ \A d \in Customers \ {c} : customer'[d] = customer[d] /\ wanted'[d] = wanted[d]
  BY <1>1, Apart DEF DeskInv, RowsTypeOK, Here
<1>3. RowsTypeOK'
  BY <1>1 DEF DeskInv, RowsTypeOK
<1>4. \A d \in Customers : Pending(d)' <=> Pending(d)
  BY <1>1 DEF Pending
<1>5. customer'[c] # None
  BY <1>1, Apart DEF DeskInv, RowsTypeOK
<1>6. \A s \in Requests : RequestSound(s)'
  BY <1>1, <1>2, <1>5 DEF DeskInv, RequestSound, At, Here
<1>7. CodesExplained' /\ AnswersStand' /\ \A d \in Here' : wanted'[d] \in Row
  BY <1>1, <1>2, <1>4 DEF DeskInv, CodesExplained, AnswersStand, Here
<1>. QED
  BY <1>3, <1>6, <1>7 DEF DeskInv

\* A step that leaves rows and creations alone: the client's, or none.
LEMMA RowsAlone ==
  ASSUME DeskInv, UNCHANGED <<customer, req, faults, history>>
  PROVE  DeskInv'
BY DEF DeskInv, RowsTypeOK, RequestSound, At, Here, Pending, CodesExplained,
       AnswersStand, history

LEMMA DeskStep == DeskInv /\ [Next]_vars => DeskInv'
<1>. SUFFICES ASSUME DeskInv, [Next]_vars PROVE DeskInv'
  OBVIOUS
<1>1. ASSUME NEW t \in Tenants, NEW asked \in 0 .. MaxLimit + 1, StartWalk(t, asked)
      PROVE  DeskInv'
  BY <1>1, RowsAlone DEF StartWalk
<1>2. CASE CountRows
  BY <1>2, RowsAlone DEF CountRows
<1>3. CASE ReadPage
  BY <1>3, RowsAlone DEF ReadPage
<1>4. CASE UNCHANGED vars
  BY <1>4, RowsAlone DEF vars
<1>. QED
  BY <1>1, <1>2, <1>3, <1>4, CreateKeeps, AssignKeeps, EditKeeps, DeleteKeeps DEF Next

\* Every creation, edit and deletion leaves rows and requests sound (create,
\* update and delete of customers.go).
THEOREM DeskSafe == Spec => []DeskInv
BY DeskInit, DeskStep, PTL DEF Spec

\* Loyalty codes are unique per tenant and missing only for a reason on record.
THEOREM CodesAreExplained == Spec => []CodesExplained
<1>1. DeskInv => CodesExplained
  BY DEF DeskInv
<1>. QED
  BY <1>1, DeskSafe, PTL

\* What a creation answered and the last edit said is in the row, unless the
\* second statement failed or overwrote an edit.
THEOREM AnswersDoStand == Spec => []AnswersStand
<1>1. DeskInv => AnswersStand
  BY DEF DeskInv
<1>. QED
  BY <1>1, DeskSafe, PTL

(***************************************************************************)
(* WalkInv is inductive: what is new in a list moves the rest of it back,  *)
(* so a client that has come to an offset has seen what was before it.     *)
(***************************************************************************)

LEMMA Sizes ==
  ASSUME NEW S \in SUBSET Customers, NEW T \in SUBSET S
  PROVE  /\ Cardinality(S) \in Nat /\ Cardinality(T) \in Nat
         /\ Cardinality(T) <= Cardinality(S)
         /\ S # T => Cardinality(T) < Cardinality(S)
<1>1. IsFiniteSet(S) /\ IsFiniteSet(T)
  BY DeskAssumption, FS_Subset
<1>2. Cardinality(S) \in Nat /\ Cardinality(T) \in Nat
  BY <1>1, FS_CardinalityType
<1>. QED
  BY <1>1, <1>2, FS_Subset

LEMMA BeforeType == \A c : Before(c) \in Nat
BY Sizes DEF Before, Younger, Listed

\* Who is in a list is not before itself.
LEMMA BeforeTotal ==
  ASSUME WalkInv, NEW c \in Listed(walk.ten)
  PROVE  Before(c) < Cardinality(Listed(walk.ten))
<1>1. Younger(walk.ten, c) \in SUBSET Listed(walk.ten) /\ c \notin Younger(walk.ten, c)
  BY DEF Younger, WalkInv, Listed
<1>2. Listed(walk.ten) \in SUBSET Customers
  BY DEF Listed
<1>. QED
  BY <1>1, <1>2, Sizes DEF Before

LEMMA WalkInit == Init => WalkInv
<1>. SUFFICES ASSUME Init PROVE WalkInv
  OBVIOUS
<1>1. /\ walk = NoWalk /\ NoWalk \in Walk /\ NoWalk.at = "new" /\ NoWalk.start = {}
      /\ NoWalk.seen = {} /\ NoWalk.twice = FALSE /\ NoWalk.offset = 0
  BY DeskAssumption DEF Init, NoWalk, Walk
<1>2. TypeOK
  BY <1>1, DeskInit DEF Init, TypeOK, DeskInv
<1>. QED
  BY <1>1, <1>2 DEF WalkInv, PagesJoin, Init

\* A step after which the client's list is the same.
LEMMA SameList ==
  ASSUME WalkInv, TypeOK', UNCHANGED <<older, walk>>,
         Listed(walk.ten)' = Listed(walk.ten)
  PROVE  WalkInv'
<1>1. \A c : Before(c)' = Before(c)
  BY DEF Before, Younger
<1>. QED
  BY <1>1 DEF WalkInv, PagesJoin, Granted

\* A row that is written over one of its tenant's leaves the lists as they are.
LEMMA OverwrittenKeeps ==
  ASSUME WalkInv, TypeOK', UNCHANGED <<older, walk>>,
         NEW c \in Customers, NEW row \in Row, Owns(row.ten, c),
         customer' = [customer EXCEPT ![c] = row]
  PROVE  WalkInv'
<1>1. /\ customer'[c] = row /\ \A d \in Customers \ {c} : customer'[d] = customer[d]
  BY DEF WalkInv, TypeOK, RowsTypeOK
<1>2. \A d \in Customers : Owns(walk.ten, d)' <=> Owns(walk.ten, d)
  BY <1>1 DEF Owns
<1>3. Listed(walk.ten)' = Listed(walk.ten)
  BY <1>2 DEF Listed
<1>. QED
  BY <1>3, SameList

LEMMA AddedKeeps ==
  ASSUME DeskInv, WalkInv, RowsTypeOK', NEW c \in Customers, NEW row \in Row,
         Insert(c, row), NoteAdded(row.ten)
  PROVE  WalkInv'
<1>1. /\ customer[c] = None /\ customer' = [customer EXCEPT ![c] = row]
      /\ older' = [older EXCEPT ![c] = Here]
  BY DEF Insert
<1>2. /\ customer'[c] = row /\ older'[c] = Here /\ c \notin Here
      /\ \A d \in Customers \ {c} : customer'[d] = customer[d] /\ older'[d] = older[d]
  BY <1>1, Apart DEF WalkInv, TypeOK, RowsTypeOK, Here
<1>3. /\ walk' \in Walk /\ walk'.at = walk.at /\ walk'.ten = walk.ten
      /\ walk'.asked = walk.asked /\ walk'.offset = walk.offset
      /\ walk'.total = walk.total /\ walk'.seen = walk.seen
      /\ walk'.start = walk.start /\ walk'.twice = walk.twice /\ walk'.shrunk = walk.shrunk
      /\ walk'.grown = (walk.grown \/ row.ten = walk.ten)
      /\ walk'.between = (walk.between \/ (row.ten = walk.ten /\ walk.at = "page"))
  BY DEF NoteAdded, WalkInv, TypeOK, Walk
<1>4. TypeOK'
  BY <1>1, <1>3 DEF WalkInv, TypeOK, Here
<1>5. \A d \in Customers : d \notin older'[d]
  BY <1>2 DEF WalkInv
<1>6. CASE row.ten = walk.ten
  <2>1. Listed(walk.ten) \subseteq Listed(walk.ten)' /\ c \notin Listed(walk.ten)
    BY <1>2, <1>3 DEF Listed, Owns, Here
  <2>2. \A d : Before(d) <= Before(d)' /\ Before(d) \in Nat /\ Before(d)' \in Nat
    <3>1. \A d : Younger(walk.ten, d) \subseteq Younger(walk.ten, d)'
      BY <1>2, <1>3, <2>1 DEF Younger, Listed
    <3>2. \A d : Younger(walk.ten, d)' \in SUBSET Customers
      BY DEF Younger, Listed
    <3>. QED
      BY <3>1, <3>2, Sizes DEF Before
  <2>. QED
    BY <1>3, <1>4, <1>5, <1>6, <2>1, <2>2 DEF WalkInv, PagesJoin, Granted, TypeOK, Walk
<1>7. CASE row.ten # walk.ten
  <2>1. Listed(walk.ten)' = Listed(walk.ten) /\ c \notin Listed(walk.ten)
    BY <1>2, <1>3, <1>7 DEF Listed, Owns, Here
  <2>2. \A d : Before(d)' = Before(d)
    <3>1. \A d : Younger(walk.ten, d)' = Younger(walk.ten, d)
      BY <1>2, <1>3, <2>1 DEF Younger, Listed
    <3>. QED
      BY <3>1 DEF Before
  <2>. QED
    BY <1>3, <1>4, <1>5, <1>7, <2>1, <2>2 DEF WalkInv, PagesJoin, Granted
<1>. QED
  BY <1>6, <1>7

LEMMA DeletedKeeps ==
  ASSUME WalkInv, RowsTypeOK', NEW t \in Tenants, NEW c \in Customers, DeleteCustomer(t, c)
  PROVE  WalkInv'
<1>1. /\ customer' = [customer EXCEPT ![c] = Deleted] /\ customer[c].ten = t
      /\ older' = [d \in Customers |-> IF d = c THEN {} ELSE older[d] \ {c}]
      /\ NoteDeleted(t)
  BY DEF DeleteCustomer, Owns
<1>2. /\ customer'[c] = Deleted
      /\ \A d \in Customers \ {c} : customer'[d] = customer[d] /\ older'[d] = older[d] \ {c}
  BY <1>1 DEF WalkInv, TypeOK, RowsTypeOK
<1>3. /\ walk' \in Walk /\ walk'.at = walk.at /\ walk'.ten = walk.ten
      /\ walk'.asked = walk.asked /\ walk'.offset = walk.offset
      /\ walk'.total = walk.total /\ walk'.seen = walk.seen
      /\ walk'.start = walk.start /\ walk'.twice = walk.twice /\ walk'.grown = walk.grown
      /\ walk'.between = walk.between
      /\ walk'.shrunk = (walk.shrunk \/ t = walk.ten)
  BY <1>1 DEF NoteDeleted, WalkInv, TypeOK, Walk
<1>4. TypeOK'
  BY <1>1, <1>3 DEF WalkInv, TypeOK
<1>5. \A d \in Customers : d \notin older'[d]
  BY <1>1 DEF WalkInv
<1>6. Listed(walk.ten)' = Listed(walk.ten) \ {c}
  BY <1>2, <1>3, Apart DEF Listed, Owns
<1>7. CASE t = walk.ten
  <2>1. \A d : Before(d)' <= Before(d) /\ Before(d) \in Nat /\ Before(d)' \in Nat
    <3>1. \A d : Younger(walk.ten, d)' \subseteq Younger(walk.ten, d)
      BY <1>2, <1>3, <1>6 DEF Younger, Listed
    <3>2. \A d : Younger(walk.ten, d) \in SUBSET Customers
      BY DEF Younger, Listed
    <3>. QED
      BY <3>1, <3>2, Sizes DEF Before
  <2>. QED
    BY <1>3, <1>4, <1>5, <1>6, <1>7, <2>1 DEF WalkInv, PagesJoin, Granted, TypeOK, Walk
<1>8. CASE t # walk.ten
  <2>1. Listed(walk.ten)' = Listed(walk.ten) /\ c \notin Listed(walk.ten)
    BY <1>1, <1>6, <1>8 DEF Listed, Owns
  <2>2. \A d \in Listed(walk.ten) : Before(d)' = Before(d)
    <3>1. \A d \in Listed(walk.ten) : Younger(walk.ten, d)' = Younger(walk.ten, d)
      BY <1>2, <1>3, <2>1 DEF Younger, Listed
    <3>. QED
      BY <3>1 DEF Before
  <2>. QED
    BY <1>3, <1>4, <1>5, <1>8, <2>1, <2>2 DEF WalkInv, PagesJoin, Granted
<1>. QED
  BY <1>7, <1>8

\* The client's own steps: the list is as it is.
LEMMA StartWalkKeeps ==
  ASSUME WalkInv, NEW t \in Tenants, NEW asked \in 0 .. MaxLimit + 1, StartWalk(t, asked)
  PROVE  WalkInv'
<1>1. UNCHANGED <<customer, older, req, faults, wanted, overlapped, codeless>>
  BY DEF StartWalk, history
<1>2. /\ walk' \in Walk /\ walk'.at = "count" /\ walk'.ten = t /\ walk'.seen = {}
      /\ walk'.start = Listed(t) /\ walk'.offset = 0 /\ walk'.twice = FALSE
  BY DeskAssumption DEF StartWalk, NoWalk, Walk, Listed
<1>3. TypeOK'
  BY <1>1, <1>2 DEF WalkInv, TypeOK, RowsTypeOK
<1>4. Listed(t)' = Listed(t)
  BY <1>1 DEF Listed, Owns
<1>5. \A c : Before(c)' \in Nat
  BY Sizes DEF Before, Younger, Listed
<1>. QED
  BY <1>1, <1>2, <1>3, <1>4, <1>5 DEF WalkInv, PagesJoin

LEMMA CountRowsKeeps == ASSUME WalkInv, CountRows PROVE WalkInv'
<1>1. UNCHANGED <<customer, older, req, faults, wanted, overlapped, codeless>>
      /\ walk.at = "count"
  BY DEF CountRows, history
<1>2. Cardinality(Listed(walk.ten)) \in Nat
  BY Sizes DEF Listed
<1>3. /\ walk' \in Walk /\ walk'.at = "page" /\ walk'.ten = walk.ten
      /\ walk'.asked = walk.asked /\ walk'.offset = walk.offset
      /\ walk'.total = Cardinality(Listed(walk.ten)) /\ walk'.seen = walk.seen
      /\ walk'.start = walk.start /\ walk'.twice = walk.twice /\ walk'.grown = walk.grown
      /\ walk'.between = walk.between /\ walk'.shrunk = walk.shrunk
  BY <1>2 DEF CountRows, WalkInv, TypeOK, Walk
<1>4. TypeOK'
  BY <1>1, <1>3 DEF WalkInv, TypeOK, RowsTypeOK
<1>5. Listed(walk.ten)' = Listed(walk.ten) /\ \A c : Before(c)' = Before(c)
  BY <1>1, <1>3 DEF Listed, Owns, Before, Younger
<1>. QED
  BY <1>1, <1>3, <1>4, <1>5, BeforeTotal DEF WalkInv, PagesJoin, Granted

LEMMA ReadPageKeeps == ASSUME WalkInv, ReadPage PROVE WalkInv'
<1>. DEFINE next == walk.offset + walk.asked
            page == Page(walk.ten, Limit(walk.asked), walk.offset)
            last == ~(walk.asked > 0 /\ next < walk.total)
<1>1. UNCHANGED <<customer, older, req, faults, wanted, overlapped, codeless>>
      /\ walk.at = "page"
  BY DEF ReadPage, history
<1>2. next \in Nat /\ page \subseteq Customers
  BY DeskAssumption DEF WalkInv, TypeOK, Walk, Page, Listed
<1>3. /\ walk' \in Walk /\ walk'.at = IF last THEN "done" ELSE "count"
      /\ walk'.ten = walk.ten /\ walk'.asked = walk.asked /\ walk'.offset = next
      /\ walk'.seen = walk.seen \cup page
      /\ walk'.twice = (walk.twice \/ walk.seen \cap page # {})
      /\ walk'.start = walk.start /\ walk'.grown = walk.grown
      /\ walk'.between = walk.between /\ walk'.shrunk = walk.shrunk
  BY <1>2 DEF ReadPage, WalkInv, TypeOK, Walk
<1>4. TypeOK'
  BY <1>1, <1>3 DEF WalkInv, TypeOK, RowsTypeOK
<1>5. Listed(walk.ten)' = Listed(walk.ten) /\ \A c : Before(c)' = Before(c)
  BY <1>1, <1>3 DEF Listed, Owns, Before, Younger
<1>6. ASSUME Granted
      PROVE  /\ page = {c \in Listed(walk.ten) : walk.offset <= Before(c) /\ Before(c) < next}
             /\ walk.offset \in Nat /\ next > walk.offset /\ last = (next >= walk.total)
             /\ walk.total \in Nat
  BY <1>6, BeforeType DEF Page, Limit, Before, Granted, WalkInv, TypeOK, Walk
<1>. HIDE DEF next, page, last
<1>7. ASSUME Granted, ~walk.shrunk, NEW c \in walk.start \ (walk.seen \cup page)
      PROVE  Before(c) >= next
  BY <1>2, <1>6, <1>7, BeforeType DEF WalkInv
<1>8. ASSUME Granted, ~walk.grown, NEW c \in (walk.seen \cup page) \cap Listed(walk.ten)
      PROVE  Before(c) < next
  BY <1>2, <1>6, <1>8, BeforeType DEF WalkInv
<1>9. ASSUME Granted, ~walk.grown PROVE walk.seen \cap page = {}
  BY <1>6, <1>9, BeforeType DEF WalkInv
<1>10. ASSUME Granted, last, ~walk.shrunk, ~walk.between
       PROVE  walk.start \subseteq walk.seen \cup page
  <2>1. SUFFICES ASSUME NEW c \in walk.start, c \notin walk.seen \cup page PROVE FALSE
    OBVIOUS
  <2>2. Before(c) >= next /\ Before(c) < walk.total /\ next >= walk.total
    BY <1>1, <1>6, <1>7, <1>10, <2>1 DEF WalkInv
  <2>. QED
    BY <1>2, <1>6, <1>10, <2>2, BeforeType
<1>11. PagesJoin'
  BY <1>3, <1>9, <1>10 DEF WalkInv, PagesJoin, Granted
<1>. QED
  BY <1>1, <1>3, <1>4, <1>5, <1>7, <1>8, <1>11 DEF WalkInv, Granted

LEMMA WalkStep == DeskInv /\ WalkInv /\ [Next]_vars => WalkInv'
<1>. SUFFICES ASSUME DeskInv, WalkInv, [Next]_vars PROVE WalkInv'
  OBVIOUS
<1>1. RowsTypeOK'
  BY DeskStep DEF DeskInv
<1>2. ASSUME UNCHANGED <<customer, older, walk>> PROVE WalkInv'
  <2>1. TypeOK' /\ Listed(walk.ten)' = Listed(walk.ten)
    BY <1>1, <1>2 DEF WalkInv, TypeOK, Listed, Owns
  <2>. QED
    BY <1>2, <2>1, SameList
<1>3. ASSUME UNCHANGED <<older, walk>> PROVE TypeOK'
  BY <1>1, <1>3 DEF WalkInv, TypeOK
<1>4. ASSUME NEW r \in Requests, NEW c \in Customers, NEW row \in Row, Create(r, c, row)
      PROVE  WalkInv'
  BY <1>1, <1>4, AddedKeeps DEF Create
<1>5. ASSUME NEW r \in Requests, Assign(r) PROVE WalkInv'
  <2>. DEFINE c == req[r].cust
              row == Coded(c, req[r].row)
  <2>1. c \in Customers /\ row \in Row
    <3>1. c \in Customers
      BY <1>5, Apart DEF Assign, At, DeskInv, RequestSound, RowsTypeOK, Request
    <3>. QED
      BY <3>1, CodedRow DEF DeskInv, RequestSound
  <2>2. /\ UNCHANGED <<older, walk>>
        /\ \/ UNCHANGED customer
           \/ Owns(row.ten, c) /\ customer' = [customer EXCEPT ![c] = row]
    BY <1>5 DEF Assign, Update, Updatable
  <2>. HIDE DEF c, row
  <2>. QED
    BY <1>2, <1>3, <2>1, <2>2, OverwrittenKeeps
<1>6. ASSUME NEW c \in Customers, NEW row \in Row, Edit(c, row) PROVE WalkInv'
  BY <1>3, <1>6, OverwrittenKeeps DEF Edit, Update, Updatable
<1>7. ASSUME NEW r \in Requests, CutOff(r) PROVE WalkInv'
  BY <1>2, <1>7 DEF CutOff
<1>8. ASSUME NEW t \in Tenants, NEW c \in Customers, DeleteCustomer(t, c) PROVE WalkInv'
  BY <1>1, <1>8, DeletedKeeps
<1>9. CASE UNCHANGED vars
  BY <1>2, <1>9 DEF vars
<1>. QED
  BY <1>4, <1>5, <1>6, <1>7, <1>8, <1>9, StartWalkKeeps, CountRowsKeeps, ReadPageKeeps
     DEF Next

\* The types of the model, and the place of a client in its list.
THEOREM WalkSafe == Spec => []WalkInv
BY WalkInit, WalkStep, DeskSafe, PTL DEF Spec

\* A client that pages through the list (Repo.List, ParsePage) misses nobody
\* that was there when it began and sees nobody twice, whatever the limit that
\* it is granted: except by deletions, by rows added between a count and its
\* page, and by rows added at all.
THEOREM PagesDoJoin == Spec => []PagesJoin
<1>1. WalkInv => PagesJoin
  BY DEF WalkInv
<1>. QED
  BY <1>1, WalkSafe, PTL
=============================================================================
