---------------------------- MODULE CustomerDesk ----------------------------
(***************************************************************************)
(* The customers table: rows that a seller creates, edits and deletes,     *)
(* the loyalty code a new row is given by a second statement, and a client *)
(* that pages through the list.  Data stands for every column but the      *)
(* code; Prefix gives the code that the server makes of a row's id.        *)
(***************************************************************************)
EXTENDS Naturals, FiniteSets

CONSTANTS
  Customers,     \* ids: never used twice
  Tenants,
  Codes,         \* loyalty codes, typed by a seller or made of an id
  Prefix,        \* the first eight digits of an id: two ids may share them
  Data,
  Requests,      \* slots for POST /customers
  MaxLimit,      \* the largest page: 100
  DefaultLimit,  \* the page of who asks for none, or for too much: 20
  MaxFaults,     \* bound: statements that fail and requests that are cut off
  None, Deleted, NoCode

Row == [ten : Tenants, code : Codes \cup {NoCode}, data : Data]

ASSUME DeskAssumption ==
  /\ IsFiniteSet(Customers) /\ MaxFaults \in Nat
  /\ MaxLimit \in Nat \ {0} /\ DefaultLimit \in 1 .. MaxLimit
  /\ {None, Deleted, NoCode} \cap (Customers \cup Codes \cup Row) = {}
  /\ None # Deleted
  /\ Prefix \in [Customers -> Codes]

VARIABLES
  customer,    \* customers, by id
  older,       \* of each row, the rows that were created before it
  req,         \* the creation each slot is serving
  walk,        \* the client that reads the list page by page
  faults,
  (* history *)
  wanted,      \* what each row is by its requests, in the order they began
  overlapped,  \* rows edited while their creation was under way
  codeless     \* rows whose second statement was refused or has failed

history == <<wanted, overlapped, codeless>>
vars == <<customer, older, req, walk, faults, history>>

Request == [at   : {"idle", "assign"},
            cust : Customers \cup {None},
            row  : Row \cup {None}]
Idle == [at |-> "idle", cust |-> None, row |-> None]

Walk == [at      : {"new", "count", "page", "done"},
         ten     : Tenants \cup {None},
         asked   : 0 .. MaxLimit + 1,      \* the limit in the query
         offset  : Nat,
         total   : Nat,                    \* queryRecordCount
         seen    : SUBSET Customers,
         twice   : BOOLEAN,                \* a customer was seen twice
         start   : SUBSET Customers,       \* the list when the walk began
         grown   : BOOLEAN,                \* rows were added since
         shrunk  : BOOLEAN,                \* rows were deleted since
         between : BOOLEAN]                \* added between a count and its page
NoWalk == [at |-> "new", ten |-> None, asked |-> 0, offset |-> 0, total |-> 0,
           seen |-> {}, twice |-> FALSE, start |-> {}, grown |-> FALSE,
           shrunk |-> FALSE, between |-> FALSE]

RowsTypeOK ==
  /\ customer \in [Customers -> Row \cup {None, Deleted}]
  /\ req \in [Requests -> Request]
  /\ faults \in 0 .. MaxFaults
  /\ wanted \in [Customers -> Row \cup {None}]
  /\ overlapped \subseteq Customers
  /\ codeless \subseteq Customers

TypeOK == RowsTypeOK /\ older \in [Customers -> SUBSET Customers] /\ walk \in Walk

Init ==
  /\ customer = [c \in Customers |-> None]
  /\ older = [c \in Customers |-> {}]
  /\ req = [r \in Requests |-> Idle]
  /\ walk = NoWalk
  /\ faults = 0
  /\ wanted = [c \in Customers |-> None]
  /\ overlapped = {} /\ codeless = {}

-----------------------------------------------------------------------------
Owns(t, c) == customer[c] \in Row /\ customer[c].ten = t
Here == {c \in Customers : customer[c] \in Row}
Pending(c) == \E r \in Requests : req[r].cust = c
At(r, point) == req[r].at = point
Finish(r) == req' = [req EXCEPT ![r] = Idle]
Fault == faults < MaxFaults /\ faults' = faults + 1

\* UNIQUE (tenant_id, customer_loyalty_code): '' is a code like any other.
CodeFree(t, c, code) ==
  \A d \in Customers \ {c} : Owns(t, d) => customer[d].code # code

\* repo.Create: an INSERT that the constraint lets pass.
Insert(c, row) ==
  /\ customer[c] = None /\ CodeFree(row.ten, c, row.code)
  /\ customer' = [customer EXCEPT ![c] = row]
  /\ older' = [older EXCEPT ![c] = Here]

Updatable(c, row) == Owns(row.ten, c) /\ CodeFree(row.ten, c, row.code)

\* Mutant: the UPDATE has no loyalty code among its columns.
UpdateButCode(c, row) ==
  /\ Updatable(c, row)
  /\ customer' = [customer EXCEPT ![c].data = row.data]

\* repo.Update rewrites every column.
Update(c, row) ==
  /\ Updatable(c, row)
  /\ customer' = [customer EXCEPT ![c] = row]

\* What a walk under way notes of a row added to or deleted from its list.
NoteAdded(t)   == walk' = [walk EXCEPT !.grown = @ \/ t = walk.ten,
                    !.between = @ \/ (t = walk.ten /\ walk.at = "page")]
NoteDeleted(t) == walk' = [walk EXCEPT !.shrunk = @ \/ t = walk.ten]

-----------------------------------------------------------------------------
(* POST, PUT and DELETE /customers *)

\* The row that a creation answers with.
Coded(c, row) == IF row.code = NoCode THEN [row EXCEPT !.code = Prefix[c]] ELSE row

\* create: the row as bind has read it, with or without a code.
Create(r, c, row) ==
  /\ At(r, "idle")
  /\ Insert(c, row)
  /\ IF row.code = NoCode
     THEN req' = [req EXCEPT ![r] = [at |-> "assign", cust |-> c, row |-> row]]
     ELSE UNCHANGED req
  /\ wanted' = [wanted EXCEPT ![c] = Coded(c, row)]
  /\ NoteAdded(row.ten)
  /\ UNCHANGED <<faults, overlapped, codeless>>

\* Mutant: the row is answered with its code and never given it.
AssignNothing(r) ==
  /\ At(r, "assign")
  /\ Finish(r)
  /\ UNCHANGED <<customer, older, walk, faults, history>>

\* The second statement gives the row the code of its id, and writes every other
\* column again; its error is dropped and the code answered all the same.
Assign(r) ==
  LET c == req[r].cust
      row == Coded(c, req[r].row) IN
  /\ At(r, "assign")
  /\ \/ Update(c, row) /\ UNCHANGED <<faults, codeless>>
     \/ /\ ~Updatable(c, row) /\ codeless' = codeless \cup ({c} \cap Here)
        /\ UNCHANGED <<customer, faults>>
     \/ Fault /\ codeless' = codeless \cup ({c} \cap Here) /\ UNCHANGED customer
  /\ Finish(r)
  /\ UNCHANGED <<older, walk, wanted, overlapped>>

\* update: one statement; it may name no code, and may come from a list read
\* while the row had none.
Edit(c, row) ==
  /\ Update(c, row)
  /\ wanted' = [wanted EXCEPT ![c] = row]
  /\ overlapped' = IF Pending(c)
                   THEN overlapped \cup {c} ELSE overlapped
  /\ UNCHANGED <<older, req, walk, faults, codeless>>

\* delete.
DeleteCustomer(t, c) ==
  /\ Owns(t, c)
  /\ customer' = [customer EXCEPT ![c] = Deleted]
  /\ older' = [d \in Customers |-> IF d = c THEN {} ELSE older[d] \ {c}]
  /\ wanted' = [wanted EXCEPT ![c] = None]
  /\ overlapped' = overlapped \ {c} /\ codeless' = codeless \ {c}
  /\ NoteDeleted(t)
  /\ UNCHANGED <<req, faults>>

\* The process dies between the two statements of a creation.
CutOff(r) ==
  /\ ~At(r, "idle")
  /\ Fault /\ Finish(r)
  /\ codeless' = codeless \cup ({req[r].cust} \cap Here)
  /\ UNCHANGED <<customer, older, walk, wanted, overlapped>>

-----------------------------------------------------------------------------
(* GET /customers, page by page *)

\* ParsePage: what limit a query gets.
Limit(asked) == IF asked \in 1 .. MaxLimit THEN asked ELSE DefaultLimit

Listed(t) == {c \in Customers : Owns(t, c)}

\* ORDER BY created_at DESC: the rows before c in its list.
Younger(t, c) == {d \in Listed(t) : c \in older[d]}

\* Mutant: the page ends one row early.
PageShort(t, limit, offset) ==
  {c \in Listed(t) :
     LET n == Cardinality(Younger(t, c)) IN offset <= n /\ n + 1 < offset + limit}

\* LIMIT and OFFSET.
Page(t, limit, offset) ==
  {c \in Listed(t) :
     LET n == Cardinality(Younger(t, c)) IN offset <= n /\ n < offset + limit}

StartWalk(t, asked) ==
  /\ walk.at = "new"
  /\ walk' = [NoWalk EXCEPT !.at = "count", !.ten = t, !.asked = asked,
                            !.start = Listed(t)]
  /\ UNCHANGED <<customer, older, req, faults, history>>

\* repo.List counts the rows,
CountRows ==
  /\ walk.at = "count"
  /\ walk' = [walk EXCEPT !.at = "page", !.total = Cardinality(Listed(walk.ten))]
  /\ UNCHANGED <<customer, older, req, faults, history>>

\* and reads the page in a statement of its own.  The client asks for the next
\* page as long as the total says that there is one.
ReadPage ==
  LET page == Page(walk.ten, Limit(walk.asked), walk.offset)
      next == walk.offset + walk.asked IN
  /\ walk.at = "page"
  /\ walk' = [walk EXCEPT !.at = IF walk.asked > 0 /\ next < walk.total
                                 THEN "count" ELSE "done",
                          !.offset = next, !.total = 0,
                          !.twice = @ \/ walk.seen \cap page # {},
                          !.seen = @ \cup page]
  /\ UNCHANGED <<customer, older, req, faults, history>>

-----------------------------------------------------------------------------
Next ==
  \/ \E r \in Requests :
       \/ \E c \in Customers, row \in Row : Create(r, c, row)
       \/ Assign(r)
       \/ CutOff(r)
  \/ \E c \in Customers, row \in Row : Edit(c, row)
  \/ \E t \in Tenants, c \in Customers : DeleteCustomer(t, c)
  \/ \E t \in Tenants, asked \in 0 .. MaxLimit + 1 : StartWalk(t, asked)
  \/ CountRows
  \/ ReadPage

Spec == Init /\ [][Next]_vars
-----------------------------------------------------------------------------
(* Properties *)

\* No two customers of a tenant share a loyalty code, and a customer has none
\* only while its creation is under way, where the second statement could not
\* give it one, or where an edit left it out.
CodesExplained ==
  \A c \in Here :
    /\ \A d \in Here \ {c} : customer[d].ten = customer[c].ten
                            => customer[d].code # customer[c].code
    /\ customer[c].code = NoCode =>
         Pending(c) \/ c \in codeless \/ wanted[c].code = NoCode

\* A customer is what its creation answered, code included, and its last edit
\* said, although a creation writes the row twice and drops the second error;
\* except where that error occurred, or an edit came between the two statements
\* and is overwritten.
AnswersStand ==
  \A c \in Here :
    ~Pending(c) /\ c \notin codeless \cup overlapped => customer[c] = wanted[c]

\* The pages of a list join: a client that pages through it misses no customer
\* that was there when it began, unless some were deleted meanwhile, one was
\* added between a count and its page (two statements), or it asked for more
\* than ParsePage grants; and it sees none twice unless some were added.
PagesJoin ==
  /\ walk.at = "done" /\ ~walk.shrunk /\ ~walk.between /\ walk.asked \in 1 .. MaxLimit
     => walk.start \subseteq walk.seen
  /\ ~walk.grown /\ walk.asked \in 1 .. MaxLimit => ~walk.twice

(* The inductive strengthening of CodesExplained and AnswersStand *)

\* The one creation under way of a row: inserted for it, without a code as long
\* as no edit gives it one, and to be what the creation answers.
RequestSound(r) ==
  LET c == req[r].cust IN
  /\ At(r, "idle") <=> c = None
  /\ c \in Customers => /\ req[r].row \in Row /\ req[r].row.code = NoCode
                       /\ customer[c] # None
                       /\ \A s \in Requests \ {r} : req[s].cust # c
  /\ c \in Here => customer[c].ten = req[r].row.ten
  /\ c \in Here \ overlapped => wanted[c] = Coded(c, req[r].row)

DeskInv ==
  /\ RowsTypeOK
  /\ \A r \in Requests : RequestSound(r)
  /\ \A c \in Here : wanted[c] \in Row
  /\ CodesExplained
  /\ AnswersStand

\* That of PagesJoin.  What the client has not seen of the list that it began
\* with is behind its offset, and what it has seen is before it; between a count
\* and its page the total covers the whole list.
Granted == walk.asked \in 1 .. MaxLimit
Before(c) == Cardinality(Younger(walk.ten, c))

WalkInv ==
  /\ TypeOK
  /\ \A c \in Customers : c \notin older[c]
  /\ walk.at = "new" => walk.start = {} /\ walk.seen = {} /\ ~walk.twice
  /\ ~walk.shrunk => walk.start \subseteq Listed(walk.ten)
  /\ Granted /\ ~walk.shrunk => \A c \in walk.start \ walk.seen : Before(c) >= walk.offset
  /\ Granted /\ ~walk.grown =>
       \A c \in walk.seen \cap Listed(walk.ten) : Before(c) < walk.offset
  /\ walk.at = "page" /\ ~walk.shrunk /\ ~walk.between =>
       \A c \in walk.start : Before(c) < walk.total
  /\ PagesJoin
=============================================================================
