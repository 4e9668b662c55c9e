--------------------------- MODULE CatalogProofs ---------------------------
(* Products, categories and coupons, for any number of them and of requests. *)
EXTENDS Catalog, TLAPS

(***************************************************************************)
(* CatalogInv is inductive: what a request has read, or found free, is     *)
(* still so when it writes, or an overlap is on record, or the database    *)
(* refuses what it writes.                                                 *)
(***************************************************************************)

LEMMA Marks ==
  /\ None # Deleted
  /\ \A mark \in {None, Deleted} :
       /\ mark \notin ProductRow /\ mark \notin CategoryRow /\ mark \notin CouponRow
       /\ mark \notin Content /\ mark \notin Input /\ mark \notin Name
       /\ mark \notin Products /\ mark \notin Categories /\ mark \notin Tenants
BY CatalogAssumption, MarksAssumption

LEMMA FaultType == TypeOK /\ (Fault \/ UNCHANGED faults) => faults' \in 0 .. MaxFaults
BY CatalogAssumption DEF TypeOK, Fault

\* What the handlers make of a body, and a deleted category of a product.

LEMMA Bodies == ASSUME NEW in \in Input PROVE <<in.sku, in.cat>> \in Name \X (Categories \cup {None}) /\ Fold(in.sku) \in Letters
BY DEF Input, Name, Fold

LEMMA CreatedContent ==
  ASSUME NEW in \in Input
  PROVE  Created(in) \in Content /\ Created(in).sku = in.sku /\ Created(in).cat = in.cat
BY DEF Created, Input, Content, Status

LEMMA EditedContent ==
  ASSUME NEW in \in Input, NEW was \in Status
  PROVE  Edited(in, was) \in Content /\ Edited(in, was).sku = in.sku /\ Edited(in, was).cat = in.cat
BY DEF Edited, Input, Content, Status

LEMMA WithoutContent ==
  ASSUME NEW x \in Content, NEW c \in Categories
  PROVE  /\ Without(x, c) \in Content
         /\ Without(x, c).sku = x.sku /\ Without(x, c).status = x.status
         /\ Without(x, c).cat = IF x.cat = c THEN None ELSE x.cat
BY DEF Without, Content

LEMMA ContentIsInput == Content \subseteq Input
BY DEF Content, Input

LEMMA IdleSound ==
  /\ Idle \in Request /\ Claims(Idle) = {} /\ Rows(Idle) = {}
  /\ RequestSound(Idle) /\ Cleared(Idle) /\ Current(Idle)
BY DEF Idle, Request, Point, Kind, Claims, Rows, RequestSound, Cleared, Current, Creating, Updating

LEMMA InitSound == Init => CatalogInv
<1>. SUFFICES ASSUME Init PROVE CatalogInv
  OBVIOUS
<1>1. TypeOK
  BY IdleSound, CatalogAssumption DEF Init, TypeOK
<1>2. \A r \in Requests : req[r] = Idle
  BY DEF Init
<1>3. \A p \in Products : product[p] = None /\ ~Row(p)
  BY Marks DEF Init, Row
<1>4. \A k \in Coupons : coupon[k] \notin CouponRow
  BY Marks DEF Init
<1>. QED
  BY <1>1, <1>2, <1>3, <1>4, IdleSound
     DEF CatalogInv, Recorded, SkuUnique, EditsKept, LinksWhole

(***************************************************************************)
(* Steps that only change a request.                                       *)
(***************************************************************************)

\* No category goes, and none that is gone comes back.
CategoriesKept ==
  /\ category' \in [Categories -> CategoryRow \cup {None, Deleted}]
  /\ \A c \in Categories : /\ category[c] \in CategoryRow => category'[c] \in CategoryRow
                           /\ category[c] = Deleted => category'[c] = Deleted

LEMMA SameCategories == CatalogInv /\ UNCHANGED category => CategoriesKept
BY DEF CatalogInv, TypeOK, CategoriesKept

LEMMA CategoryWritten ==
  ASSUME CatalogInv, NEW c \in Categories, NEW row \in CategoryRow,
         category[c] # Deleted, category' = [category EXCEPT ![c] = row]
  PROVE  CategoriesKept
BY DEF CatalogInv, TypeOK, CategoriesKept

LEMMA RowsKept ==
  ASSUME CatalogInv, UNCHANGED <<product, coupon, expect>>, touched \subseteq touched',
         CategoriesKept
  PROVE  /\ EditsKept' /\ LinksWhole'
         /\ \A q \in Request : Current(q) => Current(q)'
<1>1. EditsKept' /\ LinksWhole'
  BY DEF CatalogInv, EditsKept, LinksWhole, Row, CategoriesKept
<1>2. \A q \in Request : Current(q) => Current(q)'
  BY DEF Current, Row, CategoriesKept
<1>. QED
  BY <1>1, <1>2

LEMMA Serve ==
  ASSUME CatalogInv, NEW r \in Requests, NEW q \in Request,
         req' = [req EXCEPT ![r] = q],
         UNCHANGED <<product, coupon, announced, expect>>, CategoriesKept,
         served' \in 0 .. MaxRequests, faults' \in 0 .. MaxFaults,
         raced \subseteq raced', raced' \subseteq Tenants \X Letters,
         touched \subseteq touched', touched' \subseteq Products,
         \A s \in Requests \ {r} : /\ Claims(q) \cap Claims(req[s]) \subseteq raced'
                                   /\ Rows(q) \cap Rows(req[s]) \subseteq touched',
         RequestSound(q), Cleared(q)', Current(q)'
  PROVE  CatalogInv'
<1>1. req'[r] = q /\ \A s \in Requests \ {r} : req'[s] = req[s]
  BY DEF CatalogInv, TypeOK
<1>2. TypeOK'
  BY DEF CatalogInv, TypeOK, CategoriesKept
<1>3. ASSUME NEW s \in Requests
      PROVE  RequestSound(req[s])' /\ Cleared(req[s])' /\ Current(req[s])'
  <2>1. CASE s = r
    BY <1>1, <2>1 DEF RequestSound, Cleared, Current, Row, Owns
  <2>2. CASE s # r
    <3>1. /\ RequestSound(req[s]) /\ Cleared(req[s]) /\ Current(req[s])
          /\ req'[s] = req[s] /\ req[s] \in Request
      BY <1>1, <2>2 DEF CatalogInv, TypeOK
    <3>2. RequestSound(req[s])' /\ Cleared(req[s])'
      BY <3>1 DEF RequestSound, Cleared, Owns
    <3>. QED
      BY <3>1, <3>2, RowsKept DEF Current, Row
  <2>. QED
    BY <2>1, <2>2
<1>4. \A p \in Products : (product[p] # None => expect[p] \in Content)'
  BY DEF CatalogInv
<1>5. Recorded'
  BY <1>1 DEF CatalogInv, Recorded, Claims, Rows
<1>6. SkuUnique' /\ EditsKept' /\ LinksWhole'
  BY RowsKept DEF CatalogInv, SkuUnique, Row
<1>. QED
  BY <1>2, <1>3, <1>4, <1>5, <1>6 DEF CatalogInv

LEMMA ClaimsType ==
  ASSUME NEW q \in Request, RequestSound(q)
  PROVE  /\ Claims(q) \subseteq Tenants \X Letters /\ Rows(q) \subseteq Products
         /\ q.in \in Input => Claims(q) = {<<q.ten, Fold(q.in.sku)>>}
<1>1. q.in \in Input => Claims(q) = {<<q.ten, Fold(q.in.sku)>>}
  BY Marks DEF Claims
<1>2. CASE q.at = "idle"
  <2>1. q.in \notin Input /\ Claims(q) = {} /\ Rows(q) = {}
    BY <1>2, IdleSound, Marks DEF RequestSound, Idle
  <2>. QED
    BY <2>1
<1>3. CASE q.at # "idle"
  <2>1. q.ten \in Tenants /\ q.in \in Input
    BY <1>3 DEF RequestSound
  <2>2. Fold(q.in.sku) \in Letters
    BY <2>1, Bodies
  <2>3. Claims(q) \subseteq Tenants \X Letters
    BY <1>1, <2>1, <2>2
  <2>4. Rows(q) \subseteq Products
    BY DEF Rows, Request
  <2>. QED
    BY <1>1, <2>3, <2>4
<1>. QED
  BY <1>2, <1>3

LEMMA Entering ==
  ASSUME CatalogInv, NEW r \in Requests, NEW q \in Request, Enter(r, q),
         UNCHANGED <<rows, announced, expect>>,
         served' \in 0 .. MaxRequests, faults' \in 0 .. MaxFaults,
         RequestSound(q), Cleared(q)', Current(q)'
  PROVE  CatalogInv'
<1>. DEFINE A(s) == Claims(q) \cap Claims(req[s])
            B(s) == Rows(q) \cap Rows(req[s])
<1>1. /\ req' = [req EXCEPT ![r] = q]
      /\ raced' = raced \cup UNION {A(s) : s \in Requests \ {r}}
      /\ touched' = touched \cup UNION {B(s) : s \in Requests \ {r}}
  BY DEF Enter, Others
<1>2. \A s \in Requests : A(s) \subseteq Tenants \X Letters /\ B(s) \subseteq Products
  BY ClaimsType
<1>3. raced \subseteq Tenants \X Letters /\ touched \subseteq Products
  BY DEF CatalogInv, TypeOK
<1>. HIDE DEF A, B
<1>4. /\ raced \subseteq raced' /\ raced' \subseteq Tenants \X Letters
      /\ touched \subseteq touched' /\ touched' \subseteq Products
      /\ \A s \in Requests \ {r} : A(s) \subseteq raced' /\ B(s) \subseteq touched'
  BY <1>1, <1>2, <1>3
<1>5. \A s \in Requests \ {r} : /\ Claims(q) \cap Claims(req[s]) \subseteq raced'
                                /\ Rows(q) \cap Rows(req[s]) \subseteq touched'
  BY <1>4 DEF A, B
<1>6. UNCHANGED <<product, category, coupon>>
  BY DEF rows
<1>. QED
  BY <1>1, <1>4, <1>5, <1>6, SameCategories, Serve

\* A request that goes on with no other SKU or product than it had.
LEMMA GoingOn ==
  ASSUME CatalogInv, NEW r \in Requests, NEW q \in Request,
         req' = [req EXCEPT ![r] = q],
         Claims(q) \subseteq Claims(req[r]), Rows(q) \subseteq Rows(req[r]),
         UNCHANGED <<product, coupon, announced, served, touched, expect>>,
         CategoriesKept, faults' \in 0 .. MaxFaults,
         raced \subseteq raced', raced' \subseteq Tenants \X Letters,
         RequestSound(q), Cleared(q)', Current(q)'
  PROVE  CatalogInv'
<1>1. \A s \in Requests \ {r} : /\ Claims(q) \cap Claims(req[s]) \subseteq raced'
                                /\ Rows(q) \cap Rows(req[s]) \subseteq touched'
  BY DEF CatalogInv, Recorded
<1>2. served' \in 0 .. MaxRequests /\ touched \subseteq touched' /\ touched' \subseteq Products
  BY DEF CatalogInv, TypeOK
<1>. QED
  BY <1>1, <1>2, Serve

LEMMA Leaving ==
  ASSUME CatalogInv, NEW r \in Requests, Finish(r),
         UNCHANGED <<rows, announced, served, history>>, faults' \in 0 .. MaxFaults
  PROVE  CatalogInv'
<1>1. Cleared(Idle)' /\ Current(Idle)'
  BY DEF Cleared, Current, Idle, Updating
<1>2. /\ UNCHANGED <<product, category, coupon, touched, expect>>
      /\ raced \subseteq raced' /\ raced' \subseteq Tenants \X Letters
  BY DEF CatalogInv, TypeOK, rows, history
<1>. QED
  BY <1>1, <1>2, IdleSound, SameCategories, GoingOn DEF Finish

\* A request that arrives is at its first statement, of which nothing is asked
\* but that its body is one and that its product has been there.
LEMMA Arriving ==
  ASSUME CatalogInv, NEW r \in Requests, NEW q \in Request, Arrive(r, q),
         q.at \in {"resolve", "create_check", "price_read", "update_read"},
         RequestSound(q), q.kind = "price" => q.at = "price_read"
  PROVE  CatalogInv'
<1>1. served' \in 0 .. MaxRequests /\ faults' \in 0 .. MaxFaults
  BY CatalogAssumption DEF Arrive, CatalogInv, TypeOK
<1>2. Cleared(q)' /\ Current(q)'
  BY DEF Cleared, Current, Updating
<1>. QED
  BY <1>1, <1>2, Entering DEF Arrive

LEMMA BeginKeeps ==
  ASSUME CatalogInv, NEW r \in Requests, NEW t \in Tenants, Begin(r, t)
  PROVE  CatalogInv'
<1>1. ASSUME NEW in \in Inputs, PostProduct(r, t, in) PROVE CatalogInv'
  <2>. DEFINE q == [Idle EXCEPT !.at = "create_check", !.kind = "all", !.ten = t, !.in = in]
  <2>1. /\ q.at = "create_check" /\ q.kind = "all" /\ q.ten = t
        /\ q.prod = None /\ q.in = in /\ q.name = None
    BY DEF Idle
  <2>2. q \in Request
    BY IdleSound, InputsAssumption DEF Request, Point, Kind
  <2>3. Arrive(r, q)
    BY <1>1 DEF PostProduct
  <2>. HIDE DEF q
  <2>4. RequestSound(q)
    BY <2>1, InputsAssumption DEF RequestSound, Creating, Updating
  <2>. QED
    BY <2>1, <2>2, <2>3, <2>4, Arriving
<1>2. ASSUME NEW in \in Inputs, NEW p \in Products, PutProduct(r, t, p, in) PROVE CatalogInv'
  <2>. DEFINE q == [Idle EXCEPT !.at = "update_read", !.kind = "all", !.ten = t,
                                !.prod = p, !.in = in]
  <2>1. /\ q.at = "update_read" /\ q.kind = "all" /\ q.ten = t
        /\ q.prod = p /\ q.in = in /\ q.name = None
    BY DEF Idle
  <2>2. q \in Request
    BY IdleSound, InputsAssumption DEF Request, Point, Kind
  <2>3. Arrive(r, q) /\ product[p] # None
    BY <1>2 DEF PutProduct, Known
  <2>. HIDE DEF q
  <2>4. RequestSound(q)
    BY <2>1, <2>3, InputsAssumption DEF RequestSound, Creating, Updating
  <2>. QED
    BY <2>1, <2>2, <2>3, <2>4, Arriving
<1>3. ASSUME NEW in \in Inputs, NEW name \in Labels \cup {None},
             CopilotCreate(r, t, in.sku, in.price, name)
      PROVE  CatalogInv'
  <2>. DEFINE at == IF name = None THEN "create_check" ELSE "resolve"
              body == [sku |-> in.sku, cat |-> None, price |-> in.price, status |-> "active"]
              q == [Idle EXCEPT !.at = at, !.kind = "all", !.ten = t, !.name = name,
                                !.in = body]
  <2>1. /\ q.at = at /\ q.kind = "all" /\ q.ten = t
        /\ q.prod = None /\ q.in = body /\ q.name = name
    BY DEF Idle
  <2>2. body \in Input /\ name \in Name \cup {None}
    BY InputsAssumption DEF Input, Status
  <2>3. q \in Request
    BY IdleSound, <2>2 DEF Request, Point, Kind
  <2>4. Arrive(r, q)
    BY <1>3 DEF CopilotCreate
  <2>. HIDE DEF q, body
  <2>5. RequestSound(q)
    BY <2>1, <2>2 DEF RequestSound, Creating, Updating
  <2>. QED
    BY <2>1, <2>3, <2>4, <2>5, Arriving
<1>4. ASSUME NEW in \in Inputs, CopilotPrice(r, t, in.sku, in.price) PROVE CatalogInv'
  <2>. DEFINE body == [sku |-> in.sku, cat |-> None, price |-> in.price, status |-> ""]
              q == [Idle EXCEPT !.at = "price_read", !.kind = "price", !.ten = t, !.in = body]
  <2>1. /\ q.at = "price_read" /\ q.kind = "price" /\ q.ten = t
        /\ q.prod = None /\ q.in = body /\ q.name = None
    BY DEF Idle
  <2>2. body \in Input
    BY InputsAssumption DEF Input
  <2>3. q \in Request
    BY IdleSound, <2>2 DEF Request, Point, Kind
  <2>4. Arrive(r, q)
    BY <1>4 DEF CopilotPrice
  <2>. HIDE DEF q, body
  <2>5. RequestSound(q)
    BY <2>1, <2>2 DEF RequestSound, Creating, Updating
  <2>. QED
    BY <2>1, <2>3, <2>4, <2>5, Arriving
<1>. QED
  BY <1>1, <1>2, <1>3, <1>4 DEF Begin, CopilotExecute

(***************************************************************************)
(* The statements of a request that read.                                  *)
(***************************************************************************)

LEMMA Facts ==
  ASSUME CatalogInv, NEW r \in Requests
  PROVE  /\ req \in [Requests -> Request] /\ req[r] \in Request
         /\ RequestSound(req[r]) /\ Cleared(req[r]) /\ Current(req[r])
         /\ raced \subseteq Tenants \X Letters /\ faults \in 0 .. MaxFaults
BY DEF CatalogInv, TypeOK

\* The point a request of this kind goes on from, and what it has there.
LEMMA HereNow ==
  ASSUME CatalogInv, NEW r \in Requests, ~At(r, "idle")
  PROVE  /\ req[r].ten \in Tenants /\ req[r].in \in Input
         /\ Claims(req[r]) = {<<req[r].ten, Fold(req[r].in.sku)>>}
BY Facts, ClaimsType DEF RequestSound, At

LEMMA GotoAs ==
  ASSUME CatalogInv, NEW r \in Requests, NEW point \in Point, Goto(r, point)
  PROVE  \E q \in Request :
           /\ req' = [req EXCEPT ![r] = q] /\ q.at = point
           /\ q.kind = req[r].kind /\ q.ten = req[r].ten /\ q.prod = req[r].prod
           /\ q.in = req[r].in /\ q.was = req[r].was /\ q.name = req[r].name
           /\ Claims(q) \subseteq Claims(req[r]) /\ Rows(q) \subseteq Rows(req[r])
<1>. DEFINE q == [req[r] EXCEPT !.at = point]
<1>1. /\ req' = [req EXCEPT ![r] = q] /\ q \in Request /\ q.at = point
      /\ q.kind = req[r].kind /\ q.ten = req[r].ten /\ q.prod = req[r].prod
      /\ q.in = req[r].in /\ q.was = req[r].was /\ q.name = req[r].name
  BY Facts DEF Goto, Request
<1>. HIDE DEF q
<1>2. Claims(q) \subseteq Claims(req[r]) /\ Rows(q) \subseteq Rows(req[r])
  BY <1>1 DEF Claims, Rows
<1>. QED
  BY <1>1, <1>2

\* The same with another category in its body.
LEMMA CategoryAs ==
  ASSUME CatalogInv, NEW r \in Requests, NEW c \in Categories, req[r].in \in Input,
         req' = [req EXCEPT ![r].at = "create_check", ![r].in.cat = c]
  PROVE  \E q \in Request :
           /\ req' = [req EXCEPT ![r] = q] /\ q.at = "create_check"
           /\ q.ten = req[r].ten /\ q.prod = req[r].prod /\ q.in \in Input
           /\ Claims(q) \subseteq Claims(req[r]) /\ Rows(q) \subseteq Rows(req[r])
<1>. DEFINE q == [req[r] EXCEPT !.at = "create_check", !.in.cat = c]
<1>0. req' = [req EXCEPT ![r] = q]
  BY Facts DEF Request
<1>1. /\ q.at = "create_check" /\ q.ten = req[r].ten /\ q.prod = req[r].prod
      /\ q.in = [req[r].in EXCEPT !.cat = c]
  <2>1. req[r] \in Request
    BY Facts
  <2>. QED
    BY <2>1 DEF Request
<1>2. q.in \in Input /\ q.in.sku = req[r].in.sku
  <2>. DEFINE body == [req[r].in EXCEPT !.cat = c]
  <2>1. body \in Input /\ body.sku = req[r].in.sku
    BY DEF Input
  <2>. HIDE DEF body, q
  <2>. QED
    BY <1>1, <2>1 DEF body
<1>3. q \in Request
  BY <1>2, Facts DEF Request, Point
<1>. HIDE DEF q
<1>4. Claims(q) \subseteq Claims(req[r]) /\ Rows(q) \subseteq Rows(req[r])
  BY <1>1, <1>2, Marks DEF Claims, Rows
<1>. QED
  BY <1>0, <1>1, <1>2, <1>3, <1>4

LEMMA ResolveKeeps == ASSUME CatalogInv, NEW r \in Requests, Resolve(r) PROVE CatalogInv'
<1>1. /\ At(r, "resolve") /\ ~At(r, "idle")
      /\ UNCHANGED <<product, coupon, announced, served, touched, expect>> /\ raced' = raced
      /\ CategoriesKept
  BY SameCategories DEF Resolve, At, rows, history
<1>2. Fault \/ UNCHANGED faults => faults' \in 0 .. MaxFaults
  BY FaultType DEF CatalogInv
<1>3. ASSUME NEW c \in Categories,
             req' = [req EXCEPT ![r].at = "create_check", ![r].in.cat = c], UNCHANGED faults
      PROVE  CatalogInv'
  <2>1. PICK q \in Request :
          /\ req' = [req EXCEPT ![r] = q] /\ q.at = "create_check"
          /\ q.ten = req[r].ten /\ q.prod = req[r].prod /\ q.in \in Input
          /\ Claims(q) \subseteq Claims(req[r]) /\ Rows(q) \subseteq Rows(req[r])
    BY <1>1, <1>3, HereNow, CategoryAs
  <2>2. RequestSound(q) /\ Cleared(q)' /\ Current(q)'
    BY <1>1, <2>1, Facts DEF RequestSound, Cleared, Current, At, Creating, Updating
  <2>. QED
    BY <1>1, <1>2, <1>3, <2>1, <2>2, Facts, GoingOn
<1>4. ASSUME Goto(r, "resolve_create"), faults' \in 0 .. MaxFaults PROVE CatalogInv'
  <2>1. PICK q \in Request :
          /\ req' = [req EXCEPT ![r] = q] /\ q.at = "resolve_create" /\ q.ten = req[r].ten
          /\ q.prod = req[r].prod /\ q.in = req[r].in /\ q.name = req[r].name
          /\ Claims(q) \subseteq Claims(req[r]) /\ Rows(q) \subseteq Rows(req[r])
    BY <1>4, GotoAs DEF Point
  <2>2. RequestSound(q) /\ Cleared(q)' /\ Current(q)'
    BY <1>1, <2>1, Facts DEF RequestSound, Cleared, Current, At, Creating, Updating
  <2>. QED
    BY <1>1, <1>4, <2>1, <2>2, Facts, GoingOn
<1>. QED
  BY <1>2, <1>3, <1>4 DEF Resolve

LEMMA CreateCheckKeeps ==
  ASSUME CatalogInv, NEW r \in Requests, CreateCheck(r) PROVE CatalogInv'
<1>1. /\ At(r, "create_check") /\ ~At(r, "idle")
      /\ UNCHANGED <<product, category, coupon, announced, served, touched, expect>>
      /\ CategoriesKept
  BY SameCategories DEF CreateCheck, At, rows
<1>2. Fault \/ UNCHANGED faults => faults' \in 0 .. MaxFaults
  BY FaultType DEF CatalogInv
<1>3. CASE BySKU(req[r].ten, req[r].in.sku) # {} /\ Finish(r) /\ UNCHANGED <<faults, raced>>
  BY <1>1, <1>2, <1>3, Leaving DEF rows, history
<1>4. ASSUME Goto(r, "create_insert"),
             \/ BySKU(req[r].ten, req[r].in.sku) = {} /\ UNCHANGED <<faults, raced>>
             \/ Fault /\ raced' = raced \cup Claims(req[r])
      PROVE  CatalogInv'
  <2>1. PICK q \in Request :
          /\ req' = [req EXCEPT ![r] = q] /\ q.at = "create_insert" /\ q.ten = req[r].ten
          /\ q.prod = req[r].prod /\ q.in = req[r].in
          /\ Claims(q) \subseteq Claims(req[r]) /\ Rows(q) \subseteq Rows(req[r])
    BY <1>4, GotoAs DEF Point
  <2>2. /\ raced \subseteq raced' /\ raced' \subseteq Tenants \X Letters
        /\ faults' \in 0 .. MaxFaults
        /\ BySKU(q.ten, q.in.sku) = {} \/ <<q.ten, Fold(q.in.sku)>> \in raced'
    <3>1. CASE BySKU(req[r].ten, req[r].in.sku) = {} /\ UNCHANGED <<faults, raced>>
      BY <1>2, <2>1, <3>1, Facts
    <3>2. CASE Fault /\ raced' = raced \cup Claims(req[r])
      BY <1>1, <1>2, <2>1, <3>2, Facts, HereNow, ClaimsType
    <3>. QED
      BY <1>4, <3>1, <3>2
  <2>3. RequestSound(q) /\ Current(q)'
    BY <1>1, <2>1, Facts DEF RequestSound, Current, At, Creating, Updating
  <2>4. Cleared(q)'
    BY <1>1, <2>2 DEF Cleared, BySKU, Owns
  <2>. QED
    BY <1>1, <2>1, <2>2, <2>3, <2>4, Facts, GoingOn
<1>. QED
  BY <1>3, <1>4 DEF CreateCheck

LEMMA ResolveCreateKeeps ==
  ASSUME CatalogInv, NEW r \in Requests, ResolveCreate(r) PROVE CatalogInv'
<1>1. /\ At(r, "resolve_create") /\ ~At(r, "idle") /\ UNCHANGED faults
      /\ UNCHANGED <<product, coupon, announced, served, touched, expect>> /\ raced' = raced
  BY DEF ResolveCreate, At, history
<1>2. req[r].name \in Name /\ req[r].ten \in Tenants /\ req[r].in \in Input
  BY <1>1, Facts DEF RequestSound, At
<1>3. ASSUME NEW c \in Categories, InsertCategory(c, req[r].ten, req[r].name),
             req' = [req EXCEPT ![r].at = "create_check", ![r].in.cat = c]
      PROVE  CatalogInv'
  <2>1. PICK q \in Request :
          /\ req' = [req EXCEPT ![r] = q] /\ q.at = "create_check"
          /\ q.ten = req[r].ten /\ q.prod = req[r].prod /\ q.in \in Input
          /\ Claims(q) \subseteq Claims(req[r]) /\ Rows(q) \subseteq Rows(req[r])
    BY <1>2, <1>3, CategoryAs
  <2>2. RequestSound(q) /\ Cleared(q)' /\ Current(q)'
    BY <1>1, <2>1, Facts DEF RequestSound, Cleared, Current, At, Creating, Updating
  <2>3. CategoriesKept
    BY <1>2, <1>3, Marks, CategoryWritten DEF InsertCategory, CategoryRow
  <2>. QED
    BY <1>1, <2>1, <2>2, <2>3, Facts, GoingOn
<1>4. ASSUME Goto(r, "create_check"), UNCHANGED category PROVE CatalogInv'
  <2>1. PICK q \in Request :
          /\ req' = [req EXCEPT ![r] = q] /\ q.at = "create_check" /\ q.ten = req[r].ten
          /\ q.prod = req[r].prod /\ q.in = req[r].in
          /\ Claims(q) \subseteq Claims(req[r]) /\ Rows(q) \subseteq Rows(req[r])
    BY <1>4, GotoAs DEF Point
  <2>2. RequestSound(q) /\ Cleared(q)' /\ Current(q)'
    BY <1>1, <2>1, Facts DEF RequestSound, Cleared, Current, At, Creating, Updating
  <2>. QED
    BY <1>1, <1>4, <2>1, <2>2, Facts, SameCategories, GoingOn
<1>. QED
  BY <1>3, <1>4 DEF ResolveCreate

\* The edit that the copilot makes of the row it has read.
LEMMA PriceReadKeeps ==
  ASSUME CatalogInv, NEW r \in Requests, PriceRead(r) PROVE CatalogInv'
<1>1. /\ At(r, "price_read") /\ ~At(r, "idle") /\ UNCHANGED <<rows, announced, served, faults, expect>>
      /\ served' \in 0 .. MaxRequests /\ faults' \in 0 .. MaxFaults
  BY DEF PriceRead, At, CatalogInv, TypeOK
<1>2. ASSUME NEW p \in BySKU(req[r].ten, req[r].in.sku),
             Enter(r, [req[r] EXCEPT !.at = "update_read", !.prod = p,
                         !.in = [product[p].now EXCEPT !.price = req[r].in.price]])
      PROVE  CatalogInv'
  <2>. DEFINE now == product[p].now
              in == [now EXCEPT !.price = req[r].in.price]
              edit == [req[r] EXCEPT !.at = "update_read", !.prod = p, !.in = in]
  <2>1. p \in Products /\ Row(p) /\ now \in Content /\ product[p] # None
    BY Marks DEF BySKU, Owns, Row, ProductRow
  <2>2. in \in Input /\ in.sku = now.sku /\ in.status = now.status /\ in.cat = now.cat
    BY <1>1, <2>1, HereNow DEF Content, Input
  <2>. HIDE DEF now, in
  <2>3. /\ edit \in Request /\ edit.at = "update_read" /\ edit.prod = p /\ edit.in = in
        /\ edit.ten = req[r].ten
    BY <2>1, <2>2, Facts DEF Request, Point
  <2>4. Enter(r, edit)
    BY <1>2 DEF now, in
  <2>. HIDE DEF edit
  <2>5. PICK q \in Request : q = edit
    BY <2>3
  <2>6. q.at = "update_read" /\ q.prod = p /\ q.in = in /\ q.ten = req[r].ten /\ Enter(r, q)
    BY <2>3, <2>4, <2>5
  <2>7. RequestSound(q) /\ Current(q)
    BY <1>1, <2>1, <2>2, <2>6, HereNow
       DEF RequestSound, Current, Creating, Updating, now
  <2>8. touched \subseteq touched' /\ UNCHANGED <<product, category, coupon, expect>>
    BY <1>1, <2>6 DEF Enter, rows
  <2>9. Cleared(q)' /\ Current(q)'
    BY <2>6, <2>7, <2>8, SameCategories, RowsKept DEF Cleared
  <2>. QED
    BY <1>1, <2>6, <2>7, <2>9, Entering
<1>3. CASE Finish(r) /\ UNCHANGED <<raced, touched>>
  BY <1>1, <1>3, Leaving DEF history
<1>. QED
  BY <1>2, <1>3 DEF PriceRead

LEMMA UpdateReadKeeps ==
  ASSUME CatalogInv, NEW r \in Requests, UpdateRead(r) PROVE CatalogInv'
<1>1. /\ At(r, "update_read") /\ UNCHANGED <<rows, announced, served, faults, history>>
      /\ faults' \in 0 .. MaxFaults
  BY DEF UpdateRead, CatalogInv, TypeOK
<1>2. CASE ~Owns(req[r].ten, req[r].prod)
  BY <1>1, <1>2, Leaving DEF UpdateRead
<1>3. CASE Owns(req[r].ten, req[r].prod)
  <2>. DEFINE p == req[r].prod
              now == product[p].now
              at == IF Fold(now.sku) = Fold(req[r].in.sku) THEN "update_write" ELSE "update_check"
              next == [req[r] EXCEPT !.was = now.status, !.at = at]
  <2>1. /\ p \in Products /\ Row(p) /\ now \in Content /\ product[p].ten = req[r].ten
        /\ now.status \in Status
    BY <1>1, <1>3, Facts DEF RequestSound, At, Updating, Owns, Row, ProductRow, Content
  <2>2. req' = [req EXCEPT ![r] = next]
    BY <1>3 DEF UpdateRead
  <2>. HIDE DEF now
  <2>3. /\ next \in Request /\ next.at = at /\ next.prod = p /\ next.in = req[r].in
        /\ next.ten = req[r].ten /\ next.kind = req[r].kind /\ next.was = now.status
    BY <2>1, Facts DEF Request, Point
  <2>. HIDE DEF next
  <2>4. PICK q \in Request : q = next
    BY <2>3
  <2>5. /\ q.at = at /\ q.prod = p /\ q.in = req[r].in /\ q.ten = req[r].ten
        /\ q.kind = req[r].kind /\ q.was = now.status /\ req' = [req EXCEPT ![r] = q]
    BY <2>2, <2>3, <2>4
  <2>6. q.at \in {"update_write", "update_check"} /\ (q.at = "update_write" => Fold(now.sku) = Fold(q.in.sku))
    BY <2>5
  <2>. HIDE DEF at
  <2>7. Claims(q) \subseteq Claims(req[r]) /\ Rows(q) \subseteq Rows(req[r])
    BY <2>5 DEF Claims, Rows
  <2>8. RequestSound(q) /\ Current(q)
    BY <1>1, <2>1, <2>5, <2>6, Facts
       DEF RequestSound, Current, Creating, Updating, At, Row, now
  <2>9. Cleared(q)
    BY <2>1, <2>5, <2>6 DEF Cleared, CatalogInv, SkuUnique, Owns, Row, now
  <2>10. UNCHANGED <<product, category, coupon, raced, touched, expect>>
    BY <1>1 DEF rows, history
  <2>11. Cleared(q)' /\ Current(q)'
    BY <2>8, <2>9, <2>10, SameCategories, RowsKept DEF Cleared, Owns
  <2>. QED
    BY <1>1, <2>5, <2>7, <2>8, <2>10, <2>11, Facts, SameCategories, GoingOn
<1>. QED
  BY <1>2, <1>3

LEMMA UpdateCheckKeeps ==
  ASSUME CatalogInv, NEW r \in Requests, UpdateCheck(r) PROVE CatalogInv'
<1>1. /\ At(r, "update_check") /\ ~At(r, "idle")
      /\ UNCHANGED <<product, category, coupon, announced, served, touched, expect>>
      /\ CategoriesKept
  BY SameCategories DEF UpdateCheck, At, rows
<1>2. Fault \/ UNCHANGED faults => faults' \in 0 .. MaxFaults
  BY FaultType DEF CatalogInv
<1>3. CASE BySKU(req[r].ten, req[r].in.sku) # {} /\ Finish(r) /\ UNCHANGED <<faults, raced>>
  BY <1>1, <1>2, <1>3, Leaving DEF rows, history
<1>4. ASSUME Goto(r, "update_write"),
             \/ BySKU(req[r].ten, req[r].in.sku) = {} /\ UNCHANGED <<faults, raced>>
             \/ Fault /\ raced' = raced \cup Claims(req[r])
      PROVE  CatalogInv'
  <2>1. PICK q \in Request :
          /\ req' = [req EXCEPT ![r] = q] /\ q.at = "update_write"
          /\ q.kind = req[r].kind /\ q.ten = req[r].ten /\ q.prod = req[r].prod
          /\ q.in = req[r].in /\ q.was = req[r].was
          /\ Claims(q) \subseteq Claims(req[r]) /\ Rows(q) \subseteq Rows(req[r])
    BY <1>4, GotoAs DEF Point
  <2>2. /\ raced \subseteq raced' /\ raced' \subseteq Tenants \X Letters
        /\ faults' \in 0 .. MaxFaults
        /\ BySKU(q.ten, q.in.sku) = {} \/ <<q.ten, Fold(q.in.sku)>> \in raced'
    <3>1. CASE BySKU(req[r].ten, req[r].in.sku) = {} /\ UNCHANGED <<faults, raced>>
      BY <1>2, <2>1, <3>1, Facts
    <3>2. CASE Fault /\ raced' = raced \cup Claims(req[r])
      BY <1>1, <1>2, <2>1, <3>2, Facts, HereNow, ClaimsType
    <3>. QED
      BY <1>4, <3>1, <3>2
  <2>3. RequestSound(q) /\ Current(q)
    BY <1>1, <2>1, Facts DEF RequestSound, Current, At, Creating, Updating
  <2>4. Cleared(q)' /\ Current(q)'
    BY <1>1, <2>2, <2>3, RowsKept DEF Cleared, BySKU, Owns
  <2>. QED
    BY <1>1, <2>1, <2>2, <2>3, <2>4, Facts, GoingOn
<1>. QED
  BY <1>3, <1>4 DEF UpdateCheck

LEMMA CutOffKeeps == ASSUME CatalogInv, NEW r \in Requests, CutOff(r) PROVE CatalogInv'
BY FaultType, Leaving DEF CutOff, CatalogInv

(***************************************************************************)
(* The statements that write a product.                                    *)
(***************************************************************************)

\* One row written by the last statement of a request: the constraints let it,
\* and whoever else has its SKU did not go unrecorded.
LEMMA Written ==
  ASSUME CatalogInv, NEW r \in Requests, NEW p \in Products, NEW t \in Tenants,
         NEW content \in Content, NEW told \in Content,
         product[p] = None \/ (Owns(t, p) /\ p \in Rows(req[r])),
         SkuFree(t, p, content.sku), CategoryThere(content.cat),
         <<t, Fold(content.sku)>> \in Claims(req[r]),
         \A o \in Products \ {p} : Owns(t, o) /\ Fold(product[o].now.sku) = Fold(content.sku)
           => <<t, Fold(content.sku)>> \in raced,
         p \in touched \/ content = told,
         product' = [product EXCEPT ![p] = [ten |-> t, now |-> content]],
         expect' = [expect EXCEPT ![p] = told],
         Finish(r), UNCHANGED <<category, coupon, served, raced, touched>>,
         announced' \subseteq Products, faults' \in 0 .. MaxFaults
  PROVE  CatalogInv'
<1>. DEFINE row == [ten |-> t, now |-> content]
<1>1. /\ row \in ProductRow /\ row.ten = t /\ row.now = content
      /\ product' = [product EXCEPT ![p] = row]
  BY DEF ProductRow
<1>. HIDE DEF row
<1>2. /\ product'[p] = row /\ expect'[p] = told /\ Row(p)'
      /\ \A o \in Products \ {p} : product'[o] = product[o] /\ expect'[o] = expect[o]
      /\ \A o \in Products \ {p} : Row(o)' <=> Row(o)
  BY <1>1 DEF CatalogInv, TypeOK, Row
<1>3. req'[r] = Idle /\ \A s \in Requests \ {r} : req'[s] = req[s]
  BY DEF CatalogInv, TypeOK, Finish
<1>4. TypeOK'
  <2>1. /\ product' \in [Products -> ProductRow \cup {None, Deleted}]
        /\ expect' \in [Products -> Content \cup {None}]
        /\ req' \in [Requests -> Request]
    BY <1>1, IdleSound DEF CatalogInv, TypeOK, Finish
  <2>. QED
    BY <2>1 DEF CatalogInv, TypeOK
<1>5. ASSUME NEW s \in Requests
      PROVE  RequestSound(req[s])' /\ Cleared(req[s])' /\ Current(req[s])'
  <2>1. CASE s = r
    BY <1>3, <2>1 DEF Idle, RequestSound, Cleared, Current, Creating, Updating
  <2>2. CASE s # r
    <3>0. PICK q \in Request : q = req[s]
      BY Facts
    <3>1. /\ RequestSound(q) /\ Cleared(q) /\ Current(q) /\ req'[s] = q
          /\ Claims(req[r]) \cap Claims(q) \subseteq raced
          /\ Rows(req[r]) \cap Rows(q) \subseteq touched
      BY <1>3, <2>2, <3>0 DEF CatalogInv, TypeOK, Recorded
    <3>2. RequestSound(q)'
      BY <1>1, <1>2, <3>1, Marks DEF RequestSound
    <3>3. Cleared(req[s])'
      <4>1. SUFFICES ASSUME q.at \in {"create_insert", "update_write"},
                            NEW o \in Products \ {q.prod}, Owns(q.ten, o)',
                            Fold(product'[o].now.sku) = Fold(q.in.sku)
                     PROVE  <<q.ten, Fold(q.in.sku)>> \in raced
        BY <3>1 DEF Cleared
      <4>2. CASE o # p
        BY <1>2, <3>1, <4>1, <4>2 DEF Cleared, Owns
      <4>3. CASE o = p
        <5>1. q.in \in Input
          BY <3>1, <4>1 DEF RequestSound
        <5>2. Claims(q) = {<<q.ten, Fold(q.in.sku)>>}
          BY <3>1, <5>1, ClaimsType
        <5>3. q.ten = t /\ Fold(content.sku) = Fold(q.in.sku)
          BY <1>1, <1>2, <4>1, <4>3 DEF Owns
        <5>. QED
          BY <3>1, <5>2, <5>3
      <4>. QED
        BY <4>2, <4>3
    <3>4. Current(req[s])'
      <4>1. CASE q.at \in Updating /\ q.prod = p
        <5>1. product[p] # None
          BY <3>1, <4>1 DEF RequestSound
        <5>2. p \in Rows(req[r]) /\ p \in Rows(q)
          BY <5>1, <4>1, Marks DEF Rows
        <5>. QED
          BY <3>1, <4>1, <5>2 DEF Current
      <4>2. CASE q.at \in Updating /\ q.prod # p
        <5>1. q.prod \in Products \ {p}
          BY <3>1, <4>2 DEF RequestSound
        <5>. QED
          BY <1>2, <3>1, <5>1 DEF Current
      <4>3. CASE q.at \notin Updating
        BY <3>1, <4>3 DEF Current
      <4>. QED
        BY <4>1, <4>2, <4>3
    <3>. QED
      BY <3>1, <3>2, <3>3, <3>4 DEF RequestSound
  <2>. QED
    BY <2>1, <2>2
<1>6. \A o \in Products : (product[o] # None => expect[o] \in Content)'
  BY <1>2 DEF CatalogInv
<1>7. Recorded'
  BY <1>3, IdleSound DEF CatalogInv, Recorded, Claims, Rows
<1>8. SkuUnique'
  <2>1. \A o \in Products \ {p} : Row(o) /\ product[o].ten = t =>
          /\ product[o].now.sku # content.sku
          /\ Fold(product[o].now.sku) = Fold(content.sku) => <<t, Fold(content.sku)>> \in raced
    BY DEF SkuFree, Owns, Row
  <2>. SUFFICES ASSUME NEW a \in Products, NEW b \in Products, a # b, Row(a)', Row(b)',
                       product'[a].ten = product'[b].ten
                PROVE  /\ product'[a].now.sku # product'[b].now.sku
                       /\ Fold(product'[a].now.sku) = Fold(product'[b].now.sku) =>
                            <<product'[a].ten, Fold(product'[a].now.sku)>> \in raced
    BY DEF SkuUnique
  <2>2. CASE a = p
    BY <1>1, <1>2, <2>1, <2>2
  <2>3. CASE b = p
    BY <1>1, <1>2, <2>1, <2>3
  <2>4. CASE a # p /\ b # p
    BY <1>2, <2>4 DEF CatalogInv, SkuUnique
  <2>. QED
    BY <2>2, <2>3, <2>4
<1>9. EditsKept'
  BY <1>1, <1>2 DEF CatalogInv, EditsKept
<1>10. LinksWhole'
  <2>1. \A c \in Categories : content.cat = c => category[c] \in CategoryRow
    BY DEF CategoryThere
  <2>. QED
    BY <1>1, <1>2, <2>1 DEF CatalogInv, LinksWhole
<1>. QED
  BY <1>4, <1>5, <1>6, <1>7, <1>8, <1>9, <1>10 DEF CatalogInv

LEMMA CreateInsertKeeps ==
  ASSUME CatalogInv, NEW r \in Requests, CreateInsert(r) PROVE CatalogInv'
<1>. DEFINE q == req[r]
            made == Created(q.in)
<1>1. /\ At(r, "create_insert") /\ ~At(r, "idle") /\ Finish(r)
      /\ UNCHANGED <<category, coupon, served, raced, touched>>
  BY DEF CreateInsert, At
<1>2. /\ q.ten \in Tenants /\ q.in \in Input /\ q.prod = None
      /\ Claims(q) = {<<q.ten, Fold(q.in.sku)>>}
      /\ made \in Content /\ made.sku = q.in.sku /\ made.cat = q.in.cat
  BY <1>1, Facts, HereNow, CreatedContent DEF RequestSound, At, Creating
<1>3. Fault \/ UNCHANGED faults => faults' \in 0 .. MaxFaults
  BY FaultType DEF CatalogInv
<1>4. \A o \in Products : Owns(q.ten, o) /\ Fold(product[o].now.sku) = Fold(made.sku)
        => <<q.ten, Fold(made.sku)>> \in raced
  BY <1>1, <1>2, Facts, Marks DEF Cleared, At
<1>. HIDE DEF made
<1>5. ASSUME NEW p \in Products, InsertProduct(p, q.ten, made),
             expect' = [expect EXCEPT ![p] = made],
             \/ announced' = announced \cup {p} /\ UNCHANGED faults
             \/ Fault /\ UNCHANGED announced
      PROVE  CatalogInv'
  <2>1. announced' \subseteq Products /\ faults' \in 0 .. MaxFaults
    BY <1>3, <1>5 DEF CatalogInv, TypeOK
  <2>2. /\ product[p] = None /\ SkuFree(q.ten, p, made.sku) /\ CategoryThere(made.cat)
        /\ product' = [product EXCEPT ![p] = [ten |-> q.ten, now |-> made]]
    BY <1>5 DEF InsertProduct
  <2>3. /\ <<q.ten, Fold(made.sku)>> \in Claims(q)
        /\ \A o \in Products \ {p} : Owns(q.ten, o) /\ Fold(product[o].now.sku) = Fold(made.sku)
             => <<q.ten, Fold(made.sku)>> \in raced
    BY <1>2, <1>4
  <2>. QED
    BY <1>1, <1>2, <1>5, <2>1, <2>2, <2>3, Written
<1>6. CASE UNCHANGED <<product, expect, announced, faults>>
  BY <1>1, <1>3, <1>6, Leaving DEF rows, history
<1>. QED
  BY <1>5, <1>6 DEF CreateInsert, made

\* What an edit writes is what it was told, on what the row is by itself.
LEMMA EditedAsTold ==
  ASSUME CatalogInv, NEW r \in Requests, At(r, "update_write"),
         NEW p \in Products, p = req[r].prod, Row(p), CategoryThere(req[r].in.cat)
  PROVE  /\ Edited(req[r].in, req[r].was) \in Content
         /\ Expected(expect[p], req[r]) \in Content
         /\ p \in touched \/ Edited(req[r].in, req[r].was) = Expected(expect[p], req[r])
<1>. DEFINE q == req[r]
            now == product[p].now
<1>1. /\ q.in \in Input /\ q.was \in Status /\ q.at = "update_write"
      /\ q.kind \in {"all", "price"} \/ q.kind = "none"
  BY Facts DEF RequestSound, At, Request, Kind
<1>2. now \in Content /\ expect[p] \in Content
  BY Marks DEF CatalogInv, TypeOK, Row, ProductRow
<1>3. Edited(q.in, q.was) \in Content
  BY <1>1, EditedContent
<1>4. Expected(expect[p], q) \in Content
  BY <1>1, <1>2 DEF Expected, Content, Input, Status
<1>5. ASSUME p \notin touched PROVE Edited(q.in, q.was) = Expected(expect[p], q)
  <2>1. expect[p] = now
    BY <1>5 DEF CatalogInv, EditsKept
  <2>2. q.was = now.status
    BY <1>1, <1>5, Facts DEF Current, Updating
  <2>3. CASE q.kind # "price"
    BY <1>1, <2>1, <2>2, <2>3 DEF Expected, Edited
  <2>4. CASE q.kind = "price"
    <3>1. /\ q.in.sku = now.sku /\ q.in.status = now.status
          /\ \/ q.in.cat = now.cat
             \/ q.in.cat \in Categories /\ category[q.in.cat] = Deleted
      BY <1>1, <1>5, <2>4, Facts DEF Current, Updating
    <3>2. q.in.cat = now.cat
      BY <3>1, Marks DEF CategoryThere
    <3>3. now.status # ""
      BY <1>2 DEF Content, Status
    <3>. QED
      BY <1>1, <1>2, <2>1, <2>2, <2>4, <3>1, <3>2, <3>3 DEF Expected, Edited, Content, Input
  <2>. QED
    BY <2>3, <2>4
<1>. QED
  BY <1>3, <1>4, <1>5

LEMMA UpdateWriteKeeps ==
  ASSUME CatalogInv, NEW r \in Requests, UpdateWrite(r) PROVE CatalogInv'
<1>. DEFINE q == req[r]
            p == q.prod
            edit == Edited(q.in, q.was)
            told == Expected(expect[p], q)
<1>1. /\ At(r, "update_write") /\ ~At(r, "idle") /\ Finish(r)
      /\ UNCHANGED <<category, coupon, announced, served, faults, raced, touched>>
  BY DEF UpdateWrite, At
<1>2. /\ q.ten \in Tenants /\ q.in \in Input /\ q.was \in Status /\ p \in Products
      /\ Claims(q) = {<<q.ten, Fold(q.in.sku)>>}
      /\ edit.sku = q.in.sku /\ edit.cat = q.in.cat
  BY <1>1, Facts, HereNow, EditedContent DEF RequestSound, At, Updating
<1>3. \A o \in Products \ {p} : Owns(q.ten, o) /\ Fold(product[o].now.sku) = Fold(edit.sku)
        => <<q.ten, Fold(edit.sku)>> \in raced
  BY <1>1, <1>2, Facts DEF Cleared, At
<1>4. announced' \subseteq Products /\ faults' \in 0 .. MaxFaults
  BY <1>1 DEF CatalogInv, TypeOK
<1>5. CASE UpdateProductRow(p, q.ten, edit) /\ expect' = [expect EXCEPT ![p] = told]
  <2>1. /\ Owns(q.ten, p) /\ Row(p) /\ SkuFree(q.ten, p, edit.sku) /\ CategoryThere(edit.cat)
        /\ product' = [product EXCEPT ![p] = [ten |-> q.ten, now |-> edit]]
    BY <1>5 DEF UpdateProductRow, Owns, Row
  <2>2. edit \in Content /\ told \in Content /\ (p \in touched \/ edit = told)
    BY <1>1, <1>2, <2>1, EditedAsTold
  <2>3. p \in Rows(q)
    BY <1>2, Marks DEF Rows
  <2>. HIDE DEF edit, told
  <2>. QED
    BY <1>1, <1>2, <1>3, <1>4, <1>5, <2>1, <2>2, <2>3, Written
<1>6. CASE UNCHANGED <<product, expect>>
  BY <1>1, <1>4, <1>6, Leaving DEF rows, history
<1>. QED
  BY <1>5, <1>6 DEF UpdateWrite

(***************************************************************************)
(* The statements that concern no request: deletions, categories, coupons. *)
(***************************************************************************)

\* What follows of the requests where products keep their SKUs or go.
LEMMA Undisturbed ==
  ASSUME CatalogInv, UNCHANGED <<req, raced, touched>>,
         \A p \in Products : Row(p)' => /\ Row(p) /\ product'[p].ten = product[p].ten
                                        /\ product'[p].now.sku = product[p].now.sku,
         \A p \in Products : product[p] # None => product'[p] # None
  PROVE  /\ \A r \in Requests : RequestSound(req[r])' /\ Cleared(req[r])'
         /\ Recorded' /\ SkuUnique'
<1>1. ASSUME NEW r \in Requests PROVE RequestSound(req[r])' /\ Cleared(req[r])'
  <2>1. RequestSound(req[r]) /\ Cleared(req[r])
    BY DEF CatalogInv
  <2>. QED
    BY <2>1 DEF RequestSound, Cleared, Owns, Row
<1>2. Recorded'
  BY DEF CatalogInv, Recorded, Claims, Rows
<1>3. SkuUnique'
  BY DEF CatalogInv, SkuUnique
<1>. QED
  BY <1>1, <1>2, <1>3

LEMMA DeleteProductKeeps ==
  ASSUME CatalogInv, NEW t \in Tenants, NEW p \in Products, DeleteProduct(t, p)
  PROVE  CatalogInv'
<1>1. /\ Row(p) /\ product' = [product EXCEPT ![p] = Deleted]
      /\ coupon' = [k \in Coupons |-> IF coupon[k] \in CouponRow /\ coupon[k].prod = p
                                      THEN [coupon[k] EXCEPT !.prod = None] ELSE coupon[k]]
      /\ UNCHANGED <<category, announced, req, served, faults, raced, touched, expect>>
  BY DEF DeleteProduct, Owns, Row, history
<1>2. /\ product'[p] = Deleted /\ ~Row(p)'
      /\ \A o \in Products \ {p} : product'[o] = product[o] /\ (Row(o)' <=> Row(o))
  BY <1>1, Marks DEF CatalogInv, TypeOK, Row
<1>3. /\ coupon' \in [Coupons -> CouponRow \cup {None}]
      /\ \A k \in Coupons : coupon'[k] \in CouponRow =>
           /\ coupon[k] \in CouponRow /\ coupon'[k].prod # p
           /\ coupon'[k].prod \in {coupon[k].prod, None}
  <2>1. ASSUME NEW k \in Coupons
        PROVE  /\ coupon'[k] \in CouponRow \cup {None}
               /\ coupon'[k] \in CouponRow =>
                    /\ coupon[k] \in CouponRow /\ coupon'[k].prod # p
                    /\ coupon'[k].prod \in {coupon[k].prod, None}
    <3>1. CASE coupon[k] \in CouponRow /\ coupon[k].prod = p
      <4>1. coupon'[k] = [coupon[k] EXCEPT !.prod = None]
        BY <1>1, <3>1
      <4>. QED
        BY <3>1, <4>1, Marks DEF CouponRow
    <3>2. CASE ~(coupon[k] \in CouponRow /\ coupon[k].prod = p)
      BY <1>1, <3>2 DEF CatalogInv, TypeOK
    <3>. QED
      BY <3>1, <3>2
  <2>. QED
    BY <1>1, <2>1
<1>4. TypeOK'
  BY <1>1, <1>3 DEF CatalogInv, TypeOK
<1>5. /\ \A r \in Requests : RequestSound(req[r])' /\ Cleared(req[r])'
      /\ Recorded' /\ SkuUnique'
  BY <1>1, <1>2, Marks, Undisturbed
<1>6. ASSUME NEW r \in Requests PROVE Current(req[r])'
  <2>1. RequestSound(req[r]) /\ Current(req[r])
    BY DEF CatalogInv
  <2>. QED
    BY <1>1, <1>2, <2>1 DEF RequestSound, Current
<1>7. \A o \in Products : (product[o] # None => expect[o] \in Content)'
  BY <1>1, <1>2, Marks DEF CatalogInv, Row
<1>8. EditsKept'
  BY <1>1, <1>2 DEF CatalogInv, EditsKept
<1>9. LinksWhole'
  BY <1>1, <1>2, <1>3, Marks DEF CatalogInv, LinksWhole
<1>. QED
  BY <1>4, <1>5, <1>6, <1>7, <1>8, <1>9 DEF CatalogInv

LEMMA CategoryWrittenKeeps ==
  ASSUME CatalogInv, CategoriesKept,
         UNCHANGED <<product, coupon, announced, req, served, faults, history>>
  PROVE  CatalogInv'
<1>1. UNCHANGED <<product, coupon, announced, req, served, faults, raced, touched, expect>>
  BY DEF history
<1>2. TypeOK'
  BY <1>1 DEF CatalogInv, TypeOK, CategoriesKept
<1>3. EditsKept' /\ LinksWhole' /\ \A q \in Request : Current(q) => Current(q)'
  BY <1>1, RowsKept
<1>4. ASSUME NEW r \in Requests PROVE Current(req[r])'
  <2>1. Current(req[r]) /\ req[r] \in Request
    BY DEF CatalogInv, TypeOK
  <2>. QED
    BY <1>1, <1>3, <2>1 DEF Current, Row
<1>5. /\ \A r \in Requests : RequestSound(req[r])' /\ Cleared(req[r])'
      /\ Recorded' /\ SkuUnique'
  BY <1>1, Undisturbed DEF Row
<1>. QED
  BY <1>1, <1>2, <1>3, <1>4, <1>5 DEF CatalogInv

LEMMA CreateCategoryKeeps ==
  ASSUME CatalogInv, NEW t \in Tenants, NEW c \in Categories, NEW name \in Labels,
         CreateCategory(t, c, name)
  PROVE  CatalogInv'
<1>1. [ten |-> t, name |-> name] \in CategoryRow
  BY InputsAssumption DEF CategoryRow
<1>2. CategoriesKept
  BY <1>1, Marks, CategoryWritten DEF CreateCategory, InsertCategory
<1>. QED
  BY <1>2, CategoryWrittenKeeps DEF CreateCategory

LEMMA UpdateCategoryKeeps ==
  ASSUME CatalogInv, NEW t \in Tenants, NEW c \in Categories, NEW name \in Labels,
         UpdateCategory(t, c, name)
  PROVE  CatalogInv'
<1>. DEFINE row == [category[c] EXCEPT !.name = name]
<1>1. category[c] \in CategoryRow /\ category[c] # Deleted /\ row \in CategoryRow
  BY InputsAssumption, Marks DEF CategoryRow, UpdateCategory, OwnsCategory
<1>2. category' = [category EXCEPT ![c] = row]
  BY DEF UpdateCategory
<1>3. CategoriesKept
  BY <1>1, <1>2, CategoryWritten
<1>. QED
  BY <1>3, CategoryWrittenKeeps DEF UpdateCategory

LEMMA DeleteCategoryKeeps ==
  ASSUME CatalogInv, NEW t \in Tenants, NEW c \in Categories, DeleteCategory(t, c)
  PROVE  CatalogInv'
<1>1. /\ category' = [category EXCEPT ![c] = Deleted]
      /\ product' = [p \in Products |->
                       IF Row(p) THEN [product[p] EXCEPT !.now = Without(@, c)] ELSE product[p]]
      /\ expect' = [p \in Products |->
                      IF expect[p] = None THEN None ELSE Without(expect[p], c)]
      /\ UNCHANGED <<coupon, announced, req, served, faults, raced, touched>>
  BY DEF DeleteCategory, Row
<1>2. ASSUME NEW p \in Products, Row(p)
      PROVE  /\ Row(p)' /\ product[p].now \in Content /\ expect[p] \in Content
             /\ product'[p].ten = product[p].ten
             /\ product'[p].now = Without(product[p].now, c)
             /\ product'[p].now.sku = product[p].now.sku
             /\ product'[p].now.status = product[p].now.status
             /\ product'[p].now.cat = IF product[p].now.cat = c THEN None ELSE product[p].now.cat
  <2>1. /\ product[p] \in ProductRow /\ product[p].now \in Content /\ expect[p] \in Content
    BY <1>2, Marks DEF Row, ProductRow, CatalogInv
  <2>2. product'[p] = [product[p] EXCEPT !.now = Without(product[p].now, c)]
    BY <1>1, <1>2
  <2>3. Without(product[p].now, c) \in Content
    BY <2>1, WithoutContent
  <2>4. /\ Row(p)' /\ product'[p].ten = product[p].ten
        /\ product'[p].now = Without(product[p].now, c)
    BY <2>1, <2>2, <2>3 DEF Row, ProductRow
  <2>. QED
    BY <2>1, <2>4, WithoutContent
<1>3. \A p \in Products : ~Row(p) => product'[p] = product[p] /\ ~Row(p)'
  BY <1>1 DEF Row
<1>4. \A p \in Products : expect'[p] \in Content \cup {None}
        /\ (expect[p] \in Content => expect'[p] = Without(expect[p], c) /\ expect'[p] \in Content)
  BY <1>1, WithoutContent, Marks DEF CatalogInv, TypeOK
<1>5. /\ category'[c] = Deleted /\ category' \in [Categories -> CategoryRow \cup {None, Deleted}]
      /\ \A d \in Categories \ {c} : category'[d] = category[d]
  BY <1>1 DEF CatalogInv, TypeOK
<1>6. TypeOK'
  <2>1. \A p \in Products : product'[p] \in ProductRow \cup {None, Deleted}
    BY <1>2, <1>3 DEF CatalogInv, TypeOK, Row
  <2>2. /\ product' \in [Products -> ProductRow \cup {None, Deleted}]
        /\ expect' \in [Products -> Content \cup {None}]
    BY <1>1, <1>4, <2>1
  <2>. QED
    BY <1>1, <1>5, <2>2 DEF CatalogInv, TypeOK
<1>7. /\ \A r \in Requests : RequestSound(req[r])' /\ Cleared(req[r])'
      /\ Recorded' /\ SkuUnique'
  <2>1. \A p \in Products : product[p] # None => product'[p] # None
    BY <1>2, <1>3, Marks DEF Row
  <2>. QED
    BY <1>1, <1>2, <1>3, <2>1, Undisturbed
<1>8. ASSUME NEW r \in Requests PROVE Current(req[r])'
  <2>1. PICK q \in Request : q = req[r]
    BY Facts
  <2>2. RequestSound(q) /\ Current(q) /\ req'[r] = q
    BY <1>1, <2>1 DEF CatalogInv
  <2>3. ASSUME q.at \in Updating, Row(q.prod)', q.prod \notin touched,
               q.kind = "price", product'[q.prod].now.cat # q.in.cat
        PROVE  q.in.cat \in Categories /\ category'[q.in.cat] = Deleted
    <3>1. q.prod \in Products /\ Row(q.prod)
      BY <1>3, <2>2, <2>3 DEF RequestSound
    <3>2. \/ q.in.cat = product[q.prod].now.cat
          \/ q.in.cat \in Categories /\ category[q.in.cat] = Deleted
      BY <2>2, <2>3, <3>1 DEF Current
    <3>. QED
      BY <1>2, <1>5, <2>3, <3>1, <3>2
  <2>4. q.at \in Updating => q.prod \in Products
    BY <2>2 DEF RequestSound
  <2>. QED
    BY <1>1, <1>2, <1>3, <2>2, <2>3, <2>4 DEF Current
<1>9. \A p \in Products : (product[p] # None => expect[p] \in Content)'
  BY <1>2, <1>3, <1>4, Marks DEF CatalogInv
<1>10. EditsKept'
  BY <1>1, <1>2, <1>3, <1>4 DEF CatalogInv, EditsKept
<1>11. LinksWhole'
  BY <1>1, <1>2, <1>3, <1>5, Marks DEF CatalogInv, LinksWhole
<1>. QED
  BY <1>6, <1>7, <1>8, <1>9, <1>10, <1>11 DEF CatalogInv

LEMMA CouponKeeps ==
  ASSUME CatalogInv, coupon' \in [Coupons -> CouponRow \cup {None}],
         \A k \in Coupons, p \in Products :
           coupon'[k] \in CouponRow /\ coupon'[k].prod = p => Row(p),
         UNCHANGED <<product, category, announced, req, served, faults, history>>
  PROVE  CatalogInv'
<1>1. UNCHANGED <<product, category, announced, req, served, faults, raced, touched, expect>>
  BY DEF history
<1>2. TypeOK'
  BY <1>1 DEF CatalogInv, TypeOK
<1>3. /\ \A r \in Requests : RequestSound(req[r])' /\ Cleared(req[r])'
      /\ Recorded' /\ SkuUnique'
  BY <1>1, Undisturbed DEF Row
<1>4. ASSUME NEW r \in Requests PROVE Current(req[r])'
  <2>1. Current(req[r])
    BY DEF CatalogInv
  <2>. QED
    BY <1>1, <2>1 DEF Current, Row
<1>5. EditsKept' /\ LinksWhole'
  BY <1>1 DEF CatalogInv, EditsKept, LinksWhole, Row
<1>. QED
  BY <1>1, <1>2, <1>3, <1>4, <1>5 DEF CatalogInv

LEMMA EditCouponKeeps ==
  ASSUME CatalogInv, NEW t \in Tenants, EditCoupon(t) PROVE CatalogInv'
<1>0. /\ coupon \in [Coupons -> CouponRow \cup {None}]
      /\ \A k \in Coupons, p \in Products :
           coupon[k] \in CouponRow /\ coupon[k].prod = p => Row(p)
  BY DEF CatalogInv, TypeOK, LinksWhole
<1>1. ASSUME NEW k \in Coupons, NEW p \in Products \cup {None}, CreateCoupon(t, k, p)
      PROVE  CatalogInv'
  <2>1. /\ [ten |-> t, prod |-> p] \in CouponRow /\ (p \in Products => Row(p))
        /\ coupon' = [coupon EXCEPT ![k] = [ten |-> t, prod |-> p]]
    BY <1>1 DEF CouponRow, CreateCoupon, ProductThere, Row
  <2>. QED
    BY <1>0, <1>1, <2>1, CouponKeeps DEF CreateCoupon
<1>2. ASSUME NEW k \in Coupons, NEW p \in Products \cup {None}, UpdateCoupon(t, k, p)
      PROVE  CatalogInv'
  <2>. DEFINE row == [coupon[k] EXCEPT !.prod = p]
  <2>1. row \in CouponRow /\ row.prod = p /\ (p \in Products => Row(p))
    BY <1>2 DEF CouponRow, UpdateCoupon, OwnsCoupon, ProductThere, Row
  <2>2. coupon' = [coupon EXCEPT ![k] = row]
    BY <1>2 DEF UpdateCoupon
  <2>. HIDE DEF row
  <2>. QED
    BY <1>0, <1>2, <2>1, <2>2, CouponKeeps DEF UpdateCoupon
<1>3. ASSUME NEW k \in Coupons, DeleteCoupon(t, k) PROVE CatalogInv'
  BY <1>0, <1>3, Marks, CouponKeeps DEF DeleteCoupon
<1>. QED
  BY <1>1, <1>2, <1>3 DEF EditCoupon

(***************************************************************************)
(* The theorems.                                                           *)
(***************************************************************************)

LEMMA StepKeeps == ASSUME CatalogInv, NEW r \in Requests, Step(r) PROVE CatalogInv'
BY ResolveKeeps, ResolveCreateKeeps, CreateCheckKeeps, CreateInsertKeeps, PriceReadKeeps,
   UpdateReadKeeps, UpdateCheckKeeps, UpdateWriteKeeps, CutOffKeeps DEF Step

LEMMA StutterKeeps == CatalogInv /\ UNCHANGED vars => CatalogInv'
<1>. SUFFICES ASSUME CatalogInv, UNCHANGED vars PROVE CatalogInv'
  OBVIOUS
<1>1. UNCHANGED <<product, coupon, announced, req, served, faults, history>> /\ UNCHANGED category
  BY DEF vars, rows
<1>. QED
  BY <1>1, SameCategories, CategoryWrittenKeeps

\* Whatever order the statements of requests come in.
THEOREM CatalogInductive == CatalogInv /\ [Next]_vars => CatalogInv'
<1>. SUFFICES ASSUME CatalogInv, [Next]_vars PROVE CatalogInv'
  OBVIOUS
<1>1. ASSUME NEW r \in Requests, NEW t \in Tenants, Begin(r, t) PROVE CatalogInv'
  BY <1>1, BeginKeeps
<1>2. ASSUME NEW r \in Requests, Step(r) PROVE CatalogInv'
  BY <1>2, StepKeeps
<1>3. ASSUME NEW t \in Tenants, EditCategory(t) PROVE CatalogInv'
  BY <1>3, CreateCategoryKeeps, UpdateCategoryKeeps, DeleteCategoryKeeps DEF EditCategory
<1>4. ASSUME NEW t \in Tenants, EditCoupon(t) PROVE CatalogInv'
  BY <1>4, EditCouponKeeps
<1>5. ASSUME NEW t \in Tenants, NEW p \in Products, DeleteProduct(t, p) PROVE CatalogInv'
  BY <1>5, DeleteProductKeeps
<1>. QED
  BY <1>1, <1>2, <1>3, <1>4, <1>5, StutterKeeps DEF Next

\* What requests have read, checked or resolved is still so when they write, or
\* an overlap is on record (service.go and handler.go of the catalog, copilot).
THEOREM CatalogSafe == Spec => []CatalogInv
BY InitSound, CatalogInductive, PTL DEF Spec

\* What the rows, the requests and the history may hold.
THEOREM TypeCorrect == Spec => []TypeOK
<1>1. CatalogInv => TypeOK
  BY DEF CatalogInv
<1>. QED
  BY <1>1, CatalogSafe, PTL

\* A tenant's SKUs differ, in more than case unless an overlap or a failed lookup
\* is on record: the lookup of service.go and the insert are separate statements,
\* and the constraint of the database respects case.
THEOREM SkusUnique == Spec => []SkuUnique
<1>1. CatalogInv => SkuUnique
  BY DEF CatalogInv
<1>. QED
  BY <1>1, CatalogSafe, PTL

\* A product is what its edits say in turn unless requests for it overlapped,
\* although each writes back every column it has read.
THEOREM EditsAreKept == Spec => []EditsKept
<1>1. CatalogInv => EditsKept
  BY DEF CatalogInv
<1>. QED
  BY <1>1, CatalogSafe, PTL

\* No product names a category, no coupon a product, that is not there.
THEOREM LinksAreWhole == Spec => []LinksWhole
<1>1. CatalogInv => LinksWhole
  BY DEF CatalogInv
<1>. QED
  BY <1>1, CatalogSafe, PTL
=============================================================================
