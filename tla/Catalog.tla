------------------------------ MODULE Catalog ------------------------------
(***************************************************************************)
(* Products, categories and coupons, edited by HTTP requests and by the    *)
(* copilot's proposals.  A statement commits by itself; a request that     *)
(* reads, decides and writes is several actions.  A SKU or a category name *)
(* is a pair: its letters, and their case.  Images are module              *)
(* ProductImages.                                                          *)
(***************************************************************************)
EXTENDS Naturals, FiniteSets

CONSTANTS
  Products, Categories,  \* ids of rows (UUIDs: never used twice)
  Coupons,               \* ids of rows, to which nothing else refers
  Tenants,
  Letters, Cases,        \* what a name is made of
  Prices,
  Inputs,                \* bodies of requests: some of Input
  Labels,                \* names of categories: some of Name
  Requests,              \* request slots
  MaxRequests,           \* bound: requests served in all
  MaxFaults,             \* bound: statements that fail, requests cut off
  None, Deleted          \* no row yet, and no row any more

ASSUME CatalogAssumption ==
  /\ MaxRequests \in Nat /\ MaxFaults \in Nat
  /\ {None, Deleted} \cap (Products \cup Categories \cup Coupons \cup Tenants \cup Prices) = {}
  /\ None # Deleted

VARIABLES
  product,    \* products: every column but image_key
  category,   \* categories
  coupon,     \* coupons: their tenant and their product, if any
  announced,  \* products whose ProductCreated event was emitted
  req,        \* the request each slot is serving
  served, faults,
  (* history *)
  raced,      \* <<t, letters>>: requests for such a SKU overlapped, or a
              \* lookup of it failed
  touched,    \* products that were the subject of requests that overlapped
  expect      \* what each product is after its edits, applied one by one

rows == <<product, category, coupon>>
history == <<raced, touched, expect>>
vars == <<rows, announced, req, served, faults, history>>

Name == Letters \X Cases
Fold(s) == s[1]     \* lower(sku), strings.EqualFold

Status == {"active", "inactive"}

\* What validateProduct lets through; "" is a status left out.
Input == [sku : Name, cat : Categories \cup {None}, price : Prices,
          status : Status \cup {""}]

Content == [sku : Name, cat : Categories \cup {None}, price : Prices,
            status : Status]
ProductRow == [ten : Tenants, now : Content]
CategoryRow == [ten : Tenants, name : Name]
CouponRow == [ten : Tenants, prod : Products \cup {None}]

Point == {"idle", "resolve", "resolve_create", "create_check", "create_insert",
          "price_read", "update_read", "update_check", "update_write"}

ASSUME InputsAssumption == Inputs \subseteq Input /\ Labels \subseteq Name

ASSUME MarksAssumption ==   \* the two marks are no rows and no bodies
  \A mark \in {None, Deleted} :
    mark \notin ProductRow \cup CategoryRow \cup CouponRow \cup Content \cup Input \cup Name

\* A request's subject: a whole row, or the price alone.
Kind == {"none", "all", "price"}

Request == [at   : Point,
            kind : Kind,
            ten  : Tenants \cup {None},
            prod : Products \cup {None},
            in   : Input \cup {None},
            was  : Status \cup {"none"},        \* existing.Status
            name : Name \cup {None}]            \* category a proposal names

Idle == [at |-> "idle", kind |-> "none", ten |-> None, prod |-> None,
         in |-> None, was |-> "none", name |-> None]

TypeOK ==
  /\ product \in [Products -> ProductRow \cup {None, Deleted}]
  /\ category \in [Categories -> CategoryRow \cup {None, Deleted}]
  /\ coupon \in [Coupons -> CouponRow \cup {None}]
  /\ announced \subseteq Products
  /\ req \in [Requests -> Request]
  /\ served \in 0 .. MaxRequests
  /\ faults \in 0 .. MaxFaults
  /\ raced \subseteq Tenants \X Letters
  /\ touched \subseteq Products
  /\ expect \in [Products -> Content \cup {None}]

Init ==
  /\ product = [p \in Products |-> None]
  /\ category = [c \in Categories |-> None]
  /\ coupon = [k \in Coupons |-> None]
  /\ announced = {}
  /\ req = [r \in Requests |-> Idle]
  /\ served = 0 /\ faults = 0
  /\ raced = {} /\ touched = {}
  /\ expect = [p \in Products |-> None]

-----------------------------------------------------------------------------
(* Requests *)

At(r, point) == req[r].at = point
Goto(r, point) == req' = [req EXCEPT ![r].at = point]
Finish(r) == req' = [req EXCEPT ![r] = Idle]
Fault == faults < MaxFaults /\ faults' = faults + 1
Others(r) == Requests \ {r}

\* History: the SKU (of any case) and the product a request is about, and
\* what becomes of them when request q enters slot r beside the others.
Claims(q) == IF q.in = None THEN {} ELSE {<<q.ten, Fold(q.in.sku)>>}
Rows(q)   == IF q.prod = None THEN {} ELSE {q.prod}

Enter(r, q) ==
  /\ req' = [req EXCEPT ![r] = q]
  /\ raced' = raced \cup UNION {Claims(q) \cap Claims(req[s]) : s \in Others(r)}
  /\ touched' = touched \cup UNION {Rows(q) \cap Rows(req[s]) : s \in Others(r)}

Arrive(r, q) ==
  /\ At(r, "idle")
  /\ served < MaxRequests /\ served' = served + 1
  /\ Enter(r, q)
  /\ UNCHANGED <<rows, announced, faults, expect>>

\* A client can only name a product that is there or has been.
Known(p) == product[p] # None

\* handler.createProduct and updateProduct: what the body and the path say.
PostProduct(r, t, in) ==
  Arrive(r, [Idle EXCEPT !.at = "create_check", !.kind = "all", !.ten = t,
                         !.in = in])

PutProduct(r, t, p, in) ==
  /\ Known(p)
  /\ Arrive(r, [Idle EXCEPT !.at = "update_read", !.kind = "all", !.ten = t,
                            !.prod = p, !.in = in])

\* execCreateProduct: always active; the category is given by its name, if at all.
CopilotCreate(r, t, sku, price, name) ==
  Arrive(r, [Idle EXCEPT
               !.at = IF name = None THEN "create_check" ELSE "resolve",
               !.kind = "all", !.ten = t, !.name = name,
               !.in = [sku |-> sku, cat |-> None, price |-> price,
                       status |-> "active"]])

\* execUpdatePrice: the price for the product of a SKU, in any case.
CopilotPrice(r, t, sku, price) ==
  Arrive(r, [Idle EXCEPT !.at = "price_read", !.kind = "price", !.ten = t,
               !.in = [sku |-> sku, cat |-> None, price |-> price,
                       status |-> ""]])

\* copilotExecute: the kinds of proposals that concern the catalog.
CopilotExecute(r, t) ==
  \E in \in Inputs :
    \/ \E name \in Labels \cup {None} : CopilotCreate(r, t, in.sku, in.price, name)
    \/ CopilotPrice(r, t, in.sku, in.price)

-----------------------------------------------------------------------------
(* Statements *)

\* repo.GetProduct: the WHERE clause of reads and writes by id.
Owns(t, p) == product[p] \in ProductRow /\ product[p].ten = t

\* repo.GetProductBySKU: the rows it may return, one of them.
BySKU(t, sku) == {p \in Products : Owns(t, p) /\ Fold(product[p].now.sku) = Fold(sku)}

OwnsCategory(t, c) == category[c] \in CategoryRow /\ category[c].ten = t

\* UNIQUE (tenant_id, sku) respects case.
SkuFree(t, p, sku) ==
  \A q \in Products \ {p} : Owns(t, q) => product[q].now.sku # sku

\* The foreign key asks for a category, of whatever tenant.
CategoryThere(c) == c \in Categories => category[c] \in CategoryRow

NameFree(t, c, name) ==
  \A d \in Categories \ {c} : OwnsCategory(t, d) => category[d].name # name

\* repo.CreateProduct, when the constraints let it.
InsertProduct(p, t, content) ==
  /\ product[p] = None
  /\ SkuFree(t, p, content.sku) /\ CategoryThere(content.cat)
  /\ product' = [product EXCEPT ![p] = [ten |-> t, now |-> content]]

\* repo.UpdateProduct: every column but image_key.
UpdateProductRow(p, t, content) ==
  /\ Owns(t, p)
  /\ SkuFree(t, p, content.sku) /\ CategoryThere(content.cat)
  /\ product' = [product EXCEPT ![p] = [ten |-> t, now |-> content]]

\* repo.CreateCategory.
InsertCategory(c, t, name) ==
  /\ category[c] = None /\ NameFree(t, c, name)
  /\ category' = [category EXCEPT ![c] = [ten |-> t, name |-> name]]

-----------------------------------------------------------------------------
(* POST /products and the copilot's create_product *)

\* resolveOrCreateCategory: any case will do; a list that fails is an empty one.
Resolve(r) ==
  LET q == req[r]
      found == {c \in Categories :
                  OwnsCategory(q.ten, c) /\ Fold(category[c].name) = Fold(q.name)}
  IN /\ At(r, "resolve")
     /\ \/ \E c \in found : req' = [req EXCEPT ![r].at = "create_check",
                                               ![r].in.cat = c]
           /\ UNCHANGED faults
        \/ found = {} /\ Goto(r, "resolve_create") /\ UNCHANGED faults
        \/ Fault /\ Goto(r, "resolve_create")
     /\ UNCHANGED <<rows, announced, served, history>>

\* A category that cannot be inserted is left out of the product.
ResolveCreate(r) ==
  LET q == req[r] IN
  /\ At(r, "resolve_create")
  /\ \/ \E c \in Categories :
          /\ InsertCategory(c, q.ten, q.name)
          /\ req' = [req EXCEPT ![r].at = "create_check", ![r].in.cat = c]
     \/ /\ \A c \in Categories : category[c] = None => ~NameFree(q.ten, c, q.name)
        /\ Goto(r, "create_check") /\ UNCHANGED category
  /\ UNCHANGED <<product, coupon, announced, served, faults, history>>

\* Mutant: the lookup respects case, as the constraint does.
CreateCheckExact(r) ==
  LET q == req[r] IN
  /\ At(r, "create_check")
  /\ \/ SkuFree(q.ten, None, q.in.sku) /\ Goto(r, "create_insert")
     \/ ~SkuFree(q.ten, None, q.in.sku) /\ Finish(r)
  /\ UNCHANGED <<rows, announced, served, faults, history>>

\* CreateProduct's lookup: only one that finds a row refuses.
CreateCheck(r) ==
  LET q == req[r] IN
  /\ At(r, "create_check")
  /\ \/ /\ BySKU(q.ten, q.in.sku) = {}
        /\ Goto(r, "create_insert") /\ UNCHANGED <<faults, raced>>
     \/ /\ BySKU(q.ten, q.in.sku) # {}
        /\ Finish(r) /\ UNCHANGED <<faults, raced>>
     \/ /\ Fault
        /\ Goto(r, "create_insert") /\ raced' = raced \cup Claims(q)
  /\ UNCHANGED <<rows, announced, served, touched, expect>>

\* Mutant: no default.
CreatedAsGiven(in) == [in EXCEPT !.status = in.status]

Created(in) == [in EXCEPT !.status = IF in.status = "" THEN "active" ELSE in.status]

\* The INSERT, and the event that tells the RAG plane of it; the constraints
\* may refuse it, and its answer may be lost.
CreateInsert(r) ==
  LET q == req[r] IN
  /\ At(r, "create_insert")
  /\ \/ \E p \in Products :
          /\ InsertProduct(p, q.ten, Created(q.in))
          /\ expect' = [expect EXCEPT ![p] = Created(q.in)]
          /\ \/ announced' = announced \cup {p} /\ UNCHANGED faults
             \/ Fault /\ UNCHANGED announced
     \/ /\ ~SkuFree(q.ten, None, q.in.sku) \/ ~CategoryThere(q.in.cat)
        /\ UNCHANGED <<product, expect, announced, faults>>
  /\ Finish(r)
  /\ UNCHANGED <<category, coupon, served, raced, touched>>

-----------------------------------------------------------------------------
(* PUT /products/:id and the copilot's update_product_price *)

\* execUpdatePrice reads the row and makes an edit of all its columns of it.
PriceRead(r) ==
  LET q == req[r] IN
  /\ At(r, "price_read")
  /\ \/ \E p \in BySKU(q.ten, q.in.sku) :
          Enter(r, [q EXCEPT !.at = "update_read", !.prod = p,
                             !.in = [product[p].now EXCEPT !.price = q.in.price]])
     \/ /\ BySKU(q.ten, q.in.sku) = {}
        /\ Finish(r) /\ UNCHANGED <<raced, touched>>
  /\ UNCHANGED <<rows, announced, served, faults, expect>>

\* UpdateProduct looks the SKU up only where the edit changes it.
UpdateRead(r) ==
  LET q == req[r] IN
  /\ At(r, "update_read")
  /\ IF Owns(q.ten, q.prod)
     THEN req' = [req EXCEPT
            ![r] = [q EXCEPT
              !.was = product[q.prod].now.status,
              !.at = IF Fold(product[q.prod].now.sku) = Fold(q.in.sku)
                     THEN "update_write" ELSE "update_check"]]
     ELSE Finish(r)
  /\ UNCHANGED <<rows, announced, served, faults, history>>

UpdateCheck(r) ==
  LET q == req[r] IN
  /\ At(r, "update_check")
  /\ \/ /\ BySKU(q.ten, q.in.sku) = {}
        /\ Goto(r, "update_write") /\ UNCHANGED <<faults, raced>>
     \/ /\ BySKU(q.ten, q.in.sku) # {}
        /\ Finish(r) /\ UNCHANGED <<faults, raced>>
     \/ /\ Fault
        /\ Goto(r, "update_write") /\ raced' = raced \cup Claims(q)
  /\ UNCHANGED <<rows, announced, served, touched, expect>>

\* Mutant: a status left out is the default of a new product.
EditedAsNew(in, was) == [in EXCEPT !.status = IF in.status = "" /\ was \in Status
                                              THEN "active" ELSE in.status]

\* The columns of an edit of a row that had status `was`.
Edited(in, was) == [in EXCEPT !.status = IF in.status = "" THEN was ELSE in.status]

\* History: the edit alone, on what the product is to be without overlaps.
Expected(e, q) ==
  IF q.kind = "price" THEN [e EXCEPT !.price = q.in.price]
  ELSE [q.in EXCEPT !.status = IF @ = "" THEN e.status ELSE @]

UpdateWrite(r) ==
  LET q == req[r] IN
  /\ At(r, "update_write")
  /\ \/ /\ UpdateProductRow(q.prod, q.ten, Edited(q.in, q.was))
        /\ expect' = [expect EXCEPT ![q.prod] = Expected(@, q)]
     \/ /\ ~( /\ Owns(q.ten, q.prod) /\ CategoryThere(q.in.cat)
              /\ SkuFree(q.ten, q.prod, q.in.sku) )
        /\ UNCHANGED <<product, expect>>
  /\ Finish(r)
  /\ UNCHANGED <<category, coupon, announced, served, faults, raced, touched>>

\* repo.DeleteProduct, the handler's only statement, and ON DELETE SET NULL.
DeleteProduct(t, p) ==
  /\ Owns(t, p)
  /\ product' = [product EXCEPT ![p] = Deleted]
  /\ coupon' = [k \in Coupons |-> IF coupon[k] \in CouponRow /\ coupon[k].prod = p
                                  THEN [coupon[k] EXCEPT !.prod = None]
                                  ELSE coupon[k]]
  /\ UNCHANGED <<category, announced, req, served, faults, history>>

-----------------------------------------------------------------------------
(* Categories: one statement each *)

CreateCategory(t, c, name) ==
  /\ InsertCategory(c, t, name)
  /\ UNCHANGED <<product, coupon, announced, req, served, faults, history>>

\* repo.UpdateCategory.
UpdateCategory(t, c, name) ==
  /\ OwnsCategory(t, c) /\ NameFree(t, c, name)
  /\ category' = [category EXCEPT ![c].name = name]
  /\ UNCHANGED <<product, coupon, announced, req, served, faults, history>>

\* ON DELETE SET NULL: products of this category have none.
Without(content, c) == IF content.cat = c THEN [content EXCEPT !.cat = None]
                                          ELSE content

\* Mutant: the products keep the id.
DeleteCategoryOnly(t, c) ==
  /\ OwnsCategory(t, c)
  /\ category' = [category EXCEPT ![c] = Deleted]
  /\ UNCHANGED <<product, coupon, announced, req, served, faults, history>>

\* repo.DeleteCategory.
DeleteCategory(t, c) ==
  /\ OwnsCategory(t, c)
  /\ category' = [category EXCEPT ![c] = Deleted]
  /\ product' = [p \in Products |->
                   IF product[p] \in ProductRow
                   THEN [product[p] EXCEPT !.now = Without(@, c)] ELSE product[p]]
  /\ expect' = [p \in Products |->
                  IF expect[p] = None THEN None ELSE Without(expect[p], c)]
  /\ UNCHANGED <<coupon, announced, req, served, faults, raced, touched>>

-----------------------------------------------------------------------------
(* Coupons: one statement each *)

\* The foreign key asks for a product, of whatever tenant.
ProductThere(p) == p \in Products => product[p] \in ProductRow

CreateCoupon(t, k, p) ==
  /\ coupon[k] = None /\ ProductThere(p)
  /\ coupon' = [coupon EXCEPT ![k] = [ten |-> t, prod |-> p]]
  /\ UNCHANGED <<product, category, announced, req, served, faults, history>>

OwnsCoupon(t, k) == coupon[k] \in CouponRow /\ coupon[k].ten = t

UpdateCoupon(t, k, p) ==
  /\ OwnsCoupon(t, k) /\ ProductThere(p)
  /\ coupon' = [coupon EXCEPT ![k].prod = p]
  /\ UNCHANGED <<product, category, announced, req, served, faults, history>>

DeleteCoupon(t, k) ==
  /\ OwnsCoupon(t, k)
  /\ coupon' = [coupon EXCEPT ![k] = None]
  /\ UNCHANGED <<product, category, announced, req, served, faults, history>>

-----------------------------------------------------------------------------
\* The process dies, or a statement fails whose error ends the request.
CutOff(r) ==
  /\ ~At(r, "idle")
  /\ Fault /\ Finish(r)
  /\ UNCHANGED <<rows, announced, served, history>>

Begin(r, t) ==
  \/ \E in \in Inputs : PostProduct(r, t, in) \/ \E p \in Products : PutProduct(r, t, p, in)
  \/ CopilotExecute(r, t)

Step(r) ==
  \/ Resolve(r) \/ ResolveCreate(r) \/ CreateCheck(r) \/ CreateInsert(r)
  \/ PriceRead(r) \/ UpdateRead(r) \/ UpdateCheck(r) \/ UpdateWrite(r)
  \/ CutOff(r)

EditCategory(t) ==
  \E c \in Categories :
    \/ \E name \in Labels : CreateCategory(t, c, name) \/ UpdateCategory(t, c, name)
    \/ DeleteCategory(t, c)

EditCoupon(t) ==
  \E k \in Coupons :
    \/ \E p \in Products \cup {None} : CreateCoupon(t, k, p) \/ UpdateCoupon(t, k, p)
    \/ DeleteCoupon(t, k)

Next ==
  \/ \E r \in Requests : (\E t \in Tenants : Begin(r, t)) \/ Step(r)
  \/ \E t \in Tenants : EditCategory(t) \/ EditCoupon(t) \/ \E p \in Products : DeleteProduct(t, p)

Spec == Init /\ [][Next]_vars
-----------------------------------------------------------------------------
(* Properties *)

Row(p) == product[p] \in ProductRow

\* A tenant's products have different SKUs; SKUs that differ in case only come
\* from requests for such a SKU that overlapped, or from a lookup that failed
\* (an error of GetProductBySKU counts as "free").
SkuUnique ==
  \A p, q \in Products :
    p # q /\ Row(p) /\ Row(q) /\ product[p].ten = product[q].ten =>
      /\ product[p].now.sku # product[q].now.sku
      /\ Fold(product[p].now.sku) = Fold(product[q].now.sku) =>
           <<product[p].ten, Fold(product[p].now.sku)>> \in raced

\* A product is what its edits say, applied one by one, the copilot's changing
\* nothing but the price; edits are lost only where requests for one product
\* overlapped, for each writes back all the columns it has read.
EditsKept ==
  \A p \in Products :
    Row(p) /\ p \notin touched => product[p].now = expect[p]

\* Products refer to categories that exist and coupons to such products, although
\* a request names what it read, or was told, before others deleted it.
LinksWhole ==
  /\ \A p \in Products, c \in Categories :
       Row(p) /\ product[p].now.cat = c => category[c] \in CategoryRow
  /\ \A k \in Coupons, p \in Products :
       coupon[k] \in CouponRow /\ coupon[k].prod = p => Row(p)

-----------------------------------------------------------------------------
(* The inductive invariant *)

Creating == {"resolve", "resolve_create", "create_check", "create_insert"}
Updating == {"update_read", "update_check", "update_write"}

\* What a request has at its point.
RequestSound(q) ==
  /\ q.at = "idle" => q = Idle
  /\ q.at # "idle" => q.ten \in Tenants /\ q.in \in Input
  /\ q.at \in {"resolve", "resolve_create"} => q.name \in Name
  /\ q.at \in Creating \cup {"price_read"} => q.prod = None
  /\ q.at \in Updating => q.prod \in Products /\ product[q.prod] # None
  /\ q.at \in {"update_check", "update_write"} => q.was \in Status

\* Requests for one SKU, or for one product, are on record as overlapping.
Recorded ==
  \A r, s \in Requests : r # s =>
    /\ Claims(req[r]) \cap Claims(req[s]) \subseteq raced
    /\ Rows(req[r]) \cap Rows(req[s]) \subseteq touched

\* A request about to write found the SKU free: no other row has taken it since
\* without an overlap.
Cleared(q) ==
  q.at \in {"create_insert", "update_write"} =>
    \A p \in Products \ {q.prod} :
      Owns(q.ten, p) /\ Fold(product[p].now.sku) = Fold(q.in.sku)
        => <<q.ten, Fold(q.in.sku)>> \in raced

\* What an edit of a product has read of it is still so, but for a category that
\* was deleted meanwhile: the edit then is refused.
Current(q) ==
  q.at \in Updating /\ Row(q.prod) /\ q.prod \notin touched =>
    LET now == product[q.prod].now IN
    /\ q.at # "update_read" => q.was = now.status
    /\ q.kind = "price" =>
         /\ q.in.sku = now.sku /\ q.in.status = now.status
         /\ \/ q.in.cat = now.cat
            \/ q.in.cat \in Categories /\ category[q.in.cat] = Deleted

CatalogInv ==
  /\ TypeOK
  /\ \A r \in Requests : RequestSound(req[r]) /\ Cleared(req[r]) /\ Current(req[r])
  /\ \A p \in Products : product[p] # None => expect[p] \in Content
  /\ Recorded
  /\ SkuUnique /\ EditsKept /\ LinksWhole
=============================================================================
