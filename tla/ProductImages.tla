--------------------------- MODULE ProductImages ---------------------------
(***************************************************************************)
(* Product images: a key in the product's row, a file in object storage,   *)
(* and an upload that changes both, one call at a time.  The rest of the   *)
(* row is module Catalog; here an edit only must leave the key alone.      *)
(***************************************************************************)
EXTENDS Naturals, FiniteSets

CONSTANTS
  Products,
  Keys,        \* object keys: each holds a UUID of its own
  Requests,    \* request slots
  MaxFaults,   \* bound: calls that fail, answers lost, requests cut off
  None

ASSUME ImagesAssumption ==
  MaxFaults \in Nat /\ None \notin Products \cup Keys

VARIABLES
  there,       \* products with a row
  image,       \* products.image_key, None for ''
  objects,     \* keys with a file in object storage
  req,         \* the request each slot is serving
  faults,
  (* history *)
  madeFor,     \* the product each object was uploaded for
  overlapped,  \* products with overlapping uploads
  unanswered   \* keys whose UPDATE was committed and reported as failed

vars == <<there, image, objects, req, faults, madeFor, overlapped, unanswered>>

Point == {"idle", "edit", "put", "set_snapshot", "set_image", "cleanup", "undo"}

Request == [at   : Point,
            prod : Products \cup {None},
            key  : Keys \cup {None},     \* the object just stored
            old  : Keys \cup {None}]     \* the key its UPDATE has replaced

Idle == [at |-> "idle", prod |-> None, key |-> None, old |-> None]

TypeOK ==
  /\ there \subseteq Products
  /\ image \in [Products -> Keys \cup {None}]
  /\ objects \subseteq Keys
  /\ req \in [Requests -> Request]
  /\ faults \in 0 .. MaxFaults
  /\ madeFor \in [Keys -> Products \cup {None}]
  /\ overlapped \subseteq Products
  /\ unanswered \subseteq Keys

\* Products without an image.
Init ==
  /\ there = Products
  /\ image = [p \in Products |-> None]
  /\ objects = {}
  /\ req = [r \in Requests |-> Idle]
  /\ faults = 0
  /\ madeFor = [k \in Keys |-> None]
  /\ overlapped = {} /\ unanswered = {}

-----------------------------------------------------------------------------
At(r, point) == req[r].at = point
Goto(r, point) == req' = [req EXCEPT ![r].at = point]
Finish(r) == req' = [req EXCEPT ![r] = Idle]
Fault == faults < MaxFaults /\ faults' = faults + 1

Uploading(r) == ~At(r, "idle") /\ ~At(r, "edit")

\* PUT /products/:id reads the product; what it read of the image is kept.
EditRead(r, p) ==
  /\ At(r, "idle") /\ p \in there
  /\ req' = [req EXCEPT ![r] = [Idle EXCEPT !.at = "edit", !.prod = p,
                                            !.old = image[p]]]
  /\ UNCHANGED <<there, image, objects, faults, madeFor, overlapped, unanswered>>

\* repo.UpdateProduct writes every column but image_key.
EditWrite(r) ==
  /\ At(r, "edit")
  /\ Finish(r)
  /\ UNCHANGED <<there, image, objects, faults, madeFor, overlapped, unanswered>>

\* DELETE /products/:id: the row goes, the file stays.
DeleteProduct(p) ==
  /\ p \in there
  /\ there' = there \ {p}
  /\ image' = [image EXCEPT ![p] = None]
  /\ UNCHANGED <<objects, req, faults, madeFor, overlapped, unanswered>>

-----------------------------------------------------------------------------
(* POST /products/:id/image *)

\* uploadImage, with a file of an allowed type and size; the product is not
\* looked up.
UploadImage(r, p) ==
  /\ At(r, "idle")
  /\ req' = [req EXCEPT ![r] = [Idle EXCEPT !.at = "put", !.prod = p]]
  /\ overlapped' = IF \E s \in Requests \ {r} : Uploading(s) /\ req[s].prod = p
                   THEN overlapped \cup {p} ELSE overlapped
  /\ UNCHANGED <<there, image, objects, faults, madeFor, unanswered>>

\* storage.Put, under a key that was never used; it may fail and store nothing.
Put(r) ==
  /\ At(r, "put")
  /\ \E k \in Keys :
       /\ madeFor[k] = None
       /\ objects' = objects \cup {k}
       /\ madeFor' = [madeFor EXCEPT ![k] = req[r].prod]
       /\ req' = [req EXCEPT ![r] = [@ EXCEPT !.at = "set_snapshot", !.key = k]]
  /\ UNCHANGED <<there, image, faults, overlapped, unanswered>>

\* SetProductImage's subquery sees the rows as of the start of the statement;
\* the UPDATE then waits for the row's lock, and others may commit first.
SetSnapshot(r) ==
  /\ At(r, "set_snapshot")
  /\ IF req[r].prod \in there
     THEN req' = [req EXCEPT ![r] = [@ EXCEPT !.at = "set_image",
                                             !.old = image[req[r].prod]]]
     ELSE Goto(r, "undo")
  /\ UNCHANGED <<there, image, objects, faults, madeFor, overlapped, unanswered>>

\* The UPDATE: done, done with its answer lost, or not done.
SetImage(r) ==
  LET p == req[r].prod
      k == req[r].key IN
  /\ At(r, "set_image")
  /\ \/ /\ p \in there
        /\ image' = [image EXCEPT ![p] = k]
        /\ \/ Goto(r, "cleanup") /\ UNCHANGED <<faults, unanswered>>
           \/ Fault /\ Goto(r, "undo") /\ unanswered' = unanswered \cup {k}
     \/ /\ Goto(r, "undo")
        /\ (p \notin there /\ UNCHANGED faults) \/ Fault
        /\ UNCHANGED <<image, unanswered>>
  /\ UNCHANGED <<there, objects, madeFor, overlapped>>

\* store.Delete; a failure is dropped.
Discard(k) == \/ objects' = objects \ {k} /\ UNCHANGED faults
              \/ Fault /\ UNCHANGED objects

\* Mutant: the object the row names by now is deleted.
CleanupLatest(r) ==
  /\ At(r, "cleanup")
  /\ Discard(IF req[r].old = None THEN None ELSE image[req[r].prod])
  /\ Finish(r)
  /\ UNCHANGED <<there, image, madeFor, overlapped, unanswered>>

\* Mutant: the old image is kept.
CleanupNothing(r) ==
  /\ At(r, "cleanup")
  /\ Finish(r)
  /\ UNCHANGED <<there, image, objects, faults, madeFor, overlapped, unanswered>>

\* The key the UPDATE returned is deleted, if there was one.
Cleanup(r) ==
  /\ At(r, "cleanup")
  /\ Discard(req[r].old)
  /\ Finish(r)
  /\ UNCHANGED <<there, image, madeFor, overlapped, unanswered>>

\* An UPDATE that reports an error or no row: the new object is deleted.
Undo(r) ==
  /\ At(r, "undo")
  /\ Discard(req[r].key)
  /\ Finish(r)
  /\ UNCHANGED <<there, image, madeFor, overlapped, unanswered>>

\* The process dies, or a call fails whose error ends the request.
CutOff(r) ==
  /\ ~At(r, "idle")
  /\ Fault /\ Finish(r)
  /\ UNCHANGED <<there, image, objects, madeFor, overlapped, unanswered>>

Step(r) ==
  \/ EditWrite(r)
  \/ Put(r) \/ SetSnapshot(r) \/ SetImage(r) \/ Cleanup(r) \/ Undo(r)
  \/ CutOff(r)

Next ==
  \/ \E r \in Requests :
        Step(r) \/ \E p \in Products : EditRead(r, p) \/ UploadImage(r, p)
  \/ \E p \in Products : DeleteProduct(p)

Spec == Init /\ [][Next]_vars
-----------------------------------------------------------------------------
(* Properties *)

\* A product's image is in object storage, through overlapping uploads, edits
\* and failures; except an image whose UPDATE was committed and reported as
\* failed, which uploadImage deletes.
LiveImageStored ==
  \A p \in Products : image[p] \in objects \cup unanswered \cup {None}

\* "cleans up the old image": an object that no product names is still in the
\* hands of an upload, unless its product was deleted, something has failed, or
\* uploads for one product overlapped and read the same old key.
OrphansExplained ==
  faults = 0 =>
    \A k \in objects :
      \/ image[madeFor[k]] = k
      \/ madeFor[k] \notin there
      \/ madeFor[k] \in overlapped
      \/ \E r \in Requests : Uploading(r) /\ k \in {req[r].key, req[r].old}

(* The inductive strengthening of LiveImageStored *)

\* A row names an object made for it.
KeysSound ==
  /\ \A p \in Products : image[p] # None => madeFor[image[p]] = p
  /\ objects \subseteq {k \in Keys : madeFor[k] # None}

\* A request deletes its own key only where its UPDATE has not made it the row's
\* or has reported an error, and its old key when no row names it.
RequestSound(r) ==
  LET q == req[r] IN
  /\ q.at # "idle" => q.prod \in Products
  /\ q.key # None => q.prod # None /\ madeFor[q.key] = q.prod
  /\ q.old # None => q.prod # None /\ madeFor[q.old] = q.prod
  /\ q.at \in {"set_snapshot", "set_image", "undo"} => q.key # None
  /\ q.at \in {"set_snapshot", "set_image"} =>
       q.key \in objects /\ \A p \in Products : image[p] # q.key
  /\ q.at \in {"set_snapshot", "set_image"} => q.key # q.old
  /\ q.at = "undo" =>
       q.key \in unanswered \/ \A p \in Products : image[p] # q.key
  /\ q.at = "cleanup" /\ q.old # None => \A p \in Products : image[p] # q.old

\* A key that may still become a row's is in the hands of one request only, and
\* nobody's old key.
HandsApart ==
  \A r, s \in Requests :
    r # s /\ req[r].at \in {"set_snapshot", "set_image"} =>
      req[r].key # req[s].key /\ req[r].key # req[s].old

ImagesInv ==
  /\ TypeOK
  /\ KeysSound
  /\ \A r \in Requests : RequestSound(r)
  /\ HandsApart
  /\ LiveImageStored

(* The inductive strengthening of OrphansExplained, on top of ImagesInv *)

LoneUploads ==
  \A r, s \in Requests :
    r # s /\ Uploading(r) /\ Uploading(s) /\ req[r].prod = req[s].prod =>
      req[r].prod \in overlapped

\* An upload that is alone on a product that stays: what it is to replace is the
\* row's image, and what it has set is.
UploadSound(r) ==
  LET q == req[r]
      excused == q.prod \in overlapped \/ q.prod \notin there IN
  /\ q.at = "put" => q.key = None
  /\ q.at \in {"put", "set_snapshot"} => q.old = None
  /\ q.at = "set_image" => excused \/ q.old = image[q.prod]
  /\ q.at = "cleanup" => excused \/ q.key = image[q.prod]
  /\ q.at = "undo" => q.prod \notin there

OrphanInv ==
  /\ LoneUploads
  /\ faults = 0 => \A r \in Requests : UploadSound(r)
  /\ OrphansExplained
=============================================================================
