------------------------- MODULE ProductImagesProofs -------------------------
(* Live images stay stored and orphans are explained, for any number of    *)
(* products, keys and requests.                                            *)
EXTENDS ProductImages, TLAPS

(***************************************************************************)
(* ImagesInv is inductive: an object is deleted by a request that has      *)
(* replaced it or has failed to make it a row's, and a key that may still  *)
(* become a row's is in one request's hands.                               *)
(***************************************************************************)

LEMMA NoneApart == None \notin Products /\ None \notin Keys
BY ImagesAssumption

LEMMA ImagesInit == Init => ImagesInv
BY ImagesAssumption
   DEF Init, ImagesInv, TypeOK, Idle, Request, Point, KeysSound, RequestSound,
       HandsApart, LiveImageStored

\* A step that only takes a request to another point, with what it holds.
LEMMA Finishes ==
  ASSUME ImagesInv, NEW r \in Requests, Finish(r), faults' \in 0 .. MaxFaults,
         UNCHANGED <<there, image, objects, madeFor, overlapped, unanswered>>
  PROVE  ImagesInv'
<1>1. Idle \in Request
  BY DEF Idle, Request, Point
<1>2. TypeOK'
  BY <1>1 DEF ImagesInv, TypeOK, Finish
<1>3. (\A s \in Requests : RequestSound(s))'
  BY DEF ImagesInv, TypeOK, Finish, RequestSound, Idle
<1>4. HandsApart'
  BY NoneApart DEF ImagesInv, TypeOK, Finish, HandsApart, RequestSound, Idle
<1>. QED
  BY <1>2, <1>3, <1>4 DEF ImagesInv, KeysSound, LiveImageStored

LEMMA EditReadKeeps ==
  ASSUME ImagesInv, NEW r \in Requests, NEW p \in Products, EditRead(r, p)
  PROVE  ImagesInv'
<1>. DEFINE q == [Idle EXCEPT !.at = "edit", !.prod = p, !.old = image[p]]
<1>1. /\ req' = [req EXCEPT ![r] = q]
      /\ q \in Request /\ q.at = "edit" /\ q.prod = p /\ q.key = None /\ q.old = image[p]
  BY DEF EditRead, Idle, Request, Point, ImagesInv, TypeOK
<1>. HIDE DEF q
<1>2. req'[r] = q /\ \A s \in Requests \ {r} : req'[s] = req[s]
  BY <1>1 DEF ImagesInv, TypeOK
<1>3. TypeOK'
  BY <1>1 DEF ImagesInv, TypeOK, EditRead
<1>4. RequestSound(r)'
  BY <1>1, <1>2, NoneApart DEF ImagesInv, TypeOK, EditRead, RequestSound, KeysSound
<1>5. ASSUME NEW s \in Requests \ {r} PROVE RequestSound(s)'
  BY <1>2 DEF ImagesInv, EditRead, RequestSound
<1>6. ASSUME NEW s \in Requests \ {r}, req[s].at \in {"set_snapshot", "set_image"}
      PROVE  req[s].key # q.key /\ req[s].key # q.old
  BY <1>1, <1>6 DEF ImagesInv, RequestSound
<1>7. HandsApart'
  <2>. SUFFICES ASSUME NEW s \in Requests, NEW t \in Requests, s # t,
                       req'[s].at \in {"set_snapshot", "set_image"}
                PROVE  req'[s].key # req'[t].key /\ req'[s].key # req'[t].old
    BY DEF HandsApart
  <2>1. s # r
    BY <1>1, <1>2
  <2>. QED
    BY <1>2, <1>6, <2>1 DEF ImagesInv, HandsApart
<1>. QED
  BY <1>3, <1>4, <1>5, <1>7 DEF ImagesInv, KeysSound, LiveImageStored, EditRead

LEMMA UploadImageKeeps ==
  ASSUME ImagesInv, NEW r \in Requests, NEW p \in Products, UploadImage(r, p)
  PROVE  ImagesInv'
<1>. DEFINE q == [Idle EXCEPT !.at = "put", !.prod = p]
<1>1. /\ req' = [req EXCEPT ![r] = q]
      /\ q \in Request /\ q.at = "put" /\ q.prod = p /\ q.key = None /\ q.old = None
  BY DEF UploadImage, Idle, Request, Point, ImagesInv, TypeOK
<1>. HIDE DEF q
<1>2. req'[r] = q /\ \A s \in Requests \ {r} : req'[s] = req[s]
  BY <1>1 DEF ImagesInv, TypeOK
<1>3. TypeOK'
  BY <1>1 DEF ImagesInv, TypeOK, UploadImage
<1>4. RequestSound(r)'
  BY <1>1, <1>2, NoneApart DEF ImagesInv, TypeOK, UploadImage, RequestSound, KeysSound
<1>5. ASSUME NEW s \in Requests \ {r} PROVE RequestSound(s)'
  BY <1>2 DEF ImagesInv, UploadImage, RequestSound
<1>6. ASSUME NEW s \in Requests \ {r}, req[s].at \in {"set_snapshot", "set_image"}
      PROVE  req[s].key # q.key /\ req[s].key # q.old
  BY <1>1, <1>6 DEF ImagesInv, RequestSound
<1>7. HandsApart'
  <2>. SUFFICES ASSUME NEW s \in Requests, NEW t \in Requests, s # t,
                       req'[s].at \in {"set_snapshot", "set_image"}
                PROVE  req'[s].key # req'[t].key /\ req'[s].key # req'[t].old
    BY DEF HandsApart
  <2>1. s # r
    BY <1>1, <1>2
  <2>. QED
    BY <1>2, <1>6, <2>1 DEF ImagesInv, HandsApart
<1>. QED
  BY <1>3, <1>4, <1>5, <1>7 DEF ImagesInv, KeysSound, LiveImageStored, UploadImage

LEMMA PutKeeps ==
  ASSUME ImagesInv, NEW r \in Requests, Put(r)
  PROVE  ImagesInv'
<1>1. PICK k \in Keys :
        /\ madeFor[k] = None
        /\ objects' = objects \cup {k}
        /\ madeFor' = [madeFor EXCEPT ![k] = req[r].prod]
        /\ req' = [req EXCEPT ![r] = [@ EXCEPT !.at = "set_snapshot", !.key = k]]
  BY DEF Put
<1>. DEFINE q == [req[r] EXCEPT !.at = "set_snapshot", !.key = k]
<1>2. /\ req' = [req EXCEPT ![r] = q]
      /\ q \in Request /\ q.at = "set_snapshot" /\ q.prod = req[r].prod /\ q.key = k
      /\ q.old = req[r].old
  BY <1>1 DEF Request, Point, ImagesInv, TypeOK
<1>. HIDE DEF q
<1>3. req[r].prod \in Products /\ At(r, "put")
  BY DEF Put, At, ImagesInv, RequestSound
<1>4. TypeOK'
  BY <1>1, <1>2, <1>3 DEF ImagesInv, TypeOK, Put
<1>5. ASSUME NEW s \in Requests PROVE req[s].key # k /\ req[s].old # k
  BY <1>1, NoneApart DEF ImagesInv, RequestSound
<1>6. \A p \in Products : image[p] # k
  BY <1>1, NoneApart DEF ImagesInv, KeysSound
<1>7. KeysSound'
  BY <1>1, <1>3, <1>6, NoneApart DEF ImagesInv, KeysSound, Put, TypeOK
<1>8. RequestSound(r)'
  BY <1>1, <1>2, <1>3, <1>5, <1>6, NoneApart DEF ImagesInv, TypeOK, RequestSound, Put, Request
<1>9. ASSUME NEW s \in Requests \ {r} PROVE RequestSound(s)'
  BY <1>1, <1>2, <1>5 DEF ImagesInv, TypeOK, RequestSound, Put, Request
<1>10. HandsApart'
  BY <1>2, <1>5 DEF ImagesInv, TypeOK, HandsApart
<1>. QED
  BY <1>1, <1>4, <1>7, <1>8, <1>9, <1>10 DEF ImagesInv, LiveImageStored, Put

LEMMA SetSnapshotKeeps ==
  ASSUME ImagesInv, NEW r \in Requests, SetSnapshot(r)
  PROVE  ImagesInv'
<1>. PICK q : /\ q \in Request /\ req' = [req EXCEPT ![r] = q]
              /\ q.prod = req[r].prod /\ q.key = req[r].key
              /\ \/ q.at = "set_image" /\ q.old = image[req[r].prod]
                 \/ q.at = "undo" /\ q.old = req[r].old
  <2>1. CASE req[r].prod \in there
    BY <2>1 DEF SetSnapshot, Request, Point, ImagesInv, TypeOK
  <2>2. CASE req[r].prod \notin there
    <3>. DEFINE q == [req[r] EXCEPT !.at = "undo"]
    <3>1. q \in Request /\ req' = [req EXCEPT ![r] = q]
      BY <2>2 DEF SetSnapshot, Goto, Request, Point, ImagesInv, TypeOK
    <3>. QED
      BY <3>1 DEF ImagesInv, TypeOK, Request
  <2>. QED
    BY <2>1, <2>2
<1>1. req[r].at = "set_snapshot" /\ req[r].prod \in Products
  BY DEF SetSnapshot, At, ImagesInv, RequestSound
<1>2. TypeOK'
  BY DEF ImagesInv, TypeOK, SetSnapshot
<1>3. RequestSound(r)'
  BY <1>1, NoneApart DEF ImagesInv, TypeOK, RequestSound, SetSnapshot, KeysSound
<1>4. ASSUME NEW s \in Requests \ {r} PROVE RequestSound(s)'
  BY DEF ImagesInv, TypeOK, RequestSound, SetSnapshot
<1>5. HandsApart'
  BY <1>1, NoneApart DEF ImagesInv, TypeOK, HandsApart, RequestSound
<1>. QED
  BY <1>2, <1>3, <1>4, <1>5 DEF ImagesInv, KeysSound, LiveImageStored, SetSnapshot

\* Whatever the UPDATE does: the row names the new key or what it did before.
LEMMA SetImageKeeps ==
  ASSUME ImagesInv, NEW r \in Requests, SetImage(r)
  PROVE  ImagesInv'
<1>. DEFINE p == req[r].prod
            k == req[r].key
<1>1. /\ req[r].at = "set_image" /\ p \in Products /\ k \in Keys
      /\ k \in objects /\ \A o \in Products : image[o] # k
      /\ madeFor[k] = p /\ k # req[r].old
  BY DEF SetImage, At, ImagesInv, RequestSound, TypeOK, Request
<1>2. PICK point \in {"cleanup", "undo"} :
        /\ Goto(r, point)
        /\ point = "cleanup" => image' = [image EXCEPT ![p] = k]
        /\ point = "undo" /\ image' # image => k \in unanswered'
  BY DEF SetImage
<1>. DEFINE q == [req[r] EXCEPT !.at = point]
<1>3. /\ req' = [req EXCEPT ![r] = q]
      /\ q \in Request /\ q.at = point /\ q.prod = p /\ q.key = k /\ q.old = req[r].old
  BY <1>2 DEF Goto, Request, Point, ImagesInv, TypeOK
<1>4. image' = image \/ image' = [image EXCEPT ![p] = k]
  BY DEF SetImage
<1>5. /\ there' = there /\ objects' = objects /\ madeFor' = madeFor
      /\ overlapped' = overlapped
      /\ unanswered \subseteq unanswered' /\ unanswered' \subseteq Keys
      /\ faults' \in 0 .. MaxFaults
  BY <1>1, ImagesAssumption DEF SetImage, Fault, ImagesInv, TypeOK
<1>. HIDE DEF q, p, k
<1>6. TypeOK'
  BY <1>1, <1>3, <1>4, <1>5 DEF ImagesInv, TypeOK
<1>7. KeysSound'
  BY <1>1, <1>4, <1>5 DEF ImagesInv, KeysSound, TypeOK
<1>8. RequestSound(r)'
  BY <1>1, <1>2, <1>3, <1>4, <1>5, NoneApart DEF ImagesInv, RequestSound, TypeOK, KeysSound, k, p
<1>9. ASSUME NEW s \in Requests \ {r} PROVE RequestSound(s)'
  <2>1. k # req[s].key /\ k # req[s].old
    BY <1>1 DEF ImagesInv, HandsApart, k
  <2>. QED
    BY <2>1, <1>1, <1>3, <1>4, <1>5 DEF ImagesInv, RequestSound, TypeOK
<1>10. HandsApart'
  BY <1>3 DEF ImagesInv, HandsApart, TypeOK, k
<1>11. LiveImageStored'
  BY <1>1, <1>4, <1>5 DEF ImagesInv, LiveImageStored, TypeOK
<1>. QED
  BY <1>6, <1>7, <1>8, <1>9, <1>10, <1>11 DEF ImagesInv

\* Cleanup and Undo: an object that no row names, and that is in no hands from
\* which it could become a row's, may be discarded.
LEMMA Discards ==
  ASSUME ImagesInv, NEW r \in Requests, NEW k, Discard(k), Finish(r),
         UNCHANGED <<there, image, madeFor, overlapped, unanswered>>,
         \A p \in Products : image[p] = k => k \in unanswered \cup {None},
         \A s \in Requests \ {r} :
           req[s].at \in {"set_snapshot", "set_image"} => req[s].key # k
  PROVE  ImagesInv'
<1>1. objects' \in {objects, objects \ {k}} /\ faults' \in 0 .. MaxFaults
  BY ImagesAssumption DEF Discard, Fault, ImagesInv, TypeOK
<1>2. Idle \in Request
  BY DEF Idle, Request, Point
<1>3. TypeOK'
  BY <1>1, <1>2 DEF ImagesInv, TypeOK, Finish
<1>4. KeysSound'
  BY <1>1 DEF ImagesInv, KeysSound
<1>5. \A s \in Requests : RequestSound(s)'
  BY <1>1 DEF ImagesInv, TypeOK, Finish, RequestSound, Idle
<1>6. HandsApart'
  BY NoneApart DEF ImagesInv, TypeOK, Finish, HandsApart, RequestSound, Idle
<1>7. LiveImageStored'
  BY <1>1 DEF ImagesInv, LiveImageStored
<1>. QED
  BY <1>3, <1>4, <1>5, <1>6, <1>7 DEF ImagesInv

LEMMA CleanupKeeps ==
  ASSUME ImagesInv, NEW r \in Requests, Cleanup(r)
  PROVE  ImagesInv'
<1>1. \A s \in Requests \ {r} :
        req[s].at \in {"set_snapshot", "set_image"} => req[s].key # req[r].old
  BY DEF ImagesInv, HandsApart
<1>2. \A p \in Products : image[p] = req[r].old => req[r].old \in unanswered \cup {None}
  BY DEF ImagesInv, RequestSound, Cleanup, At
<1>. QED
  BY <1>1, <1>2, Discards DEF Cleanup

LEMMA UndoKeeps ==
  ASSUME ImagesInv, NEW r \in Requests, Undo(r)
  PROVE  ImagesInv'
<1>1. \A s \in Requests \ {r} :
        req[s].at \in {"set_snapshot", "set_image"} => req[s].key # req[r].key
  BY DEF ImagesInv, HandsApart
<1>2. \A p \in Products : image[p] = req[r].key => req[r].key \in unanswered \cup {None}
  BY DEF ImagesInv, RequestSound, Undo, At
<1>. QED
  BY <1>1, <1>2, Discards DEF Undo

LEMMA DeleteProductKeeps ==
  ASSUME ImagesInv, NEW p \in Products, DeleteProduct(p)
  PROVE  ImagesInv'
<1>1. TypeOK'
  BY DEF ImagesInv, TypeOK, DeleteProduct
<1>2. \A o \in Products : image'[o] \in {image[o], None}
  BY DEF ImagesInv, TypeOK, DeleteProduct
<1>3. KeysSound'
  BY <1>2 DEF ImagesInv, KeysSound, DeleteProduct
<1>4. (\A r \in Requests : RequestSound(r))'
  BY <1>2 DEF ImagesInv, RequestSound, DeleteProduct
<1>5. HandsApart'
  BY DEF ImagesInv, HandsApart, DeleteProduct
<1>6. LiveImageStored'
  BY <1>2 DEF ImagesInv, LiveImageStored, DeleteProduct
<1>. QED
  BY <1>1, <1>3, <1>4, <1>5, <1>6 DEF ImagesInv

LEMMA ImagesStep == ImagesInv /\ [Next]_vars => ImagesInv'
<1>. SUFFICES ASSUME ImagesInv, [Next]_vars PROVE ImagesInv'
  OBVIOUS
<1>1. ASSUME NEW r \in Requests, Step(r) PROVE ImagesInv'
  <2>1. CASE EditWrite(r)
    BY <2>1, Finishes DEF EditWrite, ImagesInv, TypeOK
  <2>2. CASE CutOff(r)
    <3>1. faults' \in 0 .. MaxFaults
      BY <2>2, ImagesAssumption DEF CutOff, Fault, ImagesInv, TypeOK
    <3>. QED
      BY <2>2, <3>1, Finishes DEF CutOff
  <2>. QED
    BY <1>1, <2>1, <2>2, PutKeeps, SetSnapshotKeeps, SetImageKeeps, CleanupKeeps, UndoKeeps DEF Step
<1>2. CASE UNCHANGED vars
  BY <1>2 DEF vars, ImagesInv, TypeOK, KeysSound, RequestSound, HandsApart, LiveImageStored
<1>. QED
  BY <1>1, <1>2, EditReadKeeps, UploadImageKeeps, DeleteProductKeeps DEF Next

\* An upload, an edit and a deletion leave every request and row sound, whatever
\* fails (uploadImage, repo.SetProductImage).
THEOREM ImagesSafe == Spec => []ImagesInv
BY ImagesInit, ImagesStep, PTL DEF Spec

\* A product's image is in object storage, except one whose UPDATE was committed
\* and reported as failed (uploadImage).
THEOREM LiveImagesStored == Spec => []LiveImageStored
<1>1. ImagesInv => LiveImageStored
  BY DEF ImagesInv
<1>. QED
  BY <1>1, ImagesSafe, PTL

(***************************************************************************)
(* OrphanInv: an upload that is alone on its product reads the image it is *)
(* to replace, and nothing else changes it before the UPDATE.              *)
(***************************************************************************)

LEMMA OrphanInit == Init => OrphanInv
BY DEF Init, OrphanInv, LoneUploads, UploadSound, OrphansExplained, Uploading, At, Idle

\* A step that ends a request and changes no row, and takes away what the request
\* alone accounts for.
LEMMA EndsUpload ==
  ASSUME ImagesInv, OrphanInv, NEW r \in Requests, Finish(r),
         UNCHANGED <<there, image, madeFor, overlapped>>,
         objects' \subseteq objects, faults' \in {faults, faults + 1},
         faults' = 0 /\ Uploading(r) =>
           \A k \in objects' : k \in {req[r].key, req[r].old} =>
             \/ image[madeFor[k]] = k
             \/ madeFor[k] \notin there
             \/ madeFor[k] \in overlapped
  PROVE  OrphanInv'
<1>1. /\ req'[r] = Idle
      /\ \A s \in Requests \ {r} : req'[s] = req[s]
  BY DEF ImagesInv, TypeOK, Finish
<1>2. faults' = 0 => faults = 0
  BY ImagesAssumption DEF ImagesInv, TypeOK
<1>3. LoneUploads'
  BY <1>1 DEF OrphanInv, LoneUploads, Uploading, At, Idle
<1>4. faults' = 0 => \A s \in Requests : UploadSound(s)'
  BY <1>1, <1>2 DEF OrphanInv, UploadSound, Idle
<1>5. OrphansExplained'
  BY <1>1, <1>2 DEF OrphanInv, OrphansExplained, Uploading, At
<1>. QED
  BY <1>3, <1>4, <1>5 DEF OrphanInv

LEMMA BeginOrphan ==
  ASSUME ImagesInv, OrphanInv, NEW r \in Requests, NEW p \in Products,
         EditRead(r, p) \/ UploadImage(r, p)
  PROVE  OrphanInv'
<1>1. /\ ~Uploading(r)
      /\ req'[r].at \in {"edit", "put"} /\ req'[r].prod = p /\ req'[r].key = None
      /\ req'[r].at = "put" => req'[r].old = None /\ UploadImage(r, p)
      /\ \A s \in Requests \ {r} : req'[s] = req[s]
      /\ overlapped \subseteq overlapped'
      /\ UNCHANGED <<there, image, objects, faults, madeFor>>
  BY DEF EditRead, UploadImage, Idle, ImagesInv, TypeOK, Uploading, At
<1>2. ASSUME NEW s \in Requests \ {r}, UploadImage(r, p), Uploading(s), req[s].prod = p
      PROVE  p \in overlapped'
  BY <1>2 DEF UploadImage
<1>3. LoneUploads'
  BY <1>1, <1>2 DEF OrphanInv, LoneUploads, Uploading, At
<1>4. faults' = 0 => \A s \in Requests : UploadSound(s)'
  BY <1>1 DEF OrphanInv, UploadSound
<1>5. OrphansExplained'
  BY <1>1 DEF OrphanInv, OrphansExplained, Uploading, At
<1>. QED
  BY <1>3, <1>4, <1>5 DEF OrphanInv

LEMMA PutOrphan ==
  ASSUME ImagesInv, OrphanInv, NEW r \in Requests, Put(r)
  PROVE  OrphanInv'
<1>1. PICK k \in Keys :
        /\ madeFor[k] = None
        /\ objects' = objects \cup {k}
        /\ madeFor' = [madeFor EXCEPT ![k] = req[r].prod]
        /\ req' = [req EXCEPT ![r] = [@ EXCEPT !.at = "set_snapshot", !.key = k]]
        /\ UNCHANGED <<there, image, faults, overlapped, unanswered>>
  BY DEF Put
<1>2. /\ At(r, "put") /\ Uploading(r)
      /\ req'[r].at = "set_snapshot" /\ req'[r].prod = req[r].prod
      /\ req'[r].key = k /\ req'[r].old = req[r].old
      /\ \A s \in Requests \ {r} : req'[s] = req[s]
  <2>1. At(r, "put") /\ Uploading(r)
    BY DEF Put, Uploading, At
  <2>2. req[r] \in Request /\ req \in [Requests -> Request]
    BY DEF ImagesInv, TypeOK
  <2>. QED
    BY <1>1, <2>1, <2>2 DEF Request
<1>3. LoneUploads'
  BY <1>1, <1>2 DEF OrphanInv, LoneUploads, Uploading, At
<1>4. faults' = 0 => \A s \in Requests : UploadSound(s)'
  BY <1>1, <1>2 DEF OrphanInv, UploadSound, At
<1>5. ASSUME faults' = 0, NEW o \in objects', o # k
      PROVE  \/ image[madeFor[o]] = o
             \/ madeFor[o] \notin there
             \/ madeFor[o] \in overlapped
             \/ \E s \in Requests : Uploading(s)' /\ o \in {req'[s].key, req'[s].old}
  <2>1. o \in Keys /\ faults = 0 /\ o \in objects
    BY <1>1, <1>5 DEF ImagesInv, TypeOK
  <2>2. faults = 0 => req[r].key = None
    BY <1>2 DEF OrphanInv, UploadSound, At
  <2>3. ASSUME NEW s \in Requests, Uploading(s), o \in {req[s].key, req[s].old}
        PROVE  Uploading(s)' /\ o \in {req'[s].key, req'[s].old}
    BY <1>2, <2>1, <2>2, <2>3, NoneApart DEF Uploading, At
  <2>. QED
    BY <2>1, <2>3 DEF OrphanInv, OrphansExplained
<1>6. \A o \in objects : o # k => madeFor'[o] = madeFor[o]
  BY <1>1 DEF ImagesInv, TypeOK
<1>7. Uploading(r)' /\ k \in {req'[r].key, req'[r].old}
  BY <1>2 DEF Uploading, At
<1>8. OrphansExplained'
  BY <1>1, <1>5, <1>6, <1>7 DEF OrphansExplained
<1>. QED
  BY <1>3, <1>4, <1>8 DEF OrphanInv

LEMMA SetSnapshotOrphan ==
  ASSUME ImagesInv, OrphanInv, NEW r \in Requests, SetSnapshot(r)
  PROVE  OrphanInv'
<1>1. /\ At(r, "set_snapshot") /\ Uploading(r)
      /\ req'[r].prod = req[r].prod /\ req'[r].key = req[r].key
      /\ \/ /\ req[r].prod \in there
            /\ req'[r].at = "set_image" /\ req'[r].old = image[req[r].prod]
         \/ /\ req[r].prod \notin there
            /\ req'[r].at = "undo" /\ req'[r].old = req[r].old
      /\ \A s \in Requests \ {r} : req'[s] = req[s]
      /\ UNCHANGED <<there, image, objects, faults, madeFor, overlapped>>
  BY DEF SetSnapshot, Goto, Uploading, At, ImagesInv, TypeOK, Request
<1>2. LoneUploads'
  BY <1>1 DEF OrphanInv, LoneUploads, Uploading, At
<1>3. faults' = 0 => \A s \in Requests : UploadSound(s)'
  BY <1>1 DEF OrphanInv, UploadSound, At
<1>4. faults = 0 => req[r].old = None
  BY <1>1 DEF OrphanInv, UploadSound, At
<1>5. ASSUME NEW s \in Requests, Uploading(s), NEW o \in objects,
             o \in {req[s].key, req[s].old}, faults = 0
      PROVE  Uploading(s)' /\ o \in {req'[s].key, req'[s].old}
  BY <1>1, <1>4, <1>5, NoneApart DEF Uploading, At, ImagesInv, TypeOK
<1>6. OrphansExplained'
  BY <1>1, <1>5 DEF OrphanInv, OrphansExplained
<1>. QED
  BY <1>2, <1>3, <1>6 DEF OrphanInv

LEMMA SetImageOrphan ==
  ASSUME ImagesInv, OrphanInv, NEW r \in Requests, SetImage(r)
  PROVE  OrphanInv'
<1>. DEFINE p == req[r].prod
            k == req[r].key
<1>1. /\ At(r, "set_image") /\ Uploading(r)
      /\ p \in Products /\ k \in Keys /\ madeFor[k] = p
      /\ req'[r].at \in {"cleanup", "undo"}
      /\ req'[r].prod = p /\ req'[r].key = k /\ req'[r].old = req[r].old
      /\ \A s \in Requests \ {r} : req'[s] = req[s]
      /\ UNCHANGED <<there, objects, madeFor, overlapped>>
      /\ faults' \in {faults, faults + 1}
  BY DEF SetImage, Goto, Fault, Uploading, At, ImagesInv, TypeOK, Request, RequestSound
<1>2. faults' = 0 =>
        /\ faults = 0
        /\ \/ p \in there /\ image' = [image EXCEPT ![p] = k] /\ req'[r].at = "cleanup"
           \/ p \notin there /\ image' = image /\ req'[r].at = "undo"
  BY ImagesAssumption DEF SetImage, Goto, Fault, ImagesInv, TypeOK, Request
<1>. HIDE DEF p, k
<1>3. LoneUploads'
  BY <1>1 DEF OrphanInv, LoneUploads, Uploading, At, p
<1>4. \A s \in Requests \ {r} : Uploading(s) /\ req[s].prod = p => p \in overlapped
  BY <1>1 DEF OrphanInv, LoneUploads, p
<1>5. faults' = 0 => \A o \in Products : o # p => image'[o] = image[o]
  BY <1>2 DEF ImagesInv, TypeOK
<1>6. ASSUME faults' = 0 PROVE UploadSound(r)'
  BY <1>1, <1>2, <1>6 DEF UploadSound, ImagesInv, TypeOK
<1>7. ASSUME faults' = 0, NEW s \in Requests \ {r} PROVE UploadSound(s)'
  <2>1. req[s].at # "idle" => req[s].prod \in Products
    BY DEF ImagesInv, RequestSound
  <2>. QED
    BY <1>1, <1>2, <1>4, <1>5, <1>7, <2>1 DEF OrphanInv, UploadSound, Uploading, At
<1>8. ASSUME faults' = 0, NEW o \in objects
      PROVE  \/ image'[madeFor[o]] = o
             \/ madeFor[o] \notin there
             \/ madeFor[o] \in overlapped
             \/ \E s \in Requests : Uploading(s)' /\ o \in {req'[s].key, req'[s].old}
  <2>1. \A s \in Requests : Uploading(s) =>
          /\ Uploading(s)'
          /\ req'[s].key = req[s].key /\ req'[s].old = req[s].old
    BY <1>1 DEF Uploading, At, k
  <2>2. CASE image[madeFor[o]] = o /\ image'[madeFor[o]] # o
    <3>1. madeFor[o] = p /\ image[p] = o
      BY <1>2, <1>5, <1>8, <2>2 DEF ImagesInv, TypeOK, KeysSound
    <3>2. p \in overlapped \/ p \notin there \/ req[r].old = o
      BY <1>1, <1>2, <1>8, <3>1 DEF OrphanInv, UploadSound, At, p
    <3>. QED
      BY <1>1, <2>1, <3>1, <3>2
  <2>3. CASE ~(image[madeFor[o]] = o)
    BY <1>2, <1>8, <2>1, <2>3 DEF OrphanInv, OrphansExplained
  <2>. QED
    BY <2>2, <2>3
<1>9. OrphansExplained'
  BY <1>1, <1>8 DEF OrphansExplained
<1>. QED
  BY <1>3, <1>6, <1>7, <1>9 DEF OrphanInv

LEMMA CleanupOrphan ==
  ASSUME ImagesInv, OrphanInv, NEW r \in Requests, Cleanup(r)
  PROVE  OrphanInv'
<1>1. /\ At(r, "cleanup") /\ Finish(r)
      /\ UNCHANGED <<there, image, madeFor, overlapped>>
      /\ objects' \subseteq objects /\ faults' \in {faults, faults + 1}
  BY DEF Cleanup, Discard, Fault
<1>2. faults' = 0 => faults = 0 /\ objects' = objects \ {req[r].old}
  BY ImagesAssumption DEF Cleanup, Discard, Fault, ImagesInv, TypeOK
<1>3. req[r].key # None => madeFor[req[r].key] = req[r].prod
  BY DEF ImagesInv, RequestSound
<1>4. ASSUME faults' = 0, NEW k \in objects', k \in {req[r].key, req[r].old}
      PROVE  image[madeFor[k]] = k \/ madeFor[k] \notin there \/ madeFor[k] \in overlapped
  <2>1. k = req[r].key /\ k # None
    BY <1>1, <1>2, <1>4, NoneApart DEF ImagesInv, TypeOK
  <2>. QED
    BY <1>1, <1>2, <1>3, <1>4, <2>1 DEF OrphanInv, UploadSound, At
<1>. QED
  BY <1>1, <1>4, EndsUpload

LEMMA UndoOrphan ==
  ASSUME ImagesInv, OrphanInv, NEW r \in Requests, Undo(r)
  PROVE  OrphanInv'
<1>1. /\ At(r, "undo") /\ Finish(r)
      /\ UNCHANGED <<there, image, madeFor, overlapped>>
      /\ objects' \subseteq objects /\ faults' \in {faults, faults + 1}
  BY DEF Undo, Discard, Fault
<1>2. faults' = 0 => faults = 0
  BY ImagesAssumption DEF ImagesInv, TypeOK, Undo, Discard, Fault
<1>3. ASSUME faults' = 0, NEW k \in objects', k \in {req[r].key, req[r].old}
      PROVE  madeFor[k] \notin there
  <2>1. madeFor[k] = req[r].prod
    BY <1>1, <1>3, NoneApart DEF ImagesInv, TypeOK, RequestSound
  <2>. QED
    BY <1>1, <1>2, <1>3, <2>1 DEF OrphanInv, UploadSound, At
<1>. QED
  BY <1>1, <1>3, EndsUpload

LEMMA DeleteProductOrphan ==
  ASSUME ImagesInv, OrphanInv, NEW p \in Products, DeleteProduct(p)
  PROVE  OrphanInv'
<1>1. /\ there' = there \ {p}
      /\ \A o : o # p => image'[o] = image[o]
      /\ UNCHANGED <<objects, req, faults, madeFor, overlapped>>
  BY DEF DeleteProduct, ImagesInv, TypeOK
<1>2. LoneUploads'
  BY <1>1 DEF OrphanInv, LoneUploads, Uploading, At
<1>3. faults' = 0 => \A s \in Requests : UploadSound(s)'
  BY <1>1 DEF OrphanInv, UploadSound
<1>4. OrphansExplained'
  BY <1>1 DEF OrphanInv, OrphansExplained, Uploading, At
<1>. QED
  BY <1>2, <1>3, <1>4 DEF OrphanInv

LEMMA OrphanStep == ImagesInv /\ OrphanInv /\ [Next]_vars => OrphanInv'
<1>. SUFFICES ASSUME ImagesInv, OrphanInv, [Next]_vars PROVE OrphanInv'
  OBVIOUS
<1>1. ASSUME NEW r \in Requests, Step(r) PROVE OrphanInv'
  <2>1. CASE EditWrite(r)
    BY <2>1, EndsUpload DEF EditWrite, Uploading
  <2>2. CASE CutOff(r)
    <3>1. faults' = faults + 1 /\ faults' # 0
      BY <2>2, ImagesAssumption DEF CutOff, Fault, ImagesInv, TypeOK
    <3>. QED
      BY <2>2, <3>1, EndsUpload DEF CutOff
  <2>. QED
    BY <1>1, <2>1, <2>2, PutOrphan, SetSnapshotOrphan, SetImageOrphan, CleanupOrphan,
       UndoOrphan DEF Step
<1>2. CASE UNCHANGED vars
  BY <1>2 DEF vars, OrphanInv, LoneUploads, UploadSound, OrphansExplained, Uploading, At
<1>. QED
  BY <1>1, <1>2, BeginOrphan, DeleteProductOrphan DEF Next

\* As long as nothing has failed, an object that no product names is an upload's
\* to delete, was the image of a deleted product, or of one whose uploads
\* overlapped (uploadImage, repo.SetProductImage).
THEOREM OrphansAccounted == Spec => []OrphansExplained
<1>1. OrphanInv => OrphansExplained
  BY DEF OrphanInv
<1>. QED
  BY <1>1, OrphanInit, OrphanStep, ImagesSafe, PTL DEF Spec
=============================================================================
