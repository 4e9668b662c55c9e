------------------------------ MODULE RagIndex ------------------------------
(***************************************************************************)
(* The RAG plane: rows of the API's database become documents, documents   *)
(* become chunks in a vector index, and questions are answered from it.    *)
(* The index is filled by runs of an Airflow DAG, scheduled or triggered   *)
(* by the API's events, and by POST /ingest; nothing coordinates these.    *)
(***************************************************************************)
EXTENDS Naturals, FiniteSets, Sequences

CONSTANTS
  Docs, Tenants,
  TenantOf, TypeOf,    \* of each document
  Types,               \* what extract_for_tenant SELECTs, in its order: product,
                       \* category, order, customer
  Texts, Words,        \* texts, and how many words each has
  MaxWords, Overlap,   \* chunk_text: 180 and 30
  MaxEdits,            \* bound: changes of rows
  MaxManual,           \* bound: POST /ingest
  MaxFaults,           \* bound: events lost, calls that fail
  None

ASSUME IndexAssumption ==
  /\ Types \in Seq(STRING) /\ Types # <<>>
  /\ \A i, j \in DOMAIN Types : Types[i] = Types[j] => i = j
  /\ TenantOf \in [Docs -> Tenants]
  /\ TypeOf \in [Docs -> {Types[i] : i \in DOMAIN Types}]
  /\ Words \in [Texts -> Nat \ {0}]
  /\ \E t \in Texts : \A u \in Texts : Words[u] <= Words[t]
  /\ MaxWords \in Nat \ {0} /\ Overlap \in 0 .. MaxWords - 1
  /\ MaxEdits \in Nat /\ MaxManual \in Nat /\ MaxFaults \in Nat
  /\ None \notin Texts \cup Tenants

VARIABLES
  row,      \* what each row says, None where there is none
  stamp,    \* its updated_at: the number of the change
  edits,    \* the clock: changes made
  events,   \* tenants with an event on its way to Airflow
  queued,   \* DAG runs that wait: for a tenant each, or None for all
  index,    \* payloads, by point
  run,      \* the DAG's active run, and the one of POST /ingest
  manual, faults,
  (* history *)
  overlapped   \* tenants that both were ingesting at a time

table == <<row, stamp, edits>>
vars == <<table, events, queued, index, run, manual, faults, overlapped>>

Longest == CHOOSE n \in {Words[t] : t \in Texts} : \A t \in Texts : Words[t] <= n

\* Mutant: windows leave the overlap out instead of repeating it.
StepOver == MaxWords + Overlap

Step == MaxWords - Overlap

\* chunk_text: the first and last word of each window of a text of n words.
Windows(n) ==
  IF n <= MaxWords THEN <<[from |-> 1, to |-> n]>>
  ELSE [i \in 1 .. (n + Step - 1) \div Step |->
          [from |-> (i - 1) * Step + 1,
           to   |-> IF (i - 1) * Step + MaxWords > n THEN n
                    ELSE (i - 1) * Step + MaxWords]]

\* deterministic_point_id: the document and the number of the chunk.
Points == Docs \X (1 .. Len(Windows(Longest)))

Document == [doc : Docs, text : Texts, stamp : Nat]
Payload == [text : Texts, stamp : Nat]     \* ... of the window of that number

ASSUME NoneAssumption == None \notin Payload

Slots == {"dag", "post"}
Run == [at    : {"idle", "tenant", "extract", "upsert"},
        conf  : Tenants \cup {None},       \* what the run was asked for
        left  : SUBSET Tenants,            \* tenants to come
        ten   : Tenants \cup {None},
        since : 0 .. MaxEdits,             \* changed_since, 0 for none
        type  : DOMAIN Types,              \* the SELECT to come
        docs  : SUBSET Document]
Idle == [at |-> "idle", conf |-> None, left |-> {}, ten |-> None, since |-> 0,
         type |-> 1, docs |-> {}]

TypeOK ==
  /\ row \in [Docs -> Texts \cup {None}]
  /\ edits \in 0 .. MaxEdits
  /\ stamp \in [Docs -> 0 .. MaxEdits]
  /\ events \subseteq Tenants
  /\ queued \subseteq Tenants \cup {None}
  /\ index \in [Points -> Payload \cup {None}]
  /\ run \in [Slots -> Run]
  /\ manual \in 0 .. MaxManual /\ faults \in 0 .. MaxFaults
  /\ overlapped \subseteq Tenants

Init ==
  /\ row = [d \in Docs |-> None]
  /\ stamp = [d \in Docs |-> 0] /\ edits = 0
  /\ events = {} /\ queued = {}
  /\ index = [pt \in Points |-> None]
  /\ run = [s \in Slots |-> Idle]
  /\ manual = 0 /\ faults = 0
  /\ overlapped = {}

-----------------------------------------------------------------------------
(* The API's database, and its events *)

Fault == faults < MaxFaults /\ faults' = faults + 1

Write(d, text) ==
  /\ edits < MaxEdits /\ edits' = edits + 1
  /\ row' = [row EXCEPT ![d] = text]
  /\ stamp' = [stamp EXCEPT ![d] = edits + 1]
  /\ UNCHANGED <<queued, index, run, manual, faults, overlapped>>

\* CreateProduct and CreateOrder emit an event; no other write does.
Create(d, text) ==
  /\ stamp[d] = 0 /\ Write(d, text)
  /\ events' = events \cup IF TypeOf[d] \in {"product", "order"} THEN {TenantOf[d]} ELSE {}

Change(d, text) ==
  /\ row[d] \notin {None, text} /\ Write(d, text)
  /\ UNCHANGED events

Delete(d) ==
  /\ row[d] # None /\ Write(d, None)
  /\ UNCHANGED events

\* Emit's goroutine: one POST, no retry.  Airflow queues a run for the tenant.
Emit(t) ==
  /\ t \in events /\ events' = events \ {t}
  /\ \/ queued' = queued \cup {t} /\ UNCHANGED faults
     \/ Fault /\ UNCHANGED queued
  /\ UNCHANGED <<table, index, run, manual, overlapped>>

-----------------------------------------------------------------------------
(* Ingestion *)

At(s, point) == run[s].at = point

\* @hourly.
Schedule ==
  /\ queued' = queued \cup {None}
  /\ UNCHANGED <<table, events, index, run, manual, faults, overlapped>>

\* Mutant: a run without a tenant in its conf ingests none.
StartDagConf(t) ==
  /\ At("dag", "idle")
  /\ t \in queued /\ queued' = queued \ {t}
  /\ run' = [run EXCEPT !["dag"] = [Idle EXCEPT !.at = "tenant", !.conf = t,
                                                !.left = {t} \ {None}]]
  /\ UNCHANGED <<table, events, index, manual, faults, overlapped>>

\* _run_ingest, one at a time: the tenant of the event, or list_tenant_ids,
\* which lists none where the connection fails.
StartDag(t) ==
  /\ At("dag", "idle")
  /\ t \in queued /\ queued' = queued \ {t}
  /\ \/ /\ run' = [run EXCEPT !["dag"] = [Idle EXCEPT !.at = "tenant", !.conf = t,
                                          !.left = IF t = None THEN Tenants ELSE {t}]]
        /\ UNCHANGED faults
     \/ t = None /\ Fault /\ UNCHANGED run
  /\ UNCHANGED <<table, events, index, manual, overlapped>>

\* POST /ingest: a tenant, and perhaps a time since which rows have changed.
PostIngest(t, since) ==
  /\ At("post", "idle")
  /\ manual < MaxManual /\ manual' = manual + 1
  /\ run' = [run EXCEPT !["post"] = [Idle EXCEPT !.at = "tenant", !.conf = t,
                                                 !.left = {t}, !.since = since]]
  /\ UNCHANGED <<table, events, queued, index, faults, overlapped>>

\* ingest_tenant for the next tenant.  Where extract_for_tenant cannot connect
\* there are no documents, and no error.
NextTenant(s) ==
  /\ At(s, "tenant")
  /\ \/ /\ run[s].left = {}
        /\ run' = [run EXCEPT ![s] = Idle] /\ UNCHANGED <<faults, overlapped>>
     \/ \E t \in run[s].left :
          \/ /\ run' = [run EXCEPT ![s] = [run[s] EXCEPT !.at = "extract", !.ten = t,
                                                         !.left = @ \ {t}]]
             /\ overlapped' = overlapped \cup
                  {u \in {t} : \E r \in Slots \ {s} : run[r].ten = t}
             /\ UNCHANGED faults
          \/ Fault /\ run' = [run EXCEPT ![s].left = @ \ {t}] /\ UNCHANGED overlapped
  /\ UNCHANGED <<table, events, queued, index, manual>>

\* What one SELECT of extract_for_tenant returns.
Selected(s) ==
  {d \in Docs : /\ TenantOf[d] = run[s].ten /\ TypeOf[d] = Types[run[s].type]
                /\ row[d] # None
                /\ run[s].since = 0 \/ stamp[d] > run[s].since}

\* Mutant: the next tenant's SELECTs do not start over.
ExtractOn(s) ==
  /\ At(s, "extract")
  /\ run' = [run EXCEPT ![s] = [run[s] EXCEPT
       !.docs = @ \cup {[doc |-> d, text |-> row[d], stamp |-> stamp[d]] : d \in Selected(s)},
       !.type = @ + 1,
       !.at   = IF run[s].type = Len(Types) THEN "upsert" ELSE @]]
  /\ UNCHANGED <<table, events, queued, index, manual, faults, overlapped>>

\* The SELECTs are one after the other, and each sees the rows as of its start.
Extract(s) ==
  /\ At(s, "extract")
  /\ LET last == run[s].type = Len(Types) IN
     run' = [run EXCEPT ![s] = [run[s] EXCEPT
       !.docs = @ \cup {[doc |-> d, text |-> row[d], stamp |-> stamp[d]] : d \in Selected(s)},
       !.type = IF last THEN 1 ELSE @ + 1,
       !.at   = IF last THEN "upsert" ELSE @]]
  /\ UNCHANGED <<table, events, queued, index, manual, faults, overlapped>>

\* documents_to_points and upsert: each point over the one of the same id.
Stored(docs) ==
  [pt \in Points |->
     LET over == {e \in docs : e.doc = pt[1] /\ pt[2] \in DOMAIN Windows(Words[e.text])}
     IN IF over = {} THEN index[pt]
        ELSE LET e == CHOOSE e \in over : TRUE IN [text |-> e.text, stamp |-> e.stamp]]

\* Mutant: the documents of a tenant are stored again with the next one's.
UpsertAgain(s) ==
  /\ At(s, "upsert")
  /\ index' = Stored(run[s].docs)
  /\ run' = [run EXCEPT ![s] = [run[s] EXCEPT !.at = "tenant", !.ten = None]]
  /\ UNCHANGED <<table, events, queued, manual, faults, overlapped>>

\* A failure ends a POST; Airflow tries its task again, from the first tenant.
Upsert(s) ==
  /\ At(s, "upsert")
  /\ \/ /\ index' = Stored(run[s].docs)
        /\ run' = [run EXCEPT ![s] = [run[s] EXCEPT !.at = "tenant", !.ten = None, !.docs = {}]]
        /\ UNCHANGED <<queued, faults>>
     \/ /\ Fault /\ run' = [run EXCEPT ![s] = Idle]
        /\ queued' = IF s = "dag" THEN queued \cup {run[s].conf} ELSE queued
        /\ UNCHANGED index
  /\ UNCHANGED <<table, events, manual, overlapped>>

Ingest(s) == NextTenant(s) \/ Extract(s) \/ Upsert(s)
Dag == Ingest("dag") \/ \E t \in Tenants \cup {None} : StartDag(t)

Next ==
  \/ \E d \in Docs : Delete(d) \/ \E text \in Texts : Create(d, text) \/ Change(d, text)
  \/ \E t \in Tenants : Emit(t) \/ \E since \in 0 .. edits : PostIngest(t, since)
  \/ Schedule \/ Dag \/ Ingest("post")

\* Airflow schedules a run every hour and goes on with the one it has.
Spec == Init /\ [][Next]_vars /\ WF_vars(Schedule) /\ WF_vars(Dag)
-----------------------------------------------------------------------------
(* Questions *)

Scopes == {"admin", "storefront"}

\* What retrieve may return to a tenant's assistant; the scores are left open.
Search(t, scope) ==
  {pt \in Points : /\ index[pt] # None /\ TenantOf[pt[1]] = t
                   /\ scope = "storefront" => TypeOf[pt[1]] \in {"product", "category"}}

\* Words of a document's present text that a question may find.
Findable(d, scope) ==
  UNION {LET w == Windows(Words[row[d]])[pt[2]] IN w.from .. w.to :
           pt \in {p \in Search(TenantOf[d], scope) :
                    p[1] = d /\ index[p].text = row[d] /\ index[p].stamp = stamp[d]}}

Answerable(d) ==
  /\ 1 .. Words[row[d]] \subseteq Findable(d, "admin")
  /\ TypeOf[d] \in {"product", "category"} => Findable(d, "storefront") = Findable(d, "admin")

-----------------------------------------------------------------------------
(* Properties *)

\* A text is in the index as a whole or not at all: no word of it falls between
\* chunks, and no run leaves some of its chunks out; except where the DAG and a
\* POST ingested its tenant at a time, when an older and shorter text may
\* replace its first chunks.
WholeTexts ==
  \A d \in Docs :
    row[d] # None /\ TenantOf[d] \notin overlapped /\ Findable(d, "admin") # {}
      => Answerable(d)

\* The index never goes back to an older text of a document, in whatever order
\* events, scheduled runs, retries and POSTs follow each other; with the same
\* exception.
NeverBack ==
  [][\A pt \in Points :
       index[pt] # None /\ TenantOf[pt[1]] \notin overlapped' =>
         index'[pt] # None /\ index'[pt].stamp >= index[pt].stamp]_vars

\* "the index refreshes": every row is at last answered from as it is, although
\* events are lost, runs overlap, and extraction failures are taken for tenants
\* without rows.
Fresh == []<>(\A d \in Docs : row[d] # None => Answerable(d))

-----------------------------------------------------------------------------
(* The inductive invariant *)

\* The number of a change stands for what it wrote.
Authentic(d, text, n) == n <= stamp[d] /\ (n = stamp[d] => text = row[d])

\* A run has documents of its tenant, one of each, and of the types already
\* SELECTed only; what it has is no older than what the index has.
RunSound(s) ==
  LET q == run[s] IN
  /\ q.at \in {"idle", "tenant"} => q.ten = None /\ q.docs = {}
  /\ q.at \in {"extract", "upsert"} => q.ten \in Tenants
  /\ \A e \in q.docs :
       /\ TenantOf[e.doc] = q.ten
       /\ Authentic(e.doc, e.text, e.stamp)
       /\ q.at = "extract" => \E i \in 1 .. q.type - 1 : TypeOf[e.doc] = Types[i]
       /\ \A f \in q.docs : f.doc = e.doc => f = e
  /\ q.ten \notin overlapped =>
       \A e \in q.docs, pt \in Points :
         pt[1] = e.doc /\ index[pt] # None => index[pt].stamp <= e.stamp

\* Where one chunk of a document's present text is in the index, all are.
ChunksTogether(d) ==
  row[d] # None /\ TenantOf[d] \notin overlapped =>
    \A p, q \in Points :
      /\ p[1] = d /\ index[p] # None /\ index[p].stamp = stamp[d]
      /\ q[1] = d /\ q[2] \in DOMAIN Windows(Words[row[d]])
      => index[q] = [text |-> row[d], stamp |-> stamp[d]]

IndexInv ==
  /\ TypeOK
  /\ \A d \in Docs : stamp[d] <= edits /\ ChunksTogether(d)
  /\ \A pt \in Points :
       index[pt] # None => Authentic(pt[1], index[pt].text, index[pt].stamp)
  /\ \A s \in Slots : RunSound(s)
  /\ \A s, r \in Slots : s # r /\ run[s].ten # None /\ run[s].ten = run[r].ten
                         => run[s].ten \in overlapped
=============================================================================
