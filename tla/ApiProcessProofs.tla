-------------------------- MODULE ApiProcessProofs --------------------------
(* The migrations, seeds and access logs of any number of processes. *)
EXTENDS ApiProcess, TLAPS

(***************************************************************************)
(* BootInv is inductive.  What a process takes for applied has been        *)
(* applied, whatever its SELECT missed, so the lowest migration it does    *)
(* not know of comes right after recorded ones.                            *)
(***************************************************************************)

LEMMA BootInit == Init => BootInv
BY ProcessAssumption DEF Init, BootInv, Off, Process, NoGap, SchemaComplete

\* A step that leaves the schema alone and, of the processes, changes one, which
\* has learnt of nothing that is not recorded, and serves with all it needs.
LEMMA OneProcess ==
  ASSUME BootInv, NEW p \in Processes, NEW q \in Process,
         proc' = [proc EXCEPT ![p] = q], schema' = schema,
         q.applied \subseteq schema \cap Versions(p),
         q.at \in {"serve", "check", "seed"} => Versions(p) \subseteq schema
  PROVE  BootInv'
<1>1. proc' \in [Processes -> Process]
  BY DEF BootInv
<1>2. \A r \in Processes : proc'[r].applied \subseteq schema' \cap Versions(r)
  BY DEF BootInv
<1>3. NoGap'
  BY DEF BootInv, NoGap
<1>4. SchemaComplete'
  BY DEF BootInv, SchemaComplete
<1>5. (\A r \in Processes : proc[r].applied \subseteq schema \cap Versions(r))'
  BY <1>2 DEF Versions
<1>. QED
  BY <1>1, <1>3, <1>4, <1>5 DEF BootInv

\* A process that moves on with what it knows, or exits.
LEMMA MovesOn ==
  ASSUME BootInv, NEW p \in Processes, NEW point, NEW n \in Nat,
         point \in {"off", "ensure", "create", "read", "apply", "serve", "check", "seed"},
         proc' = [proc EXCEPT ![p] = [@ EXCEPT !.at = point, !.next = n]],
         schema' = schema,
         point \in {"serve", "check", "seed"} => Versions(p) \subseteq schema
  PROVE  BootInv'
<1>. DEFINE q == [proc[p] EXCEPT !.at = point, !.next = n]
<1>1. q \in Process /\ q.applied = proc[p].applied /\ q.at = point
  BY DEF BootInv, Process
<1>2. q.applied \subseteq schema \cap Versions(p)
  BY <1>1 DEF BootInv
<1>3. proc' = [proc EXCEPT ![p] = q]
  OBVIOUS
<1>. QED
  BY <1>1, <1>2, <1>3, OneProcess

LEMMA GoesTo ==
  ASSUME BootInv, NEW p \in Processes, NEW point, Goto(p, point), schema' = schema,
         point \in {"off", "ensure", "create", "read", "apply", "serve", "check", "seed"},
         point \in {"serve", "check", "seed"} => Versions(p) \subseteq schema
  PROVE  BootInv'
<1>1. proc' = [proc EXCEPT ![p] = [@ EXCEPT !.at = point, !.next = proc[p].next]]
  BY DEF Goto, BootInv, Process
<1>2. proc[p].next \in Nat
  BY DEF BootInv, Process
<1>. QED
  BY <1>1, <1>2, MovesOn

LEMMA Exits ==
  ASSUME BootInv, NEW p \in Processes, Exit(p), schema' = schema
  PROVE  BootInv'
<1>1. Off \in Process /\ Off.applied = {} /\ Off.at = "off"
  BY DEF Off, Process
<1>. QED
  BY <1>1, OneProcess DEF Exit

\* A process that records the lowest migration it does not know of.
LEMMA Applies ==
  ASSUME BootInv, NEW p \in Processes, NEW v \in Lowest(p), NEW q \in Process,
         At(p, "apply"),
         schema' = schema \cup {v}, proc' = [proc EXCEPT ![p] = q],
         q.applied \subseteq schema' \cap Versions(p), q.at \in {"off", "apply"}
  PROVE  BootInv'
<1>1. v \in Versions(p) /\ v \in Nat
  BY ProcessAssumption DEF Lowest, Pending, Versions
<1>2. \A w \in 1 .. v : w # v => w \in schema
  <2>. SUFFICES ASSUME NEW w \in 1 .. v, w # v PROVE w \in schema
    OBVIOUS
  <2>1. w \in Versions(p) /\ ~(v <= w)
    BY <1>1, ProcessAssumption DEF Versions
  <2>2. w \in proc[p].applied
    BY <2>1 DEF Lowest, Pending
  <2>. QED
    BY <2>2 DEF BootInv
<1>3. NoGap'
  BY <1>2 DEF BootInv, NoGap
<1>4. SchemaComplete'
  BY DEF BootInv, SchemaComplete, Process
<1>5. \A r \in Processes : proc'[r].applied \subseteq schema' \cap Versions(r)
  BY DEF BootInv
<1>6. (\A r \in Processes : proc[r].applied \subseteq schema \cap Versions(r))'
  BY <1>5 DEF Versions
<1>7. proc' \in [Processes -> Process]
  BY DEF BootInv
<1>. QED
  BY <1>3, <1>4, <1>6, <1>7 DEF BootInv

LEMMA ApplyNextKeeps ==
  ASSUME BootInv, NEW p \in Processes, ApplyNext(p)
  PROVE  BootInv'
<1>. USE DEF ApplyNext
<1>1. PICK v \in Lowest(p) :
        \/ /\ v \notin schema /\ schema' = schema \cup {v}
           /\ \/ proc' = [proc EXCEPT ![p].applied = @ \cup {v}]
              \/ Exit(p)
        \/ v \in schema /\ Exit(p) /\ schema' = schema
  OBVIOUS
<1>. DEFINE q == [proc[p] EXCEPT !.applied = @ \cup {v}]
<1>2. v \in Versions(p) /\ Versions(p) \subseteq AllVersions
  BY DEF Lowest, Pending, AllVersions
<1>3. q \in Process /\ q.applied = proc[p].applied \cup {v} /\ q.at = proc[p].at
  BY <1>2 DEF BootInv, Process
<1>4. CASE schema' = schema \cup {v} /\ proc' = [proc EXCEPT ![p].applied = @ \cup {v}]
  <2>1. proc' = [proc EXCEPT ![p] = q]
    BY <1>4
  <2>2. q.applied \subseteq schema' \cap Versions(p)
    BY <1>2, <1>3, <1>4 DEF BootInv
  <2>3. q.at \in {"off", "apply"}
    BY <1>3 DEF At
  <2>. QED
    BY <1>3, <1>4, <2>1, <2>2, <2>3, Applies
<1>5. CASE schema' = schema \cup {v} /\ Exit(p)
  <2>1. Off \in Process /\ Off.applied = {} /\ Off.at = "off"
    BY DEF Off, Process
  <2>. QED
    BY <1>5, <2>1, Applies DEF Exit
<1>. QED
  BY <1>1, <1>4, <1>5, Exits

LEMMA ReadAppliedKeeps ==
  ASSUME BootInv, NEW p \in Processes, ReadApplied(p)
  PROVE  BootInv'
<1>1. PICK part \in SUBSET (schema \cap Versions(p)) :
        proc' = [proc EXCEPT ![p].at = "apply", ![p].applied = part]
  BY DEF ReadApplied
<1>. DEFINE q == [proc[p] EXCEPT !.at = "apply", !.applied = part]
<1>2. part \subseteq AllVersions
  BY DEF AllVersions
<1>3. q \in Process /\ q.applied = part /\ q.at = "apply"
  BY <1>2 DEF BootInv, Process
<1>4. proc' = [proc EXCEPT ![p] = q]
  BY <1>1 DEF BootInv, Process
<1>. QED
  BY <1>3, <1>4, OneProcess DEF ReadApplied, boot

LEMMA MigratedKeeps ==
  ASSUME BootInv, NEW p \in Processes, Migrated(p)
  PROVE  BootInv'
<1>1. Versions(p) \subseteq schema
  BY DEF Migrated, Pending, BootInv
<1>2. CASE Goto(p, "serve")
  BY <1>1, <1>2, GoesTo DEF Migrated, boot
<1>3. CASE proc' = [proc EXCEPT ![p].at = "check", ![p].next = 1]
  <2>1. proc' = [proc EXCEPT ![p] = [@ EXCEPT !.at = "check", !.next = 1]]
    BY <1>3
  <2>. QED
    BY <1>1, <2>1, MovesOn DEF Migrated, boot
<1>. QED
  BY <1>2, <1>3 DEF Migrated

LEMMA SeederKeeps ==
  ASSUME BootInv, NEW p \in Processes, SeedCheck(p) \/ SeedNext(p) \/ Seeded(p)
  PROVE  BootInv'
<1>1. schema' = schema
  BY DEF SeedCheck, SeedNext, Seeded, boot
<1>2. proc[p].at \in {"check", "seed"} /\ Versions(p) \subseteq schema
  BY DEF SeedCheck, SeedNext, Seeded, At, BootInv, SchemaComplete
<1>3. CASE Exit(p)
  BY <1>1, <1>3, Exits
<1>4. CASE Goto(p, "seed")
  BY <1>1, <1>2, <1>4, GoesTo
<1>5. CASE proc' = [proc EXCEPT ![p].next = @ + 1]
  <2>1. proc[p].next + 1 \in Nat
    BY DEF BootInv, Process
  <2>2. proc' = [proc EXCEPT ![p] = [@ EXCEPT !.at = proc[p].at, !.next = proc[p].next + 1]]
    BY <1>5 DEF BootInv, Process
  <2>. QED
    BY <1>1, <1>2, <2>1, <2>2, MovesOn
<1>. QED
  BY <1>3, <1>4, <1>5 DEF SeedCheck, SeedNext, Seeded

\* Every step keeps BootInv.
LEMMA BootStep == BootInv /\ [Next]_vars => BootInv'
<1>. SUFFICES ASSUME BootInv, [Next]_vars PROVE BootInv'
  OBVIOUS
<1>1. ASSUME NEW p \in Processes, Start(p) PROVE BootInv'
  BY <1>1, GoesTo DEF Start, boot
<1>2. ASSUME NEW p \in Processes, EnsureTable(p) PROVE BootInv'
  BY <1>2, GoesTo DEF EnsureTable, boot
<1>3. ASSUME NEW p \in Processes, CreateTable(p) PROVE BootInv'
  BY <1>3, GoesTo, Exits DEF CreateTable
<1>4. ASSUME NEW p \in Processes, Step(p) PROVE BootInv'
  BY <1>2, <1>3, <1>4, ReadAppliedKeeps, ApplyNextKeeps, MigratedKeeps, SeederKeeps
     DEF Step
<1>5. ASSUME NEW p \in Processes, Die(p) PROVE BootInv'
  BY <1>5, Exits DEF Die, boot
<1>6. ASSUME NEW p \in Servers, LogRequest(p) \/ Worker(p) PROVE BootInv'
  <2>1. proc' = proc /\ schema' = schema
    BY <1>6 DEF LogRequest, Worker, TakeEntry, WriteEntry, boot
  <2>. QED
    BY <2>1 DEF BootInv, NoGap, SchemaComplete, Versions
<1>7. ASSUME NEW p \in Servers, Stop(p) PROVE BootInv'
  BY <1>7, Exits DEF Stop, boot, Processes
<1>8. CASE UNCHANGED vars
  BY <1>8 DEF vars, boot, BootInv, NoGap, SchemaComplete, Versions
<1>. QED
  BY <1>1, <1>4, <1>5, <1>6, <1>7, <1>8 DEF Next

(***************************************************************************)
(* SeedInv is inductive.  Rows are inserted in the order of the script, so *)
(* whoever inserts a product finds nothing after it, and whoever comes     *)
(* later exits at that product.                                            *)
(***************************************************************************)

LEMMA SeedInit == Init => SeedInv
BY ProcessAssumption DEF Init, SeedInv, SeederSound, PastProduct, SeededOnce, At, Off, Statements

\* The numbers of the statements.
LEMMA StatementNumbers == Statements \subseteq Nat \ {0}
BY ProcessAssumption DEF Statements

\* Steps that insert nothing and move no process on in the script.
LEMMA SeedKept ==
  ASSUME SeedInv, copies' = copies,
         \A p \in Processes : proc'[p].at \in {"check", "seed"} =>
           proc'[p].at = proc[p].at /\ proc'[p].next = proc[p].next
  PROVE  SeedInv'
<1>1. \A p \in Processes : SeederSound(p)'
  BY DEF SeedInv, SeederSound, PastProduct, At
<1>2. \A p \in Processes, n \in Statements : PastProduct(p, n)' => PastProduct(p, n)
  BY DEF PastProduct, At
<1>. QED
  BY <1>1, <1>2 DEF SeedInv, SeededOnce

\* A migrated seeder begins with the first statement.
LEMMA SeedBegins ==
  ASSUME BootInv, SeedInv, NEW p \in Processes, Migrated(p)
  PROVE  SeedInv'
<1>1. copies' = copies /\ \A q \in Processes \ {p} : proc'[q] = proc[q]
  BY DEF Migrated, Goto, BootInv
<1>2. proc'[p].at = "serve" \/ (proc'[p].at = "check" /\ proc'[p].next = 1)
  BY DEF Migrated, Goto, BootInv, Process
<1>3. SeederSound(p)'
  BY <1>2, StatementNumbers DEF SeederSound, At, PastProduct
<1>4. \A q \in Processes \ {p} : SeederSound(q)'
  BY <1>1 DEF SeedInv, SeederSound, At, PastProduct
<1>5. \A q \in Processes, n \in Statements : PastProduct(q, n)' => PastProduct(q, n)
  BY <1>1, <1>2 DEF PastProduct, At
<1>. QED
  BY <1>1, <1>3, <1>4, <1>5 DEF SeedInv, SeededOnce

\* The tenant is there once, whoever upserts it.
LEMMA UpsertKeeps ==
  ASSUME BootInv, SeedInv, NEW p \in Processes, At(p, "check"),
         proc[p].next \in Statements, Script[proc[p].next] = "upsert",
         copies' = [copies EXCEPT ![proc[p].next] = 1],
         proc' = [proc EXCEPT ![p].next = @ + 1]
  PROVE  SeedInv'
<1>. DEFINE i == proc[p].next
<1>1. /\ \A q \in Processes \ {p} : proc'[q] = proc[q]
      /\ proc'[p].at = "check" /\ proc'[p].next = i + 1 /\ i \in Nat \ {0}
  BY StatementNumbers DEF BootInv, Process, At
<1>2. /\ copies' \in [Statements -> Nat] /\ copies'[i] = 1
      /\ \A n \in Statements \ {i} : copies'[n] = copies[n]
  BY DEF SeedInv
<1>3. SeederSound(p)'
  BY <1>1, <1>2, StatementNumbers DEF SeedInv, SeederSound, At
<1>4. ASSUME NEW q \in Processes \ {p} PROVE SeederSound(q)'
  BY <1>1, <1>2 DEF SeedInv, SeederSound, At, PastProduct
<1>5. \A q \in Processes, n \in Statements : PastProduct(q, n)' => PastProduct(q, n)
  BY <1>1 DEF PastProduct, At
<1>6. \A m, n \in Statements :
        n < m /\ copies'[m] > 0 /\ Script[m] # "upsert" => copies'[n] > 0
  BY <1>2 DEF SeedInv
<1>7. SeededOnce'
  BY <1>2 DEF SeedInv, SeededOnce
<1>. QED
  BY <1>2, <1>3, <1>4, <1>5, <1>6, <1>7 DEF SeedInv

\* Who has found no products begins to insert; only tenants come before.
LEMMA SeedGoes ==
  ASSUME BootInv, SeedInv, NEW p \in Processes, At(p, "check"), Goto(p, "seed"),
         ~(proc[p].next \in Statements /\ Script[proc[p].next] = "upsert"),
         copies' = copies
  PROVE  SeedInv'
<1>. DEFINE i == proc[p].next
<1>1. /\ \A q \in Processes \ {p} : proc'[q] = proc[q]
      /\ proc'[p].at = "seed" /\ proc'[p].next = i /\ i \in Nat
  BY DEF BootInv, Process, Goto
<1>2. /\ i > 0 /\ \A n \in Statements : n < i => Script[n] = "upsert" /\ copies[n] > 0
  BY DEF SeedInv, SeederSound
<1>3. \A n \in Statements : ~PastProduct(p, n)'
  BY <1>1, <1>2 DEF PastProduct
<1>4. ASSUME NEW n \in Statements, n >= i PROVE Script[n] # "upsert"
  <2>1. i \in Statements
    BY <1>1, <1>2, <1>4, ProcessAssumption DEF Statements
  <2>. QED
    BY <1>1, <1>4, <2>1, StatementNumbers, ScriptAssumption DEF Statements
<1>5. SeederSound(p)'
  BY <1>1, <1>2, <1>3, <1>4 DEF SeederSound, At
<1>6. \A q \in Processes \ {p} : SeederSound(q)'
  BY <1>1 DEF SeedInv, SeederSound, At, PastProduct
<1>7. \A q \in Processes, n \in Statements : PastProduct(q, n)' => PastProduct(q, n)
  BY <1>1, <1>3 DEF PastProduct, At
<1>. QED
  BY <1>5, <1>6, <1>7 DEF SeedInv, SeededOnce

\* A row is inserted.
LEMMA RowKeeps ==
  ASSUME BootInv, SeedInv, NEW p \in Processes, At(p, "seed"),
         proc[p].next \in Statements,
         ~(Script[proc[p].next] \in {"unique", "product"} /\ copies[proc[p].next] > 0),
         copies' = [copies EXCEPT ![proc[p].next] = @ + 1],
         proc' = [proc EXCEPT ![p].next = @ + 1]
  PROVE  SeedInv'
<1>. DEFINE i == proc[p].next
<1>1. /\ \A q \in Processes \ {p} : proc'[q] = proc[q]
      /\ proc'[p].at = "seed" /\ proc'[p].next = i + 1 /\ i \in Nat \ {0}
  BY StatementNumbers DEF BootInv, Process, At
<1>2. /\ copies \in [Statements -> Nat] /\ copies' \in [Statements -> Nat]
      /\ copies'[i] = copies[i] + 1
      /\ \A n \in Statements \ {i} : copies'[n] = copies[n]
  BY DEF SeedInv
<1>3. /\ \A n \in Statements : n < i => copies[n] > 0
      /\ \A n \in Statements : n >= i =>
           /\ Script[n] # "upsert"
           /\ Script[n] = "plain" /\ (\E m \in Statements : PastProduct(p, m)) => copies[n] = 0
  BY DEF SeedInv, SeederSound
<1>4. Script[i] \in {"unique", "product", "plain"}
  BY <1>1, <1>3, ProcessAssumption DEF Statements
<1>5. CASE Script[i] = "plain"
  <2>1. PICK k \in Statements : k < i /\ Script[k] = "product"
    BY <1>5, ScriptAssumption DEF Statements
  <2>2. PastProduct(p, k)
    BY <2>1 DEF PastProduct
  <2>3. copies[i] = 0
    BY <1>1, <1>3, <1>5, <2>2
  <2>4. \A n \in Statements : PastProduct(p, n)' => PastProduct(p, n)
    BY <1>1, <1>5, StatementNumbers DEF PastProduct, At
  <2>5. SeederSound(p)'
    <3>1. \A n \in Statements : n >= i + 1 => n >= i /\ n # i
      BY <1>1, StatementNumbers
    <3>2. \A n \in Statements : n < i + 1 => n < i \/ n = i
      BY <1>1, StatementNumbers
    <3>. QED
      BY <1>1, <1>2, <1>3, <2>2, <3>1, <3>2 DEF SeederSound, At
  <2>6. ASSUME NEW q \in Processes \ {p} PROVE SeederSound(q)'
    <3>1. CASE At(q, "seed") /\ i >= proc[q].next
      <4>1. \A n \in Statements : ~PastProduct(q, n)
        <5> SUFFICES ASSUME NEW n \in Statements, PastProduct(q, n) PROVE FALSE
          OBVIOUS
        <5>1. PastProduct(p, n)
          <6>1. n < i
            BY <1>1, <3>1, StatementNumbers DEF PastProduct, BootInv, Process
          <6>. QED
            BY <6>1 DEF PastProduct
        <5>. QED
          BY <5>1 DEF SeedInv
      <4>. QED
        BY <1>1, <1>2, <4>1 DEF SeedInv, SeederSound, At, PastProduct
    <3>2. CASE ~(At(q, "seed") /\ i >= proc[q].next)
      BY <1>1, <1>2, <3>2 DEF SeedInv, SeederSound, At, PastProduct
    <3>. QED
      BY <3>1, <3>2
  <2>7. \A q \in Processes, n \in Statements : PastProduct(q, n)' => PastProduct(q, n)
    BY <1>1, <2>4 DEF PastProduct, At
  <2>8. \A m, n \in Statements :
          n < m /\ copies'[m] > 0 /\ Script[m] # "upsert" => copies'[n] > 0
    BY <1>2, <1>3 DEF SeedInv
  <2>9. SeededOnce'
    BY <1>2, <2>3 DEF SeedInv, SeededOnce
  <2>. QED
    BY <1>2, <2>5, <2>6, <2>7, <2>8, <2>9 DEF SeedInv
<1>6. CASE Script[i] \in {"unique", "product"}
  <2>1. copies[i] = 0
    BY <1>2, <1>6
  <2>2. \A n \in Statements : n > i /\ Script[n] = "plain" => copies[n] = 0
    BY <1>2, <2>1 DEF SeedInv
  <2>3. SeederSound(p)'
    <3>1. \A n \in Statements : n >= i + 1 => n > i /\ n >= i /\ n # i
      BY <1>1, StatementNumbers
    <3>2. \A n \in Statements : n < i + 1 => n < i \/ n = i
      BY <1>1, StatementNumbers
    <3>. QED
      BY <1>1, <1>2, <1>3, <2>2, <3>1, <3>2 DEF SeederSound, At
  <2>4. ASSUME NEW q \in Processes \ {p} PROVE SeederSound(q)'
    BY <1>1, <1>2, <1>6 DEF SeedInv, SeederSound, At, PastProduct
  <2>5. ASSUME NEW q \in Processes \ {p} PROVE ~PastProduct(q, i)
    BY <2>1 DEF SeedInv, SeederSound, PastProduct
  <2>6. \A n \in Statements : PastProduct(p, n)' => PastProduct(p, n) \/ n = i
    BY <1>1, StatementNumbers DEF PastProduct, At
  <2>7. \A q \in Processes \ {p}, n \in Statements : PastProduct(q, n)' <=> PastProduct(q, n)
    BY <1>1 DEF PastProduct, At
  <2>8. \A q, r \in Processes : q # r =>
          \A n \in Statements : ~(PastProduct(q, n)' /\ PastProduct(r, n)')
    BY <2>5, <2>6, <2>7 DEF SeedInv
  <2>9. \A m, n \in Statements :
          n < m /\ copies'[m] > 0 /\ Script[m] # "upsert" => copies'[n] > 0
    BY <1>2, <1>3 DEF SeedInv
  <2>10. SeededOnce'
    BY <1>2, <2>1 DEF SeedInv, SeededOnce
  <2>. QED
    BY <1>2, <2>3, <2>4, <2>8, <2>9, <2>10 DEF SeedInv
<1>. QED
  BY <1>4, <1>5, <1>6

\* Every step keeps SeedInv.
LEMMA SeedStep == BootInv /\ SeedInv /\ [Next]_vars => SeedInv'
<1>. SUFFICES ASSUME BootInv, SeedInv, [Next]_vars PROVE SeedInv'
  OBVIOUS
<1>0. proc \in [Processes -> Process]
  BY DEF BootInv
<1>1. ASSUME NEW p \in Processes, NEW point, Goto(p, point), copies' = copies,
             point \notin {"check", "seed"}
      PROVE  SeedInv'
  BY <1>0, <1>1, SeedKept DEF Goto
<1>2. ASSUME NEW p \in Processes, Exit(p), copies' = copies PROVE SeedInv'
  BY <1>0, <1>2, SeedKept DEF Exit, Off
<1>3. ASSUME NEW p \in Processes, Step(p) PROVE SeedInv'
  <2>1. CASE EnsureTable(p) \/ CreateTable(p)
    BY <1>1, <1>2, <2>1 DEF EnsureTable, CreateTable
  <2>2. CASE ReadApplied(p) \/ ApplyNext(p)
    <3>1. copies' = copies
      BY <2>2 DEF ReadApplied, ApplyNext
    <3>2. Exit(p) \/ (/\ \A q \in Processes \ {p} : proc'[q] = proc[q]
                      /\ proc'[p].at = "apply")
      BY <1>0, <2>2 DEF ReadApplied, ApplyNext, At, Process
    <3>. QED
      BY <1>2, <3>1, <3>2, SeedKept
  <2>3. CASE SeedCheck(p)
    <3>1. At(p, "check")
      BY <2>3 DEF SeedCheck
    <3>. QED
      BY <1>2, <2>3, <3>1, UpsertKeeps, SeedGoes DEF SeedCheck
  <2>4. CASE SeedNext(p)
    BY <1>2, <2>4, RowKeeps DEF SeedNext
  <2>5. CASE Seeded(p)
    BY <1>2, <2>5 DEF Seeded
  <2>. QED
    BY <1>3, <2>1, <2>2, <2>3, <2>4, <2>5, SeedBegins DEF Step
<1>4. ASSUME NEW p \in Processes, Start(p) \/ Die(p) PROVE SeedInv'
  BY <1>1, <1>2, <1>4 DEF Start, Die
<1>5. ASSUME NEW p \in Servers, LogRequest(p) \/ Worker(p) \/ Stop(p) PROVE SeedInv'
  BY <1>2, <1>5, SeedKept DEF LogRequest, Worker, TakeEntry, WriteEntry, Stop, Processes
<1>6. CASE UNCHANGED vars
  BY <1>6, SeedKept DEF vars
<1>. QED
  BY <1>3, <1>4, <1>5, <1>6 DEF Next

(***************************************************************************)
(* LogInv is inductive on top of BootInv: entries go from the queue to the *)
(* worker and from the worker to the table in the order of their numbers,  *)
(* and a queue that is full holds as many as there were requests.          *)
(***************************************************************************)

LEMMA LogInit == Init => LogInv
BY ProcessAssumption
   DEF Init, LogInv, PipeSound, BurstSound, Rising, At, Off, Processes

\* A step that is not the server's own.
LEMMA OtherKeeps ==
  ASSUME LogInv, NEW p \in Servers, proc'[p] = proc[p], faults' = 0 => faults = 0,
         queue'[p] = queue[p], writing'[p] = writing[p], logged'[p] = logged[p],
         count'[p] = count[p], since'[p] = since[p]
  PROVE  PipeSound(p)' /\ BurstSound(p)'
<1>1. PipeSound(p)'
  BY DEF LogInv, PipeSound, Rising
<1>2. BurstSound(p)'
  BY DEF LogInv, BurstSound, At
<1>. QED
  BY <1>1, <1>2

\* A server on its way: it starts, migrates, serves, or exits before it does.
LEMMA MovesKeeps ==
  ASSUME LogInv, NEW p \in Servers, ~At(p, "serve"),
         UNCHANGED <<queue, writing, logged, count>>,
         since'[p] = count[p] \/ (~At(p, "off") /\ since'[p] = since[p])
  PROVE  PipeSound(p)' /\ BurstSound(p)'
<1>1. /\ queue[p] = <<>> /\ writing[p] = None /\ since'[p] = count[p]
      /\ count[p] \in Nat
  BY DEF LogInv, BurstSound
<1>2. PipeSound(p)'
  BY <1>1 DEF LogInv, PipeSound, Rising
<1>3. BurstSound(p)'
  BY <1>1, ProcessAssumption DEF BurstSound
<1>. QED
  BY <1>2, <1>3

LEMMA StopKeeps ==
  ASSUME BootInv, LogInv, NEW p \in Servers, Stop(p)
  PROVE  PipeSound(p)' /\ BurstSound(p)'
<1>1. /\ queue'[p] = <<>> /\ writing'[p] = None
      /\ logged' = logged /\ count' = count /\ since' = since
      /\ proc'[p].at = "off"
  BY DEF Stop, Exit, Off, LogInv, BootInv, Processes
<1>2. since[p] <= count[p]
  BY DEF LogInv, PipeSound
<1>3. PipeSound(p)'
  BY <1>1, <1>2 DEF LogInv, PipeSound, Rising
<1>4. BurstSound(p)'
  BY <1>1 DEF BurstSound, At
<1>. QED
  BY <1>3, <1>4

LEMMA LogRequestKeeps ==
  ASSUME LogInv, NEW p \in Servers, LogRequest(p)
  PROVE  PipeSound(p)' /\ BurstSound(p)'
<1>. DEFINE q == queue[p]
            n == count[p] + 1
<1>1. /\ At(p, "serve") /\ q \in Seq(Nat) /\ n \in Nat /\ count[p] \in Nat
      /\ since[p] \in Nat /\ Len(q) \in Nat
      /\ count'[p] = n
      /\ queue'[p] = IF Len(q) < QueueSize THEN Append(q, n) ELSE q
      /\ UNCHANGED <<proc, writing, logged, since, faults>>
  BY DEF LogRequest, LogInv
<1>2. \A j \in DOMAIN q : q[j] \in Nat /\ q[j] <= count[p]
  BY <1>1 DEF LogInv, PipeSound
<1>3. \A i \in DOMAIN logged[p] : logged[p][i] \in Nat /\ logged[p][i] <= count[p]
  BY DEF LogInv, PipeSound
<1>4. writing[p] # None => writing[p] \in Nat /\ writing[p] <= count[p]
  BY DEF LogInv, PipeSound
<1>5. CASE Len(q) < QueueSize
  <2>1. /\ DOMAIN Append(q, n) = DOMAIN q \cup {Len(q) + 1}
        /\ \A j \in DOMAIN q : Append(q, n)[j] = q[j] /\ j < Len(q) + 1
        /\ Append(q, n)[Len(q) + 1] = n /\ Len(Append(q, n)) = Len(q) + 1
    BY <1>1
  <2>2. n = count[p] + 1 /\ queue'[p] = Append(q, n)
    BY <1>1, <1>5
  <2>. HIDE DEF n
  <2>3. Rising(queue[p])'
    BY <1>1, <1>2, <1>5, <2>1, <2>2 DEF LogInv, PipeSound, Rising
  <2>4. since'[p] + Len(queue'[p]) <= count'[p]
    BY <1>1, <1>5, <2>1, <2>2 DEF LogInv, PipeSound
  <2>5. ASSUME NEW j \in DOMAIN queue'[p]
        PROVE  /\ queue'[p][j] <= n
               /\ \A i \in DOMAIN logged[p] : logged[p][i] < queue'[p][j]
               /\ writing[p] # None => writing[p] < queue'[p][j]
    <3>1. CASE j \in DOMAIN q
      BY <1>1, <1>2, <2>1, <2>2, <3>1 DEF LogInv, PipeSound
    <3>2. CASE j = Len(q) + 1
      BY <1>1, <1>3, <1>4, <2>1, <2>2, <3>2
    <3>. QED
      BY <2>1, <2>2, <3>1, <3>2
  <2>6. PipeSound(p)'
    <3>1. /\ \A i \in DOMAIN logged[p] :
               logged[p][i] <= n /\ (writing[p] # None => logged[p][i] < writing[p])
          /\ writing[p] # None => writing[p] <= n
          /\ Rising(logged[p])
      BY <1>1, <1>3, <1>4, <2>2 DEF LogInv, PipeSound
    <3>. QED
      BY <1>1, <2>3, <2>4, <2>5, <3>1 DEF PipeSound
  <2>7. BurstSound(p)'
    <3>. SUFFICES ASSUME faults = 0, NEW m \in since[p] + 1 .. since[p] + QueueSize, m <= n
                  PROVE  \/ \E i \in DOMAIN logged[p] : logged[p][i] = m
                         \/ writing[p] = m
                         \/ \E j \in DOMAIN queue'[p] : queue'[p][j] = m
      BY <1>1 DEF BurstSound, At
    <3>1. CASE m = n
      <4>1. Len(q) + 1 \in DOMAIN queue'[p] /\ queue'[p][Len(q) + 1] = m
        BY <2>1, <2>2, <3>1
      <4>. QED
        BY <4>1
    <3>2. CASE m <= count[p]
      <4>1. \/ \E i \in DOMAIN logged[p] : logged[p][i] = m
            \/ writing[p] = m
            \/ \E j \in DOMAIN q : q[j] = m
        BY <1>1, <3>2 DEF LogInv, BurstSound
      <4>. QED
        BY <2>1, <2>2, <4>1
    <3>. QED
      BY <1>1, <2>2, <3>1, <3>2, ProcessAssumption
  <2>. QED
    BY <2>6, <2>7
<1>6. CASE ~(Len(q) < QueueSize)
  <2>1. queue'[p] = q
    BY <1>1, <1>6
  <2>2. PipeSound(p)'
    BY <1>1, <1>2, <1>3, <1>4, <2>1 DEF LogInv, PipeSound, Rising
  <2>3. since[p] + QueueSize <= count[p]
    BY <1>1, <1>6, ProcessAssumption DEF LogInv, PipeSound
  <2>4. BurstSound(p)'
    <3>. SUFFICES ASSUME faults = 0, NEW m \in since[p] + 1 .. since[p] + QueueSize
                  PROVE  \/ \E i \in DOMAIN logged[p] : logged[p][i] = m
                         \/ writing[p] = m
                         \/ \E j \in DOMAIN q : q[j] = m
      BY <1>1, <2>1 DEF BurstSound, At
    <3>1. m <= count[p]
      BY <1>1, <2>3, ProcessAssumption
    <3>. QED
      BY <1>1, <3>1 DEF LogInv, BurstSound
  <2>. QED
    BY <2>2, <2>4
<1>. QED
  BY <1>5, <1>6

LEMMA TakeEntryKeeps ==
  ASSUME LogInv, NEW p \in Servers, TakeEntry(p)
  PROVE  PipeSound(p)' /\ BurstSound(p)'
<1>. DEFINE q == queue[p]
            t == Tail(q)
<1>1. /\ At(p, "serve") /\ q \in Seq(Nat) /\ q # <<>> /\ writing[p] = None
      /\ writing'[p] = Head(q) /\ queue'[p] = t
      /\ UNCHANGED <<proc, logged, count, since, faults>>
  BY DEF TakeEntry, LogInv
<1>2. /\ t \in Seq(Nat) /\ Len(t) = Len(q) - 1 /\ Head(q) = q[1] /\ 1 \in DOMAIN q
      /\ \A j \in DOMAIN t : t[j] = q[j + 1] /\ j + 1 \in DOMAIN q /\ j \in Nat /\ 1 < j + 1
      /\ \A j \in DOMAIN q : j # 1 => j - 1 \in DOMAIN t /\ t[j - 1] = q[j]
      /\ \A j \in DOMAIN q : q[j] \in Nat
  BY <1>1
<1>. HIDE DEF t
<1>0. PipeSound(p) /\ BurstSound(p) /\ count[p] \in Nat /\ since[p] \in Nat
  BY DEF LogInv
<1>3. Rising(queue[p])'
  <2>. SUFFICES ASSUME NEW i \in DOMAIN t, NEW j \in DOMAIN t, i < j PROVE t[i] < t[j]
    BY <1>1 DEF Rising
  <2>1. q[i + 1] < q[j + 1]
    BY <1>0, <1>2 DEF PipeSound, Rising
  <2>. QED
    BY <1>2, <2>1
<1>4. since[p] + Len(t) <= count[p]
  BY <1>1, <1>2 DEF LogInv, PipeSound
<1>5. \A j \in DOMAIN t : Head(q) < t[j]
  BY <1>2 DEF LogInv, PipeSound, Rising
<1>6. PipeSound(p)'
  <2>1. /\ Head(q) <= count[p]
        /\ \A i \in DOMAIN logged[p] : logged[p][i] <= count[p] /\ logged[p][i] < Head(q)
        /\ \A j \in DOMAIN t : t[j] <= count[p]
        /\ \A i \in DOMAIN logged[p], j \in DOMAIN t : logged[p][i] < t[j]
        /\ Rising(logged[p])
    BY <1>0, <1>2 DEF PipeSound
  <2>. QED
    BY <1>1, <1>3, <1>4, <1>5, <2>1 DEF PipeSound
<1>7. ASSUME NEW n, NEW j \in DOMAIN q, q[j] = n
      PROVE  Head(q) = n \/ \E i \in DOMAIN t : t[i] = n
  <2>1. CASE j = 1
    BY <1>2, <1>7, <2>1
  <2>2. CASE j # 1
    BY <1>2, <1>7, <2>2
  <2>. QED
    BY <2>1, <2>2
<1>8. BurstSound(p)'
  <2>. SUFFICES ASSUME faults = 0, NEW m \in since[p] + 1 .. since[p] + QueueSize, m <= count[p]
                PROVE  \/ \E i \in DOMAIN logged[p] : logged[p][i] = m
                       \/ Head(q) = m
                       \/ \E j \in DOMAIN t : t[j] = m
    BY <1>1 DEF BurstSound, At
  <2>1. m # None
    BY <1>0, ProcessAssumption
  <2>2. \/ \E i \in DOMAIN logged[p] : logged[p][i] = m
        \/ \E j \in DOMAIN q : q[j] = m
    BY <1>0, <1>1, <2>1 DEF BurstSound
  <2>. QED
    BY <1>7, <2>2
<1>. QED
  BY <1>6, <1>8

LEMMA WriteEntryKeeps ==
  ASSUME LogInv, NEW p \in Servers, WriteEntry(p)
  PROVE  PipeSound(p)' /\ BurstSound(p)'
<1>. DEFINE l == logged[p]
            w == writing[p]
<1>1. /\ At(p, "serve") /\ l \in Seq(Nat) /\ w \in Nat /\ w # None
      /\ writing'[p] = None
      /\ UNCHANGED <<proc, queue, count, since>>
      /\ \/ logged'[p] = Append(l, w) /\ faults' = faults
         \/ logged'[p] = l /\ faults' # 0
  BY DEF WriteEntry, Fault, LogInv
<1>2. CASE logged'[p] = Append(l, w) /\ faults' = faults
  <2>1. /\ DOMAIN Append(l, w) = DOMAIN l \cup {Len(l) + 1} /\ Len(l) \in Nat
        /\ \A j \in DOMAIN l : Append(l, w)[j] = l[j] /\ j < Len(l) + 1
        /\ Append(l, w)[Len(l) + 1] = w
    BY <1>1
  <2>2. Rising(logged[p])'
    BY <1>1, <1>2, <2>1 DEF LogInv, PipeSound, Rising
  <2>3. PipeSound(p)'
    BY <1>1, <1>2, <2>1, <2>2 DEF LogInv, PipeSound, Rising
  <2>4. BurstSound(p)'
    <3>. SUFFICES ASSUME faults = 0, NEW m \in since[p] + 1 .. since[p] + QueueSize, m <= count[p]
                  PROVE  \/ \E i \in DOMAIN logged'[p] : logged'[p][i] = m
                         \/ \E j \in DOMAIN queue[p] : queue[p][j] = m
      BY <1>1, <1>2 DEF BurstSound, At
    <3>1. \/ \E i \in DOMAIN l : l[i] = m
          \/ w = m
          \/ \E j \in DOMAIN queue[p] : queue[p][j] = m
      BY <1>1 DEF LogInv, BurstSound
    <3>. QED
      BY <1>2, <2>1, <3>1
  <2>. QED
    BY <2>3, <2>4
<1>3. CASE logged'[p] = l /\ faults' # 0
  BY <1>1, <1>3 DEF LogInv, PipeSound, Rising, BurstSound, At
<1>. QED
  BY <1>1, <1>2, <1>3

LEMMA LogTypes == LogInv /\ [Next]_vars =>
  /\ faults' \in Nat /\ (faults' = 0 => faults = 0)
  /\ queue' \in [Servers -> Seq(Nat)] /\ logged' \in [Servers -> Seq(Nat)]
  /\ writing' \in [Servers -> Nat \cup {None}]
  /\ count' \in [Servers -> Nat] /\ since' \in [Servers -> Nat]
<1>. SUFFICES ASSUME LogInv, [Next]_vars
              PROVE  /\ faults' \in Nat /\ (faults' = 0 => faults = 0)
                     /\ queue' \in [Servers -> Seq(Nat)] /\ logged' \in [Servers -> Seq(Nat)]
                     /\ writing' \in [Servers -> Nat \cup {None}]
                     /\ count' \in [Servers -> Nat] /\ since' \in [Servers -> Nat]
  OBVIOUS
<1>1. faults' = faults \/ faults' = faults + 1
  BY DEF Next, Step, Worker, vars, Start, EnsureTable, CreateTable, ReadApplied, ApplyNext,
     Migrated, SeedCheck, SeedNext, Seeded, Die, LogRequest, TakeEntry, WriteEntry, Stop, Fault
<1>2. CASE UNCHANGED log
  BY <1>1, <1>2 DEF LogInv, log
<1>3. ASSUME NEW p \in Processes, Start(p)
      PROVE  UNCHANGED <<queue, logged, writing, count>> /\ since' \in [Servers -> Nat]
  BY <1>3 DEF Start, LogInv
<1>4. ASSUME NEW p \in Servers, LogRequest(p)
      PROVE  /\ queue' \in [Servers -> Seq(Nat)] /\ count' \in [Servers -> Nat]
             /\ UNCHANGED <<logged, writing, since>>
  <2>1. queue[p] \in Seq(Nat) /\ count[p] + 1 \in Nat
    BY DEF LogInv
  <2>. QED
    BY <1>4, <2>1 DEF LogRequest, LogInv
<1>5. ASSUME NEW p \in Servers, TakeEntry(p)
      PROVE  /\ queue' \in [Servers -> Seq(Nat)] /\ writing' \in [Servers -> Nat \cup {None}]
             /\ UNCHANGED <<logged, count, since>>
  <2>1. Tail(queue[p]) \in Seq(Nat) /\ Head(queue[p]) \in Nat
    BY <1>5 DEF LogInv, TakeEntry
  <2>. QED
    BY <1>5, <2>1 DEF TakeEntry, LogInv
<1>6. ASSUME NEW p \in Servers, WriteEntry(p)
      PROVE  /\ logged' \in [Servers -> Seq(Nat)] /\ writing' \in [Servers -> Nat \cup {None}]
             /\ UNCHANGED <<queue, count, since>>
  <2>1. Append(logged[p], writing[p]) \in Seq(Nat)
    BY <1>6 DEF LogInv, WriteEntry
  <2>. QED
    BY <1>6, <2>1 DEF WriteEntry, LogInv
<1>7. ASSUME NEW p \in Servers, Stop(p)
      PROVE  /\ queue' \in [Servers -> Seq(Nat)] /\ writing' \in [Servers -> Nat \cup {None}]
             /\ UNCHANGED <<logged, count, since>>
  BY <1>7 DEF Stop, LogInv
<1>8. ASSUME NEW p \in Processes, Step(p) \/ Die(p) PROVE UNCHANGED log
  BY <1>8 DEF Step, Die, EnsureTable, CreateTable, ReadApplied, ApplyNext, Migrated,
     SeedCheck, SeedNext, Seeded, log
<1>9. CASE \E p \in Processes : Start(p)
  BY <1>1, <1>3, <1>9 DEF LogInv
<1>10. CASE \E p \in Servers : LogRequest(p) \/ Worker(p) \/ Stop(p)
  <2>1. PICK p \in Servers : LogRequest(p) \/ TakeEntry(p) \/ WriteEntry(p) \/ Stop(p)
    BY <1>10 DEF Worker
  <2>2. CASE LogRequest(p)
    BY <1>1, <1>4, <2>2 DEF LogInv
  <2>3. CASE TakeEntry(p)
    BY <1>1, <1>5, <2>3 DEF LogInv
  <2>4. CASE WriteEntry(p)
    BY <1>1, <1>6, <2>4 DEF LogInv
  <2>5. CASE Stop(p)
    BY <1>1, <1>7, <2>5 DEF LogInv
  <2>. QED
    BY <2>1, <2>2, <2>3, <2>4, <2>5
<1>11. CASE UNCHANGED vars
  BY <1>2, <1>11 DEF vars, log
<1>. QED
  BY <1>2, <1>8, <1>9, <1>10, <1>11 DEF Next

LEMMA LogStep == BootInv /\ LogInv /\ [Next]_vars => LogInv'
<1>. SUFFICES ASSUME BootInv, LogInv, [Next]_vars PROVE LogInv'
  OBVIOUS
<1>0. proc \in [Processes -> Process] /\ (faults' = 0 => faults = 0)
  BY LogTypes DEF BootInv
<1>1. ASSUME NEW a \in Processes, Start(a) \/ Step(a) \/ Die(a), NEW p \in Servers
      PROVE  PipeSound(p)' /\ BurstSound(p)'
  <2>1. UNCHANGED <<queue, writing, logged, count>>
    BY <1>1 DEF Start, Step, Die, EnsureTable, CreateTable, ReadApplied, ApplyNext, Migrated,
       SeedCheck, SeedNext, Seeded, log
  <2>2. CASE a = p
    <3>1. ~At(p, "serve")
      BY <1>1, <2>2 DEF Start, Step, Die, EnsureTable, CreateTable, ReadApplied, ApplyNext,
         Migrated, SeedCheck, SeedNext, Seeded, At
    <3>2. since'[p] = count[p] \/ (~At(p, "off") /\ since'[p] = since[p])
      <4>1. CASE Start(a)
        <5>1. since' = [since EXCEPT ![p] = count[p]]
          BY <2>2, <4>1 DEF Start
        <5>2. since \in [Servers -> Nat]
          BY DEF LogInv
        <5>. QED
          BY <5>1, <5>2
      <4>2. CASE Step(a) \/ Die(a)
        <5>1. UNCHANGED log
          BY <4>2 DEF Step, Die, EnsureTable, CreateTable, ReadApplied, ApplyNext, Migrated,
             SeedCheck, SeedNext, Seeded, log
        <5>2. ~At(p, "off")
          BY <2>2, <4>2 DEF Step, Die, EnsureTable, CreateTable, ReadApplied, ApplyNext,
             Migrated, SeedCheck, SeedNext, Seeded, At
        <5>. QED
          BY <5>1, <5>2 DEF log
      <4>. QED
        BY <1>1, <4>1, <4>2
    <3>. QED
      BY <2>1, <3>1, <3>2, MovesKeeps
  <2>3. CASE a # p
    <3>1. proc'[p] = proc[p]
      BY <1>0, <1>1, <2>3 DEF Start, Step, Die, EnsureTable, CreateTable, ReadApplied,
         ApplyNext, Migrated, SeedCheck, SeedNext, Seeded, Goto, Exit, Processes
    <3>2. since'[p] = since[p]
      BY <1>1, <2>3 DEF Start, Step, Die, EnsureTable, CreateTable, ReadApplied, ApplyNext,
         Migrated, SeedCheck, SeedNext, Seeded, log, LogInv
    <3>. QED
      BY <1>0, <2>1, <3>1, <3>2, OtherKeeps
  <2>. QED
    BY <2>2, <2>3
<1>2. ASSUME NEW a \in Servers, LogRequest(a) \/ Worker(a) \/ Stop(a), NEW p \in Servers
      PROVE  PipeSound(p)' /\ BurstSound(p)'
  <2>1. CASE a = p
    BY <1>2, <2>1, LogRequestKeeps, TakeEntryKeeps, WriteEntryKeeps, StopKeeps DEF Worker
  <2>2. CASE a # p
    <3>1. proc'[p] = proc[p]
      BY <1>0, <1>2, <2>2 DEF LogRequest, Worker, TakeEntry, WriteEntry, Stop, Exit, Processes
    <3>2. /\ queue'[p] = queue[p] /\ writing'[p] = writing[p] /\ logged'[p] = logged[p]
          /\ count'[p] = count[p] /\ since'[p] = since[p]
      BY <1>2, <2>2 DEF LogRequest, Worker, TakeEntry, WriteEntry, Stop, LogInv
    <3>. QED
      BY <1>0, <3>1, <3>2, OtherKeeps
  <2>. QED
    BY <2>1, <2>2
<1>3. ASSUME UNCHANGED vars, NEW p \in Servers PROVE PipeSound(p)' /\ BurstSound(p)'
  BY <1>3, OtherKeeps DEF vars, log
<1>4. \A p \in Servers : PipeSound(p)' /\ BurstSound(p)'
  BY <1>1, <1>2, <1>3 DEF Next
<1>. QED
  BY <1>4, LogTypes DEF LogInv

\* The strengthening holds of every reachable state.
THEOREM BootSafe == Spec => []BootInv
BY BootInit, BootStep, PTL DEF Spec

\* The versions recorded have no gap, whoever boots, reads in part or dies.
THEOREM RecordsNoGap == Spec => []NoGap
<1>1. BootInv => NoGap
  BY DEF BootInv
<1>. QED
  BY BootSafe, <1>1, PTL

\* Whoever serves or seeds finds the whole schema of its binary.
THEOREM ServesComplete == Spec => []SchemaComplete
<1>1. BootInv => SchemaComplete
  BY DEF BootInv
<1>. QED
  BY BootSafe, <1>1, PTL

\* The strengthening of SeededOnce holds of every reachable state.
THEOREM SeedSafe == Spec => []SeedInv
BY SeedInit, BootSafe, SeedStep, PTL DEF Spec

\* Demo rows exist once, whoever seeds at the same time or after a failure,
\* though coupons and orders have no unique key.
THEOREM RowsOnce == Spec => []SeededOnce
<1>1. SeedInv => SeededOnce
  BY DEF SeedInv
<1>. QED
  BY SeedSafe, <1>1, PTL

\* What two sequences joined hold, and where.
LEMMA Joined ==
  ASSUME NEW s \in Seq(Nat), NEW t \in Seq(Nat)
  PROVE  /\ s \o t \in Seq(Nat) /\ Len(s \o t) = Len(s) + Len(t)
         /\ \A i \in 1 .. Len(s) : (s \o t)[i] = s[i]
         /\ \A i \in Len(s) + 1 .. Len(s) + Len(t) : (s \o t)[i] = t[i - Len(s)]
OBVIOUS

\* What a server has written, holds and has queued, as one sequence.
LEMMA PipeRises ==
  ASSUME NEW l \in Seq(Nat), NEW w, NEW q \in Seq(Nat), None \notin Nat,
         w \in Nat \cup {None}, Rising(l), Rising(q),
         \A i \in DOMAIN l : w # None => l[i] < w,
         \A i \in DOMAIN l, j \in DOMAIN q : l[i] < q[j],
         w # None => \A j \in DOMAIN q : w < q[j]
  PROVE  LET m == IF w = None THEN <<>> ELSE <<w>>
             pipe == l \o m \o q
         IN /\ \A i, j \in DOMAIN pipe : i < j => pipe[i] < pipe[j]
            /\ \A n : (\E i \in DOMAIN l : l[i] = n) \/ (w = n /\ n # None)
                      \/ (\E j \in DOMAIN q : q[j] = n) => n \in ToSet(pipe)
<1>. DEFINE m == IF w = None THEN <<>> ELSE <<w>>
            pipe == l \o m \o q
            k == Len(l)
            d == Len(m)
<1>1. /\ m \in Seq(Nat) /\ d \in Nat /\ k \in Nat /\ Len(q) \in Nat
      /\ d = IF w = None THEN 0 ELSE 1
      /\ w # None => m[1] = w
  OBVIOUS
<1>. HIDE DEF m
<1>2. /\ DOMAIN pipe = 1 .. k + d + Len(q)
      /\ \A i \in 1 .. k : pipe[i] = l[i]
      /\ \A i \in k + 1 .. k + d : pipe[i] = m[i - k]
      /\ \A i \in k + d + 1 .. k + d + Len(q) : pipe[i] = q[i - k - d]
  <2>1. /\ l \o m \in Seq(Nat) /\ Len(l \o m) = k + d
        /\ \A i \in 1 .. k : (l \o m)[i] = l[i]
        /\ \A i \in k + 1 .. k + d : (l \o m)[i] = m[i - k]
    BY <1>1, Joined
  <2>2. /\ Len(pipe) = k + d + Len(q) /\ pipe \in Seq(Nat)
        /\ \A i \in 1 .. k + d : pipe[i] = (l \o m)[i]
        /\ \A i \in k + d + 1 .. k + d + Len(q) : pipe[i] = q[i - (k + d)]
    BY <2>1, Joined
  <2>. HIDE DEF pipe, k, d
  <2>3. DOMAIN pipe = 1 .. k + d + Len(q)
    BY <2>2
  <2>4. \A i \in 1 .. k : i \in 1 .. k + d
    BY <1>1
  <2>5. \A i \in k + 1 .. k + d : i \in 1 .. k + d
    BY <1>1
  <2>6. \A i \in k + d + 1 .. k + d + Len(q) : i - (k + d) = i - k - d
    BY <1>1
  <2>. QED
    BY <2>1, <2>2, <2>3, <2>4, <2>5, <2>6
<1>3. w # None => d = 1 /\ pipe[k + 1] = w
  BY <1>1, <1>2
<1>. HIDE DEF pipe, d, k
<1>4. DOMAIN l = 1 .. k /\ DOMAIN q = 1 .. Len(q) /\ k \in Nat
  BY DEF k
<1>5. ASSUME NEW i \in DOMAIN pipe, NEW j \in DOMAIN pipe, i < j PROVE pipe[i] < pipe[j]
  <2>1. i \in Nat /\ j \in Nat
    BY <1>1, <1>2, <1>4
  <2>2. CASE j \in 1 .. k
    <3>1. i \in 1 .. k
      BY <1>2, <1>4, <1>5, <2>1, <2>2
    <3>. QED
      BY <1>2, <1>4, <1>5, <2>2, <3>1 DEF Rising
  <2>3. CASE j \in k + 1 .. k + d
    <3>1. w # None /\ j = k + 1 /\ i \in 1 .. k
      BY <1>1, <1>3, <1>4, <1>5, <2>1, <2>3, <1>2
    <3>. QED
      BY <1>2, <1>3, <1>4, <3>1
  <2>4. CASE j \in k + d + 1 .. k + d + Len(q)
    <3>1. j - k - d \in DOMAIN q /\ pipe[j] = q[j - k - d]
      BY <1>1, <1>2, <1>4, <2>4
    <3>2. CASE i \in 1 .. k
      BY <1>2, <1>4, <3>1, <3>2
    <3>3. CASE i \in k + 1 .. k + d
      <4>1. w # None /\ i = k + 1
        BY <1>1, <1>3, <1>4, <3>3
      <4>. QED
        BY <1>3, <3>1, <4>1
    <3>4. CASE i \in k + d + 1 .. k + d + Len(q)
      <4>1. i - k - d \in DOMAIN q /\ pipe[i] = q[i - k - d] /\ i - k - d < j - k - d
        BY <1>1, <1>2, <1>4, <1>5, <2>1, <3>4
      <4>. QED
        BY <3>1, <4>1 DEF Rising
    <3>. QED
      BY <1>1, <1>2, <1>4, <2>1, <3>2, <3>3, <3>4
  <2>. QED
    BY <1>1, <1>2, <1>4, <2>1, <2>2, <2>3, <2>4
<1>6. ASSUME NEW n, \/ \E i \in DOMAIN l : l[i] = n
                    \/ w = n /\ n # None
                    \/ \E j \in DOMAIN q : q[j] = n
      PROVE  \E i \in DOMAIN pipe : pipe[i] = n
  <2>1. ASSUME NEW i \in DOMAIN l, l[i] = n PROVE \E x \in DOMAIN pipe : pipe[x] = n
    <3>1. i \in DOMAIN pipe /\ pipe[i] = n
      BY <1>1, <1>2, <1>4, <2>1
    <3>. QED
      BY <3>1
  <2>2. ASSUME w = n, n # None PROVE \E x \in DOMAIN pipe : pipe[x] = n
    <3>1. k + 1 \in DOMAIN pipe /\ pipe[k + 1] = n
      BY <1>1, <1>2, <1>3, <1>4, <2>2
    <3>. QED
      BY <3>1
  <2>3. ASSUME NEW j \in DOMAIN q, q[j] = n PROVE \E x \in DOMAIN pipe : pipe[x] = n
    <3>1. j + k + d \in k + d + 1 .. k + d + Len(q) /\ (j + k + d) - k - d = j
      BY <1>1, <1>4
    <3>2. j + k + d \in DOMAIN pipe /\ pipe[j + k + d] = n
      BY <1>1, <1>2, <1>4, <2>3, <3>1
    <3>. QED
      BY <3>2
  <2>. QED
    BY <1>6, <2>1, <2>2, <2>3
<1>. QED
  BY <1>5, <1>6 DEF pipe, m, ToSet

\* The strengthening of LogKept holds of every reachable state.
THEOREM LogSafe == Spec => []LogInv
BY LogInit, BootSafe, LogStep, PTL DEF Spec

\* Public requests are logged in order and once, and a burst that the queue can
\* hold loses none while its server runs (accesslog.Middleware and its worker).
THEOREM BurstsLogged == Spec => []LogKept
<1>1. LogInv => LogKept
  <2>. SUFFICES ASSUME LogInv, NEW p \in Servers
                PROVE  LET pipe == logged[p]
                             \o (IF writing[p] = None THEN <<>> ELSE <<writing[p]>>)
                             \o queue[p]
                       IN /\ \A i, j \in DOMAIN pipe : i < j => pipe[i] < pipe[j]
                          /\ At(p, "serve") /\ faults = 0 =>
                               \A n \in since[p] + 1 .. since[p] + QueueSize :
                                  n <= count[p] => n \in ToSet(pipe)
    BY DEF LogKept
  <2>1. /\ logged[p] \in Seq(Nat) /\ queue[p] \in Seq(Nat)
        /\ writing[p] \in Nat \cup {None} /\ None \notin Nat
        /\ since[p] \in Nat /\ QueueSize \in Nat
    BY ProcessAssumption DEF LogInv
  <2>2. PipeSound(p) /\ BurstSound(p)
    BY DEF LogInv
  <2>. DEFINE pipe == logged[p] \o (IF writing[p] = None THEN <<>> ELSE <<writing[p]>>)
                                \o queue[p]
  <2>3. /\ \A i, j \in DOMAIN pipe : i < j => pipe[i] < pipe[j]
        /\ \A n : (\E i \in DOMAIN logged[p] : logged[p][i] = n)
                  \/ (writing[p] = n /\ n # None)
                  \/ (\E j \in DOMAIN queue[p] : queue[p][j] = n) => n \in ToSet(pipe)
    BY <2>1, <2>2, PipeRises DEF PipeSound
  <2>. HIDE DEF pipe
  <2>4. ASSUME At(p, "serve"), faults = 0,
               NEW n \in since[p] + 1 .. since[p] + QueueSize, n <= count[p]
        PROVE  n \in ToSet(pipe)
    <3>1. n # None
      BY <2>1
    <3>. QED
      BY <2>2, <2>3, <2>4, <3>1 DEF BurstSound
  <2>. QED
    BY <2>3, <2>4 DEF pipe
<1>. QED
  BY <1>1, LogSafe, PTL
=============================================================================
