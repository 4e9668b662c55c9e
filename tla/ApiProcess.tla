----------------------------- MODULE ApiProcess -----------------------------
(***************************************************************************)
(* Processes of the API on one database: each migrates the schema when it  *)
(* boots, then serves requests or seeds a demo store and exits.  A serving *)
(* process logs its public requests through a bounded queue that a worker  *)
(* empties.  Binaries of two versions may run side by side.                *)
(***************************************************************************)
EXTENDS Naturals, Sequences, SequencesExt

CONSTANTS
  Servers, Seeders,   \* processes
  Known,              \* the number of migrations in each process's binary
  Script,             \* a store's statements, by what a second one does
  QueueSize,          \* 1024
  MaxRequests,        \* bound: the public requests of each server
  MaxFaults,          \* bound: statements that fail, processes that die
  None

Processes == Servers \cup Seeders

ASSUME ProcessAssumption ==
  /\ Known \in [Processes -> Nat \ {0}]
  /\ Script \in Seq({"upsert", "unique", "product", "plain"})
  /\ QueueSize \in Nat \ {0} /\ MaxRequests \in [Servers -> Nat] /\ MaxFaults \in Nat
  /\ Servers \cap Seeders = {} /\ None \notin Nat

\* cmd/seed/main.go, one store: its tenant is upserted first; coupons and orders,
\* which have no unique key, come after the products.
ASSUME ScriptAssumption ==
  \A i, j \in DOMAIN Script :
    /\ i < j /\ Script[j] = "upsert" => Script[i] = "upsert"
    /\ Script[j] = "plain" => \E k \in DOMAIN Script : k < j /\ Script[k] = "product"

VARIABLES
  table,      \* schema_migrations exists
  schema,     \* the versions recorded in it
  proc,       \* each process
  copies,     \* how many rows each statement of the script has left
  queue,      \* Logger.ch of each server
  writing,    \* the entry its worker has taken
  logged,     \* access_logs: the requests of each server, in order
  count,      \* public requests each server has answered
  since,      \* ... when it started last
  faults

boot == <<table, schema>>
log == <<queue, writing, logged, count, since>>
vars == <<boot, proc, copies, log, faults>>

Versions(p) == 1 .. Known[p]
AllVersions == UNION {Versions(p) : p \in Processes}
Statements == DOMAIN Script

Process == [at      : {"off", "ensure", "create", "read", "apply", "serve",
                       "check", "seed"},
            applied : SUBSET AllVersions,      \* what Migrate has read, or done
            next    : Nat]                     \* the seeder's statement
Off == [at |-> "off", applied |-> {}, next |-> 0]

TypeOK ==
  /\ table \in BOOLEAN
  /\ schema \subseteq AllVersions
  /\ proc \in [Processes -> Process]
  /\ copies \in [Statements -> Nat]
  /\ queue \in [Servers -> Seq(Nat)]
  /\ \A p \in Servers : Len(queue[p]) <= QueueSize
  /\ writing \in [Servers -> Nat \cup {None}]
  /\ logged \in [Servers -> Seq(Nat)]
  /\ count \in [Servers -> Nat] /\ since \in [Servers -> Nat]
  /\ faults \in 0 .. MaxFaults

\* An empty database.
Init ==
  /\ table = FALSE /\ schema = {}
  /\ proc = [p \in Processes |-> Off]
  /\ copies = [i \in Statements |-> 0]
  /\ queue = [p \in Servers |-> <<>>]
  /\ writing = [p \in Servers |-> None]
  /\ logged = [p \in Servers |-> <<>>]
  /\ count = [p \in Servers |-> 0] /\ since = [p \in Servers |-> 0]
  /\ faults = 0

-----------------------------------------------------------------------------
(* Migrate *)

At(p, point) == proc[p].at = point
Goto(p, point) == proc' = [proc EXCEPT ![p].at = point]
Fault == faults < MaxFaults /\ faults' = faults + 1

\* os.Exit: what the process holds is gone.
Exit(p) == proc' = [proc EXCEPT ![p] = Off]

\* main, up to the connection that db.Connect has verified.
Start(p) ==
  /\ At(p, "off")
  /\ Goto(p, "ensure")
  /\ since' = IF p \in Servers THEN [since EXCEPT ![p] = count[p]] ELSE since
  /\ UNCHANGED <<boot, copies, queue, writing, logged, count, faults>>

\* CREATE TABLE IF NOT EXISTS looks for the table,
EnsureTable(p) ==
  /\ At(p, "ensure")
  /\ Goto(p, IF table THEN "read" ELSE "create")
  /\ UNCHANGED <<boot, copies, log, faults>>

\* and clashes in the database's own catalog with one who creates it meanwhile.
CreateTable(p) ==
  /\ At(p, "create")
  /\ IF table THEN Exit(p) ELSE Goto(p, "read")
  /\ table' = TRUE
  /\ UNCHANGED <<schema, copies, log, faults>>

\* Mutant: what the SELECT returns is not kept.
ReadNothing(p) ==
  /\ At(p, "read")
  /\ Goto(p, "apply")
  /\ UNCHANGED <<boot, copies, log, faults>>

\* SELECT version; rows.Err is not asked, so a read that breaks off is taken
\* for the whole.
ReadApplied(p) ==
  /\ At(p, "read")
  /\ \/ /\ proc' = [proc EXCEPT ![p].at = "apply", ![p].applied = schema \cap Versions(p)]
        /\ UNCHANGED faults
     \/ \E part \in SUBSET (schema \cap Versions(p)) :
          Fault /\ proc' = [proc EXCEPT ![p].at = "apply", ![p].applied = part]
  /\ UNCHANGED <<boot, copies, log>>

Pending(p) == Versions(p) \ proc[p].applied

\* Mutant: migrations are applied as the directory lists them, unsorted.
AnyOrder(p) == Pending(p)

\* loadMigrations sorts them by version.
Lowest(p) == {v \in Pending(p) : \A w \in Pending(p) : v <= w}

\* Mutant: a migration that fails is taken for done, and the rest is left.
ApplyNextGoOn(p) ==
  /\ At(p, "apply")
  /\ \E v \in Lowest(p) :
       IF v \in schema
       THEN Goto(p, IF p \in Servers THEN "serve" ELSE "check") /\ UNCHANGED schema
       ELSE /\ schema' = schema \cup {v}
            /\ proc' = [proc EXCEPT ![p].applied = @ \cup {v}]
  /\ UNCHANGED <<table, copies, log, faults>>

\* One transaction: the script and its version.  Where another process has
\* committed that version since, its tables or its key are in the way; the
\* commit may also be done with its answer lost.
ApplyNext(p) ==
  /\ At(p, "apply")
  /\ \E v \in Lowest(p) :
       \/ /\ v \notin schema
          /\ schema' = schema \cup {v}
          /\ \/ /\ proc' = [proc EXCEPT ![p].applied = @ \cup {v}]
                /\ UNCHANGED faults
             \/ Fault /\ Exit(p)
       \/ v \in schema /\ Exit(p) /\ UNCHANGED <<schema, faults>>
  /\ UNCHANGED <<table, copies, log>>

\* Migrate returns: a server listens, a seeder goes on.
Migrated(p) ==
  /\ At(p, "apply") /\ Pending(p) = {}
  /\ IF p \in Servers THEN Goto(p, "serve")
     ELSE proc' = [proc EXCEPT ![p].at = "check", ![p].next = 1]
  /\ UNCHANGED <<boot, copies, log, faults>>

-----------------------------------------------------------------------------
(* The seeder *)

\* hasProducts: an error counts as none.
HasProducts == \E i \in Statements : Script[i] = "product" /\ copies[i] > 0

\* upsertTenant, then the store's rows if it has no products yet.
SeedCheck(p) ==
  /\ At(p, "check")
  /\ IF proc[p].next \in Statements /\ Script[proc[p].next] = "upsert"
     THEN /\ copies' = [copies EXCEPT ![proc[p].next] = 1]
          /\ proc' = [proc EXCEPT ![p].next = @ + 1]
          /\ UNCHANGED faults
     ELSE /\ \/ IF HasProducts THEN Exit(p) /\ UNCHANGED faults
                               ELSE Goto(p, "seed") /\ UNCHANGED faults
             \/ Fault /\ Goto(p, "seed")
          /\ UNCHANGED copies
  /\ UNCHANGED <<boot, log>>

\* Mutant: the tables of the store have no unique keys.
SeedAny(p) ==
  /\ At(p, "seed") /\ proc[p].next \in Statements
  /\ copies' = [copies EXCEPT ![proc[p].next] = @ + 1]
  /\ proc' = [proc EXCEPT ![p].next = @ + 1]
  /\ UNCHANGED <<boot, log, faults>>

\* The rows one after the other; must() exits at the first that is refused.
SeedNext(p) ==
  LET i == proc[p].next IN
  /\ At(p, "seed") /\ i \in Statements
  /\ IF Script[i] \in {"unique", "product"} /\ copies[i] > 0
     THEN Exit(p) /\ UNCHANGED copies
     ELSE /\ copies' = [copies EXCEPT ![i] = @ + 1]
          /\ proc' = [proc EXCEPT ![p].next = @ + 1]
  /\ UNCHANGED <<boot, log, faults>>

Seeded(p) ==
  /\ At(p, "seed") /\ proc[p].next \notin Statements
  /\ Exit(p)
  /\ UNCHANGED <<boot, copies, log, faults>>

-----------------------------------------------------------------------------
(* The access log of a server *)

\* Mutant: a full queue loses its oldest entry.
LogRequestNewest(p) ==
  /\ At(p, "serve") /\ count[p] < MaxRequests[p]
  /\ count' = [count EXCEPT ![p] = @ + 1]
  /\ queue' = [queue EXCEPT ![p] = IF Len(@) < QueueSize THEN Append(@, count[p] + 1)
                                   ELSE Append(Tail(@), count[p] + 1)]
  /\ UNCHANGED <<boot, proc, copies, writing, logged, since, faults>>

\* Middleware, once the request is answered: a full queue drops the entry.
LogRequest(p) ==
  /\ At(p, "serve") /\ count[p] < MaxRequests[p]
  /\ count' = [count EXCEPT ![p] = @ + 1]
  /\ queue' = [queue EXCEPT ![p] = IF Len(@) < QueueSize THEN Append(@, count[p] + 1)
                                                         ELSE @]
  /\ UNCHANGED <<boot, proc, copies, writing, logged, since, faults>>

\* worker receives an entry,
TakeEntry(p) ==
  /\ At(p, "serve") /\ writing[p] = None /\ queue[p] # <<>>
  /\ writing' = [writing EXCEPT ![p] = Head(queue[p])]
  /\ queue' = [queue EXCEPT ![p] = Tail(@)]
  /\ UNCHANGED <<boot, proc, copies, logged, count, since, faults>>

\* Mutant: the worker returns at the first error; 0 is no entry.
WriteEntryReturns(p) ==
  /\ At(p, "serve") /\ writing[p] \notin {None, 0}
  /\ \/ /\ logged' = [logged EXCEPT ![p] = Append(@, writing[p])]
        /\ writing' = [writing EXCEPT ![p] = None] /\ UNCHANGED faults
     \/ Fault /\ writing' = [writing EXCEPT ![p] = 0] /\ UNCHANGED logged
  /\ UNCHANGED <<boot, proc, copies, queue, count, since>>

\* and inserts it: an INSERT that fails, or whose answer is late, is reported
\* and not tried again.
WriteEntry(p) ==
  /\ At(p, "serve") /\ writing[p] # None
  /\ \/ logged' = [logged EXCEPT ![p] = Append(@, writing[p])] /\ UNCHANGED faults
     \/ Fault /\ UNCHANGED logged
  /\ writing' = [writing EXCEPT ![p] = None]
  /\ UNCHANGED <<boot, proc, copies, queue, count, since>>

-----------------------------------------------------------------------------
\* SIGTERM: Shutdown waits for requests, and nothing for the worker.
Stop(p) ==
  /\ p \in Servers /\ At(p, "serve")
  /\ Exit(p)
  /\ queue' = [queue EXCEPT ![p] = <<>>] /\ writing' = [writing EXCEPT ![p] = None]
  /\ UNCHANGED <<boot, copies, logged, count, since, faults>>

\* A statement fails, or the process dies, before it serves.
Die(p) ==
  /\ ~At(p, "off") /\ ~At(p, "serve")
  /\ Fault /\ Exit(p)
  /\ UNCHANGED <<boot, copies, log>>

Step(p) ==
  \/ EnsureTable(p) \/ CreateTable(p) \/ ReadApplied(p) \/ ApplyNext(p) \/ Migrated(p)
  \/ SeedCheck(p) \/ SeedNext(p) \/ Seeded(p)

Worker(p) == TakeEntry(p) \/ WriteEntry(p)

Next ==
  \/ \E p \in Processes : Start(p) \/ Step(p) \/ Die(p)
  \/ \E p \in Servers : LogRequest(p) \/ Worker(p) \/ Stop(p)

\* Processes and workers run on; an exited process is started again, by whoever
\* runs it (the repository does not say who).
Fairness ==
  /\ \A p \in Processes : WF_vars(Step(p)) /\ WF_vars(Start(p))
  /\ \A p \in Servers : WF_vars(Worker(p))

Spec == Init /\ [][Next]_vars /\ Fairness
-----------------------------------------------------------------------------
(* Properties *)

\* Migrations are applied in the order of their versions, through processes that
\* boot at once, binaries that know fewer, partial reads and crashes: what is
\* recorded has no gap.
NoGap == \A v \in schema : \A w \in 1 .. v : w \in schema

\* Whoever serves or seeds has every migration of its binary, whatever it read.
SchemaComplete ==
  \A p \in Processes :
    proc[p].at \in {"serve", "check", "seed"} => Versions(p) \subseteq schema

\* Demo rows exist once, although the last of them have no unique key and
\* seeders may run at once, die anywhere, or fail to see that products exist.
SeededOnce == \A i \in Statements : copies[i] <= 1

\* A server's entries are logged in the order of its requests and none twice;
\* and a burst that the queue can hold is logged whole: without failures, no
\* entry of the first QueueSize requests after a start is lost while it runs.
LogKept ==
  \A p \in Servers :
    LET pipe == logged[p] \o (IF writing[p] = None THEN <<>> ELSE <<writing[p]>>)
                          \o queue[p]
    IN /\ \A i, j \in DOMAIN pipe : i < j => pipe[i] < pipe[j]
       /\ At(p, "serve") /\ faults = 0 =>
            \A n \in since[p] + 1 .. since[p] + QueueSize :
               n <= count[p] => n \in ToSet(pipe)

\* Every server that is started again whenever it exits comes to serve, although
\* booting at once makes all but one of them exit at each migration.
ComesUp == \A p \in Servers : []<>At(p, "serve")

\* A queued entry is written, unless it fails or its process ends first.
EntriesSettle ==
  \A p \in Servers : [](queue[p] # <<>> => <>(queue[p] = <<>>))

\* The inductive strengthening of NoGap and SchemaComplete: what a process takes
\* for applied has been applied.
BootInv ==
  /\ proc \in [Processes -> Process]
  /\ \A p \in Processes : proc[p].applied \subseteq schema \cap Versions(p)
  /\ NoGap /\ SchemaComplete

\* The inductive strengthening of SeededOnce: rows are inserted in the order of
\* the script, so whoever has inserted a product has no rival after it.
PastProduct(p, n) == At(p, "seed") /\ n < proc[p].next /\ Script[n] = "product"

SeederSound(p) ==
  LET next == proc[p].next IN
  /\ At(p, "check") => next > 0 /\ \A i \in Statements : i < next => Script[i] = "upsert"
  /\ At(p, "check") \/ At(p, "seed") => \A i \in Statements : i < next => copies[i] > 0
  /\ At(p, "seed") => \A i \in Statements : i >= next =>
       /\ Script[i] # "upsert"
       /\ Script[i] = "plain" /\ (\E n \in Statements : PastProduct(p, n)) => copies[i] = 0

SeedInv ==
  /\ copies \in [Statements -> Nat]
  /\ \A i, j \in Statements :
       j < i /\ copies[i] > 0 /\ Script[i] # "upsert" => copies[j] > 0
  /\ \A p \in Processes : SeederSound(p)
  /\ \A p, q \in Processes : p # q =>
       \A n \in Statements : ~(PastProduct(p, n) /\ PastProduct(q, n))
  /\ SeededOnce

\* The inductive strengthening of LogKept, entry by entry: what is queued comes
\* after what the worker holds, and that after what it has written; and a queue
\* holds no more than the requests since the start.
Rising(seq) == \A i, j \in DOMAIN seq : i < j => seq[i] < seq[j]

PipeSound(p) ==
  /\ Rising(logged[p]) /\ Rising(queue[p])
  /\ \A i \in DOMAIN logged[p] :
       /\ logged[p][i] <= count[p]
       /\ writing[p] # None => logged[p][i] < writing[p]
       /\ \A j \in DOMAIN queue[p] : logged[p][i] < queue[p][j]
  /\ writing[p] # None =>
       writing[p] <= count[p] /\ \A j \in DOMAIN queue[p] : writing[p] < queue[p][j]
  /\ \A j \in DOMAIN queue[p] : queue[p][j] <= count[p]
  /\ since[p] + Len(queue[p]) <= count[p]

BurstSound(p) ==
  /\ ~At(p, "serve") => queue[p] = <<>> /\ writing[p] = None
  /\ ~At(p, "serve") /\ ~At(p, "off") => count[p] = since[p]
  /\ At(p, "serve") /\ faults = 0 =>
       \A n \in since[p] + 1 .. since[p] + QueueSize :
          n <= count[p] => \/ \E i \in DOMAIN logged[p] : logged[p][i] = n
                           \/ writing[p] = n
                           \/ \E j \in DOMAIN queue[p] : queue[p][j] = n

LogInv ==
  /\ faults \in Nat
  /\ queue \in [Servers -> Seq(Nat)] /\ logged \in [Servers -> Seq(Nat)]
  /\ writing \in [Servers -> Nat \cup {None}]
  /\ count \in [Servers -> Nat] /\ since \in [Servers -> Nat]
  /\ \A p \in Servers : PipeSound(p) /\ BurstSound(p)
=============================================================================
