----------------------------- MODULE LegacyLoad -----------------------------
(***************************************************************************)
(* The migration tool: rows of the legacy database are loaded into the new *)
(* one, table after table in one transaction, as often as the operator     *)
(* likes, while sellers already work on the new system.  A row's columns   *)
(* are two: `head' is what a later load overwrites, `rest' what it leaves. *)
(***************************************************************************)
EXTENDS Naturals, FiniteSets

CONSTANTS
  Rows,          \* rows of either database; row_uuid gives both the same id
  LiveRows,      \* ... those that only sellers create
  Tables,        \* in the order they are loaded: 1 .. Tables
  Overwritten,   \* tables loaded with ON CONFLICT (id) DO UPDATE
  TableOf, Refs, \* of each row: its table, the rows its foreign keys name
  Key,           \* its UNIQUE columns besides the id, Absent for none
  Versions,      \* of a legacy row
  MaxRuns, MaxLoadFaults, MaxLive,   \* bounds: loads, failures, sellers' edits
  Live, Absent

Row == [head : Versions \cup {Live}, rest : Versions \cup {Live}]

ASSUME LoadAssumption ==
  /\ IsFiniteSet(Rows)
  /\ LiveRows \subseteq Rows /\ Overwritten \subseteq 1 .. Tables
  /\ TableOf \in [Rows -> 1 .. Tables] /\ Refs \in [Rows -> SUBSET Rows]
  /\ DOMAIN Key = Rows
  /\ {Tables, MaxRuns, MaxLoadFaults, MaxLive} \subseteq Nat
  /\ {Live, Absent} \cap Versions = {} /\ Absent \notin Row

VARIABLES
  legacy,    \* the legacy database
  db,        \* the new one
  tx,        \* what the load under way has written
  at,        \* the table it is to load next, 0 if none is under way
  runs, loadFaults, live,
  (* history *)
  read,      \* rows that it has read
  edited,    \* rows that sellers edited
  deleted    \* rows that sellers deleted

loadVars == <<legacy, db, tx, at, runs, loadFaults, live, read, edited, deleted>>

NoTx == [r \in Rows |-> Absent]

LoadTypeOK ==
  /\ legacy \in [Rows -> Versions \cup {Absent}]
  /\ db \in [Rows -> Row \cup {Absent}]
  /\ tx \in [Rows -> Row \cup {Absent}]
  /\ at \in 0 .. Tables + 1
  /\ runs \in 0 .. MaxRuns /\ loadFaults \in 0 .. MaxLoadFaults /\ live \in 0 .. MaxLive
  /\ read \subseteq Rows /\ edited \subseteq Rows /\ deleted \subseteq Rows

\* The new database has been migrated and is empty.
LoadInit ==
  /\ legacy \in [Rows -> Versions \cup {Absent}]
  /\ \A r \in LiveRows : legacy[r] = Absent
  /\ db = NoTx /\ tx = NoTx /\ at = 0
  /\ runs = 0 /\ loadFaults = 0 /\ live = 0
  /\ read = {} /\ edited = {} /\ deleted = {}

-----------------------------------------------------------------------------
LoadFault == loadFaults < MaxLoadFaults /\ loadFaults' = loadFaults + 1

\* The rows as the transaction sees them: its own, and what others committed.
Seen(r) == IF tx[r] # Absent THEN tx[r] ELSE db[r]

EndLoad == at' = 0 /\ tx' = NoTx /\ read' = {}

\* cmd_migrate connects.
Begin ==
  /\ at = 0 /\ runs < MaxRuns
  /\ runs' = runs + 1 /\ at' = 1
  /\ UNCHANGED <<legacy, db, tx, loadFaults, live, read, edited, deleted>>

\* Mutant: the whole row is loaded again.
MergedWhole(r) == [head |-> legacy[r], rest |-> legacy[r]]

\* INSERT ... ON CONFLICT (id): a row that is there gets its head, or nothing.
Merged(r) ==
  IF Seen(r) = Absent THEN [head |-> legacy[r], rest |-> legacy[r]]
  ELSE IF TableOf[r] \in Overwritten THEN [Seen(r) EXCEPT !.head = legacy[r]]
  ELSE Seen(r)

ToLoad == {r \in Rows : TableOf[r] = at /\ legacy[r] # Absent}

\* A new row whose foreign keys or unique columns stand in the way; keys count
\* among the rows that are loaded with it, too.
Refused(r) ==
  /\ Seen(r) = Absent
  /\ \/ \E p \in Refs[r] : Seen(p) = Absent
     \/ /\ Key[r] # Absent
        /\ \E q \in Rows \ {r} : Key[q] = Key[r] /\ (Seen(q) # Absent \/ q \in ToLoad)

Wrote(rs) ==
  tx' = [r \in Rows |-> IF r \in rs /\ (Seen(r) = Absent \/ TableOf[r] \in Overwritten)
                        THEN Merged(r) ELSE tx[r]]

\* Mutant: ON CONFLICT DO NOTHING, whatever the conflict.
LoadTableSkip ==
  /\ at \in 1 .. Tables
  /\ at' = at + 1 /\ read' = read \cup ToLoad
  /\ Wrote({r \in ToLoad : ~Refused(r)})
  /\ UNCHANGED <<legacy, db, runs, loadFaults, live, edited, deleted>>

\* The rows of one table: _safe_rows reads them, and a read that fails is an
\* empty table; the first row that is refused rolls everything back.
LoadTable ==
  /\ at \in 1 .. Tables
  /\ \/ /\ ~\E r \in ToLoad : Refused(r)
        /\ at' = at + 1 /\ read' = read \cup ToLoad
        /\ Wrote(ToLoad) /\ UNCHANGED loadFaults
     \/ (\E r \in ToLoad : Refused(r)) /\ EndLoad /\ UNCHANGED loadFaults
     \/ LoadFault /\ at' = at + 1 /\ UNCHANGED <<tx, read>>
  /\ UNCHANGED <<legacy, db, runs, live, edited, deleted>>

Commit ==
  /\ at = Tables + 1
  /\ db' = [r \in Rows |-> Seen(r)]
  /\ EndLoad
  /\ UNCHANGED <<legacy, runs, loadFaults, live, edited, deleted>>

\* The tool dies, or a statement fails: rolled back.
Abort ==
  /\ at # 0
  /\ LoadFault /\ EndLoad
  /\ UNCHANGED <<legacy, db, runs, live, edited, deleted>>

-----------------------------------------------------------------------------
(* Both databases in use *)

\* The legacy system goes on, too: rows are added and edited.
LegacyWrite(r, v) ==
  /\ r \notin LiveRows
  /\ legacy[r] # v
  /\ live < MaxLive /\ live' = live + 1
  /\ legacy' = [legacy EXCEPT ![r] = v]
  /\ UNCHANGED <<db, tx, at, runs, loadFaults, read, edited, deleted>>

\* A row that the transaction has written is locked.
LiveEdit(r) ==
  /\ db[r] # Absent /\ tx[r] = Absent
  /\ live < MaxLive /\ live' = live + 1
  /\ db' = [db EXCEPT ![r] = [head |-> Live, rest |-> Live]]
  /\ edited' = edited \cup {r}
  /\ UNCHANGED <<legacy, tx, at, runs, loadFaults, read, deleted>>

LiveCreate(r) ==
  /\ r \in LiveRows /\ Seen(r) = Absent
  /\ live < MaxLive /\ live' = live + 1
  /\ \A p \in Refs[r] : db[p] # Absent
  /\ Key[r] # Absent => \A q \in Rows \ {r} : Key[q] = Key[r] => Seen(q) = Absent
  /\ db' = [db EXCEPT ![r] = [head |-> Live, rest |-> Live]]
  /\ edited' = edited \cup {r}
  /\ UNCHANGED <<legacy, tx, at, runs, loadFaults, read, deleted>>

\* Not a tenant, and a row that nothing refers to.
LiveDelete(r) ==
  /\ Refs[r] # {}
  /\ db[r] # Absent /\ tx[r] = Absent
  /\ \A q \in Rows : r \in Refs[q] => Seen(q) = Absent
  /\ live < MaxLive /\ live' = live + 1
  /\ db' = [db EXCEPT ![r] = Absent]
  /\ edited' = edited \ {r} /\ deleted' = deleted \cup {r}
  /\ UNCHANGED <<legacy, tx, at, runs, loadFaults, read>>

LoadNext ==
  \/ Begin \/ LoadTable \/ Commit \/ Abort
  \/ \E r \in Rows : \/ LiveEdit(r) \/ LiveCreate(r) \/ LiveDelete(r)
                     \/ \E v \in Versions : LegacyWrite(r, v)

LoadSpec == LoadInit /\ [][LoadNext]_loadVars
-----------------------------------------------------------------------------
Count(rows, k) == Cardinality({r \in Rows : TableOf[r] = k /\ rows[r] # Absent})

\* Mutant: the last table's comparison is the verdict.
MatchesLast == Count(legacy, Tables) = Count(db, Tables)

\* reconcile: the numbers of rows of each table.
Matches == \A k \in 1 .. Tables : Count(legacy, k) = Count(db, k)

(* Properties *)

\* A load that commits leaves every row it has read in the new database, unless
\* a seller deleted it: no constraint drops a row silently.
RowsArrive ==
  [][at = Tables + 1 /\ at' = 0 /\ loadFaults' = loadFaults =>
       \A r \in read : db'[r] # Absent \/ r \in deleted]_loadVars

\* "idempotent on re-run": what sellers have written survives later loads,
\* except the columns that the tool means to refresh: a name, a price, an
\* address; and orders, customers and coupons survive whole.
LiveKept ==
  \A r \in edited :
    db[r].rest = Live /\ (TableOf[r] \notin Overwritten => db[r].head = Live)

\* A reconciliation that finds equal numbers of rows means that every legacy row
\* is there, as long as nobody has created or deleted rows in the new system.
ReconcileSound ==
  edited \cap LiveRows = {} /\ deleted = {} /\ Matches =>
    \A r \in Rows : legacy[r] # Absent => db[r] # Absent

\* The inductive strengthening: what the transaction will write over a seller's
\* row keeps it, and what it has read is there to be committed.
Keeps(what, r) ==
  what.rest = Live /\ (TableOf[r] \notin Overwritten => what.head = Live)

LoadInv ==
  /\ LoadTypeOK
  /\ \A r \in edited :
       /\ db[r] # Absent /\ Keeps(db[r], r)
       /\ tx[r] # Absent => Keeps(tx[r], r)
  /\ \A r \in read : Seen(r) # Absent \/ r \in deleted

\* The inductive strengthening of ReconcileSound: a row of the new database was
\* loaded, or created by a seller.
Loaded ==
  \A r \in Rows :
    db[r] # Absent \/ tx[r] # Absent => legacy[r] # Absent \/ r \in edited \cap LiveRows
=============================================================================
