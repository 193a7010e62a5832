------------------------- MODULE CatalogRepository -------------------------
(***************************************************************************)
(* The SQLite catalog as FileSystemCatalogRepository leaves it: the two    *)
(* tables, the AUTOINCREMENT sequence, and one operator per SQL statement  *)
(* the repository issues.  SQLite itself is external: a statement outside  *)
(* a transaction takes effect in one step or not at all.                   *)
(***************************************************************************)
EXTENDS Integers, FiniteSets

CONSTANTS Paths,    \* absolute paths the crawls may meet
          NoPath,   \* the empty path: no root was given
          MaxRuns   \* bound on the identifiers AUTOINCREMENT hands out

ASSUME CatalogAssumption == /\ IsFiniteSet(Paths)
                            /\ NoPath \notin Paths
                            /\ MaxRuns \in Nat

VARIABLES schema,   \* the schema objects that exist
          runs,     \* scan_runs, by scan_run_identifier
          entries,  \* file_system_entries: path -> scan_run_identifier
          sequence  \* the AUTOINCREMENT counter of scan_runs

catalogVars == <<schema, runs, entries, sequence>>

RunIds == 1 .. MaxRuns
NoRun == 0          \* entries[p] = NoRun: the path has no row

SchemaObjects == {"scan_runs", "file_system_entries", "indexes"}

RunRows == [status       : {"absent", "started", "finished"},
            root         : Paths \cup {NoPath},
            accessible   : Nat,
            inaccessible : Nat]

AbsentRun ==
    [status |-> "absent", root |-> NoPath, accessible |-> 0, inaccessible |-> 0]

CatalogTypeOK == /\ schema \subseteq SchemaObjects
                 /\ runs \in [RunIds -> RunRows]
                 /\ entries \in [Paths -> RunIds \cup {NoRun}]
                 /\ sequence \in 0 .. MaxRuns

EmptyCatalog == /\ schema = {}
                /\ runs = [r \in RunIds |-> AbsentRun]
                /\ entries = [p \in Paths |-> NoRun]
                /\ sequence = 0

Present(r) == r \in RunIds /\ runs[r].status # "absent"
Finished(r) == r \in RunIds /\ runs[r].status = "finished"

RowsStampedBy(r) == {p \in Paths : entries[p] = r}

-----------------------------------------------------------------------------
(* The statements.                                                         *)

CreateIfNotExists(object) == /\ schema' = schema \cup {object}
                             /\ UNCHANGED <<runs, entries, sequence>>

DeleteAllEntries == /\ entries' = [p \in Paths |-> NoRun]
                    /\ UNCHANGED <<schema, runs, sequence>>

\* Mutant: no ON DELETE CASCADE.
DeleteAllRunsUncascaded ==
    /\ runs' = [r \in RunIds |-> AbsentRun]
    /\ UNCHANGED <<schema, entries, sequence>>

\* ON DELETE CASCADE: the rows of the deleted runs go with them.
DeleteAllRuns ==
    /\ runs' = [r \in RunIds |-> AbsentRun]
    /\ entries' = [p \in Paths |->
                     IF Present(entries[p]) THEN NoRun ELSE entries[p]]
    /\ UNCHANGED <<schema, sequence>>

\* Mutant: INTEGER PRIMARY KEY without AUTOINCREMENT.
NewRunIdReused == Cardinality({r \in RunIds : Present(r)}) + 1

\* The identifier an INSERT INTO scan_runs is given; AUTOINCREMENT never
\* returns to a deleted one.
NewRunId == sequence + 1

InsertRunRow(root) ==
    /\ NewRunId \in RunIds
    /\ sequence' = NewRunId
    /\ runs' = [runs EXCEPT ![NewRunId] =
                  [AbsentRun EXCEPT !.status = "started", !.root = root]]
    /\ UNCHANGED <<schema, entries>>

\* Mutant: foreign keys are not enforced (no PRAGMA foreign_keys).
UpsertEntryRowUnreferenced(path, run) ==
    /\ entries' = [entries EXCEPT ![path] = run]
    /\ UNCHANGED <<schema, runs, sequence>>

\* ON CONFLICT(absolute_path) DO UPDATE: an existing row changes its stamp.
\* The foreign key rejects a stamp whose run is gone.
UpsertEntryRow(path, run) ==
    /\ Present(run)
    /\ entries' = [entries EXCEPT ![path] = run]
    /\ UNCHANGED <<schema, runs, sequence>>

\* Mutant: the root is taken off the count of readable entries.
FinishRunRowWithoutRoot(run, readable, unreadable) ==
    /\ Present(run)
    /\ runs' = [runs EXCEPT ![run] =
                  [@ EXCEPT !.status = "finished", !.accessible = readable - 1,
                            !.inaccessible = unreadable]]
    /\ UNCHANGED <<schema, entries, sequence>>

\* Mutant: the count of unreadable entries is not bound.
FinishRunRowUnbound(run, readable, unreadable) ==
    /\ runs' = [r \in RunIds |->
                  IF r = run /\ Present(r)
                  THEN [runs[r] EXCEPT !.status = "finished",
                                       !.accessible = readable]
                  ELSE runs[r]]
    /\ UNCHANGED <<schema, entries, sequence>>

\* An UPDATE that matches no row succeeds and changes nothing.
FinishRunRow(run, readable, unreadable) ==
    /\ runs' = [r \in RunIds |->
                  IF r = run /\ Present(r)
                  THEN [status |-> "finished", root |-> runs[r].root,
                        accessible |-> readable, inaccessible |-> unreadable]
                  ELSE runs[r]]
    /\ UNCHANGED <<schema, entries, sequence>>

=============================================================================
