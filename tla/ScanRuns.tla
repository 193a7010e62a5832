----------------------------- MODULE ScanRuns ------------------------------
(***************************************************************************)
(* Crawler processes that share one catalog file.  Each crawler is one     *)
(* invocation of the command: CrawlerApplication::run opens the database   *)
(* and FileSystemCrawler::crawl issues its SQL statements one after the    *)
(* other, each in a transaction of its own.  No busy timeout is set, so a  *)
(* write statement that meets another writer fails at once (SQLITE_BUSY).  *)
(*                                                                         *)
(* A write statement spans two steps: Acquire takes SQLite's write lock,   *)
(* the statement's action commits and releases it.  Any other crawler's    *)
(* write that falls between the two fails.  The directory walk is reduced  *)
(* to "some path is visited next"; DirectoryWalk models it.                *)
(***************************************************************************)
EXTENDS CatalogRepository

CONSTANTS Crawlers,   \* invocations of the crawler command
          Nobody,     \* the write lock is free
          MaxVisits,  \* bound on the entries one crawl counts
          Faults      \* the faults of the environment that may happen

FaultKinds == {"connect", "io", "stat", "iterator", "hidden_link", "kill"}

ASSUME CrawlerAssumption == /\ Nobody \notin Crawlers
                            /\ MaxVisits \in Nat
                            /\ Faults \subseteq FaultKinds

VARIABLES writer,       \* the crawler whose statement holds the write lock
          pc,           \* what each crawler does next
          rebuild,      \* should_rebuild_database
          root,         \* crawl_root_directory_path
          lastRowId,    \* sqlite3_last_insert_rowid of the connection
          runId,        \* scan_statistics.scan_run_identifier
          current,      \* the path being recorded
          accessible,   \* scan_statistics.accessible_entry_count
          inaccessible, \* scan_statistics.inaccessible_entry_count
          unreset       \* the upsert returned SQLITE_BUSY and was not reset

settings == <<rebuild, root>>
identity == <<lastRowId, runId>>
counts == <<accessible, inaccessible>>
vars == <<schema, runs, entries, sequence, writer, pc, rebuild, root,
          lastRowId, runId, current, accessible, inaccessible, unreset>>

RecordStages == {"record_root", "record_entry"}
StatementStages == SchemaObjects \cup RecordStages \cup
    {"delete_entries", "delete_runs", "insert_run", "finish_run"}
EndStages == {"done", "failed", "killed"}
Stages == StatementStages \cup EndStages \cup
    {"idle", "connect", "fetch_identifier", "open_iterator", "walk"}

Running(c) == pc[c] \notin EndStages \cup {"idle"}

TypeOK == /\ CatalogTypeOK
          /\ writer \in Crawlers \cup {Nobody}
          /\ pc \in [Crawlers -> Stages]
          /\ rebuild \in [Crawlers -> BOOLEAN]
          /\ root \in [Crawlers -> Paths \cup {NoPath}]
          /\ lastRowId \in [Crawlers -> RunIds \cup {NoRun}]
          /\ runId \in [Crawlers -> RunIds \cup {NoRun}]
          /\ current \in [Crawlers -> Paths \cup {NoPath}]
          /\ accessible \in [Crawlers -> Nat]
          /\ inaccessible \in [Crawlers -> Nat]
          /\ unreset \in [Crawlers -> BOOLEAN]

Init == /\ EmptyCatalog
        /\ writer = Nobody
        /\ pc = [c \in Crawlers |-> "idle"]
        /\ rebuild = [c \in Crawlers |-> FALSE]
        /\ root = [c \in Crawlers |-> NoPath]
        /\ lastRowId = [c \in Crawlers |-> NoRun]
        /\ runId = [c \in Crawlers |-> NoRun]
        /\ current = [c \in Crawlers |-> NoPath]
        /\ accessible = [c \in Crawlers |-> 0]
        /\ inaccessible = [c \in Crawlers |-> 0]
        /\ unreset = [c \in Crawlers |-> FALSE]

GoTo(c, stage) == pc' = [pc EXCEPT ![c] = stage]

-----------------------------------------------------------------------------
(* Starting a crawl and opening the connection.                            *)

\* A user or a timer starts the command.  The root may be the empty path:
\* the command line rejects only an empty database path.
Launch(c, path, clear) ==
    /\ pc[c] = "idle"
    /\ GoTo(c, "connect")
    /\ root' = [root EXCEPT ![c] = path]
    /\ rebuild' = [rebuild EXCEPT ![c] = clear]
    /\ UNCHANGED <<catalogVars, writer, identity, current, counts, unreset>>

Connect(c) ==
    /\ pc[c] = "connect"
    /\ GoTo(c, "scan_runs")
    /\ UNCHANGED <<catalogVars, writer, settings, identity, current, counts,
                   unreset>>

ConnectFails(c) ==
    /\ "connect" \in Faults
    /\ pc[c] = "connect"
    /\ GoTo(c, "failed")
    /\ UNCHANGED <<catalogVars, writer, settings, identity, current, counts,
                   unreset>>

-----------------------------------------------------------------------------
(* The write lock, and the ways a statement fails.                         *)

\* CREATE ... IF NOT EXISTS of an object that exists writes nothing, and an
\* empty root makes std::filesystem::absolute throw before the INSERT.
Writes(c) == /\ pc[c] \in StatementStages
             /\ ~ (pc[c] \in SchemaObjects /\ pc[c] \in schema)
             /\ ~ (pc[c] = "insert_run" /\ root[c] = NoPath)

\* record_file_system_entry resets the upsert before it steps it again.
Acquire(c) ==
    /\ Writes(c)
    /\ writer = Nobody
    /\ writer' = c
    /\ unreset' = [unreset EXCEPT ![c] = @ /\ pc[c] \notin RecordStages]
    /\ UNCHANGED <<catalogVars, pc, settings, identity, current, counts>>

Busy(c) == Writes(c) /\ writer \notin {c, Nobody}

Holds(c, stage) == writer = c /\ pc[c] = stage

\* Once the statement runs it may meet an I/O error; the upsert also fails
\* when the foreign key finds no run row.
Breaks(c) ==
    /\ Writes(c)
    /\ writer = c
    /\ \/ "io" \in Faults
       \/ pc[c] \in RecordStages /\ ~ Present(runId[c])

AfterRecord(c) == IF pc[c] = "record_root" THEN "open_iterator" ELSE "walk"

\* Mutant: a busy timeout without end, a statement waits for the lock.
StatementFailsUnlessBusy(c) ==
    /\ Breaks(c)
    /\ pc[c] \notin RecordStages
    /\ GoTo(c, "failed")
    /\ writer' = IF writer = c THEN Nobody ELSE writer
    /\ UNCHANGED <<catalogVars, settings, identity, current, counts, unreset>>

\* Outside the recording stages an exception leaves crawl(): the process ends
\* with exit code 1 and its connection is closed.
StatementFails(c) ==
    /\ Busy(c) \/ Breaks(c)
    /\ pc[c] \notin RecordStages
    /\ GoTo(c, "failed")
    /\ writer' = IF writer = c THEN Nobody ELSE writer
    /\ UNCHANGED <<catalogVars, settings, identity, current, counts, unreset>>

\* Mutant: the result of sqlite3_step is not looked at.
RecordFailsUnnoticed(c) ==
    /\ Busy(c) \/ Breaks(c)
    /\ pc[c] \in RecordStages
    /\ GoTo(c, AfterRecord(c))
    /\ accessible' = [accessible EXCEPT ![c] = @ + 1]
    /\ unreset' = [unreset EXCEPT ![c] = Busy(c)]
    /\ writer' = IF writer = c THEN Nobody ELSE writer
    /\ UNCHANGED <<catalogVars, settings, identity, current, inaccessible>>

\* The catch blocks around the recording: count the entry and go on.
\* A statement that returned SQLITE_BUSY stays active until it is reset.
RecordFails(c) ==
    /\ Busy(c) \/ Breaks(c)
    /\ pc[c] \in RecordStages
    /\ GoTo(c, AfterRecord(c))
    /\ inaccessible' = [inaccessible EXCEPT ![c] = @ + 1]
    /\ unreset' = [unreset EXCEPT ![c] = Busy(c)]
    /\ writer' = IF writer = c THEN Nobody ELSE writer
    /\ UNCHANGED <<catalogVars, settings, identity, current, accessible>>

\* lstat, stat or readlink fails before the repository is called.
StatFails(c) ==
    /\ "stat" \in Faults
    /\ pc[c] \in RecordStages
    /\ writer # c
    /\ GoTo(c, AfterRecord(c))
    /\ inaccessible' = [inaccessible EXCEPT ![c] = @ + 1]
    /\ UNCHANGED <<catalogVars, writer, settings, identity, current,
                   accessible, unreset>>

-----------------------------------------------------------------------------
(* initialize_schema, clear_catalog and begin_scan_run.                    *)

AfterSchema(c) == IF rebuild[c] THEN "delete_entries" ELSE "insert_run"

CreateObject(c, object, next) ==
    /\ pc[c] = object
    /\ Writes(c) => writer = c
    /\ CreateIfNotExists(object)
    /\ GoTo(c, next)
    /\ writer' = IF writer = c THEN Nobody ELSE writer
    /\ UNCHANGED <<settings, identity, current, counts, unreset>>

\* Mutant: file_system_entries is created before the table it references.
InitializeSchemaEntriesFirst(c) ==
    \/ CreateObject(c, "scan_runs", "indexes")
    \/ CreateObject(c, "file_system_entries", "scan_runs")
    \/ CreateObject(c, "indexes", AfterSchema(c))

InitializeSchema(c) ==
    \/ CreateObject(c, "scan_runs", "file_system_entries")
    \/ CreateObject(c, "file_system_entries", "indexes")
    \/ CreateObject(c, "indexes", AfterSchema(c))

DeleteEntries(c) ==
    /\ Holds(c, "delete_entries")
    /\ DeleteAllEntries
    /\ GoTo(c, "delete_runs")
    /\ writer' = Nobody
    /\ UNCHANGED <<settings, identity, current, counts, unreset>>

DeleteRuns(c) ==
    /\ Holds(c, "delete_runs")
    /\ DeleteAllRuns
    /\ GoTo(c, "insert_run")
    /\ writer' = Nobody
    /\ UNCHANGED <<settings, identity, current, counts, unreset>>

RootUnresolvable(c) ==
    /\ pc[c] = "insert_run"
    /\ root[c] = NoPath
    /\ GoTo(c, "failed")
    /\ UNCHANGED <<catalogVars, writer, settings, identity, current, counts,
                   unreset>>

InsertRun(c) ==
    /\ Holds(c, "insert_run")
    /\ root[c] # NoPath
    /\ InsertRunRow(root[c])
    /\ lastRowId' = [lastRowId EXCEPT ![c] = NewRunId]
    /\ GoTo(c, "fetch_identifier")
    /\ writer' = Nobody
    /\ UNCHANGED <<settings, runId, current, counts, unreset>>

\* Mutant: the identifier is read from the table (SELECT MAX).
FetchHighestIdentifier(c) ==
    /\ pc[c] = "fetch_identifier"
    /\ runId' = [runId EXCEPT ![c] = sequence]
    /\ current' = [current EXCEPT ![c] = root[c]]
    /\ GoTo(c, "record_root")
    /\ UNCHANGED <<catalogVars, writer, settings, lastRowId, counts, unreset>>

\* last_insert_rowid is a value of the connection, not of the table.
FetchIdentifier(c) ==
    /\ pc[c] = "fetch_identifier"
    /\ runId' = [runId EXCEPT ![c] = lastRowId[c]]
    /\ current' = [current EXCEPT ![c] = root[c]]
    /\ GoTo(c, "record_root")
    /\ UNCHANGED <<catalogVars, writer, settings, lastRowId, counts, unreset>>

-----------------------------------------------------------------------------
(* Recording, walking and finishing.                                       *)

\* Mutant: the root is recorded and not counted.
RecordEntryRootUncounted(c) ==
    /\ pc[c] \in RecordStages
    /\ writer = c
    /\ UpsertEntryRow(current[c], runId[c])
    /\ accessible' = [accessible EXCEPT ![c] =
                        IF pc[c] = "record_root" THEN @ ELSE @ + 1]
    /\ GoTo(c, AfterRecord(c))
    /\ writer' = Nobody
    /\ UNCHANGED <<settings, identity, current, inaccessible, unreset>>

RecordEntry(c) ==
    /\ pc[c] \in RecordStages
    /\ writer = c
    /\ UpsertEntryRow(current[c], runId[c])
    /\ accessible' = [accessible EXCEPT ![c] = @ + 1]
    /\ GoTo(c, AfterRecord(c))
    /\ writer' = Nobody
    /\ UNCHANGED <<settings, identity, current, inaccessible, unreset>>

OpenIterator(c) ==
    /\ pc[c] = "open_iterator"
    /\ GoTo(c, "walk")
    /\ UNCHANGED <<catalogVars, writer, settings, identity, current, counts,
                   unreset>>

OpenIteratorFails(c) ==
    /\ "iterator" \in Faults
    /\ pc[c] = "open_iterator"
    /\ GoTo(c, "failed")
    /\ UNCHANGED <<catalogVars, writer, settings, identity, current, counts,
                   unreset>>

NextEntry(c, path) ==
    /\ pc[c] = "walk"
    /\ accessible[c] + inaccessible[c] <= MaxVisits
    /\ current' = [current EXCEPT ![c] = path]
    /\ GoTo(c, "record_entry")
    /\ UNCHANGED <<catalogVars, writer, settings, identity, counts, unreset>>

WalkEnds(c) ==
    /\ pc[c] = "walk"
    /\ GoTo(c, "finish_run")
    /\ UNCHANGED <<catalogVars, writer, settings, identity, current, counts,
                   unreset>>

\* A failed increment is counted and leaves the end iterator behind.
IteratorError(c) ==
    /\ "iterator" \in Faults
    /\ pc[c] = "walk"
    /\ GoTo(c, "finish_run")
    /\ inaccessible' = [inaccessible EXCEPT ![c] = @ + 1]
    /\ UNCHANGED <<catalogVars, writer, settings, identity, current,
                   accessible, unreset>>

\* is_directory() of a hidden entry throws outside every try block.
HiddenCheckThrows(c) ==
    /\ "hidden_link" \in Faults
    /\ pc[c] = "walk"
    /\ GoTo(c, "failed")
    /\ UNCHANGED <<catalogVars, writer, settings, identity, current, counts,
                   unreset>>

\* While the upsert is still active SQLite does not commit the UPDATE; when
\* the destructor finalizes the upsert, the UPDATE is rolled back with it.
FinishRun(c) ==
    /\ Holds(c, "finish_run")
    /\ IF unreset[c]
       THEN UNCHANGED catalogVars
       ELSE FinishRunRow(runId[c], accessible[c], inaccessible[c])
    /\ GoTo(c, "done")
    /\ writer' = Nobody
    /\ UNCHANGED <<settings, identity, current, counts, unreset>>

\* The process is killed: an uncommitted statement is lost with it.
Kill(c) ==
    /\ "kill" \in Faults
    /\ Running(c)
    /\ GoTo(c, "killed")
    /\ writer' = IF writer = c THEN Nobody ELSE writer
    /\ UNCHANGED <<catalogVars, settings, identity, current, counts, unreset>>

-----------------------------------------------------------------------------
Step(c) == \/ Connect(c)
           \/ ConnectFails(c)
           \/ Acquire(c)
           \/ StatementFails(c)
           \/ RecordFails(c)
           \/ StatFails(c)
           \/ InitializeSchema(c)
           \/ DeleteEntries(c)
           \/ DeleteRuns(c)
           \/ RootUnresolvable(c)
           \/ InsertRun(c)
           \/ FetchIdentifier(c)
           \/ RecordEntry(c)
           \/ OpenIterator(c)
           \/ OpenIteratorFails(c)
           \/ \E path \in Paths : NextEntry(c, path)
           \/ WalkEnds(c)
           \/ IteratorError(c)
           \/ HiddenCheckThrows(c)
           \/ FinishRun(c)

Next == \E c \in Crawlers :
            \/ \E path \in Paths \cup {NoPath}, clear \in BOOLEAN :
                   Launch(c, path, clear)
            \/ Step(c)
            \/ Kill(c)

Spec == Init /\ [][Next]_vars

-----------------------------------------------------------------------------
(* What must hold of the shared catalog.                                   *)

\* Every row of file_system_entries names a row of scan_runs, although a
\* rebuild deletes the two tables in two transactions and other crawlers
\* record between them (clear_catalog, the foreign key of initialize_schema).
ReferentialIntegrity ==
    \A p \in Paths : entries[p] # NoRun => Present(entries[p])

\* Two crawls never write under one identifier, even when a rebuild deletes
\* every run while another crawl goes on (begin_scan_run).
IdentifiersUnshared ==
    \A c, d \in Crawlers :
        c # d /\ runId[c] # NoRun => runId[c] # runId[d]

\* A finished run never claims fewer readable entries than it has rows
\* (crawl counts each row it writes; later crawls only take rows away).
RowsWithinAccessibleCount ==
    \A r \in RunIds : Finished(r) =>
        Cardinality(RowsStampedBy(r)) <= runs[r].accessible

\* A crawler that exits with code 0 leaves its run finished, with the counts
\* it logged.  There are two ways to lose it: another crawler rebuilt the
\* catalog, or the last recording met SQLITE_BUSY (crawl, finish_scan_run).
SuccessIsRecorded ==
    \A c \in Crawlers : pc[c] = "done" =>
        \/ /\ Finished(runId[c])
           /\ runs[runId[c]].accessible = accessible[c]
           /\ runs[runId[c]].inaccessible = inaccessible[c]
        \/ unreset[c]
        \/ /\ ~ Present(runId[c])
           /\ \E d \in Crawlers \ {c} : rebuild[d]

\* Once finished, a run's row is final until it is deleted, and no entry is
\* stamped with it any more (finish_scan_run is the last write of a crawl).
FinishedRunsAreFrozen ==
    [][\A r \in RunIds : Finished(r) =>
          /\ runs'[r] \in {runs[r], AbsentRun}
          /\ RowsStampedBy(r)' \subseteq RowsStampedBy(r)]_vars

\* The crawlers together implement the ledger of ScanLedger.
Ledger == INSTANCE ScanLedger WITH opened <- sequence
ImplementsLedger == Ledger!Spec

\* What a reader sees of them is the view of CatalogView, which WebRequests
\* builds on.
CatalogedPaths == {p \in Paths : entries[p] # NoRun}
PresentRuns == {r \in RunIds : Present(r)}
View == INSTANCE CatalogView WITH known <- PresentRuns,
                                  cataloged <- CatalogedPaths
ImplementsView == View!Spec

\* What the documentation says and the code does not keep.

\* docs/database-schema.md: each crawl creates one row in scan_runs, which
\* records when the scan finished.
SuccessfulExitLeavesFinishedRun ==
    \A c \in Crawlers : pc[c] = "done" => Finished(runId[c])

=============================================================================
