---------------------------- MODULE WebRequests ----------------------------
(***************************************************************************)
(* The web application beside the crawlers.  A server is one process: the  *)
(* launcher script rewrites the one generated configuration file and then  *)
(* becomes PHP's built-in server, which answers one request at a time.     *)
(* Nothing is kept between requests: each one loads the configuration,     *)
(* queries the catalog, writes a log line and answers.  What a request     *)
(* computed is forgotten here as soon as no later step reads it.           *)
(*                                                                         *)
(* The crawlers are those of CatalogView.  Each query is a transaction of  *)
(* its own, so the catalog changes between two queries of one page.  All   *)
(* configurations name the same catalog and the same log file.             *)
(***************************************************************************)
EXTENDS Integers, FiniteSets, FiniteSetsExt

CONSTANTS Paths,           \* absolute paths
          MaxRuns,         \* bound on the identifiers
          Servers,         \* invocations of the launcher
          Configurations,  \* what a launcher may write
          Valid,           \* those the schema accepts
          NoConfiguration, \* the file is missing or not well-formed
          RecentLimit,     \* the scan runs a home page lists
          LogDepth         \* the directories above the log file

ASSUME WebAssumption == /\ IsFiniteSet(Paths)
                        /\ MaxRuns \in Nat
                        /\ Valid \subseteq Configurations
                        /\ NoConfiguration \notin Configurations
                        /\ RecentLimit \in Nat
                        /\ LogDepth \in Nat \ {0}

VARIABLES schema, known, cataloged,  \* the catalog, as in CatalogView
          types,          \* entry_type of each cataloged path
          configuration,  \* what the generated configuration file holds
          logLevel,       \* how many of the log directories exist
          writable,       \* whether the log directories can be written
          pc,             \* what each server does next
          own,            \* the configuration a launcher writes
          document,       \* the XML document that was validated
          used,           \* the configuration the request runs with
          page,           \* the numbers read for the home page
          creating,       \* the directory level mkdir creates next
          failure         \* why the last request failed

\* History variables: what befell a request while it was being served.
VARIABLES rewritten,  \* the configuration file changed while it was loaded
          disturbed,  \* rows were erased or retyped while they were queried
          cleaned     \* log directories were removed while it was logged

catalogVars == <<schema, known, cataloged, types>>
requestVars == <<document, used, page, creating, failure>>
historyVars == <<rewritten, disturbed, cleaned>>
vars == <<catalogVars, configuration, logLevel, writable, pc, own,
          requestVars, historyVars>>

EntryTypes == {"directory", "file", "other"}
HomeQueries == {"entryCount", "scanRunCount", "directoryCount", "fileCount",
                "recentScanRuns"}
Queries == HomeQueries \cup {"search"}
PageStages == Queries \cup {"log_check"}
LaunchStages == {"down", "truncate", "write", "listen"}
LogStages == {"log_check", "log_mkdir", "log_recheck", "log_write"}
LoadStages == {"check_file", "load", "validate", "reparse"}
RequestStages == LoadStages \cup {"connect"} \cup Queries \cup LogStages
                   \cup {"answer"}
Stages == LaunchStages \cup {"idle"} \cup RequestStages
Failures == {"none", "configuration", "database", "table", "directory", "log"}

Blank == [q \in HomeQueries |-> 0]

TypeOK == /\ schema \subseteq {"scan_runs", "file_system_entries", "indexes"}
          /\ known \subseteq 1 .. MaxRuns
          /\ cataloged \subseteq Paths
          /\ types \in [Paths -> EntryTypes]
          /\ configuration \in Configurations \cup {NoConfiguration}
          /\ logLevel \in 0 .. LogDepth
          /\ writable \in BOOLEAN
          /\ pc \in [Servers -> Stages]
          /\ own \in [Servers -> Configurations \cup {NoConfiguration}]
          /\ document \in [Servers -> Configurations \cup {NoConfiguration}]
          /\ used \in [Servers -> Configurations \cup {NoConfiguration}]
          /\ page \in [Servers -> [HomeQueries -> Nat]]
          /\ creating \in [Servers -> 0 .. LogDepth]
          /\ failure \in [Servers -> Failures]
          /\ rewritten \in [Servers -> BOOLEAN]
          /\ disturbed \in [Servers -> BOOLEAN]
          /\ cleaned \in [Servers -> BOOLEAN]

Catalog == INSTANCE CatalogView

Init == /\ Catalog!Init
        /\ types = [p \in Paths |-> "other"]
        /\ configuration = NoConfiguration
        /\ logLevel = 0
        /\ writable \in BOOLEAN
        /\ pc = [s \in Servers |-> "down"]
        /\ own = [s \in Servers |-> NoConfiguration]
        /\ document = [s \in Servers |-> NoConfiguration]
        /\ used = [s \in Servers |-> NoConfiguration]
        /\ page = [s \in Servers |-> Blank]
        /\ creating = [s \in Servers |-> 0]
        /\ failure = [s \in Servers |-> "none"]
        /\ rewritten = [s \in Servers |-> FALSE]
        /\ disturbed = [s \in Servers |-> FALSE]
        /\ cleaned = [s \in Servers |-> FALSE]

GoTo(s, stage) == pc' = [pc EXCEPT ![s] = stage]

\* What happens to the file, the rows or the log is remembered for every
\* request that is at one of the given stages.
Befalls(history, stages) ==
    history' = [s \in Servers |-> history[s] \/ pc[s] \in stages]

-----------------------------------------------------------------------------
(* The crawlers.                                                           *)

Record(p, type) ==
    /\ Catalog!RecordPath(p)
    /\ types' = [types EXCEPT ![p] = type]
    /\ IF p \in cataloged /\ type # types[p]
       THEN Befalls(disturbed, PageStages)
       ELSE UNCHANGED disturbed

Erase == /\ Catalog!Erase
         /\ Befalls(disturbed, PageStages)
         /\ UNCHANGED types

Crawl ==
    /\ \/ Erase
       \/ \E p \in Paths, type \in EntryTypes : Record(p, type)
       \/ /\ \/ \E object \in Catalog!Objects : Catalog!CreateObject(object)
             \/ \E r \in 1 .. MaxRuns : Catalog!OpenRun(r)
          /\ UNCHANGED <<types, disturbed>>
    /\ UNCHANGED <<configuration, logLevel, writable, pc, own, requestVars,
                   rewritten, cleaned>>

-----------------------------------------------------------------------------
(* The launcher script.                                                    *)

\* mkdir -p of both directories; a log directory that cannot be created ends
\* the script (set -e).
Launch(s, c) ==
    /\ pc[s] = "down"
    /\ logLevel = LogDepth \/ writable
    /\ logLevel' = LogDepth
    /\ own' = [own EXCEPT ![s] = c]
    /\ GoTo(s, "truncate")
    /\ UNCHANGED <<catalogVars, configuration, writable, requestVars,
                   historyVars>>

\* The shell truncates the file before cat writes it.
Truncate(s) ==
    /\ pc[s] = "truncate"
    /\ configuration' = NoConfiguration
    /\ Befalls(rewritten, LoadStages)
    /\ GoTo(s, "write")
    /\ UNCHANGED <<catalogVars, logLevel, writable, own, requestVars,
                   disturbed, cleaned>>

Write(s) ==
    /\ pc[s] = "write"
    /\ configuration' = own[s]
    /\ own' = [own EXCEPT ![s] = NoConfiguration]
    /\ Befalls(rewritten, LoadStages)
    /\ GoTo(s, "listen")
    /\ UNCHANGED <<catalogVars, logLevel, writable, requestVars, disturbed,
                   cleaned>>

\* exec php -S; it ends at once when the port is taken.
Listen(s) ==
    /\ pc[s] = "listen"
    /\ GoTo(s, "idle") \/ GoTo(s, "down")
    /\ UNCHANGED <<catalogVars, configuration, logLevel, writable, own,
                   requestVars, historyVars>>

Stop(s) ==
    /\ pc[s] = "idle"
    /\ GoTo(s, "down")
    /\ UNCHANGED <<catalogVars, configuration, logLevel, writable, own,
                   requestVars, historyVars>>

\* build.sh --clean removes the build directory and the file in it.
CleanBuild ==
    /\ configuration # NoConfiguration
    /\ configuration' = NoConfiguration
    /\ Befalls(rewritten, LoadStages)
    /\ UNCHANGED <<catalogVars, logLevel, writable, pc, own, requestVars,
                   disturbed, cleaned>>

\* Somebody, or a cleaner of /tmp, removes log directories.
CleanLogs(level) ==
    /\ level < logLevel
    /\ logLevel' = level
    /\ Befalls(cleaned, LogStages)
    /\ UNCHANGED <<catalogVars, configuration, writable, pc, own, requestVars,
                   rewritten, disturbed>>

-----------------------------------------------------------------------------
(* A request: the configuration.                                           *)

environment == <<catalogVars, configuration, logLevel, writable, own>>

\* The request ends; nothing of it is kept but the error page.
End(s, why) == /\ GoTo(s, "idle")
               /\ failure' = [failure EXCEPT ![s] = why]
               /\ document' = [document EXCEPT ![s] = NoConfiguration]
               /\ used' = [used EXCEPT ![s] = NoConfiguration]
               /\ page' = [page EXCEPT ![s] = Blank]
               /\ creating' = [creating EXCEPT ![s] = 0]
               /\ rewritten' = [rewritten EXCEPT ![s] = FALSE]
               /\ disturbed' = [disturbed EXCEPT ![s] = FALSE]
               /\ cleaned' = [cleaned EXCEPT ![s] = FALSE]

\* An exception nobody catches.
Fails(s, stage, why) == /\ pc[s] = stage
                        /\ End(s, why)
                        /\ UNCHANGED environment

Receive(s) ==
    /\ pc[s] = "idle"
    /\ GoTo(s, "check_file")
    /\ failure' = [failure EXCEPT ![s] = "none"]
    /\ UNCHANGED <<environment, historyVars, document, used, page, creating>>

\* is_file, then DOMDocument::load, then simplexml_load_file: three looks at
\* the file.  An empty file exists, but neither of the parsers accepts it.
CheckFile(s) ==
    /\ pc[s] = "check_file"
    /\ GoTo(s, "load")
    /\ UNCHANGED <<environment, historyVars, requestVars>>

Load(s) ==
    /\ pc[s] = "load"
    /\ configuration # NoConfiguration
    /\ document' = [document EXCEPT ![s] = configuration]
    /\ GoTo(s, "validate")
    /\ UNCHANGED <<environment, historyVars, used, page, creating, failure>>

\* Mutant: the result of schemaValidate is ignored.
ValidateIgnored(s) ==
    /\ pc[s] = "validate"
    /\ document' = [document EXCEPT ![s] = NoConfiguration]
    /\ GoTo(s, "reparse")
    /\ UNCHANGED <<environment, historyVars, used, page, creating, failure>>

Validate(s) ==
    /\ pc[s] = "validate"
    /\ document[s] \in Valid
    /\ document' = [document EXCEPT ![s] = NoConfiguration]
    /\ GoTo(s, "reparse")
    /\ UNCHANGED <<environment, historyVars, used, page, creating, failure>>

Reparse(s) ==
    /\ pc[s] = "reparse"
    /\ configuration # NoConfiguration
    /\ used' = [used EXCEPT ![s] = configuration]
    /\ GoTo(s, "connect")
    /\ UNCHANGED <<environment, historyVars, document, page, creating,
                   failure>>

ConfigurationFails(s) ==
    \/ /\ configuration = NoConfiguration
       /\ \E stage \in {"check_file", "load", "reparse"} :
             Fails(s, stage, "configuration")
    \/ /\ document[s] \notin Valid
       /\ Fails(s, "validate", "configuration")

-----------------------------------------------------------------------------
(* A request: the queries.                                                 *)

\* The PDO constructor, and the route of the front controller.
Connect(s) ==
    /\ pc[s] = "connect"
    /\ GoTo(s, "entryCount") \/ GoTo(s, "search")
    /\ used' = [used EXCEPT ![s] = NoConfiguration]
    /\ rewritten' = [rewritten EXCEPT ![s] = FALSE]
    /\ UNCHANGED <<environment, document, page, creating, failure, disturbed,
                   cleaned>>

ConnectFails(s) == Fails(s, "connect", "database")

Table(query) == IF query \in {"scanRunCount", "recentScanRuns"}
                THEN "scan_runs"
                ELSE "file_system_entries"

OfType(type) == {p \in cataloged : types[p] = type}

Result(query) ==
    CASE query = "entryCount" -> Cardinality(cataloged)
      [] query = "scanRunCount" -> Cardinality(known)
      [] query = "directoryCount" -> Cardinality(OfType("directory"))
      [] query = "fileCount" -> Cardinality(OfType("file"))
      [] query = "recentScanRuns" -> Min({RecentLimit, Cardinality(known)})

\* Mutant: the recent runs are fetched before the runs are counted.
AfterQueryRunsLast ==
    [entryCount |-> "recentScanRuns", recentScanRuns |-> "directoryCount",
     directoryCount |-> "fileCount", fileCount |-> "scanRunCount",
     scanRunCount |-> "log_check", search |-> "log_check"]

AfterQuery ==
    [entryCount |-> "scanRunCount", scanRunCount |-> "directoryCount",
     directoryCount |-> "fileCount", fileCount |-> "recentScanRuns",
     recentScanRuns |-> "log_check", search |-> "log_check"]

Query(s) ==
    /\ pc[s] \in Queries
    /\ Table(pc[s]) \in schema
    /\ page' = [page EXCEPT ![s] =
                  IF pc[s] \in HomeQueries
                  THEN [@ EXCEPT ![pc[s]] = Result(pc[s])]
                  ELSE @]
    /\ GoTo(s, AfterQuery[pc[s]])
    /\ UNCHANGED <<environment, historyVars, document, used, creating, failure>>

QueryFails(s) == \E query \in Queries : /\ Table(query) \notin schema
                                        /\ Fails(s, query, "table")

-----------------------------------------------------------------------------
(* A request: the log line and the answer.                                 *)

LogCheck(s) ==
    /\ pc[s] = "log_check"
    /\ GoTo(s, IF logLevel = LogDepth THEN "log_write" ELSE "log_mkdir")
    /\ page' = [page EXCEPT ![s] = Blank]
    /\ disturbed' = [disturbed EXCEPT ![s] = FALSE]
    /\ UNCHANGED <<environment, document, used, creating, failure, rewritten,
                   cleaned>>

\* mkdir(..., true) looks for the first directory that is missing ...
FindMissing(s) ==
    /\ pc[s] = "log_mkdir"
    /\ creating[s] = 0
    /\ creating' = [creating EXCEPT ![s] = Min({logLevel + 1, LogDepth})]
    /\ UNCHANGED <<environment, historyVars, pc, document, used, page, failure>>

\* Mutant: mkdir goes one level too far.
MakeDirectoryBeyond(s) ==
    /\ pc[s] = "log_mkdir"
    /\ writable
    /\ creating[s] = logLevel + 1
    /\ logLevel' = logLevel + 1
    /\ creating' = [creating EXCEPT ![s] = @ + 1]
    /\ GoTo(s, IF creating[s] = LogDepth THEN "log_write" ELSE "log_mkdir")
    /\ UNCHANGED <<catalogVars, configuration, writable, own, historyVars,
                   document, used, page, failure>>

\* ... and creates it and those below it, one after the other.
MakeDirectory(s) ==
    /\ pc[s] = "log_mkdir"
    /\ writable
    /\ creating[s] = logLevel + 1
    /\ logLevel' = logLevel + 1
    /\ IF creating[s] = LogDepth
       THEN GoTo(s, "log_write") /\ UNCHANGED creating
       ELSE creating' = [creating EXCEPT ![s] = @ + 1] /\ UNCHANGED pc
    /\ UNCHANGED <<catalogVars, configuration, writable, own, historyVars,
                   document, used, page, failure>>

\* Above the last level it goes on when the directory is there already (as it
\* does in PHP 8, composer.json:7).
PassDirectory(s) ==
    /\ pc[s] = "log_mkdir"
    /\ creating[s] \in 1 .. logLevel /\ creating[s] # LogDepth
    /\ creating' = [creating EXCEPT ![s] = @ + 1]
    /\ UNCHANGED <<environment, historyVars, pc, document, used, page, failure>>

\* The last level is there already, the parent is gone, or it is forbidden.
MakeDirectoryFails(s) ==
    /\ pc[s] = "log_mkdir"
    /\ creating[s] # 0
    /\ \/ creating[s] = LogDepth /\ logLevel = LogDepth
       \/ creating[s] > logLevel + 1
       \/ creating[s] = logLevel + 1 /\ ~ writable
    /\ GoTo(s, "log_recheck")
    /\ UNCHANGED <<environment, historyVars, requestVars>>

\* A failed mkdir is forgiven when the directory is there after all.
LogRecheck(s) ==
    /\ pc[s] = "log_recheck"
    /\ logLevel = LogDepth
    /\ GoTo(s, "log_write")
    /\ UNCHANGED <<environment, historyVars, requestVars>>

\* Mutant: a mkdir that failed is never forgiven.
DirectoryFailsForGood(s) == Fails(s, "log_recheck", "directory")

DirectoryFails(s) == /\ logLevel # LogDepth
                     /\ Fails(s, "log_recheck", "directory")

LogWrite(s) ==
    /\ pc[s] = "log_write"
    /\ writable /\ logLevel = LogDepth
    /\ GoTo(s, "answer")
    /\ UNCHANGED <<environment, historyVars, requestVars>>

\* The fields are not UTF-8, or the line cannot be written.
LogFails(s) == Fails(s, "log_write", "log")

Answer(s) == /\ pc[s] = "answer"
             /\ End(s, "none")
             /\ UNCHANGED environment

-----------------------------------------------------------------------------
Step(s) == \/ \E c \in Configurations : Launch(s, c)
           \/ Truncate(s) \/ Write(s) \/ Listen(s) \/ Stop(s)
           \/ Receive(s)
           \/ CheckFile(s) \/ Load(s) \/ Validate(s) \/ Reparse(s)
           \/ ConfigurationFails(s)
           \/ Connect(s) \/ ConnectFails(s) \/ Query(s) \/ QueryFails(s)
           \/ LogCheck(s) \/ FindMissing(s)
           \/ MakeDirectory(s) \/ PassDirectory(s) \/ MakeDirectoryFails(s)
           \/ LogRecheck(s) \/ DirectoryFails(s)
           \/ LogWrite(s) \/ LogFails(s) \/ Answer(s)

Next == \/ Crawl
        \/ CleanBuild
        \/ \E level \in 0 .. LogDepth : CleanLogs(level)
        \/ \E s \in Servers : Step(s)

Spec == Init /\ [][Next]_vars

-----------------------------------------------------------------------------
(* What must hold of the requests.                                         *)

\* A request that gets past its configuration runs with one the schema
\* accepts, unless the file changed while the request was being served
\* (ApplicationConfigurationLoader::load reads the file again after
\* schemaValidate).
ConfigurationWasValidated ==
    \A s \in Servers : used[s] \in Configurations \ Valid => rewritten[s]

\* A home page is read by five queries while crawlers write.  If no row was
\* erased or changed its type meanwhile, its total is covered by its parts
\* and the runs it counts are listed (fetchCatalogStatistics, handle).
HomePageReadsForward ==
    \A s \in Servers : pc[s] = "log_check" /\ ~ disturbed[s] =>
        /\ page[s]["entryCount"] <= page[s]["directoryCount"]
             + page[s]["fileCount"] + Cardinality(OfType("other"))
        /\ Min({RecentLimit, page[s]["scanRunCount"]})
             <= page[s]["recentScanRuns"]

\* A missing table shows in the first query of a page: none fails after its
\* entries were counted, because the first query reads the table the crawlers
\* create last and no crawler drops one (initialize_schema,
\* fetchCatalogStatistics).
MissingTablesShowAtOnce ==
    \A s \in Servers : pc[s] \in HomeQueries \ {"entryCount"} =>
        Table(pc[s]) \in schema

\* Requests that create the log directory at the same time do not fail for
\* it: one that does found it forbidden, or lost it to a cleaner, however many
\* levels of it are missing (WebRequestLogger::log).
DirectoryRaceIsHarmless ==
    [][\A s \in Servers :
          failure'[s] = "directory" /\ failure[s] # "directory" =>
              ~ writable \/ cleaned[s]]_vars

\* What the documentation says and the code does not keep.

\* README.md: the configuration file is validated before the application
\* serves requests.
ValidatedConfigurationIsUsed ==
    \A s \in Servers : used[s] # NoConfiguration => used[s] \in Valid

=============================================================================
