------------------------- MODULE WebRequestsProofs -------------------------
(***************************************************************************)
(* Proofs about WebRequests, for any number of servers, paths, runs,       *)
(* configurations and log directories.                                     *)
(***************************************************************************)
EXTENDS WebRequests, FiniteSetTheorems, TLAPS

-----------------------------------------------------------------------------
(* Type correctness.                                                       *)

LEMMA TypeInit == Init => TypeOK
  BY WebAssumption
  DEF Init, Catalog!Init, TypeOK, Blank, EntryTypes, Stages, LaunchStages,
      Failures

LEMMA StageNames ==
  ASSUME TypeOK, NEW s \in Servers
  PROVE  /\ \A stage \in Stages : GoTo(s, stage) => pc' \in [Servers -> Stages]
         /\ LaunchStages \cup {"idle"} \cup RequestStages \subseteq Stages
         /\ LoadStages \cup Queries \cup LogStages \cup {"connect", "answer"}
               \subseteq Stages
  BY DEF TypeOK, GoTo, Stages, RequestStages

LEMMA Smaller ==
  ASSUME NEW m \in Nat, NEW n \in Nat
  PROVE  Min({m, n}) = IF m <= n THEN m ELSE n
<1>1. \A x \in {m, n} :
        (\A y \in {m, n} : x =< y) => x = IF m <= n THEN m ELSE n
  OBVIOUS
<1>2. \E x \in {m, n} : \A y \in {m, n} : x =< y
  OBVIOUS
<1> QED
  BY <1>1, <1>2 DEF Min

\* What is counted is finite.
LEMMA CountsAreNumbers ==
  ASSUME TypeOK
  PROVE  /\ IsFiniteSet(known) /\ Cardinality(known) \in Nat
         /\ IsFiniteSet(cataloged) /\ Cardinality(cataloged) \in Nat
         /\ \A type : /\ IsFiniteSet(OfType(type))
                      /\ Cardinality(OfType(type)) \in Nat
<1>1. IsFiniteSet(1 .. MaxRuns)
  BY FS_Interval, WebAssumption
<1>2. \A type : OfType(type) \in SUBSET cataloged
  BY DEF OfType
<1> QED
  BY <1>1, <1>2, FS_Subset, FS_CardinalityType, WebAssumption DEF TypeOK

LEMMA ResultsAreNumbers ==
  ASSUME TypeOK, NEW query \in HomeQueries
  PROVE  Result(query) \in Nat
<1>1. Min({RecentLimit, Cardinality(known)}) \in Nat
  BY CountsAreNumbers, Smaller, WebAssumption
<1> QED
  BY <1>1, CountsAreNumbers DEF Result, HomeQueries

LEMMA EndTypes ==
  ASSUME TypeOK, NEW s \in Servers, NEW why \in Failures, End(s, why),
         UNCHANGED environment
  PROVE  TypeOK'
<1>1. Blank \in [HomeQueries -> Nat]
  BY DEF Blank
<1> QED
  BY <1>1, StageNames, WebAssumption
  DEF End, environment, catalogVars, TypeOK

LEMMA CrawlTypes ==
  ASSUME TypeOK, Crawl
  PROVE  TypeOK'
<1> USE DEF TypeOK
<1>1. disturbed' \in [Servers -> BOOLEAN]
  BY DEF Crawl, Erase, Record, Befalls
<1>2. types' \in [Paths -> EntryTypes]
  BY DEF Crawl, Erase, Record
<1>3. /\ schema' \subseteq {"scan_runs", "file_system_entries", "indexes"}
      /\ known' \subseteq 1 .. MaxRuns
      /\ cataloged' \subseteq Paths
  BY DEF Crawl, Erase, Record, Catalog!Erase, Catalog!EraseEntries,
         Catalog!EraseRuns, Catalog!RecordPath, Catalog!CreateObject,
         Catalog!Objects, Catalog!OpenRun
<1> QED
  BY <1>1, <1>2, <1>3 DEF Crawl, requestVars

LEMMA TypeStep == TypeOK /\ [Next]_vars => TypeOK'
<1> SUFFICES ASSUME TypeOK, [Next]_vars PROVE TypeOK'
  OBVIOUS
<1> USE DEF environment, catalogVars, requestVars, historyVars
<1>1. CASE UNCHANGED vars
  BY <1>1 DEF vars, TypeOK
<1>2. CASE Crawl
  BY <1>2, CrawlTypes
<1>3. CASE CleanBuild
  BY <1>3 DEF CleanBuild, Befalls, TypeOK
<1>4. ASSUME NEW level \in 0 .. LogDepth, CleanLogs(level)
      PROVE  TypeOK'
  BY <1>4 DEF CleanLogs, Befalls, TypeOK
<1>5. ASSUME NEW s \in Servers, Step(s)
      PROVE  TypeOK'
  <2>1. ASSUME NEW c \in Configurations, Launch(s, c) PROVE TypeOK'
    BY <2>1, StageNames, WebAssumption DEF Launch, LaunchStages, TypeOK
  <2>2. CASE Truncate(s)
    BY <2>2, StageNames DEF Truncate, Befalls, LaunchStages, TypeOK
  <2>3. CASE Write(s)
    BY <2>3, StageNames DEF Write, Befalls, LaunchStages, TypeOK
  <2>4. CASE Listen(s) \/ Stop(s)
    BY <2>4, StageNames DEF Listen, Stop, LaunchStages, TypeOK
  <2>5. CASE Receive(s)
    <3>1. "check_file" \in Stages /\ "none" \in Failures
      BY StageNames DEF LoadStages, Failures
    <3> QED
      BY <2>5, <3>1, StageNames DEF Receive, TypeOK
  <2>6. CASE CheckFile(s) \/ Load(s)
    <3>1. CASE CheckFile(s)
      BY <3>1, StageNames DEF CheckFile, LoadStages, TypeOK
    <3>2. CASE Load(s)
      BY <3>2, StageNames DEF Load, LoadStages, TypeOK
    <3> QED
      BY <2>6, <3>1, <3>2
  <2>7. CASE Validate(s) \/ Reparse(s)
    <3>1. CASE Validate(s)
      BY <3>1, StageNames DEF Validate, LoadStages, TypeOK
    <3>2. CASE Reparse(s)
      BY <3>2, StageNames DEF Reparse, LoadStages, TypeOK
    <3> QED
      BY <2>7, <3>1, <3>2
  <2>8. CASE ConfigurationFails(s)
    BY <2>8, EndTypes DEF ConfigurationFails, Fails, Failures
  <2>9. CASE Connect(s)
    BY <2>9, StageNames DEF Connect, Queries, HomeQueries, TypeOK
  <2>10. CASE ConnectFails(s)
    BY <2>10, EndTypes DEF ConnectFails, Fails, Failures
  <2>11. CASE Query(s)
    <3>1. page' \in [Servers -> [HomeQueries -> Nat]]
      BY <2>11, ResultsAreNumbers DEF Query, TypeOK
    <3>2. AfterQuery[pc[s]] \in Stages
      BY <2>11, StageNames
      DEF Query, AfterQuery, Queries, HomeQueries, LogStages
    <3>3. pc' \in [Servers -> Stages]
      BY <2>11, <3>2 DEF Query, GoTo, TypeOK
    <3> QED
      BY <2>11, <3>1, <3>3 DEF Query, TypeOK
  <2>12. CASE QueryFails(s)
    BY <2>12, EndTypes DEF QueryFails, Fails, Failures
  <2>13. CASE LogCheck(s)
    BY <2>13, StageNames DEF LogCheck, LogStages, Blank, TypeOK
  <2>14. CASE FindMissing(s)
    <3>1. Min({logLevel + 1, LogDepth}) \in 0 .. LogDepth
      <4>1. logLevel + 1 \in Nat /\ LogDepth \in Nat
        BY WebAssumption DEF TypeOK
      <4>2. Min({logLevel + 1, LogDepth}) =
              IF logLevel + 1 <= LogDepth THEN logLevel + 1 ELSE LogDepth
        BY <4>1, Smaller
      <4> QED
        BY <4>1, <4>2
    <3> QED
      BY <2>14, <3>1 DEF FindMissing, TypeOK
  <2>15. CASE MakeDirectory(s)
    BY <2>15, StageNames, WebAssumption DEF MakeDirectory, LogStages, TypeOK
  <2>16. CASE MakeDirectoryFails(s) \/ LogRecheck(s)
    BY <2>16, StageNames
    DEF MakeDirectoryFails, LogRecheck, LogStages, TypeOK
  <2>17. CASE DirectoryFails(s) \/ LogFails(s)
    BY <2>17, EndTypes DEF DirectoryFails, LogFails, Fails, Failures
  <2>18. CASE LogWrite(s)
    BY <2>18, StageNames DEF LogWrite, TypeOK
  <2>19. CASE Answer(s)
    BY <2>19, EndTypes DEF Answer, Failures
  <2>20. CASE PassDirectory(s)
    <3>1. creating[s] + 1 \in 0 .. LogDepth
      <4>1. /\ creating[s] \in Nat /\ LogDepth \in Nat /\ logLevel \in Nat
            /\ creating[s] <= logLevel /\ logLevel <= LogDepth
            /\ creating[s] # LogDepth
        BY <2>20, WebAssumption DEF PassDirectory, TypeOK
      <4> QED
        BY <4>1
    <3> QED
      BY <2>20, <3>1 DEF PassDirectory, TypeOK
  <2> QED
    BY <1>5, <2>1, <2>2, <2>3, <2>4, <2>5, <2>6, <2>7, <2>8, <2>9, <2>10,
       <2>11, <2>12, <2>13, <2>14, <2>15, <2>16, <2>17, <2>18, <2>19, <2>20
    DEF Step
<1> QED
  BY <1>1, <1>2, <1>3, <1>4, <1>5 DEF Next

\* Every variable of the launchers, servers and requests keeps its type.
THEOREM WebTypeCorrect == Spec => []TypeOK
  BY TypeInit, TypeStep, PTL DEF Spec

-----------------------------------------------------------------------------
(* What a server's step leaves alone.                                      *)

Aside(s) ==
    /\ UNCHANGED <<catalogVars, writable>>
    /\ \A t \in Servers \ {s} :
          /\ pc'[t] = pc[t] /\ document'[t] = document[t]
          /\ used'[t] = used[t] /\ page'[t] = page[t]
          /\ creating'[t] = creating[t] /\ failure'[t] = failure[t]
          /\ disturbed'[t] = disturbed[t] /\ cleaned'[t] = cleaned[t]
    /\ \/ /\ configuration' = configuration
          /\ \A t \in Servers \ {s} : rewritten'[t] = rewritten[t]
       \/ /\ pc[s] \in LaunchStages /\ pc'[s] \in LaunchStages
          /\ Befalls(rewritten, LoadStages)
          /\ UNCHANGED <<requestVars, disturbed, cleaned>>
    /\ logLevel' \in {logLevel, LogDepth} \/ MakeDirectory(s)

LEMMA ServersMoveAlone ==
  ASSUME TypeOK, NEW s \in Servers, Step(s)
  PROVE  Aside(s)
<1> USE DEF Aside, GoTo, TypeOK, environment, catalogVars, requestVars,
            historyVars
<1>1. ASSUME NEW c \in Configurations, Launch(s, c) PROVE Aside(s)
  BY <1>1 DEF Launch
<1>2. CASE Truncate(s) \/ Write(s)
  BY <1>2 DEF Truncate, Write, LaunchStages
<1>3. CASE Listen(s) \/ Stop(s)
  BY <1>3 DEF Listen, Stop
<1>4. CASE Receive(s) \/ CheckFile(s) \/ Load(s) \/ Validate(s) \/ Reparse(s)
  BY <1>4 DEF Receive, CheckFile, Load, Validate, Reparse
<1>5. ASSUME NEW why, End(s, why), UNCHANGED environment PROVE Aside(s)
  BY <1>5 DEF End
<1>6. CASE \/ ConfigurationFails(s) \/ ConnectFails(s) \/ QueryFails(s)
           \/ DirectoryFails(s) \/ LogFails(s) \/ Answer(s)
  BY <1>5, <1>6
  DEF ConfigurationFails, ConnectFails, QueryFails, DirectoryFails, LogFails,
      Fails, Answer
<1>7. CASE Connect(s) \/ Query(s)
  BY <1>7 DEF Connect, Query
<1>8. CASE LogCheck(s) \/ FindMissing(s) \/ MakeDirectory(s) \/ PassDirectory(s)
  BY <1>8 DEF LogCheck, FindMissing, MakeDirectory, PassDirectory
<1>9. CASE MakeDirectoryFails(s) \/ LogRecheck(s) \/ LogWrite(s)
  BY <1>9 DEF MakeDirectoryFails, LogRecheck, LogWrite
<1> QED
  BY <1>1, <1>2, <1>3, <1>4, <1>6, <1>7, <1>8, <1>9 DEF Step

-----------------------------------------------------------------------------
(* The configuration a request runs with.                                  *)

\* While the file does not change, what was validated is what it holds.
LoadSound ==
    \A s \in Servers : ~ rewritten[s] =>
        /\ pc[s] = "validate" => document[s] = configuration
        /\ pc[s] = "reparse" => configuration \in Valid

LInv == LoadSound /\ ConfigurationWasValidated

LEMMA FileRewritten ==
  ASSUME TypeOK, LInv, UNCHANGED <<pc, used>>,
         Befalls(rewritten, LoadStages)
  PROVE  LInv'
  BY DEF TypeOK, LInv, LoadSound, ConfigurationWasValidated, Befalls,
         LoadStages

LEMMA LoadStep ==
  ASSUME TypeOK, LInv, NEW s \in Servers, Step(s)
  PROVE  LInv'
<1> USE DEF LInv, LoadSound, ConfigurationWasValidated
<1>1. Aside(s)
  BY ServersMoveAlone
<1>2. /\ ~ rewritten'[s] /\ pc'[s] = "validate" =>
            document'[s] = configuration'
      /\ ~ rewritten'[s] /\ pc'[s] = "reparse" => configuration' \in Valid
      /\ used'[s] \in Configurations \ Valid => rewritten'[s]
  <2> USE DEF GoTo, TypeOK, environment, requestVars, historyVars
  <2>1. CASE \/ \E c \in Configurations : Launch(s, c)
             \/ Listen(s) \/ Stop(s) \/ Receive(s) \/ CheckFile(s)
    BY <2>1 DEF Launch, Listen, Stop, Receive, CheckFile
  <2>2. CASE Truncate(s) \/ Write(s)
    BY <2>2 DEF Truncate, Write, Befalls
  <2>3. CASE Load(s) \/ Validate(s) \/ Reparse(s)
    BY <2>3, WebAssumption DEF Load, Validate, Reparse
  <2>4. ASSUME NEW why, End(s, why)
        PROVE  pc'[s] = "idle" /\ used'[s] = NoConfiguration
    BY <2>4 DEF End
  <2>5. CASE \/ ConfigurationFails(s) \/ ConnectFails(s) \/ QueryFails(s)
             \/ DirectoryFails(s) \/ LogFails(s) \/ Answer(s)
    BY <2>4, <2>5, WebAssumption
    DEF ConfigurationFails, ConnectFails, QueryFails, DirectoryFails, LogFails,
        Fails, Answer
  <2>6. CASE Connect(s)
    BY <2>6, WebAssumption DEF Connect
  <2>7. CASE Query(s)
    BY <2>7 DEF Query, AfterQuery, Queries, HomeQueries
  <2>8. CASE \/ LogCheck(s) \/ FindMissing(s)
             \/ MakeDirectory(s) \/ PassDirectory(s)
    BY <2>8 DEF LogCheck, FindMissing, MakeDirectory, PassDirectory
  <2>9. CASE MakeDirectoryFails(s) \/ LogRecheck(s) \/ LogWrite(s)
    BY <2>9 DEF MakeDirectoryFails, LogRecheck, LogWrite
  <2> QED
    BY <2>1, <2>2, <2>3, <2>5, <2>6, <2>7, <2>8, <2>9 DEF Step
<1>3. ASSUME NEW t \in Servers \ {s}
      PROVE  /\ ~ rewritten'[t] /\ pc'[t] = "validate" =>
                   document'[t] = configuration'
             /\ ~ rewritten'[t] /\ pc'[t] = "reparse" =>
                   configuration' \in Valid
             /\ used'[t] \in Configurations \ Valid => rewritten'[t]
  <2>1. pc'[t] = pc[t] /\ document'[t] = document[t] /\ used'[t] = used[t]
    BY <1>1 DEF Aside
  <2>2. CASE configuration' = configuration /\ rewritten'[t] = rewritten[t]
    BY <2>1, <2>2
  <2>3. CASE Befalls(rewritten, LoadStages)
    <3>1. rewritten'[t] = (rewritten[t] \/ pc[t] \in LoadStages)
      BY <2>3 DEF Befalls
    <3> QED
      BY <2>1, <3>1 DEF LoadStages
  <2> QED
    BY <1>1, <2>2, <2>3 DEF Aside
<1> QED
  BY <1>2, <1>3

\* Only a file that changed while a request was served lets it run with a
\* configuration the schema does not accept.
THEOREM ConfigurationsAreValidated == Spec => []ConfigurationWasValidated
<1>1. Init => LInv
  BY WebAssumption DEF Init, LInv, LoadSound, ConfigurationWasValidated
<1>2. TypeOK /\ LInv /\ [Next]_vars => LInv'
  <2> SUFFICES ASSUME TypeOK, LInv, [Next]_vars PROVE LInv'
    OBVIOUS
  <2>1. CASE CleanBuild
    BY <2>1, FileRewritten DEF CleanBuild, requestVars
  <2>2. CASE \/ UNCHANGED vars \/ Crawl
             \/ \E level \in 0 .. LogDepth : CleanLogs(level)
    BY <2>2
    DEF vars, Crawl, CleanLogs, requestVars, historyVars, LInv, LoadSound,
        ConfigurationWasValidated
  <2> QED
    BY <2>1, <2>2, LoadStep DEF Next
<1>3. LInv => ConfigurationWasValidated
  BY DEF LInv
<1> QED
  BY <1>1, <1>2, <1>3, WebTypeCorrect, PTL DEF Spec

-----------------------------------------------------------------------------
(* Tables that are missing.                                                *)

TablesInv ==
    /\ "file_system_entries" \in schema => "scan_runs" \in schema
    /\ \A s \in Servers : pc[s] \in HomeQueries \ {"entryCount"} =>
          "file_system_entries" \in schema

LEMMA TablesStep ==
  ASSUME TypeOK, TablesInv, [Next]_vars
  PROVE  TablesInv'
<1>1. CASE UNCHANGED vars
  BY <1>1 DEF vars, TablesInv, catalogVars
<1>2. CASE Crawl
  <2>1. /\ schema \subseteq schema'
        /\ "file_system_entries" \in schema' => "scan_runs" \in schema'
    BY <1>2
    DEF Crawl, Erase, Record, Catalog!Erase, Catalog!EraseEntries,
        Catalog!EraseRuns, Catalog!RecordPath, Catalog!OpenRun,
        Catalog!CreateObject, Catalog!MayCreate, Catalog!Objects, TablesInv
  <2> QED
    BY <1>2, <2>1 DEF Crawl, TablesInv
<1>3. CASE CleanBuild \/ \E level \in 0 .. LogDepth : CleanLogs(level)
  BY <1>3 DEF CleanBuild, CleanLogs, catalogVars, TablesInv
<1>4. ASSUME NEW s \in Servers, Step(s)
      PROVE  TablesInv'
  <2>1. Aside(s)
    BY <1>4, ServersMoveAlone
  <2>2. CASE Query(s)
    <3>1. \/ pc[s] = "entryCount" /\ "file_system_entries" \in schema
          \/ pc[s] \in HomeQueries \ {"entryCount"}
          \/ pc'[s] = "log_check"
      BY <2>2
      DEF Query, Table, AfterQuery, Queries, HomeQueries, GoTo, TypeOK
    <3> QED
      BY <2>1, <3>1 DEF Aside, catalogVars, TablesInv, HomeQueries
  <2>3. CASE ~ Query(s)
    <3>1. pc'[s] \notin HomeQueries \ {"entryCount"}
      <4> USE DEF GoTo, TypeOK, HomeQueries
      <4>1. CASE \/ \E c \in Configurations : Launch(s, c)
                 \/ Truncate(s) \/ Write(s) \/ Listen(s) \/ Stop(s)
                 \/ Receive(s) \/ CheckFile(s) \/ Load(s) \/ Validate(s)
                 \/ Reparse(s) \/ Connect(s)
        BY <4>1 DEF Launch, Truncate, Write, Listen, Stop, Receive, CheckFile,
                    Load, Validate, Reparse, Connect
      <4>2. CASE \/ ConfigurationFails(s) \/ ConnectFails(s) \/ QueryFails(s)
                 \/ DirectoryFails(s) \/ LogFails(s) \/ Answer(s)
        BY <4>2
        DEF ConfigurationFails, ConnectFails, QueryFails, DirectoryFails,
            LogFails, Fails, Answer, End
      <4>3. CASE \/ LogCheck(s) \/ FindMissing(s)
                 \/ MakeDirectory(s) \/ PassDirectory(s)
                 \/ MakeDirectoryFails(s) \/ LogRecheck(s) \/ LogWrite(s)
        BY <4>3
        DEF LogCheck, FindMissing, MakeDirectory, PassDirectory,
            MakeDirectoryFails, LogRecheck, LogWrite
      <4> QED
        BY <1>4, <2>3, <4>1, <4>2, <4>3 DEF Step
    <3> QED
      BY <2>1, <3>1 DEF Aside, catalogVars, TablesInv
  <2> QED
    BY <2>2, <2>3
<1> QED
  BY <1>1, <1>2, <1>3, <1>4 DEF Next

\* No home page fails for a missing table once its entries were counted.
THEOREM PagesAreNotCutShort == Spec => []MissingTablesShowAtOnce
<1>1. Init => TablesInv
  BY DEF Init, Catalog!Init, TablesInv, HomeQueries
<1>2. TablesInv => MissingTablesShowAtOnce
  BY DEF TablesInv, MissingTablesShowAtOnce, Table
<1> QED
  BY <1>1, <1>2, TablesStep, WebTypeCorrect, PTL DEF Spec

-----------------------------------------------------------------------------
(* Requests that create the log directory.                                 *)

\* Nothing took a directory from a request that may create them.
Undisturbed(s) == writable /\ ~ cleaned[s]

\* A request never goes beyond the first level that is missing, and its mkdir
\* fails only when none is.
CreatesInOrder(s) ==
    /\ pc[s] = "log_mkdir" => creating[s] <= logLevel + 1
    /\ pc[s] = "log_recheck" => logLevel = LogDepth

\* A request starts with no level chosen.
StartsAnew(s) ==
    pc[s] \notin {"log_mkdir", "log_recheck", "log_write", "answer"} =>
        creating[s] = 0

RInv == \A s \in Servers : /\ StartsAnew(s)
                           /\ Undisturbed(s) => CreatesInOrder(s)

LEMMA RaceOfOthers ==
  ASSUME TypeOK, RInv, NEW s \in Servers, Step(s), NEW t \in Servers \ {s}
  PROVE  StartsAnew(t)' /\ (Undisturbed(t)' => CreatesInOrder(t)')
<1>1. /\ pc'[t] = pc[t] /\ creating'[t] = creating[t]
      /\ Undisturbed(t)' <=> Undisturbed(t)
      /\ logLevel' \in {logLevel, LogDepth} \/ MakeDirectory(s)
      /\ writable' = writable
  BY ServersMoveAlone DEF Aside, Undisturbed, requestVars
<1>2. StartsAnew(t)'
  BY <1>1 DEF RInv, StartsAnew
<1>3. ASSUME Undisturbed(t) PROVE CreatesInOrder(t)'
  <2>1. CreatesInOrder(t) /\ logLevel \in Nat /\ creating[t] \in 0 .. LogDepth
    BY <1>3, WebAssumption DEF RInv, TypeOK
  <2>2. CASE MakeDirectory(s)
    <3>1. logLevel' = logLevel + 1 /\ logLevel' <= LogDepth
      BY <2>2, WebAssumption DEF MakeDirectory, TypeOK
    <3> QED
      BY <1>1, <2>1, <3>1, WebAssumption DEF CreatesInOrder
  <2>3. CASE logLevel' = LogDepth
    BY <1>1, <2>1, <2>3, WebAssumption DEF CreatesInOrder
  <2>4. CASE logLevel' = logLevel
    BY <1>1, <2>1, <2>4 DEF CreatesInOrder
  <2> QED
    BY <1>1, <2>2, <2>3, <2>4
<1> QED
  BY <1>1, <1>2, <1>3

LEMMA RaceOfOne ==
  ASSUME TypeOK, RInv, NEW s \in Servers, Step(s)
  PROVE  StartsAnew(s)' /\ (Undisturbed(s)' => CreatesInOrder(s)')
<1> USE DEF GoTo, TypeOK, environment, requestVars, historyVars
<1>1. StartsAnew(s) /\ (Undisturbed(s) => CreatesInOrder(s))
  BY DEF RInv
<1>2. CASE \/ \E c \in Configurations : Launch(s, c)
           \/ Truncate(s) \/ Write(s) \/ Listen(s) \/ Stop(s)
           \/ Receive(s) \/ CheckFile(s) \/ Load(s) \/ Validate(s)
           \/ Reparse(s) \/ Connect(s)
  BY <1>1, <1>2
  DEF Launch, Truncate, Write, Listen, Stop, Receive, CheckFile, Load,
      Validate, Reparse, Connect, StartsAnew, CreatesInOrder
<1>3. ASSUME NEW why, End(s, why)
      PROVE  pc'[s] = "idle" /\ creating'[s] = 0
  BY <1>3 DEF End
<1>4. CASE \/ ConfigurationFails(s) \/ ConnectFails(s) \/ QueryFails(s)
           \/ DirectoryFails(s) \/ LogFails(s) \/ Answer(s)
  BY <1>3, <1>4
  DEF ConfigurationFails, ConnectFails, QueryFails, DirectoryFails, LogFails,
      Fails, Answer, StartsAnew, CreatesInOrder
<1>5. CASE Query(s)
  <2>1. pc'[s] \in Queries \cup {"log_check"}
    BY <1>5 DEF Query, AfterQuery, Queries, HomeQueries
  <2>2. creating'[s] = 0
    BY <1>1, <1>5 DEF Query, Queries, HomeQueries, StartsAnew
  <2> QED
    BY <2>1, <2>2 DEF Queries, HomeQueries, StartsAnew, CreatesInOrder
<1>6. CASE LogCheck(s)
  BY <1>1, <1>6, WebAssumption DEF LogCheck, StartsAnew, CreatesInOrder
<1>7. CASE FindMissing(s)
  <2>1. /\ logLevel + 1 \in Nat /\ LogDepth \in Nat /\ logLevel \in Nat
        /\ logLevel <= LogDepth
        /\ logLevel' = logLevel /\ pc'[s] = "log_mkdir"
        /\ creating'[s] = Min({logLevel + 1, LogDepth})
    BY <1>7, WebAssumption DEF FindMissing
  <2>2. Min({logLevel + 1, LogDepth}) =
          IF logLevel + 1 <= LogDepth THEN logLevel + 1 ELSE LogDepth
    BY <2>1, Smaller
  <2> QED
    BY <2>1, <2>2 DEF StartsAnew, CreatesInOrder
<1>8. CASE MakeDirectory(s)
  BY <1>8, WebAssumption DEF MakeDirectory, StartsAnew, CreatesInOrder
<1>9. CASE MakeDirectoryFails(s)
  <2>1. /\ pc'[s] = "log_recheck" /\ creating'[s] = creating[s]
        /\ logLevel' = logLevel /\ Undisturbed(s)' = Undisturbed(s)
    BY <1>9 DEF MakeDirectoryFails, Undisturbed
  <2>2. ASSUME Undisturbed(s) PROVE logLevel = LogDepth
    <3>1. pc[s] = "log_mkdir" /\ creating[s] <= logLevel + 1
      BY <1>1, <1>9, <2>2 DEF MakeDirectoryFails, CreatesInOrder
    <3>2. creating[s] \in Nat /\ logLevel \in Nat
      BY WebAssumption
    <3> QED
      BY <1>9, <2>2, <3>1, <3>2 DEF MakeDirectoryFails, Undisturbed
  <2> QED
    BY <2>1, <2>2 DEF StartsAnew, CreatesInOrder
<1>10. CASE LogRecheck(s) \/ LogWrite(s)
  BY <1>10 DEF LogRecheck, LogWrite, StartsAnew, CreatesInOrder
<1>11. CASE PassDirectory(s)
  <2>1. creating[s] \in 1 .. logLevel /\ logLevel \in Nat
    BY <1>11 DEF PassDirectory
  <2> QED
    BY <1>11, <2>1 DEF PassDirectory, StartsAnew, CreatesInOrder
<1> QED
  BY <1>2, <1>4, <1>5, <1>6, <1>7, <1>8, <1>9, <1>10, <1>11 DEF Step

LEMMA LogsCleaned ==
  ASSUME TypeOK, RInv, NEW level \in 0 .. LogDepth, CleanLogs(level)
  PROVE  RInv'
<1> SUFFICES ASSUME NEW s \in Servers
             PROVE  /\ StartsAnew(s)'
                    /\ Undisturbed(s)' => CreatesInOrder(s)'
  BY DEF RInv
<1>1. pc' = pc /\ creating' = creating
      /\ (pc[s] \in LogStages => cleaned'[s])
  BY DEF CleanLogs, Befalls, requestVars
<1> QED
  BY <1>1 DEF RInv, StartsAnew, Undisturbed, CreatesInOrder, LogStages

LEMMA RaceStep ==
  ASSUME TypeOK, RInv, [Next]_vars
  PROVE  RInv'
<1>1. CASE \/ UNCHANGED vars \/ Crawl \/ CleanBuild
  <2>1. UNCHANGED <<pc, creating, logLevel, writable, cleaned>>
    BY <1>1 DEF vars, Crawl, CleanBuild, requestVars, historyVars
  <2> QED
    BY <2>1
    DEF RInv, StartsAnew, Undisturbed, CreatesInOrder
<1>2. CASE \E level \in 0 .. LogDepth : CleanLogs(level)
  BY <1>2, LogsCleaned
<1>3. ASSUME NEW s \in Servers, Step(s)
      PROVE  RInv'
  BY <1>3, RaceOfOne, RaceOfOthers DEF RInv
<1> QED
  BY <1>1, <1>2, <1>3 DEF Next

LEMMA OnlyTheRecheckFails ==
  ASSUME TypeOK, NEW s \in Servers, Step(s), failure'[s] = "directory",
         failure[s] # "directory"
  PROVE  DirectoryFails(s)
<1> USE DEF TypeOK, environment, requestVars, historyVars
<1>1. CASE \/ \E c \in Configurations : Launch(s, c)
           \/ Truncate(s) \/ Write(s) \/ Listen(s) \/ Stop(s)
           \/ Receive(s) \/ CheckFile(s) \/ Load(s) \/ Validate(s)
           \/ Reparse(s) \/ Connect(s) \/ Query(s) \/ LogCheck(s)
  BY <1>1
  DEF Launch, Truncate, Write, Listen, Stop, Receive, CheckFile, Load,
      Validate, Reparse, Connect, Query, LogCheck
<1>2. CASE \/ FindMissing(s) \/ MakeDirectory(s)
           \/ PassDirectory(s) \/ MakeDirectoryFails(s)
           \/ LogRecheck(s) \/ LogWrite(s)
  BY <1>2
  DEF FindMissing, MakeDirectory, PassDirectory, MakeDirectoryFails,
      LogRecheck, LogWrite
<1>3. ASSUME NEW why, End(s, why) PROVE failure'[s] = why
  BY <1>3 DEF End
<1>4. CASE \/ ConfigurationFails(s) \/ ConnectFails(s) \/ QueryFails(s)
           \/ LogFails(s) \/ Answer(s)
  BY <1>3, <1>4
  DEF ConfigurationFails, ConnectFails, QueryFails, LogFails, Fails, Answer
<1> QED
  BY <1>1, <1>2, <1>4 DEF Step

\* A race for the log directory fails no request, however many take part and
\* however many levels are missing: only a cleaner or a directory that may not
\* be created does (WebRequestLogger::log).
THEOREM RacesAreHarmless == Spec => DirectoryRaceIsHarmless
<1>1. Init => RInv
  BY DEF Init, RInv, StartsAnew, CreatesInOrder
<1>2. TypeOK /\ RInv /\ [Next]_vars => RInv'
  BY RaceStep
<1>3. TypeOK /\ RInv /\ [Next]_vars =>
        [\A s \in Servers :
            failure'[s] = "directory" /\ failure[s] # "directory" =>
                ~ writable \/ cleaned[s]]_vars
  <2> SUFFICES ASSUME TypeOK, RInv, Next, NEW s \in Servers,
                      failure'[s] = "directory", failure[s] # "directory",
                      Undisturbed(s)
               PROVE  FALSE
    BY DEF Undisturbed
  <2>1. PICK t \in Servers : Step(t)
    BY DEF Next, Crawl, CleanBuild, CleanLogs, requestVars
  <2>2. t = s
    BY <2>1, ServersMoveAlone DEF Aside, requestVars
  <2>3. DirectoryFails(s)
    BY <2>1, <2>2, OnlyTheRecheckFails
  <2>4. pc[s] = "log_recheck" /\ logLevel # LogDepth
    BY <2>3 DEF DirectoryFails, Fails
  <2> QED
    BY <2>4 DEF RInv, CreatesInOrder
<1> QED
  BY <1>1, <1>2, <1>3, WebTypeCorrect, PTL
  DEF Spec, DirectoryRaceIsHarmless

-----------------------------------------------------------------------------
(* The numbers of a home page.                                             *)

Rows(type) == Cardinality(OfType(type))

\* What was counted is still covered: by all rows at first, then by the parts
\* counted so far and the rows of the types that are not counted yet.
EntriesCovered(s) ==
    /\ pc[s] \in {"scanRunCount", "directoryCount"} =>
          page[s]["entryCount"] <= Cardinality(cataloged)
    /\ pc[s] = "fileCount" =>
          page[s]["entryCount"] <=
             page[s]["directoryCount"] + Rows("file") + Rows("other")
    /\ pc[s] \in {"recentScanRuns", "log_check"} =>
          page[s]["entryCount"] <= page[s]["directoryCount"]
             + page[s]["fileCount"] + Rows("other")

RunsCovered(s) ==
    /\ pc[s] \in {"directoryCount", "fileCount", "recentScanRuns"} =>
          page[s]["scanRunCount"] <= Cardinality(known)
    /\ pc[s] = "log_check" =>
          Min({RecentLimit, page[s]["scanRunCount"]})
             <= page[s]["recentScanRuns"]

StartsBlank(s) ==
    pc[s] \notin (HomeQueries \ {"entryCount"}) \cup {"log_check"} =>
        page[s] = Blank

PInv == \A s \in Servers :
           /\ StartsBlank(s)
           /\ ~ disturbed[s] => EntriesCovered(s) /\ RunsCovered(s)

\* Each row is counted as a directory, as a file or as something else.
LEMMA PartsMakeTheWhole ==
  ASSUME TypeOK
  PROVE  Cardinality(cataloged) = Rows("directory") + Rows("file")
                                    + Rows("other")
<1>1. cataloged = OfType("directory") \cup (OfType("file") \cup OfType("other"))
  BY DEF OfType, TypeOK, EntryTypes
<1>2. /\ OfType("file") \cap OfType("other") = {}
      /\ OfType("directory") \cap (OfType("file") \cup OfType("other")) = {}
  BY DEF OfType
<1>3. /\ IsFiniteSet(OfType("file") \cup OfType("other"))
      /\ Cardinality(OfType("file") \cup OfType("other")) =
            Rows("file") + Rows("other") - Cardinality({})
  BY <1>2, CountsAreNumbers, FS_Union DEF Rows
<1>4. Cardinality(cataloged) =
        Rows("directory") + Cardinality(OfType("file") \cup OfType("other"))
          - Cardinality({})
  BY <1>1, <1>2, <1>3, CountsAreNumbers, FS_Union DEF Rows
<1>5. Cardinality({}) = 0
  BY FS_EmptySet
<1>6. \A type : Rows(type) \in Nat
  BY CountsAreNumbers DEF Rows
<1> QED
  BY <1>3, <1>4, <1>5, <1>6

LEMMA CountsStayNumbers ==
  ASSUME TypeOK'
  PROVE  /\ IsFiniteSet(known') /\ Cardinality(known') \in Nat
         /\ IsFiniteSet(cataloged') /\ Cardinality(cataloged') \in Nat
         /\ \A type : /\ IsFiniteSet(OfType(type)')
                      /\ Cardinality(OfType(type)') \in Nat
<1>1. IsFiniteSet(1 .. MaxRuns)
  BY FS_Interval, WebAssumption
<1>2. known' \in SUBSET (1 .. MaxRuns) /\ cataloged' \in SUBSET Paths
  BY DEF TypeOK
<1>3. \A type : OfType(type)' \in SUBSET cataloged'
  BY DEF OfType
<1> QED
  BY <1>1, <1>2, <1>3, FS_Subset, FS_CardinalityType, WebAssumption

\* Nothing that is counted shrinks under a page that is not disturbed.
LEMMA CatalogGrows ==
  ASSUME TypeOK, Crawl, NEW s \in Servers, pc[s] \in PageStages,
         ~ disturbed'[s]
  PROVE  /\ ~ disturbed[s]
         /\ Cardinality(known) <= Cardinality(known')
         /\ Cardinality(cataloged) <= Cardinality(cataloged')
         /\ \A type : Rows(type) <= Rows(type)'
<1>1. TypeOK'
  BY CrawlTypes
<1>2. ~ Erase
  BY DEF Erase, Befalls
<1>3. /\ ~ disturbed[s]
      /\ known \subseteq known' /\ cataloged \subseteq cataloged'
      /\ \A type : OfType(type) \subseteq OfType(type)'
  <2>1. ASSUME NEW p \in Paths, NEW type \in EntryTypes, Record(p, type)
        PROVE  /\ ~ disturbed[s]
               /\ known \subseteq known' /\ cataloged \subseteq cataloged'
               /\ \A kind : OfType(kind) \subseteq OfType(kind)'
    <3>1. p \in cataloged => type = types[p]
      BY <2>1 DEF Record, Befalls
    <3> QED
      BY <2>1, <3>1
      DEF Record, Catalog!RecordPath, Befalls, OfType, TypeOK
  <2>2. CASE /\ \/ \E object \in Catalog!Objects : Catalog!CreateObject(object)
                \/ \E r \in 1 .. MaxRuns : Catalog!OpenRun(r)
             /\ UNCHANGED <<types, disturbed>>
    BY <2>2 DEF Catalog!CreateObject, Catalog!OpenRun, OfType
  <2> QED
    BY <1>2, <2>1, <2>2 DEF Crawl
<1>4. /\ IsFiniteSet(known') /\ IsFiniteSet(cataloged')
      /\ \A type : IsFiniteSet(OfType(type)')
  BY <1>1, CountsStayNumbers
<1> QED
  BY <1>3, <1>4, FS_Subset DEF Rows

LEMMA PagesBesideCrawlers ==
  ASSUME TypeOK, PInv, Crawl, NEW s \in Servers
  PROVE  /\ StartsBlank(s)'
         /\ ~ disturbed'[s] => EntriesCovered(s)' /\ RunsCovered(s)'
<1>1. pc' = pc /\ page' = page
  BY DEF Crawl, requestVars
<1>2. StartsBlank(s)'
  BY <1>1 DEF PInv, StartsBlank
<1>3. ASSUME ~ disturbed'[s], pc[s] \in PageStages
      PROVE  EntriesCovered(s)' /\ RunsCovered(s)'
  <2>1. /\ ~ disturbed[s]
        /\ Cardinality(known) <= Cardinality(known')
        /\ Cardinality(cataloged) <= Cardinality(cataloged')
        /\ \A type : Rows(type) <= Rows(type)'
    BY <1>3, CatalogGrows
  <2>2. EntriesCovered(s) /\ RunsCovered(s)
    BY <2>1 DEF PInv
  <2>3. TypeOK'
    BY CrawlTypes
  <2>4. /\ \A type : Rows(type) \in Nat /\ Rows(type)' \in Nat
        /\ Cardinality(known) \in Nat /\ Cardinality(known') \in Nat
        /\ Cardinality(cataloged) \in Nat /\ Cardinality(cataloged') \in Nat
        /\ \A q \in HomeQueries : page[s][q] \in Nat
    <3>1. \A q \in HomeQueries : page[s][q] \in Nat
      BY DEF TypeOK
    <3> QED
      BY <2>3, <3>1, CountsAreNumbers, CountsStayNumbers DEF Rows
  <2>5. EntriesCovered(s)'
    BY <1>1, <2>1, <2>2, <2>4 DEF EntriesCovered, HomeQueries
  <2>6. RunsCovered(s)'
    BY <1>1, <2>1, <2>2, <2>4 DEF RunsCovered, HomeQueries
  <2> QED
    BY <2>5, <2>6
<1>4. ASSUME pc[s] \notin PageStages
      PROVE  EntriesCovered(s)' /\ RunsCovered(s)'
  BY <1>1, <1>4
  DEF EntriesCovered, RunsCovered, PageStages, Queries, HomeQueries
<1> QED
  BY <1>2, <1>3, <1>4

LEMMA PageGrows ==
  ASSUME TypeOK, PInv, NEW s \in Servers, Query(s), ~ disturbed[s]
  PROVE  EntriesCovered(s)' /\ RunsCovered(s)'
<1>1. /\ pc'[s] = AfterQuery[pc[s]]
      /\ pc[s] \in HomeQueries =>
            page'[s] = [page[s] EXCEPT ![pc[s]] = Result(pc[s])]
      /\ pc[s] \notin HomeQueries => page'[s] = page[s]
      /\ UNCHANGED <<known, cataloged, types>>
  BY DEF Query, GoTo, environment, catalogVars, TypeOK
<1>2. /\ \A type : Rows(type) \in Nat
      /\ Cardinality(known) \in Nat /\ Cardinality(cataloged) \in Nat
      /\ page[s] \in [HomeQueries -> Nat]
  BY CountsAreNumbers DEF Rows, TypeOK
<1>3. \A type : Rows(type)' = Rows(type)
  BY <1>1 DEF Rows, OfType
<1>4. StartsBlank(s) /\ EntriesCovered(s) /\ RunsCovered(s)
  BY DEF PInv
<1> USE DEF EntriesCovered, RunsCovered, HomeQueries, AfterQuery, Result
<1>5. CASE pc[s] = "entryCount"
  BY <1>1, <1>2, <1>5
<1>6. CASE pc[s] = "scanRunCount"
  BY <1>1, <1>2, <1>4, <1>6
<1>7. CASE pc[s] = "directoryCount"
  BY <1>1, <1>2, <1>3, <1>4, <1>7, PartsMakeTheWhole DEF Rows
<1>8. CASE pc[s] = "fileCount"
  BY <1>1, <1>2, <1>3, <1>4, <1>8 DEF Rows
<1>9. CASE pc[s] = "recentScanRuns"
  <2>1. /\ page'[s]["recentScanRuns"] = Min({RecentLimit, Cardinality(known)})
        /\ page'[s]["scanRunCount"] = page[s]["scanRunCount"]
        /\ page'[s]["entryCount"] = page[s]["entryCount"]
        /\ page'[s]["directoryCount"] = page[s]["directoryCount"]
        /\ page'[s]["fileCount"] = page[s]["fileCount"]
        /\ pc'[s] = "log_check"
    <3> HIDE DEF Result
    <3>1. page'[s] = [page[s] EXCEPT !["recentScanRuns"] =
                        Result("recentScanRuns")]
      BY <1>1, <1>9
    <3>2. page'[s]["recentScanRuns"] = Result("recentScanRuns")
      BY <1>2, <3>1
    <3>3. Result("recentScanRuns") = Min({RecentLimit, Cardinality(known)})
      BY DEF Result
    <3> QED
      BY <1>1, <1>2, <1>9, <3>1, <3>2, <3>3
  <2>2. Min({RecentLimit, page[s]["scanRunCount"]})
          <= Min({RecentLimit, Cardinality(known)})
    <3>1. /\ page[s]["scanRunCount"] \in Nat
          /\ page[s]["scanRunCount"] <= Cardinality(known)
      BY <1>2, <1>4, <1>9
    <3> QED
      <4>1. /\ Min({RecentLimit, page[s]["scanRunCount"]}) =
                 IF RecentLimit <= page[s]["scanRunCount"]
                 THEN RecentLimit ELSE page[s]["scanRunCount"]
            /\ Min({RecentLimit, Cardinality(known)}) =
                 IF RecentLimit <= Cardinality(known)
                 THEN RecentLimit ELSE Cardinality(known)
        BY <1>2, <3>1, Smaller, WebAssumption
      <4> QED
        BY <1>2, <3>1, <4>1, WebAssumption
  <2> QED
    BY <1>3, <1>4, <1>9, <2>1, <2>2
<1>10. CASE pc[s] = "search"
  <2>1. page'[s] = Blank /\ pc'[s] = "log_check"
    BY <1>1, <1>4, <1>10 DEF StartsBlank
  <2>2. Min({RecentLimit, 0}) = 0
    BY Smaller, WebAssumption
  <2> QED
    BY <1>2, <1>3, <2>1, <2>2 DEF Blank
<1> QED
  BY <1>5, <1>6, <1>7, <1>8, <1>9, <1>10 DEF Query, Queries

LEMMA PageOfOne ==
  ASSUME TypeOK, PInv, NEW s \in Servers, Step(s)
  PROVE  /\ StartsBlank(s)'
         /\ ~ disturbed'[s] => EntriesCovered(s)' /\ RunsCovered(s)'
<1> USE DEF GoTo, TypeOK, environment, requestVars, historyVars
<1>1. StartsBlank(s)
  BY DEF PInv
<1>2. CASE Query(s)
  <2>1. pc'[s] \in (HomeQueries \ {"entryCount"}) \cup {"log_check"}
    BY <1>2 DEF Query, AfterQuery, Queries, HomeQueries
  <2>2. disturbed' = disturbed
    BY <1>2 DEF Query
  <2> QED
    BY <1>2, <2>1, <2>2, PageGrows DEF StartsBlank
<1>3. CASE ~ Query(s)
  <2> DEFINE Reading == (HomeQueries \ {"entryCount"}) \cup {"log_check"}
  <2>1. pc'[s] \notin Reading /\ page'[s] = Blank
    <3>1. CASE \/ \E c \in Configurations : Launch(s, c)
               \/ Truncate(s) \/ Write(s) \/ Listen(s) \/ Stop(s)
               \/ Receive(s) \/ CheckFile(s) \/ Load(s) \/ Validate(s)
               \/ Reparse(s) \/ Connect(s)
      BY <1>1, <3>1
      DEF Launch, Truncate, Write, Listen, Stop, Receive, CheckFile, Load,
          Validate, Reparse, Connect, StartsBlank, HomeQueries
    <3>2. CASE \/ ConfigurationFails(s) \/ ConnectFails(s) \/ QueryFails(s)
               \/ DirectoryFails(s) \/ LogFails(s) \/ Answer(s)
      BY <3>2
      DEF ConfigurationFails, ConnectFails, QueryFails, DirectoryFails,
          LogFails, Fails, Answer, End, HomeQueries
    <3>3. CASE LogCheck(s)
      BY <3>3 DEF LogCheck, HomeQueries
    <3>4. CASE \/ FindMissing(s) \/ MakeDirectory(s) \/ PassDirectory(s)
               \/ MakeDirectoryFails(s) \/ LogRecheck(s) \/ LogWrite(s)
      BY <1>1, <3>4
      DEF FindMissing, MakeDirectory, PassDirectory, MakeDirectoryFails,
          LogRecheck, LogWrite, StartsBlank, HomeQueries
    <3> QED
      BY <1>3, <3>1, <3>2, <3>3, <3>4 DEF Step
  <2> QED
    BY <2>1 DEF StartsBlank, EntriesCovered, RunsCovered, HomeQueries
<1> QED
  BY <1>2, <1>3

LEMMA PageStep ==
  ASSUME TypeOK, PInv, [Next]_vars
  PROVE  PInv'
<1>1. CASE Crawl
  BY <1>1, PagesBesideCrawlers DEF PInv
<1>2. CASE \/ UNCHANGED vars \/ CleanBuild
           \/ \E level \in 0 .. LogDepth : CleanLogs(level)
  <2>1. UNCHANGED <<catalogVars, pc, page, disturbed>>
    BY <1>2 DEF vars, CleanBuild, CleanLogs, requestVars, historyVars
  <2> QED
    BY <2>1
    DEF PInv, StartsBlank, EntriesCovered, RunsCovered, Rows, OfType,
        catalogVars
<1>3. ASSUME NEW s \in Servers, Step(s), NEW t \in Servers \ {s}
      PROVE  /\ StartsBlank(t)'
             /\ ~ disturbed'[t] => EntriesCovered(t)' /\ RunsCovered(t)'
  <2>1. /\ UNCHANGED <<schema, known, cataloged, types>>
        /\ pc'[t] = pc[t] /\ page'[t] = page[t]
        /\ disturbed'[t] = disturbed[t]
    BY <1>3, ServersMoveAlone DEF Aside, catalogVars
  <2> QED
    BY <2>1
    DEF PInv, StartsBlank, EntriesCovered, RunsCovered, Rows, OfType
<1> QED
  BY <1>1, <1>2, <1>3, PageOfOne DEF Next, PInv

\* The numbers of a home page agree unless rows were erased or retyped while
\* it was read.
THEOREM PagesReadForward == Spec => []HomePageReadsForward
<1>1. Init => PInv
  BY DEF Init, PInv, StartsBlank, EntriesCovered, RunsCovered
<1>2. PInv => HomePageReadsForward
  BY DEF PInv, EntriesCovered, RunsCovered, HomePageReadsForward, Rows
<1> QED
  BY <1>1, <1>2, PageStep, WebTypeCorrect, PTL DEF Spec

=============================================================================
