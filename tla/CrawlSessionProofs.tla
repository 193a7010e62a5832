------------------------ MODULE CrawlSessionProofs -------------------------
(***************************************************************************)
(* Proofs about CrawlSession, for any tree, any number of crawlers and any *)
(* interference: a session is a behaviour of ScanRuns and a behaviour of   *)
(* DirectoryWalk, and what is proved of the two gives what a crawl leaves  *)
(* in the catalog.                                                         *)
(***************************************************************************)
EXTENDS CrawlSession, ScanRunsProofs

Walked == INSTANCE DirectoryWalkProofs WITH
            Nodes <- Paths, Root <- TreeRoot, None <- NoPath,
            Faults <- WalkFaults \cup {"record"}, pc <- walkPc,
            accessible <- accessible[Walker],
            inaccessible <- inaccessible[Walker]

-----------------------------------------------------------------------------
(* Walk and Walked are two instances of one module.                        *)

LEMMA SameRecording ==
  /\ Walk!RecordRoot <=> Walked!RecordRoot
  /\ Walk!Visit <=> Walked!Visit
  /\ \A n : Walk!Readable(n) <=> Walked!Readable(n)
  BY DEF Walk!RecordRoot, Walked!RecordRoot, Walk!Visit, Walked!Visit,
         Walk!Recorded, Walked!Recorded, Walk!NotRecorded, Walked!NotRecorded,
         Walk!Readable, Walked!Readable, Walk!Live, Walked!Live,
         Walk!Skipped, Walked!Skipped, Walk!tree, Walked!tree,
         Walk!iterator, Walked!iterator

LEMMA SameOpening ==
  /\ Walk!Construct <=> Walked!Construct
  /\ Walk!ConstructSealed <=> Walked!ConstructSealed
  /\ Walk!ConstructFails <=> Walked!ConstructFails
  /\ Walk!Descend <=> Walked!Descend
  BY DEF Walk!Construct, Walked!Construct,
         Walk!ConstructSealed, Walked!ConstructSealed,
         Walk!ConstructFails, Walked!ConstructFails,
         Walk!Descend, Walked!Descend, Walk!Recurses, Walked!Recurses,
         Walk!Open, Walked!Open, Walk!Children, Walked!Children,
         Walk!Holds, Walked!Holds, Walk!Resolves, Walked!Resolves,
         Walk!Live, Walked!Live, Walk!tree, Walked!tree,
         Walk!iterator, Walked!iterator, Walk!results, Walked!results

LEMMA SameMoving ==
  /\ Walk!SkipHidden <=> Walked!SkipHidden
  /\ Walk!HiddenCheckThrows <=> Walked!HiddenCheckThrows
  /\ Walk!StayBeside <=> Walked!StayBeside
  /\ Walk!DescendFails <=> Walked!DescendFails
  /\ Walk!ReadFails <=> Walked!ReadFails
  /\ Walk!Finish <=> Walked!Finish
  BY DEF Walk!SkipHidden, Walked!SkipHidden,
         Walk!HiddenCheckThrows, Walked!HiddenCheckThrows,
         Walk!StayBeside, Walked!StayBeside,
         Walk!DescendFails, Walked!DescendFails,
         Walk!ReadFails, Walked!ReadFails, Walk!Finish, Walked!Finish,
         Walk!Truncate, Walked!Truncate, Walk!Recurses, Walked!Recurses,
         Walk!Skipped, Walked!Skipped, Walk!Resolves, Walked!Resolves,
         Walk!Live, Walked!Live, Walk!tree, Walked!tree,
         Walk!iterator, Walked!iterator, Walk!results, Walked!results

LEMMA SameReading ==
  /\ \A n : Walk!Advance(n) <=> Walked!Advance(n)
  /\ Walk!Pop <=> Walked!Pop
  BY DEF Walk!Advance, Walked!Advance, Walk!Pop, Walked!Pop,
         Walk!Top, Walked!Top, Walk!tree, Walked!tree,
         Walk!results, Walked!results

LEMMA SameEnvironment == Walk!Environment <=> Walked!Environment
  BY DEF Walk!Environment, Walked!Environment, Walk!Create, Walked!Create,
         Walk!Remove, Walked!Remove, Walk!TargetAppears, Walked!TargetAppears,
         Walk!Children, Walked!Children, Walk!Holds, Walked!Holds,
         Walk!Resolves, Walked!Resolves, Walk!Live, Walked!Live,
         Walk!iterator, Walked!iterator, Walk!results, Walked!results

LEMMA SameWalk ==
  /\ Walk!Init <=> Walked!Init
  /\ Walk!Next <=> Walked!Next
  /\ Walk!vars = Walked!vars
<1>1. Walk!Init <=> Walked!Init
  BY DEF Walk!Init, Walked!Init, Walk!Holds, Walked!Holds,
         Walk!Resolves, Walked!Resolves, Walk!Live, Walked!Live
<1>2. Walk!vars = Walked!vars
  BY DEF Walk!vars, Walked!vars
<1>3. Walk!Next <=> Walked!Next
  BY SameRecording, SameOpening, SameMoving, SameReading, SameEnvironment
  DEF Walk!Next, Walked!Next, Walk!Crawl, Walked!Crawl
<1> QED
  BY <1>1, <1>2, <1>3

LEMMA TreeIsSound == Walked!TreeAssumption
<1>1. Walked!IsFiniteSet(Paths)
  BY CatalogAssumption DEF Walked!IsFiniteSet, IsFiniteSet
<1> QED
  BY <1>1, SessionAssumption, CatalogAssumption
  DEF Walked!TreeAssumption, Walked!Kinds, Walked!FaultKinds

-----------------------------------------------------------------------------
(* The two projections.                                                    *)

JInv == TypeOK /\ Walked!WInv

\* Steps of the Walker that are steps of ScanRuns and not of the walk.
LEMMA StatementSteps ==
  ASSUME JInv, Statement \/ StartUpsert \/ VisitEntry \/ LeaveLoop
  PROVE  Next /\ UNCHANGED Walked!vars
<1>1. CASE Statement
  <2>1. Next
    BY <1>1, SessionAssumption DEF Statement, Next, Step
  <2>2. UNCHANGED counts /\ UNCHANGED walkVars
    BY <1>1
    DEF Statement, Launch, Connect, ConnectFails, Acquire, StatementFails,
        InitializeSchema, CreateObject, DeleteEntries, DeleteRuns, InsertRun,
        FetchIdentifier
  <2> QED
    BY <2>1, <2>2 DEF Walked!vars, walkVars, counts
<1>2. CASE StartUpsert
  <2>1. UNCHANGED Walked!vars
    BY <1>2 DEF StartUpsert, Acquire, counts, Walked!vars, walkVars
  <2> QED
    BY <1>2, <2>1, SessionAssumption DEF StartUpsert, Next, Step
<1>3. CASE VisitEntry
  <2>1. UNCHANGED Walked!vars
    BY <1>3 DEF VisitEntry, NextEntry, counts, Walked!vars, walkVars
  <2>2. entry \in Paths
    BY <1>3 DEF VisitEntry, JInv, Walked!WInv, Walked!StageSound
  <2> QED
    BY <1>3, <2>1, <2>2, SessionAssumption DEF VisitEntry, Next, Step
<1>4. CASE LeaveLoop
  <2>1. UNCHANGED Walked!vars
    BY <1>4 DEF LeaveLoop, WalkEnds, counts, Walked!vars, walkVars
  <2> QED
    BY <1>4, <2>1, SessionAssumption DEF LeaveLoop, Next, Step
<1> QED
  BY <1>1, <1>2, <1>3, <1>4

\* Steps of the Walker that are steps of the walk.
LEMMA WalkSteps ==
  ASSUME Record \/ OpenRoot \/ FirstEntry \/ OpenFails \/ HiddenCheckFails
            \/ Increment \/ IncrementFails \/ Complete
  PROVE  [Next]_vars /\ Walked!Next
<1>1. CASE Record
  BY <1>1, SameRecording, SessionAssumption
  DEF Record, Next, Step, Walked!Next, Walked!Crawl
<1>2. CASE OpenRoot
  BY <1>2, SameOpening DEF OpenRoot, Walked!Next, Walked!Crawl
<1>3. CASE FirstEntry \/ OpenFails
  BY <1>3, SameOpening, SameMoving, SameReading, SessionAssumption
  DEF FirstEntry, OpenFails, Next, Step, Walked!Next, Walked!Crawl
<1>4. CASE HiddenCheckFails \/ IncrementFails \/ Complete
  BY <1>4, SameMoving, SessionAssumption
  DEF HiddenCheckFails, IncrementFails, Complete, Next, Step, Walked!Next,
      Walked!Crawl
<1>5. CASE Increment
  BY <1>5, SameOpening, SameMoving, SameReading
  DEF Increment, Walked!Next, Walked!Crawl
<1> QED
  BY <1>1, <1>2, <1>3, <1>4, <1>5

\* A step of another crawler, seen from one that does not move.
StandsStill(d) ==
    /\ pc'[d] = pc[d] /\ root'[d] = root[d] /\ current'[d] = current[d]
    /\ lastRowId'[d] = lastRowId[d] /\ runId'[d] = runId[d]
    /\ accessible'[d] = accessible[d] /\ inaccessible'[d] = inaccessible[d]

LEMMA OthersStandStill ==
  ASSUME TypeOK, NEW c \in Crawlers, CrawlerStep(c), NEW d \in Crawlers \ {c}
  PROVE  StandsStill(d)
<1>1. Moves(c)
  BY CrawlersMoveAlone
<1>2. root'[d] = root[d]
  BY DEF CrawlerStep, Step, Launch, Connect, ConnectFails, Acquire,
         StatementFails, RecordFails, StatFails, InitializeSchema, CreateObject,
         DeleteEntries, DeleteRuns, RootUnresolvable, InsertRun,
         FetchIdentifier, RecordEntry, OpenIterator, OpenIteratorFails,
         NextEntry, WalkEnds, IteratorError, HiddenCheckThrows, FinishRun,
         Kill, settings, TypeOK
<1>3. current'[d] = current[d]
  BY DEF CrawlerStep, Step, Launch, Connect, ConnectFails, Acquire,
         StatementFails, RecordFails, StatFails, InitializeSchema, CreateObject,
         DeleteEntries, DeleteRuns, RootUnresolvable, InsertRun,
         FetchIdentifier, RecordEntry, OpenIterator, OpenIteratorFails,
         NextEntry, WalkEnds, IteratorError, HiddenCheckThrows, FinishRun,
         Kill, TypeOK
<1> QED
  BY <1>1, <1>2, <1>3 DEF Moves, StandsStill

LEMMA Projections ==
  ASSUME JInv, [SessionNext]_sessionVars
  PROVE  [Next]_vars /\ [Walked!Next]_(Walked!vars)
<1>1. CASE UNCHANGED sessionVars
  BY <1>1 DEF sessionVars, vars, walkVars, Walked!vars
<1>2. CASE WalkerStep
  BY <1>2, StatementSteps, WalkSteps DEF WalkerStep
<1>3. CASE WalkerKilled
  <2>1. Next
    BY <1>3, SessionAssumption DEF WalkerKilled, Next
  <2>2. UNCHANGED Walked!vars
    BY <1>3 DEF WalkerKilled, Kill, counts, walkVars, Walked!vars
  <2> QED
    BY <2>1, <2>2
<1>4. CASE OtherCrawler
  <2>1. PICK c \in Crawlers \ {Walker} : CrawlerStep(c)
    BY <1>4, SessionAssumption DEF OtherCrawler, CrawlerStep
  <2>2. Next
    BY <2>1, NextIsCrawlerStep
  <2>3. StandsStill(Walker)
    BY <2>1, OthersStandStill, SessionAssumption DEF JInv
  <2>4. UNCHANGED walkVars
    BY <1>4 DEF OtherCrawler
  <2> QED
    BY <2>2, <2>3, <2>4 DEF StandsStill, walkVars, Walked!vars
<1>5. CASE TreeChanges
  BY <1>5, SameEnvironment DEF TreeChanges, Walked!Next
<1> QED
  BY <1>1, <1>2, <1>3, <1>4, <1>5 DEF SessionNext

LEMMA JInvInductive == SessionSpec => []JInv
<1>1. SessionInit => JInv
  BY TypeInit, Walked!WalkInit, TreeIsSound, SameWalk DEF SessionInit, JInv
<1>2. JInv /\ [SessionNext]_sessionVars => JInv'
  BY Projections, TypeStep, Walked!WalkStep, TreeIsSound DEF JInv
<1> QED
  BY <1>1, <1>2, PTL DEF SessionSpec

\* A session is a behaviour of ScanRuns: what is proved there of crawlers that
\* meet any entries holds of one that walks a tree.
THEOREM SessionIsScanRuns == SessionSpec => Spec
<1>1. SessionInit => Init
  BY DEF SessionInit
<1>2. JInv /\ [SessionNext]_sessionVars => [Next]_vars
  BY Projections
<1> QED
  BY <1>1, <1>2, JInvInductive, PTL DEF SessionSpec, Spec

\* A session is a behaviour of DirectoryWalk: the crawl's statements, the other
\* crawlers and a kill only stop the walk or let it go on.
THEOREM SessionIsWalk == SessionSpec => Walk!Spec
<1>1. SessionInit => Walk!Init
  BY DEF SessionInit
<1>2. JInv /\ [SessionNext]_sessionVars => [Walk!Next]_(Walk!vars)
  BY Projections, SameWalk DEF Walk!vars, Walked!vars
<1> QED
  BY <1>1, <1>2, JInvInductive, PTL DEF SessionSpec, Walk!Spec

-----------------------------------------------------------------------------
(* How far the crawl and the walk are, and what the catalog keeps of it.   *)

BeforeWalk == BeforeInsert \cup {"fetch_identifier", "record_root"}

\* The stage of the crawl tells the stage of the walk.
StagesAgree ==
    /\ pc[Walker] \in BeforeWalk => walkPc = "record_root"
    /\ pc[Walker] # "idle" => root[Walker] = TreeRoot
    /\ pc[Walker] = "record_root" => current[Walker] = TreeRoot
    /\ pc[Walker] = "record_entry" =>
          walkPc = "visit" /\ current[Walker] = entry
    /\ pc[Walker] = "done" => walkPc = "done"
    /\ IF walkPc = "record_root" THEN recorded = {}
                                 ELSE TreeRoot \in recorded \cup unread

\* A recorded path keeps a row; a rebuild by another crawler takes it away.
RowsKept == \A n \in recorded : entries[n] # NoRun \/ ClearedByAnother(Walker)

\* The run of this crawl stamps nothing this walk did not record.
StampsOwn == \A r \in RunIds :
                lastRowId[Walker] = r => RowsStampedBy(r) \subseteq recorded

\* Its row, once finished, has the counts of this walk.
CountsTold ==
    \A r \in RunIds : lastRowId[Walker] = r /\ Finished(r) =>
        /\ runs[r].accessible = accessible[Walker]
        /\ runs[r].inaccessible = inaccessible[Walker]

KInv == StagesAgree /\ RowsKept /\ StampsOwn /\ CountsTold

LEMMA KInvInit == SessionInit => KInv
<1> SUFFICES ASSUME SessionInit PROVE KInv
  OBVIOUS
<1>1. StagesAgree
  BY SessionAssumption
  DEF SessionInit, Init, Walk!Init, StagesAgree, BeforeWalk, BeforeInsert
<1>2. RowsKept
  BY DEF SessionInit, Walk!Init, RowsKept
<1>3. StampsOwn /\ CountsTold
  BY SessionAssumption
  DEF SessionInit, Init, StampsOwn, CountsTold, RunIds, NoRun
<1> QED
  BY <1>1, <1>2, <1>3 DEF KInv

\* Steps that leave the walk alone.
LEMMA StagesOfStatements ==
  ASSUME TypeOK, StagesAgree,
         Statement \/ StartUpsert \/ VisitEntry \/ LeaveLoop \/ WalkerKilled
  PROVE  StagesAgree'
<1> USE SessionAssumption
    DEF StagesAgree, TypeOK, GoTo, BeforeWalk, BeforeInsert, SchemaObjects,
        settings, identity, walkVars
<1>1. ASSUME NEW clear \in BOOLEAN, Launch(Walker, TreeRoot, clear),
             UNCHANGED walkVars
      PROVE  StagesAgree'
  BY <1>1 DEF Launch
<1>2. CASE UNCHANGED walkVars /\ (Connect(Walker) \/ ConnectFails(Walker))
  BY <1>2 DEF Connect, ConnectFails
<1>3. CASE UNCHANGED walkVars /\ Acquire(Walker)
  BY <1>3 DEF Acquire
<1>4. CASE UNCHANGED walkVars /\ StatementFails(Walker)
  BY <1>4
  DEF StatementFails, Busy, Breaks, Writes, StatementStages, RecordStages
<1>5. CASE UNCHANGED walkVars /\ InitializeSchema(Walker)
  BY <1>5 DEF InitializeSchema, CreateObject, AfterSchema
<1>6. CASE UNCHANGED walkVars /\ (DeleteEntries(Walker) \/ DeleteRuns(Walker))
  BY <1>6 DEF DeleteEntries, DeleteRuns, Holds
<1>7. CASE UNCHANGED walkVars /\ InsertRun(Walker)
  BY <1>7 DEF InsertRun, Holds
<1>8. CASE UNCHANGED walkVars /\ FetchIdentifier(Walker)
  BY <1>8 DEF FetchIdentifier
<1>9. CASE VisitEntry \/ LeaveLoop
  BY <1>9 DEF VisitEntry, NextEntry, LeaveLoop, WalkEnds
<1>10. CASE WalkerKilled
  BY <1>10 DEF WalkerKilled, Kill, Running
<1> QED
  BY <1>1, <1>2, <1>3, <1>4, <1>5, <1>6, <1>7, <1>8, <1>9, <1>10
  DEF Statement, StartUpsert

\* Steps of the walk: it leaves the root behind when the crawl does, and only
\* there.
LEMMA StagesOfWalk ==
  ASSUME TypeOK, StagesAgree,
         Record \/ OpenRoot \/ FirstEntry \/ OpenFails \/ HiddenCheckFails
            \/ Increment \/ IncrementFails \/ Complete
  PROVE  StagesAgree'
<1> USE SessionAssumption
    DEF StagesAgree, TypeOK, GoTo, BeforeWalk, BeforeInsert, SchemaObjects,
        settings, identity, Walk!iterator, Walk!results, Walk!tree
<1>1. CASE Record
  <2>1. /\ pc[Walker] \in RecordStages /\ GoTo(Walker, AfterRecord(Walker))
        /\ UNCHANGED <<root, current>>
    BY <1>1 DEF Record, RecordEntry, RecordFails, StatFails
  <2>2. pc'[Walker] = IF pc[Walker] = "record_root" THEN "open_iterator"
                                                   ELSE "walk"
    BY <2>1 DEF AfterRecord
  <2>3. CASE Walk!RecordRoot
    BY <2>1, <2>2, <2>3
    DEF RecordStages, Walk!RecordRoot, Walk!Recorded, Walk!NotRecorded
  <2>4. CASE Walk!Visit
    BY <2>1, <2>2, <2>4
    DEF RecordStages, Walk!Visit, Walk!Recorded, Walk!NotRecorded
  <2> QED
    BY <1>1, <2>3, <2>4 DEF Record
<1>2. CASE OpenRoot
  BY <1>2 DEF OpenRoot, Walk!Construct, vars
<1>3. CASE FirstEntry
  BY <1>3
  DEF FirstEntry, OpenIterator, Walk!ConstructSealed, Walk!Advance, Walk!Pop
<1>4. CASE OpenFails
  BY <1>4 DEF OpenFails, OpenIteratorFails, Walk!ConstructFails, Walk!ReadFails,
              Walk!Truncate
<1>5. CASE HiddenCheckFails
  BY <1>5 DEF HiddenCheckFails, HiddenCheckThrows, Walk!HiddenCheckThrows
<1>6. CASE Increment
  BY <1>6 DEF Increment, Walk!SkipHidden, Walk!Descend, Walk!StayBeside,
              Walk!Advance, Walk!Pop, vars
<1>7. CASE IncrementFails
  BY <1>7 DEF IncrementFails, IteratorError, Walk!DescendFails,
              Walk!ReadFails, Walk!Truncate
<1>8. CASE Complete
  BY <1>8 DEF Complete, FinishRun, Holds, Walk!Finish
<1> QED
  BY <1>1, <1>2, <1>3, <1>4, <1>5, <1>6, <1>7, <1>8

LEMMA StagesStep ==
  ASSUME TypeOK, StagesAgree, SessionNext
  PROVE  StagesAgree'
<1>1. CASE WalkerStep \/ WalkerKilled
  BY <1>1, StagesOfStatements, StagesOfWalk DEF WalkerStep
<1>2. CASE OtherCrawler
  <2>1. PICK c \in Crawlers \ {Walker} : CrawlerStep(c)
    BY <1>2, SessionAssumption DEF OtherCrawler, CrawlerStep
  <2>2. StandsStill(Walker)
    BY <2>1, OthersStandStill, SessionAssumption
  <2> QED
    BY <1>2, <2>2 DEF OtherCrawler, StandsStill, StagesAgree, walkVars
<1>3. CASE TreeChanges
  BY <1>3
  DEF TreeChanges, StagesAgree, vars, Walk!Environment, Walk!Create,
      Walk!Remove, Walk!TargetAppears, Walk!iterator, Walk!results
<1> QED
  BY <1>1, <1>2, <1>3 DEF SessionNext

\* Seen from the catalog, a step of the session is one of three: nothing
\* happens to it, a crawler moves and the walk records nothing, or the Walker
\* records its current path.
Rests == UNCHANGED vars /\ recorded' = recorded
MovesUnrecorded(c) == /\ CrawlerStep(c)
                      /\ recorded' = recorded
                      /\ c = Walker => ~ RecordEntry(Walker)
RecordsCurrent == /\ RecordEntry(Walker)
                  /\ recorded' = recorded \cup {current[Walker]}

LEMMA Recording ==
  ASSUME TypeOK, StagesAgree, Record
  PROVE  RecordsCurrent \/ MovesUnrecorded(Walker)
<1>1. PICK n \in {TreeRoot, entry} :
          /\ Walk!Recorded(n) \/ Walk!NotRecorded(n)
          /\ n = current[Walker]
  <2>1. pc[Walker] \in RecordStages
    BY DEF Record, RecordEntry, RecordFails, StatFails
  <2> QED
    BY <2>1
    DEF Record, Walk!RecordRoot, Walk!Visit, StagesAgree, RecordStages,
        BeforeWalk
<1>2. /\ accessible[Walker] \in Nat /\ inaccessible[Walker] \in Nat
      /\ \/ accessible' = accessible
         \/ accessible'[Walker] = accessible[Walker] + 1
  BY SessionAssumption
  DEF Record, RecordEntry, RecordFails, StatFails, TypeOK
<1>3. CASE RecordEntry(Walker)
  <2>1. inaccessible' = inaccessible /\
        accessible'[Walker] = accessible[Walker] + 1
    BY <1>3, SessionAssumption DEF RecordEntry, TypeOK
  <2>2. ~ Walk!NotRecorded(n)
    BY <1>2, <2>1 DEF Walk!NotRecorded
  <2>3. Walk!Recorded(n)
    BY <1>1, <2>2
  <2> QED
    BY <1>1, <1>3, <2>3 DEF Walk!Recorded, RecordsCurrent
<1>4. CASE RecordFails(Walker) \/ StatFails(Walker)
  <2>1. accessible' = accessible
    BY <1>4 DEF RecordFails, StatFails
  <2>2. ~ Walk!Recorded(n)
    BY <1>2, <2>1 DEF Walk!Recorded
  <2>3. recorded' = recorded
    BY <1>1, <2>2 DEF Walk!NotRecorded
  <2>4. ~ RecordEntry(Walker)
    BY <1>2, <2>1, SessionAssumption DEF RecordEntry, TypeOK
  <2> QED
    BY <1>4, <2>3, <2>4 DEF MovesUnrecorded, CrawlerStep, Step
<1> QED
  BY <1>3, <1>4 DEF Record

LEMMA ThreeKindsOfStep ==
  ASSUME JInv, StagesAgree, SessionNext
  PROVE  \/ Rests \/ RecordsCurrent
         \/ \E c \in Crawlers : MovesUnrecorded(c)
<1>1. CASE Statement \/ VisitEntry \/ LeaveLoop \/ FirstEntry \/ OpenFails
            \/ HiddenCheckFails \/ IncrementFails \/ Complete
  <2>1. pc[Walker] \notin RecordStages
    BY <1>1
    DEF Statement, Launch, Connect, ConnectFails, StatementFails,
        InitializeSchema, CreateObject, DeleteEntries, DeleteRuns, InsertRun,
        FetchIdentifier, Holds, VisitEntry, NextEntry, LeaveLoop, WalkEnds,
        FirstEntry, OpenIterator, OpenFails, OpenIteratorFails,
        HiddenCheckFails, HiddenCheckThrows, IncrementFails, IteratorError,
        Complete, FinishRun, RecordStages
  <2>2. recorded' = recorded
    BY <1>1
    DEF Statement, VisitEntry, LeaveLoop, walkVars, FirstEntry, OpenFails,
        HiddenCheckFails, IncrementFails, Complete, Walk!ConstructSealed,
        Walk!Advance, Walk!Pop, Walk!ConstructFails, Walk!ReadFails,
        Walk!HiddenCheckThrows, Walk!DescendFails, Walk!Finish, Walk!results
  <2>3. CrawlerStep(Walker)
    <3>1. entry \in Paths \/ ~ VisitEntry
      BY DEF VisitEntry, JInv, Walked!WInv, Walked!StageSound
    <3> QED
      BY <1>1, <3>1, SessionAssumption
      DEF CrawlerStep, Step, Statement, VisitEntry, LeaveLoop, FirstEntry,
          OpenFails, HiddenCheckFails, IncrementFails, Complete
  <2> QED
    BY <2>1, <2>2, <2>3, SessionAssumption DEF MovesUnrecorded, RecordEntry
<1>2. CASE StartUpsert \/ WalkerKilled
  <2>1. recorded' = recorded /\ CrawlerStep(Walker)
    BY <1>2 DEF StartUpsert, WalkerKilled, walkVars, CrawlerStep, Step
  <2>2. UNCHANGED accessible
    BY <1>2 DEF StartUpsert, Acquire, WalkerKilled, Kill, counts
  <2>3. accessible[Walker] \in Nat
    BY SessionAssumption DEF JInv, TypeOK
  <2>4. ~ RecordEntry(Walker)
    BY <2>2, <2>3, SessionAssumption DEF RecordEntry, JInv, TypeOK
  <2> QED
    BY <2>1, <2>4, SessionAssumption DEF MovesUnrecorded
<1>3. CASE Record
  BY <1>3, Recording, SessionAssumption DEF JInv
<1>4. CASE OpenRoot \/ Increment \/ TreeChanges
  BY <1>4
  DEF OpenRoot, Increment, TreeChanges, Rests, Walk!Construct,
      Walk!SkipHidden, Walk!Descend, Walk!StayBeside, Walk!Advance, Walk!Pop,
      Walk!Environment, Walk!Create, Walk!Remove, Walk!TargetAppears,
      Walk!results
<1>5. CASE OtherCrawler
  <2>1. PICK c \in Crawlers \ {Walker} : CrawlerStep(c)
    BY <1>5, SessionAssumption DEF OtherCrawler, CrawlerStep
  <2> QED
    BY <1>5, <2>1 DEF OtherCrawler, walkVars, MovesUnrecorded
<1> QED
  BY <1>1, <1>2, <1>3, <1>4, <1>5 DEF SessionNext, WalkerStep

\* Rows go only by the two statements of a rebuild, and appear only by an
\* upsert.
LEMMA EntriesChange ==
  ASSUME TypeOK, NEW c \in Crawlers, CrawlerStep(c)
  PROVE  \/ entries' = entries
         \/ pc[c] \in Deleting
         \/ RecordEntry(c) /\ \A p \in Paths : entries[p] # NoRun =>
                                                   entries'[p] # NoRun
<1>1. CASE Quiet(c)
  BY <1>1 DEF Quiet
<1>2. CASE DeleteEntries(c) \/ DeleteRuns(c)
  BY <1>2 DEF DeleteEntries, DeleteRuns, Holds, Deleting
<1>3. CASE InsertRun(c) \/ FetchIdentifier(c) \/ FinishRun(c)
  BY <1>3 DEF InsertRun, InsertRunRow, FetchIdentifier, FinishRun,
              FinishRunRow, catalogVars
<1>4. CASE RecordEntry(c)
  <2>1. runId[c] # NoRun
    BY <1>4 DEF RecordEntry, UpsertEntryRow, Present, RunIds, NoRun
  <2> QED
    BY <1>4, <2>1 DEF RecordEntry, UpsertEntryRow, TypeOK, CatalogTypeOK
<1> QED
  BY <1>1, <1>2, <1>3, <1>4, QuietActions DEF CrawlerStep, Step

LEMMA RowsKeptStep ==
  ASSUME JInv, SInv, StagesAgree, RowsKept, SessionNext
  PROVE  RowsKept'
<1>1. CASE Rests
  BY <1>1 DEF Rests, vars, RowsKept, ClearedByAnother
<1>2. ASSUME NEW c \in Crawlers, CrawlerStep(c), recorded' = recorded
      PROVE  RowsKept'
  <2>1. ClearedByAnother(Walker) => ClearedByAnother(Walker)'
    BY <1>2, RebuildsRemembered, SessionAssumption DEF JInv
  <2>2. recorded \subseteq Paths
    BY DEF JInv, Walked!WInv, Walked!TypeOK
  <2>3. CASE pc[c] \in Deleting /\ c = Walker
    BY <1>2, <2>3
    DEF StagesAgree, RowsKept, Deleting, BeforeWalk, BeforeInsert
  <2>4. CASE pc[c] \in Deleting /\ c # Walker
    <3>1. ClearedByAnother(Walker)
      BY <1>2, <2>4 DEF SInv, RebuildSettled, ClearedByAnother
    <3> QED
      BY <2>1, <3>1 DEF RowsKept
  <2>5. CASE pc[c] \notin Deleting
    <3>1. \A p \in Paths : entries[p] # NoRun => entries'[p] # NoRun
      BY <1>2, <2>5, EntriesChange DEF JInv
    <3> QED
      BY <1>2, <2>1, <2>2, <3>1 DEF RowsKept
  <2> QED
    BY <2>3, <2>4, <2>5
<1>3. CASE RecordsCurrent
  <2>1. CrawlerStep(Walker) /\ Walker \in Crawlers
    BY <1>3, SessionAssumption DEF RecordsCurrent, CrawlerStep, Step
  <2>2. ClearedByAnother(Walker) => ClearedByAnother(Walker)'
    BY <2>1, RebuildsRemembered DEF JInv
  <2>3. runId[Walker] # NoRun /\ entries' =
          [entries EXCEPT ![current[Walker]] = runId[Walker]]
    BY <1>3 DEF RecordsCurrent, RecordEntry, UpsertEntryRow, Present, RunIds,
                NoRun
  <2>4. entries \in [Paths -> RunIds \cup {NoRun}]
    BY DEF JInv, TypeOK, CatalogTypeOK
  <2>5. recorded \subseteq Paths /\ current[Walker] \in Paths
    <3>1. pc[Walker] \in RecordStages
      BY <1>3 DEF RecordsCurrent, RecordEntry
    <3>2. \/ current[Walker] = TreeRoot
          \/ walkPc = "visit" /\ current[Walker] = entry
      BY <3>1 DEF StagesAgree, RecordStages
    <3> QED
      BY <3>2, SessionAssumption
      DEF JInv, Walked!WInv, Walked!TypeOK, Walked!StageSound
  <2> QED
    BY <1>3, <2>2, <2>3, <2>4, <2>5 DEF RecordsCurrent, RowsKept
<1> QED
  BY <1>1, <1>2, <1>3, ThreeKindsOfStep DEF MovesUnrecorded

LEMMA StampsOwnStep ==
  ASSUME JInv, IInv, StagesAgree, StampsOwn, SessionNext
  PROVE  StampsOwn'
<1> SUFFICES ASSUME NEW r \in RunIds, lastRowId'[Walker] = r
             PROVE  RowsStampedBy(r)' \subseteq recorded'
  BY DEF StampsOwn
<1>1. CASE Rests
  BY <1>1 DEF Rests, vars, StampsOwn, RowsStampedBy
<1>2. ASSUME NEW c \in Crawlers, CrawlerStep(c),
             lastRowId'[Walker] = lastRowId[Walker],
             recorded' = recorded, RowsStampedBy(r)' \subseteq RowsStampedBy(r)
      PROVE  RowsStampedBy(r)' \subseteq recorded'
  BY <1>2 DEF StampsOwn
<1>3. ASSUME NEW c \in Crawlers, MovesUnrecorded(c)
      PROVE  RowsStampedBy(r)' \subseteq recorded'
  <2>1. CASE InsertRun(c) /\ c = Walker
    <3>1. r > sequence
      BY <2>1, SessionAssumption, CatalogAssumption
      DEF InsertRun, NewRunId, IInv, TypeOK, CatalogTypeOK, RunIds
    <3>2. RowsStampedBy(r) = {}
      BY <3>1
      DEF IInv, FutureRunsAbsent, ReferentialIntegrity, RowsStampedBy, RunIds,
          NoRun
    <3> QED
      BY <2>1, <3>2 DEF InsertRun, InsertRunRow, RowsStampedBy
  <2>2. CASE ~ (InsertRun(c) /\ c = Walker)
    <3>1. lastRowId'[Walker] = lastRowId[Walker]
      BY <1>3, <2>2, CrawlersMoveAlone, SessionAssumption
      DEF MovesUnrecorded, Moves, JInv
    <3>2. CASE RecordEntry(c)
      <4>1. c # Walker
        BY <1>3, <3>2 DEF MovesUnrecorded
      <4>2. runId[c] # NoRun
        BY <3>2 DEF RecordEntry, UpsertEntryRow, Present, RunIds, NoRun
      <4>3. runId[c] # r
        BY <3>1, <4>1, <4>2, SessionAssumption
        DEF IInv, IdentifiersKnown, RowIdsDistinct
      <4>4. RowsStampedBy(r)' \subseteq RowsStampedBy(r)
        BY <3>2, <4>3
        DEF RecordEntry, UpsertEntryRow, RowsStampedBy, JInv, TypeOK,
            CatalogTypeOK
      <4> QED
        BY <1>2, <1>3, <3>1, <4>4 DEF MovesUnrecorded
    <3>3. CASE ~ RecordEntry(c)
      BY <1>2, <1>3, <3>1, <3>3, RowsChange DEF MovesUnrecorded, JInv
    <3> QED
      BY <3>2, <3>3
  <2> QED
    BY <2>1, <2>2
<1>4. CASE RecordsCurrent
  <2>1. /\ lastRowId' = lastRowId
        /\ entries' = [entries EXCEPT ![current[Walker]] = runId[Walker]]
    BY <1>4 DEF RecordsCurrent, RecordEntry, UpsertEntryRow, identity
  <2>2. RowsStampedBy(r)' \subseteq RowsStampedBy(r) \cup {current[Walker]}
    BY <2>1 DEF RowsStampedBy, JInv, TypeOK, CatalogTypeOK
  <2> QED
    BY <1>4, <2>1, <2>2 DEF RecordsCurrent, StampsOwn
<1> QED
  BY <1>1, <1>3, <1>4, ThreeKindsOfStep

\* A run that is finished stays as it is; it is finished with the counts its
\* own crawl has then.
LEMMA CountsOfCrawler ==
  ASSUME IInv, IInv', CountsTold, NEW c \in Crawlers, CrawlerStep(c)
  PROVE  CountsTold'
<1> SUFFICES ASSUME NEW r \in RunIds, lastRowId'[Walker] = r, Finished(r)'
             PROVE  /\ runs'[r].accessible = accessible'[Walker]
                    /\ runs'[r].inaccessible = inaccessible'[Walker]
  BY DEF CountsTold
<1>1. Moves(c) /\ TypeOK /\ Walker \in Crawlers
  BY CrawlersMoveAlone, SessionAssumption DEF IInv
<1>2. r # NoRun
  BY DEF RunIds, NoRun
<1>3. CASE FinishRun(c) /\ runId[c] = r
  <2>1. lastRowId' = lastRowId /\ UNCHANGED counts
    BY <1>3 DEF FinishRun, identity
  <2>2. c = Walker
    BY <1>1, <1>2, <1>3, <2>1 DEF IInv, IdentifiersKnown, RowIdsDistinct
  <2>3. CASE unreset[c]
    <3>1. Finished(r) /\ runs' = runs
      BY <1>3, <2>3 DEF FinishRun, catalogVars, Finished
    <3> QED
      BY <2>1, <3>1 DEF CountsTold, counts
  <2>4. CASE ~ unreset[c]
    <3>1. FinishRunRow(r, accessible[c], inaccessible[c])
      BY <1>3, <2>4 DEF FinishRun
    <3>2. Present(r)
      BY <1>1, <3>1
      DEF FinishRunRow, Finished, Present, TypeOK, CatalogTypeOK
    <3> QED
      BY <2>1, <2>2, <3>1, <3>2 DEF FinishRunRow, counts
  <2> QED
    BY <2>3, <2>4
<1>4. CASE ~ (FinishRun(c) /\ runId[c] = r)
  <2>1. Finished(r) /\ runs'[r] = runs[r]
    <3>1. CASE runs' = runs
      BY <3>1 DEF Finished
    <3>2. CASE DeleteRuns(c)
      BY <3>2 DEF DeleteRuns, DeleteAllRuns, AbsentRun, Finished
    <3>3. CASE InsertRun(c)
      BY <1>1, <3>3
      DEF InsertRun, InsertRunRow, AbsentRun, Finished, TypeOK, CatalogTypeOK
    <3>4. CASE FinishRun(c) /\ runId[c] # r
      BY <1>1, <3>4
      DEF FinishRun, FinishRunRow, catalogVars, Finished, TypeOK,
          CatalogTypeOK
    <3> QED
      BY <1>1, <1>4, <3>1, <3>2, <3>3, <3>4, RowsChange
  <2>2. c # Walker /\ lastRowId[Walker] = r
    <3>1. CASE lastRowId'[Walker] = lastRowId[Walker]
      BY <1>1, <2>1, <3>1 DEF IInv, FinishedByOwner, Moves, EndStages
    <3>2. CASE InsertRun(c) /\ c = Walker
      BY <1>1, <2>1, <3>2, CatalogAssumption
      DEF InsertRun, NewRunId, IInv, FutureRunsAbsent, Present, Finished,
          TypeOK, CatalogTypeOK
    <3> QED
      BY <1>1, <3>1, <3>2 DEF Moves
  <2>3. /\ accessible'[Walker] = accessible[Walker]
        /\ inaccessible'[Walker] = inaccessible[Walker]
    BY <1>1, <2>2 DEF Moves
  <2> QED
    BY <2>1, <2>2, <2>3 DEF CountsTold
<1> QED
  BY <1>3, <1>4

LEMMA KInvStep ==
  ASSUME JInv, IInv, IInv', SInv, KInv, [SessionNext]_sessionVars
  PROVE  KInv'
<1>1. CASE UNCHANGED sessionVars
  BY <1>1
  DEF KInv, sessionVars, vars, walkVars, StagesAgree, RowsKept, StampsOwn,
      CountsTold, ClearedByAnother, RowsStampedBy, Finished
<1>2. CASE SessionNext
  <2>1. StagesAgree' /\ RowsKept' /\ StampsOwn'
    BY <1>2, StagesStep, RowsKeptStep, StampsOwnStep DEF KInv, JInv
  <2>2. CASE Rests
    BY <2>1, <2>2 DEF Rests, vars, KInv, CountsTold, Finished
  <2>3. CASE \E c \in Crawlers : CrawlerStep(c)
    BY <2>1, <2>3, CountsOfCrawler DEF KInv
  <2>4. RecordsCurrent => CrawlerStep(Walker)
    BY DEF RecordsCurrent, CrawlerStep, Step
  <2> QED
    BY <1>2, <2>2, <2>3, <2>4, ThreeKindsOfStep, SessionAssumption
    DEF KInv, MovesUnrecorded
<1> QED
  BY <1>1, <1>2

SessionInv == JInv /\ IInv /\ SInv /\ KInv

LEMMA SessionInductive == SessionSpec => []SessionInv
<1>1. SessionInit => SInv
  BY SInvInit DEF SessionInit
<1>2. JInv /\ IInv /\ IInv' /\ SInv /\ [SessionNext]_sessionVars => SInv'
  BY Projections, SInvStep
<1>3. JInv /\ IInv /\ IInv' /\ SInv /\ KInv /\ [SessionNext]_sessionVars
        => KInv'
  BY KInvStep
<1>4. JInv /\ IInv /\ SInv /\ KInv => SessionInv
  BY DEF SessionInv
<1> QED
  BY <1>1, <1>2, <1>3, <1>4, KInvInit, JInvInductive, SessionIsScanRuns,
     Inductive, PTL DEF SessionSpec

\* For any tree, any other crawlers and any faults: a crawl that exits with
\* code 0 and whose iterator never failed has cataloged, or warned of, all it
\* had to, unless another crawler rebuilt the catalog.
THEOREM CrawlLeavesCompleteCatalog == SessionSpec => []CatalogIsComplete
<1>1. SessionInv => CatalogIsComplete
  <2> SUFFICES ASSUME SessionInv, pc[Walker] = "done", ~ truncated,
                      NEW n \in Paths, ToBeCataloged(n)
               PROVE  \/ entries[n] # NoRun
                      \/ n \in unread
                      \/ ClearedByAnother(Walker)
    BY DEF CatalogIsComplete, ClearedByAnother
  <2>1. walkPc = "done"
    BY DEF SessionInv, KInv, StagesAgree
  <2>2. n \in recorded \cup unread
    <3>1. CASE n = TreeRoot
      BY <2>1, <3>1 DEF SessionInv, KInv, StagesAgree
    <3>2. CASE n # TreeRoot
      <4>1. Walked!Closed
        BY <2>1, TreeIsSound, Walked!NothingOwed
        DEF SessionInv, JInv, Walked!FinishedWalkIsClosed
      <4>2. /\ life[n] = "old" /\ ~ Walked!Skipped(n)
            /\ Walked!ToBeEntered(Parent[n])
        BY <3>2
        DEF ToBeCataloged, Walk!Skipped, Walked!Skipped, Walk!ToBeEntered,
            Walked!ToBeEntered, Walk!Seen, Walked!Seen
      <4> QED
        BY <3>2, <4>1, <4>2 DEF Walked!Closed, Walked!Seen
    <3> QED
      BY <3>1, <3>2
  <2> QED
    BY <2>2 DEF SessionInv, KInv, RowsKept
<1> QED
  BY <1>1, SessionInductive, PTL

\* Whatever happens to the tree and beside the crawl, the counts and the stamps
\* of a run are those of its walk.
THEOREM RunRowIsOfTheWalk == SessionSpec => []RunRowTellsTheWalk
<1>1. SessionSpec => []Walked!CountsMatchRows
  <2>1. Walked!Spec => []Walked!CountsMatchRows
    BY TreeIsSound, Walked!CountsAreExact
  <2>2. SessionInit => Walked!Init
    BY SameWalk DEF SessionInit
  <2>3. JInv /\ [SessionNext]_sessionVars => [Walked!Next]_(Walked!vars)
    BY Projections
  <2> QED
    BY <2>1, <2>2, <2>3, JInvInductive, PTL DEF SessionSpec, Walked!Spec
<1>2. SessionInv /\ Walked!CountsMatchRows => RunRowTellsTheWalk
  <2> SUFFICES ASSUME SessionInv, Walked!CountsMatchRows,
                      runId[Walker] # NoRun
               PROVE  LET run == runId[Walker]
                      IN  /\ RowsStampedBy(run) \subseteq recorded
                          /\ Finished(run) =>
                               /\ runs[run].accessible = Cardinality(recorded)
                               /\ runs[run].inaccessible =
                                    Cardinality(unread)
                                      + (IF truncated THEN 1 ELSE 0)
    BY DEF RunRowTellsTheWalk
  <2>1. lastRowId[Walker] = runId[Walker] /\ runId[Walker] \in RunIds
    BY SessionAssumption
    DEF SessionInv, IInv, IdentifiersKnown, TypeOK
  <2>2. RowsStampedBy(runId[Walker]) \subseteq recorded
    BY <2>1 DEF SessionInv, KInv, StampsOwn
  <2>3. /\ accessible[Walker] = Cardinality(recorded)
        /\ inaccessible[Walker] =
             Cardinality(unread) + (IF truncated THEN 1 ELSE 0)
    BY DEF Walked!CountsMatchRows, Walked!Cardinality, Cardinality,
           Walked!IsFiniteSet, IsFiniteSet
  <2> QED
    BY <2>1, <2>2, <2>3 DEF SessionInv, KInv, CountsTold
<1> QED
  BY <1>1, <1>2, SessionInductive, PTL

============================================================================
