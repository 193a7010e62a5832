------------------------ MODULE ScanRunsViewProofs -------------------------
(***************************************************************************)
(* The crawlers implement the view that WebRequests reads, for any number  *)
(* of crawlers, paths, identifiers and faults.                             *)
(***************************************************************************)
EXTENDS ScanRunsProofs

\* A crawler that creates an object has seen the one before it created.
SchemaOrder ==
    \A c \in Crawlers :
        /\ pc[c] = "file_system_entries" => "scan_runs" \in schema
        /\ pc[c] = "indexes" => "file_system_entries" \in schema

CreatesNothing(c) ==
    /\ schema' = schema
    /\ \A d \in Crawlers :
          pc'[d] \in {"file_system_entries", "indexes"} => pc'[d] = pc[d]

LEMMA SchemaChanges ==
  ASSUME TypeOK, NEW c \in Crawlers, CrawlerStep(c)
  PROVE  InitializeSchema(c) \/ CreatesNothing(c)
<1> USE DEF TypeOK, GoTo, CreatesNothing, catalogVars, settings, identity,
            counts
<1>1. ASSUME NEW path \in Paths \cup {NoPath}, NEW clear \in BOOLEAN,
             Launch(c, path, clear)
      PROVE  CreatesNothing(c)
  BY <1>1 DEF Launch
<1>2. CASE Connect(c) \/ ConnectFails(c) \/ RootUnresolvable(c)
  BY <1>2 DEF Connect, ConnectFails, RootUnresolvable
<1>3. CASE Acquire(c)
  BY <1>3 DEF Acquire
<1>4. CASE StatementFails(c)
  BY <1>4 DEF StatementFails
<1>5. CASE RecordFails(c) \/ StatFails(c)
  BY <1>5 DEF RecordFails, StatFails, AfterRecord
<1>6. CASE DeleteEntries(c) \/ DeleteRuns(c)
  BY <1>6 DEF DeleteEntries, DeleteRuns, DeleteAllEntries, DeleteAllRuns
<1>7. CASE InsertRun(c)
  BY <1>7 DEF InsertRun, InsertRunRow
<1>8. CASE FetchIdentifier(c)
  BY <1>8 DEF FetchIdentifier
<1>9. CASE RecordEntry(c)
  BY <1>9 DEF RecordEntry, UpsertEntryRow, AfterRecord
<1>10. CASE OpenIterator(c) \/ OpenIteratorFails(c)
  BY <1>10 DEF OpenIterator, OpenIteratorFails
<1>11. ASSUME NEW path \in Paths, NextEntry(c, path)
       PROVE  CreatesNothing(c)
  BY <1>11 DEF NextEntry
<1>12. CASE WalkEnds(c) \/ IteratorError(c) \/ HiddenCheckThrows(c)
  BY <1>12 DEF WalkEnds, IteratorError, HiddenCheckThrows
<1>13. CASE FinishRun(c)
  BY <1>13 DEF FinishRun, FinishRunRow
<1>14. CASE Kill(c)
  BY <1>14 DEF Kill
<1> QED
  BY <1>1, <1>2, <1>3, <1>4, <1>5, <1>6, <1>7, <1>8, <1>9, <1>10, <1>11, <1>12,
     <1>13, <1>14
  DEF CrawlerStep, Step

LEMMA SchemaOrderStep ==
  ASSUME TypeOK, SchemaOrder, [Next]_vars
  PROVE  SchemaOrder'
<1>1. CASE UNCHANGED vars
  BY <1>1 DEF vars, SchemaOrder
<1>2. ASSUME NEW c \in Crawlers, InitializeSchema(c)
      PROVE  SchemaOrder'
  <2>1. schema \subseteq schema'
    BY <1>2 DEF InitializeSchema, CreateObject, CreateIfNotExists
  <2>2. \A d \in Crawlers \ {c} : pc'[d] = pc[d]
    BY <1>2 DEF InitializeSchema, CreateObject, GoTo, TypeOK
  <2>3. /\ pc'[c] = "file_system_entries" => "scan_runs" \in schema'
        /\ pc'[c] = "indexes" => "file_system_entries" \in schema'
    BY <1>2
    DEF InitializeSchema, CreateObject, CreateIfNotExists, AfterSchema, GoTo,
        TypeOK
  <2> QED
    BY <2>1, <2>2, <2>3 DEF SchemaOrder
<1>3. ASSUME NEW c \in Crawlers, CreatesNothing(c)
      PROVE  SchemaOrder'
  BY <1>3 DEF CreatesNothing, SchemaOrder
<1> QED
  BY <1>1, <1>2, <1>3, NextIsCrawlerStep, SchemaChanges

LEMMA SchemaOrdered == Spec => []SchemaOrder
<1>1. Init => SchemaOrder
  BY DEF Init, SchemaOrder
<1>2. TypeOK /\ SchemaOrder /\ [Next]_vars => SchemaOrder'
  BY SchemaOrderStep
<1> QED
  BY <1>1, <1>2, TypeCorrect, PTL DEF Spec

-----------------------------------------------------------------------------
(* Every step of a crawler is a step of the view, or changes nothing a     *)
(* reader sees.                                                            *)

LEMMA ViewInit == Init => View!Init
  BY DEF Init, EmptyCatalog, View!Init, CatalogedPaths, PresentRuns, Present,
         AbsentRun

LEMMA RowsSeen ==
  /\ runs' = runs => PresentRuns' = PresentRuns
  /\ entries' = entries => CatalogedPaths' = CatalogedPaths
  BY DEF PresentRuns, Present, CatalogedPaths

LEMMA ViewStep ==
  ASSUME IInv, IInv', SchemaOrder, [Next]_vars
  PROVE  [View!Next]_(View!viewVars)
<1> USE DEF View!viewVars
<1>1. CASE UNCHANGED vars
  BY <1>1, RowsSeen DEF vars
<1>2. ASSUME NEW c \in Crawlers, CrawlerStep(c)
      PROVE  [View!Next]_(View!viewVars)
  <2>1. CASE InitializeSchema(c)
    <3>1. UNCHANGED <<PresentRuns, CatalogedPaths>>
      BY <2>1, RowsSeen
      DEF InitializeSchema, CreateObject, CreateIfNotExists
    <3>2. PICK object \in View!Objects : CreateObject(c, object, pc'[c])
      BY <2>1
      DEF InitializeSchema, CreateObject, GoTo, View!Objects, IInv, TypeOK
    <3>3. View!MayCreate(object)
      BY <3>2 DEF CreateObject, SchemaOrder, View!MayCreate, View!Objects
    <3>4. View!CreateObject(object)
      BY <3>1, <3>2, <3>3
      DEF CreateObject, CreateIfNotExists, View!CreateObject
    <3> QED
      BY <3>4 DEF View!Next
  <2>2. CASE DeleteEntries(c)
    <3>1. /\ CatalogedPaths' = {} /\ PresentRuns' = PresentRuns
          /\ schema' = schema
      BY <2>2, RowsSeen DEF DeleteEntries, DeleteAllEntries, CatalogedPaths
    <3> QED
      BY <3>1 DEF View!EraseEntries, View!Erase, View!Next
  <2>3. CASE DeleteRuns(c)
    <3>1. PresentRuns' = {} /\ schema' = schema
      BY <2>3
      DEF DeleteRuns, DeleteAllRuns, AbsentRun, PresentRuns, Present
    <3>2. CatalogedPaths' = {}
      BY <3>1
      DEF CatalogedPaths, PresentRuns, Present, IInv, TypeOK, CatalogTypeOK,
          ReferentialIntegrity
    <3> QED
      BY <3>1, <3>2 DEF View!EraseRuns, View!Erase, View!Next
  <2>4. CASE InsertRun(c)
    <3>1. PICK new \in RunIds : new = NewRunId
      BY <2>4 DEF InsertRun, InsertRunRow
    <3>2. PresentRuns' = PresentRuns \cup {new}
      BY <2>4, <3>1
      DEF InsertRun, InsertRunRow, PresentRuns, Present, AbsentRun, IInv,
          TypeOK, CatalogTypeOK
    <3>3. \A q \in PresentRuns : q < new
      BY <3>1
      DEF PresentRuns, NewRunId, IInv, FutureRunsAbsent, TypeOK,
          CatalogTypeOK, RunIds
    <3>4. CatalogedPaths' = CatalogedPaths /\ schema' = schema
      BY <2>4, RowsSeen DEF InsertRun, InsertRunRow
    <3> QED
      BY <3>1, <3>2, <3>3, <3>4
      DEF View!OpenRun, View!Next, View!RunIds, RunIds
  <2>5. CASE RecordEntry(c)
    <3>1. PresentRuns' = PresentRuns /\ schema' = schema
      BY <2>5, RowsSeen DEF RecordEntry, UpsertEntryRow
    <3>2. CASE current[c] \in Paths
      <4>1. PresentRuns # {}
        BY <2>5 DEF RecordEntry, UpsertEntryRow, PresentRuns, Present
      <4>2. CatalogedPaths' = CatalogedPaths \cup {current[c]}
        <5>1. runId[c] \in RunIds /\ runId[c] # NoRun
          BY <2>5
          DEF RecordEntry, UpsertEntryRow, Present, RunIds, NoRun
        <5> QED
          BY <2>5, <3>2, <5>1
          DEF RecordEntry, UpsertEntryRow, CatalogedPaths, IInv, TypeOK,
              CatalogTypeOK
      <4> QED
        BY <3>1, <3>2, <4>1, <4>2 DEF View!RecordPath, View!Next
    <3>3. CASE current[c] \notin Paths
      <4>1. entries' = entries
        BY <2>5, <3>3
        DEF RecordEntry, UpsertEntryRow, IInv, TypeOK, CatalogTypeOK
      <4> QED
        BY <3>1, <4>1, RowsSeen
    <3> QED
      BY <3>2, <3>3
  <2>6. CASE FinishRun(c)
    <3>1. CatalogedPaths' = CatalogedPaths /\ schema' = schema
      BY <2>6, RowsSeen DEF FinishRun, FinishRunRow, catalogVars
    <3>2. \A r \in RunIds : Present(r)' = Present(r)
      BY <2>6
      DEF FinishRun, FinishRunRow, catalogVars, Present, IInv, TypeOK,
          CatalogTypeOK
    <3> QED
      BY <3>1, <3>2 DEF PresentRuns
  <2>7. CASE FetchIdentifier(c)
    BY <2>7, RowsSeen DEF FetchIdentifier, catalogVars
  <2>8. CASE Quiet(c) /\ CreatesNothing(c)
    BY <2>8, RowsSeen DEF Quiet, CreatesNothing
  <2> QED
    BY <1>2, <2>1, <2>2, <2>3, <2>4, <2>5, <2>6, <2>7, <2>8, QuietActions,
       SchemaChanges
    DEF CrawlerStep, Step, IInv
<1> QED
  BY <1>1, <1>2, NextIsCrawlerStep

\* What a reader sees of the crawlers is always a behaviour of the view.
THEOREM ViewImplemented == Spec => ImplementsView
<1>1. Spec => View!Init
  BY ViewInit DEF Spec
<1>2. Spec => [][IInv /\ IInv' /\ SchemaOrder /\ [Next]_vars]_vars
  BY Inductive, SchemaOrdered, PTL DEF Spec
<1>3. [IInv /\ IInv' /\ SchemaOrder /\ [Next]_vars]_vars
        => [View!Next]_(View!viewVars)
  BY ViewStep, RowsSeen DEF vars, View!viewVars
<1> QED
  BY <1>1, <1>2, <1>3, PTL DEF ImplementsView, View!Spec

=============================================================================
