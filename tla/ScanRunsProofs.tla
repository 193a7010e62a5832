-------------------------- MODULE ScanRunsProofs ---------------------------
(***************************************************************************)
(* Proofs about ScanRuns, for any number of crawlers, paths, identifiers   *)
(* and faults.                                                             *)
(***************************************************************************)
EXTENDS ScanRuns, FiniteSetTheorems, TLAPS

-----------------------------------------------------------------------------
(* The strengthening of the safety invariants.                             *)

BeforeInsert == {"idle", "connect", "delete_entries", "delete_runs",
                 "insert_run"} \cup SchemaObjects

\* What a crawler knows of its identifier, stage by stage.
IdentifiersKnown ==
    \A c \in Crawlers :
        /\ lastRowId[c] <= sequence
        /\ runId[c] \in {NoRun, lastRowId[c]}
        /\ pc[c] \in BeforeInsert => lastRowId[c] = NoRun
        /\ pc[c] = "fetch_identifier" => runId[c] = NoRun

RowIdsDistinct ==
    \A c, d \in Crawlers :
        c # d /\ lastRowId[c] # NoRun => lastRowId[c] # lastRowId[d]

\* No row exists yet under an identifier the sequence has not reached.
FutureRunsAbsent == \A r \in RunIds : r > sequence => ~ Present(r)

\* A crawl has counted every row that still carries its identifier.
RowsCounted ==
    \A c \in Crawlers, r \in RunIds :
        lastRowId[c] = r => Cardinality(RowsStampedBy(r)) <= accessible[c]

\* Only the crawl that opened a run finishes it, and only as its last step.
FinishedByOwner ==
    \A c \in Crawlers, r \in RunIds :
        lastRowId[c] = r /\ Finished(r) => pc[c] = "done"

IInv == /\ TypeOK
        /\ IdentifiersKnown
        /\ RowIdsDistinct
        /\ FutureRunsAbsent
        /\ ReferentialIntegrity
        /\ RowsCounted
        /\ FinishedByOwner
        /\ RowsWithinAccessibleCount

-----------------------------------------------------------------------------
(* Type correctness.                                                       *)

LEMMA TypeInit == Init => TypeOK
  BY CatalogAssumption
  DEF Init, TypeOK, CatalogTypeOK, EmptyCatalog, AbsentRun, RunRows, RunIds,
      NoRun, SchemaObjects, Stages

\* The program counter only ever holds a stage.
LEMMA StageNames ==
  ASSUME TypeOK, NEW c \in Crawlers
  PROVE  /\ \A stage \in Stages : GoTo(c, stage) => pc' \in [Crawlers -> Stages]
         /\ AfterRecord(c) \in Stages
         /\ AfterSchema(c) \in Stages
         /\ {"connect", "scan_runs", "file_system_entries", "indexes", "failed",
             "delete_runs", "insert_run", "fetch_identifier", "record_root",
             "walk", "record_entry", "finish_run", "done", "killed"}
               \subseteq Stages
  BY DEF TypeOK, GoTo, AfterRecord, AfterSchema, Stages, StatementStages,
         SchemaObjects, RecordStages, EndStages

LEMMA TypeStep == TypeOK /\ [Next]_vars => TypeOK'
<1> SUFFICES ASSUME TypeOK, [Next]_vars PROVE TypeOK'
  OBVIOUS
<1> USE DEF TypeOK, CatalogTypeOK
<1>1. CASE UNCHANGED vars
  BY <1>1 DEF vars
<1>2. ASSUME NEW c \in Crawlers, NEW path \in Paths \cup {NoPath},
             NEW clear \in BOOLEAN, Launch(c, path, clear)
      PROVE  TypeOK'
  BY <1>2, StageNames DEF Launch, catalogVars, identity, counts
<1>3. ASSUME NEW c \in Crawlers, Step(c)
      PROVE  TypeOK'
  <2>1. CASE Connect(c)
    BY <2>1, StageNames
    DEF Connect, catalogVars, settings, identity, counts
  <2>2. CASE ConnectFails(c)
    BY <2>2, StageNames
    DEF ConnectFails, catalogVars, settings, identity, counts
  <2>3. CASE Acquire(c)
    BY <2>3, StageNames
    DEF Acquire, catalogVars, settings, identity, counts
  <2>4. CASE StatementFails(c)
    BY <2>4, StageNames
    DEF StatementFails, catalogVars, settings, identity, counts
  <2>5. CASE RecordFails(c)
    BY <2>5, StageNames
    DEF RecordFails, Busy, Writes, catalogVars, settings, identity
  <2>6. CASE StatFails(c)
    BY <2>6, StageNames
    DEF StatFails, catalogVars, settings, identity
  <2>7. CASE InitializeSchema(c)
    BY <2>7, StageNames
    DEF InitializeSchema, CreateObject, CreateIfNotExists, SchemaObjects,
      settings, identity, counts
  <2>8. CASE DeleteEntries(c)
    BY <2>8, StageNames
    DEF DeleteEntries, DeleteAllEntries, settings, identity, counts
  <2>9. CASE DeleteRuns(c)
    BY <2>9, StageNames
    DEF DeleteRuns, DeleteAllRuns, AbsentRun, RunRows, settings, identity,
        counts
  <2>10. CASE RootUnresolvable(c)
    BY <2>10, StageNames
    DEF RootUnresolvable, catalogVars, settings, identity, counts
  <2>11. CASE InsertRun(c)
    <3>1. [AbsentRun EXCEPT !.status = "started", !.root = root[c]] \in RunRows
      BY DEF AbsentRun, RunRows
    <3> QED
      BY <2>11, <3>1, StageNames
      DEF InsertRun, InsertRunRow, NewRunId, RunIds, settings, counts
  <2>12. CASE FetchIdentifier(c)
    BY <2>12, StageNames
    DEF FetchIdentifier, catalogVars, settings, counts
  <2>13. CASE RecordEntry(c)
    <3>1. entries' \in [Paths -> RunIds \cup {NoRun}]
      BY <2>13 DEF RecordEntry, UpsertEntryRow, Present
    <3>2. accessible' \in [Crawlers -> Nat]
      BY <2>13 DEF RecordEntry
    <3>3. pc' \in [Crawlers -> Stages]
      BY <2>13, StageNames DEF RecordEntry
    <3> QED
      BY <2>13, <3>1, <3>2, <3>3
      DEF RecordEntry, UpsertEntryRow, settings, identity
  <2>14. CASE OpenIterator(c)
    BY <2>14, StageNames
    DEF OpenIterator, catalogVars, settings, identity, counts
  <2>15. CASE OpenIteratorFails(c)
    BY <2>15, StageNames
    DEF OpenIteratorFails, catalogVars, settings, identity, counts
  <2>16. ASSUME NEW path \in Paths, NextEntry(c, path) PROVE TypeOK'
    BY <2>16, StageNames DEF NextEntry, catalogVars, settings, identity, counts
  <2>17. CASE WalkEnds(c)
    BY <2>17, StageNames
    DEF WalkEnds, catalogVars, settings, identity, counts
  <2>18. CASE IteratorError(c)
    BY <2>18, StageNames
    DEF IteratorError, catalogVars, settings, identity
  <2>19. CASE HiddenCheckThrows(c)
    BY <2>19, StageNames
    DEF HiddenCheckThrows, catalogVars, settings, identity, counts
  <2>20. CASE FinishRun(c)
    <3>1. \A r \in RunIds :
            [status |-> "finished", root |-> runs[r].root,
             accessible |-> accessible[c], inaccessible |-> inaccessible[c]]
               \in RunRows
      BY DEF RunRows
    <3> QED
      BY <2>20, <3>1, StageNames
      DEF FinishRun, FinishRunRow, catalogVars, settings, identity, counts
  <2> QED
    BY <1>3, <2>1, <2>2, <2>3, <2>4, <2>5, <2>6, <2>7,
       <2>8, <2>9, <2>10, <2>11, <2>12, <2>13, <2>14, <2>15, <2>16, <2>17,
       <2>18, <2>19, <2>20
    DEF Step
<1>4. ASSUME NEW c \in Crawlers, Kill(c)
      PROVE  TypeOK'
  BY <1>4, StageNames DEF Kill, catalogVars, settings, identity, counts
<1> QED
  BY <1>1, <1>2, <1>3, <1>4 DEF Next

\* Every variable of the catalog and of the crawlers keeps its type.
THEOREM TypeCorrect == Spec => []TypeOK
  BY TypeInit, TypeStep, PTL DEF Spec

-----------------------------------------------------------------------------
(* Counting rows.                                                          *)

LEMMA RowsAreFinite ==
  ASSUME NEW r
  PROVE  /\ IsFiniteSet(RowsStampedBy(r)) /\ IsFiniteSet(RowsStampedBy(r)')
         /\ Cardinality(RowsStampedBy(r)) \in Nat
         /\ Cardinality(RowsStampedBy(r)') \in Nat
<1>1. RowsStampedBy(r) \in SUBSET Paths /\ RowsStampedBy(r)' \in SUBSET Paths
  BY DEF RowsStampedBy
<1> QED
  BY <1>1, FS_Subset, FS_CardinalityType, CatalogAssumption

LEMMA FewerRows ==
  ASSUME NEW r, RowsStampedBy(r)' \subseteq RowsStampedBy(r)
  PROVE  Cardinality(RowsStampedBy(r)') <= Cardinality(RowsStampedBy(r))
  BY RowsAreFinite, FS_Subset

LEMMA OneMoreRow ==
  ASSUME NEW r, NEW p, RowsStampedBy(r)' \subseteq RowsStampedBy(r) \cup {p}
  PROVE  Cardinality(RowsStampedBy(r)') <= Cardinality(RowsStampedBy(r)) + 1
<1> DEFINE grown == RowsStampedBy(r) \cup {p}
<1>1. /\ IsFiniteSet(grown)
      /\ \/ Cardinality(grown) = Cardinality(RowsStampedBy(r))
         \/ Cardinality(grown) = Cardinality(RowsStampedBy(r)) + 1
  <2>1. IsFiniteSet(RowsStampedBy(r))
    BY RowsAreFinite
  <2> HIDE DEF grown
  <2> QED
    BY <2>1, FS_AddElement, Zenon DEF grown
<1> HIDE DEF grown
<1>2. Cardinality(RowsStampedBy(r)') <= Cardinality(grown)
  BY <1>1, FS_Subset DEF grown
<1> QED
  BY <1>1, <1>2, RowsAreFinite, FS_CardinalityType

-----------------------------------------------------------------------------
(* Most actions only move one crawler on: the catalog, the identifiers and *)
(* the count of readable entries stay as they are.                         *)

Quiet(c) ==
    /\ UNCHANGED <<runs, entries, sequence, lastRowId, runId, accessible>>
    /\ \A d \in Crawlers \ {c} : pc'[d] = pc[d]
    /\ pc[c] # "done"
    /\ pc'[c] \in BeforeInsert => pc[c] \in BeforeInsert
    /\ pc'[c] # "fetch_identifier"

LEMMA QuietActions ==
  ASSUME TypeOK, NEW c \in Crawlers,
         \/ \E path \in Paths \cup {NoPath}, clear \in BOOLEAN :
               Launch(c, path, clear)
         \/ Connect(c) \/ ConnectFails(c) \/ Acquire(c)
         \/ StatementFails(c) \/ RecordFails(c) \/ StatFails(c)
         \/ InitializeSchema(c) \/ RootUnresolvable(c)
         \/ OpenIterator(c) \/ OpenIteratorFails(c)
         \/ \E path \in Paths : NextEntry(c, path)
         \/ WalkEnds(c) \/ IteratorError(c) \/ HiddenCheckThrows(c) \/ Kill(c)
  PROVE  Quiet(c)
<1> USE DEF TypeOK, Quiet, GoTo, catalogVars, identity, counts, BeforeInsert
<1>1. ASSUME NEW path \in Paths \cup {NoPath}, NEW clear \in BOOLEAN,
             Launch(c, path, clear)
      PROVE  Quiet(c)
  BY <1>1 DEF Launch
<1>2. CASE Connect(c) \/ ConnectFails(c)
  BY <1>2 DEF Connect, ConnectFails, SchemaObjects
<1>3. CASE Acquire(c)
  BY <1>3
  DEF Acquire, Writes, StatementStages, SchemaObjects, RecordStages
<1>4. CASE StatementFails(c)
  BY <1>4
  DEF StatementFails, Busy, Breaks, Writes, StatementStages, SchemaObjects,
      RecordStages
<1>5. CASE RecordFails(c) \/ StatFails(c)
  BY <1>5
  DEF RecordFails, StatFails, AfterRecord, RecordStages, SchemaObjects
<1>6. CASE InitializeSchema(c)
  BY <1>6
  DEF InitializeSchema, CreateObject, CreateIfNotExists, AfterSchema,
      SchemaObjects
<1>7. CASE RootUnresolvable(c) \/ OpenIterator(c) \/ OpenIteratorFails(c)
  BY <1>7
  DEF RootUnresolvable, OpenIterator, OpenIteratorFails, SchemaObjects
<1>8. ASSUME NEW path \in Paths, NextEntry(c, path)
      PROVE  Quiet(c)
  BY <1>8 DEF NextEntry, SchemaObjects
<1>9. CASE WalkEnds(c) \/ IteratorError(c) \/ HiddenCheckThrows(c)
  BY <1>9 DEF WalkEnds, IteratorError, HiddenCheckThrows, SchemaObjects
<1>10. CASE Kill(c)
  BY <1>10 DEF Kill, Running, EndStages, SchemaObjects
<1> QED
  BY <1>1, <1>2, <1>3, <1>4, <1>5, <1>6, <1>7, <1>8, <1>9, <1>10

LEMMA QuietPreserves ==
  ASSUME IInv, TypeOK', NEW c \in Crawlers, Quiet(c)
  PROVE  IInv'
<1> USE DEF IInv, Quiet
<1>1. \A r : Present(r)' = Present(r) /\ Finished(r)' = Finished(r)
               /\ RowsStampedBy(r)' = RowsStampedBy(r)
  BY DEF Present, Finished, RowsStampedBy
<1>2. IdentifiersKnown'
  BY DEF IdentifiersKnown
<1>3. RowIdsDistinct' /\ FutureRunsAbsent' /\ ReferentialIntegrity'
  BY <1>1 DEF RowIdsDistinct, FutureRunsAbsent, ReferentialIntegrity
<1>4. RowsCounted' /\ RowsWithinAccessibleCount'
  BY <1>1 DEF RowsCounted, RowsWithinAccessibleCount
<1>5. FinishedByOwner'
  BY <1>1 DEF FinishedByOwner
<1> QED
  BY <1>2, <1>3, <1>4, <1>5

-----------------------------------------------------------------------------
(* The actions that are not quiet.                                         *)

LEMMA DeleteEntriesPreserves ==
  ASSUME IInv, TypeOK', NEW c \in Crawlers, DeleteEntries(c)
  PROVE  IInv'
<1> USE DEF IInv, TypeOK
<1>1. /\ UNCHANGED <<runs, sequence, lastRowId, runId, accessible>>
      /\ pc' = [pc EXCEPT ![c] = "delete_runs"] /\ pc[c] = "delete_entries"
      /\ entries' = [p \in Paths |-> NoRun]
  BY DEF DeleteEntries, DeleteAllEntries, Holds, GoTo, identity, counts
<1>2. \A r : Present(r)' = Present(r) /\ Finished(r)' = Finished(r)
  BY <1>1 DEF Present, Finished
<1>3. \A r \in RunIds : Cardinality(RowsStampedBy(r)') = 0
  <2>1. \A r \in RunIds : RowsStampedBy(r)' = {}
    BY <1>1 DEF RowsStampedBy, RunIds, NoRun
  <2> QED
    BY <2>1, FS_EmptySet
<1>4. IdentifiersKnown' /\ RowIdsDistinct' /\ FutureRunsAbsent'
  BY <1>1, <1>2
  DEF IdentifiersKnown, RowIdsDistinct, FutureRunsAbsent, BeforeInsert
<1>5. ReferentialIntegrity'
  BY <1>1 DEF ReferentialIntegrity
<1>6. RowsCounted' /\ RowsWithinAccessibleCount'
  BY <1>1, <1>2, <1>3
  DEF RowsCounted, RowsWithinAccessibleCount, CatalogTypeOK, RunRows
<1>7. FinishedByOwner'
  BY <1>1, <1>2 DEF FinishedByOwner
<1> QED
  BY <1>4, <1>5, <1>6, <1>7

LEMMA DeleteRunsPreserves ==
  ASSUME IInv, TypeOK', NEW c \in Crawlers, DeleteRuns(c)
  PROVE  IInv'
<1> USE DEF IInv, TypeOK
<1>1. /\ UNCHANGED <<sequence, lastRowId, runId, accessible>>
      /\ pc' = [pc EXCEPT ![c] = "insert_run"] /\ pc[c] = "delete_runs"
      /\ runs' = [r \in RunIds |-> AbsentRun]
  BY DEF DeleteRuns, DeleteAllRuns, Holds, GoTo, identity, counts
<1>2. entries' = [p \in Paths |-> NoRun]
  BY DEF DeleteRuns, DeleteAllRuns, ReferentialIntegrity, CatalogTypeOK
<1>3. \A r : ~ Present(r)' /\ ~ Finished(r)'
  BY <1>1 DEF Present, Finished, AbsentRun
<1>4. \A r \in RunIds : Cardinality(RowsStampedBy(r)') = 0
  <2>1. \A r \in RunIds : RowsStampedBy(r)' = {}
    BY <1>2 DEF RowsStampedBy, RunIds, NoRun
  <2> QED
    BY <2>1, FS_EmptySet
<1>5. IdentifiersKnown' /\ RowIdsDistinct'
  BY <1>1 DEF IdentifiersKnown, RowIdsDistinct, BeforeInsert
<1>6. FutureRunsAbsent' /\ FinishedByOwner' /\ RowsWithinAccessibleCount'
  BY <1>3 DEF FutureRunsAbsent, FinishedByOwner, RowsWithinAccessibleCount
<1>7. ReferentialIntegrity'
  BY <1>2 DEF ReferentialIntegrity
<1>8. RowsCounted'
  BY <1>1, <1>4 DEF RowsCounted
<1> QED
  BY <1>5, <1>6, <1>7, <1>8

LEMMA InsertRunPreserves ==
  ASSUME IInv, TypeOK', NEW c \in Crawlers, InsertRun(c)
  PROVE  IInv'
<1> USE DEF IInv, TypeOK
<1>0. PICK new \in RunIds : new = sequence + 1
  BY DEF InsertRun, InsertRunRow, NewRunId
<1>1. /\ UNCHANGED <<entries, runId, accessible>>
      /\ pc' = [pc EXCEPT ![c] = "fetch_identifier"] /\ pc[c] = "insert_run"
      /\ sequence' = new
      /\ lastRowId' = [lastRowId EXCEPT ![c] = new]
  BY <1>0 DEF InsertRun, InsertRunRow, NewRunId, Holds, GoTo, counts
<1>2. /\ runs'[new].status = "started"
      /\ \A r \in RunIds \ {new} : runs'[r] = runs[r]
  BY <1>0 DEF InsertRun, InsertRunRow, NewRunId, CatalogTypeOK, AbsentRun
<1>3. /\ Present(new)' /\ ~ Finished(new)'
      /\ \A r \in RunIds \ {new} :
            Present(r)' = Present(r) /\ Finished(r)' = Finished(r)
  BY <1>1, <1>2 DEF Present, Finished
<1>4. /\ ~ Present(new)
      /\ \A d \in Crawlers : lastRowId[d] # new
  BY <1>0
  DEF FutureRunsAbsent, IdentifiersKnown, CatalogTypeOK, RunIds, NoRun
<1>5. \A r : RowsStampedBy(r)' = RowsStampedBy(r)
  BY <1>1 DEF RowsStampedBy
<1>6. Cardinality(RowsStampedBy(new)) = 0
  <2>1. RowsStampedBy(new) = {}
    BY <1>1, <1>4 DEF RowsStampedBy, ReferentialIntegrity, RunIds, NoRun
  <2> QED
    BY <2>1, FS_EmptySet
<1>7. IdentifiersKnown'
  <2>1. lastRowId[c] = NoRun /\ runId[c] = NoRun
    BY <1>1 DEF IdentifiersKnown, BeforeInsert
  <2> QED
    BY <1>0, <1>1, <2>1
    DEF IdentifiersKnown, BeforeInsert, SchemaObjects, CatalogTypeOK, RunIds,
        NoRun
<1>8. RowIdsDistinct'
  BY <1>1, <1>4 DEF RowIdsDistinct
<1>9. FutureRunsAbsent'
  BY <1>0, <1>1, <1>3 DEF FutureRunsAbsent, CatalogTypeOK, RunIds
<1>10. ReferentialIntegrity'
  BY <1>1, <1>3 DEF ReferentialIntegrity, CatalogTypeOK
<1>11. RowsCounted'
  BY <1>1, <1>5, <1>6 DEF RowsCounted
<1>12. FinishedByOwner'
  BY <1>1, <1>3 DEF FinishedByOwner
<1>13. RowsWithinAccessibleCount'
  BY <1>2, <1>3, <1>5 DEF RowsWithinAccessibleCount
<1> QED
  BY <1>7, <1>8, <1>9, <1>10, <1>11, <1>12, <1>13

LEMMA FetchIdentifierPreserves ==
  ASSUME IInv, TypeOK', NEW c \in Crawlers, FetchIdentifier(c)
  PROVE  IInv'
<1> USE DEF IInv, TypeOK
<1>1. /\ UNCHANGED <<runs, entries, sequence, lastRowId, accessible>>
      /\ pc' = [pc EXCEPT ![c] = "record_root"]
      /\ pc[c] = "fetch_identifier"
      /\ runId' = [runId EXCEPT ![c] = lastRowId[c]]
  BY DEF FetchIdentifier, catalogVars, GoTo, counts
<1>2. \A r : Present(r)' = Present(r) /\ Finished(r)' = Finished(r)
               /\ RowsStampedBy(r)' = RowsStampedBy(r)
  BY <1>1 DEF Present, Finished, RowsStampedBy
<1>3. IdentifiersKnown'
  BY <1>1 DEF IdentifiersKnown, BeforeInsert, SchemaObjects
<1>4. RowIdsDistinct' /\ FutureRunsAbsent' /\ ReferentialIntegrity'
  BY <1>1, <1>2 DEF RowIdsDistinct, FutureRunsAbsent, ReferentialIntegrity
<1>5. RowsCounted' /\ RowsWithinAccessibleCount' /\ FinishedByOwner'
  BY <1>1, <1>2 DEF RowsCounted, RowsWithinAccessibleCount, FinishedByOwner
<1> QED
  BY <1>3, <1>4, <1>5

LEMMA RecordEntryPreserves ==
  ASSUME IInv, TypeOK', NEW c \in Crawlers, RecordEntry(c)
  PROVE  IInv'
<1> USE DEF IInv, TypeOK
<1>1. PICK own \in RunIds : own = runId[c] /\ own = lastRowId[c] /\ Present(own)
  BY DEF RecordEntry, UpsertEntryRow, Present, IdentifiersKnown, RunIds, NoRun
<1>2. /\ UNCHANGED <<runs, sequence, lastRowId, runId>>
      /\ pc' = [pc EXCEPT ![c] = AfterRecord(c)]
      /\ pc[c] \in {"record_root", "record_entry"}
      /\ AfterRecord(c) \in {"open_iterator", "walk"}
      /\ accessible' = [accessible EXCEPT ![c] = @ + 1]
      /\ entries' = [entries EXCEPT ![current[c]] = own]
  BY <1>1
  DEF RecordEntry, UpsertEntryRow, RecordStages, AfterRecord, GoTo, identity
<1>3. \A r : Present(r)' = Present(r) /\ Finished(r)' = Finished(r)
  BY <1>2 DEF Present, Finished
<1>4. \A r \in RunIds \ {own} :
        Cardinality(RowsStampedBy(r)') <= Cardinality(RowsStampedBy(r))
  <2>1. \A r \in RunIds \ {own} : RowsStampedBy(r)' \subseteq RowsStampedBy(r)
    BY <1>2 DEF RowsStampedBy, CatalogTypeOK
  <2> QED
    BY <2>1, FewerRows
<1>5. Cardinality(RowsStampedBy(own)') <= Cardinality(RowsStampedBy(own)) + 1
  <2>1. RowsStampedBy(own)' \subseteq RowsStampedBy(own) \cup {current[c]}
    BY <1>2 DEF RowsStampedBy, CatalogTypeOK
  <2> QED
    BY <2>1, OneMoreRow
<1>6. /\ ~ Finished(own)
      /\ \A d \in Crawlers \ {c} : lastRowId[d] # own
  BY <1>1, <1>2 DEF FinishedByOwner, RowIdsDistinct, RunIds, NoRun
<1>7. \A r \in RunIds : /\ Cardinality(RowsStampedBy(r)) \in Nat
                        /\ Cardinality(RowsStampedBy(r)') \in Nat
  BY RowsAreFinite
<1>8. IdentifiersKnown'
  BY <1>2 DEF IdentifiersKnown, BeforeInsert, SchemaObjects
<1>9. RowIdsDistinct' /\ FutureRunsAbsent'
  BY <1>2, <1>3 DEF RowIdsDistinct, FutureRunsAbsent
<1>10. ReferentialIntegrity'
  BY <1>1, <1>2, <1>3 DEF ReferentialIntegrity, CatalogTypeOK
<1>11. RowsCounted'
  <2> SUFFICES ASSUME NEW d \in Crawlers, NEW r \in RunIds, lastRowId'[d] = r
               PROVE  Cardinality(RowsStampedBy(r)') <= accessible'[d]
    BY DEF RowsCounted
  <2>1. Cardinality(RowsStampedBy(r)) <= accessible[d]
    BY <1>2 DEF RowsCounted
  <2>2. CASE r = own
    BY <1>1, <1>2, <1>5, <1>6, <1>7, <2>1, <2>2
  <2>3. CASE r # own
    BY <1>1, <1>2, <1>4, <1>7, <2>1, <2>3
  <2> QED
    BY <2>2, <2>3
<1>12. FinishedByOwner'
  BY <1>1, <1>2, <1>3, <1>6 DEF FinishedByOwner
<1>13. RowsWithinAccessibleCount'
  <2> SUFFICES ASSUME NEW r \in RunIds, Finished(r)'
               PROVE  Cardinality(RowsStampedBy(r)') <= runs'[r].accessible
    BY DEF RowsWithinAccessibleCount
  <2>1. r # own /\ Finished(r)
    BY <1>3, <1>6
  <2> QED
    BY <1>2, <1>4, <1>7, <2>1
    DEF RowsWithinAccessibleCount, CatalogTypeOK, RunRows
<1> QED
  BY <1>8, <1>9, <1>10, <1>11, <1>12, <1>13

LEMMA FinishRunPreserves ==
  ASSUME IInv, TypeOK', NEW c \in Crawlers, FinishRun(c)
  PROVE  IInv'
<1> USE DEF IInv, TypeOK
<1>1. /\ UNCHANGED <<entries, sequence, lastRowId, runId, accessible>>
      /\ pc' = [pc EXCEPT ![c] = "done"] /\ pc[c] = "finish_run"
  BY DEF FinishRun, FinishRunRow, Holds, GoTo, catalogVars, identity, counts
<1>2. /\ \A r \in RunIds : r # runId[c] => runs'[r] = runs[r]
      /\ \A r \in RunIds :
            \/ runs'[r] = runs[r]
            \/ /\ runs[r].status # "absent"
               /\ runs'[r].status = "finished"
               /\ runs'[r].accessible = accessible[c]
  BY DEF FinishRun, FinishRunRow, Present, catalogVars
<1>3. \A r : /\ Present(r)' = Present(r)
             /\ r # runId[c] => Finished(r)' = Finished(r)
             /\ RowsStampedBy(r)' = RowsStampedBy(r)
  BY <1>1, <1>2 DEF Present, Finished, RowsStampedBy
<1>4. \A r \in RunIds : r = runId[c] =>
         /\ r = lastRowId[c]
         /\ \A d \in Crawlers \ {c} : lastRowId[d] # r
  BY DEF IdentifiersKnown, RowIdsDistinct, RunIds, NoRun
<1>5. IdentifiersKnown'
  BY <1>1 DEF IdentifiersKnown, BeforeInsert, SchemaObjects
<1>6. RowIdsDistinct' /\ FutureRunsAbsent' /\ ReferentialIntegrity'
  BY <1>1, <1>3 DEF RowIdsDistinct, FutureRunsAbsent, ReferentialIntegrity
<1>7. RowsCounted'
  BY <1>1, <1>3 DEF RowsCounted
<1>8. FinishedByOwner'
  BY <1>1, <1>3, <1>4 DEF FinishedByOwner
<1>9. RowsWithinAccessibleCount'
  <2> SUFFICES ASSUME NEW r \in RunIds, Finished(r)'
               PROVE  Cardinality(RowsStampedBy(r)) <= runs'[r].accessible
    BY <1>3 DEF RowsWithinAccessibleCount
  <2>1. CASE runs'[r] = runs[r]
    BY <2>1 DEF RowsWithinAccessibleCount, Finished
  <2>2. CASE runs'[r] # runs[r]
    BY <1>2, <1>4, <2>2 DEF RowsCounted
  <2> QED
    BY <2>1, <2>2
<1> QED
  BY <1>5, <1>6, <1>7, <1>8, <1>9

-----------------------------------------------------------------------------
(* The invariant and what follows from it.                                 *)

LEMMA IInvInit == Init => IInv
<1> SUFFICES ASSUME Init PROVE IInv
  OBVIOUS
<1>1. TypeOK
  BY TypeInit
<1>2. \A r \in RunIds : ~ Present(r) /\ ~ Finished(r) /\ r # NoRun
  BY DEF Init, EmptyCatalog, Present, Finished, AbsentRun, RunIds, NoRun
<1>3. \A c \in Crawlers : lastRowId[c] = NoRun /\ runId[c] = NoRun
  BY DEF Init
<1>4. IdentifiersKnown /\ RowIdsDistinct /\ FutureRunsAbsent
  BY <1>1, <1>2, <1>3
  DEF IdentifiersKnown, RowIdsDistinct, FutureRunsAbsent, Init, EmptyCatalog,
      NoRun
<1>5. ReferentialIntegrity
  BY DEF ReferentialIntegrity, Init, EmptyCatalog
<1>6. RowsCounted /\ FinishedByOwner /\ RowsWithinAccessibleCount
  BY <1>2, <1>3 DEF RowsCounted, FinishedByOwner, RowsWithinAccessibleCount
<1> QED
  BY <1>1, <1>4, <1>5, <1>6 DEF IInv

LEMMA IInvStep == IInv /\ [Next]_vars => IInv'
<1> SUFFICES ASSUME IInv, [Next]_vars PROVE IInv'
  OBVIOUS
<1>1. TypeOK /\ TypeOK'
  BY TypeStep DEF IInv
<1>2. CASE UNCHANGED vars
  <2>1. \A r : Present(r)' = Present(r) /\ Finished(r)' = Finished(r)
               /\ RowsStampedBy(r)' = RowsStampedBy(r)
    BY <1>2 DEF vars, Present, Finished, RowsStampedBy
  <2> QED
    BY <1>1, <1>2, <2>1
    DEF vars, IInv, IdentifiersKnown, RowIdsDistinct, FutureRunsAbsent,
        ReferentialIntegrity, RowsCounted, FinishedByOwner,
        RowsWithinAccessibleCount
<1>3. ASSUME NEW c \in Crawlers,
             \/ \E path \in Paths \cup {NoPath}, clear \in BOOLEAN :
                    Launch(c, path, clear)
             \/ Step(c)
             \/ Kill(c)
      PROVE  IInv'
  <2>1. CASE DeleteEntries(c)
    BY <1>1, <2>1, DeleteEntriesPreserves
  <2>2. CASE DeleteRuns(c)
    BY <1>1, <2>2, DeleteRunsPreserves
  <2>3. CASE InsertRun(c)
    BY <1>1, <2>3, InsertRunPreserves
  <2>4. CASE FetchIdentifier(c)
    BY <1>1, <2>4, FetchIdentifierPreserves
  <2>5. CASE RecordEntry(c)
    BY <1>1, <2>5, RecordEntryPreserves
  <2>6. CASE FinishRun(c)
    BY <1>1, <2>6, FinishRunPreserves
  <2>7. CASE ~ (\/ DeleteEntries(c) \/ DeleteRuns(c) \/ InsertRun(c)
                \/ FetchIdentifier(c) \/ RecordEntry(c) \/ FinishRun(c))
    <3>1. Quiet(c)
      BY <1>1, <1>3, <2>7, QuietActions DEF Step
    <3> QED
      BY <1>1, <3>1, QuietPreserves
  <2> QED
    BY <2>1, <2>2, <2>3, <2>4, <2>5, <2>6, <2>7
<1> QED
  BY <1>2, <1>3 DEF Next

LEMMA Inductive == Spec => []IInv
  BY IInvInit, IInvStep, PTL DEF Spec

\* Every entry of the catalog names a run that exists, whatever rebuilds,
\* crashes and concurrent crawls do.
THEOREM ReferencesHold == Spec => []ReferentialIntegrity
<1>1. IInv => ReferentialIntegrity
  BY DEF IInv
<1> QED
  BY <1>1, Inductive, PTL

\* No two crawls ever write under one identifier.
THEOREM IdentifiersStayUnshared == Spec => []IdentifiersUnshared
<1>1. IInv => IdentifiersUnshared
  BY DEF IInv, TypeOK, IdentifiersKnown, RowIdsDistinct, IdentifiersUnshared
<1> QED
  BY <1>1, Inductive, PTL

\* A finished run has counted at least the rows stamped with it.
THEOREM CountsCoverRows == Spec => []RowsWithinAccessibleCount
<1>1. IInv => RowsWithinAccessibleCount
  BY DEF IInv
<1> QED
  BY <1>1, Inductive, PTL

-----------------------------------------------------------------------------
(* Finished runs are final.                                                *)

CrawlerStep(c) ==
    \/ \E path \in Paths \cup {NoPath}, clear \in BOOLEAN :
          Launch(c, path, clear)
    \/ Step(c)
    \/ Kill(c)

LEMMA NextIsCrawlerStep == Next <=> \E c \in Crawlers : CrawlerStep(c)
  BY DEF Next, CrawlerStep

\* The rows of scan_runs change in three actions only, and rows of
\* file_system_entries gain a stamp in one.
LEMMA RowsChange ==
  ASSUME TypeOK, NEW c \in Crawlers, CrawlerStep(c)
  PROVE  /\ \/ DeleteRuns(c) \/ InsertRun(c) \/ FinishRun(c)
            \/ runs' = runs
         /\ \/ RecordEntry(c)
            \/ \A r \in RunIds : RowsStampedBy(r)' \subseteq RowsStampedBy(r)
<1>1. CASE Quiet(c)
  BY <1>1 DEF Quiet, RowsStampedBy
<1>2. CASE DeleteEntries(c)
  BY <1>2 DEF DeleteEntries, DeleteAllEntries, RowsStampedBy, RunIds, NoRun
<1>3. CASE DeleteRuns(c)
  BY <1>3
  DEF DeleteRuns, DeleteAllRuns, RowsStampedBy, RunIds, NoRun, TypeOK,
      CatalogTypeOK
<1>4. CASE InsertRun(c)
  BY <1>4 DEF InsertRun, InsertRunRow, RowsStampedBy
<1>5. CASE FetchIdentifier(c)
  BY <1>5 DEF FetchIdentifier, catalogVars, RowsStampedBy
<1>6. CASE RecordEntry(c)
  BY <1>6 DEF RecordEntry, UpsertEntryRow
<1>7. CASE FinishRun(c)
  BY <1>7 DEF FinishRun, FinishRunRow, catalogVars, RowsStampedBy
<1> QED
  BY <1>1, <1>2, <1>3, <1>4, <1>5, <1>6, <1>7, QuietActions
  DEF CrawlerStep, Step

LEMMA FrozenStep ==
  ASSUME IInv, [Next]_vars, NEW r \in RunIds, Finished(r)
  PROVE  /\ runs'[r] \in {runs[r], AbsentRun}
         /\ RowsStampedBy(r)' \subseteq RowsStampedBy(r)
<1>1. CASE UNCHANGED vars
  BY <1>1 DEF vars, RowsStampedBy
<1>2. ASSUME NEW c \in Crawlers, CrawlerStep(c)
      PROVE  /\ runs'[r] \in {runs[r], AbsentRun}
             /\ RowsStampedBy(r)' \subseteq RowsStampedBy(r)
  <2>1. CASE RecordEntry(c)
    \* A finished run's owner is done, so c stamps another run.
    <3>1. runId[c] \in RunIds /\ runId[c] = lastRowId[c] /\ pc[c] # "done"
      BY <2>1
      DEF RecordEntry, RecordStages, UpsertEntryRow, Present, IInv,
          IdentifiersKnown, RunIds, NoRun
    <3>2. runId[c] # r
      BY <3>1 DEF IInv, FinishedByOwner
    <3> QED
      BY <2>1, <3>2
      DEF RecordEntry, UpsertEntryRow, RowsStampedBy, IInv, TypeOK,
          CatalogTypeOK
  <2>2. CASE DeleteRuns(c)
    BY <1>2, <2>2, RowsChange
    DEF DeleteRuns, DeleteAllRuns, IInv, RecordEntry, RecordStages, Holds
  <2>3. CASE InsertRun(c)
    <3>1. r # NewRunId
      BY DEF NewRunId, IInv, FutureRunsAbsent, TypeOK, CatalogTypeOK, Present,
             Finished, RunIds
    <3> QED
      BY <2>3, <3>1
      DEF InsertRun, InsertRunRow, RowsStampedBy, IInv, TypeOK, CatalogTypeOK
  <2>4. CASE FinishRun(c)
    <3>1. runId[c] # r
      BY <2>4
      DEF FinishRun, Holds, IInv, IdentifiersKnown, FinishedByOwner, RunIds,
          NoRun
    <3> QED
      BY <2>4, <3>1 DEF FinishRun, FinishRunRow, catalogVars, RowsStampedBy
  <2> QED
    BY <1>2, <2>1, <2>2, <2>3, <2>4, RowsChange DEF IInv
<1> QED
  BY <1>1, <1>2, NextIsCrawlerStep

\* The row of a finished run is final until deleted, and gains no entries.
THEOREM FinishedStaysFrozen == Spec => FinishedRunsAreFrozen
<1>1. IInv /\ [Next]_vars =>
        [\A r \in RunIds : Finished(r) =>
            /\ runs'[r] \in {runs[r], AbsentRun}
            /\ RowsStampedBy(r)' \subseteq RowsStampedBy(r)]_vars
  BY FrozenStep
<1> QED
  BY <1>1, Inductive, PTL DEF Spec, FinishedRunsAreFrozen

-----------------------------------------------------------------------------
(* The catalog implements the abstract ledger.                             *)

\* The instance counts as this module does.
LEMMA LedgerCardinality == \A S : Ledger!Cardinality(S) = Cardinality(S)
  BY DEF Ledger!Cardinality, Cardinality, Ledger!IsFiniteSet, IsFiniteSet

LEMMA LedgerInit == Init => Ledger!Init
  BY DEF Init, EmptyCatalog, Ledger!Init, Ledger!RunIds, Ledger!NoRow, RunIds,
         AbsentRun, NoRun

LEMMA LedgerStep ==
  ASSUME IInv, IInv', [Next]_vars
  PROVE  [Ledger!Next]_(Ledger!ledgerVars)
<1> USE DEF Ledger!ledgerVars, Ledger!RunIds, RunIds
<1>1. CASE UNCHANGED vars
  BY <1>1 DEF vars
<1>2. ASSUME NEW c \in Crawlers, CrawlerStep(c)
      PROVE  [Ledger!Next]_(Ledger!ledgerVars)
  <2>1. CASE Quiet(c) \/ FetchIdentifier(c)
    BY <2>1 DEF Quiet, FetchIdentifier, catalogVars
  <2>2. CASE DeleteEntries(c)
    <3>1. Ledger!EraseEntries
      BY <2>2 DEF DeleteEntries, DeleteAllEntries, Ledger!EraseEntries, NoRun
    <3> QED
      BY <3>1 DEF Ledger!Next
  <2>3. CASE DeleteRuns(c)
    <3>1. Ledger!EraseRuns
      BY <2>3
      DEF DeleteRuns, DeleteAllRuns, Ledger!EraseRuns, Ledger!NoRow, AbsentRun,
          NoRun, IInv, TypeOK, CatalogTypeOK, ReferentialIntegrity
    <3> QED
      BY <3>1 DEF Ledger!Next
  <2>4. CASE InsertRun(c)
    <3>1. root[c] \in Paths
      BY <2>4 DEF InsertRun, IInv, TypeOK
    <3>2. PICK r \in RunIds : r = NewRunId
      BY <2>4 DEF InsertRun, InsertRunRow
    <3>3. Ledger!Open(r, root[c])
      BY <2>4, <3>2
      DEF InsertRun, InsertRunRow, NewRunId, Ledger!Open, Ledger!NoRow,
          AbsentRun, IInv, TypeOK, CatalogTypeOK
    <3> QED
      BY <3>1, <3>2, <3>3 DEF Ledger!Next
  <2>5. CASE RecordEntry(c)
    <3>1. PICK r \in RunIds : r = runId[c] /\ Present(r)
      BY <2>5 DEF RecordEntry, UpsertEntryRow, Present
    <3>2. runs[r].status = "started"
      <4>1. r = lastRowId[c] /\ pc[c] # "done"
        BY <2>5, <3>1
        DEF RecordEntry, RecordStages, IInv, IdentifiersKnown, NoRun
      <4>2. ~ Finished(r)
        BY <4>1 DEF IInv, FinishedByOwner
      <4> QED
        BY <3>1, <4>2
        DEF Present, Finished, IInv, TypeOK, CatalogTypeOK, RunRows
    <3>3. CASE current[c] \in Paths
      <4>1. Ledger!Stamp(r, current[c])
        BY <2>5, <3>1, <3>2 DEF RecordEntry, UpsertEntryRow, Ledger!Stamp
      <4> QED
        BY <3>1, <3>3, <4>1 DEF Ledger!Next
    <3>4. CASE current[c] \notin Paths
      BY <2>5, <3>4
      DEF RecordEntry, UpsertEntryRow, IInv, TypeOK, CatalogTypeOK
    <3> QED
      BY <3>3, <3>4
  <2>6. CASE FinishRun(c)
    <3>1. CASE unreset[c] \/ ~ Present(runId[c])
      <4>1. runs' = runs
        BY <2>6, <3>1
        DEF FinishRun, FinishRunRow, catalogVars, IInv, TypeOK, CatalogTypeOK
      <4> QED
        BY <2>6, <4>1 DEF FinishRun, FinishRunRow, catalogVars
    <3>2. CASE ~ unreset[c] /\ Present(runId[c])
      <4>1. PICK r \in RunIds : r = runId[c] /\ Present(r)
        BY <3>2 DEF Present
      <4>2. r = lastRowId[c] /\ pc[c] = "finish_run"
        BY <2>6, <4>1 DEF FinishRun, Holds, IInv, IdentifiersKnown, NoRun
      <4>3. runs[r].status = "started"
        BY <4>1, <4>2
        DEF Present, Finished, IInv, FinishedByOwner, TypeOK, CatalogTypeOK,
            RunRows
      <4>4. Cardinality(RowsStampedBy(r)) <= accessible[c]
        BY <4>2 DEF IInv, RowsCounted
      <4>5. /\ runs'[r].status = "finished"
            /\ runs'[r].root = runs[r].root
            /\ runs'[r].accessible = accessible[c]
            /\ \A q \in RunIds \ {r} : runs'[q] = runs[q]
            /\ UNCHANGED <<entries, sequence>>
        BY <2>6, <3>2, <4>1 DEF FinishRun, FinishRunRow
      <4>6. runs' \in [RunIds -> Ledger!Row]
        BY DEF Ledger!Row, RunRows, IInv, TypeOK, CatalogTypeOK
      <4>7. runs'[r].accessible >= Cardinality(Ledger!StampedBy(r))
        <5>1. /\ Cardinality(RowsStampedBy(r)) \in Nat
              /\ accessible[c] \in Nat
          BY RowsAreFinite DEF IInv, TypeOK
        <5>2. accessible[c] >= Cardinality(RowsStampedBy(r))
          BY <4>4, <5>1
        <5> QED
          BY <4>5, <5>2 DEF RowsStampedBy, Ledger!StampedBy
      <4>8. Ledger!Close(r)
        <5>1. runs' \in [Ledger!RunIds -> Ledger!Row]
          BY <4>6
        <5>2. \A q \in Ledger!RunIds \ {r} : runs'[q] = runs[q]
          BY <4>5
        <5>3. entries' = entries /\ sequence' = sequence
          BY <4>5
        <5> QED
          BY <4>3, <4>5, <4>7, <5>1, <5>2, <5>3, LedgerCardinality
          DEF Ledger!Close
      <4> QED
        BY <4>1, <4>8 DEF Ledger!Next
    <3> QED
      BY <3>1, <3>2
  <2>7. Quiet(c) \/ FetchIdentifier(c) \/ DeleteEntries(c) \/ DeleteRuns(c)
          \/ InsertRun(c) \/ RecordEntry(c) \/ FinishRun(c)
    BY <1>2, QuietActions DEF CrawlerStep, Step, IInv
  <2> QED
    BY <2>1, <2>2, <2>3, <2>4, <2>5, <2>6, <2>7
<1> QED
  BY <1>1, <1>2, NextIsCrawlerStep

\* Every behaviour of the crawlers is a behaviour of the ledger: what its
\* readers may rely on needs no knowledge of crawlers, locks and failures.
THEOREM LedgerImplemented == Spec => ImplementsLedger
<1>1. Spec => Ledger!Init
  BY LedgerInit DEF Spec
<1>2. Spec => [][IInv /\ IInv' /\ [Next]_vars]_vars
  BY Inductive, PTL DEF Spec
<1>3. [IInv /\ IInv' /\ [Next]_vars]_vars => [Ledger!Next]_(Ledger!ledgerVars)
  BY LedgerStep DEF vars, Ledger!ledgerVars
<1> QED
  BY <1>1, <1>2, <1>3, PTL DEF ImplementsLedger, Ledger!Spec

-----------------------------------------------------------------------------
(* A successful exit is recorded.                                          *)

Identified == {"record_root", "open_iterator", "walk", "record_entry",
               "finish_run", "done"}
Deleting == {"delete_entries", "delete_runs"}

\* Only a crawler told to rebuild deletes.
RebuildSettled ==
    \A c \in Crawlers :
        /\ pc[c] = "idle" => ~ rebuild[c]
        /\ pc[c] \in Deleting => rebuild[c]

IdentifierHeld ==
    \A c \in Crawlers :
        /\ pc[c] \in Identified => runId[c] # NoRun
        /\ pc[c] = "fetch_identifier" => lastRowId[c] # NoRun

ClearedByAnother(c) == \E d \in Crawlers \ {c} : rebuild[d]

RunsLostToRebuilds ==
    \A c \in Crawlers, r \in RunIds :
        lastRowId[c] = r /\ ~ Present(r) => ClearedByAnother(c)

SInv == /\ RebuildSettled
        /\ IdentifierHeld
        /\ RunsLostToRebuilds
        /\ SuccessIsRecorded

\* What one step of a crawler may change of the crawlers' own state.
Moves(c) ==
    /\ pc[c] \notin EndStages
    /\ \A d \in Crawlers \ {c} :
          /\ pc'[d] = pc[d] /\ rebuild'[d] = rebuild[d]
          /\ lastRowId'[d] = lastRowId[d] /\ runId'[d] = runId[d]
          /\ accessible'[d] = accessible[d]
          /\ inaccessible'[d] = inaccessible[d]
          /\ unreset'[d] = unreset[d]
    /\ rebuild'[c] = rebuild[c] \/ pc[c] = "idle"
    /\ pc'[c] # "idle"
    /\ pc'[c] \in Deleting => rebuild'[c] \/ pc[c] \in Deleting
    /\ pc'[c] \in Identified =>
          \/ pc[c] \in Identified /\ runId'[c] = runId[c]
          \/ FetchIdentifier(c)
    /\ pc'[c] = "fetch_identifier" => InsertRun(c)
    /\ pc'[c] = "done" => FinishRun(c)
    /\ lastRowId'[c] = lastRowId[c] \/ InsertRun(c)

LEMMA CrawlersMoveAlone ==
  ASSUME TypeOK, NEW c \in Crawlers, CrawlerStep(c)
  PROVE  Moves(c)
<1> USE DEF TypeOK, Moves, GoTo, EndStages, Deleting, Identified, catalogVars,
            settings, identity, counts
<1>1. ASSUME NEW path \in Paths \cup {NoPath}, NEW clear \in BOOLEAN,
             Launch(c, path, clear)
      PROVE  Moves(c)
  BY <1>1 DEF Launch
<1>2. CASE Connect(c) \/ ConnectFails(c) \/ RootUnresolvable(c)
  BY <1>2 DEF Connect, ConnectFails, RootUnresolvable
<1>3. CASE Acquire(c)
  BY <1>3
  DEF Acquire, Writes, StatementStages, SchemaObjects, RecordStages
<1>4. CASE StatementFails(c)
  BY <1>4
  DEF StatementFails, Busy, Breaks, Writes, StatementStages, SchemaObjects,
      RecordStages
<1>5. CASE RecordFails(c) \/ StatFails(c)
  BY <1>5 DEF RecordFails, StatFails, AfterRecord, RecordStages
<1>6. CASE InitializeSchema(c)
  BY <1>6 DEF InitializeSchema, CreateObject, AfterSchema
<1>7. CASE DeleteEntries(c) \/ DeleteRuns(c)
  BY <1>7 DEF DeleteEntries, DeleteRuns, Holds
<1>8. CASE InsertRun(c)
  BY <1>8 DEF InsertRun, Holds
<1>9. CASE FetchIdentifier(c)
  BY <1>9 DEF FetchIdentifier
<1>10. CASE RecordEntry(c)
  BY <1>10 DEF RecordEntry, AfterRecord, RecordStages
<1>11. CASE OpenIterator(c) \/ OpenIteratorFails(c)
  BY <1>11 DEF OpenIterator, OpenIteratorFails
<1>12. ASSUME NEW path \in Paths, NextEntry(c, path)
       PROVE  Moves(c)
  BY <1>12 DEF NextEntry
<1>13. CASE WalkEnds(c) \/ IteratorError(c) \/ HiddenCheckThrows(c)
  BY <1>13 DEF WalkEnds, IteratorError, HiddenCheckThrows
<1>14. CASE FinishRun(c)
  BY <1>14 DEF FinishRun, Holds
<1>15. CASE Kill(c)
  BY <1>15 DEF Kill, Running
<1> QED
  BY <1>1, <1>2, <1>3, <1>4, <1>5, <1>6, <1>7, <1>8, <1>9, <1>10, <1>11, <1>12,
     <1>13, <1>14, <1>15
  DEF CrawlerStep, Step

\* One step seen from one crawler's success: how Success of d is kept.
Success(d) ==
    \/ /\ Finished(runId[d])
       /\ runs[runId[d]].accessible = accessible[d]
       /\ runs[runId[d]].inaccessible = inaccessible[d]
    \/ unreset[d]
    \/ ~ Present(runId[d]) /\ ClearedByAnother(d)

LEMMA SInvInit == Init => SInv
  BY DEF Init, EmptyCatalog, SInv, RebuildSettled, IdentifierHeld,
         RunsLostToRebuilds, SuccessIsRecorded, Deleting, Identified, RunIds,
         NoRun

LEMMA RebuildsRemembered ==
  ASSUME TypeOK, SInv, NEW c \in Crawlers, CrawlerStep(c)
  PROVE  /\ RebuildSettled' /\ \A d \in Crawlers : rebuild[d] => rebuild'[d]
         /\ \A d \in Crawlers : ClearedByAnother(d) => ClearedByAnother(d)'
<1>1. Moves(c)
  BY CrawlersMoveAlone
<1>2. ASSUME NEW d \in Crawlers, rebuild[d]
      PROVE  rebuild'[d]
  <2>1. CASE d = c
    <3>1. pc[d] # "idle"
      BY <1>2 DEF SInv, RebuildSettled
    <3> QED
      BY <1>1, <1>2, <2>1, <3>1 DEF Moves
  <2>2. CASE d # c
    <3>1. rebuild'[d] = rebuild[d]
      BY <1>1, <2>2 DEF Moves
    <3> QED
      BY <1>2, <3>1
  <2> QED
    BY <2>1, <2>2
<1>3. RebuildSettled'
  <2> SUFFICES ASSUME NEW d \in Crawlers
               PROVE  /\ pc'[d] = "idle" => ~ rebuild'[d]
                      /\ pc'[d] \in Deleting => rebuild'[d]
    BY DEF RebuildSettled
  <2>1. CASE d = c
    BY <1>1, <1>2, <2>1, Zenon DEF Moves, SInv, RebuildSettled
  <2>2. CASE d # c
    <3>1. pc'[d] = pc[d] /\ rebuild'[d] = rebuild[d]
      BY <1>1, <2>2 DEF Moves
    <3>2. /\ pc[d] = "idle" => ~ rebuild[d]
          /\ pc[d] \in Deleting => rebuild[d]
      BY DEF SInv, RebuildSettled
    <3> QED
      BY <3>1, <3>2
  <2> QED
    BY <2>1, <2>2
<1> QED
  BY <1>2, <1>3 DEF ClearedByAnother

LEMMA IdentifierStaysHeld ==
  ASSUME IInv, SInv, NEW c \in Crawlers, CrawlerStep(c)
  PROVE  IdentifierHeld'
<1> USE CrawlersMoveAlone DEF IInv, SInv, IdentifierHeld
<1>1. CASE FetchIdentifier(c)
  BY <1>1 DEF FetchIdentifier, GoTo, TypeOK, Identified
<1>2. CASE InsertRun(c)
  BY <1>2
  DEF InsertRun, InsertRunRow, NewRunId, GoTo, TypeOK, CatalogTypeOK,
      Identified, RunIds, NoRun
<1>3. CASE ~ FetchIdentifier(c) /\ ~ InsertRun(c)
  BY <1>3 DEF Moves
<1> QED
  BY <1>1, <1>2, <1>3

LEMMA LostRunsStayLost ==
  ASSUME IInv, IInv', SInv, NEW c \in Crawlers, CrawlerStep(c)
  PROVE  RunsLostToRebuilds'
<1> SUFFICES ASSUME NEW d \in Crawlers, NEW r \in RunIds,
                    lastRowId'[d] = r, ~ Present(r)'
             PROVE  ClearedByAnother(d)'
  BY DEF RunsLostToRebuilds
<1>1. Moves(c) /\ (ClearedByAnother(d) => ClearedByAnother(d)')
  BY CrawlersMoveAlone, RebuildsRemembered DEF IInv
<1>2. CASE InsertRun(c)
  <2>1. /\ runs'[NewRunId].status = "started"
        /\ NewRunId \in RunIds
        /\ lastRowId'[c] = NewRunId
        /\ \A q \in RunIds \ {NewRunId} : runs'[q] = runs[q]
    BY <1>2
    DEF InsertRun, InsertRunRow, IInv, TypeOK, CatalogTypeOK, AbsentRun
  <2>2. r # NewRunId /\ d # c
    BY <2>1 DEF Present
  <2>3. lastRowId[d] = r /\ ~ Present(r)
    BY <1>1, <2>1, <2>2 DEF Moves, Present
  <2> QED
    BY <1>1, <2>3 DEF SInv, RunsLostToRebuilds
<1>3. CASE DeleteRuns(c)
  <2>1. c # d
    \* c has no identifier yet.
    <3>1. lastRowId'[c] = NoRun
      BY <1>3
      DEF DeleteRuns, Holds, identity, IInv, IdentifiersKnown, BeforeInsert
    <3> QED
      BY <3>1 DEF RunIds, NoRun
  <2>2. rebuild[c] /\ rebuild'[c] = rebuild[c]
    BY <1>3, Zenon
    DEF DeleteRuns, Holds, SInv, RebuildSettled, Deleting, settings
  <2> QED
    BY <2>1, <2>2 DEF ClearedByAnother
<1>4. CASE ~ InsertRun(c) /\ ~ DeleteRuns(c)
  <2>1. lastRowId[d] = r
    BY <1>1, <1>4 DEF Moves
  <2>2. ~ Present(r)
    <3>1. CASE runs' = runs
      BY <3>1 DEF Present
    <3>2. CASE FinishRun(c)
      BY <3>2 DEF FinishRun, FinishRunRow, Present, catalogVars
    <3> QED
      BY <1>4, <3>1, <3>2, RowsChange DEF IInv
  <2> QED
    BY <1>1, <2>1, <2>2 DEF SInv, RunsLostToRebuilds
<1> QED
  BY <1>2, <1>3, <1>4

LEMMA SuccessStaysRecorded ==
  ASSUME IInv, IInv', SInv, NEW c \in Crawlers, CrawlerStep(c)
  PROVE  SuccessIsRecorded'
<1> SUFFICES ASSUME NEW d \in Crawlers, pc'[d] = "done"
             PROVE  Success(d)'
  BY DEF SuccessIsRecorded, Success, ClearedByAnother
<1>1. Moves(c) /\ (ClearedByAnother(d) => ClearedByAnother(d)')
  BY CrawlersMoveAlone, RebuildsRemembered DEF IInv
<1>2. CASE d = c
  \* The crawler has just finished.
  <2>1. FinishRun(c) /\ pc[c] = "finish_run" /\ runId'[c] = runId[c]
    BY <1>1, <1>2 DEF Moves, FinishRun, Holds, identity
  <2>2. runId[c] \in RunIds /\ runId[c] = lastRowId[c]
    BY <2>1
    DEF SInv, IdentifierHeld, Identified, IInv, TypeOK, IdentifiersKnown, NoRun
  <2>3. CASE unreset[c]
    <3>1. unreset'[c]
      BY <2>1, <2>3 DEF FinishRun
    <3> QED
      BY <1>2, <3>1 DEF Success
  <2>4. CASE ~ unreset[c] /\ Present(runId[c])
    <3>1. /\ runs'[runId[c]].status = "finished"
          /\ runs'[runId[c]].accessible = accessible[c]
          /\ runs'[runId[c]].inaccessible = inaccessible[c]
          /\ UNCHANGED <<accessible, inaccessible>>
      BY <2>1, <2>2, <2>4 DEF FinishRun, FinishRunRow, counts
    <3> QED
      BY <1>2, <2>1, <2>2, <3>1 DEF Success, Finished
  <2>5. CASE ~ unreset[c] /\ ~ Present(runId[c])
    <3>1. ClearedByAnother(c)
      BY <2>2, <2>5 DEF SInv, RunsLostToRebuilds
    <3>2. ~ Present(runId[c])'
      BY <2>1, <2>2, <2>5 DEF FinishRun, FinishRunRow, Present
    <3> QED
      BY <1>1, <1>2, <3>1, <3>2 DEF Success
  <2> QED
    BY <2>3, <2>4, <2>5
<1>3. CASE d # c
  \* d was done before; another crawler moved.
  <2>1. /\ pc[d] = "done" /\ runId'[d] = runId[d] /\ unreset'[d] = unreset[d]
        /\ accessible'[d] = accessible[d] /\ inaccessible'[d] = inaccessible[d]
    BY <1>1, <1>3 DEF Moves
  <2>2. Success(d)
    BY <2>1 DEF SInv, SuccessIsRecorded, Success, ClearedByAnother
  <2>3. PICK r \in RunIds : r = runId[d] /\ r = lastRowId[d]
    BY <2>1
    DEF SInv, IdentifierHeld, Identified, IInv, TypeOK, IdentifiersKnown, NoRun
  <2>4. CASE runs'[r] = runs[r]
    <3>1. Present(r)' = Present(r) /\ Finished(r)' = Finished(r)
      BY <2>4 DEF Present, Finished
    <3> QED
      BY <1>1, <2>1, <2>2, <2>3, <2>4, <3>1 DEF Success
  <2>5. CASE DeleteRuns(c)
    <3>1. ~ Present(r)'
      BY <2>5 DEF DeleteRuns, DeleteAllRuns, AbsentRun, Present
    <3>2. rebuild[c]
      BY <2>5 DEF DeleteRuns, Holds, SInv, RebuildSettled, Deleting
    <3>3. ClearedByAnother(d)
      BY <1>3, <3>2 DEF ClearedByAnother
    <3> QED
      BY <1>1, <2>1, <2>3, <3>1, <3>3 DEF Success
  <2>6. CASE InsertRun(c)
    <3>1. r # NewRunId
      BY <2>3
      DEF NewRunId, IInv, IdentifiersKnown, TypeOK, CatalogTypeOK, RunIds
    <3> QED
      BY <2>4, <2>6, <3>1
      DEF InsertRun, InsertRunRow, IInv, TypeOK, CatalogTypeOK
  <2>7. CASE FinishRun(c)
    <3>1. r # runId[c]
      BY <1>3, <2>3
      DEF IInv, IdentifiersKnown, RowIdsDistinct, RunIds, NoRun
    <3> QED
      BY <2>4, <2>7, <3>1 DEF FinishRun, FinishRunRow, catalogVars
  <2> QED
    BY <2>4, <2>5, <2>6, <2>7, RowsChange DEF IInv
<1> QED
  BY <1>2, <1>3

LEMMA SInvStep == IInv /\ IInv' /\ SInv /\ [Next]_vars => SInv'
<1> SUFFICES ASSUME IInv, IInv', SInv, [Next]_vars PROVE SInv'
  OBVIOUS
<1>1. CASE UNCHANGED vars
  BY <1>1
  DEF vars, SInv, RebuildSettled, IdentifierHeld, RunsLostToRebuilds,
      SuccessIsRecorded, ClearedByAnother, Present, Finished
<1>2. ASSUME NEW c \in Crawlers, CrawlerStep(c)
      PROVE  SInv'
  BY <1>2, RebuildsRemembered, IdentifierStaysHeld, LostRunsStayLost,
     SuccessStaysRecorded
  DEF SInv, IInv
<1> QED
  BY <1>1, <1>2, NextIsCrawlerStep

\* A crawler that exits with code 0 leaves its run finished with the counts it
\* logged, unless another crawler rebuilt or its last recording was refused.
THEOREM SuccessRecorded == Spec => []SuccessIsRecorded
<1>1. SInv => SuccessIsRecorded
  BY DEF SInv
<1> QED
  BY <1>1, SInvInit, SInvStep, Inductive, PTL DEF Spec

==============================================================================
