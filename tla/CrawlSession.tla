--------------------------- MODULE CrawlSession ----------------------------
(***************************************************************************)
(* One crawler from its launch to its exit: the directory walk of          *)
(* DirectoryWalk and the statements of ScanRuns as FileSystemCrawler::     *)
(* crawl interleaves them, beside other crawlers on the same catalog and   *)
(* other processes that change the tree.                                   *)
(*                                                                         *)
(* A step of the Walker is a step of ScanRuns, a step of DirectoryWalk, or *)
(* one of each when a single call changes both.  The two modules share the *)
(* counters of scan_statistics.  lstat and the upsert that follows it are  *)
(* two calls; the tree is held still between them, which hides nothing:    *)
(* the upsert does not look at the tree, so a change in between could as   *)
(* well have come after it.                                                *)
(***************************************************************************)
EXTENDS ScanRuns

CONSTANTS Walker,        \* the crawler whose walk is modelled
          TreeRoot,      \* its crawl_root_directory_path
          Parent,        \* the tree, as in DirectoryWalk
          Kind,
          HiddenNames,
          Sealable,
          Follow,        \* should_follow_symbolic_links
          IncludeHidden, \* should_include_hidden_entries
          WalkFaults,    \* the faults of opendir and readdir that may happen
          OtherRoots,    \* the roots other crawlers are launched with
          OtherVisits    \* bound on the entries another crawl counts

\* What a tree that changes can bring about in ScanRuns.
TreeFaults == {"stat", "iterator", "hidden_link"}

ASSUME SessionAssumption == /\ Walker \in Crawlers
                            /\ TreeRoot \in Paths
                            /\ Parent \in [Paths \ {TreeRoot} -> Paths]
                            /\ \A n \in Paths \ {TreeRoot} : Parent[n] # n
                            /\ Kind \in [Paths -> {"directory", "file",
                                                   "link", "loop"}]
                            /\ Sealable \subseteq Paths
                            /\ Follow \in BOOLEAN /\ IncludeHidden \in BOOLEAN
                            /\ WalkFaults \subseteq {"open", "read"}
                            /\ OtherRoots \subseteq Paths
                            /\ OtherVisits \in Nat
                            /\ TreeFaults \subseteq Faults

VARIABLES life, dangling, sealed,             \* the tree
          walkPc,                             \* the pc of the walk
          stack, must, may, entry, pending,   \* the iterator
          recorded, unread, truncated         \* the results

walkVars == <<life, dangling, sealed, walkPc, stack, must, may, entry,
              pending, recorded, unread, truncated>>
sessionVars == <<vars, walkVars>>

Walk == INSTANCE DirectoryWalk WITH
            Nodes <- Paths, Root <- TreeRoot, None <- NoPath,
            Faults <- WalkFaults \cup {"record"}, pc <- walkPc,
            accessible <- accessible[Walker],
            inaccessible <- inaccessible[Walker]

SessionInit == Init /\ Walk!Init

-----------------------------------------------------------------------------
(* The steps of the Walker.                                                *)

\* Before the recording of the root and after the walk, the tree is not
\* looked at; RootUnresolvable cannot happen, the root is not empty.
Statement ==
    /\ \/ \E clear \in BOOLEAN : Launch(Walker, TreeRoot, clear)
       \/ Connect(Walker)
       \/ ConnectFails(Walker)
       \/ pc[Walker] \notin RecordStages /\ Acquire(Walker)
       \/ StatementFails(Walker)
       \/ InitializeSchema(Walker)
       \/ DeleteEntries(Walker)
       \/ DeleteRuns(Walker)
       \/ InsertRun(Walker)
       \/ FetchIdentifier(Walker)
    /\ UNCHANGED walkVars

\* lstat answered, and the upsert takes the write lock.
StartUpsert == /\ pc[Walker] \in RecordStages
               /\ Acquire(Walker)
               /\ Walk!Readable(current[Walker])
               /\ UNCHANGED walkVars

\* The entry is counted one way or the other.
Record == /\ \/ RecordEntry(Walker)
             \/ RecordFails(Walker) /\ Walk!Readable(current[Walker])
             \/ StatFails(Walker)
          /\ Walk!RecordRoot \/ Walk!Visit

\* The constructor of the iterator also reads its first entry.
OpenRoot == /\ pc[Walker] = "open_iterator"
            /\ UNCHANGED vars
            /\ Walk!Construct

FirstEntry == /\ OpenIterator(Walker)
              /\ \/ Walk!ConstructSealed
                 \/ \E n \in Paths : Walk!Advance(n)
                 \/ Walk!Pop

OpenFails == /\ OpenIteratorFails(Walker)
             /\ Walk!ConstructFails \/ Walk!ReadFails

VisitEntry == /\ walkPc = "visit"
              /\ ~ Walk!Skipped(entry)
              /\ NextEntry(Walker, entry)
              /\ UNCHANGED walkVars

HiddenCheckFails == HiddenCheckThrows(Walker) /\ Walk!HiddenCheckThrows

Increment == /\ pc[Walker] = "walk"
             /\ UNCHANGED vars
             /\ \/ Walk!SkipHidden
                \/ Walk!Descend
                \/ Walk!StayBeside
                \/ \E n \in Paths : Walk!Advance(n)
                \/ Walk!Pop

IncrementFails == /\ IteratorError(Walker)
                  /\ Walk!DescendFails \/ Walk!ReadFails

LeaveLoop == /\ walkPc = "finish"
             /\ WalkEnds(Walker)
             /\ UNCHANGED walkVars

Complete == FinishRun(Walker) /\ Walk!Finish

WalkerStep == \/ Statement \/ StartUpsert \/ Record
              \/ OpenRoot \/ FirstEntry \/ OpenFails
              \/ VisitEntry \/ HiddenCheckFails
              \/ Increment \/ IncrementFails
              \/ LeaveLoop \/ Complete

-----------------------------------------------------------------------------
(* The others.                                                             *)

WalkerKilled == Kill(Walker) /\ UNCHANGED walkVars

OtherCrawler ==
    /\ \E c \in Crawlers \ {Walker} :
           \/ \E path \in OtherRoots, clear \in BOOLEAN : Launch(c, path, clear)
           \/ accessible[c] + inaccessible[c] <= OtherVisits /\ Step(c)
           \/ Kill(c)
    /\ UNCHANGED walkVars

TreeChanges == /\ writer # Walker
               /\ UNCHANGED vars
               /\ Walk!Environment

SessionNext == WalkerStep \/ WalkerKilled \/ OtherCrawler \/ TreeChanges

SessionSpec == SessionInit /\ [][SessionNext]_sessionVars

\* Only the Walker is sure to go on: another crawler may stop for good, even
\* one that holds the write lock.
FairSessionSpec == SessionSpec /\ WF_sessionVars(WalkerStep)

-----------------------------------------------------------------------------
(* What must hold of a crawl.                                              *)

\* What was in the tree all along and is not hidden: the root, and what is in
\* a directory the walk has to enter.
ToBeCataloged(n) == /\ life[n] = "old"
                    /\ \/ n = TreeRoot
                       \/ ~ Walk!Skipped(n) /\ Walk!ToBeEntered(Parent[n])

\* A crawl that exits with code 0 and whose iterator never failed has left a
\* row, or at least a warning, for the root and for everything that was in a
\* directory it had to enter, whatever happened beside it; only a rebuild by
\* another crawler takes rows away (crawl, record_file_system_entry).
CatalogIsComplete ==
    pc[Walker] = "done" /\ ~ truncated =>
        \A n \in Paths : ToBeCataloged(n) =>
            \/ entries[n] # NoRun
            \/ n \in unread
            \/ \E c \in Crawlers \ {Walker} : rebuild[c]

\* The row of a finished run tells the walk that was made: its counts are the
\* paths recorded and the warnings, and no entry is stamped with the run that
\* this walk did not record (crawl, finish_scan_run).
RunRowTellsTheWalk ==
    LET run == runId[Walker]
    IN  run # NoRun =>
          /\ RowsStampedBy(run) \subseteq recorded
          /\ Finished(run) =>
               /\ runs[run].accessible = Cardinality(recorded)
               /\ runs[run].inaccessible =
                    Cardinality(unread) + (IF truncated THEN 1 ELSE 0)

\* A crawl never waits for another one: it ends even if the crawler that
\* holds the write lock stops for good (no busy timeout is set).
WalkerEnds == [](pc[Walker] = "connect" => <>(pc[Walker] \in EndStages))

=============================================================================
