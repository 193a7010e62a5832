--------------------------- MODULE DirectoryWalk ---------------------------
(***************************************************************************)
(* One crawl over a directory tree that changes under it: the recording of *)
(* the root, the recursive_directory_iterator loop of                      *)
(* FileSystemCrawler::crawl, and the iterator itself as the C++ library    *)
(* implements it (external).  The catalog is reduced to "the upsert        *)
(* succeeds or throws"; ScanRuns models it.                                *)
(*                                                                         *)
(* A node is a path below the root.  A removed path is not created again   *)
(* during the crawl.                                                       *)
(***************************************************************************)
EXTENDS Integers, Sequences, FiniteSets

CONSTANTS Nodes,         \* the paths that may exist during the crawl
          Root,          \* crawl_root_directory_path
          Parent,        \* node -> the directory that holds it
          Kind,          \* node -> directory, file, link (to a directory) or
                         \* loop (a link that status() cannot resolve)
          HiddenNames,   \* the nodes whose name starts with a dot
          Sealable,      \* the directories that opendir may refuse (EACCES)
          None,          \* no entry
          Follow,        \* should_follow_symbolic_links
          IncludeHidden, \* should_include_hidden_entries
          Faults         \* the faults of the environment that may happen

Kinds == {"directory", "file", "link", "loop"}
FaultKinds == {"record", "open", "read"}

ASSUME TreeAssumption == /\ IsFiniteSet(Nodes)
                         /\ Root \in Nodes
                         /\ None \notin Nodes
                         /\ Parent \in [Nodes \ {Root} -> Nodes]
                         /\ \A n \in Nodes \ {Root} : Parent[n] # n
                         /\ Kind \in [Nodes -> Kinds]
                         /\ Sealable \subseteq Nodes
                         /\ Follow \in BOOLEAN /\ IncludeHidden \in BOOLEAN
                         /\ Faults \subseteq FaultKinds

VARIABLES life,         \* node -> unborn, old (there when the crawl began),
                        \* young (created since) or gone
          dangling,     \* the links whose target does not exist yet
          sealed,       \* the directories that opendir refuses
          pc,           \* what the crawl does next
          stack,        \* the iterator's open directories, innermost last
          must,         \* directory -> entries readdir has still to return
          may,          \* directory -> entries readdir may still return
          entry,        \* the entry the iterator points to
          pending,      \* recursion_pending of the iterator
          recorded,     \* the paths with a row of this crawl
          unread,       \* the paths logged as not readable
          accessible,   \* accessible_entry_count
          inaccessible, \* inaccessible_entry_count
          truncated     \* an increment failed and left the end iterator

tree == <<life, dangling, sealed>>
iterator == <<stack, must, may, entry, pending>>
results == <<recorded, unread, accessible, inaccessible>>
vars == <<life, dangling, sealed, pc, stack, must, may, entry, pending,
          recorded, unread, accessible, inaccessible, truncated>>

Live(n) == life[n] \in {"old", "young"}
Children(d) == {n \in Nodes \ {Root} : Parent[n] = d}
Resolves(n) == Kind[n] = "link" /\ Live(n) /\ n \notin dangling
Holds(d) == Live(d) /\ (Kind[d] = "directory" \/ Resolves(d))
Skipped(n) == ~ IncludeHidden /\ n \in HiddenNames
Top == stack[Len(stack)]

TypeOK == /\ life \in [Nodes -> {"unborn", "old", "young", "gone"}]
          /\ dangling \subseteq Nodes
          /\ sealed \subseteq Sealable
          /\ pc \in {"record_root", "construct", "visit", "descend", "advance",
                     "finish", "done", "failed"}
          /\ stack \in Seq(Nodes)
          /\ must \in [Nodes -> SUBSET Nodes]
          /\ may \in [Nodes -> SUBSET Nodes]
          /\ entry \in Nodes \cup {None}
          /\ pending \in BOOLEAN
          /\ recorded \subseteq Nodes
          /\ unread \subseteq Nodes
          /\ accessible \in Nat
          /\ inaccessible \in Nat
          /\ truncated \in BOOLEAN

Init == /\ dangling \in SUBSET {n \in Nodes : Kind[n] = "link"}
        /\ sealed \in SUBSET Sealable
        /\ life \in [Nodes -> {"unborn", "old"}]
        /\ life[Root] = "old"
        /\ \A n \in Nodes \ {Root} : life[n] = "old" => Holds(Parent[n])
        /\ pc = "record_root"
        /\ stack = <<>>
        /\ must = [d \in Nodes |-> {}]
        /\ may = [d \in Nodes |-> {}]
        /\ entry = None
        /\ pending = TRUE
        /\ recorded = {}
        /\ unread = {}
        /\ accessible = 0
        /\ inaccessible = 0
        /\ truncated = FALSE

-----------------------------------------------------------------------------
(* Other processes change the tree.  readdir promises nothing about an     *)
(* entry created or removed while its directory is open.                   *)

Create(n) ==
    /\ life[n] = "unborn"
    /\ Holds(Parent[n])
    /\ life' = [life EXCEPT ![n] = "young"]
    /\ may' = [may EXCEPT ![Parent[n]] =
                 IF \E i \in DOMAIN stack : stack[i] = Parent[n]
                 THEN @ \cup {n} ELSE @]
    /\ UNCHANGED <<dangling, sealed, pc, stack, must, entry, pending, results,
                   truncated>>

Remove(n) ==
    /\ Live(n)
    /\ \A m \in Children(n) : ~ Live(m)
    /\ life' = [life EXCEPT ![n] = "gone"]
    /\ must' = [must EXCEPT ![Parent[n]] = @ \ {n}]
    /\ UNCHANGED <<dangling, sealed, pc, stack, may, entry, pending, results,
                   truncated>>

TargetAppears(n) ==
    /\ n \in dangling
    /\ dangling' = dangling \ {n}
    /\ UNCHANGED <<life, sealed, pc, iterator, results, truncated>>

-----------------------------------------------------------------------------
(* Recording.                                                              *)

\* lstat, or stat when links are followed, succeeds.
Readable(n) == /\ Live(n)
               /\ Follow => Kind[n] # "loop" /\ n \notin dangling

Recorded(n) == /\ Readable(n)
               /\ recorded' = recorded \cup {n}
               /\ accessible' = accessible + 1
               /\ UNCHANGED <<unread, inaccessible>>

\* Mutant: a count that was not made yet is taken back.
NotRecordedTakenBack(n) == /\ "record" \in Faults \/ ~ Readable(n)
                           /\ unread' = unread \cup {n}
                           /\ accessible' = accessible - 1
                           /\ inaccessible' = inaccessible + 1
                           /\ UNCHANGED recorded

\* The catch block: stat fails, or the upsert does.
NotRecorded(n) == /\ "record" \in Faults \/ ~ Readable(n)
                  /\ unread' = unread \cup {n}
                  /\ inaccessible' = inaccessible + 1
                  /\ UNCHANGED <<recorded, accessible>>

RecordRoot == /\ pc = "record_root"
              /\ Recorded(Root) \/ NotRecorded(Root)
              /\ pc' = "construct"
              /\ UNCHANGED <<tree, iterator, truncated>>

Visit == /\ pc = "visit"
         /\ ~ Skipped(entry)
         /\ Recorded(entry) \/ NotRecorded(entry)
         /\ pc' = "descend"
         /\ UNCHANGED <<tree, iterator, truncated>>

\* Mutant: disable_recursion_pending() is not called.
SkipHiddenOnly == /\ pc = "visit"
                  /\ Skipped(entry)
                  /\ Kind[entry] # "loop" \/ ~ Live(entry)
                  /\ pc' = "descend"
                  /\ UNCHANGED <<tree, iterator, results, truncated>>

\* Mutant: the loop is continued without the increment.
SkipHiddenStays == /\ pc = "visit"
                   /\ Skipped(entry)
                   /\ Kind[entry] # "loop" \/ ~ Live(entry)
                   /\ pending' = FALSE
                   /\ UNCHANGED <<tree, pc, stack, must, may, entry, results,
                                  truncated>>

\* is_directory() answers from the type readdir gave, except for a link,
\* which it resolves.
SkipHidden == /\ pc = "visit"
              /\ Skipped(entry)
              /\ Kind[entry] # "loop" \/ ~ Live(entry)
              /\ pending' = (/\ pending
                             /\ Kind[entry] # "directory"
                             /\ ~ Resolves(entry))
              /\ pc' = "descend"
              /\ UNCHANGED <<tree, stack, must, may, entry, results, truncated>>

\* ... and for a link it cannot resolve it throws, outside every try block.
HiddenCheckThrows == /\ pc = "visit"
                     /\ Skipped(entry)
                     /\ Kind[entry] = "loop" /\ Live(entry)
                     /\ pc' = "failed"
                     /\ UNCHANGED <<tree, iterator, results, truncated>>

-----------------------------------------------------------------------------
(* The iterator.                                                           *)

Open(d) == /\ stack' = Append(stack, d)
           /\ must' = [must EXCEPT ![d] = {n \in Children(d) : Live(n)}]
           /\ may' = [may EXCEPT ![d] = {n \in Children(d) : Live(n)}]

Construct == /\ pc = "construct"
             /\ Holds(Root) /\ Root \notin sealed
             /\ Open(Root)
             /\ pc' = "advance"
             /\ UNCHANGED <<tree, entry, pending, results, truncated>>

\* skip_permission_denied turns the refusal into the end iterator.
ConstructSealed == /\ pc = "construct"
                   /\ Holds(Root) /\ Root \in sealed
                   /\ pc' = "finish"
                   /\ UNCHANGED <<tree, iterator, results, truncated>>

ConstructFails == /\ pc = "construct"
                  /\ "open" \in Faults \/ ~ Holds(Root)
                  /\ pc' = "failed"
                  /\ UNCHANGED <<tree, iterator, results, truncated>>

Recurses(n) == Kind[n] = "directory" \/ (Follow /\ Resolves(n))

\* increment() first descends into the entry it points to.
Descend == /\ pc = "descend"
           /\ pending /\ Recurses(entry) /\ Live(entry) /\ entry \notin sealed
           /\ Open(entry)
           /\ pending' = TRUE
           /\ pc' = "advance"
           /\ UNCHANGED <<tree, entry, results, truncated>>

\* Mutant: recursion stays disabled after a skipped entry.
StayBesideDisabled == /\ pc = "descend"
                      /\ \/ ~ pending
                         \/ ~ Recurses(entry)
                         \/ entry \in sealed /\ Live(entry)
                      /\ pc' = "advance"
                      /\ UNCHANGED <<tree, iterator, results, truncated>>

StayBeside == /\ pc = "descend"
              /\ \/ ~ pending
                 \/ ~ Recurses(entry)
                 \/ entry \in sealed /\ Live(entry)
              /\ pending' = TRUE
              /\ pc' = "advance"
              /\ UNCHANGED <<tree, stack, must, may, entry, results, truncated>>

\* Mutant: a failed increment is not counted.
TruncateUncounted == /\ stack' = <<>>
                     /\ truncated' = TRUE
                     /\ pc' = "finish"
                     /\ UNCHANGED inaccessible

\* An increment that fails leaves the end iterator: the loop ends here.
Truncate == /\ stack' = <<>>
            /\ truncated' = TRUE
            /\ inaccessible' = inaccessible + 1
            /\ pc' = "finish"

\* The directory the iterator points to was removed before it was opened.
DescendFails == /\ pc = "descend"
                /\ pending /\ Recurses(entry)
                /\ ~ Live(entry) \/ "open" \in Faults
                /\ Truncate
                /\ UNCHANGED <<tree, must, may, entry, pending, recorded,
                               unread, accessible>>

\* readdir returns an entry of the innermost directory.
Advance(n) == /\ pc = "advance"
              /\ n \in may[Top]
              /\ may' = [may EXCEPT ![Top] = @ \ {n}]
              /\ must' = [must EXCEPT ![Top] = @ \ {n}]
              /\ entry' = n
              /\ pc' = "visit"
              /\ UNCHANGED <<tree, stack, pending, results, truncated>>

\* readdir returns no more entries: pop, and go on above.
Pop == /\ pc = "advance"
       /\ must[Top] = {}
       /\ stack' = SubSeq(stack, 1, Len(stack) - 1)
       /\ pc' = IF Len(stack) = 1 THEN "finish" ELSE "advance"
       /\ UNCHANGED <<tree, must, may, entry, pending, results, truncated>>

\* readdir fails; in the constructor the error is thrown.
ReadFails == /\ pc = "advance"
             /\ "read" \in Faults
             /\ IF entry = None
                THEN /\ pc' = "failed"
                     /\ UNCHANGED <<stack, truncated, inaccessible>>
                ELSE Truncate
             /\ UNCHANGED <<tree, must, may, entry, pending, recorded, unread,
                            accessible>>

Finish == /\ pc = "finish"
          /\ pc' = "done"
          /\ UNCHANGED <<tree, iterator, results, truncated>>

-----------------------------------------------------------------------------
Environment == \/ \E n \in Nodes \ {Root} : Create(n) \/ Remove(n)
               \/ \E n \in Nodes : TargetAppears(n)

Crawl == \/ RecordRoot \/ Construct \/ ConstructSealed \/ ConstructFails
         \/ Visit \/ SkipHidden \/ HiddenCheckThrows
         \/ Descend \/ StayBeside \/ DescendFails
         \/ \E n \in Nodes : Advance(n)
         \/ Pop \/ ReadFails \/ Finish

Next == Crawl \/ Environment

Spec == Init /\ [][Next]_vars

\* The crawler is one process that always takes its next step.
FairSpec == Spec /\ WF_vars(Crawl)

-----------------------------------------------------------------------------
(* What must hold of the walk.                                             *)

Seen == recorded \cup unread

\* A directory a complete walk has to enter: there all along, and visited.
ToBeEntered(d) == /\ d \notin sealed
                  /\ life[d] = "old"
                  /\ Kind[d] = "directory" \/ (Follow /\ Kind[d] = "link")
                  /\ d = Root \/ d \in Seen

\* Whatever was in such a directory all along is a row or a warning when the
\* crawl ends with no failed increment, however the rest of the tree changes.
Closed == \A n \in Nodes \ {Root} :
             life[n] = "old" /\ ~ Skipped(n) /\ ToBeEntered(Parent[n])
                 => n \in Seen

FinishedWalkIsClosed == pc = "done" /\ ~ truncated => Closed

\* A hidden link can be entered if its target appears between is_directory()
\* and the increment.
LateLink(n) == Follow /\ Kind[n] = "link" /\ Skipped(n)

\* Nothing hidden is visited, nor anything below it: on the way from the root
\* to a visited entry every directory was visited itself, or is a link that
\* was followed late (the hidden branch of the loop).
HiddenStaysOut ==
    /\ \A n \in Seen \ {Root} : ~ Skipped(n)
    /\ \E way \in SUBSET Nodes :
           /\ Seen \subseteq way
           /\ \A n \in way \ {Root} : /\ Parent[n] \in way
                                      /\ n \in Seen \/ LateLink(n)

\* The two counters are the numbers of rows and of entries logged as not
\* readable, and no entry is visited twice (scan_statistics).
CountsMatchRows ==
    /\ recorded \cap unread = {}
    /\ accessible = Cardinality(recorded)
    /\ inaccessible = Cardinality(unread) + (IF truncated THEN 1 ELSE 0)

\* Every crawl ends, whatever other processes create and remove meanwhile
\* (the loop of crawl: the iterator reaches its end).
CrawlEnds == <>(pc \in {"done", "failed"})

\* What the comments and the documentation say and the code does not keep.

\* The comment in crawl: a failure does not stop the rest of the scan.
FailuresDoNotStopTheScan == pc = "done" => Closed

=============================================================================
