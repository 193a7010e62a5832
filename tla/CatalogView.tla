---------------------------- MODULE CatalogView ----------------------------
(***************************************************************************)
(* What a reader that issues one query at a time can see of the catalog:   *)
(* which tables exist, which runs and which paths have a row.  An abstract *)
(* specification: the crawlers of ScanRuns implement it, and WebRequests   *)
(* reads it.                                                               *)
(***************************************************************************)
EXTENDS Integers

CONSTANTS Paths,   \* absolute paths
          MaxRuns  \* bound on the identifiers

VARIABLES schema,    \* the tables and indexes that exist
          known,     \* the identifiers in scan_runs
          cataloged  \* the paths in file_system_entries

viewVars == <<schema, known, cataloged>>

RunIds == 1 .. MaxRuns
Objects == {"scan_runs", "file_system_entries", "indexes"}

\* Mutant: the tables are created in any order.
MayCreateInAnyOrder(object) == object # "indexes"

\* The objects appear in this order.
MayCreate(object) ==
    \/ object = "scan_runs"
    \/ object = "file_system_entries" /\ "scan_runs" \in schema
    \/ object = "indexes" /\ "file_system_entries" \in schema

Init == /\ schema = {}
        /\ known = {}
        /\ cataloged = {}

CreateObject(object) == /\ MayCreate(object)
                        /\ schema' = schema \cup {object}
                        /\ UNCHANGED <<known, cataloged>>

OpenRun(r) == /\ \A q \in known : q < r
              /\ known' = known \cup {r}
              /\ UNCHANGED <<schema, cataloged>>

RecordPath(p) == /\ known # {}
                 /\ cataloged' = cataloged \cup {p}
                 /\ UNCHANGED <<schema, known>>

EraseEntries == /\ cataloged' = {}
                /\ UNCHANGED <<schema, known>>

EraseRuns == /\ known' = {}
             /\ cataloged' = {}
             /\ UNCHANGED schema

Erase == EraseEntries \/ EraseRuns

Next == \/ \E object \in Objects : CreateObject(object)
        \/ \E r \in RunIds : OpenRun(r)
        \/ \E p \in Paths : RecordPath(p)
        \/ Erase

Spec == Init /\ [][Next]_viewVars

=============================================================================
