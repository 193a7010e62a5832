---------------------------- MODULE ScanLedger -----------------------------
(***************************************************************************)
(* What the catalog promises its readers, whoever writes it: an abstract   *)
(* specification with no processes, statements, locks or failures.  Runs   *)
(* open under identifiers that never return, entries are stamped only with *)
(* an open run, a run closes once, claiming at least the rows it still     *)
(* has, and the ledger is only ever erased as a whole, entries first.      *)
(***************************************************************************)
EXTENDS Integers, FiniteSets

CONSTANTS Paths,    \* absolute paths
          NoPath,   \* the root of a run that does not exist
          MaxRuns   \* bound on the identifiers

VARIABLES runs,     \* identifier -> row of the run
          entries,  \* path -> identifier of the run that saw it last, or 0
          opened    \* the highest identifier a run was opened under

ledgerVars == <<runs, entries, opened>>

RunIds == 1 .. MaxRuns

Row == [status       : {"absent", "started", "finished"},
        root         : Paths \cup {NoPath},
        accessible   : Nat,
        inaccessible : Nat]

NoRow ==
    [status |-> "absent", root |-> NoPath, accessible |-> 0, inaccessible |-> 0]

StampedBy(r) == {p \in Paths : entries[p] = r}

Init == /\ runs = [r \in RunIds |-> NoRow]
        /\ entries = [p \in Paths |-> 0]
        /\ opened = 0

Open(r, root) ==
    /\ r > opened
    /\ opened' = r
    /\ runs' = [runs EXCEPT ![r] = [NoRow EXCEPT !.status = "started",
                                                 !.root = root]]
    /\ UNCHANGED entries

Stamp(r, p) ==
    /\ runs[r].status = "started"
    /\ entries' = [entries EXCEPT ![p] = r]
    /\ UNCHANGED <<runs, opened>>

Close(r) ==
    /\ runs[r].status = "started"
    /\ runs' \in [RunIds -> Row]
    /\ runs'[r].status = "finished"
    /\ runs'[r].root = runs[r].root
    /\ runs'[r].accessible >= Cardinality(StampedBy(r))
    /\ \A q \in RunIds \ {r} : runs'[q] = runs[q]
    /\ UNCHANGED <<entries, opened>>

EraseEntries == /\ entries' = [p \in Paths |-> 0]
                /\ UNCHANGED <<runs, opened>>

EraseRuns == /\ runs' = [r \in RunIds |-> NoRow]
             /\ entries' = [p \in Paths |-> 0]
             /\ UNCHANGED opened

Next == \/ \E r \in RunIds :
              \/ \E root \in Paths : Open(r, root)
              \/ \E p \in Paths : Stamp(r, p)
              \/ Close(r)
        \/ EraseEntries
        \/ EraseRuns

Spec == Init /\ [][Next]_ledgerVars

=============================================================================
