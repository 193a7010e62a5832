--------------------------- MODULE StructuredLog ---------------------------
(***************************************************************************)
(* The log file that StructuredLogger writes.  Crawlers started with the   *)
(* same log path, the default one in particular, append to the same file;  *)
(* logrotate may rename it while they run.  The mutex of a logger orders   *)
(* the lines of one process and of no other.                               *)
(*                                                                         *)
(* A file is the sequence of what write(2) appended to it.  The stream     *)
(* buffers a short line and its newline and writes both when it is         *)
(* flushed; a long line (of 1024 bytes and more, with libstdc++) goes to   *)
(* the file at once and its newline follows with the flush.  The text of a *)
(* line and the copy on standard output are left out.                      *)
(***************************************************************************)
EXTENDS Integers, Sequences

CONSTANTS Crawlers,     \* invocations of the crawler that log to one path
          MaxLines,     \* bound on the lines a crawler logs
          MaxRotations, \* bound on the times the file is renamed
          Faults        \* the faults of the environment that may happen

FaultKinds == {"unwritable", "full", "kill"}

ASSUME LogAssumption == /\ MaxLines \in Nat
                        /\ MaxRotations \in Nat
                        /\ Faults \subseteq FaultKinds

VARIABLES files,   \* what the files hold, oldest first; the last has the name
          named,   \* whether a file with that name exists
          pc,      \* what each crawler does next
          open,    \* the file a crawler's stream writes to
          bad,     \* badbit of the stream: a write failed
          buffer,  \* what the stream's buffer still holds after that
          logged   \* the lines write_entry was called with

vars == <<files, named, pc, open, bad, buffer, logged>>

NoFile == 0         \* the log path is empty: standard output only
FileIds == 1 .. MaxRotations + 1
Lines == 1 .. MaxLines
Parts == {"whole", "text", "newline", "cut"}
Fragments == [by : Crawlers, line : Lines, part : Parts]

TypeOK == /\ files \in Seq(Seq(Fragments))
          /\ Len(files) \in FileIds
          /\ named \in BOOLEAN
          /\ pc \in [Crawlers -> {"construct", "log", "newline", "done",
                                  "failed", "killed"}]
          /\ open \in [Crawlers -> FileIds \cup {NoFile}]
          /\ bad \in [Crawlers -> BOOLEAN]
          /\ buffer \in [Crawlers -> Seq(Fragments)]
          /\ logged \in [Crawlers -> 0 .. MaxLines]

Init == /\ files = <<<<>>>>
        /\ named = FALSE
        /\ pc = [c \in Crawlers |-> "construct"]
        /\ open = [c \in Crawlers |-> NoFile]
        /\ bad = [c \in Crawlers |-> FALSE]
        /\ buffer = [c \in Crawlers |-> <<>>]
        /\ logged = [c \in Crawlers |-> 0]

GoTo(c, stage) == pc' = [pc EXCEPT ![c] = stage]

-----------------------------------------------------------------------------
(* The constructor.                                                        *)

\* The directories are created, then the file is opened for appending.
Open(c) ==
    /\ pc[c] = "construct"
    /\ named' = TRUE
    /\ open' = [open EXCEPT ![c] = Len(files)]
    /\ GoTo(c, "log")
    /\ UNCHANGED <<files, bad, buffer, logged>>

WithoutFile(c) ==
    /\ pc[c] = "construct"
    /\ GoTo(c, "log")
    /\ UNCHANGED <<files, named, open, bad, buffer, logged>>

\* create_directories throws, or the stream is not open: no crawl.
OpenFails(c) ==
    /\ "unwritable" \in Faults
    /\ pc[c] = "construct"
    /\ GoTo(c, "failed")
    /\ UNCHANGED <<files, named, open, bad, buffer, logged>>

-----------------------------------------------------------------------------
(* write_entry.                                                            *)

Fragment(c, line, part) == [by |-> c, line |-> line, part |-> part]

Write(c, fragments) == files' = [files EXCEPT ![open[c]] = @ \o fragments]

Appends(c, line, part) == Write(c, <<Fragment(c, line, part)>>)

\* The next line reaches a stream that accepts it.
NextLine(c) == /\ pc[c] = "log"
               /\ logged[c] < MaxLines
               /\ open[c] # NoFile
               /\ ~ bad[c]
               /\ logged' = [logged EXCEPT ![c] = @ + 1]

WriteShortLine(c) ==
    /\ NextLine(c)
    /\ Appends(c, logged[c] + 1, "whole")
    /\ UNCHANGED <<named, pc, open, bad, buffer>>

WriteLongText(c) ==
    /\ NextLine(c)
    /\ Appends(c, logged[c] + 1, "text")
    /\ GoTo(c, "newline")
    /\ UNCHANGED <<named, open, bad, buffer>>

\* Mutant: the newline is taken for a line of its own.
WriteNewlineCounted(c) ==
    /\ pc[c] = "newline"
    /\ Appends(c, logged[c], "newline")
    /\ logged' = [logged EXCEPT ![c] = @ + 1]
    /\ GoTo(c, "log")
    /\ UNCHANGED <<named, open, bad, buffer>>

\* Mutant: a long line is not ended.
WriteNewlineOmitted(c) ==
    /\ pc[c] = "newline"
    /\ GoTo(c, "log")
    /\ UNCHANGED <<files, named, open, bad, buffer, logged>>

WriteNewline(c) ==
    /\ pc[c] = "newline"
    /\ Appends(c, logged[c], "newline")
    /\ GoTo(c, "log")
    /\ UNCHANGED <<named, open, bad, buffer, logged>>

\* Mutant: the stream goes back to work after a failed write (clear()).
StreamFailsCleared(c, fragments) ==
    /\ buffer' = [buffer EXCEPT ![c] = fragments]
    /\ UNCHANGED bad

\* A failed write sets badbit, which nothing clears or looks at; what the
\* buffer holds stays there.
StreamFails(c, fragments) ==
    /\ bad' = [bad EXCEPT ![c] = TRUE]
    /\ buffer' = [buffer EXCEPT ![c] = fragments]

\* The disk is full: nothing or a part of the line is written.  A long line is
\* lost, a short one stays in the buffer.
WriteLineFails(c) ==
    /\ "full" \in Faults
    /\ NextLine(c)
    /\ Appends(c, logged[c] + 1, "cut") \/ UNCHANGED files
    /\ \/ StreamFails(c, <<>>)
       \/ StreamFails(c, <<Fragment(c, logged[c] + 1, "whole")>>)
    /\ UNCHANGED <<named, pc, open>>

WriteNewlineFails(c) ==
    /\ "full" \in Faults
    /\ pc[c] = "newline"
    /\ StreamFails(c, <<Fragment(c, logged[c], "newline")>>)
    /\ GoTo(c, "log")
    /\ UNCHANGED <<files, named, open, logged>>

\* No file was opened, or the stream is bad: the line is dropped in silence.
DropLine(c) ==
    /\ pc[c] = "log"
    /\ logged[c] < MaxLines
    /\ open[c] = NoFile \/ bad[c]
    /\ logged' = [logged EXCEPT ![c] = @ + 1]
    /\ UNCHANGED <<files, named, pc, open, bad, buffer>>

-----------------------------------------------------------------------------
(* The end of a crawler.                                                   *)

\* The destructor closes the stream, which tries the buffer once more.
Close(c) ==
    /\ pc[c] = "log"
    /\ \/ buffer[c] = <<>> /\ UNCHANGED files
       \/ buffer[c] # <<>> /\ Write(c, buffer[c])
       \/ /\ "full" \in Faults
          /\ buffer[c] # <<>>
          /\ \/ UNCHANGED files
             \/ /\ buffer[c][1].part = "whole"
                /\ Appends(c, buffer[c][1].line, "cut")
    /\ buffer' = [buffer EXCEPT ![c] = <<>>]
    /\ GoTo(c, "done")
    /\ UNCHANGED <<named, open, bad, logged>>

Kill(c) ==
    /\ "kill" \in Faults
    /\ pc[c] \in {"construct", "log", "newline"}
    /\ GoTo(c, "killed")
    /\ UNCHANGED <<files, named, open, bad, buffer, logged>>

\* logrotate renames the file; who has it open goes on writing to it.
Rotate ==
    /\ named
    /\ Len(files) <= MaxRotations
    /\ named' = FALSE
    /\ files' = Append(files, <<>>)
    /\ UNCHANGED <<pc, open, bad, buffer, logged>>

-----------------------------------------------------------------------------
Step(c) == \/ Open(c) \/ WithoutFile(c) \/ OpenFails(c)
           \/ WriteShortLine(c) \/ WriteLongText(c) \/ WriteNewline(c)
           \/ WriteLineFails(c) \/ WriteNewlineFails(c) \/ DropLine(c)
           \/ Close(c) \/ Kill(c)

Next == Rotate \/ \E c \in Crawlers : Step(c)

Spec == Init /\ [][Next]_vars

-----------------------------------------------------------------------------
(* What must hold of the log.                                              *)

EndsLine(f) == f.part \in {"whole", "newline"}

\* What a crawler may write after what it wrote last: the next line, the
\* newline of a long line, or once more the line that was cut.
Follows(f, g) ==
    \/ EndsLine(f) /\ g.part # "newline" /\ g.line = f.line + 1
    \/ f.part = "text" /\ g.part = "newline" /\ g.line = f.line
    \/ f.part = "cut" /\ g.part \in {"whole", "cut"} /\ g.line = f.line

\* The places of a file where a crawler wrote, and its last one so far.
WrittenBy(c, file) == {k \in DOMAIN file : file[k].by = c}
LastBefore(c, file, k) ==
    {j \in WrittenBy(c, file) :
        j < k /\ \A m \in WrittenBy(c, file) : m < k => m <= j}

\* One file holds, in order and without a gap, the first lines a crawler
\* logged, through a rotation and a full disk; as long as no write of its
\* stream failed these are all of them (the lock of write_entry, the open
\* stream, badbit).
LogFollowsItsCrawler ==
    \A c \in Crawlers : \A i \in DOMAIN files :
        LET file == files[i]
            last == LastBefore(c, file, Len(file) + 1)
        IN  /\ \A k \in WrittenBy(c, file) :
                 /\ i = open[c]
                 /\ file[k].line <= logged[c]
                 /\ IF LastBefore(c, file, k) = {}
                    THEN file[k].line = 1 /\ file[k].part # "newline"
                    ELSE \A j \in LastBefore(c, file, k) :
                            Follows(file[j], file[k])
            /\ i = open[c] /\ ~ bad[c] /\ logged[c] > 0 =>
                 \E k \in last :
                    /\ file[k].line = logged[c]
                    /\ EndsLine(file[k]) \/ pc[c] \in {"newline", "killed"}

\* A line of the file is one log entry, unless a write was cut short or two
\* crawlers wrote to the file and one of them a long line: what begins an
\* entry begins a line, and a newline ends the entry before it (write_entry
\* writes a line and its newline before it returns).
TornOnlyBetweenCrawlers ==
    \A i \in DOMAIN files : \A k \in DOMAIN files[i] :
        LET f == files[i][k]
            before == files[i][k - 1]
        IN  IF f.part = "newline"
            THEN k > 1 /\ (before.by = f.by => Follows(before, f))
            ELSE \/ k = 1
                 \/ EndsLine(before)
                 \/ before.part = "cut"
                 \/ before.part = "text" /\ before.by # f.by

=============================================================================
