---------------------------- MODULE CommandLine ----------------------------
(***************************************************************************)
(* From the words typed after the launcher script to the exit code or the  *)
(* configuration a crawl runs with: run_crawler.sh, the loop of            *)
(* parse_command_line_arguments, and the catch block of main.  A word is   *)
(* one of the options or one of Words, which no option is.                 *)
(***************************************************************************)
EXTENDS Integers, Sequences, FiniteSetsExt

CONSTANTS Words,        \* arguments that are not options
          Empty,        \* the empty argument, one of Words
          MaxArguments  \* bound on the arguments typed

Flags == {"--rebuild-database", "--follow-symbolic-links",
          "--include-hidden-entries"}
ValueOptions == {"--crawl-root", "--database-path", "--log-file-path"}
Options == Flags \cup ValueOptions \cup {"--help"}

ASSUME ArgumentAssumption == /\ Words \cap Options = {}
                             /\ Empty \in Words
                             /\ MaxArguments \in Nat

VARIABLES arguments,     \* what was typed
          pc,            \* what happens next: usage and help are exit code 0,
                         \* not_built and failed exit code 1
          index,         \* current_argument_index
          configuration  \* run_configuration

vars == <<arguments, pc, index, configuration>>

\* The root "/" and the log file, where no argument gives another.
Default == "default"

Settings == [rebuild : BOOLEAN, follow : BOOLEAN, hidden : BOOLEAN,
             root : Words \cup Options \cup {Default},
             database : Words \cup Options,
             log : Words \cup Options \cup {Default}]

TypeOK == /\ arguments \in Seq(Words \cup Options)
          /\ pc \in {"launch", "usage", "not_built", "parse", "check",
                     "crawl", "help", "failed"}
          /\ index \in 1 .. Len(arguments) + 1
          /\ configuration \in Settings

Typed == UNION {[1 .. n -> Words \cup Options] : n \in 0 .. MaxArguments}

Init == /\ arguments \in Typed
        /\ pc = "launch"
        /\ index = 1
        /\ configuration = [rebuild |-> FALSE, follow |-> FALSE,
                            hidden |-> FALSE, root |-> Default,
                            database |-> Empty, log |-> Default]

GoTo(stage) == pc' = stage /\ UNCHANGED <<arguments, index, configuration>>

-----------------------------------------------------------------------------
(* run_crawler.sh.                                                         *)

\* No argument, or --help as the first one.
AsksForUsage == \A i \in DOMAIN arguments : i = 1 => arguments[i] = "--help"

PrintUsage == /\ pc = "launch"
              /\ AsksForUsage
              /\ GoTo("usage")

NotBuilt == /\ pc = "launch"
            /\ ~ AsksForUsage
            /\ GoTo("not_built")

\* The script becomes the crawler, or the crawler is started without it.
StartCrawler == /\ pc = "launch"
                /\ GoTo("parse")

-----------------------------------------------------------------------------
(* parse_command_line_arguments.                                           *)

Current == arguments[index]

\* The next argument is not an option's value.
Reads(words) == /\ pc = "parse"
                /\ index <= Len(arguments)
                /\ Current \in words

Help == Reads({"--help"}) /\ GoTo("help")

Assign(option, value) ==
    configuration' =
        CASE option = "--rebuild-database" ->
               [configuration EXCEPT !.rebuild = value]
          [] option = "--follow-symbolic-links" ->
               [configuration EXCEPT !.follow = value]
          [] option = "--include-hidden-entries" ->
               [configuration EXCEPT !.hidden = value]
          [] option = "--crawl-root" ->
               [configuration EXCEPT !.root = value]
          [] option = "--database-path" ->
               [configuration EXCEPT !.database = value]
          [] option = "--log-file-path" ->
               [configuration EXCEPT !.log = value]

\* Mutant: the index is advanced for every option.
SetFlagSkipsNext == /\ Reads(Flags)
                    /\ Assign(Current, TRUE)
                    /\ index' = index + 2
                    /\ UNCHANGED <<arguments, pc>>

SetFlag == /\ Reads(Flags)
           /\ Assign(Current, TRUE)
           /\ index' = index + 1
           /\ UNCHANGED <<arguments, pc>>

\* Mutant: the value of an option is read again as an argument.
SetValueNotSkipped == /\ Reads(ValueOptions)
                      /\ index < Len(arguments)
                      /\ Assign(Current, arguments[index + 1])
                      /\ index' = index + 1
                      /\ UNCHANGED <<arguments, pc>>

\* Whatever comes next is the value, an option too.
SetValue == /\ Reads(ValueOptions)
            /\ index < Len(arguments)
            /\ Assign(Current, arguments[index + 1])
            /\ index' = index + 2
            /\ UNCHANGED <<arguments, pc>>

ValueMissing == /\ Reads(ValueOptions)
                /\ index = Len(arguments)
                /\ GoTo("failed")

UnknownOption == Reads(Words) /\ GoTo("failed")

LoopEnds == /\ pc = "parse"
            /\ index > Len(arguments)
            /\ GoTo("check")

NoDatabase == /\ pc = "check"
              /\ configuration.database = Empty
              /\ GoTo("failed")

\* CrawlerApplication::run is ScanRuns.
RunCrawl == /\ pc = "check"
            /\ configuration.database # Empty
            /\ GoTo("crawl")

Next == \/ PrintUsage \/ NotBuilt \/ StartCrawler
        \/ Help \/ SetFlag \/ SetValue \/ ValueMissing \/ UnknownOption
        \/ LoopEnds \/ NoDatabase \/ RunCrawl

Spec == Init /\ [][Next]_vars

-----------------------------------------------------------------------------
(* What the arguments mean, without the loop.                              *)

\* Whether an argument is the value of the one before it.
IsValue[i \in Nat] == /\ i > 1
                      /\ arguments[i - 1] \in ValueOptions
                      /\ ~ IsValue[i - 1]

Given == {i \in DOMAIN arguments : ~ IsValue[i]}
Named(option) == {i \in Given : arguments[i] = option}

\* The last value given wins.
Value(option, default) ==
    IF Named(option) = {} THEN default ELSE arguments[Max(Named(option)) + 1]

WellFormed == /\ \A i \in Given : arguments[i] \in Flags \cup ValueOptions
              /\ \A i \in Given :
                     arguments[i] \in ValueOptions => i < Len(arguments)

Meaning == [rebuild  |-> Named("--rebuild-database") # {},
            follow   |-> Named("--follow-symbolic-links") # {},
            hidden   |-> Named("--include-hidden-entries") # {},
            root     |-> Value("--crawl-root", Default),
            database |-> Value("--database-path", Empty),
            log      |-> Value("--log-file-path", Default)]

\* A crawl runs exactly with what was typed: every argument is an option or
\* the value of one, no flag is lost, the last value of an option counts, and
\* there is a database (parse_command_line_arguments).
CrawlRunsAsTyped ==
    pc = "crawl" => /\ WellFormed
                    /\ configuration = Meaning
                    /\ Meaning.database # Empty

\* The crawler gives up only over arguments that mean nothing: it prints its
\* help for the first --help that is not a value, if what comes before is
\* well-formed, and exits with 1 only if no crawl could be run as typed
\* (the exceptions of parse_command_line_arguments, main).
RefusalIsDeserved ==
    LET halts == {i \in Given : \/ arguments[i] \notin Flags \cup ValueOptions
                                \/ /\ arguments[i] \in ValueOptions
                                   /\ i = Len(arguments)}
    IN  /\ pc = "help" => /\ halts # {}
                          /\ index = Min(halts)
                          /\ Current = "--help"
        /\ pc = "failed" => IF halts = {}
                            THEN Meaning.database = Empty
                            ELSE index = Min(halts) /\ Current # "--help"

=============================================================================
