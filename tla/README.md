# Tusho: models, checks and proofs

Tusho catalogs a file system. A C++ command, the crawler, walks a directory
tree and writes one row per entry into an SQLite file; a PHP web application
reads that file. This directory holds TLA+ models of the program, TLC
configurations that check them on small instances, and TLAPS proofs of what
matters most for every value of the constants.

Source paths below are relative to the repository.

## The system

| part | source | state it keeps | operations |
|---|---|---|---|
| catalog repository | `src/database/file_system_catalog_repository.cpp` | the tables `scan_runs` and `file_system_entries`, one prepared upsert | `initialize_schema`, `clear_catalog`, `begin_scan_run`, `record_file_system_entry`, `finish_scan_run`, destructor |
| connection | `src/database/sqlite_database_connection.cpp` | one SQLite handle | open with three pragmas, `execute_sql_statement`, `prepare_statement`, `fetch_last_inserted_row_identifier` |
| crawler | `src/filesystem/file_system_crawler.cpp` | `ScanStatistics`, the iterator | `crawl`: schema, optional rebuild, run row, root, loop, finish |
| application, command line | `src/application/crawler_application.cpp`, `src/main.cpp` | `RunConfiguration` | parse, `run`, exit code |
| structured logger | `src/logging/structured_logger.cpp` | one append-only stream and a mutex | `log_information`, `log_warning`, `log_error` |
| web application | `web/src`, `web/public/index.php` | nothing between requests | configuration loading, queries, rendering, request log |
| crawler launcher | `scripts/run_crawler.sh` | nothing | usage, check for a build, `exec` |
| launchers, build, tests, docs, wiki | `scripts`, `tests`, `docs`, `wiki`, `.github` | the generated web configuration | tooling |

The crawler is one thread. Concurrency comes from processes: several crawlers
(the docs suggest timers and cron) and the web application share one catalog
file, and the tree that is crawled belongs to everybody. Components interact by
calls inside a process, by SQL through SQLite's write lock between processes,
and through files (configuration, logs). Crawlers that use the default log path
share one log file.

What makes it hard:

- every SQL statement is a transaction of its own; a rebuild is two of them, a
  run is opened, stamped and closed by many;
- no busy timeout is set, so a write that meets another writer fails at once,
  and what a failure does depends on the stage: it ends the process, or is
  counted like an unreadable file;
- a failed upsert is not reset before the next one;
- the iterator, the entry it points to and the tree change at different times;
- a crawler may die at any point, and the next one finds what it left;
- a failed write silences the log file for the rest of a crawl, and two crawlers
  may append to one file that logrotate renames;
- one directory has several spellings, and a row's keys depend on them.

### What makes each part correct

- Repository: no row without its run; identifiers never reused.
- Crawl: a success is recorded; counts cover the rows; a finished run is final;
  crawlers do not disturb each other except where a rebuild is asked for.
- Walk: nothing stable in a visited directory is missed; hidden subtrees stay
  out; every entry is counted once; the loop ends.
- Command line: a crawl runs exactly with what was typed, or not at all.
- Log: a file holds a crawler's lines in order and without a gap; a line is an
  entry.
- Web application: pages are made from a validated configuration; a page's
  numbers are explained by the catalog; a directory's page lists what was recorded
  in it, a search shows what contains its phrase.

## The modules

| module | models | kind |
|---|---|---|
| `CatalogRepository` | the two tables, the identifier sequence, the foreign key and its cascade; one operator per statement | state and operators |
| `ScanRuns` | crawler processes on one catalog (extends `CatalogRepository`) | state machine |
| `ScanLedger` | what the catalog promises whoever reads it | abstract specification |
| `CatalogView` | what a reader that asks one query at a time sees | abstract specification |
| `DirectoryWalk` | the loop of `crawl` and `recursive_directory_iterator` over a changing tree | state machine |
| `CrawlSession` | one crawler from launch to exit: `ScanRuns` and `DirectoryWalk` composed | composition |
| `CommandLine` | `run_crawler.sh`, `parse_command_line_arguments`, the exit codes of `main` | state machine |
| `StructuredLog` | the loggers of crawlers that share a log path | state machine |
| `WebRequests` | launchers, PHP servers and their requests beside the crawlers of `CatalogView` | state machine |
| `CatalogPages` | the keys of a row, and the browse and search queries over them | operators, with one step per row recorded, clear and page |
| `MCDirectoryWalk`, `MCCrawlSession`, `MCCatalogPages` | the trees, roots and phrases of the runs | instances |
| `ScanRunsProofs`, `ScanRunsViewProofs`, `DirectoryWalkProofs`, `CrawlSessionProofs`, `StructuredLogProofs`, `CommandLineProofs`, `WebRequestsProofs`, `CatalogPagesProofs` | theorems | proofs |

How they fit together. `CommandLine` ends where `ScanRuns` begins (`Launch`).
`ScanRuns` implements `ScanLedger` (`ImplementsLedger`) and `CatalogView`
(`ImplementsView`); `WebRequests` takes the actions of `CatalogView` as its
crawlers, so what is shown of web requests holds beside the crawlers of `ScanRuns`
without the product of the two state spaces. `CrawlSession` is both a behaviour of
`ScanRuns` and one of `DirectoryWalk` (proved), so what is shown of either holds of
a whole crawl. `StructuredLog` and `CatalogPages` share no state with the others: a
failure of the logger's constructor is one of the failures of
`ScanRuns!ConnectFails`. Definitions named after a bug (`...Uncascaded`,
`...Uncounted`), marked "Mutant", stand beside the definition they change; no
specification uses them. They show that a property can fail.

### Crawlers: `CatalogRepository` and `ScanRuns`

A row of `scan_runs` is `runs[r]`; its `status` is absent, started
(`finished_at_utc` NULL) or finished. `entries[p]` is the run stamped on the row
of path `p`, or 0. `sequence` is AUTOINCREMENT's. The other columns of an entry
are left out.

`pc[c]` follows `CrawlerApplication::run` and `FileSystemCrawler::crawl`
statement by statement. A write takes two steps: `Acquire` takes SQLite's write
lock, the statement's own action commits and releases it. A write of another
crawler that falls in between finds the lock taken, which is how SQLITE_BUSY
happens without a busy timeout. What a failure does is what the code does with
it: outside the recording the exception ends the process (`StatementFails`);
inside, it is caught, counted and forgotten (`RecordFails`).

Three facts about SQLite shape the model. `CREATE ... IF NOT EXISTS` of an object
that exists takes no write lock. An AUTOINCREMENT identifier is not reused after
a delete. A statement that returned SQLITE_BUSY and was not reset stays active:
`unreset` remembers it; an UPDATE in auto-commit mode is then not committed until
the active statement is reset, and finalizing that statement rolls it back. The
last was confirmed by running the program's repository against SQLite.

### The walk: `DirectoryWalk`

The tree is a constant set of nodes with parents and kinds; `life`, `dangling`
and `sealed` say which exist, which links have no target and which directories
cannot be opened. Other processes create and remove nodes at any step. A node
is "old" while it has been there since the crawl began.

The standard library's iterator is modelled as far as the loop depends on it:
a stack of open directories, the entries `readdir` has still to return (`must`:
there since the directory was opened; `may`: may be returned, or not), the entry
it points to, the recursion flag, and the rule that an increment which reports
an error leaves the end iterator. `skip_permission_denied` makes a sealed
directory an empty one.

### A whole crawl: `CrawlSession`

The `Walker` is one crawler whose walk is modelled; the other crawlers start from a
root of `OtherRoots` and may visit any path after it, as in `ScanRuns`. A step of
the Walker is a step of `ScanRuns`, a step of `DirectoryWalk`, or one of each when
one call changes both: a recording that is counted (`Record`), a failed increment
(`IncrementFails`), a failed constructor (`OpenFails`), the end (`Complete`). The
counters of the run row and those of the walk are the same variables. The tree does
not change between a successful `lstat` and the upsert after it; the upsert does
not look at the tree, so such a change could as well come later.

### The command line: `CommandLine`

`Init` is every list of arguments up to a bound; the steps are the script's two
checks and one iteration of the parser's loop each. `Meaning` says what the
arguments mean without a loop: an argument is a value if the one before it is an
option that takes one and not a value itself.

### The log: `StructuredLog`

A file is the sequence of what `write(2)` appended to it. A short line and its
newline reach it in one write, at the flush; a long one in two, its newline with
the flush (libstdc++ writes a long text past the buffer). A write that fails sets
`badbit`; every later line is dropped from the file and a short one stays in the
buffer until the stream is closed. `Rotate` renames the file, and a crawler that
has it open goes on writing to it. `is_open` stays true with `badbit` set, so the
code takes no other branch then.

### The web application: `WebRequests`

A server is a launcher process that rewrites the one generated configuration
file and then becomes `php -S`. Requests follow `index.php`: three looks at the
configuration, the queries of the route, the log line, the answer. A home page is
five queries, each with a snapshot of its own; a search or a browse is one. PHP's
recursive `mkdir` looks for the first missing level and then creates that one and
those after it, one at a time; it passes a level above the last that is there
already (`PassDirectory`) and fails when the last one is, when a directory cannot
be made, or when a cleaner took the one above it. `rewritten`, `disturbed` and
`cleaned` are history variables: what befell a request.

### Rows and pages: `CatalogPages`

A path is its components, with `""` for a slash at the end and `"."` for a dot, as
`std::filesystem::absolute` leaves them. From them come the four keys of a row:
`absolute_path` (`Text`), `parent_directory_path` (`Parent`), `entry_name` (`Name`)
and `entry_type` (`Type`). `Denotes` is the entry a path leads to: the path of its
names, in their order. A name is one character, so that `LIKE` can look at the
characters of a path. `Like` computes, from the end of the pattern, the places of the
text from which the rest of the pattern fits. `ORDER BY` is the place of a row: how
many rows come before it (`Precedes`, `ListedBefore`); `LIMIT` takes the first
places. A page may be asked for any entry of the tree, any root and any row
(`Directories`).

`catalog` maps an `absolute_path` to the type of its row and the root of its run. A
step is one call of the repository: `Record` (one upsert of any crawl), `Clear`,
`Browse`, `Search`. Which entries a crawl records, and when, is left open. So the
catalogs of the model include what hidden names that are skipped, failed
recordings, truncated walks, rebuilds, crawls side by side and entries that come,
go or change their type (`Modes`) leave behind. The upsert replaces a row and
deletes none: the row of an entry that is gone stays until a `Clear`. Why a
particular crawl records what it does is the subject of `ScanRuns` and
`DirectoryWalk`.

## What the checks show

Runs that pass:

| run | asks |
|---|---|
| `scan_runs_safety` | no entry without its run; no identifier shared; a finished run claims at least its rows; a crawler that exits with 0 left its run finished with its counts, or another crawler rebuilt, or its last recording met SQLITE_BUSY; a finished run is never changed, only deleted; the crawlers implement the ledger and the view |
| `walk` | whatever was there all along, in a directory that was visited, has a row or a warning; hidden subtrees stay out; the counters equal the rows and warnings; the crawl ends |
| `session` | a successful crawl whose iterator never failed left a row or a warning for the root and for everything in the directories it had to enter, unless another crawler rebuilt; the counts of its run are those of its walk, and its stamp is only on paths it recorded |
| `session_ends` | a crawl ends even if the crawler that holds the write lock stops for good |
| `web_page` | the numbers of a home page agree when no row was erased or retyped meanwhile; a missing table shows in the first query, never half way through a page |
| `web_servers` | an unvalidated configuration is used only when the file changed during the request; a race for the log directory, two levels deep, fails no request unless a cleaner takes part or the directory may not be created |
| `log` | one file holds a crawler's lines in order and without a gap, and all of them until a write fails; a line that is not one entry comes from a cut write or from two crawlers |
| `pages` | two rows are one entry only if crawls spelled their roots differently; whatever rows the crawls left, the page of a directory lists those recorded in it under the spelling asked for, each entry once, and nothing else but the root itself; a search shows the rows that contain the phrase |
| `command_line` | a crawl runs exactly as typed; the parser gives up only over arguments that mean nothing |

Runs that find a violation, each of something the repository says:

| run | what happens |
|---|---|
| `scan_runs_exit` | two crawlers; the last upsert of one meets SQLITE_BUSY and stays active; its final UPDATE is rolled back; it exits with 0 and its run is never finished |
| `walk_vanished` | a directory removed between its visit and the increment ends the walk, which is finished as if complete |
| `web_reparse` | a launcher rewrites the configuration after `schemaValidate` and before `simplexml_load_file`: the request runs with a file nothing validated |

The first is the only silent loss besides a rebuild; a truncated walk is counted as
inaccessible once and is otherwise exact.

What a reader of the code may not expect and the properties spell out:

- The root may be missing. Its recording may meet SQLITE_BUSY like any other and is
  counted; the comment at `src/filesystem/file_system_crawler.cpp:90` says that it
  is always contained. `CatalogIsComplete` therefore says "a row or a warning".
- A hidden link is resolved twice, by `is_directory()` and by the increment. With
  links followed and a target that appears in between, the hidden subtree is
  recorded (`LateLink`). `HiddenStaysOut` says that this is the only way past a
  hidden name; counts and stamps are exact even then. The theorems hold for trees
  with such links. The tree of `walk` has none: with a seventh node for it, the
  check of `CrawlEnds` takes too long.
- `is_directory()` of a hidden link to itself throws outside every `try`: exit code
  1, the run unfinished (`HiddenCheckThrows`).
- The log may stop. A full disk once means no more lines in the file, and no other
  sign of it: `LogFollowsItsCrawler` promises a prefix.
- Requests that race for the log directory do not fail each other, however many
  levels of it are missing (`DirectoryRaceIsHarmless`): PHP 8's recursive `mkdir`
  passes the levels another has made, and the recheck finds the last one.
- A root spelled `/w/` or `/w/.` gets a row of its own beside `/w`; it is listed
  among its own entries, as `/` is (its parent is itself); nothing is listed under
  a spelling that ends in a slash (`BrowseListsTheDirectory`). A page lists the rows
  of the spelling it was asked for.
- A crawl without `--rebuild-database` deletes nothing. An entry that is gone keeps
  its row, with the type it had, and both pages go on showing it:
  `BrowseListsTheDirectory` and `SearchShowsWhatContains` speak of what was recorded,
  not of what is there.
- `%` and `_` in a search are wildcards (`SearchShowsWhatContains`).
- An option that is followed by another takes it for its value: in
  `--crawl-root --rebuild-database` there is no rebuild (`Meaning`).

### Bounds

- `ScanRuns`: two crawlers, two paths, two identifiers, one visited entry besides
  the root. Every conflict the properties speak of is between two crawlers; two
  paths let one crawler record its own while the other overwrites a shared one; two
  identifiers let each crawler open a run, before or after a rebuild. The proofs
  lift the bounds. `MaxVisits` caps the loop only. No run uses symmetry.
- `DirectoryWalk`: a tree of six nodes that holds each kind of node the loop
  distinguishes, two directories deep: the stack pops into a directory that is
  itself not exhausted. Each node is created and removed at most once (`life`).
- `CrawlSession`: the Walker and one other crawler. `session` has a root, a
  directory and a file in it, so that the Walker records, descends and pops while
  the other crawler rebuilds or stamps the same paths; `session_ends` has a hidden
  link that cannot be resolved instead of the file. `OtherVisits` keeps the other
  crawler to its root. `MaxVisits` is above what the tree can offer.
- `StructuredLog`: two crawlers, two lines each, one rotation: a line before and
  one after each fault, and a file of each name.
- `CommandLine`: up to four arguments out of every option, a word and the empty
  one: two options with their values, or one given twice.
- `CatalogPages`: two levels below `/`, four spellings of two roots, names that are a
  wildcard or differ in case only, an entry that is now a file and now a directory,
  phrases of up to two characters, page sizes below, at and above zero, and one that
  is smaller than a result.
- `WebRequests`: `web_page` has one server, as a page is read by one process, and
  two paths and two runs beside it, with a list of one run: one more than fits.
  `web_servers` has two servers, two log directories and an empty catalog, which
  configuration and log do not depend on.
- Deadlock is not checked: crawlers end, and a tree may stop changing.

### Fairness

Two properties need it. `CrawlEnds`: weak fairness of `Crawl`, the disjunction of
all steps of the walk. `WalkerEnds`: weak fairness of `WalkerStep`. A crawler is one
thread that always has a next step until it ends: inside the loop it waits for
nobody, and a statement that finds the write lock taken fails at once. The operating
system's scheduler justifies that much. Nothing is assumed of the other crawlers or
of who changes the tree: they may go on at every step or never. Each node is created
once, so the tree offers finitely many entries; a tree that grows faster than it is
read could keep a real crawl busy. A link back above itself is in no tree: the
iterator then descends until the kernel refuses the path.

## What is proved

Assumptions: `Paths` and the set of nodes are finite; the bounds are numbers;
`NoPath`, `Nobody` and `None` differ from what they stand beside; a tree's parents
and kinds are functions on its nodes; no two characters have the same code, no name
holds a slash, the tree holds the directory of each of its entries, and a root is an
absolute spelling of one of them, with a slash at its end at most
(`PagesAssumption`); `Valid` is a part of `Configurations`, and the log file of a
server has at least one directory above it; no word is an option. Nothing bounds
crawlers, paths, runs, nodes, faults, servers, configurations, log directories,
lines, rotations, arguments, the depth of a tree, phrases or page sizes.

`ScanRunsProofs`, for any number of crawlers and every combination of faults:

- `TypeCorrect`.
- `ReferencesHold`, `IdentifiersStayUnshared`, `CountsCoverRows`: from the
  inductive invariant `IInv`. None of the three is inductive alone. That counts
  cover rows needs that an open run's owner has counted them (`RowsCounted`) and
  that only the owner closes it, as its last step (`FinishedByOwner`); that needs
  distinct row identifiers, which needs that no identifier beyond the sequence is
  in use (`IdentifiersKnown`, `FutureRunsAbsent`). `RowsCounted` rests on the
  cardinality lemmas `FewerRows` and `OneMoreRow`.
- `FinishedStaysFrozen`: an action property, from `IInv` (`FrozenStep`).
- `LedgerImplemented`: every step maps to a step of `ScanLedger` or a stutter.
- `SuccessRecorded`: from `IInv` and `SInv`. A run lost without a trace would need
  that only a crawler told to rebuild deletes (`RebuildSettled`) and that a crawler
  past `begin_scan_run` holds its identifier (`IdentifierHeld`).

`ScanRunsViewProofs`: `ViewImplemented`, from `IInv` and `SchemaOrder` (who creates
an object has seen the one before it created).

`DirectoryWalkProofs`, for every finite tree and interference:

- `WalkTypeCorrect`.
- `WalkIsClosed`. The inductive invariant `WInv` accounts for what the walk owes:
  an old entry of a directory to be entered is in a directory not opened yet, or
  still to be returned by `readdir`, or being visited, or seen (`DebtCovered`);
  only directories on the stack still owe entries (`DebtOnStack`), so an empty
  stack at the end means that nothing is owed.
- `HiddenStaysHidden` and `CountsAreExact`. That a count is the size of a set needs
  that no entry is visited twice, and a skipped entry leaves no trace in the state.
  The invariant (`Account`) therefore says that there is a set of the entries the
  iterator has passed, visited or skipped: each lies in a directory that was entered
  (`Entered`), and neither is ever returned again nor is created again. An entry
  was entered because it was visited, or because it is a link that was followed
  late. Each step says what becomes of the set.

`CrawlSessionProofs`, for any tree, any other crawlers and any faults:

- `SessionIsScanRuns` and `SessionIsWalk`: each step of a session is a step or a
  stutter of either part (`Projections`), so every invariant proved of a part holds
  of the session and is cited instead of proved again.
- `CrawlLeavesCompleteCatalog` and `RunRowIsOfTheWalk`: from `FinishedWalkIsClosed`,
  `CountsMatchRows`, the invariants of `ScanRuns`, and `KInv`, which ties the parts
  together: the stage of the crawl tells the stage of the walk, and the path to be
  recorded is the one the iterator points to (`StagesAgree`); what the walk recorded
  keeps a row unless another crawler was told to rebuild (`RowsKept`); the run
  stamps nothing else (`StampsOwn`) and, once finished, has the walk's counts
  (`CountsTold`).

`StructuredLogProofs`, for any number of crawlers, lines and rotations:

- `LogTypeCorrect`, `LogFollowsEveryCrawler` and `OnlyCrawlersTearLines`, from the
  inductive invariant `LInv`: every file is sound, and a crawler's stream fits what
  it wrote last (`StreamSound`): the line it is in while the stream is good, what
  the buffer may still add once it is bad (`Fits`). An appended fragment that fits
  keeps its file sound (`AppendKeepsSound`) and the other crawlers' streams
  (`OthersStaySound`).

`CommandLineProofs`, for command lines of any length:

- `CommandLineTypeCorrect`: the index stays within the arguments.
- `CommandLineReadsInOrder`: the inductive invariant `ReadsInOrder`. The argument at
  the index is never a value, everything before it is well-formed, and what was set
  so far is what the arguments before the index mean (`MeaningSoFar`).
- `CommandLineCrawlsAsTyped` and `CommandLineRefusesDeservedly` follow: at the end of
  the loop "so far" is everything, and where the loop stops everything before was
  in order. `IsValue` is a recursive function; that it is the function of its
  equation is shown from an explicit witness (`IsValueStep`).

`CatalogPagesProofs`, for trees of any depth, any spellings, phrases and page sizes:

- The invariants, shown in the lemmas `RowsComeFromCrawls` and
  `PagesAreCutFromRows`: each row lies at or below the root of its run, as that crawl
  spells it (`RowsOfCrawls`), and a page is what its query selects (`PageOfRows`).
  They say little themselves; the three theorems are about the operators.
- `OneRowForEachSpelling`: what a walk returns below one root denotes different
  entries (`EntryDenotes`, `OneRowPerEntryOfACrawl`).
- `SearchIsComplete`: `LIKE` between two `%` is inclusion when the phrase has no
  wildcard, and follows from it always (`LikeWhatIncludes`, `IncludesWhatIsLike`).
  `LikeEquation` shows that the recursion of `Like` satisfies its equation: the
  cuts of a text by a pattern are a witness. A name is a part of its path's text
  (`NameIsInText`), so the second `LIKE` of the query adds no entry.
- `BrowseIsComplete`: the order of a page is total, as two rows of one parent have
  different names (`NamesDiffer`), so that the places of rows are a bijection onto
  0, 1, 2 and so on (`PlacesAreABijection`) and a limit cuts off the last ones.
  A row is listed under the text of its parent, and this must be how its crawl
  spells the directory the entry lies in, whichever of the directory, its siblings
  and its root have rows: the parent of what a walk returns is its root or is
  returned by the same walk (`ParentBelow`), a crawl spells no entry twice
  (`OneSpelling`), and the parent denotes the entry's directory unless the row is a
  root that does not end in a name (`ParentIsDirectory`, `OtherRowsAreRoots`).

`WebRequestsProofs`. The frame lemma `ServersMoveAlone` says once what a server's
step leaves alone; every proof below treats the server that moves and the others
apart.

- `WebTypeCorrect`.
- `ConfigurationsAreValidated`: `used` says nothing about the steps before it is
  set, so `LoadSound` adds that, while the file does not change, the validated
  document is what the file holds.
- `PagesAreNotCutShort`: `TablesInv` adds the order in which tables appear.
- `RacesAreHarmless`: an action property. `RInv` says that an undisturbed request
  never goes beyond the first missing level, whoever else creates levels below it,
  so that its `mkdir` fails only when no level is missing, which the recheck finds.
- `PagesReadForward`: `PInv` says after each query what still covers the number
  of entries: all rows, then the parts counted so far and the rows of the types
  not counted yet. It rests on `PartsMakeTheWhole` (each row has one type) and
  `CatalogGrows` (nothing counted shrinks under an undisturbed page).

The induction the last two need is that a set of numbers has a least one
(`NatHasLeast`); it follows from the well-foundedness of strict inclusion among
finite sets. The library's induction rule takes an operator as a parameter, which
the provers cannot instantiate.

Only model-checked: `CrawlEnds` and `WalkerEnds`, as liveness is out of the prover's
reach. Every other property of the runs that pass is a theorem. The violations are
counterexamples and need no proof.

## Not modelled

- Columns of an entry other than the four keys and the run: sizes, times, modes,
  owners and link texts are data that no property tells apart.
- The text of a log line and its copy on standard output.
- The web launcher's option loop and the installation of what it depends on:
  sequential.
- `format` and the trimming of a request's parameters; HTML and XML rendering,
  styles, the wiki's content, build and test tooling: they format or build, and
  keep no state.
- Loss of power: SQLite's durability is taken as given; killing a process is
  modelled.
- Configurations that name different catalogs: a running server serves whatever
  database the last launcher wrote.
- A build directory removed in the middle of a launch: the launcher then ends
  without writing.
- Links that lead back above themselves: how far the iterator descends depends on a
  limit of the kernel.

## Order of work

The catalog and its crawlers came first, as everything else reads what they write;
then the ledger, the walk, the view and the web requests; then the composition of
walk and crawler, the log, the pages and the command line. What could follow: a
symbolic link back into the tree with a limit on the depth, two catalogs behind
servers that outlive a relaunch, and names of more than one character.
