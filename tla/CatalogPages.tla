--------------------------- MODULE CatalogPages ----------------------------
(***************************************************************************)
(* From the spelling of a crawl root to the rows of a page: the keys       *)
(* create_file_system_entry_record gives to entries, and the browse and    *)
(* search queries of the web application over them.  A step is one call of *)
(* the repository, and any crawl makes it.  Which entries a crawl records, *)
(* and when, is left open: it may skip hidden names, fail at an entry, end *)
(* early, start anew or run beside another, and entries come, go and       *)
(* change meanwhile (DirectoryWalk and ScanRuns model why).                *)
(*                                                                         *)
(* A path is its components: <<>> is "/", a last component "" is a slash   *)
(* at the end.  A name is one character, so that the text of a path is its *)
(* characters: LIKE looks at them.                                         *)
(***************************************************************************)
EXTENDS Integers, FiniteSets, SequencesExt

CONSTANTS Modes,     \* path -> what st_mode & S_IFMT of the entry may be
          Roots,     \* the roots crawls are started with, made absolute
          Order,     \* the characters, in the order of their codes
          Lower,     \* ASCII lower case of the characters
          Phrases,   \* what may be searched for
          PageSizes  \* values of defaultPageSize, (int) of any text

Tree == DOMAIN Modes  \* the entries there may be
TypeTexts == [S_IFREG |-> "file", S_IFDIR |-> "directory",
              S_IFLNK |-> "symbolic_link", S_IFCHR |-> "character_device",
              S_IFBLK |-> "block_device", S_IFIFO |-> "named_pipe",
              S_IFSOCK |-> "socket"]

\* The places of the names of a path: the end of a path that ends in a slash is
\* no name, and neither is a dot.
Names(path) == {i \in DOMAIN path : path[i] \notin {"", "."}}

\* The entry a path leads to: the path of its names.
Denotes(path) ==
    [k \in 1 .. Cardinality(Names(path)) |->
       path[CHOOSE i \in Names(path) :
              Cardinality({j \in Names(path) : j <= i}) = k]]

Characters == ToSet(Order)

ASSUME PagesAssumption ==
    /\ Order \in Seq(Characters)
    /\ \A i, j \in DOMAIN Order : Order[i] = Order[j] => i = j
    /\ "/" \in Characters /\ "" \notin Characters
    /\ Phrases \subseteq Seq(Characters)
    /\ PageSizes \subseteq Int
    /\ IsFiniteSet(Tree) /\ IsFiniteSet(Roots)
    /\ \A path \in Tree : /\ path \in Seq(Characters \ {"/", "."})
                          /\ Modes[path] \subseteq DOMAIN TypeTexts
                          /\ path # <<>> => Front(path) \in Tree
    /\ \A path \in Roots :
           /\ path \in Seq((Characters \ {"/"}) \cup {""})
           /\ \A i \in DOMAIN path : path[i] = "" => i > 1 /\ i = Len(path)
           /\ Denotes(path) \in Tree

VARIABLES catalog,  \* absolute_path -> its entry_type, and the
                    \* crawl_root_directory_path of its scan run
          page      \* the page served since the last write, at most one:
                    \* serving it changes nothing else

vars == <<catalog, page>>

rows == DOMAIN catalog
Type(path) == catalog[path].type
Root(path) == catalog[path].root

NoPage == [route |-> "home"]

-----------------------------------------------------------------------------
(* create_file_system_entry_record.                                        *)

\* A slash before each name, and one at the end if that is spelled.
Text(path) ==
    IF path = <<>> THEN <<"/">>
    ELSE [i \in 1 .. 2 * Len(path) - (IF Last(path) = "" THEN 1 ELSE 0) |->
            IF i % 2 = 1 THEN "/" ELSE path[i \div 2]]

\* Mutant: the parent is looked for above a slash at the end and a dot.
ParentOfEntry(path) ==
    IF Denotes(path) = <<>> THEN <<>> ELSE Front(Denotes(path))

\* path::parent_path: "/" is its own parent, "/w/" has the parent "/w".
Parent(path) == IF path = <<>> THEN <<>> ELSE Front(path)

\* path::filename; when it is empty the whole path is the name.
Name(path) == IF path = <<>> \/ Last(path) = "" THEN Text(path)
              ELSE <<Last(path)>>

\* What the paths below a root start with.
Stem(root) == IF root # <<>> /\ Last(root) = "" THEN Front(root) ELSE root

\* directory_entry::path: the root as given, "/" and a name for each level.
EntryPath(root, path) ==
    Stem(root) \o SubSeq(path, Len(Denotes(root)) + 1, Len(path))

\* Mutant: the walk also returns the "." readdir finds in the root.
BelowAndDot(root) ==
    {root \o <<".">>} \cup
    {EntryPath(root, path) : path \in {p \in Tree \ {Denotes(root)} :
                                         IsPrefix(Denotes(root), p)}}

\* What the walk of crawl may return.
Below(root) ==
    {EntryPath(root, path) : path \in {p \in Tree \ {Denotes(root)} :
                                         IsPrefix(Denotes(root), p)}}

-----------------------------------------------------------------------------
(* The queries.                                                            *)

Code(character) == CHOOSE k \in DOMAIN Order : Order[k] = character

\* The binary order of texts.
Precedes(s, t) ==
    \E k \in 1 .. Len(s) + 1 :
        /\ k <= Len(t)
        /\ \A i \in 1 .. k - 1 : s[i] = t[i]
        /\ k <= Len(s) => Code(s[k]) < Code(t[k])

\* Mutant: LIKE minds the case (PRAGMA case_sensitive_like).
SameCharacterExactly(c, d) == c = d

SameCharacter(c, d) == Lower[c] = Lower[d]

\* What a character of a pattern stands for, the text from i to k - 1: % for
\* any text and _ for any character.
StandsFor(character, text, i, k) ==
    \/ character = "%" /\ i <= k
    \/ /\ k = i + 1
       /\ character = "_" \/ SameCharacter(text[i], character)

\* SQLite's LIKE: the places of the text from which on the rest of the pattern,
\* from j on, stands for the rest of the text.
Like(text, pattern) ==
    LET from[j \in 1 .. Len(pattern) + 1] ==
            IF j > Len(pattern) THEN {Len(text) + 1}
            ELSE LET next == from[j + 1]
                 IN  {i \in 1 .. Len(text) + 1 :
                        \E k \in next : StandsFor(pattern[j], text, i, k)}
    IN  1 \in from[1]

Pattern(phrase) == <<"%">> \o phrase \o <<"%">>

Found(phrase, type) ==
    {path \in rows :
        /\ type \in {"", Type(path)}
        /\ \/ phrase = <<>>
           \/ Like(Text(path), Pattern(phrase))
           \/ Like(Name(path), Pattern(phrase))}

\* LIMIT, for rows that have a place in a total order, from 0 on; a negative
\* limit is none.
FirstOf(place, size) ==
    LET count == Cardinality(DOMAIN place)
    IN  [k \in 1 .. (IF size \in 0 .. count THEN size ELSE count) |->
           CHOOSE p \in DOMAIN place : place[p] = k - 1]

\* ORDER BY absolute_path ASC
PlacesByPath(paths) ==
    [p \in paths |->
       Cardinality({q \in paths : Precedes(Text(q), Text(p))})]

TypeOrder == <<"block_device", "character_device", "directory", "file",
               "named_pipe", "socket", "symbolic_link">>

\* ORDER BY entry_type DESC, entry_name ASC
TypeRank(path) == CHOOSE k \in DOMAIN TypeOrder : TypeOrder[k] = Type(path)

ListedBefore(q, p) == \/ TypeRank(q) > TypeRank(p)
                      \/ /\ TypeRank(q) = TypeRank(p)
                         /\ Precedes(Name(q), Name(p))

PlacesByTypeAndName(paths) ==
    [p \in paths |-> Cardinality({q \in paths : ListedBefore(q, p)})]

-----------------------------------------------------------------------------
Init == /\ catalog = <<>>
        /\ page = NoPage

\* record_file_system_entry: inserts the row or replaces its columns.
Record(root, path, mode) ==
    /\ catalog' = [p \in rows \cup {path} |->
                     IF p = path THEN [type |-> TypeTexts[mode], root |-> root]
                     ELSE catalog[p]]
    /\ page' = NoPage

Clear == /\ catalog' = <<>>
         /\ page' = NoPage

\* FrontController::handle, the route "browse".
Browse(directory, size) ==
    /\ page = NoPage
    /\ page' = [route |-> "browse", directory |-> directory, size |-> size,
                shown |-> FirstOf(PlacesByTypeAndName(
                                      {p \in rows : Parent(p) = directory}),
                                  size)]
    /\ UNCHANGED catalog

\* FrontController::handle, the route "search".
Search(phrase, type, size) ==
    /\ page = NoPage
    /\ page' = [route |-> "search", phrase |-> phrase, type |-> type,
                size |-> size,
                shown |-> FirstOf(PlacesByPath(Found(phrase, type)), size)]
    /\ UNCHANGED catalog

\* What the user names, or follows a link to.
Directories == Tree \cup Roots \cup rows

Next == \/ \E root \in Roots :
               \E path \in Below(root) \cup {root} :
                   \E mode \in Modes[Denotes(path)] : Record(root, path, mode)
        \/ Clear
        \/ \E size \in PageSizes :
               \/ \E directory \in Directories : Browse(directory, size)
               \/ \E phrase \in Phrases, type \in {"", "file", "directory"} :
                      Search(phrase, type, size)

Spec == Init /\ [][Next]_vars

-----------------------------------------------------------------------------
(* What must hold of the pages.                                            *)

Shown == ToSet(page.shown)
PageIsFull == Len(page.shown) = page.size

\* Two rows are the same entry only because crawls spelled their roots
\* differently (docs/database-schema.md: each entry becomes one row).
OneRowPerSpelling ==
    \A p, q \in rows : p # q /\ Denotes(p) = Denotes(q) => Root(p) # Root(q)

\* How the crawl that recorded the row spells directories; of a root it
\* knows only what is left without its last component.
Spellings(path) == IF path = Root(path) THEN {Front(path)}
                   ELSE Below(Root(path)) \cup {Stem(Root(path))}

\* The page of a directory lists what crawls that spell it this way recorded
\* in it, each entry once, also one that is gone since: up to the page size,
\* and those that come first.  It lists nothing else, except that a root whose
\* spelling ends in a slash or a dot, or is "/", is listed among its own
\* entries (browseDirectory).
BrowseListsTheDirectory ==
    page.route = "browse" =>
        LET directory == page.directory
            inside == {p \in rows : /\ Denotes(p) # <<>>
                                    /\ Front(Denotes(p)) = Denotes(directory)
                                    /\ directory \in Spellings(p)}
            itself == {p \in rows : Denotes(p) = Denotes(directory)}
        IN  /\ Cardinality(Shown) = Len(page.shown)
            /\ Shown \ itself \subseteq inside
            /\ \A p \in Shown \cap itself : p = Root(p)
            /\ \A p, q \in Shown \ itself : Denotes(p) = Denotes(q) => p = q
            /\ \A p \in inside \ Shown :
                   PageIsFull /\ \A q \in Shown : ListedBefore(q, p)

Includes(text, phrase) ==
    \E k \in 0 .. Len(text) - Len(phrase) :
        \A i \in DOMAIN phrase : Lower[text[k + i]] = Lower[phrase[i]]

\* A search shows what contains the phrase, whatever its case; only a phrase
\* with a % or a _ also shows other entries; and a full page leaves out the
\* entries whose paths come last (searchEntries).
SearchShowsWhatContains ==
    page.route = "search" =>
        /\ \A path \in rows :
               /\ Includes(Text(path), page.phrase)
               /\ page.type \in {"", Type(path)}
               => \/ path \in Shown
                  \/ /\ PageIsFull
                     /\ \A q \in Shown : Precedes(Text(q), Text(path))
        /\ ToSet(page.phrase) \cap {"%", "_"} = {} =>
               \A path \in Shown : Includes(Text(path), page.phrase)

=============================================================================
