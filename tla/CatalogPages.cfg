\* A small tree, crawled under several spellings of its roots.
CONSTANTS
    Modes <- MCModes
    Roots <- MCRoots
    Order <- MCOrder
    Lower <- MCLower
    Phrases <- MCPhrases
    PageSizes <- MCPageSizes
SPECIFICATION Spec
INVARIANTS
    OneRowPerSpelling
    BrowseListsTheDirectory
    SearchShowsWhatContains
CHECK_DEADLOCK FALSE
