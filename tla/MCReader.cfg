SPECIFICATION FairSpec
CONSTANTS
    Calls = {c1, c2}
    Links = {l1, l2}
    Protected = {l1}
    Views = 2
    Urls = {u1}
    Limit = 2
INVARIANTS
    NothingLingers
    ContentIsTheWanted
    RetrievalAskedOnce
    PhaseMeansCall
PROPERTIES
    OnlyTheUserExtends
    InactivePageForgets
