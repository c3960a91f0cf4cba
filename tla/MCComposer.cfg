SPECIFICATION FairSpec
CONSTANTS
    Calls = {c1, c2}
    Packages = {k1, k2}
    Limit = 1
INVARIANTS
    BusyMeansOneOperation
    LinkIsTheSessions
PROPERTIES
    InactivePageForgets
