SPECIFICATION Spec
CONSTANTS
    p1 = p1
    p2 = p2
    p3 = p3
    Procs = {p1, p2, p3}
    Notes = {n1, n2}
    Proofs = {c1, c2}
    Ttls = {1}
    Views = {2}
    Casts <- MCCasts
    Inputs <- MCInputs
    Passphrases = {"", "word", "typo"}
    Folded <- MCFolded
    TextNames <- MCTextNames
    Others = 1
CHECK_DEADLOCK FALSE
INVARIANTS
    SuccessIsTrue
    OneRetrievalPerCommand
    AskedOnlyToOpen
    CollidesOnlyWithOthers
PROPERTIES
    NeverOverwritten
    CommandsEnd
