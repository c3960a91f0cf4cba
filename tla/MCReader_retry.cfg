SPECIFICATION Spec
CONSTANTS
    Calls = {c1, c2}
    Links = {l1}
    Protected = {l1}
    Views = 1
    Urls = {u1}
    Limit = 2
INVARIANTS
    ReadyCanOpen
