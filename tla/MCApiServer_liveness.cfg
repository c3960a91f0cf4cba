SPECIFICATION FairSpec
CONSTANTS
    Requests = {r1, r2}
    Notes = {n1}
    Proofs = {p1}
    Ttls = {1}
    Views = {2}
    MaxInFlight = 2
    Controls = 1
    StaticSlots = 1
    Horizon = 1
PROPERTIES
    RequestsEnd
