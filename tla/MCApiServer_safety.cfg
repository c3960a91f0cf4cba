SPECIFICATION Spec
CONSTANTS
    Requests = {r1, r2, r3}
    Notes = {n1}
    Proofs = {p1}
    Ttls = {1}
    Views = {2}
    MaxInFlight = 2
    Controls = 1
    StaticSlots = 1
    Horizon = 1
SYMMETRY RequestSymmetry
INVARIANTS
    BuffersBounded
    OneRetrievalPerOpening
    ConfirmedOncePerProof
PROPERTIES
    RecipientsNotCrowdedOut
