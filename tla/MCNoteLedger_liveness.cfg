SPECIFICATION FairSpec
CONSTANTS
    Notes = {n1, n2}
    Proofs = {p1, p2}
    Sizes = {1}
    Overhead = 1
    Ttls = {1, 2}
    Views = {1, 2}
    ProofLifetime = 2
    MaxNotes = 2
    MaxBytes = 4
    MaxChallenges = 2
    ReapLimit = 1
    Refusable = {2, 4, 6, 7, 8}
    Horizon = 3
PROPERTIES
    KeepsPromise
    EveryChargeReturns
