SPECIFICATION Spec
CONSTANTS
    Notes = {n1, n2, n3}
    Proofs = {p1, p2, p3}
    Sizes = {1, 3}
    Overhead = 1
    Ttls = {1, 2}
    Views = {2}
    ProofLifetime = 2
    MaxNotes = 2
    MaxBytes = 6
    MaxChallenges = 2
    ReapLimit = 1
    Refusable = {1, 2, 3, 4, 5, 6, 7, 8}
    Horizon = 3
SYMMETRY KeySymmetry
INVARIANTS
    Conservation
    LedgerAgreement
    WithinBudget
    ViewsAccountedFor
    ProofPaysOnce
PROPERTIES
    LostForCause
