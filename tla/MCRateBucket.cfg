SPECIFICATION Spec
CONSTANTS
    HalfRate = 3
    Steps = {500}
    Setbacks = {500}
    Horizon = 7000
    MaxBack = 1000
INVARIANTS
    WindowBound
    RefusedForCause
