SPECIFICATION Spec
CONSTANTS
    Calls = {c1, c2}
    Packages = {k1}
    Limit = 2
INVARIANTS
    ConfigurationIsReachable
