SPECIFICATION FairSpec
CONSTANTS
    ProviderCount = 2
    Callers = {c1, c2}
    MaxBackoff = 2
    MaxCounted = 3
INVARIANTS
    TypeOK
    FailoverComplete
PROPERTIES
    CallsShrink
    BackoffEnds
