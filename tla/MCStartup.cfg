SPECIFICATION FairSpec
CONSTANTS
    NaN = NaN
    Worlds <- MCWorlds
CHECK_DEADLOCK FALSE
INVARIANTS
    TypeOK
    StartsAsConfigured
    ConfiguredChainOnly
    ReadyAfterStartup
PROPERTIES
    StartupSucceeds
