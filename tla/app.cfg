\* Every edge case of the settings, alone and in pairs, under three environments.
CONSTANTS
    Settings <- MCSettings
    Environments <- MCEnvironments
SPECIFICATION FairSpec
INVARIANTS
    ValidConfigRuns
    NothingLeftBehind
PROPERTY
    ShutdownReturns
