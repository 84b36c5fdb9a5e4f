SPECIFICATION FairSpec
CONSTANTS
    Configs <- InUse
    Defaults <- DefaultConfig
INVARIANTS
    AppliedOnce
    OneLateCall
PROPERTIES
    Returns
CHECK_DEADLOCK FALSE
