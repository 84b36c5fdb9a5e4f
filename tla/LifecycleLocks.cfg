CONSTANTS
    Requests = {r1, r2, r3}
    Volumes = {v1, v2}
    EntryIds = {e1, e2}
    NoEntry = NoEntry
SPECIFICATION FairSpec
INVARIANTS
    LockInvariant
PROPERTIES
    ImplementsVolumeMutex
    CancelledWaiterReturns
    WaiterServed
