SPECIFICATION Spec
CONSTANTS
    Handlers = {h1, h2}
    Requests = {r1, r2}
    Names = {a, b, l}
    UUIDs = {u1, u2, u3, u4}
    None = None
    Worlds <- Everything
    MaxFaults = 3
    r1 = r1
    r2 = r2
    a = a
    b = b
    l = l
SYMMETRY ProvisionSymmetry
INVARIANTS
    BoundVolumeUsable
    NoSilentOrphan
PROPERTIES
    ExposedAfterOwned
    RetainedIsKept
    OwnedStorageRemovedByOwner
CHECK_DEADLOCK FALSE
