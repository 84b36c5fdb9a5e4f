SPECIFICATION CFairSpec
CONSTANTS
    Handlers = {h1, h2}
    Requests = {r0, r1}
    Names = {src, dst, leg}
    UUIDs = {u0, u1, u2}
    None = None
    Worlds <- Cloning
    MaxFaults = 1
    Granule = 2
    r0 = r0
    r1 = r1
    src = src
    dst = dst
    leg = leg
    u0 = u0
INVARIANTS
    CloneUsable
    UUIDsDistinct
PROPERTIES
    CloneServed
    AdoptingRequestServed
    DeletionCompletes
CHECK_DEADLOCK FALSE
