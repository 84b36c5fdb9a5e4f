SPECIFICATION FairSpec
CONSTANTS
    c1 = c1
    c2 = c2
    None = None
    Volumes <- BothVolumes
    Protocol <- Protocols
    Contents = {c1, c2}
    Name <- SameName
    SourceOf <- Sources
    Stamps = {0, 1, 2}
    MaxFaults = 3
    MaxRemovals = 2
INVARIANTS
    ReadySnapshotKept
    DeletedIsGone
PROPERTIES
    SnapshotTaken
    DeletionCompletes
CHECK_DEADLOCK FALSE
