SPECIFICATION Spec
CONSTANTS
    IDs = {1, 2, 3, 4, 5}
    PageSizes = {0, 1, 2, 3}
    MaxChanges = 3
INVARIANTS
    VolumesListedOnce
    SnapshotsMissedBounded
CHECK_DEADLOCK FALSE
