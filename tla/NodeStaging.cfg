SPECIFICATION Spec
CONSTANTS
    Volumes = {v1, v2}
    Targets = {t1, t2}
    SCSIDevices = {sda, sdb}
    NVMeDevices = {nvme1n1, nvme2n1, nvme3n1, nvme4n1}
    None = None
    Worlds <- Mixed
    IQNPrefixes = {}
    NVMeConcurrency = 1
    MaxFaults = 2
    v1 = v1
    v2 = v2
SYMMETRY NodeSymmetry
INVARIANTS
    SingleWriterExclusive
    StagedOnOwnSession
PROPERTIES
    StageKeepsSession
    OwnSessionOnly
