SPECIFICATION RSpec
CONSTANTS
    Volumes = {v1}
    Targets = {t1, t2}
    SCSIDevices = {sda, sdb, sdc}
    NVMeDevices = {nvme1n1, nvme2n1}
    None = None
    Worlds <- AloneSingle
    IQNPrefixes = {}
    NVMeConcurrency = 1
    MaxFaults = 2
    Scans = {"loop", "reconnect"}
    ReadOnlyVolumes = {}
    CooldownChecks = 1
    Multipath = TRUE
    v1 = v1
    v2 = v2
SYMMETRY RecoverySymmetry
INVARIANTS
    OneLiveWriter
