SPECIFICATION RFairSpec
CONSTANTS
    Volumes = {v1}
    Targets = {}
    SCSIDevices = {sda, sdb, sdc}
    NVMeDevices = {nvme1n1, nvme2n1}
    None = None
    Worlds <- Alone
    IQNPrefixes = {}
    NVMeConcurrency = 1
    MaxFaults = 2
    Scans = {"loop", "reconnect"}
    ReadOnlyVolumes = {}
    CooldownChecks = 2
    Multipath = FALSE
    v1 = v1
    v2 = v2
PROPERTIES
    BrokenMountReleased
    ReadOnlyHealed
