SPECIFICATION Spec
CONSTANTS
    Words = {"tank", "vol", "other", "node", "a", "/", "-", ":"}
    VolumeIds <- Plain
    NodeIds <- Nodes
    Colon = ":"
    MaxRestarts = 1
INVARIANTS
    TrackingAgrees
PROPERTIES
    ImplementsAttachments
