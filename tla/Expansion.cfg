CONSTANTS
    MinVolumeSize = 4
    MaxVolumeSize = 12
    MaxInt64 = 17
    FileAlignment = 4
    BlockAlignment = 2
    None = None
    Handlers = {h1}
    Ranges <- BoundaryRanges
    RefusesShrink = FALSE
    MaxFaults = 3
SPECIFICATION Spec
INVARIANTS
    TypeOK
    ResponseInRange
    PromiseKept
    SuccessReconciled
    
