\* Two events, neither a fault: the first Workspace is deleted after its VM
\* was made and before its guest first started, and another is created.
SPECIFICATION Spec
CONSTANTS
    Names = {a, b}
    Disks = {1, 2}
    MountSets <- MCMountSets
    EditSets <- MCEditSets
    NoClaim = NoClaim
    MaxEvents = 2
INVARIANT SingleConsumer
CHECK_DEADLOCK FALSE
