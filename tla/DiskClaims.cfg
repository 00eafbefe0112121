\* Two Workspaces and two disks.  Three events are enough for a name to be
\* re-used while its disk is wanted, or for a fault during a reclaim.
SPECIFICATION FairSpec
CONSTANTS
    Names = {a, b}
    Disks = {1, 2}
    MountSets <- MCMountSets
    EditSets <- MCEditSets
    NoClaim = NoClaim
    MaxEvents = 3
INVARIANTS
    ClaimInvariant
    LiveConsumersExclusive
    NoCircularWait
PROPERTIES
    ClaimNeverStolen
    ReclaimCompletes
CHECK_DEADLOCK FALSE
