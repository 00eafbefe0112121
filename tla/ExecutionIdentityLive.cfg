\* One user write against crashes, failing calls and guest crashes, and
\* progress in spite of them.
SPECIFICATION FairSpec
CONSTANTS
    NoIdentity = NoIdentity
    BootstrapOptIn = TRUE
    RequestRatchets = TRUE
    MaxEpoch = 1
    MaxDeletes = 0
    MaxVMs = 2
    MaxEdits = 1
    MaxFaults = 1
PROPERTIES
    RevocationAcknowledged
    ResetCompletes
