\* Users against one pass at a time: two edits, one of them possibly a
\* deletion followed by a re-creation.
SPECIFICATION Spec
CONSTANTS
    NoIdentity = NoIdentity
    BootstrapOptIn = TRUE
    RequestRatchets = FALSE
    MaxEpoch = 1
    MaxDeletes = 1
    MaxVMs = 2
    MaxEdits = 2
    MaxFaults = 0
INVARIANTS
    IdentityInvariant
    SecretsWithinEpoch
    AgentGenerationBound
PROPERTIES
    EpochNeverRollsBack
    SecretNamesBinding
    ResetOutlivesVM
    AgentGenerationFresh
    RefinesRegister
CHECK_DEADLOCK FALSE
