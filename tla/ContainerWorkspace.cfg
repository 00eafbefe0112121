\* A new, a re-used and a taken name, with one or two events on top.
SPECIFICATION Spec
CONSTANTS
    None = None
    Foreign = Foreign
    Starts <- MCStarts
PROPERTIES
    ForeignSecretNotAdopted
    WorkloadSettles
    StatusTruthful
    DeletionCompletes
CHECK_DEADLOCK FALSE
