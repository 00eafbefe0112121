\* Stops, reboots and resets, a pass cut short and a guest that crashes.
SPECIFICATION FairSpec
CONSTANTS
    MaxEdits = 2
    MaxFaults = 1
    MaxCrashes = 1
INVARIANTS
    VMGenerationCurrent
    SetupHasInstaller
    AnswerFileRemoved
    GPUStable
PROPERTIES
    ReadyWithoutCD
    EventuallyReady
    RequestsServed
