\* Outdated caches, edits, a re-created User and a pass cut short.
SPECIFICATION FairSpec
CONSTANTS
    Teams = {team}
    Home = home
    Roles = {"editor", "admin"}
    NoRole = NoRole
    NoBinding = NoBinding
    SharedHome = FALSE
    MaxUsers = 2
    MaxEdits = 2
    MaxFaults = 1
PROPERTIES
    PersonalNamespaceKept
    GrantsConverge
    DisabledLosesGrants
    
CHECK_DEADLOCK FALSE
