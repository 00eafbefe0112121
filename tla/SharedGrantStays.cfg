\* A shared grant in the personal namespace is withdrawn.
SPECIFICATION FairSpec
CONSTANTS
    Teams = {team}
    Home = home
    Roles = {"editor", "admin"}
    NoRole = NoRole
    NoBinding = NoBinding
    SharedHome = TRUE
    MaxUsers = 1
    MaxEdits = 2
    MaxFaults = 0
PROPERTIES
    GrantsConverge
CHECK_DEADLOCK FALSE
