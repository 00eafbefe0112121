\* An administrator and a fault against the three writes.
SPECIFICATION FairSpec
CONSTANTS
    Methods = {"local", "both", "oidc", "disabled"}
    MaxUsers = 2
    MaxConfigs = 2
    MaxEdits = 1
    MaxFaults = 1
INVARIANTS
    CredentialsBeforeAccess
PROPERTIES
    PasswordKept
    AccountsNotPromoted
    BootstrapCompletes
    ReportsAdministrator
