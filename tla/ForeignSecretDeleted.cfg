\* A re-used name, whose earlier Workspace and its Secret the cache still
\* shows; the user takes the name of the Secret once it is collected.
SPECIFICATION Spec
CONSTANTS
    None = None
    Foreign = Foreign
    Starts <- MCReusedName
PROPERTY
    ForeignSecretKept
CHECK_DEADLOCK FALSE
