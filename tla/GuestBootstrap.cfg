\* Two keys, five Images; two events, and every declaration of resources.
SPECIFICATION Spec
CONSTANTS
    None = None
    Keys = {k1, k2}
    InlineMax = 2
    Workspaces <- MCWorkspaces
    Usual <- MCUsual
    Images <- MCImages
    MaxEvents = 2
PROPERTIES
    VMSettles
    KeysFollow
CHECK_DEADLOCK FALSE
