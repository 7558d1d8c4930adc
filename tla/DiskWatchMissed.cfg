SPECIFICATION Spec
CONSTANTS
    Folders = {r1}
    Files = {f1, f2}
    MaxEdits = 1
    MaxSaves = 1
    MaxOpens = 1
    ReloadFails = FALSE
PROPERTY AllChangesArePickedUp
CHECK_DEADLOCK FALSE
