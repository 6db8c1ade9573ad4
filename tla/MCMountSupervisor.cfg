SPECIFICATION Spec
CONSTANTS
    driveM = driveM
    folder = folder
    MountPoint <- MCMountPoint
    NoMountPoint = NoMountPoint
    MaxQueued = 2
INVARIANTS
    MountFitsWorker
    ButtonsFit
PROPERTIES
    OrderlyEndIsExpected
    UnmountCompletes
    CloseCompletes
