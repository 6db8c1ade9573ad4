SPECIFICATION Spec
CONSTANTS
    driveM = driveM
    folder = folder
    MountPoint <- MCMountPoint
    NoMountPoint = NoMountPoint
    MaxQueued = 2
INVARIANT
    PlaySearchesTheMount
