SPECIFICATION Spec
CONSTANTS
    Absent = Absent
    Garbled = Garbled
    Malformed = {malformed}
    NoCrc = NoCrc
    NoPath = NoPath
    MaxVersion = 2
    MaxBytes = 3
    MaxChanges = 2
    FileId <- MCAll
    Path <- MCPath
    Sorted <- MCSorted
    Name <- MCName
    Directory <- MCDirectory
    Folder <- MCFolder
    Contents <- MCContents
    Keyed <- MCKeyed
    Disks <- MCDisks
    Changing <- MCChanging
    Builds <- MCBuilds
INVARIANTS
    ReadyExactly
    LoadableIsReady
    AncestryComplete
    RevisionIsTheOneAskedFor
    ReadyLoads
