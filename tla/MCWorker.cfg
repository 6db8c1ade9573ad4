SPECIFICATION Spec
CONSTANTS
    engine = engine
    client = client
    mod = mod
    Version <- MCVersion
    Files <- MCFiles
    FileSystemDll <- MCFileSystemDll
    SteamDll <- MCSteamDll
    Commands <- MCCommands
INVARIANTS
    NothingLeftMounted
    LaterDepotsWin
PROPERTIES
    StopIsHeard
    RefinesWorkerProtocol
