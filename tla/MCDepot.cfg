SPECIFICATION Spec
CONSTANTS
    Contents <- MCContents
    BlobMagic <- MCBlobMagic
    CompressedMagic <- MCCompressedMagic
    KeyWidth <- MCKeyWidth
    Unpack <- MCUnpack
    Reader = {r1, r2}
    NoReader = NoReader
    Cell <- MCCell
    Dat <- MCDat
    Decrypt <- MCDecrypt
    Inflate <- MCInflate
    BlockSize = 2
    MaxU32 = 7
    MaxU64 = 9
    Tables <- MCTables
    Request <- MCRequest
    Word <- MCWord
    Empty = ""
    Unsafe = {".."}
    Strip <- MCStrip
    NoParent = NoParent
    Manifests <- MCManifests
    TableIn <- MCTableIn
    ManifestsIn <- MCManifestsIn
CHECK_DEADLOCK FALSE
INVARIANTS
    BlobReadRight
    ReadIsExact
    FailureHasCause
    PathsAreRight
    
    RejectedWithReason
