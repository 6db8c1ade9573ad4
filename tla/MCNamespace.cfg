SPECIFICATION Spec
CONSTANTS
    Root = Root
    n1 = n1
    n2 = n2
    n3 = n3
    NoNode = NoNode
    Node <- MCNode
    lowerA = lowerA
    upperA = upperA
    b = b
    keyA = keyA
    keyB = keyB
    Spelling = {lowerA, upperA, b}
    Fold <- MCFold
    NoName = NoName
    Paths <- MCPaths
    PageSize = 2
    PageCount = 0
    Quota = 0
    NoOverlay = NoOverlay
SYMMETRY Symmetry
INVARIANTS
    WellPlaced
    NoCycles
PROPERTIES
    NothingStranded
    DeletionRemembered
    DeletedStaysDeleted
    RefinesNamespace
