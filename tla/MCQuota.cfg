SPECIFICATION Spec
CONSTANTS
    Root = Root
    n1 = n1
    n2 = n2
    n3 = n3
    NoNode = NoNode
    Node <- MCNode
    a = a
    b = b
    Spelling = {a, b}
    Fold <- MCFold
    NoName = NoName
    Paths <- MCPaths
    PageSize = 2
    PageCount = 3
    Quota = 7
    NoOverlay = NoOverlay
SYMMETRY Symmetry
INVARIANTS
    TypeOK
    QuotaRespected
PROPERTIES
    OpenFilesKeepPages
