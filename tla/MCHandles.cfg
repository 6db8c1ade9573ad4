SPECIFICATION FsSpec
CONSTANTS
    Root = Root
    n1 = n1
    n2 = n2
    NoNode = NoNode
    Node <- MCNode
    a = a
    b = b
    Spelling = {a, b}
    Fold <- MCFold
    NoName = NoName
    Paths <- MCDeepPaths
    PageSize = 2
    PageCount = 0
    Quota = 0
    NoOverlay = NoOverlay
    h1 = h1
    h2 = h2
    Handle <- MCHandle
    NotOpen = NotOpen
    Dot = Dot
    DotDot = DotDot
    Rank <- MCRank
VIEW MCView
SYMMETRY Symmetry
INVARIANTS
    ListedOnce
PROPERTIES
    DeletesItsOwn
    ContentsKept
