SPECIFICATION Spec
CONSTANTS
    zero = zero
    x = x
    c1 = c1
    c2 = c2
    Client <- MCClient
    NoCall = NoCall
    Requests <- MCRequests
    Byte = {zero, x}
    Zero = zero
    Attribute = {"normal", "directory", "archive", "hidden"}
    MaxSize = 3
    AllocationUnit = 2
    Quota = 2
    Epoch = 2
    MaxTicks = 3
    Now = 0
    Initial <- MCInitial
SYMMETRY Symmetry
INVARIANT InfoFits
PROPERTIES
    AppendsAtTheEnd
    RefinesMountedFile
