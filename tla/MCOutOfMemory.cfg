SPECIFICATION SpecOutOfMemory
CONSTANTS
    zero = zero
    archived = archived
    written = written
    NoWrite = NoWrite
    Byte <- MCByte
    Zero = zero
    PageSize = 2
    MaxSize = 6
    Inputs <- MCInputs
    BaseSize = 3
    Base <- MCBase
PROPERTIES
    NeverFilledSilently
