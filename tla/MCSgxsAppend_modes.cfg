SPECIFICATION Spec
CONSTANTS
    PageSize = 16
    ChunkSize = 8
    WordSize = 2
    Width = 10
    Width32 = 9
    GuardSize = 16
    None = None
    ElfInputs <- MCElfInputs
    Pes <- MCPes
    BlockLists <- MCBlockLists
    Operations <- MCOperations
    MaxOps = 2
INVARIANTS AppendedModes
CHECK_DEADLOCK FALSE
