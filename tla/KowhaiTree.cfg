CONSTANTS
    Descriptors <- MCDescriptors
    Paths <- MCPaths
    Offsets <- MCOffsets
    Sizes = {1, 2}
SPECIFICATION Spec
INVARIANTS
    WalksAgree
    FindsTheItem
    StaysInNode
CHECK_DEADLOCK FALSE
