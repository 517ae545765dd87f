CONSTANTS
    Descriptors <- FewDescriptors
    Paths <- MCPaths
    Offsets <- FewOffsets
    Sizes = {1, 2}
SPECIFICATION Spec
INVARIANTS
    NoOverrun
CHECK_DEADLOCK FALSE
