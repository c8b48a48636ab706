SPECIFICATION Spec
CONSTANTS
    Kernels <- SomeKernels
    Cmdlines <- SomeCmdlines
    Spaces = {4, 8}
    Marker <- TheMarker
    Step = 2
    NUL = "0"
    CMDLINE_MAX = 6
INVARIANTS
    TypeOK
    PatchReplaces
    OnlyTheWindowChanges
