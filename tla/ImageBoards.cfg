SPECIFICATION Spec
CONSTANTS
    Devices <- boards
    KernelSizes = {4096, 65535, 65536, 65537}
    RootfsSizes = {4095, 1000000, 10000000}
    GenesisSizes = {1, 4095, 4096, 4097, 4980736, 5000000}
INVARIANTS
    AssertionsNeverFail
CHECK_DEADLOCK FALSE
