SPECIFICATION LiveSpec
CONSTANTS
    Names <- TwoNames
    Ips = {p, q}
    ConnectTimeout = 1
    SafetyTimeout = 2
    SleepTime = 1
    ReadSize = 2
    MaxStream = 3
    MaxFaults = 1
INVARIANTS
    TypeOK
PROPERTIES
    KeepsCalling
    EveryAddressIsCalled
