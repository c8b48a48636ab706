SPECIFICATION LiveChecksSpec
CONSTANTS
    Macs = {m1}
    Ips = {ip1}
    NoMac = NoMac
    Conns = {c1, c2}
    Requests <- AcceptRequests
    MaxRules = 2
    MaxTime = 1
    MaxStepped = 1
    MaxFaults = 1
    Checkers = {k1, k2}
    ValidFiles <- NoSeconds
    DefaultValidTime = 2
    MinValidTime = 0
INVARIANTS
    TypeOK
    LoneCheckSucceeds
PROPERTIES
    FullAccessTime
    ImplementsAdmission
    ExpiredIsRevoked
