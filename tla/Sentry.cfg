SPECIFICATION LiveSentrySpec
CONSTANTS
    Macs = {m1, m2}
    Ips = {ip1}
    NoMac = NoMac
    Conns = {c1, c2}
    Requests <- PathRequests
    MaxRules = 1
    MaxTime = 1
    MaxStepped = 0
    MaxFaults = 1
    Checkers = {}
    ValidFiles <- OneOrDefault
    DefaultValidTime = 2
    MinValidTime = 1
INVARIANTS
    PortalSeesHolder
    MessageAfterRule
PROPERTIES
    AccessFollowsConsent
    RequestIsServed
    LoopComesBack
