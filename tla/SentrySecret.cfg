SPECIFICATION Spec
CONSTANTS
    Macs = {m1, m2}
    Ips = {ip1}
    NoMac = NoMac
    Conns = {c1}
    Requests <- SecretRequests
    MaxRules = 2
    MaxTime = 1
    MaxStepped = 0
    MaxFaults = 0
    Checkers = {}
    ValidFiles <- NoSeconds
    DefaultValidTime = 2
    MinValidTime = 0
PROPERTIES
    SecretAuthorizes
