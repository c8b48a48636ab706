SPECIFICATION Spec
CONSTANTS
    Radios <- TwoRadios
    Checkers = {k1}
    Configurations <- BothNamed
    Schedules <- DownDay
    HoursPerDay = 2
    DaysPerWeek = 2
    MaxHour = 3
    MaxFaults = 1
    MaxReboots = 0
INVARIANTS
    CheckSettlesWifi
