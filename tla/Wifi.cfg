SPECIFICATION LiveSpec
CONSTANTS
    Radios <- TwoRadios
    Checkers = {k1, k2}
    Configurations <- AnyNamed
    Schedules <- TwoDaySchedules
    HoursPerDay = 2
    DaysPerWeek = 2
    MaxHour = 5
    MaxFaults = 2
    MaxReboots = 1
INVARIANTS
    TypeOK
    SoundCheckSettlesWifi
    UpTimeIsRepaired
PROPERTIES
    WifiFollowsSchedule
