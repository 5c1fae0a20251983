SPECIFICATION RecurrenceSpec
CONSTANTS
    Hour = 2
    HoursPerDay = 4
    DaysPerWeek = 2
    Zones <- TheZones
    Creations = {0, 1, 2, 3, 4, 5, 6, 7, 8, 9, 10, 11}
    Delays = {7, 16}
    Horizon = 30
    DueLimit = 31
INVARIANT NeverExceeds
CHECK_DEADLOCK FALSE
