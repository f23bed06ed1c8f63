SPECIFICATION Spec
CONSTANTS
    Alarms = {0, 1}
    TicksPerMinute = 2
    MinutesPerDay = 2
    DaysPerWeek = 2
    SnoozeTicks = 3
    MaxTime = 9
    Offered <- MCOffered
    Adjustments = {}
CHECK_DEADLOCK FALSE
PROPERTIES OneTimeOffOnlyAfterRung
