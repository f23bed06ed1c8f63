SPECIFICATION Spec
CONSTANTS
    Alarms = {0, 1}
    TicksPerMinute = 2
    MinutesPerDay = 2
    DaysPerWeek = 2
    SnoozeTicks = 3
    MaxTime = 7
    Offered <- MCOffered
    Adjustments <- MCAdjustments
CHECK_DEADLOCK FALSE
INVARIANTS TypeOK OneTimeStaysOff UpcomingIsNextRing
PROPERTIES ImplementsAlarmClock
