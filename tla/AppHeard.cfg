SPECIFICATION FairSpec
CONSTANTS
    Alarms = {0, 1}
    Stamps = {0, 1}
    Timeout = 1
    Touchscreens = {FALSE}
    Features = {"timer", "sounds"}
INVARIANTS AnnouncementIsHeard
PROPERTIES RingingIsHeard
