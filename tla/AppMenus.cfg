SPECIFICATION Spec
CONSTANTS
    Alarms = {0}
    Stamps = {0}
    Timeout = 1
    Touchscreens = {TRUE, FALSE}
    Features = {"menu", "transfer", "timer", "overlap", "sounds"}
INVARIANTS TypeOK AlarmSoundCanBeStopped PortalOnlyInWifiSetup
