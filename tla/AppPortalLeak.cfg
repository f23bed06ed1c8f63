SPECIFICATION Spec
CONSTANTS
    Alarms = {0}
    Stamps = {0, 1}
    Timeout = 1
    Touchscreens = {TRUE}
    Features = {"timer", "menu", "expiry"}
INVARIANTS PortalOnlyInWifiSetup
