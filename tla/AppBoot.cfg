SPECIFICATION FairSpec
CONSTANTS
    Alarms = {0}
    Stamps = {0}
    Timeout = 1
    Touchscreens = {FALSE}
    Features = {"stop", "transfer", "failure", "remote", "prompt"}
PROPERTIES BootCompletes
