SPECIFICATION FairSpec
CONSTANTS
    MaxRelease = 2
    Manifest <- MCManifest
    UserFiles <- MCUserFiles
    Probe = "clockface.json"
    Features = {"fault", "cut", "refresh", "upload", "truncated", "usb"}
    MaxEvents = 3
    Junk = Junk
INVARIANTS TypeOK OneFlasher BusyHasAnOwner AlwaysBoots MixedIsMarked ReadyIsTrue PromptIsDue
PROPERTIES ImplementsFirmwareUpdate ServesWhenConnected NewReleaseIsOffered InterruptedResumes
