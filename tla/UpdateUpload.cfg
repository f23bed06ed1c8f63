SPECIFICATION FairSpec
CONSTANTS
    MaxRelease = 2
    Manifest <- MCManifest
    UserFiles <- MCUserFiles
    Probe = "clockface.json"
    Features = {"upload", "short"}
    MaxEvents = 3
    Junk = Junk
PROPERTIES ServesWhenConnected
