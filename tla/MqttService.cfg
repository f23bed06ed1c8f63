SPECIFICATION MCFairSpec
CONSTANTS
    Messages <- MCMessages
    Invalid <- MCInvalid
    Networks = {"off", "refused", "lost", "breaking", "up"}
    Wrap = 6
    RetryInitial = 1
    RetryMaximum = 2
INVARIANTS
    TypeOK
    PanelShowsCurrent
    RedeliveryIsDropped
    StatusIsFresh
PROPERTIES
    BeaconShownInFull
    BeaconKeepsItsTime
    ImplementsMessageQueue
    BeaconEnds
    Reconnects
