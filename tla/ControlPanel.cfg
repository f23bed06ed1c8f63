SPECIFICATION Spec
CONSTANTS
    v1 = v1
    v2 = v2
    v3 = v3
    Versions <- MCVersions
    MaxFaults = 2
SYMMETRY Symmetry
INVARIANTS
    TypeOK
    StuckOnlyInUpdate
    SoundsComeBack
PROPERTIES
    InstalledFileSurvives
    ImplementsSoundPlayer
CHECK_DEADLOCK FALSE
