SPECIFICATION Spec
CONSTANTS
    MaxVersion = 5
    Attempts = 2
    MaxFaults = 1
    Modes = {"incremental", "full", "rebuild"}
    Resolutions <- MCResolutions
INVARIANTS
    CommittedIsLibrary
    DeltasTellAll
PROPERTIES
    CatchesUp
