SPECIFICATION Spec
CONSTANTS
    Networks = {"localhost", "base", "base_staging", "base_sepolia"}
    MaxCrashes = 1
    MaxEdits = 1
INVARIANTS
    WiredBeforeHandover
    UnfinishedOnlyBehindMarker
PROPERTY RerunsConverge
