SPECIFICATION Spec
CONSTANTS
    Networks = {"base_staging"}
    MaxCrashes = 0
    MaxEdits = 1
INVARIANT SnapshotsMatchRegistry
