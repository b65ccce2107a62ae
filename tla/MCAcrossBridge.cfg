SPECIFICATION MCSpec
CONSTANTS
    Hashes = {h1, h2}
    Commitments <- MCCommitments
    Zero = "zero"
    Nets = {1, 2}
    Outputs = {1, 2}
    Buffers = {0, 1}
    MaxTime = 2
    MaxDonated = 1
INVARIANTS
    BridgedAsCommitted
    HookKeepsOnlyRefunds
    SoundCommitmentsCanBridge
CHECK_DEADLOCK FALSE
