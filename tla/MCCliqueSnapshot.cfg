CONSTANTS
    Addresses = {0, 1, 2, 3}
    InitSigners = {1, 2, 3}
    Epoch = 5
    MaxLength = 5
SPECIFICATION SnapshotSpec
CHECK_DEADLOCK FALSE
INVARIANTS
    VotesSound
    VotesMatchHeaders
    RecentsSound
PROPERTIES
    ChangeNeedsMajority
