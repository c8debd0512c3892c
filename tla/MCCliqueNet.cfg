CONSTANTS
    Addresses = {0, 1, 2, 3}
    InitSigners = {1, 2, 3}
    Epoch = 100
    Online = {1, 2, 3}
    MaxNumber = 4
    MaxSeals = 4
SPECIFICATION Spec
INVARIANTS
    BranchesSound
    HeadsSound
