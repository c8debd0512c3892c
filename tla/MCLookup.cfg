CONSTANTS
    NumNodes = 5
    Self = 2
    alpha = 2
    bucketSize = 3
    Lapsed = {3}
    MaxStops = 2
SPECIFICATION Spec
CHECK_DEADLOCK FALSE
INVARIANTS
    LookupSound
    AllPlacesTaken
PROPERTIES
    LookupReturns
