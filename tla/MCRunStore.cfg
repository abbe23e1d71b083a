CONSTANTS
    Runs = {1, 2, 3}
    MaxTime = 1
    MaxLists = 2
SPECIFICATION Spec
INVARIANTS
    ListingTrue
PROPERTIES
    OnlyUnfinishedSavesFail
CHECK_DEADLOCK FALSE
