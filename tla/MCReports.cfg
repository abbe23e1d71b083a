CONSTANTS
    None = None
    Rule <- MCRule
    DefaultOf <- MCDefaultOf
    Grades <- MCGrades
    MaxCalls = 7
    Data <- MCData
    Digest <- MCDigest
    Clock <- MCClock
SPECIFICATION Spec
INVARIANTS
    AsAsked
    FormatsAgree
    ViewerFinds
    BaselineSeesSwitches
    OrderIrrelevant
CHECK_DEADLOCK FALSE
