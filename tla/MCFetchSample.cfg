CONSTANTS
    Empty = Empty
    Junk = Junk
    None = None
    MaxYear = 99
    Limits <- MCLimits
    Sources <- MCSources
    Files <- MCFiles
    Requests <- MCRequests
    Exports <- MCExports
    NgaLimits <- MCNgaLimits
    Padded1 = Padded1
    Padded8 = Padded8
    Trim <- MCTrim
    Marks <- MCMarks
    MaxRuns = 2
    MaxEdits = 1
SPECIFICATION FetchSpec
INVARIANTS
    Bounded
    SampleReads
    SampleFaithful
    NoFalseAlarm
    SampleClosed
    ConflictIffDisjoint
PROPERTIES
    DisplayOrderDecides
CHECK_DEADLOCK FALSE
