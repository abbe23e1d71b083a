CONSTANTS
    None = None
    Empty = Empty
    Junk = Junk
    Suites <- MCSuites
    MaxErrors = 2
SPECIFICATION Spec
INVARIANTS
    Closure
    RowsSuffice
CHECK_DEADLOCK FALSE
