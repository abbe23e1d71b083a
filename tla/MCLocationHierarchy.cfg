CONSTANTS
    Location = {building, room, shelf}
    None = None
    MaxRows = 4
    Exports <- MCExports
SPECIFICATION HierarchySpec
INVARIANTS
    CyclesExact
    FirstParentKept
PROPERTY
    RuleEnds
CHECK_DEADLOCK FALSE
