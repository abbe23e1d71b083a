CONSTANTS
    None = None
    o1 = o1  o2 = o2  o3 = o3  m1 = m1  r1 = r1  r2 = r2  a1 = a1  l1 = l1  l2 = l2
    Collections <- MCCollections
SPECIFICATION Spec
INVARIANTS
    OneFindingPerFingerprint
    FlaggedOnce
    SilentIfSound
PROPERTIES
    RowOrderIrrelevant
    EditIsLocal
    RightsHandOver
CHECK_DEADLOCK FALSE
