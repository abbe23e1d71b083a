CONSTANTS
    Finding <- MCFinding
    Fingerprint <- MCFingerprint
    FpOf <- MCFpOf
    SevOf <- MCSevOf
    Jobs = {j1, j2}
    Dirs = {out, other}
    Saved = {saved}
    Inputs <- MCInputs
    IngestOf <- MCIngestOf
    FindingsOf <- MCFindingsOf
    SavedFiles <- MCSavedFiles
    None = None
    j1 = j1
    j2 = j2
    out = out
    other = other
    saved = saved
    critical = critical
    minor = minor
    twin = twin
    fpA = fpA
    fpB = fpB
    fpC = fpC
    Requests <- SafeRequests
    MaxActs = 1
SPECIFICATION Spec
SYMMETRY JobSymmetry
INVARIANTS
    TypeOK
    VerdictHonest
    LeftoverComparisonExplained
PROPERTIES
    VerdictReported
CHECK_DEADLOCK FALSE
