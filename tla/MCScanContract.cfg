CONSTANTS
    Finding <- MCFinding
    Fingerprint <- MCFingerprint
    FpOf <- MCFpOf
    SevOf <- MCSevOf
    Jobs = {j1, j2}
    Dirs = {out, other}
    Saved = {saved}
    Inputs <- BadInputs
    IngestOf <- MCIngestOf
    FindingsOf <- MCFindingsOf
    SavedFiles <- BadSavedFiles
    None = None
    j1 = j1
    j2 = j2
    out = out
    other = other
    saved = saved
    critical = critical
    minor = minor
    twin = twin
    fpA = fpA
    fpB = fpB
    fpC = fpC
    Requests <- RefusedRequests
    MaxActs = 1
SPECIFICATION Spec
INVARIANTS
    RefusalLeavesNoRecord
PROPERTIES
    EveryScanEnds
    KeepsContract
CHECK_DEADLOCK FALSE
