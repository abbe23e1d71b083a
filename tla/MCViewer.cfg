CONSTANTS
    Finding = {critical}
    Fingerprint = {fpA}
    FpOf <- MCFpOf
    SevOf <- MCSevOf
    Jobs = {j1, j2}
    Dirs = {out}
    Saved = {}
    Inputs <- MCInputs
    IngestOf <- MCIngestOf
    FindingsOf <- MCFindingsOf
    SavedFiles <- MCSavedFiles
    Requests <- MCRequests
    MaxActs = 1
    None = None
    RunDir = out
    j1 = j1
    j2 = j2
    out = out
    critical = critical
    fpA = fpA
SPECIFICATION ViewerSpec
CHECK_DEADLOCK FALSE
INVARIANTS
    RefusedForAReason
    QuietViewIsOneRun
