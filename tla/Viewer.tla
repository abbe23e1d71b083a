------------------------------- MODULE Viewer -------------------------------
(***************************************************************************)
(* The local findings viewer (`collection-ci serve`: api/run_view.py,      *)
(* api/app.py, api/views.py) on the output directory of scans that may     *)
(* still be running.  RunView.load reads the artifacts one file at a time; *)
(* what it read is served from memory for good, except report.html, which  *)
(* is read from the disk at every request.                                 *)
(***************************************************************************)
EXTENDS ScanRun

CONSTANT RunDir     \* the directory given to serve

ASSUME ViewerAssumption == RunDir \in Dirs

VARIABLES stage,    \* where the viewer is in RunView.load, then "up"
          view,     \* the RunView: per artifact what was loaded
          page,     \* the last answer to GET /report
          quiet     \* history: no scan ran on RunDir since loading began

viewer == <<stage, view, page, quiet>>
allVars == <<vars, viewer>>

Loaded == {"findings.json", "summary.json", "run_manifest.json"}

ViewerInit ==
    /\ Init
    /\ stage = "down"
    /\ view = [a \in Loaded |-> Blank("absent")]
    /\ page = Blank("absent")
    /\ quiet = TRUE

ScansHere == \E j \in Jobs : Running(j) /\ opts[j].output_dir = RunDir

OnDisk(a) == disk[<<RunDir, a>>]

\* serve: a directory that does not exist is refused like one without a
\* findings.json.
Serve ==
    /\ stage = "down"
    /\ stage' = "findings.json"
    /\ quiet' = ~ScansHere
    /\ UNCHANGED <<vars, view, page>>

Missing(a) == OnDisk(a).kind = "absent"

\* Faulty variant: an empty list of findings is taken for no list.
ParsesIfAny(a) == OnDisk(a).kind = "report" /\ OnDisk(a).findings # {}

Parses(a) == OnDisk(a).kind = "report"

\* _load_json of artifact a; the viewer is refused (exit 2) if a required
\* file is missing or a file that is there is no JSON.
Load(a, required, then) ==
    /\ stage = a
    /\ \/ /\ Parses(a) \/ (Missing(a) /\ ~required)
          /\ view' = [view EXCEPT ![a] = OnDisk(a)]
          /\ stage' = then
       \/ /\ ~Parses(a) /\ (required \/ ~Missing(a))
          /\ stage' = "refused"
          /\ UNCHANGED view
    /\ UNCHANGED <<vars, page, quiet>>

LoadFindings == Load("findings.json", TRUE, "summary.json")

LoadSummary == Load("summary.json", TRUE, "run_manifest.json")
LoadManifest == Load("run_manifest.json", FALSE, "up")

\* GET /report: whatever report.html holds now, nothing (404) if it is gone.
GetReport ==
    /\ stage = "up"
    /\ page' = OnDisk("report.html")
    /\ UNCHANGED <<vars, stage, view, quiet>>

LoadStep == LoadFindings \/ LoadSummary \/ LoadManifest

ScanStep ==
    /\ Next
    /\ quiet' = (quiet /\ ~ScansHere')
    /\ UNCHANGED <<stage, view, page>>

ViewerNext == ScanStep \/ Serve \/ LoadStep \/ GetReport

ViewerSpec == ViewerInit /\ [][ViewerNext]_allVars

-----------------------------------------------------------------------------
WroteHere(j) == at[j] # 0 /\ opts[j].output_dir = RunDir
BrokeOff(j) == outcome[j] \in {"killed", "raised"}

(***************************************************************************)
(* A viewer is refused for a reason: with one scan at a time, and none     *)
(* while it loads, only if no scan ever wrote there, if the last that did  *)
(* broke off, or while it began with findings.json.  Whatever broke off    *)
(* before, a directory opens again after one scan that came to its end,    *)
(* clean or not (RunView.load wants two of its six reports).               *)
(***************************************************************************)
RefusedForAReason ==
    stage = "refused" /\ quiet /\ Serialized =>
        IF Parses("findings.json") THEN BrokeOff(OnDisk("findings.json").run)
        ELSE (\E j \in Jobs : WroteHere(j)) =>
                 \E j \in Jobs : WroteHere(j) /\ at[j] = 1 /\ BrokeOff(j)

(***************************************************************************)
(* With one scan at a time, and none while the viewer loads, the viewer    *)
(* shows one run, manifest included, whenever the run that wrote           *)
(* findings.json got past its reports: kills of earlier or later scans on  *)
(* the same directory do not mix two runs into such a view, nor does the   *)
(* report page, read anew at every request, show another run than that.    *)
(***************************************************************************)
QuietViewIsOneRun ==
    LET j == view["findings.json"].run IN
    stage = "up" /\ quiet /\ Serialized /\ outcome[j] \in {"passed", "failed", "refused"} =>
        /\ \A a \in Loaded : view[a].kind = "report" /\ view[a].run = j
        /\ page.kind = "absent" \/ (page.kind = "report" /\ page.run = j)
=============================================================================
