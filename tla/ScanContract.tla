---------------------------- MODULE ScanContract ----------------------------
(***************************************************************************)
(* What a CI pipeline is promised by `collection-ci scan`, without steps   *)
(* or reports: a job is given a command line, looks once at the data and,  *)
(* if it has a baseline, once at that file as it then is, may enter its    *)
(* findings in the history, and ends with a verdict that follows from what *)
(* it saw, or is refused, or breaks off.  Of a file only its worth as a    *)
(* baseline is kept; it may change at any moment.                          *)
(***************************************************************************)
EXTENDS Findings

CONSTANTS Jobs, Requests, File, None,
          Accepted(_)       \* the command lines that are not refused outright

VARIABLES state,     \* "idle", "running", or how the job ended
          request,   \* its command line
          findings,  \* what it found, once it has looked
          worth,     \* per file the fingerprints of its findings, None if it
                     \* is no list of findings
          known,     \* the fingerprints the job compared with, None before
          history    \* the findings in its record of the run history

vars == <<state, request, findings, worth, known, history>>

Worths == [File -> (SUBSET Fingerprint) \cup {None}]

Init ==
    /\ state = [j \in Jobs |-> "idle"]
    /\ request = [j \in Jobs |-> None]
    /\ findings = [j \in Jobs |-> None]
    /\ worth \in Worths
    /\ known = [j \in Jobs |-> None]
    /\ history = [j \in Jobs |-> None]

Begin(j) ==
    /\ state[j] = "idle"
    /\ \E r \in Requests :
          /\ request' = [request EXCEPT ![j] = r]
          /\ state' = [state EXCEPT ![j] =
                          IF Accepted(r) THEN "running" ELSE "refused"]
    /\ UNCHANGED <<findings, worth, known, history>>

Look(j) ==
    /\ state[j] = "running" /\ findings[j] = None
    /\ \E F \in SUBSET Finding : findings' = [findings EXCEPT ![j] = F]
    /\ UNCHANGED <<state, request, worth, known, history>>

\* The baseline counts as it is now, if it is a list of findings at all.
Compare(j) ==
    /\ state[j] = "running" /\ findings[j] # None
    /\ request[j].baseline # None /\ known[j] = None
    /\ worth[request[j].baseline] # None
    /\ known' = [known EXCEPT ![j] = worth[request[j].baseline]]
    /\ UNCHANGED <<state, request, findings, worth, history>>

Ready(j) ==
    /\ state[j] = "running" /\ findings[j] # None
    /\ request[j].baseline # None => known[j] # None

Enter(j) ==
    /\ Ready(j)
    /\ request[j].run_store /\ history[j] = None
    /\ history' = [history EXCEPT ![j] = findings[j]]
    /\ UNCHANGED <<state, request, findings, worth, known>>

Decision(j) ==
    LET r == request[j]
        counted == IF r.baseline # None /\ r.only_new
                   THEN New(findings[j], known[j]) ELSE findings[j]
    IN  IF Blocks(r.fail_on, counted) THEN "failed" ELSE "passed"

Ends(j, how) ==
    /\ state' = [state EXCEPT ![j] = how]
    /\ UNCHANGED <<request, findings, known, history>>

\* No verdict without data, over a baseline that cannot be read, or ahead of
\* the record that was asked for.
Decide(j) ==
    /\ Ready(j)
    /\ request[j].run_store => history[j] # None
    /\ Ends(j, Decision(j))
    /\ UNCHANGED worth

\* Exit 2: what was refused was compared with nothing and is in no history.
Refuse(j) ==
    /\ state[j] = "running" /\ known[j] = None /\ history[j] = None
    /\ Ends(j, "refused")
    /\ UNCHANGED worth

\* A job that breaks off may leave a file half written.
BreakOff(j) ==
    /\ state[j] = "running"
    /\ Ends(j, "raised") \/ Ends(j, "killed")
    /\ worth' \in Worths

\* Scans write their reports, the curator replaces baselines.
Disk == worth' \in Worths /\ UNCHANGED <<state, request, findings, known, history>>

Next ==
    \/ \E j \in Jobs : \/ Begin(j) \/ Look(j) \/ Compare(j) \/ Enter(j)
                       \/ Decide(j) \/ Refuse(j) \/ BreakOff(j)
    \/ Disk

Spec == Init /\ [][Next]_vars

\* A running job comes to an end.
Ending == \A j \in Jobs : state[j] = "running" ~> state[j] \notin {"idle", "running"}
=============================================================================
