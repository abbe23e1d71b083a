--------------------------- MODULE ScanRun_proofs ---------------------------
(***************************************************************************)
(* For every number of jobs, directories, findings and every choice of     *)
(* command lines: ScanRun's type invariant; the honesty of its verdict and *)
(* that it implements ScanContract; what a refusal leaves; that a verdict  *)
(* is backed by the reports of its own run, and why a comparison may be of *)
(* another run than the findings beside it; what the viewer serves of a    *)
(* directory that scans write to, and that it opens one whose scans ended. *)
(***************************************************************************)
EXTENDS Viewer, TLAPS

-----------------------------------------------------------------------------
LEMMA BlankIsContent == \A k \in Kind : Blank(k) \in Content
BY DEF Blank, Content

LEMMA TextIsContent == \A j \in Jobs, F \in SUBSET Finding : Text(j, F) \in Content
BY DEF Text, Content, Kind

LEMMA FingerprintsType == \A F \in SUBSET Finding : Fingerprints(F) \subseteq Fingerprint
BY FindingAssumption DEF Fingerprints

\* Every index of the pipeline names a file, and reports are in the domain.
LEMMA NamesAreArtifacts == \A n \in 1 .. 7 : Names[n] \in Artifact
BY DEF Artifact

LEMMA FindingsFile == \A d \in Dirs : <<d, "findings.json">> \in Output
<1>1. Names[1] = "findings.json"
  BY DEF Names
<1> QED BY <1>1, NamesAreArtifacts DEF Output

-----------------------------------------------------------------------------
(***************************************************************************)
(* Typing.  Past its start a job has a command line, past ingestion it has *)
(* an input; TypeOK alone allows None for both.                            *)
(***************************************************************************)
Started == \A j \in Jobs : pc[j] # "idle" => opts[j] \in Requests
Ingested == \A j \in Jobs : pc[j] \in {"media_root", "evaluate"} => seen[j] \in Inputs

Typed == TypeOK /\ Started /\ Ingested

LEMMA ConcludeTyped ==
    ASSUME Typed, NEW j \in Jobs, pc[j] # "idle", Conclude(j)
    PROVE  /\ at' \in [Jobs -> 0 .. Record]
           /\ pc' \in [Jobs -> Steps]
           /\ outcome' = outcome
           /\ \A i \in Jobs : pc'[i] # pc[i] =>
                 pc[i] # "idle" /\ pc'[i] \in {"open", "verdict"}
BY DEF Conclude, Goto, Typed, TypeOK, Steps, Record

LEMMA WatchTyped ==
    ASSUME Typed, Watch, disk' \in [File -> Content]
    PROVE  had' \in [Jobs -> SUBSET Content]
<1>1. \A j \in Jobs : Unread(j) => opts[j].baseline \in File
  BY ScanAssumption DEF Unread, Running, Typed, Started, Request
<1> QED BY <1>1 DEF Watch, Typed, TypeOK

LEMMA InterruptTyped ==
    ASSUME Typed, NEW j \in Jobs, pc[j] # "idle", NEW how \in Outcome, Interrupt(j, how)
    PROVE  Typed'
<1>1. disk' \in [File -> Content]
  BY BlankIsContent DEF Typed, TypeOK, Interrupt, Kind
<1>2. /\ pc' \in [Jobs -> Steps]
      /\ outcome' \in [Jobs -> Outcome]
      /\ \A i \in Jobs : pc'[i] # pc[i] => pc[i] # "idle" /\ pc'[i] = "done"
  BY DEF Typed, TypeOK, Interrupt, Exit, Steps
<1>3. had' \in [Jobs -> SUBSET Content]
  BY <1>1, WatchTyped DEF Interrupt
<1> QED BY <1>1, <1>2, <1>3 DEF Typed, TypeOK, Started, Ingested, Interrupt, job

LEMMA InitTyped == Init => Typed
<1> SUFFICES ASSUME Init PROVE Typed
  OBVIOUS
<1>1. disk \in [File -> Content]
  <2>1. PICK s \in [Saved -> SavedFiles] :
          disk = [f \in File |-> IF f \in Saved THEN s[f] ELSE Blank("absent")]
    BY DEF Init
  <2>2. Blank("absent") \in Content
    BY BlankIsContent DEF Kind
  <2> QED BY <2>1, <2>2, ScanAssumption
<1>2. had \in [Jobs -> SUBSET Content]
  BY DEF Init
<1>3. acts \in 0 .. MaxActs
  BY ScanAssumption DEF Init
<1> QED BY <1>1, <1>2, <1>3 DEF Init, Typed, TypeOK, Started, Ingested, Steps, Outcome, Record

LEMMA NextTyped == Typed /\ [Next]_vars => Typed'
<1> SUFFICES ASSUME Typed, [Next]_vars PROVE Typed'
  OBVIOUS
<1> USE DEF Typed
<1>1. ASSUME NEW j \in Jobs, NEW r \in Requests, Start(j, r) PROVE Typed'
  <2>1. had' \in [Jobs -> SUBSET Content]
    <3>1. r.baseline \in File \cup {None}
      BY ScanAssumption DEF Request
    <3> QED BY <1>1, <3>1 DEF Start, TypeOK
  <2>2. /\ pc' \in [Jobs -> Steps]
        /\ outcome' \in [Jobs -> Outcome]
        /\ \A i \in Jobs \ {j} : pc'[i] = pc[i]
    BY <1>1 DEF Start, TypeOK, Goto, Exit, Steps, Outcome
  <2>3. opts' \in [Jobs -> Requests \cup {None}] /\ opts'[j] = r
        /\ \A i \in Jobs \ {j} : opts'[i] = opts[i]
    BY <1>1 DEF Start, TypeOK
  <2>4. pc'[j] \notin {"media_root", "evaluate"}
    BY <1>1 DEF Start, TypeOK, Goto, Exit
  <2>5. TypeOK'
    BY <1>1, <2>1, <2>2, <2>3 DEF Start, TypeOK
  <2>6. Started' /\ Ingested'
    BY <1>1, <2>2, <2>3, <2>4 DEF Start, Started, Ingested
  <2> QED BY <2>5, <2>6
<1>2. ASSUME NEW j \in Jobs, Ingest(j) PROVE Typed'
  BY <1>2 DEF Ingest, TypeOK, Started, Ingested, Goto, Exit, Steps, Outcome
<1>3. ASSUME NEW j \in Jobs, CheckMediaRoot(j) PROVE Typed'
  BY <1>3 DEF CheckMediaRoot, TypeOK, Started, Ingested, Goto, Exit, Steps, Outcome, job
<1>4. ASSUME NEW j \in Jobs, Evaluate(j) PROVE Typed'
  <2>1. FindingsOf[seen[j]] \in SUBSET Finding
    BY <1>4, ScanAssumption DEF Evaluate, Ingested
  <2> QED BY <1>4, <2>1 DEF Evaluate, TypeOK, Started, Ingested, Goto, Steps, Record
<1>5. ASSUME NEW j \in Jobs, Open(j) PROVE Typed'
  <2>1. disk' \in [File -> Content]
    BY <1>5, BlankIsContent DEF Open, TypeOK, Kind
  <2>2. had' \in [Jobs -> SUBSET Content]
    BY <1>5, <2>1, WatchTyped DEF Open
  <2> QED BY <1>5, <2>1, <2>2 DEF Open, TypeOK, Started, Ingested, Goto, Steps, job
<1>6. ASSUME NEW j \in Jobs, Write(j) PROVE Typed'
  <2>1. disk' \in [File -> Content]
    <3>1. TextOf(j) \in Content
      BY TextIsContent DEF TextOf, TypeOK, New
    <3>2. Blank("torn") \in Content
      BY BlankIsContent DEF Kind
    <3> QED BY <1>6, <3>1, <3>2 DEF Write, After, TypeOK
  <2>2. /\ at' \in [Jobs -> 0 .. Record]
        /\ pc' \in [Jobs -> Steps]
        /\ outcome' = outcome
        /\ \A i \in Jobs : pc'[i] # pc[i] =>
              pc[i] # "idle" /\ pc'[i] \in {"open", "baseline", "verdict"}
    <3>1. CASE Conclude(j)
      BY <1>6, <3>1, ConcludeTyped DEF Write
    <3>2. CASE ~Conclude(j)
      BY <1>6, <3>2 DEF Write, Goto, TypeOK, Steps, Record
    <3> QED BY <3>1, <3>2
  <2>3. had' \in [Jobs -> SUBSET Content]
    BY <1>6, <2>1, WatchTyped DEF Write
  <2> QED BY <1>6, <2>1, <2>2, <2>3 DEF Write, TypeOK, Started, Ingested
<1>7. ASSUME NEW j \in Jobs, LoadBaseline(j) PROVE Typed'
  <2>1. /\ at' \in [Jobs -> 0 .. Record]
        /\ pc' \in [Jobs -> Steps]
        /\ outcome' \in [Jobs -> Outcome]
        /\ base' \in [Jobs -> SUBSET Fingerprint]
        /\ \A i \in Jobs : pc'[i] # pc[i] =>
              pc[i] # "idle" /\ pc'[i] \in {"open", "verdict", "done"}
    <3>1. CASE opts[j].baseline = None
      BY <1>7, <3>1, ConcludeTyped DEF LoadBaseline, TypeOK
    <3>2. CASE opts[j].baseline # None
      <4>1. opts[j].baseline \in File
        BY <1>7, <3>2, ScanAssumption DEF LoadBaseline, Started, Request
      <4>2. Fingerprints(disk[opts[j].baseline].findings) \subseteq Fingerprint
        BY <4>1, FingerprintsType DEF TypeOK, Content
      <4> QED BY <1>7, <3>2, <4>2
              DEF LoadBaseline, TypeOK, Goto, Exit, Steps, Outcome, Comparison, Record
    <3> QED BY <3>1, <3>2
  <2> QED BY <1>7, <2>1 DEF LoadBaseline, TypeOK, Started, Ingested
<1>8. ASSUME NEW j \in Jobs, Verdict(j) PROVE Typed'
  BY <1>8 DEF Verdict, Judged, TypeOK, Started, Ingested, Exit, Steps, Outcome, job
<1>9. ASSUME NEW j \in Jobs, Kill(j) \/ WriteError(j) PROVE Typed'
  BY <1>9, InterruptTyped DEF Kill, WriteError, Running, Outcome
<1>10. ASSUME EditInput PROVE Typed'
  BY <1>10, ScanAssumption DEF EditInput, Act, TypeOK, Started, Ingested, job
<1>11. ASSUME NEW d \in Dirs, NEW s \in Saved, KeepBaseline(d, s) PROVE Typed'
  <2>1. disk[<<d, "findings.json">>] \in Content
    BY FindingsFile DEF TypeOK, File
  <2>2. disk' \in [File -> Content]
    BY <1>11, <2>1, BlankIsContent DEF KeepBaseline, TypeOK, Kind
  <2>3. acts' \in 0 .. MaxActs
    BY <1>11, ScanAssumption DEF KeepBaseline, Act, TypeOK
  <2>4. had' \in [Jobs -> SUBSET Content]
    BY <1>11, <2>2, WatchTyped DEF KeepBaseline
  <2> QED BY <1>11, <2>2, <2>3, <2>4 DEF KeepBaseline, TypeOK, Started, Ingested, job
<1>12. ASSUME UNCHANGED vars PROVE Typed'
  BY <1>12 DEF vars, job, TypeOK, Started, Ingested
<1> QED BY <1>1, <1>2, <1>3, <1>4, <1>5, <1>6, <1>7, <1>8, <1>9, <1>10, <1>11, <1>12
        DEF Next, Step

(***************************************************************************)
(* Every variable keeps its type: in particular `at` never runs past the   *)
(* run-store record and no file holds anything but the six kinds of text.  *)
(***************************************************************************)
THEOREM TypeCorrect == Spec => []TypeOK
<1>1. Spec => []Typed
  BY InitTyped, NextTyped, PTL DEF Spec
<1>2. Typed => TypeOK
  BY DEF Typed
<1> QED BY <1>1, <1>2, PTL

-----------------------------------------------------------------------------
(***************************************************************************)
(* The argument for VerdictHonest.  A verdict is taken many file writes    *)
(* after its two inputs were fixed; the invariant carries both across      *)
(* them: the findings are those of the ingested input from Evaluate on,    *)
(* what the baseline file holds is recorded in `had` until it is read, and *)
(* what was read came from there and is kept until the verdict.            *)
(***************************************************************************)
Pipeline ==
    \A j \in Jobs :
        /\ pc[j] \in {"open", "write", "baseline", "verdict"} => at[j] # 0
        /\ at[j] # 0 => /\ pc[j] \in {"open", "write", "baseline", "verdict", "done"}
                       /\ found[j] = FindingsOf[seen[j]]
        /\ pc[j] = "baseline" => at[j] = 6
        /\ pc[j] = "verdict" /\ opts[j].baseline # None => Compared(j)
        /\ pc[j] # "done" => outcome[j] = "none"

Watched == \A j \in Jobs : Unread(j) => disk[opts[j].baseline] \in had[j]

Lists(j) == {c \in had[j] : Readable(opts[j].baseline, c)}

BaselineLoaded ==
    \A j \in Jobs : Running(j) /\ Compared(j) =>
        \E c \in Lists(j) : base[j] = Fingerprints(c.findings)

HonestInv == Typed /\ Pipeline /\ Watched /\ BaselineLoaded /\ VerdictHonest

LEMMA InitHonest == Init => HonestInv
<1> SUFFICES ASSUME Init PROVE HonestInv
  OBVIOUS
<1> QED BY InitTyped DEF Init, HonestInv, Pipeline, Watched, Unread, BaselineLoaded,
                         VerdictHonest, Running

\* What a job may still read is recorded, by whomever it is put there.
LEMMA WatchedStep ==
    ASSUME Typed, Watched, Watch,
           \A i \in Jobs : Unread(i)' => Unread(i) /\ opts'[i] = opts[i]
    PROVE  Watched'
BY DEF Watched, Watch, Typed, TypeOK

\* A verdict or a reading that is over is disturbed by no later content.
LEMMA HadGrows ==
    ASSUME Typed, Watch, UNCHANGED opts, NEW j \in Jobs
    PROVE  had[j] \subseteq had'[j] /\ Lists(j) \subseteq Lists(j)'
<1>1. had[j] \subseteq had'[j]
  BY DEF Watch, Typed, TypeOK
<1> QED BY <1>1 DEF Lists

\* A comparison once made stands, and so do verdicts.
LEMMA LoadedKept ==
    ASSUME BaselineLoaded,
           \A i \in Jobs : Running(i)' /\ Compared(i)' =>
              /\ Running(i) /\ Compared(i)
              /\ base'[i] = base[i] /\ opts'[i] = opts[i] /\ had[i] \subseteq had'[i]
    PROVE  BaselineLoaded'
BY DEF BaselineLoaded, Lists

LEMMA VerdictsKept ==
    ASSUME VerdictHonest,
           \A i \in Jobs : outcome'[i] \in {"passed", "failed"} =>
              /\ outcome'[i] = outcome[i]
              /\ seen'[i] = seen[i] /\ opts'[i] = opts[i] /\ had[i] \subseteq had'[i]
    PROVE  VerdictHonest'
<1> SUFFICES ASSUME NEW i \in Jobs, outcome'[i] \in {"passed", "failed"}
             PROVE  \E F \in Promised(i)' : outcome'[i] = Judged(i, F)'
  BY DEF VerdictHonest, Judged
<1>1. PICK F \in Promised(i) : outcome[i] = Judged(i, F)
  BY DEF VerdictHonest
<1>2. F \in Promised(i)'
  BY DEF Promised
<1> QED BY <1>1, <1>2 DEF Judged

LEMMA NextHonest == HonestInv /\ [Next]_vars => HonestInv'
<1> SUFFICES ASSUME HonestInv, [Next]_vars PROVE HonestInv'
  OBVIOUS
<1> USE DEF HonestInv
<1>0. Typed'
  BY NextTyped
<1>1. ASSUME NEW j \in Jobs, NEW r \in Requests, Start(j, r) PROVE HonestInv'
  <2>1. /\ pc[j] = "idle" /\ at[j] = 0 /\ outcome[j] = "none"
        /\ UNCHANGED <<disk, at, seen, found, base>>
    BY <1>1 DEF Start, Pipeline
  <2>2. /\ \A i \in Jobs \ {j} : pc'[i] = pc[i] /\ outcome'[i] = outcome[i]
                               /\ opts'[i] = opts[i] /\ had'[i] = had[i]
        /\ \/ pc'[j] = "ingest" /\ outcome'[j] = "none"
           \/ pc'[j] = "done" /\ outcome'[j] = "refused"
        /\ opts'[j] = r
        /\ r.baseline # None => disk[r.baseline] \in had'[j]
    BY <1>1, <2>1 DEF Start, Goto, Exit, Typed, TypeOK
  <2>3. Pipeline'
    BY <2>1, <2>2 DEF Pipeline, Compared
  <2>4. Watched'
    BY <2>1, <2>2 DEF Watched, Unread, Running
  <2>5. BaselineLoaded'
    BY <2>1, <2>2, LoadedKept DEF Compared, Running, Comparison, Record
  <2>6. VerdictHonest'
    BY <2>1, <2>2, VerdictsKept
  <2> QED BY <1>0, <2>3, <2>4, <2>5, <2>6
<1>2. ASSUME NEW j \in Jobs, Ingest(j) \/ CheckMediaRoot(j) PROVE HonestInv'
  <2>1. at[j] = 0
    BY <1>2 DEF Ingest, CheckMediaRoot, Pipeline
  <2>2. /\ UNCHANGED <<disk, at, opts, found, base, had>>
        /\ \A i \in Jobs \ {j} : pc'[i] = pc[i] /\ outcome'[i] = outcome[i]
                               /\ seen'[i] = seen[i]
        /\ \/ pc'[j] \in {"media_root", "evaluate"} /\ outcome'[j] = outcome[j]
           \/ pc'[j] = "done" /\ outcome'[j] \in {"refused", "raised"}
        /\ pc[j] \in {"ingest", "media_root"} /\ outcome[j] = "none"
    BY <1>2 DEF Ingest, CheckMediaRoot, Goto, Exit, job, Typed, TypeOK, Pipeline
  <2>3. Pipeline'
    BY <2>1, <2>2 DEF Pipeline, Compared
  <2>4. Watched'
    BY <2>2 DEF Watched, Unread, Running
  <2>5. BaselineLoaded'
    BY <2>1, <2>2, LoadedKept DEF Compared, Running, Comparison, Record
  <2>6. VerdictHonest'
    BY <2>2, VerdictsKept
  <2> QED BY <1>0, <2>3, <2>4, <2>5, <2>6
<1>3. ASSUME NEW j \in Jobs, Evaluate(j) PROVE HonestInv'
  <2>1. /\ UNCHANGED <<disk, opts, seen, base, outcome, had>>
        /\ pc[j] = "evaluate" /\ pc'[j] = "open" /\ at'[j] = 1 /\ at[j] = 0
        /\ found'[j] = FindingsOf[seen[j]]
        /\ \A i \in Jobs \ {j} : pc'[i] = pc[i] /\ at'[i] = at[i] /\ found'[i] = found[i]
    BY <1>3 DEF Evaluate, Goto, Typed, TypeOK, Pipeline
  <2>2. Pipeline'
    BY <2>1 DEF Pipeline, Compared
  <2>3. Watched'
    BY <2>1 DEF Watched, Unread, Running
  <2>4. BaselineLoaded'
    BY <2>1, LoadedKept DEF Compared, Running, Comparison, Record
  <2>5. VerdictHonest'
    BY <2>1, VerdictsKept
  <2> QED BY <1>0, <2>2, <2>3, <2>4, <2>5
<1>4. ASSUME NEW j \in Jobs, Open(j) PROVE HonestInv'
  <2>1. /\ UNCHANGED <<at, opts, seen, found, base, outcome>> /\ Watch
        /\ pc[j] = "open" /\ pc'[j] = "write"
        /\ \A i \in Jobs \ {j} : pc'[i] = pc[i]
    BY <1>4 DEF Open, Goto, job, Typed, TypeOK
  <2>2. Pipeline'
    BY <2>1 DEF Pipeline, Compared
  <2>3. Watched'
    BY <2>1, WatchedStep DEF Unread, Running
  <2>4. \A i \in Jobs : had[i] \subseteq had'[i]
    BY <2>1, HadGrows
  <2>5. BaselineLoaded'
    BY <2>1, <2>4, LoadedKept DEF Compared, Running
  <2>6. VerdictHonest'
    BY <2>1, <2>4, VerdictsKept
  <2> QED BY <1>0, <2>2, <2>3, <2>5, <2>6
<1>5. ASSUME NEW j \in Jobs, Write(j) PROVE HonestInv'
  <2>1. /\ UNCHANGED <<opts, seen, found, base, outcome>> /\ Watch
        /\ pc[j] = "write" /\ pc'[j] \in {"open", "baseline", "verdict"}
        /\ at[j] # 0 /\ at'[j] # 0
        /\ \/ at[j] \in {Comparison, Record} /\ at'[j] \in {Comparison, Record}
                /\ pc'[j] # "baseline"
           \/ at[j] \in 1 .. 6 /\ at'[j] \in 1 .. 6 /\ pc'[j] # "verdict"
                /\ (pc'[j] = "baseline" => at'[j] = 6)
        /\ \A i \in Jobs \ {j} : pc'[i] = pc[i] /\ at'[i] = at[i]
    BY <1>5 DEF Write, Conclude, Goto, Typed, TypeOK, Pipeline, Comparison, Record
  <2>2. Pipeline'
    BY <2>1 DEF Pipeline, Compared
  <2>3. Watched'
    BY <2>1, WatchedStep DEF Unread, Running, Comparison, Record
  <2>4. \A i \in Jobs : had[i] \subseteq had'[i]
    BY <2>1, HadGrows
  <2>5. BaselineLoaded'
    BY <2>1, <2>4, LoadedKept DEF Compared, Running, Comparison, Record
  <2>6. VerdictHonest'
    BY <2>1, <2>4, VerdictsKept
  <2> QED BY <1>0, <2>2, <2>3, <2>5, <2>6
<1>6. ASSUME NEW j \in Jobs, LoadBaseline(j) PROVE HonestInv'
  <2>1. /\ UNCHANGED <<disk, opts, seen, found, had>>
        /\ pc[j] = "baseline" /\ outcome[j] = "none" /\ at[j] = 6 /\ at'[j] \in 6 .. 8
        /\ \A i \in Jobs \ {j} : /\ pc'[i] = pc[i] /\ at'[i] = at[i]
                               /\ base'[i] = base[i] /\ outcome'[i] = outcome[i]
        /\ \/ pc'[j] \in {"open", "verdict"} /\ outcome'[j] = "none"
           \/ pc'[j] = "done" /\ outcome'[j] \in {"refused", "raised"}
    BY <1>6 DEF LoadBaseline, Conclude, Goto, Exit, Typed, TypeOK, Pipeline,
                Comparison, Record
  <2>2. opts[j].baseline # None /\ pc'[j] # "done" =>
           /\ base'[j] = Fingerprints(disk[opts[j].baseline].findings)
           /\ at'[j] = Comparison /\ pc'[j] = "open"
           /\ Readable(opts[j].baseline, disk[opts[j].baseline])
    BY <1>6 DEF LoadBaseline, Goto, Exit, Typed, TypeOK
  <2>3. Pipeline'
    BY <2>1, <2>2 DEF Pipeline, Compared
  <2>4. Watched'
    BY <2>1 DEF Watched, Unread, Running
  <2>5. BaselineLoaded'
    <3> SUFFICES ASSUME NEW i \in Jobs, Running(i)', Compared(i)'
                 PROVE  \E c \in Lists(i)' : base'[i] = Fingerprints(c.findings)
      BY DEF BaselineLoaded
    <3>1. CASE i # j
      BY <2>1, <3>1 DEF BaselineLoaded, Running, Compared, Lists
    <3>2. CASE i = j
      <4>1. opts[j].baseline # None /\ pc'[j] # "done"
        BY <2>1, <3>2 DEF Compared, Running
      <4>2. disk[opts[j].baseline] \in had[j]
        BY <2>1, <4>1 DEF Watched, Unread, Running
      <4>3. disk[opts[j].baseline] \in Lists(j)'
        BY <2>1, <2>2, <4>1, <4>2 DEF Lists
      <4> QED BY <2>2, <3>2, <4>1, <4>3
    <3> QED BY <3>1, <3>2
  <2>6. VerdictHonest'
    BY <2>1, VerdictsKept
  <2> QED BY <1>0, <2>3, <2>4, <2>5, <2>6
<1>7. ASSUME NEW j \in Jobs, Verdict(j) PROVE HonestInv'
  <2>1. /\ UNCHANGED <<disk, had, at, opts, seen, found, base>>
        /\ pc[j] = "verdict" /\ pc'[j] = "done"
        /\ outcome'[j] = Judged(j, Counted(j))
        /\ \A i \in Jobs \ {j} : pc'[i] = pc[i] /\ outcome'[i] = outcome[i]
    BY <1>7 DEF Verdict, Exit, Typed, TypeOK, job
  <2>2. Pipeline'
    BY <2>1 DEF Pipeline, Compared
  <2>3. Watched'
    BY <2>1 DEF Watched, Unread, Running
  <2>4. BaselineLoaded'
    BY <2>1, LoadedKept DEF Running, Compared
  <2>5. Counted(j) \in Promised(j)
    <3>1. found[j] = FindingsOf[seen[j]]
      BY <2>1 DEF Pipeline
    <3>2. CASE opts[j].baseline = None
      BY <3>1, <3>2 DEF Counted, Promised
    <3>3. CASE opts[j].baseline # None
      <4>1. PICK c \in Lists(j) : base[j] = Fingerprints(c.findings)
        BY <2>1, <3>3 DEF Pipeline, BaselineLoaded, Running
      <4> QED BY <3>1, <3>3, <4>1 DEF Counted, Promised, Lists
    <3> QED BY <3>2, <3>3
  <2>6. VerdictHonest'
    <3> SUFFICES ASSUME NEW i \in Jobs, outcome'[i] \in {"passed", "failed"}
                 PROVE  \E F \in Promised(i) : outcome'[i] = Judged(i, F)
      BY <2>1 DEF VerdictHonest, Promised, Judged
    <3> QED BY <2>1, <2>5 DEF VerdictHonest
  <2> QED BY <1>0, <2>2, <2>3, <2>4, <2>6
<1>8. ASSUME NEW j \in Jobs, Kill(j) \/ WriteError(j) PROVE HonestInv'
  <2>1. /\ UNCHANGED <<at, opts, seen, found, base>> /\ Watch
        /\ pc'[j] = "done" /\ outcome'[j] \in {"killed", "raised"}
        /\ at[j] # 0 => found[j] = FindingsOf[seen[j]]
        /\ \A i \in Jobs \ {j} : pc'[i] = pc[i] /\ outcome'[i] = outcome[i]
    BY <1>8 DEF Kill, WriteError, Interrupt, Exit, Typed, TypeOK, Pipeline, job
  <2>2. Pipeline'
    BY <2>1 DEF Pipeline, Compared
  <2>3. Watched'
    BY <2>1, WatchedStep DEF Unread, Running
  <2>4. \A i \in Jobs : had[i] \subseteq had'[i]
    BY <2>1, HadGrows
  <2>5. BaselineLoaded'
    BY <2>1, <2>4, LoadedKept DEF Compared, Running
  <2>6. VerdictHonest'
    BY <2>1, <2>4, VerdictsKept
  <2> QED BY <1>0, <2>2, <2>3, <2>5, <2>6
<1>9. ASSUME EditInput \/ UNCHANGED vars PROVE HonestInv'
  <2>1. UNCHANGED <<disk, had, pc, outcome, at, opts, seen, found, base>>
    BY <1>9 DEF EditInput, vars, job
  <2>2. Pipeline' /\ Watched'
    BY <2>1 DEF Pipeline, Compared, Watched, Unread, Running
  <2>3. BaselineLoaded' /\ VerdictHonest'
    BY <2>1, LoadedKept, VerdictsKept DEF Running, Compared
  <2> QED BY <1>0, <2>2, <2>3
<1>10. ASSUME NEW d \in Dirs, NEW s \in Saved, KeepBaseline(d, s) PROVE HonestInv'
  <2>1. UNCHANGED <<pc, outcome, at, opts, seen, found, base>> /\ Watch
    BY <1>10 DEF KeepBaseline, job
  <2>2. Pipeline' /\ Watched'
    BY <2>1, WatchedStep DEF Pipeline, Compared, Unread, Running
  <2>3. \A i \in Jobs : had[i] \subseteq had'[i]
    BY <2>1, HadGrows
  <2>4. BaselineLoaded' /\ VerdictHonest'
    BY <2>1, <2>3, LoadedKept, VerdictsKept DEF Running, Compared
  <2> QED BY <1>0, <2>2, <2>4
<1> QED BY <1>1, <1>2, <1>3, <1>4, <1>5, <1>6, <1>7, <1>8, <1>9, <1>10 DEF Next, Step

(***************************************************************************)
(* However many scans run, overlap, are killed or fail to write, wherever  *)
(* their baselines lie, and whatever the curator or the scans put in their *)
(* place meanwhile: a scan that ends with a verdict decided on its own     *)
(* input and on a list of findings its baseline file held since the scan   *)
(* was started.  That this need not be the list it was started against is  *)
(* what NewFindingFailsGate is violated by.                                *)
(***************************************************************************)
THEOREM GateIsHonest == Spec => []VerdictHonest
<1>1. Init => HonestInv
  BY InitHonest
<1>2. HonestInv /\ [Next]_vars => HonestInv'
  BY NextHonest
<1>3. HonestInv => VerdictHonest
  BY DEF HonestInv
<1> QED BY <1>1, <1>2, <1>3, PTL DEF Spec

-----------------------------------------------------------------------------
(***************************************************************************)
(* The argument for RefusalLeavesNoRecord.  The index of the file a job    *)
(* writes only grows and its texts are where that index was; the baseline  *)
(* is looked at when it is 6, and a refusal comes then or before any file. *)
(***************************************************************************)
AtInStep ==
    \A j \in Jobs :
        /\ pc[j] \in {"idle", "ingest", "media_root", "evaluate"} => at[j] = 0
        /\ pc[j] \in {"open", "write"} => at[j] # 0
        /\ pc[j] = "baseline" => at[j] = 6
        /\ pc[j] # "done" => outcome[j] = "none"

WrittenBy ==
    \A j \in Jobs, f \in Output \cup Records : disk[f].run = j =>
        /\ at[j] # 0
        /\ f \in Records \/ f[2] = Names[Comparison] => at[j] \in {Comparison, Record}

RefusedEarly ==
    \A j \in Jobs : outcome[j] = "refused" =>
        \/ at[j] = 0
        \/ at[j] = 6 /\ opts[j].baseline # None

RefusalInv == Typed /\ AtInStep /\ WrittenBy /\ RefusedEarly

LEMMA InitRefusal == Init => RefusalInv
<1> SUFFICES ASSUME Init PROVE RefusalInv
  OBVIOUS
<1>1. ASSUME NEW f \in Output \cup Records PROVE disk[f].run = None
  <2>1. f \in File \ Saved
    BY <1>1, ScanAssumption DEF File
  <2> QED BY <2>1 DEF Init, Blank
<1> QED BY <1>1, InitTyped, ScanAssumption DEF Init, RefusalInv, AtInStep, WrittenBy, RefusedEarly

\* What a job writes lies at its index: a report, its comparison, its record.
LEMMA TargetOfIndex ==
    ASSUME Typed, AtInStep, NEW j \in Jobs, pc[j] \in {"open", "write"}
    PROVE  /\ Target(j) \in File
           /\ Target(j) \in Records \/ Target(j)[2] = Names[Comparison]
                 => at[j] \in {Comparison, Record}
<1>1. opts[j].output_dir \in Dirs
  BY ScanAssumption DEF Typed, Started, Request
<1>2. CASE at[j] = Record
  BY <1>2 DEF Target, Records, File
<1>3. CASE at[j] # Record
  <2>1. at[j] \in 1 .. 7
    BY <1>3 DEF Typed, TypeOK, AtInStep, Record
  <2>2. Target(j) = <<opts[j].output_dir, Names[at[j]]>> /\ Target(j) \in Output
    BY <1>1, <1>3, <2>1, NamesAreArtifacts DEF Target, Output
  <2>3. Target(j) \notin Records
    BY <2>2, ScanAssumption
  <2>4. Names[at[j]] = Names[Comparison] => at[j] = Comparison
    BY <2>1 DEF Names, Comparison
  <2> QED BY <2>2, <2>3, <2>4 DEF File
<1> QED BY <1>2, <1>3

\* A step of a job that leaves at most a text of its own in its target.
LEMMA DiskStep ==
    ASSUME RefusalInv, NEW j \in Jobs,
           \/ UNCHANGED disk
           \/ /\ pc[j] \in {"open", "write"}
              /\ \E c \in Content : c.run \in {j, None} /\ disk' = [disk EXCEPT ![Target(j)] = c],
           \A i \in Jobs \ {j} : at'[i] = at[i],
           at[j] # 0 => at'[j] # 0,
           at[j] \in {Comparison, Record} => at'[j] \in {Comparison, Record}
    PROVE  WrittenBy'
<1> SUFFICES ASSUME NEW i \in Jobs, NEW f \in Output \cup Records, disk'[f].run = i
             PROVE  /\ at'[i] # 0
                    /\ f \in Records \/ f[2] = Names[Comparison]
                          => at'[i] \in {Comparison, Record}
  BY DEF WrittenBy
<1>1. i # None
  BY ScanAssumption
<1>2. CASE disk[f].run = i
  BY <1>2 DEF RefusalInv, WrittenBy
<1>3. CASE disk[f].run # i
  <2>1. f = Target(j) /\ i = j /\ pc[j] \in {"open", "write"}
    <3>1. PICK c \in Content : c.run \in {j, None} /\ disk' = [disk EXCEPT ![Target(j)] = c]
      BY <1>3
    <3>2. disk \in [File -> Content] /\ f \in File
      BY DEF RefusalInv, Typed, TypeOK, File
    <3> QED BY <1>1, <1>3, <3>1, <3>2
  <2>2. at[j] # 0
    BY <2>1 DEF RefusalInv, AtInStep
  <2> QED BY <2>1, <2>2, TargetOfIndex DEF RefusalInv
<1> QED BY <1>2, <1>3

LEMMA NextRefusal == RefusalInv /\ [Next]_vars => RefusalInv'
<1> SUFFICES ASSUME RefusalInv, [Next]_vars PROVE RefusalInv'
  OBVIOUS
<1>0. Typed'
  BY NextTyped DEF RefusalInv
<1>1. ASSUME NEW j \in Jobs, NEW r \in Requests, Start(j, r) PROVE RefusalInv'
  <2>1. /\ UNCHANGED <<disk, at>> /\ pc[j] = "idle" /\ at[j] = 0
        /\ \A i \in Jobs \ {j} : pc'[i] = pc[i] /\ outcome'[i] = outcome[i] /\ opts'[i] = opts[i]
        /\ \/ pc'[j] = "ingest" /\ outcome'[j] = outcome[j]
           \/ pc'[j] = "done"
    BY <1>1 DEF RefusalInv, Start, Goto, Exit, Typed, TypeOK, AtInStep
  <2>2. AtInStep' /\ RefusedEarly'
    BY <2>1 DEF RefusalInv, AtInStep, RefusedEarly
  <2>3. WrittenBy'
    BY <2>1 DEF RefusalInv, WrittenBy
  <2> QED BY <1>0, <2>2, <2>3 DEF RefusalInv
<1>2. ASSUME NEW j \in Jobs, Ingest(j) \/ CheckMediaRoot(j) \/ Evaluate(j) PROVE RefusalInv'
  <2>1. /\ UNCHANGED <<disk, opts>> /\ at[j] = 0
        /\ \A i \in Jobs \ {j} : /\ pc'[i] = pc[i] /\ outcome'[i] = outcome[i]
                               /\ at'[i] = at[i]
        /\ \/ pc'[j] \in {"media_root", "evaluate"} /\ outcome'[j] = "none" /\ at'[j] = 0
           \/ pc'[j] = "open" /\ outcome'[j] = "none" /\ at'[j] = 1
           \/ pc'[j] = "done" /\ at'[j] = 0
    BY <1>2 DEF RefusalInv, Ingest, CheckMediaRoot, Evaluate, Goto, Exit, Typed, TypeOK,
                AtInStep, job
  <2>2. AtInStep' /\ RefusedEarly'
    BY <2>1 DEF RefusalInv, AtInStep, RefusedEarly
  <2>3. WrittenBy'
    BY <2>1, DiskStep DEF Comparison, Record
  <2> QED BY <1>0, <2>2, <2>3 DEF RefusalInv
<1>3. ASSUME NEW j \in Jobs, Open(j) PROVE RefusalInv'
  <2>1. /\ UNCHANGED <<at, opts, outcome>>
        /\ pc[j] = "open" /\ pc'[j] = "write" /\ at[j] # 0 /\ outcome[j] = "none"
        /\ \A i \in Jobs \ {j} : pc'[i] = pc[i]
        /\ disk' = [disk EXCEPT ![Target(j)] = Blank("empty")]
    BY <1>3 DEF RefusalInv, Open, Goto, Typed, TypeOK, AtInStep, job
  <2>2. Blank("empty") \in Content /\ Blank("empty").run = None
    BY BlankIsContent DEF Blank, Kind
  <2>3. WrittenBy'
    BY <2>1, <2>2, DiskStep
  <2>4. AtInStep' /\ RefusedEarly'
    BY <2>1 DEF RefusalInv, AtInStep, RefusedEarly
  <2> QED BY <1>0, <2>3, <2>4 DEF RefusalInv
<1>4. ASSUME NEW j \in Jobs, Write(j) PROVE RefusalInv'
  <2>1. /\ UNCHANGED <<opts, outcome>>
        /\ pc[j] = "write" /\ outcome[j] = "none" /\ at[j] # 0 /\ at'[j] # 0
        /\ \/ pc'[j] \in {"open", "verdict"}
           \/ pc'[j] = "baseline" /\ at'[j] = 6
        /\ at[j] \in {Comparison, Record} => at'[j] \in {Comparison, Record}
        /\ \A i \in Jobs \ {j} : pc'[i] = pc[i] /\ at'[i] = at[i]
    BY <1>4 DEF RefusalInv, Write, Conclude, Goto, Typed, TypeOK, AtInStep, Comparison, Record
  <2>2. \E c \in Content : c.run \in {j, None} /\ disk' = [disk EXCEPT ![Target(j)] = c]
    <3>1. TextOf(j) \in Content /\ TextOf(j).run = j
      BY TextIsContent DEF RefusalInv, Typed, TypeOK, TextOf, New, Text
    <3>2. Blank("torn") \in Content /\ Blank("torn").run = None
      BY BlankIsContent DEF Kind, Blank
    <3> QED BY <1>4, <3>1, <3>2 DEF Write, After
  <2>3. WrittenBy'
    BY <2>1, <2>2, DiskStep
  <2>4. AtInStep' /\ RefusedEarly'
    BY <2>1 DEF RefusalInv, AtInStep, RefusedEarly
  <2> QED BY <1>0, <2>3, <2>4 DEF RefusalInv
<1>5. ASSUME NEW j \in Jobs, LoadBaseline(j) PROVE RefusalInv'
  <2>1. /\ UNCHANGED <<disk, opts>> /\ pc[j] = "baseline" /\ at[j] = 6
        /\ \A i \in Jobs \ {j} : /\ pc'[i] = pc[i] /\ outcome'[i] = outcome[i]
                               /\ at'[i] = at[i]
        /\ \/ pc'[j] \in {"open", "verdict"} /\ outcome'[j] = "none" /\ at'[j] # 0
           \/ pc'[j] = "done" /\ at'[j] = 6 /\ opts[j].baseline # None
    BY <1>5 DEF RefusalInv, LoadBaseline, Conclude, Goto, Exit, Typed, TypeOK, AtInStep,
                Comparison, Record
  <2>2. AtInStep' /\ RefusedEarly'
    BY <2>1 DEF RefusalInv, AtInStep, RefusedEarly
  <2>3. WrittenBy'
    BY <2>1, DiskStep DEF Comparison, Record
  <2> QED BY <1>0, <2>2, <2>3 DEF RefusalInv
<1>6. ASSUME NEW j \in Jobs, Verdict(j) \/ Kill(j) \/ WriteError(j) PROVE RefusalInv'
  <2>1. /\ UNCHANGED <<at, opts>> /\ pc'[j] = "done" /\ outcome'[j] # "refused"
        /\ \A i \in Jobs \ {j} : pc'[i] = pc[i] /\ outcome'[i] = outcome[i]
    BY <1>6 DEF RefusalInv, Verdict, Judged, Kill, WriteError, Interrupt, Exit, Typed, TypeOK, job
  <2>2. Blank("torn") \in Content /\ Blank("torn").run = None
    BY BlankIsContent DEF Kind, Blank
  <2>3. WrittenBy'
    BY <1>6, <2>1, <2>2, DiskStep DEF Verdict, Kill, WriteError, Interrupt
  <2>4. AtInStep' /\ RefusedEarly'
    BY <2>1 DEF RefusalInv, AtInStep, RefusedEarly
  <2> QED BY <1>0, <2>3, <2>4 DEF RefusalInv
<1>7. ASSUME EditInput \/ UNCHANGED vars PROVE RefusalInv'
  BY <1>0, <1>7 DEF EditInput, vars, job, RefusalInv, AtInStep, WrittenBy, RefusedEarly
<1>8. ASSUME NEW d \in Dirs, NEW s \in Saved, KeepBaseline(d, s) PROVE RefusalInv'
  <2>1. \A f \in Output \cup Records : disk'[f] = disk[f]
    BY <1>8, ScanAssumption DEF KeepBaseline, RefusalInv, Typed, TypeOK, File
  <2> QED BY <1>0, <1>8, <2>1 DEF KeepBaseline, job, RefusalInv, AtInStep, WrittenBy, RefusedEarly
<1> QED BY <1>1, <1>2, <1>3, <1>4, <1>5, <1>6, <1>7, <1>8 DEF Next, Step

(***************************************************************************)
(* A refused scan (exit 2) has written no comparison and no history        *)
(* record, and has written reports only if it was refused over its         *)
(* baseline, for any jobs, interleavings, kills and failing writes.        *)
(***************************************************************************)
THEOREM RefusalIsClean == Spec => []RefusalLeavesNoRecord
<1>1. RefusalInv => RefusalLeavesNoRecord
  BY ScanAssumption DEF RefusalInv, WrittenBy, RefusedEarly, RefusalLeavesNoRecord, Comparison, Record
<1> QED BY InitRefusal, NextRefusal, <1>1, PTL DEF Spec

-----------------------------------------------------------------------------
(***************************************************************************)
(* The argument for VerdictReported and LeftoverComparisonExplained, about *)
(* what scans leave on the disk.  Both follow from one fact: while nobody  *)
(* disturbs a job, or as long as the findings.json of its directory is its *)
(* own, everything it has written so far is there (InHand).                *)
(***************************************************************************)
FileOf(j, n) == IF n = Record THEN <<"runs", j>> ELSE <<opts[j].output_dir, Names[n]>>

TextAt(j, n) == Text(j, IF n = Comparison THEN New(found[j], base[j]) ELSE found[j])

\* Job j has written its n-th file to the end.
Wrote(j, n) ==
    /\ \/ at[j] > n
       \/ at[j] = n /\ pc[j] \notin {"open", "write"} /\ outcome[j] \notin {"killed", "raised"}
    /\ n = Comparison => opts[j].baseline # None

Undisturbed(j) == Running(j) /\ Alone(j)
Latest(j) == Serialized /\ disk[<<opts[j].output_dir, "findings.json">>].run = j

InHand ==
    \A j \in Jobs : Undisturbed(j) \/ Latest(j) =>
        \A n \in 1 .. Record : Wrote(j, n) => disk[FileOf(j, n)] = TextAt(j, n)

\* An undisturbed job writes into the file it emptied.
Opened == \A j \in Jobs : Undisturbed(j) /\ pc[j] = "write" => disk[Target(j)] = Blank("empty")

NoCompany ==
    /\ \A j \in Jobs : pc[j] = "idle" => opts[j] = None
    /\ \A i, j \in Jobs : i # j /\ Running(i) /\ Running(j) => ~opts[j].alone

Progress ==
    \A j \in Jobs :
        /\ at[j] # 0 => found[j] = FindingsOf[seen[j]]
        /\ pc[j] = "verdict" \/ outcome[j] \in {"passed", "failed"} =>
              /\ at[j] \in 6 .. Record
              /\ opts[j].baseline # None => at[j] # 6
              /\ opts[j].run_store => at[j] = Record

\* A text in an output directory is of a job that was sent there.
Owned ==
    \A f \in Output :
        /\ disk[f].kind = "report" => disk[f].run \in Jobs
        /\ disk[f].run \in Jobs => f[1] = opts[disk[f].run].output_dir

EvidenceInv == RefusalInv /\ NoCompany /\ Progress /\ Owned /\ Opened /\ InHand

-----------------------------------------------------------------------------
LEMMA FilesDiffer ==
    ASSUME NEW i \in Jobs, NEW j \in Jobs,
           opts[i].output_dir \in Dirs, opts[j].output_dir \in Dirs,
           NEW m \in 1 .. Record, NEW n \in 1 .. Record
    PROVE  /\ FileOf(i, m) \in Output \cup Records
           /\ FileOf(i, m) = FileOf(j, n) =>
                 /\ m = n
                 /\ IF m = Record THEN i = j ELSE opts[i].output_dir = opts[j].output_dir
<1>1. \A k \in Jobs : <<"runs", k>> \in Records
  BY DEF Records
<1>2. \A k \in {i, j}, p \in 1 .. 7 : <<opts[k].output_dir, Names[p]>> \in Output
  BY NamesAreArtifacts DEF Output
<1>3. \A p, q \in 1 .. 7 : Names[p] = Names[q] => p = q
  BY DEF Names
<1>4. \A p \in 1 .. Record : p = Record \/ p \in 1 .. 7
  BY DEF Record
<1> QED BY <1>1, <1>2, <1>3, <1>4, ScanAssumption DEF FileOf

\* A running job is one that was started, in one of the directories.
LEMMA HasDir ==
    ASSUME RefusalInv, NEW j \in Jobs, Running(j) \/ at[j] # 0
    PROVE  opts[j] \in Requests /\ opts[j] # None /\ opts[j].output_dir \in Dirs
BY ScanAssumption DEF RefusalInv, Typed, Started, AtInStep, Running, Request

LEMMA TargetIsFile ==
    ASSUME RefusalInv, NEW j \in Jobs, pc[j] \in {"open", "write"}
    PROVE  Running(j) /\ at[j] \in 1 .. Record /\ Target(j) = FileOf(j, at[j])
BY DEF RefusalInv, AtInStep, Typed, TypeOK, Running, Target, FileOf, Record

LEMMA JobStep ==
    ASSUME RefusalInv, NEW i \in Jobs, Step(i) \/ Kill(i) \/ WriteError(i)
    PROVE  /\ UNCHANGED opts
           /\ Running(i)
           /\ \A k \in Jobs \ {i} :
                 /\ pc'[k] = pc[k] /\ at'[k] = at[k] /\ outcome'[k] = outcome[k]
                 /\ seen'[k] = seen[k] /\ found'[k] = found[k] /\ base'[k] = base[k]
           /\ \/ UNCHANGED disk
              \/ /\ pc[i] \in {"open", "write"}
                 /\ \E c \in Content :
                       /\ c.run \in {i, None}
                       /\ c.kind = "report" => c.run = i
                       /\ disk' = [disk EXCEPT ![Target(i)] = c]
<1> USE DEF RefusalInv, Typed, TypeOK
<1>0. ASSUME NEW k \in Kind, k # "report"
      PROVE  Blank(k) \in Content /\ Blank(k).run = None /\ Blank(k).kind # "report"
  <2>1. Blank(k) \in Content
    BY <1>0, BlankIsContent
  <2> QED BY <1>0, <2>1 DEF Blank
<1>1. CASE Ingest(i) \/ CheckMediaRoot(i) \/ Evaluate(i) \/ Verdict(i)
  BY <1>1 DEF Ingest, CheckMediaRoot, Evaluate, Verdict, Goto, Exit, Running, job
<1>2. CASE Open(i)
  BY <1>2, <1>0 DEF Open, Goto, Running, job, Kind
<1>3. CASE Write(i)
  <2>1. TextOf(i) \in Content /\ TextOf(i).run = i
    BY TextIsContent DEF TextOf, New, Text
  <2>2. \E c \in Content : /\ c.run \in {i, None} /\ (c.kind = "report" => c.run = i)
                           /\ disk' = [disk EXCEPT ![Target(i)] = c]
    BY <1>3, <2>1, <1>0 DEF Write, After, Kind
  <2> QED BY <1>3, <2>2 DEF Write, Conclude, Goto, Running
<1>4. CASE LoadBaseline(i)
  BY <1>4 DEF LoadBaseline, Conclude, Goto, Exit, Running
<1>5. CASE Kill(i) \/ WriteError(i)
  <2>1. /\ pc' = [pc EXCEPT ![i] = "done"] /\ UNCHANGED job /\ Running(i)
        /\ \E how : outcome' = [outcome EXCEPT ![i] = how]
        /\ \/ UNCHANGED disk
           \/ pc[i] = "write" /\ disk' = [disk EXCEPT ![Target(i)] = Blank("torn")]
    BY <1>5 DEF Kill, WriteError, Interrupt, Exit, Running
  <2> QED BY <2>1, <1>0 DEF job, Kind
<1> QED BY <1>1, <1>2, <1>3, <1>4, <1>5 DEF Step

\* A job that is undisturbed afterwards, or whose findings lie there then,
\* was undisturbed when it took its step.
LEMMA WasUndisturbed ==
    ASSUME EvidenceInv, NEW j \in Jobs, Step(j) \/ Kill(j) \/ WriteError(j),
           Undisturbed(j)' \/ Latest(j)'
    PROVE  Undisturbed(j)
<1>1. /\ UNCHANGED opts /\ Running(j) /\ \A k \in Jobs \ {j} : at'[k] = at[k]
  BY JobStep DEF EvidenceInv
<1>2. CASE Undisturbed(j)'
  BY <1>1, <1>2 DEF Undisturbed, Alone
<1>3. CASE Latest(j)'
  <2>1. opts[j] # None
    BY <1>1, HasDir DEF EvidenceInv
  <2> QED BY <1>1, <1>3, <2>1 DEF Latest, Serialized, Undisturbed, Alone
<1> QED BY <1>2, <1>3

\* What an undisturbed job has there is not touched by another.
LEMMA OthersKeepOff ==
    ASSUME EvidenceInv, NEW i \in Jobs, NEW j \in Jobs, i # j,
           Step(i) \/ Kill(i) \/ WriteError(i), Undisturbed(j), NEW n \in 1 .. Record
    PROVE  disk'[FileOf(j, n)] = disk[FileOf(j, n)]
<1> USE DEF EvidenceInv
<1>1. CASE UNCHANGED disk
  BY <1>1
<1>2. CASE ~UNCHANGED disk
  <2>1. Running(i) /\ pc[i] \in {"open", "write"}
        /\ \E c \in Content : disk' = [disk EXCEPT ![Target(i)] = c]
    BY <1>2, JobStep
  <2>2. at[i] \in 1 .. Record /\ Target(i) = FileOf(i, at[i])
    BY <2>1, TargetIsFile
  <2>3. opts[i].output_dir \in Dirs /\ opts[j].output_dir \in Dirs
    BY <2>1, HasDir DEF Undisturbed
  <2>4. opts[i].output_dir # opts[j].output_dir
    BY <2>1, <2>2 DEF Undisturbed, Alone, NoCompany
  <2>5. FileOf(j, n) # FileOf(i, at[i]) /\ FileOf(j, n) \in File
    BY <2>2, <2>3, <2>4, FilesDiffer DEF File
  <2> QED BY <2>1, <2>2, <2>5 DEF RefusalInv, Typed, TypeOK
<1> QED BY <1>1, <1>2

\* With one scan at a time, a directory whose findings.json is still that of
\* a job that has ended was not written to since.
LEMMA OthersBeginWithFindings ==
    ASSUME EvidenceInv, NEW i \in Jobs, NEW j \in Jobs, i # j, at[j] # 0,
           Step(i) \/ Kill(i) \/ WriteError(i), Latest(j)'
    PROVE  /\ Latest(j)
           /\ \A n \in 1 .. Record : disk'[FileOf(j, n)] = disk[FileOf(j, n)]
<1> USE DEF EvidenceInv
<1>0. UNCHANGED opts
  BY JobStep
<1>1. CASE UNCHANGED disk
  BY <1>0, <1>1 DEF Latest, Serialized
<1>2. CASE ~UNCHANGED disk
  <2>1. PICK c \in Content : c.run \in {i, None} /\ disk' = [disk EXCEPT ![Target(i)] = c]
    BY <1>2, JobStep
  <2>2. Running(i) /\ pc[i] \in {"open", "write"}
    BY <1>2, JobStep
  <2>3. at[i] \in 1 .. Record /\ Target(i) = FileOf(i, at[i])
    BY <2>2, TargetIsFile
  <2>4. opts[i].output_dir \in Dirs /\ opts[j].output_dir \in Dirs /\ opts[i] # None
    BY <2>2, HasDir
  <2>5. Undisturbed(i)
    BY <1>0, <2>2, <2>4 DEF Latest, Serialized, Undisturbed, Alone
  <2>6. FileOf(j, 1) = <<opts[j].output_dir, "findings.json">>
        /\ FileOf(i, 1) = <<opts[i].output_dir, "findings.json">>
    BY DEF FileOf, Names, Record
  <2>7. disk \in [File -> Content] /\ FileOf(i, at[i]) \in File
    BY <2>3, <2>4, FilesDiffer DEF RefusalInv, Typed, TypeOK, File
  <2>8. at[i] = Record \/ opts[i].output_dir # opts[j].output_dir
    <3> SUFFICES ASSUME at[i] # Record, opts[i].output_dir = opts[j].output_dir PROVE FALSE
      OBVIOUS
    <3>1. disk'[FileOf(i, 1)].run = j
      BY <1>0, <2>6 DEF Latest
    <3>2. CASE at[i] = 1
      <4>1. disk'[FileOf(i, 1)] = c
        BY <2>1, <2>3, <2>7, <3>2
      <4> QED BY <2>1, <3>1, <4>1, ScanAssumption
    <3>3. CASE at[i] # 1
      <4>1. Wrote(i, 1)
        BY <2>3, <3>3 DEF Wrote, Comparison, Record
      <4>2. disk[FileOf(i, 1)].run = i
        <5>1. 1 \in 1 .. Record
          BY DEF Record
        <5>2. disk[FileOf(i, 1)] = TextAt(i, 1)
          BY <2>5, <4>1, <5>1 DEF InHand
        <5> QED BY <5>2 DEF TextAt, Text
      <4>3. FileOf(i, 1) # FileOf(i, at[i]) /\ FileOf(i, 1) \in File
        BY <2>3, <2>4, <3>3, FilesDiffer DEF File, Record
      <4>4. disk'[FileOf(i, 1)] = disk[FileOf(i, 1)]
        BY <2>1, <2>3, <2>7, <4>3
      <4> QED BY <3>1, <4>2, <4>4
    <3> QED BY <3>2, <3>3
  <2>9. \A n \in 1 .. Record : disk'[FileOf(j, n)] = disk[FileOf(j, n)]
    <3>1. \A n \in 1 .. Record : FileOf(j, n) # FileOf(i, at[i]) /\ FileOf(j, n) \in File
      BY <2>3, <2>4, <2>8, FilesDiffer DEF File
    <3> QED BY <2>1, <2>3, <2>7, <3>1
  <2> QED BY <1>0, <2>6, <2>9 DEF Latest, Serialized, Record
<1> QED BY <1>1, <1>2

-----------------------------------------------------------------------------
\* What a step adds to the files a job has written: the one it was writing.
LEMMA NewlyWrote ==
    ASSUME EvidenceInv, NEW j \in Jobs, Step(j) \/ Kill(j) \/ WriteError(j),
           NEW n \in 1 .. Record, Wrote(j, n)'
    PROVE  \/ /\ Wrote(j, n)
              /\ TextAt(j, n)' = TextAt(j, n)
              /\ pc[j] \in {"open", "write"} => n # at[j]
           \/ Write(j) /\ n = at[j] /\ TextAt(j, n)' = TextOf(j)
<1> USE DEF EvidenceInv, RefusalInv, Typed, TypeOK
<1>0. UNCHANGED opts /\ n \in 1 .. 8 /\ at[j] \in 0 .. 8
  BY JobStep DEF Record
<1>1. CASE Ingest(j) \/ CheckMediaRoot(j)
  <2>1. at[j] = 0 /\ UNCHANGED at
    BY <1>1 DEF Ingest, CheckMediaRoot, AtInStep, job
  <2> QED BY <1>0, <2>1 DEF Wrote
<1>2. CASE Evaluate(j)
  <2>1. at'[j] = 1 /\ pc'[j] = "open"
    BY <1>2 DEF Evaluate, Goto
  <2> QED BY <1>0, <2>1 DEF Wrote
<1>3. CASE Open(j)
  <2>1. pc[j] = "open" /\ pc'[j] = "write" /\ UNCHANGED <<at, opts, found, base>>
    BY <1>3 DEF Open, Goto, job
  <2> QED BY <1>0, <2>1 DEF Wrote, TextAt
<1>4. CASE Write(j)
  <2>1. /\ pc[j] = "write" /\ UNCHANGED <<opts, found, base>>
        /\ \/ at[j] \in 1 .. 5 /\ at'[j] = at[j] + 1 /\ pc'[j] = "open"
           \/ at'[j] = at[j] /\ at[j] \in {6, 7, 8}
           \/ at[j] = 7 /\ at'[j] = 8 /\ pc'[j] = "open"
    BY <1>4 DEF Write, Conclude, Goto, Comparison, Record
  <2>2. CASE n = at[j]
    BY <1>4, <2>1, <2>2 DEF TextAt, TextOf
  <2>3. CASE n # at[j]
    <3>1. at[j] > n
      BY <1>0, <2>1, <2>3 DEF Wrote
    <3> QED BY <1>0, <2>1, <2>3, <3>1 DEF Wrote, TextAt
  <2> QED BY <2>2, <2>3
<1>5. CASE LoadBaseline(j)
  <2>1. /\ pc[j] = "baseline" /\ at[j] = 6 /\ UNCHANGED found /\ outcome[j] = "none"
        /\ \/ opts[j].baseline = None /\ UNCHANGED base
           \/ at'[j] = 7 /\ pc'[j] = "open"
           \/ at'[j] = 6 /\ UNCHANGED base
    BY <1>5 DEF LoadBaseline, Conclude, Goto, Exit, AtInStep, Comparison
  <2>2. at'[j] \in {6, 7, 8}
    BY <1>5, <2>1 DEF LoadBaseline, Conclude, Comparison, Record
  <2>3. n <= 6 \/ (n = 8 /\ at'[j] = 8 /\ pc'[j] = "open")
    <3>1. n = 7 => opts[j].baseline # None
      BY <1>0 DEF Wrote, Comparison
    <3>2. CASE opts[j].baseline = None
      <4>1. at'[j] = 8 => pc'[j] = "open"
        BY <1>5, <2>1, <3>2 DEF LoadBaseline, Conclude, Goto, Record
      <4> QED BY <1>0, <2>1, <2>2, <3>1, <3>2, <4>1 DEF Wrote
    <3>3. CASE opts[j].baseline # None
      BY <1>0, <2>1, <3>3 DEF Wrote
    <3> QED BY <3>2, <3>3
  <2>4. n <= 6
    BY <2>3 DEF Wrote
  <2>5. Wrote(j, n)
    BY <1>0, <2>1, <2>4 DEF Wrote, Comparison
  <2> QED BY <1>0, <2>1, <2>4, <2>5 DEF TextAt, Comparison
<1>6. CASE Verdict(j) \/ Kill(j) \/ WriteError(j)
  <2>1. UNCHANGED job /\ pc'[j] = "done" /\ outcome[j] = "none"
        /\ \/ pc[j] = "verdict"
           \/ outcome'[j] \in {"killed", "raised"}
    BY <1>6 DEF Verdict, Kill, WriteError, Interrupt, Exit, AtInStep, Running
  <2>2. Wrote(j, n) /\ (pc[j] \in {"open", "write"} => n # at[j])
    BY <1>0, <2>1 DEF Wrote, job
  <2> QED BY <2>1, <2>2 DEF TextAt, job
<1> QED BY <1>1, <1>2, <1>3, <1>4, <1>5, <1>6 DEF Step

LEMMA OwnStep ==
    ASSUME EvidenceInv, NEW j \in Jobs, Step(j) \/ Kill(j) \/ WriteError(j),
           Undisturbed(j)' \/ Latest(j)', NEW n \in 1 .. Record, Wrote(j, n)'
    PROVE  disk'[FileOf(j, n)'] = TextAt(j, n)'
<1> USE DEF EvidenceInv
<1>1. Undisturbed(j)
  BY WasUndisturbed
<1>2. FileOf(j, n)' = FileOf(j, n)
  BY JobStep DEF FileOf
<1>3. CASE Write(j) /\ n = at[j] /\ TextAt(j, n)' = TextOf(j)
  <2>1. Target(j) = FileOf(j, n) /\ pc[j] = "write"
    BY <1>3, TargetIsFile DEF Write
  <2>2. disk[Target(j)] = Blank("empty")
    BY <1>1, <2>1 DEF Opened
  <2>3. disk' = [disk EXCEPT ![Target(j)] = TextOf(j)]
    BY <1>3, <2>2 DEF Write, After, Blank
  <2>4. Target(j) \in File
    BY <2>1, TargetOfIndex DEF RefusalInv
  <2> QED BY <1>2, <1>3, <2>1, <2>3, <2>4 DEF RefusalInv, Typed, TypeOK
<1>4. CASE /\ Wrote(j, n) /\ TextAt(j, n)' = TextAt(j, n)
           /\ pc[j] \in {"open", "write"} => n # at[j]
  <2>1. disk[FileOf(j, n)] = TextAt(j, n)
    BY <1>1, <1>4 DEF InHand
  <2>2. CASE UNCHANGED disk
    BY <1>2, <1>4, <2>1, <2>2
  <2>3. CASE ~UNCHANGED disk
    <3>1. pc[j] \in {"open", "write"} /\ \E c : disk' = [disk EXCEPT ![Target(j)] = c]
      BY <2>3, JobStep
    <3>2. at[j] \in 1 .. Record /\ Target(j) = FileOf(j, at[j]) /\ opts[j].output_dir \in Dirs
      BY <3>1, TargetIsFile, HasDir
    <3>3. FileOf(j, n) # Target(j) /\ FileOf(j, n) \in File
      BY <1>4, <3>1, <3>2, FilesDiffer DEF File
    <3> QED BY <1>2, <1>4, <2>1, <3>1, <3>3 DEF RefusalInv, Typed, TypeOK
  <2> QED BY <2>2, <2>3
<1> QED BY <1>3, <1>4, NewlyWrote

LEMMA StepInHand ==
    ASSUME EvidenceInv, NEW i \in Jobs, Step(i) \/ Kill(i) \/ WriteError(i)
    PROVE  InHand' /\ Opened'
<1> USE DEF EvidenceInv
<1>0. /\ UNCHANGED opts
      /\ \A k \in Jobs \ {i} : /\ pc'[k] = pc[k] /\ at'[k] = at[k] /\ outcome'[k] = outcome[k]
                               /\ found'[k] = found[k] /\ base'[k] = base[k]
  BY JobStep
<1>1. ASSUME NEW j \in Jobs, j # i, Undisturbed(j)'
      PROVE  Undisturbed(j)
  <2>1. Running(j)
    BY <1>0, <1>1 DEF Undisturbed, Running
  <2>2. \A k \in Jobs : at'[k] = 0 => at[k] = 0
    <3>1. at[i] # 0 => at'[i] # 0
      BY DEF Step, Ingest, CheckMediaRoot, Evaluate, Open, Write, LoadBaseline, Verdict, Kill,
             WriteError, Interrupt, Conclude, job, RefusalInv, Typed, TypeOK, Comparison, Record
    <3> QED BY <1>0, <3>1
  <2> QED BY <1>0, <1>1, <2>1, <2>2 DEF Undisturbed, Alone
<1>2. ASSUME NEW j \in Jobs, NEW n \in 1 .. Record, Undisturbed(j)' \/ Latest(j)', Wrote(j, n)'
      PROVE  disk'[FileOf(j, n)'] = TextAt(j, n)'
  <2>1. CASE j = i
    BY <1>2, <2>1, OwnStep
  <2>2. CASE j # i
    <3>1. /\ FileOf(j, n)' = FileOf(j, n) /\ TextAt(j, n)' = TextAt(j, n)
          /\ Wrote(j, n) /\ at[j] # 0
      <4>1. Wrote(j, n)
        BY <1>0, <1>2, <2>2 DEF Wrote
      <4> QED BY <1>0, <2>2, <4>1 DEF FileOf, TextAt, Wrote, RefusalInv, Typed, TypeOK, Record
    <3>2. CASE Undisturbed(j)'
      BY <1>1, <2>2, <3>1, <3>2, OthersKeepOff DEF InHand
    <3>3. CASE Latest(j)'
      BY <2>2, <3>1, <3>3, OthersBeginWithFindings DEF InHand
    <3> QED BY <1>2, <3>2, <3>3
  <2> QED BY <2>1, <2>2
<1>3. InHand'
  BY <1>2 DEF InHand
<1>4. ASSUME NEW j \in Jobs, Undisturbed(j)', pc'[j] = "write"
      PROVE  disk'[Target(j)'] = Blank("empty")
  <2>1. CASE j = i
    <3>1. Open(j)
      BY <1>4, <2>1 DEF Step, Ingest, CheckMediaRoot, Evaluate, Write, LoadBaseline, Verdict, Kill,
             WriteError, Interrupt, Conclude, Goto, Exit, RefusalInv, Typed, TypeOK
    <3>2. Target(j)' = Target(j) /\ pc[j] = "open" /\ disk' = [disk EXCEPT ![Target(j)] = Blank("empty")]
      BY <3>1 DEF Open, Target, job
    <3> QED BY <3>2, TargetOfIndex DEF RefusalInv, Typed, TypeOK
  <2>2. CASE j # i
    <3>1. Undisturbed(j) /\ pc[j] = "write" /\ Target(j)' = Target(j)
      BY <1>0, <1>1, <1>4, <2>2 DEF Target
    <3>2. at[j] \in 1 .. Record /\ Target(j) = FileOf(j, at[j])
      BY <3>1, TargetIsFile
    <3>3. disk'[Target(j)] = disk[Target(j)]
      BY <2>2, <3>1, <3>2, OthersKeepOff
    <3> QED BY <3>1, <3>3 DEF Opened
  <2> QED BY <2>1, <2>2
<1>5. Opened'
  BY <1>4 DEF Opened
<1> QED BY <1>3, <1>5

-----------------------------------------------------------------------------
LEMMA InitEvidence == Init => EvidenceInv
<1> SUFFICES ASSUME Init PROVE EvidenceInv
  OBVIOUS
<1>1. ASSUME NEW f \in Output PROVE disk[f] = Blank("absent")
  <2>1. f \in File \ Saved
    BY <1>1, ScanAssumption DEF File
  <2> QED BY <2>1 DEF Init
<1>2. Owned
  BY <1>1, ScanAssumption DEF Owned, Blank
<1>3. NoCompany /\ Progress /\ Opened
  BY DEF Init, NoCompany, Progress, Opened, Undisturbed, Running
<1>4. InHand
  <2> SUFFICES ASSUME NEW j \in Jobs, NEW n \in 1 .. Record PROVE ~Wrote(j, n)
    BY DEF InHand
  <2> QED BY DEF Init, Wrote, Record
<1> QED BY <1>2, <1>3, <1>4, InitRefusal DEF EvidenceInv

LEMMA StepProgress ==
    ASSUME EvidenceInv, NEW j \in Jobs, Step(j) \/ Kill(j) \/ WriteError(j)
    PROVE  Progress'
<1> USE DEF EvidenceInv, RefusalInv, Typed, TypeOK
<1>0. /\ UNCHANGED opts
      /\ \A k \in Jobs \ {j} : /\ pc'[k] = pc[k] /\ at'[k] = at[k] /\ outcome'[k] = outcome[k]
                               /\ seen'[k] = seen[k] /\ found'[k] = found[k]
  BY JobStep
<1>1. at'[j] # 0 => found'[j] = FindingsOf[seen'[j]]
  <2>1. CASE Ingest(j) \/ CheckMediaRoot(j)
    BY <2>1 DEF Ingest, CheckMediaRoot, AtInStep, job
  <2>2. CASE Evaluate(j)
    BY <2>2 DEF Evaluate
  <2>3. CASE Open(j) \/ Verdict(j) \/ Kill(j) \/ WriteError(j)
    BY <2>3 DEF Open, Verdict, Kill, WriteError, Interrupt, job, Progress
  <2>4. CASE Write(j) \/ LoadBaseline(j)
    <3>1. at[j] # 0 /\ UNCHANGED <<seen, found>>
      BY <2>4 DEF Write, LoadBaseline, AtInStep
    <3> QED BY <3>1 DEF Progress
  <2> QED BY <2>1, <2>2, <2>3, <2>4 DEF Step
<1>2. ASSUME pc'[j] = "verdict" \/ outcome'[j] \in {"passed", "failed"}
      PROVE  /\ at'[j] \in 6 .. Record
             /\ opts[j].baseline # None => at'[j] # 6
             /\ opts[j].run_store => at'[j] = Record
  <2>1. pc[j] # "done" /\ outcome[j] = "none"
    BY DEF AtInStep, Step, Ingest, CheckMediaRoot, Evaluate, Open, Write, LoadBaseline, Verdict,
           Kill, WriteError, Running
  <2>2. CASE Ingest(j) \/ CheckMediaRoot(j) \/ Evaluate(j) \/ Open(j) \/ Kill(j) \/ WriteError(j)
    BY <1>2, <2>1, <2>2 DEF Ingest, CheckMediaRoot, Evaluate, Open, Kill, WriteError, Interrupt,
           Goto, Exit
  <2>3. CASE Write(j)
    BY <1>2, <2>1, <2>3 DEF Write, Conclude, Goto, Comparison, Record
  <2>4. CASE LoadBaseline(j)
    BY <1>2, <2>1, <2>4 DEF LoadBaseline, Conclude, Goto, Exit, AtInStep, Comparison, Record
  <2>5. CASE Verdict(j)
    BY <2>5 DEF Verdict, Progress, job
  <2> QED BY <2>2, <2>3, <2>4, <2>5 DEF Step
<1> QED BY <1>0, <1>1, <1>2 DEF Progress

LEMMA StepOwned ==
    ASSUME EvidenceInv, NEW j \in Jobs, Step(j) \/ Kill(j) \/ WriteError(j)
    PROVE  Owned'
<1> USE DEF EvidenceInv
<1>0. UNCHANGED opts
  BY JobStep
<1>1. CASE UNCHANGED disk
  BY <1>0, <1>1 DEF Owned
<1>2. CASE ~UNCHANGED disk
  <2>1. PICK c \in Content : /\ c.run \in {j, None}
                             /\ c.kind = "report" => c.run = j
                             /\ disk' = [disk EXCEPT ![Target(j)] = c]
    BY <1>2, JobStep
  <2>2. at[j] \in 1 .. Record /\ Target(j) = FileOf(j, at[j])
    BY <1>2, JobStep, TargetIsFile
  <2> SUFFICES ASSUME NEW f \in Output
               PROVE  /\ disk'[f].kind = "report" => disk'[f].run \in Jobs
                      /\ disk'[f].run \in Jobs => f[1] = opts[disk'[f].run].output_dir
    BY <1>0 DEF Owned
  <2>3. f \in File /\ disk \in [File -> Content]
    BY DEF RefusalInv, Typed, TypeOK, File
  <2>4. CASE f # Target(j)
    BY <2>1, <2>3, <2>4 DEF Owned
  <2>5. CASE f = Target(j)
    <3>1. disk'[f] = c
      BY <2>1, <2>3, <2>5
    <3>2. f[1] = opts[j].output_dir
      <4>1. at[j] # Record
        BY <2>2, <2>5, ScanAssumption DEF FileOf, Records
      <4> QED BY <2>2, <2>5, <4>1 DEF FileOf
    <3> QED BY <2>1, <3>1, <3>2, ScanAssumption
  <2> QED BY <2>4, <2>5
<1> QED BY <1>1, <1>2

LEMMA NextEvidence == EvidenceInv /\ [Next]_vars => EvidenceInv'
<1> SUFFICES ASSUME EvidenceInv, [Next]_vars PROVE EvidenceInv'
  OBVIOUS
<1> USE DEF EvidenceInv
<1>0. RefusalInv'
  BY NextRefusal
<1>1. ASSUME NEW j \in Jobs, NEW r \in Requests, Start(j, r) PROVE EvidenceInv'
  <2>1. /\ UNCHANGED <<disk, at, seen, found, base>> /\ pc[j] = "idle" /\ at[j] = 0
        /\ opts[j] = None /\ opts'[j] = r /\ r # None /\ pc'[j] \in {"ingest", "done"}
        /\ outcome'[j] \in {"none", "refused"}
        /\ \A k \in Jobs \ {j} : pc'[k] = pc[k] /\ outcome'[k] = outcome[k] /\ opts'[k] = opts[k]
        /\ \A k \in Jobs : Running(k) => ~r.alone /\ ~opts[k].alone
    BY <1>1, ScanAssumption DEF RefusalInv, Start, Goto, Exit, Typed, TypeOK, AtInStep, NoCompany
  <2>2. NoCompany'
    BY <2>1 DEF NoCompany, Running
  <2>3. Progress'
    BY <2>1 DEF Progress
  <2>4. \A f \in Output : disk[f].run \in Jobs => disk[f].run # j
    BY <2>1 DEF RefusalInv, WrittenBy
  <2>5. Owned'
    BY <2>1, <2>4 DEF Owned
  <2>6. \A k \in Jobs, n \in 1 .. Record : Wrote(k, n)' =>
             k # j /\ Wrote(k, n) /\ FileOf(k, n)' = FileOf(k, n) /\ TextAt(k, n)' = TextAt(k, n)
    BY <2>1 DEF Wrote, FileOf, TextAt, Record
  <2>7. \A k \in Jobs \ {j} : Undisturbed(k)' => Undisturbed(k)
    BY <2>1 DEF Undisturbed, Alone, Running
  <2>8. \A k \in Jobs \ {j} : Latest(k)' => Latest(k)
    BY <2>1 DEF Latest, Serialized
  <2>9. InHand'
    BY <2>1, <2>6, <2>7, <2>8 DEF InHand
  <2>10. Opened'
    BY <2>1, <2>7 DEF Opened, Target
  <2> QED BY <1>0, <2>2, <2>3, <2>5, <2>9, <2>10
<1>2. ASSUME NEW j \in Jobs, Step(j) \/ Kill(j) \/ WriteError(j) PROVE EvidenceInv'
  <2>1. NoCompany'
    <3>1. /\ UNCHANGED opts /\ Running(j) /\ pc'[j] # "idle"
          /\ \A k \in Jobs \ {j} : pc'[k] = pc[k]
      <4>1. pc'[j] # "idle"
        BY <1>2 DEF Step, Ingest, CheckMediaRoot, Evaluate, Open, Write, LoadBaseline, Verdict,
               Kill, WriteError, Interrupt, Conclude, Goto, Exit, RefusalInv, Typed, TypeOK
      <4> QED BY <1>2, <4>1, JobStep
    <3> QED BY <3>1 DEF NoCompany, Running
  <2> QED BY <1>0, <1>2, <2>1, StepProgress, StepOwned, StepInHand
<1>3. ASSUME EditInput \/ UNCHANGED vars PROVE EvidenceInv'
  <2>1. UNCHANGED <<disk, pc, outcome, at, opts, seen, found, base>>
    BY <1>3 DEF EditInput, vars, job
  <2> QED BY <1>0, <2>1 DEF NoCompany, Progress, Owned, Opened, InHand, Undisturbed, Latest, Alone,
          Serialized, Running, Wrote, FileOf, TextAt, Target
<1>4. ASSUME NEW d \in Dirs, NEW s \in Saved, KeepBaseline(d, s) PROVE EvidenceInv'
  <2>1. UNCHANGED <<pc, outcome, at, opts, seen, found, base>>
        /\ \A f \in Output \cup Records : disk'[f] = disk[f]
    BY <1>4, ScanAssumption DEF KeepBaseline, job, RefusalInv, Typed, TypeOK, File
  <2>2. \A k \in Jobs, n \in 1 .. Record : at[k] # 0 => FileOf(k, n) \in Output \cup Records
    BY HasDir, FilesDiffer
  <2>3. \A k \in Jobs, n \in 1 .. Record : Wrote(k, n)' =>
             at[k] # 0 /\ Wrote(k, n) /\ FileOf(k, n)' = FileOf(k, n) /\ TextAt(k, n)' = TextAt(k, n)
    BY <2>1 DEF Wrote, FileOf, TextAt, Record, RefusalInv, Typed, TypeOK
  <2>4. \A k \in Jobs : at[k] # 0 /\ Latest(k)' => Latest(k)
    <3>1. \A k \in Jobs : at[k] # 0 => <<opts[k].output_dir, "findings.json">> \in Output
      BY HasDir, FindingsFile
    <3> QED BY <2>1, <3>1 DEF Latest, Serialized
  <2>5. \A k \in Jobs : Undisturbed(k)' => Undisturbed(k)
    BY <2>1 DEF Undisturbed, Alone, Running
  <2>6. InHand'
    BY <2>1, <2>2, <2>3, <2>4, <2>5 DEF InHand
  <2>7. Opened'
    <3> SUFFICES ASSUME NEW k \in Jobs, Undisturbed(k), pc[k] = "write"
                 PROVE  disk'[Target(k)] = Blank("empty")
      BY <2>1, <2>5 DEF Opened, Target
    <3>1. Target(k) \in Output \cup Records
      BY <2>2, TargetIsFile
    <3> QED BY <2>1, <3>1 DEF Opened
  <2>8. NoCompany' /\ Progress' /\ Owned'
    BY <2>1 DEF NoCompany, Progress, Owned, Running
  <2> QED BY <1>0, <2>6, <2>7, <2>8
<1> QED BY <1>1, <1>2, <1>3, <1>4 DEF Next

-----------------------------------------------------------------------------
LEMMA FoundFindings ==
    ASSUME EvidenceInv, NEW j \in Jobs, at[j] # 0
    PROVE  found[j] = FindingsOf[seen[j]]
BY DEF EvidenceInv, Progress

LEMMA VerdictStep == EvidenceInv /\ [Next]_vars =>
    \A j \in Jobs : outcome[j] = "none" /\ outcome'[j] \in {"passed", "failed"} /\ Alone(j) => Reported(j)'
<1> SUFFICES ASSUME EvidenceInv, [Next]_vars, NEW j \in Jobs, outcome[j] = "none",
                    outcome'[j] \in {"passed", "failed"}, Alone(j)
             PROVE  Reported(j)'
  OBVIOUS
<1> USE DEF EvidenceInv, RefusalInv, Typed, TypeOK
<1>1. Verdict(j)
  <2>1. ASSUME NEW i \in Jobs, NEW r \in Requests, Start(i, r) PROVE FALSE
    BY <2>1 DEF Start, Goto, Exit
  <2>2. ASSUME NEW i \in Jobs, Step(i) \/ Kill(i) \/ WriteError(i) PROVE Verdict(j)
    <3>1. i = j
      BY <2>2, JobStep
    <3>2. Step(j)
      BY <2>2, <3>1 DEF Kill, WriteError, Interrupt, Exit
    <3> QED BY <3>2 DEF Step, Ingest, CheckMediaRoot, Evaluate, Open, Write, LoadBaseline, Conclude,
            Goto, Exit
  <2> QED BY <2>1, <2>2 DEF Next, EditInput, KeepBaseline, vars
<1>2. UNCHANGED <<disk, job>> /\ pc[j] = "verdict"
  BY <1>1 DEF Verdict
<1>3. /\ at[j] \in 6 .. 8
      /\ opts[j].baseline # None => at[j] # 6
      /\ opts[j].run_store => at[j] = 8
  BY <1>2 DEF Progress, Record
<1>4. Undisturbed(j)
  BY <1>2 DEF Undisturbed, Running
<1>5. \A n \in 1 .. Record : n <= at[j] /\ (n = 7 => opts[j].baseline # None) => Wrote(j, n)
  BY <1>2, <1>3 DEF Wrote, Record, Comparison
<1>6. \A n \in 1 .. Record : n <= at[j] /\ (n = 7 => opts[j].baseline # None)
            => disk[FileOf(j, n)] = TextAt(j, n)
  BY <1>4, <1>5 DEF InHand
<1>7. found[j] = FindingsOf[seen[j]]
  BY <1>3, FoundFindings
<1>8. \A n \in 1 .. 6 : disk[<<opts[j].output_dir, Names[n]>>] = Text(j, FindingsOf[seen[j]])
  BY <1>3, <1>6, <1>7 DEF FileOf, TextAt, Record, Comparison
<1>9. opts[j].baseline # None =>
         disk[<<opts[j].output_dir, Names[Comparison]>>] = Text(j, New(FindingsOf[seen[j]], base[j]))
  BY <1>3, <1>6, <1>7 DEF FileOf, TextAt, Record, Comparison
<1>10. opts[j].run_store => disk[<<"runs", j>>] = Text(j, FindingsOf[seen[j]])
  BY <1>3, <1>6, <1>7 DEF FileOf, TextAt, Record, Comparison
<1> QED BY <1>2, <1>8, <1>9, <1>10 DEF Reported, Reports, job

(***************************************************************************)
(* A scan that ends with a verdict leaves the evidence for it: its six     *)
(* reports, its comparison and its history record, each with the findings  *)
(* of the input it read, for any number of scans, if no other scan wrote   *)
(* to the directory meanwhile.                                             *)
(***************************************************************************)
THEOREM VerdictIsBacked == Spec => VerdictReported
BY InitEvidence, NextEvidence, VerdictStep, PTL DEF Spec, VerdictReported

\* The reports in the directory of the job whose findings.json lies there.
LEMMA LatestComplete ==
    ASSUME EvidenceInv, NEW j \in Jobs, Latest(j), at[j] # 0,
           outcome[j] \in {"passed", "failed", "refused"}
    PROVE  /\ \A n \in Reports : disk[<<opts[j].output_dir, Names[n]>>] = Text(j, found[j])
           /\ outcome[j] # "refused" /\ opts[j].baseline # None =>
                 disk[<<opts[j].output_dir, Names[Comparison]>>].run = j
<1> USE DEF EvidenceInv
<1>1. pc[j] = "done"
  BY DEF RefusalInv, AtInStep, Typed, TypeOK
<1>2. /\ at[j] \in 6 .. 8
      /\ outcome[j] # "refused" /\ opts[j].baseline # None => at[j] # 6
  BY DEF RefusalInv, RefusedEarly, Progress, Record
<1>3. \A n \in 1 .. 6 : Wrote(j, n)
  BY <1>1, <1>2 DEF Wrote, Comparison
<1>4. outcome[j] # "refused" /\ opts[j].baseline # None => Wrote(j, 7)
  BY <1>1, <1>2 DEF Wrote
<1>5. \A n \in 1 .. 6 : disk[FileOf(j, n)] = TextAt(j, n)
  BY <1>3 DEF InHand, Record
<1>6. outcome[j] # "refused" /\ opts[j].baseline # None => disk[FileOf(j, 7)] = TextAt(j, 7)
  BY <1>4 DEF InHand, Record
<1> QED BY <1>5, <1>6 DEF FileOf, TextAt, Text, Record, Comparison, Reports

(***************************************************************************)
(* With one scan at a time, a comparison beside the findings of another    *)
(* run was left there by an earlier scan, the later one having had no      *)
(* baseline or not having finished.                                        *)
(***************************************************************************)
THEOREM LeftoversExplained == Spec => []LeftoverComparisonExplained
<1>1. EvidenceInv => LeftoverComparisonExplained
  <2> SUFFICES ASSUME EvidenceInv, Serialized, NEW d \in Dirs,
                      disk[<<d, "findings.json">>].kind = "report",
                      disk[<<d, Names[Comparison]>>].run # disk[<<d, "findings.json">>].run,
                      opts[disk[<<d, "findings.json">>].run].baseline # None,
                      outcome[disk[<<d, "findings.json">>].run] \in {"passed", "failed"}
               PROVE  FALSE
    BY DEF LeftoverComparisonExplained
  <2> DEFINE j == disk[<<d, "findings.json">>].run
  <2>1. j \in Jobs /\ opts[j].output_dir = d /\ at[j] # 0
    BY FindingsFile DEF EvidenceInv, Owned, RefusalInv, WrittenBy
  <2>2. Latest(j)
    BY <2>1 DEF Latest
  <2>3. disk[<<d, Names[Comparison]>>].run = j
    BY <2>1, <2>2, LatestComplete
  <2> QED BY <2>3
<1> QED BY <1>1, InitEvidence, NextEvidence, PTL DEF Spec

-----------------------------------------------------------------------------
(***************************************************************************)
(* cli.scan implements ScanContract: every step of a scan is a step of the *)
(* contract or changes at most what a file is worth as a baseline.         *)
(*                                                                         *)
(* HonestInv says what was compared with, RefusalInv where a refusal may   *)
(* come.  The contract also asks that a record is entered whole, once, and *)
(* by nobody who goes on to be refused.                                    *)
(***************************************************************************)
RecordsFollow ==
    \A j \in Jobs :
        /\ RecordOf(j).kind = "report" =>
              at[j] = Record /\ pc[j] \in {"verdict", "done"}
        /\ at[j] = Record => opts[j].run_store
        /\ pc[j] = "write" /\ at[j] = Record => RecordOf(j).kind = "empty"
        /\ pc[j] = "verdict" /\ opts[j].run_store =>
              at[j] = Record /\ RecordOf(j).kind = "report"

RefInv == HonestInv /\ RefusalInv /\ RecordsFollow

LEMMA RecordIsFile ==
    \A j \in Jobs : <<"runs", j>> \in File /\ <<"runs", j>> \notin Saved \cup Output
<1>1. \A j \in Jobs : <<"runs", j>> \in Records
  BY DEF Records
<1> QED BY <1>1, ScanAssumption DEF File

LEMMA InitRef == Init => RefInv
<1> SUFFICES ASSUME Init PROVE RefInv
  OBVIOUS
<1>1. \A j \in Jobs : RecordOf(j) = Blank("absent")
  BY RecordIsFile DEF Init, RecordOf
<1>2. RecordsFollow
  BY <1>1 DEF Init, RecordsFollow, Blank, Record
<1> QED BY <1>2, InitHonest, InitRefusal DEF RefInv

\* The record of a run is written by that run's last writing step only.
LEMMA RecordStep ==
    ASSUME RefInv, NEW i \in Jobs, Step(i) \/ Kill(i) \/ WriteError(i), NEW j \in Jobs
    PROVE  RecordOf(j)' = RecordOf(j) \/ (i = j /\ at[i] = Record /\ pc[i] \in {"open", "write"})
<1>1. CASE UNCHANGED disk
  BY <1>1 DEF RecordOf
<1>2. CASE ~UNCHANGED disk
  <2>1. pc[i] \in {"open", "write"} /\ \E c \in Content : disk' = [disk EXCEPT ![Target(i)] = c]
    BY <1>2, JobStep DEF RefInv
  <2>2. at[i] \in 1 .. Record /\ Target(i) = FileOf(i, at[i]) /\ opts[i].output_dir \in Dirs
    BY <2>1, TargetIsFile, HasDir DEF RefInv
  <2>3. (at[i] = Record /\ i = j) \/ Target(i) # <<"runs", j>>
    <3>1. CASE at[i] = Record
      BY <2>2, <3>1 DEF FileOf
    <3>2. CASE at[i] # Record
      <4>1. Target(i) \in Output
        <5>1. at[i] \in 1 .. 7
          BY <2>2, <3>2 DEF Record
        <5> QED BY <2>2, <3>2, <5>1, NamesAreArtifacts DEF FileOf, Output
      <4> QED BY <4>1, ScanAssumption DEF Records
    <3> QED BY <3>1, <3>2
  <2> QED BY <2>1, <2>3 DEF RecordOf
<1> QED BY <1>1, <1>2

LEMMA NextRef == RefInv /\ [Next]_vars => RefInv'
<1> SUFFICES ASSUME RefInv, [Next]_vars PROVE RecordsFollow'
  BY NextHonest, NextRefusal DEF RefInv
<1> USE DEF RefInv, RefusalInv, Typed, TypeOK
<1>1. ASSUME NEW j \in Jobs, NEW r \in Requests, Start(j, r) PROVE RecordsFollow'
  <2>1. /\ pc[j] = "idle" /\ at[j] = 0 /\ UNCHANGED <<disk, at>> /\ pc'[j] \in {"ingest", "done"}
        /\ \A i \in Jobs \ {j} : pc'[i] = pc[i] /\ opts'[i] = opts[i]
    BY <1>1 DEF Start, Goto, Exit, AtInStep
  <2>2. \A i \in Jobs : RecordOf(i)' = RecordOf(i)
    BY <2>1 DEF RecordOf
  <2> QED BY <2>1, <2>2 DEF RecordsFollow, Record
<1>2. ASSUME NEW j \in Jobs, Step(j) \/ Kill(j) \/ WriteError(j) PROVE RecordsFollow'
  <2>1. /\ UNCHANGED opts
        /\ \A i \in Jobs \ {j} : /\ pc'[i] = pc[i] /\ at'[i] = at[i]
                               /\ RecordOf(i)' = RecordOf(i)
    BY <1>2, JobStep, RecordStep
  <2>2. at[j] # Record \/ pc[j] \notin {"open", "write"} => RecordOf(j)' = RecordOf(j)
    BY <1>2, RecordStep
  <2>3. /\ RecordOf(j)'.kind = "report" => at'[j] = Record /\ pc'[j] \in {"verdict", "done"}
        /\ at'[j] = Record => opts[j].run_store
        /\ pc'[j] = "write" /\ at'[j] = Record => RecordOf(j)'.kind = "empty"
        /\ pc'[j] = "verdict" /\ opts[j].run_store =>
              at'[j] = Record /\ RecordOf(j)'.kind = "report"
    <3>1. CASE Ingest(j) \/ CheckMediaRoot(j) \/ Evaluate(j)
      <4>1. at[j] = 0 /\ at'[j] \in {0, 1} /\ pc'[j] # "verdict"
        BY <3>1 DEF Ingest, CheckMediaRoot, Evaluate, Goto, Exit, AtInStep, job
      <4> QED BY <2>2, <4>1 DEF RecordsFollow, Record
    <3>2. CASE Open(j)
      <4>1. pc[j] = "open" /\ pc'[j] = "write" /\ at'[j] = at[j]
        BY <3>2 DEF Open, Goto, job
      <4>2. at[j] = Record => RecordOf(j)' = Blank("empty")
        BY <3>2, RecordIsFile DEF Open, Target, RecordOf
      <4> QED BY <2>2, <4>1, <4>2 DEF RecordsFollow, Blank
    <3>3. CASE Write(j)
      <4>1. /\ pc[j] = "write"
            /\ \/ at[j] = Record /\ at'[j] = Record /\ pc'[j] = "verdict"
               \/ at[j] # Record /\ at'[j] = Record /\ pc'[j] = "open" /\ opts[j].run_store
               \/ at[j] # Record /\ at'[j] # Record /\ pc'[j] # "verdict"
               \/ at[j] # Record /\ at'[j] # Record /\ pc'[j] = "verdict" /\ ~opts[j].run_store
        BY <3>3 DEF Write, Conclude, Goto, Comparison, Record
      <4>2. at[j] = Record => RecordOf(j)'.kind = "report"
        BY <3>3, <4>1, RecordIsFile DEF Write, Target, RecordOf, After, TextOf, Text, RecordsFollow
      <4> QED BY <2>2, <4>1, <4>2 DEF RecordsFollow
    <3>4. CASE LoadBaseline(j)
      <4>1. pc[j] = "baseline" /\ at[j] = 6
            /\ \/ at'[j] = Record /\ pc'[j] = "open" /\ opts[j].run_store
               \/ at'[j] # Record /\ pc'[j] = "verdict" /\ ~opts[j].run_store
               \/ at'[j] # Record /\ pc'[j] \in {"open", "done"}
        BY <3>4 DEF LoadBaseline, Conclude, Goto, Exit, AtInStep, Comparison, Record
      <4> QED BY <2>2, <4>1 DEF RecordsFollow, Record
    <3>5. CASE Verdict(j)
      <4>1. pc[j] = "verdict" /\ pc'[j] = "done" /\ at'[j] = at[j]
        BY <3>5 DEF Verdict, Exit, job
      <4> QED BY <2>2, <4>1 DEF RecordsFollow
    <3>6. CASE Kill(j) \/ WriteError(j)
      <4>1. /\ Running(j) /\ pc'[j] = "done" /\ at'[j] = at[j]
            /\ \/ UNCHANGED disk
               \/ pc[j] = "write" /\ disk' = [disk EXCEPT ![Target(j)] = Blank("torn")]
        BY <3>6 DEF Kill, WriteError, Interrupt, Exit, Running, job
      <4>2. RecordOf(j)' = RecordOf(j) \/ RecordOf(j)' = Blank("torn")
        BY <4>1, RecordIsFile DEF RecordOf
      <4> QED BY <4>1, <4>2 DEF RecordsFollow, Blank
    <3> QED BY <1>2, <3>1, <3>2, <3>3, <3>4, <3>5, <3>6 DEF Step
  <2> QED BY <2>1, <2>3 DEF RecordsFollow
<1>3. ASSUME EditInput \/ UNCHANGED vars PROVE RecordsFollow'
  BY <1>3 DEF EditInput, vars, job, RecordsFollow, RecordOf
<1>4. ASSUME NEW d \in Dirs, NEW s \in Saved, KeepBaseline(d, s) PROVE RecordsFollow'
  <2>1. \A j \in Jobs : RecordOf(j)' = RecordOf(j)
    BY <1>4, RecordIsFile DEF KeepBaseline, RecordOf
  <2> QED BY <1>4, <2>1 DEF KeepBaseline, job, RecordsFollow
<1> QED BY <1>1, <1>2, <1>3, <1>4 DEF Next

-----------------------------------------------------------------------------
\* What a file is worth is always a set of fingerprints, or None.
LEMMA WorthType ==
    ASSUME NEW D \in [File -> Content]
    PROVE  [f \in File |-> IF Readable(f, D[f]) THEN Fingerprints(D[f].findings) ELSE None]
              \in Contract!Worths
<1>1. \A f \in File : D[f].findings \in SUBSET Finding
  BY DEF Content
<1> QED BY <1>1, FingerprintsType DEF Contract!Worths

\* The same for the contract, step by step: nothing but files changes.
SameJobs ==
    \A j \in Jobs : /\ State(j)' = State(j) /\ Looked(j)' = Looked(j)
                    /\ Known(j)' = Known(j) /\ Entered(j)' = Entered(j)

LEMMA OnlyFiles ==
    ASSUME Typed', SameJobs, UNCHANGED opts
    PROVE  Contract!Disk
<1>1. [f \in File |-> Worth(f)]' \in Contract!Worths
  BY WorthType DEF Worth, Typed, TypeOK
<1> QED BY <1>1 DEF Contract!Disk, SameJobs

LEMMA Stutter ==
    ASSUME SameJobs, UNCHANGED <<opts, disk>>
    PROVE  UNCHANGED Contract!vars
BY DEF Contract!vars, SameJobs, Worth

\* The step of the job that ends, in any way.
LEMMA EndsStep ==
    ASSUME Typed, NEW j \in Jobs, NEW how, Running(j), UNCHANGED <<opts, found, base, at>>,
           Exit(j, how), \A i \in Jobs : Entered(i)' = Entered(i)
    PROVE  Contract!Ends(j, how) /\ State(j) = "running"
<1>1. /\ pc'[j] = "done" /\ outcome'[j] = how /\ pc[j] \notin {"idle", "done"}
      /\ \A i \in Jobs \ {j} : pc'[i] = pc[i] /\ outcome'[i] = outcome[i]
  BY DEF Exit, Typed, TypeOK, Running
<1>2. State(j)' = how /\ \A i \in Jobs \ {j} : State(i)' = State(i)
  BY <1>1 DEF State
<1>3. \A i \in Jobs : Looked(i)' = Looked(i) /\ Known(i)' = Known(i)
  BY DEF Looked, Known, Compared
<1>4. [i \in Jobs |-> State(i)]' = [[i \in Jobs |-> State(i)] EXCEPT ![j] = how]
  BY <1>2
<1> QED BY <1>1, <1>3, <1>4 DEF Contract!Ends, State

\* The contract has the comparison and the threshold of the code.
LEMMA SameGate ==
    /\ \A F, B : Contract!New(F, B) = New(F, B)
    /\ \A level, F : Contract!Blocks(level, F) = Blocks(level, F)
BY DEF New, Contract!New, Blocks, Contract!Blocks, SEVERITY_ORDER, Contract!SEVERITY_ORDER

LEMMA InitRefines == Init => Contract!Init
<1> SUFFICES ASSUME Init PROVE Contract!Init
  OBVIOUS
<1>1. Typed
  BY InitTyped
<1>2. [f \in File |-> Worth(f)] \in Contract!Worths
  BY <1>1, WorthType DEF Worth, Typed, TypeOK
<1>3. \A j \in Jobs : Entered(j) = None
  <2>1. \A j \in Jobs : RecordOf(j) = Blank("absent")
    BY RecordIsFile DEF Init, RecordOf
  <2> QED BY <2>1 DEF Entered, Blank
<1>4. \A j \in Jobs : State(j) = "idle" /\ Looked(j) = None /\ Known(j) = None
  BY DEF Init, State, Looked, Known, Compared, Comparison, Record
<1> QED BY <1>2, <1>3, <1>4 DEF Init, Contract!Init

LEMMA StepRefines ==
    ASSUME RefInv, RefInv', [Next]_vars
    PROVE  [Contract!Next]_(Contract!vars)
<1> USE DEF RefInv, HonestInv
<1>1. ASSUME NEW j \in Jobs, NEW r \in Requests, Start(j, r)
      PROVE  Contract!Begin(j)
  <2>1. pc[j] = "idle" /\ at[j] = 0 /\ UNCHANGED <<disk, at, found, base>>
    BY <1>1 DEF Start, Pipeline
  <2>2. /\ \A i \in Jobs \ {j} : pc'[i] = pc[i] /\ outcome'[i] = outcome[i] /\ opts'[i] = opts[i]
        /\ IF Accepted(r) THEN pc'[j] = "ingest" ELSE pc'[j] = "done" /\ outcome'[j] = "refused"
        /\ opts' = [opts EXCEPT ![j] = r]
    BY <1>1 DEF Start, Goto, Exit, Typed, TypeOK
  <2>3. /\ State(j) = "idle" /\ State(j)' = (IF Accepted(r) THEN "running" ELSE "refused")
        /\ \A i \in Jobs \ {j} : State(i)' = State(i)
    BY <2>1, <2>2 DEF State
  <2>4. [i \in Jobs |-> State(i)]' =
           [[i \in Jobs |-> State(i)] EXCEPT ![j] = IF Accepted(r) THEN "running" ELSE "refused"]
    BY <2>3
  <2>5. \A i \in Jobs : /\ Looked(i)' = Looked(i) /\ Known(i)' = Known(i)
                        /\ Entered(i)' = Entered(i)
    BY <2>1, <2>2 DEF Looked, Known, Compared, Entered, RecordOf, Comparison, Record
  <2>6. \A f \in File : Worth(f)' = Worth(f)
    BY <2>1 DEF Worth
  <2> QED BY <2>2, <2>3, <2>4, <2>5, <2>6, ZenonT(60) DEF Contract!Begin
<1>2. ASSUME NEW j \in Jobs, Ingest(j) \/ CheckMediaRoot(j)
      PROVE  UNCHANGED Contract!vars \/ Contract!Refuse(j) \/ Contract!BreakOff(j)
  <2>1. /\ UNCHANGED <<disk, opts, found, base, at>> /\ Running(j)
        /\ at[j] = 0 /\ pc[j] \in {"ingest", "media_root"}
    BY <1>2 DEF Ingest, CheckMediaRoot, Running, Pipeline, job
  <2>2. \A i \in Jobs : Entered(i)' = Entered(i)
    BY <2>1 DEF Entered, RecordOf
  <2>3. CASE Goto(j, "media_root") \/ Goto(j, "evaluate")
    <3>1. SameJobs
      BY <2>1, <2>2, <2>3 DEF Goto, Typed, TypeOK, SameJobs, State, Looked, Known, Compared
    <3> QED BY <2>1, <3>1, Stutter
  <2>4. ASSUME NEW how \in {"refused", "raised"}, Exit(j, how)
        PROVE  Contract!Refuse(j) \/ Contract!BreakOff(j)
    <3>1. Contract!Ends(j, how) /\ State(j) = "running"
      BY <2>1, <2>2, <2>4, EndsStep
    <3>2. Known(j) = None /\ Entered(j) = None
      BY <2>1 DEF Known, Compared, Entered, RecordsFollow, Comparison, Record
    <3>3. \A f \in File : Worth(f)' = Worth(f)
      BY <2>1 DEF Worth
    <3>4. [f \in File |-> Worth(f)]' = [f \in File |-> Worth(f)]
      BY <3>3
    <3>5. [f \in File |-> Worth(f)]' \in Contract!Worths
      BY WorthType DEF Worth, Typed, TypeOK
    <3>6. CASE how = "refused"
      BY <3>1, <3>2, <3>4, <3>6 DEF Contract!Refuse
    <3>7. CASE how = "raised"
      BY <3>1, <3>5, <3>7 DEF Contract!BreakOff
    <3> QED BY <3>6, <3>7
  <2> QED BY <1>2, <2>3, <2>4 DEF Ingest, CheckMediaRoot
<1>3. ASSUME NEW j \in Jobs, Evaluate(j)
      PROVE  Contract!Look(j)
  <2>1. /\ UNCHANGED <<disk, opts, base, outcome>>
        /\ pc[j] = "evaluate" /\ at[j] = 0 /\ pc'[j] = "open" /\ at'[j] = 1
        /\ found'[j] \in SUBSET Finding
        /\ \A i \in Jobs \ {j} : pc'[i] = pc[i] /\ at'[i] = at[i] /\ found'[i] = found[i]
    BY <1>3 DEF Evaluate, Goto, Typed, TypeOK, Pipeline
  <2>2. /\ Looked(j) = None /\ Looked(j)' = found'[j]
        /\ \A i \in Jobs \ {j} : Looked(i)' = Looked(i)
    BY <2>1 DEF Looked
  <2>3. [i \in Jobs |-> Looked(i)]' = [[i \in Jobs |-> Looked(i)] EXCEPT ![j] = found'[j]]
    BY <2>2
  <2>4. \A i \in Jobs : /\ State(i)' = State(i) /\ Known(i)' = Known(i)
                        /\ Entered(i)' = Entered(i)
    BY <2>1 DEF State, Known, Compared, Entered, RecordOf, Comparison, Record
  <2>5. \A f \in File : Worth(f)' = Worth(f)
    BY <2>1 DEF Worth
  <2>6. State(j) = "running"
    BY <2>1 DEF State
  <2> QED BY <2>1, <2>2, <2>3, <2>4, <2>5, <2>6 DEF Contract!Look
<1>4. ASSUME NEW j \in Jobs, Open(j)
      PROVE  Contract!Disk
  <2>1. /\ UNCHANGED <<at, opts, found, base, outcome>>
        /\ pc[j] = "open" /\ pc'[j] = "write"
        /\ \A i \in Jobs \ {j} : pc'[i] = pc[i]
    BY <1>4 DEF Open, Goto, Typed, TypeOK, job
  <2>2. ASSUME NEW i \in Jobs PROVE Entered(i)' = Entered(i)
    <3>1. CASE RecordOf(i)' = RecordOf(i)
      BY <3>1 DEF Entered
    <3>2. CASE RecordOf(i)' # RecordOf(i)
      <4>1. i = j /\ at[j] = Record
        BY <1>4, <3>2, RecordStep DEF Step
      <4>2. RecordOf(j)' = Blank("empty")
        BY <1>4, <4>1, RecordIsFile DEF Open, Target, RecordOf, Typed, TypeOK
      <4>3. RecordOf(j).kind # "report"
        BY <2>1 DEF RecordsFollow
      <4> QED BY <4>1, <4>2, <4>3 DEF Entered, Blank
    <3> QED BY <3>1, <3>2
  <2>3. SameJobs
    BY <2>1, <2>2 DEF SameJobs, State, Looked, Known, Compared
  <2> QED BY <2>1, <2>3, OnlyFiles
<1>5. ASSUME NEW j \in Jobs, Write(j)
      PROVE  Contract!Disk \/ Contract!Enter(j)
  <2>1. /\ UNCHANGED <<opts, found, base, outcome>>
        /\ pc[j] = "write" /\ pc'[j] \notin {"idle", "done"}
        /\ at[j] # 0 /\ at'[j] # 0
        /\ at[j] \in {Comparison, Record} <=> at'[j] \in {Comparison, Record}
        /\ \A i \in Jobs \ {j} : pc'[i] = pc[i] /\ at'[i] = at[i]
    BY <1>5 DEF Write, Conclude, Goto, Typed, TypeOK, Pipeline, Comparison, Record
  <2>2. \A i \in Jobs : State(i)' = State(i) /\ Looked(i)' = Looked(i) /\ Known(i)' = Known(i)
    BY <2>1 DEF State, Looked, Known, Compared
  <2>3. \A i \in Jobs \ {j} : Entered(i)' = Entered(i)
    BY <1>5, RecordStep DEF Step, Entered
  <2>4. CASE at[j] # Record
    <3>1. Entered(j)' = Entered(j)
      BY <1>5, <2>4, RecordStep DEF Step, Entered
    <3>2. SameJobs
      BY <2>2, <2>3, <3>1 DEF SameJobs
    <3> QED BY <2>1, <3>2, OnlyFiles
  <2>5. CASE at[j] = Record
    <3>1. RecordOf(j).kind = "empty" /\ Target(j) = <<"runs", j>> /\ opts[j].run_store
      BY <2>1, <2>5 DEF RecordsFollow, Target
    <3>2. disk' = [disk EXCEPT ![<<"runs", j>>] = Text(j, found[j])]
      BY <1>5, <2>5, <3>1 DEF Write, After, TextOf, RecordOf, Comparison, Record
    <3>3. RecordOf(j)' = Text(j, found[j])
      BY <3>2, RecordIsFile DEF RecordOf, Typed, TypeOK
    <3>4. Entered(j) = None /\ Entered(j)' = found[j]
      BY <3>1, <3>3 DEF Entered, Text
    <3>5. [i \in Jobs |-> Entered(i)]' = [[i \in Jobs |-> Entered(i)] EXCEPT ![j] = found[j]]
      BY <2>3, <3>4
    <3>6. ASSUME NEW f \in File PROVE Worth(f)' = Worth(f)
      <4>1. CASE f = <<"runs", j>>
        <5>1. ~IsFindingsJson(f)
          BY <4>1, ScanAssumption DEF IsFindingsJson, Records
        <5> QED BY <5>1 DEF Worth, Readable
      <4>2. CASE f # <<"runs", j>>
        BY <3>2, <4>2 DEF Worth, Typed, TypeOK
      <4> QED BY <4>1, <4>2
    <3>7. Looked(j) = found[j] /\ found[j] # None /\ State(j) = "running"
      BY <2>1, ScanAssumption DEF Looked, State, Typed, TypeOK
    <3>8. opts[j].baseline # None => Known(j) # None
      BY <2>5, ScanAssumption DEF Known, Compared, Typed, TypeOK
    <3>9. Contract!Ready(j)
      BY <3>7, <3>8 DEF Contract!Ready
    <3>10. Contract!Enter(j)
      BY <2>1, <2>2, <3>1, <3>4, <3>5, <3>6, <3>7, <3>9 DEF Contract!Enter
    <3> QED BY <3>10
  <2> QED BY <2>4, <2>5
<1>6. ASSUME NEW j \in Jobs, LoadBaseline(j)
      PROVE  \/ UNCHANGED Contract!vars \/ Contract!Compare(j)
             \/ Contract!Refuse(j) \/ Contract!BreakOff(j)
  <2>1. /\ UNCHANGED <<disk, opts, found>> /\ pc[j] = "baseline" /\ Running(j) /\ at[j] = 6
        /\ \A i \in Jobs \ {j} : base'[i] = base[i] /\ at'[i] = at[i]
    BY <1>6 DEF LoadBaseline, Conclude, Running, Pipeline, Typed, TypeOK
  <2>2. /\ \A i \in Jobs : Entered(i)' = Entered(i)
        /\ \A f \in File : Worth(f)' = Worth(f)
        /\ Known(j) = None /\ Entered(j) = None
    BY <2>1 DEF Entered, RecordOf, Worth, Known, Compared, RecordsFollow, Comparison, Record
  <2>3. CASE opts[j].baseline = None
    <3>1. /\ at'[j] # 0 /\ UNCHANGED outcome /\ pc'[j] \in {"open", "verdict"}
          /\ \A i \in Jobs \ {j} : pc'[i] = pc[i]
      BY <1>6, <2>1, <2>3 DEF LoadBaseline, Conclude, Goto, Typed, TypeOK, Record
    <3>2. SameJobs
      BY <2>1, <2>2, <2>3, <3>1 DEF SameJobs, State, Looked, Known, Compared
    <3> QED BY <2>1, <3>2, Stutter
  <2>4. CASE opts[j].baseline # None /\ Readable(opts[j].baseline, disk[opts[j].baseline])
    <3>1. /\ at'[j] = Comparison /\ UNCHANGED outcome /\ pc'[j] = "open"
          /\ base'[j] = Fingerprints(disk[opts[j].baseline].findings)
          /\ \A i \in Jobs \ {j} : pc'[i] = pc[i]
      BY <1>6, <2>4 DEF LoadBaseline, Goto, Typed, TypeOK
    <3>2. opts[j].baseline \in File
      BY <2>1, <2>4, ScanAssumption DEF Typed, Started, Running, Request
    <3>3. Worth(opts[j].baseline) = base'[j] /\ base'[j] # None
      BY <2>4, <3>1, ScanAssumption DEF Worth, Typed, TypeOK
    <3>4. Known(j)' = base'[j] /\ \A i \in Jobs \ {j} : Known(i)' = Known(i)
      BY <2>1, <2>4, <3>1 DEF Known, Compared
    <3>5. [i \in Jobs |-> Known(i)]' = [[i \in Jobs |-> Known(i)] EXCEPT ![j] = Worth(opts[j].baseline)]
      BY <3>3, <3>4
    <3>6. \A i \in Jobs : State(i)' = State(i) /\ Looked(i)' = Looked(i)
      BY <2>1, <3>1 DEF State, Looked, Comparison
    <3>7. State(j) = "running" /\ Looked(j) = found[j] /\ found[j] # None
      BY <2>1, ScanAssumption DEF State, Looked, Typed, TypeOK
    <3>8. Contract!Compare(j)
      BY <2>1, <2>2, <2>4, <3>2, <3>3, <3>5, <3>6, <3>7 DEF Contract!Compare
    <3> QED BY <3>8
  <2>5. CASE opts[j].baseline # None /\ ~Readable(opts[j].baseline, disk[opts[j].baseline])
    <3>1. UNCHANGED <<at, base>> /\ \E how \in {"refused", "raised"} : Exit(j, how)
      BY <1>6, <2>5 DEF LoadBaseline
    <3>2. PICK how \in {"refused", "raised"} : Exit(j, how)
      BY <3>1
    <3>3. Contract!Ends(j, how) /\ State(j) = "running"
      BY <2>1, <2>2, <3>1, <3>2, EndsStep
    <3>4. [f \in File |-> Worth(f)]' = [f \in File |-> Worth(f)]
      BY <2>2
    <3>5. [f \in File |-> Worth(f)]' \in Contract!Worths
      BY WorthType DEF Worth, Typed, TypeOK
    <3>6. CASE how = "refused"
      BY <2>2, <3>3, <3>4, <3>6 DEF Contract!Refuse
    <3>7. CASE how = "raised"
      BY <3>3, <3>5, <3>7 DEF Contract!BreakOff
    <3> QED BY <3>6, <3>7
  <2> QED BY <2>3, <2>4, <2>5
<1>7. ASSUME NEW j \in Jobs, Verdict(j)
      PROVE  Contract!Decide(j)
  <2>1. pc[j] = "verdict" /\ at[j] # 0 /\ Running(j) /\ UNCHANGED <<disk, opts, base, found, at>>
    BY <1>7 DEF Verdict, Running, Pipeline, job
  <2>2. Looked(j) = found[j] /\ found[j] # None
    BY <2>1, ScanAssumption DEF Looked, Typed, TypeOK
  <2>3. opts[j].baseline # None => Known(j) = base[j] /\ base[j] # None
    BY <2>1, ScanAssumption DEF Pipeline, Known, Typed, TypeOK
  <2>4. opts[j].run_store => Entered(j) # None
    <3>1. RecordOf(j).findings \in SUBSET Finding
      BY RecordIsFile DEF RecordOf, Typed, TypeOK, Content
    <3> QED BY <2>1, <3>1, ScanAssumption DEF RecordsFollow, Entered
  <2>5. Contract!Decision(j) = Judged(j, Counted(j))
    BY <2>2, <2>3, SameGate DEF Contract!Decision, Counted, Judged
  <2>6. Exit(j, Contract!Decision(j))
    BY <1>7, <2>5 DEF Verdict
  <2>7. \A i \in Jobs : Entered(i)' = Entered(i)
    BY <2>1 DEF Entered, RecordOf
  <2>8. Contract!Ends(j, Contract!Decision(j)) /\ State(j) = "running"
    <3> DEFINE how == Contract!Decision(j)
    <3>1. Exit(j, how)
      BY <2>6
    <3> HIDE DEF how
    <3>2. Contract!Ends(j, how) /\ State(j) = "running"
      BY <2>1, <2>7, <3>1, EndsStep
    <3> QED BY <3>2 DEF how
  <2>9. Contract!Ready(j)
    BY <2>2, <2>3, <2>8 DEF Contract!Ready
  <2>10. [f \in File |-> Worth(f)]' = [f \in File |-> Worth(f)]
    BY <2>1 DEF Worth
  <2> QED BY <2>4, <2>8, <2>9, <2>10 DEF Contract!Decide
<1>8. ASSUME NEW j \in Jobs, Kill(j) \/ WriteError(j)
      PROVE  Contract!BreakOff(j)
  <2>1. /\ UNCHANGED <<opts, base, found, at>> /\ Running(j)
        /\ \/ UNCHANGED disk
           \/ pc[j] = "write" /\ disk' = [disk EXCEPT ![Target(j)] = Blank("torn")]
    BY <1>8 DEF Kill, WriteError, Interrupt, Running, job
  <2>2. ASSUME NEW i \in Jobs PROVE Entered(i)' = Entered(i)
    <3>1. CASE RecordOf(i)' = RecordOf(i)
      BY <3>1 DEF Entered
    <3>2. CASE RecordOf(i)' # RecordOf(i)
      <4>1. i = j /\ pc[j] = "write"
        BY <1>8, <2>1, <3>2, RecordStep DEF RecordOf
      <4>2. RecordOf(j)' = Blank("torn")
        BY <2>1, <3>2, <4>1, RecordIsFile DEF RecordOf, Typed, TypeOK
      <4>3. RecordOf(j).kind # "report"
        BY <4>1 DEF RecordsFollow
      <4> QED BY <4>1, <4>2, <4>3 DEF Entered, Blank
    <3> QED BY <3>1, <3>2
  <2>3. PICK how \in {"killed", "raised"} : Exit(j, how)
    BY <1>8 DEF Kill, WriteError, Interrupt
  <2>4. Contract!Ends(j, how) /\ State(j) = "running"
    BY <2>1, <2>2, <2>3, EndsStep
  <2>5. [f \in File |-> Worth(f)]' \in Contract!Worths
    BY WorthType DEF Worth, Typed, TypeOK
  <2> QED BY <2>3, <2>4, <2>5 DEF Contract!BreakOff
<1>9. ASSUME EditInput \/ UNCHANGED vars
      PROVE  UNCHANGED Contract!vars
  <2>1. UNCHANGED <<disk, pc, outcome, opts, at, found, base>>
    BY <1>9 DEF EditInput, vars, job
  <2>2. SameJobs
    BY <2>1 DEF SameJobs, State, Looked, Known, Compared, Entered, RecordOf
  <2> QED BY <2>1, <2>2, Stutter
<1>10. ASSUME NEW d \in Dirs, NEW s \in Saved, KeepBaseline(d, s)
       PROVE  Contract!Disk
  <2>1. UNCHANGED <<pc, outcome, opts, at, found, base>>
    BY <1>10 DEF KeepBaseline, job
  <2>2. \A j \in Jobs : RecordOf(j)' = RecordOf(j)
    BY <1>10, RecordIsFile DEF KeepBaseline, RecordOf, Typed, TypeOK
  <2>3. SameJobs
    BY <2>1, <2>2 DEF SameJobs, State, Looked, Known, Compared, Entered
  <2> QED BY <2>1, <2>3, OnlyFiles
<1> QED BY <1>1, <1>2, <1>3, <1>4, <1>5, <1>6, <1>7, <1>8, <1>9, <1>10
        DEF Next, Step, Contract!Next

(***************************************************************************)
(* Each of any number of scans is an execution of ScanContract, whatever   *)
(* the others, the curator and the disk do, and wherever baselines lie: it *)
(* looks once at the data and once at its baseline as that then is, ends   *)
(* once, and its verdict follows from the two; an unreadable baseline      *)
(* never leads to a verdict, and what is refused is not in the history.    *)
(***************************************************************************)
THEOREM ScanKeepsContract == Spec => KeepsContract
<1>1. Spec => []RefInv
  BY InitRef, NextRef, PTL DEF Spec
<1>2. Init => Contract!Init
  BY InitRefines
<1>3. RefInv /\ RefInv' /\ [Next]_vars => [Contract!Next]_(Contract!vars)
  BY StepRefines
<1> QED BY <1>1, <1>2, <1>3, PTL DEF Spec, KeepsContract, Contract!Spec

-----------------------------------------------------------------------------
\* What the loader holds at each stage was parsed, or was optional.
Parsed ==
    /\ stage \in {"down", "refused", "up"} \cup Loaded
    /\ DOMAIN view = Loaded
    /\ stage \in {"summary.json", "run_manifest.json", "up"} => view["findings.json"].kind = "report"
    /\ stage \in {"run_manifest.json", "up"} => view["summary.json"].kind = "report"
    /\ stage = "up" => view["run_manifest.json"].kind \in {"absent", "report"}

\* As long as no scan runs there, memory and disk are the same.
Mirrors ==
    /\ page = Blank("absent") \/ stage = "up"
    /\ quiet /\ stage \in Loaded \cup {"up"} =>
          /\ ~ScansHere
          /\ stage # "findings.json" => view["findings.json"] = OnDisk("findings.json")
          /\ stage \in {"run_manifest.json", "up"} => view["summary.json"] = OnDisk("summary.json")
          /\ stage = "up" => view["run_manifest.json"] = OnDisk("run_manifest.json")
          /\ page \in {Blank("absent"), OnDisk("report.html")}

\* A quiet refusal is for a text that is still there and does not parse.
Reasoned ==
    quiet /\ stage = "refused" =>
        /\ ~ScansHere
        /\ \/ ~Parses("findings.json") \/ ~Parses("summary.json")
           \/ OnDisk("run_manifest.json").kind \notin {"absent", "report"}

\* Where there is no list of findings, a scan got no further than to write it.
BegunOnly ==
    Serialized /\ ~Parses("findings.json") /\ (\E j \in Jobs : WroteHere(j)) =>
        \E j \in Jobs : WroteHere(j) /\ at[j] = 1 /\ (pc[j] \in {"open", "write"} \/ BrokeOff(j))

Ended == \A j \in Jobs : pc[j] = "done" => outcome[j] # "none"

ViewerInv == EvidenceInv /\ Ended /\ BegunOnly /\ Parsed /\ Mirrors /\ Reasoned

LEMMA NamesOfLoaded ==
    /\ Names[1] = "findings.json" /\ Names[3] = "summary.json"
    /\ Names[4] = "run_manifest.json" /\ Names[5] = "report.html"
BY DEF Names

-----------------------------------------------------------------------------
\* A step of scans that are all elsewhere leaves the directory as it is.
LEMMA ElsewhereStep ==
    ASSUME EvidenceInv, Next, ~ScansHere, NEW n \in 1 .. 7
    PROVE  disk'[<<RunDir, Names[n]>>] = disk[<<RunDir, Names[n]>>]
<1> DEFINE f == <<RunDir, Names[n]>>
<1>1. f \in Output /\ f \in File /\ disk \in [File -> Content]
  BY ViewerAssumption, NamesAreArtifacts DEF Output, File, EvidenceInv, RefusalInv, Typed, TypeOK
<1>2. ASSUME NEW j \in Jobs, Step(j) \/ Kill(j) \/ WriteError(j), ~UNCHANGED disk
      PROVE  disk'[f] = disk[f]
  <2>1. /\ Running(j) /\ pc[j] \in {"open", "write"}
        /\ \E c \in Content : disk' = [disk EXCEPT ![Target(j)] = c]
    BY <1>2, JobStep DEF EvidenceInv
  <2>2. Target(j) # f
    <3>1. opts[j].output_dir # RunDir
      BY <2>1 DEF ScansHere
    <3>2. at[j] \in 1 .. Record /\ Target(j) = FileOf(j, at[j])
      BY <2>1, TargetIsFile DEF EvidenceInv
    <3>3. <<"runs", j>> \notin Output
      BY ScanAssumption DEF Records
    <3> QED BY <1>1, <3>1, <3>2, <3>3 DEF FileOf
  <2> QED BY <1>1, <2>1, <2>2
<1>3. ASSUME NEW d \in Dirs, NEW s \in Saved, KeepBaseline(d, s)
      PROVE  disk'[f] = disk[f]
  <2>1. s # f
    BY <1>1, ScanAssumption
  <2> QED BY <1>1, <1>3, <2>1 DEF KeepBaseline
<1>4. ASSUME UNCHANGED disk PROVE disk'[f] = disk[f]
  BY <1>4
<1> QED BY <1>2, <1>3, <1>4 DEF Next, Start, EditInput

LEMMA NextEnded == Typed /\ Ended /\ [Next]_vars => Ended'
<1> SUFFICES ASSUME Typed, Ended, [Next]_vars PROVE Ended'
  OBVIOUS
<1>1. ASSUME NEW j \in Jobs, NEW how \in Outcome \ {"none"}, Exit(j, how)
      PROVE  Ended'
  BY <1>1 DEF Ended, Exit, Typed, TypeOK
<1>2. ASSUME NEW j \in Jobs, NEW step \in Steps \ {"done"}, Goto(j, step)
      PROVE  Ended'
  BY <1>2 DEF Ended, Goto, Typed, TypeOK
<1> QED
  BY <1>1, <1>2
  DEF Next, Step, Start, Ingest, CheckMediaRoot, Evaluate, Open, Write, LoadBaseline, Verdict,
      Judged, Conclude, Kill, WriteError, Interrupt, EditInput, KeepBaseline, vars, job, Ended,
      Outcome, Steps

\* A scan replaces the findings before any other file of the directory.
LEMMA NextBegunOnly == EvidenceInv /\ BegunOnly /\ [Next]_vars => BegunOnly'
<1> SUFFICES ASSUME EvidenceInv, BegunOnly, [Next]_vars, Serialized', ~Parses("findings.json")',
                    NEW w \in Jobs, WroteHere(w)'
             PROVE  \E j \in Jobs : /\ WroteHere(j)' /\ at'[j] = 1
                                    /\ pc'[j] \in {"open", "write"} \/ BrokeOff(j)'
  BY DEF BegunOnly
<1> USE DEF EvidenceInv
<1> DEFINE f == <<RunDir, "findings.json">>
<1>0. f \in Output /\ f \in File /\ disk \in [File -> Content]
  BY ViewerAssumption, FindingsFile DEF File, RefusalInv, Typed, TypeOK
<1>1. ASSUME NEW i \in Jobs, Step(i) \/ Kill(i) \/ WriteError(i)
      PROVE  \E j \in Jobs : /\ WroteHere(j)' /\ at'[j] = 1
                             /\ pc'[j] \in {"open", "write"} \/ BrokeOff(j)'
  <2>1. /\ UNCHANGED opts /\ Running(i) /\ Serialized
        /\ \A k \in Jobs \ {i} : pc'[k] = pc[k] /\ at'[k] = at[k] /\ outcome'[k] = outcome[k]
    BY <1>1, JobStep DEF Serialized
  <2>2. CASE Evaluate(i)
    <3>1. at' = [at EXCEPT ![i] = 1] /\ pc' = [pc EXCEPT ![i] = "open"] /\ UNCHANGED <<disk, outcome>>
          /\ at[i] = 0
      BY <2>2 DEF Evaluate, Goto, RefusalInv, AtInStep
    <3>2. at'[i] = 1 /\ pc'[i] = "open"
      BY <3>1 DEF RefusalInv, Typed, TypeOK
    <3>3. CASE opts[i].output_dir = RunDir
      BY <2>1, <3>2, <3>3 DEF WroteHere
    <3>4. CASE opts[i].output_dir # RunDir
      <4>1. WroteHere(w) /\ ~Parses("findings.json")
        BY <2>1, <3>1, <3>4 DEF WroteHere, Parses, OnDisk
      <4>2. PICK j \in Jobs : WroteHere(j) /\ at[j] = 1 /\ (pc[j] \in {"open", "write"} \/ BrokeOff(j))
        BY <2>1, <4>1 DEF BegunOnly
      <4>3. j # i
        BY <3>1, <4>2
      <4> QED BY <2>1, <4>2, <4>3 DEF WroteHere, BrokeOff
    <3> QED BY <3>3, <3>4
  <2>3. CASE ~Evaluate(i) /\ at[i] = 1 /\ opts[i].output_dir = RunDir
    <3>1. Undisturbed(i)
      <4>1. opts[i] # None
        BY <2>1, HasDir
      <4> QED BY <2>1, <4>1 DEF Serialized, Undisturbed, Alone
    <3>2. pc[i] \in {"open", "write"}
      BY <2>1, <2>3 DEF RefusalInv, AtInStep, Progress, Typed, TypeOK, Running, Steps, Record
    <3>3. CASE Open(i) \/ Kill(i) \/ WriteError(i)
      <4>1. at'[i] = 1 /\ (pc'[i] = "write" \/ outcome'[i] \in {"killed", "raised"})
        BY <2>3, <3>3
        DEF Open, Kill, WriteError, Interrupt, Goto, Exit, job, RefusalInv, Typed, TypeOK
      <4> QED BY <2>1, <2>3, <4>1 DEF WroteHere, BrokeOff
    <3>4. CASE Write(i)
      <4>1. Target(i) = f
        BY <2>3, NamesOfLoaded DEF Target, Record
      <4>2. disk[f] = Blank("empty")
        BY <3>1, <3>4, <4>1 DEF Opened, Write
      <4>3. disk' = [disk EXCEPT ![f] = TextOf(i)]
        BY <3>4, <4>1, <4>2 DEF Write, After, Blank
      <4>4. disk'[f].kind = "report"
        BY <1>0, <4>3 DEF TextOf, Text
      <4> QED BY <4>4 DEF Parses, OnDisk
    <3> QED BY <1>1, <2>3, <3>2, <3>3, <3>4
            DEF Step, Ingest, CheckMediaRoot, LoadBaseline, Verdict
  <2>4. CASE ~Evaluate(i) /\ ~(at[i] = 1 /\ opts[i].output_dir = RunDir)
    <3>1. disk'[f] = disk[f]
      <4> SUFFICES ASSUME ~UNCHANGED disk PROVE disk'[f] = disk[f]
        OBVIOUS
      <4>1. pc[i] \in {"open", "write"} /\ \E c \in Content : disk' = [disk EXCEPT ![Target(i)] = c]
        BY <1>1, JobStep
      <4>2. at[i] \in 1 .. Record /\ Target(i) = FileOf(i, at[i])
        BY <4>1, TargetIsFile
      <4>3. Target(i) # f
        <5>1. CASE at[i] = Record
          <6>1. Target(i) \in Records
            BY <4>2, <5>1 DEF FileOf, Records
          <6> QED BY <1>0, <6>1, ScanAssumption
        <5>2. CASE at[i] # Record
          <6>1. at[i] \in 1 .. 7 /\ Target(i) = <<opts[i].output_dir, Names[at[i]]>>
            BY <4>2, <5>2 DEF FileOf, Record
          <6>2. Names[at[i]] = "findings.json" => at[i] = 1
            BY <6>1 DEF Names
          <6> QED BY <2>4, <6>1, <6>2
        <5> QED BY <5>1, <5>2
      <4> QED BY <1>0, <4>1, <4>3
    <3>2. ~Parses("findings.json")
      BY <3>1 DEF Parses, OnDisk
    <3>3. at[i] = 0 => at'[i] = 0
      <4> SUFFICES ASSUME at[i] = 0 PROVE at'[i] = 0
        OBVIOUS
      <4>1. pc[i] \in {"ingest", "media_root", "evaluate"}
        BY <2>1 DEF RefusalInv, AtInStep, Progress, Typed, TypeOK, Running, Steps, Record
      <4> QED BY <1>1, <2>4, <4>1
              DEF Step, Ingest, CheckMediaRoot, Open, Write, LoadBaseline, Verdict, Kill, WriteError,
                  Interrupt, job
    <3>4. WroteHere(w)
      BY <2>1, <3>3 DEF WroteHere
    <3>5. PICK j \in Jobs : WroteHere(j) /\ at[j] = 1 /\ (pc[j] \in {"open", "write"} \/ BrokeOff(j))
      BY <2>1, <3>2, <3>4 DEF BegunOnly
    <3>6. j # i
      BY <2>4, <3>5 DEF WroteHere
    <3> QED BY <2>1, <3>5, <3>6 DEF WroteHere, BrokeOff
  <2> QED BY <2>2, <2>3, <2>4
<1>2. ASSUME UNCHANGED <<at, outcome>>, disk'[f] = disk[f],
             \A j \in Jobs : at[j] # 0 => opts'[j] = opts[j] /\ pc'[j] = pc[j],
             Serialized
      PROVE  \E j \in Jobs : /\ WroteHere(j)' /\ at'[j] = 1
                             /\ pc'[j] \in {"open", "write"} \/ BrokeOff(j)'
  <2>1. ~Parses("findings.json") /\ WroteHere(w)
    BY <1>2 DEF Parses, OnDisk, WroteHere
  <2>2. PICK j \in Jobs : WroteHere(j) /\ at[j] = 1 /\ (pc[j] \in {"open", "write"} \/ BrokeOff(j))
    BY <1>2, <2>1 DEF BegunOnly
  <2> QED BY <1>2, <2>2 DEF WroteHere, BrokeOff
<1>3. ASSUME NEW i \in Jobs, NEW r \in Requests, Start(i, r)
      PROVE  \E j \in Jobs : /\ WroteHere(j)' /\ at'[j] = 1
                             /\ pc'[j] \in {"open", "write"} \/ BrokeOff(j)'
  <2>1. /\ UNCHANGED <<disk, at>> /\ at[i] = 0 /\ opts[i] = None
        /\ \A k \in Jobs \ {i} : opts'[k] = opts[k] /\ pc'[k] = pc[k] /\ outcome'[k] = outcome[k]
    BY <1>3 DEF Start, Goto, Exit, RefusalInv, AtInStep, NoCompany, Typed, TypeOK
  <2>2. Serialized
    BY <2>1 DEF Serialized
  <2>3. ~Parses("findings.json") /\ WroteHere(w)
    BY <2>1 DEF Parses, OnDisk, WroteHere
  <2>4. PICK j \in Jobs : WroteHere(j) /\ at[j] = 1 /\ (pc[j] \in {"open", "write"} \/ BrokeOff(j))
    BY <2>2, <2>3 DEF BegunOnly
  <2>5. j # i
    BY <2>1, <2>4
  <2> QED BY <2>1, <2>4, <2>5 DEF WroteHere, BrokeOff
<1>4. CASE EditInput \/ UNCHANGED vars
  BY <1>2, <1>4 DEF EditInput, vars, job, Serialized
<1>5. ASSUME NEW d \in Dirs, NEW s \in Saved, KeepBaseline(d, s)
      PROVE  \E j \in Jobs : /\ WroteHere(j)' /\ at'[j] = 1
                             /\ pc'[j] \in {"open", "write"} \/ BrokeOff(j)'
  <2>1. disk'[f] = disk[f]
    <3>1. s # f
      BY <1>0, ScanAssumption
    <3> QED BY <1>0, <1>5, <3>1 DEF KeepBaseline
  <2> QED BY <1>2, <1>5, <2>1 DEF KeepBaseline, job, Serialized
<1> QED BY <1>1, <1>3, <1>4, <1>5 DEF Next

LEMMA InitViewer == ViewerInit => ViewerInv
<1> SUFFICES ASSUME ViewerInit PROVE ViewerInv
  OBVIOUS
<1>1. EvidenceInv
  BY InitEvidence DEF ViewerInit
<1>2. Parsed /\ Mirrors /\ Reasoned
  BY DEF ViewerInit, Parsed, Mirrors, Reasoned, Loaded
<1>3. Ended /\ BegunOnly
  BY DEF ViewerInit, Init, Ended, BegunOnly, WroteHere
<1> QED BY <1>1, <1>2, <1>3 DEF ViewerInv

LEMMA NextViewer == ViewerInv /\ [ViewerNext]_allVars => ViewerInv'
<1> SUFFICES ASSUME ViewerInv, [ViewerNext]_allVars PROVE ViewerInv'
  OBVIOUS
<1> USE DEF ViewerInv
<1>1. EvidenceInv' /\ Ended' /\ BegunOnly'
  <2>1. [Next]_vars
    BY DEF ViewerNext, ScanStep, Serve, LoadStep, LoadFindings, LoadSummary, LoadManifest, Load,
           GetReport, allVars
  <2> QED BY <2>1, NextEvidence, NextEnded, NextBegunOnly DEF EvidenceInv, RefusalInv
<1>2. CASE ScanStep
  <2>1. Next /\ quiet' = (quiet /\ ~ScansHere') /\ UNCHANGED <<stage, view, page>>
    BY <1>2 DEF ScanStep
  <2>2. Parsed'
    BY <2>1 DEF Parsed
  <2>3. ASSUME quiet', stage \in Loaded \cup {"up"} PROVE Mirrors'
    <3>1. quiet /\ ~ScansHere /\ ~ScansHere'
      BY <2>1, <2>3 DEF Mirrors
    <3>2. \A a \in {"findings.json", "summary.json", "run_manifest.json", "report.html"} :
             OnDisk(a)' = OnDisk(a)
      BY <2>1, <3>1, ElsewhereStep, NamesOfLoaded DEF OnDisk
    <3> QED BY <2>1, <2>3, <3>1, <3>2 DEF Mirrors
  <2>4. ASSUME ~(quiet' /\ stage \in Loaded \cup {"up"}) PROVE Mirrors'
    <3>1. page' = Blank("absent") \/ stage' = "up"
      BY <2>1 DEF Mirrors
    <3>2. ~(quiet' /\ stage' \in Loaded \cup {"up"})
      BY <2>1, <2>4
    <3> QED BY <3>1, <3>2 DEF Mirrors
  <2>5. Mirrors'
    BY <2>3, <2>4
  <2>6. Reasoned'
    <3> SUFFICES ASSUME quiet', stage = "refused" PROVE Reasoned'
      BY <2>1 DEF Reasoned
    <3>1. ~ScansHere /\ ~ScansHere'
      BY <2>1 DEF Reasoned
    <3>2. \A a \in Loaded : OnDisk(a)' = OnDisk(a)
      BY <2>1, <3>1, ElsewhereStep, NamesOfLoaded DEF OnDisk, Loaded
    <3> QED BY <2>1, <3>1, <3>2 DEF Reasoned, Parses, Loaded
  <2> QED BY <1>1, <2>2, <2>5, <2>6
<1>3. CASE Serve
  <2>1. Parsed'
    BY <1>3 DEF Serve, Parsed, Loaded
  <2>2. ScansHere' = ScansHere
    BY <1>3 DEF Serve, ScansHere, Running, vars, job
  <2>3. Mirrors' /\ Reasoned'
    BY <1>3, <2>2 DEF Serve, Mirrors, Reasoned, Loaded
  <2> QED BY <1>1, <2>1, <2>3
<1>4. ASSUME NEW a \in Loaded, NEW required \in BOOLEAN, NEW then, Load(a, required, then),
             \/ a = "findings.json" /\ required /\ then = "summary.json"
             \/ a = "summary.json" /\ required /\ then = "run_manifest.json"
             \/ a = "run_manifest.json" /\ ~required /\ then = "up"
      PROVE  ViewerInv'
  <2>1. /\ UNCHANGED <<disk, opts, pc, page, quiet>> /\ stage = a
        /\ \/ /\ OnDisk(a).kind = "report" \/ (OnDisk(a).kind = "absent" /\ ~required)
              /\ view' = [view EXCEPT ![a] = OnDisk(a)] /\ stage' = then
           \/ /\ stage' = "refused" /\ UNCHANGED view
              /\ OnDisk(a).kind # "report" /\ (required \/ OnDisk(a).kind # "absent")
    BY <1>4 DEF Load, Parses, Missing, vars, job
  <2>2. Parsed'
    BY <1>4, <2>1 DEF Parsed, Loaded
  <2>3. ScansHere' = ScansHere /\ \A b : OnDisk(b)' = OnDisk(b)
    BY <2>1 DEF ScansHere, Running, OnDisk
  <2>4. page = Blank("absent")
    BY <1>4, <2>1 DEF Mirrors, Loaded
  <2>5. Mirrors'
    BY <1>4, <2>1, <2>3, <2>4 DEF Mirrors, Parsed, Loaded
  <2>6. Reasoned'
    <3> SUFFICES ASSUME quiet', stage' = "refused" PROVE Reasoned'
      BY DEF Reasoned
    <3>1. ~ScansHere'
      BY <1>4, <2>1, <2>3 DEF Mirrors
    <3>2. ~Parses(a)' /\ (a = "run_manifest.json" => OnDisk(a)'.kind \notin {"absent", "report"})
      BY <1>4, <2>1, <2>3 DEF Parses, Loaded
    <3> QED BY <1>4, <3>1, <3>2 DEF Reasoned
  <2> QED BY <1>1, <2>2, <2>5, <2>6
<1>5. CASE GetReport
  <2>1. ScansHere' = ScansHere /\ \A b : OnDisk(b)' = OnDisk(b)
    BY <1>5 DEF GetReport, ScansHere, Running, OnDisk, vars, job
  <2>2. Parsed' /\ Mirrors' /\ Reasoned'
    BY <1>5, <2>1 DEF GetReport, Parsed, Mirrors, Reasoned, Parses
  <2> QED BY <1>1, <2>2
<1>6. CASE UNCHANGED allVars
  <2>1. UNCHANGED viewer /\ UNCHANGED vars
    BY <1>6 DEF allVars
  <2>2. ScansHere' = ScansHere /\ \A b : OnDisk(b)' = OnDisk(b)
    BY <2>1 DEF ScansHere, Running, OnDisk, vars, job
  <2> QED BY <1>1, <2>1, <2>2 DEF viewer, Parsed, Mirrors, Reasoned, Parses
<1> QED BY <1>2, <1>3, <1>4, <1>5, <1>6
        DEF ViewerNext, LoadStep, LoadFindings, LoadSummary, LoadManifest, Loaded

-----------------------------------------------------------------------------
(***************************************************************************)
(* With one scan at a time, and none while a viewer loads, the viewer is   *)
(* refused only if no scan wrote there or the one to blame broke off: the  *)
(* one whose findings lie there, or one that broke off over them.          *)
(***************************************************************************)
THEOREM RefusalsHaveReasons == ViewerSpec => []RefusedForAReason
<1>1. ViewerInv => RefusedForAReason
  <2> SUFFICES ASSUME ViewerInv, stage = "refused", quiet, Serialized
               PROVE  IF Parses("findings.json") THEN BrokeOff(OnDisk("findings.json").run)
                      ELSE (\E j \in Jobs : WroteHere(j)) =>
                              \E j \in Jobs : WroteHere(j) /\ at[j] = 1 /\ BrokeOff(j)
    BY DEF RefusedForAReason
  <2>1. ~ScansHere
    BY DEF ViewerInv, Reasoned
  <2>2. CASE Parses("findings.json")
    <3> DEFINE j == OnDisk("findings.json").run
    <3>1. j \in Jobs /\ opts[j].output_dir = RunDir /\ at[j] # 0
      BY <2>2, ViewerAssumption, FindingsFile
         DEF ViewerInv, EvidenceInv, Owned, RefusalInv, WrittenBy, OnDisk, Parses
    <3>2. Latest(j)
      BY <3>1 DEF Latest, OnDisk
    <3>3. pc[j] = "done" /\ outcome[j] \in Outcome \ {"none"}
      BY <2>1, <3>1 DEF ViewerInv, Ended, ScansHere, Running, EvidenceInv, RefusalInv, AtInStep,
                        Typed, TypeOK
    <3>4. ASSUME outcome[j] \in {"passed", "failed", "refused"} PROVE FALSE
      <4>1. \A n \in Reports : disk[<<RunDir, Names[n]>>] = Text(j, found[j])
        BY <3>1, <3>2, <3>4, LatestComplete DEF ViewerInv
      <4>2. \A a \in Loaded : OnDisk(a).kind = "report"
        BY <4>1, NamesOfLoaded DEF OnDisk, Text, Reports, Loaded
      <4> QED BY <4>2 DEF ViewerInv, Reasoned, Parses, Loaded
    <3> QED BY <2>2, <3>3, <3>4 DEF BrokeOff, Outcome
  <2>3. CASE ~Parses("findings.json")
    <3> SUFFICES ASSUME \E j \in Jobs : WroteHere(j)
                 PROVE  \E j \in Jobs : WroteHere(j) /\ at[j] = 1 /\ BrokeOff(j)
      BY <2>3
    <3>1. PICK j \in Jobs : WroteHere(j) /\ at[j] = 1 /\ (pc[j] \in {"open", "write"} \/ BrokeOff(j))
      BY <2>3 DEF ViewerInv, BegunOnly
    <3>2. pc[j] \notin {"open", "write"}
      BY <2>1, <3>1 DEF ScansHere, Running, WroteHere
    <3> QED BY <3>1, <3>2
  <2> QED BY <2>2, <2>3
<1> QED BY InitViewer, NextViewer, <1>1, PTL DEF ViewerSpec

(***************************************************************************)
(* With one scan at a time, and none while the viewer is up, everything it *)
(* serves is of the run whose findings it has, if that run got past its    *)
(* reports.  What other scans did to the directory before, and kills of    *)
(* any of them, cannot mix two runs into such a view.                      *)
(***************************************************************************)
THEOREM OneRunServed == ViewerSpec => []QuietViewIsOneRun
<1>1. ViewerInv => QuietViewIsOneRun
  <2> DEFINE j == view["findings.json"].run
  <2> SUFFICES ASSUME ViewerInv, stage = "up", quiet, Serialized,
                      outcome[j] \in {"passed", "failed", "refused"}
               PROVE  /\ \A a \in Loaded : view[a].kind = "report" /\ view[a].run = j
                      /\ page.kind = "absent" \/ (page.kind = "report" /\ page.run = j)
    BY DEF QuietViewIsOneRun
  <2>1. view["findings.json"] = OnDisk("findings.json") /\ OnDisk("findings.json").kind = "report"
    BY DEF ViewerInv, Mirrors, Parsed, Loaded
  <2>2. j \in Jobs /\ opts[j].output_dir = RunDir /\ at[j] # 0
    BY <2>1, ViewerAssumption, FindingsFile
       DEF ViewerInv, EvidenceInv, Owned, RefusalInv, WrittenBy, OnDisk
  <2>3. Latest(j)
    BY <2>1, <2>2 DEF Latest, OnDisk
  <2>4. \A n \in Reports : disk[<<RunDir, Names[n]>>] = Text(j, found[j])
    BY <2>2, <2>3, LatestComplete DEF ViewerInv
  <2>5. \A a \in {"findings.json", "summary.json", "run_manifest.json", "report.html"} :
           OnDisk(a).kind = "report" /\ OnDisk(a).run = j
    BY <2>4, NamesOfLoaded DEF OnDisk, Text, Reports
  <2> QED BY <2>5 DEF ViewerInv, Mirrors, Loaded, Blank
<1> QED BY InitViewer, NextViewer, <1>1, PTL DEF ViewerSpec
=============================================================================
