------------------------------ MODULE ScanRun -------------------------------
(***************************************************************************)
(* The `collection-ci scan` command (cli.py) as the processes that run it: *)
(* every job goes through the pipeline of cli.scan one file operation at a *)
(* time, on an output directory, baseline files and a run store that other *)
(* jobs may be using.                                                      *)
(*                                                                         *)
(* A file is written by Path.write_text: opening truncates it, the text    *)
(* follows.  There is no lock, no temporary file and no rename, so both    *)
(* halves are steps here, and a job can be killed (or get an OSError) at   *)
(* any of them.  Nothing in the pipeline deletes an artifact of an earlier *)
(* run.                                                                    *)
(***************************************************************************)
EXTENDS Findings, Sequences

CONSTANTS Jobs,        \* scan processes, each running once
          Dirs,        \* output directories
          Saved,       \* baseline files kept outside every output directory
          Inputs,      \* what the source export may contain
          IngestOf,    \* what _ingest does with an input
          FindingsOf,  \* what RuleRegistry.evaluate returns for it
          Requests,    \* the command lines used
          SavedFiles,  \* what the saved baseline files may hold at first
          MaxActs,     \* bound on what the curator does to the files
          None

Names == <<"findings.json", "findings.csv", "summary.json",
           "run_manifest.json", "report.html", "results.sarif",
           "baseline_comparison.json">>
Reports == 1 .. 6     \* the artifacts every completed scan writes
Comparison == 7       \* written only with --baseline
Record == 8           \* the run-store record, only with --run-store

Artifact == {Names[n] : n \in 1 .. 7}
Output == Dirs \X Artifact
Records == {"runs"} \X Jobs      \* named by created_at and a fresh uuid
File == Output \cup Saved \cup Records

(***************************************************************************)
(* What a file holds.  "report" is a complete text, written by `run`       *)
(* (None: by a run before the first job) and made from `findings`; "empty" *)
(* is a file opened and not yet written, "torn" a text cut short or laid   *)
(* over a longer one; the last two occur in hand-kept baselines only.      *)
(***************************************************************************)
Kind == {"absent", "empty", "torn", "report", "not_list", "not_utf8"}
Content == [kind : Kind, run : Jobs \cup {None}, findings : SUBSET Finding]
Blank(k) == [kind |-> k, run |-> None, findings |-> {}]
Text(j, F) == [kind |-> "report", run |-> j, findings |-> F]

Request ==
    [fail_on : Severity \cup {"none", "bogus"},
     inputs : SUBSET {"objects_csv", "mapping", "source"},
     input_path : BOOLEAN,
     required_known : BOOLEAN,     \* all --required-field values requirable
     media_root : {"unset", "missing", "present"},
     baseline : File \cup {None},
     only_new : BOOLEAN,
     run_store : BOOLEAN,
     output_dir : Dirs,
     alone : BOOLEAN]              \* the CI system runs no other scan beside it

\* Command lines are of that shape; inputs are read, rejected or crash the
\* reader; a saved baseline is no file of an output directory or run store.
ASSUME ScanAssumption ==
    /\ Requests \subseteq Request
    /\ IngestOf \in [Inputs -> {"loaded", "rejected", "raises"}]
    /\ FindingsOf \in [Inputs -> SUBSET Finding]
    /\ SavedFiles \subseteq Content
    /\ Saved \cap (Output \cup Records) = {}
    /\ Output \cap Records = {}
    /\ None \notin Jobs \cup File \cup Requests \cup Inputs
    /\ \A S \in (SUBSET Finding) \cup (SUBSET Fingerprint) : S # None
    /\ MaxActs \in Nat

VARIABLES input,    \* the source export on disk
          acts,     \* how often the curator touched a file
          disk,     \* every artifact, baseline and run record
          pc,       \* where each job is in cli.scan
          at,       \* the file it is writing or writes next (0: none yet)
          opts,     \* its command line
          seen,     \* the input it ingested
          found,    \* its findings
          base,     \* the baseline fingerprints it loaded
          outcome,  \* how it ended
          had       \* history: what its baseline file held, one after the
                    \* other, from its start until the scan has read it

job == <<at, opts, seen, found, base>>
vars == <<input, acts, disk, pc, outcome, had, job>>

Steps == {"idle", "ingest", "media_root", "evaluate", "open", "write",
          "baseline", "verdict", "done"}
\* Exit status 0, 1, 2, 1 (Python's for an uncaught exception), or a signal.
Outcome == {"none", "passed", "failed", "refused", "raised", "killed"}

TypeOK ==
    /\ input \in Inputs
    /\ acts \in 0 .. MaxActs
    /\ disk \in [File -> Content]
    /\ pc \in [Jobs -> Steps]
    /\ at \in [Jobs -> 0 .. Record]
    /\ opts \in [Jobs -> Requests \cup {None}]
    /\ seen \in [Jobs -> Inputs \cup {None}]
    /\ found \in [Jobs -> SUBSET Finding]
    /\ base \in [Jobs -> SUBSET Fingerprint]
    /\ outcome \in [Jobs -> Outcome]
    /\ had \in [Jobs -> SUBSET Content]

Init ==
    /\ input \in Inputs
    /\ acts = 0
    /\ \E s \in [Saved -> SavedFiles] :
          disk = [f \in File |-> IF f \in Saved THEN s[f] ELSE Blank("absent")]
    /\ pc = [j \in Jobs |-> "idle"]
    /\ at = [j \in Jobs |-> 0]
    /\ opts = [j \in Jobs |-> None]
    /\ seen = [j \in Jobs |-> None]
    /\ found = [j \in Jobs |-> {}]
    /\ base = [j \in Jobs |-> {}]
    /\ outcome = [j \in Jobs |-> "none"]
    /\ had = [j \in Jobs |-> {}]

Goto(j, step) == pc' = [pc EXCEPT ![j] = step] /\ UNCHANGED outcome
Exit(j, how) ==
    /\ pc' = [pc EXCEPT ![j] = "done"]
    /\ outcome' = [outcome EXCEPT ![j] = how]

Running(j) == pc[j] \notin {"idle", "done"}

\* A running scan looks at its baseline between its sixth file and the next.
Unread(j) == Running(j) /\ at[j] <= 6 /\ opts[j].baseline # None

\* What is put on the disk may be the baseline of scans yet to read it.
Watch == had' = [j \in Jobs |-> IF Unread(j) THEN had[j] \cup {disk'[opts[j].baseline]}
                                            ELSE had[j]]

-----------------------------------------------------------------------------
(***************************************************************************)
(* The argument checks at the top of cli.scan, all before any file is      *)
(* touched: --fail-on, --source with --input, exactly one input, required  *)
(* fields.                                                                 *)
(***************************************************************************)
Accepted(r) ==
    /\ r.fail_on \in Severity \cup {"none"}
    /\ ("source" \in r.inputs) = r.input_path
    /\ \E i \in r.inputs : r.inputs = {i}
    /\ r.required_known

Start(j, r) ==
    /\ pc[j] = "idle"
    /\ \A i \in Jobs : Running(i) => ~r.alone /\ ~opts[i].alone
    /\ opts' = [opts EXCEPT ![j] = r]
    /\ had' = [had EXCEPT ![j] = IF r.baseline = None THEN {} ELSE {disk[r.baseline]}]
    /\ IF Accepted(r) THEN Goto(j, "ingest") ELSE Exit(j, "refused")
    /\ UNCHANGED <<input, acts, disk, at, seen, found, base>>

\* _ingest: four exception types mean exit 2, any other leaves cli.scan.
Ingest(j) ==
    /\ pc[j] = "ingest"
    /\ seen' = [seen EXCEPT ![j] = input]
    /\ \/ IngestOf[input] = "loaded" /\ Goto(j, "media_root")
       \/ IngestOf[input] = "rejected" /\ Exit(j, "refused")
       \/ IngestOf[input] = "raises" /\ Exit(j, "raised")
    /\ UNCHANGED <<input, acts, disk, at, opts, found, base, had>>

CheckMediaRoot(j) ==
    /\ pc[j] = "media_root"
    /\ IF opts[j].media_root = "missing" THEN Exit(j, "refused")
                                         ELSE Goto(j, "evaluate")
    /\ UNCHANGED <<input, acts, disk, had, job>>

\* The rules run over what was ingested; the output directory is made.
Evaluate(j) ==
    /\ pc[j] = "evaluate"
    /\ found' = [found EXCEPT ![j] = FindingsOf[seen[j]]]
    /\ at' = [at EXCEPT ![j] = 1]
    /\ Goto(j, "open")
    /\ UNCHANGED <<input, acts, disk, opts, seen, base, had>>

-----------------------------------------------------------------------------
(***************************************************************************)
(* Writing.  A text that goes where nothing was written since the file was *)
(* last truncated is whole.  Laid over another job's text it is whole only *)
(* if it is not the shorter one.                                           *)
(***************************************************************************)
Target(j) == IF at[j] = Record THEN <<"runs", j>>
                               ELSE <<opts[j].output_dir, Names[at[j]]>>

\* The reports and the run record hold all findings, the comparison the new.
TextOf(j) == Text(j, IF at[j] = Comparison THEN New(found[j], base[j])
                                           ELSE found[j])

After(old, new) == IF old.kind = "empty" THEN {new} ELSE {new, Blank("torn")}

Open(j) ==
    /\ pc[j] = "open"
    /\ disk' = [disk EXCEPT ![Target(j)] = Blank("empty")]
    /\ Watch
    /\ Goto(j, "write")
    /\ UNCHANGED <<input, acts, job>>

\* Faulty variants: the record's slot is off by one; --run-store is ignored.
ConcludeOffByOne(j) ==
    IF opts[j].run_store
    THEN at' = [at EXCEPT ![j] = Record + 1] /\ Goto(j, "open")
    ELSE UNCHANGED at /\ Goto(j, "verdict")

ConcludeWithoutRecord(j) == UNCHANGED at /\ Goto(j, "verdict")

\* RunStore.save comes after the baseline handling, the verdict last.
Conclude(j) ==
    IF opts[j].run_store
    THEN at' = [at EXCEPT ![j] = Record] /\ Goto(j, "open")
    ELSE UNCHANGED at /\ Goto(j, "verdict")

\* Faulty variants: the manifest is left out; the run is recorded before the
\* baseline is looked at.
WriteSkipsManifest(j) ==
    /\ pc[j] = "write"
    /\ \E text \in After(disk[Target(j)], TextOf(j)) :
          disk' = [disk EXCEPT ![Target(j)] = text]
    /\ Watch
    /\ \/ at[j] \in 1 .. 5 /\ Goto(j, "open")
             /\ at' = [at EXCEPT ![j] = IF at[j] = 3 THEN 5 ELSE at[j] + 1]
       \/ at[j] = 6 /\ UNCHANGED at /\ Goto(j, "baseline")
       \/ at[j] = Comparison /\ Conclude(j)
       \/ at[j] = Record /\ UNCHANGED at /\ Goto(j, "verdict")
    /\ UNCHANGED <<input, acts, opts, seen, found, base>>

WriteRecordsFirst(j) ==
    /\ pc[j] = "write"
    /\ \E text \in After(disk[Target(j)], TextOf(j)) :
          disk' = [disk EXCEPT ![Target(j)] = text]
    /\ Watch
    /\ \/ at[j] \in 1 .. 5 /\ at' = [at EXCEPT ![j] = at[j] + 1] /\ Goto(j, "open")
       \/ at[j] = 6 /\ opts[j].run_store
             /\ at' = [at EXCEPT ![j] = Record] /\ Goto(j, "open")
       \/ at[j] \in {6, Record} /\ UNCHANGED at /\ Goto(j, "baseline")
       \/ at[j] = Comparison /\ UNCHANGED at /\ Goto(j, "verdict")
    /\ UNCHANGED <<input, acts, opts, seen, found, base>>

Write(j) ==
    /\ pc[j] = "write"
    /\ \E text \in After(disk[Target(j)], TextOf(j)) :
          disk' = [disk EXCEPT ![Target(j)] = text]
    /\ Watch
    /\ \/ at[j] \in 1 .. 5 /\ at' = [at EXCEPT ![j] = at[j] + 1] /\ Goto(j, "open")
       \/ at[j] = 6 /\ UNCHANGED at /\ Goto(j, "baseline")
       \/ at[j] = Comparison /\ Conclude(j)
       \/ at[j] = Record /\ UNCHANGED at /\ Goto(j, "verdict")
    /\ UNCHANGED <<input, acts, opts, seen, found, base>>

-----------------------------------------------------------------------------
(***************************************************************************)
(* The baseline is read only now, after the six reports are on disk.  A    *)
(* file that is missing, is not JSON or is not a list is a BaselineError.  *)
(***************************************************************************)
IsFindingsJson(f) == f \in Saved \/ (f \in Output /\ f[2] = "findings.json")

Readable(f, content) == IsFindingsJson(f) /\ content.kind = "report"

\* Faulty variants: no comparison is written when nothing is new; an
\* unreadable baseline is waited for; it counts as an empty one.
LoadBaselineQuietly(j) ==
    /\ pc[j] = "baseline"
    /\ LET f == opts[j].baseline
           known == IF f = None THEN {} ELSE Fingerprints(disk[f].findings)
       IN  /\ f # None => Readable(f, disk[f])
           /\ base' = [base EXCEPT ![j] = known]
           /\ IF f # None /\ New(found[j], known) # {}
              THEN at' = [at EXCEPT ![j] = Comparison] /\ Goto(j, "open")
              ELSE Conclude(j)
    /\ UNCHANGED <<input, acts, disk, opts, seen, found, had>>

LoadBaselineWaits(j) ==
    /\ pc[j] = "baseline"
    /\ LET f == opts[j].baseline IN
       IF f = None THEN /\ Conclude(j)
                        /\ UNCHANGED base
       ELSE /\ Readable(f, disk[f])
            /\ base' = [base EXCEPT ![j] = Fingerprints(disk[f].findings)]
            /\ at' = [at EXCEPT ![j] = Comparison]
            /\ Goto(j, "open")
    /\ UNCHANGED <<input, acts, disk, opts, seen, found, had>>

LoadBaselineOrNothing(j) ==
    /\ pc[j] = "baseline"
    /\ LET f == opts[j].baseline IN
       IF f = None THEN /\ Conclude(j)
                        /\ UNCHANGED base
       ELSE /\ base' = [base EXCEPT ![j] =
                           IF Readable(f, disk[f]) THEN Fingerprints(disk[f].findings)
                                                   ELSE {}]
            /\ at' = [at EXCEPT ![j] = Comparison]
            /\ Goto(j, "open")
    /\ UNCHANGED <<input, acts, disk, opts, seen, found, had>>

LoadBaseline(j) ==
    /\ pc[j] = "baseline"
    /\ LET f == opts[j].baseline IN
       IF f = None THEN /\ Conclude(j)
                        /\ UNCHANGED base
       ELSE IF Readable(f, disk[f])
       THEN /\ base' = [base EXCEPT ![j] = Fingerprints(disk[f].findings)]
            /\ at' = [at EXCEPT ![j] = Comparison]
            /\ Goto(j, "open")
       ELSE /\ Exit(j, IF disk[f].kind = "not_utf8" THEN "raised" ELSE "refused")
            /\ UNCHANGED <<at, base>>
    /\ UNCHANGED <<input, acts, disk, opts, seen, found, had>>

\* Faulty variant: the known findings count, not the new.
CountedKnown(j) == IF opts[j].baseline # None /\ opts[j].only_new
                   THEN Unchanged(found[j], base[j]) ELSE found[j]

Counted(j) == IF opts[j].baseline # None /\ opts[j].only_new
              THEN New(found[j], base[j]) ELSE found[j]

Judged(j, F) == IF Blocks(opts[j].fail_on, F) THEN "failed" ELSE "passed"

Verdict(j) ==
    /\ pc[j] = "verdict"
    /\ Exit(j, Judged(j, Counted(j)))
    /\ UNCHANGED <<input, acts, disk, had, job>>

-----------------------------------------------------------------------------
(***************************************************************************)
(* The environment: a curator edits the export or keeps a findings.json as *)
(* the baseline, the CI system kills a job, a write fails (disk full).  An *)
(* interrupted write may leave part of its text behind.                    *)
(***************************************************************************)
Interrupt(j, how) ==
    /\ Exit(j, how)
    /\ \/ UNCHANGED disk
       \/ pc[j] = "write" /\ disk' = [disk EXCEPT ![Target(j)] = Blank("torn")]
    /\ Watch
    /\ UNCHANGED <<input, acts, job>>

Kill(j) == Running(j) /\ Interrupt(j, "killed")

WriteError(j) == pc[j] \in {"open", "write"} /\ Interrupt(j, "raised")

Act == acts < MaxActs /\ acts' = acts + 1

EditInput ==
    /\ Act
    /\ \E i \in Inputs \ {input} : input' = i
    /\ UNCHANGED <<disk, pc, outcome, had, job>>

\* Nothing keeps the curator from replacing a baseline that a running scan is
\* yet to read; such a scan may find the copy half made.
KeepBaseline(d, s) ==
    /\ Act
    /\ disk[<<d, "findings.json">>].kind # "absent"
    /\ \E copy \in {disk[<<d, "findings.json">>], Blank("torn")} :
          disk' = [disk EXCEPT ![s] = copy]
    /\ Watch
    /\ UNCHANGED <<input, pc, outcome, job>>

Step(j) ==
    \/ Ingest(j) \/ CheckMediaRoot(j) \/ Evaluate(j)
    \/ Open(j) \/ Write(j) \/ LoadBaseline(j) \/ Verdict(j)

Next ==
    \/ \E j \in Jobs :
          \/ \E r \in Requests : Start(j, r)
          \/ Step(j) \/ Kill(j) \/ WriteError(j)
    \/ EditInput
    \/ \E d \in Dirs, s \in Saved : KeepBaseline(d, s)

\* A job that was started is scheduled; nobody is obliged to start one.
Spec == Init /\ [][Next]_vars /\ \A j \in Jobs : WF_vars(Step(j))

-----------------------------------------------------------------------------
(***************************************************************************)
(* The contract of the command.  Of the disk it keeps what a file is worth *)
(* as a baseline, and the records of the run history.                      *)
(***************************************************************************)
Worth(f) == IF Readable(f, disk[f]) THEN Fingerprints(disk[f].findings) ELSE None

State(j) == CASE pc[j] = "idle" -> "idle"
              [] pc[j] = "done" -> outcome[j]
              [] OTHER -> "running"

Looked(j) == IF at[j] = 0 THEN None ELSE found[j]

\* Past reading its baseline; without one the index never is the comparison.
Compared(j) == at[j] \in {Comparison, Record} /\ opts[j].baseline # None
Known(j) == IF Compared(j) THEN base[j] ELSE None

RecordOf(j) == disk[<<"runs", j>>]
Entered(j) == IF RecordOf(j).kind = "report" THEN RecordOf(j).findings ELSE None

Contract == INSTANCE ScanContract WITH
    state <- [j \in Jobs |-> State(j)],
    request <- opts,
    findings <- [j \in Jobs |-> Looked(j)],
    worth <- [f \in File |-> Worth(f)],
    known <- [j \in Jobs |-> Known(j)],
    history <- [j \in Jobs |-> Entered(j)]

\* Each scan, whatever else happens on the disk, is a step-by-step
\* execution of ScanContract: one look at the data, one at the baseline, and
\* one verdict from the two.
KeepsContract == Contract!Spec

\* The sets of findings the threshold may be applied to: one for each list
\* of findings that the baseline file held since the scan was started.
Promised(j) ==
    IF opts[j].baseline = None THEN {FindingsOf[seen[j]]}
    ELSE {IF opts[j].only_new
          THEN New(FindingsOf[seen[j]], Fingerprints(c.findings))
          ELSE FindingsOf[seen[j]] : c \in {c \in had[j] : Readable(opts[j].baseline, c)}}

(***************************************************************************)
(* The gate is honest: a scan that ends with exit 0 or by the threshold    *)
(* with exit 1 decided on the findings of the input it read and, with      *)
(* --only-new, on those that were not in a list of findings its baseline   *)
(* file held at one moment since the scan was started; if nobody touched   *)
(* the file, on the one it was started against (cli.py scan: the baseline  *)
(* is read after six files were written, so this is about two reads far    *)
(* apart, while other scans and the curator write).                        *)
(***************************************************************************)
VerdictHonest ==
    \A j \in Jobs : outcome[j] \in {"passed", "failed"} =>
        \E F \in Promised(j) : outcome[j] = Judged(j, F)

(***************************************************************************)
(* Exit 2 means rejected input or configuration, and what a refused scan   *)
(* leaves behind: nothing if it was refused before the rules ran, never a  *)
(* comparison or a history record (cli.py: the BaselineError path returns  *)
(* after the six reports but before both).                                 *)
(***************************************************************************)
RefusalLeavesNoRecord ==
    \A j \in Jobs, f \in Output \cup Records :
        outcome[j] = "refused" /\ disk[f].run = j =>
            /\ f \in Output /\ f[2] # Names[Comparison]
            /\ opts[j].baseline # None

Serialized == \A j \in Jobs : opts[j] # None => opts[j].alone

(***************************************************************************)
(* A comparison left over from an earlier scan: with one scan at a time, a *)
(* baseline_comparison.json that is not about the findings.json beside it  *)
(* is there only because the later scan had no baseline or did not finish  *)
(* (cli.py never removes the file).                                        *)
(***************************************************************************)
LeftoverComparisonExplained ==
    Serialized /\ (\A j \in Jobs : ~Running(j)) =>
        \A d \in Dirs :
            LET cmp == disk[<<d, Names[Comparison]>>]
                rep == disk[<<d, "findings.json">>]
            IN  cmp.kind = "report" /\ rep.kind = "report" /\ cmp.run # rep.run =>
                    \/ opts[rep.run].baseline = None
                    \/ outcome[rep.run] \notin {"passed", "failed"}

Alone(j) ==
    \/ opts[j].alone
    \/ \A i \in Jobs \ {j} : at[i] = 0 \/ opts[i].output_dir # opts[j].output_dir

Reported(j) ==
    /\ \A n \in Reports :
          disk[<<opts[j].output_dir, Names[n]>>] = Text(j, FindingsOf[seen[j]])
    /\ opts[j].baseline # None =>
          disk[<<opts[j].output_dir, Names[Comparison]>>]
              = Text(j, New(FindingsOf[seen[j]], base[j]))
    /\ opts[j].run_store => disk[<<"runs", j>>] = Text(j, FindingsOf[seen[j]])

(***************************************************************************)
(* A verdict is backed by its evidence: when a scan exits 0 or 1 by its    *)
(* threshold, each of the six reports lists every finding of this run,     *)
(* whatever the baseline suppressed, the comparison is this run's, and so  *)
(* is the history record, unless another scan wrote to the same directory  *)
(* meanwhile.                                                              *)
(***************************************************************************)
VerdictReported ==
    [][\A j \in Jobs : outcome[j] = "none" /\ outcome'[j] \in {"passed", "failed"}
            /\ Alone(j) => Reported(j)']_vars

(***************************************************************************)
(* Every scan that was started ends, whatever it meets on the way.         *)
(***************************************************************************)
EveryScanEnds == Contract!Ending

(***************************************************************************)
(* A new finding fails the gate: if the findings.json named as baseline    *)
(* was there before the scan wrote anything, a scan that passes with       *)
(* --only-new has no finding at its threshold that was missing from it.    *)
(***************************************************************************)
NewFindingFailsGate ==
    \A j \in Jobs :
        LET prior == {c \in had[j] : Readable(opts[j].baseline, c) /\ c.run # j} IN
        outcome[j] = "passed" /\ opts[j].baseline # None /\ opts[j].only_new /\ prior # {}
        => \E c \in prior : ~Blocks(opts[j].fail_on,
                                    New(FindingsOf[seen[j]], Fingerprints(c.findings)))
=============================================================================
