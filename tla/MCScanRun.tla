----------------------------- MODULE MCScanRun ------------------------------
(***************************************************************************)
(* Small instances of ScanRun: one severe and two minor findings, two of   *)
(* them with the same fingerprint; a clean, a dirty and a worse export,    *)
(* one the readers reject and one that crashes them.                       *)
(***************************************************************************)
EXTENDS ScanRun, TLC

CONSTANTS j1, j2, out, other, saved, critical, minor, twin, fpA, fpB, fpC

\* Nothing in a scan depends on which job it is.
JobSymmetry == Permutations({j1, j2})

MCFinding == {critical, minor, twin}
MCFingerprint == {fpA, fpB, fpC}
MCFpOf == [f \in MCFinding |-> IF f = critical THEN fpA ELSE fpB]
MCSevOf == [f \in MCFinding |-> IF f = critical THEN "critical" ELSE "low"]

MCInputs == {"worse", "dirty"}
BadInputs == {"worse", "reject", "crash"}
MCIngestOf == [i \in Inputs |->
    CASE i = "reject" -> "rejected" [] i = "crash" -> "raises" [] OTHER -> "loaded"]
MCFindingsOf == [i \in Inputs |->
    CASE i = "worse" -> MCFinding [] i = "dirty" -> {minor, twin} [] OTHER -> {}]

\* A team's baseline lists a known finding; or the path is wrong, or the
\* file is no findings list.
MCSavedFiles == {Blank("absent"), Text(None, {minor})}
BadSavedFiles == {Blank("absent"), Blank("not_list"), Blank("not_utf8")}

Plain == [fail_on |-> "critical", inputs |-> {"objects_csv"}, input_path |-> FALSE,
          required_known |-> TRUE, media_root |-> "unset", baseline |-> None,
          only_new |-> FALSE, run_store |-> TRUE, output_dir |-> out, alone |-> TRUE]
Gate == [Plain EXCEPT !.baseline = saved, !.only_new = TRUE, !.run_store = FALSE]
Strict == [Plain EXCEPT !.baseline = saved, !.fail_on = "low", !.only_new = TRUE]
Lenient == [Plain EXCEPT !.fail_on = "none", !.output_dir = other, !.run_store = FALSE]
OnPrevious == [Strict EXCEPT !.baseline = <<other, "findings.json">>, !.fail_on = "low"]
OnWrongFile == [Strict EXCEPT !.baseline = <<other, "summary.json">>]
BadArgs == {[Plain EXCEPT !.inputs = {"source"}],
            [Plain EXCEPT !.fail_on = "bogus"]}
NoMedia == [Plain EXCEPT !.media_root = "missing"]

\* Scans that run alone, one of them with a findings.json of another directory
\* as its baseline; scans that overlap, in one directory or in two.
SafeRequests ==
    {Plain, Strict, Lenient, OnPrevious}
    \cup {[r EXCEPT !.alone = FALSE] : r \in {Plain, [Gate EXCEPT !.output_dir = other]}}

\* Everything that may be refused, and one scan that is not.
RefusedRequests == {Gate, OnWrongFile, NoMedia, Lenient} \cup BadArgs

\* The report of the directory scanned into serves as its own baseline.
SelfRequests == {Lenient, [Strict EXCEPT !.baseline = <<other, "findings.json">>,
                                         !.output_dir = other]}
=============================================================================
