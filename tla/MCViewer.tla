------------------------------ MODULE MCViewer ------------------------------
(***************************************************************************)
(* A viewer on the directory two scans write to, one after the other, of   *)
(* an export with a finding or of a clean one.                             *)
(***************************************************************************)
EXTENDS Viewer

CONSTANTS j1, j2, out, critical, fpA

MCFpOf == [f \in {critical} |-> fpA]
MCSevOf == [f \in {critical} |-> "critical"]
MCInputs == {"dirty", "clean"}
MCIngestOf == [i \in MCInputs |-> "loaded"]
MCFindingsOf == [i \in MCInputs |-> IF i = "clean" THEN {} ELSE {critical}]
MCSavedFiles == {Blank("absent")}
MCRequests ==
    {[fail_on |-> "critical", inputs |-> {"mapping"}, input_path |-> FALSE,
      required_known |-> TRUE, media_root |-> "present", baseline |-> b,
      only_new |-> FALSE, run_store |-> FALSE, output_dir |-> out, alone |-> TRUE] :
        b \in {None, <<out, "summary.json">>}}
=============================================================================
