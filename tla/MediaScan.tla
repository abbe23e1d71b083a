----------------------------- MODULE MediaScan ------------------------------
(***************************************************************************)
(* The media-file rules MEDIA001..004 (rules/media_rules.py) over a media  *)
(* root that other programs write to meanwhile.  Each rule goes through    *)
(* the media rows on its own and looks at the files again: a look is one   *)
(* stat or one read, and a file may change between any two of them.        *)
(***************************************************************************)
EXTENDS Naturals, Sequences, FiniteSets

CONSTANTS Path,        \* local paths under the media root
          Elsewhere,   \* remote URLs, paths out of the root, empty cells
          Content,     \* what a file may hold
          Image,       \* per content [header: size or 0, verifies: an Outcome]
          Tables,      \* the media tables: paths, by sorted media id
          Trees,       \* the files a media root may start with
          MinSize,     \* --min-image-width/height; 0 switches MEDIA003 off
          MaxChanges   \* bound on the paths that change during a scan

\* A path holds a file, a file nobody may read, a directory, or nothing.
State == Content \cup {"absent", "dir", "locked"}

\* What Image.open and verify() make of a content: no exception, one that
\* media_files.py catches, or the SyntaxError of a PNG's bad chunk or checksum.
Outcome == {"yes", "no", "raises"}

ASSUME MediaAssumption ==
    /\ Tables \subseteq Seq(Path \cup Elsewhere)
    /\ Path \cap Elsewhere = {}
    /\ Content \cap {"absent", "dir", "locked"} = {}
    /\ Image \in [Content -> [header : Nat, verifies : Outcome]]
    /\ Trees \subseteq [Path -> State]
    /\ MinSize \in Nat /\ MaxChanges \in Nat

Rule == {"MEDIA001", "MEDIA002", "MEDIA003", "MEDIA004"}

VARIABLES media,    \* the paths of the media rows, in the order they are visited
          file,     \* the media root
          rule, at, \* the rule and the row the scan is at
          looked,   \* is_file has said yes, the read is still to come
          digest,   \* by_hash of MEDIA002: per row hashed its content
          found,    \* <<rule, row>>
          ended,    \* "no", "done", "raised"
          changed   \* history: the paths that changed during the scan

scan == <<rule, at, looked, digest, found, ended>>
vars == <<media, file, scan, changed>>

Init ==
    /\ media \in Tables
    /\ file \in Trees
    /\ rule = "MEDIA001" /\ at = 1 /\ looked = FALSE
    /\ digest = [r \in {} |-> "absent"]
    /\ found = {} /\ ended = "no" /\ changed = {}

-----------------------------------------------------------------------------
\* resolve_local_path: only paths under the media root are looked at.
Local == media[at] \in Path
Now == file[media[at]]
Exists == Now # "absent"
IsFile == Now \notin {"absent", "dir"}
Opens == Now \in Content

Visiting(r) == ended = "no" /\ rule = r /\ at <= Len(media)
Report == found' = found \cup {<<rule, at>>}
NextRow == at' = at + 1 /\ looked' = FALSE

Skip ==
    /\ ended = "no" /\ at <= Len(media) /\ ~looked
    /\ Local => (rule # "MEDIA001" /\ ~IsFile)
    /\ NextRow
    /\ UNCHANGED <<media, file, rule, digest, found, ended, changed>>

\* MEDIA001: path.exists is the only look.
CheckMissing ==
    /\ Visiting("MEDIA001") /\ Local
    /\ IF Exists THEN UNCHANGED found ELSE Report
    /\ NextRow
    /\ UNCHANGED <<media, file, rule, digest, ended, changed>>

\* Faulty variant: the path is read without asking whether it is a file.
LookUnchecked ==
    /\ ended = "no" /\ rule # "MEDIA001" /\ at <= Len(media) /\ ~looked
    /\ Local
    /\ looked' = TRUE
    /\ UNCHANGED <<media, file, rule, at, digest, found, ended, changed>>

\* MEDIA002..004: path.is_file, then a read.
Look ==
    /\ ended = "no" /\ rule # "MEDIA001" /\ at <= Len(media) /\ ~looked
    /\ Local /\ IsFile
    /\ looked' = TRUE
    /\ UNCHANGED <<media, file, rule, at, digest, found, ended, changed>>

\* hash_file: an OSError leaves the rule, the scan and the process.
Hash ==
    /\ Visiting("MEDIA002") /\ looked
    /\ IF Opens
       THEN /\ digest' = [r \in DOMAIN digest \cup {at} |-> IF r = at THEN Now ELSE digest[r]]
            /\ NextRow /\ UNCHANGED ended
       ELSE /\ ended' = "raised"
            /\ UNCHANGED <<at, looked, digest>>
    /\ UNCHANGED <<media, file, rule, found, changed>>

\* read_image_size: None for what has no readable header.
Measure ==
    /\ Visiting("MEDIA003") /\ looked
    /\ IF Opens /\ Image[Now].header \in 1 .. MinSize - 1 THEN Report ELSE UNCHANGED found
    /\ NextRow
    /\ UNCHANGED <<media, file, rule, digest, ended, changed>>

\* Faulty variant: a readable header is taken for a sound image.
VerifyHeader ==
    /\ Visiting("MEDIA004") /\ looked
    /\ IF Opens /\ Image[Now].header > 0 THEN UNCHANGED found ELSE Report
    /\ NextRow
    /\ UNCHANGED <<media, file, rule, digest, ended, changed>>

\* is_readable_image: what cannot be opened or decoded counts as unreadable,
\* but a SyntaxError leaves the rule, the scan and the process.
Breaks == Opens /\ Image[Now].verifies = "raises"

Verify ==
    /\ Visiting("MEDIA004") /\ looked
    /\ IF Breaks
       THEN ended' = "raised" /\ UNCHANGED <<at, looked, found>>
       ELSE /\ IF Opens /\ Image[Now].verifies = "yes" THEN UNCHANGED found ELSE Report
            /\ NextRow /\ UNCHANGED ended
    /\ UNCHANGED <<media, file, rule, digest, changed>>

Following == [MEDIA001 |-> "MEDIA002", MEDIA002 |-> "MEDIA003", MEDIA003 |-> "MEDIA004"]

\* Rows whose content another row has too.
Duplicates == {r \in DOMAIN digest : \E q \in DOMAIN digest : q # r /\ digest[q] = digest[r]}

\* The end of a rule: MEDIA002 reports the groups, here by their rows;
\* MEDIA003 is left out when there is no minimum.
EndRule ==
    /\ ended = "no" /\ at > Len(media)
    /\ found' = IF rule = "MEDIA002" THEN found \cup ({rule} \X Duplicates) ELSE found
    /\ IF rule = "MEDIA004" THEN ended' = "done" /\ UNCHANGED <<rule, at>>
       ELSE /\ rule' = IF rule = "MEDIA002" /\ MinSize = 0 THEN "MEDIA004" ELSE Following[rule]
            /\ at' = 1 /\ UNCHANGED ended
    /\ UNCHANGED <<media, file, looked, digest, changed>>

Step == Skip \/ CheckMissing \/ Look \/ Hash \/ Measure \/ Verify \/ EndRule

\* Somebody adds, replaces or removes a file.
Change(p) ==
    /\ ended = "no" /\ Cardinality(changed) < MaxChanges
    /\ \E s \in State : s \notin {file[p], "locked"} /\ file' = [file EXCEPT ![p] = s]
    /\ changed' = changed \cup {p}
    /\ UNCHANGED <<media, scan>>

Next == Step \/ \E p \in Path : Change(p)

Spec == Init /\ [][Next]_vars

-----------------------------------------------------------------------------
\* The rows whose file was left alone during the scan.
Untouched == {r \in DOMAIN media : media[r] \in Path \ changed}

\* What the rules promise about a row, from the file alone.
Verdict(r) ==
    LET s == file[media[r]] IN
    IF s = "absent" THEN {"MEDIA001"}
    ELSE IF s = "dir" THEN {}
    ELSE {v \in {"MEDIA003", "MEDIA004"} :
            CASE v = "MEDIA003" -> Image[s].header # 0 /\ Image[s].header < MinSize
              [] v = "MEDIA004" -> Image[s].verifies # "yes"}

(***************************************************************************)
(* A file that is left alone gets exactly the findings its content calls   *)
(* for, whatever happens to the other files during the scan; two such      *)
(* files are grouped exactly if their contents are equal.                  *)
(***************************************************************************)
UntouchedJudgedRight ==
    ended = "done" => \A r \in Untouched :
        /\ {v \in Rule \ {"MEDIA002"} : <<v, r>> \in found} = Verdict(r)
        /\ \A q \in Untouched \ {r} :
              file[media[r]] \in Content /\ file[media[q]] = file[media[r]] =>
                  {<<"MEDIA002", r>>, <<"MEDIA002", q>>} \subseteq found
        /\ <<"MEDIA002", r>> \in found =>
              file[media[r]] \in Content /\
              \E q \in DOMAIN media \ {r} : q \in DOMAIN digest /\ digest[q] = file[media[r]]

(***************************************************************************)
(* A scan breaks off over a file for two reasons only: in MEDIA002 the     *)
(* file went away between two looks, or may not be read; in MEDIA004 it is *)
(* an image over which verify() raises what is not caught.  No other       *)
(* trouble with files, and no other rule, raises.                          *)
(***************************************************************************)
RaisedByAFile ==
    ended = "raised" =>
        /\ Local
        /\ \/ rule = "MEDIA002" /\ ~Opens /\ (media[at] \in changed \/ Now = "locked")
           \/ rule = "MEDIA004" /\ Breaks
=============================================================================
