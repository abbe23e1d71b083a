---------------------------- MODULE FetchSample -----------------------------
(***************************************************************************)
(* The sampling script (scripts/fetch_sample.py): its arguments are        *)
(* checked, then a bounded sample is taken of one file, local or streamed  *)
(* from a URL, or of the directory of the National Gallery's tables.       *)
(*                                                                         *)
(* A file of CSV records is given by its pieces, cut wherever splitlines   *)
(* cuts it.  A record with a line break in a quoted cell is an "open" and  *)
(* a "close"; one with, in a cell without quotes, a separator that         *)
(* splitlines knows and the lines of a response do not (U+2028, a form     *)
(* feed) is a "head" and a "tail"; any other is a "row".                   *)
(***************************************************************************)
EXTENDS LineSampling, SequencesExt

CONSTANTS Empty, Junk, None, MaxYear, Exports, Trim, Marks, MaxRuns, MaxEdits,  \* of NgaSample
          NgaLimits,   \* values of --limit for the directory
          Files,       \* the files, each a sequence of pieces
          Requests     \* command lines: [source, from, url, limit]

MAX_LIMIT == 100000

VARIABLES args,     \* the command line
          file,     \* the file it names, local or remote
          written,  \* the lines of the output file, or None
          pages, marked, edits, ngaPc, runs, ngaLimit, mem, sample, torn, moved  \* of NgaSample

ngaVars == <<pages, marked, edits, ngaPc, runs, ngaLimit, mem, sample, torn, moved>>
fetchVars == <<vars, args, file, written, ngaVars>>

Nga == INSTANCE NgaSample WITH source <- pages, pc <- ngaPc, limit <- ngaLimit,
                               Limits <- NgaLimits

-----------------------------------------------------------------------------
\* What goes on in the next piece does so, and nothing else is gone on with.
WholeRecords(pieces) ==
    LET Places(part) == {i \in DOMAIN pieces : pieces[i] = part}
        After(part) == {i + 1 : i \in Places(part)}
    IN  Places("close") = After("open") /\ Places("tail") = After("head")

\* The lines that read_text().splitlines() finds, or those of a response.
LinesOf(pieces, local) ==
    IF local THEN pieces
    ELSE Nga!RowsAt([i \in DOMAIN pieces |-> IF pieces[i] = "head" THEN "row" ELSE pieces[i]],
                    {i \in DOMAIN pieces : pieces[i] # "tail"})

\* parser.error and SystemExit: nothing is read.
Refused(request) ==
    \/ request.from = request.url
    \/ request.limit < 0 \/ request.limit > MAX_LIMIT
    \/ request.source = "nga" /\ ~request.from

Single(request) == request.source # "nga"

ASSUME FetchAssumption ==
    /\ Files \subseteq Seq(LineKind) /\ \A f \in Files : WholeRecords(f)
    /\ Requests \subseteq [source : STRING, from : BOOLEAN, url : BOOLEAN, limit : Int]
    /\ 0 \in Limits /\ \A r \in Requests : ~Refused(r) => r.limit \in Limits
    /\ Nga!WellFormed

\* The script takes one path; the variables of the other stay at rest.
FetchInit ==
    /\ args \in Requests
    /\ file \in IF Single(args) THEN Files ELSE {<<>>}
    /\ source \in {s \in Sources : /\ s.lines = LinesOf(file, args.from)
                                   /\ s.endless => args.url /\ Single(args)}
    /\ limit = IF Refused(args) THEN 0 ELSE args.limit
    /\ consumed = 0 /\ out = <<>> /\ pc = "header"
    /\ written = None
    /\ pages \in IF Single(args) \/ Refused(args) THEN {CHOOSE e \in Exports : TRUE} ELSE Exports
    /\ Nga!Init

\* _bound_single_file: the lines are taken, then the output is written.
TakeLines ==
    /\ ~Refused(args) /\ Single(args)
    /\ Next
    /\ UNCHANGED <<args, file, written, ngaVars>>

WriteLines ==
    /\ ~Refused(args) /\ Single(args)
    /\ pc = "done" /\ written = None
    /\ written' = out
    /\ UNCHANGED <<vars, args, file, ngaVars>>

\* _bound_nga, once or again into the same directory.
BoundDirectory ==
    /\ ~Refused(args) /\ ~Single(args)
    /\ Nga!Next
    /\ UNCHANGED <<vars, args, file, written>>

FetchNext == TakeLines \/ WriteLines \/ BoundDirectory

FetchSpec == FetchInit /\ [][FetchNext]_fetchVars

-----------------------------------------------------------------------------
\* The records a CSV reader finds in lines, each known by its first line.
ReadBack(lines) ==
    Nga!RowsAt([i \in DOMAIN lines |->
                   IF i = Len(lines) /\ lines[i] = "open" THEN "cut" ELSE lines[i]],
               {i \in DOMAIN lines : lines[i] # "close"})

\* The records before the first that splitlines takes apart.
Untouched ==
    Cardinality({i \in DOMAIN file : file[i] # "close" /\ \A j \in 1 .. i : file[j] # "head"})

(***************************************************************************)
(* The sample, read back as CSV, is the source's first records: at most    *)
(* the header and `limit` of them, each whole except that a last one may   *)
(* be cut inside a quoted cell, up to the first record that a local file   *)
(* loses to splitlines; and all of them if the limit was not reached.      *)
(***************************************************************************)
SampleReads ==
    written # None =>
        LET mine == ReadBack(written)
            theirs == ReadBack(LinesOf(file, FALSE))
            Their(n) == IF n <= Len(theirs) THEN theirs[n] ELSE "row"
        IN  /\ Len(mine) <= limit + 1
            /\ \A n \in 1 .. Len(mine) :
                  (args.from => n <= Untouched) =>
                      mine[n] = IF n = Len(mine) /\ written[Len(written)] = "open" THEN "cut" ELSE Their(n)
            /\ Len(written) <= limit /\ (args.from => "head" \notin ToSet(file)) =>
                  ~source.endless /\ mine = theirs

\* The properties of NgaSample, of this specification.
SampleFaithful == Nga!SampleFaithful
NoFalseAlarm == Nga!NoFalseAlarm
SampleClosed == Nga!SampleClosed
ConflictIffDisjoint == Nga!ConflictIffDisjoint
DisplayOrderDecides == [][Nga!DisplayOrderDecides]_fetchVars
=============================================================================
