---------------------------- MODULE LineSampling ----------------------------
(***************************************************************************)
(* take_bounded_lines (ingestion/sampling.py): a header and at most        *)
(* `limit` lines are taken from a line source of any length, a stream that *)
(* never ends included.  The source is lazy: a line is consumed when the   *)
(* iterator is asked for it, whether or not it is kept.                    *)
(*                                                                         *)
(* A line is known by its part in a CSV record: "row" is a record of its   *)
(* own, "open" begins a record that goes on in the next line (a quoted     *)
(* cell with a line break), "close" ends it; "head" and "tail" are a       *)
(* record that was taken apart where it has no line break.                 *)
(***************************************************************************)
EXTENDS Naturals, Sequences

CONSTANTS Limits,    \* the values of --limit
          Sources    \* the line sources

LineKind == {"row", "open", "close", "head", "tail"}

\* After its lines a source ends, or goes on with "row" for ever.
Source == [lines : Seq(LineKind), endless : BOOLEAN]

ASSUME SamplingAssumption == Limits \subseteq Nat /\ Sources \subseteq Source

VARIABLES limit, source, consumed, out, pc

vars == <<limit, source, consumed, out, pc>>

More == source.endless \/ consumed < Len(source.lines)
NextLine == IF consumed < Len(source.lines) THEN source.lines[consumed + 1] ELSE "row"

TypeOK ==
    /\ limit \in Limits
    /\ source \in Sources
    /\ consumed \in Nat
    /\ out \in Seq(LineKind)
    /\ pc \in {"header", "loop", "done"}

\* A negative limit is refused before anything is read (ValueError).
Init ==
    /\ limit \in Limits
    /\ source \in Sources
    /\ consumed = 0 /\ out = <<>> /\ pc = "header"

TakeHeader ==
    /\ pc = "header" /\ More
    /\ out' = <<NextLine>>
    /\ consumed' = 1
    /\ pc' = "loop"
    /\ UNCHANGED <<limit, source>>

\* The source has ended: StopIteration, or the end of the for loop.
Exhausted ==
    /\ pc \in {"header", "loop"} /\ ~More
    /\ pc' = "done"
    /\ UNCHANGED <<limit, source, consumed, out>>

\* Faulty variants: the line past the limit is kept before the loop is left;
\* the header counts as a line of the limit.
TakeLineLate ==
    /\ pc = "loop" /\ More
    /\ consumed' = consumed + 1
    /\ out' = Append(out, NextLine)
    /\ pc' = IF consumed - 1 >= limit THEN "done" ELSE "loop"
    /\ UNCHANGED <<limit, source>>

TakeLineEarly ==
    /\ pc = "loop" /\ More
    /\ consumed' = consumed + 1
    /\ IF consumed >= limit
       THEN pc' = "done" /\ UNCHANGED out
       ELSE pc' = "loop" /\ out' = Append(out, NextLine)
    /\ UNCHANGED <<limit, source>>

\* One turn of the loop: enumerate's index is the lines consumed after the
\* header; the line is consumed first and kept only below the limit.
TakeLine ==
    /\ pc = "loop" /\ More
    /\ consumed' = consumed + 1
    /\ IF consumed - 1 >= limit
       THEN pc' = "done" /\ UNCHANGED out
       ELSE pc' = "loop" /\ out' = Append(out, NextLine)
    /\ UNCHANGED <<limit, source>>

Next == TakeHeader \/ Exhausted \/ TakeLine

Spec == Init /\ [][Next]_vars

-----------------------------------------------------------------------------
LineAt(i) == IF i <= Len(source.lines) THEN source.lines[i] ELSE "row"

(***************************************************************************)
(* The safety boundary: at most limit + 2 lines are ever read, no more     *)
(* than one past what is kept, and what is kept are the first lines of the *)
(* source in order.                                                        *)
(***************************************************************************)
Bounded ==
    /\ consumed <= limit + 2
    /\ Len(out) <= limit + 1
    /\ consumed <= Len(out) + 1
    /\ \A i \in 1 .. Len(out) : out[i] = LineAt(i)

(***************************************************************************)
(* Nothing that was asked for is withheld: a sample shorter than limit + 1 *)
(* lines means the source had no more.                                     *)
(***************************************************************************)
NothingWithheld == pc = "done" /\ Len(out) < limit + 1 => ~source.endless /\ Len(out) = Len(source.lines)
=============================================================================
