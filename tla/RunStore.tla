------------------------------ MODULE RunStore ------------------------------
(***************************************************************************)
(* The run history (engine/run_store.py): scans save one JSON file each    *)
(* under runs/, named by time and a fresh run id, while a reader lists     *)
(* them.  Saving is an open that truncates and a write; listing takes the  *)
(* directory's names once and then reads file after file.  Neither locks.  *)
(***************************************************************************)
EXTENDS Naturals, Sequences, FiniteSets, SequencesExt

CONSTANTS Runs,      \* run ids: numbers stand for the uuids and their order
          MaxTime,   \* bound on the clock
          MaxLists   \* bound on the listings made

ASSUME RunStoreAssumption ==
    Runs \subseteq Nat /\ IsFiniteSet(Runs) /\ MaxTime \in Nat /\ MaxLists \in Nat

VARIABLES clock,     \* datetime.now(UTC)
          made,      \* runs/ exists
          file,      \* per run its record: "absent", "empty", "torn", "whole"
          created,   \* per run its created_at (and file name)
          saver,     \* per run: "idle", "named", "open", "saved", "killed"
          reader,    \* "idle", "reading", "listed", "failed"
          names,     \* the file names of the listing not read yet
          summaries, \* the runs read so far
          result,    \* what list_runs returned, oldest first
          lists,     \* listings begun
          before     \* history: the runs saved when the listing began

save == <<made, file, created, saver>>
list == <<reader, names, summaries, result, lists, before>>
vars == <<clock, save, list>>

Init ==
    /\ clock = 0 /\ made = FALSE
    /\ file = [r \in Runs |-> "absent"]
    /\ created = [r \in Runs |-> 0]
    /\ saver = [r \in Runs |-> "idle"]
    /\ reader = "idle" /\ names = {} /\ summaries = {} /\ before = {}
    /\ result = <<>> /\ lists = 0

Tick == clock < MaxTime /\ clock' = clock + 1 /\ UNCHANGED <<save, list>>

\* summarize, then save up to its mkdir: the time is taken here, not at the write.
Summarize(r) ==
    /\ saver[r] = "idle"
    /\ saver' = [saver EXCEPT ![r] = "named"]
    /\ created' = [created EXCEPT ![r] = clock]
    /\ made' = TRUE
    /\ UNCHANGED <<clock, file, list>>

OpenRecord(r) ==
    /\ saver[r] = "named"
    /\ saver' = [saver EXCEPT ![r] = "open"]
    /\ file' = [file EXCEPT ![r] = "empty"]
    /\ UNCHANGED <<clock, made, created, list>>

\* Faulty variant: a short write passes for a saved record.
WriteRecordShort(r) ==
    /\ saver[r] = "open"
    /\ saver' = [saver EXCEPT ![r] = "saved"]
    /\ file' = [file EXCEPT ![r] = "torn"]
    /\ UNCHANGED <<clock, made, created, list>>

WriteRecord(r) ==
    /\ saver[r] = "open"
    /\ saver' = [saver EXCEPT ![r] = "saved"]
    /\ file' = [file EXCEPT ![r] = "whole"]
    /\ UNCHANGED <<clock, made, created, list>>

Kill(r) ==
    /\ saver[r] \in {"named", "open"}
    /\ saver' = [saver EXCEPT ![r] = "killed"]
    /\ \/ UNCHANGED file
       \/ saver[r] = "open" /\ file' = [file EXCEPT ![r] = "torn"]
    /\ UNCHANGED <<clock, made, created, list>>

-----------------------------------------------------------------------------
Saved == {r \in Runs : saver[r] = "saved"}

\* The sort key of list_runs: created_at, then run_id for a total order.
Older(r, s) == created[r] < created[s] \/ (created[r] = created[s] /\ r < s)

\* The lists that have R in that order; there is one.
Sorted(R) ==
    {s \in [1 .. Cardinality(R) -> R] :
        /\ ToSet(s) = R
        /\ \A i, k \in DOMAIN s : i < k => Older(s[i], s[k])}

BeginList ==
    /\ reader # "reading" /\ lists < MaxLists
    /\ lists' = lists + 1
    /\ before' = Saved
    /\ result' = <<>>
    /\ summaries' = {}
    /\ IF made THEN /\ names' = {r \in Runs : file[r] # "absent"}
                    /\ reader' = "reading"
               ELSE /\ names' = {}
                    /\ reader' = "listed"
    /\ UNCHANGED <<clock, save>>

\* Faulty variants: only a torn record is noticed, and skipped; a record that
\* is not whole is waited for.
ReadOrSkip(r) ==
    /\ reader = "reading" /\ r \in names
    /\ names' = names \ {r}
    /\ summaries' = IF file[r] = "torn" THEN summaries ELSE summaries \cup {r}
    /\ UNCHANGED <<clock, save, reader, result, lists, before>>

\* _from_json raises on a text that was not written to its end.
ReadRecord(r) ==
    /\ reader = "reading" /\ r \in names
    /\ IF file[r] = "whole"
       THEN /\ names' = names \ {r}
            /\ summaries' = summaries \cup {r}
            /\ UNCHANGED reader
       ELSE /\ reader' = "failed"
            /\ UNCHANGED <<names, summaries>>
    /\ UNCHANGED <<clock, save, result, lists, before>>

EndList ==
    /\ reader = "reading" /\ names = {}
    /\ result' \in Sorted(summaries)
    /\ reader' = "listed"
    /\ UNCHANGED <<clock, save, names, summaries, lists, before>>

Latest == IF result = <<>> THEN {} ELSE {result[Len(result)]}

Next ==
    \/ Tick
    \/ \E r \in Runs : \/ Summarize(r) \/ OpenRecord(r) \/ WriteRecord(r)
                       \/ Kill(r) \/ ReadRecord(r)
    \/ BeginList \/ EndList

Spec == Init /\ [][Next]_vars

-----------------------------------------------------------------------------
(***************************************************************************)
(* A listing that succeeds is a true picture of the history: every run     *)
(* saved before it began is in it, nothing in it is half written, and it   *)
(* is in order of creation (list_runs).  So latest() is at least as new as *)
(* every run whose save had ended by then, although a scan takes its time  *)
(* stamp before it writes and several scans write at once.                 *)
(***************************************************************************)
ListingTrue ==
    reader = "listed" =>
        /\ before \subseteq ToSet(result)
        /\ \A r \in ToSet(result) : file[r] = "whole"
        /\ \A i, k \in 1 .. Len(result) : i < k =>
              Older(result[i], result[k])
        /\ \A r \in before : \E s \in Latest : r = s \/ created[r] <= created[s]

(***************************************************************************)
(* Listing fails for one reason only: some scan has opened its record and  *)
(* has not written it, or never will (list_runs reads every file there).   *)
(***************************************************************************)
OnlyUnfinishedSavesFail ==
    [][reader = "reading" /\ reader' = "failed" =>
          \E r \in names : saver[r] \in {"open", "killed"} /\ file[r] # "whole"]_vars
=============================================================================
