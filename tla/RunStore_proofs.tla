--------------------------- MODULE RunStore_proofs ---------------------------
(***************************************************************************)
(* Any number of savers, any clock: a listing of the history that succeeds *)
(* is a true picture of it, and one that fails has met an unfinished save. *)
(***************************************************************************)
EXTENDS RunStore, FiniteSetTheorems, TLAPS

\* What a record's file holds follows from how far its saver got.
FilesFollow ==
    \A r \in Runs :
        /\ saver[r] \in {"idle", "named"} => file[r] = "absent"
        /\ saver[r] = "saved" => file[r] = "whole"
        /\ file[r] = "whole" => saver[r] = "saved"
        /\ saver[r] # "idle" => made

\* Nothing that was saved when the listing began is lost on the way.
ListingComplete ==
    /\ before \subseteq Saved
    /\ reader = "reading" => /\ before \subseteq names \cup summaries
                             /\ summaries \subseteq Saved
                             /\ \A r \in names : file[r] # "absent"
    /\ reader = "listed" => /\ before \subseteq ToSet(result)
                            /\ ToSet(result) \subseteq Saved

ListingSorted ==
    /\ reader # "listed" => result = <<>>
    /\ \E n \in Nat : result \in [1 .. n -> Runs]
    /\ \A i, k \in DOMAIN result : i < k => Older(result[i], result[k])

RunStoreTyped ==
    /\ clock \in Nat
    /\ created \in [Runs -> Nat]
    /\ saver \in [Runs -> {"idle", "named", "open", "saved", "killed"}]
    /\ file \in [Runs -> {"absent", "empty", "torn", "whole"}]
    /\ reader \in {"idle", "reading", "listed", "failed"}
    /\ names \subseteq Runs /\ summaries \subseteq Runs

ListInv == RunStoreTyped /\ FilesFollow /\ ListingComplete /\ ListingSorted

LEMMA EmptyList == <<>> \in [1 .. 0 -> Runs] /\ ToSet(<<>>) = {}
BY DEF ToSet

LEMMA InitList == Init => ListInv
<1> SUFFICES ASSUME Init PROVE ListInv
  OBVIOUS
<1>1. RunStoreTyped /\ FilesFollow /\ ListingComplete
  BY DEF Init, RunStoreTyped, FilesFollow, ListingComplete
<1>2. ListingSorted
  BY EmptyList DEF Init, ListingSorted
<1> QED BY <1>1, <1>2 DEF ListInv

\* What was saved stays, with its time, while others save.
LEMMA SaveKeepsListing ==
    ASSUME ListInv, UNCHANGED list, Saved \subseteq Saved',
           \A r \in Saved : created'[r] = created[r],
           \A r \in Runs : file[r] # "absent" => file'[r] # "absent"
    PROVE  ListingComplete' /\ ListingSorted'
<1> USE DEF ListInv
<1>1. UNCHANGED <<reader, names, summaries, result, before>>
  BY DEF list
<1>2. ListingComplete'
  BY <1>1 DEF ListingComplete, RunStoreTyped
<1>3. \A i \in DOMAIN result : created'[result[i]] = created[result[i]]
  <2>1. CASE reader = "listed"
    BY <2>1 DEF ListingComplete, ToSet
  <2>2. CASE reader # "listed"
    BY <2>2 DEF ListingSorted
  <2> QED BY <2>1, <2>2
<1>4. ListingSorted'
  BY <1>1, <1>3 DEF ListingSorted, Older
<1> QED BY <1>2, <1>4

LEMMA NextList == ListInv /\ [Next]_vars => ListInv'
<1> SUFFICES ASSUME ListInv, [Next]_vars PROVE ListInv'
  OBVIOUS
<1> USE DEF ListInv, RunStoreTyped
<1>1. CASE Tick
  <2>1. RunStoreTyped' /\ FilesFollow' /\ Saved' = Saved
    BY <1>1 DEF Tick, save, list, FilesFollow, Saved
  <2>2. ListingComplete' /\ ListingSorted'
    BY <1>1, <2>1, SaveKeepsListing DEF Tick, save
  <2> QED BY <2>1, <2>2
<1>2. ASSUME NEW r \in Runs, Summarize(r) \/ OpenRecord(r) \/ WriteRecord(r) \/ Kill(r)
      PROVE  ListInv'
  <2>1. RunStoreTyped'
    BY <1>2 DEF Summarize, OpenRecord, WriteRecord, Kill, list
  <2>2. FilesFollow'
    BY <1>2 DEF Summarize, OpenRecord, WriteRecord, Kill, FilesFollow
  <2>3. UNCHANGED list /\ saver[r] # "saved" /\ \A s \in Runs \ {r} :
           saver'[s] = saver[s] /\ file'[s] = file[s] /\ created'[s] = created[s]
    BY <1>2 DEF Summarize, OpenRecord, WriteRecord, Kill
  <2>4. file[r] # "absent" => file'[r] # "absent"
    BY <1>2 DEF Summarize, OpenRecord, WriteRecord, Kill
  <2>5. Saved \subseteq Saved' /\ \A s \in Saved : created'[s] = created[s]
    BY <2>3 DEF Saved
  <2>6. ListingComplete' /\ ListingSorted'
    BY <2>3, <2>4, <2>5, SaveKeepsListing
  <2> QED BY <2>1, <2>2, <2>6
<1>3. CASE BeginList
  <2>1. /\ UNCHANGED <<clock, save>> /\ before' = Saved /\ result' = <<>> /\ summaries' = {}
        /\ \/ /\ made /\ reader' = "reading" /\ names' = {r \in Runs : file[r] # "absent"}
           \/ /\ ~made /\ reader' = "listed" /\ names' = {}
    BY <1>3 DEF BeginList
  <2>2. RunStoreTyped' /\ FilesFollow' /\ Saved' = Saved
    BY <2>1 DEF save, FilesFollow, Saved
  <2>3. ~made => Saved = {}
    BY DEF FilesFollow, Saved
  <2>4. \A r \in Saved : file[r] # "absent"
    BY DEF FilesFollow, Saved
  <2>5. ListingComplete'
    BY <2>1, <2>2, <2>3, <2>4, EmptyList DEF ListingComplete, Saved, save
  <2>6. ListingSorted'
    BY <2>1, EmptyList DEF ListingSorted
  <2> QED BY <2>2, <2>5, <2>6
<1>4. ASSUME NEW r \in Runs, ReadRecord(r) PROVE ListInv'
  <2>1. RunStoreTyped' /\ FilesFollow' /\ Saved' = Saved
    BY <1>4 DEF ReadRecord, save, FilesFollow, Saved
  <2>2. ListingComplete'
    BY <1>4, <2>1 DEF ReadRecord, save, ListingComplete, FilesFollow, Saved
  <2>3. ListingSorted'
    BY <1>4 DEF ReadRecord, save, ListingSorted, Older
  <2> QED BY <2>1, <2>2, <2>3
<1>5. CASE EndList
  <2>1. /\ reader = "reading" /\ names = {} /\ reader' = "listed"
        /\ UNCHANGED <<clock, save, names, summaries, before>>
        /\ result' \in [1 .. Cardinality(summaries) -> summaries] /\ ToSet(result') = summaries
        /\ \A i, k \in DOMAIN result' : i < k => Older(result'[i], result'[k])
    BY <1>5 DEF EndList, Sorted, list
  <2>2. RunStoreTyped' /\ FilesFollow' /\ Saved' = Saved
    BY <2>1 DEF save, FilesFollow, Saved
  <2>3. ListingComplete'
    BY <2>1, <2>2 DEF ListingComplete
  <2>4. Cardinality(summaries) \in Nat
    BY RunStoreAssumption, FS_Subset, FS_CardinalityType
  <2>5. ListingSorted'
    BY <2>1, <2>4 DEF ListingSorted, Older, save
  <2> QED BY <2>2, <2>3, <2>5
<1>6. CASE UNCHANGED vars
  <2>1. RunStoreTyped' /\ FilesFollow' /\ Saved' = Saved
    BY <1>6 DEF vars, save, list, FilesFollow, Saved
  <2>2. ListingComplete' /\ ListingSorted'
    BY <1>6, <2>1, SaveKeepsListing DEF vars, save
  <2> QED BY <2>1, <2>2
<1> QED BY <1>1, <1>2, <1>3, <1>4, <1>5, <1>6 DEF Next

-----------------------------------------------------------------------------
(***************************************************************************)
(* However many scans save while the history is listed: a listing has      *)
(* every run saved before it began, none half written, in order, and its   *)
(* last is at least as new as each of those runs.                          *)
(***************************************************************************)
THEOREM ListingIsTrue == Spec => []ListingTrue
<1>1. ListInv => ListingTrue
  <2> SUFFICES ASSUME ListInv, reader = "listed" PROVE ListingTrue
    BY DEF ListingTrue
  <2> USE DEF ListInv
  <2>1. before \subseteq ToSet(result) /\ ToSet(result) \subseteq Saved
    BY DEF ListingComplete
  <2>2. \A r \in ToSet(result) : file[r] = "whole"
    BY <2>1 DEF FilesFollow, Saved
  <2>3. PICK n \in Nat : result \in [1 .. n -> Runs]
    BY DEF ListingSorted
  <2>4. Len(result) = n /\ DOMAIN result = 1 .. n
    BY <2>3
  <2>5. ASSUME NEW r \in before
        PROVE  \E s \in Latest : r = s \/ created[r] <= created[s]
    <3>1. PICK i \in 1 .. n : r = result[i]
      BY <2>1, <2>4 DEF ToSet
    <3>2. result # <<>> /\ Latest = {result[n]} /\ n \in 1 .. n
      BY <2>4, <3>1 DEF Latest
    <3>3. i = n \/ Older(result[i], result[n])
      BY <2>4, <3>1, <3>2 DEF ListingSorted
    <3>4. created[result[i]] \in Nat /\ created[result[n]] \in Nat
      BY <2>3, <3>1, <3>2 DEF RunStoreTyped
    <3> QED BY <3>1, <3>2, <3>3, <3>4 DEF Older
  <2> QED BY <2>1, <2>2, <2>4, <2>5 DEF ListingSorted, ListingTrue
<1> QED BY InitList, NextList, <1>1, PTL DEF Spec

LEMMA FailingRead == ListInv /\ [Next]_vars =>
    (reader = "reading" /\ reader' = "failed" =>
        \E r \in names : saver[r] \in {"open", "killed"} /\ file[r] # "whole")
<1> SUFFICES ASSUME ListInv, [Next]_vars, reader = "reading", reader' = "failed"
             PROVE  \E r \in names : saver[r] \in {"open", "killed"} /\ file[r] # "whole"
  OBVIOUS
<1>1. PICK r \in Runs : ReadRecord(r)
  BY DEF Next, Tick, Summarize, OpenRecord, WriteRecord, Kill, BeginList, EndList, vars, list
<1>2. r \in names /\ file[r] # "whole"
  BY <1>1 DEF ReadRecord
<1> QED BY <1>1, <1>2 DEF ListInv, RunStoreTyped, FilesFollow, ListingComplete

(***************************************************************************)
(* Listing breaks off for one reason only: a record that its scan has      *)
(* opened and not yet written, or never will.                              *)
(***************************************************************************)
THEOREM OnlyUnfinishedSavesBreak == Spec => OnlyUnfinishedSavesFail
BY InitList, NextList, FailingRead, PTL DEF Spec, OnlyUnfinishedSavesFail
=============================================================================
