------------------------- MODULE LocationHierarchy --------------------------
(***************************************************************************)
(* LOC002 (rules/location_rules.py, InvalidLocationHierarchyRule): from    *)
(* the location rows, in input order, a parent table is built; locations   *)
(* whose parent is unknown are reported, then every location whose own     *)
(* parent chain comes back to it.  The chain is walked with a set of       *)
(* visited nodes, so a walk that runs into a loop it did not start on must *)
(* neither report it nor go round for ever.                                *)
(*                                                                         *)
(* The rule visits the known locations in sorted order; here the order of  *)
(* the visits is arbitrary.                                                *)
(***************************************************************************)
EXTENDS Naturals, Sequences

CONSTANTS Location,  \* location ids, with or without a row of their own
          Exports,   \* the location tables the rule may be given
          None       \* no parent

Row == [location_id : Location, parent : Location \cup {None}]

\* An export is a list of rows; None stands for a missing or empty parent.
ASSUME HierarchyAssumption ==
    /\ Exports \subseteq Seq(Row)
    /\ None \notin Location

VARIABLES rows,     \* ctx.locations
          next,     \* the row the first loop is at
          parentOf, \* parent_of, on the ids met so far
          pc,
          todo,     \* known locations the cycle loop has not visited
          start, node, seen,  \* the arguments and locals of _in_cycle
          missing,  \* locations reported for a missing parent
          cyclic    \* locations reported for a cycle

hierarchyVars == <<rows, next, parentOf, pc, todo, start, node, seen, missing, cyclic>>
walk == <<start, node, seen>>

known == DOMAIN parentOf
Parent(l) == IF l \in known THEN parentOf[l] ELSE None   \* parent_of.get

TypeOK ==
    /\ rows \in Seq(Row)
    /\ next \in 1 .. Len(rows) + 1
    /\ known \subseteq Location
    /\ parentOf \in [known -> Location \cup {None}]
    /\ pc \in {"build", "missing", "visit", "walk", "done"}
    /\ todo \subseteq known
    /\ start \in Location \cup {None}
    /\ node \in Location \cup {None}
    /\ seen \subseteq known
    /\ missing \subseteq known
    /\ cyclic \subseteq known

HierarchyInit ==
    /\ rows \in Exports
    /\ next = 1
    /\ parentOf = [l \in {} |-> None]
    /\ pc = "build"
    /\ todo = {} /\ seen = {} /\ missing = {} /\ cyclic = {}
    /\ start = None /\ node = None

\* Faulty variant: the last parent named wins.
RecordedLast(table, row) ==
    [k \in DOMAIN table \cup {row.location_id} |->
        IF k = row.location_id THEN row.parent ELSE table[k]]

\* A location's first row makes it known; a later row may only fill in a
\* parent that is still missing.
Recorded(table, row) ==
    LET l == row.location_id IN
    IF l \notin DOMAIN table
    THEN [k \in DOMAIN table \cup {l} |-> IF k = l THEN row.parent ELSE table[k]]
    ELSE IF row.parent # None /\ table[l] = None
    THEN [table EXCEPT ![l] = row.parent]
    ELSE table

BuildRow ==
    /\ pc = "build" /\ next <= Len(rows)
    /\ parentOf' = Recorded(parentOf, rows[next])
    /\ next' = next + 1
    /\ UNCHANGED <<rows, pc, todo, walk, missing, cyclic>>

BuildDone ==
    /\ pc = "build" /\ next > Len(rows)
    /\ pc' = "missing"
    /\ UNCHANGED <<rows, next, parentOf, todo, walk, missing, cyclic>>

ReportMissing ==
    /\ pc = "missing"
    /\ missing' = {l \in known : parentOf[l] # None /\ parentOf[l] \notin known}
    /\ todo' = known
    /\ pc' = "visit"
    /\ UNCHANGED <<rows, next, parentOf, walk, cyclic>>

-----------------------------------------------------------------------------
\* _in_cycle(start): begin at the parent of start, with nothing seen.
Visit(l) ==
    /\ pc = "visit" /\ l \in todo
    /\ start' = l
    /\ node' = parentOf[l]
    /\ seen' = {}
    /\ todo' = todo \ {l}
    /\ pc' = "walk"
    /\ UNCHANGED <<rows, next, parentOf, missing, cyclic>>

VisitDone ==
    /\ pc = "visit" /\ todo = {}
    /\ pc' = "done"
    /\ UNCHANGED <<rows, next, parentOf, todo, walk, missing, cyclic>>

Return(result) ==
    /\ cyclic' = IF result THEN cyclic \cup {start} ELSE cyclic
    /\ pc' = "visit"
    /\ UNCHANGED walk

\* Faulty variant: no memory of the nodes visited.
AscendForgetting ==
    /\ seen' = seen
    /\ node' = Parent(node)
    /\ UNCHANGED <<start, pc, cyclic>>

Ascend ==
    /\ seen' = seen \cup {node}
    /\ node' = Parent(node)
    /\ UNCHANGED <<start, pc, cyclic>>

\* Faulty variant: any loop met on the way counts as a cycle of start.
WalkReportsAnyLoop ==
    /\ pc = "walk"
    /\ \/ node \notin known /\ Return(FALSE)
       \/ node \in known /\ (node = start \/ node \in seen) /\ Return(TRUE)
       \/ node \in known /\ node # start /\ node \notin seen /\ Ascend
    /\ UNCHANGED <<rows, next, parentOf, todo, missing>>

\* One turn of the while loop, or the return after it.
Walk ==
    /\ pc = "walk"
    /\ \/ node \notin known /\ Return(FALSE)
       \/ node \in known /\ node = start /\ Return(TRUE)
       \/ node \in known /\ node # start /\ node \in seen /\ Return(FALSE)
       \/ node \in known /\ node # start /\ node \notin seen /\ Ascend
    /\ UNCHANGED <<rows, next, parentOf, todo, missing>>

HierarchyNext ==
    \/ BuildRow \/ BuildDone \/ ReportMissing
    \/ \E l \in todo : Visit(l)
    \/ VisitDone \/ Walk

HierarchySpec == HierarchyInit /\ [][HierarchyNext]_hierarchyVars /\ WF_hierarchyVars(HierarchyNext)

-----------------------------------------------------------------------------
(***************************************************************************)
(* A location lies on a cycle when its ancestors cannot be collected       *)
(* without collecting the location itself: every set that holds its parent *)
(* and, with a location, that location's parent, also holds the location.  *)
(***************************************************************************)
ClosedUpwards(S) == \A l \in S : parentOf[l] \in known => parentOf[l] \in S

OnCycle(l) ==
    /\ parentOf[l] \in known
    /\ \A S \in SUBSET known : parentOf[l] \in S /\ ClosedUpwards(S) => l \in S

(***************************************************************************)
(* The cycle pass is exact: at every moment the locations reported are     *)
(* those visited that lie on a cycle themselves, neither missing one nor   *)
(* reporting a location that merely hangs below a loop (_in_cycle).        *)
(***************************************************************************)
CyclesExact ==
    pc \in {"visit", "walk", "done"} =>
        LET pending == todo \cup (IF pc = "walk" THEN {start} ELSE {})
        IN  cyclic = {l \in known \ pending : OnCycle(l)}

(***************************************************************************)
(* The parent table keeps, for every location met, the first parent any of *)
(* its rows names, and None only if none of them names one (evaluate,      *)
(* first loop).                                                            *)
(***************************************************************************)
FirstParentKept ==
    LET Before(l) == {k \in 1 .. next - 1 : rows[k].location_id = l}
        Named(l) == {k \in Before(l) : rows[k].parent # None}
    IN  /\ known = {l \in Location : Before(l) # {}}
        /\ \A l \in known :
              \/ Named(l) = {} /\ parentOf[l] = None
              \/ \E k \in Named(l) : /\ parentOf[l] = rows[k].parent
                                     /\ \A m \in Named(l) : k <= m

(***************************************************************************)
(* The rule ends on every table, loops included: no walk goes round a loop *)
(* for ever (the `seen` set of _in_cycle).                                 *)
(***************************************************************************)
RuleEnds == <>(pc = "done")
=============================================================================
