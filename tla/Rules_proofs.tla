---------------------------- MODULE Rules_proofs ----------------------------
(***************************************************************************)
(* The two rules that are modelled step by step.                           *)
(*                                                                         *)
(* LOC002: the cycle pass is exact for every location table: no bound on   *)
(* the rows, the ids or the shape of the parent graph.  The proof needs no *)
(* induction along the chain: what the walk has seen is itself the set     *)
(* that shows, when the walk gives up, that the start is on no cycle.      *)
(*                                                                         *)
(* MEDIA001 to MEDIA004: for every media table and media root, however     *)
(* many files change during the scan, what the four rules say of a file    *)
(* that is left alone, and what can break the scan off.                    *)
(***************************************************************************)
EXTENDS LocationHierarchy, MediaScan, TLAPS

-----------------------------------------------------------------------------
\* LOC002.

(***************************************************************************)
(* The walk from `start`: it has not come back yet; every node seen, and   *)
(* the start, has its parent among the nodes seen or at `node`; and all of *)
(* them are ancestors that any upwards closed set has to hold.             *)
(***************************************************************************)
NotBackYet == start \notin seen

TrailComplete ==
    /\ parentOf[start] \in seen \cup {node}
    /\ \A m \in seen : parentOf[m] \in seen \cup {node}

TrailForced ==
    \A S \in SUBSET known : parentOf[start] \in S /\ ClosedUpwards(S) =>
        seen \subseteq S /\ (node \in known => node \in S)

WalkInv == pc = "walk" =>
    /\ start \in known \ todo
    /\ NotBackYet /\ TrailComplete /\ TrailForced

NothingYet == pc \in {"build", "missing"} => cyclic = {}

HierarchyInv == TypeOK /\ WalkInv /\ NothingYet /\ CyclesExact

-----------------------------------------------------------------------------
LEMMA RecordedType ==
    ASSUME NEW K \in SUBSET Location, NEW table \in [K -> Location \cup {None}],
           NEW row \in Row
    PROVE  /\ DOMAIN Recorded(table, row) = K \cup {row.location_id}
           /\ Recorded(table, row) \in
                 [K \cup {row.location_id} -> Location \cup {None}]
BY DEF Recorded, Row

\* The walk gave up outside the table or on a node seen before: what it saw
\* is closed upwards and does not hold the start.
LEMMA GivingUpIsRight ==
    ASSUME TypeOK, WalkInv, pc = "walk",
           node \notin known \/ (node # start /\ node \in seen)
    PROVE  ~OnCycle(start)
<1>1. ClosedUpwards(seen)
  BY DEF ClosedUpwards, WalkInv, TrailComplete, TypeOK
<1>2. CASE parentOf[start] \notin known
  BY <1>2 DEF OnCycle
<1>3. CASE parentOf[start] \in known
  <2>1. parentOf[start] \in seen
    BY <1>3 DEF WalkInv, TrailComplete
  <2>2. seen \in SUBSET known /\ start \notin seen
    BY DEF TypeOK, WalkInv, NotBackYet
  <2> QED BY <1>1, <2>1, <2>2 DEF OnCycle
<1> QED BY <1>2, <1>3

\* The walk came back: any closed set that holds the start's parent holds
\* the node the walk is at, which is the start.
LEMMA ComingBackIsRight ==
    ASSUME TypeOK, WalkInv, pc = "walk", node \in known, node = start
    PROVE  OnCycle(start)
<1>1. parentOf[start] \in known
  BY DEF WalkInv, TrailComplete, TypeOK
<1> QED BY <1>1 DEF OnCycle, WalkInv, TrailForced

LEMMA HierarchyInitInv == HierarchyInit => HierarchyInv
<1> SUFFICES ASSUME HierarchyInit PROVE HierarchyInv
  OBVIOUS
<1>1. rows \in Seq(Row)
  BY HierarchyAssumption DEF HierarchyInit
<1>2. known = {} /\ parentOf \in [known -> Location \cup {None}]
  BY DEF HierarchyInit, known
<1>3. Len(rows) \in Nat
  BY <1>1
<1> QED BY <1>1, <1>2, <1>3 DEF HierarchyInit, HierarchyInv, TypeOK, WalkInv, NothingYet, CyclesExact

LEMMA HierarchyNextInv == HierarchyInv /\ [HierarchyNext]_hierarchyVars => HierarchyInv'
<1> SUFFICES ASSUME HierarchyInv, [HierarchyNext]_hierarchyVars PROVE HierarchyInv'
  OBVIOUS
<1> USE DEF HierarchyInv
<1>1. CASE BuildRow
  <2>1. rows[next] \in Row
    BY <1>1 DEF BuildRow, TypeOK
  <2>2. /\ known' = known \cup {rows[next].location_id}
        /\ parentOf' \in [known' -> Location \cup {None}]
    <3>1. known \in SUBSET Location /\ parentOf \in [known -> Location \cup {None}]
      BY DEF TypeOK
    <3> QED BY <1>1, <2>1, <3>1, RecordedType DEF BuildRow, known
  <2>3. rows[next].location_id \in Location
    BY <2>1 DEF Row
  <2>4. TypeOK'
    BY <1>1, <2>2, <2>3 DEF BuildRow, TypeOK, walk
  <2> QED BY <1>1, <2>4 DEF BuildRow, WalkInv, NothingYet, CyclesExact
<1>2. CASE BuildDone \/ VisitDone
  <2>1. TypeOK' /\ WalkInv' /\ NothingYet'
    BY <1>2 DEF BuildDone, VisitDone, TypeOK, WalkInv, NothingYet, walk, known
  <2>2. CyclesExact'
    BY <1>2 DEF BuildDone, VisitDone, CyclesExact, OnCycle, ClosedUpwards, known
  <2> QED BY <2>1, <2>2
<1>3. CASE ReportMissing
  <2>1. TypeOK' /\ WalkInv' /\ NothingYet'
    BY <1>3 DEF ReportMissing, TypeOK, WalkInv, NothingYet, walk, known
  <2>2. CyclesExact'
    BY <1>3 DEF ReportMissing, CyclesExact, NothingYet, known
  <2> QED BY <2>1, <2>2
<1>4. ASSUME NEW l \in todo, Visit(l) PROVE HierarchyInv'
  <2>1. l \in known /\ parentOf[l] \in Location \cup {None}
    BY DEF TypeOK
  <2>2. TypeOK'
    BY <1>4, <2>1 DEF Visit, TypeOK, known
  <2>3. WalkInv'
    BY <1>4, <2>1 DEF Visit, WalkInv, NotBackYet, TrailComplete, TrailForced,
                      ClosedUpwards, known
  <2>4. CyclesExact'
    BY <1>4, <2>1 DEF Visit, CyclesExact, OnCycle, ClosedUpwards, known
  <2> QED BY <1>4, <2>2, <2>3, <2>4 DEF Visit, NothingYet
<1>5. CASE Walk
  <2>1. UNCHANGED <<rows, next, parentOf, todo, missing, known>> /\ pc = "walk"
    BY <1>5 DEF Walk, known
  <2>2. start \in known \ todo
    BY <2>1 DEF WalkInv
  <2>3. ASSUME NEW result \in BOOLEAN, Return(result), OnCycle(start) <=> result
        PROVE  HierarchyInv'
    <3>1. TypeOK'
      BY <2>1, <2>2, <2>3 DEF Return, TypeOK, walk
    <3>2. CyclesExact'
      <4>1. cyclic = {k \in known \ (todo \cup {start}) : OnCycle(k)}
        BY <2>1 DEF CyclesExact
      <4>2. cyclic' = {k \in known \ todo : OnCycle(k)}
        BY <2>2, <2>3, <4>1 DEF Return
      <4>3. \A k : OnCycle(k)' = OnCycle(k)
        BY <2>1 DEF OnCycle, ClosedUpwards
      <4> QED BY <2>1, <2>3, <4>2, <4>3 DEF Return, CyclesExact
    <3> QED BY <2>3, <3>1, <3>2 DEF Return, WalkInv, NothingYet
  <2>4. CASE node \notin known /\ Return(FALSE)
    BY <2>1, <2>3, <2>4, GivingUpIsRight
  <2>5. CASE node \in known /\ node = start /\ Return(TRUE)
    BY <2>1, <2>3, <2>5, ComingBackIsRight
  <2>6. CASE node \in known /\ node # start /\ node \in seen /\ Return(FALSE)
    BY <2>1, <2>3, <2>6, GivingUpIsRight
  <2>7. CASE node \in known /\ node # start /\ node \notin seen /\ Ascend
    <3>1. parentOf[node] \in Location \cup {None} /\ node' = parentOf[node]
      BY <2>7 DEF TypeOK, Ascend, Parent
    <3>2. TypeOK'
      BY <2>1, <2>7, <3>1 DEF Ascend, TypeOK
    <3>3. NotBackYet' /\ TrailComplete'
      BY <2>1, <2>7, <3>1 DEF Ascend, WalkInv, NotBackYet, TrailComplete
    <3>4. TrailForced'
      BY <2>1, <2>7, <3>1 DEF Ascend, WalkInv, TrailForced, ClosedUpwards
    <3>5. CyclesExact'
      BY <2>1, <2>7 DEF Ascend, CyclesExact, OnCycle, ClosedUpwards
    <3> QED BY <2>1, <2>2, <2>7, <3>2, <3>3, <3>4, <3>5 DEF Ascend, WalkInv, NothingYet
  <2> QED BY <1>5, <2>4, <2>5, <2>6, <2>7 DEF Walk
<1>6. CASE UNCHANGED hierarchyVars
  BY <1>6 DEF hierarchyVars, walk, TypeOK, WalkInv, NotBackYet, TrailComplete, TrailForced,
              NothingYet, CyclesExact, OnCycle, ClosedUpwards, known
<1> QED BY <1>1, <1>2, <1>3, <1>4, <1>5, <1>6 DEF HierarchyNext

(***************************************************************************)
(* On every location table the rule reports exactly the locations that lie *)
(* on a parent cycle, and never leaves its types.                          *)
(***************************************************************************)
THEOREM CyclePassExact == HierarchySpec => [](TypeOK /\ CyclesExact)
<1>1. HierarchyInv => TypeOK /\ CyclesExact
  BY DEF HierarchyInv
<1> QED BY HierarchyInitInv, HierarchyNextInv, <1>1, PTL DEF HierarchySpec

-----------------------------------------------------------------------------
(***************************************************************************)
(* FirstParentKept row by row: the table speaks of the rows read so far.   *)
(***************************************************************************)
LEMMA RecordedKeepsFirst ==
    ASSUME TypeOK, FirstParentKept, BuildRow
    PROVE  FirstParentKept'
<1> DEFINE l == rows[next].location_id
           p == rows[next].parent
           Before(k) == {i \in 1 .. next - 1 : rows[i].location_id = k}
           Named(k) == {i \in Before(k) : rows[i].parent # None}
<1>1. /\ rows[next] \in Row /\ next \in 1 .. Len(rows) /\ rows' = rows /\ next' = next + 1
      /\ Len(rows) \in Nat
  BY DEF BuildRow, TypeOK
<1>2. l \in Location
  BY <1>1 DEF Row
<1>3. \A k : /\ Before(k)' = Before(k) \cup (IF k = l THEN {next} ELSE {})
             /\ Named(k)' = Named(k) \cup (IF k = l /\ p # None THEN {next} ELSE {})
             /\ \A i \in Before(k) : i \in Nat /\ i < next
  BY <1>1
<1>4. parentOf' = Recorded(parentOf, rows[next])
  BY DEF BuildRow
<1>5. known' = known \cup {l} /\ \A k \in known \ {l} : parentOf'[k] = parentOf[k]
  BY <1>4 DEF Recorded, known, TypeOK
<1>6. known' = {k \in Location : Before(k)' # {}}
  <2>1. known = {k \in Location : Before(k) # {}}
    BY DEF FirstParentKept
  <2> HIDE DEF Before, Named
  <2>2. \A k \in Location : Before(k)' # {} <=> Before(k) # {} \/ k = l
    BY <1>3
  <2> QED BY <1>2, <1>5, <2>1, <2>2
<1>7. ASSUME NEW k \in known'
      PROVE  \/ Named(k)' = {} /\ parentOf'[k] = None
             \/ \E i \in Named(k)' : /\ parentOf'[k] = rows'[i].parent
                                     /\ \A m \in Named(k)' : i <= m
  <2>1. CASE k # l
    BY <1>1, <1>3, <1>5, <1>7, <2>1 DEF FirstParentKept
  <2>2. CASE k = l /\ l \notin known
    <3>1. Before(l) = {} /\ parentOf'[l] = p
      BY <1>2, <1>4, <2>2 DEF Recorded, FirstParentKept, known
    <3>2. Named(k)' = (IF p # None THEN {next} ELSE {})
      BY <1>3, <2>2, <3>1
    <3>3. CASE p = None
      BY <2>2, <3>1, <3>2, <3>3
    <3>4. CASE p # None
      <4>1. /\ next \in Named(k)' /\ parentOf'[k] = rows'[next].parent
            /\ \A m \in Named(k)' : next <= m
        BY <1>1, <2>2, <3>1, <3>2, <3>4
      <4> QED BY <4>1
    <3> QED BY <3>3, <3>4
  <2>3. CASE k = l /\ l \in known /\ Named(l) = {}
    <3>1. parentOf[l] = None
      BY <2>3 DEF FirstParentKept
    <3>2. parentOf'[l] = p
      BY <1>4, <2>3, <3>1 DEF Recorded, known, TypeOK
    <3> QED BY <1>1, <1>3, <2>3, <3>2
  <2>4. CASE k = l /\ l \in known /\ Named(l) # {}
    <3>1. PICK i \in Named(l) : parentOf[l] = rows[i].parent /\ \A m \in Named(l) : i <= m
      BY <2>4 DEF FirstParentKept
    <3>2. parentOf'[l] = parentOf[l]
      BY <1>4, <2>4, <3>1 DEF Recorded, known
    <3>3. i <= next
      BY <1>1, <1>3
    <3> QED BY <1>1, <1>3, <2>4, <3>1, <3>2, <3>3
  <2> QED BY <1>5, <1>7, <2>1, <2>2, <2>3, <2>4
<1> QED BY <1>6, <1>7 DEF FirstParentKept

(***************************************************************************)
(* Whatever rows an export repeats and in whatever order, a location's     *)
(* parent is the first its rows name.                                      *)
(***************************************************************************)
THEOREM FirstParentWins == HierarchySpec => []FirstParentKept
<1>1. HierarchyInit => FirstParentKept
  BY HierarchyAssumption DEF HierarchyInit, FirstParentKept, known
<1>2. HierarchyInv /\ FirstParentKept /\ [HierarchyNext]_hierarchyVars => FirstParentKept'
  <2> SUFFICES ASSUME HierarchyInv, FirstParentKept, [HierarchyNext]_hierarchyVars PROVE FirstParentKept'
    OBVIOUS
  <2>1. CASE BuildRow
    BY <2>1, RecordedKeepsFirst DEF HierarchyInv
  <2>2. CASE ~BuildRow
    <3>1. UNCHANGED <<rows, next, parentOf>>
      BY <2>2 DEF HierarchyNext, BuildDone, ReportMissing, Visit, VisitDone, Walk, Return, Ascend, hierarchyVars
    <3> QED BY <3>1 DEF FirstParentKept, known
  <2> QED BY <2>1, <2>2
<1> QED BY HierarchyInitInv, HierarchyNextInv, <1>1, <1>2, PTL DEF HierarchySpec

-----------------------------------------------------------------------------
\* The media rules.

Rank == [MEDIA001 |-> 1, MEDIA002 |-> 2, MEDIA003 |-> 3, MEDIA004 |-> 4]

\* Rule v has been past row r.
Past(v, r) == ended = "done" \/ Rank[rule] > Rank[v] \/ (rule = v /\ r < at)

MediaTyped ==
    /\ media \in Seq(Path \cup Elsewhere)
    /\ file \in [Path -> State]
    /\ rule \in Rule /\ at \in Nat \ {0}
    /\ ended \in {"no", "done", "raised"}
    /\ DOMAIN digest \subseteq DOMAIN media
    /\ ended = "done" => rule = "MEDIA004"

\* What was found in a row whose file was left alone, rule by rule.
Judged ==
    \A r \in Untouched :
        LET s == file[media[r]] IN
        /\ <<"MEDIA001", r>> \in found <=> Past("MEDIA001", r) /\ s = "absent"
        /\ <<"MEDIA003", r>> \in found <=>
              Past("MEDIA003", r) /\ s \in Content /\ Image[s].header \in 1 .. MinSize - 1
        /\ <<"MEDIA004", r>> \in found <=>
              Past("MEDIA004", r) /\ s \notin {"absent", "dir"} /\ ~(s \in Content /\ Image[s].verifies = "yes")

Hashed ==
    \A r \in Untouched :
        LET s == file[media[r]] IN
        /\ r \in DOMAIN digest <=> Past("MEDIA002", r) /\ s \in Content
        /\ r \in DOMAIN digest => digest[r] = s
        /\ Past("MEDIA002", r) => s # "locked"

\* MEDIA002 reports at its end, and its digests stand from then on.
Grouped ==
    \A r \in DOMAIN media :
        <<"MEDIA002", r>> \in found <=>
            r \in Duplicates /\ (rule \in {"MEDIA003", "MEDIA004"} \/ ended = "done")

Looking ==
    looked => /\ ended \in {"no", "raised"}
              /\ rule # "MEDIA001" /\ at <= Len(media) /\ Local
              /\ media[at] \in changed \/ IsFile

MediaInv == MediaTyped /\ Judged /\ Hashed /\ Grouped /\ Looking /\ RaisedByAFile
-----------------------------------------------------------------------------
\* What the media table and its rows are.
LEMMA Rows ==
    ASSUME MediaTyped
    PROVE  /\ Len(media) \in Nat /\ DOMAIN media = 1 .. Len(media)
           /\ \A r \in Untouched : r \in DOMAIN media /\ media[r] \in Path /\ file[media[r]] \in State
BY DEF MediaTyped, Untouched

\* Passing a row adds this rule's verdict on this row and nothing else.
LEMMA PastRow ==
    ASSUME MediaTyped, ended = "no", UNCHANGED <<rule, ended>>, at' = at + 1,
           NEW v \in Rule, NEW r \in Nat
    PROVE  /\ Past(v, r)' <=> Past(v, r) \/ (v = rule /\ r = at)
           /\ ~Past(rule, at)
BY DEF MediaTyped, Past, Rank, Rule

\* A rule that is over has been past every row, the next one past none.
LEMMA PastRule ==
    ASSUME MediaTyped, EndRule, NEW v \in Rule, NEW r \in DOMAIN media
    PROVE  Past(v, r)' <=> Past(v, r) \/ (v = "MEDIA003" /\ rule' = "MEDIA004")
<1>1. r \in Nat /\ r < at
  BY Rows DEF MediaTyped, EndRule
<1>2. CASE rule = "MEDIA004"
  BY <1>1, <1>2 DEF EndRule, MediaTyped, Past, Rank, Rule
<1>3. CASE rule # "MEDIA004"
  <2>1. ended' = ended /\ ended = "no" /\ at' = 1 /\ ~(r < 1)
    BY <1>1, <1>3 DEF EndRule
  <2>2. rule = "MEDIA001" => rule' = "MEDIA002"
    BY <1>3 DEF EndRule, Following
  <2>3. rule = "MEDIA002" => rule' \in {"MEDIA003", "MEDIA004"}
    BY <1>3 DEF EndRule, Following
  <2>4. rule = "MEDIA003" => rule' = "MEDIA004"
    BY <1>3 DEF EndRule, Following
  <2> QED BY <1>1, <1>3, <2>1, <2>2, <2>3, <2>4 DEF Past, Rank, Rule, MediaTyped
<1> QED BY <1>2, <1>3

LEMMA InitMedia == Init => MediaInv
<1> SUFFICES ASSUME Init PROVE MediaInv
  OBVIOUS
<1>1. MediaTyped
  <2>1. DOMAIN digest = {}
    BY DEF Init
  <2> QED BY <2>1, MediaAssumption DEF Init, MediaTyped, Rule
<1>2. \A v \in Rule, r \in DOMAIN media : ~Past(v, r)
  BY <1>1, Rows DEF Init, Past, Rank, Rule
<1>3. Judged /\ Hashed
  BY <1>1, <1>2, Rows DEF Init, Judged, Hashed, Rule
<1>4. Grouped /\ Looking /\ RaisedByAFile
  BY DEF Init, Grouped, Duplicates, Looking, RaisedByAFile
<1> QED BY <1>1, <1>3, <1>4 DEF MediaInv

-----------------------------------------------------------------------------
LEMMA SkipMedia == ASSUME MediaInv, Skip PROVE MediaInv'
<1> USE DEF MediaInv
<1>1. UNCHANGED <<media, file, rule, digest, found, ended, changed>> /\ at' = at + 1 /\ ~looked'
  BY DEF Skip, NextRow
<1>2. MediaTyped' /\ Looking' /\ RaisedByAFile' /\ Grouped'
  <2>1. MediaTyped'
    BY <1>1 DEF MediaTyped
  <2>2. Looking' /\ RaisedByAFile'
    BY <1>1 DEF Skip, Looking, RaisedByAFile
  <2>3. Grouped'
    BY <1>1 DEF Grouped, Duplicates
  <2> QED BY <2>1, <2>2, <2>3
<1>3. Untouched' = Untouched
  BY <1>1 DEF Untouched
<1>4. ASSUME NEW r \in Untouched, r = at
      PROVE  rule # "MEDIA001" /\ file[media[r]] \in {"absent", "dir"}
  BY <1>4 DEF Untouched, Skip, Local, IsFile, Now
<1>5. \A r \in Untouched, v \in Rule : Past(v, r)' <=> Past(v, r) \/ (v = rule /\ r = at)
  BY <1>1, PastRow, Rows DEF Skip
<1>6. Judged'
  BY <1>1, <1>3, <1>4, <1>5, MediaAssumption DEF Judged, Rule
<1>7. Hashed'
  BY <1>1, <1>3, <1>4, <1>5, MediaAssumption DEF Hashed, Rule
<1> QED BY <1>2, <1>6, <1>7

LEMMA CheckMissingMedia == ASSUME MediaInv, CheckMissing PROVE MediaInv'
<1> USE DEF MediaInv
<1>1. /\ UNCHANGED <<media, file, rule, digest, ended, changed>> /\ at' = at + 1 /\ ~looked'
      /\ rule = "MEDIA001" /\ ended = "no"
  BY DEF CheckMissing, NextRow, Visiting
<1>2. found' = IF file[media[at]] # "absent" THEN found ELSE found \cup {<<"MEDIA001", at>>}
  BY <1>1 DEF CheckMissing, Exists, Now, Report
<1>3. MediaTyped' /\ Looking' /\ RaisedByAFile' /\ Grouped'
  <2>1. MediaTyped'
    BY <1>1 DEF MediaTyped
  <2>2. Looking' /\ RaisedByAFile'
    BY <1>1 DEF Looking, RaisedByAFile
  <2>3. Grouped'
    BY <1>1, <1>2 DEF Grouped, Duplicates
  <2> QED BY <2>1, <2>2, <2>3
<1>4. Untouched' = Untouched
  BY <1>1 DEF Untouched
<1>5. \A r \in Untouched, v \in Rule : Past(v, r)' <=> Past(v, r) \/ (v = rule /\ r = at)
  BY <1>1, PastRow, Rows
<1>6. Judged'
  BY <1>1, <1>2, <1>4, <1>5 DEF Judged, Rule
<1>7. Hashed'
  BY <1>1, <1>4, <1>5 DEF Hashed, Rule
<1> QED BY <1>3, <1>6, <1>7

LEMMA LookMedia == ASSUME MediaInv, Look PROVE MediaInv'
<1> USE DEF MediaInv
<1>1. UNCHANGED <<media, file, rule, at, digest, found, ended, changed>> /\ ended = "no" /\ looked'
  BY DEF Look
<1>2. MediaTyped' /\ Looking' /\ RaisedByAFile' /\ Grouped'
  BY <1>1 DEF Look, MediaTyped, Looking, RaisedByAFile, Grouped, Duplicates, Local, IsFile, Now
<1>3. Judged' /\ Hashed'
  BY <1>1 DEF Judged, Hashed, Untouched, Past
<1> QED BY <1>2, <1>3

\* A row that is looked at, and left alone, holds a file.
LEMMA HashMedia == ASSUME MediaInv, Hash PROVE MediaInv'
<1> USE DEF MediaInv
<1>1. /\ UNCHANGED <<media, file, rule, found, changed>>
      /\ rule = "MEDIA002" /\ ended = "no" /\ looked
      /\ at \in DOMAIN media /\ media[at] \in Path /\ Now \in State
  BY Rows DEF Hash, Visiting, Looking, Local, MediaTyped, Now
<1>2. Untouched' = Untouched
  BY <1>1 DEF Untouched
<1>3. CASE Opens
  <2>1. /\ digest' = [r \in DOMAIN digest \cup {at} |-> IF r = at THEN Now ELSE digest[r]]
        /\ at' = at + 1 /\ ~looked' /\ ended' = ended
    BY <1>3 DEF Hash, NextRow
  <2>2. MediaTyped' /\ Looking' /\ RaisedByAFile'
    <3>1. DOMAIN digest' \subseteq DOMAIN media'
      BY <1>1, <2>1 DEF MediaTyped
    <3>2. MediaTyped'
      BY <1>1, <2>1, <3>1 DEF MediaTyped
    <3>3. Looking' /\ RaisedByAFile'
      BY <1>1, <2>1 DEF Looking, RaisedByAFile
    <3> QED BY <3>2, <3>3
  <2>3. Grouped'
    BY <1>1, <2>1 DEF Grouped
  <2>4. \A r \in Untouched, v \in Rule : Past(v, r)' <=> Past(v, r) \/ (v = rule /\ r = at)
    BY <1>1, <2>1, PastRow, Rows
  <2>5. Judged'
    BY <1>1, <1>2, <2>4 DEF Judged, Rule
  <2>6. Hashed'
    BY <1>1, <1>2, <1>3, <2>1, <2>4, MediaAssumption DEF Hashed, Rule, Opens, Now
  <2> QED BY <2>2, <2>3, <2>5, <2>6
<1>4. CASE ~Opens
  <2>1. ended' = "raised" /\ UNCHANGED <<at, looked, digest>>
    BY <1>4 DEF Hash
  <2>2. ~Opens /\ (media[at] \in changed \/ Now = "locked")
    BY <1>1, <1>4 DEF Looking, IsFile, Opens, State
  <2>3. MediaTyped' /\ Looking' /\ RaisedByAFile'
    BY <1>1, <2>1, <2>2 DEF MediaTyped, Looking, RaisedByAFile, Local, IsFile, Opens, Now
  <2>4. Judged' /\ Hashed' /\ Grouped'
    BY <1>1, <1>2, <2>1 DEF Judged, Hashed, Grouped, Duplicates, Past
  <2> QED BY <2>3, <2>4
<1> QED BY <1>3, <1>4

LEMMA MeasureMedia == ASSUME MediaInv, Measure PROVE MediaInv'
<1> USE DEF MediaInv
<1>1. /\ UNCHANGED <<media, file, rule, digest, ended, changed>> /\ at' = at + 1 /\ ~looked'
      /\ rule = "MEDIA003" /\ ended = "no"
  BY DEF Measure, NextRow, Visiting
<1>2. found' = IF Now \in Content /\ Image[Now].header \in 1 .. MinSize - 1
               THEN found \cup {<<"MEDIA003", at>>} ELSE found
  BY <1>1 DEF Measure, Opens, Report
<1>3. MediaTyped' /\ Looking' /\ RaisedByAFile' /\ Grouped'
  <2>1. MediaTyped'
    BY <1>1 DEF MediaTyped
  <2>2. Looking' /\ RaisedByAFile'
    BY <1>1 DEF Looking, RaisedByAFile
  <2>3. Grouped'
    BY <1>1, <1>2 DEF Grouped, Duplicates
  <2> QED BY <2>1, <2>2, <2>3
<1>4. Untouched' = Untouched
  BY <1>1 DEF Untouched
<1>5. \A r \in Untouched, v \in Rule : Past(v, r)' <=> Past(v, r) \/ (v = rule /\ r = at)
  BY <1>1, PastRow, Rows
<1>6. Judged'
  BY <1>1, <1>2, <1>4, <1>5 DEF Judged, Rule, Now
<1>7. Hashed'
  BY <1>1, <1>4, <1>5 DEF Hashed, Rule
<1> QED BY <1>3, <1>6, <1>7

LEMMA VerifyMedia == ASSUME MediaInv, Verify PROVE MediaInv'
<1> USE DEF MediaInv
<1>1. /\ UNCHANGED <<media, file, rule, digest, changed>>
      /\ rule = "MEDIA004" /\ ended = "no" /\ looked
  BY DEF Verify, Visiting
<1>2. CASE Breaks
  <2>1. ended' = "raised" /\ UNCHANGED <<at, looked, found>>
    BY <1>2 DEF Verify
  <2>2. MediaTyped' /\ Looking' /\ RaisedByAFile'
    BY <1>1, <1>2, <2>1 DEF MediaTyped, Looking, RaisedByAFile, Breaks, Opens, Local, IsFile, Now
  <2>3. Judged' /\ Hashed' /\ Grouped'
    BY <1>1, <2>1 DEF Judged, Hashed, Grouped, Duplicates, Past, Untouched
  <2> QED BY <2>2, <2>3
<1>3. CASE ~Breaks
  <2>1. at' = at + 1 /\ ~looked' /\ ended' = ended
    BY <1>3 DEF Verify, NextRow
  <2>2. found' = IF Now \in Content /\ Image[Now].verifies = "yes"
                 THEN found ELSE found \cup {<<"MEDIA004", at>>}
    BY <1>1, <1>3 DEF Verify, Opens, Report
  <2>3. MediaTyped' /\ Looking' /\ RaisedByAFile' /\ Grouped'
    <3>1. MediaTyped'
      BY <1>1, <2>1 DEF MediaTyped
    <3>2. Looking' /\ RaisedByAFile'
      BY <1>1, <2>1 DEF Looking, RaisedByAFile
    <3>3. Grouped'
      BY <1>1, <2>1, <2>2 DEF Grouped, Duplicates
    <3> QED BY <3>1, <3>2, <3>3
  <2>4. Untouched' = Untouched
    BY <1>1 DEF Untouched
  <2>5. \A r \in Untouched, v \in Rule : Past(v, r)' <=> Past(v, r) \/ (v = rule /\ r = at)
    BY <1>1, <2>1, PastRow, Rows
  <2>6. at \in Untouched => Now \notin {"absent", "dir"}
    BY <1>1 DEF Untouched, Looking, IsFile
  <2>7. Judged'
    BY <1>1, <2>1, <2>2, <2>4, <2>5, <2>6 DEF Judged, Rule, Now
  <2>8. Hashed'
    BY <1>1, <2>1, <2>4, <2>5 DEF Hashed, Rule
  <2> QED BY <2>3, <2>7, <2>8
<1> QED BY <1>2, <1>3

LEMMA EndRuleMedia == ASSUME MediaInv, EndRule PROVE MediaInv'
<1> USE DEF MediaInv
<1>1. UNCHANGED <<media, file, looked, digest, changed>> /\ ended = "no"
  BY DEF EndRule
<1>2. rule' \in Rule /\ (ended' = "no" \/ (ended' = "done" /\ rule' = "MEDIA004" /\ rule = "MEDIA004"))
  BY DEF EndRule, Following, MediaTyped, Rule
<1>3. ~looked
  BY DEF EndRule, Looking, MediaTyped
<1>4. MediaTyped' /\ Looking' /\ RaisedByAFile'
  BY <1>1, <1>2, <1>3 DEF EndRule, MediaTyped, Looking, RaisedByAFile
<1>5. Untouched' = Untouched /\ Duplicates' = Duplicates /\ Duplicates \subseteq DOMAIN media
  BY <1>1 DEF Untouched, Duplicates, MediaTyped
<1>6. /\ rule = "MEDIA002" => found' = found \cup ({"MEDIA002"} \X Duplicates)
                              /\ rule' \in {"MEDIA003", "MEDIA004"}
      /\ rule # "MEDIA002" => found' = found
      /\ rule = "MEDIA001" => rule' = "MEDIA002" /\ ended' = "no"
      /\ rule = "MEDIA003" => rule' = "MEDIA004"
      /\ rule = "MEDIA004" => rule' = "MEDIA004" /\ ended' = "done"
  BY DEF EndRule, Following
<1>7. Grouped'
  BY <1>1, <1>5, <1>6 DEF Grouped, MediaTyped, Rule
<1>8. \A r \in Untouched, v \in Rule :
         Past(v, r)' <=> Past(v, r) \/ (v = "MEDIA003" /\ rule' = "MEDIA004")
  BY PastRule, Rows
<1>9. ASSUME NEW r \in Untouched, rule' = "MEDIA004", ~Past("MEDIA003", r)
      PROVE  1 .. MinSize - 1 = {}
  BY <1>9, MediaAssumption, Rows DEF EndRule, Following, Past, Rank, MediaTyped, Rule
<1>10. \A r \in Untouched : \A v \in {"MEDIA001", "MEDIA003", "MEDIA004"} :
          <<v, r>> \in found' <=> <<v, r>> \in found
  BY <1>6
<1>11. Judged'
  BY <1>1, <1>5, <1>8, <1>9, <1>10 DEF Judged, Rule
<1>12. Hashed'
  BY <1>1, <1>5, <1>8 DEF Hashed, Rule
<1> QED BY <1>4, <1>7, <1>11, <1>12

\* A file that changes is no longer among those left alone.
LEMMA ChangeMedia == ASSUME MediaInv, NEW p \in Path, Change(p) PROVE MediaInv'
<1> USE DEF MediaInv
<1>1. /\ UNCHANGED <<media, rule, at, looked, digest, found, ended>> /\ ended = "no"
      /\ changed' = changed \cup {p}
  BY DEF Change, scan
<1>2. PICK s \in State : file' = [file EXCEPT ![p] = s]
  BY DEF Change
<1>3. Untouched' \subseteq Untouched /\ \A r \in Untouched' : file'[media[r]] = file[media[r]]
  BY <1>1, <1>2, Rows DEF Untouched, MediaTyped
<1>4. MediaTyped' /\ RaisedByAFile' /\ Grouped'
  BY <1>1, <1>2 DEF MediaTyped, RaisedByAFile, Grouped, Duplicates
<1>5. Looking'
  BY <1>1, <1>2 DEF Looking, Local, IsFile, Now, MediaTyped
<1>6. \A v, r : Past(v, r)' <=> Past(v, r)
  BY <1>1 DEF Past
<1>7. Judged' /\ Hashed'
  BY <1>1, <1>3, <1>6 DEF Judged, Hashed
<1> QED BY <1>4, <1>5, <1>7

LEMMA NextMedia == MediaInv /\ [Next]_vars => MediaInv'
<1> SUFFICES ASSUME MediaInv, [Next]_vars PROVE MediaInv'
  OBVIOUS
<1>1. CASE Step
  BY <1>1, SkipMedia, CheckMissingMedia, LookMedia, HashMedia, MeasureMedia, VerifyMedia,
     EndRuleMedia DEF Step
<1>2. CASE \E p \in Path : Change(p)
  BY <1>2, ChangeMedia
<1>3. CASE UNCHANGED vars
  BY <1>3 DEF vars, scan, MediaInv, MediaTyped, Judged, Hashed, Grouped, Looking, RaisedByAFile,
              Untouched, Past, Duplicates, Local, IsFile, Opens, Breaks, Now
<1> QED BY <1>1, <1>2, <1>3 DEF Next

LEMMA MediaAlways == Spec => []MediaInv
BY InitMedia, NextMedia, PTL DEF Spec

-----------------------------------------------------------------------------
LEMMA JudgedAtTheEnd == MediaInv => UntouchedJudgedRight
<1> SUFFICES ASSUME MediaInv, ended = "done", NEW r \in Untouched
             PROVE  /\ {v \in Rule \ {"MEDIA002"} : <<v, r>> \in found} = Verdict(r)
                    /\ \A q \in Untouched \ {r} :
                          file[media[r]] \in Content /\ file[media[q]] = file[media[r]] =>
                              {<<"MEDIA002", r>>, <<"MEDIA002", q>>} \subseteq found
                    /\ <<"MEDIA002", r>> \in found =>
                          file[media[r]] \in Content /\
                          \E q \in DOMAIN media \ {r} : q \in DOMAIN digest /\ digest[q] = file[media[r]]
  BY DEF UntouchedJudgedRight
<1> DEFINE s == file[media[r]]
<1> USE DEF MediaInv
<1>1. \A v, q : Past(v, q)
  BY DEF Past
<1>2. s \in State /\ s # "locked"
  BY <1>1, Rows DEF Hashed, Rule
<1>3. /\ <<"MEDIA001", r>> \in found <=> s = "absent"
      /\ <<"MEDIA003", r>> \in found <=> s \in Content /\ Image[s].header \in 1 .. MinSize - 1
      /\ <<"MEDIA004", r>> \in found <=>
            s \notin {"absent", "dir"} /\ ~(s \in Content /\ Image[s].verifies = "yes")
  BY <1>1 DEF Judged, Rule
<1>4. {v \in Rule \ {"MEDIA002"} : <<v, r>> \in found} = Verdict(r)
  <2>1. CASE s = "absent"
    BY <1>3, <2>1, MediaAssumption DEF Verdict, Rule
  <2>2. CASE s = "dir"
    BY <1>3, <2>2, MediaAssumption DEF Verdict, Rule
  <2>3. CASE s \in Content
    <3>1. Image[s].header \in Nat /\ MinSize \in Nat /\ s \notin {"absent", "dir"}
      BY <2>3, MediaAssumption
    <3>2. Image[s].header \in 1 .. MinSize - 1 <=> Image[s].header # 0 /\ Image[s].header < MinSize
      BY <3>1
    <3>3. /\ "MEDIA003" \in Verdict(r) <=> Image[s].header # 0 /\ Image[s].header < MinSize
          /\ "MEDIA004" \in Verdict(r) <=> Image[s].verifies # "yes"
          /\ Verdict(r) \subseteq {"MEDIA003", "MEDIA004"}
      BY <3>1 DEF Verdict
    <3> QED BY <1>3, <2>3, <3>1, <3>2, <3>3 DEF Rule
  <2> QED BY <1>2, <2>1, <2>2, <2>3 DEF State
<1>5. \A q \in Untouched : /\ q \in DOMAIN media
                           /\ q \in DOMAIN digest <=> file[media[q]] \in Content
                           /\ q \in DOMAIN digest => digest[q] = file[media[q]]
  BY <1>1, Rows DEF Hashed, Rule
<1>6. \A q \in DOMAIN media : <<"MEDIA002", q>> \in found <=> q \in Duplicates
  BY DEF Grouped
<1>7. ASSUME NEW q \in Untouched \ {r}, s \in Content, file[media[q]] = s
      PROVE  {<<"MEDIA002", r>>, <<"MEDIA002", q>>} \subseteq found
  BY <1>5, <1>6, <1>7 DEF Duplicates
<1>8. ASSUME <<"MEDIA002", r>> \in found
      PROVE  s \in Content /\ \E q \in DOMAIN media \ {r} : q \in DOMAIN digest /\ digest[q] = s
  BY <1>5, <1>6, <1>8 DEF Duplicates, MediaTyped
<1> QED BY <1>4, <1>7, <1>8

(***************************************************************************)
(* For every media table, media root, image and course of changes: a file  *)
(* that is left alone during the scan gets exactly the findings of         *)
(* MEDIA001..004 that its content calls for.                               *)
(***************************************************************************)
THEOREM MediaJudged == Spec => []UntouchedJudgedRight
BY MediaAlways, JudgedAtTheEnd, PTL

(***************************************************************************)
(* Whatever the files and their changes, the media rules raise only in     *)
(* MEDIA002, over a file that changed under the scan or may not be read,   *)
(* and in MEDIA004, over an image whose verify() raises a SyntaxError      *)
(* (hash_file; is_readable_image).                                         *)
(***************************************************************************)
THEOREM BreaksExplained == Spec => []RaisedByAFile
<1>1. MediaInv => RaisedByAFile
  BY DEF MediaInv
<1> QED BY MediaAlways, <1>1, PTL
=============================================================================
