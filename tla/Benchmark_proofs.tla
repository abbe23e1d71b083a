-------------------------- MODULE Benchmark_proofs --------------------------
(***************************************************************************)
(* The benchmark for tables of any length, any number of errors and every  *)
(* composable plan: after each injection the rules find exactly what is    *)
(* labelled, and no injector runs out of rows.                             *)
(***************************************************************************)
EXTENDS Benchmark, FiniteSetTheorems, TLAPS

-----------------------------------------------------------------------------
\* The injector an error of a rule comes from.
Owner(rule) ==
    CASE rule \in {"CORE001", "CORE002"} -> "inject_errors"
      [] rule \in {"DATE001", "VOCAB001", "SCHEMA001"} -> "inject_object_field_errors"
      [] rule = "REF001" -> "inject_orphan_media"
      [] rule = "REF002" -> "inject_orphan_rights"
      [] rule = "RIGHTS001" -> "inject_publication_conflict"
      [] rule = "LOC001" -> "inject_extra_current_location"
      [] rule \in {"LOC002", "LOC002_parent", "LOC002_cycle"} -> "inject_location_hierarchy_errors"

LoopName == (ScoredRule \ {"LOC002"}) \cup {"LOC002_parent", "LOC002_cycle"}

ObjectRow ==
    [object_id : Nat, accession_number : Int \cup {None}, title : {"Study"},
     object_name : {"Bowl", None}, rights_id : Int \cup {None},
     publication_status : {"public", "internal", "confidential"},
     production_start_date : Int \cup {Junk}, production_end_date : Int, maker_ids : {<<>>}]

MediaRow == [media_id : Nat, object_id : Int, rights_id : {None}, publication_status : {"public"}]

LocationRow ==
    [location_id : Int, parent_location_id : Int \cup {None}, object_id : Nat \cup {None},
     is_current : {TRUE, None}]

Data ==
    [objects : Seq(ObjectRow), media : Seq(MediaRow), rights : {CleanRights},
     locations : Seq(LocationRow), required_fields : {<<"accession_number", "object_name">>},
     controlled_vocabularies : {[publication_status |-> PUBLICATION_VOCABULARY]}]

LabelRow ==
    [rule : ScoredRule, type : {"object", "media", "location"}, id : Nat,
     field : {"accession_number", "object_name", "object_id", "rights_id", "publication_status",
              "production_start_date", "is_current", "parent_location_id"},
     after : Int \cup {None, Junk, "public", "confidential"}]

BenchTyped ==
    /\ data \in Data
    /\ manifest \in Seq(LabelRow)
    /\ calls \in Seq(DOMAIN Loops)
    /\ loops \in Seq(LoopName)
    /\ IsFiniteSet(DOMAIN count) /\ count \in [DOMAIN count -> 0 .. MaxErrors]
    /\ n \in Nat
    /\ IsFiniteSet(pool)

(***************************************************************************)
(* The loops of one injector are worked off; the errors still asked for    *)
(* need no more rows than are left.                                        *)
(***************************************************************************)
InLoop ==
    /\ \A p, q \in DOMAIN loops : loops[p] = loops[q] => p = q
    /\ \A p, q \in DOMAIN loops : Owner(loops[p]) = Owner(loops[q])
    /\ ToSet(loops) \subseteq DOMAIN count
    /\ loops # <<>> => n <= count[Head(loops)]

Left == {s \in Slots(count) : s[1] \in ToSet(loops) /\ (s[1] = Head(loops) => s[2] > n)}

Room == loops # <<>> => Cardinality(Left) <= Cardinality(pool)

-----------------------------------------------------------------------------
Entries(rule) == {e \in ToSet(manifest) : e.rule = rule}
Labelled(rule, i) == \E e \in Entries(rule) : e.id = i

\* CORE001, CORE002: what accession numbers and object names hold.
CoreInv ==
    /\ \A i \in DOMAIN data.objects :
          LET row == data.objects[i]
          IN  /\ row.object_id = i
              /\ \/ row.accession_number \in {i, None}
                 \/ \E e \in Entries("CORE001") : e.id = i /\ e.after = row.accession_number
              /\ row.accession_number = None <=>
                    \E e \in Entries("CORE002") : e.id = i /\ e.field = "accession_number"
              /\ row.object_name = None <=>
                    \E e \in Entries("CORE002") : e.id = i /\ e.field = "object_name"
    /\ \A e \in Entries("CORE001") :
          /\ e.id \in DOMAIN data.objects /\ e.after \in DOMAIN data.objects /\ e.after # e.id
          /\ data.objects[e.after].accession_number = e.after
          /\ data.objects[e.id].accession_number = e.after
    /\ \A e \in Entries("CORE002") :
          e.id \in DOMAIN data.objects /\ e.field \in {"accession_number", "object_name"}

\* DATE001, SCHEMA001: a range is in order, turned round, or begins with no date.
DateInv ==
    /\ \A i \in DOMAIN data.objects :
          LET start == data.objects[i].production_start_date
              end == data.objects[i].production_end_date
          IN  /\ 1 <= end /\ end <= 9999
              /\ \/ /\ start = 1900 /\ end >= 1900
                    /\ ~Labelled("DATE001", i) /\ ~Labelled("SCHEMA001", i)
                 \/ /\ start = 1950 /\ end = 1900
                    /\ Labelled("DATE001", i) /\ ~Labelled("SCHEMA001", i)
                 \/ /\ start = Junk
                    /\ ~Labelled("DATE001", i) /\ Labelled("SCHEMA001", i)
    /\ \A e \in Entries("DATE001") \cup Entries("SCHEMA001") : e.id \in DOMAIN data.objects

\* VOCAB001, REF002, RIGHTS001: what statuses and rights links hold.
StatusInv ==
    /\ \A i \in DOMAIN data.objects :
          LET row == data.objects[i]
          IN  /\ row.publication_status = "confidential" <=> Labelled("VOCAB001", i)
              /\ row.rights_id \notin {None, 1, 2} <=> Labelled("REF002", i)
              /\ (row.publication_status = "public" /\ row.rights_id = 2) <=> Labelled("RIGHTS001", i)
    /\ \A e \in Entries("VOCAB001") \cup Entries("REF002") \cup Entries("RIGHTS001") :
          e.id \in DOMAIN data.objects

\* REF001
MediaInv ==
    /\ \A i \in DOMAIN data.media :
          /\ data.media[i].media_id = i
          /\ data.media[i].object_id \notin DOMAIN data.objects <=> Labelled("REF001", i)
    /\ \A e \in Entries("REF001") : e.id \in DOMAIN data.media

\* LOC001: an object is labelled when two rows say where it is now.
CurrentAt(o) == {k \in DOMAIN data.locations :
                    data.locations[k].object_id = o /\ data.locations[k].is_current = TRUE}

PlaceInv ==
    /\ \A k \in DOMAIN data.locations :
          LET row == data.locations[k]
          IN  /\ row.is_current = TRUE <=> row.object_id # None
              /\ row.location_id = k \/ \E m \in 0 .. MaxErrors : row.location_id = ExtraId(m)
              /\ row.object_id = None => row.location_id = k
              /\ row.object_id # None => row.parent_location_id = None
    /\ \A j, k \in DOMAIN data.locations :
          data.locations[j].location_id = data.locations[k].location_id => j = k
    /\ \A o \in Nat : Labelled("LOC001", o) <=> \E j, k \in CurrentAt(o) : j # k

\* LOC002: the parent of a node is an earlier node, unless it is labelled.
IsNode(k) == k \in DOMAIN data.locations /\ data.locations[k].object_id = None

TreeInv ==
    /\ \A k \in DOMAIN data.locations : IsNode(k) =>
          LET parent == data.locations[k].parent_location_id
          IN  \/ ~Labelled("LOC002", k) /\ (parent = None \/ (parent \in 1 .. k - 1 /\ IsNode(parent)))
              \/ Labelled("LOC002", k) /\ \E m \in 0 .. MaxErrors : parent = MissingId(m)
              \/ /\ Labelled("LOC002", k) /\ parent # k
                 /\ IsNode(parent) /\ Labelled("LOC002", parent)
                 /\ data.locations[parent].parent_location_id = k
    /\ \A e \in Entries("LOC002") : IsNode(e.id)

\* No two labels of a rule are about one thing.
Apart ==
    \A p, q \in DOMAIN manifest : p # q /\ manifest[p].rule = manifest[q].rule =>
        /\ manifest[p].id # manifest[q].id
        /\ manifest[p].rule = "CORE001" => manifest[p].after # manifest[q].after

-----------------------------------------------------------------------------
\* What the rows in the pool of an injector are good for.
Untouched(rules, i) == \A rule \in rules : ~Labelled(rule, i)

Usable(injector, i) ==
    CASE injector = "inject_errors" ->
            /\ i \in DOMAIN data.objects /\ Untouched({"CORE001", "CORE002"}, i)
            /\ \A e \in Entries("CORE001") : e.after # i
      [] injector = "inject_object_field_errors" ->
            i \in DOMAIN data.objects /\ Untouched({"DATE001", "VOCAB001", "SCHEMA001"}, i)
      [] injector = "inject_orphan_media" -> i \in DOMAIN data.media /\ Untouched({"REF001"}, i)
      [] injector = "inject_orphan_rights" -> i \in DOMAIN data.objects /\ Untouched({"REF002"}, i)
      [] injector = "inject_publication_conflict" ->
            i \in DOMAIN data.objects /\ Untouched({"RIGHTS001"}, i) /\ data.objects[i].rights_id = 2
      [] injector = "inject_extra_current_location" ->
            i \in Nat /\ Untouched({"LOC001"}, i) /\ CurrentAt(i) # {}
      [] injector = "inject_location_hierarchy_errors" -> IsNode(i) /\ Untouched({"LOC002"}, i)

\* Where the plan is: who is running, who has been called, who is still to come.
Running(injector) == loops # <<>> /\ Owner(Head(loops)) = injector
ToCome(injector) == injector \in ToSet(calls)

PlanInv ==
    /\ Composable(calls)
    /\ \A injector \in DOMAIN Loops : ToCome(injector) =>
          /\ ~Running(injector)
          /\ \A e \in ToSet(manifest) : Owner(e.rule) # injector
    /\ Running("inject_publication_conflict") \/ Entries("RIGHTS001") # {} =>
          /\ ~ToCome("inject_orphan_rights") /\ ~Running("inject_orphan_rights")
          /\ ~ToCome("inject_object_field_errors") /\ ~Running("inject_object_field_errors")
    /\ Running("inject_publication_conflict") \/ ToCome("inject_publication_conflict") =>
          Entries("VOCAB001") = {} /\ ~Running("inject_object_field_errors")

PoolInv == loops # <<>> => \A i \in pool : Usable(Owner(Head(loops)), i)

\* The rows added so far have the ids of the turns that added them.
ExtraInv ==
    \A k \in DOMAIN data.locations :
        data.locations[k].location_id < 0 =>
            /\ ~ToCome("inject_extra_current_location")
            /\ Running("inject_extra_current_location") =>
                  \E m \in 0 .. n - 1 : data.locations[k].location_id = ExtraId(m)

BenchInv ==
    /\ BenchTyped /\ InLoop /\ Room
    /\ CoreInv /\ DateInv /\ StatusInv /\ MediaInv /\ PlaceInv /\ TreeInv /\ Apart
    /\ PlanInv /\ PoolInv /\ ExtraInv

-----------------------------------------------------------------------------
LEMMA IsASeq ==
    ASSUME NEW S, NEW m \in Nat, NEW s \in [1 .. m -> S]
    PROVE  s \in Seq(S) /\ Len(s) = m
OBVIOUS

LEMMA TrueIsThere == TRUE # None
<1>1. None \notin BOOLEAN
  BY SuitesAssumption
<1> QED BY <1>1

LEMMA NothingLabelled ==
    ASSUME manifest = <<>>
    PROVE  ToSet(manifest) = {} /\ (\A rule : Entries(rule) = {}) /\ (\A rule, i : ~Labelled(rule, i))
<1>1. ToSet(manifest) = {}
  BY DEF ToSet
<1> QED BY <1>1 DEF Entries, Labelled

\* What the clean tables are like, row by row.
LEMMA CleanTables ==
    ASSUME NEW suite \in Suites, data \in Clean(suite)
    PROVE  /\ data \in Data
           /\ DOMAIN data.objects = 1 .. suite.objects /\ DOMAIN data.media = 1 .. suite.objects
           /\ \A i \in DOMAIN data.objects : data.objects[i] \in CleanObject(suite, i)
           /\ \A i \in DOMAIN data.media : data.media[i] = CleanMedia(i)
           /\ DOMAIN data.locations = 1 .. suite.nodes + suite.objects
           /\ \E tree \in Trees(suite.nodes) : \A k \in DOMAIN data.locations :
                 data.locations[k] = IF k <= suite.nodes THEN Node(k, tree[k])
                                                         ELSE Assignment(k, k - suite.nodes)
<1> DEFINE N == suite.objects
           H == suite.nodes
           place(tree, k) == IF k <= H THEN Node(k, tree[k]) ELSE Assignment(k, k - H)
<1>1. N \in Nat /\ H \in Nat
  BY SuitesAssumption
<1>a. suite.links \subseteq {None, 1, 2}
  BY SuitesAssumption
<1>b. \A k \in suite.spans : k \in Nat /\ 1900 + k <= 9999
  BY SuitesAssumption
<1>c. suite.statuses \subseteq PUBLICATION_VOCABULARY
  BY SuitesAssumption
<1>2. PICK o, tree :
         /\ o \in {s \in [1 .. N -> UNION {CleanObject(suite, i) : i \in 1 .. N}] :
                     \A i \in 1 .. N : s[i] \in CleanObject(suite, i)}
         /\ tree \in Trees(H)
         /\ data = [objects |-> o, media |-> [i \in 1 .. N |-> CleanMedia(i)], rights |-> CleanRights,
                 locations |-> [k \in 1 .. H + N |-> place(tree, k)],
                 required_fields |-> <<"accession_number", "object_name">>,
                 controlled_vocabularies |-> [publication_status |-> PUBLICATION_VOCABULARY]]
  BY DEF Clean
<1>3. ASSUME NEW i \in 1 .. N
      PROVE  o[i] \in ObjectRow
  <2>1. o[i] \in CleanObject(suite, i)
    BY <1>2
  <2>3. ASSUME NEW k \in suite.spans PROVE 1900 + k \in Int
    BY <1>b
  <2>4. /\ {i} \subseteq Nat /\ {i} \subseteq Int \cup {None}
        /\ suite.links \subseteq Int \cup {None}
        /\ suite.statuses \subseteq {"public", "internal", "confidential"}
    BY <1>a, <1>c DEF PUBLICATION_VOCABULARY
  <2> QED BY <2>1, <2>3, <2>4 DEF CleanObject, ObjectRow
<1>4. o \in [1 .. N -> ObjectRow]
  BY <1>2, <1>3
<1>5. o \in Seq(ObjectRow)
  <2> HIDE DEF N
  <2>1. o \in [1 .. N -> ObjectRow]
    BY <1>4
  <2> QED BY <1>1, <2>1
<1>6. [i \in 1 .. N |-> CleanMedia(i)] \in Seq(MediaRow)
  <2>1. [i \in 1 .. N |-> CleanMedia(i)] \in [1 .. N -> MediaRow]
    BY <1>1 DEF CleanMedia, MediaRow
  <2> QED BY <1>1, <2>1, IsASeq
<1>7. ASSUME NEW k \in 1 .. H + N
      PROVE  place(tree, k) \in LocationRow
  <2>1. CASE k <= H
    <3>1. k \in 1 .. H /\ tree[k] \in Int \cup {None}
      BY <1>1, <1>2, <2>1 DEF Trees
    <3> QED BY <2>1, <3>1 DEF Node, LocationRow
  <2>2. CASE ~(k <= H)
    BY <1>1, <2>2 DEF Assignment, LocationRow
  <2> QED BY <2>1, <2>2
<1>8. [k \in 1 .. H + N |-> place(tree, k)] \in Seq(LocationRow)
  <2>1. [k \in 1 .. H + N |-> place(tree, k)] \in [1 .. H + N -> LocationRow]
    BY <1>7
  <2> QED BY <1>1, <2>1, IsASeq
<1> HIDE DEF place
<1>9. data \in Data
  BY <1>2, <1>5, <1>6, <1>8 DEF Data
<1>10. /\ DOMAIN data.objects = 1 .. N /\ DOMAIN data.media = 1 .. N
       /\ \A i \in DOMAIN data.objects : data.objects[i] \in CleanObject(suite, i)
       /\ \A i \in DOMAIN data.media : data.media[i] = CleanMedia(i)
  BY <1>2, <1>4
<1>11. DOMAIN data.locations = 1 .. H + N
  BY <1>2
<1>12. \A k \in DOMAIN data.locations : data.locations[k] = place(tree, k)
  BY <1>2
<1> QED BY <1>2, <1>9, <1>10, <1>11, <1>12 DEF place

LEMMA InitBench == Init => BenchInv
<1> SUFFICES ASSUME Init PROVE BenchInv
  OBVIOUS
<1>0. /\ loops = <<>> /\ count = [r \in {} |-> 0] /\ n = 0 /\ pool = {} /\ manifest = <<>>
  BY DEF Init
<1>1. PICK suite \in Suites : data \in Clean(suite) /\ calls \in suite.plans
  BY DEF Init
<1>2. /\ data \in Data
      /\ DOMAIN data.objects = 1 .. suite.objects /\ DOMAIN data.media = 1 .. suite.objects
      /\ \A i \in DOMAIN data.objects : data.objects[i] \in CleanObject(suite, i)
      /\ \A i \in DOMAIN data.media : data.media[i] = CleanMedia(i)
      /\ DOMAIN data.locations = 1 .. suite.nodes + suite.objects
  BY <1>1, CleanTables
<1>3. PICK tree \in Trees(suite.nodes) : \A k \in DOMAIN data.locations :
         data.locations[k] = IF k <= suite.nodes THEN Node(k, tree[k])
                                                 ELSE Assignment(k, k - suite.nodes)
  BY <1>1, CleanTables
<1>4. /\ suite.objects \in Nat /\ suite.nodes \in Nat
      /\ calls \in Seq(DOMAIN Loops) /\ Composable(calls)
  BY <1>1, SuitesAssumption
<1>5. /\ suite.links \subseteq {None, 1, 2} /\ suite.statuses \subseteq PUBLICATION_VOCABULARY
      /\ \A k \in suite.spans : k \in Nat /\ 1900 + k <= 9999
  BY SuitesAssumption
<1>6. ToSet(manifest) = {} /\ (\A rule : Entries(rule) = {}) /\ (\A rule, i : ~Labelled(rule, i))
  BY <1>0, NothingLabelled
<1>7. ToSet(loops) = {} /\ DOMAIN loops = {} /\ DOMAIN manifest = {}
  BY <1>0 DEF ToSet
<1>8. ASSUME NEW i \in DOMAIN data.objects
      PROVE  /\ data.objects[i].object_id = i /\ data.objects[i].accession_number = i
             /\ data.objects[i].object_name = "Bowl"
             /\ data.objects[i].publication_status \in {"public", "internal"}
             /\ data.objects[i].rights_id \in {None, 1, 2}
             /\ data.objects[i].publication_status = "public" => data.objects[i].rights_id # 2
             /\ data.objects[i].production_start_date = 1900
             /\ \E k \in suite.spans : data.objects[i].production_end_date = 1900 + k
  <2>1. data.objects[i] \in CleanObject(suite, i)
    BY <1>2
  <2> QED BY <2>1, <1>5 DEF CleanObject, PUBLICATION_VOCABULARY
<1>9. \A k \in DOMAIN data.locations : k \in Nat /\ k >= 1 /\ data.locations[k].location_id = k
  <2> TAKE k \in DOMAIN data.locations
  <2>1. k \in Nat /\ k >= 1
    BY <1>2, <1>4
  <2>2. CASE k <= suite.nodes
    <3>1. data.locations[k] = Node(k, tree[k])
      BY <1>3, <2>2
    <3> QED BY <2>1, <3>1 DEF Node
  <2>3. CASE ~(k <= suite.nodes)
    <3>1. data.locations[k] = Assignment(k, k - suite.nodes)
      BY <1>3, <2>3
    <3> QED BY <2>1, <3>1 DEF Assignment
  <2> QED BY <2>1, <2>2, <2>3
<1>9a. \A k \in DOMAIN data.locations : k <= suite.nodes =>
          /\ data.locations[k].object_id = None /\ data.locations[k].is_current = None
          /\ \/ data.locations[k].parent_location_id = None
             \/ data.locations[k].parent_location_id \in 1 .. k - 1
  <2> TAKE k \in DOMAIN data.locations
  <2> HAVE k <= suite.nodes
  <2>1. tree[k] = None \/ tree[k] \in 1 .. k - 1
    <3>1. k \in 1 .. suite.nodes
      BY <1>4, <1>9
    <3> QED BY <1>4, <1>9, <3>1 DEF Trees
  <2>2. data.locations[k] = Node(k, tree[k])
    BY <1>3
  <2> QED BY <2>1, <2>2 DEF Node
<1>9b. \A k \in DOMAIN data.locations : ~(k <= suite.nodes) =>
          /\ data.locations[k].object_id = k - suite.nodes /\ k - suite.nodes \in Nat
          /\ data.locations[k].is_current = TRUE /\ data.locations[k].parent_location_id = None
  <2> TAKE k \in DOMAIN data.locations
  <2> HAVE ~(k <= suite.nodes)
  <2>2. data.locations[k] = Assignment(k, k - suite.nodes)
    BY <1>3
  <2> QED BY <1>4, <1>9, <2>2 DEF Assignment
<1>10. \A k \in DOMAIN data.locations : IsNode(k) <=> k <= suite.nodes
  <2>1. None \notin Int
    BY SuitesAssumption
  <2> QED BY <1>9, <1>9a, <1>9b, <2>1 DEF IsNode
<1>11. BenchTyped /\ InLoop /\ Room
  <2>1. /\ IsFiniteSet(DOMAIN count) /\ count \in [DOMAIN count -> 0 .. MaxErrors]
    BY <1>0, FS_EmptySet
  <2>2. manifest \in Seq(LabelRow) /\ loops \in Seq(LoopName) /\ n \in Nat /\ IsFiniteSet(pool)
    BY <1>0, FS_EmptySet
  <2>3. InLoop /\ Room
    BY <1>0, <1>7 DEF InLoop, Room
  <2> QED BY <1>2, <1>4, <2>1, <2>2, <2>3 DEF BenchTyped
<1>12. CoreInv
  <2>1. \A i \in DOMAIN data.objects : i # None
    BY <1>2, <1>4, SuitesAssumption
  <2>2. "Bowl" # None
    BY SuitesAssumption
  <2> QED BY <1>6, <1>8, <2>1, <2>2 DEF CoreInv
<1>13. DateInv
  BY <1>5, <1>6, <1>8 DEF DateInv
<1>14. StatusInv
  BY <1>6, <1>8 DEF StatusInv
<1>15. MediaInv
  <2>1. \A i \in DOMAIN data.media : data.media[i].media_id = i /\ data.media[i].object_id = i
    <3> TAKE i \in DOMAIN data.media
    <3>1. data.media[i] = CleanMedia(i)
      BY <1>2
    <3> QED BY <3>1 DEF CleanMedia
  <2> QED BY <1>2, <1>6, <2>1 DEF MediaInv
<1>16. PlaceInv
  <2>1. ASSUME NEW o \in Nat, NEW j \in CurrentAt(o), NEW k \in CurrentAt(o)
        PROVE  j = k
    <3>1. TRUE # None
      BY TrueIsThere
    <3>2. /\ j \in DOMAIN data.locations /\ k \in DOMAIN data.locations
          /\ data.locations[j].is_current = TRUE /\ data.locations[k].is_current = TRUE
          /\ data.locations[j].object_id = data.locations[k].object_id
      BY DEF CurrentAt
    <3>3. ~(j <= suite.nodes) /\ ~(k <= suite.nodes)
      BY <1>9a, <3>1, <3>2
    <3> QED BY <1>4, <1>9, <1>9b, <3>2, <3>3
  <2>2. None \notin Int
    BY SuitesAssumption
  <2>3. None # TRUE
    BY TrueIsThere
  <2>4. \A k \in DOMAIN data.locations :
          /\ data.locations[k].is_current = TRUE <=> data.locations[k].object_id # None
          /\ data.locations[k].object_id # None => data.locations[k].parent_location_id = None
    <3> TAKE k \in DOMAIN data.locations
    <3>1. CASE k <= suite.nodes
      BY <1>9a, <2>2, <2>3, <3>1
    <3>2. CASE ~(k <= suite.nodes)
      BY <1>9b, <2>2, <2>3, <3>2
    <3> QED BY <3>1, <3>2
  <2> QED BY <1>6, <1>9, <2>1, <2>4 DEF PlaceInv
<1>17. TreeInv
  <2>1. ASSUME NEW k \in DOMAIN data.locations, IsNode(k),
               data.locations[k].parent_location_id # None
        PROVE  LET parent == data.locations[k].parent_location_id
               IN  parent \in 1 .. k - 1 /\ IsNode(parent)
    <3>1. data.locations[k].parent_location_id \in 1 .. k - 1 /\ k <= suite.nodes
      BY <1>9a, <1>10, <2>1
    <3>2. data.locations[k].parent_location_id \in DOMAIN data.locations
      BY <1>2, <1>4, <1>9, <3>1
    <3> QED BY <1>4, <1>9, <1>10, <3>1, <3>2
  <2> QED BY <1>6, <2>1 DEF TreeInv
<1>18. Apart /\ PlanInv /\ PoolInv /\ ExtraInv
  <2>1. Apart /\ PoolInv
    BY <1>0, <1>7 DEF Apart, PoolInv
  <2>2. PlanInv
    BY <1>0, <1>4, <1>6 DEF PlanInv, Running
  <2>3. ExtraInv
    BY <1>9 DEF ExtraInv
  <2> QED BY <2>1, <2>2, <2>3
<1> QED BY <1>11, <1>12, <1>13, <1>14, <1>15, <1>16, <1>17, <1>18 DEF BenchInv

-----------------------------------------------------------------------------
\* Rows for the errors still asked for.
LEMMA SlotsFinite == BenchTyped => IsFiniteSet(Slots(count)) /\ IsFiniteSet(Left)
<1> SUFFICES ASSUME BenchTyped PROVE IsFiniteSet(Slots(count)) /\ IsFiniteSet(Left)
  OBVIOUS
<1> DEFINE A == DOMAIN count
           B == 1 .. MaxErrors
           C == 1 .. 2
<1>1. IsFiniteSet(A) /\ IsFiniteSet(B) /\ IsFiniteSet(C)
  <2>1. IsFiniteSet(B)
    BY FS_Interval, SuitesAssumption
  <2>2. IsFiniteSet(C)
    <3>1. C = 1 .. 2 /\ 1 \in Int /\ 2 \in Int
      OBVIOUS
    <3> HIDE DEF C
    <3> QED BY <3>1, FS_Interval
  <2> QED BY <2>1, <2>2 DEF BenchTyped
<1>2. IsFiniteSet(A \X (B \X C))
  <2> HIDE DEF A, B, C
  <2>1. IsFiniteSet(B \X C)
    BY <1>1, FS_Product
  <2> QED BY <1>1, <2>1, FS_Product
<1>3. IsFiniteSet({<<a, b, c>> : a \in A, b \in B, c \in C})
  <2> HIDE DEF A, B, C
  <2> DEFINE f == [s \in A \X (B \X C) |-> <<s[1], s[2][1], s[2][2]>>]
             T == {<<a, b, c>> : a \in A, b \in B, c \in C}
  <2>1. \A s \in A \X (B \X C) : f[s] \in T
    OBVIOUS
  <2>2. \A t \in T : \E s \in A \X (B \X C) : f[s] = t
    <3> TAKE t \in T
    <3>1. PICK a \in A, b \in B, c \in C : t = <<a, b, c>>
      OBVIOUS
    <3>2. <<a, <<b, c>>>> \in A \X (B \X C) /\ f[<<a, <<b, c>>>>] = t
      BY <3>1
    <3> QED BY <3>2
  <2>3. f \in [A \X (B \X C) -> T]
    BY <2>1
  <2> HIDE DEF f, T
  <2>4. f \in Surjection(A \X (B \X C), T)
    BY <2>2, <2>3 DEF Surjection
  <2>5. IsFiniteSet(T)
    BY <1>2, <2>4, FS_Surjection
  <2> QED BY <2>5 DEF T
<1>4. Slots(count) \subseteq {<<a, b, c>> : a \in A, b \in B, c \in C}
  BY DEF Slots
<1>5. Left \subseteq Slots(count)
  BY DEF Left
<1> QED BY <1>3, <1>4, <1>5, FS_Subset

LEMMA ErrorTakes == \A loop : RowsPerError(loop) \in {1, 2}
BY DEF RowsPerError

\* The slots of the error a loop makes next.
NextSlots(loop) == {<<loop, n + 1, r>> : r \in 1 .. RowsPerError(loop)}

LEMMA NextSlotsAreLeft ==
    ASSUME BenchTyped, InLoop, NEW loop, loops # <<>>, Head(loops) = loop, n < count[loop]
    PROVE  /\ NextSlots(loop) \subseteq Left /\ IsFiniteSet(NextSlots(loop))
           /\ Cardinality(NextSlots(loop)) = RowsPerError(loop)
<1> DEFINE R == RowsPerError(loop)
<1>1. R \in {1, 2}
  BY ErrorTakes
<1>2. loop \in ToSet(loops) /\ loop \in DOMAIN count
  BY DEF InLoop, ToSet, BenchTyped
<1>3. count[loop] \in 0 .. MaxErrors /\ n + 1 \in 1 .. MaxErrors
  BY <1>2, SuitesAssumption DEF BenchTyped
<1>4. NextSlots(loop) \subseteq Left
  BY <1>1, <1>2, <1>3 DEF NextSlots, Left, Slots, BenchTyped
<1>5. CASE R = 1
  <2>1. NextSlots(loop) = {<<loop, n + 1, 1>>}
    BY <1>5 DEF NextSlots
  <2> QED BY <1>4, <1>5, <2>1, FS_Singleton
<1>6. CASE R = 2
  <2>1. NextSlots(loop) = {<<loop, n + 1, 1>>} \cup {<<loop, n + 1, 2>>}
    BY <1>6 DEF NextSlots
  <2>2. <<loop, n + 1, 2>> \notin {<<loop, n + 1, 1>>}
    OBVIOUS
  <2>3. IsFiniteSet({<<loop, n + 1, 1>>}) /\ Cardinality({<<loop, n + 1, 1>>}) = 1
    BY FS_Singleton
  <2>4. /\ IsFiniteSet({<<loop, n + 1, 1>>} \cup {<<loop, n + 1, 2>>})
        /\ Cardinality({<<loop, n + 1, 1>>} \cup {<<loop, n + 1, 2>>}) = 2
    <3> DEFINE P == {<<loop, n + 1, 1>>}
               x == <<loop, n + 1, 2>>
    <3> HIDE DEF P, x
    <3>1. IsFiniteSet(P \cup {x}) /\ Cardinality(P \cup {x}) = Cardinality(P) + 1
      BY <2>2, <2>3, FS_AddElement DEF P, x
    <3> QED BY <2>3, <3>1 DEF P, x
  <2> QED BY <1>4, <1>6, <2>1, <2>4
<1> QED BY <1>1, <1>5, <1>6

LEMMA RowsAreThere == BenchTyped /\ InLoop /\ Room => RowsSuffice
<1> SUFFICES ASSUME BenchTyped, InLoop, Room, loops # <<>>, n < count[Head(loops)]
             PROVE  Cardinality(pool) >= RowsPerError(Head(loops))
  BY DEF RowsSuffice
<1>1. /\ NextSlots(Head(loops)) \subseteq Left
      /\ Cardinality(NextSlots(Head(loops))) = RowsPerError(Head(loops))
  BY NextSlotsAreLeft
<1>2. IsFiniteSet(Left)
  BY SlotsFinite
<1>3. Cardinality(NextSlots(Head(loops))) <= Cardinality(Left)
  BY <1>1, <1>2, FS_Subset
<1>4. Cardinality(Left) \in Nat /\ Cardinality(pool) \in Nat /\ RowsPerError(Head(loops)) \in Nat
  BY <1>2, FS_CardinalityType, ErrorTakes DEF BenchTyped
<1> QED BY <1>1, <1>3, <1>4 DEF Room

LEMMA TurnKeepsRoom ==
    ASSUME BenchTyped, InLoop, Room, NEW loop, Turn(loop), NEW rows \in SUBSET pool,
           IsFiniteSet(rows), Cardinality(rows) = RowsPerError(loop), pool' = pool \ rows
    PROVE  InLoop' /\ Room' /\ n' = n + 1 /\ IsFiniteSet(pool')
<1>1. /\ n' = n + 1 /\ UNCHANGED <<calls, loops, count, refused>>
      /\ loops # <<>> /\ Head(loops) = loop /\ n < count[loop] /\ n \in Nat
  BY DEF Turn, BenchTyped
<1>2. count[loop] \in Nat /\ loop \in ToSet(loops)
  BY <1>1, SuitesAssumption DEF InLoop, BenchTyped, ToSet
<1>3. InLoop'
  BY <1>1, <1>2 DEF InLoop, ToSet
<1>4. Left' = Left \ NextSlots(loop)
  <2>1. Slots(count)' = Slots(count) /\ ToSet(loops)' = ToSet(loops) /\ Head(loops)' = loop
    BY <1>1 DEF Slots, ToSet
  <2>2. ASSUME NEW s \in Slots(count)
        PROVE  s \in NextSlots(loop) <=> s[1] = loop /\ s[2] = n + 1
    BY DEF Slots, NextSlots
  <2>3. ASSUME NEW s \in Slots(count)
        PROVE  s[2] \in Nat
    BY DEF Slots
  <2>4. Left' = {s \in Slots(count) : s[1] \in ToSet(loops) /\ (s[1] = loop => s[2] > n + 1)}
    BY <1>1, <2>1 DEF Left
  <2>5. Left = {s \in Slots(count) : s[1] \in ToSet(loops) /\ (s[1] = loop => s[2] > n)}
    BY <1>1 DEF Left
  <2> QED BY <1>1, <2>2, <2>3, <2>4, <2>5
<1>5. /\ NextSlots(loop) \subseteq Left /\ IsFiniteSet(NextSlots(loop))
      /\ Cardinality(NextSlots(loop)) = RowsPerError(loop)
  BY <1>1, NextSlotsAreLeft
<1>6. IsFiniteSet(Left) /\ IsFiniteSet(pool)
  BY SlotsFinite DEF BenchTyped
<1>7. /\ Cardinality(Left \ NextSlots(loop)) = Cardinality(Left) - Cardinality(NextSlots(loop))
      /\ Cardinality(pool \ rows) = Cardinality(pool) - Cardinality(rows)
      /\ IsFiniteSet(pool \ rows)
  <2>1. Left \cap NextSlots(loop) = NextSlots(loop) /\ pool \cap rows = rows
    BY <1>5
  <2>2. /\ Cardinality(Left \ NextSlots(loop)) = Cardinality(Left) - Cardinality(NextSlots(loop))
    BY <1>6, <2>1, FS_Difference
  <2>3. /\ Cardinality(pool \ rows) = Cardinality(pool) - Cardinality(rows)
        /\ IsFiniteSet(pool \ rows)
    <3>1. /\ IsFiniteSet(pool \ rows)
          /\ Cardinality(pool \ rows) = Cardinality(pool) - Cardinality(pool \cap rows)
      BY <1>6, FS_Difference
    <3> QED BY <2>1, <3>1
  <2> QED BY <2>2, <2>3
<1>8. /\ Cardinality(Left) \in Nat /\ Cardinality(pool) \in Nat /\ RowsPerError(loop) \in Nat
      /\ Cardinality(Left) <= Cardinality(pool)
  BY <1>1, <1>6, FS_CardinalityType, ErrorTakes DEF Room
<1>9. Room'
  BY <1>1, <1>4, <1>5, <1>7, <1>8 DEF Room
<1> QED BY <1>1, <1>3, <1>7, <1>9

-----------------------------------------------------------------------------
\* What one more label changes.
LEMMA OneLabel ==
    ASSUME manifest \in Seq(LabelRow), NEW e \in LabelRow, manifest' = Append(manifest, e)
    PROVE  /\ manifest' \in Seq(LabelRow)
           /\ ToSet(manifest') = ToSet(manifest) \cup {e}
           /\ \A rule : Entries(rule)' = IF rule = e.rule THEN Entries(rule) \cup {e} ELSE Entries(rule)
<1>1. manifest' \in Seq(LabelRow)
  OBVIOUS
<1>2. ToSet(manifest') = ToSet(manifest) \cup {e}
  <2>1. /\ Len(manifest') = Len(manifest) + 1 /\ Len(manifest) \in Nat
        /\ \A p \in 1 .. Len(manifest) : manifest'[p] = manifest[p]
        /\ manifest'[Len(manifest) + 1] = e
    OBVIOUS
  <2>2. DOMAIN manifest = 1 .. Len(manifest) /\ DOMAIN manifest' = 1 .. Len(manifest) + 1
    BY <1>1, <2>1
  <2>3. ASSUME NEW x \in ToSet(manifest') PROVE x \in ToSet(manifest) \cup {e}
    BY <2>1, <2>2, <2>3 DEF ToSet
  <2>4. ASSUME NEW x \in ToSet(manifest) \cup {e} PROVE x \in ToSet(manifest')
    BY <2>1, <2>2, <2>4 DEF ToSet
  <2> QED BY <2>3, <2>4
<1>3. \A rule : Entries(rule)' = {f \in ToSet(manifest') : f.rule = rule}
  BY DEF Entries
<1> QED BY <1>1, <1>2, <1>3 DEF Entries

LEMMA StaysApart ==
    ASSUME manifest \in Seq(LabelRow), Apart, NEW e \in LabelRow, manifest' = Append(manifest, e),
           ~Labelled(e.rule, e.id),
           e.rule = "CORE001" => \A f \in Entries("CORE001") : f.after # e.after
    PROVE  Apart'
<1>1. /\ Len(manifest') = Len(manifest) + 1 /\ Len(manifest) \in Nat
      /\ \A p \in 1 .. Len(manifest) : manifest'[p] = manifest[p]
      /\ manifest'[Len(manifest) + 1] = e
      /\ DOMAIN manifest = 1 .. Len(manifest) /\ DOMAIN manifest' = 1 .. Len(manifest) + 1
  OBVIOUS
<1>2. ASSUME NEW p \in DOMAIN manifest, manifest[p].rule = e.rule
      PROVE  /\ manifest[p].id # e.id
             /\ e.rule = "CORE001" => manifest[p].after # e.after
  <2>1. manifest[p] \in Entries(e.rule)
    BY <1>2 DEF Entries, ToSet
  <2> QED BY <2>1 DEF Labelled
<1>3. ASSUME NEW p \in DOMAIN manifest', NEW q \in DOMAIN manifest', p # q,
             manifest'[p].rule = manifest'[q].rule
      PROVE  /\ manifest'[p].id # manifest'[q].id
             /\ manifest'[p].rule = "CORE001" => manifest'[p].after # manifest'[q].after
  <2>1. CASE p \in DOMAIN manifest /\ q \in DOMAIN manifest
    BY <1>1, <1>3, <2>1 DEF Apart
  <2>2. CASE p \in DOMAIN manifest /\ q = Len(manifest) + 1
    BY <1>1, <1>2, <1>3, <2>2
  <2>3. CASE q \in DOMAIN manifest /\ p = Len(manifest) + 1
    BY <1>1, <1>2, <1>3, <2>3
  <2> QED BY <1>1, <1>3, <2>1, <2>2, <2>3
<1> QED BY <1>3 DEF Apart

-----------------------------------------------------------------------------
\* What a step leaves alone, and that what is said of it stays true.
SameLabels(rules) == \A rule \in rules : Entries(rule)' = Entries(rule)
SameMedia == data'.media = data.media
SameLocations == data'.locations = data.locations

LEMMA CoreStays ==
    ASSUME CoreInv, DOMAIN data'.objects = DOMAIN data.objects,
           \A i \in DOMAIN data.objects :
              /\ data'.objects[i].object_id = data.objects[i].object_id
              /\ data'.objects[i].accession_number = data.objects[i].accession_number
              /\ data'.objects[i].object_name = data.objects[i].object_name,
           SameLabels({"CORE001", "CORE002"})
    PROVE  CoreInv'
<1>1. Entries("CORE001")' = Entries("CORE001") /\ Entries("CORE002")' = Entries("CORE002")
  BY DEF SameLabels
<1> QED BY <1>1 DEF CoreInv

LEMMA DateStays ==
    ASSUME DateInv, DOMAIN data'.objects = DOMAIN data.objects,
           \A i \in DOMAIN data.objects :
              /\ data'.objects[i].production_start_date = data.objects[i].production_start_date
              /\ data'.objects[i].production_end_date = data.objects[i].production_end_date,
           SameLabels({"DATE001", "SCHEMA001"})
    PROVE  DateInv'
<1>1. Entries("DATE001")' = Entries("DATE001") /\ Entries("SCHEMA001")' = Entries("SCHEMA001")
  BY DEF SameLabels
<1> QED BY <1>1 DEF DateInv, Labelled

LEMMA StatusStays ==
    ASSUME StatusInv, DOMAIN data'.objects = DOMAIN data.objects,
           \A i \in DOMAIN data.objects :
              /\ data'.objects[i].publication_status = data.objects[i].publication_status
              /\ data'.objects[i].rights_id = data.objects[i].rights_id,
           SameLabels({"VOCAB001", "REF002", "RIGHTS001"})
    PROVE  StatusInv'
<1>1. /\ Entries("VOCAB001")' = Entries("VOCAB001") /\ Entries("REF002")' = Entries("REF002")
      /\ Entries("RIGHTS001")' = Entries("RIGHTS001")
  BY DEF SameLabels
<1> QED BY <1>1 DEF StatusInv, Labelled

LEMMA MediaStays ==
    ASSUME MediaInv, SameMedia, DOMAIN data'.objects = DOMAIN data.objects, SameLabels({"REF001"})
    PROVE  MediaInv'
<1>1. Entries("REF001")' = Entries("REF001")
  BY DEF SameLabels
<1> QED BY <1>1 DEF MediaInv, Labelled, SameMedia

LEMMA PlaceStays ==
    ASSUME PlaceInv, SameLocations, SameLabels({"LOC001"})
    PROVE  PlaceInv'
<1>1. Entries("LOC001")' = Entries("LOC001")
  BY DEF SameLabels
<1>2. \A o : CurrentAt(o)' = CurrentAt(o)
  BY DEF CurrentAt, SameLocations
<1> QED BY <1>1, <1>2 DEF PlaceInv, Labelled, SameLocations

LEMMA TreeStays ==
    ASSUME TreeInv, SameLocations, SameLabels({"LOC002"})
    PROVE  TreeInv'
<1>1. Entries("LOC002")' = Entries("LOC002")
  BY DEF SameLabels
<1>2. \A k : IsNode(k)' = IsNode(k)
  BY DEF IsNode, SameLocations
<1> QED BY <1>1, <1>2 DEF TreeInv, Labelled, SameLocations

-----------------------------------------------------------------------------
(***************************************************************************)
(* A turn of a loop labels errors of its own injector only, so the plan's  *)
(* bookkeeping stands.                                                     *)
(***************************************************************************)
LEMMA TurnKeepsPlan ==
    ASSUME PlanInv, NEW loop, Turn(loop), NEW rule, Owner(rule) = Owner(loop),
           NEW new, \A e \in new : e.rule = rule,
           ToSet(manifest') = ToSet(manifest) \cup new
    PROVE  PlanInv'
<1>1. /\ calls' = calls /\ loops' = loops
      /\ loops # <<>> /\ Head(loops) = loop
  BY DEF Turn
<1>2. /\ \A injector : Running(injector)' <=> Running(injector)
      /\ \A injector : ToCome(injector)' <=> ToCome(injector)
      /\ \A injector : Running(injector) <=> Owner(rule) = injector
  BY <1>1 DEF Running, ToCome
<1>3. \A injector \in DOMAIN Loops : ToCome(injector)' =>
          /\ ~Running(injector)'
          /\ \A e \in ToSet(manifest') : Owner(e.rule) # injector
  BY <1>2 DEF PlanInv
<1>4. /\ Entries("RIGHTS001")' # {} => Entries("RIGHTS001") # {} \/ rule = "RIGHTS001"
      /\ Entries("VOCAB001")' # {} => Entries("VOCAB001") # {} \/ rule = "VOCAB001"
  BY DEF Entries
<1>5. Owner("RIGHTS001") = "inject_publication_conflict" /\ Owner("VOCAB001") = "inject_object_field_errors"
  BY DEF Owner
<1>6. Composable(calls')
  BY <1>1 DEF PlanInv
<1> QED BY <1>2, <1>3, <1>4, <1>5, <1>6 DEF PlanInv

LEMMA TurnKeepsExtras ==
    ASSUME ExtraInv, BenchTyped, NEW loop, Turn(loop), DOMAIN data'.locations = DOMAIN data.locations,
           \A k \in DOMAIN data.locations :
              data'.locations[k].location_id = data.locations[k].location_id
    PROVE  ExtraInv'
<1>1. /\ calls' = calls /\ loops' = loops /\ n' = n + 1 /\ n \in Nat
  BY DEF Turn, BenchTyped
<1>2. \A injector : (Running(injector)' <=> Running(injector)) /\ (ToCome(injector)' <=> ToCome(injector))
  BY <1>1 DEF Running, ToCome
<1>3. \A m \in 0 .. n - 1 : m \in 0 .. n' - 1
  BY <1>1
<1>4. \A k \in DOMAIN data.locations :
         (\E m \in 0 .. n - 1 : data.locations[k].location_id = ExtraId(m)) =>
            \E m \in 0 .. n' - 1 : data'.locations[k].location_id = ExtraId(m)
  BY <1>3
<1> QED BY <1>2, <1>4 DEF ExtraInv

LEMMA OneRow == \A x : IsFiniteSet({x}) /\ Cardinality({x}) = 1
BY FS_Singleton

LEMMA TwoRows ==
    ASSUME NEW x, NEW y, x # y
    PROVE  IsFiniteSet({x, y}) /\ Cardinality({x, y}) = 2
<1>1. {x, y} = {x} \cup {y} /\ y \notin {x}
  OBVIOUS
<1>2. IsFiniteSet({x}) /\ Cardinality({x}) = 1
  BY FS_Singleton
<1>3. IsFiniteSet({x} \cup {y}) /\ Cardinality({x} \cup {y}) = 2
  <2> DEFINE P == {x}
  <2> HIDE DEF P
  <2>1. IsFiniteSet(P \cup {y}) /\ Cardinality(P \cup {y}) = Cardinality(P) + 1
    BY <1>1, <1>2, FS_AddElement DEF P
  <2> QED BY <1>2, <2>1 DEF P
<1> QED BY <1>1, <1>3

LEMMA TurnTyped ==
    ASSUME BenchTyped, NEW loop, Turn(loop), n' = n + 1, IsFiniteSet(pool'),
           data' \in Data, manifest' \in Seq(LabelRow)
    PROVE  BenchTyped'
<1>1. UNCHANGED <<calls, loops, count>>
  BY DEF Turn
<1> QED BY <1>1 DEF BenchTyped

(***************************************************************************)
(* An injector that changes one object row and labels it: what that leaves *)
(* alone, and what it changes.                                             *)
(***************************************************************************)
ObjectRules == {"CORE001", "CORE002", "DATE001", "SCHEMA001", "VOCAB001", "REF002", "RIGHTS001"}

LEMMA ObjectTurn ==
    ASSUME BenchInv, NEW loop, Turn(loop), NEW rows \in SUBSET pool,
           IsFiniteSet(rows), Cardinality(rows) = RowsPerError(loop), pool' = pool \ rows,
           NEW i \in DOMAIN data.objects, NEW row \in ObjectRow,
           data' = [data EXCEPT !.objects[i] = row],
           NEW e \in LabelRow, manifest' = Append(manifest, e),
           e.rule \in ObjectRules, Owner(e.rule) = Owner(loop), ~Labelled(e.rule, e.id),
           e.rule = "CORE001" => \A f \in Entries("CORE001") : f.after # e.after
    PROVE  /\ BenchTyped' /\ InLoop' /\ Room' /\ Apart' /\ PlanInv' /\ ExtraInv'
           /\ MediaInv' /\ PlaceInv' /\ TreeInv'
           /\ DOMAIN data'.objects = DOMAIN data.objects
           /\ \A j \in DOMAIN data.objects : data'.objects[j] = IF j = i THEN row ELSE data.objects[j]
           /\ \A rule : Entries(rule)' = IF rule = e.rule THEN Entries(rule) \cup {e} ELSE Entries(rule)
<1>1. BenchTyped /\ InLoop /\ Room /\ data \in Data /\ manifest \in Seq(LabelRow)
  BY DEF BenchInv, BenchTyped
<1>2. InLoop' /\ Room' /\ n' = n + 1 /\ IsFiniteSet(pool')
  BY <1>1, TurnKeepsRoom
<1>3. /\ manifest' \in Seq(LabelRow)
      /\ ToSet(manifest') = ToSet(manifest) \cup {e}
      /\ \A rule : Entries(rule)' = IF rule = e.rule THEN Entries(rule) \cup {e} ELSE Entries(rule)
  BY <1>1, OneLabel
<1>4. /\ data' = [data EXCEPT !.objects = [data.objects EXCEPT ![i] = row]]
      /\ data.objects \in Seq(ObjectRow)
  BY <1>1 DEF Data
<1>5. /\ data'.objects = [data.objects EXCEPT ![i] = row]
      /\ data'.media = data.media /\ data'.locations = data.locations
  BY <1>1, <1>4 DEF Data
<1>6. /\ [data.objects EXCEPT ![i] = row] \in Seq(ObjectRow)
      /\ DOMAIN data'.objects = DOMAIN data.objects
      /\ \A j \in DOMAIN data.objects : data'.objects[j] = IF j = i THEN row ELSE data.objects[j]
  BY <1>4, <1>5
<1>7. data' \in Data
  BY <1>1, <1>4, <1>6 DEF Data
<1>8. BenchTyped'
  BY <1>1, <1>2, <1>3, <1>7, TurnTyped
<1>9. Apart'
  BY <1>1, StaysApart DEF BenchInv
<1>10. PlanInv'
  <2> DEFINE fresh == {e}
  <2>1. (\A f \in fresh : f.rule = e.rule) /\ ToSet(manifest') = ToSet(manifest) \cup fresh
    BY <1>3
  <2>2. PlanInv
    BY DEF BenchInv
  <2> HIDE DEF fresh
  <2> QED BY <2>1, <2>2, TurnKeepsPlan
<1>11. ExtraInv'
  BY <1>1, <1>5, TurnKeepsExtras DEF BenchInv
<1>12. e.rule \notin {"REF001", "LOC001", "LOC002"}
  BY DEF ObjectRules
<1>13. MediaInv' /\ PlaceInv' /\ TreeInv'
  BY <1>3, <1>5, <1>6, <1>12, MediaStays, PlaceStays, TreeStays
     DEF BenchInv, SameMedia, SameLocations, SameLabels
<1> QED BY <1>2, <1>3, <1>6, <1>8, <1>9, <1>10, <1>11, <1>13

\* What the pool of the running injector holds.
LEMMA PoolIsUsable ==
    ASSUME BenchInv, NEW loop, Turn(loop), NEW i \in pool
    PROVE  Usable(Owner(loop), i)
BY DEF BenchInv, PoolInv, Turn

LEMMA OwnersOf ==
    /\ Owner("CORE001") = "inject_errors" /\ Owner("CORE002") = "inject_errors"
    /\ Owner("DATE001") = "inject_object_field_errors"
    /\ Owner("VOCAB001") = "inject_object_field_errors"
    /\ Owner("SCHEMA001") = "inject_object_field_errors"
    /\ Owner("REF001") = "inject_orphan_media"
    /\ Owner("REF002") = "inject_orphan_rights"
    /\ Owner("RIGHTS001") = "inject_publication_conflict"
    /\ Owner("LOC001") = "inject_extra_current_location"
    /\ Owner("LOC002") = "inject_location_hierarchy_errors"
    /\ Owner("LOC002_parent") = "inject_location_hierarchy_errors"
    /\ Owner("LOC002_cycle") = "inject_location_hierarchy_errors"
BY DEF Owner

LEMMA BlankKeeps == BenchInv /\ BlankField => BenchInv'
<1> SUFFICES ASSUME BenchInv, BlankField PROVE BenchInv'
  OBVIOUS
<1> DEFINE field == IF n % 2 = 0 THEN "accession_number" ELSE "object_name"
<1>1. PICK i \in pool :
         /\ Take({i}) /\ Put("objects", i, field, None) /\ LabelObject("CORE002", i, field, None)
  BY DEF BlankField
<1>2. Turn("CORE002") /\ field \in {"accession_number", "object_name"}
  BY DEF BlankField
<1> HIDE DEF field
<1>3. /\ i \in DOMAIN data.objects /\ Untouched({"CORE001", "CORE002"}, i)
      /\ \A e \in Entries("CORE001") : e.after # i
  BY <1>2, PoolIsUsable, OwnersOf DEF Usable
<1> DEFINE row == [data.objects[i] EXCEPT ![field] = None]
           e == [rule |-> "CORE002", type |-> "object", id |-> i, field |-> field, after |-> None]
<1>4. data.objects \in Seq(ObjectRow) /\ data.objects[i] \in ObjectRow /\ data.objects[i].object_id = i
  BY <1>3 DEF BenchInv, BenchTyped, Data, CoreInv
<1>5. row \in ObjectRow /\ data' = [data EXCEPT !.objects[i] = row]
  <2>1. row \in ObjectRow
    BY <1>2, <1>4 DEF ObjectRow
  <2> QED BY <1>1, <2>1 DEF Put
<1>6. manifest' = Append(manifest, e) /\ e \in LabelRow
  BY <1>1, <1>2, <1>3, <1>4 DEF LabelObject, Label, LabelRow, ScoredRule, BenchInv, BenchTyped, Data
<1>7. /\ row.object_id = i
      /\ row.accession_number = IF field = "accession_number" THEN None ELSE data.objects[i].accession_number
      /\ row.object_name = IF field = "object_name" THEN None ELSE data.objects[i].object_name
      /\ row.publication_status = data.objects[i].publication_status
      /\ row.rights_id = data.objects[i].rights_id
      /\ row.production_start_date = data.objects[i].production_start_date
      /\ row.production_end_date = data.objects[i].production_end_date
  BY <1>2, <1>4 DEF ObjectRow
<1>8. e.rule = "CORE002" /\ e.id = i /\ e.field = field
  OBVIOUS
<1> HIDE DEF row, e
<1>9. /\ BenchTyped' /\ InLoop' /\ Room' /\ Apart' /\ PlanInv' /\ ExtraInv'
      /\ MediaInv' /\ PlaceInv' /\ TreeInv'
      /\ DOMAIN data'.objects = DOMAIN data.objects
      /\ \A j \in DOMAIN data.objects : data'.objects[j] = IF j = i THEN row ELSE data.objects[j]
      /\ \A rule : Entries(rule)' = IF rule = e.rule THEN Entries(rule) \cup {e} ELSE Entries(rule)
  <2>1. IsFiniteSet({i}) /\ Cardinality({i}) = RowsPerError("CORE002") /\ {i} \in SUBSET pool
    BY OneRow DEF RowsPerError
  <2>2. pool' = pool \ {i}
    BY <1>1 DEF Take
  <2>3. e.rule \in ObjectRules /\ Owner(e.rule) = Owner("CORE002") /\ ~Labelled(e.rule, e.id)
    BY <1>3, <1>8 DEF ObjectRules, Untouched
  <2> QED BY <1>2, <1>3, <1>5, <1>6, <1>8, <2>1, <2>2, <2>3, ObjectTurn
<1>10. CoreInv'
  <2>1. Entries("CORE001")' = Entries("CORE001") /\ Entries("CORE002")' = Entries("CORE002") \cup {e}
    BY <1>8, <1>9
  <2>2. CoreInv
    BY DEF BenchInv
  <2>3. \A f \in Entries("CORE001") : f.id # i /\ f.after # i
    BY <1>3 DEF Untouched, Labelled
  <2>4. \A f \in Entries("CORE002") : f.id # i
    BY <1>3 DEF Untouched, Labelled
  <2>5. ASSUME NEW j \in DOMAIN data.objects, j # i
        PROVE  LET r == data'.objects[j]
               IN  /\ r.object_id = j
                   /\ \/ r.accession_number \in {j, None}
                      \/ \E f \in Entries("CORE001") : f.id = j /\ f.after = r.accession_number
                   /\ r.accession_number = None <=>
                         \E f \in Entries("CORE002") \cup {e} : f.id = j /\ f.field = "accession_number"
                   /\ r.object_name = None <=>
                         \E f \in Entries("CORE002") \cup {e} : f.id = j /\ f.field = "object_name"
    BY <1>8, <1>9, <2>2, <2>5 DEF CoreInv
  <2>6. /\ row.accession_number = None <=> field = "accession_number"
        /\ row.object_name = None <=> field = "object_name"
        /\ row.accession_number \in {i, None}
    BY <1>2, <1>3, <1>7, <2>2, <2>3, <2>4 DEF CoreInv
  <2>7. \A f \in Entries("CORE001") :
          /\ f.id \in DOMAIN data.objects /\ f.after \in DOMAIN data.objects /\ f.after # f.id
          /\ data'.objects[f.after].accession_number = f.after
          /\ data'.objects[f.id].accession_number = f.after
    BY <1>9, <2>2, <2>3 DEF CoreInv
  <2>8. \A f \in Entries("CORE002") \cup {e} :
          f.id \in DOMAIN data.objects /\ f.field \in {"accession_number", "object_name"}
    BY <1>2, <1>3, <1>8, <2>2 DEF CoreInv
  <2> QED BY <1>7, <1>8, <1>9, <2>1, <2>4, <2>5, <2>6, <2>7, <2>8 DEF CoreInv
<1>11. DateInv' /\ StatusInv'
  BY <1>7, <1>8, <1>9, DateStays, StatusStays DEF BenchInv, SameLabels
<1>12. PoolInv'
  <2>1. Owner(Head(loops))' = "inject_errors"
    BY <1>2, OwnersOf DEF Turn
  <2>2. ASSUME NEW j \in pool'
        PROVE  Usable("inject_errors", j)'
    <3>1. j \in pool /\ j # i
      BY <1>1 DEF Take
    <3>2. /\ j \in DOMAIN data.objects /\ Untouched({"CORE001", "CORE002"}, j)
          /\ \A f \in Entries("CORE001") : f.after # j
      BY <1>2, <3>1, PoolIsUsable, OwnersOf DEF Usable
    <3> QED BY <1>8, <1>9, <3>1, <3>2 DEF Usable, Untouched, Labelled
  <2> QED BY <2>1, <2>2 DEF PoolInv
<1> QED BY <1>9, <1>10, <1>11, <1>12 DEF BenchInv

LEMMA DuplicateKeeps == BenchInv /\ DuplicateAccession => BenchInv'
<1> SUFFICES ASSUME BenchInv, DuplicateAccession PROVE BenchInv'
  OBVIOUS
<1>1. PICK source \in pool, target \in pool :
         /\ source # target /\ Take({source, target})
         /\ Put("objects", target, "accession_number", data.objects[source].accession_number)
         /\ LabelObject("CORE001", target, "accession_number", data.objects[source].accession_number)
  BY DEF DuplicateAccession
<1>2. Turn("CORE001")
  BY DEF DuplicateAccession
<1>3. \A i \in {source, target} :
         /\ i \in DOMAIN data.objects /\ Untouched({"CORE001", "CORE002"}, i)
         /\ \A e \in Entries("CORE001") : e.after # i
  BY <1>2, PoolIsUsable, OwnersOf DEF Usable
<1>4. CoreInv /\ data.objects \in Seq(ObjectRow)
  BY DEF BenchInv, BenchTyped, Data
<1>5. data.objects[source].accession_number = source
  BY <1>3, <1>4 DEF CoreInv, Untouched, Labelled
<1> DEFINE row == [data.objects[target] EXCEPT !.accession_number = source]
           e == [rule |-> "CORE001", type |-> "object", id |-> target,
                 field |-> "accession_number", after |-> source]
<1>6. /\ data.objects[target] \in ObjectRow /\ data.objects[target].object_id = target
      /\ source \in Nat /\ target \in Nat
  BY <1>3, <1>4 DEF CoreInv
<1>7. row \in ObjectRow /\ data' = [data EXCEPT !.objects[target] = row]
  <2>1. row \in ObjectRow
    BY <1>6 DEF ObjectRow
  <2> QED BY <1>1, <1>5, <2>1 DEF Put
<1>8. manifest' = Append(manifest, e) /\ e \in LabelRow
  BY <1>1, <1>5, <1>6 DEF LabelObject, Label, LabelRow, ScoredRule
<1>9. /\ row.object_id = target /\ row.accession_number = source
      /\ row.object_name = data.objects[target].object_name
      /\ row.publication_status = data.objects[target].publication_status
      /\ row.rights_id = data.objects[target].rights_id
      /\ row.production_start_date = data.objects[target].production_start_date
      /\ row.production_end_date = data.objects[target].production_end_date
  BY <1>6 DEF ObjectRow
<1>10. e.rule = "CORE001" /\ e.id = target /\ e.after = source
  OBVIOUS
<1> HIDE DEF row, e
<1>11. \A f \in Entries("CORE001") : f.id \notin {source, target} /\ f.after \notin {source, target}
  BY <1>3 DEF Untouched, Labelled
<1>12. \A f \in Entries("CORE002") : f.id \notin {source, target}
  BY <1>3 DEF Untouched, Labelled
<1>13. /\ BenchTyped' /\ InLoop' /\ Room' /\ Apart' /\ PlanInv' /\ ExtraInv'
       /\ MediaInv' /\ PlaceInv' /\ TreeInv'
       /\ DOMAIN data'.objects = DOMAIN data.objects
       /\ \A j \in DOMAIN data.objects : data'.objects[j] = IF j = target THEN row ELSE data.objects[j]
       /\ \A rule : Entries(rule)' = IF rule = e.rule THEN Entries(rule) \cup {e} ELSE Entries(rule)
  <2>1. /\ IsFiniteSet({source, target}) /\ Cardinality({source, target}) = RowsPerError("CORE001")
        /\ {source, target} \in SUBSET pool
    BY <1>1, TwoRows DEF RowsPerError
  <2>2. pool' = pool \ {source, target}
    BY <1>1 DEF Take
  <2>3. e.rule \in ObjectRules /\ Owner(e.rule) = Owner("CORE001") /\ ~Labelled(e.rule, e.id)
    BY <1>10, <1>11 DEF ObjectRules, Labelled
  <2>4. \A f \in Entries("CORE001") : f.after # e.after
    BY <1>10, <1>11
  <2>5. target \in DOMAIN data.objects
    BY <1>3
  <2> QED BY <1>2, <1>7, <1>8, <2>1, <2>2, <2>3, <2>4, <2>5, ObjectTurn
<1>14. CoreInv'
  <2>1. Entries("CORE002")' = Entries("CORE002") /\ Entries("CORE001")' = Entries("CORE001") \cup {e}
    BY <1>10, <1>13
  <2>2. ASSUME NEW j \in DOMAIN data.objects
        PROVE  LET r == data'.objects[j]
               IN  /\ r.object_id = j
                   /\ \/ r.accession_number \in {j, None}
                      \/ \E f \in Entries("CORE001") \cup {e} : f.id = j /\ f.after = r.accession_number
                   /\ r.accession_number = None <=>
                         \E f \in Entries("CORE002") : f.id = j /\ f.field = "accession_number"
                   /\ r.object_name = None <=>
                         \E f \in Entries("CORE002") : f.id = j /\ f.field = "object_name"
    <3>1. CASE j = target
      <4>1. source # None
        BY <1>6, SuitesAssumption
      <4>2. data.objects[target].object_name # None
        BY <1>3, <1>4, <1>12 DEF CoreInv
      <4> QED BY <1>9, <1>10, <1>12, <1>13, <3>1, <4>1, <4>2
    <3>2. CASE j # target
      BY <1>4, <1>13, <3>2 DEF CoreInv
    <3> QED BY <3>1, <3>2
  <2>3. \A f \in Entries("CORE001") :
          /\ f.id \in DOMAIN data.objects /\ f.after \in DOMAIN data.objects /\ f.after # f.id
          /\ data'.objects[f.after].accession_number = f.after
          /\ data'.objects[f.id].accession_number = f.after
    BY <1>4, <1>11, <1>13 DEF CoreInv
  <2>4. /\ e.id \in DOMAIN data.objects /\ e.after \in DOMAIN data.objects /\ e.after # e.id
        /\ data'.objects[e.after].accession_number = e.after
        /\ data'.objects[e.id].accession_number = e.after
    BY <1>1, <1>3, <1>5, <1>9, <1>10, <1>13
  <2>5. \A f \in Entries("CORE002") :
          f.id \in DOMAIN data.objects /\ f.field \in {"accession_number", "object_name"}
    BY <1>4 DEF CoreInv
  <2> QED BY <1>13, <2>1, <2>2, <2>3, <2>4, <2>5 DEF CoreInv
<1>15. DateInv' /\ StatusInv'
  BY <1>9, <1>10, <1>13, DateStays, StatusStays DEF BenchInv, SameLabels
<1>16. PoolInv'
  <2>1. Owner(Head(loops))' = "inject_errors"
    BY <1>2, OwnersOf DEF Turn
  <2>2. ASSUME NEW j \in pool'
        PROVE  Usable("inject_errors", j)'
    <3>1. j \in pool /\ j \notin {source, target}
      BY <1>1 DEF Take
    <3>2. /\ j \in DOMAIN data.objects /\ Untouched({"CORE001", "CORE002"}, j)
          /\ \A f \in Entries("CORE001") : f.after # j
      BY <1>2, <3>1, PoolIsUsable, OwnersOf DEF Usable
    <3> QED BY <1>10, <1>13, <3>1, <3>2 DEF Usable, Untouched, Labelled
  <2> QED BY <2>1, <2>2 DEF PoolInv
<1> QED BY <1>13, <1>14, <1>15, <1>16 DEF BenchInv

LEMMA DateCells ==
    ASSUME NEW o \in ObjectRow, NEW d \in Int
    PROVE  /\ [o EXCEPT !.production_start_date = d] \in ObjectRow
           /\ [o EXCEPT !.production_end_date = d] \in ObjectRow
BY DEF ObjectRow

LEMMA InvertKeeps == BenchInv /\ InvertDates => BenchInv'
<1> SUFFICES ASSUME BenchInv, InvertDates PROVE BenchInv'
  OBVIOUS
<1>1. PICK i \in pool :
         /\ Take({i})
         /\ data' = [data EXCEPT !.objects[i] =
                       [@ EXCEPT !.production_start_date = 1950, !.production_end_date = 1900]]
         /\ LabelObject("DATE001", i, "production_start_date", 1950)
  BY DEF InvertDates
<1>2. Turn("DATE001")
  BY DEF InvertDates
<1>3. i \in DOMAIN data.objects /\ Untouched({"DATE001", "VOCAB001", "SCHEMA001"}, i)
  BY <1>2, PoolIsUsable, OwnersOf DEF Usable
<1> DEFINE row == [data.objects[i] EXCEPT !.production_start_date = 1950, !.production_end_date = 1900]
           e == [rule |-> "DATE001", type |-> "object", id |-> i,
                 field |-> "production_start_date", after |-> 1950]
<1>4. data.objects \in Seq(ObjectRow) /\ data.objects[i] \in ObjectRow /\ data.objects[i].object_id = i
  BY <1>3 DEF BenchInv, BenchTyped, Data, CoreInv
<1>5. row \in ObjectRow /\ data' = [data EXCEPT !.objects[i] = row]
  <2> DEFINE begin == 1950
             finish == 1900
             early == [data.objects[i] EXCEPT !.production_start_date = begin]
  <2>1. begin \in Int /\ finish \in Int
    OBVIOUS
  <2>2. row = [early EXCEPT !.production_end_date = finish]
    OBVIOUS
  <2> HIDE DEF begin, finish, row
  <2>a. early \in ObjectRow
    BY <1>4, <2>1, DateCells
  <2> HIDE DEF early
  <2>3. row \in ObjectRow
    BY <2>1, <2>2, <2>a, DateCells
  <2> QED BY <1>1, <2>3 DEF row
<1>6. manifest' = Append(manifest, e) /\ e \in LabelRow
  BY <1>1, <1>3, <1>4 DEF LabelObject, Label, LabelRow, ScoredRule
<1>7. /\ row.object_id = i /\ row.accession_number = data.objects[i].accession_number
      /\ row.object_name = data.objects[i].object_name
      /\ row.publication_status = data.objects[i].publication_status
      /\ row.rights_id = data.objects[i].rights_id
  BY <1>4 DEF ObjectRow
<1>7a. row.production_start_date = 1950 /\ row.production_end_date = 1900
  BY <1>4 DEF ObjectRow
<1>8. e.rule = "DATE001" /\ e.id = i
  OBVIOUS
<1> HIDE DEF row, e
<1>9. /\ BenchTyped' /\ InLoop' /\ Room' /\ Apart' /\ PlanInv' /\ ExtraInv'
      /\ MediaInv' /\ PlaceInv' /\ TreeInv'
      /\ DOMAIN data'.objects = DOMAIN data.objects
      /\ \A j \in DOMAIN data.objects : data'.objects[j] = IF j = i THEN row ELSE data.objects[j]
      /\ \A rule : Entries(rule)' = IF rule = e.rule THEN Entries(rule) \cup {e} ELSE Entries(rule)
  <2>1. IsFiniteSet({i}) /\ Cardinality({i}) = RowsPerError("DATE001") /\ {i} \in SUBSET pool
    BY OneRow DEF RowsPerError
  <2>2. pool' = pool \ {i}
    BY <1>1 DEF Take
  <2>3. e.rule \in ObjectRules /\ Owner(e.rule) = Owner("DATE001") /\ ~Labelled(e.rule, e.id)
    BY <1>3, <1>8 DEF ObjectRules, Untouched
  <2> QED BY <1>2, <1>3, <1>5, <1>6, <1>8, <2>1, <2>2, <2>3, ObjectTurn
<1>10. DateInv'
  <2>1. /\ Entries("SCHEMA001")' = Entries("SCHEMA001")
        /\ Entries("DATE001")' = Entries("DATE001") \cup {e}
    BY <1>8, <1>9
  <2>2. DateInv /\ ~Labelled("DATE001", i) /\ ~Labelled("SCHEMA001", i)
    BY <1>3 DEF BenchInv, Untouched
  <2>3. /\ \A j : Labelled("DATE001", j)' <=> Labelled("DATE001", j) \/ j = i
        /\ \A j : Labelled("SCHEMA001", j)' <=> Labelled("SCHEMA001", j)
    BY <1>8, <2>1 DEF Labelled
  <2>4. \A f \in Entries("DATE001")' \cup Entries("SCHEMA001")' : f.id \in DOMAIN data'.objects
    BY <1>3, <1>8, <1>9, <2>1, <2>2 DEF DateInv
  <2> QED BY <1>7a, <1>9, <2>2, <2>3, <2>4 DEF DateInv
<1>11. CoreInv' /\ StatusInv'
  <2>1. CoreInv'
    <3>1. \A j \in DOMAIN data.objects :
             /\ data'.objects[j].object_id = data.objects[j].object_id
             /\ data'.objects[j].accession_number = data.objects[j].accession_number
             /\ data'.objects[j].object_name = data.objects[j].object_name
      BY <1>4, <1>7, <1>9
    <3>2. SameLabels({"CORE001", "CORE002"}) /\ DOMAIN data'.objects = DOMAIN data.objects /\ CoreInv
      BY <1>8, <1>9 DEF SameLabels, BenchInv
    <3> QED BY <3>1, <3>2, CoreStays
  <2>2. StatusInv'
    BY <1>7, <1>8, <1>9, StatusStays DEF BenchInv, SameLabels
  <2> QED BY <2>1, <2>2
<1>12. PoolInv'
  <2>1. Owner(Head(loops))' = "inject_object_field_errors"
    BY <1>2, OwnersOf DEF Turn
  <2>2. ASSUME NEW j \in pool'
        PROVE  Usable("inject_object_field_errors", j)'
    <3>1. j \in pool /\ j # i
      BY <1>1 DEF Take
    <3>2. j \in DOMAIN data.objects /\ Untouched({"DATE001", "VOCAB001", "SCHEMA001"}, j)
      BY <1>2, <3>1, PoolIsUsable, OwnersOf DEF Usable
    <3> QED BY <1>8, <1>9, <3>1, <3>2 DEF Usable, Untouched, Labelled
  <2> QED BY <2>1, <2>2 DEF PoolInv
<1> QED BY <1>9, <1>10, <1>11, <1>12 DEF BenchInv

(***************************************************************************)
(* An injector that overwrites one cell of an object with a fixed value.   *)
(***************************************************************************)
Fits(field, value) == \A o \in ObjectRow : [o EXCEPT ![field] = value] \in ObjectRow

\* What that does.
CellSet(loop, field, value, i) ==
    /\ i \in DOMAIN data.objects /\ pool' = pool \ {i} /\ ~Labelled(loop, i)
    /\ Usable(Owner(loop), i)
    /\ BenchTyped' /\ InLoop' /\ Room' /\ Apart' /\ PlanInv' /\ ExtraInv'
    /\ CoreInv' /\ MediaInv' /\ PlaceInv' /\ TreeInv'
    /\ DOMAIN data'.objects = DOMAIN data.objects
    /\ \A j \in DOMAIN data.objects : j # i => data'.objects[j] = data.objects[j]
    /\ field = "publication_status" => data'.objects[i].publication_status = value
    /\ field # "publication_status" =>
          data'.objects[i].publication_status = data.objects[i].publication_status
    /\ field = "rights_id" => data'.objects[i].rights_id = value
    /\ field # "rights_id" => data'.objects[i].rights_id = data.objects[i].rights_id
    /\ field = "production_start_date" => data'.objects[i].production_start_date = value
    /\ field # "production_start_date" =>
          data'.objects[i].production_start_date = data.objects[i].production_start_date
    /\ data'.objects[i].production_end_date = data.objects[i].production_end_date
    /\ \A rule : rule # loop => Entries(rule)' = Entries(rule)
    /\ \E e : e.id = i /\ Entries(loop)' = Entries(loop) \cup {e}

LEMMA SetCellTurn ==
    ASSUME BenchInv, NEW loop \in {"VOCAB001", "SCHEMA001", "REF002", "RIGHTS001"},
           NEW field \in {"publication_status", "production_start_date", "rights_id"},
           NEW value \in Int \cup {None, Junk, "public", "confidential"}, SetCell(loop, field, value),
           Fits(field, value)
    PROVE  \E i \in pool : CellSet(loop, field, value, i)
<1>1. PICK i \in pool :
         Take({i}) /\ Put("objects", i, field, value) /\ LabelObject(loop, i, field, value)
  BY DEF SetCell
<1>2. Turn(loop)
  BY DEF SetCell
<1>3. i \in DOMAIN data.objects /\ ~Labelled(loop, i) /\ Usable(Owner(loop), i)
  BY <1>2, PoolIsUsable, OwnersOf DEF Usable, Untouched
<1>4. data.objects \in Seq(ObjectRow) /\ data.objects[i] \in ObjectRow /\ data.objects[i].object_id = i
  BY <1>3 DEF BenchInv, BenchTyped, Data, CoreInv
<1> DEFINE row == [data.objects[i] EXCEPT ![field] = value]
           e == [rule |-> loop, type |-> "object", id |-> i, field |-> field, after |-> value]
<1>5. row \in ObjectRow /\ data' = [data EXCEPT !.objects[i] = row]
  <2>1. row \in ObjectRow
    BY <1>4 DEF Fits
  <2> QED BY <1>1, <2>1 DEF Put
<1>6. manifest' = Append(manifest, e) /\ e \in LabelRow
  BY <1>1, <1>3, <1>4 DEF LabelObject, Label, LabelRow, ScoredRule
<1>7. /\ row.object_id = i
      /\ row.accession_number = data.objects[i].accession_number
      /\ row.object_name = data.objects[i].object_name
      /\ row.production_end_date = data.objects[i].production_end_date
      /\ field # "publication_status" => row.publication_status = data.objects[i].publication_status
      /\ field # "rights_id" => row.rights_id = data.objects[i].rights_id
      /\ field # "production_start_date" => row.production_start_date = data.objects[i].production_start_date
  BY <1>4 DEF ObjectRow
<1>8. /\ field = "publication_status" => row.publication_status = value
      /\ field = "rights_id" => row.rights_id = value
      /\ field = "production_start_date" => row.production_start_date = value
  BY <1>4 DEF ObjectRow
<1>9. e.rule = loop /\ e.id = i
  OBVIOUS
<1> HIDE DEF row, e
<1>10. /\ BenchTyped' /\ InLoop' /\ Room' /\ Apart' /\ PlanInv' /\ ExtraInv'
       /\ MediaInv' /\ PlaceInv' /\ TreeInv'
       /\ DOMAIN data'.objects = DOMAIN data.objects
       /\ \A j \in DOMAIN data.objects : data'.objects[j] = IF j = i THEN row ELSE data.objects[j]
       /\ \A rule : Entries(rule)' = IF rule = e.rule THEN Entries(rule) \cup {e} ELSE Entries(rule)
  <2>1. IsFiniteSet({i}) /\ Cardinality({i}) = RowsPerError(loop) /\ {i} \in SUBSET pool
    BY OneRow DEF RowsPerError
  <2>2. pool' = pool \ {i}
    BY <1>1 DEF Take
  <2>3. e.rule \in ObjectRules /\ Owner(e.rule) = Owner(loop) /\ ~Labelled(e.rule, e.id)
    BY <1>3, <1>9 DEF ObjectRules
  <2> QED BY <1>2, <1>3, <1>5, <1>6, <1>9, <2>1, <2>2, <2>3, ObjectTurn
<1>11. CoreInv'
  <2>1. \A j \in DOMAIN data.objects :
           /\ data'.objects[j].object_id = data.objects[j].object_id
           /\ data'.objects[j].accession_number = data.objects[j].accession_number
           /\ data'.objects[j].object_name = data.objects[j].object_name
    BY <1>4, <1>7, <1>10
  <2>2. SameLabels({"CORE001", "CORE002"}) /\ DOMAIN data'.objects = DOMAIN data.objects /\ CoreInv
    BY <1>9, <1>10 DEF SameLabels, BenchInv
  <2> QED BY <2>1, <2>2, CoreStays
<1>12. pool' = pool \ {i}
  BY <1>1 DEF Take
<1> QED BY <1>3, <1>7, <1>8, <1>9, <1>10, <1>11, <1>12 DEF CellSet

\* The pools of the injectors that overwrite cells.
LEMMA CellPool ==
    ASSUME BenchInv, NEW loop \in {"VOCAB001", "SCHEMA001"}, Turn(loop), NEW i \in pool,
           pool' = pool \ {i}, DOMAIN data'.objects = DOMAIN data.objects,
           \A rule : rule # loop => Entries(rule)' = Entries(rule),
           NEW e, e.id = i, Entries(loop)' = Entries(loop) \cup {e}
    PROVE  PoolInv'
<1>1. Owner(Head(loops))' = "inject_object_field_errors"
  BY OwnersOf DEF Turn
<1>2. ASSUME NEW j \in pool'
      PROVE  Usable("inject_object_field_errors", j)'
  <2>1. j \in DOMAIN data.objects /\ j # i /\ Untouched({"DATE001", "VOCAB001", "SCHEMA001"}, j)
    BY PoolIsUsable, OwnersOf DEF Usable
  <2> QED BY <2>1 DEF Usable, Untouched, Labelled
<1> QED BY <1>1, <1>2 DEF PoolInv

LEMMA VocabularyKeeps == BenchInv /\ BadVocabulary => BenchInv'
<1> SUFFICES ASSUME BenchInv, BadVocabulary PROVE BenchInv'
  OBVIOUS
<1>1. SetCell("VOCAB001", "publication_status", "confidential") /\ Turn("VOCAB001")
  BY DEF BadVocabulary, SetCell
<1>2. Fits("publication_status", "confidential") /\ "confidential" \in Int \cup {None, Junk, "public", "confidential"}
  BY DEF Fits, ObjectRow
<1>2a. PICK i \in pool : CellSet("VOCAB001", "publication_status", "confidential", i)
  BY <1>1, <1>2, SetCellTurn
<1>3. /\ i \in DOMAIN data.objects /\ pool' = pool \ {i} /\ ~Labelled("VOCAB001", i)
      /\ Usable(Owner("VOCAB001"), i)
      /\ BenchTyped' /\ InLoop' /\ Room' /\ Apart' /\ PlanInv' /\ ExtraInv'
      /\ CoreInv' /\ MediaInv' /\ PlaceInv' /\ TreeInv'
      /\ DOMAIN data'.objects = DOMAIN data.objects
      /\ \A j \in DOMAIN data.objects : j # i => data'.objects[j] = data.objects[j]
      /\ data'.objects[i].publication_status = "confidential"
      /\ data'.objects[i].rights_id = data.objects[i].rights_id
      /\ data'.objects[i].production_start_date = data.objects[i].production_start_date
      /\ data'.objects[i].production_end_date = data.objects[i].production_end_date
      /\ \A rule : rule # "VOCAB001" => Entries(rule)' = Entries(rule)
      /\ \E e : e.id = i /\ Entries("VOCAB001")' = Entries("VOCAB001") \cup {e}
  BY <1>2a DEF CellSet
<1>4. PICK e : e.id = i /\ Entries("VOCAB001")' = Entries("VOCAB001") \cup {e}
  BY <1>3
<1>5. /\ \A j : Labelled("VOCAB001", j)' <=> Labelled("VOCAB001", j) \/ j = i
      /\ \A rule, j : rule # "VOCAB001" => (Labelled(rule, j)' <=> Labelled(rule, j))
  BY <1>3, <1>4 DEF Labelled
<1>6. StatusInv'
  <2>1. StatusInv
    BY DEF BenchInv
  <2>2. ASSUME NEW j \in DOMAIN data.objects
        PROVE  LET row == data'.objects[j]
               IN  /\ row.publication_status = "confidential" <=> Labelled("VOCAB001", j)'
                   /\ row.rights_id \notin {None, 1, 2} <=> Labelled("REF002", j)'
                   /\ (row.publication_status = "public" /\ row.rights_id = 2) <=> Labelled("RIGHTS001", j)'
    <3>1. CASE j = i
      <4>1. Entries("RIGHTS001") = {}
        BY <1>1, OwnersOf DEF BenchInv, PlanInv, Turn, Running
      <4> QED BY <1>3, <1>5, <2>1, <3>1, <4>1 DEF StatusInv, Labelled
    <3>2. CASE j # i
      BY <1>3, <1>5, <2>1, <3>2 DEF StatusInv
    <3> QED BY <3>1, <3>2
  <2>3. \A f \in Entries("VOCAB001")' \cup Entries("REF002")' \cup Entries("RIGHTS001")' :
           f.id \in DOMAIN data'.objects
    BY <1>3, <1>4, <2>1 DEF StatusInv
  <2> QED BY <1>3, <2>2, <2>3 DEF StatusInv
<1>7. PoolInv'
  BY <1>1, <1>3, <1>4, CellPool
<1>8. DateInv'
  <2>1. \A j \in DOMAIN data.objects :
           /\ data'.objects[j].production_start_date = data.objects[j].production_start_date
           /\ data'.objects[j].production_end_date = data.objects[j].production_end_date
    BY <1>3
  <2>2. SameLabels({"DATE001", "SCHEMA001"}) /\ DOMAIN data'.objects = DOMAIN data.objects /\ DateInv
    BY <1>3 DEF SameLabels, BenchInv
  <2> QED BY <2>1, <2>2, DateStays
<1> QED BY <1>3, <1>6, <1>7, <1>8 DEF BenchInv

LEMMA TypeKeeps == BenchInv /\ BadType => BenchInv'
<1> SUFFICES ASSUME BenchInv, BadType PROVE BenchInv'
  OBVIOUS
<1>1. SetCell("SCHEMA001", "production_start_date", Junk) /\ Turn("SCHEMA001")
  BY DEF BadType, SetCell
<1>2. Fits("production_start_date", Junk) /\ Junk \in Int \cup {None, Junk, "public", "confidential"}
  BY DEF Fits, ObjectRow
<1>2a. PICK i \in pool : CellSet("SCHEMA001", "production_start_date", Junk, i)
  BY <1>1, <1>2, SetCellTurn
<1>3. /\ i \in DOMAIN data.objects /\ pool' = pool \ {i} /\ ~Labelled("SCHEMA001", i)
      /\ Usable(Owner("SCHEMA001"), i)
      /\ BenchTyped' /\ InLoop' /\ Room' /\ Apart' /\ PlanInv' /\ ExtraInv'
      /\ CoreInv' /\ MediaInv' /\ PlaceInv' /\ TreeInv'
      /\ DOMAIN data'.objects = DOMAIN data.objects
      /\ \A j \in DOMAIN data.objects : j # i => data'.objects[j] = data.objects[j]
      /\ data'.objects[i].production_start_date = Junk
      /\ data'.objects[i].publication_status = data.objects[i].publication_status
      /\ data'.objects[i].rights_id = data.objects[i].rights_id
      /\ data'.objects[i].production_end_date = data.objects[i].production_end_date
      /\ \A rule : rule # "SCHEMA001" => Entries(rule)' = Entries(rule)
      /\ \E e : e.id = i /\ Entries("SCHEMA001")' = Entries("SCHEMA001") \cup {e}
  BY <1>2a DEF CellSet
<1>4. PICK e : e.id = i /\ Entries("SCHEMA001")' = Entries("SCHEMA001") \cup {e}
  BY <1>3
<1>5. /\ \A j : Labelled("SCHEMA001", j)' <=> Labelled("SCHEMA001", j) \/ j = i
      /\ \A rule, j : rule # "SCHEMA001" => (Labelled(rule, j)' <=> Labelled(rule, j))
  BY <1>3, <1>4 DEF Labelled
<1>6. StatusInv'
  <2>1. \A j \in DOMAIN data.objects :
           /\ data'.objects[j].publication_status = data.objects[j].publication_status
           /\ data'.objects[j].rights_id = data.objects[j].rights_id
    BY <1>3
  <2>2. /\ SameLabels({"VOCAB001", "REF002", "RIGHTS001"}) /\ DOMAIN data'.objects = DOMAIN data.objects
        /\ StatusInv
    BY <1>3 DEF SameLabels, BenchInv
  <2> QED BY <2>1, <2>2, StatusStays
<1>7. PoolInv'
  BY <1>1, <1>3, <1>4, CellPool
<1>8. DateInv'
  <2>1. DateInv /\ ~Labelled("DATE001", i)
    BY <1>3, OwnersOf DEF BenchInv, Usable, Untouched
  <2>2. \A f \in Entries("DATE001")' \cup Entries("SCHEMA001")' : f.id \in DOMAIN data'.objects
    BY <1>3, <1>4, <2>1 DEF DateInv
  <2> QED BY <1>3, <1>5, <2>1, <2>2 DEF DateInv
<1> QED BY <1>3, <1>6, <1>7, <1>8 DEF BenchInv

LEMMA OrphanRightsKeeps == BenchInv /\ OrphanRights => BenchInv'
<1> SUFFICES ASSUME BenchInv, OrphanRights PROVE BenchInv'
  OBVIOUS
<1>1. SetCell("REF002", "rights_id", -(n + 1)) /\ Turn("REF002")
  BY DEF OrphanRights, SetCell
<1>2. Fits("rights_id", -(n + 1)) /\ -(n + 1) \in Int \cup {None, Junk, "public", "confidential"}
  <2>1. n \in Nat /\ -(n + 1) \in Int
    BY DEF BenchInv, BenchTyped
  <2>2. \A v \in Int : Fits("rights_id", v)
    BY DEF Fits, ObjectRow
  <2> QED BY <2>1, <2>2
<1>2a. PICK i \in pool : CellSet("REF002", "rights_id", -(n + 1), i)
  BY <1>1, <1>2, SetCellTurn
<1>3. /\ i \in DOMAIN data.objects /\ pool' = pool \ {i} /\ ~Labelled("REF002", i)
      /\ Usable(Owner("REF002"), i)
      /\ BenchTyped' /\ InLoop' /\ Room' /\ Apart' /\ PlanInv' /\ ExtraInv'
      /\ CoreInv' /\ MediaInv' /\ PlaceInv' /\ TreeInv'
      /\ DOMAIN data'.objects = DOMAIN data.objects
      /\ \A j \in DOMAIN data.objects : j # i => data'.objects[j] = data.objects[j]
      /\ data'.objects[i].rights_id = -(n + 1)
      /\ data'.objects[i].publication_status = data.objects[i].publication_status
      /\ data'.objects[i].production_start_date = data.objects[i].production_start_date
      /\ data'.objects[i].production_end_date = data.objects[i].production_end_date
      /\ \A rule : rule # "REF002" => Entries(rule)' = Entries(rule)
      /\ \E e : e.id = i /\ Entries("REF002")' = Entries("REF002") \cup {e}
  BY <1>2a DEF CellSet
<1>4. PICK e : e.id = i /\ Entries("REF002")' = Entries("REF002") \cup {e}
  BY <1>3
<1>5. /\ \A j : Labelled("REF002", j)' <=> Labelled("REF002", j) \/ j = i
      /\ \A rule, j : rule # "REF002" => (Labelled(rule, j)' <=> Labelled(rule, j))
  BY <1>3, <1>4 DEF Labelled
<1>6. StatusInv'
  <2>1. StatusInv
    BY DEF BenchInv
  <2>2. ASSUME NEW j \in DOMAIN data.objects
        PROVE  LET row == data'.objects[j]
               IN  /\ row.publication_status = "confidential" <=> Labelled("VOCAB001", j)'
                   /\ row.rights_id \notin {None, 1, 2} <=> Labelled("REF002", j)'
                   /\ (row.publication_status = "public" /\ row.rights_id = 2) <=> Labelled("RIGHTS001", j)'
    <3>1. CASE j = i
      <4>1. Entries("RIGHTS001") = {}
        BY <1>1, OwnersOf DEF BenchInv, PlanInv, Turn, Running
      <4>2. -(n + 1) \notin {None, 1, 2} /\ -(n + 1) # 2
        BY SuitesAssumption DEF BenchInv, BenchTyped
      <4> QED BY <1>3, <1>5, <2>1, <3>1, <4>1, <4>2 DEF StatusInv, Labelled
    <3>2. CASE j # i
      BY <1>3, <1>5, <2>1, <3>2 DEF StatusInv
    <3> QED BY <3>1, <3>2
  <2>3. \A f \in Entries("VOCAB001")' \cup Entries("REF002")' \cup Entries("RIGHTS001")' :
           f.id \in DOMAIN data'.objects
    BY <1>3, <1>4, <2>1 DEF StatusInv
  <2> QED BY <1>3, <2>2, <2>3 DEF StatusInv
<1>7. PoolInv'
  <2>1. Owner(Head(loops))' = "inject_orphan_rights"
    BY <1>1, OwnersOf DEF Turn
  <2>2. ASSUME NEW j \in pool'
        PROVE  Usable("inject_orphan_rights", j)'
    <3>1. j \in pool /\ j # i
      BY <1>3
    <3>2. Usable("inject_orphan_rights", j)
      BY <1>1, <3>1, PoolIsUsable, OwnersOf
    <3> QED BY <1>3, <1>5, <3>1, <3>2 DEF Usable, Untouched
  <2> QED BY <2>1, <2>2 DEF PoolInv
<1>8. DateInv'
  <2>1. \A j \in DOMAIN data.objects :
           /\ data'.objects[j].production_start_date = data.objects[j].production_start_date
           /\ data'.objects[j].production_end_date = data.objects[j].production_end_date
    BY <1>3
  <2>2. SameLabels({"DATE001", "SCHEMA001"}) /\ DOMAIN data'.objects = DOMAIN data.objects /\ DateInv
    BY <1>3 DEF SameLabels, BenchInv
  <2> QED BY <2>1, <2>2, DateStays
<1> QED BY <1>3, <1>6, <1>7, <1>8 DEF BenchInv

LEMMA PublishKeeps == BenchInv /\ PublishAnyway => BenchInv'
<1> SUFFICES ASSUME BenchInv, PublishAnyway PROVE BenchInv'
  OBVIOUS
<1>1. SetCell("RIGHTS001", "publication_status", "public") /\ Turn("RIGHTS001")
  BY DEF PublishAnyway, SetCell
<1>2. Fits("publication_status", "public") /\ "public" \in Int \cup {None, Junk, "public", "confidential"}
  BY DEF Fits, ObjectRow
<1>2a. PICK i \in pool : CellSet("RIGHTS001", "publication_status", "public", i)
  BY <1>1, <1>2, SetCellTurn
<1>3. /\ i \in DOMAIN data.objects /\ pool' = pool \ {i} /\ ~Labelled("RIGHTS001", i)
      /\ Usable(Owner("RIGHTS001"), i)
      /\ BenchTyped' /\ InLoop' /\ Room' /\ Apart' /\ PlanInv' /\ ExtraInv'
      /\ CoreInv' /\ MediaInv' /\ PlaceInv' /\ TreeInv'
      /\ DOMAIN data'.objects = DOMAIN data.objects
      /\ \A j \in DOMAIN data.objects : j # i => data'.objects[j] = data.objects[j]
      /\ data'.objects[i].publication_status = "public"
      /\ data'.objects[i].rights_id = data.objects[i].rights_id
      /\ data'.objects[i].production_start_date = data.objects[i].production_start_date
      /\ data'.objects[i].production_end_date = data.objects[i].production_end_date
      /\ \A rule : rule # "RIGHTS001" => Entries(rule)' = Entries(rule)
      /\ \E e : e.id = i /\ Entries("RIGHTS001")' = Entries("RIGHTS001") \cup {e}
  BY <1>2a DEF CellSet
<1>4. PICK e : e.id = i /\ Entries("RIGHTS001")' = Entries("RIGHTS001") \cup {e}
  BY <1>3
<1>5. /\ \A j : Labelled("RIGHTS001", j)' <=> Labelled("RIGHTS001", j) \/ j = i
      /\ \A rule, j : rule # "RIGHTS001" => (Labelled(rule, j)' <=> Labelled(rule, j))
  BY <1>3, <1>4 DEF Labelled
<1>6. StatusInv'
  <2>1. StatusInv
    BY DEF BenchInv
  <2>2. ASSUME NEW j \in DOMAIN data.objects
        PROVE  LET row == data'.objects[j]
               IN  /\ row.publication_status = "confidential" <=> Labelled("VOCAB001", j)'
                   /\ row.rights_id \notin {None, 1, 2} <=> Labelled("REF002", j)'
                   /\ (row.publication_status = "public" /\ row.rights_id = 2) <=> Labelled("RIGHTS001", j)'
    <3>1. CASE j = i
      <4>1. Entries("VOCAB001") = {}
        BY <1>1, OwnersOf DEF BenchInv, PlanInv, Turn, Running
      <4>2. data.objects[i].rights_id = 2
        BY <1>3, OwnersOf DEF Usable
      <4> QED BY <1>3, <1>5, <2>1, <3>1, <4>1, <4>2 DEF StatusInv, Labelled
    <3>2. CASE j # i
      BY <1>3, <1>5, <2>1, <3>2 DEF StatusInv
    <3> QED BY <3>1, <3>2
  <2>3. \A f \in Entries("VOCAB001")' \cup Entries("REF002")' \cup Entries("RIGHTS001")' :
           f.id \in DOMAIN data'.objects
    BY <1>3, <1>4, <2>1 DEF StatusInv
  <2> QED BY <1>3, <2>2, <2>3 DEF StatusInv
<1>7. PoolInv'
  <2>1. Owner(Head(loops))' = "inject_publication_conflict"
    BY <1>1, OwnersOf DEF Turn
  <2>2. ASSUME NEW j \in pool'
        PROVE  Usable("inject_publication_conflict", j)'
    <3>1. j \in pool /\ j # i
      BY <1>3
    <3>2. Usable("inject_publication_conflict", j)
      BY <1>1, <3>1, PoolIsUsable, OwnersOf
    <3> QED BY <1>3, <1>5, <3>1, <3>2 DEF Usable, Untouched
  <2> QED BY <2>1, <2>2 DEF PoolInv
<1>8. DateInv'
  <2>1. \A j \in DOMAIN data.objects :
           /\ data'.objects[j].production_start_date = data.objects[j].production_start_date
           /\ data'.objects[j].production_end_date = data.objects[j].production_end_date
    BY <1>3
  <2>2. SameLabels({"DATE001", "SCHEMA001"}) /\ DOMAIN data'.objects = DOMAIN data.objects /\ DateInv
    BY <1>3 DEF SameLabels, BenchInv
  <2> QED BY <2>1, <2>2, DateStays
<1> QED BY <1>3, <1>6, <1>7, <1>8 DEF BenchInv

LEMMA ObjectsStay ==
    ASSUME CoreInv, DateInv, StatusInv, data'.objects = data.objects, SameLabels(ObjectRules)
    PROVE  CoreInv' /\ DateInv' /\ StatusInv'
<1>1. /\ SameLabels({"CORE001", "CORE002"}) /\ SameLabels({"DATE001", "SCHEMA001"})
      /\ SameLabels({"VOCAB001", "REF002", "RIGHTS001"})
  BY DEF SameLabels, ObjectRules
<1>2. CoreInv'
  BY <1>1, CoreStays
<1>3. DateInv'
  BY <1>1, DateStays
<1>4. StatusInv'
  BY <1>1, StatusStays
<1> QED BY <1>2, <1>3, <1>4

LEMMA OrphanMediaKeeps == BenchInv /\ OrphanMedia => BenchInv'
<1> SUFFICES ASSUME BenchInv, OrphanMedia PROVE BenchInv'
  OBVIOUS
<1>1. PICK i \in pool :
         /\ Take({i}) /\ Put("media", i, "object_id", -(n + 1))
         /\ Label("REF001", "media", data.media[i].media_id, "object_id", -(n + 1))
  BY DEF OrphanMedia
<1>2. Turn("REF001") /\ BenchTyped /\ data \in Data /\ manifest \in Seq(LabelRow)
  BY DEF OrphanMedia, BenchInv, BenchTyped
<1>3. i \in DOMAIN data.media /\ ~Labelled("REF001", i)
  BY <1>2, PoolIsUsable, OwnersOf DEF Usable, Untouched
<1> DEFINE gone == -(n + 1)
           row == [data.media[i] EXCEPT !.object_id = gone]
           e == [rule |-> "REF001", type |-> "media", id |-> i, field |-> "object_id", after |-> gone]
<1>4. /\ data.media \in Seq(MediaRow) /\ data.media[i] \in MediaRow /\ data.media[i].media_id = i
      /\ gone \in Int /\ gone < 0
  BY <1>2, <1>3 DEF BenchInv, BenchTyped, Data, MediaInv
<1>5. gone \notin DOMAIN data.objects
  BY <1>2, <1>4 DEF Data
<1>6. manifest' = Append(manifest, e) /\ e \in LabelRow
  BY <1>1, <1>3, <1>4 DEF Label, LabelRow, ScoredRule
<1>7. e.rule = "REF001" /\ e.id = i
  OBVIOUS
<1> HIDE DEF gone
<1>8. row \in MediaRow /\ row.media_id = i /\ row.object_id = gone
  BY <1>4 DEF MediaRow
<1> HIDE DEF e
<1>9. data' = [data EXCEPT !.media = [data.media EXCEPT ![i] = row]]
  BY <1>1 DEF Put, gone
<1> HIDE DEF row
<1>10. /\ data'.media = [data.media EXCEPT ![i] = row]
       /\ data'.objects = data.objects /\ data'.locations = data.locations
  BY <1>2, <1>9 DEF Data
<1>11. /\ [data.media EXCEPT ![i] = row] \in Seq(MediaRow)
       /\ DOMAIN data'.media = DOMAIN data.media
       /\ \A j \in DOMAIN data.media : data'.media[j] = IF j = i THEN row ELSE data.media[j]
  BY <1>3, <1>4, <1>8, <1>10
<1>12. data' \in Data
  BY <1>2, <1>9, <1>11 DEF Data
<1>13. /\ manifest' \in Seq(LabelRow)
       /\ ToSet(manifest') = ToSet(manifest) \cup {e}
       /\ \A rule : Entries(rule)' = IF rule = e.rule THEN Entries(rule) \cup {e} ELSE Entries(rule)
  BY <1>2, <1>6, OneLabel
<1>14. InLoop' /\ Room' /\ n' = n + 1 /\ IsFiniteSet(pool')
  <2>1. IsFiniteSet({i}) /\ Cardinality({i}) = RowsPerError("REF001") /\ {i} \in SUBSET pool
    BY OneRow DEF RowsPerError
  <2>2. pool' = pool \ {i} /\ InLoop /\ Room
    BY <1>1 DEF Take, BenchInv
  <2> QED BY <1>2, <2>1, <2>2, TurnKeepsRoom
<1>15. BenchTyped'
  BY <1>2, <1>12, <1>13, <1>14, TurnTyped
<1>16. Apart'
  BY <1>2, <1>3, <1>6, <1>7, StaysApart DEF BenchInv
<1>17. PlanInv'
  <2> DEFINE fresh == {e}
             rule == "REF001"
  <2>1. (\A f \in fresh : f.rule = rule) /\ ToSet(manifest') = ToSet(manifest) \cup fresh
    BY <1>7, <1>13
  <2>2. PlanInv /\ Turn(rule)
    BY <1>2 DEF BenchInv
  <2> HIDE DEF fresh, rule
  <2> QED BY <2>1, <2>2, TurnKeepsPlan
<1>18. ExtraInv'
  BY <1>2, <1>10, TurnKeepsExtras DEF BenchInv
<1>19. CoreInv' /\ DateInv' /\ StatusInv'
  BY <1>7, <1>10, <1>13, ObjectsStay DEF BenchInv, SameLabels, ObjectRules
<1>20. PlaceInv' /\ TreeInv'
  BY <1>7, <1>10, <1>13, PlaceStays, TreeStays DEF BenchInv, SameLocations, SameLabels
<1>21. \A j : Labelled("REF001", j)' <=> Labelled("REF001", j) \/ j = i
  BY <1>7, <1>13 DEF Labelled
<1>22. MediaInv'
  <2>1. MediaInv
    BY DEF BenchInv
  <2>2. \A f \in Entries("REF001")' : f.id \in DOMAIN data'.media
    BY <1>3, <1>7, <1>11, <1>13, <2>1 DEF MediaInv
  <2>3. \A j \in DOMAIN data.media :
           /\ data'.media[j].media_id = j
           /\ data'.media[j].object_id \notin DOMAIN data.objects <=> Labelled("REF001", j)'
    BY <1>5, <1>8, <1>11, <1>21, <2>1 DEF MediaInv
  <2> QED BY <1>10, <1>11, <2>2, <2>3 DEF MediaInv
<1>23. PoolInv'
  <2>1. Owner(Head(loops))' = "inject_orphan_media"
    BY <1>2, OwnersOf DEF Turn
  <2>2. ASSUME NEW j \in pool'
        PROVE  Usable("inject_orphan_media", j)'
    <3>1. j \in pool /\ j # i
      BY <1>1 DEF Take
    <3>2. Usable("inject_orphan_media", j)
      BY <1>2, <3>1, PoolIsUsable, OwnersOf
    <3> QED BY <1>11, <1>21, <3>1, <3>2 DEF Usable, Untouched
  <2> QED BY <2>1, <2>2 DEF PoolInv
<1> QED BY <1>14, <1>15, <1>16, <1>17, <1>18, <1>19, <1>20, <1>22, <1>23 DEF BenchInv

(***************************************************************************)
(* The injectors that work on locations leave the other tables alone.      *)
(***************************************************************************)
LEMMA LocationTurn ==
    ASSUME BenchInv, NEW loop, Turn(loop), NEW rows \in SUBSET pool,
           IsFiniteSet(rows), Cardinality(rows) = RowsPerError(loop), pool' = pool \ rows,
           NEW table \in Seq(LocationRow), data' = [data EXCEPT !.locations = table],
           NEW rule \in {"LOC001", "LOC002"}, Owner(rule) = Owner(loop),
           NEW new, \A e \in new : e.rule = rule,
           manifest' \in Seq(LabelRow), ToSet(manifest') = ToSet(manifest) \cup new
    PROVE  /\ BenchTyped' /\ InLoop' /\ Room' /\ PlanInv'
           /\ CoreInv' /\ DateInv' /\ StatusInv' /\ MediaInv'
           /\ data'.locations = table
           /\ \A r : Entries(r)' = IF r = rule THEN Entries(r) \cup new ELSE Entries(r)
<1>1. BenchTyped /\ InLoop /\ Room /\ data \in Data /\ manifest \in Seq(LabelRow)
  BY DEF BenchInv, BenchTyped
<1>2. InLoop' /\ Room' /\ n' = n + 1 /\ IsFiniteSet(pool')
  BY <1>1, TurnKeepsRoom
<1>3. \A r : Entries(r)' = IF r = rule THEN Entries(r) \cup new ELSE Entries(r)
  BY DEF Entries
<1>4. /\ data'.locations = table /\ data'.objects = data.objects /\ data'.media = data.media
      /\ data' \in Data
  BY <1>1 DEF Data
<1>5. BenchTyped'
  BY <1>1, <1>2, <1>4, TurnTyped
<1>6. PlanInv'
  BY TurnKeepsPlan DEF BenchInv
<1>7. CoreInv' /\ DateInv' /\ StatusInv'
  BY <1>3, <1>4, ObjectsStay DEF BenchInv, SameLabels, ObjectRules
<1>8. MediaInv'
  BY <1>3, <1>4, MediaStays DEF BenchInv, SameLabels, SameMedia
<1> QED BY <1>2, <1>3, <1>4, <1>5, <1>6, <1>7, <1>8

LEMMA ExtraLocationKeeps == BenchInv /\ ExtraLocation => BenchInv'
<1> SUFFICES ASSUME BenchInv, ExtraLocation PROVE BenchInv'
  OBVIOUS
<1>1. PICK o \in pool :
         /\ Take({o})
         /\ data' = [data EXCEPT !.locations = Append(@, Assignment(ExtraId(n), o))]
         /\ Label("LOC001", "object", o, "is_current", None)
  BY DEF ExtraLocation
<1>2. /\ Turn("LOC001") /\ data \in Data /\ manifest \in Seq(LabelRow)
      /\ data.locations \in Seq(LocationRow) /\ n \in Nat
  BY DEF ExtraLocation, BenchInv, BenchTyped, Data
<1>3. o \in Nat /\ ~Labelled("LOC001", o) /\ CurrentAt(o) # {}
  BY <1>2, PoolIsUsable, OwnersOf DEF Usable, Untouched
<1> DEFINE L == data.locations
           row == Assignment(ExtraId(n), o)
           e == [rule |-> "LOC001", type |-> "object", id |-> o, field |-> "is_current", after |-> None]
           table == Append(L, row)
<1>4. /\ row \in LocationRow /\ row.location_id = ExtraId(n) /\ row.object_id = o
      /\ row.is_current = TRUE /\ row.parent_location_id = None
  BY <1>2, <1>3 DEF Assignment, LocationRow, ExtraId
<1>5. manifest' = Append(manifest, e) /\ e \in LabelRow /\ e.rule = "LOC001" /\ e.id = o
  BY <1>1, <1>3 DEF Label, LabelRow, ScoredRule
<1> HIDE DEF row, e
<1>6. /\ table \in Seq(LocationRow) /\ Len(L) \in Nat /\ Len(L) + 1 \notin DOMAIN L
      /\ DOMAIN L = 1 .. Len(L) /\ DOMAIN table = DOMAIN L \cup {Len(L) + 1}
      /\ \A k \in DOMAIN L : table[k] = L[k]
      /\ table[Len(L) + 1] = row
  BY <1>2, <1>4
<1>7. data' = [data EXCEPT !.locations = table]
  BY <1>1 DEF row
<1> HIDE DEF table
<1>8. /\ manifest' \in Seq(LabelRow)
      /\ ToSet(manifest') = ToSet(manifest) \cup {e}
  BY <1>2, <1>5, OneLabel
<1>9. /\ BenchTyped' /\ InLoop' /\ Room' /\ PlanInv'
      /\ CoreInv' /\ DateInv' /\ StatusInv' /\ MediaInv'
      /\ data'.locations = table
      /\ \A r : Entries(r)' = IF r = "LOC001" THEN Entries(r) \cup {e} ELSE Entries(r)
  <2> DEFINE fresh == {e}
             rows == {o}
             loop == "LOC001"
  <2>1. IsFiniteSet(rows) /\ Cardinality(rows) = RowsPerError(loop) /\ rows \in SUBSET pool
    BY OneRow DEF RowsPerError
  <2>2. pool' = pool \ rows /\ \A f \in fresh : f.rule = loop
    BY <1>1, <1>5 DEF Take
  <2>3. ToSet(manifest') = ToSet(manifest) \cup fresh
    BY <1>8
  <2>4. Turn(loop) /\ loop \in {"LOC001", "LOC002"}
    BY <1>2
  <2> HIDE DEF fresh, rows, loop
  <2>5. /\ BenchTyped' /\ InLoop' /\ Room' /\ PlanInv'
        /\ CoreInv' /\ DateInv' /\ StatusInv' /\ MediaInv'
        /\ data'.locations = table
        /\ \A r : Entries(r)' = IF r = loop THEN Entries(r) \cup fresh ELSE Entries(r)
    BY <1>6, <1>7, <1>8, <2>1, <2>2, <2>3, <2>4, LocationTurn
  <2> QED BY <2>5 DEF fresh, loop
<1>10. Apart'
  BY <1>2, <1>3, <1>5, StaysApart DEF BenchInv
<1>11. PlaceInv /\ TreeInv /\ ExtraInv
  BY DEF BenchInv
<1>12. n <= MaxErrors /\ loops # <<>> /\ Running("inject_extra_current_location")
  <2>1. loops # <<>> /\ Head(loops) = "LOC001" /\ n < count["LOC001"]
    BY <1>2 DEF Turn
  <2>2. "LOC001" \in DOMAIN count
    BY <1>2, <2>1 DEF BenchInv, InLoop, ToSet, BenchTyped
  <2>3. count["LOC001"] \in 0 .. MaxErrors
    BY <2>2 DEF BenchInv, BenchTyped
  <2>4. MaxErrors \in Nat
    BY SuitesAssumption
  <2>5. n <= MaxErrors
    BY <1>2, <2>1, <2>3, <2>4
  <2> QED BY <2>1, <2>5, OwnersOf DEF Running
<1>13. \A k \in DOMAIN L : L[k].location_id # ExtraId(n)
  <2> TAKE k \in DOMAIN L
  <2>1. CASE L[k].location_id < 0
    <3>1. PICK m \in 0 .. n - 1 : L[k].location_id = ExtraId(m)
      BY <1>11, <1>12, <2>1 DEF ExtraInv
    <3> QED BY <1>2, <3>1 DEF ExtraId
  <2>2. CASE ~(L[k].location_id < 0)
    BY <1>2, <2>2 DEF ExtraId
  <2> QED BY <2>1, <2>2
<1>14. ExtraInv'
  <2>1. /\ calls' = calls /\ loops' = loops /\ n' = n + 1
    BY <1>2 DEF Turn
  <2>2. \A injector : (Running(injector)' <=> Running(injector)) /\ (ToCome(injector)' <=> ToCome(injector))
    BY <2>1 DEF Running, ToCome
  <2>3. ~ToCome("inject_extra_current_location")
    BY <1>12 DEF BenchInv, PlanInv, Loops
  <2>4. ASSUME NEW k \in DOMAIN table, table[k].location_id < 0
        PROVE  \E m \in 0 .. n' - 1 : table[k].location_id = ExtraId(m)
    <3>1. CASE k \in DOMAIN L
      <4>1. PICK m \in 0 .. n - 1 : L[k].location_id = ExtraId(m)
        BY <1>6, <1>11, <1>12, <2>4, <3>1 DEF ExtraInv
      <4>2. table[k] = L[k]
        BY <1>6, <3>1
      <4>3. n \in Nat /\ m \in 0 .. n' - 1
        BY <1>2, <2>1, <4>1
      <4> HIDE DEF table, L
      <4> QED BY <4>1, <4>2, <4>3
    <3>2. CASE k = Len(L) + 1
      <4>1. n \in 0 .. n' - 1
        BY <1>2, <2>1
      <4> QED BY <1>4, <1>6, <3>2, <4>1
    <3> QED BY <1>6, <3>1, <3>2
  <2> QED BY <1>9, <2>2, <2>3, <2>4 DEF ExtraInv
<1>15. /\ \A j : Labelled("LOC001", j)' <=> Labelled("LOC001", j) \/ j = o
       /\ \A j : Labelled("LOC002", j)' <=> Labelled("LOC002", j)
  BY <1>5, <1>9 DEF Labelled
<1>16. CurrentAt(o)' = CurrentAt(o) \cup {Len(L) + 1} /\ \A x : x # o => CurrentAt(x)' = CurrentAt(x)
  BY <1>4, <1>6, <1>9 DEF CurrentAt
<1>17. PlaceInv'
  <2>1. ASSUME NEW k \in DOMAIN table
        PROVE  /\ table[k].is_current = TRUE <=> table[k].object_id # None
               /\ table[k].location_id = k \/ \E m \in 0 .. MaxErrors : table[k].location_id = ExtraId(m)
               /\ table[k].object_id = None => table[k].location_id = k
               /\ table[k].object_id # None => table[k].parent_location_id = None
    <3>1. CASE k \in DOMAIN L
      BY <1>6, <1>11, <3>1 DEF PlaceInv
    <3>2. CASE k = Len(L) + 1
      <4>1. o # None /\ n \in 0 .. MaxErrors
        BY <1>2, <1>3, <1>12, SuitesAssumption
      <4> QED BY <1>4, <1>6, <3>2, <4>1
    <3> QED BY <1>6, <3>1, <3>2
  <2>2. \A j, k \in DOMAIN table : table[j].location_id = table[k].location_id => j = k
    BY <1>4, <1>6, <1>11, <1>13 DEF PlaceInv
  <2>3. ASSUME NEW x \in Nat
        PROVE  Labelled("LOC001", x)' <=> \E j, k \in CurrentAt(x)' : j # k
    <3>1. CASE x = o
      <4>1. PICK j \in CurrentAt(o) : TRUE
        BY <1>3
      <4>2. j # Len(L) + 1
        BY <1>6 DEF CurrentAt
      <4> QED BY <1>15, <1>16, <3>1, <4>1, <4>2
    <3>2. CASE x # o
      BY <1>11, <1>15, <1>16, <3>2 DEF PlaceInv
    <3> QED BY <3>1, <3>2
  <2> QED BY <1>9, <2>1, <2>2, <2>3 DEF PlaceInv
<1>18. TreeInv'
  <2>1. \A k : IsNode(k)' <=> IsNode(k)
    <3>1. o # None
      BY <1>3, SuitesAssumption
    <3> QED BY <1>4, <1>6, <1>9, <3>1 DEF IsNode
  <2>2. \A k : IsNode(k) => k \in DOMAIN L /\ k \in DOMAIN table /\ table[k] = L[k]
    BY <1>6 DEF IsNode
  <2>3. Entries("LOC002")' = Entries("LOC002")
    BY <1>9
  <2> QED BY <1>6, <1>9, <1>11, <1>15, <2>1, <2>2, <2>3 DEF TreeInv
<1>19. PoolInv'
  <2>1. Owner(Head(loops))' = "inject_extra_current_location"
    BY <1>2, OwnersOf DEF Turn
  <2>2. ASSUME NEW j \in pool'
        PROVE  Usable("inject_extra_current_location", j)'
    <3>1. j \in pool /\ j # o
      BY <1>1 DEF Take
    <3>2. Usable("inject_extra_current_location", j)
      BY <1>2, <3>1, PoolIsUsable, OwnersOf
    <3> QED BY <1>15, <1>16, <3>1, <3>2 DEF Usable, Untouched
  <2> QED BY <2>1, <2>2 DEF PoolInv
<1> QED BY <1>9, <1>10, <1>14, <1>17, <1>18, <1>19 DEF BenchInv

\* Parents are changed on rows of the tree only; nothing moves.
LEMMA PlacesStay ==
    ASSUME PlaceInv, data.locations \in Seq(LocationRow),
           DOMAIN data'.locations = DOMAIN data.locations,
           \A k \in DOMAIN data.locations :
              /\ data'.locations[k].location_id = data.locations[k].location_id
              /\ data'.locations[k].object_id = data.locations[k].object_id
              /\ data'.locations[k].is_current = data.locations[k].is_current
              /\ data.locations[k].object_id # None =>
                    data'.locations[k].parent_location_id = data.locations[k].parent_location_id,
           Entries("LOC001")' = Entries("LOC001")
    PROVE  PlaceInv' /\ \A k : IsNode(k)' <=> IsNode(k)
<1>1. \A o : CurrentAt(o)' = CurrentAt(o)
  BY DEF CurrentAt
<1>2. \A k : IsNode(k)' <=> IsNode(k)
  BY DEF IsNode
<1> QED BY <1>1, <1>2 DEF PlaceInv, Labelled

LEMMA TurnsAreFew == BenchTyped /\ InLoop /\ (\E loop : Turn(loop)) => n \in 0 .. MaxErrors
<1> SUFFICES ASSUME BenchTyped, InLoop, NEW loop, Turn(loop) PROVE n \in 0 .. MaxErrors
  OBVIOUS
<1>1. loops # <<>> /\ Head(loops) = loop /\ n < count[loop] /\ n \in Nat
  BY DEF Turn, BenchTyped
<1>2. loop \in DOMAIN count
  BY <1>1 DEF InLoop, ToSet, BenchTyped
<1>3. count[loop] \in 0 .. MaxErrors
  BY <1>2 DEF BenchTyped
<1>4. MaxErrors \in Nat
  BY SuitesAssumption
<1> QED BY <1>1, <1>3, <1>4

LEMMA MissingParentKeeps == BenchInv /\ MissingParent => BenchInv'
<1> SUFFICES ASSUME BenchInv, MissingParent PROVE BenchInv'
  OBVIOUS
<1>1. PICK i \in pool :
         /\ Take({i}) /\ Put("locations", i, "parent_location_id", MissingId(n))
         /\ Label("LOC002", "location", data.locations[i].location_id, "parent_location_id", None)
  BY DEF MissingParent
<1>2. /\ Turn("LOC002_parent") /\ data \in Data /\ manifest \in Seq(LabelRow)
      /\ data.locations \in Seq(LocationRow) /\ n \in Nat
  BY DEF MissingParent, BenchInv, BenchTyped, Data
<1>3. IsNode(i) /\ ~Labelled("LOC002", i)
  BY <1>2, PoolIsUsable, OwnersOf DEF Usable, Untouched
<1> DEFINE L == data.locations
           gone == MissingId(n)
           row == [L[i] EXCEPT !.parent_location_id = gone]
           e == [rule |-> "LOC002", type |-> "location", id |-> i,
                 field |-> "parent_location_id", after |-> None]
           table == [L EXCEPT ![i] = row]
<1>4. PlaceInv /\ TreeInv
  BY DEF BenchInv
<1>5. /\ i \in DOMAIN L /\ i \in Nat /\ L[i] \in LocationRow /\ L[i].location_id = i /\ L[i].object_id = None
      /\ gone \in Int
  <2>1. i \in DOMAIN L /\ L[i].object_id = None
    BY <1>3 DEF IsNode
  <2>2. i \in Nat /\ L[i] \in LocationRow
    BY <1>2, <2>1
  <2>3. L[i].location_id = i
    BY <1>4, <2>1 DEF PlaceInv
  <2>4. gone \in Int
    BY <1>2 DEF MissingId
  <2> QED BY <2>1, <2>2, <2>3, <2>4
<1>6. manifest' = Append(manifest, e) /\ e \in LabelRow /\ e.rule = "LOC002" /\ e.id = i
  BY <1>1, <1>5 DEF Label, LabelRow, ScoredRule
<1> HIDE DEF gone, e
<1>7. /\ row \in LocationRow /\ row.location_id = i /\ row.object_id = None
      /\ row.is_current = L[i].is_current /\ row.parent_location_id = gone
  BY <1>5 DEF LocationRow
<1>8. data' = [data EXCEPT !.locations = table]
  BY <1>1 DEF Put, gone
<1> HIDE DEF row
<1>9. /\ table \in Seq(LocationRow) /\ DOMAIN table = DOMAIN L
      /\ \A k \in DOMAIN L : table[k] = IF k = i THEN row ELSE L[k]
  <2>1. row \in LocationRow /\ i \in DOMAIN L /\ L \in Seq(LocationRow)
    BY <1>2, <1>5, <1>7
  <2> HIDE DEF L
  <2> QED BY <2>1
<1> HIDE DEF table
<1>10. /\ manifest' \in Seq(LabelRow)
       /\ ToSet(manifest') = ToSet(manifest) \cup {e}
  BY <1>2, <1>6, OneLabel
<1>11. /\ BenchTyped' /\ InLoop' /\ Room' /\ PlanInv'
       /\ CoreInv' /\ DateInv' /\ StatusInv' /\ MediaInv'
       /\ data'.locations = table
       /\ \A r : Entries(r)' = IF r = "LOC002" THEN Entries(r) \cup {e} ELSE Entries(r)
  <2> DEFINE fresh == {e}
             rows == {i}
             loop == "LOC002_parent"
             rule == "LOC002"
  <2>1. IsFiniteSet(rows) /\ Cardinality(rows) = RowsPerError(loop) /\ rows \in SUBSET pool
    BY OneRow DEF RowsPerError
  <2>2. pool' = pool \ rows /\ (\A f \in fresh : f.rule = rule)
    BY <1>1, <1>6 DEF Take
  <2>3. ToSet(manifest') = ToSet(manifest) \cup fresh
    BY <1>10
  <2>4. Turn(loop) /\ rule \in {"LOC001", "LOC002"} /\ Owner(rule) = Owner(loop)
    BY <1>2, OwnersOf
  <2> HIDE DEF fresh, rows, loop, rule
  <2>5. /\ BenchTyped' /\ InLoop' /\ Room' /\ PlanInv'
        /\ CoreInv' /\ DateInv' /\ StatusInv' /\ MediaInv'
        /\ data'.locations = table
        /\ \A r : Entries(r)' = IF r = rule THEN Entries(r) \cup fresh ELSE Entries(r)
    BY <1>8, <1>9, <1>10, <2>1, <2>2, <2>3, <2>4, LocationTurn, ZenonT(60)
  <2> QED BY <2>5 DEF fresh, rule
<1>12. Apart'
  BY <1>2, <1>3, <1>6, StaysApart DEF BenchInv
<1>13. ExtraInv'
  <2>1. \A k \in DOMAIN L : table[k].location_id = L[k].location_id
    BY <1>5, <1>7, <1>9
  <2> QED BY <1>2, <1>9, <1>11, <2>1, TurnKeepsExtras DEF BenchInv
<1>14. PlaceInv' /\ \A k : IsNode(k)' <=> IsNode(k)
  <2>1. \A k \in DOMAIN L :
           /\ table[k].location_id = L[k].location_id
           /\ table[k].object_id = L[k].object_id
           /\ table[k].is_current = L[k].is_current
           /\ L[k].object_id # None => table[k].parent_location_id = L[k].parent_location_id
    BY <1>5, <1>7, <1>9
  <2> QED BY <1>2, <1>4, <1>9, <1>11, <2>1, PlacesStay
<1>15. \A j : Labelled("LOC002", j)' <=> Labelled("LOC002", j) \/ j = i
  BY <1>6, <1>11 DEF Labelled
<1>16. TreeInv'
  <2>1. n \in 0 .. MaxErrors
    BY <1>2, TurnsAreFew DEF BenchInv
  <2>2. \A f \in Entries("LOC002")' : IsNode(f.id)'
    BY <1>3, <1>4, <1>6, <1>11, <1>14 DEF TreeInv
  <2> DEFINE Marked(x) == Labelled("LOC002", x) \/ x = i
  <2>3. ASSUME NEW k \in DOMAIN L, IsNode(k)
        PROVE  LET parent == table[k].parent_location_id
               IN  \/ ~Marked(k) /\ (parent = None \/ (parent \in 1 .. k - 1 /\ IsNode(parent)))
                   \/ Marked(k) /\ \E m \in 0 .. MaxErrors : parent = MissingId(m)
                   \/ /\ Marked(k) /\ parent # k
                      /\ IsNode(parent) /\ Marked(parent)
                      /\ table[parent].parent_location_id = k
    <3>1. CASE k = i
      BY <1>5, <1>7, <1>9, <2>1, <3>1 DEF gone
    <3>2. CASE k # i
      <4>1. table[k] = L[k]
        BY <1>9, <3>2
      <4>2. \A p : IsNode(p) /\ Labelled("LOC002", p) => table[p] = L[p]
        BY <1>3, <1>9 DEF IsNode
      <4>3. LET parent == L[k].parent_location_id
            IN  \/ ~Labelled("LOC002", k) /\ (parent = None \/ (parent \in 1 .. k - 1 /\ IsNode(parent)))
                \/ Labelled("LOC002", k) /\ \E m \in 0 .. MaxErrors : parent = MissingId(m)
                \/ /\ Labelled("LOC002", k) /\ parent # k
                   /\ IsNode(parent) /\ Labelled("LOC002", parent)
                   /\ L[parent].parent_location_id = k
        BY <1>4, <2>3 DEF TreeInv
      <4> QED BY <3>2, <4>1, <4>2, <4>3
    <3> QED BY <3>1, <3>2
  <2>4. \A k : IsNode(k) => k \in DOMAIN L
    BY DEF IsNode
  <2>5. \A j : Labelled("LOC002", j)' <=> Marked(j)
    BY <1>15
  <2> HIDE DEF Marked
  <2> QED BY <1>9, <1>11, <1>14, <2>2, <2>3, <2>4, <2>5 DEF TreeInv
<1>17. PoolInv'
  <2>1. Owner(Head(loops))' = "inject_location_hierarchy_errors"
    BY <1>2, OwnersOf DEF Turn
  <2>2. ASSUME NEW j \in pool'
        PROVE  Usable("inject_location_hierarchy_errors", j)'
    <3>1. j \in pool /\ j # i
      BY <1>1 DEF Take
    <3>2. Usable("inject_location_hierarchy_errors", j)
      BY <1>2, <3>1, PoolIsUsable, OwnersOf
    <3> QED BY <1>14, <1>15, <3>1, <3>2 DEF Usable, Untouched
  <2> QED BY <2>1, <2>2 DEF PoolInv
<1> QED BY <1>11, <1>12, <1>13, <1>14, <1>16, <1>17 DEF BenchInv

\* Two labels at once.
LEMMA TwoLabels ==
    ASSUME manifest \in Seq(LabelRow), NEW x \in LabelRow, NEW y \in LabelRow,
           manifest' = manifest \o <<x, y>>
    PROVE  /\ manifest' \in Seq(LabelRow)
           /\ ToSet(manifest') = ToSet(manifest) \cup {x, y}
           /\ (/\ Apart /\ x.rule = y.rule /\ x.rule # "CORE001" /\ x.id # y.id
               /\ ~Labelled(x.rule, x.id) /\ ~Labelled(y.rule, y.id)) => Apart'
<1>1. manifest' \in Seq(LabelRow) /\ Len(manifest') = Len(manifest) + 2 /\ Len(manifest) \in Nat
  OBVIOUS
<1>2. /\ \A p \in 1 .. Len(manifest) : manifest'[p] = manifest[p]
      /\ manifest'[Len(manifest) + 1] = x /\ manifest'[Len(manifest) + 2] = y
  OBVIOUS
<1>3. DOMAIN manifest = 1 .. Len(manifest) /\ DOMAIN manifest' = 1 .. Len(manifest) + 2
  BY <1>1
<1>4. ToSet(manifest') = ToSet(manifest) \cup {x, y}
  <2>3. ASSUME NEW z \in ToSet(manifest') PROVE z \in ToSet(manifest) \cup {x, y}
    <3>1. PICK p \in DOMAIN manifest' : z = manifest'[p]
      BY <2>3 DEF ToSet
    <3>2. p \in 1 .. Len(manifest) \/ p = Len(manifest) + 1 \/ p = Len(manifest) + 2
      BY <1>1, <1>3
    <3> QED BY <1>2, <1>3, <3>1, <3>2 DEF ToSet
  <2>4. ASSUME NEW z \in ToSet(manifest) \cup {x, y} PROVE z \in ToSet(manifest')
    <3>1. CASE z \in ToSet(manifest)
      BY <1>1, <1>2, <1>3, <3>1 DEF ToSet
    <3>2. CASE z \in {x, y}
      <4>1. Len(manifest) + 1 \in DOMAIN manifest' /\ Len(manifest) + 2 \in DOMAIN manifest'
        BY <1>1, <1>3
      <4> QED BY <1>2, <3>2, <4>1 DEF ToSet
    <3> QED BY <2>4, <3>1, <3>2
  <2> QED BY <2>3, <2>4
<1>5. ASSUME Apart, x.rule = y.rule, x.rule # "CORE001", x.id # y.id,
             ~Labelled(x.rule, x.id), ~Labelled(y.rule, y.id)
      PROVE  Apart'
  <2>1. ASSUME NEW p \in 1 .. Len(manifest), manifest[p].rule = x.rule
        PROVE  manifest[p].id # x.id /\ manifest[p].id # y.id
    <3>1. manifest[p] \in Entries(x.rule)
      BY <1>3, <2>1 DEF Entries, ToSet
    <3> QED BY <1>5, <3>1 DEF Labelled
  <2>2. ASSUME NEW p \in DOMAIN manifest', NEW q \in DOMAIN manifest', p # q,
               manifest'[p].rule = manifest'[q].rule
        PROVE  /\ manifest'[p].id # manifest'[q].id
               /\ manifest'[p].rule = "CORE001" => manifest'[p].after # manifest'[q].after
    <3>1. \A r \in DOMAIN manifest' :
             r \in 1 .. Len(manifest) \/ r = Len(manifest) + 1 \/ r = Len(manifest) + 2
      BY <1>1, <1>3
    <3>2. CASE p \in 1 .. Len(manifest) /\ q \in 1 .. Len(manifest)
      BY <1>2, <1>3, <1>5, <2>2, <3>2 DEF Apart
    <3>3. CASE p \in 1 .. Len(manifest) /\ q \notin 1 .. Len(manifest)
      BY <1>2, <1>5, <2>1, <2>2, <3>1, <3>3
    <3>4. CASE p \notin 1 .. Len(manifest) /\ q \in 1 .. Len(manifest)
      BY <1>2, <1>5, <2>1, <2>2, <3>1, <3>4
    <3>5. CASE p \notin 1 .. Len(manifest) /\ q \notin 1 .. Len(manifest)
      BY <1>2, <1>5, <2>2, <3>1, <3>5
    <3> QED BY <3>2, <3>3, <3>4, <3>5
  <2> QED BY <2>2 DEF Apart
<1> QED BY <1>1, <1>4, <1>5

LEMMA CycleKeeps == BenchInv /\ Cycle => BenchInv'
<1> SUFFICES ASSUME BenchInv, Cycle PROVE BenchInv'
  OBVIOUS
<1> DEFINE L == data.locations
           LabelOf(i) == [rule |-> "LOC002", type |-> "location", id |-> L[i].location_id,
                          field |-> "parent_location_id", after |-> None]
<1>1. PICK a \in pool, b \in pool :
         /\ a # b /\ Take({a, b})
         /\ data' = [data EXCEPT !.locations[a].parent_location_id = L[b].location_id,
                                 !.locations[b].parent_location_id = L[a].location_id]
         /\ manifest' = manifest \o <<LabelOf(a), LabelOf(b)>>
  BY DEF Cycle
<1>2. /\ Turn("LOC002_cycle") /\ data \in Data /\ manifest \in Seq(LabelRow)
      /\ data.locations \in Seq(LocationRow)
  BY DEF Cycle, BenchInv, BenchTyped, Data
<1>3. \A i \in {a, b} : IsNode(i) /\ ~Labelled("LOC002", i)
  BY <1>2, PoolIsUsable, OwnersOf DEF Usable, Untouched
<1>4. PlaceInv /\ TreeInv
  BY DEF BenchInv
<1>5. \A i \in {a, b} : /\ i \in DOMAIN L /\ L[i].object_id = None /\ i \in Nat
                        /\ L[i] \in LocationRow /\ L[i].location_id = i
  <2> TAKE i \in {a, b}
  <2>1. i \in DOMAIN L /\ L[i].object_id = None
    BY <1>3 DEF IsNode
  <2>2. i \in Nat /\ L[i] \in LocationRow
    BY <1>2, <2>1
  <2> QED BY <1>4, <2>1, <2>2 DEF PlaceInv
<1> DEFINE rowA == [L[a] EXCEPT !.parent_location_id = b]
           rowB == [L[b] EXCEPT !.parent_location_id = a]
           table == [[L EXCEPT ![a] = rowA] EXCEPT ![b] = rowB]
<1>6. /\ rowA \in LocationRow /\ rowA.location_id = a /\ rowA.object_id = None
      /\ rowA.is_current = L[a].is_current /\ rowA.parent_location_id = b
  BY <1>5 DEF LocationRow
<1>7. /\ rowB \in LocationRow /\ rowB.location_id = b /\ rowB.object_id = None
      /\ rowB.is_current = L[b].is_current /\ rowB.parent_location_id = a
  BY <1>5 DEF LocationRow
<1>8. data' = [data EXCEPT !.locations = table]
  BY <1>1, <1>2, <1>5 DEF Data
<1> HIDE DEF rowA, rowB
<1>9. /\ table \in Seq(LocationRow) /\ DOMAIN table = DOMAIN L
      /\ \A k \in DOMAIN L : table[k] = IF k = a THEN rowA ELSE IF k = b THEN rowB ELSE L[k]
  <2>1. rowA \in LocationRow /\ rowB \in LocationRow /\ L \in Seq(LocationRow)
    BY <1>2, <1>6, <1>7
  <2>2. a \in DOMAIN L /\ b \in DOMAIN L /\ a # b
    BY <1>1, <1>5
  <2> HIDE DEF L
  <2> QED BY <2>1, <2>2
<1> HIDE DEF table
<1>10. /\ LabelOf(a) \in LabelRow /\ LabelOf(b) \in LabelRow
       /\ LabelOf(a).rule = "LOC002" /\ LabelOf(b).rule = "LOC002"
       /\ LabelOf(a).id = a /\ LabelOf(b).id = b
  BY <1>5 DEF LabelRow, ScoredRule
<1> DEFINE x == LabelOf(a)
           y == LabelOf(b)
<1>11. /\ x \in LabelRow /\ y \in LabelRow /\ manifest' = manifest \o <<x, y>>
       /\ x.rule = "LOC002" /\ y.rule = "LOC002" /\ x.id = a /\ y.id = b
  BY <1>1, <1>10
<1> HIDE DEF x, y, LabelOf
<1>12. /\ manifest' \in Seq(LabelRow)
       /\ ToSet(manifest') = ToSet(manifest) \cup {x, y}
       /\ Apart'
  <2>1. Apart /\ ~Labelled(x.rule, x.id) /\ ~Labelled(y.rule, y.id) /\ x.id # y.id
    BY <1>1, <1>3, <1>11 DEF BenchInv
  <2> QED BY <1>2, <1>11, <2>1, TwoLabels
<1>13. /\ BenchTyped' /\ InLoop' /\ Room' /\ PlanInv'
       /\ CoreInv' /\ DateInv' /\ StatusInv' /\ MediaInv'
       /\ data'.locations = table
       /\ \A r : Entries(r)' = IF r = "LOC002" THEN Entries(r) \cup {x, y} ELSE Entries(r)
  <2> DEFINE fresh == {x, y}
             rows == {a, b}
             loop == "LOC002_cycle"
             rule == "LOC002"
  <2>1. IsFiniteSet(rows) /\ Cardinality(rows) = RowsPerError(loop) /\ rows \in SUBSET pool
    BY <1>1, TwoRows DEF RowsPerError
  <2>2. pool' = pool \ rows /\ (\A f \in fresh : f.rule = rule)
    BY <1>1, <1>11 DEF Take
  <2>3. ToSet(manifest') = ToSet(manifest) \cup fresh
    BY <1>12
  <2>4. Turn(loop) /\ rule \in {"LOC001", "LOC002"} /\ Owner(rule) = Owner(loop)
    BY <1>2, OwnersOf
  <2> HIDE DEF fresh, rows, loop, rule
  <2>5. /\ BenchTyped' /\ InLoop' /\ Room' /\ PlanInv'
        /\ CoreInv' /\ DateInv' /\ StatusInv' /\ MediaInv'
        /\ data'.locations = table
        /\ \A r : Entries(r)' = IF r = rule THEN Entries(r) \cup fresh ELSE Entries(r)
    BY <1>8, <1>9, <1>12, <2>1, <2>2, <2>3, <2>4, LocationTurn, ZenonT(60)
  <2> QED BY <2>5 DEF fresh, rule
<1>14. ExtraInv'
  <2>1. \A k \in DOMAIN L : table[k].location_id = L[k].location_id
    BY <1>5, <1>6, <1>7, <1>9
  <2> QED BY <1>2, <1>9, <1>13, <2>1, TurnKeepsExtras DEF BenchInv
<1>15. PlaceInv' /\ \A k : IsNode(k)' <=> IsNode(k)
  <2>1. \A k \in DOMAIN L :
           /\ table[k].location_id = L[k].location_id
           /\ table[k].object_id = L[k].object_id
           /\ table[k].is_current = L[k].is_current
           /\ L[k].object_id # None => table[k].parent_location_id = L[k].parent_location_id
    BY <1>5, <1>6, <1>7, <1>9
  <2> QED BY <1>2, <1>4, <1>9, <1>13, <2>1, PlacesStay
<1> DEFINE Marked(j) == Labelled("LOC002", j) \/ j \in {a, b}
<1>16. \A j : Labelled("LOC002", j)' <=> Marked(j)
  BY <1>11, <1>13 DEF Labelled
<1>17. TreeInv'
  <2>1. \A f \in Entries("LOC002")' : IsNode(f.id)'
    BY <1>3, <1>4, <1>11, <1>13, <1>15 DEF TreeInv
  <2>2. ASSUME NEW k \in DOMAIN L, IsNode(k)
        PROVE  LET parent == table[k].parent_location_id
               IN  \/ ~Marked(k) /\ (parent = None \/ (parent \in 1 .. k - 1 /\ IsNode(parent)))
                   \/ Marked(k) /\ \E m \in 0 .. MaxErrors : parent = MissingId(m)
                   \/ /\ Marked(k) /\ parent # k
                      /\ IsNode(parent) /\ Marked(parent)
                      /\ table[parent].parent_location_id = k
    <3>1. CASE k \in {a, b}
      BY <1>1, <1>3, <1>5, <1>6, <1>7, <1>9, <3>1
    <3>2. CASE k \notin {a, b}
      <4>1. table[k] = L[k]
        BY <1>9, <3>2
      <4>2. \A p : IsNode(p) /\ Labelled("LOC002", p) => table[p] = L[p]
        BY <1>3, <1>9 DEF IsNode
      <4>3. LET parent == L[k].parent_location_id
            IN  \/ ~Labelled("LOC002", k) /\ (parent = None \/ (parent \in 1 .. k - 1 /\ IsNode(parent)))
                \/ Labelled("LOC002", k) /\ \E m \in 0 .. MaxErrors : parent = MissingId(m)
                \/ /\ Labelled("LOC002", k) /\ parent # k
                   /\ IsNode(parent) /\ Labelled("LOC002", parent)
                   /\ L[parent].parent_location_id = k
        BY <1>4, <2>2 DEF TreeInv
      <4> QED BY <3>2, <4>1, <4>2, <4>3
    <3> QED BY <3>1, <3>2
  <2>3. \A k : IsNode(k) => k \in DOMAIN L
    BY DEF IsNode
  <2> HIDE DEF Marked
  <2> QED BY <1>9, <1>13, <1>15, <1>16, <2>1, <2>2, <2>3 DEF TreeInv
<1>18. PoolInv'
  <2>1. Owner(Head(loops))' = "inject_location_hierarchy_errors"
    BY <1>2, OwnersOf DEF Turn
  <2>2. ASSUME NEW j \in pool'
        PROVE  Usable("inject_location_hierarchy_errors", j)'
    <3>1. j \in pool /\ j \notin {a, b}
      BY <1>1 DEF Take
    <3>2. Usable("inject_location_hierarchy_errors", j)
      BY <1>2, <3>1, PoolIsUsable, OwnersOf
    <3> QED BY <1>15, <1>16, <3>1, <3>2 DEF Usable, Untouched
  <2> QED BY <2>1, <2>2 DEF PoolInv
<1> QED BY <1>12, <1>13, <1>14, <1>15, <1>17, <1>18 DEF BenchInv

-----------------------------------------------------------------------------
\* Calls and ends of loops change no table and no label.
LEMMA TablesStay ==
    ASSUME BenchInv, UNCHANGED <<data, manifest>>
    PROVE  /\ CoreInv' /\ DateInv' /\ StatusInv' /\ MediaInv' /\ PlaceInv' /\ TreeInv' /\ Apart'
           /\ \A rule : Entries(rule)' = Entries(rule)
           /\ \A rule, i : Labelled(rule, i)' <=> Labelled(rule, i)
           /\ \A k : CurrentAt(k)' = CurrentAt(k)
           /\ \A k : IsNode(k)' <=> IsNode(k)
<1>1. /\ \A rule : Entries(rule)' = Entries(rule)
      /\ \A k : CurrentAt(k)' = CurrentAt(k)
      /\ \A k : IsNode(k)' <=> IsNode(k)
  BY DEF Entries, CurrentAt, IsNode
<1>2. CoreInv' /\ DateInv' /\ StatusInv'
  BY <1>1, ObjectsStay DEF BenchInv, SameLabels
<1>3. MediaInv' /\ PlaceInv' /\ TreeInv'
  BY <1>1, MediaStays, PlaceStays, TreeStays DEF BenchInv, SameLabels, SameMedia, SameLocations
<1>4. Apart'
  BY DEF BenchInv, Apart
<1> QED BY <1>1, <1>2, <1>3, <1>4 DEF Labelled

LEMMA EndKeeps == BenchInv /\ EndLoop => BenchInv'
<1> SUFFICES ASSUME BenchInv, EndLoop PROVE BenchInv'
  OBVIOUS
<1>1. /\ loops # <<>> /\ loops' = Tail(loops) /\ n' = 0
      /\ UNCHANGED <<data, calls, count, pool, manifest, refused>>
      /\ BenchTyped /\ InLoop /\ Room /\ loops \in Seq(LoopName)
  BY DEF EndLoop, BenchInv, BenchTyped
<1>2. /\ loops' \in Seq(LoopName) /\ Len(loops) \in Nat /\ Len(loops') = Len(loops) - 1
      /\ DOMAIN loops = 1 .. Len(loops) /\ DOMAIN loops' = 1 .. Len(loops) - 1
      /\ \A p \in DOMAIN loops' : p + 1 \in DOMAIN loops /\ loops'[p] = loops[p + 1]
      /\ Head(loops) = loops[1] /\ 1 \in DOMAIN loops
      /\ loops' # <<>> => 1 \in DOMAIN loops' /\ Head(loops') = loops'[1]
  BY <1>1
<1>3. ToSet(loops') \subseteq ToSet(loops) \ {Head(loops)}
  BY <1>1, <1>2 DEF ToSet, InLoop
<1>4. loops' # <<>> => Head(loops') \in ToSet(loops) /\ Head(loops') # Head(loops)
  BY <1>2, <1>3 DEF ToSet
<1>5. \A l \in ToSet(loops) : Owner(l) = Owner(Head(loops))
  BY <1>1, <1>2 DEF ToSet, InLoop
<1>6. BenchTyped'
  BY <1>1, <1>2 DEF BenchTyped
<1>7. InLoop'
  <2>1. \A p, q \in DOMAIN loops' : loops'[p] = loops'[q] => p = q
    BY <1>1, <1>2 DEF InLoop
  <2>2. \A p, q \in DOMAIN loops' : Owner(loops'[p]) = Owner(loops'[q])
    BY <1>1, <1>2 DEF InLoop
  <2>3. ToSet(loops') \subseteq DOMAIN count'
    BY <1>1, <1>3 DEF InLoop
  <2>4. loops' # <<>> => n' <= count'[Head(loops')]
    <3>1. loops' # <<>> => count[Head(loops')] \in 0 .. MaxErrors
      BY <1>1, <1>4 DEF InLoop, BenchTyped
    <3> QED BY <1>1, <3>1
  <2>5. ToSet(loops)' = ToSet(loops')
    OBVIOUS
  <2> QED BY <2>1, <2>2, <2>3, <2>4 DEF InLoop
<1>8. Room'
  <2> SUFFICES ASSUME loops' # <<>> PROVE Cardinality(Left') <= Cardinality(pool)
    BY <1>1 DEF Room
  <2>1. Left' \subseteq Left
    <3>1. Left' \subseteq {s \in Slots(count) : s[1] \in ToSet(loops')}
      BY <1>1 DEF Left, Slots
    <3> QED BY <1>3, <3>1 DEF Left
  <2>2. Cardinality(Left') <= Cardinality(Left) /\ Cardinality(Left') \in Nat /\ Cardinality(Left) \in Nat
    BY <1>1, <2>1, SlotsFinite, FS_Subset, FS_CardinalityType
  <2>3. Cardinality(pool) \in Nat
    BY <1>1, FS_CardinalityType DEF BenchTyped
  <2> QED BY <1>1, <2>2, <2>3 DEF Room
<1>9. /\ CoreInv' /\ DateInv' /\ StatusInv' /\ MediaInv' /\ PlaceInv' /\ TreeInv' /\ Apart'
      /\ \A rule : Entries(rule)' = Entries(rule)
      /\ \A rule, i : Labelled(rule, i)' <=> Labelled(rule, i)
      /\ \A k : CurrentAt(k)' = CurrentAt(k)
      /\ \A k : IsNode(k)' <=> IsNode(k)
  BY <1>1, TablesStay
<1>10. /\ \A injector : Running(injector)' => Running(injector)
       /\ \A injector : ToCome(injector)' <=> ToCome(injector)
  BY <1>1, <1>4, <1>5 DEF Running, ToCome
<1>11. PlanInv'
  <2>1. Composable(calls) /\ calls' = calls /\ ToSet(manifest') = ToSet(manifest)
    BY <1>1 DEF BenchInv, PlanInv
  <2>2. \A injector \in DOMAIN Loops : ToCome(injector)' =>
          /\ ~Running(injector)'
          /\ \A e \in ToSet(manifest') : Owner(e.rule) # injector
    BY <1>10, <2>1 DEF BenchInv, PlanInv
  <2> QED BY <1>9, <1>10, <2>1, <2>2 DEF BenchInv, PlanInv
<1>12. PoolInv'
  <2> SUFFICES ASSUME loops' # <<>>, NEW i \in pool
               PROVE  Usable(Owner(Head(loops)), i)'
    BY <1>1 DEF PoolInv
  <2>1. Usable(Owner(Head(loops)), i)
    BY <1>1 DEF BenchInv, PoolInv
  <2>2. Owner(Head(loops)) = Owner(Head(loops'))
    BY <1>4, <1>5
  <2>3. \A injector : Usable(injector, i)' <=> Usable(injector, i)
    BY <1>1, <1>9 DEF Usable, Untouched
  <2> QED BY <2>1, <2>2, <2>3
<1>13. ExtraInv'
  <2>1. ~Running("inject_extra_current_location")'
    <3> SUFFICES ASSUME Running("inject_extra_current_location")' PROVE FALSE
      OBVIOUS
    <3>1. /\ loops' # <<>> /\ Head(loops') \in LoopName
          /\ Owner(Head(loops')) = "inject_extra_current_location"
      BY <1>2 DEF Running
    <3>2. Owner(Head(loops)) = "inject_extra_current_location" /\ Head(loops) \in LoopName
      BY <1>1, <1>2, <1>4, <1>5, <3>1
    <3>3. \A l \in LoopName : Owner(l) = "inject_extra_current_location" => l = "LOC001"
      BY OwnersOf DEF LoopName, ScoredRule
    <3> QED BY <1>4, <3>1, <3>2, <3>3
  <2> QED BY <1>1, <1>10, <2>1 DEF BenchInv, ExtraInv
<1> QED BY <1>6, <1>7, <1>8, <1>9, <1>11, <1>12, <1>13 DEF BenchInv

LEMMA FiniteImageOf ==
    ASSUME NEW S, IsFiniteSet(S), NEW f, DOMAIN f = S
    PROVE  IsFiniteSet({f[s] : s \in S})
<1> DEFINE T == {f[s] : s \in S}
           g == [s \in S |-> f[s]]
<1>1. g \in Surjection(S, T)
  BY DEF Surjection
<1> HIDE DEF g, T
<1>2. IsFiniteSet(T)
  BY <1>1, FS_Surjection
<1> QED BY <1>2 DEF T

LEMMA FiniteRows == \A S : \A s \in Seq(S) : IsFiniteSet(DOMAIN s) /\ IsFiniteSet(ToSet(s))
<1> TAKE S
<1> TAKE s \in Seq(S)
<1>1. DOMAIN s = 1 .. Len(s) /\ Len(s) \in Nat /\ 1 \in Int /\ Len(s) \in Int
  OBVIOUS
<1>2. IsFiniteSet(DOMAIN s)
  BY <1>1, FS_Interval
<1>3. IsFiniteSet({s[p] : p \in DOMAIN s})
  BY <1>2, FiniteImageOf
<1> QED BY <1>2, <1>3 DEF ToSet

LEMMA LoopsAre ==
    ASSUME NEW injector \in DOMAIN Loops
    PROVE  /\ Loops[injector] \in Seq(LoopName) /\ Loops[injector] # <<>>
           /\ \A p, q \in DOMAIN Loops[injector] : Loops[injector][p] = Loops[injector][q] => p = q
           /\ \A p \in DOMAIN Loops[injector] : Owner(Loops[injector][p]) = injector
<1>1. injector \in {"inject_errors", "inject_object_field_errors", "inject_orphan_media",
                    "inject_orphan_rights", "inject_publication_conflict",
                    "inject_extra_current_location", "inject_location_hierarchy_errors"}
  BY DEF Loops
<1>2. LoopName = {"CORE001", "CORE002", "DATE001", "VOCAB001", "SCHEMA001", "REF001", "REF002",
                  "RIGHTS001", "LOC001", "LOC002_parent", "LOC002_cycle"}
  BY DEF LoopName, ScoredRule
<1>3. CASE injector = "inject_errors"
  BY <1>2, <1>3, OwnersOf DEF Loops
<1>4. CASE injector = "inject_object_field_errors"
  BY <1>2, <1>4, OwnersOf DEF Loops
<1>5. CASE injector = "inject_orphan_media"
  BY <1>2, <1>5, OwnersOf DEF Loops
<1>6. CASE injector = "inject_orphan_rights"
  BY <1>2, <1>6, OwnersOf DEF Loops
<1>7. CASE injector = "inject_publication_conflict"
  BY <1>2, <1>7, OwnersOf DEF Loops
<1>8. CASE injector = "inject_extra_current_location"
  BY <1>2, <1>8, OwnersOf DEF Loops
<1>9. CASE injector = "inject_location_hierarchy_errors"
  BY <1>2, <1>9, OwnersOf DEF Loops
<1> QED BY <1>1, <1>3, <1>4, <1>5, <1>6, <1>7, <1>8, <1>9

LEMMA CleanRightsAre ==
    ASSUME data.rights = CleanRights
    PROVE  /\ DOMAIN data.rights = {1, 2}
           /\ data.rights[1].rights_id = 1 /\ data.rights[2].rights_id = 2
           /\ Rules!Permits(data.rights[1]) /\ ~Rules!Permits(data.rights[2])
<1>1. DOMAIN data.rights = {1, 2} /\ data.rights[1] = CleanRights[1] /\ data.rights[2] = CleanRights[2]
  BY DEF CleanRights
<1>2. /\ CleanRights[1] = [rights_id |-> 1, rights_status |-> None, publication_allowed |-> TRUE,
                           review_required |-> FALSE]
      /\ CleanRights[2] = [rights_id |-> 2, rights_status |-> "unknown", publication_allowed |-> FALSE,
                           review_required |-> TRUE]
  BY DEF CleanRights
<1>3. None \notin Rules!NON_PERMISSIVE_STATUS
  BY SuitesAssumption
<1> QED BY <1>1, <1>2, <1>3 DEF Rules!Permits

\* What an injector finds in the tables when it is called.
LEMMA PoolIsGood ==
    ASSUME BenchInv, NEW injector \in DOMAIN Loops, ToCome(injector)
    PROVE  /\ IsFiniteSet(PoolOf(injector))
           /\ \A i \in PoolOf(injector) : Usable(injector, i)
<1>1. data \in Data /\ PlaceInv
  BY DEF BenchInv, BenchTyped
<1>2. \A e \in ToSet(manifest) : Owner(e.rule) # injector
  BY DEF BenchInv, PlanInv
<1>3. \A rule : Owner(rule) = injector => Entries(rule) = {}
  BY <1>2 DEF Entries
<1>4. \A rule, i : Owner(rule) = injector => ~Labelled(rule, i)
  BY <1>3 DEF Labelled
<1>5. /\ data.objects \in Seq(ObjectRow) /\ data.media \in Seq(MediaRow)
      /\ data.locations \in Seq(LocationRow)
  BY <1>1 DEF Data
<1>6. IsFiniteSet(DOMAIN data.objects) /\ IsFiniteSet(DOMAIN data.media) /\ IsFiniteSet(DOMAIN data.locations)
  BY <1>5, FiniteRows
<1>7. CASE injector = "inject_errors"
  <2>1. PoolOf(injector) = DOMAIN data.objects
    BY <1>7 DEF PoolOf
  <2>2. Owner("CORE001") = injector /\ Owner("CORE002") = injector
    BY <1>7, OwnersOf
  <2> QED BY <1>3, <1>4, <1>6, <1>7, <2>1, <2>2 DEF Usable, Untouched
<1>8. CASE injector = "inject_object_field_errors"
  <2>1. PoolOf(injector) = DOMAIN data.objects
    BY <1>8 DEF PoolOf
  <2>2. Owner("DATE001") = injector /\ Owner("VOCAB001") = injector /\ Owner("SCHEMA001") = injector
    BY <1>8, OwnersOf
  <2> QED BY <1>4, <1>6, <1>8, <2>1, <2>2 DEF Usable, Untouched
<1>9. CASE injector = "inject_orphan_media"
  <2>1. PoolOf(injector) = DOMAIN data.media /\ Owner("REF001") = injector
    BY <1>9, OwnersOf DEF PoolOf
  <2> QED BY <1>4, <1>6, <1>9, <2>1 DEF Usable, Untouched
<1>10. CASE injector = "inject_orphan_rights"
  <2>1. PoolOf(injector) = DOMAIN data.objects /\ Owner("REF002") = injector
    BY <1>10, OwnersOf DEF PoolOf
  <2> QED BY <1>4, <1>6, <1>10, <2>1 DEF Usable, Untouched
<1>11. CASE injector = "inject_publication_conflict"
  <2>1. PoolOf(injector) = Eligible /\ Owner("RIGHTS001") = injector
    BY <1>11, OwnersOf DEF PoolOf
  <2>2. Eligible \subseteq DOMAIN data.objects
    BY DEF Eligible
  <2>3. data.rights = CleanRights
    BY <1>1 DEF Data
  <2>4. \A i \in Eligible : data.objects[i].rights_id = 2
    BY <2>3, CleanRightsAre DEF Eligible
  <2>5. IsFiniteSet(Eligible)
    BY <1>6, <2>2, FS_Subset
  <2> QED BY <1>4, <1>11, <2>1, <2>2, <2>4, <2>5 DEF Usable, Untouched
<1>12. CASE injector = "inject_extra_current_location"
  <2> DEFINE taken == {k \in DOMAIN data.locations : data.locations[k].is_current = TRUE}
             at == [k \in taken |-> data.locations[k].object_id]
  <2>1. PoolOf(injector) = {data.locations[i].object_id : i \in taken} /\ Owner("LOC001") = injector
    BY <1>12, OwnersOf DEF PoolOf
  <2>2. IsFiniteSet(taken)
    BY <1>6, FS_Subset
  <2>3. PoolOf(injector) = {at[k] : k \in taken} /\ DOMAIN at = taken
    BY <2>1
  <2>4. IsFiniteSet(PoolOf(injector))
    <3> HIDE DEF taken, at
    <3> QED BY <2>2, <2>3, FiniteImageOf
  <2>5. ASSUME NEW o \in PoolOf(injector)
        PROVE  o \in Nat /\ CurrentAt(o) # {}
    <3>1. PICK k \in DOMAIN data.locations :
             data.locations[k].is_current = TRUE /\ o = data.locations[k].object_id
      BY <2>1
    <3>2. data.locations[k].object_id # None /\ data.locations[k] \in LocationRow
      BY <1>1, <1>5, <3>1 DEF PlaceInv
    <3>3. o \in Nat
      BY <3>1, <3>2 DEF LocationRow
    <3>4. k \in CurrentAt(o)
      BY <3>1 DEF CurrentAt
    <3> QED BY <3>3, <3>4
  <2> QED BY <1>4, <1>12, <2>1, <2>4, <2>5 DEF Usable, Untouched
<1>13. CASE injector = "inject_location_hierarchy_errors"
  <2>1. PoolOf(injector) = {i \in DOMAIN data.locations : data.locations[i].object_id = None}
    BY <1>13 DEF PoolOf
  <2>2. Owner("LOC002") = injector /\ IsFiniteSet(PoolOf(injector))
    BY <1>6, <1>13, <2>1, OwnersOf, FS_Subset
  <2> QED BY <1>4, <1>13, <2>1, <2>2 DEF Usable, Untouched, IsNode
<1> QED BY <1>7, <1>8, <1>9, <1>10, <1>11, <1>12, <1>13 DEF Loops

LEMMA BenchUnchanged ==
    BenchInv /\ UNCHANGED <<data, calls, loops, count, n, pool, manifest>> => BenchInv'
<1> SUFFICES ASSUME BenchInv, UNCHANGED <<data, calls, loops, count, n, pool, manifest>> PROVE BenchInv'
  OBVIOUS
<1>1. /\ CoreInv' /\ DateInv' /\ StatusInv' /\ MediaInv' /\ PlaceInv' /\ TreeInv' /\ Apart'
      /\ \A rule : Entries(rule)' = Entries(rule)
      /\ \A rule, i : Labelled(rule, i)' <=> Labelled(rule, i)
      /\ \A k : CurrentAt(k)' = CurrentAt(k)
      /\ \A k : IsNode(k)' <=> IsNode(k)
  BY TablesStay
<1>2. BenchTyped' /\ InLoop'
  BY DEF BenchInv, BenchTyped, InLoop
<1>3. Room'
  <2>1. Left' = Left
    BY DEF Left, Slots
  <2> QED BY <2>1 DEF BenchInv, Room
<1>4. \A injector : (Running(injector)' <=> Running(injector)) /\ (ToCome(injector)' <=> ToCome(injector))
  BY DEF Running, ToCome
<1>5. PlanInv'
  BY <1>1, <1>4 DEF BenchInv, PlanInv
<1>6. PoolInv'
  <2>1. \A injector, i : Usable(injector, i)' <=> Usable(injector, i)
    BY <1>1, ZenonT(60) DEF Usable, Untouched
  <2> QED BY <2>1 DEF BenchInv, PoolInv
<1>7. ExtraInv'
  BY <1>4 DEF BenchInv, ExtraInv
<1> QED BY <1>1, <1>2, <1>3, <1>5, <1>6, <1>7 DEF BenchInv

LEMMA CallKeeps == BenchInv /\ Call => BenchInv'
<1> SUFFICES ASSUME BenchInv, Call PROVE BenchInv'
  OBVIOUS
<1> DEFINE injector == Head(calls)
<1>1. PICK asked \in [ToSet(Loops[injector]) -> 0 .. MaxErrors] :
         IF Needed(asked) > Cardinality(PoolOf(injector))
         THEN refused' = TRUE /\ UNCHANGED <<calls, loops, count, n, pool>>
         ELSE /\ count' = asked /\ loops' = Loops[injector] /\ n' = 0
              /\ pool' = PoolOf(injector)
              /\ calls' = Tail(calls)
              /\ UNCHANGED refused
  BY DEF Call
<1>2. loops = <<>> /\ calls # <<>> /\ calls \in Seq(DOMAIN Loops) /\ UNCHANGED <<data, manifest>>
  BY DEF Call, BenchInv, BenchTyped
<1>3. CASE Needed(asked) > Cardinality(PoolOf(injector))
  BY <1>1, <1>2, <1>3, BenchUnchanged
<1>4. CASE ~(Needed(asked) > Cardinality(PoolOf(injector)))
  <2>1. /\ count' = asked /\ loops' = Loops[injector] /\ n' = 0
        /\ pool' = PoolOf(injector) /\ calls' = Tail(calls)
    BY <1>1, <1>4
  <2>2. /\ injector \in DOMAIN Loops /\ ToCome(injector)
        /\ 1 \in DOMAIN calls /\ calls[1] = injector /\ calls' \in Seq(DOMAIN Loops)
        /\ \A p \in DOMAIN calls' : p + 1 \in DOMAIN calls /\ calls'[p] = calls[p + 1] /\ p \in Nat /\ p >= 1
        /\ DOMAIN calls \subseteq Nat
    BY <1>2, <2>1 DEF ToCome, ToSet
  <2> DEFINE first == Loops[injector]
  <2>3. /\ first \in Seq(LoopName) /\ first # <<>>
        /\ \A p, q \in DOMAIN first : first[p] = first[q] => p = q
        /\ \A p \in DOMAIN first : Owner(first[p]) = injector
    BY <2>2, LoopsAre
  <2>4. IsFiniteSet(PoolOf(injector)) /\ \A i \in PoolOf(injector) : Usable(injector, i)
    BY <2>2, PoolIsGood
  <2> HIDE DEF first
  <2>5. Head(first) \in ToSet(first) /\ Owner(Head(first)) = injector
    BY <2>3 DEF ToSet
  <2>6. DOMAIN asked = ToSet(first) /\ asked \in [ToSet(first) -> 0 .. MaxErrors] /\ IsFiniteSet(ToSet(first))
    BY <1>1, <2>3, FiniteRows DEF first
  <2>7. BenchTyped'
    BY <1>2, <2>1, <2>2, <2>3, <2>4, <2>6 DEF BenchInv, BenchTyped, first
  <2>8. InLoop'
    <3>1. asked[Head(first)] \in 0 .. MaxErrors
      BY <2>5, <2>6
    <3>2. n' <= asked[Head(first)]
      BY <2>1, <3>1
    <3> QED BY <2>1, <2>3, <2>6, <3>2 DEF InLoop, ToSet, first
  <2>9. Room'
    <3>1. IsFiniteSet(Slots(count)') /\ IsFiniteSet(Left')
      <4>1. (BenchTyped => IsFiniteSet(Slots(count)) /\ IsFiniteSet(Left))'
        BY SlotsFinite, PTL
      <4> QED BY <2>7, <4>1
    <3>2. Slots(count)' = Slots(asked)
      BY <2>1 DEF Slots
    <3>3. Left' \subseteq Slots(count)'
      BY DEF Left
    <3>4. Cardinality(Left') <= Needed(asked) /\ Cardinality(Left') \in Nat /\ Needed(asked) \in Nat
      BY <3>1, <3>2, <3>3, FS_Subset, FS_CardinalityType DEF Needed
    <3>5. Cardinality(PoolOf(injector)) \in Nat
      BY <2>4, FS_CardinalityType
    <3>6. Cardinality(Left') <= Cardinality(PoolOf(injector))
      BY <1>4, <3>4, <3>5
    <3> QED BY <2>1, <3>6 DEF Room
  <2>10. /\ CoreInv' /\ DateInv' /\ StatusInv' /\ MediaInv' /\ PlaceInv' /\ TreeInv' /\ Apart'
         /\ \A rule : Entries(rule)' = Entries(rule)
         /\ \A rule, i : Labelled(rule, i)' <=> Labelled(rule, i)
         /\ \A k : CurrentAt(k)' = CurrentAt(k)
         /\ \A k : IsNode(k)' <=> IsNode(k)
    BY <1>2, TablesStay
  <2>11. \A i : Running(i)' <=> i = injector
    BY <2>1, <2>3, <2>5 DEF Running, first
  <2>12. /\ \A i : ToCome(i)' => ToCome(i) /\ i # injector
         /\ \A i \in DOMAIN Loops : ToCome(i) => \E q \in DOMAIN calls : calls[q] = i
    <3>1. Composable(calls)
      BY DEF BenchInv, PlanInv
    <3>2. ASSUME NEW i, ToCome(i)'
          PROVE  ToCome(i) /\ i # injector
      <4>1. PICK p \in DOMAIN calls' : i = calls'[p]
        BY <3>2 DEF ToCome, ToSet
      <4>2. p + 1 \in DOMAIN calls /\ i = calls[p + 1] /\ p + 1 # 1
        BY <2>2, <4>1
      <4> QED BY <2>2, <3>1, <4>2 DEF Composable, ToCome, ToSet
    <3> QED BY <3>2 DEF ToCome, ToSet
  <2>13. PlanInv'
    <3>1. Composable(calls) /\ PlanInv
      BY DEF BenchInv, PlanInv
    <3>2. Composable(calls')
      <4>1. \A p, q \in DOMAIN calls' : calls'[p] = calls'[q] => p = q
        BY <2>2, <3>1 DEF Composable
      <4>2. ASSUME NEW p \in DOMAIN calls', NEW q \in DOMAIN calls',
                   calls'[p] = "inject_publication_conflict"
            PROVE  /\ calls'[q] # "inject_object_field_errors"
                   /\ calls'[q] = "inject_orphan_rights" => q < p
        <5>1. /\ p + 1 \in DOMAIN calls /\ calls[p + 1] = "inject_publication_conflict"
              /\ q + 1 \in DOMAIN calls /\ calls[q + 1] = calls'[q]
          BY <2>2, <4>2
        <5>2. /\ calls[q + 1] # "inject_object_field_errors"
              /\ calls[q + 1] = "inject_orphan_rights" => q + 1 < p + 1
          BY <3>1, <5>1 DEF Composable
        <5> QED BY <2>2, <5>1, <5>2
      <4> QED BY <4>1, <4>2 DEF Composable
    <3>3. \A i \in DOMAIN Loops : ToCome(i)' =>
             /\ ~Running(i)'
             /\ \A e \in ToSet(manifest') : Owner(e.rule) # i
      BY <1>2, <2>11, <2>12, <3>1 DEF PlanInv
    <3>4. \A i \in DOMAIN Loops : Running(i)' \/ ToCome(i)' => ToCome(i)
      BY <2>2, <2>11, <2>12
    <3>5. ToCome("inject_publication_conflict") => ~ToCome("inject_object_field_errors")
      BY <2>12, <3>1 DEF Composable, Loops
    <3>6. injector = "inject_publication_conflict" => ~ToCome("inject_orphan_rights")
      <4> SUFFICES ASSUME injector = "inject_publication_conflict", ToCome("inject_orphan_rights")
                   PROVE  FALSE
        OBVIOUS
      <4>1. PICK q \in DOMAIN calls : calls[q] = "inject_orphan_rights"
        BY <2>12 DEF Loops
      <4>2. q < 1
        BY <2>2, <3>1, <4>1 DEF Composable
      <4>3. DOMAIN calls = 1 .. Len(calls)
        BY <1>2
      <4> QED BY <4>1, <4>2, <4>3
    <3>7. {"inject_publication_conflict", "inject_orphan_rights", "inject_object_field_errors"}
             \subseteq DOMAIN Loops
      BY DEF Loops
    <3>8. Running("inject_publication_conflict")' \/ Entries("RIGHTS001")' # {} =>
             /\ ~ToCome("inject_orphan_rights")' /\ ~Running("inject_orphan_rights")'
             /\ ~ToCome("inject_object_field_errors")' /\ ~Running("inject_object_field_errors")'
      <4>1. CASE Running("inject_publication_conflict")'
        BY <2>11, <2>12, <3>4, <3>5, <3>6, <3>7, <4>1
      <4>2. CASE Entries("RIGHTS001")' # {}
        BY <2>10, <3>1, <3>4, <3>7, <4>2 DEF PlanInv
      <4> QED BY <4>1, <4>2
    <3>9. Running("inject_publication_conflict")' \/ ToCome("inject_publication_conflict")' =>
             Entries("VOCAB001")' = {} /\ ~Running("inject_object_field_errors")'
      BY <2>10, <3>1, <3>4, <3>5, <3>7 DEF PlanInv
    <3> QED BY <3>2, <3>3, <3>8, <3>9 DEF PlanInv
  <2>14. PoolInv'
    <3>1. PICK name : name = injector
      OBVIOUS
    <3>2. Owner(Head(loops'))  = name /\ pool' = PoolOf(injector)
      BY <2>1, <2>5, <3>1 DEF first
    <3>3. ASSUME NEW i \in PoolOf(injector)
          PROVE  Usable(name, i)'
      <4>1. Usable(name, i)
        BY <2>4, <3>1
      <4> QED BY <1>2, <2>10, <4>1 DEF Usable, Untouched
    <3> QED BY <3>2, <3>3 DEF PoolInv
  <2>15. ExtraInv'
    <3>1. \A k \in DOMAIN data.locations : data.locations[k].location_id < 0 =>
             ~ToCome("inject_extra_current_location")
      BY DEF BenchInv, ExtraInv
    <3>2. "inject_extra_current_location" \in DOMAIN Loops
      BY DEF Loops
    <3> QED BY <1>2, <2>2, <2>11, <2>12, <3>1, <3>2 DEF ExtraInv
  <2> QED BY <2>7, <2>8, <2>9, <2>10, <2>13, <2>14, <2>15 DEF BenchInv
<1> QED BY <1>3, <1>4

LEMMA NextBench == BenchInv /\ [Next]_vars => BenchInv'
<1> SUFFICES ASSUME BenchInv, [Next]_vars PROVE BenchInv'
  OBVIOUS
<1>1. CASE Call
  BY <1>1, CallKeeps
<1>2. CASE EndLoop
  BY <1>2, EndKeeps
<1>3. CASE DuplicateAccession
  BY <1>3, DuplicateKeeps
<1>4. CASE BlankField
  BY <1>4, BlankKeeps
<1>5. CASE InvertDates
  BY <1>5, InvertKeeps
<1>6. CASE BadVocabulary
  BY <1>6, VocabularyKeeps
<1>7. CASE BadType
  BY <1>7, TypeKeeps
<1>8. CASE OrphanMedia
  BY <1>8, OrphanMediaKeeps
<1>9. CASE OrphanRights
  BY <1>9, OrphanRightsKeeps
<1>10. CASE PublishAnyway
  BY <1>10, PublishKeeps
<1>11. CASE ExtraLocation
  BY <1>11, ExtraLocationKeeps
<1>12. CASE MissingParent
  BY <1>12, MissingParentKeeps
<1>13. CASE Cycle
  BY <1>13, CycleKeeps
<1>14. CASE UNCHANGED vars
  BY <1>14, BenchUnchanged DEF vars
<1> QED BY <1>1, <1>2, <1>3, <1>4, <1>5, <1>6, <1>7, <1>8, <1>9, <1>10, <1>11, <1>12, <1>13, <1>14 DEF Next

LEMMA BenchAlways == Spec => []BenchInv
<1>1. Init => BenchInv
  BY InitBench
<1>2. BenchInv /\ [Next]_vars => BenchInv'
  BY NextBench
<1> QED BY <1>1, <1>2, PTL DEF Spec

(***************************************************************************)
(* For every clean data set and composable plan: an injector that accepts  *)
(* its counts has a row left for every error it makes (RowsSuffice).       *)
(***************************************************************************)
THEOREM RowsNeverRunOut == Spec => []RowsSuffice
<1>1. BenchInv => RowsSuffice
  BY RowsAreThere DEF BenchInv
<1> QED BY <1>1, BenchAlways, PTL

-----------------------------------------------------------------------------
(***************************************************************************)
(* Each rule finds what is labelled: what its labels are taken for, and    *)
(* what the rows are like where it finds something.                        *)
(***************************************************************************)
LEMMA ExpectedIs == \A rule : Expected(rule) = {Key(e) : e \in Entries(rule)}
<1> TAKE rule
<1>1. ASSUME NEW x \in Expected(rule) PROVE x \in {Key(e) : e \in Entries(rule)}
  BY <1>1 DEF Expected, Labels, Entries, ToSet
<1>2. ASSUME NEW e \in Entries(rule) PROVE Key(e) \in Expected(rule)
  BY <1>2 DEF Expected, Labels, Entries, ToSet
<1> QED BY <1>1, <1>2

LEMMA KeysAre ==
    /\ \A rule : rule \notin {"CORE001", "CORE002"} => Expected(rule) = {e.id : e \in Entries(rule)}
    /\ Expected("CORE001") = {e.after : e \in Entries("CORE001")}
    /\ Expected("CORE002") = {<<e.id, e.field>> : e \in Entries("CORE002")}
<1>1. \A rule : \A e \in Entries(rule) : e.rule = rule
  BY DEF Entries
<1>2. \A rule : rule \notin {"CORE001", "CORE002"} => \A e \in Entries(rule) : Key(e) = e.id
  BY <1>1 DEF Key
<1>3. \A e \in Entries("CORE001") : Key(e) = e.after
  BY <1>1 DEF Key
<1>4. \A e \in Entries("CORE002") : Key(e) = <<e.id, e.field>>
  BY <1>1 DEF Key
<1>5. \A rule : rule \notin {"CORE001", "CORE002"} => Expected(rule) = {e.id : e \in Entries(rule)}
  BY <1>2, ExpectedIs
<1>6. Expected("CORE001") = {e.after : e \in Entries("CORE001")}
  BY <1>3, ExpectedIs
<1>7. Expected("CORE002") = {<<e.id, e.field>> : e \in Entries("CORE002")}
  BY <1>4, ExpectedIs
<1> QED BY <1>5, <1>6, <1>7

LEMMA NoLabelLost ==
    ASSUME BenchTyped, Apart, NEW rule
    PROVE  Cardinality(Expected(rule)) = Cardinality(Labels(rule))
<1> DEFINE S == Labels(rule)
           T == Expected(rule)
           key == [p \in S |-> Key(manifest[p])]
<1>1. IsFiniteSet(S)
  <2>1. IsFiniteSet(DOMAIN manifest)
    BY FiniteRows DEF BenchTyped
  <2> QED BY <2>1, FS_Subset DEF Labels
<1>2. key \in [S -> T] /\ key \in Surjection(S, T)
  BY DEF Expected, Surjection
<1>3. ASSUME NEW p \in S, NEW q \in S, key[p] = key[q]
      PROVE  p = q
  <2>1. /\ p \in DOMAIN manifest /\ q \in DOMAIN manifest
        /\ manifest[p].rule = rule /\ manifest[q].rule = rule
        /\ Key(manifest[p]) = Key(manifest[q])
    BY <1>3 DEF Labels
  <2>2. CASE rule = "CORE001"
    BY <2>1, <2>2 DEF Key, Apart
  <2>3. CASE rule = "CORE002"
    BY <2>1, <2>3 DEF Key, Apart
  <2>4. CASE rule \notin {"CORE001", "CORE002"}
    BY <2>1, <2>4 DEF Key, Apart
  <2> QED BY <2>2, <2>3, <2>4
<1> HIDE DEF S, T, key
<1>4. key \in Injection(S, T)
  BY <1>2, <1>3 DEF Injection, IsInjective
<1>5. Cardinality(T) = Cardinality(S)
  BY <1>1, <1>2, <1>4, FS_Surjection
<1> QED BY <1>5 DEF S, T

LEMMA TwoOrMore ==
    ASSUME NEW S, IsFiniteSet(S)
    PROVE  Cardinality(S) >= 2 <=> \E x, y \in S : x # y
<1>1. ASSUME NEW x \in S, NEW y \in S, x # y
      PROVE  Cardinality(S) >= 2
  <2> DEFINE P == {x, y}
  <2>1. IsFiniteSet(P) /\ Cardinality(P) = 2 /\ P \in SUBSET S
    BY <1>1, TwoRows
  <2> HIDE DEF P
  <2>2. Cardinality(P) <= Cardinality(S)
    BY <2>1, FS_Subset
  <2> QED BY <2>1, <2>2, FS_CardinalityType
<1>2. ASSUME Cardinality(S) >= 2
      PROVE  \E x, y \in S : x # y
  <2>1. S # {}
    BY <1>2, FS_EmptySet
  <2>2. PICK x : x \in S
    BY <2>1
  <2>3. S # {x}
    BY <1>2, FS_Singleton
  <2> QED BY <2>2, <2>3
<1> QED BY <1>1, <1>2

LEMMA FoundIs ==
    \A rule, type, id, field, keys, table, rows :
        /\ Rules!Found(rule, type, id, field, keys, table, rows).fp.id = id
        /\ Rules!Found(rule, type, id, field, keys, table, rows).fp.field = field
BY DEF Rules!Found

LEMMA SameCount == \A S : Rules!Cardinality(S) = Cardinality(S)
BY DEF Rules!Cardinality, Cardinality

LEMMA IdsAre ==
    ASSUME NEW X, NEW F, \A f \in F : f.fp.id \in X, \A x \in X : \E f \in F : f.fp.id = x
    PROVE  IdsIn(F) = X
BY DEF IdsIn

LEMMA ClosedCore001 == BenchInv => FoundBy("CORE001") = Expected("CORE001")
<1> SUFFICES ASSUME BenchInv PROVE FoundBy("CORE001") = Expected("CORE001")
  OBVIOUS
<1> DEFINE O == data.objects
           Group(v) == Rules!RowsWith(O, "accession_number", v)
<1>1. CoreInv /\ O \in Seq(ObjectRow)
  BY DEF BenchInv, BenchTyped, Data
<1>2. FoundBy("CORE001") =
        {v \in Rules!Values(O, "accession_number") \ {None} : Cardinality(Group(v)) >= 2}
  <2> DEFINE X == {v \in Rules!Values(O, "accession_number") \ {None} : Cardinality(Group(v)) >= 2}
             report(v) == Rules!Found("CORE001", "object", v, "accession_number",
                                      Rules!AccessionKeys(data, Group(v)), "objects", Group(v))
  <2>1. Rules!DuplicateAccessionNumber(data) = {report(v) : v \in X}
    BY SameCount DEF Rules!DuplicateAccessionNumber
  <2>2. \A v : report(v).fp.id = v
    BY FoundIs
  <2> HIDE DEF X, report
  <2>3. \A f \in Rules!DuplicateAccessionNumber(data) : f.fp.id \in X
    BY <2>1, <2>2
  <2>4. \A v \in X : \E f \in Rules!DuplicateAccessionNumber(data) : f.fp.id = v
    BY <2>1, <2>2
  <2> QED BY <2>3, <2>4, IdsAre DEF FoundBy, X
<1>3. ASSUME NEW v
      PROVE  /\ Group(v) = {i \in DOMAIN O : O[i].accession_number = v}
             /\ IsFiniteSet(Group(v))
  <2>1. Group(v) = {i \in DOMAIN O : O[i].accession_number = v}
    BY DEF Rules!RowsWith
  <2>2. IsFiniteSet(DOMAIN O)
    BY <1>1, FiniteRows
  <2> QED BY <2>1, <2>2, FS_Subset
<1> HIDE DEF Group
<1>4. Rules!Values(O, "accession_number") = {O[i].accession_number : i \in DOMAIN O}
  BY DEF Rules!Values
<1>5. DOMAIN O \subseteq Nat /\ None \notin Nat
  BY <1>1, SuitesAssumption
<1>6. ASSUME NEW v, v \in FoundBy("CORE001")
      PROVE  \E e \in Entries("CORE001") : e.after = v
  <2>1. v # None /\ Cardinality(Group(v)) >= 2
    BY <1>2, <1>6
  <2>2. PICK i, j \in Group(v) : i # j
    BY <1>3, <2>1, TwoOrMore
  <2>3. PICK k \in DOMAIN O : O[k].accession_number = v /\ k # v
    BY <1>3, <2>2
  <2> QED BY <1>1, <2>1, <2>3 DEF CoreInv
<1>7. ASSUME NEW e \in Entries("CORE001")
      PROVE  e.after \in FoundBy("CORE001")
  <2>1. /\ e.id \in DOMAIN O /\ e.after \in DOMAIN O /\ e.after # e.id
        /\ O[e.after].accession_number = e.after /\ O[e.id].accession_number = e.after
    BY <1>1 DEF CoreInv
  <2>2. e.id \in Group(e.after) /\ e.after \in Group(e.after)
    BY <1>3, <2>1
  <2>3. Cardinality(Group(e.after)) >= 2
    BY <1>3, <2>1, <2>2, TwoOrMore
  <2> QED BY <1>2, <1>4, <1>5, <2>1, <2>3
<1> QED BY <1>6, <1>7, KeysAre

LEMMA ClosedCore002 == BenchInv => FoundBy("CORE002") = Expected("CORE002")
<1> SUFFICES ASSUME BenchInv PROVE FoundBy("CORE002") = Expected("CORE002")
  OBVIOUS
<1> DEFINE O == data.objects
           F == {"accession_number", "object_name"}
           blank == {d \in (DOMAIN O) \X F : O[d[1]][d[2]] = None}
<1> DEFINE R == <<"accession_number", "object_name">>
<1>1. CoreInv /\ data.required_fields = R
  BY DEF BenchInv, BenchTyped, Data
<1>2. /\ \A k \in DOMAIN R : R[k] \in Rules!REQUIRABLE_OBJECT_FIELDS /\ R[k] \in F
      /\ \A f \in F : \E k \in DOMAIN R : R[k] = f
  <2>1. DOMAIN R = {1, 2} /\ R[1] = "accession_number" /\ R[2] = "object_name"
    OBVIOUS
  <2> QED BY <2>1 DEF Rules!REQUIRABLE_OBJECT_FIELDS
<1> HIDE DEF R, F
<1> DEFINE report(c) == [Rules!Found("CORE002", "object", O[c[1]].object_id, R[c[2]],
                                     Rules!Once(R[c[2]]), "objects", {c[1]}) EXCEPT !.asked = c[2]]
           cells == {d \in (DOMAIN O) \X (DOMAIN R) : O[d[1]][R[d[2]]] = None}
<1>3. Rules!RequiredFieldMissing(data) = {report(c) : c \in cells}
  <2>1. {d \in (DOMAIN O) \X (DOMAIN R) :
            R[d[2]] \in Rules!REQUIRABLE_OBJECT_FIELDS /\ O[d[1]][R[d[2]]] = None} = cells
    BY <1>2
  <2> HIDE DEF cells
  <2> QED BY <1>1, <2>1 DEF Rules!RequiredFieldMissing
<1>8. /\ \A c \in cells : \E d \in blank : d[1] = c[1] /\ d[2] = R[c[2]]
      /\ \A d \in blank : \E c \in cells : d[1] = c[1] /\ d[2] = R[c[2]]
  <2>1. ASSUME NEW c \in cells PROVE <<c[1], R[c[2]]>> \in blank
    BY <1>2
  <2>2. ASSUME NEW d \in blank, NEW k \in DOMAIN R, R[k] = d[2] PROVE <<d[1], k>> \in cells
    BY <2>2
  <2> QED BY <1>2, <2>1, <2>2
<1>4. FoundBy("CORE002") = {<<O[c[1]].object_id, c[2]>> : c \in blank}
  <2>1. \A c : report(c).fp.id = O[c[1]].object_id /\ report(c).fp.field = R[c[2]]
    BY FoundIs DEF Rules!Found
  <2>2. FoundBy("CORE002") = {<<f.fp.id, f.fp.field>> : f \in Rules!RequiredFieldMissing(data)}
    BY DEF FoundBy
  <2> HIDE DEF report, blank, cells
  <2>3. \A f \in Rules!RequiredFieldMissing(data) :
           \E c \in blank : <<f.fp.id, f.fp.field>> = <<O[c[1]].object_id, c[2]>>
    <3>1. ASSUME NEW f \in Rules!RequiredFieldMissing(data)
          PROVE  \E c \in blank : <<f.fp.id, f.fp.field>> = <<O[c[1]].object_id, c[2]>>
      <4>1. PICK c \in cells : f = report(c)
        BY <1>3
      <4>2. PICK d \in blank : d[1] = c[1] /\ d[2] = R[c[2]]
        BY <1>8
      <4> QED BY <2>1, <4>1, <4>2
    <3> QED BY <3>1
  <2>4. \A c \in blank : \E f \in Rules!RequiredFieldMissing(data) :
           <<f.fp.id, f.fp.field>> = <<O[c[1]].object_id, c[2]>>
    BY <1>3, <1>8, <2>1
  <2> QED BY <2>2, <2>3, <2>4
<1>5. ASSUME NEW c \in blank
      PROVE  \E e \in Entries("CORE002") : <<O[c[1]].object_id, c[2]>> = <<e.id, e.field>>
  <2>1. c[1] \in DOMAIN O /\ O[c[1]].object_id = c[1] /\ O[c[1]][c[2]] = None
    BY <1>1 DEF CoreInv, F
  <2>2. CASE c[2] = "accession_number"
    BY <1>1, <2>1, <2>2 DEF CoreInv
  <2>3. CASE c[2] = "object_name"
    BY <1>1, <2>1, <2>3 DEF CoreInv
  <2>4. c[2] \in F
    OBVIOUS
  <2> QED BY <2>2, <2>3, <2>4 DEF F
<1>6. ASSUME NEW e \in Entries("CORE002")
      PROVE  \E c \in blank : <<O[c[1]].object_id, c[2]>> = <<e.id, e.field>>
  <2>1. e.id \in DOMAIN O /\ O[e.id].object_id = e.id /\ e.field \in F
    BY <1>1 DEF CoreInv, F
  <2>2. O[e.id][e.field] = None
    <3>1. CASE e.field = "accession_number"
      BY <1>1, <2>1, <3>1 DEF CoreInv
    <3>2. CASE e.field = "object_name"
      BY <1>1, <2>1, <3>2 DEF CoreInv
    <3> QED BY <2>1, <3>1, <3>2 DEF F
  <2>3. <<e.id, e.field>> \in blank
    BY <2>1, <2>2
  <2> QED BY <2>1, <2>3
<1> HIDE DEF blank
<1> QED BY <1>4, <1>5, <1>6, KeysAre

\* Object ids are row numbers, rights ids 1 and 2.
LEMMA IdsOfTables ==
    ASSUME BenchInv
    PROVE  /\ Rules!Values(data.objects, "object_id") = DOMAIN data.objects
           /\ Rules!Values(data.rights, "rights_id") = {1, 2}
           /\ \A i \in DOMAIN data.objects : data.objects[i].object_id = i
           /\ \A i \in DOMAIN data.media :
                 data.media[i].media_id = i /\ data.media[i] \in MediaRow
<1>1. data \in Data /\ CoreInv /\ MediaInv
  BY DEF BenchInv, BenchTyped
<1>2. \A i \in DOMAIN data.objects : data.objects[i].object_id = i
  BY <1>1 DEF CoreInv
<1>3. data.rights = CleanRights /\ data.media \in Seq(MediaRow)
  BY <1>1 DEF Data
<1>4. Rules!Values(data.rights, "rights_id") = {1, 2}
  BY <1>3, CleanRightsAre DEF Rules!Values
<1>5. \A i \in DOMAIN data.media : data.media[i].media_id = i /\ data.media[i] \in MediaRow
  BY <1>1, <1>3 DEF MediaInv
<1>6. Rules!Values(data.objects, "object_id") = DOMAIN data.objects
  BY <1>2 DEF Rules!Values
<1> QED BY <1>2, <1>4, <1>5, <1>6

LEMMA ClosedRef001 == BenchInv => FoundBy("REF001") = Expected("REF001")
<1> SUFFICES ASSUME BenchInv PROVE FoundBy("REF001") = Expected("REF001")
  OBVIOUS
<1> DEFINE M == data.media
           orphans == {k \in DOMAIN M : M[k].object_id \notin {None} \cup DOMAIN data.objects}
           X == {e.id : e \in Entries("REF001")}
           report(i) == Rules!Found("REF001", "media", M[i].media_id, "object_id",
                                    Rules!Once(M[i].object_id), "media", {i})
<1>1. MediaInv /\ \A i \in DOMAIN M : M[i].media_id = i /\ M[i] \in MediaRow
  BY IdsOfTables DEF BenchInv
<1>2. Rules!OrphanMediaObject(data) = {report(i) : i \in orphans}
  BY IdsOfTables DEF Rules!OrphanMediaObject
<1>3. \A i : report(i).fp.id = M[i].media_id
  BY FoundIs
<1>4. \A i \in DOMAIN M : M[i].object_id # None
  <2>1. None \notin Int
    BY SuitesAssumption
  <2> QED BY <1>1, <2>1 DEF MediaRow
<1>5. orphans = X
  BY <1>1, <1>4 DEF MediaInv, Labelled
<1>6. orphans \subseteq DOMAIN M
  OBVIOUS
<1> HIDE DEF orphans, X, report, M
<1>7. \A f \in Rules!OrphanMediaObject(data) : f.fp.id \in X
  BY <1>1, <1>2, <1>3, <1>5, <1>6
<1>8. \A i \in X : \E f \in Rules!OrphanMediaObject(data) : f.fp.id = i
  BY <1>1, <1>2, <1>3, <1>5, <1>6
<1>9. FoundBy("REF001") = X
  BY <1>7, <1>8, IdsAre DEF FoundBy
<1> QED BY <1>9, KeysAre DEF X

\* What refers to rights records: media rows never do.
LEMMA RefererIs ==
    ASSUME BenchInv
    PROVE  /\ \A i \in DOMAIN data.objects :
                 /\ <<"objects", i>> \in Rules!Referers(data)
                 /\ Rules!Referer(data, <<"objects", i>>) = data.objects[i]
           /\ \A r \in Rules!Referers(data) :
                 \/ \E i \in DOMAIN data.objects : r = <<"objects", i>>
                 \/ Rules!Referer(data, r).rights_id = None
           /\ \A rule, field : \A i \in DOMAIN data.objects :
                 Rules!FoundAt(data, rule, <<"objects", i>>, field).fp.id = i
<1>1. \A i \in DOMAIN data.objects :
         /\ <<"objects", i>> \in Rules!Referers(data)
         /\ Rules!Referer(data, <<"objects", i>>) = data.objects[i]
  BY DEF Rules!Referers, Rules!Referer
<1>2. ASSUME NEW r \in Rules!Referers(data), ~\E i \in DOMAIN data.objects : r = <<"objects", i>>
      PROVE  Rules!Referer(data, r).rights_id = None
  <2>1. PICK i \in DOMAIN data.media : r = <<"media", i>>
    BY <1>2 DEF Rules!Referers
  <2>2. Rules!Referer(data, r) = data.media[i] /\ data.media[i] \in MediaRow
    BY <2>1, IdsOfTables DEF Rules!Referer
  <2> QED BY <2>2 DEF MediaRow
<1>3. \A rule, field : \A i \in DOMAIN data.objects :
         Rules!FoundAt(data, rule, <<"objects", i>>, field).fp.id = i
  <2> TAKE rule, field
  <2> TAKE i \in DOMAIN data.objects
  <2> DEFINE row == data.objects[i]
  <2>1. Rules!FoundAt(data, rule, <<"objects", i>>, field) =
          Rules!Found(rule, "object", row.object_id, field, Rules!Once(row.rights_id), "objects", {i})
    BY <1>1 DEF Rules!FoundAt
  <2> QED BY <2>1, FoundIs, IdsOfTables
<1> QED BY <1>1, <1>2, <1>3

LEMMA ClosedRef002 == BenchInv => FoundBy("REF002") = Expected("REF002")
<1> SUFFICES ASSUME BenchInv PROVE FoundBy("REF002") = Expected("REF002")
  OBVIOUS
<1> DEFINE X == {e.id : e \in Entries("REF002")}
           F == Rules!OrphanRightsReference(data)
           dangling == {q \in Rules!Referers(data) :
                          Rules!Referer(data, q).rights_id \notin {None} \cup {1, 2}}
           report(r) == Rules!FoundAt(data, "REF002", r, "rights_id")
<1>1. F = {report(r) : r \in dangling}
  BY IdsOfTables DEF Rules!OrphanRightsReference
<1>2. \A r \in dangling : \E i \in DOMAIN data.objects : r = <<"objects", i>> /\ i \in X
  <2> TAKE r \in dangling
  <2>1. PICK i \in DOMAIN data.objects : r = <<"objects", i>>
    BY RefererIs
  <2>2. data.objects[i].rights_id \notin {None, 1, 2}
    BY <2>1, RefererIs
  <2> QED BY <2>1, <2>2 DEF BenchInv, StatusInv, Labelled
<1>3. \A i \in X : i \in DOMAIN data.objects /\ <<"objects", i>> \in dangling
  <2> TAKE i \in X
  <2>1. i \in DOMAIN data.objects /\ Labelled("REF002", i)
    BY DEF BenchInv, StatusInv, Labelled
  <2>2. data.objects[i].rights_id \notin {None, 1, 2}
    BY <2>1 DEF BenchInv, StatusInv
  <2> QED BY <2>1, <2>2, RefererIs
<1>4. \A i \in DOMAIN data.objects : report(<<"objects", i>>).fp.id = i
  BY RefererIs
<1> HIDE DEF X, dangling, report, F
<1>5. \A f \in F : f.fp.id \in X
  BY <1>1, <1>2, <1>4
<1>6. \A i \in X : \E f \in F : f.fp.id = i
  BY <1>1, <1>3, <1>4
<1>7. IdsIn(F) = X
  BY <1>5, <1>6, IdsAre
<1> QED BY <1>7, KeysAre DEF FoundBy, F, X

LEMMA OneMax == \A i \in Int : Rules!Max({i}) = i
BY DEF Rules!Max

\* Only the second rights record forbids.
LEMMA ForbiddenIs ==
    ASSUME BenchInv, NEW id \in Int
    PROVE  Rules!NotPermitted(data, id) <=> id = 2
<1>1. data.rights = CleanRights
  BY DEF BenchInv, BenchTyped, Data
<1>2. \A k \in {1, 2} : Rules!Record(data.rights, "rights_id", k) = data.rights[k]
  <2> TAKE k \in {1, 2}
  <2>1. Rules!RowsWith(data.rights, "rights_id", k) = {k}
    BY <1>1, CleanRightsAre DEF Rules!RowsWith
  <2> QED BY <2>1, OneMax DEF Rules!Record
<1> QED BY <1>1, <1>2, CleanRightsAre, IdsOfTables DEF Rules!NotPermitted

LEMMA ClosedRights001 == BenchInv => FoundBy("RIGHTS001") = Expected("RIGHTS001")
<1> SUFFICES ASSUME BenchInv PROVE FoundBy("RIGHTS001") = Expected("RIGHTS001")
  OBVIOUS
<1> DEFINE X == {e.id : e \in Entries("RIGHTS001")}
           F == Rules!PublicationConflict(data)
           conflicts == {q \in Rules!Referers(data) :
                           /\ Rules!Referer(data, q).publication_status \in {"public"}
                           /\ Rules!Referer(data, q).rights_id # None
                           /\ Rules!NotPermitted(data, Rules!Referer(data, q).rights_id)}
           report(r) == Rules!FoundAt(data, "RIGHTS001", r, "publication_status")
<1>1. F = {report(r) : r \in conflicts}
  BY DEF Rules!PublicationConflict, Rules!PUBLIC_VALUES
<1>a. None \notin Int
  BY SuitesAssumption
<1>b. \A i \in DOMAIN data.objects : data.objects[i].rights_id \in Int \cup {None}
  <2>1. data.objects \in Seq(ObjectRow)
    BY DEF BenchInv, BenchTyped, Data
  <2>2. \A i \in DOMAIN data.objects : data.objects[i] \in ObjectRow
    BY <2>1
  <2> QED BY <2>2 DEF ObjectRow
<1>2. \A r \in conflicts : \E i \in DOMAIN data.objects : r = <<"objects", i>> /\ i \in X
  <2> TAKE r \in conflicts
  <2>1. PICK i \in DOMAIN data.objects : r = <<"objects", i>>
    BY RefererIs
  <2>2. data.objects[i].publication_status = "public" /\ data.objects[i].rights_id = 2
    BY <1>b, <2>1, RefererIs, ForbiddenIs
  <2> QED BY <2>1, <2>2 DEF BenchInv, StatusInv, Labelled
<1>3. \A i \in X : i \in DOMAIN data.objects /\ <<"objects", i>> \in conflicts
  <2> TAKE i \in X
  <2>1. i \in DOMAIN data.objects /\ Labelled("RIGHTS001", i)
    BY DEF BenchInv, StatusInv, Labelled
  <2>2. data.objects[i].publication_status = "public" /\ data.objects[i].rights_id = 2
    BY <2>1 DEF BenchInv, StatusInv
  <2> QED BY <1>a, <2>1, <2>2, RefererIs, ForbiddenIs
<1>4. \A i \in DOMAIN data.objects : report(<<"objects", i>>).fp.id = i
  BY RefererIs
<1> HIDE DEF X, conflicts, report, F
<1>5. \A f \in F : f.fp.id \in X
  BY <1>1, <1>2, <1>4
<1>6. \A i \in X : \E f \in F : f.fp.id = i
  BY <1>1, <1>3, <1>4
<1>7. IdsIn(F) = X
  BY <1>5, <1>6, IdsAre
<1> QED BY <1>7, KeysAre DEF FoundBy, F, X

LEMMA ClosedLoc001 == BenchInv => FoundBy("LOC001") = Expected("LOC001")
<1> SUFFICES ASSUME BenchInv PROVE FoundBy("LOC001") = Expected("LOC001")
  OBVIOUS
<1> DEFINE L == data.locations
           Current(o) == {i \in Rules!RowsWith(L, "object_id", o) : L[i].is_current = TRUE}
           X == {v \in Rules!Values(L, "object_id") \ {None} : Cardinality(Current(v)) >= 2}
           F == Rules!MultipleCurrentLocations(data)
           report(o) == Rules!Found("LOC001", "object", o, "current_location_id",
                                    Rules!Column(L, Current(o), "location_id"), "locations", Current(o))
           E == {e.id : e \in Entries("LOC001")}
<1>1. PlaceInv /\ L \in Seq(LocationRow) /\ manifest \in Seq(LabelRow)
  BY DEF BenchInv, BenchTyped, Data
<1>2. F = {report(o) : o \in X}
  BY SameCount DEF Rules!MultipleCurrentLocations
<1>3. \A o : Current(o) = CurrentAt(o)
  BY DEF Rules!RowsWith, CurrentAt
<1>4. \A o : IsFiniteSet(CurrentAt(o))
  <2>1. IsFiniteSet(DOMAIN L)
    BY <1>1, FiniteRows
  <2> QED BY <2>1, FS_Subset DEF CurrentAt
<1>5. \A o : report(o).fp.id = o
  BY FoundIs
<1>6. Rules!Values(L, "object_id") = {L[k].object_id : k \in DOMAIN L}
  BY DEF Rules!Values
<1>7. \A k \in DOMAIN L : L[k].object_id \in Nat \cup {None}
  <2>1. \A k \in DOMAIN L : L[k] \in LocationRow
    BY <1>1
  <2> QED BY <2>1 DEF LocationRow
<1>8. \A e \in Entries("LOC001") : e.id \in Nat
  <2>1. \A p \in DOMAIN manifest : manifest[p] \in LabelRow
    BY <1>1
  <2>2. \A e \in Entries("LOC001") : e \in LabelRow
    BY <2>1 DEF Entries, ToSet
  <2> QED BY <2>2 DEF LabelRow
<1>9. \A o \in X : o \in E
  <2> TAKE o \in X
  <2>1. o \in Nat /\ Cardinality(CurrentAt(o)) >= 2
    BY <1>3, <1>6, <1>7
  <2>2. \E j, k \in CurrentAt(o) : j # k
    BY <1>4, <2>1, TwoOrMore
  <2> QED BY <1>1, <2>1, <2>2 DEF PlaceInv, Labelled
<1>10. \A o \in E : o \in X
  <2> TAKE o \in E
  <2>1. o \in Nat /\ Labelled("LOC001", o)
    BY <1>8 DEF Labelled
  <2>2. PICK j, k \in CurrentAt(o) : j # k
    BY <1>1, <2>1 DEF PlaceInv
  <2>3. Cardinality(Current(o)) >= 2
    <3>1. Cardinality(CurrentAt(o)) >= 2
      BY <1>4, <2>2, TwoOrMore
    <3> HIDE DEF Current
    <3> QED BY <1>3, <3>1
  <2>4. o \in Rules!Values(L, "object_id") /\ o # None
    BY <1>6, <2>1, <2>2, SuitesAssumption DEF CurrentAt
  <2> QED BY <2>3, <2>4
<1> HIDE DEF L, Current, X, F, report, E
<1>11. \A f \in F : f.fp.id \in E
  BY <1>2, <1>5, <1>9
<1>12. \A o \in E : \E f \in F : f.fp.id = o
  BY <1>2, <1>5, <1>10
<1>13. IdsIn(F) = E
  BY <1>11, <1>12, IdsAre
<1> QED BY <1>13, KeysAre DEF FoundBy, F, E

LEMMA ClosedVocab001 == BenchInv => FoundBy("VOCAB001") = Expected("VOCAB001")
<1> SUFFICES ASSUME BenchInv PROVE FoundBy("VOCAB001") = Expected("VOCAB001")
  OBVIOUS
<1> DEFINE O == data.objects
           words == data.controlled_vocabularies
           Value(i, f) == IF f \in DOMAIN O[i] THEN O[i][f] ELSE None
           unknown == {d \in (DOMAIN O) \X (DOMAIN words) :
                         Value(d[1], d[2]) \notin {None} \cup words[d[2]]}
           F == Rules!UnknownControlledValue(data)
           report(d) == Rules!Found("VOCAB001", "object", O[d[1]].object_id, d[2],
                                    [k \in {d[2], Value(d[1], d[2])} |-> 1], "objects", {d[1]})
           E == {e.id : e \in Entries("VOCAB001")}
<1>1. StatusInv /\ O \in Seq(ObjectRow) /\ words = [publication_status |-> {"public", "internal"}]
  BY DEF BenchInv, BenchTyped, Data, PUBLICATION_VOCABULARY
<1>2. F = {report(d) : d \in unknown}
  BY DEF Rules!UnknownControlledValue
<1>3. DOMAIN words = {"publication_status"} /\ words["publication_status"] = {"public", "internal"}
  BY <1>1
<1>4. \A i \in DOMAIN O :
         /\ Value(i, "publication_status") = O[i].publication_status
         /\ O[i].publication_status \in {"public", "internal", "confidential"}
  <2>1. \A i \in DOMAIN O : O[i] \in ObjectRow
    BY <1>1
  <2> QED BY <2>1 DEF ObjectRow
<1>5. \A d : report(d).fp.id = O[d[1]].object_id
  BY FoundIs
<1>6. \A i \in DOMAIN O : O[i].object_id = i
  BY IdsOfTables
<1>7. "confidential" # None
  BY SuitesAssumption
<1> HIDE DEF Value
<1>8. \A d \in unknown : d[1] \in DOMAIN O /\ d[1] \in E
  <2> TAKE d \in unknown
  <2>1. /\ d[1] \in DOMAIN O /\ d[2] = "publication_status"
        /\ Value(d[1], d[2]) \notin {None} \cup words[d[2]]
    BY <1>3
  <2>2. O[d[1]].publication_status = "confidential"
    BY <1>3, <1>4, <2>1
  <2> QED BY <1>1, <2>1, <2>2 DEF StatusInv, Labelled
<1>9. \A i \in E : i \in DOMAIN O /\ <<i, "publication_status">> \in unknown
  <2> TAKE i \in E
  <2>1. i \in DOMAIN O /\ Labelled("VOCAB001", i)
    BY <1>1 DEF StatusInv, Labelled
  <2>2. O[i].publication_status = "confidential"
    BY <1>1, <2>1 DEF StatusInv
  <2> QED BY <1>3, <1>4, <1>7, <2>1, <2>2
<1> HIDE DEF O, words, unknown, F, report, E
<1>10. \A f \in F : f.fp.id \in E
  BY <1>2, <1>5, <1>6, <1>8
<1>11. \A i \in E : \E f \in F : f.fp.id = i
  <2> TAKE i \in E
  <2> DEFINE d == <<i, "publication_status">>
  <2>1. d \in unknown /\ d[1] = i /\ i \in DOMAIN O
    BY <1>9
  <2> HIDE DEF d
  <2> QED BY <1>2, <1>5, <1>6, <2>1
<1>12. IdsIn(F) = E
  BY <1>10, <1>11, IdsAre
<1> QED BY <1>12, KeysAre DEF FoundBy, F, E

\* The parser on the dates of the tables.
LEMMA ParsedDates ==
    /\ \A y \in Int : 1 <= y /\ y <= 9999 => DatesOf!ParseDate(y) = y
    /\ DatesOf!ParseDate(Junk) = None
<1> DEFINE last == 9999
<1>1. DatesOf!ParseDate(Junk) = None
  <2>1. Junk \notin Int
    BY SuitesAssumption
  <2> HIDE DEF last
  <2>2. \A x \in 1 .. last : x \in Int
    OBVIOUS
  <2>3. Junk \notin 1 .. last
    BY <2>1, <2>2
  <2> QED BY <2>3 DEF DatesOf!ParseDate, last
<1>2. ASSUME NEW y \in Int, 1 <= y, y <= last
      PROVE  DatesOf!ParseDate(y) = y
  <2>1. last \in Int
    OBVIOUS
  <2> HIDE DEF last
  <2>2. y \in 1 .. last
    BY <1>2, <2>1
  <2> QED BY <2>2 DEF DatesOf!ParseDate, last
<1> QED BY <1>1, <1>2

\* What the cells of a date range parse to.
LEMMA DatesAre ==
    ASSUME BenchInv, NEW i \in DOMAIN data.objects
    PROVE  LET start == data.objects[i].production_start_date
               end == data.objects[i].production_end_date
           IN  /\ end \in Int /\ DatesOf!ParseDate(end) = end
               /\ \/ /\ start = 1900 /\ DatesOf!ParseDate(start) = start /\ start \in Int /\ start <= end
                     /\ ~Labelled("DATE001", i) /\ ~Labelled("SCHEMA001", i)
                  \/ /\ start = 1950 /\ DatesOf!ParseDate(start) = start /\ start \in Int /\ start > end
                     /\ Labelled("DATE001", i) /\ ~Labelled("SCHEMA001", i)
                  \/ /\ start = Junk /\ DatesOf!ParseDate(start) = None
                     /\ ~Labelled("DATE001", i) /\ Labelled("SCHEMA001", i)
<1> DEFINE start == data.objects[i].production_start_date
           end == data.objects[i].production_end_date
<1>1. end \in Int
  <2>1. data.objects \in Seq(ObjectRow)
    BY DEF BenchInv, BenchTyped, Data
  <2>2. data.objects[i] \in ObjectRow
    BY <2>1
  <2> QED BY <2>2 DEF ObjectRow
<1>2. /\ 1 <= end /\ end <= 9999
      /\ \/ /\ start = 1900 /\ end >= 1900
            /\ ~Labelled("DATE001", i) /\ ~Labelled("SCHEMA001", i)
         \/ /\ start = 1950 /\ end = 1900
            /\ Labelled("DATE001", i) /\ ~Labelled("SCHEMA001", i)
         \/ /\ start = Junk
            /\ ~Labelled("DATE001", i) /\ Labelled("SCHEMA001", i)
  BY DEF BenchInv, DateInv
<1>3. DatesOf!ParseDate(end) = end
  BY <1>1, <1>2, ParsedDates
<1>4. DatesOf!ParseDate(1900) = 1900 /\ DatesOf!ParseDate(1950) = 1950 /\ DatesOf!ParseDate(Junk) = None
  BY ParsedDates
<1> HIDE DEF start, end
<1>5. CASE start = 1900
  BY <1>1, <1>2, <1>3, <1>4, <1>5, SuitesAssumption DEF start, end
<1>6. CASE start = 1950
  BY <1>1, <1>2, <1>3, <1>4, <1>6 DEF start, end
<1>7. CASE start = Junk
  BY <1>1, <1>2, <1>3, <1>4, <1>7 DEF start, end
<1> QED BY <1>2, <1>5, <1>6, <1>7

LEMMA ClosedDate001 == BenchInv => FoundBy("DATE001") = Expected("DATE001")
<1> SUFFICES ASSUME BenchInv PROVE FoundBy("DATE001") = Expected("DATE001")
  OBVIOUS
<1> DEFINE O == data.objects
           turned == {k \in DOMAIN O :
                        /\ None \notin {DatesOf!Start(O[k]), DatesOf!End(O[k])}
                        /\ DatesOf!Start(O[k]) > DatesOf!End(O[k])}
           report(i) == [rule |-> "DATE001", id |-> O[i].object_id,
                         key |-> <<DatesOf!Start(O[i]), DatesOf!End(O[i])>>]
           F == DatesOf!InvertedDateRange(O)
           E == {e.id : e \in Entries("DATE001")}
<1>1. F = {report(i) : i \in turned}
  BY DEF DatesOf!InvertedDateRange
<1>2. \A i : report(i).id = O[i].object_id
  OBVIOUS
<1>3. \A i \in DOMAIN O : O[i].object_id = i
  BY IdsOfTables
<1>4. None \notin Int
  BY SuitesAssumption
<1>5. ASSUME NEW i \in DOMAIN O
      PROVE  i \in turned <=> Labelled("DATE001", i)
  <2>1. /\ DatesOf!Start(O[i]) = DatesOf!ParseDate(O[i].production_start_date)
        /\ DatesOf!End(O[i]) = DatesOf!ParseDate(O[i].production_end_date)
    BY DEF DatesOf!Start, DatesOf!End
  <2> DEFINE start == O[i].production_start_date
             end == O[i].production_end_date
  <2>2. /\ end \in Int /\ DatesOf!End(O[i]) = end
        /\ \/ DatesOf!Start(O[i]) = start /\ start \in Int /\ start <= end /\ ~Labelled("DATE001", i)
           \/ DatesOf!Start(O[i]) = start /\ start \in Int /\ start > end /\ Labelled("DATE001", i)
           \/ DatesOf!Start(O[i]) = None /\ ~Labelled("DATE001", i)
    BY <2>1, DatesAre
  <2> HIDE DEF start, end
  <2> QED BY <1>4, <2>2
<1>6. \A e \in Entries("DATE001") : e.id \in DOMAIN O
  BY DEF BenchInv, DateInv
<1>7. \A i \in turned : i \in DOMAIN O
  OBVIOUS
<1> HIDE DEF turned, report, F
<1>8. {f.id : f \in F} = E
  <2>1. \A f \in F : f.id \in E
    BY <1>1, <1>2, <1>3, <1>5, <1>7 DEF Labelled
  <2>2. \A e \in Entries("DATE001") : \E f \in F : f.id = e.id
    BY <1>1, <1>2, <1>3, <1>5, <1>6 DEF Labelled
  <2> QED BY <2>1, <2>2
<1> QED BY <1>8, KeysAre DEF FoundBy, F

LEMMA ClosedSchema001 == BenchInv => FoundBy("SCHEMA001") = Expected("SCHEMA001")
<1> SUFFICES ASSUME BenchInv PROVE FoundBy("SCHEMA001") = Expected("SCHEMA001")
  OBVIOUS
<1> DEFINE O == data.objects
           fields == {"production_start_date", "production_end_date"}
           ill == {d \in (DOMAIN O) \X fields :
                     O[d[1]][d[2]] # Empty /\ DatesOf!ParseDate(O[d[1]][d[2]]) = None}
           report(c) == [rule |-> "SCHEMA001", id |-> O[c[1]].object_id, key |-> c[2]]
           F == DatesOf!InvalidFieldType(O, DatesOf!Typed)
           E == {e.id : e \in Entries("SCHEMA001")}
<1>1. F = {report(c) : c \in ill}
  <2>1. DatesOf!Typed \cap DatesOf!Typed = fields
    BY DEF DatesOf!Typed
  <2> QED BY <2>1 DEF DatesOf!InvalidFieldType
<1>2. \A c : report(c).id = O[c[1]].object_id
  OBVIOUS
<1>3. \A i \in DOMAIN O : O[i].object_id = i
  BY IdsOfTables
<1>4. None \notin Int /\ Junk # Empty
  BY SuitesAssumption
<1>5. \A i \in DOMAIN O : DatesOf!ParseDate(O[i].production_end_date) # None
  BY <1>4, DatesAre
<1>6. \A i \in DOMAIN O : Labelled("SCHEMA001", i) <=>
         /\ O[i].production_start_date # Empty
         /\ DatesOf!ParseDate(O[i].production_start_date) = None
  BY <1>4, DatesAre
<1>7. \A c \in ill : c[1] \in DOMAIN O /\ Labelled("SCHEMA001", c[1])
  <2> TAKE c \in ill
  <2>1. c[1] \in DOMAIN O /\ c[2] \in fields /\ O[c[1]][c[2]] # Empty
        /\ DatesOf!ParseDate(O[c[1]][c[2]]) = None
    OBVIOUS
  <2>2. CASE c[2] = "production_start_date"
    BY <1>6, <2>1, <2>2
  <2>3. CASE c[2] = "production_end_date"
    BY <1>5, <2>1, <2>3
  <2> QED BY <2>1, <2>2, <2>3
<1>8. \A e \in Entries("SCHEMA001") :
         e.id \in DOMAIN O /\ <<e.id, "production_start_date">> \in ill
  <2> TAKE e \in Entries("SCHEMA001")
  <2>1. e.id \in DOMAIN O /\ Labelled("SCHEMA001", e.id)
    BY DEF BenchInv, DateInv, Labelled
  <2> QED BY <1>6, <2>1
<1> HIDE DEF ill, report, F
<1>9. {f.id : f \in F} = E
  <2>1. \A f \in F : f.id \in E
    BY <1>1, <1>2, <1>3, <1>7 DEF Labelled
  <2>2. \A e \in Entries("SCHEMA001") : \E f \in F : f.id = e.id
    <3> TAKE e \in Entries("SCHEMA001")
    <3> DEFINE c == <<e.id, "production_start_date">>
    <3>1. c \in ill /\ c[1] = e.id /\ e.id \in DOMAIN O
      BY <1>8
    <3> HIDE DEF c
    <3> QED BY <1>1, <1>2, <1>3, <3>1
  <2> QED BY <2>1, <2>2
<1> QED BY <1>9, KeysAre DEF FoundBy, F

(***************************************************************************)
(* LOC002: a node that is not labelled lies on no cycle.  The labelled     *)
(* nodes and those before it are closed under the parent and do not hold   *)
(* it, for its parent comes before it, and the parent of a labelled node   *)
(* is labelled or missing.                                                 *)
(***************************************************************************)
Ids == {data.locations[k].location_id : k \in DOMAIN data.locations}

LEMMA IdsAreApart ==
    ASSUME BenchInv
    PROVE  /\ DOMAIN data.locations \subseteq Nat
           /\ \A l \in Ids : l \in Int
           /\ \A m \in 0 .. MaxErrors : MissingId(m) \notin Ids /\ MissingId(m) \in Int
           /\ None \notin Ids
<1>1. data.locations \in Seq(LocationRow) /\ PlaceInv /\ MaxErrors \in Nat /\ None \notin Int
  BY SuitesAssumption DEF BenchInv, BenchTyped, Data
<1>2. DOMAIN data.locations \subseteq Nat /\ \A k \in DOMAIN data.locations : k >= 1
  BY <1>1
<1>3. ASSUME NEW k \in DOMAIN data.locations
      PROVE  data.locations[k].location_id \in Int
  <2>1. data.locations[k] \in LocationRow
    BY <1>1
  <2> QED BY <2>1 DEF LocationRow
<1>4. ASSUME NEW m \in 0 .. MaxErrors, NEW k \in DOMAIN data.locations
      PROVE  data.locations[k].location_id # MissingId(m)
  <2>1. m \in Nat /\ \A j \in 0 .. MaxErrors : j \in Nat
    BY <1>1
  <2>2. CASE data.locations[k].location_id = k
    BY <1>2, <2>1, <2>2 DEF MissingId
  <2>3. CASE \E j \in 0 .. MaxErrors : data.locations[k].location_id = ExtraId(j)
    BY <2>1, <2>3 DEF MissingId, ExtraId
  <2> QED BY <1>1, <2>2, <2>3 DEF PlaceInv
<1>5. \A m \in 0 .. MaxErrors : MissingId(m) \in Int
  BY <1>1 DEF MissingId
<1> QED BY <1>1, <1>2, <1>3, <1>4, <1>5 DEF Ids

\* ParentOf, by the rows.
LEMMA ParentsAre ==
    ASSUME BenchInv
    PROVE  /\ DOMAIN ParentOf = Ids
           /\ \A k \in DOMAIN data.locations :
                 ParentOf[data.locations[k].location_id] = data.locations[k].parent_location_id
<1> DEFINE L == data.locations
<1>1. DOMAIN ParentOf = Ids
  BY DEF ParentOf, Ids, Rules!Values
<1>2. ASSUME NEW k \in DOMAIN L
      PROVE  ParentOf[L[k].location_id] = L[k].parent_location_id
  <2>1. L[k].location_id \in Rules!Values(L, "location_id")
    BY DEF Rules!Values
  <2>2. ParentOf[L[k].location_id] = Rules!Record(L, "location_id", L[k].location_id).parent_location_id
    BY <2>1 DEF ParentOf
  <2>3. Rules!RowsWith(L, "location_id", L[k].location_id) = {k}
    BY DEF Rules!RowsWith, BenchInv, PlaceInv
  <2>4. k \in Int
    BY IdsAreApart
  <2>5. Rules!Record(L, "location_id", L[k].location_id) = L[k]
    BY <2>3, <2>4, OneMax DEF Rules!Record
  <2> QED BY <2>2, <2>5
<1> QED BY <1>1, <1>2

LEMMA NodesAre ==
    ASSUME BenchInv
    PROVE  /\ \A k : IsNode(k) => /\ k \in DOMAIN data.locations /\ k \in Ids /\ k \in Nat
                                  /\ data.locations[k].location_id = k
                                  /\ ParentOf[k] = data.locations[k].parent_location_id
           /\ \A l \in Ids : IsNode(l) \/ ParentOf[l] = None
<1>1. PlaceInv
  BY DEF BenchInv
<1>2. ASSUME NEW k, IsNode(k)
      PROVE  /\ k \in DOMAIN data.locations /\ k \in Ids /\ k \in Nat
             /\ data.locations[k].location_id = k
             /\ ParentOf[k] = data.locations[k].parent_location_id
  <2>1. k \in DOMAIN data.locations /\ data.locations[k].location_id = k
    BY <1>1, <1>2 DEF IsNode, PlaceInv
  <2>2. k \in Ids
    BY <2>1 DEF Ids
  <2>3. ParentOf[data.locations[k].location_id] = data.locations[k].parent_location_id
    BY <2>1, ParentsAre
  <2> QED BY <2>1, <2>2, <2>3, IdsAreApart
<1>3. ASSUME NEW l \in Ids, ~IsNode(l)
      PROVE  ParentOf[l] = None
  <2>1. PICK k \in DOMAIN data.locations : data.locations[k].location_id = l
    BY DEF Ids
  <2>2. CASE data.locations[k].object_id = None
    BY <1>1, <1>3, <2>1, <2>2 DEF IsNode, PlaceInv
  <2>3. CASE data.locations[k].object_id # None
    BY <1>1, <2>1, <2>3, ParentsAre DEF PlaceInv
  <2> QED BY <2>2, <2>3
<1> QED BY <1>2, <1>3

LEMMA ClosedLoc002 == BenchInv => FoundBy("LOC002") = Expected("LOC002")
<1> SUFFICES ASSUME BenchInv PROVE FoundBy("LOC002") = Expected("LOC002")
  OBVIOUS
<1> DEFINE known == DOMAIN ParentOf
           inside == {l \in known : ParentOf[l] \in known}
           Closed(S, l) == \A m \in S \cup {l} : ParentOf[m] \in inside => ParentOf[m] \in S
           OnCycle(l) == \A S \in SUBSET inside : Closed(S, l) => l \in S
           E == {e.id : e \in Entries("LOC002")}
<1>1. BadHierarchy = {l \in known : ParentOf[l] \notin known \cup {None}} \cup {l \in inside : OnCycle(l)}
  BY DEF BadHierarchy
<1>2. known = Ids /\ None \notin known
  BY ParentsAre, IdsAreApart
<1>3. \A k : IsNode(k) => k \in known /\ k \in Nat
  BY <1>2, NodesAre
<1>4. \A l \in known : IsNode(l) \/ ParentOf[l] = None
  BY <1>2, NodesAre
<1>5. \A k : k \in E <=> Labelled("LOC002", k)
  BY DEF Labelled
<1>6. \A k \in E : IsNode(k)
  BY DEF BenchInv, TreeInv
<1>7. ASSUME NEW k, IsNode(k)
      PROVE  \/ k \notin E /\ (ParentOf[k] = None \/ (ParentOf[k] \in 1 .. k - 1 /\ IsNode(ParentOf[k])))
             \/ k \in E /\ ParentOf[k] \notin known \cup {None}
             \/ k \in E /\ ParentOf[k] # k /\ ParentOf[k] \in E /\ ParentOf[ParentOf[k]] = k
  <2> DEFINE parent == data.locations[k].parent_location_id
  <2>1. k \in DOMAIN data.locations /\ ParentOf[k] = parent
    BY <1>7, NodesAre
  <2>2. \/ ~Labelled("LOC002", k) /\ (parent = None \/ (parent \in 1 .. k - 1 /\ IsNode(parent)))
        \/ Labelled("LOC002", k) /\ \E m \in 0 .. MaxErrors : parent = MissingId(m)
        \/ /\ Labelled("LOC002", k) /\ parent # k
           /\ IsNode(parent) /\ Labelled("LOC002", parent)
           /\ data.locations[parent].parent_location_id = k
    BY <1>7, <2>1 DEF BenchInv, TreeInv
  <2>3. IsNode(parent) => ParentOf[parent] = data.locations[parent].parent_location_id
    BY NodesAre
  <2>4. \A m \in 0 .. MaxErrors : MissingId(m) \notin known \cup {None}
    <3>1. None \notin Int
      BY SuitesAssumption
    <3> QED BY <1>2, <3>1, IdsAreApart
  <2> HIDE DEF parent, known, E
  <2> QED BY <1>5, <2>1, <2>2, <2>3, <2>4
<1> HIDE DEF known, E
<1>8. ASSUME NEW k \in E
      PROVE  k \in BadHierarchy
  <2>1. IsNode(k) /\ k \in known
    BY <1>3, <1>6
  <2>2. CASE ParentOf[k] \notin known \cup {None}
    BY <1>1, <2>1, <2>2
  <2>3. CASE ParentOf[k] # k /\ ParentOf[k] \in E /\ ParentOf[ParentOf[k]] = k
    <3>1. ParentOf[k] \in known /\ k \in inside /\ ParentOf[k] \in inside
      BY <1>3, <1>6, <2>1, <2>3
    <3>2. ASSUME NEW S \in SUBSET inside, Closed(S, k)
          PROVE  k \in S
      <4>1. ParentOf[k] \in S
        BY <3>1, <3>2
      <4> QED BY <2>3, <3>1, <3>2, <4>1
    <3> QED BY <1>1, <3>1, <3>2
  <2> QED BY <1>7, <2>1, <2>2, <2>3
<1>9. ASSUME NEW k \in BadHierarchy
      PROVE  k \in E
  <2> SUFFICES ASSUME k \notin E PROVE FALSE
    OBVIOUS
  <2>1. k \in known
    BY <1>1
  <2>2. ParentOf[k] # None
    BY <1>1, <1>2
  <2>3. IsNode(k) /\ k \in Nat
    BY <1>3, <1>4, <2>1, <2>2
  <2>4. ParentOf[k] \in 1 .. k - 1 /\ IsNode(ParentOf[k]) /\ ParentOf[k] \in known
    BY <1>3, <1>7, <2>2, <2>3
  <2>5. k \in inside /\ OnCycle(k)
    BY <1>1, <2>4
  <2> DEFINE S == {j \in inside : j \in E \/ (j \in Nat /\ j < k)}
  <2>6. S \in SUBSET inside /\ k \notin S
    BY <2>3
  <2>7. ASSUME NEW m \in S \cup {k}, ParentOf[m] \in inside
        PROVE  ParentOf[m] \in S
    <3>1. m \in known /\ ParentOf[m] \in known
      BY <2>1, <2>7
    <3>2. IsNode(m) /\ m \in Nat
      BY <1>2, <1>3, <1>4, <3>1
    <3>3. CASE m \in E
      <4>1. ParentOf[m] \in E
        BY <1>7, <3>1, <3>2, <3>3
      <4> QED BY <2>7, <4>1
    <3>4. CASE m \notin E
      <4>1. m <= k
        BY <2>3, <3>2, <3>4
      <4>2. ParentOf[m] \in 1 .. m - 1
        BY <1>2, <1>7, <3>1, <3>2, <3>4
      <4>3. ParentOf[m] \in Nat /\ ParentOf[m] < k
        BY <2>3, <3>2, <4>1, <4>2
      <4> QED BY <2>7, <4>3
    <3> QED BY <3>3, <3>4
  <2> HIDE DEF S, inside
  <2> QED BY <2>5, <2>6, <2>7
<1>10. BadHierarchy = E
  BY <1>8, <1>9
<1> QED BY <1>10, KeysAre DEF FoundBy, E

(***************************************************************************)
(* For every clean data set and composable plan, whatever rows are drawn   *)
(* and however far the injection is: each of the ten rules finds exactly   *)
(* what is labelled for it, and as many findings are expected as there are *)
(* labels (Closure).                                                       *)
(***************************************************************************)
THEOREM BenchmarkCloses == Spec => []Closure
<1>1. BenchInv => Closure
  <2> SUFFICES ASSUME BenchInv, NEW rule \in ScoredRule
               PROVE  FoundBy(rule) = Expected(rule) /\ Cardinality(Expected(rule)) = Cardinality(Labels(rule))
    BY DEF Closure, FalsePositives, FalseNegatives
  <2>1. FoundBy(rule) = Expected(rule)
    BY ClosedCore001, ClosedCore002, ClosedRef001, ClosedRef002, ClosedRights001, ClosedLoc001,
       ClosedLoc002, ClosedDate001, ClosedVocab001, ClosedSchema001 DEF ScoredRule
  <2>2. BenchTyped /\ Apart
    BY DEF BenchInv
  <2> QED BY <2>1, <2>2, NoLabelLost
<1> QED BY <1>1, BenchAlways, PTL
=============================================================================
