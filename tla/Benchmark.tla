----------------------------- MODULE Benchmark ------------------------------
(***************************************************************************)
(* The benchmark (benchmark/): clean synthetic tables, injectors that put  *)
(* labelled errors into them one by one, and the score of a scan against   *)
(* the labels.  The random number generators are arbitrary choices.  Ids   *)
(* and accession numbers are numbers, negative where an injector makes one *)
(* up; a date is its year.  Of the clean rights records 1 permits          *)
(* publication and 2 does not.                                             *)
(***************************************************************************)
EXTENDS Integers, Sequences, SequencesExt, FiniteSets

CONSTANTS None, Empty, Junk,
          Suites,           \* data sets and what is done to them: sizes of the
                            \* clean tables, rights ids and statuses of objects,
                            \* lengths of production ranges, and plans, that
                            \* is sequences of injectors
          MaxErrors         \* per loop of an injector, a bound on its count

VARIABLES data,     \* the tables
          calls,    \* injectors still to be called
          loops,    \* loops of the running injector, the current one first
          count,    \* errors asked for, per loop
          n,        \* errors the current loop has made
          pool,     \* rows the running injector has not used
          manifest, \* the labels
          refused   \* an injector has raised ValueError

vars == <<data, calls, loops, count, n, pool, manifest, refused>>

Rules == INSTANCE EntityRules
DatesOf == INSTANCE DateRules WITH MaxYear <- 9999

-----------------------------------------------------------------------------
(***************************************************************************)
(* Clean tables: unique ids and accession numbers, every required cell     *)
(* filled, ranges in order; nodes form a tree; an object is public only if *)
(* its rights permit it, and has one current location.                     *)
(***************************************************************************)
PUBLICATION_VOCABULARY == {"public", "internal"}

CleanRights ==
    <<[rights_id |-> 1, rights_status |-> None, publication_allowed |-> TRUE, review_required |-> FALSE],
      [rights_id |-> 2, rights_status |-> "unknown", publication_allowed |-> FALSE, review_required |-> TRUE]>>

CleanObject(suite, i) ==
    {row \in [object_id : {i}, accession_number : {i}, title : {"Study"}, object_name : {"Bowl"},
              rights_id : suite.links, publication_status : suite.statuses,
              production_start_date : {1900}, production_end_date : {1900 + k : k \in suite.spans},
              maker_ids : {<<>>}] :
        row.publication_status = "public" => row.rights_id # 2}

CleanMedia(i) == [media_id |-> i, object_id |-> i, rights_id |-> None, publication_status |-> "public"]

Node(i, parent) == [location_id |-> i, parent_location_id |-> parent, object_id |-> None, is_current |-> None]
Assignment(i, object) ==
    [location_id |-> i, parent_location_id |-> None, object_id |-> object, is_current |-> TRUE]

Trees(nodes) ==
    {parent \in [1 .. nodes -> {None} \cup 1 .. nodes] :
        \A i \in 1 .. nodes : parent[i] \in (IF i = 1 THEN {None} ELSE 1 .. i - 1)}

Clean(suite) ==
    {[objects |-> o,
      media |-> [i \in 1 .. suite.objects |-> CleanMedia(i)],
      rights |-> CleanRights,
      locations |-> [i \in 1 .. suite.nodes + suite.objects |->
                        IF i <= suite.nodes THEN Node(i, tree[i]) ELSE Assignment(i, i - suite.nodes)],
      required_fields |-> <<"accession_number", "object_name">>,
      controlled_vocabularies |-> [publication_status |-> PUBLICATION_VOCABULARY]] :
        o \in {s \in [1 .. suite.objects -> UNION {CleanObject(suite, i) : i \in 1 .. suite.objects}] :
                  \A i \in 1 .. suite.objects : s[i] \in CleanObject(suite, i)},
        tree \in Trees(suite.nodes)}

-----------------------------------------------------------------------------
\* The loops of an injector, by the rule their errors are for.
Loops ==
    [inject_errors |-> <<"CORE001", "CORE002">>,
     inject_object_field_errors |-> <<"DATE001", "VOCAB001", "SCHEMA001">>,
     inject_orphan_media |-> <<"REF001">>,
     inject_orphan_rights |-> <<"REF002">>,
     inject_publication_conflict |-> <<"RIGHTS001">>,
     inject_extra_current_location |-> <<"LOC001">>,
     inject_location_hierarchy_errors |-> <<"LOC002_parent", "LOC002_cycle">>]

(***************************************************************************)
(* The plans whose labels are scored (run_benchmark and the accuracy       *)
(* tests) call no injector twice, take rights records away before they     *)
(* publish what they forbid, and do not also misspell statuses: either     *)
(* would take an earlier conflict back.                                    *)
(***************************************************************************)
Composable(plan) ==
    /\ \A p, q \in DOMAIN plan : plan[p] = plan[q] => p = q
    /\ \A p, q \in DOMAIN plan : plan[p] = "inject_publication_conflict" =>
          /\ plan[q] # "inject_object_field_errors"
          /\ plan[q] = "inject_orphan_rights" => q < p

ASSUME SuitesAssumption ==
    /\ MaxErrors \in Nat
    /\ None \notin Int /\ None \notin BOOLEAN
    /\ None \notin {"confidential", "Bowl", "Study"} \cup Rules!NON_PERMISSIVE_STATUS
    /\ Empty \notin Int /\ Junk \notin Int /\ Junk # Empty
    /\ \A suite \in Suites :
          /\ suite.objects \in Nat /\ suite.nodes \in Nat
          /\ suite.links \subseteq {None, 1, 2} /\ suite.statuses \subseteq PUBLICATION_VOCABULARY
          /\ \A k \in suite.spans : k \in Nat /\ 1900 + k <= 9999
          /\ \A plan \in suite.plans : plan \in Seq(DOMAIN Loops) /\ Composable(plan)

Init ==
    /\ \E suite \in Suites : data \in Clean(suite) /\ calls \in suite.plans
    /\ loops = <<>> /\ count = [r \in {} |-> 0] /\ n = 0
    /\ pool = {} /\ manifest = <<>> /\ refused = FALSE

-----------------------------------------------------------------------------
RowsPerError(loop) == IF loop \in {"CORE001", "LOC002_cycle"} THEN 2 ELSE 1

\* The rows some loops need, one slot for each: <<loop, error, row of the error>>.
Slots(asked) ==
    {s \in (DOMAIN asked) \X (1 .. MaxErrors) \X (1 .. 2) :
        s[2] <= asked[s[1]] /\ s[3] <= RowsPerError(s[1])}

\* Faulty variant: a duplicate is taken to need one row.
NeededOnce(asked) == Cardinality({s \in Slots(asked) : s[3] = 1})

Needed(asked) == Cardinality(Slots(asked))

\* restricted_rights_ids holds the ids of the rights rows that forbid.
Eligible ==
    {i \in DOMAIN data.objects :
        /\ \E k \in DOMAIN data.rights :
              data.rights[k].rights_id = data.objects[i].rights_id /\ ~Rules!Permits(data.rights[k])
        /\ data.objects[i].publication_status # "public"}

\* The rows an injector may use; for LOC001 the objects with a location.
PoolOf(injector) ==
    CASE injector = "inject_orphan_media" -> DOMAIN data.media
      [] injector = "inject_publication_conflict" -> Eligible
      [] injector = "inject_extra_current_location" ->
            {data.locations[i].object_id :
                i \in {k \in DOMAIN data.locations : data.locations[k].is_current = TRUE}}
      [] injector = "inject_location_hierarchy_errors" ->
            {i \in DOMAIN data.locations : data.locations[i].object_id = None}
      [] OTHER -> DOMAIN data.objects

Call ==
    /\ loops = <<>> /\ calls # <<>> /\ ~refused
    /\ \E asked \in [ToSet(Loops[Head(calls)]) -> 0 .. MaxErrors] :
          IF Needed(asked) > Cardinality(PoolOf(Head(calls)))
          THEN refused' = TRUE /\ UNCHANGED <<calls, loops, count, n, pool>>
          ELSE /\ count' = asked /\ loops' = Loops[Head(calls)] /\ n' = 0
               /\ pool' = PoolOf(Head(calls))
               /\ calls' = Tail(calls)
               /\ UNCHANGED refused
    /\ UNCHANGED <<data, manifest>>

EndLoop ==
    /\ loops # <<>> /\ n = count[Head(loops)]
    /\ loops' = Tail(loops)
    /\ n' = 0
    /\ UNCHANGED <<data, calls, count, pool, manifest, refused>>

\* One turn of a loop.
Turn(loop) ==
    /\ loops # <<>> /\ Head(loops) = loop /\ n < count[loop]
    /\ n' = n + 1
    /\ UNCHANGED <<calls, loops, count, refused>>

\* Faulty variant: rows are picked with replacement.
TakeAgain(rows) == rows \subseteq pool /\ UNCHANGED pool

\* next(pool)
Take(rows) == rows \subseteq pool /\ pool' = pool \ rows

Put(table, i, column, value) == data' = [data EXCEPT ![table][i][column] = value]

Label(rule, type, id, field, after) ==
    manifest' = Append(manifest, [rule |-> rule, type |-> type, id |-> id,
                                  field |-> field, after |-> after])

LabelObject(rule, i, field, after) == Label(rule, "object", data.objects[i].object_id, field, after)

DuplicateAccession ==
    /\ Turn("CORE001")
    /\ \E source, target \in pool :
          LET duplicated == data.objects[source].accession_number
          IN  /\ source # target /\ Take({source, target})
              /\ Put("objects", target, "accession_number", duplicated)
              /\ LabelObject("CORE001", target, "accession_number", duplicated)

BlankField ==
    /\ Turn("CORE002")
    /\ \E i \in pool :
          LET field == IF n % 2 = 0 THEN "accession_number" ELSE "object_name"
          IN  /\ Take({i})
              /\ Put("objects", i, field, None)
              /\ LabelObject("CORE002", i, field, None)

InvertDates ==
    /\ Turn("DATE001")
    /\ \E i \in pool :
          /\ Take({i})
          /\ data' = [data EXCEPT !.objects[i] =
                        [@ EXCEPT !.production_start_date = 1950, !.production_end_date = 1900]]
          /\ LabelObject("DATE001", i, "production_start_date", 1950)

SetCell(loop, field, value) ==
    /\ Turn(loop)
    /\ \E i \in pool :
          /\ Take({i})
          /\ Put("objects", i, field, value)
          /\ LabelObject(loop, i, field, value)

BadVocabulary == SetCell("VOCAB001", "publication_status", "confidential")
BadType == SetCell("SCHEMA001", "production_start_date", Junk)
OrphanRights == SetCell("REF002", "rights_id", -(n + 1))
PublishAnyway == SetCell("RIGHTS001", "publication_status", "public")

OrphanMedia ==
    /\ Turn("REF001")
    /\ \E i \in pool :
          /\ Take({i})
          /\ Put("media", i, "object_id", -(n + 1))
          /\ Label("REF001", "media", data.media[i].media_id, "object_id", -(n + 1))

\* Made-up location ids: EXTRA-ASG-1, ... and MISSING-LOC-1, ...
ExtraId(k) == -(2 * k + 1)
MissingId(k) == -(2 * k + 2)

ExtraLocation ==
    /\ Turn("LOC001")
    /\ \E o \in pool :
          /\ Take({o})
          /\ data' = [data EXCEPT !.locations = Append(@, Assignment(ExtraId(n), o))]
          /\ Label("LOC001", "object", o, "is_current", None)

MissingParent ==
    /\ Turn("LOC002_parent")
    /\ \E i \in pool :
          /\ Take({i})
          /\ Put("locations", i, "parent_location_id", MissingId(n))
          /\ Label("LOC002", "location", data.locations[i].location_id, "parent_location_id", None)

Cycle ==
    /\ Turn("LOC002_cycle")
    /\ \E a, b \in pool :
          LET Id(i) == data.locations[i].location_id
              LabelOf(i) == [rule |-> "LOC002", type |-> "location", id |-> Id(i),
                             field |-> "parent_location_id", after |-> None]
          IN  /\ a # b /\ Take({a, b})
              /\ data' = [data EXCEPT !.locations[a].parent_location_id = Id(b),
                                      !.locations[b].parent_location_id = Id(a)]
              /\ manifest' = manifest \o <<LabelOf(a), LabelOf(b)>>

Next ==
    \/ Call \/ EndLoop
    \/ DuplicateAccession \/ BlankField
    \/ InvertDates \/ BadVocabulary \/ BadType
    \/ OrphanMedia \/ OrphanRights \/ PublishAnyway
    \/ ExtraLocation \/ MissingParent \/ Cycle

Spec == Init /\ [][Next]_vars

-----------------------------------------------------------------------------
(***************************************************************************)
(* LOC002: the locations whose parent is unknown, and those that lie on a  *)
(* cycle, as module LocationHierarchy shows its walk to compute them: a    *)
(* set that holds the parents of its members and the location's own parent *)
(* holds the location.  No two rows have one id here.                      *)
(***************************************************************************)
ParentOf ==
    [l \in Rules!Values(data.locations, "location_id") |->
        Rules!Record(data.locations, "location_id", l).parent_location_id]

BadHierarchy ==
    LET known == DOMAIN ParentOf
        inside == {l \in known : ParentOf[l] \in known}
        OnCycle(l) == \A S \in SUBSET inside :
            (\A m \in S \cup {l} : ParentOf[m] \in inside => ParentOf[m] \in S) => l \in S
    IN  {l \in known : ParentOf[l] \notin known \cup {None}} \cup {l \in inside : OnCycle(l)}

ScoredRule ==
    {"CORE001", "CORE002", "REF001", "REF002", "RIGHTS001", "LOC001", "LOC002",
     "DATE001", "VOCAB001", "SCHEMA001"}

IdsIn(found) == {f.fp.id : f \in found}

\* score: what is taken from a finding to compare it with the labels.
FoundBy(rule) ==
    CASE rule = "CORE001" -> IdsIn(Rules!DuplicateAccessionNumber(data))
      [] rule = "CORE002" -> {<<f.fp.id, f.fp.field>> : f \in Rules!RequiredFieldMissing(data)}
      [] rule = "REF001" -> IdsIn(Rules!OrphanMediaObject(data))
      [] rule = "REF002" -> IdsIn(Rules!OrphanRightsReference(data))
      [] rule = "RIGHTS001" -> IdsIn(Rules!PublicationConflict(data))
      [] rule = "LOC001" -> IdsIn(Rules!MultipleCurrentLocations(data))
      [] rule = "LOC002" -> BadHierarchy
      [] rule = "DATE001" -> {f.id : f \in DatesOf!InvertedDateRange(data.objects)}
      [] rule = "VOCAB001" -> IdsIn(Rules!UnknownControlledValue(data))
      [] rule = "SCHEMA001" ->
            {f.id : f \in DatesOf!InvalidFieldType(data.objects, DatesOf!Typed)}

Labels(rule) == {p \in DOMAIN manifest : manifest[p].rule = rule}

\* What is taken from a label.
Key(e) ==
    CASE e.rule = "CORE001" -> e.after
      [] e.rule = "CORE002" -> <<e.id, e.field>>
      [] OTHER -> e.id

Expected(rule) == {Key(manifest[p]) : p \in Labels(rule)}

\* _metrics; a rule with nothing found and nothing expected scores 1.
FalsePositives(rule) == FoundBy(rule) \ Expected(rule)
FalseNegatives(rule) == Expected(rule) \ FoundBy(rule)

(***************************************************************************)
(* Benchmark closure (VL-01): at every moment of the injection, whatever   *)
(* rows were drawn and however the injectors follow each other, the rules  *)
(* find exactly what is labelled: clean tables are silent, an error is     *)
(* found by the one rule it is meant for, and hides no earlier one.  The   *)
(* labels of a rule are scored as a set, and none is lost in it: a         *)
(* benchmark of k errors asks for k findings.                              *)
(***************************************************************************)
Closure ==
    \A rule \in ScoredRule :
        /\ FalsePositives(rule) = {} /\ FalseNegatives(rule) = {}
        /\ Cardinality(Expected(rule)) = Cardinality(Labels(rule))

(***************************************************************************)
(* An injector that accepts its counts never runs out of rows: next(pool)  *)
(* does not end in StopIteration.                                          *)
(***************************************************************************)
RowsSuffice ==
    loops # <<>> /\ n < count[Head(loops)] => Cardinality(pool) >= RowsPerError(Head(loops))
=============================================================================
