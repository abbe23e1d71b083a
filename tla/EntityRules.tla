---------------------------- MODULE EntityRules -----------------------------
(***************************************************************************)
(* The deterministic rules on object, media, rights and location rows      *)
(* (rules/core_rules.py, reference_rules.py, rights_rules.py,              *)
(* vocabulary_rules.py, location_rules.py): what each rule finds in an     *)
(* export.  An export is a record of tables, a table a sequence of rows in *)
(* input order.  Rules that only sort are modelled as sets; the one look-up*)
(* table whose content depends on the input order keeps that order.        *)
(***************************************************************************)
EXTENDS Naturals, Sequences, SequencesExt, FiniteSets

CONSTANT None     \* an empty cell

\* A finding: what its fingerprint is computed from, the rows it cites, and
\* for which of the values the rule was asked for (one, but in CORE002).
\* compute_fingerprint sorts the evidence keys, so they are a bag.
Found(rule, type, id, field, keys, table, rows) ==
    [fp |-> [rule |-> rule, type |-> type, id |-> id, field |-> field, keys |-> keys],
     rows |-> {table} \X rows, asked |-> 1]

FingerprintsOf(found) == {f.fp : f \in found}

RowsWith(table, column, value) == {i \in DOMAIN table : table[i][column] = value}
Values(table, column) == {table[i][column] : i \in DOMAIN table}
Once(x) == [k \in {x} |-> 1]

\* The values of a column on some rows, as a bag.
Column(table, rows, column) ==
    [v \in {table[i][column] : i \in rows} |->
        Cardinality({i \in rows : table[i][column] = v})]

\* dict built from rows: a later row with the same key replaces an earlier one.
Record(table, column, key) == table[Max(RowsWith(table, column, key))]

-----------------------------------------------------------------------------
\* Faulty variant: evidence keys are the rows, not the object ids.
AccessionKeysByRow(x, group) == [i \in group |-> 1]

AccessionKeys(x, group) == Column(x.objects, group, "object_id")

\* Faulty variant: objects without a number share the number None.
DuplicateAccessionOrNone(x) ==
    LET Group(a) == RowsWith(x.objects, "accession_number", a)
    IN  {Found("CORE001", "object", a, "accession_number",
               AccessionKeys(x, Group(a)), "objects", Group(a)) :
            a \in {v \in Values(x.objects, "accession_number") : Cardinality(Group(v)) >= 2}}

\* CORE001: one finding for every accession number on two or more rows.
DuplicateAccessionNumber(x) ==
    LET Group(a) == RowsWith(x.objects, "accession_number", a)
    IN  {Found("CORE001", "object", a, "accession_number",
               AccessionKeys(x, Group(a)), "objects", Group(a)) :
            a \in {v \in Values(x.objects, "accession_number") \ {None} :
                     Cardinality(Group(v)) >= 2}}

REQUIRABLE_OBJECT_FIELDS == {"accession_number", "object_name", "title"}

\* CORE002: the fields are required in a list; one that is in it twice is
\* reported twice, under one fingerprint.
RequiredFieldMissing(x) ==
    LET Field(n) == x.required_fields[n]
        Missing(i, n) == Field(n) \in REQUIRABLE_OBJECT_FIELDS /\ x.objects[i][Field(n)] = None
    IN  {[Found("CORE002", "object", x.objects[c[1]].object_id, Field(c[2]), Once(Field(c[2])),
                "objects", {c[1]}) EXCEPT !.asked = c[2]] :
            c \in {d \in (DOMAIN x.objects) \X (DOMAIN x.required_fields) : Missing(d[1], d[2])}}

\* VOCAB001: a field no row has, or without a value, is left alone.
UnknownControlledValue(x) ==
    LET Vocabulary == x.controlled_vocabularies
        Value(i, f) == IF f \in DOMAIN x.objects[i] THEN x.objects[i][f] ELSE None
        Unknown == {d \in (DOMAIN x.objects) \X (DOMAIN Vocabulary) :
                        Value(d[1], d[2]) \notin {None} \cup Vocabulary[d[2]]}
    IN  {Found("VOCAB001", "object", x.objects[d[1]].object_id, d[2],
               [k \in {d[2], Value(d[1], d[2])} |-> 1], "objects", {d[1]}) : d \in Unknown}

-----------------------------------------------------------------------------
\* REF001: a media row names an object that does not exist.
OrphanMediaObject(x) ==
    {Found("REF001", "media", x.media[i].media_id, "object_id", Once(x.media[i].object_id),
           "media", {i}) :
        i \in {k \in DOMAIN x.media :
                  x.media[k].object_id \notin {None} \cup Values(x.objects, "object_id")}}

\* The rows that may name a rights record, as <<table, row>>.
Referers(x) == ({"objects"} \X (DOMAIN x.objects)) \cup ({"media"} \X (DOMAIN x.media))

Referer(x, r) == IF r[1] = "objects" THEN x.objects[r[2]] ELSE x.media[r[2]]

\* Faulty variant: the finding is about the rights record.
FoundAtRights(x, rule, r, field) ==
    Found(rule, "rights", Referer(x, r).rights_id, field, Once(Referer(x, r).rights_id),
          r[1], {r[2]})

FoundAt(x, rule, r, field) ==
    LET row == Referer(x, r)
    IN  IF r[1] = "objects"
        THEN Found(rule, "object", row.object_id, field, Once(row.rights_id), r[1], {r[2]})
        ELSE Found(rule, "media", row.media_id, field, Once(row.rights_id), r[1], {r[2]})

\* Faulty variant: without any rights row the check is off.
OrphanRightsIfAny(x) ==
    {FoundAt(x, "REF002", r, "rights_id") :
        r \in {q \in Referers(x) :
                  /\ x.rights # <<>>
                  /\ Referer(x, q).rights_id \notin {None} \cup Values(x.rights, "rights_id")}}

\* REF002: a rights id that no rights row has.
OrphanRightsReference(x) ==
    {FoundAt(x, "REF002", r, "rights_id") :
        r \in {q \in Referers(x) :
                  Referer(x, q).rights_id \notin {None} \cup Values(x.rights, "rights_id")}}

PUBLIC_VALUES == {"public"}
NON_PERMISSIVE_STATUS == {"restricted", "unknown", "review_required"}

\* _permits_publication
Permits(rights) ==
    /\ rights.publication_allowed = TRUE
    /\ rights.review_required # TRUE
    /\ rights.rights_status \notin NON_PERMISSIVE_STATUS

\* Faulty variant: an unknown rights record does not permit either.
NotPermittedOrUnknown(x, id) ==
    id \in Values(x.rights, "rights_id") => ~Permits(Record(x.rights, "rights_id", id))

\* The rights record is known and does not clearly permit publication.
NotPermitted(x, id) ==
    /\ id \in Values(x.rights, "rights_id")
    /\ ~Permits(Record(x.rights, "rights_id", id))

\* RIGHTS001
PublicationConflict(x) ==
    {FoundAt(x, "RIGHTS001", r, "publication_status") :
        r \in {q \in Referers(x) :
                  /\ Referer(x, q).publication_status \in PUBLIC_VALUES
                  /\ Referer(x, q).rights_id # None
                  /\ NotPermitted(x, Referer(x, q).rights_id)}}

-----------------------------------------------------------------------------
\* LOC001: one finding for every object that is current at two or more rows.
MultipleCurrentLocations(x) ==
    LET Current(o) == {i \in RowsWith(x.locations, "object_id", o) :
                           x.locations[i].is_current = TRUE}
    IN  {Found("LOC001", "object", o, "current_location_id",
               Column(x.locations, Current(o), "location_id"), "locations", Current(o)) :
            o \in {v \in Values(x.locations, "object_id") \ {None} :
                     Cardinality(Current(v)) >= 2}}

Evaluate(x) ==
    UNION {DuplicateAccessionNumber(x), RequiredFieldMissing(x),
           OrphanMediaObject(x), OrphanRightsReference(x), PublicationConflict(x),
           MultipleCurrentLocations(x), UnknownControlledValue(x)}
=============================================================================
