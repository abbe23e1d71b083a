---------------------------- MODULE MCIngestion -----------------------------
(***************************************************************************)
(* One table of up to three lines or items: blank, short and overlong      *)
(* lines, cells that are empty, blank, padded or a list, under mappings    *)
(* that are plain, keyed by another field, or of the wrong shape, under    *)
(* the built-in profiles and read straight.  And a whole export of five    *)
(* tables, to which up to three lines are added while it is read.          *)
(***************************************************************************)
EXTENDS Ingestion

CONSTANTS empty, blank, a, padded, pair, b

MCCell == {empty, blank, a, padded, pair, b}
MCTrim == [c \in MCCell |-> IF c = blank THEN empty ELSE IF c = padded THEN a ELSE c]
MCParts == [c \in MCCell |->
              CASE c \in {empty, blank} -> <<>> [] c = pair -> <<a, b>> [] OTHER -> <<MCTrim[c]>>]
\* Only b is a number, a truth value or a date.
MCConvert == [k \in {"int", "bool", "date"} |-> [c \in MCCell |-> IF c = b THEN b ELSE empty]]

Lines == {<<>>, <<a>>, <<blank, b>>, <<padded, empty>>, <<a, pair>>, <<b, a, a>>}
Items == {[object_id |-> a, accession_number |-> pair], [accession_number |-> b],
          [object_id |-> empty, accession_number |-> empty], NotAnObject}

Csv(columns, lines) == [columns |-> columns, lines |-> lines]
CsvTables == [columns : {<<"object_id", "accession_number">>, <<"accession_number", "title">>},
              lines : BoundedSeq(Lines, 3)] \cup {Csv(<<>>, <<>>)}
JsonTables == [columns : {<<>>}, lines : BoundedSeq(Items, 3)]

Command(input, format, mapping, d) ==
    [input |-> input, format |-> format, mapping |-> mapping, disk |-> d]

From(source, transform) == [source |-> source, transform |-> transform]
Entity(file, key, fields) == [file |-> file, primary_key |-> key, fields |-> fields]
PlainFields(fs) == [f \in fs |-> Plain(f)]

ObjectMappings ==
    {[objects |-> Entity("t", key, fields)] :
        key \in {"object_id", "accession_number", "media_ids"},
        fields \in {PlainFields(Simple),
                    [object_id |-> From("accession_number", "strip"),
                     production_start_date |-> Plain("accession_number"),
                     media_ids |-> From("accession_number", "split_pipe")],
                    [object_id |-> From("object_id", "split_pipe"), shelf |-> Plain("object_id"),
                     media_ids |-> Plain("accession_number")],
                    [accession_number |-> Plain("accession_number")]}}

Tables ==
    {Command("mapping", "csv", m, [t |-> d]) : m \in ObjectMappings, d \in CsvTables}
    \cup {Command("mapping", "json", m, [t |-> d]) : m \in ObjectMappings, d \in JsonTables}
    \cup {Command("objects_csv", "csv", ObjectsMapping(<<>>, "t"), [t |-> d]) : d \in CsvTables}

Profiles ==
    {Command("source", ProfileFormat(p[1], p[2]),
             ObjectsMapping(IF p[1] = "met" THEN MetFields ELSE ClevelandFields, "t"), [t |-> p[3]]) :
        p \in {<<"met", "csv", Csv(<<"Object ID", "Object Begin Date">>, l)>> : l \in BoundedSeq(Lines, 2)}
              \cup {<<"cleveland", "csv", Csv(<<"id", "creation_date_latest">>, l)>> : l \in BoundedSeq(Lines, 2)}
              \cup {<<"cleveland", "json", Csv(<<>>, l)>> :
                       l \in BoundedSeq({[id |-> a, type |-> b], [type |-> a], NotAnObject}, 2)}}
    \cup {Command(Missing, "csv", <<>>, <<>>),
          Command("objects_csv", "csv", ObjectsMapping(<<>>, "t"), <<>>),
          Command("source", "csv", ObjectsMapping(MetFields, "t"), <<>>)}

Export(rights) ==
    [o |-> Csv(<<"object_id", "rights_id">>, <<<<a, a>>>>),
     m |-> Csv(<<"media_id", "object_id", "rights_id", "width">>, <<<<a, a, a, b>>>>),
     r |-> Csv(<<"rights_id", "review_required">>, rights),
     l |-> Csv(<<"location_id", "object_id">>, <<<<a, padded>>, <<a, b>>>>),
     n |-> Csv(<<"agent_id", "birth_date">>, <<<<a, b>>, <<b, pair>>>>)]
MCNewLines == [o |-> {<<b, b>>, <<pair, a>>}, m |-> {<<b, b, b, a>>, <<pair, pair>>}, r |-> {<<b, a>>}, n |-> {<<pair>>}]

FiveTables ==
    [objects |-> Entity("o", "object_id", PlainFields({"object_id", "rights_id"})),
     media |-> Entity("m", "media_id", PlainFields({"media_id", "object_id", "rights_id", "width", "is_primary"})),
     rights |-> Entity("r", "rights_id", PlainFields({"rights_id", "review_required"})),
     locations |-> Entity("l", "location_id", PlainFields({"location_id", "object_id", "is_current"})),
     agents |-> Entity("n", "agent_id", PlainFields({"agent_id", "birth_date"}))]

\* The whole mapping, without one entity, with one unknown to the loader, and
\* with locations taken from the file of the objects.
Without(d, x) == [k \in DOMAIN d \ {x} |-> d[k]]
MultiMappings ==
    {FiveTables} \cup {Without(FiveTables, e) : e \in {"objects", "agents"}}
    \cup {[conditions |-> Entity("l", "id", PlainFields({"id"}))] @@ Without(FiveTables, "locations"),
          [FiveTables EXCEPT !.locations =
              Entity("o", "location_id", [location_id |-> Plain("rights_id")])]}

Exports ==
    {Command("mapping", "csv", m, Export(r)) : m \in MultiMappings, r \in {<<<<a>>>>, <<<<b>>, <<a>>>>, <<>>}}
    \cup {Command("mapping", "csv", FiveTables, Without(Export(<<<<a>>>>), f)) : f \in {"o", "r"}}

MCCommands == Tables \cup Profiles \cup Exports
=============================================================================
