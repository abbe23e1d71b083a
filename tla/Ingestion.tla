----------------------------- MODULE Ingestion ------------------------------
(***************************************************************************)
(* From an export on disk to canonical records (cli._ingest): under a      *)
(* mapping (ingestion/mapper.py, source_base.py) or a built-in profile of  *)
(* a museum (sources.py), table after table, and straight from an objects  *)
(* CSV (csv_adapter.py).  At the end of the scan the input files are       *)
(* hashed for the manifest (engine/run_manifest.py).  Meanwhile the        *)
(* collection system may add to the export.                                *)
(*                                                                         *)
(* A CSV line is the sequence of its cells, empty for a blank line; a JSON *)
(* item is a function from keys to values, or NotAnObject.  Cells are      *)
(* opaque: Trim is str.strip, Parts what split_pipe makes of a cell, and   *)
(* Convert the canonical value of a stripped cell, EmptyCell for unset.    *)
(***************************************************************************)
EXTENDS Integers, FiniteSets, Sequences, SequencesExt

CONSTANTS Cell, EmptyCell,
          Trim,        \* [Cell -> Cell]
          Parts,       \* [Cell -> Seq(Cell)]
          Convert,     \* [{"int", "bool", "date"} -> [Cell -> Cell]]
          NotAnObject,
          Missing,     \* a mapping file, a source or an input that is not there
          Commands,    \* [input, format, mapping, disk]
          NewLines,    \* per file name, the lines that may be added to it
          MaxAdded     \* bound on the lines added

Kinds == {"text", "int", "bool", "date"}

ASSUME IngestionAssumption ==
    /\ EmptyCell \in Cell
    /\ Trim \in [Cell -> Cell] /\ Trim[EmptyCell] = EmptyCell
    /\ \A c \in Cell : Trim[Trim[c]] = Trim[c]
    /\ Convert \in [Kinds \ {"text"} -> [Cell -> Cell]]
    /\ \A k \in DOMAIN Convert : Convert[k][EmptyCell] = EmptyCell
    /\ MaxAdded \in Nat

\* A CSV file has no two columns of one name; the CSV adapter takes no mapping.
ASSUME CommandsAssumption ==
    \A c \in Commands :
        /\ c.disk = [f \in DOMAIN c.disk |-> [columns |-> c.disk[f].columns,
                                              lines |-> c.disk[f].lines]]
        /\ \A f \in DOMAIN c.disk :
              /\ c.disk[f].lines \in Seq(ToSet(c.disk[f].lines))
              /\ c.format = "csv" =>
                    /\ c.disk[f].columns \in Seq(STRING) /\ IsInjective(c.disk[f].columns)
                    /\ c.disk[f].lines \in Seq(Seq(Cell))
                    /\ f \in DOMAIN NewLines => NewLines[f] \subseteq Seq(Cell)
        /\ c.input = "objects_csv" =>
              /\ c.format = "csv" /\ DOMAIN c.mapping = {"objects"}
              /\ DOMAIN c.mapping.objects.fields = {}

\* Faulty variant: what is referred to is read first.
OrderRightsFirst == <<"rights", "objects", "media", "locations", "agents">>

\* The canonical entities, in the order load_from_mapping reads them.
Order == <<"objects", "media", "rights", "locations", "agents">>

IdField == [objects |-> "object_id", media |-> "media_id", rights |-> "rights_id",
            locations |-> "location_id", agents |-> "agent_id"]

\* The scalar fields of each entity by the type its builder gives them.
Fields ==
    [objects |->
        [text |-> {"object_id", "accession_number", "title", "object_name", "description",
                   "department", "culture", "current_location_id", "rights_id",
                   "publication_status"},
         date |-> {"production_start_date", "production_end_date"}, int |-> {}, bool |-> {}],
     media |->
        [text |-> {"media_id", "object_id", "path_or_url", "media_type", "mime_type",
                   "checksum", "publication_status", "rights_id"},
         int |-> {"width", "height", "file_size"}, date |-> {}, bool |-> {}],
     rights |->
        [text |-> {"rights_id", "rights_status", "copyright_holder", "license_uri",
                   "credit_line"},
         bool |-> {"publication_allowed", "review_required"}, int |-> {}, date |-> {}],
     locations |->
        [text |-> {"location_id", "name", "parent_location_id", "object_id"},
         bool |-> {"is_current"}, int |-> {}, date |-> {}],
     agents |->
        [text |-> {"agent_id", "preferred_name", "nationality"},
         date |-> {"birth_date", "death_date"}, int |-> {}, bool |-> {}]]

ListFields(e) == IF e = "objects" THEN {"media_ids", "maker_ids", "materials", "techniques"} ELSE {}

BuiltScalars(e) == UNION {Fields[e][k] : k \in Kinds}
KindOf(e, f) == CHOOSE k \in Kinds : f \in Fields[e][k]

\* is_primary is mapped, but no builder takes it.
ScalarFields(e) == BuiltScalars(e) \cup (IF e = "media" THEN {"is_primary"} ELSE {})

-----------------------------------------------------------------------------
Numbered(first, rows) == [i \in DOMAIN rows |-> [number |-> i + first - 1, raw |-> rows[i]]]

FilledLines(table) == {i \in DOMAIN table.lines : table.lines[i] # <<>>}

\* The line of a table that becomes its k-th raw record.
LineOf(table, k) ==
    CHOOSE i \in FilledLines(table) : Cardinality(FilledLines(table) \cap 1 .. i) = k

Filled(table) ==
    [k \in 1 .. Cardinality(FilledLines(table)) |-> table.lines[LineOf(table, k)]]

\* read_csv_rows: DictReader passes over blank lines, pads short ones, and
\* keeps surplus cells apart, where the reader drops them.
CsvRows(table) ==
    LET lines == Filled(table)
        Raw(l) == [c \in ToSet(table.columns) |->
                      LET k == CHOOSE k \in DOMAIN table.columns : table.columns[k] = c
                      IN  IF k <= Len(l) THEN l[k] ELSE EmptyCell]
    IN  Numbered(2, [i \in DOMAIN lines |-> Raw(lines[i])])

\* read_json_rows (null is an empty string); a CSV file without a header row
\* and a JSON array with an item that is no object are refused.
Readable(table, format) ==
    IF format = "csv" THEN table.columns # <<>> ELSE NotAnObject \notin ToSet(table.lines)

RawRecords(table, format) ==
    IF format = "csv" THEN CsvRows(table) ELSE Numbered(1, table.lines)

-----------------------------------------------------------------------------
ApplyTransform(value, transform) ==
    IF transform = "split_pipe" THEN Parts[value]
    ELSE IF transform = "strip" THEN Trim[value] ELSE value

\* raw_fields.get(source, "")
MapValue(raw, field) ==
    ApplyTransform(IF field.source \in DOMAIN raw THEN raw[field.source] ELSE EmptyCell,
                   field.transform)

IsList(field) == field.transform = "split_pipe"

\* A value of the wrong shape becomes an empty string or an empty list; a
\* field the entity does not have is ignored.
Mapped(e, fields, raw) ==
    [c \in DOMAIN fields \cap (ScalarFields(e) \cup ListFields(e)) |->
        LET value == MapValue(raw, fields[c])
        IN  IF c \in ScalarFields(e)
            THEN (IF IsList(fields[c]) THEN EmptyCell ELSE Trim[value])
            ELSE (IF IsList(fields[c]) THEN value ELSE <<>>)]

\* Faulty variant: a mapped column is taken for a key, filled in or not.
HasKeyMapped(e, key, mapped) == key \in DOMAIN mapped

\* The primary key is looked for among the mapped fields; str() of a list is
\* never empty.
HasKey(e, key, mapped) ==
    key \in DOMAIN mapped /\ (key \in ListFields(e) \/ mapped[key] # EmptyCell)

\* _scalar, _int, _bool, _date: what does not parse is unset.
Canonical(kind, cell) == IF kind = "text" THEN cell ELSE Convert[kind][cell]

Build(e, mapped, number) ==
    [f \in BuiltScalars(e) \cup ListFields(e) \cup {"source_row"} |->
        CASE f = "source_row" -> number
          [] f \in ListFields(e) -> IF f \in DOMAIN mapped THEN mapped[f] ELSE <<>>
          [] OTHER -> IF f \in DOMAIN mapped THEN Canonical(KindOf(e, f), mapped[f])
                      ELSE EmptyCell]

Refuse(number) == [ok |-> FALSE, records |-> <<>>, failed |-> number]

\* One table: every row is mapped and its key checked before the first record
\* is built; without a mapped id the builder fails (KeyError).
LoadTable(e, entity, table, format) ==
    LET rows == RawRecords(table, format)
        mapped == [i \in DOMAIN rows |-> Mapped(e, entity.fields, rows[i].raw)]
        keyless == {i \in DOMAIN rows : ~HasKey(e, entity.primary_key, mapped[i])}
    IN  IF ~Readable(table, format) THEN Refuse(0)
        ELSE IF keyless # {}
        THEN Refuse(rows[CHOOSE i \in keyless : \A k \in keyless : i <= k].number)
        ELSE IF rows # <<>> /\ IdField[e] \notin DOMAIN entity.fields THEN Refuse(0)
        ELSE [ok |-> TRUE, failed |-> 0,
              records |-> [i \in DOMAIN rows |-> Build(e, mapped[i], rows[i].number)]]

-----------------------------------------------------------------------------
\* The profiles of the museums whose export is one table of objects.
MetFields ==
    [object_id |-> "Object ID", accession_number |-> "Object Number", title |-> "Title",
     object_name |-> "Object Name", department |-> "Department", culture |-> "Culture",
     production_start_date |-> "Object Begin Date", production_end_date |-> "Object End Date"]

ClevelandFields ==
    [object_id |-> "id", accession_number |-> "accession_number", title |-> "title",
     object_name |-> "type", department |-> "department", culture |-> "culture",
     production_start_date |-> "creation_date_earliest",
     production_end_date |-> "creation_date_latest"]

Plain(source) == [source |-> source, transform |-> "none"]

\* build_objects_mapping
ObjectsMapping(columns, file) ==
    [objects |-> [file |-> file, primary_key |-> "object_id",
                  fields |-> [f \in DOMAIN columns |-> Plain(columns[f])]]]

\* The format of a profile: Cleveland's is told by the suffix.
ProfileFormat(name, suffix) ==
    IF name = "cleveland" /\ suffix = "json" THEN "json" ELSE "csv"

-----------------------------------------------------------------------------
VARIABLES command,  \* the way in, with its mapping (entity -> file, key, fields)
          disk,     \* the export: file name -> table
          added,    \* lines added to it
          at,       \* the load: 1 .. Len(Order), then the hashing, then the end
          status,   \* "run", "refused" or "done"
          loaded,   \* the records read so far, per entity
          failed,   \* the row the load was refused at, or 0
          seen,     \* history: the tables as they were read, per entity
          began,    \* history: the export when the load began
          manifest  \* file name -> table, standing for its hash

vars == <<command, disk, added, at, status, loaded, failed, seen, began, manifest>>

Hashing == Len(Order) + 1

Init ==
    /\ command \in Commands
    /\ disk = command.disk /\ began = disk
    /\ added = 0 /\ at = 1 /\ failed = 0
    /\ status = IF command.input = Missing THEN "refused" ELSE "run"
    /\ loaded = [e \in ToSet(Order) |-> <<>>]
    /\ seen = <<>> /\ manifest = <<>>

\* Of the five entities only objects must be mapped.
LoadEntity ==
    /\ status = "run" /\ at <= Len(Order)
    /\ LET e == Order[at]
       IN  IF e \notin DOMAIN command.mapping
           THEN /\ IF e = "objects" THEN status' = "refused" /\ UNCHANGED at
                   ELSE at' = at + 1 /\ UNCHANGED status
                /\ UNCHANGED <<loaded, failed, seen>>
           ELSE LET entity == command.mapping[e]
                    there == entity.file \in DOMAIN disk
                    result == IF there
                              THEN LoadTable(e, entity, disk[entity.file], command.format)
                              ELSE Refuse(0)
                IN  /\ loaded' = [loaded EXCEPT ![e] = result.records]
                    /\ failed' = result.failed
                    /\ seen' = IF there
                               THEN [d \in DOMAIN seen \cup {e} |->
                                        IF d = e THEN disk[entity.file] ELSE seen[d]]
                               ELSE seen
                    /\ IF result.ok THEN at' = at + 1 /\ UNCHANGED status
                       ELSE status' = "refused" /\ UNCHANGED at
    /\ UNCHANGED <<command, disk, added, began, manifest>>

\* Faulty variant: the files of the tables that gave records.
InputFilesRead == {command.mapping[e].file : e \in {d \in DOMAIN seen : loaded[d] # <<>>}}

\* resolve_entity_files: every mapped entity, known to the loader or not.
InputFiles == {command.mapping[e].file : e \in DOMAIN command.mapping}

\* build_run_manifest; a path that is no file is left out.
HashInputs ==
    /\ status = "run" /\ at = Hashing
    /\ manifest' = [f \in InputFiles \cap DOMAIN disk |-> disk[f]]
    /\ status' = "done"
    /\ UNCHANGED <<command, disk, added, at, loaded, failed, seen, began>>

-----------------------------------------------------------------------------
\* The CSV adapter, which takes four columns by their canonical names.
Simple == {"object_id", "accession_number", "title", "object_name"}

SimpleCell(raw, column) == IF column \in DOMAIN raw THEN Trim[raw[column]] ELSE EmptyCell

\* Faulty variant: the id is not stripped.
SimpleIdRaw(raw) == raw["object_id"]

SimpleId(raw) == SimpleCell(raw, "object_id")

SimpleObject(record) ==
    Build("objects",
          [f \in Simple |-> IF f = "object_id" THEN SimpleId(record.raw)
                            ELSE SimpleCell(record.raw, f)],
          record.number)

\* Surplus cells end up under the key None, which hash_record cannot sort.
Surplus(table, i) == Len(Filled(table)[i]) > Len(table.columns)

\* Row by row: a row without an id refuses the file, one with surplus cells
\* is a TypeError that nobody catches.
SimpleLoad(table) ==
    LET rows == CsvRows(table)
        bad == {i \in DOMAIN rows : SimpleId(rows[i].raw) = EmptyCell \/ Surplus(table, i)}
        first == CHOOSE i \in bad : \A k \in bad : i <= k
    IN  IF "object_id" \notin ToSet(table.columns) THEN Refuse(0)
        ELSE IF bad # {}
        THEN Refuse(IF SimpleId(rows[first].raw) = EmptyCell THEN rows[first].number ELSE 0)
        ELSE [ok |-> TRUE, failed |-> 0, records |-> [i \in DOMAIN rows |-> SimpleObject(rows[i])]]

Crashes(table) ==
    \E i \in DOMAIN Filled(table) :
        /\ Surplus(table, i)
        /\ \A k \in 1 .. i : SimpleId(CsvRows(table)[k].raw) # EmptyCell

LoadObjectsCsv ==
    /\ status = "run" /\ at = 1 /\ command.input = "objects_csv"
    /\ LET file == command.mapping.objects.file
           result == IF file \in DOMAIN disk THEN SimpleLoad(disk[file]) ELSE Refuse(0)
       IN  /\ loaded' = [loaded EXCEPT !.objects = result.records]
           /\ failed' = result.failed
           /\ seen' = IF file \in DOMAIN disk THEN [objects |-> disk[file]] ELSE seen
           /\ IF result.ok THEN at' = Hashing /\ UNCHANGED status
              ELSE status' = "refused" /\ UNCHANGED at
    /\ UNCHANGED <<command, disk, added, began, manifest>>

-----------------------------------------------------------------------------
RecordsIn(d, e) ==
    LET entity == command.mapping[e]
    IN  IF entity.file \notin DOMAIN d THEN <<>>
        ELSE LoadTable(e, entity, d[entity.file], command.format).records

CellsOf(records, f) == {records[i][f] : i \in DOMAIN records} \ {EmptyCell}

Relational == {"objects", "media", "rights"} \subseteq DOMAIN command.mapping

\* The references that REF001 and REF002 follow.
ObjectsFound(media, objects) == CellsOf(media, "object_id") \subseteq CellsOf(objects, "object_id")

RightsNamed(objects, media) == CellsOf(objects, "rights_id") \cup CellsOf(media, "rights_id")

RightsFound(objects, media, rights) ==
    RightsNamed(objects, media) \subseteq CellsOf(rights, "rights_id")

SoundExport(d) ==
    /\ Relational
    /\ ObjectsFound(RecordsIn(d, "media"), RecordsIn(d, "objects"))
    /\ RightsFound(RecordsIn(d, "objects"), RecordsIn(d, "media"), RecordsIn(d, "rights"))

\* The collection system adds a record, in an order that keeps its export sound.
Add ==
    /\ added < MaxAdded /\ SoundExport(disk)
    /\ \E f \in DOMAIN disk \cap DOMAIN NewLines : \E l \in NewLines[f] :
          disk' = [disk EXCEPT ![f].lines = Append(@, l)]
    /\ SoundExport(disk')
    /\ added' = added + 1
    /\ UNCHANGED <<command, at, status, loaded, failed, seen, began, manifest>>

\* load_source, or load_mapping and load_from_mapping.
LoadMapped == command.input # "objects_csv" /\ LoadEntity

Next == LoadMapped \/ LoadObjectsCsv \/ HashInputs \/ Add

Spec == Init /\ [][Next]_vars

-----------------------------------------------------------------------------
BlankAbove(table, line) == {i \in 1 .. line : table.lines[i] = <<>>}

\* A stripped cell of a line, by the header.
CellAt(table, i, column) ==
    LET ks == {k \in DOMAIN table.columns : table.columns[k] = column /\ k <= Len(table.lines[i])}
    IN  IF ks = {} THEN EmptyCell ELSE Trim[table.lines[i][CHOOSE k \in ks : TRUE]]

\* The mapped entities read from CSV, and those of their fields that are scalar.
CsvEntities == IF command.format = "csv" THEN DOMAIN seen ELSE {}
Scalar(e) == {f \in DOMAIN command.mapping[e].fields \cap BuiltScalars(e) :
                 ~IsList(command.mapping[e].fields[f])}

(***************************************************************************)
(* A CSV table is loaded whole or not at all.  Every line that is not      *)
(* blank gives one record, each mapped cell in its field, whose row number *)
(* points at the line: it is the line's, the header counted, less the      *)
(* blank lines above, which csv.DictReader passes over.  Or the table is   *)
(* refused at the first line without a key.  Under a mapping keyed by the  *)
(* entity's id, as all that ship with the project are, no record enters    *)
(* the scan without an identity.                                           *)
(***************************************************************************)
WholeOrRefused ==
    \A e \in CsvEntities :
        LET table == seen[e]  entity == command.mapping[e]
            Mine(k, f) == CellAt(table, LineOf(table, k), entity.fields[f].source)
            current == at <= Len(Order) /\ Order[at] = e
        IN  /\ ~current => Len(loaded[e]) = Len(Filled(table))
            /\ \A k \in DOMAIN loaded[e] :
                  /\ \A f \in Scalar(e) :
                        loaded[e][k][f] = Canonical(KindOf(e, f), Mine(k, f))
                  /\ loaded[e][k].source_row + Cardinality(BlankAbove(table, LineOf(table, k)))
                        = LineOf(table, k) + 1
            /\ entity.primary_key = IdField[e] => EmptyCell \notin {r[IdField[e]] : r \in ToSet(loaded[e])}
            /\ current /\ failed # 0 /\ entity.primary_key \in Scalar(e) =>
                  /\ loaded[e] = <<>>
                  /\ Mine(failed - 1, entity.primary_key) = EmptyCell
                  /\ \A k \in 1 .. failed - 2 : Mine(k, entity.primary_key) # EmptyCell

PlainMapping ==
    /\ command.mapping.objects.primary_key = "object_id"
    /\ command.mapping.objects.fields = [f \in Simple |-> Plain(f)]

(***************************************************************************)
(* The two ways in agree: on a table with an object_id column, a mapping   *)
(* of the four columns to themselves gives the same objects with the same  *)
(* row numbers as the CSV adapter, and is refused at the same row, unless  *)
(* the adapter crashes on surplus cells.                                   *)
(***************************************************************************)
PathsAgree ==
    "objects" \in CsvEntities /\ PlainMapping =>
        LET table == seen.objects
        IN  "object_id" \in ToSet(table.columns) /\ ~Crashes(table) =>
                [ok |-> at > 1, records |-> loaded.objects,
                 failed |-> IF at > 1 THEN 0 ELSE failed] = SimpleLoad(table)

(***************************************************************************)
(* The tables are read one after the other while the export may grow.  Of  *)
(* an export whose references hold all along, the order of reading leaves  *)
(* no reference to rights dangling, from an object or from a media record  *)
(* (REF002), and of media to objects only those of media added since the   *)
(* load began (REF001).                                                    *)
(***************************************************************************)
OrphansAreYoung ==
    status = "done" /\ SoundExport(began) =>
        LET old == Len(RecordsIn(began, "media"))
        IN  /\ RightsFound(loaded.objects, loaded.media, loaded.rights)
            /\ ObjectsFound(SubSeq(loaded.media, 1, old), loaded.objects)

(***************************************************************************)
(* The manifest is written after the scan, from the files as they are by   *)
(* then.  Every table that was read is in it, whether or not it gave a     *)
(* record; what is hashed is what was read, or more only if lines were     *)
(* added to that table since.                                              *)
(***************************************************************************)
ManifestTrue ==
    status = "done" => \A e \in DOMAIN seen :
        LET f == command.mapping[e].file
        IN  /\ f \in DOMAIN manifest
            /\ IsPrefix(seen[e].lines, manifest[f].lines)
            /\ Len(manifest[f].lines) - Len(began[f].lines) <= added
=============================================================================
