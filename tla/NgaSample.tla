----------------------------- MODULE NgaSample ------------------------------
(***************************************************************************)
(* A bounded sample of the relational National Gallery export              *)
(* (bound_nga_directory, ingestion/sampling.py), joined into objects with  *)
(* their makers (ingestion/nga_adapter.py) and checked by the date rules.  *)
(* The sampler reads three tables and writes three; the publisher may      *)
(* refresh the export in between, the sampler may be killed, and a sample  *)
(* directory may be filled more than once.                                 *)
(*                                                                         *)
(* The two read alike neither ids nor files.  The sampler compares id      *)
(* cells as they stand and knows no byte order mark; the adapter strips    *)
(* every id, and its reader drops a mark.                                  *)
(***************************************************************************)
EXTENDS DateRules, FiniteSets

CONSTANTS Exports,   \* the exports the publisher starts with
          Trim,      \* per id cell the id that strip() leaves of it
          Marks,     \* the sets of tables that may begin with a byte order mark
          Limits,    \* values of --limit
          MaxRuns,   \* bound on the sampler's runs
          MaxEdits   \* bound on the publisher's changes

Table == {"objects", "links", "constituents"}

Columns == [objects |-> {"objectid", "beginyear", "endyear"},
            links |-> {"objectid", "constituentid", "displayorder"},
            constituents |-> {"constituentid", "beginyear", "endyear"}]

RowsOf(t) == UNION {ToSet(e[t]) : e \in Exports}

\* What is taken for granted of the constants: display orders and ids are
\* ordered as numbers, an unset field is neither a year nor a reason.  Rows of
\* objects and constituents have an id (the adapter refuses a table without).
WellFormed ==
    /\ MaxYear \in Nat /\ None \notin Int /\ None \notin {"before birth", "after death"}
    /\ Exports # {} /\ Limits \subseteq Nat
    /\ \A e \in Exports : /\ e = [t \in Table |-> e[t]]
                           /\ \A t \in Table : e[t] \in Seq(RowsOf(t))
    /\ \A m \in Marks : m \subseteq Table
    /\ Trim[Empty] = Empty
    /\ \A row \in RowsOf("objects") : Trim[row.objectid] # Empty
    /\ \A row \in RowsOf("constituents") : Trim[row.constituentid] # Empty
    /\ \A row \in RowsOf("links") : /\ Trim[row.constituentid] \in Int \cup {Empty}
                                    /\ row.displayorder \in Int \cup {Empty}
    /\ \A t \in Table : /\ None \notin Seq(RowsOf(t))
                         /\ \A row \in RowsOf(t) : DOMAIN row = Columns[t]

VARIABLES source,    \* the export: per table its rows
          marked,    \* its tables that begin with a byte order mark
          edits,     \* changes the publisher has made
          pc, runs, limit,
          mem,       \* the rows the sampler keeps of each table
          sample,    \* the sample directory: per table its rows, or None (no file)
          torn,      \* the tables of the sample that end in a torn row
          moved      \* history: the export changed since the last run began

vars == <<source, marked, edits, pc, runs, limit, mem, sample, torn, moved>>

Init ==
    /\ source \in Exports /\ marked \in Marks
    /\ edits = 0 /\ runs = 0 /\ limit = 0 /\ moved = FALSE
    /\ pc = "idle"
    /\ mem = [t \in Table |-> <<>>]
    /\ sample = [t \in Table |-> None] /\ torn = {}

\* The rows at some positions of a table, in its order.
RowsAt(rows, at) ==
    LET Nth(n) == CHOOSE i \in at : Cardinality(at \cap 1 .. i) = n
    IN  [n \in 1 .. Cardinality(at) |-> rows[Nth(n)]]

Naming(rows, column, ids) == RowsAt(rows, {i \in DOMAIN rows : rows[i][column] \in ids})

CellsOf(rows, column) == {rows[i][column] : i \in DOMAIN rows}

BeginRun(l) ==
    /\ pc \in {"idle", "done", "killed", "raised"} /\ runs < MaxRuns
    /\ runs' = runs + 1
    /\ limit' = l
    /\ mem' = [t \in Table |-> <<>>]
    /\ moved' = FALSE
    /\ pc' = "read objects"
    /\ UNCHANGED <<source, marked, edits, sample, torn>>

Read(table, rows, then) ==
    /\ mem' = [mem EXCEPT ![table] = rows]
    /\ pc' = then
    /\ UNCHANGED <<source, marked, edits, runs, limit, sample, torn, moved>>

FirstRows(rows, n) == SubSeq(rows, 1, IF n < Len(rows) THEN n ELSE Len(rows))

\* The mark is read as a part of the first column's name, the id's.
Nameless(table, rows) == table \in marked /\ rows # <<>>

ReadObjects ==
    /\ pc = "read objects" /\ ~Nameless("objects", FirstRows(source.objects, limit))
    /\ Read("objects", FirstRows(source.objects, limit), "read links")

\* r["objectid"]: a KeyError, before anything is written.
RaiseKeyError ==
    /\ pc = "read objects" /\ Nameless("objects", FirstRows(source.objects, limit))
    /\ pc' = "raised"
    /\ UNCHANGED <<source, marked, edits, runs, limit, mem, sample, torn, moved>>

\* r.get(column, "") finds an empty cell, no id, where the column has no name.
Matching(table, column, ids) ==
    IF Nameless(table, source[table]) THEN <<>> ELSE Naming(source[table], column, ids)

\* Faulty variants: the link table is cut, not filtered; the constituents are.
ReadLinksCut ==
    /\ pc = "read links"
    /\ Read("links", FirstRows(source.links, limit), "read constituents")

ReadConstituentsCut ==
    /\ pc = "read constituents"
    /\ Read("constituents", FirstRows(source.constituents, limit), "write objects")

ReadLinks ==
    /\ pc = "read links"
    /\ LET kept_ids == CellsOf(mem.objects, "objectid")
       IN  Read("links", Matching("links", "objectid", kept_ids), "read constituents")

ReadConstituents ==
    /\ pc = "read constituents"
    /\ LET referenced == CellsOf(mem.links, "constituentid") \ {Empty}
       IN  Read("constituents", Matching("constituents", "constituentid", referenced),
                "write objects")

WriteStep == [objects |-> "write objects", links |-> "write links",
              constituents |-> "write constituents"]

\* _write_table truncates and fills a file; the kill is a step of its own.
Write(table, then) ==
    /\ pc = WriteStep[table]
    /\ sample' = [sample EXCEPT ![table] = mem[table]]
    /\ torn' = torn \ {table}
    /\ pc' = then
    /\ UNCHANGED <<source, marked, edits, runs, limit, mem, moved>>

WriteTables ==
    \/ Write("objects", "write links")
    \/ Write("links", "write constituents")
    \/ Write("constituents", "done")

LastColumn == [objects |-> "endyear", links |-> "displayorder", constituents |-> "endyear"]

\* Output is flushed by the block: a row may be cut in the middle of a cell.
Cut(table, row) ==
    LET cell == row[LastColumn[table]]
    IN  {[row EXCEPT ![LastColumn[table]] = c] :
            c \in {Empty} \cup (IF cell \in Nat THEN {cell \div 10} \ {0} ELSE {})}

\* A killed writer leaves the rows it got to, the last of them whole or cut.
Kill ==
    /\ pc \notin {"idle", "done", "killed", "raised"}
    /\ \/ UNCHANGED <<sample, torn>>
       \/ \E t \in Table : \E n \in 0 .. Len(mem[t]) :
             /\ pc = WriteStep[t]
             /\ \/ /\ sample' = [sample EXCEPT ![t] = SubSeq(mem[t], 1, n)]
                   /\ torn' = torn \ {t}
                \/ /\ n > 0
                   /\ \E row \in Cut(t, mem[t][n]) :
                         sample' = [sample EXCEPT ![t] = Append(SubSeq(mem[t], 1, n - 1), row)]
                   /\ torn' = torn \cup {t}
    /\ pc' = "killed"
    /\ UNCHANGED <<source, marked, edits, runs, limit, mem, moved>>

\* The publisher moves a link row to the front or withdraws a last row.
Publish(tables) ==
    /\ edits < MaxEdits
    /\ source' = tables
    /\ edits' = edits + 1
    /\ moved' = TRUE
    /\ UNCHANGED <<marked, pc, runs, limit, mem, sample, torn>>

MoveLink == \E i \in DOMAIN source.links :
    Publish([source EXCEPT !.links = <<@[i]>> \o RemoveAt(@, i)])
Withdraw == \E t \in Table :
    source[t] # <<>> /\ Publish([source EXCEPT ![t] = Front(@)])

Next ==
    \/ \E l \in Limits : BeginRun(l)
    \/ ReadObjects \/ RaiseKeyError \/ ReadLinks \/ ReadConstituents
    \/ WriteTables \/ Kill
    \/ MoveLink \/ Withdraw

Spec == Init /\ [][Next]_vars

-----------------------------------------------------------------------------
(***************************************************************************)
(* The adapter strips the ids it reads (mapper.py and, of the links, its   *)
(* own lines), then: objects and constituents through the mapper, the link *)
(* table joined in.  Links without either id are skipped; makers are in    *)
(* display order, or row order where a row has no display order.           *)
(***************************************************************************)
StripIds(row) ==
    [c \in DOMAIN row |-> IF c \in {"objectid", "constituentid"} THEN Trim[row[c]] ELSE row[c]]

Stripped(tables) == [t \in Table |-> [i \in DOMAIN tables[t] |-> StripIds(tables[t][i])]]

\* Faulty variant: makers in the order of the link rows.
MakerIdsAsRead(links, id) ==
    LET mine == SelectSeq(links, LAMBDA r : r.objectid = id /\ r.constituentid # Empty)
    IN  [n \in DOMAIN mine |-> mine[n].constituentid]

MakerIds(links, id) ==
    LET mine == {i \in DOMAIN links : links[i].objectid = id /\ links[i].constituentid # Empty}
        Order(i) == IF links[i].displayorder = Empty THEN i + 1 ELSE links[i].displayorder
        Cid(i) == links[i].constituentid
        Before(i, k) == \/ Order(i) < Order(k)
                        \/ Order(i) = Order(k) /\ Cid(i) < Cid(k)
                        \/ Order(i) = Order(k) /\ Cid(i) = Cid(k) /\ i < k
        Place(i) == Cardinality({k \in mine : ~Before(i, k)})
    IN  [n \in 1 .. Cardinality(mine) |-> Cid(CHOOSE i \in mine : Place(i) = n)]

Objects(tables) ==
    [i \in DOMAIN tables.objects |->
        LET row == tables.objects[i]
        IN  [object_id |-> row.objectid, maker_ids |-> MakerIds(tables.links, row.objectid),
             production_start_date |-> row.beginyear, production_end_date |-> row.endyear]]

Agents(tables) ==
    [i \in DOMAIN tables.constituents |->
        LET row == tables.constituents[i]
        IN  [agent_id |-> row.constituentid,
             birth_date |-> row.beginyear, death_date |-> row.endyear]]

\* A scan of tables, per rule; a missing table is refused.
Scan(tables) ==
    IF None \in {tables[t] : t \in Table} THEN [schema |-> {}, range |-> {}, life |-> {}]
    ELSE LET read == Stripped(tables)
         IN  [schema |-> InvalidFieldType(Objects(read), Typed),
              range  |-> InvertedDateRange(Objects(read)),
              life   |-> AgentLifespanConflict(Objects(read), Agents(read))]

Rules == {"schema", "range", "life"}

\* No id is written in two ways, in its own table or in the link table.
WrittenAlike(tables) ==
    LET Alike(cells) == \A c, d \in cells : Trim[c] = Trim[d] => c = d
    IN  /\ Alike(CellsOf(tables.objects, "objectid") \cup CellsOf(tables.links, "objectid"))
        /\ Alike(CellsOf(tables.links, "constituentid") \cup CellsOf(tables.constituents, "constituentid"))

(***************************************************************************)
(* A sample taken in one go from an export at rest is faithful: the date   *)
(* rules find in it exactly what they find in the export about the objects *)
(* it keeps, life dates of their makers included.  Only if no table begins *)
(* with a byte order mark and no id is padded in one row and not in        *)
(* another, which the adapter does not mind: what the sampler drops there  *)
(* takes findings with it.                                                 *)
(***************************************************************************)
SampleFaithful ==
    pc = "done" /\ ~moved /\ marked = {} /\ WrittenAlike(source) =>
        \A r \in Rules : Scan(sample)[r] =
            {f \in Scan(source)[r] : f.id \in CellsOf(Stripped(sample).objects, "objectid")}

(***************************************************************************)
(* No false alarm: as long as the export stays as it is, every finding in  *)
(* the sample directory is one of the export, through kills and further    *)
(* runs over the same directory with another limit, except while a table   *)
(* ends in a row that a killed writer cut off; however the ids are padded, *)
(* and whatever tables begin with a byte order mark.                       *)
(***************************************************************************)
NoFalseAlarm ==
    edits = 0 /\ torn = {} => \A r \in Rules : Scan(sample)[r] \subseteq Scan(source)[r]

(***************************************************************************)
(* A finished sample is consistent even if the export was refreshed while  *)
(* it was read: every link names a kept object, every constituent is named *)
(* by a kept link.                                                         *)
(***************************************************************************)
SampleClosed ==
    pc = "done" =>
        /\ CellsOf(sample.links, "objectid") \subseteq CellsOf(sample.objects, "objectid")
        /\ CellsOf(sample.constituents, "constituentid")
              \subseteq CellsOf(sample.links, "constituentid")
        /\ Len(sample.objects) <= limit

\* Link rows were moved, nothing else happened.
LinksMoved ==
    /\ [source EXCEPT !.links = <<>>] = [source' EXCEPT !.links = <<>>]
    /\ ToBag(source.links) = ToBag(source'.links)

SameMakers ==
    \A id \in CellsOf(Stripped(source).objects, "objectid") :
        MakerIds(Stripped(source).links, id) = MakerIds(Stripped(source').links, id)

(***************************************************************************)
(* Where every link has a display order, the makers of an object do not    *)
(* depend on the order of the link rows.                                   *)
(***************************************************************************)
DisplayOrderDecides ==
    LinksMoved /\ Empty \notin CellsOf(source.links, "displayorder") => SameMakers

(***************************************************************************)
(* The lifespan rule is conservative and complete: for a production range  *)
(* and a life that are not inverted it reports exactly the makers whose    *)
(* life does not meet the range; an object is never reported both for a    *)
(* date that does not parse and for that date's place in time.             *)
(***************************************************************************)
ConflictIffDisjoint ==
    LET objects == Objects(Stripped(source))  agents == Agents(Stripped(source))
        Unread == {f.id : f \in Scan(source).schema}
    IN  /\ \A i \in DOMAIN objects, k \in DOMAIN agents :
              LET s == Start(objects[i])       e == End(objects[i])
                  b == ParseDate(agents[k].birth_date)
                  d == ParseDate(agents[k].death_date)
              IN  None \notin {s, e, b, d} /\ s <= e /\ b <= d =>
                      (Reason(objects[i], agents, agents[k].agent_id) # None
                         <=> (s .. e) \cap (b .. d) = {})
        /\ Unread \cap {f.id : f \in Scan(source).range \cup Scan(source).life} = {}
=============================================================================
