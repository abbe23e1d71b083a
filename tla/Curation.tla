------------------------------ MODULE Curation ------------------------------
(***************************************************************************)
(* The life of an export between scans: curators append, remove and move   *)
(* rows, and every state of the export may be scanned.  The properties say *)
(* how the findings of two scans relate when one row changed in between:   *)
(* this is what comparing a scan with a baseline of fingerprints rests on. *)
(***************************************************************************)
EXTENDS EntityRules

CONSTANT Collections   \* instances: [rows, max, required, vocabularies]

Tables == {"objects", "media", "rights", "locations"}

\* What the rules read of a row (canonical/models.py), besides the fields a
\* scan names: a record has all its columns, empty or not.
Columns ==
    [objects |-> {"object_id", "accession_number", "rights_id", "publication_status"},
     media |-> {"media_id", "object_id", "rights_id", "publication_status"},
     rights |-> {"rights_id", "publication_allowed", "review_required", "rights_status"},
     locations |-> {"location_id", "object_id", "is_current"}]

\* The required fields are a list, RuleContext.controlled_vocabularies a dict.
ASSUME CollectionsAssumption ==
    \A c \in Collections :
        /\ c.required \in Seq(ToSet(c.required))
        /\ IsFiniteSet(DOMAIN c.vocabularies)
        /\ \A t \in Tables : \A row \in c.rows[t] : Columns[t] \subseteq DOMAIN row

\* The rows a collection may have, a bound on the length of its tables,
\* the scan's list of --required-field and RuleContext.controlled_vocabularies.
VARIABLES collection, export

RowOf == collection.rows

Init ==
    /\ collection \in Collections
    /\ export = [objects |-> <<>>, media |-> <<>>, rights |-> <<>>, locations |-> <<>>,
                 required_fields |-> collection.required,
                 controlled_vocabularies |-> collection.vocabularies]

AppendRow(t, row) ==
    /\ Len(export[t]) < collection.max[t]
    /\ export' = [export EXCEPT ![t] = Append(@, row)]

RemoveRow(t, i) == export' = [export EXCEPT ![t] = RemoveAt(@, i)]

\* Any permutation is a series of such swaps.
SwapRows(t, i) ==
    /\ i + 1 \in DOMAIN export[t]
    /\ export' = [export EXCEPT ![t] = [@ EXCEPT ![i] = export[t][i + 1],
                                                 ![i + 1] = export[t][i]]]

Next ==
    /\ \E t \in Tables :
          \/ \E row \in RowOf[t] : AppendRow(t, row)
          \/ \E i \in DOMAIN export[t] : RemoveRow(t, i) \/ SwapRows(t, i)
    /\ UNCHANGED collection

Spec == Init /\ [][Next]_<<collection, export>>

-----------------------------------------------------------------------------
IdColumn == [objects |-> "object_id", media |-> "media_id", rights |-> "rights_id"]

UniqueIds ==
    \A t \in DOMAIN IdColumn : \A i, k \in DOMAIN export[t] :
        export[t][i][IdColumn[t]] = export[t][k][IdColumn[t]] => i = k

RequiredOnce ==
    \A m, n \in DOMAIN export.required_fields :
        export.required_fields[m] = export.required_fields[n] => m = n

Findings == Evaluate(export)
Fingerprints == FingerprintsOf(Findings)

Moved == \A t \in Tables : ToBag(export[t]) = ToBag(export'[t])

(***************************************************************************)
(* With ids that are unique in their tables, moving rows changes no        *)
(* fingerprint (compute_fingerprint, and every rule's evidence keys).      *)
(***************************************************************************)
RowOrderIrrelevant == [][UniqueIds /\ Moved => Fingerprints' = Fingerprints]_export

Lost == Fingerprints \ Fingerprints'
Gained == Fingerprints' \ Fingerprints

Copies(x, t, row) == Cardinality({i \in DOMAIN x[t] : x[t][i] = row})
Touched(t) == {row \in RowOf[t] : Copies(export, t, row) # Copies(export', t, row)}

Ids(row) == {row[c] : c \in DOMAIN row \cap
                {"object_id", "media_id", "rights_id", "accession_number"}}

(***************************************************************************)
(* A row that comes or goes changes no finding but those that name one of  *)
(* its ids: an edit never makes a finding about other records new or       *)
(* resolved.                                                               *)
(***************************************************************************)
EditIsLocal ==
    [][UniqueIds => \A fp \in Lost \cup Gained :
          \E t \in Tables : \E row \in Touched(t) :
              Ids(row) \cap ({fp.id} \cup DOMAIN fp.keys) # {}]_export

(***************************************************************************)
(* Without repeated ids, and with no field required twice, no two findings *)
(* of a scan share a fingerprint, so counting, comparing and looking up by *)
(* fingerprint lose nothing.                                               *)
(***************************************************************************)
OneFindingPerFingerprint ==
    UniqueIds /\ RequiredOnce => Cardinality(Fingerprints) = Cardinality(Findings)

About(fp, other) == fp.type = other.type /\ fp.id = other.id /\ fp.keys = other.keys

(***************************************************************************)
(* REF002 and RIGHTS001 hand over to each other.  Supplying a missing      *)
(* rights record resolves exactly the REF002 findings that named it; if it *)
(* forbids publication their public entities become RIGHTS001, and nothing *)
(* else becomes new.  Removing a record makes no public entity look clean: *)
(* what was flagged over its rights before is flagged over them after.     *)
(***************************************************************************)
RightsHandOver ==
    [][/\ \A row \in RowOf["rights"] :
             AppendRow("rights", row) /\ UniqueIds' =>
               /\ Lost = {fp \in Fingerprints : fp.rule = "REF002" /\ fp.keys = Once(row.rights_id)}
               /\ \A fp \in Gained : /\ fp.rule = "RIGHTS001" /\ ~Permits(row)
                                     /\ \E old \in Lost : About(fp, old)
       /\ \A i \in DOMAIN export.rights :
             UniqueIds /\ RemoveRow("rights", i) =>
               \A fp \in Lost : \E new \in Gained : new.rule = "REF002" /\ About(fp, new)]_export

(***************************************************************************)
(* Of all entities that name a rights record, those in public whose every  *)
(* record with that id forbids publication, or that have none, are flagged *)
(* exactly once; nobody is flagged twice over one rights id.               *)
(***************************************************************************)
FlaggedOnce ==
    \A r \in Referers(export) :
        LET row == Referer(export, r)
            flags == {f \in Findings : f.rows = {r} /\ f.fp.rule \in {"REF002", "RIGHTS001"}}
            allows == \E i \in RowsWith(export.rights, "rights_id", row.rights_id) :
                          Permits(export.rights[i])
        IN  /\ Cardinality(flags) <= 1
            /\ row.rights_id # None /\ row.publication_status \in PUBLIC_VALUES /\ ~allows
                   => flags # {}

(***************************************************************************)
(* A scan is silent on exactly the sound exports: accession numbers are    *)
(* unique, required cells filled, values in their vocabulary, and no       *)
(* object is current at two places.                                        *)
(***************************************************************************)
SilentIfSound ==
    LET objects == export.objects  places == export.locations
        words == export.controlled_vocabularies
        Distinct(table, rows, column) ==
            \A i, k \in rows :
                i # k /\ table[i][column] # None => table[i][column] # table[k][column]
        sound ==
            /\ Distinct(objects, DOMAIN objects, "accession_number")
            /\ Distinct(places, {i \in DOMAIN places : places[i].is_current = TRUE}, "object_id")
            /\ \A i \in DOMAIN objects :
                  /\ \A f \in ToSet(export.required_fields) \cap REQUIRABLE_OBJECT_FIELDS :
                        objects[i][f] # None
                  /\ \A f \in DOMAIN words \cap DOMAIN objects[i] :
                        objects[i][f] \in {None} \cup words[f]
    IN  export.media = <<>> /\ (\A i \in DOMAIN objects : objects[i].rights_id = None) =>
            (Findings = {} <=> sound)
=============================================================================
