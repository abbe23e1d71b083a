--------------------------- MODULE Curation_proofs ---------------------------
(***************************************************************************)
(* For exports of any size: fingerprints tell findings apart, rights       *)
(* problems are flagged once, silence means soundness, and what an edit    *)
(* may change in the findings of the next scan.                            *)
(***************************************************************************)
EXTENDS Curation, FiniteSetTheorems, FunctionTheorems, SequenceTheorems, TLAPS

ExportTyped ==
    /\ collection \in Collections
    /\ export \in [objects : Seq(RowOf["objects"]), media : Seq(RowOf["media"]),
                   rights : Seq(RowOf["rights"]), locations : Seq(RowOf["locations"]),
                   required_fields : {collection.required},
                   controlled_vocabularies : {collection.vocabularies}]

\* What removing one row does to a table.
LEMMA RowRemoved ==
    ASSUME NEW S, NEW table \in Seq(S), NEW i \in DOMAIN table
    PROVE  /\ RemoveAt(table, i) \in Seq(S)
           /\ Len(RemoveAt(table, i)) = Len(table) - 1
           /\ \A k \in 1 .. Len(table) - 1 :
                 RemoveAt(table, i)[k] = table[IF k < i THEN k ELSE k + 1]
<1> DEFINE front == SubSeq(table, 1, i - 1)
           back == SubSeq(table, i + 1, Len(table))
<1>1. i \in 1 .. Len(table) /\ Len(table) \in Nat /\ table \in [1 .. Len(table) -> S]
  OBVIOUS
<1>2. /\ front \in Seq(S) /\ Len(front) = i - 1
      /\ \A k \in 1 .. i - 1 : front[k] = table[k]
  BY <1>1
<1>3. /\ back \in Seq(S) /\ Len(back) = Len(table) - i
      /\ \A k \in 1 .. Len(table) - i : back[k] = table[i + k]
  <2> DEFINE m == i + 1  n == Len(table)
  <2>1. m \in Int /\ n \in Int /\ \A k \in m .. n : table[k] \in S
    BY <1>1
  <2>2. /\ back \in Seq(S)
        /\ Len(back) = IF m <= n THEN n - m + 1 ELSE 0
        /\ \A k \in 1 .. n - m + 1 : back[k] = table[m + k - 1]
    <3> HIDE DEF m, n
    <3>1. back = SubSeq(table, m, n)
      BY DEF m, n
    <3> HIDE DEF back
    <3> QED BY <2>1, <3>1, SubSeqProperties
  <2> HIDE DEF back
  <2>3. Len(back) = Len(table) - i
    BY <1>1, <2>2
  <2>4. ASSUME NEW k \in 1 .. Len(table) - i PROVE back[k] = table[i + k]
    <3>1. k \in 1 .. n - m + 1 /\ m + k - 1 = i + k
      BY <1>1
    <3> QED BY <2>2, <3>1
  <2> QED BY <2>2, <2>3, <2>4
<1> HIDE DEF front, back
<1>6. Len(front) + Len(back) = Len(table) - 1
  BY <1>1, <1>2, <1>3
<1>4. /\ front \o back \in Seq(S)
      /\ Len(front \o back) = Len(table) - 1
      /\ \A k \in 1 .. Len(table) - 1 :
            (front \o back)[k] = IF k <= i - 1 THEN front[k] ELSE back[k - (i - 1)]
  <2>1. /\ front \o back \in Seq(S)
        /\ Len(front \o back) = Len(front) + Len(back)
        /\ \A k \in 1 .. Len(front) + Len(back) :
              (front \o back)[k] = IF k <= Len(front) THEN front[k] ELSE back[k - Len(front)]
    BY <1>2, <1>3, ConcatProperties
  <2> QED BY <1>2, <1>6, <2>1
<1>5. ASSUME NEW k \in 1 .. Len(table) - 1
      PROVE  (front \o back)[k] = table[IF k < i THEN k ELSE k + 1]
  <2>1. CASE k < i
    BY <1>1, <1>2, <1>4, <2>1
  <2>2. CASE ~(k < i)
    <3>1. k - (i - 1) \in 1 .. Len(table) - i /\ i + (k - (i - 1)) = k + 1
      BY <1>1, <2>2
    <3>2. back[k - (i - 1)] = table[k + 1]
      BY <1>3, <3>1
    <3>3. ~(k <= i - 1)
      BY <1>1, <2>2
    <3> QED BY <1>4, <2>2, <3>2, <3>3
  <2> QED BY <2>1, <2>2
<1> QED BY <1>4, <1>5 DEF RemoveAt, front, back

\* Every edit puts one table in the place of another.
LEMMA TypedTable ==
    ASSUME ExportTyped, NEW t \in Tables, NEW s \in Seq(RowOf[t]),
           collection' = collection, export' = [export EXCEPT ![t] = s]
    PROVE  ExportTyped'
<1> USE DEF ExportTyped, RowOf
<1>1. CASE t = "objects"
  BY <1>1
<1>2. CASE t = "media"
  BY <1>2
<1>3. CASE t = "rights"
  BY <1>3
<1>4. CASE t = "locations"
  BY <1>4
<1> QED BY <1>1, <1>2, <1>3, <1>4 DEF Tables

LEMMA TypedStep == ExportTyped /\ [Next]_<<collection, export>> => ExportTyped'
<1> SUFFICES ASSUME ExportTyped, Next PROVE ExportTyped'
  BY DEF ExportTyped, RowOf
<1>1. collection' = collection
  BY DEF Next
<1>2. PICK t \in Tables :
        \/ \E row \in RowOf[t] : AppendRow(t, row)
        \/ \E i \in DOMAIN export[t] : RemoveRow(t, i) \/ SwapRows(t, i)
  BY DEF Next
<1>3. export[t] \in Seq(RowOf[t])
  BY DEF Tables, ExportTyped
<1>4. ASSUME NEW row \in RowOf[t], AppendRow(t, row) PROVE ExportTyped'
  <2>1. Append(export[t], row) \in Seq(RowOf[t])
    BY <1>3, AppendProperties
  <2> QED BY <1>1, <1>4, <2>1, TypedTable DEF AppendRow
<1>5. ASSUME NEW i \in DOMAIN export[t], RemoveRow(t, i) PROVE ExportTyped'
  BY <1>1, <1>3, <1>5, RowRemoved, TypedTable DEF RemoveRow
<1>6. ASSUME NEW i \in DOMAIN export[t], SwapRows(t, i) PROVE ExportTyped'
  <2> DEFINE s == [export[t] EXCEPT ![i] = export[t][i + 1], ![i + 1] = export[t][i]]
  <2>1. s \in Seq(RowOf[t])
    BY <1>3, <1>6 DEF SwapRows
  <2>2. export' = [export EXCEPT ![t] = s]
    BY <1>6 DEF SwapRows
  <2> QED BY <1>1, <2>1, <2>2, TypedTable
<1> QED BY <1>2, <1>4, <1>5, <1>6

LEMMA Typed == Spec => []ExportTyped
<1>1. Init => ExportTyped
  BY DEF Init, ExportTyped, RowOf
<1> QED BY <1>1, TypedStep, PTL DEF Spec

-----------------------------------------------------------------------------
(***************************************************************************)
(* The fingerprints of a scan, table by table.  But for the rules that     *)
(* group, they depend on which rows a table has and on nothing else.       *)
(***************************************************************************)
Fp(rule, type, id, field, keys) ==
    [rule |-> rule, type |-> type, id |-> id, field |-> field, keys |-> keys]

Group(objects, a) == RowsWith(objects, "accession_number", a)

FpAccession(objects) ==
    {Fp("CORE001", "object", a, "accession_number", Column(objects, Group(objects, a), "object_id")) :
        a \in {v \in Values(objects, "accession_number") \ {None} : Cardinality(Group(objects, v)) >= 2}}

Current(locations, o) == {i \in RowsWith(locations, "object_id", o) : locations[i].is_current = TRUE}

FpCurrent(locations) ==
    {Fp("LOC001", "object", o, "current_location_id",
        Column(locations, Current(locations, o), "location_id")) :
        o \in {v \in Values(locations, "object_id") \ {None} : Cardinality(Current(locations, v)) >= 2}}

FpRequired(rows, fields) ==
    {Fp("CORE002", "object", c[1].object_id, c[2], Once(c[2])) :
        c \in {d \in rows \X (fields \cap REQUIRABLE_OBJECT_FIELDS) : d[1][d[2]] = None}}

ValueOf(row, f) == IF f \in DOMAIN row THEN row[f] ELSE None

FpWords(rows, words) ==
    {Fp("VOCAB001", "object", c[1].object_id, c[2], [k \in {c[2], ValueOf(c[1], c[2])} |-> 1]) :
        c \in {d \in rows \X (DOMAIN words) : ValueOf(d[1], d[2]) \notin {None} \cup words[d[2]]}}

FpMedia(rows, ids) ==
    {Fp("REF001", "media", w.media_id, "object_id", Once(w.object_id)) :
        w \in {r \in rows : r.object_id \notin {None} \cup ids}}

FpOrphans(objects, media, ids) ==
    {Fp("REF002", "object", w.object_id, "rights_id", Once(w.rights_id)) :
        w \in {r \in objects : r.rights_id \notin {None} \cup ids}}
    \cup {Fp("REF002", "media", w.media_id, "rights_id", Once(w.rights_id)) :
        w \in {r \in media : r.rights_id \notin {None} \cup ids}}

Exposed(row, forbidden) ==
    row.publication_status \in PUBLIC_VALUES /\ row.rights_id # None /\ row.rights_id \in forbidden

FpConflicts(objects, media, forbidden) ==
    {Fp("RIGHTS001", "object", w.object_id, "publication_status", Once(w.rights_id)) :
        w \in {r \in objects : Exposed(r, forbidden)}}
    \cup {Fp("RIGHTS001", "media", w.media_id, "publication_status", Once(w.rights_id)) :
        w \in {r \in media : Exposed(r, forbidden)}}

\* The known rights records that do not permit publication.
Forbidden(rights) ==
    {id \in Values(rights, "rights_id") : ~Permits(Record(rights, "rights_id", id))}

FpAll(x) ==
    UNION {FpAccession(x.objects), FpRequired(ToSet(x.objects), ToSet(x.required_fields)),
           FpMedia(ToSet(x.media), Values(x.objects, "object_id")),
           FpOrphans(ToSet(x.objects), ToSet(x.media), Values(x.rights, "rights_id")),
           FpConflicts(ToSet(x.objects), ToSet(x.media), Forbidden(x.rights)),
           FpCurrent(x.locations), FpWords(ToSet(x.objects), x.controlled_vocabularies)}

LEMMA FpFound ==
    ASSUME NEW rule, NEW type, NEW id, NEW field, NEW keys, NEW table, NEW rows
    PROVE  Found(rule, type, id, field, keys, table, rows).fp = Fp(rule, type, id, field, keys)
BY DEF Found, Fp

LEMMA AskedAside ==
    ASSUME NEW rule, NEW type, NEW id, NEW field, NEW keys, NEW table, NEW rows, NEW n
    PROVE  [Found(rule, type, id, field, keys, table, rows) EXCEPT !.asked = n].fp
              = Found(rule, type, id, field, keys, table, rows).fp
BY DEF Found

LEMMA AccessionPrints ==
    ASSUME NEW x PROVE FingerprintsOf(DuplicateAccessionNumber(x)) = FpAccession(x.objects)
BY FpFound DEF FingerprintsOf, DuplicateAccessionNumber, FpAccession, AccessionKeys, Group

LEMMA CurrentPrints ==
    ASSUME NEW x PROVE FingerprintsOf(MultipleCurrentLocations(x)) = FpCurrent(x.locations)
<1> DEFINE L == x.locations
           many == {v \in Values(L, "object_id") \ {None} : Cardinality(Current(L, v)) >= 2}
           finding(o) == Found("LOC001", "object", o, "current_location_id",
                               Column(L, Current(L, o), "location_id"), "locations", Current(L, o))
<1>1. MultipleCurrentLocations(x) = {finding(o) : o \in many}
  BY DEF MultipleCurrentLocations, Current
<1>2. \A o : finding(o).fp = Fp("LOC001", "object", o, "current_location_id",
                                Column(L, Current(L, o), "location_id"))
  BY FpFound
<1> QED BY <1>1, <1>2 DEF FingerprintsOf, FpCurrent

LEMMA RequiredPrints ==
    ASSUME NEW x
    PROVE  FingerprintsOf(RequiredFieldMissing(x)) = FpRequired(ToSet(x.objects), ToSet(x.required_fields))
<1> DEFINE O == x.objects
           R == x.required_fields
           fields == ToSet(R) \cap REQUIRABLE_OBJECT_FIELDS
           empty(w, f) == w[f] = None
           print(w, f) == Fp("CORE002", "object", w.object_id, f, Once(f))
           finding(i, n) == [Found("CORE002", "object", O[i].object_id, R[n], Once(R[n]),
                                   "objects", {i}) EXCEPT !.asked = n]
           missing(i, n) == R[n] \in REQUIRABLE_OBJECT_FIELDS /\ empty(O[i], R[n])
           cells == {d \in (DOMAIN O) \X (DOMAIN R) : missing(d[1], d[2])}
           pairs == {d \in ToSet(O) \X fields : empty(d[1], d[2])}
<1>1. ASSUME NEW p
      PROVE  p \in FingerprintsOf(RequiredFieldMissing(x)) <=>
                \E i \in DOMAIN O, f \in fields : empty(O[i], f) /\ p = print(O[i], f)
  <2>1. RequiredFieldMissing(x) = {finding(c[1], c[2]) : c \in cells}
    BY DEF RequiredFieldMissing
  <2>2. \A i, n : finding(i, n).fp = print(O[i], R[n])
    BY FpFound, AskedAside
  <2>7. \A i, n : missing(i, n) <=> R[n] \in REQUIRABLE_OBJECT_FIELDS /\ empty(O[i], R[n])
    OBVIOUS
  <2>8. \A f : f \in fields <=> \E n \in DOMAIN R : R[n] = f /\ f \in REQUIRABLE_OBJECT_FIELDS
    BY DEF ToSet
  <2> HIDE DEF empty, missing
  <2>3. \A i, n : <<i, n>> \in cells <=> i \in DOMAIN O /\ n \in DOMAIN R /\ missing(i, n)
    OBVIOUS
  <2>4. \A c \in cells : c = <<c[1], c[2]>>
    OBVIOUS
  <2> HIDE DEF finding, print, cells
  <2>5. p \in FingerprintsOf(RequiredFieldMissing(x)) <=> \E c \in cells : p = finding(c[1], c[2]).fp
    BY <2>1 DEF FingerprintsOf
  <2>6. p \in FingerprintsOf(RequiredFieldMissing(x)) <=>
           \E i, n : <<i, n>> \in cells /\ p = finding(i, n).fp
    BY <2>4, <2>5
  <2> HIDE DEF O, R, fields
  <2>9. p \in FingerprintsOf(RequiredFieldMissing(x)) <=>
           \E i \in DOMAIN O : \E n \in DOMAIN R : missing(i, n) /\ p = print(O[i], R[n])
    BY <2>2, <2>3, <2>6
  <2> QED BY <2>7, <2>8, <2>9
<1> HIDE DEF R
<1>2. ASSUME NEW p
      PROVE  p \in FpRequired(ToSet(O), ToSet(R)) <=>
                \E w \in ToSet(O), f \in fields : empty(w, f) /\ p = print(w, f)
  <2>1. FpRequired(ToSet(O), ToSet(R)) = {print(c[1], c[2]) : c \in pairs}
    BY DEF FpRequired
  <2> HIDE DEF empty
  <2>2. \A w, f : <<w, f>> \in pairs <=> w \in ToSet(O) /\ f \in fields /\ empty(w, f)
    OBVIOUS
  <2>3. \A c \in pairs : c = <<c[1], c[2]>>
    OBVIOUS
  <2> HIDE DEF print, pairs, fields
  <2>4. p \in FpRequired(ToSet(O), ToSet(R)) <=>
           \E w, f : <<w, f>> \in pairs /\ p = print(w, f)
    BY <2>1, <2>3
  <2> QED BY <2>2, <2>4
<1> HIDE DEF print, empty
<1>3. ASSUME NEW p
      PROVE  (\E w \in ToSet(O), f \in fields : empty(w, f) /\ p = print(w, f)) <=>
                \E i \in DOMAIN O, f \in fields : empty(O[i], f) /\ p = print(O[i], f)
  BY DEF ToSet
<1> QED BY <1>1, <1>2, <1>3 DEF R

LEMMA WordsPrints ==
    ASSUME NEW x
    PROVE  FingerprintsOf(UnknownControlledValue(x))
              = FpWords(ToSet(x.objects), x.controlled_vocabularies)
<1> DEFINE O == x.objects
           words == x.controlled_vocabularies
           unknown(w, f) == ValueOf(w, f) \notin {None} \cup words[f]
           print(w, f) == Fp("VOCAB001", "object", w.object_id, f, [k \in {f, ValueOf(w, f)} |-> 1])
           finding(i, f) == Found("VOCAB001", "object", O[i].object_id, f,
                                  [k \in {f, ValueOf(O[i], f)} |-> 1], "objects", {i})
           cells == {d \in (DOMAIN O) \X (DOMAIN words) : unknown(O[d[1]], d[2])}
           pairs == {d \in ToSet(O) \X (DOMAIN words) : unknown(d[1], d[2])}
<1>1. ASSUME NEW p
      PROVE  p \in FingerprintsOf(UnknownControlledValue(x)) <=>
                \E i \in DOMAIN O, f \in DOMAIN words : unknown(O[i], f) /\ p = print(O[i], f)
  <2>1. UnknownControlledValue(x) = {finding(c[1], c[2]) : c \in cells}
    BY DEF UnknownControlledValue, ValueOf
  <2>2. \A i, f : finding(i, f).fp = print(O[i], f)
    BY FpFound
  <2> HIDE DEF unknown
  <2>3. \A i, f : <<i, f>> \in cells <=> i \in DOMAIN O /\ f \in DOMAIN words /\ unknown(O[i], f)
    OBVIOUS
  <2>4. \A c \in cells : c = <<c[1], c[2]>>
    OBVIOUS
  <2> HIDE DEF finding, print, cells
  <2>5. p \in FingerprintsOf(UnknownControlledValue(x)) <=> \E c \in cells : p = finding(c[1], c[2]).fp
    BY <2>1 DEF FingerprintsOf
  <2>6. p \in FingerprintsOf(UnknownControlledValue(x)) <=>
           \E i, f : <<i, f>> \in cells /\ p = finding(i, f).fp
    BY <2>4, <2>5
  <2> HIDE DEF O, words
  <2> QED BY <2>2, <2>3, <2>6
<1>2. ASSUME NEW p
      PROVE  p \in FpWords(ToSet(O), words) <=>
                \E w \in ToSet(O), f \in DOMAIN words : unknown(w, f) /\ p = print(w, f)
  <2>1. FpWords(ToSet(O), words) = {print(c[1], c[2]) : c \in pairs}
    BY DEF FpWords
  <2> HIDE DEF unknown
  <2>2. \A w, f : <<w, f>> \in pairs <=> w \in ToSet(O) /\ f \in DOMAIN words /\ unknown(w, f)
    OBVIOUS
  <2>3. \A c \in pairs : c = <<c[1], c[2]>>
    OBVIOUS
  <2> HIDE DEF print, pairs, words
  <2>4. p \in FpWords(ToSet(O), words) <=> \E w, f : <<w, f>> \in pairs /\ p = print(w, f)
    BY <2>1, <2>3
  <2> QED BY <2>2, <2>4
<1> HIDE DEF print, unknown
<1>3. ASSUME NEW p
      PROVE  (\E w \in ToSet(O), f \in DOMAIN words : unknown(w, f) /\ p = print(w, f)) <=>
                \E i \in DOMAIN O, f \in DOMAIN words : unknown(O[i], f) /\ p = print(O[i], f)
  BY DEF ToSet
<1> QED BY <1>1, <1>2, <1>3

LEMMA MediaPrints ==
    ASSUME NEW x
    PROVE  FingerprintsOf(OrphanMediaObject(x)) = FpMedia(ToSet(x.media), Values(x.objects, "object_id"))
<1> DEFINE M == x.media
           ids == {None} \cup Values(x.objects, "object_id")
           print(w) == Fp("REF001", "media", w.media_id, "object_id", Once(w.object_id))
           finding(i) == Found("REF001", "media", M[i].media_id, "object_id", Once(M[i].object_id),
                               "media", {i})
<1>1. ASSUME NEW p
      PROVE  p \in FingerprintsOf(OrphanMediaObject(x)) <=>
                \E i \in DOMAIN M : M[i].object_id \notin ids /\ p = print(M[i])
  <2>1. OrphanMediaObject(x) = {finding(i) : i \in {k \in DOMAIN M : M[k].object_id \notin ids}}
    BY DEF OrphanMediaObject
  <2>2. \A i : finding(i).fp = print(M[i])
    BY FpFound
  <2> HIDE DEF finding, print, M, ids
  <2> QED BY <2>1, <2>2 DEF FingerprintsOf
<1>2. ASSUME NEW p
      PROVE  p \in FpMedia(ToSet(M), Values(x.objects, "object_id")) <=>
                \E w \in ToSet(M) : w.object_id \notin ids /\ p = print(w)
  BY DEF FpMedia
<1> HIDE DEF print, ids
<1> QED BY <1>1, <1>2 DEF ToSet

FoundAmong(x, rule, T, field) == {FoundAt(x, rule, r, field) : r \in T}

\* A rule on the rows that refer to rights finds the same in both tables.
LEMMA RefererPrints ==
    ASSUME NEW x, NEW rule, NEW field, NEW T, T \subseteq Referers(x), NEW p
    PROVE  p \in FingerprintsOf(FoundAmong(x, rule, T, field)) <=>
              \/ \E i \in DOMAIN x.objects :
                    /\ <<"objects", i>> \in T
                    /\ p = Fp(rule, "object", x.objects[i].object_id, field, Once(x.objects[i].rights_id))
              \/ \E i \in DOMAIN x.media :
                    /\ <<"media", i>> \in T
                    /\ p = Fp(rule, "media", x.media[i].media_id, field, Once(x.media[i].rights_id))
<1> DEFINE O == x.objects  M == x.media
<1>1. p \in FingerprintsOf(FoundAmong(x, rule, T, field)) <=>
         \E r \in T : p = FoundAt(x, rule, r, field).fp
  BY DEF FingerprintsOf, FoundAmong
<1>2. \A r \in T : \/ \E i \in DOMAIN O : r = <<"objects", i>>
                   \/ \E i \in DOMAIN M : r = <<"media", i>>
  BY DEF Referers
<1>3. \A i : FoundAt(x, rule, <<"objects", i>>, field).fp
                = Fp(rule, "object", O[i].object_id, field, Once(O[i].rights_id))
  BY FpFound DEF FoundAt, Referer
<1>4. \A i : FoundAt(x, rule, <<"media", i>>, field).fp
                = Fp(rule, "media", M[i].media_id, field, Once(M[i].rights_id))
  BY FpFound DEF FoundAt, Referer
<1> HIDE DEF O, M
<1>5. p \in FingerprintsOf(FoundAmong(x, rule, T, field)) <=>
         \/ \E i \in DOMAIN O : <<"objects", i>> \in T /\ p = FoundAt(x, rule, <<"objects", i>>, field).fp
         \/ \E i \in DOMAIN M : <<"media", i>> \in T /\ p = FoundAt(x, rule, <<"media", i>>, field).fp
  BY <1>1, <1>2
<1> QED BY <1>3, <1>4, <1>5 DEF O, M

LEMMA OrphanPrints ==
    ASSUME NEW x
    PROVE  FingerprintsOf(OrphanRightsReference(x))
              = FpOrphans(ToSet(x.objects), ToSet(x.media), Values(x.rights, "rights_id"))
<1> DEFINE ids == {None} \cup Values(x.rights, "rights_id")
           T == {q \in Referers(x) : Referer(x, q).rights_id \notin ids}
           O == x.objects  M == x.media
           object(w) == Fp("REF002", "object", w.object_id, "rights_id", Once(w.rights_id))
           medium(w) == Fp("REF002", "media", w.media_id, "rights_id", Once(w.rights_id))
<1>1. OrphanRightsReference(x) = FoundAmong(x, "REF002", T, "rights_id")
  BY DEF OrphanRightsReference, FoundAmong
<1>2. /\ \A i \in DOMAIN O : <<"objects", i>> \in T <=> O[i].rights_id \notin ids
      /\ \A i \in DOMAIN M : <<"media", i>> \in T <=> M[i].rights_id \notin ids
      /\ T \subseteq Referers(x)
  BY DEF Referers, Referer
<1>3. ASSUME NEW p
      PROVE  p \in FpOrphans(ToSet(O), ToSet(M), Values(x.rights, "rights_id")) <=>
                \/ \E i \in DOMAIN O : O[i].rights_id \notin ids /\ p = object(O[i])
                \/ \E i \in DOMAIN M : M[i].rights_id \notin ids /\ p = medium(M[i])
  <2> HIDE DEF T
  <2>1. p \in FpOrphans(ToSet(O), ToSet(M), Values(x.rights, "rights_id")) <=>
           \/ \E w \in ToSet(O) : w.rights_id \notin ids /\ p = object(w)
           \/ \E w \in ToSet(M) : w.rights_id \notin ids /\ p = medium(w)
    BY DEF FpOrphans
  <2> HIDE DEF object, medium, ids
  <2> QED BY <2>1 DEF ToSet
<1> HIDE DEF T
<1>4. ASSUME NEW p
      PROVE  p \in FingerprintsOf(FoundAmong(x, "REF002", T, "rights_id")) <=>
                \/ \E i \in DOMAIN O : <<"objects", i>> \in T /\ p = object(O[i])
                \/ \E i \in DOMAIN M : <<"media", i>> \in T /\ p = medium(M[i])
  <2>1. T \subseteq Referers(x)
    BY <1>2
  <2> HIDE DEF T
  <2> DEFINE field == "rights_id"
             rule == "REF002"
  <2> HIDE DEF field, rule
  <2>2. p \in FingerprintsOf(FoundAmong(x, rule, T, field)) <=>
           \/ \E i \in DOMAIN O : /\ <<"objects", i>> \in T
                                 /\ p = Fp(rule, "object", O[i].object_id, field, Once(O[i].rights_id))
           \/ \E i \in DOMAIN M : /\ <<"media", i>> \in T
                                 /\ p = Fp(rule, "media", M[i].media_id, field, Once(M[i].rights_id))
    BY <2>1, RefererPrints
  <2> HIDE DEF O, M
  <2> QED BY <2>2 DEF field, rule
<1> HIDE DEF object, medium, O, M, ids
<1> QED BY <1>1, <1>2, <1>3, <1>4 DEF O, M

LEMMA ConflictPrints ==
    ASSUME NEW x
    PROVE  FingerprintsOf(PublicationConflict(x))
              = FpConflicts(ToSet(x.objects), ToSet(x.media), Forbidden(x.rights))
<1> DEFINE forbidden == Forbidden(x.rights)
           T == {q \in Referers(x) : Exposed(Referer(x, q), forbidden)}
           O == x.objects  M == x.media
           object(w) == Fp("RIGHTS001", "object", w.object_id, "publication_status", Once(w.rights_id))
           medium(w) == Fp("RIGHTS001", "media", w.media_id, "publication_status", Once(w.rights_id))
<1>1. PublicationConflict(x) = FoundAmong(x, "RIGHTS001", T, "publication_status")
  <2>1. \A id : id \in forbidden <=> NotPermitted(x, id)
    BY DEF Forbidden, NotPermitted
  <2> HIDE DEF forbidden
  <2> QED BY <2>1 DEF PublicationConflict, Exposed, FoundAmong
<1>2. /\ \A i \in DOMAIN O : <<"objects", i>> \in T <=> Exposed(O[i], forbidden)
      /\ \A i \in DOMAIN M : <<"media", i>> \in T <=> Exposed(M[i], forbidden)
      /\ T \subseteq Referers(x)
  BY DEF Referers, Referer
<1>3. ASSUME NEW p
      PROVE  p \in FpConflicts(ToSet(O), ToSet(M), forbidden) <=>
                \/ \E i \in DOMAIN O : Exposed(O[i], forbidden) /\ p = object(O[i])
                \/ \E i \in DOMAIN M : Exposed(M[i], forbidden) /\ p = medium(M[i])
  <2> HIDE DEF T, forbidden
  <2>1. p \in FpConflicts(ToSet(O), ToSet(M), forbidden) <=>
           \/ \E w \in ToSet(O) : Exposed(w, forbidden) /\ p = object(w)
           \/ \E w \in ToSet(M) : Exposed(w, forbidden) /\ p = medium(w)
    BY DEF FpConflicts
  <2> HIDE DEF object, medium
  <2> QED BY <2>1 DEF ToSet
<1> HIDE DEF T
<1>4. ASSUME NEW p
      PROVE  p \in FingerprintsOf(FoundAmong(x, "RIGHTS001", T, "publication_status")) <=>
                \/ \E i \in DOMAIN O : <<"objects", i>> \in T /\ p = object(O[i])
                \/ \E i \in DOMAIN M : <<"media", i>> \in T /\ p = medium(M[i])
  <2>1. T \subseteq Referers(x)
    BY <1>2
  <2> HIDE DEF T
  <2> QED BY <2>1, RefererPrints
<1> HIDE DEF object, medium, O, M, forbidden
<1> QED BY <1>1, <1>2, <1>3, <1>4 DEF O, M, forbidden

LEMMA AllPrints == ASSUME NEW x PROVE FingerprintsOf(Evaluate(x)) = FpAll(x)
<1>1. FingerprintsOf(Evaluate(x)) =
         UNION {FingerprintsOf(DuplicateAccessionNumber(x)), FingerprintsOf(RequiredFieldMissing(x)),
                FingerprintsOf(OrphanMediaObject(x)), FingerprintsOf(OrphanRightsReference(x)),
                FingerprintsOf(PublicationConflict(x)), FingerprintsOf(MultipleCurrentLocations(x)),
                FingerprintsOf(UnknownControlledValue(x))}
  BY DEF FingerprintsOf, Evaluate
<1> QED BY <1>1, AccessionPrints, CurrentPrints, RequiredPrints, WordsPrints, MediaPrints,
           OrphanPrints, ConflictPrints DEF FpAll

-----------------------------------------------------------------------------
(***************************************************************************)
(* A rearranged table: pi says which row of a the k-th row of b is.        *)
(***************************************************************************)
Drawn(a, b, pi) ==
    /\ \E m \in Nat : DOMAIN a = 1 .. m
    /\ \E n \in Nat : DOMAIN b = 1 .. n
    /\ pi \in [DOMAIN b -> DOMAIN a]
    /\ \A k, m \in DOMAIN b : pi[k] = pi[m] => k = m
    /\ \A k \in DOMAIN b : b[k] = a[pi[k]]

LEMMA SameCardinality ==
    ASSUME NEW a, NEW b, NEW pi, Drawn(a, b, pi),
           NEW G, NEW H, G \subseteq Range(pi), H = {k \in DOMAIN b : pi[k] \in G}
    PROVE  /\ IsFiniteSet(G) /\ IsFiniteSet(H)
           /\ Cardinality(H) = Cardinality(G)
<1>1. IsFiniteSet(DOMAIN b)
  BY FS_Interval DEF Drawn
<1>2. IsFiniteSet(H)
  BY <1>1, FS_Subset
<1> DEFINE f == [k \in H |-> pi[k]]
<1>3. f \in Bijection(H, G)
  <2>1. f \in [H -> G] /\ \A k, m \in H : f[k] = f[m] => k = m
    BY DEF Drawn
  <2>2. \A g \in G : \E k \in H : f[k] = g
    BY DEF Range, Drawn
  <2> HIDE DEF f
  <2> QED BY <2>1, <2>2, Fun_IsBij
<1> HIDE DEF f
<1>4. ExistsBijection(H, G)
  BY <1>3 DEF ExistsBijection
<1> QED BY <1>2, <1>4, FS_Bijection

\* Rows drawn together keep the bag of their values.
LEMMA SameColumn ==
    ASSUME NEW a, NEW b, NEW pi, Drawn(a, b, pi),
           NEW G, NEW H, G \subseteq Range(pi), H = {k \in DOMAIN b : pi[k] \in G}, NEW column
    PROVE  Column(b, H, column) = Column(a, G, column)
<1>1. {b[k][column] : k \in H} = {a[i][column] : i \in G}
  <2>1. \A k \in H : pi[k] \in G /\ b[k] = a[pi[k]]
    BY DEF Drawn
  <2>2. \A i \in G : \E k \in H : i = pi[k]
    BY DEF Range, Drawn
  <2> QED BY <2>1, <2>2
<1>2. ASSUME NEW v
      PROVE  Cardinality({k \in H : b[k][column] = v}) = Cardinality({i \in G : a[i][column] = v})
  <2> DEFINE g == {i \in G : a[i][column] = v}
             h == {k \in H : b[k][column] = v}
  <2>1. g \subseteq Range(pi) /\ h = {k \in DOMAIN b : pi[k] \in g}
    BY DEF Drawn
  <2> HIDE DEF g, h
  <2>2. Cardinality(h) = Cardinality(g)
    BY <2>1, SameCardinality
  <2> QED BY <2>2 DEF g, h
<1> QED BY <1>1, <1>2 DEF Column

Without(a, b, i) ==
    /\ \E n \in Nat : DOMAIN a = 1 .. n + 1 /\ DOMAIN b = 1 .. n
    /\ i \in DOMAIN a
    /\ \A k \in DOMAIN b : b[k] = a[IF k < i THEN k ELSE k + 1]

Past(i, D) == [k \in D |-> IF k < i THEN k ELSE k + 1]

LEMMA WithoutDrawn ==
    ASSUME NEW a, NEW b, NEW i, Without(a, b, i)
    PROVE  /\ Drawn(a, b, Past(i, DOMAIN b))
           /\ Range(Past(i, DOMAIN b)) = (DOMAIN a) \ {i}
<1> DEFINE pi == Past(i, DOMAIN b)
<1>1. PICK n \in Nat : DOMAIN a = 1 .. n + 1 /\ DOMAIN b = 1 .. n
  BY DEF Without
<1>2. i \in 1 .. n + 1
  BY <1>1 DEF Without
<1>3. \A k \in 1 .. n : pi[k] \in 1 .. n + 1 /\ pi[k] # i /\ pi[k] = IF k < i THEN k ELSE k + 1
  BY <1>1, <1>2 DEF Past
<1>4. \A k, m \in 1 .. n : pi[k] = pi[m] => k = m
  BY <1>3, <1>2
<1>5. pi \in [1 .. n -> 1 .. n + 1]
  BY <1>1, <1>2 DEF Past
<1>6. \A j \in 1 .. n + 1 : j # i => \E k \in 1 .. n : pi[k] = j
  <2> TAKE j \in 1 .. n + 1
  <2> DEFINE k == IF j < i THEN j ELSE j - 1
  <2> HAVE j # i
  <2>1. k \in 1 .. n /\ (k < i <=> j < i)
    BY <1>2
  <2> QED BY <2>1, <1>3, <1>2
<1>7. \A k \in DOMAIN b : b[k] = a[pi[k]]
  BY <1>1, <1>3 DEF Without
<1> HIDE DEF pi
<1>8. Drawn(a, b, pi)
  <2>1. n + 1 \in Nat
    BY <1>1
  <2> QED BY <1>1, <1>4, <1>5, <1>7, <2>1 DEF Drawn
<1>9. Range(pi) = (DOMAIN a) \ {i}
  BY <1>1, <1>3, <1>5, <1>6 DEF Range
<1> QED BY <1>8, <1>9 DEF pi

LEMMA WithoutRows ==
    ASSUME NEW a, NEW b, NEW i, Without(a, b, i)
    PROVE  /\ a[i] \in ToSet(a)
           /\ ToSet(a) = ToSet(b) \cup {a[i]}
           /\ \A column : Values(a, column) = Values(b, column) \cup {a[i][column]}
<1> DEFINE pi == Past(i, DOMAIN b)
<1>1. Drawn(a, b, pi) /\ Range(pi) = (DOMAIN a) \ {i}
  BY WithoutDrawn
<1> HIDE DEF pi
<1>2. i \in DOMAIN a
  BY DEF Without
<1>3. ASSUME NEW j \in DOMAIN a, j # i PROVE \E k \in DOMAIN b : b[k] = a[j]
  BY <1>1, <1>3 DEF Drawn, Range
<1>4. ASSUME NEW k \in DOMAIN b PROVE \E j \in DOMAIN a : b[k] = a[j]
  BY <1>1 DEF Drawn
<1>5. ToSet(a) = ToSet(b) \cup {a[i]}
  BY <1>2, <1>3, <1>4 DEF ToSet
<1>6. ASSUME NEW column PROVE Values(a, column) = Values(b, column) \cup {a[i][column]}
  BY <1>2, <1>3, <1>4 DEF Values
<1> QED BY <1>2, <1>5, <1>6 DEF ToSet

\* The last of a set of row numbers.
LEMMA MaxIs ==
    ASSUME NEW S \in SUBSET Nat, NEW m \in S, \A k \in S : k <= m
    PROVE  Max(S) = m
<1>1. \A k \in S : (\A y \in S : k >= y) <=> k = m
  OBVIOUS
<1> QED BY <1>1 DEF Max

LEMMA Least ==
    ASSUME NEW S \in SUBSET Nat, S # {}
    PROVE  \E n \in S : \A m \in S : n <= m
<1> DEFINE R == OpToRel(<, Nat)
<1>1. IsWellFoundedOn(R, Nat)
  BY NatLessThanWellFounded
<1>2. \A m \in Nat, k \in Nat : m < k => <<m, k>> \in R
  BY DEF R, OpToRel
<1> HIDE DEF R
<1>3. \E n \in S : \A m \in S : ~(<<m, n>> \in R)
  BY <1>1, WFMin
<1>4. PICK n \in S : \A m \in S : ~(<<m, n>> \in R)
  BY <1>3
<1>5. ASSUME NEW m \in S PROVE n <= m
  <2>1. ~(m < n)
    BY <1>2, <1>4
  <2> QED BY <2>1
<1> QED BY <1>5

LEMMA MaxOf ==
    ASSUME NEW n \in Nat, NEW S \in SUBSET (1 .. n), S # {}
    PROVE  Max(S) \in S /\ \A k \in S : k <= Max(S)
<1> DEFINE T == {m \in Nat : n - m \in S}
<1>1. T \in SUBSET Nat /\ T # {}
  <2>1. PICK s \in S : TRUE
    OBVIOUS
  <2>2. n - s \in Nat /\ n - (n - s) = s
    BY <2>1
  <2> QED BY <2>2
<1>2. PICK m \in T : \A k \in T : m <= k
  <2> HIDE DEF T
  <2> QED BY <1>1, Least
<1>3. n - m \in S /\ \A k \in S : k <= n - m
  <2>1. n - m \in S /\ m \in Nat
    OBVIOUS
  <2>2. ASSUME NEW k \in S PROVE k <= n - m
    <3>1. n - k \in Nat /\ n - (n - k) = k
      OBVIOUS
    <3>2. m <= n - k
      BY <1>2, <3>1
    <3> QED BY <2>1, <3>2
  <2> QED BY <2>1, <2>2
<1>4. Max(S) = n - m
  <2>1. S \in SUBSET Nat
    OBVIOUS
  <2> QED BY <1>3, <2>1, MaxIs
<1> QED BY <1>3, <1>4

\* A look-up by any other key finds the row it found before.
LEMMA SameRecord ==
    ASSUME NEW a, NEW b, NEW i, Without(a, b, i), NEW column,
           NEW key \in Values(b, column), key # a[i][column]
    PROVE  Record(a, column, key) = Record(b, column, key)
<1> DEFINE A == RowsWith(a, column, key)
           B == RowsWith(b, column, key)
           m == Max(B)
           j == IF m < i THEN m ELSE m + 1
<1>1. PICK n \in Nat : DOMAIN a = 1 .. n + 1 /\ DOMAIN b = 1 .. n
  BY DEF Without
<1>2. B \in SUBSET (1 .. n) /\ B # {}
  BY <1>1 DEF RowsWith, Values
<1> HIDE DEF B
<1>3. m \in B /\ \A k \in B : k <= m
  BY <1>2, MaxOf
<1> HIDE DEF m
<1>4. i \in 1 .. n + 1 /\ \A k \in 1 .. n : b[k] = a[IF k < i THEN k ELSE k + 1]
  BY <1>1 DEF Without
<1>5. j \in 1 .. n + 1 /\ b[m] = a[j]
  BY <1>2, <1>3, <1>4
<1>6. j \in A
  <2>1. b[m][column] = key
    BY <1>3 DEF B, RowsWith
  <2> HIDE DEF j
  <2> QED BY <1>1, <1>5, <2>1 DEF RowsWith
<1>7. ASSUME NEW y \in A PROVE y <= j
  <2>1. y \in 1 .. n + 1 /\ a[y][column] = key /\ y # i
    BY <1>1 DEF RowsWith
  <2> DEFINE k == IF y < i THEN y ELSE y - 1
  <2>2. k \in 1 .. n /\ y = IF k < i THEN k ELSE k + 1
    BY <2>1, <1>4
  <2>3. k \in B
    <3> HIDE DEF k
    <3>1. b[k] = a[y]
      BY <1>4, <2>2
    <3> QED BY <1>1, <2>1, <2>2, <3>1 DEF B, RowsWith
  <2>4. k <= m /\ m \in 1 .. n
    <3> HIDE DEF k
    <3> QED BY <1>2, <1>3, <2>3
  <2> QED BY <1>4, <2>1, <2>2, <2>4
<1>8. Max(A) = j
  <2>1. A \in SUBSET Nat
    BY <1>1 DEF RowsWith
  <2> HIDE DEF j, A
  <2> QED BY <1>6, <1>7, <2>1, MaxIs
<1> HIDE DEF j
<1> QED BY <1>5, <1>8 DEF Record, m, B

\* A row decides over its own rights id, no other.
LEMMA ForbiddenWithout ==
    ASSUME NEW a, NEW b, NEW i, Without(a, b, i), NEW id, id # a[i].rights_id
    PROVE  id \in Forbidden(a) <=> id \in Forbidden(b)
<1>1. id \in Values(a, "rights_id") <=> id \in Values(b, "rights_id")
  BY WithoutRows
<1>2. id \in Values(b, "rights_id") => Record(a, "rights_id", id) = Record(b, "rights_id", id)
  BY SameRecord
<1> QED BY <1>1, <1>2 DEF Forbidden

Alone(a, i, column) == \A k \in DOMAIN a : a[k][column] = a[i][column] => k = i

LEMMA AloneRecord ==
    ASSUME NEW a, NEW n \in Nat, DOMAIN a = 1 .. n, NEW i \in DOMAIN a, NEW column, Alone(a, i, column)
    PROVE  Record(a, column, a[i][column]) = a[i]
<1>1. RowsWith(a, column, a[i][column]) = {i}
  BY DEF RowsWith, Alone
<1>2. Max({i}) = i
  BY MaxIs
<1> QED BY <1>1, <1>2 DEF Record

-----------------------------------------------------------------------------
\* The groups of CORE001 and LOC001 whose rows are all still there.
LEMMA AccessionSame ==
    ASSUME NEW a, NEW b, NEW pi, Drawn(a, b, pi), NEW p, Group(a, p.id) \subseteq Range(pi)
    PROVE  p \in FpAccession(a) <=> p \in FpAccession(b)
<1> DEFINE v == p.id
           G == Group(a, v)
           H == Group(b, v)
           found(t) == /\ v \in Values(t, "accession_number") \ {None}
                       /\ Cardinality(Group(t, v)) >= 2
                       /\ p = Fp("CORE001", "object", v, "accession_number",
                                 Column(t, Group(t, v), "object_id"))
<1>1. \A t : p \in FpAccession(t) <=> found(t)
  BY DEF FpAccession, Fp
<1>2. H = {k \in DOMAIN b : pi[k] \in G}
  BY DEF Group, RowsWith, Drawn
<1>3. /\ Cardinality(H) = Cardinality(G)
      /\ Column(b, H, "object_id") = Column(a, G, "object_id")
  <2>1. G \subseteq Range(pi)
    OBVIOUS
  <2> HIDE DEF H, G
  <2> QED BY <1>2, <2>1, SameCardinality, SameColumn
<1>4. \A t : Group(t, v) # {} => v \in Values(t, "accession_number")
  BY DEF Group, RowsWith, Values
<1>5. Cardinality({}) = 0
  BY FS_EmptySet
<1>6. found(a) <=> found(b)
  <2>1. \A t : Cardinality(Group(t, v)) >= 2 => v \in Values(t, "accession_number")
    BY <1>4, <1>5
  <2> HIDE DEF v
  <2> QED BY <1>3, <2>1
<1> QED BY <1>1, <1>6

LEMMA CurrentSame ==
    ASSUME NEW a, NEW b, NEW pi, Drawn(a, b, pi), NEW p, Current(a, p.id) \subseteq Range(pi)
    PROVE  p \in FpCurrent(a) <=> p \in FpCurrent(b)
<1> DEFINE v == p.id
           G == Current(a, v)
           H == Current(b, v)
           found(t) == /\ v \in Values(t, "object_id") \ {None}
                       /\ Cardinality(Current(t, v)) >= 2
                       /\ p = Fp("LOC001", "object", v, "current_location_id",
                                 Column(t, Current(t, v), "location_id"))
<1>1. \A t : p \in FpCurrent(t) <=> found(t)
  BY DEF FpCurrent, Fp
<1>2. H = {k \in DOMAIN b : pi[k] \in G}
  BY DEF Current, RowsWith, Drawn
<1>3. /\ Cardinality(H) = Cardinality(G)
      /\ Column(b, H, "location_id") = Column(a, G, "location_id")
  <2>1. G \subseteq Range(pi)
    OBVIOUS
  <2> HIDE DEF H, G
  <2> QED BY <1>2, <2>1, SameCardinality, SameColumn
<1>4. \A t : Current(t, v) # {} => v \in Values(t, "object_id")
  BY DEF Current, RowsWith, Values
<1>5. Cardinality({}) = 0
  BY FS_EmptySet
<1>6. found(a) <=> found(b)
  <2>1. \A t : Cardinality(Current(t, v)) >= 2 => v \in Values(t, "object_id")
    BY <1>4, <1>5
  <2> HIDE DEF v
  <2> QED BY <1>3, <2>1
<1> QED BY <1>1, <1>6

LEMMA WithoutGroups ==
    ASSUME NEW a, NEW b, NEW i, Without(a, b, i), NEW p
    PROVE  /\ p.id # a[i].accession_number => (p \in FpAccession(a) <=> p \in FpAccession(b))
           /\ p.id # a[i].object_id => (p \in FpCurrent(a) <=> p \in FpCurrent(b))
<1> DEFINE pi == Past(i, DOMAIN b)
<1>1. Drawn(a, b, pi) /\ Range(pi) = (DOMAIN a) \ {i}
  BY WithoutDrawn
<1> HIDE DEF pi
<1>2. ASSUME p.id # a[i].accession_number PROVE Group(a, p.id) \subseteq Range(pi)
  BY <1>1, <1>2 DEF Group, RowsWith
<1>3. ASSUME p.id # a[i].object_id PROVE Current(a, p.id) \subseteq Range(pi)
  BY <1>1, <1>3 DEF Current, RowsWith
<1> QED BY <1>1, <1>2, <1>3, AccessionSame, CurrentSame

-----------------------------------------------------------------------------
\* The rows of b are the rows of a, two neighbours having changed places.
Swapped(a, b, i) ==
    /\ \E n \in Nat : DOMAIN a = 1 .. n
    /\ DOMAIN b = DOMAIN a
    /\ i \in DOMAIN a /\ i + 1 \in DOMAIN a
    /\ \A k \in DOMAIN b : b[k] = a[IF k = i THEN i + 1 ELSE IF k = i + 1 THEN i ELSE k]

Swap(i, D) == [k \in D |-> IF k = i THEN i + 1 ELSE IF k = i + 1 THEN i ELSE k]

LEMMA SwappedDrawn ==
    ASSUME NEW a, NEW b, NEW i, Swapped(a, b, i)
    PROVE  Drawn(a, b, Swap(i, DOMAIN b)) /\ Range(Swap(i, DOMAIN b)) = DOMAIN a
<1> DEFINE pi == Swap(i, DOMAIN b)
<1>1. PICK n \in Nat : DOMAIN a = 1 .. n
  BY DEF Swapped
<1>2. i \in 1 .. n /\ i + 1 \in 1 .. n /\ DOMAIN b = 1 .. n
  BY <1>1 DEF Swapped
<1>3. \A k \in 1 .. n : /\ pi[k] = IF k = i THEN i + 1 ELSE IF k = i + 1 THEN i ELSE k
                        /\ pi[k] \in 1 .. n
  BY <1>2 DEF Swap
<1>4. /\ \A k, m \in 1 .. n : pi[k] = pi[m] => k = m
      /\ \A k \in 1 .. n : pi[pi[k]] = k
  BY <1>2, <1>3
<1>5. pi \in [1 .. n -> 1 .. n]
  BY <1>2, <1>3 DEF Swap
<1>6. \A k \in DOMAIN b : b[k] = a[pi[k]]
  BY <1>2, <1>3 DEF Swapped
<1> HIDE DEF pi
<1>7. Drawn(a, b, pi)
  BY <1>1, <1>2, <1>4, <1>5, <1>6 DEF Drawn
<1>8. Range(pi) = DOMAIN a
  BY <1>1, <1>2, <1>3, <1>4, <1>5 DEF Range
<1> QED BY <1>7, <1>8 DEF pi

\* Neighbours that change places leave every fingerprint of their table.
LEMMA SwappedRows ==
    ASSUME NEW a, NEW b, NEW i, Swapped(a, b, i)
    PROVE  /\ ToSet(a) = ToSet(b)
           /\ \A column : Values(a, column) = Values(b, column)
           /\ FpAccession(a) = FpAccession(b) /\ FpCurrent(a) = FpCurrent(b)
<1> DEFINE pi == Swap(i, DOMAIN b)
<1>1. Drawn(a, b, pi) /\ Range(pi) = DOMAIN a
  BY SwappedDrawn
<1> HIDE DEF pi
<1>2. ASSUME NEW j \in DOMAIN a PROVE \E k \in DOMAIN b : b[k] = a[j]
  BY <1>1 DEF Drawn, Range
<1>3. ASSUME NEW k \in DOMAIN b PROVE \E j \in DOMAIN a : b[k] = a[j]
  BY <1>1 DEF Drawn
<1>4. ToSet(a) = ToSet(b) /\ \A column : Values(a, column) = Values(b, column)
  BY <1>2, <1>3 DEF ToSet, Values
<1>5. ASSUME NEW p PROVE Group(a, p.id) \subseteq Range(pi) /\ Current(a, p.id) \subseteq Range(pi)
  BY <1>1 DEF Group, Current, RowsWith
<1>6. ASSUME NEW p PROVE p \in FpAccession(a) <=> p \in FpAccession(b)
  BY <1>1, <1>5, AccessionSame
<1>7. ASSUME NEW p PROVE p \in FpCurrent(a) <=> p \in FpCurrent(b)
  BY <1>1, <1>5, CurrentSame
<1> QED BY <1>4, <1>6, <1>7

\* Under unique ids a rights id is forbidden by its only row.
LEMMA ForbiddenUnique ==
    ASSUME NEW a, NEW n \in Nat, DOMAIN a = 1 .. n,
           \A i \in DOMAIN a : Alone(a, i, "rights_id")
    PROVE  Forbidden(a) = {row.rights_id : row \in {w \in ToSet(a) : ~Permits(w)}}
<1>1. \A i \in DOMAIN a : Record(a, "rights_id", a[i]["rights_id"]) = a[i]
  BY AloneRecord
<1> QED BY <1>1 DEF Forbidden, Values, ToSet

LEMMA ForbiddenSwapped ==
    ASSUME NEW a, NEW b, NEW i, Swapped(a, b, i), \A k \in DOMAIN a : Alone(a, k, "rights_id")
    PROVE  Forbidden(a) = Forbidden(b)
<1> DEFINE pi == Swap(i, DOMAIN b)
<1>1. Drawn(a, b, pi) /\ Range(pi) = DOMAIN a
  BY SwappedDrawn
<1> HIDE DEF pi
<1>2. \A k \in DOMAIN b : Alone(b, k, "rights_id")
  BY <1>1 DEF Drawn, Alone
<1>3. ToSet(a) = ToSet(b)
  BY SwappedRows
<1>4. PICK n \in Nat : DOMAIN a = 1 .. n /\ DOMAIN b = 1 .. n
  BY DEF Swapped
<1> QED BY <1>2, <1>3, <1>4, ForbiddenUnique

-----------------------------------------------------------------------------
LEMMA FpParts ==
    ASSUME NEW rule, NEW type, NEW id, NEW field, NEW keys
    PROVE  /\ Fp(rule, type, id, field, keys).rule = rule
           /\ Fp(rule, type, id, field, keys).type = type
           /\ Fp(rule, type, id, field, keys).id = id
           /\ Fp(rule, type, id, field, keys).field = field
           /\ Fp(rule, type, id, field, keys).keys = keys
BY DEF Fp

(***************************************************************************)
(* One row, id or verdict more or less changes only the fingerprints that  *)
(* name it.                                                                *)
(***************************************************************************)
LEMMA RequiredRow ==
    ASSUME NEW S, NEW w, NEW fields, NEW p, p.id # w.object_id
    PROVE  p \in FpRequired(S \cup {w}, fields) <=> p \in FpRequired(S, fields)
<1> DEFINE cells(T) == {d \in T \X (fields \cap REQUIRABLE_OBJECT_FIELDS) : d[1][d[2]] = None}
<1>1. \A T : p \in FpRequired(T, fields) <=>
         \E c \in cells(T) : p = Fp("CORE002", "object", c[1].object_id, c[2], Once(c[2]))
  BY DEF FpRequired
<1>2. \A c \in cells(S \cup {w}) : c \in cells(S) \/ c[1] = w
  OBVIOUS
<1>3. cells(S) \subseteq cells(S \cup {w})
  OBVIOUS
<1> HIDE DEF cells
<1> QED BY <1>1, <1>2, <1>3 DEF Fp

LEMMA WordsRow ==
    ASSUME NEW S, NEW w, NEW words, NEW p, p.id # w.object_id
    PROVE  p \in FpWords(S \cup {w}, words) <=> p \in FpWords(S, words)
<1> DEFINE unknown(v, f) == ValueOf(v, f) \notin {None} \cup words[f]
           cells(T) == {d \in T \X (DOMAIN words) : unknown(d[1], d[2])}
<1>1. \A T : p \in FpWords(T, words) <=>
         \E c \in cells(T) : p = Fp("VOCAB001", "object", c[1].object_id, c[2],
                                    [k \in {c[2], ValueOf(c[1], c[2])} |-> 1])
  BY DEF FpWords
<1> HIDE DEF unknown
<1>2. \A c \in cells(S \cup {w}) : c \in cells(S) \/ c[1] = w
  OBVIOUS
<1>3. cells(S) \subseteq cells(S \cup {w})
  OBVIOUS
<1> DEFINE print(c) == Fp("VOCAB001", "object", c[1].object_id, c[2],
                          [k \in {c[2], ValueOf(c[1], c[2])} |-> 1])
<1>4. \A c : print(c).id = c[1].object_id
  BY FpParts
<1>5. \A T : p \in FpWords(T, words) <=> \E c \in cells(T) : p = print(c)
  BY <1>1
<1> HIDE DEF cells, print
<1> QED BY <1>2, <1>3, <1>4, <1>5

LEMMA MediaRow ==
    ASSUME NEW S, NEW w, NEW ids, NEW p, p.id # w.media_id
    PROVE  p \in FpMedia(S \cup {w}, ids) <=> p \in FpMedia(S, ids)
BY DEF FpMedia, Fp

LEMMA MediaId ==
    ASSUME NEW S, NEW ids, NEW v, NEW p, v \notin DOMAIN p.keys
    PROVE  p \in FpMedia(S, ids \cup {v}) <=> p \in FpMedia(S, ids)
<1> DEFINE print(w) == Fp("REF001", "media", w.media_id, "object_id", Once(w.object_id))
<1>1. \A I : p \in FpMedia(S, I) <=> \E w \in S : w.object_id \notin {None} \cup I /\ p = print(w)
  BY DEF FpMedia
<1>2. \A w : w.object_id = v => v \in DOMAIN print(w).keys
  BY FpParts DEF Once
<1> HIDE DEF print
<1> QED BY <1>1, <1>2

LEMMA OrphansRow ==
    ASSUME NEW S, NEW M, NEW w, NEW ids, NEW p
    PROVE  /\ p.id # w.object_id =>
                 (p \in FpOrphans(S \cup {w}, M, ids) <=> p \in FpOrphans(S, M, ids))
           /\ p.id # w.media_id =>
                 (p \in FpOrphans(S, M \cup {w}, ids) <=> p \in FpOrphans(S, M, ids))
BY DEF FpOrphans, Fp

LEMMA OrphansId ==
    ASSUME NEW S, NEW M, NEW ids, NEW v, NEW p, v \notin DOMAIN p.keys
    PROVE  p \in FpOrphans(S, M, ids \cup {v}) <=> p \in FpOrphans(S, M, ids)
<1> DEFINE object(w) == Fp("REF002", "object", w.object_id, "rights_id", Once(w.rights_id))
           medium(w) == Fp("REF002", "media", w.media_id, "rights_id", Once(w.rights_id))
<1>1. \A I : p \in FpOrphans(S, M, I) <=>
         \/ \E w \in S : w.rights_id \notin {None} \cup I /\ p = object(w)
         \/ \E w \in M : w.rights_id \notin {None} \cup I /\ p = medium(w)
  BY DEF FpOrphans
<1>2. \A w : w.rights_id = v => v \in DOMAIN object(w).keys /\ v \in DOMAIN medium(w).keys
  BY FpParts DEF Once
<1> HIDE DEF object, medium
<1> QED BY <1>1, <1>2

LEMMA ConflictsRow ==
    ASSUME NEW S, NEW M, NEW w, NEW forbidden, NEW p
    PROVE  /\ p.id # w.object_id =>
                 (p \in FpConflicts(S \cup {w}, M, forbidden) <=> p \in FpConflicts(S, M, forbidden))
           /\ p.id # w.media_id =>
                 (p \in FpConflicts(S, M \cup {w}, forbidden) <=> p \in FpConflicts(S, M, forbidden))
<1>1. \A T, N : p \in FpConflicts(T, N, forbidden) <=>
         \/ \E r \in T : /\ Exposed(r, forbidden)
                         /\ p = Fp("RIGHTS001", "object", r.object_id, "publication_status", Once(r.rights_id))
         \/ \E r \in N : /\ Exposed(r, forbidden)
                         /\ p = Fp("RIGHTS001", "media", r.media_id, "publication_status", Once(r.rights_id))
  BY DEF FpConflicts
<1> QED BY <1>1 DEF Fp

LEMMA ConflictsId ==
    ASSUME NEW S, NEW M, NEW F, NEW G, NEW v, \A id : id # v => (id \in F <=> id \in G),
           NEW p, v \notin DOMAIN p.keys
    PROVE  p \in FpConflicts(S, M, F) <=> p \in FpConflicts(S, M, G)
<1>1. \A H : p \in FpConflicts(S, M, H) <=>
         \/ \E r \in S : /\ Exposed(r, H)
                         /\ p = Fp("RIGHTS001", "object", r.object_id, "publication_status", Once(r.rights_id))
         \/ \E r \in M : /\ Exposed(r, H)
                         /\ p = Fp("RIGHTS001", "media", r.media_id, "publication_status", Once(r.rights_id))
  BY DEF FpConflicts
<1>2. \A r : r.rights_id # v => (Exposed(r, F) <=> Exposed(r, G))
  BY DEF Exposed
<1>3. \A r : r.rights_id = v => v \in DOMAIN Once(r.rights_id)
  BY DEF Once
<1>4. \A rule, type, id, field, keys : Fp(rule, type, id, field, keys).keys = keys
  BY DEF Fp
<1> QED BY <1>1, <1>2, <1>3, <1>4

\* x is y with the i-th row of table t more.
Edited(x, y, t, i) ==
    /\ Without(x[t], y[t], i)
    /\ \A u \in Tables \ {t} : x[u] = y[u]
    /\ x.required_fields = y.required_fields
    /\ x.controlled_vocabularies = y.controlled_vocabularies

Named(p) == {p.id} \cup DOMAIN p.keys

LEMMA EditNames ==
    ASSUME NEW x, NEW y, NEW t \in Tables, NEW i, Edited(x, y, t, i), NEW p,
           \A c \in Columns[t] \cap {"object_id", "media_id", "rights_id", "accession_number"} :
               x[t][i][c] \notin Named(p)
    PROVE  p \in FpAll(x) <=> p \in FpAll(y)
<1> DEFINE row == x[t][i]
           V == row.object_id
<1>1. \A z : p \in FpAll(z) <=>
         \/ p \in FpAccession(z.objects)
         \/ p \in FpRequired(ToSet(z.objects), ToSet(z.required_fields))
         \/ p \in FpMedia(ToSet(z.media), Values(z.objects, "object_id"))
         \/ p \in FpOrphans(ToSet(z.objects), ToSet(z.media), Values(z.rights, "rights_id"))
         \/ p \in FpConflicts(ToSet(z.objects), ToSet(z.media), Forbidden(z.rights))
         \/ p \in FpCurrent(z.locations)
         \/ p \in FpWords(ToSet(z.objects), z.controlled_vocabularies)
  BY DEF FpAll
<1>2. /\ Without(x[t], y[t], i)
      /\ x.required_fields = y.required_fields
      /\ x.controlled_vocabularies = y.controlled_vocabularies
  BY DEF Edited
<1>3. /\ ToSet(x[t]) = ToSet(y[t]) \cup {row}
      /\ \A column : Values(x[t], column) = Values(y[t], column) \cup {row[column]}
  BY <1>2, WithoutRows
<1>4. CASE t = "objects"
  <2>1. x.media = y.media /\ x.rights = y.rights /\ x.locations = y.locations
    BY <1>4 DEF Edited, Tables
  <2>2. p.id # row.object_id /\ p.id # row.accession_number /\ row.object_id \notin DOMAIN p.keys
    BY <1>4 DEF Columns, Named
  <2>3. p \in FpAccession(x.objects) <=> p \in FpAccession(y.objects)
    BY <1>2, <1>4, <2>2, WithoutGroups
  <2> HIDE DEF row
  <2>4. ToSet(x.objects) = ToSet(y.objects) \cup {row}
    BY <1>3, <1>4
  <2>5. Values(x.objects, "object_id") = Values(y.objects, "object_id") \cup {row.object_id}
    BY <1>3, <1>4
  <2>6. /\ p \in FpRequired(ToSet(x.objects), ToSet(x.required_fields)) <=>
               p \in FpRequired(ToSet(y.objects), ToSet(y.required_fields))
        /\ p \in FpWords(ToSet(x.objects), x.controlled_vocabularies) <=>
               p \in FpWords(ToSet(y.objects), y.controlled_vocabularies)
    BY <1>2, <2>2, <2>4, RequiredRow, WordsRow
  <2>7. p \in FpMedia(ToSet(x.media), Values(x.objects, "object_id")) <=>
            p \in FpMedia(ToSet(y.media), Values(y.objects, "object_id"))
    BY <2>1, <2>2, <2>5, MediaId
  <2>8. /\ p \in FpOrphans(ToSet(x.objects), ToSet(x.media), Values(x.rights, "rights_id")) <=>
               p \in FpOrphans(ToSet(y.objects), ToSet(y.media), Values(y.rights, "rights_id"))
        /\ p \in FpConflicts(ToSet(x.objects), ToSet(x.media), Forbidden(x.rights)) <=>
               p \in FpConflicts(ToSet(y.objects), ToSet(y.media), Forbidden(y.rights))
    BY <2>1, <2>2, <2>4, OrphansRow, ConflictsRow
  <2> QED BY <1>1, <2>1, <2>3, <2>6, <2>7, <2>8
<1>5. CASE t = "media"
  <2>1. x.objects = y.objects /\ x.rights = y.rights /\ x.locations = y.locations
    BY <1>5 DEF Edited, Tables
  <2>2. p.id # row.media_id
    BY <1>5 DEF Columns, Named
  <2> HIDE DEF row
  <2>3. ToSet(x.media) = ToSet(y.media) \cup {row}
    BY <1>3, <1>5
  <2>4. p \in FpMedia(ToSet(x.media), Values(x.objects, "object_id")) <=>
            p \in FpMedia(ToSet(y.media), Values(y.objects, "object_id"))
    BY <2>1, <2>2, <2>3, MediaRow
  <2>5. /\ p \in FpOrphans(ToSet(x.objects), ToSet(x.media), Values(x.rights, "rights_id")) <=>
               p \in FpOrphans(ToSet(y.objects), ToSet(y.media), Values(y.rights, "rights_id"))
        /\ p \in FpConflicts(ToSet(x.objects), ToSet(x.media), Forbidden(x.rights)) <=>
               p \in FpConflicts(ToSet(y.objects), ToSet(y.media), Forbidden(y.rights))
    BY <2>1, <2>2, <2>3, OrphansRow, ConflictsRow
  <2> QED BY <1>1, <1>2, <2>1, <2>4, <2>5
<1>6. CASE t = "rights"
  <2>1. x.objects = y.objects /\ x.media = y.media /\ x.locations = y.locations
    BY <1>6 DEF Edited, Tables
  <2>2. row.rights_id \notin DOMAIN p.keys
    BY <1>6 DEF Columns, Named
  <2>3. \A id : id # row.rights_id => (id \in Forbidden(x.rights) <=> id \in Forbidden(y.rights))
    BY <1>2, <1>6, ForbiddenWithout
  <2> HIDE DEF row
  <2>4. Values(x.rights, "rights_id") = Values(y.rights, "rights_id") \cup {row.rights_id}
    BY <1>3, <1>6
  <2>5. p \in FpOrphans(ToSet(x.objects), ToSet(x.media), Values(x.rights, "rights_id")) <=>
            p \in FpOrphans(ToSet(y.objects), ToSet(y.media), Values(y.rights, "rights_id"))
    BY <2>1, <2>2, <2>4, OrphansId
  <2>6. p \in FpConflicts(ToSet(x.objects), ToSet(x.media), Forbidden(x.rights)) <=>
            p \in FpConflicts(ToSet(y.objects), ToSet(y.media), Forbidden(y.rights))
    BY <2>1, <2>2, <2>3, ConflictsId
  <2> QED BY <1>1, <1>2, <2>1, <2>5, <2>6
<1>7. CASE t = "locations"
  <2>1. x.objects = y.objects /\ x.media = y.media /\ x.rights = y.rights
    BY <1>7 DEF Edited, Tables
  <2>2. p.id # row.object_id
    BY <1>7 DEF Columns, Named
  <2>3. p \in FpCurrent(x.locations) <=> p \in FpCurrent(y.locations)
    BY <1>2, <1>7, <2>2, WithoutGroups
  <2> QED BY <1>1, <1>2, <2>1, <2>3
<1> QED BY <1>4, <1>5, <1>6, <1>7 DEF Tables

-----------------------------------------------------------------------------
OnceInjective == \A v, w : Once(v) = Once(w) => v = w

LEMMA OnceIsInjective == OnceInjective
<1> SUFFICES ASSUME NEW v, NEW w, Once(v) = Once(w) PROVE v = w
  BY DEF OnceInjective
<1>1. DOMAIN Once(v) = {v} /\ DOMAIN Once(w) = {w}
  BY DEF Once
<1> QED BY <1>1

\* A rights record that comes takes over the references to it.
LEMMA HandedOver ==
    ASSUME NEW x, NEW y, NEW i, Edited(x, y, "rights", i),
           x.rights[i].rights_id \notin Values(y.rights, "rights_id")
    PROVE  /\ FpAll(y) \ FpAll(x) =
                 {p \in FpAll(y) : p.rule = "REF002" /\ p.keys = Once(x.rights[i].rights_id)}
           /\ \A p \in FpAll(x) \ FpAll(y) :
                 /\ p.rule = "RIGHTS001" /\ ~Permits(x.rights[i])
                 /\ \E old \in FpAll(y) \ FpAll(x) : About(p, old)
<1> DEFINE row == x.rights[i]
           rid == row.rights_id
           S == ToSet(y.objects)
           M == ToSet(y.media)
           ids == Values(y.rights, "rights_id")
           rest == UNION {FpAccession(y.objects), FpRequired(S, ToSet(y.required_fields)),
                          FpMedia(M, Values(y.objects, "object_id")),
                          FpCurrent(y.locations), FpWords(S, y.controlled_vocabularies)}
           orphans(I) == FpOrphans(S, M, I)
           conflicts(F) == FpConflicts(S, M, F)
           orphan(p, w, type, id) == p = Fp("REF002", type, id, "rights_id", Once(w.rights_id))
           conflict(p, w, type, id) == p = Fp("RIGHTS001", type, id, "publication_status", Once(w.rights_id))
<1>1. /\ x.objects = y.objects /\ x.media = y.media /\ x.locations = y.locations
      /\ x.required_fields = y.required_fields
      /\ x.controlled_vocabularies = y.controlled_vocabularies
      /\ Without(x.rights, y.rights, i)
  BY DEF Edited, Tables
<1>2. /\ Values(x.rights, "rights_id") = ids \cup {rid}
      /\ \E n \in Nat : DOMAIN x.rights = 1 .. n
  <2>1. \A column : Values(x.rights, column) = Values(y.rights, column) \cup {x.rights[i][column]}
    BY <1>1, WithoutRows
  <2>2. PICK n \in Nat : DOMAIN x.rights = 1 .. n + 1
    BY <1>1 DEF Without
  <2>3. n + 1 \in Nat
    OBVIOUS
  <2> QED BY <2>1, <2>2, <2>3
<1>3. Record(x.rights, "rights_id", rid) = row
  <2>1. Alone(x.rights, i, "rights_id")
    <3>1. ASSUME NEW k \in DOMAIN x.rights, k # i PROVE x.rights[k].rights_id \in ids
      <4>1. /\ Drawn(x.rights, y.rights, Past(i, DOMAIN y.rights))
            /\ k \in Range(Past(i, DOMAIN y.rights))
        BY <1>1, <3>1, WithoutDrawn
      <4> QED BY <4>1 DEF Drawn, Range, Values
    <3> QED BY <3>1 DEF Alone
  <2>2. i \in DOMAIN x.rights
    BY <1>1 DEF Without
  <2> QED BY <1>2, <2>1, <2>2, AloneRecord
<1>4. \A id : id \in Forbidden(x.rights) <=>
                 id \in Forbidden(y.rights) \/ (id = rid /\ ~Permits(row))
  <2>1. \A id : id # rid => (id \in Forbidden(x.rights) <=> id \in Forbidden(y.rights))
    BY <1>1, ForbiddenWithout
  <2>2. rid \notin Forbidden(y.rights)
    BY DEF Forbidden
  <2>3. rid \in Forbidden(x.rights) <=> ~Permits(row)
    BY <1>2, <1>3 DEF Forbidden
  <2> QED BY <2>1, <2>2, <2>3
<1>5. /\ FpAll(y) = rest \cup orphans(ids) \cup conflicts(Forbidden(y.rights))
      /\ FpAll(x) = rest \cup orphans(ids \cup {rid}) \cup conflicts(Forbidden(x.rights))
  BY <1>1, <1>2 DEF FpAll
<1>6. \A p \in rest : p.rule \notin {"REF002", "RIGHTS001"}
  <2>1. \A p \in FpAccession(y.objects) : p.rule = "CORE001"
    BY FpParts DEF FpAccession
  <2>2. \A p \in FpRequired(S, ToSet(y.required_fields)) : p.rule = "CORE002"
    BY FpParts DEF FpRequired
  <2>3. \A p \in FpMedia(M, Values(y.objects, "object_id")) : p.rule = "REF001"
    BY FpParts DEF FpMedia
  <2>4. \A p \in FpCurrent(y.locations) : p.rule = "LOC001"
    BY FpParts DEF FpCurrent
  <2>5. \A p \in FpWords(S, y.controlled_vocabularies) : p.rule = "VOCAB001"
    <3> DEFINE print(c) == Fp("VOCAB001", "object", c[1].object_id, c[2],
                              [k \in {c[2], ValueOf(c[1], c[2])} |-> 1])
    <3>1. \A p \in FpWords(S, y.controlled_vocabularies) : \E c : p = print(c)
      BY DEF FpWords
    <3>2. \A c : print(c).rule = "VOCAB001"
      BY FpParts
    <3> HIDE DEF print
    <3> QED BY <3>1, <3>2
  <2>6. \A p \in rest :
            \/ p \in FpAccession(y.objects) \/ p \in FpRequired(S, ToSet(y.required_fields))
            \/ p \in FpMedia(M, Values(y.objects, "object_id"))
            \/ p \in FpCurrent(y.locations) \/ p \in FpWords(S, y.controlled_vocabularies)
    OBVIOUS
  <2> HIDE DEF S, M, rest
  <2> QED BY <2>1, <2>2, <2>3, <2>4, <2>5, <2>6
<1> HIDE DEF rest
<1>7. \A I, p : p \in orphans(I) <=>
         \/ \E w \in S : w.rights_id \notin {None} \cup I /\ orphan(p, w, "object", w.object_id)
         \/ \E w \in M : w.rights_id \notin {None} \cup I /\ orphan(p, w, "media", w.media_id)
  BY DEF FpOrphans
<1>8. \A F, p : p \in conflicts(F) <=>
         \/ \E w \in S : Exposed(w, F) /\ conflict(p, w, "object", w.object_id)
         \/ \E w \in M : Exposed(w, F) /\ conflict(p, w, "media", w.media_id)
  BY DEF FpConflicts
<1>9. \A p, w, type, id :
         /\ orphan(p, w, type, id) =>
               p.rule = "REF002" /\ p.type = type /\ p.id = id /\ p.keys = Once(w.rights_id)
         /\ conflict(p, w, type, id) =>
               p.rule = "RIGHTS001" /\ p.type = type /\ p.id = id /\ p.keys = Once(w.rights_id)
  BY FpParts
<1> HIDE DEF orphan, conflict, orphans, conflicts, S, M
<1>10. /\ \A I : \A p \in orphans(I) : p.rule = "REF002"
       /\ \A F : \A p \in conflicts(F) : p.rule = "RIGHTS001"
  BY <1>7, <1>8, <1>9
<1> HIDE DEF ids, row, rid
<1>11. ASSUME NEW p
       PROVE  p \in orphans(ids \cup {rid}) <=> p \in orphans(ids) /\ p.keys # Once(rid)
  <2>1. \A w : w.rights_id = rid <=> Once(w.rights_id) = Once(rid)
    BY OnceIsInjective DEF OnceInjective
  <2>2. \A w, type, id : orphan(p, w, type, id) => (w.rights_id = rid <=> p.keys = Once(rid))
    BY <1>9, <2>1
  <2> QED BY <1>7, <2>2
<1>12. ASSUME NEW p
       PROVE  p \in conflicts(Forbidden(x.rights)) <=>
                 p \in conflicts(Forbidden(y.rights)) \/ (~Permits(row) /\ p \in conflicts({rid}))
  <2>1. \A w : Exposed(w, Forbidden(x.rights)) <=>
                 Exposed(w, Forbidden(y.rights)) \/ (~Permits(row) /\ Exposed(w, {rid}))
    BY <1>4 DEF Exposed
  <2> QED BY <1>8, <2>1
<1>13. ASSUME NEW p \in conflicts({rid})
       PROVE  \E old \in orphans(ids) : About(p, old) /\ old.keys = Once(rid)
  <2>1. \A w : Exposed(w, {rid}) => w.rights_id = rid /\ w.rights_id \notin {None} \cup ids
    BY DEF Exposed, rid, row, ids
  <2>2. \A w, type, id : conflict(p, w, type, id) /\ w.rights_id = rid =>
           \E old : /\ orphan(old, w, type, id)
                    /\ About(p, old) /\ old.keys = Once(rid)
    <3> TAKE w, type, id
    <3> HAVE conflict(p, w, type, id) /\ w.rights_id = rid
    <3> DEFINE old == Fp("REF002", type, id, "rights_id", Once(w.rights_id))
    <3>1. orphan(old, w, type, id)
      BY DEF orphan
    <3> HIDE DEF old
    <3>2. About(p, old) /\ old.keys = Once(rid)
      BY <1>9, <3>1 DEF About
    <3> QED BY <3>1, <3>2
  <2>3. \A w \in S : Exposed(w, {rid}) => \A old : orphan(old, w, "object", w.object_id) => old \in orphans(ids)
    BY <1>7, <2>1
  <2>4. \A w \in M : Exposed(w, {rid}) => \A old : orphan(old, w, "media", w.media_id) => old \in orphans(ids)
    BY <1>7, <2>1
  <2>5. CASE \E w \in S : Exposed(w, {rid}) /\ conflict(p, w, "object", w.object_id)
    <3>1. PICK w \in S : Exposed(w, {rid}) /\ conflict(p, w, "object", w.object_id)
      BY <2>5
    <3>2. PICK old : orphan(old, w, "object", w.object_id) /\ About(p, old) /\ old.keys = Once(rid)
      BY <2>1, <2>2, <3>1
    <3> QED BY <2>3, <3>1, <3>2
  <2>6. CASE \E w \in M : Exposed(w, {rid}) /\ conflict(p, w, "media", w.media_id)
    <3>1. PICK w \in M : Exposed(w, {rid}) /\ conflict(p, w, "media", w.media_id)
      BY <2>6
    <3>2. PICK old : orphan(old, w, "media", w.media_id) /\ About(p, old) /\ old.keys = Once(rid)
      BY <2>1, <2>2, <3>1
    <3> QED BY <2>4, <3>1, <3>2
  <2> QED BY <1>8, <2>5, <2>6
<1>14. ASSUME NEW p
       PROVE  p \in FpAll(y) \ FpAll(x) <=>
                 p \in FpAll(y) /\ p.rule = "REF002" /\ p.keys = Once(rid)
  <2>1. p \in conflicts(Forbidden(y.rights)) => p \in conflicts(Forbidden(x.rights))
    BY <1>12
  <2> QED BY <1>5, <1>6, <1>10, <1>11, <2>1
<1>15. ASSUME NEW p \in FpAll(x) \ FpAll(y)
       PROVE  /\ p.rule = "RIGHTS001" /\ ~Permits(row)
              /\ \E old \in FpAll(y) \ FpAll(x) : About(p, old)
  <2>1. ~Permits(row) /\ p \in conflicts({rid})
    BY <1>5, <1>11, <1>12
  <2>2. p.rule = "RIGHTS001"
    BY <1>10, <2>1
  <2>3. PICK old \in orphans(ids) : About(p, old) /\ old.keys = Once(rid)
    BY <1>13, <2>1
  <2>4. old \in FpAll(y) /\ old.rule = "REF002"
    BY <1>5, <1>10
  <2> QED BY <1>14, <2>1, <2>2, <2>3, <2>4
<1> QED BY <1>14, <1>15 DEF row, rid

-----------------------------------------------------------------------------
LEMMA WithoutCopies ==
    ASSUME NEW a, NEW b, NEW i, Without(a, b, i)
    PROVE  Cardinality({k \in DOMAIN a : a[k] = a[i]}) # Cardinality({k \in DOMAIN b : b[k] = a[i]})
<1> DEFINE A == {k \in DOMAIN a : a[k] = a[i]}
           B == {k \in DOMAIN b : b[k] = a[i]}
           pi == Past(i, DOMAIN b)
           G == A \ {i}
<1>1. Drawn(a, b, pi) /\ Range(pi) = (DOMAIN a) \ {i}
  BY WithoutDrawn
<1> HIDE DEF pi
<1>2. i \in A /\ IsFiniteSet(A)
  <2>1. IsFiniteSet(DOMAIN a)
    BY <1>1, FS_Interval DEF Drawn
  <2> QED BY <2>1, FS_Subset DEF Without
<1>3. G \subseteq Range(pi) /\ B = {k \in DOMAIN b : pi[k] \in G}
  BY <1>1 DEF Drawn, Range
<1> HIDE DEF A, B
<1>4. Cardinality(G) = Cardinality(A) - 1 /\ Cardinality(A) \in Nat
  BY <1>2, FS_RemoveElement, FS_CardinalityType
<1> HIDE DEF G
<1>5. Cardinality(B) = Cardinality(G)
  BY <1>1, <1>3, SameCardinality
<1> QED BY <1>4, <1>5 DEF A, B

LEMMA WithoutBag ==
    ASSUME NEW a, NEW b, NEW i, Without(a, b, i)
    PROVE  ToBag(a) # ToBag(b)
<1>1. a[i] \in Range(a)
  BY DEF Without, Range
<1>2. SUFFICES ASSUME ToBag(a) = ToBag(b) PROVE FALSE
  OBVIOUS
<1>3. DOMAIN ToBag(a) = Range(a) /\ DOMAIN ToBag(b) = Range(b)
  BY DEF ToBag
<1>4. ToBag(a)[a[i]] = Cardinality({k \in DOMAIN a : a[k] = a[i]})
  BY <1>1 DEF ToBag
<1>5. ToBag(b)[a[i]] = Cardinality({k \in DOMAIN b : b[k] = a[i]})
  BY <1>1, <1>2, <1>3 DEF ToBag
<1> QED BY <1>2, <1>4, <1>5, WithoutCopies

-----------------------------------------------------------------------------
LEMMA AppendEdits ==
    ASSUME ExportTyped, NEW t \in Tables, NEW row \in RowOf[t], AppendRow(t, row)
    PROVE  /\ Edited(export', export, t, Len(export[t]) + 1)
           /\ export'[t][Len(export[t]) + 1] = row
<1> DEFINE s == export[t]
<1>1. s \in Seq(RowOf[t])
  BY DEF ExportTyped, Tables
<1>2. export'[t] = Append(s, row) /\ \A c \in (DOMAIN export) \ {t} : export'[c] = export[c]
  BY DEF ExportTyped, AppendRow, Tables
<1>3. Without(Append(s, row), s, Len(s) + 1) /\ Append(s, row)[Len(s) + 1] = row
  <2> HIDE DEF s
  <2>1. /\ Len(s) \in Nat /\ DOMAIN s = 1 .. Len(s)
        /\ DOMAIN Append(s, row) = 1 .. Len(s) + 1
        /\ \A k \in 1 .. Len(s) : Append(s, row)[k] = s[k]
        /\ Append(s, row)[Len(s) + 1] = row
    BY <1>1, AppendProperties
  <2>2. \A k \in 1 .. Len(s) : k < Len(s) + 1
    BY <2>1
  <2>3. Len(s) + 1 \in 1 .. Len(s) + 1
    BY <2>1
  <2> QED BY <2>1, <2>2, <2>3 DEF Without
<1>4. DOMAIN export = Tables \cup {"required_fields", "controlled_vocabularies"}
  BY DEF ExportTyped, Tables
<1>5. \A c : export'.required_fields = export.required_fields
        /\ export'.controlled_vocabularies = export.controlled_vocabularies
  BY <1>2, <1>4 DEF Tables
<1> QED BY <1>2, <1>3, <1>4, <1>5 DEF Edited

LEMMA RemoveEdits ==
    ASSUME ExportTyped, NEW t \in Tables, NEW i \in DOMAIN export[t], RemoveRow(t, i)
    PROVE  Edited(export, export', t, i) /\ export[t][i] \in RowOf[t]
<1> DEFINE s == export[t]
<1>1. s \in Seq(RowOf[t])
  BY DEF ExportTyped, Tables
<1>2. export'[t] = RemoveAt(s, i) /\ \A c \in (DOMAIN export) \ {t} : export'[c] = export[c]
  BY DEF ExportTyped, RemoveRow, Tables
<1>3. Without(s, RemoveAt(s, i), i) /\ s[i] \in RowOf[t]
  <2>1. i \in DOMAIN s
    OBVIOUS
  <2> HIDE DEF s
  <2>2. Len(s) \in Nat /\ DOMAIN s = 1 .. Len(s)
    BY <1>1
  <2> DEFINE r == RemoveAt(s, i)
  <2>3. /\ r \in Seq(RowOf[t]) /\ Len(r) = Len(s) - 1
        /\ \A k \in 1 .. Len(s) - 1 : r[k] = s[IF k < i THEN k ELSE k + 1]
    BY <1>1, <2>1, RowRemoved
  <2> HIDE DEF r
  <2>4. DOMAIN r = 1 .. Len(s) - 1
    BY <2>3
  <2>5. Without(s, r, i)
    <3>1. Len(s) - 1 \in Nat /\ (Len(s) - 1) + 1 = Len(s)
      BY <2>1, <2>2
    <3> QED BY <2>1, <2>2, <2>3, <2>4, <3>1 DEF Without
  <2> QED BY <1>1, <2>1, <2>5 DEF r
<1>4. DOMAIN export = Tables \cup {"required_fields", "controlled_vocabularies"}
  BY DEF ExportTyped, Tables
<1>5. export'.required_fields = export.required_fields
        /\ export'.controlled_vocabularies = export.controlled_vocabularies
  BY <1>2, <1>4 DEF Tables
<1> QED BY <1>2, <1>3, <1>4, <1>5 DEF Edited

LEMMA SwapKeeps ==
    ASSUME ExportTyped, UniqueIds, NEW t \in Tables, NEW i \in DOMAIN export[t], SwapRows(t, i)
    PROVE  FpAll(export') = FpAll(export)
<1> DEFINE s == export[t]
<1>1. s \in Seq(RowOf[t])
  BY DEF ExportTyped, Tables
<1>2. export'[t] = [s EXCEPT ![i] = s[i + 1], ![i + 1] = s[i]] /\ i + 1 \in DOMAIN s
      /\ \A c \in (DOMAIN export) \ {t} : export'[c] = export[c]
  BY DEF ExportTyped, SwapRows, Tables
<1>3. Swapped(s, export'[t], i)
  <2>1. i \in DOMAIN s
    OBVIOUS
  <2> HIDE DEF s
  <2>2. Len(s) \in Nat /\ DOMAIN s = 1 .. Len(s)
    BY <1>1
  <2> QED BY <1>2, <2>1, <2>2 DEF Swapped
<1>4. DOMAIN export = Tables \cup {"required_fields", "controlled_vocabularies"}
  BY DEF ExportTyped, Tables
<1>5. /\ export'.required_fields = export.required_fields
      /\ export'.controlled_vocabularies = export.controlled_vocabularies
      /\ \A u \in Tables \ {t} : export'[u] = export[u]
  BY <1>2, <1>4 DEF Tables
<1>6. ASSUME NEW u \in Tables
      PROVE  /\ ToSet(export'[u]) = ToSet(export[u])
             /\ \A column : Values(export'[u], column) = Values(export[u], column)
             /\ FpAccession(export'[u]) = FpAccession(export[u])
             /\ FpCurrent(export'[u]) = FpCurrent(export[u])
  BY <1>3, <1>5, SwappedRows
<1>7. Forbidden(export'.rights) = Forbidden(export.rights)
  <2>1. CASE t = "rights"
    <3>1. \A k \in DOMAIN export.rights : Alone(export.rights, k, "rights_id")
      BY DEF UniqueIds, IdColumn, Alone
    <3> QED BY <1>3, <2>1, <3>1, ForbiddenSwapped
  <2>2. CASE t # "rights"
    BY <1>5, <2>2 DEF Tables
  <2> QED BY <2>1, <2>2
<1>8. {"objects", "media", "rights", "locations"} = Tables
  BY DEF Tables
<1> QED BY <1>5, <1>6, <1>7, <1>8 DEF FpAll

-----------------------------------------------------------------------------
Entry == {"object_id", "media_id", "rights_id", "accession_number"}

\* The difference an edit makes is about its row.
LEMMA EditTouches ==
    ASSUME ExportTyped, Next, UniqueIds, NEW p, ~(p \in FpAll(export) <=> p \in FpAll(export'))
    PROVE  \E t \in Tables : \E row \in Touched(t) : Ids(row) \cap ({p.id} \cup DOMAIN p.keys) # {}
<1>1. PICK t \in Tables :
        \/ \E row \in RowOf[t] : AppendRow(t, row)
        \/ \E i \in DOMAIN export[t] : RemoveRow(t, i) \/ SwapRows(t, i)
  BY DEF Next
<1>2. \A row \in RowOf[t] : Columns[t] \subseteq DOMAIN row
  BY CollectionsAssumption DEF ExportTyped, RowOf
<1>3. ASSUME NEW row \in RowOf[t],
             \E c \in Columns[t] \cap Entry : row[c] \in Named(p),
             Copies(export, t, row) # Copies(export', t, row)
      PROVE  row \in Touched(t) /\ Ids(row) \cap ({p.id} \cup DOMAIN p.keys) # {}
  BY <1>2, <1>3 DEF Touched, Ids, Named, Entry
<1>4. ASSUME NEW row \in RowOf[t], AppendRow(t, row)
      PROVE  \E w \in Touched(t) : Ids(w) \cap ({p.id} \cup DOMAIN p.keys) # {}
  <2> DEFINE i == Len(export[t]) + 1
  <2>1. Edited(export', export, t, i) /\ export'[t][i] = row
    BY <1>4, AppendEdits
  <2> HIDE DEF i
  <2>2. \E c \in Columns[t] \cap Entry : row[c] \in Named(p)
    BY <2>1, EditNames DEF Entry
  <2>3. Copies(export, t, row) # Copies(export', t, row)
    BY <2>1, WithoutCopies DEF Copies, Edited
  <2> QED BY <1>3, <2>2, <2>3
<1>5. ASSUME NEW i \in DOMAIN export[t], RemoveRow(t, i)
      PROVE  \E w \in Touched(t) : Ids(w) \cap ({p.id} \cup DOMAIN p.keys) # {}
  <2>1. Edited(export, export', t, i) /\ export[t][i] \in RowOf[t]
    BY <1>5, RemoveEdits
  <2>2. \E c \in Columns[t] \cap Entry : export[t][i][c] \in Named(p)
    BY <2>1, EditNames DEF Entry
  <2>3. Copies(export, t, export[t][i]) # Copies(export', t, export[t][i])
    BY <2>1, WithoutCopies DEF Copies, Edited
  <2> QED BY <1>3, <2>1, <2>2, <2>3
<1>6. ASSUME NEW i \in DOMAIN export[t], SwapRows(t, i) PROVE FALSE
  BY <1>6, SwapKeeps
<1> QED BY <1>1, <1>4, <1>5, <1>6

\* An edit that keeps the bag of every table only moves rows.
LEMMA MovedKeeps ==
    ASSUME ExportTyped, Next, UniqueIds, Moved
    PROVE  FpAll(export') = FpAll(export)
<1>1. PICK t \in Tables :
        \/ \E row \in RowOf[t] : AppendRow(t, row)
        \/ \E i \in DOMAIN export[t] : RemoveRow(t, i) \/ SwapRows(t, i)
  BY DEF Next
<1>2. ToBag(export[t]) = ToBag(export'[t])
  BY DEF Moved
<1>3. ASSUME NEW row \in RowOf[t], AppendRow(t, row) PROVE FALSE
  <2>1. Without(export'[t], export[t], Len(export[t]) + 1)
    BY <1>3, AppendEdits DEF Edited
  <2> QED BY <1>2, <2>1, WithoutBag
<1>4. ASSUME NEW i \in DOMAIN export[t], RemoveRow(t, i) PROVE FALSE
  <2>1. Without(export[t], export'[t], i)
    BY <1>4, RemoveEdits DEF Edited
  <2> QED BY <1>2, <2>1, WithoutBag
<1> QED BY <1>1, <1>3, <1>4, SwapKeeps

LEMMA FingerprintsAre == Fingerprints = FpAll(export) /\ Fingerprints' = FpAll(export')
<1>1. \A x : FingerprintsOf(Evaluate(x)) = FpAll(x)
  BY AllPrints
<1>2. Fingerprints = FingerprintsOf(Evaluate(export)) /\ Fingerprints' = FingerprintsOf(Evaluate(export'))
  BY DEF Fingerprints, Findings
<1> QED BY <1>1, <1>2

(***************************************************************************)
(* compute_fingerprint takes nothing from a row's place in its table:      *)
(* moving rows of an export of any size moves no fingerprint.              *)
(***************************************************************************)
THEOREM MovingRowsKeepsFingerprints == Spec => RowOrderIrrelevant
<1>1. ExportTyped /\ [Next]_<<collection, export>> =>
         [UniqueIds /\ Moved => Fingerprints' = Fingerprints]_export
  BY MovedKeeps, FingerprintsAre
<1> QED BY <1>1, Typed, PTL DEF Spec, RowOrderIrrelevant

(***************************************************************************)
(* The rules look up ids: the findings that a row's coming or going makes  *)
(* new or resolved all name one of its ids.                                *)
(***************************************************************************)
THEOREM EditsAreLocal == Spec => EditIsLocal
<1>1. ExportTyped /\ [Next]_<<collection, export>> =>
         [UniqueIds => \A fp \in Lost \cup Gained :
             \E t \in Tables : \E row \in Touched(t) :
                 Ids(row) \cap ({fp.id} \cup DOMAIN fp.keys) # {}]_export
  <2> SUFFICES ASSUME ExportTyped, Next, UniqueIds, NEW fp \in Lost \cup Gained
               PROVE  \E t \in Tables : \E row \in Touched(t) :
                          Ids(row) \cap ({fp.id} \cup DOMAIN fp.keys) # {}
    OBVIOUS
  <2>1. ~(fp \in FpAll(export) <=> fp \in FpAll(export'))
    BY FingerprintsAre DEF Lost, Gained
  <2> QED BY <2>1, EditTouches
<1> QED BY <1>1, Typed, PTL DEF Spec, EditIsLocal

-----------------------------------------------------------------------------
LEMMA RightsAppended ==
    ASSUME ExportTyped, NEW row \in RowOf["rights"], AppendRow("rights", row), UniqueIds'
    PROVE  /\ Lost = {fp \in Fingerprints : fp.rule = "REF002" /\ fp.keys = Once(row.rights_id)}
           /\ \A fp \in Gained : /\ fp.rule = "RIGHTS001" /\ ~Permits(row)
                                 /\ \E old \in Lost : About(fp, old)
<1> DEFINE i == Len(export.rights) + 1
<1>1. "rights" \in Tables
  BY DEF Tables
<1>2. Edited(export', export, "rights", i) /\ export'.rights[i] = row
  BY <1>1, AppendEdits
<1> HIDE DEF i
<1>3. row.rights_id \notin Values(export.rights, "rights_id")
  <2>1. Without(export'.rights, export.rights, i)
    BY <1>2 DEF Edited
  <2> DEFINE pi == Past(i, DOMAIN export.rights)
  <2>2. Drawn(export'.rights, export.rights, pi) /\ Range(pi) = (DOMAIN export'.rights) \ {i}
    BY <2>1, WithoutDrawn
  <2> HIDE DEF pi
  <2>3. \A j, k \in DOMAIN export'.rights :
           export'.rights[j].rights_id = export'.rights[k].rights_id => j = k
    BY DEF UniqueIds, IdColumn
  <2>4. i \in DOMAIN export'.rights
    BY <2>1 DEF Without
  <2>5. ASSUME NEW k \in DOMAIN export.rights PROVE export.rights[k].rights_id # row.rights_id
    <3>1. pi[k] \in DOMAIN export'.rights /\ pi[k] # i /\ export.rights[k] = export'.rights[pi[k]]
      BY <2>2 DEF Drawn, Range
    <3> QED BY <1>2, <2>3, <2>4, <3>1
  <2> QED BY <2>5 DEF Values
<1> QED BY <1>2, <1>3, HandedOver, FingerprintsAre DEF Lost, Gained

LEMMA RightsRemoved ==
    ASSUME ExportTyped, NEW i \in DOMAIN export.rights, RemoveRow("rights", i), UniqueIds
    PROVE  \A fp \in Lost : \E new \in Gained : new.rule = "REF002" /\ About(fp, new)
<1>1. "rights" \in Tables
  BY DEF Tables
<1>2. Edited(export, export', "rights", i)
  BY <1>1, RemoveEdits
<1>3. export.rights[i].rights_id \notin Values(export'.rights, "rights_id")
  <2>1. Without(export.rights, export'.rights, i)
    BY <1>2 DEF Edited
  <2> DEFINE pi == Past(i, DOMAIN export'.rights)
  <2>2. Drawn(export.rights, export'.rights, pi) /\ Range(pi) = (DOMAIN export.rights) \ {i}
    BY <2>1, WithoutDrawn
  <2> HIDE DEF pi
  <2>3. \A j, k \in DOMAIN export.rights :
           export.rights[j].rights_id = export.rights[k].rights_id => j = k
    BY DEF UniqueIds, IdColumn
  <2>4. ASSUME NEW k \in DOMAIN export'.rights
        PROVE  export'.rights[k].rights_id # export.rights[i].rights_id
    <3>1. pi[k] \in DOMAIN export.rights /\ pi[k] # i /\ export'.rights[k] = export.rights[pi[k]]
      BY <2>2 DEF Drawn, Range
    <3> QED BY <2>3, <3>1
  <2> QED BY <2>4 DEF Values
<1>4. \A fp \in FpAll(export) \ FpAll(export') : \E old \in FpAll(export') \ FpAll(export) : About(fp, old)
  BY <1>2, <1>3, HandedOver
<1>5. \A old \in FpAll(export') \ FpAll(export) : old.rule = "REF002"
  BY <1>2, <1>3, HandedOver
<1> QED BY <1>4, <1>5, FingerprintsAre DEF Lost, Gained

(***************************************************************************)
(* REF002 and RIGHTS001 share a rights id's references between them: the   *)
(* first has those without a record, the second those whose record forbids *)
(* publication, and what one loses to an edit of the records the other     *)
(* gains.                                                                  *)
(***************************************************************************)
THEOREM RightsFindingsHandOver == Spec => RightsHandOver
<1>1. ExportTyped /\ [Next]_<<collection, export>> =>
         [/\ \A row \in RowOf["rights"] :
               AppendRow("rights", row) /\ UniqueIds' =>
                 /\ Lost = {fp \in Fingerprints : fp.rule = "REF002" /\ fp.keys = Once(row.rights_id)}
                 /\ \A fp \in Gained : /\ fp.rule = "RIGHTS001" /\ ~Permits(row)
                                       /\ \E old \in Lost : About(fp, old)
          /\ \A i \in DOMAIN export.rights :
               UniqueIds /\ RemoveRow("rights", i) =>
                 \A fp \in Lost : \E new \in Gained : new.rule = "REF002" /\ About(fp, new)]_export
  BY RightsAppended, RightsRemoved
<1> QED BY <1>1, Typed, PTL DEF Spec, RightsHandOver

-----------------------------------------------------------------------------
LEMMA FoundParts ==
    ASSUME NEW rule, NEW type, NEW id, NEW field, NEW keys, NEW table, NEW rows
    PROVE  /\ Found(rule, type, id, field, keys, table, rows).fp.rule = rule
           /\ Found(rule, type, id, field, keys, table, rows).fp.type = type
           /\ Found(rule, type, id, field, keys, table, rows).fp.id = id
           /\ Found(rule, type, id, field, keys, table, rows).fp.field = field
           /\ Found(rule, type, id, field, keys, table, rows).rows = {table} \X rows
BY DEF Found

\* What the rules on references find at a row.
LEMMA RefererFound ==
    ASSUME NEW x, NEW r \in Referers(x), NEW rule, NEW field
    PROVE  /\ FoundAt(x, rule, r, field).rows = {r}
           /\ FoundAt(x, rule, r, field).fp.rule = rule
           /\ FoundAt(x, rule, r, field).fp.type = IF r[1] = "objects" THEN "object" ELSE "media"
           /\ FoundAt(x, rule, r, field).fp.id =
                 IF r[1] = "objects" THEN x.objects[r[2]].object_id ELSE x.media[r[2]].media_id
<1>1. r = <<r[1], r[2]>> /\ {r[1]} \X {r[2]} = {r}
  BY DEF Referers
<1>2. CASE r[1] = "objects"
  BY <1>1, <1>2, FoundParts DEF FoundAt, Referer
<1>3. CASE r[1] # "objects"
  BY <1>1, <1>3, FoundParts DEF FoundAt, Referer
<1> QED BY <1>2, <1>3

\* A finding names its rule.
LEMMA RuleNames ==
    /\ \A g \in DuplicateAccessionNumber(export) : g.fp.rule = "CORE001"
    /\ \A g \in RequiredFieldMissing(export) : g.fp.rule = "CORE002"
    /\ \A g \in OrphanMediaObject(export) : g.fp.rule = "REF001"
    /\ \A g \in MultipleCurrentLocations(export) : g.fp.rule = "LOC001"
    /\ \A g \in UnknownControlledValue(export) : g.fp.rule = "VOCAB001"
    /\ \A g \in OrphanRightsReference(export) : g.fp.rule = "REF002"
    /\ \A g \in PublicationConflict(export) : g.fp.rule = "RIGHTS001"
<1>1. \A g \in DuplicateAccessionNumber(export) : g.fp.rule = "CORE001"
  BY DEF DuplicateAccessionNumber, Found
<1>2. ASSUME NEW g \in RequiredFieldMissing(export) PROVE g.fp.rule = "CORE002"
  <2> DEFINE R == export.required_fields
             found(i, n) == Found("CORE002", "object", export.objects[i].object_id, R[n], Once(R[n]),
                                  "objects", {i})
             finding(i, n) == [found(i, n) EXCEPT !.asked = n]
             cells == {d \in (DOMAIN export.objects) \X (DOMAIN R) :
                          /\ R[d[2]] \in REQUIRABLE_OBJECT_FIELDS
                          /\ export.objects[d[1]][R[d[2]]] = None}
  <2>1. RequiredFieldMissing(export) = {finding(c[1], c[2]) : c \in cells}
    BY DEF RequiredFieldMissing
  <2>2. \A i, n : finding(i, n).fp = found(i, n).fp
    BY AskedAside
  <2>3. \A i, n : found(i, n).fp.rule = "CORE002"
    BY FoundParts
  <2> HIDE DEF finding, found, cells
  <2> QED BY <2>1, <2>2, <2>3
<1>3. \A g \in OrphanMediaObject(export) : g.fp.rule = "REF001"
  BY DEF OrphanMediaObject, Found
<1>4. \A g \in MultipleCurrentLocations(export) : g.fp.rule = "LOC001"
  <2> DEFINE G(o) == Current(export.locations, o)
             finding(o) == Found("LOC001", "object", o, "current_location_id",
                                 Column(export.locations, G(o), "location_id"), "locations", G(o))
  <2>1. \A g \in MultipleCurrentLocations(export) : \E o : g = finding(o)
    BY DEF MultipleCurrentLocations, Current
  <2>2. \A o : finding(o).fp.rule = "LOC001"
    BY FoundParts
  <2> HIDE DEF finding
  <2> QED BY <2>1, <2>2
<1>5. \A g \in UnknownControlledValue(export) : g.fp.rule = "VOCAB001"
  <2> DEFINE O == export.objects
             finding(i, c) == Found("VOCAB001", "object", O[i].object_id, c,
                                     [k \in {c, ValueOf(O[i], c)} |-> 1], "objects", {i})
  <2>1. \A g \in UnknownControlledValue(export) : \E i, c : g = finding(i, c)
    BY DEF UnknownControlledValue, ValueOf
  <2>2. \A i, c : finding(i, c).fp.rule = "VOCAB001"
    BY FoundParts
  <2> HIDE DEF finding
  <2> QED BY <2>1, <2>2
<1>6. \A g \in OrphanRightsReference(export) : g.fp.rule = "REF002"
  BY RefererFound DEF OrphanRightsReference
<1>7. \A g \in PublicationConflict(export) : g.fp.rule = "RIGHTS001"
  BY RefererFound DEF PublicationConflict
<1> QED BY <1>1, <1>2, <1>3, <1>4, <1>5, <1>6, <1>7

\* The findings of the rules on references are those of two rules.
LEMMA RefererFindings ==
    ASSUME NEW f \in Findings, f.fp.rule \in {"REF002", "RIGHTS001"}
    PROVE  \/ f \in OrphanRightsReference(export) /\ f.fp.rule = "REF002"
           \/ f \in PublicationConflict(export) /\ f.fp.rule = "RIGHTS001"
BY RuleNames DEF Findings, Evaluate

(***************************************************************************)
(* An entity in public whose rights are missing or forbid it is flagged,   *)
(* and over one rights id no entity is flagged twice.                      *)
(***************************************************************************)
THEOREM RightsFlaggedOnce == Spec => []FlaggedOnce
<1>1. ExportTyped => FlaggedOnce
  <2> SUFFICES ASSUME ExportTyped, NEW r \in Referers(export)
               PROVE  LET row == Referer(export, r)
                          flags == {f \in Findings : f.rows = {r} /\ f.fp.rule \in {"REF002", "RIGHTS001"}}
                          allows == \E i \in RowsWith(export.rights, "rights_id", row.rights_id) :
                                        Permits(export.rights[i])
                      IN  /\ Cardinality(flags) <= 1
                          /\ row.rights_id # None /\ row.publication_status \in PUBLIC_VALUES /\ ~allows
                                 => flags # {}
    BY DEF FlaggedOnce
  <2> DEFINE row == Referer(export, r)
             id == row.rights_id
             table == export.rights
             flags == {f \in Findings : f.rows = {r} /\ f.fp.rule \in {"REF002", "RIGHTS001"}}
             orphan == FoundAt(export, "REF002", r, "rights_id")
             conflict == FoundAt(export, "RIGHTS001", r, "publication_status")
  <2>1. \A f \in OrphanRightsReference(export) : f.rows = {r} =>
           f = orphan /\ id \notin Values(table, "rights_id")
    <3>1. \A q \in Referers(export) :
             FoundAt(export, "REF002", q, "rights_id").rows = {r} => q = r
      BY RefererFound
    <3> QED BY <3>1 DEF OrphanRightsReference
  <2>2. \A f \in PublicationConflict(export) : f.rows = {r} =>
           f = conflict /\ id \in Values(table, "rights_id")
    <3>1. \A q \in Referers(export) :
             FoundAt(export, "RIGHTS001", q, "publication_status").rows = {r} => q = r
      BY RefererFound
    <3> QED BY <3>1 DEF PublicationConflict, NotPermitted
  <2>3. \A f \in flags : f \in OrphanRightsReference(export) \/ f \in PublicationConflict(export)
    BY RefererFindings
  <2>4. Cardinality(flags) <= 1
    <3>1. flags \subseteq {orphan} \/ flags \subseteq {conflict}
      BY <2>1, <2>2, <2>3
    <3>2. \A g : IsFiniteSet({g}) /\ Cardinality({g}) = 1
      BY FS_Singleton
    <3>3. \A g : flags \in SUBSET {g} => Cardinality(flags) <= Cardinality({g})
      BY <3>2, FS_Subset
    <3> HIDE DEF flags, orphan, conflict
    <3> QED BY <3>1, <3>2, <3>3
  <2>5. ASSUME id # None, row.publication_status \in PUBLIC_VALUES,
               \A i \in RowsWith(table, "rights_id", id) : ~Permits(table[i])
        PROVE  flags # {}
    <3>1. CASE id \notin Values(table, "rights_id")
      <4>1. orphan \in OrphanRightsReference(export)
        BY <2>5, <3>1 DEF OrphanRightsReference
      <4>2. orphan \in flags
        BY <4>1, RefererFound DEF Findings, Evaluate
      <4> QED BY <4>2
    <3>2. CASE id \in Values(table, "rights_id")
      <4> DEFINE rows == RowsWith(table, "rights_id", id)
      <4>1. rows # {} /\ rows \in SUBSET (1 .. Len(table)) /\ Len(table) \in Nat
        BY <3>2 DEF RowsWith, Values, ExportTyped
      <4>2. Max(rows) \in rows
        <5> HIDE DEF rows
        <5> QED BY <4>1, MaxOf
      <4>3. ~Permits(Record(table, "rights_id", id))
        BY <2>5, <4>2 DEF Record
      <4>4. conflict \in PublicationConflict(export)
        BY <2>5, <3>2, <4>3 DEF PublicationConflict, NotPermitted
      <4>5. conflict \in flags
        BY <4>4, RefererFound DEF Findings, Evaluate
      <4> QED BY <4>5
    <3> QED BY <3>1, <3>2
  <2> QED BY <2>4, <2>5
<1> QED BY <1>1, Typed, PTL

-----------------------------------------------------------------------------
LEMMA TwoOrMore ==
    ASSUME NEW S, IsFiniteSet(S)
    PROVE  Cardinality(S) >= 2 <=> \E i, k \in S : i # k
<1>1. ASSUME NEW i \in S, NEW k \in S, i # k PROVE Cardinality(S) >= 2
  <2>1. IsFiniteSet({i}) /\ Cardinality({i}) = 1
    BY FS_Singleton
  <2>2. Cardinality({i} \cup {k}) = 2
    BY <1>1, <2>1, FS_AddElement
  <2>3. {i} \cup {k} \in SUBSET S
    OBVIOUS
  <2>4. Cardinality({i} \cup {k}) <= Cardinality(S)
    BY <2>3, FS_Subset
  <2>5. Cardinality(S) \in Nat
    BY FS_CardinalityType
  <2> QED BY <2>2, <2>4, <2>5
<1>2. ASSUME \A i, k \in S : i = k PROVE ~(Cardinality(S) >= 2)
  <2>1. CASE S = {}
    BY <2>1, FS_EmptySet
  <2>2. CASE S # {}
    <3>1. \E i : S = {i}
      BY <1>2, <2>2
    <3>2. Cardinality(S) = 1
      BY <3>1, FS_Singleton
    <3> QED BY <3>2
  <2> QED BY <2>1, <2>2
<1> QED BY <1>1, <1>2

\* Cells of a table, one by one.
LEMMA NoCell ==
    ASSUME NEW D, NEW E, NEW cells \in SUBSET (D \X E)
    PROVE  cells = {} <=> \A i \in D, f \in E : <<i, f>> \notin cells
<1>1. \A d \in cells : d = <<d[1], d[2]>> /\ d[1] \in D /\ d[2] \in E
  OBVIOUS
<1> QED BY <1>1

\* A value on two rows or more is a value on two different rows.
LEMMA NoGroup ==
    ASSUME NEW table, NEW column, NEW rows, rows \subseteq DOMAIN table, IsFiniteSet(rows)
    PROVE  (\A v \in Values(table, column) \ {None} :
               ~(Cardinality({i \in rows : table[i][column] = v}) >= 2)) <=>
           \A i, k \in rows : i # k /\ table[i][column] # None => table[i][column] # table[k][column]
<1> DEFINE G(v) == {i \in rows : table[i][column] = v}
<1>1. ASSUME NEW v PROVE Cardinality(G(v)) >= 2 <=> \E i, k \in G(v) : i # k
  <2>1. IsFiniteSet(G(v))
    BY FS_Subset
  <2> HIDE DEF G
  <2> QED BY <2>1, TwoOrMore
<1>2. ASSUME NEW v \in Values(table, column) \ {None}, Cardinality(G(v)) >= 2
      PROVE  \E i, k \in rows : i # k /\ table[i][column] # None /\ table[i][column] = table[k][column]
  <2>1. PICK i \in G(v), k \in G(v) : i # k
    BY <1>1, <1>2
  <2> QED BY <2>1
<1>3. ASSUME NEW i \in rows, NEW k \in rows, i # k, table[i][column] # None,
             table[i][column] = table[k][column]
      PROVE  \E v \in Values(table, column) \ {None} : Cardinality(G(v)) >= 2
  <2> DEFINE v == table[i][column]
  <2>1. v \in Values(table, column) \ {None}
    BY <1>3 DEF Values
  <2>2. i \in G(v) /\ k \in G(v)
    BY <1>3
  <2> HIDE DEF G, v
  <2>3. Cardinality(G(v)) >= 2
    BY <1>1, <1>3, <2>2
  <2> QED BY <2>1, <2>3
<1> HIDE DEF G
<1>4. (\A v \in Values(table, column) \ {None} : ~(Cardinality(G(v)) >= 2)) <=>
         \A i, k \in rows : i # k /\ table[i][column] # None => table[i][column] # table[k][column]
  BY <1>2, <1>3
<1> QED BY <1>4 DEF G

(***************************************************************************)
(* Without media and rights, the scan is silent exactly when the export is *)
(* sound: no rule misses a violation and none reports a sound row.         *)
(***************************************************************************)
THEOREM SilenceIsSoundness == Spec => []SilentIfSound
<1>1. ExportTyped => SilentIfSound
  <2> DEFINE objects == export.objects
             places == export.locations
             words == export.controlled_vocabularies
             required == ToSet(export.required_fields) \cap REQUIRABLE_OBJECT_FIELDS
             current == {i \in DOMAIN places : places[i].is_current = TRUE}
             Distinct(table, rows, column) ==
                \A i, k \in rows :
                    i # k /\ table[i][column] # None => table[i][column] # table[k][column]
             filled == \A i \in DOMAIN objects : \A f \in required : objects[i][f] # None
             known == \A i \in DOMAIN objects : \A f \in DOMAIN words \cap DOMAIN objects[i] :
                         objects[i][f] \in {None} \cup words[f]
             sound == /\ Distinct(objects, DOMAIN objects, "accession_number")
                      /\ Distinct(places, current, "object_id")
                      /\ \A i \in DOMAIN objects :
                            /\ \A f \in required : objects[i][f] # None
                            /\ \A f \in DOMAIN words \cap DOMAIN objects[i] :
                                  objects[i][f] \in {None} \cup words[f]
  <2> SUFFICES ASSUME ExportTyped, export.media = <<>>,
                      \A i \in DOMAIN objects : objects[i].rights_id = None
               PROVE  Findings = {} <=> sound
    BY DEF SilentIfSound
  <2>1. IsFiniteSet(DOMAIN objects) /\ IsFiniteSet(DOMAIN places)
    <3>1. DOMAIN objects = 1 .. Len(objects) /\ Len(objects) \in Nat
      BY DEF ExportTyped
    <3>2. DOMAIN places = 1 .. Len(places) /\ Len(places) \in Nat
      BY DEF ExportTyped
    <3> QED BY <3>1, <3>2, FS_Interval
  <2>2. /\ OrphanMediaObject(export) = {}
        /\ OrphanRightsReference(export) = {}
        /\ PublicationConflict(export) = {}
    <3>1. DOMAIN export.media = {}
      OBVIOUS
    <3>2. \A q \in Referers(export) : Referer(export, q).rights_id = None
      BY <3>1 DEF Referers, Referer
    <3> QED BY <3>1, <3>2 DEF OrphanMediaObject, OrphanRightsReference, PublicationConflict
  <2>3. DuplicateAccessionNumber(export) = {} <=> Distinct(objects, DOMAIN objects, "accession_number")
    <3>1. DuplicateAccessionNumber(export) = {} <=>
             \A v \in Values(objects, "accession_number") \ {None} : ~(Cardinality(Group(objects, v)) >= 2)
      BY DEF DuplicateAccessionNumber, Group
    <3>2. \A v : Group(objects, v) = {i \in DOMAIN objects : objects[i]["accession_number"] = v}
      BY DEF Group, RowsWith
    <3> DEFINE column == "accession_number"
    <3> HIDE DEF objects, column
    <3>4. (\A v \in Values(objects, column) \ {None} :
              ~(Cardinality({i \in DOMAIN objects : objects[i][column] = v}) >= 2)) <=>
          Distinct(objects, DOMAIN objects, column)
      BY <2>1, NoGroup
    <3> HIDE DEF Distinct
    <3> QED BY <3>1, <3>2, <3>4 DEF column
  <2>4. MultipleCurrentLocations(export) = {} <=> Distinct(places, current, "object_id")
    <3>1. MultipleCurrentLocations(export) = {} <=>
             \A v \in Values(places, "object_id") \ {None} : ~(Cardinality(Current(places, v)) >= 2)
      BY DEF MultipleCurrentLocations, Current
    <3>2. \A v : Current(places, v) = {i \in current : places[i]["object_id"] = v}
      BY DEF Current, RowsWith
    <3>3. current \subseteq DOMAIN places /\ IsFiniteSet(current)
      BY <2>1, FS_Subset
    <3> DEFINE column == "object_id"
    <3> HIDE DEF places, current, column
    <3>4. (\A v \in Values(places, column) \ {None} :
              ~(Cardinality({i \in current : places[i][column] = v}) >= 2)) <=>
          Distinct(places, current, column)
      BY <3>3, NoGroup
    <3> HIDE DEF Distinct
    <3> QED BY <3>1, <3>2, <3>4 DEF column
  <2>5. RequiredFieldMissing(export) = {} <=> filled
    <3> DEFINE R == export.required_fields
               missing(i, n) == R[n] \in REQUIRABLE_OBJECT_FIELDS /\ objects[i][R[n]] = None
               cells == {d \in (DOMAIN objects) \X (DOMAIN R) : missing(d[1], d[2])}
    <3>1. RequiredFieldMissing(export) = {} <=> cells = {}
      BY DEF RequiredFieldMissing
    <3>2. filled <=> \A i \in DOMAIN objects, n \in DOMAIN R : ~missing(i, n)
      BY DEF ToSet
    <3> HIDE DEF missing
    <3>3. cells \in SUBSET ((DOMAIN objects) \X (DOMAIN R))
      OBVIOUS
    <3>4. \A i \in DOMAIN objects, n \in DOMAIN R : <<i, n>> \notin cells <=> ~missing(i, n)
      OBVIOUS
    <3> HIDE DEF cells, objects, R, filled
    <3>5. cells = {} <=> \A i \in DOMAIN objects, n \in DOMAIN R : <<i, n>> \notin cells
      BY <3>3, NoCell
    <3> QED BY <3>1, <3>2, <3>4, <3>5
  <2>6. UnknownControlledValue(export) = {} <=> known
    <3> DEFINE unknown(i, f) == ValueOf(objects[i], f) \notin {None} \cup words[f]
               cells == {d \in (DOMAIN objects) \X (DOMAIN words) : unknown(d[1], d[2])}
    <3>1. UnknownControlledValue(export) = {} <=> cells = {}
      BY DEF UnknownControlledValue, ValueOf
    <3>2. known <=> \A i \in DOMAIN objects, f \in DOMAIN words : ~unknown(i, f)
      BY DEF ValueOf
    <3> HIDE DEF unknown
    <3>3. cells \in SUBSET ((DOMAIN objects) \X (DOMAIN words))
      OBVIOUS
    <3>4. \A i \in DOMAIN objects, f \in DOMAIN words : <<i, f>> \notin cells <=> ~unknown(i, f)
      OBVIOUS
    <3> HIDE DEF cells, objects, words, known
    <3>5. cells = {} <=> \A i \in DOMAIN objects, f \in DOMAIN words : <<i, f>> \notin cells
      BY <3>3, NoCell
    <3> QED BY <3>1, <3>2, <3>4, <3>5
  <2>7. Findings = {} <=>
           /\ DuplicateAccessionNumber(export) = {} /\ RequiredFieldMissing(export) = {}
           /\ OrphanMediaObject(export) = {} /\ OrphanRightsReference(export) = {}
           /\ PublicationConflict(export) = {} /\ MultipleCurrentLocations(export) = {}
           /\ UnknownControlledValue(export) = {}
    BY DEF Findings, Evaluate
  <2>8. sound <=> /\ Distinct(objects, DOMAIN objects, "accession_number")
                  /\ Distinct(places, current, "object_id") /\ filled /\ known
    OBVIOUS
  <2> HIDE DEF sound, filled, known, Distinct
  <2> QED BY <2>2, <2>3, <2>4, <2>5, <2>6, <2>7, <2>8
<1> QED BY <1>1, Typed, PTL

-----------------------------------------------------------------------------
LEMMA FiniteImage ==
    ASSUME NEW S, IsFiniteSet(S), NEW f, DOMAIN f = S
    PROVE  IsFiniteSet({f[s] : s \in S})
<1> DEFINE T == {f[s] : s \in S}
           g == [s \in S |-> f[s]]
<1>1. g \in Surjection(S, T)
  BY Fun_IsSurj
<1> HIDE DEF g, T
<1>2. IsFiniteSet(T)
  BY <1>1, FS_Surjection
<1> QED BY <1>2 DEF T

LEMMA FiniteFindings == ExportTyped => IsFiniteSet(Findings)
<1> SUFFICES ASSUME ExportTyped PROVE IsFiniteSet(Findings)
  OBVIOUS
<1> DEFINE O == export.objects  M == export.media  L == export.locations
           words == export.controlled_vocabularies
           required == export.required_fields
<1>1. IsFiniteSet(DOMAIN O) /\ IsFiniteSet(DOMAIN M) /\ IsFiniteSet(DOMAIN L)
  <2>1. \A t \in Tables : DOMAIN export[t] = 1 .. Len(export[t]) /\ Len(export[t]) \in Nat
    BY DEF ExportTyped, Tables
  <2>2. \A n \in Nat : IsFiniteSet(1 .. n)
    BY FS_Interval
  <2>3. \A t \in Tables : IsFiniteSet(DOMAIN export[t])
    BY <2>1, <2>2
  <2> QED BY <2>3 DEF Tables
<1>2. IsFiniteSet(DOMAIN required)
  <2>1. required \in Seq(ToSet(required))
    BY CollectionsAssumption DEF ExportTyped
  <2>2. DOMAIN required = 1 .. Len(required) /\ Len(required) \in Nat
    BY <2>1
  <2> QED BY <2>2, FS_Interval
<1>3. IsFiniteSet(DOMAIN words)
  BY CollectionsAssumption DEF ExportTyped
<1>4. IsFiniteSet(Referers(export))
  <2>1. IsFiniteSet({"objects"}) /\ IsFiniteSet({"media"})
    BY FS_Singleton
  <2>2. IsFiniteSet({"objects"} \X (DOMAIN O)) /\ IsFiniteSet({"media"} \X (DOMAIN M))
    BY <1>1, <2>1, FS_Product
  <2> QED BY <2>2, FS_Union DEF Referers
<1>5. ASSUME NEW table, NEW column, IsFiniteSet(DOMAIN table), NEW V \in SUBSET Values(table, column)
      PROVE  IsFiniteSet(V)
  <2> DEFINE f == [i \in DOMAIN table |-> table[i][column]]
  <2>1. Values(table, column) = {f[i] : i \in DOMAIN table}
    BY DEF Values
  <2>2. IsFiniteSet({f[i] : i \in DOMAIN table})
    <3>1. DOMAIN f = DOMAIN table
      OBVIOUS
    <3> HIDE DEF f
    <3> QED BY <1>5, <3>1, FiniteImage
  <2> HIDE DEF f
  <2> QED BY <2>1, <2>2, FS_Subset
<1>6. IsFiniteSet(DuplicateAccessionNumber(export))
  <2> DEFINE S == {v \in Values(O, "accession_number") \ {None} : Cardinality(Group(O, v)) >= 2}
             f == [a \in S |-> Found("CORE001", "object", a, "accession_number",
                                     AccessionKeys(export, Group(O, a)), "objects", Group(O, a))]
  <2>1. DuplicateAccessionNumber(export) = {f[s] : s \in S}
    BY DEF DuplicateAccessionNumber, Group
  <2>2. DOMAIN f = S
    OBVIOUS
  <2> HIDE DEF f
  <2>3. S \in SUBSET Values(O, "accession_number")
    OBVIOUS
  <2> HIDE DEF S, O
  <2>4. IsFiniteSet(S)
    BY <1>1, <1>5, <2>3
  <2> QED BY <2>1, <2>2, <2>4, FiniteImage
<1>7. IsFiniteSet(MultipleCurrentLocations(export))
  <2> DEFINE S == {v \in Values(L, "object_id") \ {None} : Cardinality(Current(L, v)) >= 2}
             f == [o \in S |-> Found("LOC001", "object", o, "current_location_id",
                                     Column(L, Current(L, o), "location_id"), "locations", Current(L, o))]
  <2>1. MultipleCurrentLocations(export) = {f[s] : s \in S}
    BY DEF MultipleCurrentLocations, Current
  <2>2. DOMAIN f = S
    OBVIOUS
  <2> HIDE DEF f
  <2>3. S \in SUBSET Values(L, "object_id")
    OBVIOUS
  <2> HIDE DEF S, L
  <2>4. IsFiniteSet(S)
    BY <1>1, <1>5, <2>3
  <2> QED BY <2>1, <2>2, <2>4, FiniteImage
<1>8. IsFiniteSet(RequiredFieldMissing(export))
  <2> DEFINE S == {d \in (DOMAIN O) \X (DOMAIN required) :
                      required[d[2]] \in REQUIRABLE_OBJECT_FIELDS /\ O[d[1]][required[d[2]]] = None}
             f == [c \in S |-> [Found("CORE002", "object", O[c[1]].object_id, required[c[2]],
                                      Once(required[c[2]]), "objects", {c[1]}) EXCEPT !.asked = c[2]]]
  <2>1. RequiredFieldMissing(export) = {f[s] : s \in S}
    BY DEF RequiredFieldMissing
  <2>2. DOMAIN f = S
    OBVIOUS
  <2> HIDE DEF f
  <2>3. S \in SUBSET ((DOMAIN O) \X (DOMAIN required))
    OBVIOUS
  <2> HIDE DEF S, O, required
  <2>4. IsFiniteSet(S)
    BY <1>1, <1>2, <2>3, FS_Product, FS_Subset
  <2> QED BY <2>1, <2>2, <2>4, FiniteImage
<1>9. IsFiniteSet(UnknownControlledValue(export))
  <2> DEFINE S == {d \in (DOMAIN O) \X (DOMAIN words) : ValueOf(O[d[1]], d[2]) \notin {None} \cup words[d[2]]}
             f == [c \in S |-> Found("VOCAB001", "object", O[c[1]].object_id, c[2],
                                     [k \in {c[2], ValueOf(O[c[1]], c[2])} |-> 1], "objects", {c[1]})]
  <2>1. UnknownControlledValue(export) = {f[s] : s \in S}
    BY DEF UnknownControlledValue, ValueOf
  <2>2. DOMAIN f = S
    OBVIOUS
  <2> HIDE DEF f
  <2>3. S \in SUBSET ((DOMAIN O) \X (DOMAIN words))
    OBVIOUS
  <2> HIDE DEF S, O, words
  <2>4. IsFiniteSet(S)
    BY <1>1, <1>3, <2>3, FS_Product, FS_Subset
  <2> QED BY <2>1, <2>2, <2>4, FiniteImage
<1>10. IsFiniteSet(OrphanMediaObject(export))
  <2> DEFINE S == {k \in DOMAIN M : M[k].object_id \notin {None} \cup Values(O, "object_id")}
             f == [i \in S |-> Found("REF001", "media", M[i].media_id, "object_id",
                                     Once(M[i].object_id), "media", {i})]
  <2>1. OrphanMediaObject(export) = {f[s] : s \in S}
    BY DEF OrphanMediaObject
  <2>2. DOMAIN f = S
    OBVIOUS
  <2> HIDE DEF f
  <2>3. S \in SUBSET (DOMAIN M)
    OBVIOUS
  <2> HIDE DEF S, M
  <2>4. IsFiniteSet(S)
    BY <1>1, <2>3, FS_Subset
  <2> QED BY <2>1, <2>2, <2>4, FiniteImage
<1>11. ASSUME NEW rule, NEW field, NEW T \in SUBSET Referers(export)
       PROVE  IsFiniteSet(FoundAmong(export, rule, T, field))
  <2> DEFINE f == [r \in T |-> FoundAt(export, rule, r, field)]
  <2>1. FoundAmong(export, rule, T, field) = {f[r] : r \in T}
    BY DEF FoundAmong
  <2>2. DOMAIN f = T
    OBVIOUS
  <2> HIDE DEF f
  <2>3. IsFiniteSet(T)
    BY <1>4, FS_Subset
  <2> QED BY <2>1, <2>2, <2>3, FiniteImage
<1>12. IsFiniteSet(OrphanRightsReference(export))
  <2> DEFINE T == {q \in Referers(export) :
                      Referer(export, q).rights_id \notin {None} \cup Values(export.rights, "rights_id")}
  <2>1. OrphanRightsReference(export) = FoundAmong(export, "REF002", T, "rights_id")
    BY DEF OrphanRightsReference, FoundAmong
  <2>2. T \in SUBSET Referers(export)
    OBVIOUS
  <2> HIDE DEF T
  <2> QED BY <1>11, <2>1, <2>2
<1>13. IsFiniteSet(PublicationConflict(export))
  <2> DEFINE T == {q \in Referers(export) :
                      /\ Referer(export, q).publication_status \in PUBLIC_VALUES
                      /\ Referer(export, q).rights_id # None
                      /\ NotPermitted(export, Referer(export, q).rights_id)}
  <2>1. PublicationConflict(export) = FoundAmong(export, "RIGHTS001", T, "publication_status")
    BY DEF PublicationConflict, FoundAmong
  <2>2. T \in SUBSET Referers(export)
    OBVIOUS
  <2> HIDE DEF T
  <2> QED BY <1>11, <2>1, <2>2
<1>14. Findings = DuplicateAccessionNumber(export) \cup (RequiredFieldMissing(export) \cup
                     (OrphanMediaObject(export) \cup (OrphanRightsReference(export) \cup
                        (PublicationConflict(export) \cup
                           (MultipleCurrentLocations(export) \cup UnknownControlledValue(export))))))
  BY DEF Findings, Evaluate
<1> HIDE DEF O, M, L, words, required
<1>15. \A A, B : IsFiniteSet(A) /\ IsFiniteSet(B) => IsFiniteSet(A \cup B)
  BY FS_Union
<1> QED BY <1>6, <1>7, <1>8, <1>9, <1>10, <1>12, <1>13, <1>14, <1>15

\* Two findings of a scan of unique ids and fields differ in rule, type, id or field.
LEMMA PrintsDiffer ==
    ASSUME ExportTyped, UniqueIds, RequiredOnce, NEW f \in Findings, NEW g \in Findings, f.fp = g.fp
    PROVE  f = g
<1> DEFINE O == export.objects  M == export.media  L == export.locations
<1>1. /\ \A i, k \in DOMAIN O : O[i].object_id = O[k].object_id => i = k
      /\ \A i, k \in DOMAIN M : M[i].media_id = M[k].media_id => i = k
  BY DEF UniqueIds, IdColumn
<1>2. f.fp.rule = g.fp.rule /\ f.fp.type = g.fp.type /\ f.fp.id = g.fp.id /\ f.fp.field = g.fp.field
  OBVIOUS
<1>3. CASE f \in DuplicateAccessionNumber(export) /\ g \in DuplicateAccessionNumber(export)
  <2> DEFINE finding(a) == Found("CORE001", "object", a, "accession_number",
                                 AccessionKeys(export, Group(O, a)), "objects", Group(O, a))
  <2>1. (\E a : f = finding(a)) /\ \E a : g = finding(a)
    BY <1>3 DEF DuplicateAccessionNumber, Group
  <2>2. \A a : finding(a).fp.id = a
    BY FoundParts
  <2> HIDE DEF finding
  <2> QED BY <1>2, <2>1, <2>2
<1>4. CASE f \in MultipleCurrentLocations(export) /\ g \in MultipleCurrentLocations(export)
  <2> DEFINE finding(o) == Found("LOC001", "object", o, "current_location_id",
                                 Column(L, Current(L, o), "location_id"), "locations", Current(L, o))
  <2>1. (\E o : f = finding(o)) /\ \E o : g = finding(o)
    BY <1>4 DEF MultipleCurrentLocations, Current
  <2>2. \A o : finding(o).fp.id = o
    BY FoundParts
  <2> HIDE DEF finding
  <2> QED BY <1>2, <2>1, <2>2
<1>5. CASE f \in RequiredFieldMissing(export) /\ g \in RequiredFieldMissing(export)
  <2> DEFINE R == export.required_fields
             found(i, n) == Found("CORE002", "object", O[i].object_id, R[n], Once(R[n]), "objects", {i})
             finding(i, n) == [found(i, n) EXCEPT !.asked = n]
             cells == {d \in (DOMAIN O) \X (DOMAIN R) :
                          R[d[2]] \in REQUIRABLE_OBJECT_FIELDS /\ O[d[1]][R[d[2]]] = None}
  <2>1. /\ \E i \in DOMAIN O : \E n \in DOMAIN R : f = finding(i, n)
        /\ \E i \in DOMAIN O : \E n \in DOMAIN R : g = finding(i, n)
    <3>1. RequiredFieldMissing(export) = {finding(c[1], c[2]) : c \in cells}
      BY DEF RequiredFieldMissing
    <3>2. \A c \in cells : c[1] \in DOMAIN O /\ c[2] \in DOMAIN R
      OBVIOUS
    <3> HIDE DEF cells, finding
    <3>3. (\E c \in cells : f = finding(c[1], c[2])) /\ \E c \in cells : g = finding(c[1], c[2])
      BY <1>5, <3>1
    <3> QED BY <3>2, <3>3
  <2>2. \A i, n : finding(i, n).fp = found(i, n).fp
    BY AskedAside
  <2>3. \A i, n : found(i, n).fp.id = O[i].object_id /\ found(i, n).fp.field = R[n]
    BY FoundParts
  <2>4. \A m, n \in DOMAIN R : R[m] = R[n] => m = n
    BY DEF RequiredOnce
  <2> HIDE DEF finding, found, R
  <2> QED BY <1>1, <1>2, <2>1, <2>2, <2>3, <2>4
<1>6. CASE f \in UnknownControlledValue(export) /\ g \in UnknownControlledValue(export)
  <2> DEFINE finding(i, c) == Found("VOCAB001", "object", O[i].object_id, c,
                                    [k \in {c, ValueOf(O[i], c)} |-> 1], "objects", {i})
  <2>1. (\E i \in DOMAIN O : \E c : f = finding(i, c)) /\ \E i \in DOMAIN O : \E c : g = finding(i, c)
    <3> DEFINE words == export.controlled_vocabularies
               cells == {d \in (DOMAIN O) \X (DOMAIN words) :
                            ValueOf(O[d[1]], d[2]) \notin {None} \cup words[d[2]]}
    <3>1. UnknownControlledValue(export) = {finding(c[1], c[2]) : c \in cells}
      BY DEF UnknownControlledValue, ValueOf
    <3>2. \A c \in cells : c[1] \in DOMAIN O
      OBVIOUS
    <3> HIDE DEF cells, finding
    <3>3. (\E c \in cells : f = finding(c[1], c[2])) /\ \E c \in cells : g = finding(c[1], c[2])
      BY <1>6, <3>1
    <3> QED BY <3>2, <3>3
  <2>2. \A i, c : finding(i, c).fp.id = O[i].object_id /\ finding(i, c).fp.field = c
    BY FoundParts
  <2> HIDE DEF finding
  <2> QED BY <1>1, <1>2, <2>1, <2>2
<1>7. CASE f \in OrphanMediaObject(export) /\ g \in OrphanMediaObject(export)
  <2> DEFINE finding(i) == Found("REF001", "media", M[i].media_id, "object_id",
                                 Once(M[i].object_id), "media", {i})
  <2>1. (\E i \in DOMAIN M : f = finding(i)) /\ \E i \in DOMAIN M : g = finding(i)
    BY <1>7 DEF OrphanMediaObject
  <2>2. \A i : finding(i).fp.id = M[i].media_id
    BY FoundParts
  <2> HIDE DEF finding
  <2> QED BY <1>1, <1>2, <2>1, <2>2
<1>8. ASSUME NEW rule, NEW field, NEW q \in Referers(export), NEW r \in Referers(export),
             f = FoundAt(export, rule, q, field), g = FoundAt(export, rule, r, field)
      PROVE  f = g
  <2>1. /\ f.fp.type = (IF q[1] = "objects" THEN "object" ELSE "media")
        /\ g.fp.type = (IF r[1] = "objects" THEN "object" ELSE "media")
        /\ f.fp.id = IF q[1] = "objects" THEN O[q[2]].object_id ELSE M[q[2]].media_id
        /\ g.fp.id = IF r[1] = "objects" THEN O[r[2]].object_id ELSE M[r[2]].media_id
    BY <1>8, RefererFound
  <2>2. /\ q = <<q[1], q[2]>> /\ r = <<r[1], r[2]>>
        /\ q[1] = "objects" => q[2] \in DOMAIN O
        /\ r[1] = "objects" => r[2] \in DOMAIN O
        /\ q[1] # "objects" => q[1] = "media" /\ q[2] \in DOMAIN M
        /\ r[1] # "objects" => r[1] = "media" /\ r[2] \in DOMAIN M
    BY DEF Referers
  <2>3. q[1] = r[1] /\ q[2] = r[2]
    BY <1>1, <1>2, <2>1, <2>2
  <2> QED BY <1>8, <2>2, <2>3
<1>9. CASE f \in OrphanRightsReference(export) /\ g \in OrphanRightsReference(export)
  BY <1>8, <1>9 DEF OrphanRightsReference
<1>10. CASE f \in PublicationConflict(export) /\ g \in PublicationConflict(export)
  BY <1>8, <1>10 DEF PublicationConflict
<1> HIDE DEF O, M, L
<1> QED BY <1>2, <1>3, <1>4, <1>5, <1>6, <1>7, <1>9, <1>10, RuleNames DEF Findings, Evaluate

(***************************************************************************)
(* A fingerprint stands for one finding of a scan whose ids are unique and *)
(* whose required fields are named once each: baselines, the viewer's      *)
(* look-up and the counts may go by it.                                    *)
(***************************************************************************)
THEOREM FingerprintsIdentify == Spec => []OneFindingPerFingerprint
<1>1. ExportTyped => OneFindingPerFingerprint
  <2> SUFFICES ASSUME ExportTyped, UniqueIds, RequiredOnce
               PROVE  Cardinality(Fingerprints) = Cardinality(Findings)
    BY DEF OneFindingPerFingerprint
  <2> DEFINE print == [f \in Findings |-> f.fp]
  <2>1. print \in [Findings -> Fingerprints] /\ \A p \in Fingerprints : \E f \in Findings : print[f] = p
    BY DEF Fingerprints, FingerprintsOf
  <2>2. \A f, g \in Findings : print[f] = print[g] => f = g
    BY PrintsDiffer
  <2> HIDE DEF print
  <2>3. print \in Bijection(Findings, Fingerprints)
    BY <2>1, <2>2, Fun_IsBij
  <2>4. ExistsBijection(Findings, Fingerprints)
    BY <2>3 DEF ExistsBijection
  <2>5. IsFiniteSet(Findings)
    BY FiniteFindings
  <2> QED BY <2>4, <2>5, FS_Bijection
<1> QED BY <1>1, Typed, PTL
=============================================================================
