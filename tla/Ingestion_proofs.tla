-------------------------- MODULE Ingestion_proofs --------------------------
(***************************************************************************)
(* For every export, mapping and way in: a CSV table is loaded whole or    *)
(* refused at its first line without a key; the two ways in agree; what    *)
(* the order of reading may orphan while the export grows; and that the    *)
(* manifest names what was read.                                           *)
(***************************************************************************)
EXTENDS Ingestion, FiniteSetTheorems, FunctionTheorems, SequenceTheorems, TLAPS

\* One sequence is the beginning of the other.
Begins(s, t) == Len(s) <= Len(t) /\ \A i \in 1 .. Len(s) : s[i] = t[i]

Listed(s) == s \in Seq(ToSet(s))

LEMMA ListedIs == ASSUME NEW s, Listed(s) PROVE Len(s) \in Nat /\ DOMAIN s = 1 .. Len(s)
BY DEF Listed

LEMMA ListedIn == ASSUME NEW S, NEW s \in Seq(S) PROVE Listed(s)
<1>1. Len(s) \in Nat /\ DOMAIN s = 1 .. Len(s) /\ \A i \in 1 .. Len(s) : s[i] \in S
  OBVIOUS
<1>2. s = [i \in 1 .. Len(s) |-> s[i]]
  BY <1>1
<1>3. \A i \in 1 .. Len(s) : s[i] \in ToSet(s)
  BY <1>1 DEF ToSet
<1>4. s \in [1 .. Len(s) -> ToSet(s)]
  BY <1>2, <1>3
<1> QED BY <1>1, <1>4, SeqDef DEF Listed

LEMMA ListedMap ==
    ASSUME NEW n \in Nat, NEW s, s = [i \in 1 .. n |-> s[i]]
    PROVE  Listed(s) /\ Len(s) = n /\ DOMAIN s = 1 .. n
<1>1. s \in Seq({s[i] : i \in 1 .. n}) /\ Len(s) = n
  <2> DEFINE S == {s[i] : i \in 1 .. n}
  <2>1. \A i \in 1 .. n : s[i] \in S
    OBVIOUS
  <2>2. s \in [1 .. n -> S]
    BY <2>1
  <2>3. s \in Seq(S)
    BY <2>2, SeqDef
  <2> HIDE DEF S
  <2>4. DOMAIN s = 1 .. Len(s) /\ Len(s) \in Nat /\ DOMAIN s = 1 .. n
    BY <2>2, <2>3
  <2>5. Len(s) = n
    BY <2>4
  <2> QED BY <2>3, <2>5 DEF S
<1> QED BY <1>1, ListedIn

LEMMA PrefixIs ==
    ASSUME NEW s, NEW t, Listed(s), Listed(t)
    PROVE  IsPrefix(s, t) <=> Begins(s, t)
<1>1. /\ Len(s) \in Nat /\ Len(t) \in Nat
      /\ DOMAIN s = 1 .. Len(s) /\ DOMAIN t = 1 .. Len(t)
  BY ListedIs
<1>2. SubSeq(s, 1, Len(s)) = [i \in 1 .. Len(s) |-> s[i]]
  BY <1>1 DEF Listed
<1>3. ASSUME Len(s) <= Len(t)
      PROVE  SubSeq(t, 1, Len(s)) = [i \in 1 .. Len(s) |-> t[i]]
  BY <1>1, <1>3 DEF Listed
<1> QED BY <1>1, <1>2, <1>3 DEF IsPrefix, Begins

-----------------------------------------------------------------------------
\* The elements of a set of positions, counted from the left.
LEMMA Ranks ==
    ASSUME NEW n \in Nat, NEW K \in SUBSET (1 .. n)
    PROVE  /\ Cardinality(K) \in Nat
           /\ \A i \in K : Cardinality(K \cap 1 .. i) \in 1 .. Cardinality(K)
           /\ \A i, j \in K : Cardinality(K \cap 1 .. i) = Cardinality(K \cap 1 .. j) => i = j
           /\ \A k \in 1 .. Cardinality(K) : \E i \in K : Cardinality(K \cap 1 .. i) = k
<1> DEFINE rank(i) == Cardinality(K \cap 1 .. i)
           T == 1 .. Cardinality(K)
           f == [i \in K |-> rank(i)]
<1>1. IsFiniteSet(K) /\ Cardinality(K) \in Nat
  <2>1. IsFiniteSet(1 .. n)
    BY FS_Interval
  <2> QED BY <2>1, FS_Subset, FS_CardinalityType
<1>2. ASSUME NEW i \in K
      PROVE  IsFiniteSet(K \cap 1 .. i) /\ rank(i) \in T
  <2>1. /\ IsFiniteSet(K \cap 1 .. i) /\ Cardinality(K \cap 1 .. i) \in Nat
        /\ Cardinality(K \cap 1 .. i) <= Cardinality(K)
    BY <1>1, FS_Subset, FS_CardinalityType
  <2>2. K \cap 1 .. i # {}
    OBVIOUS
  <2>3. Cardinality(K \cap 1 .. i) # 0
    BY <2>1, <2>2, FS_EmptySet
  <2> QED BY <1>1, <2>1, <2>3
<1>3. ASSUME NEW i \in K, NEW j \in K, i < j
      PROVE  rank(i) # rank(j)
  <2>1. K \cap 1 .. i \in SUBSET (K \cap 1 .. j) /\ K \cap 1 .. i # K \cap 1 .. j
    BY <1>3
  <2> QED BY <1>2, <2>1, FS_Subset
<1>4. \A i, j \in K : rank(i) = rank(j) => i = j
  <2>1. \A i, j \in K : i < j \/ j < i \/ i = j
    OBVIOUS
  <2> HIDE DEF rank
  <2> QED BY <1>3, <2>1
<1>5. f \in Injection(K, T)
  <2>1. f \in [K -> T] /\ \A i, j \in K : f[i] = f[j] => i = j
    BY <1>2, <1>4
  <2> QED BY <2>1 DEF Injection, IsInjective
<1>6. IsFiniteSet(T) /\ Cardinality(T) = Cardinality(K)
  BY <1>1, FS_Interval
<1> HIDE DEF f, T
<1>7. f \in Surjection(K, T)
  BY <1>1, <1>5, <1>6, FS_Injection
<1>8. \A k \in T : \E i \in K : f[i] = k
  BY <1>7 DEF Surjection
<1> QED BY <1>1, <1>2, <1>4, <1>8 DEF f, T

LEMMA LinesAre ==
    ASSUME NEW table, Listed(table.lines)
    PROVE  /\ Cardinality(FilledLines(table)) \in Nat
           /\ \A k \in 1 .. Cardinality(FilledLines(table)) :
                 /\ LineOf(table, k) \in FilledLines(table)
                 /\ Cardinality(FilledLines(table) \cap 1 .. LineOf(table, k)) = k
           /\ \A i \in FilledLines(table) :
                 LineOf(table, Cardinality(FilledLines(table) \cap 1 .. i)) = i
<1> DEFINE K == FilledLines(table)
<1>1. Len(table.lines) \in Nat /\ K \in SUBSET (1 .. Len(table.lines))
  BY ListedIs DEF FilledLines
<1> HIDE DEF K
<1>2. /\ Cardinality(K) \in Nat
      /\ \A i \in K : Cardinality(K \cap 1 .. i) \in 1 .. Cardinality(K)
      /\ \A i, j \in K : Cardinality(K \cap 1 .. i) = Cardinality(K \cap 1 .. j) => i = j
      /\ \A k \in 1 .. Cardinality(K) : \E i \in K : Cardinality(K \cap 1 .. i) = k
  BY <1>1, Ranks
<1>3. \A k : LineOf(table, k) = CHOOSE i \in K : Cardinality(K \cap 1 .. i) = k
  BY DEF LineOf, K
<1>4. ASSUME NEW k \in 1 .. Cardinality(K)
      PROVE  LineOf(table, k) \in K /\ Cardinality(K \cap 1 .. LineOf(table, k)) = k
  BY <1>2, <1>3
<1>5. ASSUME NEW i \in K
      PROVE  LineOf(table, Cardinality(K \cap 1 .. i)) = i
  BY <1>2, <1>4
<1> QED BY <1>2, <1>4, <1>5 DEF K

LEMMA FilledIs ==
    ASSUME NEW table, Listed(table.lines)
    PROVE  /\ Listed(Filled(table)) /\ Len(Filled(table)) = Cardinality(FilledLines(table))
           /\ DOMAIN Filled(table) = 1 .. Len(Filled(table)) /\ Len(Filled(table)) \in Nat
           /\ \A k \in 1 .. Len(Filled(table)) :
                 /\ Filled(table)[k] = table.lines[LineOf(table, k)]
                 /\ LineOf(table, k) \in FilledLines(table)
                 /\ LineOf(table, k) \in DOMAIN table.lines
<1> DEFINE n == Cardinality(FilledLines(table))
<1>1. n \in Nat /\ \A k \in 1 .. n : LineOf(table, k) \in FilledLines(table)
  BY LinesAre
<1>2. Filled(table) = [k \in 1 .. n |-> table.lines[LineOf(table, k)]]
  BY DEF Filled
<1> HIDE DEF n
<1>3. /\ Filled(table) = [k \in 1 .. n |-> Filled(table)[k]]
      /\ \A k \in 1 .. n : Filled(table)[k] = table.lines[LineOf(table, k)]
  BY <1>2
<1>4. Listed(Filled(table)) /\ Len(Filled(table)) = n /\ DOMAIN Filled(table) = 1 .. n
  BY <1>1, <1>3, ListedMap
<1>5. FilledLines(table) \subseteq DOMAIN table.lines
  BY DEF FilledLines
<1> QED BY <1>1, <1>3, <1>4, <1>5 DEF n

LEMMA FilledGrows ==
    ASSUME NEW t, NEW u, Listed(t.lines), Listed(u.lines), Begins(t.lines, u.lines)
    PROVE  Begins(Filled(t), Filled(u))
<1> DEFINE K == FilledLines(t)
           L == FilledLines(u)
<1>1. /\ Len(t.lines) \in Nat /\ Len(u.lines) \in Nat
      /\ DOMAIN t.lines = 1 .. Len(t.lines) /\ DOMAIN u.lines = 1 .. Len(u.lines)
  BY ListedIs
<1>2. K = L \cap 1 .. Len(t.lines)
  BY <1>1 DEF FilledLines, Begins
<1>3. K \in SUBSET L /\ L \in SUBSET (1 .. Len(u.lines))
  BY <1>1, <1>2 DEF FilledLines
<1>4. IsFiniteSet(L) /\ Cardinality(K) <= Cardinality(L) /\ Cardinality(K) \in Nat /\ Cardinality(L) \in Nat
  <2> HIDE DEF K, L
  <2>1. IsFiniteSet(1 .. Len(u.lines))
    BY <1>1, FS_Interval
  <2> QED BY <1>3, <2>1, FS_Subset, FS_CardinalityType
<1>5. ASSUME NEW k \in 1 .. Cardinality(K)
      PROVE  Filled(t)[k] = Filled(u)[k]
  <2>1. LineOf(t, k) \in K /\ Cardinality(K \cap 1 .. LineOf(t, k)) = k
    BY LinesAre
  <2> DEFINE i == LineOf(t, k)
  <2>2. i \in L /\ i \in 1 .. Len(t.lines) /\ K \cap 1 .. i = L \cap 1 .. i
    BY <1>1, <1>2, <2>1
  <2>3. LineOf(u, k) = i
    BY <2>1, <2>2, LinesAre
  <2>4. t.lines[i] = u.lines[i]
    BY <2>2 DEF Begins
  <2>5. k \in 1 .. Cardinality(L)
    BY <1>4
  <2> QED BY <2>3, <2>4, <2>5 DEF Filled
<1> QED BY <1>4, <1>5, FilledIs DEF Begins

-----------------------------------------------------------------------------
CellIn(table, line, c) ==
    LET k == CHOOSE k \in DOMAIN table.columns : table.columns[k] = c
    IN  IF k <= Len(line) THEN line[k] ELSE EmptyCell

LEMMA CsvRowsAre ==
    ASSUME NEW table, Listed(table.lines)
    PROVE  /\ Listed(CsvRows(table)) /\ Len(CsvRows(table)) = Len(Filled(table))
           /\ DOMAIN CsvRows(table) = 1 .. Len(Filled(table)) /\ Len(Filled(table)) \in Nat
           /\ \A i \in 1 .. Len(Filled(table)) :
                 /\ CsvRows(table)[i] =
                       [number |-> i + 1,
                        raw |-> [c \in ToSet(table.columns) |-> CellIn(table, Filled(table)[i], c)]]
                 /\ CsvRows(table)[i].number = i + 1
                 /\ CsvRows(table)[i].raw
                       = [c \in ToSet(table.columns) |-> CellIn(table, Filled(table)[i], c)]
<1>1. /\ DOMAIN Filled(table) = 1 .. Len(Filled(table))
      /\ Len(Filled(table)) \in Nat
  BY FilledIs
<1> DEFINE n == Len(Filled(table))
           R(i) == [c \in ToSet(table.columns) |-> CellIn(table, Filled(table)[i], c)]
<1>2. CsvRows(table) = [i \in 1 .. n |-> [number |-> i + 2 - 1, raw |-> R(i)]]
  BY <1>1 DEF CsvRows, Numbered, CellIn
<1> HIDE DEF n, R
<1>3. \A i \in 1 .. n : CsvRows(table)[i] = [number |-> i + 1, raw |-> R(i)]
  BY <1>1, <1>2 DEF n
<1>4. CsvRows(table) = [i \in 1 .. n |-> CsvRows(table)[i]]
  BY <1>2, <1>3
<1>5. Listed(CsvRows(table)) /\ Len(CsvRows(table)) = n /\ DOMAIN CsvRows(table) = 1 .. n
  BY <1>1, <1>4, ListedMap DEF n
<1> QED BY <1>1, <1>3, <1>5 DEF n, R

LEMMA RawAre ==
    ASSUME NEW table, Listed(table.lines), NEW format
    PROVE  /\ Listed(RawRecords(table, format)) /\ Len(RawRecords(table, format)) \in Nat
           /\ DOMAIN RawRecords(table, format) = 1 .. Len(RawRecords(table, format))
<1>1. CASE format = "csv"
  BY <1>1, CsvRowsAre DEF RawRecords
<1>2. CASE format # "csv"
  <2> DEFINE n == Len(table.lines)
             r == RawRecords(table, format)
  <2>1. n \in Nat /\ DOMAIN table.lines = 1 .. n
    BY ListedIs
  <2>2. r = [i \in 1 .. n |-> [number |-> i, raw |-> table.lines[i]]]
    BY <1>2, <2>1 DEF RawRecords, Numbered
  <2> HIDE DEF n, r
  <2>3. r = [i \in 1 .. n |-> r[i]]
    BY <2>2
  <2> QED BY <2>1, <2>3, ListedMap DEF r
<1> QED BY <1>1, <1>2

LEMMA RawGrows ==
    ASSUME NEW t, NEW u, Listed(t.lines), Listed(u.lines), Begins(t.lines, u.lines),
           t.columns = u.columns, NEW format
    PROVE  Begins(RawRecords(t, format), RawRecords(u, format))
<1>1. CASE format = "csv"
  <2>1. Begins(Filled(t), Filled(u))
    BY FilledGrows
  <2>2. ASSUME NEW i \in 1 .. Len(Filled(t))
        PROVE  CsvRows(t)[i] = CsvRows(u)[i]
    <3>1. Filled(t)[i] = Filled(u)[i] /\ i \in 1 .. Len(Filled(u))
      BY <2>1, CsvRowsAre DEF Begins
    <3>2. \A c : CellIn(t, Filled(t)[i], c) = CellIn(u, Filled(u)[i], c)
      BY <3>1 DEF CellIn
    <3>3. [c \in ToSet(t.columns) |-> CellIn(t, Filled(t)[i], c)]
             = [c \in ToSet(u.columns) |-> CellIn(u, Filled(u)[i], c)]
      BY <3>2
    <3>4. CsvRows(t)[i] = [number |-> i + 1,
                           raw |-> [c \in ToSet(t.columns) |-> CellIn(t, Filled(t)[i], c)]]
      BY CsvRowsAre
    <3>5. CsvRows(u)[i] = [number |-> i + 1,
                           raw |-> [c \in ToSet(u.columns) |-> CellIn(u, Filled(u)[i], c)]]
      BY <3>1, CsvRowsAre
    <3> QED BY <3>3, <3>4, <3>5
  <2> QED BY <1>1, <2>1, <2>2, CsvRowsAre DEF RawRecords, Begins
<1>2. CASE format # "csv"
  <2>1. /\ Len(t.lines) \in Nat /\ DOMAIN t.lines = 1 .. Len(t.lines)
        /\ Len(u.lines) \in Nat /\ DOMAIN u.lines = 1 .. Len(u.lines)
    BY ListedIs
  <2>2. /\ RawRecords(t, format) = [i \in 1 .. Len(t.lines) |-> [number |-> i + 1 - 1, raw |-> t.lines[i]]]
        /\ RawRecords(u, format) = [i \in 1 .. Len(u.lines) |-> [number |-> i + 1 - 1, raw |-> u.lines[i]]]
    BY <1>2, <2>1 DEF RawRecords, Numbered
  <2>3. /\ DOMAIN RawRecords(t, format) = 1 .. Len(t.lines)
        /\ DOMAIN RawRecords(u, format) = 1 .. Len(u.lines)
    BY <2>2
  <2>4. /\ Len(RawRecords(t, format)) = Len(t.lines)
        /\ Len(RawRecords(u, format)) = Len(u.lines)
    BY <2>1, <2>3, RawAre
  <2>5. ASSUME NEW i \in 1 .. Len(t.lines)
        PROVE  RawRecords(t, format)[i] = RawRecords(u, format)[i]
    BY <2>1, <2>2 DEF Begins
  <2> QED BY <2>4, <2>5 DEF Begins
<1> QED BY <1>1, <1>2

MappedRow(e, entity, table, format, i) ==
    Mapped(e, entity.fields, RawRecords(table, format)[i].raw)

\* The first row of a table that has no key.
FirstKeyless(e, entity, table, format, i) ==
    /\ i \in DOMAIN RawRecords(table, format)
    /\ ~HasKey(e, entity.primary_key, MappedRow(e, entity, table, format, i))
    /\ \A k \in 1 .. i - 1 : HasKey(e, entity.primary_key, MappedRow(e, entity, table, format, k))

Loads(e, entity, table, format) ==
    /\ Readable(table, format)
    /\ \A i \in DOMAIN RawRecords(table, format) :
          HasKey(e, entity.primary_key, MappedRow(e, entity, table, format, i))
    /\ RawRecords(table, format) # <<>> => IdField[e] \in DOMAIN entity.fields

LEMMA Least ==
    ASSUME NEW n \in Nat, NEW S \in SUBSET (1 .. n), S # {}
    PROVE  LET m == CHOOSE i \in S : \A k \in S : i <= k
           IN  m \in S /\ \A k \in S : m <= k
<1> DEFINE R == OpToRel(<, Nat)
<1>1. IsWellFoundedOn(R, Nat)
  BY NatLessThanWellFounded
<1>2. \A m \in Nat, k \in Nat : m < k => <<m, k>> \in R
  BY DEF R, OpToRel
<1>3. S \in SUBSET Nat
  OBVIOUS
<1> HIDE DEF R
<1>4. PICK i \in S : \A m \in S : ~(<<m, i>> \in R)
  BY <1>1, <1>3, WFMin
<1>5. ASSUME NEW k \in S PROVE i <= k
  <2>1. ~(k < i)
    BY <1>2, <1>3, <1>4
  <2> QED BY <1>3, <2>1
<1> QED BY <1>5

LEMMA LoadIs ==
    ASSUME NEW e, NEW entity, NEW table, Listed(table.lines), NEW format
    PROVE  LET result == LoadTable(e, entity, table, format)
               rows == RawRecords(table, format)
           IN  /\ result.ok \in BOOLEAN /\ (result.ok <=> Loads(e, entity, table, format))
               /\ result.ok =>
                     /\ result.failed = 0
                     /\ Listed(result.records) /\ Len(result.records) = Len(rows)
                     /\ DOMAIN result.records = 1 .. Len(rows)
                     /\ \A i \in 1 .. Len(rows) :
                           result.records[i]
                              = Build(e, MappedRow(e, entity, table, format, i), rows[i].number)
               /\ ~result.ok =>
                     /\ result.records = <<>>
                     /\ result.failed = 0
                        \/ \E i \in 1 .. Len(rows) :
                              /\ FirstKeyless(e, entity, table, format, i)
                              /\ result.failed = rows[i].number
               /\ Readable(table, format) =>
                     \A i \in 1 .. Len(rows) : FirstKeyless(e, entity, table, format, i) =>
                        result = Refuse(rows[i].number)
<1> DEFINE result == LoadTable(e, entity, table, format)
           rows == RawRecords(table, format)
           mapped == [i \in DOMAIN rows |-> Mapped(e, entity.fields, rows[i].raw)]
           keyless == {i \in DOMAIN rows : ~HasKey(e, entity.primary_key, mapped[i])}
           first == CHOOSE i \in keyless : \A k \in keyless : i <= k
           built == [i \in DOMAIN rows |-> Build(e, mapped[i], rows[i].number)]
<1>1. Len(rows) \in Nat /\ DOMAIN rows = 1 .. Len(rows)
  BY RawAre
<1>2. result = IF ~Readable(table, format) THEN Refuse(0)
               ELSE IF keyless # {} THEN Refuse(rows[first].number)
               ELSE IF rows # <<>> /\ IdField[e] \notin DOMAIN entity.fields THEN Refuse(0)
               ELSE [ok |-> TRUE, failed |-> 0, records |-> built]
  BY DEF LoadTable
<1>3. \A i \in DOMAIN rows : mapped[i] = MappedRow(e, entity, table, format, i)
  BY DEF MappedRow
<1> HIDE DEF mapped
<1>4. /\ DOMAIN built = 1 .. Len(rows) /\ Listed(built) /\ Len(built) = Len(rows)
      /\ \A i \in 1 .. Len(rows) :
            built[i] = Build(e, MappedRow(e, entity, table, format, i), rows[i].number)
  <2>1. built = [i \in 1 .. Len(rows) |-> built[i]]
    BY <1>1
  <2>2. \A i \in 1 .. Len(rows) :
            built[i] = Build(e, MappedRow(e, entity, table, format, i), rows[i].number)
    BY <1>1, <1>3
  <2> HIDE DEF built
  <2> QED BY <1>1, <2>1, <2>2, ListedMap
<1>5. ASSUME keyless # {}
      PROVE  first \in keyless /\ \A k \in keyless : first <= k
  <2>1. keyless \in SUBSET (1 .. Len(rows))
    BY <1>1
  <2> HIDE DEF keyless, rows
  <2> QED BY <1>1, <1>5, <2>1, Least
<1>6. keyless # {} => FirstKeyless(e, entity, table, format, first) /\ first \in 1 .. Len(rows)
  <2>1. ASSUME keyless # {}, NEW k \in 1 .. first - 1
        PROVE  HasKey(e, entity.primary_key, MappedRow(e, entity, table, format, k))
    <3>1. k \in DOMAIN rows /\ k \notin keyless
      BY <1>1, <1>5, <2>1
    <3> QED BY <1>3, <3>1
  <2> QED BY <1>1, <1>3, <1>5, <2>1 DEF FirstKeyless
<1>7. Loads(e, entity, table, format)
         <=> /\ Readable(table, format) /\ keyless = {}
             /\ rows # <<>> => IdField[e] \in DOMAIN entity.fields
  BY <1>3 DEF Loads
<1>8. ASSUME NEW i \in 1 .. Len(rows), FirstKeyless(e, entity, table, format, i)
      PROVE  keyless # {} /\ first = i
  <2>1. i \in keyless
    BY <1>1, <1>3, <1>8 DEF FirstKeyless
  <2>2. ASSUME NEW k \in keyless PROVE i <= k
    <3>1. k \in 1 .. Len(rows) /\ k \notin 1 .. i - 1
      BY <1>1, <1>3, <1>8 DEF FirstKeyless
    <3> QED BY <1>1, <3>1
  <2>3. first <= i /\ i <= first /\ first \in 1 .. Len(rows)
    BY <1>1, <1>5, <2>1, <2>2
  <2> QED BY <1>1, <2>1, <2>3
<1> HIDE DEF keyless, first, built
<1>9. ~Readable(table, format) =>
         /\ result = Refuse(0)
         /\ ~Loads(e, entity, table, format)
  BY <1>2, <1>7
<1>10. Readable(table, format) /\ keyless # {} =>
         /\ result = Refuse(rows[first].number)
         /\ ~Loads(e, entity, table, format)
  BY <1>2, <1>7
<1>11. Readable(table, format) /\ keyless = {} /\ ~Loads(e, entity, table, format) =>
         result = Refuse(0)
  BY <1>2, <1>7
<1>12. Loads(e, entity, table, format) => result = [ok |-> TRUE, failed |-> 0, records |-> built]
  BY <1>2, <1>7
<1>13. \A n : /\ Refuse(n).ok = FALSE /\ Refuse(n).failed = n /\ Refuse(n).records = <<>>
  BY DEF Refuse
<1> HIDE DEF result, rows
<1>14. result.ok \in BOOLEAN /\ (result.ok <=> Loads(e, entity, table, format))
  <2>1. CASE Loads(e, entity, table, format)
    <3>1. result.ok = TRUE
      BY <1>12, <2>1
    <3> QED BY <2>1, <3>1
  <2>2. CASE ~Loads(e, entity, table, format)
    <3>1. \E n : result = Refuse(n)
      BY <1>9, <1>10, <1>11, <2>2
    <3> QED BY <1>13, <2>2, <3>1
  <2> QED BY <2>1, <2>2
<1>15. ASSUME ~Loads(e, entity, table, format)
       PROVE  /\ result.records = <<>>
              /\ result.failed = 0
                 \/ \E i \in 1 .. Len(rows) :
                       FirstKeyless(e, entity, table, format, i) /\ result.failed = rows[i].number
  <2>1. CASE Readable(table, format) /\ keyless # {}
    BY <1>6, <1>10, <1>13, <2>1
  <2>2. CASE ~(Readable(table, format) /\ keyless # {})
    BY <1>9, <1>11, <1>13, <1>15, <2>2
  <2> QED BY <2>1, <2>2
<1>16. ASSUME Readable(table, format), NEW i \in 1 .. Len(rows), FirstKeyless(e, entity, table, format, i)
       PROVE  result = Refuse(rows[i].number)
  BY <1>8, <1>10, <1>16
<1>17. ASSUME Loads(e, entity, table, format)
       PROVE  /\ result.failed = 0
              /\ Listed(result.records) /\ Len(result.records) = Len(rows)
              /\ DOMAIN result.records = 1 .. Len(rows)
              /\ \A i \in 1 .. Len(rows) :
                    result.records[i]
                       = Build(e, MappedRow(e, entity, table, format, i), rows[i].number)
  BY <1>4, <1>12, <1>17
<1> QED BY <1>14, <1>15, <1>16, <1>17 DEF result, rows

LEMMA LoadGrows ==
    ASSUME NEW e, NEW entity, NEW t, NEW u, Listed(t.lines), Listed(u.lines),
           Begins(t.lines, u.lines), t.columns = u.columns, NEW format,
           LoadTable(e, entity, u, format).ok
    PROVE  /\ LoadTable(e, entity, t, format).ok
           /\ Begins(LoadTable(e, entity, t, format).records,
                     LoadTable(e, entity, u, format).records)
<1> DEFINE r == RawRecords(t, format)
           s == RawRecords(u, format)
<1>1. /\ Len(r) \in Nat /\ DOMAIN r = 1 .. Len(r)
      /\ Len(s) \in Nat /\ DOMAIN s = 1 .. Len(s)
  BY RawAre
<1>2. Len(r) <= Len(s) /\ \A i \in 1 .. Len(r) : r[i] = s[i]
  BY RawGrows DEF Begins
<1>3. \A i \in 1 .. Len(r) : i \in 1 .. Len(s)
  BY <1>1, <1>2
<1>4. \A i \in 1 .. Len(r) : MappedRow(e, entity, t, format, i) = MappedRow(e, entity, u, format, i)
  BY <1>2 DEF MappedRow
<1>5. Loads(e, entity, u, format)
  BY LoadIs
<1>6. Loads(e, entity, t, format)
  <2>1. Readable(t, format)
    <3>1. CASE format = "csv"
      BY <1>5, <3>1 DEF Loads, Readable
    <3>2. CASE format # "csv"
      <4>1. /\ Len(t.lines) \in Nat /\ DOMAIN t.lines = 1 .. Len(t.lines)
            /\ Len(u.lines) \in Nat /\ DOMAIN u.lines = 1 .. Len(u.lines)
        BY ListedIs
      <4>2. ToSet(t.lines) \subseteq ToSet(u.lines)
        BY <4>1 DEF ToSet, Begins
      <4> QED BY <1>5, <3>2, <4>2 DEF Loads, Readable
    <3> QED BY <3>1, <3>2
  <2>2. r # <<>> => s # <<>>
    <3>1. CASE r # <<>>
      <4>1. Len(r) # 0
        BY <1>1, <3>1, RawAre DEF Listed
      <4>2. 1 \in DOMAIN s
        BY <1>1, <1>2, <4>1
      <4> QED BY <4>2
    <3> QED BY <3>1
  <2> QED BY <1>1, <1>3, <1>4, <1>5, <2>1, <2>2 DEF Loads
<1>7. LoadTable(e, entity, t, format).ok
  BY <1>6, LoadIs
<1> DEFINE p == LoadTable(e, entity, t, format).records
           q == LoadTable(e, entity, u, format).records
<1>8. /\ Len(p) = Len(r) /\ Len(q) = Len(s)
      /\ \A i \in 1 .. Len(r) : p[i] = Build(e, MappedRow(e, entity, t, format, i), r[i].number)
      /\ \A i \in 1 .. Len(s) : q[i] = Build(e, MappedRow(e, entity, u, format, i), s[i].number)
  BY <1>7, LoadIs
<1> HIDE DEF p, q, r, s
<1>9. \A i \in 1 .. Len(p) : p[i] = q[i]
  BY <1>2, <1>3, <1>4, <1>8
<1> QED BY <1>2, <1>7, <1>8, <1>9 DEF Begins, p, q

\* What the reading of an entity gave.
ResultOf(e) ==
    IF command.input = "objects_csv" THEN SimpleLoad(seen[e])
    ELSE LoadTable(e, command.mapping[e], seen[e], command.format)

Shaped(d) == d = [f \in DOMAIN began |-> [columns |-> began[f].columns, lines |-> d[f].lines]]

\* The export only grows, line by line.
Growing ==
    /\ command \in Commands /\ began = command.disk
    /\ added \in Nat
    /\ Shaped(disk)
    /\ \A f \in DOMAIN began :
          /\ Listed(began[f].lines) /\ Listed(disk[f].lines)
          /\ command.format = "csv" => disk[f].lines \in Seq(Seq(Cell))
          /\ Begins(began[f].lines, disk[f].lines)
          /\ Len(disk[f].lines) - Len(began[f].lines) <= added

\* What was read is the export of some moment since.
ReadFrom(e) ==
    /\ e \in DOMAIN command.mapping
    /\ command.mapping[e].file \in DOMAIN began
    /\ LET f == command.mapping[e].file
       IN  /\ Listed(seen[e].lines) /\ seen[e].columns = began[f].columns
           /\ command.format = "csv" => seen[e].lines \in Seq(Seq(Cell))
           /\ Begins(began[f].lines, seen[e].lines)
           /\ Begins(seen[e].lines, disk[f].lines)
    /\ loaded[e] = ResultOf(e).records

\* The load is at the first table that is not read or was refused.
Position(p) ==
    /\ Order[p] \in DOMAIN seen =>
          \/ p < at /\ ResultOf(Order[p]).ok
          \/ /\ p = at /\ status = "refused"
             /\ ~ResultOf(Order[p]).ok /\ failed = ResultOf(Order[p]).failed
    /\ Order[p] \notin DOMAIN seen =>
          /\ loaded[Order[p]] = <<>>
          /\ p < at => Order[p] \notin DOMAIN command.mapping

Reading ==
    /\ at \in 1 .. Hashing /\ (status = "done" => at = Hashing)
    /\ loaded = [e \in ToSet(Order) |-> loaded[e]]
    /\ DOMAIN seen \subseteq ToSet(Order)
    /\ \A e \in DOMAIN seen : ReadFrom(e)
    /\ \A p \in 1 .. Len(Order) : Position(p)

Hashed ==
    status = "done" =>
        /\ DOMAIN manifest = InputFiles \cap DOMAIN began
        /\ \A f \in DOMAIN manifest :
              /\ Listed(manifest[f].lines)
              /\ Len(manifest[f].lines) - Len(began[f].lines) <= added
        /\ \A e \in DOMAIN seen : Begins(seen[e].lines, manifest[command.mapping[e].file].lines)

\* The rights named by the objects and the media read so far.
Named == RightsNamed(loaded["objects"], loaded["media"])

\* They stay good in the table of the rights, unless it becomes unreadable.
RightsHold ==
    LET entity == command.mapping["rights"]
        result == LoadTable("rights", entity, disk[entity.file], command.format)
    IN  "rights" \notin DOMAIN seen /\ entity.file \in DOMAIN disk /\ result.ok =>
            Named \subseteq CellsOf(result.records, "rights_id")

References ==
    SoundExport(began) =>
        /\ SoundExport(disk)
        /\ RightsHold
        /\ "rights" \in DOMAIN seen /\ ResultOf("rights").ok =>
              Named \subseteq CellsOf(loaded["rights"], "rights_id")

IngestionInv == Growing /\ Reading /\ Hashed /\ References

LEMMA FivePositions ==
    /\ Len(Order) = 5 /\ Hashing = 6
    /\ \A p \in 1 .. 5 : Order[p] \in ToSet(Order)
    /\ \A e \in ToSet(Order) : \E p \in 1 .. 5 : Order[p] = e
    /\ \A p, q \in 1 .. 5 : Order[p] = Order[q] => p = q
    /\ Order[1] = "objects" /\ Order[2] = "media" /\ Order[3] = "rights"
<1>1. Len(Order) = 5 /\ DOMAIN Order = 1 .. 5
  BY DEF Order
<1>2. \A p \in 1 .. 5 : p = 1 \/ p = 2 \/ p = 3 \/ p = 4 \/ p = 5
  OBVIOUS
<1>3. /\ Order[1] = "objects" /\ Order[2] = "media" /\ Order[3] = "rights"
      /\ Order[4] = "locations" /\ Order[5] = "agents"
  BY DEF Order
<1>4. ToSet(Order) = {Order[p] : p \in 1 .. 5}
  BY <1>1 DEF ToSet
<1>5. \A p, q \in 1 .. 5 : Order[p] = Order[q] => p = q
  BY <1>2, <1>3
<1> QED BY <1>1, <1>3, <1>4, <1>5 DEF Hashing

\* What reading it now would give.
Outcome(e) ==
    LET table == disk[command.mapping[e].file]
    IN  IF command.input = "objects_csv" THEN SimpleLoad(table)
        ELSE LoadTable(e, command.mapping[e], table, command.format)

\* The ways a table is passed over, missed or read.
ReadStep(e) ==
    LET f == command.mapping[e].file
    IN  \/ /\ e \notin DOMAIN command.mapping
           /\ UNCHANGED <<loaded, failed, seen>>
           /\ \/ status' = "refused" /\ at' = at
              \/ status' = status /\ at' = at + 1
        \/ /\ e \in DOMAIN command.mapping /\ f \notin DOMAIN disk
           /\ loaded' = [loaded EXCEPT ![e] = <<>>] /\ seen' = seen
           /\ status' = "refused" /\ at' = at
        \/ /\ e \in DOMAIN command.mapping /\ f \in DOMAIN disk
           /\ loaded' = [loaded EXCEPT ![e] = Outcome(e).records]
           /\ failed' = Outcome(e).failed
           /\ DOMAIN seen' = DOMAIN seen \cup {e}
           /\ seen'[e] = disk[f] /\ \A d \in DOMAIN seen \ {e} : seen'[d] = seen[d]
           /\ \/ ~Outcome(e).ok /\ status' = "refused" /\ at' = at
              \/ /\ Outcome(e).ok /\ status' = status
                 /\ at' = at + 1 \/ (at' = Hashing /\ DOMAIN command.mapping = {"objects"})

LEMMA LoadSteps ==
    ASSUME Growing, Reading, LoadMapped \/ LoadObjectsCsv
    PROVE  /\ at \in 1 .. 5 /\ status = "run" /\ Order[at] \notin DOMAIN seen
           /\ ReadStep(Order[at])
           /\ UNCHANGED <<command, disk, added, began, manifest>>
<1> DEFINE e == Order[at]
           f == command.mapping[e].file
<1>1. at \in 1 .. 5 /\ status = "run"
  BY FivePositions DEF LoadMapped, LoadObjectsCsv, LoadEntity, Reading
<1>2. e \notin DOMAIN seen
  <2>1. Position(at)
    BY <1>1, FivePositions DEF Reading
  <2> QED BY <1>1, <2>1 DEF Position
<1>3. UNCHANGED <<command, disk, added, began, manifest>>
  BY DEF LoadMapped, LoadObjectsCsv, LoadEntity
<1>4. \A n : /\ Refuse(n).ok = FALSE /\ Refuse(n).failed = n /\ Refuse(n).records = <<>>
  BY DEF Refuse
<1> SUFFICES ReadStep(e)
  BY <1>1, <1>2, <1>3
<1>5. CASE LoadMapped
  <2>1. CASE e \notin DOMAIN command.mapping
    <3>1. /\ IF e = "objects" THEN status' = "refused" /\ UNCHANGED at
             ELSE at' = at + 1 /\ UNCHANGED status
          /\ UNCHANGED <<loaded, failed, seen>>
      BY <1>5, <2>1 DEF LoadMapped, LoadEntity
    <3> QED BY <2>1, <3>1 DEF ReadStep
  <2>2. CASE e \in DOMAIN command.mapping /\ f \notin DOMAIN disk
    <3>1. /\ loaded' = [loaded EXCEPT ![e] = Refuse(0).records]
          /\ seen' = seen
          /\ IF Refuse(0).ok THEN at' = at + 1 /\ UNCHANGED status
             ELSE status' = "refused" /\ UNCHANGED at
      BY <1>5, <2>2 DEF LoadMapped, LoadEntity
    <3> QED BY <1>4, <2>2, <3>1 DEF ReadStep
  <2>3. CASE e \in DOMAIN command.mapping /\ f \in DOMAIN disk
    <3> DEFINE result == LoadTable(e, command.mapping[e], disk[f], command.format)
    <3>1. /\ loaded' = [loaded EXCEPT ![e] = result.records]
          /\ failed' = result.failed
          /\ seen' = [d \in DOMAIN seen \cup {e} |-> IF d = e THEN disk[f] ELSE seen[d]]
          /\ IF result.ok THEN at' = at + 1 /\ UNCHANGED status
             ELSE status' = "refused" /\ UNCHANGED at
      BY <1>5, <2>3 DEF LoadMapped, LoadEntity
    <3>2. /\ DOMAIN seen' = DOMAIN seen \cup {e} /\ seen'[e] = disk[f]
          /\ \A d \in DOMAIN seen \ {e} : seen'[d] = seen[d]
      BY <3>1
    <3>3. command.input # "objects_csv"
      BY <1>5 DEF LoadMapped
    <3> HIDE DEF result
    <3>4. \/ ~result.ok /\ status' = "refused" /\ at' = at
          \/ result.ok /\ status' = status /\ at' = at + 1
      BY <3>1
    <3>5. result = Outcome(e)
      BY <3>3 DEF Outcome, result
    <3>6. /\ loaded' = [loaded EXCEPT ![e] = Outcome(e).records]
          /\ failed' = Outcome(e).failed
      BY <3>1, <3>5
    <3>7. \/ ~Outcome(e).ok /\ status' = "refused" /\ at' = at
          \/ Outcome(e).ok /\ status' = status /\ at' = at + 1
      BY <3>4, <3>5
    <3> HIDE DEF e
    <3> QED BY <2>3, <3>2, <3>6, <3>7 DEF ReadStep
  <2> QED BY <2>1, <2>2, <2>3
<1>6. CASE LoadObjectsCsv
  <2>1. at = 1 /\ e = "objects" /\ command.input = "objects_csv"
    BY <1>6, FivePositions DEF LoadObjectsCsv
  <2>2. command \in Commands /\ DOMAIN command.mapping = {"objects"}
    BY <2>1, CommandsAssumption DEF Growing
  <2>3. seen = [x \in {} |-> x] \/ DOMAIN seen = {}
    <3>1. DOMAIN seen \subseteq {"objects"}
      BY <2>2 DEF Reading, ReadFrom
    <3> QED BY <1>2, <2>1, <3>1
  <2>4. f = command.mapping.objects.file
    BY <2>1
  <2>5. CASE f \notin DOMAIN disk
    <3>1. /\ loaded' = [loaded EXCEPT !["objects"] = Refuse(0).records]
          /\ seen' = seen
          /\ IF Refuse(0).ok THEN at' = Hashing /\ UNCHANGED status
             ELSE status' = "refused" /\ UNCHANGED at
      BY <1>6, <2>4, <2>5 DEF LoadObjectsCsv
    <3> QED BY <1>4, <2>1, <2>2, <2>5, <3>1 DEF ReadStep
  <2>6. CASE f \in DOMAIN disk
    <3> DEFINE result == SimpleLoad(disk[f])
    <3>1. /\ loaded' = [loaded EXCEPT !["objects"] = result.records]
          /\ failed' = result.failed
          /\ seen' = [objects |-> disk[f]]
          /\ IF result.ok THEN at' = Hashing /\ UNCHANGED status
             ELSE status' = "refused" /\ UNCHANGED at
      BY <1>6, <2>4, <2>6 DEF LoadObjectsCsv
    <3>2. DOMAIN seen' = DOMAIN seen \cup {e} /\ seen'[e] = disk[f]
      BY <2>1, <2>3, <3>1
    <3>3. \A d \in DOMAIN seen \ {e} : seen'[d] = seen[d]
      BY <2>3
    <3> HIDE DEF result
    <3>4. \/ ~result.ok /\ status' = "refused" /\ at' = at
          \/ result.ok /\ status' = status /\ at' = Hashing
      BY <3>1
    <3>5. result = Outcome(e)
      BY <2>1 DEF Outcome, result
    <3> QED BY <2>1, <2>2, <2>6, <3>1, <3>2, <3>3, <3>4, <3>5 DEF ReadStep
  <2> QED BY <2>5, <2>6
<1> QED BY <1>5, <1>6

LEMMA BeginsSelf == ASSUME NEW s PROVE Len(s) \in Nat => Begins(s, s)
BY DEF Begins

LEMMA BeginsTrans ==
    ASSUME NEW s, NEW t, NEW u, Len(s) \in Nat, Len(t) \in Nat, Len(u) \in Nat,
           Begins(s, t), Begins(t, u)
    PROVE  Begins(s, u)
BY DEF Begins

LEMMA AppendGrows ==
    ASSUME NEW s, Listed(s), NEW l
    PROVE  Listed(Append(s, l)) /\ Len(Append(s, l)) = Len(s) + 1 /\ Begins(s, Append(s, l))
<1> DEFINE S == ToSet(s) \cup {l}
<1>1. s \in Seq(S) /\ l \in S
  BY DEF Listed
<1> HIDE DEF S
<1>2. Append(s, l) \in Seq(S) /\ Len(Append(s, l)) = Len(s) + 1 /\ Len(s) \in Nat
  BY <1>1
<1>3. \A i \in 1 .. Len(s) : Append(s, l)[i] = s[i]
  BY <1>1
<1>4. Listed(Append(s, l))
  <2> HIDE DEF Listed
  <2> DEFINE t == Append(s, l)
  <2>1. t \in Seq(S)
    BY <1>2
  <2> HIDE DEF t
  <2>2. Listed(t)
    BY <2>1, ListedIn
  <2> QED BY <2>2 DEF t
<1> QED BY <1>2, <1>3, <1>4 DEF Begins

\* Whatever is added, every file grows by a line at most and keeps its header.
LEMMA AddSteps ==
    ASSUME Growing, Add
    PROVE  /\ UNCHANGED <<command, at, status, loaded, failed, seen, began, manifest>>
           /\ added' = added + 1 /\ SoundExport(disk')
           /\ Shaped(disk')
           /\ \A f \in DOMAIN began :
                 /\ Listed(disk'[f].lines) /\ Begins(disk[f].lines, disk'[f].lines)
                 /\ Len(disk'[f].lines) <= Len(disk[f].lines) + 1
                 /\ disk'[f].columns = disk[f].columns
                 /\ command.format = "csv" => disk'[f].lines \in Seq(Seq(Cell))
<1>0. PICK f \in DOMAIN disk \cap DOMAIN NewLines :
         \E l \in NewLines[f] : disk' = [disk EXCEPT ![f].lines = Append(@, l)]
  BY DEF Add
<1>1. PICK l \in NewLines[f] : disk' = [disk EXCEPT ![f].lines = Append(@, l)]
  BY <1>0
<1>2. f \in DOMAIN began /\ f \in DOMAIN NewLines /\ DOMAIN disk = DOMAIN began
  BY DEF Growing, Shaped
<1>5. \A g \in DOMAIN began :
         disk[g] = [columns |-> began[g].columns, lines |-> disk[g].lines]
  BY DEF Growing, Shaped
<1>9. disk = [g \in DOMAIN began |-> disk[g]]
  BY <1>5 DEF Growing, Shaped
<1>10. disk' = [g \in DOMAIN began |-> IF g = f THEN [disk[f] EXCEPT !.lines = Append(disk[f].lines, l)]
                                      ELSE disk[g]]
  BY <1>1, <1>9
<1>11. [disk[f] EXCEPT !.lines = Append(disk[f].lines, l)]
         = [columns |-> began[f].columns, lines |-> Append(disk[f].lines, l)]
  <2>1. disk[f] = [columns |-> began[f].columns, lines |-> disk[f].lines]
    BY <1>2, <1>5
  <2> QED BY <2>1
<1>3. /\ disk'[f] = [columns |-> began[f].columns, lines |-> Append(disk[f].lines, l)]
      /\ \A g \in DOMAIN began \ {f} : disk'[g] = disk[g]
      /\ DOMAIN disk' = DOMAIN began
      /\ disk' = [g \in DOMAIN began |-> disk'[g]]
  BY <1>2, <1>10, <1>11
<1>4. /\ UNCHANGED <<command, at, status, loaded, failed, seen, began, manifest>>
      /\ added' = added + 1 /\ SoundExport(disk')
  BY DEF Add
<1>6. ASSUME NEW g \in DOMAIN began
      PROVE  disk'[g] = [columns |-> began[g].columns, lines |-> disk'[g].lines]
  <2>1. CASE g = f
    BY <1>3, <2>1
  <2>2. CASE g # f
    <3>1. disk'[g] = disk[g]
      BY <1>3, <2>2
    <3> QED BY <1>5, <3>1
  <2> QED BY <2>1, <2>2
<1>7. ASSUME NEW g \in DOMAIN began
      PROVE  /\ Listed(disk'[g].lines) /\ Begins(disk[g].lines, disk'[g].lines)
             /\ Len(disk'[g].lines) <= Len(disk[g].lines) + 1
             /\ disk'[g].columns = disk[g].columns
             /\ command.format = "csv" => disk'[g].lines \in Seq(Seq(Cell))
  <2>1. Listed(disk[g].lines) /\ Len(disk[g].lines) \in Nat
    BY ListedIs DEF Growing
  <2>2. CASE g # f
    <3>1. disk'[g] = disk[g]
      BY <1>3, <2>2
    <3> QED BY <2>1, <3>1, BeginsSelf DEF Growing
  <2>3. CASE g = f
    <3>1. disk'[g].lines = Append(disk[g].lines, l)
      BY <1>3, <2>3
    <3>2. command.format = "csv" => disk'[g].lines \in Seq(Seq(Cell))
      <4> SUFFICES ASSUME command.format = "csv" PROVE disk'[g].lines \in Seq(Seq(Cell))
        OBVIOUS
      <4>1. l \in Seq(Cell)
        BY <1>1, <1>2, CommandsAssumption DEF Growing
      <4>2. disk[g].lines \in Seq(Seq(Cell))
        BY DEF Growing
      <4> QED BY <3>1, <4>1, <4>2
    <3>3. disk'[g].columns = disk[g].columns
      <4> DEFINE b == began[g].columns
                 r == disk[g]
                 s == disk'[g]
                 m == disk[g].lines
                 n == disk'[g].lines
      <4>1. r = [columns |-> b, lines |-> m] /\ s = [columns |-> b, lines |-> n]
        BY <1>5, <1>6
      <4> HIDE DEF b, r, s, m, n
      <4>2. r.columns = s.columns
        BY <4>1
      <4> USE DEF b, r, s, m, n
      <4> QED BY <4>2
    <3> QED BY <2>1, <3>1, <3>2, <3>3, AppendGrows
  <2> QED BY <2>2, <2>3
<1>8. Shaped(disk')
  BY <1>3, <1>6 DEF Shaped
<1> QED BY <1>4, <1>7, <1>8

LEMMA GrowingStep ==
    ASSUME Growing, Reading, [Next]_vars
    PROVE  Growing'
<1>1. CASE UNCHANGED <<command, disk, added, began>>
  <2>1. /\ command' = command /\ disk' = disk /\ added' = added /\ began' = began
    BY <1>1
  <2> QED BY <2>1 DEF Growing, Shaped
<1>2. CASE Add
  <2>1. \A f \in DOMAIN began :
           /\ Len(began[f].lines) \in Nat /\ Len(disk[f].lines) \in Nat
           /\ Listed(disk'[f].lines) /\ Len(disk'[f].lines) \in Nat
    BY <1>2, AddSteps, ListedIs DEF Growing
  <2>2. ASSUME NEW f \in DOMAIN began
        PROVE  /\ Begins(began[f].lines, disk'[f].lines)
               /\ Len(disk'[f].lines) - Len(began[f].lines) <= added'
    <3>1. /\ Begins(began[f].lines, disk[f].lines) /\ Begins(disk[f].lines, disk'[f].lines)
          /\ Len(disk[f].lines) - Len(began[f].lines) <= added /\ added \in Nat
          /\ Len(disk'[f].lines) <= Len(disk[f].lines) + 1 /\ added' = added + 1
      BY <1>2, AddSteps DEF Growing
    <3>2. Begins(began[f].lines, disk'[f].lines)
      BY <2>1, <3>1, BeginsTrans
    <3>3. Len(began[f].lines) \in Nat /\ Len(disk[f].lines) \in Nat /\ Len(disk'[f].lines) \in Nat
      BY <2>1
    <3>4. Len(disk'[f].lines) - Len(began[f].lines) <= added'
      <4> DEFINE b == Len(began[f].lines)
                 m == Len(disk[f].lines)
                 n == Len(disk'[f].lines)
      <4>1. /\ b \in Nat /\ m \in Nat /\ n \in Nat /\ added \in Nat
            /\ m - b <= added /\ n <= m + 1 /\ added' = added + 1
        BY <3>1, <3>3
      <4> HIDE DEF b, m, n
      <4>2. n - b <= added'
        BY <4>1
      <4> QED BY <4>2 DEF b, n
    <3> QED BY <3>2, <3>4
  <2>3. command' = command /\ began' = began /\ added' \in Nat
    <3>1. command' = command /\ began' = began /\ added' = added + 1
      BY <1>2, AddSteps
    <3>2. added \in Nat
      BY DEF Growing
    <3> QED BY <3>1, <3>2
  <2> QED BY <1>2, <2>1, <2>2, <2>3, AddSteps DEF Growing, Shaped
<1> QED BY <1>1, <1>2, LoadSteps DEF Next, HashInputs, vars

LEMMA SameResult ==
    ASSUME NEW d, command' = command, seen'[d] = seen[d]
    PROVE  ResultOf(d)' = ResultOf(d)
BY DEF ResultOf

LEMMA SameRead ==
    ASSUME Growing, NEW d, ReadFrom(d),
           command' = command, began' = began, seen'[d] = seen[d], loaded'[d] = loaded[d],
           \A f \in DOMAIN began : Listed(disk'[f].lines) /\ Begins(disk[f].lines, disk'[f].lines)
    PROVE  ReadFrom(d)'
<1> DEFINE f == command.mapping[d].file
<1>1. ResultOf(d)' = ResultOf(d)
  BY SameResult
<1>2. /\ f \in DOMAIN began /\ Listed(seen[d].lines) /\ Listed(disk[f].lines) /\ Listed(disk'[f].lines)
      /\ Begins(seen[d].lines, disk[f].lines) /\ Begins(disk[f].lines, disk'[f].lines)
  BY DEF Growing, ReadFrom
<1>3. Begins(seen[d].lines, disk'[f].lines)
  BY <1>2, ListedIs, BeginsTrans
<1> QED BY <1>1, <1>3 DEF ReadFrom

LEMMA DiskOnlyGrows ==
    ASSUME Growing, [Next]_vars, Reading
    PROVE  /\ command' = command /\ began' = began
           /\ \A f \in DOMAIN began : Listed(disk'[f].lines) /\ Begins(disk[f].lines, disk'[f].lines)
<1>1. CASE Add
  BY <1>1, AddSteps
<1>2. CASE ~Add
  <2>1. UNCHANGED <<command, disk, began>>
    BY <1>2, LoadSteps DEF Next, HashInputs, vars
  <2>2. \A f \in DOMAIN began : Listed(disk[f].lines) /\ Begins(disk[f].lines, disk[f].lines)
    BY ListedIs, BeginsSelf DEF Growing
  <2> QED BY <2>1, <2>2
<1> QED BY <1>1, <1>2

\* A table that is read now is the export of now.
LEMMA ReadNow ==
    ASSUME Growing, Reading, NEW e \in ToSet(Order), NEW f, f = command.mapping[e].file,
           e \in DOMAIN command.mapping, f \in DOMAIN disk,
           command' = command, began' = began, disk' = disk,
           seen'[e] = disk[f], loaded' = [loaded EXCEPT ![e] = Outcome(e).records]
    PROVE  ReadFrom(e)' /\ ResultOf(e)' = Outcome(e)
<1>1. ResultOf(e)' = Outcome(e)
  BY DEF ResultOf, Outcome
<1>2. DOMAIN disk = DOMAIN began
  BY DEF Growing, Shaped
<1>3. /\ Listed(disk[f].lines) /\ Begins(began[f].lines, disk[f].lines)
      /\ command.format = "csv" => disk[f].lines \in Seq(Seq(Cell))
  BY <1>2 DEF Growing
<1>4. disk[f].columns = began[f].columns
  <2> DEFINE b == began[f].columns
             r == disk[f]
             m == disk[f].lines
  <2>1. r = [columns |-> b, lines |-> m]
    BY <1>2 DEF Growing, Shaped
  <2> HIDE DEF b, r, m
  <2>2. r.columns = b
    BY <2>1
  <2> QED BY <2>2 DEF r, b
<1>5. loaded'[e] = Outcome(e).records
  BY DEF Reading
<1>6. Begins(disk[f].lines, disk[f].lines)
  BY <1>3, ListedIs, BeginsSelf
<1> QED BY <1>1, <1>2, <1>3, <1>4, <1>5, <1>6 DEF ReadFrom

LEMMA ReadingLoad ==
    ASSUME Growing, Reading, LoadMapped \/ LoadObjectsCsv
    PROVE  Reading'
<1>9. PICK e : e = Order[at]
  OBVIOUS
<1>10. PICK f : f = command.mapping[e].file
  OBVIOUS
<1>1. /\ at \in 1 .. 5 /\ status = "run" /\ e \notin DOMAIN seen /\ ReadStep(e)
      /\ command' = command /\ disk' = disk /\ began' = began
  BY <1>9, LoadSteps
<1>2. /\ e \in ToSet(Order) /\ Len(Order) = 5 /\ Hashing = 6
      /\ \A p \in 1 .. 5 : Order[p] = e => p = at
  BY <1>1, <1>9, FivePositions
<1>3. \A g \in DOMAIN began : Listed(disk'[g].lines) /\ Begins(disk[g].lines, disk'[g].lines)
  BY DiskOnlyGrows DEF Next
<1>4. ASSUME NEW p \in 1 .. 5
      PROVE  /\ Order[p] \in DOMAIN seen => p < at /\ ResultOf(Order[p]).ok /\ Order[p] # e
             /\ Order[p] \notin DOMAIN seen =>
                   loaded[Order[p]] = <<>> /\ (p < at => Order[p] \notin DOMAIN command.mapping)
  BY <1>1, <1>2 DEF Reading, Position
<1>5. loaded = [d \in ToSet(Order) |-> loaded[d]]
  BY DEF Reading
<1>6. CASE e \notin DOMAIN command.mapping
  <2>1. /\ loaded' = loaded /\ failed' = failed /\ seen' = seen
        /\ (status' = "refused" /\ at' = at) \/ (status' = "run" /\ at' = at + 1)
    BY <1>1, <1>6 DEF ReadStep
  <2>2. ASSUME NEW d \in DOMAIN seen' PROVE ReadFrom(d)'
    BY <1>1, <1>3, <2>1, <2>2, SameRead DEF Reading
  <2>3. ASSUME NEW p \in 1 .. 5 PROVE Position(p)'
    <3>1. Order[p] \in DOMAIN seen => p < at' /\ ResultOf(Order[p])'.ok
      BY <1>1, <1>4, <2>1, SameResult
    <3>2. Order[p] \notin DOMAIN seen /\ p < at' => Order[p] \notin DOMAIN command.mapping
      <4>1. p < at' => p < at \/ p = at
        BY <1>1, <2>1
      <4> QED BY <1>1, <1>4, <1>6, <1>9, <4>1
    <3> QED BY <1>1, <1>4, <2>1, <3>1, <3>2 DEF Position
  <2> QED BY <1>1, <1>2, <1>5, <2>1, <2>2, <2>3 DEF Reading
<1>7. CASE e \in DOMAIN command.mapping /\ f \notin DOMAIN disk
  <2>1. /\ loaded' = [loaded EXCEPT ![e] = <<>>] /\ seen' = seen
        /\ status' = "refused" /\ at' = at
    BY <1>1, <1>7, <1>10 DEF ReadStep
  <2>2. /\ loaded' = [d \in ToSet(Order) |-> loaded'[d]]
        /\ loaded'[e] = <<>> /\ \A d \in ToSet(Order) \ {e} : loaded'[d] = loaded[d]
    BY <1>2, <1>5, <2>1
  <2>3. ASSUME NEW d \in DOMAIN seen' PROVE ReadFrom(d)'
    <3>1. d \in ToSet(Order) \ {e}
      BY <1>1, <2>1 DEF Reading
    <3>2. loaded'[d] = loaded[d]
      BY <2>2, <3>1
    <3> QED BY <1>1, <1>3, <2>1, <2>3, <3>2, SameRead DEF Reading
  <2>4. ASSUME NEW p \in 1 .. 5 PROVE Position(p)'
    <3>1. Order[p] \in DOMAIN seen => p < at' /\ ResultOf(Order[p])'.ok
      BY <1>1, <1>4, <2>1, SameResult
    <3>2. Order[p] \notin DOMAIN seen => loaded'[Order[p]] = <<>>
      BY <1>4, <2>2, FivePositions
    <3> QED BY <1>1, <1>4, <2>1, <3>1, <3>2 DEF Position
  <2> QED BY <1>1, <1>2, <2>1, <2>2, <2>3, <2>4 DEF Reading
<1>8. CASE e \in DOMAIN command.mapping /\ f \in DOMAIN disk
  <2>1. /\ loaded' = [loaded EXCEPT ![e] = Outcome(e).records]
        /\ failed' = Outcome(e).failed
        /\ DOMAIN seen' = DOMAIN seen \cup {e}
        /\ seen'[e] = disk[f] /\ \A d \in DOMAIN seen \ {e} : seen'[d] = seen[d]
    BY <1>1, <1>8, <1>10 DEF ReadStep
  <2>2. \/ ~Outcome(e).ok /\ status' = "refused" /\ at' = at
        \/ /\ Outcome(e).ok /\ status' = "run"
           /\ at' = at + 1 \/ (at' = 6 /\ DOMAIN command.mapping = {"objects"})
    BY <1>1, <1>2, <1>8, <1>10 DEF ReadStep
  <2>3. /\ loaded' = [d \in ToSet(Order) |-> loaded'[d]]
        /\ \A d \in ToSet(Order) \ {e} : loaded'[d] = loaded[d]
    BY <1>2, <1>5, <2>1
  <2>4. ReadFrom(e)' /\ ResultOf(e)' = Outcome(e)
    BY <1>1, <1>2, <1>8, <2>1, <1>10, ReadNow
  <2>5. ASSUME NEW d \in DOMAIN seen' PROVE ReadFrom(d)'
    <3>1. CASE d = e
      BY <2>4, <3>1
    <3>2. CASE d # e
      <4>1. d \in DOMAIN seen /\ d \in ToSet(Order) \ {e} /\ ReadFrom(d)
        BY <2>1, <3>2 DEF Reading
      <4>2. loaded'[d] = loaded[d] /\ seen'[d] = seen[d]
        BY <2>1, <2>3, <4>1
      <4> QED BY <1>1, <1>3, <4>1, <4>2, SameRead
    <3> QED BY <3>1, <3>2
  <2>6. at' \in 1 .. 6 /\ at <= at'
    BY <1>1, <2>2
  <2>7. ASSUME NEW p \in 1 .. 5 PROVE Position(p)'
    <3>1. CASE p = at
      <4>1. Order[p] = e /\ e \in DOMAIN seen'
        BY <1>9, <2>1, <3>1
      <4>2. \/ p < at' /\ ResultOf(e)'.ok
            \/ p = at' /\ status' = "refused" /\ ~ResultOf(e)'.ok /\ failed' = ResultOf(e)'.failed
        <5>1. CASE Outcome(e).ok
          BY <1>1, <2>2, <2>4, <3>1, <5>1
        <5>2. CASE ~Outcome(e).ok
          BY <2>1, <2>2, <2>4, <3>1, <5>2
        <5> QED BY <5>1, <5>2
      <4> QED BY <4>1, <4>2 DEF Position
    <3>2. CASE p # at
      <4>1. Order[p] # e /\ Order[p] \in ToSet(Order)
        BY <1>2, <3>2, FivePositions
      <4>2. Order[p] \in DOMAIN seen' <=> Order[p] \in DOMAIN seen
        BY <2>1, <4>1
      <4>3. Order[p] \in DOMAIN seen => p < at' /\ ResultOf(Order[p])'.ok
        BY <1>1, <1>4, <2>1, <2>6, <4>1, SameResult
      <4>4. Order[p] \notin DOMAIN seen => loaded'[Order[p]] = <<>>
        BY <1>4, <2>3, <4>1
      <4>5. ASSUME Order[p] \notin DOMAIN seen, p < at' PROVE Order[p] \notin DOMAIN command.mapping
        <5>1. CASE at' = 6 /\ DOMAIN command.mapping = {"objects"}
          BY <1>8, <4>1, <5>1
        <5>2. CASE at' = at + 1 \/ at' = at
          BY <1>1, <1>4, <3>2, <4>5, <5>2
        <5> QED BY <2>2, <5>1, <5>2
      <4> QED BY <1>1, <4>2, <4>3, <4>4, <4>5 DEF Position
    <3> QED BY <3>1, <3>2
  <2>8. DOMAIN seen' \subseteq ToSet(Order)
    BY <1>2, <2>1 DEF Reading
  <2>9. status' # "done"
    BY <2>2
  <2> QED BY <1>2, <2>3, <2>5, <2>6, <2>7, <2>8, <2>9 DEF Reading
<1> QED BY <1>6, <1>7, <1>8

LEMMA ReadingStep ==
    ASSUME Growing, Reading, [Next]_vars
    PROVE  Reading'
<1>1. CASE LoadMapped \/ LoadObjectsCsv
  BY <1>1, ReadingLoad
<1>2. CASE HashInputs \/ Add \/ UNCHANGED vars
  <2>1. /\ command' = command /\ began' = began /\ loaded' = loaded /\ seen' = seen /\ at' = at
        /\ failed' = failed
        /\ status' = status \/ (status = "run" /\ status' = "done" /\ at = Hashing)
    BY <1>2, AddSteps DEF HashInputs, vars
  <2>2. ASSUME NEW d \in DOMAIN seen PROVE ReadFrom(d)'
    BY <2>1, DiskOnlyGrows, SameRead DEF Reading
  <2>3. ASSUME NEW p \in 1 .. Len(Order) PROVE Position(p)'
    <3>1. ResultOf(Order[p])' = ResultOf(Order[p])
      BY <2>1, SameResult
    <3>2. Position(p) /\ (p = at /\ status = "refused" => status' = "refused")
      BY <2>1 DEF Reading
    <3> QED BY <2>1, <3>1, <3>2 DEF Position
  <2> QED BY <2>1, <2>2, <2>3 DEF Reading
<1> QED BY <1>1, <1>2 DEF Next

LEMMA HashedStep ==
    ASSUME Growing, Reading, Hashed, [Next]_vars
    PROVE  Hashed'
<1>1. CASE LoadMapped \/ LoadObjectsCsv
  <2>1. status' # "done"
    BY <1>1, LoadSteps DEF ReadStep
  <2> QED BY <2>1 DEF Hashed
<1>2. CASE HashInputs
  <2>1. /\ manifest' = [f \in InputFiles \cap DOMAIN disk |-> disk[f]]
        /\ command' = command /\ began' = began /\ seen' = seen /\ added' = added /\ disk' = disk
    BY <1>2 DEF HashInputs
  <2>2. DOMAIN disk = DOMAIN began
    BY DEF Growing, Shaped
  <2>3. InputFiles' = InputFiles
    BY <2>1 DEF InputFiles
  <2>4. ASSUME NEW f \in DOMAIN manifest'
        PROVE  /\ Listed(manifest'[f].lines)
               /\ Len(manifest'[f].lines) - Len(began[f].lines) <= added
    <3>1. f \in DOMAIN began /\ manifest'[f] = disk[f]
      BY <2>1, <2>2
    <3> QED BY <3>1 DEF Growing
  <2>5. ASSUME NEW e \in DOMAIN seen
        PROVE  Begins(seen[e].lines, manifest'[command.mapping[e].file].lines)
    <3>1. /\ ReadFrom(e) /\ e \in DOMAIN command.mapping
          /\ command.mapping[e].file \in DOMAIN began
          /\ Begins(seen[e].lines, disk[command.mapping[e].file].lines)
      BY DEF Reading, ReadFrom
    <3>2. command.mapping[e].file \in InputFiles \cap DOMAIN disk
      BY <2>2, <3>1 DEF InputFiles
    <3> QED BY <2>1, <3>1, <3>2
  <2> QED BY <2>1, <2>2, <2>3, <2>4, <2>5 DEF Hashed
<1>3. CASE Add
  <2>1. /\ command' = command /\ began' = began /\ seen' = seen /\ status' = status
        /\ manifest' = manifest /\ added' = added + 1
    BY <1>3, AddSteps
  <2>2. InputFiles' = InputFiles
    BY <2>1 DEF InputFiles
  <2>3. ASSUME NEW f \in DOMAIN manifest, status = "done"
        PROVE  Len(manifest[f].lines) - Len(began[f].lines) <= added'
    <3> DEFINE n == Len(manifest[f].lines)
               b == Len(began[f].lines)
    <3>1. Listed(manifest[f].lines) /\ f \in DOMAIN began /\ n - b <= added /\ added \in Nat
      BY <2>3 DEF Hashed, Growing
    <3>2. n \in Nat /\ b \in Nat
      BY <3>1, ListedIs DEF Growing
    <3> HIDE DEF n, b
    <3>3. n - b <= added'
      BY <2>1, <3>1, <3>2
    <3> QED BY <3>3 DEF n, b
  <2> QED BY <2>1, <2>2, <2>3 DEF Hashed
<1>4. CASE UNCHANGED vars
  <2>1. InputFiles' = InputFiles
    BY <1>4 DEF InputFiles, vars
  <2> QED BY <1>4, <2>1 DEF Hashed, vars
<1> QED BY <1>1, <1>2, <1>3, <1>4 DEF Next

-----------------------------------------------------------------------------
LEMMA CellsGrow ==
    ASSUME NEW r, NEW s, Listed(r), Listed(s), Begins(r, s), NEW f
    PROVE  CellsOf(r, f) \subseteq CellsOf(s, f)
<1>1. /\ Len(r) \in Nat /\ DOMAIN r = 1 .. Len(r)
      /\ Len(s) \in Nat /\ DOMAIN s = 1 .. Len(s)
  BY ListedIs
<1>2. \A i \in DOMAIN r : i \in DOMAIN s /\ r[i] = s[i]
  BY <1>1 DEF Begins
<1> QED BY <1>2 DEF CellsOf

LEMMA NoCells == \A f : CellsOf(<<>>, f) = {}
BY DEF CellsOf

LEMMA ReadUnderMapping ==
    ASSUME Growing, Relational
    PROVE  /\ command.input # "objects_csv"
           /\ \A e : ResultOf(e) = LoadTable(e, command.mapping[e], seen[e], command.format)
           /\ \A e : Outcome(e) = LoadTable(e, command.mapping[e], disk[command.mapping[e].file],
                                            command.format)
<1>1. command.input # "objects_csv"
  <2>1. DOMAIN command.mapping # {"objects"}
    BY DEF Relational
  <2> QED BY <2>1, CommandsAssumption DEF Growing
<1> QED BY <1>1 DEF ResultOf, Outcome

LEMMA SoundSame ==
    ASSUME command' = command, began' = began
    PROVE  SoundExport(began)' <=> SoundExport(began)
<1>1. \A e : RecordsIn(began, e)' = RecordsIn(began, e)
  BY DEF RecordsIn
<1>2. \A e, f : CellsOf(RecordsIn(began, e), f)' = CellsOf(RecordsIn(began, e), f)
  BY <1>1 DEF CellsOf
<1> QED BY <1>2 DEF SoundExport, Relational, ObjectsFound, RightsFound, RightsNamed

\* Files grow, and what could be read of them can still be, or none of it.
LEMMA ExportGrows ==
    ASSUME NEW e, NEW d, NEW u,
           Listed(d.lines), Listed(u.lines), Begins(d.lines, u.lines), d.columns = u.columns,
           LoadTable(e, command.mapping[e], u, command.format).ok, NEW c
    PROVE  /\ LoadTable(e, command.mapping[e], d, command.format).ok
           /\ CellsOf(LoadTable(e, command.mapping[e], d, command.format).records, c)
                \subseteq CellsOf(LoadTable(e, command.mapping[e], u, command.format).records, c)
<1> DEFINE r == LoadTable(e, command.mapping[e], d, command.format)
           s == LoadTable(e, command.mapping[e], u, command.format)
<1>1. r.ok /\ Begins(r.records, s.records)
  BY LoadGrows
<1>2. Listed(r.records) /\ Listed(s.records)
  BY <1>1, LoadIs
<1> HIDE DEF r, s
<1>3. CellsOf(r.records, c) \subseteq CellsOf(s.records, c)
  BY <1>1, <1>2, CellsGrow
<1> QED BY <1>1, <1>3 DEF r, s

LEMMA ReferencesLoad ==
    ASSUME Growing, Reading, References, SoundExport(began), LoadMapped \/ LoadObjectsCsv
    PROVE  /\ RightsHold'
           /\ "rights" \in DOMAIN seen' /\ ResultOf("rights")'.ok =>
                 Named' \subseteq CellsOf(loaded'["rights"], "rights_id")
<1>1. PICK e : e = Order[at]
  OBVIOUS
<1>2. PICK f : f = command.mapping[e].file
  OBVIOUS
<1>3. /\ at \in 1 .. 5 /\ status = "run" /\ e \notin DOMAIN seen /\ ReadStep(e)
      /\ command' = command /\ disk' = disk /\ began' = began /\ e \in ToSet(Order)
  BY <1>1, LoadSteps, FivePositions
<1>4. /\ {"objects", "media", "rights"} \subseteq ToSet(Order)
      /\ loaded = [d \in ToSet(Order) |-> loaded[d]]
  BY FivePositions DEF Reading
<1>5. Relational /\ SoundExport(disk) /\ RightsHold
  BY DEF References, SoundExport
<1>6. /\ \A d : ResultOf(d) = LoadTable(d, command.mapping[d], seen[d], command.format)
      /\ \A d : Outcome(d) = LoadTable(d, command.mapping[d], disk[command.mapping[d].file],
                                       command.format)
  BY <1>5, ReadUnderMapping
<1>7. "rights" \in DOMAIN seen /\ ResultOf("rights").ok =>
          Named \subseteq CellsOf(loaded["rights"], "rights_id")
  BY DEF References
<1>8. CASE seen' = seen /\ (loaded' = loaded \/ loaded' = [loaded EXCEPT ![e] = <<>>])
  <2>1. ResultOf("rights")' = ResultOf("rights")
    BY <1>3, <1>8, SameResult
  <2>2. \A d \in {"objects", "media"} : loaded'[d] = loaded[d] \/ loaded'[d] = <<>>
    BY <1>4, <1>8
  <2>3. Named' \subseteq Named
    BY <2>2, NoCells DEF Named, RightsNamed
  <2>4. "rights" \in DOMAIN seen => loaded'["rights"] = loaded["rights"]
    BY <1>3, <1>4, <1>8
  <2>5. RightsHold'
    BY <1>3, <1>5, <1>8, <2>3 DEF RightsHold
  <2> QED BY <1>7, <1>8, <2>1, <2>3, <2>4, <2>5
<1>9. CASE /\ e \in DOMAIN command.mapping /\ f \in DOMAIN disk
           /\ loaded' = [loaded EXCEPT ![e] = Outcome(e).records]
           /\ DOMAIN seen' = DOMAIN seen \cup {e}
           /\ seen'[e] = disk[f] /\ \A d \in DOMAIN seen \ {e} : seen'[d] = seen[d]
  <2>1. ResultOf(e)' = Outcome(e) /\ loaded'[e] = Outcome(e).records
    BY <1>2, <1>3, <1>4, <1>9, ReadNow
  <2>2. \A d \in ToSet(Order) \ {e} : loaded'[d] = loaded[d]
    BY <1>4, <1>9
  <2>3. CASE e \in {"objects", "media"}
    <3>1. at \in {1, 2}
      <4>1. /\ Order[at] \in {Order[1], Order[2]}
            /\ 1 \in 1 .. 5 /\ 2 \in 1 .. 5 /\ at \in 1 .. 5
        BY <1>1, <1>3, <2>3, FivePositions
      <4> QED BY <4>1, FivePositions
    <3>2. "rights" \notin DOMAIN seen /\ "rights" \notin DOMAIN seen'
      <4>1. Position(3) /\ Order[3] = "rights"
        BY FivePositions DEF Reading
      <4>2. "rights" \notin DOMAIN seen
        BY <3>1, <4>1 DEF Position
      <4> QED BY <1>9, <2>3, <4>2
    <3>3. loaded'[e] = RecordsIn(disk, e)
      BY <1>2, <1>6, <1>9, <2>1 DEF RecordsIn
    <3>4. CellsOf(RecordsIn(disk, e), "rights_id")
             \subseteq CellsOf(RecordsIn(disk, "rights"), "rights_id")
      BY <1>5, <2>3 DEF SoundExport, RightsFound, RightsNamed
    <3>5. Named' \subseteq Named \cup CellsOf(RecordsIn(disk, "rights"), "rights_id")
      <4>1. ASSUME NEW d \in {"objects", "media"}
            PROVE  CellsOf(loaded'[d], "rights_id") \subseteq
                      CellsOf(loaded[d], "rights_id")
                          \cup CellsOf(RecordsIn(disk, "rights"), "rights_id")
        BY <1>4, <2>2, <3>3, <3>4
      <4> QED BY <4>1 DEF Named, RightsNamed
    <3>6. ASSUME command.mapping["rights"].file \in DOMAIN disk
          PROVE  RecordsIn(disk, "rights") =
                    LoadTable("rights", command.mapping["rights"],
                              disk[command.mapping["rights"].file], command.format).records
      BY <3>6 DEF RecordsIn
    <3>7. RightsHold'
      BY <1>3, <1>5, <3>2, <3>5, <3>6 DEF RightsHold
    <3> QED BY <3>2, <3>7
  <2>4. CASE e = "rights"
    <3>1. Named' = Named
      BY <1>4, <2>2, <2>4 DEF Named
    <3>2. "rights" \in DOMAIN seen' /\ "rights" \notin DOMAIN seen
      BY <1>3, <1>9, <2>4
    <3>3. ASSUME Outcome("rights").ok
          PROVE  Named \subseteq CellsOf(Outcome("rights").records, "rights_id")
      BY <1>2, <1>5, <1>6, <1>9, <2>4, <3>2, <3>3 DEF RightsHold
    <3>4. ResultOf("rights")'.ok =>
             Named' \subseteq CellsOf(loaded'["rights"], "rights_id")
      BY <2>1, <2>4, <3>1, <3>3
    <3> QED BY <3>2, <3>4 DEF RightsHold
  <2>5. CASE e \notin {"objects", "media", "rights"}
    <3>1. /\ Named' = Named /\ loaded'["rights"] = loaded["rights"]
          /\ "rights" \in DOMAIN seen' <=> "rights" \in DOMAIN seen
      BY <1>4, <1>9, <2>2, <2>5 DEF Named
    <3>2. "rights" \in DOMAIN seen => ResultOf("rights")' = ResultOf("rights")
      BY <1>3, <1>9, <2>5, SameResult
    <3>3. RightsHold'
      BY <1>3, <1>5, <3>1 DEF RightsHold
    <3> QED BY <1>7, <3>1, <3>2, <3>3
  <2> QED BY <2>3, <2>4, <2>5
<1> QED BY <1>2, <1>3, <1>8, <1>9 DEF ReadStep

LEMMA ReferencesStep ==
    ASSUME Growing, Reading, References, [Next]_vars
    PROVE  References'
<1> SUFFICES ASSUME SoundExport(began)'
             PROVE  /\ SoundExport(disk)' /\ RightsHold'
                    /\ "rights" \in DOMAIN seen' /\ ResultOf("rights")'.ok =>
                          Named' \subseteq CellsOf(loaded'["rights"], "rights_id")
  BY DEF References
<1>1. command' = command /\ began' = began
  BY DiskOnlyGrows
<1>2. SoundExport(began)
  BY <1>1, SoundSame
<1>3. /\ SoundExport(disk) /\ RightsHold /\ Relational
      /\ "rights" \in DOMAIN seen /\ ResultOf("rights").ok =>
            Named \subseteq CellsOf(loaded["rights"], "rights_id")
  BY <1>2 DEF References, SoundExport
<1>4. CASE LoadMapped \/ LoadObjectsCsv
  <2>1. disk' = disk
    BY <1>4, LoadSteps
  <2>2. SoundExport(disk)'
    <3>1. \A e : RecordsIn(disk, e)' = RecordsIn(disk, e)
      BY <1>1, <2>1 DEF RecordsIn
    <3> QED BY <1>1, <1>3, <3>1 DEF SoundExport, Relational, ObjectsFound, RightsFound,
                                          RightsNamed, CellsOf
  <2> QED BY <1>2, <1>4, <2>2, ReferencesLoad
<1>5. CASE HashInputs \/ UNCHANGED vars
  <2>1. loaded' = loaded /\ seen' = seen /\ disk' = disk
    BY <1>5 DEF HashInputs, vars
  <2>2. SoundExport(disk)'
    <3>1. \A e : RecordsIn(disk, e)' = RecordsIn(disk, e)
      BY <1>1, <2>1 DEF RecordsIn
    <3> QED BY <1>1, <1>3, <3>1 DEF SoundExport, Relational, ObjectsFound, RightsFound,
                                          RightsNamed, CellsOf
  <2>3. ResultOf("rights")' = ResultOf("rights")
    BY <1>1, <2>1, SameResult
  <2>4. Named' = Named
    BY <2>1 DEF Named
  <2> QED BY <1>1, <1>3, <2>1, <2>2, <2>3, <2>4 DEF RightsHold
<1>6. CASE Add
  <2>1. loaded' = loaded /\ seen' = seen /\ SoundExport(disk')
    BY <1>6, AddSteps
  <2>2. SoundExport(disk)'
    <3>1. \A e : RecordsIn(disk, e)' = RecordsIn(disk', e)
      BY <1>1 DEF RecordsIn
    <3> QED BY <1>1, <2>1, <3>1 DEF SoundExport, Relational, ObjectsFound, RightsFound,
                                          RightsNamed, CellsOf
  <2>3. ResultOf("rights")' = ResultOf("rights")
    BY <1>1, <2>1, SameResult
  <2>5. Named' = Named
    BY <2>1 DEF Named
  <2>4. RightsHold'
    <3>1. PICK f : f = command.mapping["rights"].file
      OBVIOUS
    <3> DEFINE r == LoadTable("rights", command.mapping["rights"], disk[f], command.format)
               s == LoadTable("rights", command.mapping["rights"], disk'[f], command.format)
    <3> SUFFICES ASSUME "rights" \notin DOMAIN seen, f \in DOMAIN disk', s.ok
                 PROVE  Named \subseteq CellsOf(s.records, "rights_id")
      BY <1>1, <2>1, <2>5, <3>1 DEF RightsHold
    <3>2. f \in DOMAIN began /\ f \in DOMAIN disk
      BY <1>6, AddSteps DEF Shaped, Growing
    <3>3. /\ Listed(disk[f].lines) /\ Listed(disk'[f].lines) /\ Begins(disk[f].lines, disk'[f].lines)
          /\ disk[f].columns = disk'[f].columns
      BY <1>6, <3>2, AddSteps DEF Growing
    <3>4. r.ok /\ CellsOf(r.records, "rights_id") \subseteq CellsOf(s.records, "rights_id")
      BY <3>3, ExportGrows
    <3>5. Named \subseteq CellsOf(r.records, "rights_id")
      BY <1>3, <3>1, <3>2, <3>4 DEF RightsHold
    <3> QED BY <3>4, <3>5
  <2> QED BY <1>3, <2>1, <2>2, <2>3, <2>4, <2>5
<1> QED BY <1>4, <1>5, <1>6 DEF Next

LEMMA InitIngestion == Init => IngestionInv
<1> SUFFICES ASSUME Init PROVE IngestionInv
  OBVIOUS
<1>1. /\ command \in Commands /\ disk = command.disk /\ began = command.disk
      /\ added = 0 /\ at = 1 /\ status \in {"run", "refused"}
      /\ loaded = [e \in ToSet(Order) |-> <<>>] /\ DOMAIN seen = {}
  BY DEF Init
<1>2. Growing
  <2>1. ASSUME NEW f \in DOMAIN began
        PROVE  /\ Listed(began[f].lines)
               /\ command.format = "csv" => disk[f].lines \in Seq(Seq(Cell))
    BY <1>1, CommandsAssumption DEF Listed
  <2>2. ASSUME NEW f \in DOMAIN began
        PROVE  Begins(began[f].lines, disk[f].lines) /\ Len(disk[f].lines) - Len(began[f].lines) <= added
    <3> DEFINE n == Len(began[f].lines)
    <3>1. n \in Nat
      BY <2>1, ListedIs
    <3> HIDE DEF n
    <3>2. n - n <= added
      BY <1>1, <3>1
    <3> QED BY <1>1, <3>1, <3>2, BeginsSelf DEF n
  <2>3. Shaped(disk)
    BY <1>1, CommandsAssumption DEF Shaped
  <2> QED BY <1>1, <2>1, <2>2, <2>3 DEF Growing
<1>3. Reading
  <2>1. ASSUME NEW p \in 1 .. Len(Order) PROVE Position(p)
    <3>1. loaded[Order[p]] = <<>> /\ Order[p] \notin DOMAIN seen /\ ~(p < at)
      BY <1>1, FivePositions
    <3> QED BY <3>1 DEF Position
  <2> QED BY <1>1, <2>1, FivePositions DEF Reading
<1>4. Hashed
  BY <1>1 DEF Hashed
<1>5. References
  <2>1. loaded["objects"] = <<>> /\ loaded["media"] = <<>>
    BY <1>1, FivePositions
  <2>2. Named = {}
    BY <2>1, NoCells DEF Named, RightsNamed
  <2> QED BY <1>1, <2>2 DEF References, RightsHold
<1> QED BY <1>2, <1>3, <1>4, <1>5 DEF IngestionInv

LEMMA NextIngestion == IngestionInv /\ [Next]_vars => IngestionInv'
<1> SUFFICES ASSUME IngestionInv, [Next]_vars PROVE IngestionInv'
  OBVIOUS
<1> QED BY GrowingStep, ReadingStep, HashedStep, ReferencesStep DEF IngestionInv

LEMMA Ingests == Spec => []IngestionInv
BY InitIngestion, NextIngestion, PTL DEF Spec

(***************************************************************************)
(* ManifestTrue: whatever is added to the export during the load and up to *)
(* the hashing (build_run_manifest comes last), every table that was read  *)
(* is in the manifest, and what is hashed continues what was read by no    *)
(* more lines than were added.                                             *)
(***************************************************************************)
THEOREM ManifestOfTheRead == Spec => []ManifestTrue
<1>1. IngestionInv => ManifestTrue
  <2> SUFFICES ASSUME IngestionInv, status = "done", NEW e \in DOMAIN seen,
                      NEW f, f = command.mapping[e].file
               PROVE  /\ f \in DOMAIN manifest
                      /\ IsPrefix(seen[e].lines, manifest[f].lines)
                      /\ Len(manifest[f].lines) - Len(began[f].lines) <= added
    BY DEF ManifestTrue
  <2>1. /\ e \in DOMAIN command.mapping /\ f \in DOMAIN began /\ Listed(seen[e].lines)
    BY DEF IngestionInv, Reading, ReadFrom
  <2>2. f \in DOMAIN manifest
    BY <2>1 DEF IngestionInv, Hashed, InputFiles
  <2>3. /\ Listed(manifest[f].lines) /\ Begins(seen[e].lines, manifest[f].lines)
        /\ Len(manifest[f].lines) - Len(began[f].lines) <= added
    BY <2>2 DEF IngestionInv, Hashed
  <2> QED BY <2>1, <2>2, <2>3, PrefixIs
<1> QED BY <1>1, Ingests, PTL

\* A mapped table that the load has passed was read, and whole.
LEMMA Passed ==
    ASSUME IngestionInv, status = "done", NEW p \in 1 .. 5, Order[p] \in DOMAIN command.mapping
    PROVE  Order[p] \in DOMAIN seen /\ ResultOf(Order[p]).ok /\ ReadFrom(Order[p])
<1>1. at = 6 /\ Position(p)
  BY FivePositions DEF IngestionInv, Reading
<1>2. Order[p] \in DOMAIN seen /\ ResultOf(Order[p]).ok
  BY <1>1 DEF Position
<1> QED BY <1>2 DEF IngestionInv, Reading

(***************************************************************************)
(* OrphansAreYoung: load_from_mapping reads objects before media before    *)
(* rights.  Over an export that grows but keeps its references sound, no   *)
(* reference to rights dangles in what was read, neither from an object    *)
(* nor from a media record, and no reference to an object of the media     *)
(* that were there when the load began.                                    *)
(***************************************************************************)
THEOREM OnlyYoungOrphans == Spec => []OrphansAreYoung
<1>1. IngestionInv => OrphansAreYoung
  <2> DEFINE old == Len(RecordsIn(began, "media"))
  <2> SUFFICES ASSUME IngestionInv, status = "done", SoundExport(began)
               PROVE  /\ RightsFound(loaded.objects, loaded.media, loaded.rights)
                      /\ ObjectsFound(SubSeq(loaded.media, 1, old), loaded.objects)
    BY DEF OrphansAreYoung
  <2>1. Growing /\ References /\ Relational
    BY DEF IngestionInv, SoundExport
  <2>2. /\ \A d : ResultOf(d) = LoadTable(d, command.mapping[d], seen[d], command.format)
        /\ {"objects", "media", "rights"} \subseteq DOMAIN command.mapping
    BY <2>1, ReadUnderMapping DEF Relational
  <2>3. ASSUME NEW e \in {"objects", "media", "rights"}
        PROVE  e \in DOMAIN seen /\ ResultOf(e).ok /\ ReadFrom(e)
    <3>1. PICK p \in 1 .. 5 : Order[p] = e
      BY FivePositions
    <3> QED BY <2>2, <3>1, Passed
  <2>4. ASSUME NEW e \in {"objects", "media", "rights"}
        PROVE  /\ Listed(RecordsIn(began, e)) /\ Listed(loaded[e])
               /\ Begins(RecordsIn(began, e), loaded[e])
    <3>1. PICK f : f = command.mapping[e].file
      OBVIOUS
    <3>2. /\ f \in DOMAIN began /\ Listed(seen[e].lines) /\ seen[e].columns = began[f].columns
          /\ Begins(began[f].lines, seen[e].lines) /\ loaded[e] = ResultOf(e).records
          /\ Listed(began[f].lines)
      BY <2>1, <2>3, <3>1 DEF ReadFrom, Growing
    <3> DEFINE r == LoadTable(e, command.mapping[e], began[f], command.format)
               s == LoadTable(e, command.mapping[e], seen[e], command.format)
    <3>3. s.ok /\ loaded[e] = s.records
      BY <2>2, <2>3, <3>2
    <3>4. r.ok /\ Begins(r.records, s.records)
      BY <3>2, <3>3, LoadGrows
    <3>5. Listed(r.records) /\ Listed(s.records)
      BY <3>2, <3>3, <3>4, LoadIs
    <3>6. RecordsIn(began, e) = r.records
      BY <3>1, <3>2 DEF RecordsIn
    <3> QED BY <3>3, <3>4, <3>5, <3>6
  <2>5. CellsOf(SubSeq(loaded["media"], 1, old), "object_id")
           \subseteq CellsOf(RecordsIn(began, "media"), "object_id")
    <3> DEFINE r == RecordsIn(began, "media")
               s == loaded["media"]
    <3>1. /\ Listed(r) /\ Listed(s) /\ Begins(r, s)
          /\ Len(r) \in Nat /\ Len(s) \in Nat /\ DOMAIN r = 1 .. Len(r) /\ old = Len(r)
      BY <2>4, ListedIs
    <3> HIDE DEF r, s, old
    <3>2. SubSeq(s, 1, old) = [i \in 1 .. old |-> s[i]]
      BY <3>1 DEF Listed, Begins
    <3>3. \A i \in 1 .. old : s[i] = r[i]
      BY <3>1 DEF Begins
    <3>4. CellsOf(SubSeq(s, 1, old), "object_id") \subseteq CellsOf(r, "object_id")
      BY <3>1, <3>2, <3>3 DEF CellsOf
    <3> QED BY <3>4 DEF r, s
  <2>6. CellsOf(RecordsIn(began, "media"), "object_id")
           \subseteq CellsOf(RecordsIn(began, "objects"), "object_id")
    BY DEF SoundExport, ObjectsFound
  <2>7. CellsOf(RecordsIn(began, "objects"), "object_id") \subseteq CellsOf(loaded["objects"], "object_id")
    BY <2>4, CellsGrow
  <2>8. RightsFound(loaded.objects, loaded.media, loaded.rights)
    BY <2>1, <2>3 DEF References, Named, RightsFound
  <2> QED BY <2>5, <2>6, <2>7, <2>8 DEF ObjectsFound
<1> QED BY <1>1, Ingests, PTL

LEMMA FieldNames ==
    ASSUME NEW e \in ToSet(Order)
    PROVE  /\ BuiltScalars(e) \subseteq ScalarFields(e)
           /\ ListFields(e) \cap ScalarFields(e) = {}
           /\ "source_row" \notin BuiltScalars(e) \cup ListFields(e)
           /\ IdField[e] \in BuiltScalars(e) /\ KindOf(e, IdField[e]) = "text"
<1>1. e \in {"objects", "media", "rights", "locations", "agents"}
  <2>1. PICK p \in 1 .. 5 : Order[p] = e
    BY FivePositions
  <2> QED BY <2>1 DEF Order
<1>2. BuiltScalars(e) \subseteq ScalarFields(e)
  BY DEF ScalarFields
<1>3. \A f : f \in BuiltScalars(e) <=>
         f \in Fields[e].text \/ f \in Fields[e].date \/ f \in Fields[e].int \/ f \in Fields[e].bool
  BY <1>1 DEF BuiltScalars, Kinds, Fields
<1>4. ListFields(e) \cap ScalarFields(e) = {}
  BY <1>1, <1>3 DEF ListFields, ScalarFields, Fields
<1>5. "source_row" \notin BuiltScalars(e) \cup ListFields(e)
  BY <1>1, <1>3 DEF ListFields, Fields
<1>6. IdField[e] \in Fields[e].text /\ IdField[e] \notin Fields[e].date
      /\ IdField[e] \notin Fields[e].int /\ IdField[e] \notin Fields[e].bool
  BY <1>1 DEF IdField, Fields
<1>7. KindOf(e, IdField[e]) = "text"
  <2>1. \A k \in Kinds : IdField[e] \in Fields[e][k] <=> k = "text"
    BY <1>6 DEF Kinds
  <2>2. "text" \in Kinds
    BY DEF Kinds
  <2> QED BY <2>1, <2>2 DEF KindOf
<1> QED BY <1>2, <1>3, <1>4, <1>5, <1>6, <1>7

LEMMA Built ==
    ASSUME NEW e \in ToSet(Order), NEW mapped, NEW number
    PROVE  /\ Build(e, mapped, number).source_row = number
           /\ \A f \in BuiltScalars(e) : f \in DOMAIN mapped =>
                 Build(e, mapped, number)[f] = Canonical(KindOf(e, f), mapped[f])
<1>1. \A f \in BuiltScalars(e) : f # "source_row" /\ f \notin ListFields(e)
  BY FieldNames
<1> DEFINE V(f) == CASE f = "source_row" -> number
                     [] f \in ListFields(e) -> IF f \in DOMAIN mapped THEN mapped[f] ELSE <<>>
                     [] OTHER -> IF f \in DOMAIN mapped THEN Canonical(KindOf(e, f), mapped[f])
                                 ELSE EmptyCell
<1>4. Build(e, mapped, number) = [f \in BuiltScalars(e) \cup ListFields(e) \cup {"source_row"} |-> V(f)]
  BY DEF Build
<1>2. Build(e, mapped, number).source_row = number
  <2>1. V("source_row") = number
    BY FieldNames
  <2> HIDE DEF V
  <2> QED BY <1>4, <2>1
<1>3. ASSUME NEW f \in BuiltScalars(e), f \in DOMAIN mapped
      PROVE  Build(e, mapped, number)[f] = Canonical(KindOf(e, f), mapped[f])
  <2>1. V(f) = Canonical(KindOf(e, f), mapped[f])
    BY <1>1, <1>3
  <2> HIDE DEF V
  <2> QED BY <1>4, <2>1
<1> QED BY <1>2, <1>3

\* A CSV table: rows of cells under a header without repetitions.
CsvTable(table) ==
    /\ table.lines \in Seq(Seq(Cell))
    /\ table.columns \in Seq(STRING) /\ IsInjective(table.columns)

LEMMA CellsAgree ==
    ASSUME NEW table, CsvTable(table), NEW i \in DOMAIN table.lines, NEW c,
           NEW v, v = IF c \in ToSet(table.columns) THEN CellIn(table, table.lines[i], c) ELSE EmptyCell
    PROVE  v \in Cell /\ Trim[v] = CellAt(table, i, c)
<1> DEFINE columns == table.columns
           line == table.lines[i]
           ks == {k \in DOMAIN columns : columns[k] = c /\ k <= Len(line)}
<1>1. line \in Seq(Cell) /\ columns \in Seq(STRING) /\ IsInjective(columns)
  BY DEF CsvTable
<1>2. EmptyCell \in Cell /\ Trim[EmptyCell] = EmptyCell
  BY IngestionAssumption
<1>3. CellAt(table, i, c) = IF ks = {} THEN EmptyCell ELSE Trim[line[CHOOSE k \in ks : TRUE]]
  BY DEF CellAt
<1>4. ToSet(columns) = {columns[k] : k \in DOMAIN columns}
  BY DEF ToSet
<1>5. v = IF c \in ToSet(columns)
          THEN LET k == CHOOSE k \in DOMAIN columns : columns[k] = c
               IN  IF k <= Len(line) THEN line[k] ELSE EmptyCell
          ELSE EmptyCell
  BY DEF CellIn
<1> HIDE DEF columns, line
<1>6. CASE c \notin ToSet(columns)
  <2>1. ks = {}
    BY <1>4, <1>6
  <2> QED BY <1>2, <1>3, <1>5, <1>6, <2>1
<1>7. CASE c \in ToSet(columns)
  <2>1. PICK k \in DOMAIN columns : columns[k] = c
    BY <1>4, <1>7
  <2>2. \A j \in DOMAIN columns : columns[j] = c => j = k
    BY <1>1, <2>1 DEF IsInjective
  <2>3. (CHOOSE j \in DOMAIN columns : columns[j] = c) = k
    BY <2>1, <2>2
  <2>4. v = IF k <= Len(line) THEN line[k] ELSE EmptyCell
    BY <1>5, <1>7, <2>3
  <2>5. k \in Nat /\ k >= 1 /\ Len(line) \in Nat
    BY <1>1
  <2>6. CASE k <= Len(line)
    <3>1. ks = {k}
      BY <2>1, <2>2, <2>6
    <3>2. (CHOOSE j \in ks : TRUE) = k
      BY <3>1
    <3>3. line[k] \in Cell
      BY <1>1, <2>5, <2>6
    <3>4. ks # {}
      BY <3>1
    <3> HIDE DEF ks
    <3> QED BY <1>3, <2>4, <2>6, <3>2, <3>3, <3>4
  <2>7. CASE ~(k <= Len(line))
    <3>1. ks = {}
      BY <2>2, <2>7
    <3> QED BY <1>2, <1>3, <2>4, <2>7, <3>1
  <2> QED BY <2>6, <2>7
<1> QED BY <1>6, <1>7

\* What a scalar field is mapped to is the stripped cell under its column.
LEMMA ScalarMapped ==
    ASSUME NEW e \in ToSet(Order), NEW fields, NEW table, CsvTable(table),
           NEW k \in 1 .. Len(Filled(table)),
           NEW f \in DOMAIN fields \cap BuiltScalars(e), ~IsList(fields[f])
    PROVE  /\ f \in DOMAIN Mapped(e, fields, CsvRows(table)[k].raw)
           /\ Mapped(e, fields, CsvRows(table)[k].raw)[f]
                 = CellAt(table, LineOf(table, k), fields[f].source)
<1> DEFINE raw == CsvRows(table)[k].raw
           i == LineOf(table, k)
           c == fields[f].source
           v == IF c \in ToSet(table.columns) THEN CellIn(table, table.lines[i], c) ELSE EmptyCell
<1>1. Listed(table.lines)
  BY ListedIn DEF CsvTable
<1>2. /\ i \in DOMAIN table.lines /\ Filled(table)[k] = table.lines[i]
      /\ raw = [d \in ToSet(table.columns) |-> CellIn(table, table.lines[i], d)]
  <2>1. i \in DOMAIN table.lines /\ Filled(table)[k] = table.lines[i]
    BY <1>1, FilledIs
  <2>2. raw = [d \in ToSet(table.columns) |-> CellIn(table, Filled(table)[k], d)]
    BY <1>1, CsvRowsAre
  <2> QED BY <2>1, <2>2
<1>3. v \in Cell /\ Trim[v] = CellAt(table, i, c)
  BY <1>2, CellsAgree
<1>4. v = IF c \in DOMAIN raw THEN raw[c] ELSE EmptyCell
  BY <1>2
<1>5. f \in ScalarFields(e)
  BY FieldNames
<1>6. fields[f].transform # "split_pipe"
  BY DEF IsList
<1>7. MapValue(raw, fields[f]) = IF fields[f].transform = "strip" THEN Trim[v] ELSE v
  BY <1>4, <1>6 DEF MapValue, ApplyTransform
<1>8. Trim[Trim[v]] = Trim[v]
  BY <1>3, IngestionAssumption
<1> HIDE DEF raw, v
<1>9. f \in DOMAIN Mapped(e, fields, raw) /\ Mapped(e, fields, raw)[f] = Trim[MapValue(raw, fields[f])]
  BY <1>5 DEF Mapped
<1>10. Trim[MapValue(raw, fields[f])] = Trim[v]
  BY <1>7, <1>8
<1> QED BY <1>3, <1>9, <1>10 DEF raw

\* The records are numbered as the lines, blank ones not counted.
LEMMA RowNumbers ==
    ASSUME NEW table, Listed(table.lines), NEW k \in 1 .. Len(Filled(table))
    PROVE  k + 1 + Cardinality(BlankAbove(table, LineOf(table, k))) = LineOf(table, k) + 1
<1> DEFINE i == LineOf(table, k)
           K == FilledLines(table) \cap 1 .. i
           B == BlankAbove(table, i)
<1>1. /\ Len(table.lines) \in Nat /\ DOMAIN table.lines = 1 .. Len(table.lines)
      /\ i \in 1 .. Len(table.lines) /\ Cardinality(K) = k /\ k \in Nat
  BY FilledIs, LinesAre, ListedIs
<1>2. K \cup B = 1 .. i /\ K \cap B = {} /\ K \in SUBSET (1 .. i) /\ B \in SUBSET (1 .. i)
  BY <1>1 DEF FilledLines, BlankAbove
<1>3. i \in Nat /\ IsFiniteSet(1 .. i) /\ Cardinality(1 .. i) = i
  BY <1>1, FS_Interval
<1> HIDE DEF i, K, B
<1>4. IsFiniteSet(K) /\ IsFiniteSet(B) /\ Cardinality(B) \in Nat
  BY <1>2, <1>3, FS_Subset, FS_CardinalityType
<1>5. Cardinality(K \cup B) = Cardinality(K) + Cardinality(B) - Cardinality(K \cap B)
  BY <1>4, FS_Union
<1>6. Cardinality(K \cap B) = 0
  BY <1>2, FS_EmptySet
<1>7. i = k + Cardinality(B)
  <2>1. Cardinality(K \cup B) = i /\ Cardinality(K) = k
    BY <1>1, <1>2, <1>3
  <2>2. i = k + Cardinality(B) - 0
    BY <1>5, <1>6, <2>1
  <2> QED BY <1>1, <1>4, <2>2
<1>8. k + 1 + Cardinality(B) = i + 1
  BY <1>3, <1>4, <1>7
<1> QED BY <1>8 DEF i, B

\* The first row without an id, and none before it with surplus cells.
SimpleKeyless(table, i) ==
    /\ i \in DOMAIN CsvRows(table) /\ SimpleId(CsvRows(table)[i].raw) = EmptyCell
    /\ \A k \in 1 .. i - 1 : SimpleId(CsvRows(table)[k].raw) # EmptyCell /\ ~Surplus(table, k)

SimpleLoads(table) ==
    /\ "object_id" \in ToSet(table.columns)
    /\ \A i \in DOMAIN CsvRows(table) :
          SimpleId(CsvRows(table)[i].raw) # EmptyCell /\ ~Surplus(table, i)

LEMMA SimpleIs ==
    ASSUME NEW table, Listed(table.lines)
    PROVE  /\ SimpleLoads(table) =>
                 SimpleLoad(table) = [ok |-> TRUE, failed |-> 0,
                                      records |-> [i \in DOMAIN CsvRows(table) |-> SimpleObject(CsvRows(table)[i])]]
           /\ ~SimpleLoads(table) =>
                 SimpleLoad(table).ok = FALSE /\ SimpleLoad(table).records = <<>>
           /\ ~SimpleLoads(table) /\ "object_id" \in ToSet(table.columns) /\ ~Crashes(table) =>
                 \E i \in DOMAIN CsvRows(table) :
                    SimpleKeyless(table, i) /\ SimpleLoad(table) = Refuse(CsvRows(table)[i].number)
<1> DEFINE rows == CsvRows(table)
           bad == {i \in DOMAIN rows : SimpleId(rows[i].raw) = EmptyCell \/ Surplus(table, i)}
           first == CHOOSE i \in bad : \A k \in bad : i <= k
           built == [i \in DOMAIN rows |-> SimpleObject(rows[i])]
           n == Len(Filled(table))
<1>1. n \in Nat /\ DOMAIN rows = 1 .. n /\ DOMAIN Filled(table) = 1 .. n
  BY CsvRowsAre, FilledIs
<1>2. SimpleLoad(table) =
         IF "object_id" \notin ToSet(table.columns) THEN Refuse(0)
         ELSE IF bad # {}
         THEN Refuse(IF SimpleId(rows[first].raw) = EmptyCell THEN rows[first].number ELSE 0)
         ELSE [ok |-> TRUE, failed |-> 0, records |-> built]
  BY DEF SimpleLoad
<1>3. SimpleLoads(table) <=> "object_id" \in ToSet(table.columns) /\ bad = {}
  BY DEF SimpleLoads
<1>4. bad # {} => first \in bad /\ \A k \in bad : first <= k
  <2>1. bad \in SUBSET (1 .. n)
    BY <1>1
  <2> HIDE DEF bad, n
  <2> QED BY <1>1, <2>1, Least
<1>5. ASSUME bad # {}, ~Crashes(table)
      PROVE  SimpleKeyless(table, first) /\ first \in DOMAIN rows
  <2>1. first \in 1 .. n /\ (SimpleId(rows[first].raw) = EmptyCell \/ Surplus(table, first))
    BY <1>1, <1>4, <1>5
  <2>2. ASSUME NEW k \in 1 .. first - 1
        PROVE  SimpleId(rows[k].raw) # EmptyCell /\ ~Surplus(table, k)
    <3>1. k \in 1 .. n /\ k \notin bad
      BY <1>1, <1>4, <1>5, <2>1
    <3> QED BY <1>1, <3>1
  <2>3. SimpleId(rows[first].raw) = EmptyCell
    <3> SUFFICES ASSUME SimpleId(rows[first].raw) # EmptyCell PROVE FALSE
      OBVIOUS
    <3>1. Surplus(table, first)
      BY <2>1
    <3>2. \A k \in 1 .. first : k \in 1 .. first - 1 \/ k = first
      BY <1>1, <2>1
    <3>3. \A k \in 1 .. first : SimpleId(rows[k].raw) # EmptyCell
      BY <2>2, <3>2
    <3> HIDE DEF first
    <3> QED BY <1>1, <1>5, <2>1, <3>1, <3>3 DEF Crashes
  <2> QED BY <1>1, <2>1, <2>2, <2>3 DEF SimpleKeyless
<1>6. \A m : Refuse(m).ok = FALSE /\ Refuse(m).records = <<>>
  BY DEF Refuse
<1> HIDE DEF bad, first, built
<1>7. SimpleLoads(table) => SimpleLoad(table) = [ok |-> TRUE, failed |-> 0, records |-> built]
  BY <1>2, <1>3
<1>8. ~SimpleLoads(table) => \E m : SimpleLoad(table) = Refuse(m)
  <2>1. CASE "object_id" \notin ToSet(table.columns)
    BY <1>2, <2>1
  <2>2. CASE "object_id" \in ToSet(table.columns) /\ bad # {}
    BY <1>2, <2>2
  <2> QED BY <1>3, <2>1, <2>2
<1>9. ASSUME ~SimpleLoads(table), "object_id" \in ToSet(table.columns), ~Crashes(table)
      PROVE  /\ SimpleKeyless(table, first) /\ first \in DOMAIN rows
             /\ SimpleLoad(table) = Refuse(rows[first].number)
  <2>1. bad # {}
    BY <1>3, <1>9
  <2>2. SimpleKeyless(table, first) /\ first \in DOMAIN rows
    BY <1>5, <1>9, <2>1
  <2>3. SimpleId(rows[first].raw) = EmptyCell
    BY <2>2 DEF SimpleKeyless
  <2> QED BY <1>2, <1>9, <2>1, <2>2, <2>3
<1> QED BY <1>6, <1>7, <1>8, <1>9 DEF built

LEMMA RefusedAt ==
    ASSUME NEW e, NEW entity, NEW table, Listed(table.lines), NEW format, Readable(table, format),
           NEW i \in 1 .. Len(RawRecords(table, format)), FirstKeyless(e, entity, table, format, i)
    PROVE  LoadTable(e, entity, table, format) = Refuse(RawRecords(table, format)[i].number)
<1> DEFINE result == LoadTable(e, entity, table, format)
           rows == RawRecords(table, format)
<1>1. Readable(table, format) =>
         \A k \in 1 .. Len(rows) :
            FirstKeyless(e, entity, table, format, k) => result = Refuse(rows[k].number)
  BY ONLY LoadIs, Listed(table.lines)
<1> QED BY <1>1

\* Under a mapping of the four columns to themselves a row becomes the same.
LEMMA SameRow ==
    ASSUME NEW raw, NEW fields, fields = [f \in Simple |-> Plain(f)]
    PROVE  /\ Mapped("objects", fields, raw)
                 = [f \in Simple |-> IF f = "object_id" THEN SimpleId(raw) ELSE SimpleCell(raw, f)]
           /\ HasKey("objects", "object_id", Mapped("objects", fields, raw))
                 <=> SimpleId(raw) # EmptyCell
<1>1. "objects" \in ToSet(Order)
  BY FivePositions
<1>2. Simple \subseteq BuiltScalars("objects") /\ "object_id" \in Simple
  BY DEF Simple, BuiltScalars, Fields, Kinds
<1>3. Simple \subseteq ScalarFields("objects") /\ Simple \cap ListFields("objects") = {}
  BY <1>1, <1>2, FieldNames
<1>4. ASSUME NEW f \in Simple
      PROVE  ~IsList(fields[f]) /\ Trim[MapValue(raw, fields[f])] = SimpleCell(raw, f)
  <2>1. fields[f].source = f /\ fields[f].transform = "none"
    BY DEF Plain
  <2>2. MapValue(raw, fields[f]) = IF f \in DOMAIN raw THEN raw[f] ELSE EmptyCell
    BY <2>1 DEF MapValue, ApplyTransform
  <2>3. Trim[EmptyCell] = EmptyCell
    BY IngestionAssumption
  <2> QED BY <2>1, <2>2, <2>3 DEF IsList, SimpleCell
<1>5. DOMAIN fields \cap (ScalarFields("objects") \cup ListFields("objects")) = Simple
  BY <1>3
<1>6. Mapped("objects", fields, raw) = [f \in Simple |-> SimpleCell(raw, f)]
  <2>1. Mapped("objects", fields, raw) =
           [f \in Simple |->
               IF f \in ScalarFields("objects")
               THEN IF IsList(fields[f]) THEN EmptyCell ELSE Trim[MapValue(raw, fields[f])]
               ELSE IF IsList(fields[f]) THEN MapValue(raw, fields[f]) ELSE <<>>]
    BY <1>5 DEF Mapped
  <2>2. \A f \in Simple : f \in ScalarFields("objects")
    BY <1>3
  <2> QED BY <1>4, <2>1, <2>2
<1>7. SimpleId(raw) = SimpleCell(raw, "object_id")
  BY DEF SimpleId
<1>8. Mapped("objects", fields, raw)
         = [f \in Simple |-> IF f = "object_id" THEN SimpleId(raw) ELSE SimpleCell(raw, f)]
  BY <1>6, <1>7
<1>9. HasKey("objects", "object_id", Mapped("objects", fields, raw)) <=> SimpleId(raw) # EmptyCell
  BY <1>2, <1>3, <1>6, <1>7 DEF HasKey
<1> QED BY <1>8, <1>9

\* The tables read from CSV.
LEMMA ReadFromCsv ==
    ASSUME IngestionInv, NEW e \in CsvEntities
    PROVE  /\ e \in DOMAIN seen /\ command.format = "csv" /\ e \in ToSet(Order) /\ ReadFrom(e)
           /\ Listed(seen[e].lines) /\ CsvTable(seen[e]) /\ command \in Commands
<1>1. e \in DOMAIN seen /\ command.format = "csv"
  BY DEF CsvEntities
<1>2. e \in ToSet(Order) /\ ReadFrom(e) /\ command \in Commands /\ began = command.disk
  BY <1>1 DEF IngestionInv, Reading, Growing
<1>3. PICK f : f = command.mapping[e].file
  OBVIOUS
<1>4. /\ f \in DOMAIN began /\ seen[e].columns = began[f].columns
      /\ seen[e].lines \in Seq(Seq(Cell)) /\ Listed(seen[e].lines)
  BY <1>1, <1>2, <1>3 DEF ReadFrom
<1>5. began[f].columns \in Seq(STRING) /\ IsInjective(began[f].columns)
  BY <1>1, <1>2, <1>4, CommandsAssumption
<1>6. CsvTable(seen[e])
  BY <1>4, <1>5 DEF CsvTable
<1> QED BY <1>1, <1>2, <1>4, <1>6

(***************************************************************************)
(* PathsAgree: on any table with an object_id column, _load_entity_records *)
(* under a mapping of the four columns to themselves, and the CSV          *)
(* adapter's own loop, give the same objects or refuse the same row,       *)
(* unless the adapter crashes on surplus cells.                            *)
(***************************************************************************)
THEOREM WaysInAgree == Spec => []PathsAgree
<1>1. IngestionInv => PathsAgree
  <2> DEFINE table == seen["objects"]
             rows == CsvRows(table)
             entity == command.mapping["objects"]
             r == LoadTable("objects", entity, table, "csv")
             s == SimpleLoad(table)
  <2> SUFFICES ASSUME IngestionInv, "objects" \in CsvEntities, PlainMapping,
                      "object_id" \in ToSet(table.columns), ~Crashes(table)
               PROVE  [ok |-> at > 1, records |-> loaded["objects"],
                       failed |-> IF at > 1 THEN 0 ELSE failed] = s
    BY DEF PathsAgree
  <2>1. /\ "objects" \in DOMAIN seen /\ command.format = "csv" /\ ReadFrom("objects")
        /\ Listed(table.lines) /\ command \in Commands
    BY ReadFromCsv
  <2>2. /\ entity.primary_key = "object_id" /\ entity.fields = [f \in Simple |-> Plain(f)]
        /\ "object_id" \in DOMAIN entity.fields
    BY DEF PlainMapping, Simple
  <2>3. command.input # "objects_csv"
    <3>1. DOMAIN entity.fields # {}
      BY <2>2
    <3> QED BY <2>1, <3>1, CommandsAssumption
  <2>4. ResultOf("objects") = r
    BY <2>1, <2>3 DEF ResultOf
  <2>5. /\ loaded["objects"] = r.records
        /\ (at > 1 /\ r.ok) \/ (at = 1 /\ ~r.ok /\ failed = r.failed)
    <3>1. Position(1) /\ at \in Nat
      BY FivePositions DEF IngestionInv, Reading
    <3> QED BY <2>1, <2>4, <3>1, FivePositions DEF Position, ReadFrom
  <2>6. /\ RawRecords(table, "csv") = rows /\ Readable(table, "csv")
        /\ DOMAIN rows = 1 .. Len(rows) /\ Len(rows) \in Nat
    <3>1. table.columns # <<>>
      BY DEF ToSet
    <3> QED BY <2>1, <3>1, RawAre DEF RawRecords, Readable
  <2> HIDE DEF table, rows, entity, r, s
  <2>7. ASSUME NEW i \in DOMAIN rows
        PROVE  /\ MappedRow("objects", entity, table, "csv", i)
                     = [f \in Simple |-> IF f = "object_id" THEN SimpleId(rows[i].raw)
                                         ELSE SimpleCell(rows[i].raw, f)]
               /\ HasKey("objects", entity.primary_key, MappedRow("objects", entity, table, "csv", i))
                     <=> SimpleId(rows[i].raw) # EmptyCell
    BY <2>2, <2>6, SameRow DEF MappedRow
  <2>8. CASE SimpleLoads(table)
    <3>1. Loads("objects", entity, table, "csv")
      <4>1. \A i \in DOMAIN rows : SimpleId(rows[i].raw) # EmptyCell
        BY <2>8 DEF SimpleLoads, rows
      <4>2. IdField["objects"] = "object_id"
        BY DEF IdField
      <4> QED BY <2>2, <2>6, <2>7, <4>1, <4>2 DEF Loads
    <3>2. /\ r.ok /\ r.failed = 0 /\ Listed(r.records) /\ DOMAIN r.records = 1 .. Len(rows)
          /\ Len(r.records) = Len(rows)
          /\ \A i \in 1 .. Len(rows) :
                r.records[i] = Build("objects", MappedRow("objects", entity, table, "csv", i), rows[i].number)
      BY <2>1, <2>6, <3>1, LoadIs DEF r, table
    <3>3. \A i \in 1 .. Len(rows) : r.records[i] = SimpleObject(rows[i])
      BY <2>6, <2>7, <3>2 DEF SimpleObject
    <3>4. r.records = [i \in DOMAIN rows |-> SimpleObject(rows[i])]
      <4>1. r.records = [i \in DOMAIN r.records |-> r.records[i]]
        BY <3>2 DEF Listed
      <4> QED BY <2>6, <3>2, <3>3, <4>1
    <3>5. s = [ok |-> TRUE, failed |-> 0, records |-> [i \in DOMAIN rows |-> SimpleObject(rows[i])]]
      BY <2>1, <2>8, SimpleIs DEF s, rows, table
    <3>6. at > 1
      BY <2>5, <3>2
    <3> DEFINE x == [i \in DOMAIN rows |-> SimpleObject(rows[i])]
    <3>7. loaded["objects"] = x /\ s = [ok |-> TRUE, failed |-> 0, records |-> x]
      BY <2>5, <3>4, <3>5
    <3> HIDE DEF x
    <3> QED BY <3>6, <3>7
  <2>9. CASE ~SimpleLoads(table)
    <3>1. PICK i \in DOMAIN rows : SimpleKeyless(table, i) /\ s = Refuse(rows[i].number)
      BY <2>1, <2>9, SimpleIs DEF s, rows, table
    <3>2. FirstKeyless("objects", entity, table, "csv", i)
      <4>1. SimpleId(rows[i].raw) = EmptyCell
        BY <3>1 DEF SimpleKeyless, rows
      <4>2. ASSUME NEW k \in 1 .. i - 1
            PROVE  HasKey("objects", entity.primary_key, MappedRow("objects", entity, table, "csv", k))
        <5>1. k \in DOMAIN rows
          BY <2>6
        <5>2. SimpleId(rows[k].raw) # EmptyCell
          BY <3>1 DEF SimpleKeyless, rows
        <5> QED BY <2>7, <5>1, <5>2
      <4> QED BY <2>6, <2>7, <4>1, <4>2 DEF FirstKeyless
    <3>3. r = Refuse(rows[i].number)
      <4>1. Listed(table.lines)
        BY <2>1 DEF table
      <4>2. i \in 1 .. Len(RawRecords(table, "csv"))
        BY <2>6
      <4>3. LoadTable("objects", entity, table, "csv") = Refuse(RawRecords(table, "csv")[i].number)
        BY <2>6, <3>2, <4>1, <4>2, RefusedAt
      <4> QED BY <2>6, <4>3 DEF r
    <3>4. /\ r.ok = FALSE /\ r.records = <<>> /\ r.failed = rows[i].number
          /\ s = [ok |-> FALSE, records |-> <<>>, failed |-> rows[i].number]
      BY <3>1, <3>3 DEF Refuse
    <3>5. at = 1 /\ failed = rows[i].number /\ loaded["objects"] = <<>>
      BY <2>5, <3>4
    <3>6. (at > 1) = FALSE /\ (IF at > 1 THEN 0 ELSE failed) = failed
      BY <3>5
    <3> QED BY <3>4, <3>5, <3>6
  <2> QED BY <2>8, <2>9
<1> QED BY <1>1, Ingests, PTL

\* What loading a CSV table under a mapping promises, field by field.
LEMMA CsvLoadIs ==
    ASSUME NEW e \in ToSet(Order), NEW entity, NEW table, CsvTable(table),
           NEW r, r = LoadTable(e, entity, table, "csv")
    PROVE  /\ r.ok =>
                 /\ Len(r.records) = Len(Filled(table)) /\ DOMAIN r.records = 1 .. Len(Filled(table))
                 /\ \A k \in 1 .. Len(Filled(table)) :
                       /\ r.records[k].source_row = k + 1
                       /\ \A f \in DOMAIN entity.fields \cap BuiltScalars(e) :
                             ~IsList(entity.fields[f]) =>
                                r.records[k][f] = Canonical(KindOf(e, f),
                                    CellAt(table, LineOf(table, k), entity.fields[f].source))
                       /\ entity.primary_key = IdField[e] => r.records[k][IdField[e]] # EmptyCell
           /\ ~r.ok =>
                 /\ r.records = <<>>
                 /\ r.failed = 0
                    \/ \E i \in 1 .. Len(Filled(table)) :
                          r.failed = i + 1 /\ FirstKeyless(e, entity, table, "csv", i)
<1> DEFINE rows == CsvRows(table)
           n == Len(Filled(table))
           mapped(k) == MappedRow(e, entity, table, "csv", k)
<1>1. Listed(table.lines) /\ RawRecords(table, "csv") = rows
  BY ListedIn DEF CsvTable, RawRecords
<1>2. /\ Len(rows) = n /\ DOMAIN rows = 1 .. n /\ n \in Nat
      /\ \A k \in 1 .. n : rows[k].number = k + 1
  BY <1>1, CsvRowsAre
<1>8. /\ r.ok <=> Loads(e, entity, table, "csv")
      /\ r.ok =>
            /\ Len(r.records) = Len(RawRecords(table, "csv"))
            /\ DOMAIN r.records = 1 .. Len(RawRecords(table, "csv"))
            /\ \A i \in 1 .. Len(RawRecords(table, "csv")) :
                  r.records[i]
                     = Build(e, MappedRow(e, entity, table, "csv", i), RawRecords(table, "csv")[i].number)
      /\ ~r.ok =>
            /\ r.records = <<>>
            /\ r.failed = 0
               \/ \E i \in 1 .. Len(RawRecords(table, "csv")) :
                     /\ FirstKeyless(e, entity, table, "csv", i)
                     /\ r.failed = RawRecords(table, "csv")[i].number
  <2>1. Listed(table.lines)
    BY <1>1
  <2> HIDE <1>1
  <2>2. r.ok <=> Loads(e, entity, table, "csv")
    BY <2>1, LoadIs
  <2>3. r.ok =>
            /\ Len(r.records) = Len(RawRecords(table, "csv"))
            /\ DOMAIN r.records = 1 .. Len(RawRecords(table, "csv"))
            /\ \A i \in 1 .. Len(RawRecords(table, "csv")) :
                  r.records[i]
                     = Build(e, MappedRow(e, entity, table, "csv", i), RawRecords(table, "csv")[i].number)
    BY <2>1, LoadIs
  <2>4. ~r.ok =>
            /\ r.records = <<>>
            /\ r.failed = 0
               \/ \E i \in 1 .. Len(RawRecords(table, "csv")) :
                     /\ FirstKeyless(e, entity, table, "csv", i)
                     /\ r.failed = RawRecords(table, "csv")[i].number
    BY <2>1, LoadIs
  <2> QED BY <2>2, <2>3, <2>4
<1>3. /\ r.ok <=> Loads(e, entity, table, "csv")
      /\ r.ok => /\ Len(r.records) = n /\ DOMAIN r.records = 1 .. n
                 /\ \A k \in 1 .. n : r.records[k] = Build(e, mapped(k), rows[k].number)
      /\ ~r.ok => /\ r.records = <<>>
                  /\ r.failed = 0
                     \/ \E i \in 1 .. n :
                           FirstKeyless(e, entity, table, "csv", i) /\ r.failed = rows[i].number
  BY <1>1, <1>2, <1>8
<1>4. ASSUME NEW k \in 1 .. n
      PROVE  mapped(k) = Mapped(e, entity.fields, rows[k].raw)
  BY <1>1 DEF MappedRow
<1> HIDE DEF rows, n, mapped
<1>5. ASSUME r.ok, NEW k \in 1 .. n
      PROVE  /\ r.records[k].source_row = k + 1
             /\ \A f \in DOMAIN entity.fields \cap BuiltScalars(e) :
                   ~IsList(entity.fields[f]) =>
                      r.records[k][f] = Canonical(KindOf(e, f),
                          CellAt(table, LineOf(table, k), entity.fields[f].source))
             /\ entity.primary_key = IdField[e] => r.records[k][IdField[e]] # EmptyCell
  <2>1. r.records[k] = Build(e, mapped(k), rows[k].number)
    BY <1>3, <1>5
  <2>2. r.records[k].source_row = k + 1
    BY <1>2, <2>1, Built
  <2>3. ASSUME NEW f \in DOMAIN entity.fields \cap BuiltScalars(e), ~IsList(entity.fields[f])
        PROVE  r.records[k][f] = Canonical(KindOf(e, f),
                          CellAt(table, LineOf(table, k), entity.fields[f].source))
    <3>1. /\ f \in DOMAIN mapped(k)
          /\ mapped(k)[f] = CellAt(table, LineOf(table, k), entity.fields[f].source)
      BY <1>4, <2>3, ScalarMapped DEF rows, n
    <3> QED BY <2>1, <3>1, Built
  <2>4. ASSUME entity.primary_key = IdField[e]
        PROVE  r.records[k][IdField[e]] # EmptyCell
    <3>1. HasKey(e, entity.primary_key, mapped(k))
      BY <1>1, <1>2, <1>3, <1>5 DEF Loads, mapped
    <3>2. /\ IdField[e] \in BuiltScalars(e) /\ IdField[e] \notin ListFields(e)
          /\ KindOf(e, IdField[e]) = "text"
      BY FieldNames
    <3>3. IdField[e] \in DOMAIN mapped(k) /\ mapped(k)[IdField[e]] # EmptyCell
      BY <2>4, <3>1, <3>2 DEF HasKey
    <3>4. r.records[k][IdField[e]] = Canonical("text", mapped(k)[IdField[e]])
      BY <2>1, <3>2, <3>3, Built
    <3> QED BY <3>3, <3>4 DEF Canonical
  <2> QED BY <2>2, <2>3, <2>4
<1>6. ASSUME ~r.ok
      PROVE  /\ r.records = <<>>
             /\ r.failed = 0
                \/ \E i \in 1 .. n : r.failed = i + 1 /\ FirstKeyless(e, entity, table, "csv", i)
  BY <1>2, <1>3, <1>6
<1>7. r.ok => Len(r.records) = n /\ DOMAIN r.records = 1 .. n
  BY <1>3
<1> QED BY <1>5, <1>6, <1>7 DEF n

\* What the CSV adapter promises.
LEMMA SimpleLoadIs ==
    ASSUME NEW table, Listed(table.lines), NEW s, s = SimpleLoad(table)
    PROVE  /\ s.ok =>
                 /\ Len(s.records) = Len(Filled(table)) /\ DOMAIN s.records = 1 .. Len(Filled(table))
                 /\ \A k \in 1 .. Len(Filled(table)) :
                       s.records[k].source_row = k + 1 /\ s.records[k]["object_id"] # EmptyCell
           /\ ~s.ok => s.records = <<>>
<1> DEFINE rows == CsvRows(table)
           n == Len(Filled(table))
           x == [i \in DOMAIN rows |-> SimpleObject(rows[i])]
           row(k) == [f \in Simple |-> IF f = "object_id" THEN SimpleId(rows[k].raw)
                                       ELSE SimpleCell(rows[k].raw, f)]
<1>1. DOMAIN rows = 1 .. n /\ n \in Nat /\ \A k \in 1 .. n : rows[k].number = k + 1
  BY CsvRowsAre
<1>2. CASE ~SimpleLoads(table)
  BY <1>2, SimpleIs
<1>3. CASE SimpleLoads(table)
  <2>1. s = [ok |-> TRUE, failed |-> 0, records |-> x]
    BY <1>3, SimpleIs
  <2>2. Len(x) = n /\ DOMAIN x = 1 .. n
    <3>1. x = [i \in 1 .. n |-> x[i]]
      BY <1>1
    <3> HIDE DEF x
    <3> QED BY <1>1, <3>1, ListedMap
  <2>3. ASSUME NEW k \in 1 .. n
        PROVE  x[k].source_row = k + 1 /\ x[k]["object_id"] # EmptyCell
    <3>1. x[k] = Build("objects", row(k), rows[k].number)
      BY <1>1 DEF SimpleObject
    <3>2. "object_id" \in DOMAIN row(k) /\ row(k)["object_id"] = SimpleId(rows[k].raw)
      BY DEF Simple
    <3>3. SimpleId(rows[k].raw) # EmptyCell
      BY <1>1, <1>3 DEF SimpleLoads
    <3>4. "objects" \in ToSet(Order) /\ IdField["objects"] = "object_id"
      BY FivePositions DEF IdField
    <3>5. "object_id" \in BuiltScalars("objects") /\ KindOf("objects", "object_id") = "text"
      BY <3>4, FieldNames
    <3> HIDE DEF row, x, rows
    <3>6. x[k]["object_id"] = Canonical("text", row(k)["object_id"])
      BY <3>1, <3>2, <3>4, <3>5, Built
    <3>7. x[k].source_row = k + 1
      BY <1>1, <3>1, <3>4, Built
    <3> QED BY <3>2, <3>3, <3>6, <3>7 DEF Canonical
  <2>4. s.ok = TRUE /\ s.records = x
    BY <2>1
  <2> HIDE DEF x
  <2> QED BY <2>2, <2>3, <2>4
<1> QED BY <1>2, <1>3

Current(e) == at <= Len(Order) /\ Order[at] = e

(***************************************************************************)
(* WholeOrRefused: every line of a CSV table that is not blank gives one   *)
(* record, whose fields are the line's own cells and whose row number      *)
(* points at the line, or the table is refused at its first line without   *)
(* a key; for any mapping, header and lines.                               *)
(***************************************************************************)
THEOREM NothingLostOnTheWayIn == Spec => []WholeOrRefused
<1>1. IngestionInv => WholeOrRefused
  <2> SUFFICES ASSUME IngestionInv, NEW e \in CsvEntities
               PROVE  LET table == seen[e]
                          entity == command.mapping[e]
                      IN
                      /\ ~Current(e) => Len(loaded[e]) = Len(Filled(table))
                      /\ \A k \in DOMAIN loaded[e] :
                            /\ \A f \in Scalar(e) :
                                  loaded[e][k][f] = Canonical(KindOf(e, f),
                                     CellAt(table, LineOf(table, k), entity.fields[f].source))
                            /\ loaded[e][k].source_row + Cardinality(BlankAbove(table, LineOf(table, k)))
                                  = LineOf(table, k) + 1
                      /\ entity.primary_key = IdField[e] =>
                            EmptyCell \notin {r[IdField[e]] : r \in ToSet(loaded[e])}
                      /\ Current(e) /\ failed # 0 /\ entity.primary_key \in Scalar(e) =>
                            /\ loaded[e] = <<>>
                            /\ CellAt(table, LineOf(table, failed - 1), entity.fields[entity.primary_key].source)
                                  = EmptyCell
                            /\ \A k \in 1 .. failed - 2 :
                                  CellAt(table, LineOf(table, k), entity.fields[entity.primary_key].source)
                                     # EmptyCell
    BY DEF WholeOrRefused, Current
  <2> DEFINE table == seen[e]
             entity == command.mapping[e]
  <2>1. /\ e \in DOMAIN seen /\ command.format = "csv" /\ e \in ToSet(Order) /\ ReadFrom(e)
        /\ Listed(table.lines) /\ CsvTable(table) /\ command \in Commands
    BY ReadFromCsv
  <2>2. PICK r : r = ResultOf(e)
    OBVIOUS
  <2> DEFINE n == Len(Filled(table))
  <2>3. /\ loaded[e] = r.records
        /\ (~Current(e) /\ r.ok) \/ (Current(e) /\ ~r.ok /\ failed = r.failed)
    <3>1. PICK p \in 1 .. 5 : Order[p] = e
      BY <2>1, FivePositions
    <3>2. Position(p) /\ at \in 1 .. 6
      BY FivePositions DEF IngestionInv, Reading
    <3>3. Current(e) <=> at = p
      <4>1. at \in 1 .. 5 => (Order[at] = Order[p] <=> at = p)
        BY FivePositions
      <4>2. Len(Order) = 5
        BY FivePositions
      <4> QED BY <3>1, <3>2, <4>1, <4>2 DEF Current
    <3> QED BY <2>1, <2>2, <3>1, <3>2, <3>3 DEF Position, ReadFrom
  <2>4. n \in Nat /\ \A k \in 1 .. n :
           k + 1 + Cardinality(BlankAbove(table, LineOf(table, k))) = LineOf(table, k) + 1
    BY <2>1, FilledIs, RowNumbers
  <2>5. \A f : f \in Scalar(e) <=>
           f \in DOMAIN entity.fields \cap BuiltScalars(e) /\ ~IsList(entity.fields[f])
    BY DEF Scalar
  <2>6. CASE command.input = "objects_csv"
    <3>1. e = "objects" /\ Scalar(e) = {}
      <4>1. DOMAIN command.mapping = {"objects"} /\ DOMAIN command.mapping.objects.fields = {}
        BY <2>1, <2>6, CommandsAssumption
      <4>2. e = "objects"
        BY <2>1, <4>1 DEF ReadFrom
      <4> QED BY <2>5, <4>1, <4>2
    <3>2. r = SimpleLoad(table)
      BY <2>2, <2>6 DEF ResultOf
    <3>3. IdField[e] = "object_id"
      BY <3>1 DEF IdField
    <3>4. /\ r.ok => /\ Len(r.records) = n /\ DOMAIN r.records = 1 .. n
                     /\ \A k \in 1 .. n : r.records[k].source_row = k + 1 /\ r.records[k]["object_id"] # EmptyCell
          /\ ~r.ok => r.records = <<>>
      BY <2>1, <3>2, SimpleLoadIs
    <3> HIDE DEF n
    <3>5. ASSUME NEW k \in DOMAIN loaded[e]
          PROVE  /\ k \in 1 .. n /\ r.ok /\ loaded[e][k].source_row = k + 1
                 /\ loaded[e][k][IdField[e]] # EmptyCell
      BY <2>3, <3>3, <3>4, <3>5
    <3>6. ~Current(e) => Len(loaded[e]) = n
      BY <2>3, <3>4
    <3>7. EmptyCell \notin {x[IdField[e]] : x \in ToSet(loaded[e])}
      BY <3>5 DEF ToSet
    <3>8. \A k \in DOMAIN loaded[e] :
             loaded[e][k].source_row + Cardinality(BlankAbove(table, LineOf(table, k)))
                = LineOf(table, k) + 1
      BY <2>4, <3>5
    <3> QED BY <3>1, <3>6, <3>7, <3>8 DEF n
  <2>7. CASE command.input # "objects_csv"
    <3>1. r = LoadTable(e, entity, table, "csv")
      BY <2>1, <2>2, <2>7 DEF ResultOf
    <3>2. /\ r.ok =>
                 /\ Len(r.records) = n /\ DOMAIN r.records = 1 .. n
                 /\ \A k \in 1 .. n :
                       /\ r.records[k].source_row = k + 1
                       /\ \A f \in Scalar(e) :
                             r.records[k][f] = Canonical(KindOf(e, f),
                                    CellAt(table, LineOf(table, k), entity.fields[f].source))
                       /\ entity.primary_key = IdField[e] => r.records[k][IdField[e]] # EmptyCell
          /\ ~r.ok =>
                 /\ r.records = <<>>
                 /\ r.failed = 0
                    \/ \E i \in 1 .. n :
                          r.failed = i + 1 /\ FirstKeyless(e, entity, table, "csv", i)
      BY <2>1, <2>5, <3>1, CsvLoadIs
    <3>3. CASE r.ok
      <4>1. ~Current(e) /\ loaded[e] = r.records
        BY <2>3, <3>3
      <4>2. /\ Len(loaded[e]) = n /\ DOMAIN loaded[e] = 1 .. n
            /\ \A k \in 1 .. n :
                  /\ loaded[e][k].source_row = k + 1
                  /\ \A f \in Scalar(e) :
                        loaded[e][k][f] = Canonical(KindOf(e, f),
                               CellAt(table, LineOf(table, k), entity.fields[f].source))
                  /\ entity.primary_key = IdField[e] => loaded[e][k][IdField[e]] # EmptyCell
        BY <3>2, <3>3, <4>1
      <4> HIDE DEF n
      <4>3. entity.primary_key = IdField[e] => EmptyCell \notin {x[IdField[e]] : x \in ToSet(loaded[e])}
        BY <4>2 DEF ToSet
      <4>4. \A k \in DOMAIN loaded[e] :
               loaded[e][k].source_row + Cardinality(BlankAbove(table, LineOf(table, k)))
                  = LineOf(table, k) + 1
        BY <2>4, <4>2
      <4> QED BY <4>1, <4>2, <4>3, <4>4 DEF n
    <3>4. CASE ~r.ok
      <4>1. loaded[e] = <<>> /\ Current(e) /\ failed = r.failed
        BY <2>3, <3>2, <3>4
      <4>2. ASSUME failed # 0, entity.primary_key \in Scalar(e)
            PROVE  /\ CellAt(table, LineOf(table, failed - 1), entity.fields[entity.primary_key].source)
                         = EmptyCell
                   /\ \A k \in 1 .. failed - 2 :
                         CellAt(table, LineOf(table, k), entity.fields[entity.primary_key].source)
                            # EmptyCell
        <5>1. PICK i \in 1 .. n : failed = i + 1 /\ FirstKeyless(e, entity, table, "csv", i)
          BY <3>2, <3>4, <4>1, <4>2
        <5>2. PICK key : key = entity.primary_key
          OBVIOUS
        <5>3. key \in DOMAIN entity.fields \cap BuiltScalars(e) /\ ~IsList(entity.fields[key])
          BY <2>5, <4>2, <5>2
        <5>4. key \notin ListFields(e)
          BY <2>1, <5>3, FieldNames
        <5>5. ASSUME NEW k \in 1 .. n
              PROVE  HasKey(e, key, MappedRow(e, entity, table, "csv", k))
                        <=> CellAt(table, LineOf(table, k), entity.fields[key].source) # EmptyCell
          <6> DEFINE m == Mapped(e, entity.fields, CsvRows(table)[k].raw)
          <6>1. key \in DOMAIN m /\ m[key] = CellAt(table, LineOf(table, k), entity.fields[key].source)
            BY <2>1, <5>3, ScalarMapped
          <6>2. MappedRow(e, entity, table, "csv", k) = m
            BY DEF MappedRow, RawRecords
          <6> HIDE DEF m
          <6> QED BY <5>4, <6>1, <6>2 DEF HasKey
        <5>6. /\ ~HasKey(e, key, MappedRow(e, entity, table, "csv", i))
              /\ \A k \in 1 .. i - 1 : HasKey(e, key, MappedRow(e, entity, table, "csv", k))
          BY <5>1, <5>2 DEF FirstKeyless
        <5>7. failed - 1 = i /\ failed - 2 = i - 1 /\ \A k \in 1 .. i - 1 : k \in 1 .. n
          BY <2>4, <5>1
        <5> QED BY <5>2, <5>5, <5>6, <5>7
      <4>3. DOMAIN loaded[e] = {} /\ ToSet(loaded[e]) = {}
        BY <4>1 DEF ToSet
      <4> QED BY <4>1, <4>2, <4>3
    <3> QED BY <3>3, <3>4
  <2> QED BY <2>6, <2>7
<1> QED BY <1>1, Ingests, PTL
=============================================================================
