------------------------- MODULE FetchSample_proofs -------------------------
(***************************************************************************)
(* The sampling bound of LineSampling holds for every limit and source,    *)
(* endless ones included, and the script implements the bounded reader:    *)
(* whichever path it takes, whatever its arguments, and through every step *)
(* of the directory's sampler, what happens to the lines is a behaviour of *)
(* LineSampling.                                                           *)
(*                                                                         *)
(* Then the directory's sampler itself, for every set of exports: what it  *)
(* leaves behind is closed, finds what the export finds, and raises no     *)
(* alarm the export does not; the lifespan rule and the display order are  *)
(* exact.  Positions and ranks are counted, so that nothing is sorted.     *)
(*                                                                         *)
(* Last, what a CSV reader finds in a file's sample: the first records of  *)
(* the source, on the local path as far as splitlines leaves them whole.   *)
(***************************************************************************)
EXTENDS FetchSample, FiniteSetTheorems, FunctionTheorems, SequenceTheorems, TLAPS

\* What the loop keeps true: header first, then one kept line for every line
\* consumed, until the one line that is consumed and dropped at the end.
Progress ==
    /\ pc = "header" => consumed = 0 /\ out = <<>>
    /\ pc = "loop" => consumed = Len(out) /\ consumed >= 1 /\ consumed <= limit + 1
    /\ pc = "done" => \/ consumed = Len(out) /\ Len(out) <= limit + 1
                         /\ ~source.endless /\ Len(out) >= Len(source.lines)
                      \/ consumed = Len(out) + 1 /\ Len(out) = limit + 1

\* A finite source is never read past its end.
WithinSource == ~source.endless => consumed <= Len(source.lines)

FirstLines == \A i \in 1 .. Len(out) : out[i] = LineAt(i)

SampleInv == TypeOK /\ Progress /\ WithinSource /\ FirstLines

LEMMA NextLineIsLine ==
    ASSUME TypeOK, More
    PROVE  NextLine \in LineKind /\ NextLine = LineAt(consumed + 1)
<1>1. /\ source.lines \in Seq(LineKind) /\ Len(source.lines) \in Nat /\ consumed \in Nat
      /\ \A i \in 1 .. Len(source.lines) : source.lines[i] \in LineKind
  BY SamplingAssumption DEF TypeOK, Source
<1>2. CASE consumed < Len(source.lines)
  <2>1. consumed + 1 \in 1 .. Len(source.lines)
    BY <1>1, <1>2
  <2> QED BY <1>1, <1>2, <2>1 DEF NextLine, LineAt
<1>3. CASE ~(consumed < Len(source.lines))
  <2>1. ~(consumed + 1 <= Len(source.lines))
    BY <1>1, <1>3
  <2> QED BY <1>3, <2>1 DEF NextLine, LineAt, LineKind
<1> QED BY <1>2, <1>3

LEMMA SampleInit == Init => SampleInv
BY SamplingAssumption
   DEF Init, SampleInv, TypeOK, Progress, WithinSource, FirstLines, Source

LEMMA SampleStep == SampleInv /\ [Next]_vars => SampleInv'
<1> SUFFICES ASSUME SampleInv, [Next]_vars PROVE SampleInv'
  OBVIOUS
<1> USE DEF SampleInv
<1>0. /\ limit \in Nat /\ consumed \in Nat /\ out \in Seq(LineKind) /\ Len(out) \in Nat
      /\ source.lines \in Seq(LineKind) /\ Len(source.lines) \in Nat
      /\ source.endless \in BOOLEAN
  BY SamplingAssumption DEF TypeOK, Source
<1>1. CASE TakeHeader
  <2>1. NextLine \in LineKind /\ NextLine = LineAt(1)
    BY <1>1, NextLineIsLine DEF TakeHeader, Progress
  <2>2. /\ out' = <<NextLine>> /\ consumed' = 1 /\ pc' = "loop"
        /\ limit' = limit /\ source' = source
    BY <1>1 DEF TakeHeader
  <2>3. TypeOK'
    BY <2>1, <2>2 DEF TypeOK
  <2>4. Progress'
    BY <1>0, <2>2 DEF Progress
  <2>5. WithinSource'
    BY <1>0, <1>1, <2>2 DEF WithinSource, TakeHeader, More, Progress
  <2>6. FirstLines'
    BY <2>1, <2>2 DEF FirstLines, LineAt
  <2> QED BY <2>3, <2>4, <2>5, <2>6
<1>2. CASE Exhausted
  <2>1. /\ pc' = "done" /\ UNCHANGED <<limit, source, consumed, out>>
        /\ ~source.endless /\ consumed >= Len(source.lines)
    BY <1>0, <1>2 DEF Exhausted, More
  <2>2. consumed = Len(out) /\ Len(out) <= limit + 1
    BY <1>0, <1>2 DEF Exhausted, Progress
  <2>3. Progress'
    BY <1>0, <2>1, <2>2 DEF Progress
  <2> QED BY <2>1, <2>3 DEF TypeOK, WithinSource, FirstLines, LineAt
<1>3. CASE TakeLine
  <2>1. NextLine \in LineKind /\ NextLine = LineAt(consumed + 1)
    BY <1>3, NextLineIsLine DEF TakeLine
  <2>2. /\ consumed' = consumed + 1 /\ limit' = limit /\ source' = source
        /\ consumed = Len(out) /\ consumed >= 1 /\ consumed <= limit + 1
    BY <1>3 DEF TakeLine, Progress
  <2>3. WithinSource'
    BY <1>0, <1>3, <2>2 DEF WithinSource, TakeLine, More
  <2>4. CASE consumed - 1 >= limit
    <3>1. pc' = "done" /\ out' = out
      BY <1>3, <2>4 DEF TakeLine
    <3>2. Progress'
      BY <1>0, <2>2, <2>4, <3>1 DEF Progress
    <3> QED BY <2>2, <2>3, <3>1, <3>2 DEF TypeOK, FirstLines, LineAt
  <2>5. CASE ~(consumed - 1 >= limit)
    <3>1. pc' = "loop" /\ out' = Append(out, NextLine)
      BY <1>3, <2>5 DEF TakeLine
    <3>2. Len(out') = Len(out) + 1 /\ out' \in Seq(LineKind)
      BY <1>0, <2>1, <3>1
    <3>3. Progress'
      BY <1>0, <2>2, <2>5, <3>1, <3>2 DEF Progress
    <3>4. FirstLines'
      <4> SUFFICES ASSUME NEW i \in 1 .. Len(out') PROVE out'[i] = LineAt(i)'
        BY DEF FirstLines
      <4>1. CASE i \in 1 .. Len(out)
        <5>1. out'[i] = out[i]
          BY <1>0, <2>1, <3>1, <4>1
        <5> QED BY <2>2, <4>1, <5>1 DEF FirstLines, LineAt
      <4>2. CASE i = Len(out) + 1
        <5>1. out'[i] = NextLine
          BY <1>0, <2>1, <3>1, <4>2
        <5> QED BY <2>1, <2>2, <4>2, <5>1 DEF LineAt
      <4> QED BY <1>0, <3>2, <4>1, <4>2
    <3> QED BY <2>2, <2>3, <3>1, <3>2, <3>3, <3>4 DEF TypeOK
  <2> QED BY <2>4, <2>5
<1>4. CASE UNCHANGED vars
  BY <1>4 DEF vars, TypeOK, Progress, WithinSource, FirstLines, LineAt
<1> QED BY <1>1, <1>2, <1>3, <1>4 DEF Next

LEMMA SampleMeans == SampleInv => Bounded /\ NothingWithheld
<1> SUFFICES ASSUME SampleInv PROVE Bounded /\ NothingWithheld
  OBVIOUS
<1>0. /\ limit \in Nat /\ consumed \in Nat /\ Len(out) \in Nat
      /\ Len(source.lines) \in Nat /\ source.endless \in BOOLEAN
  BY SamplingAssumption DEF SampleInv, TypeOK, Source
<1>1. /\ consumed <= limit + 2 /\ Len(out) <= limit + 1 /\ consumed <= Len(out) + 1
  BY <1>0 DEF SampleInv, TypeOK, Progress
<1>2. NothingWithheld
  BY <1>0 DEF SampleInv, Progress, WithinSource, NothingWithheld
<1> QED BY <1>1, <1>2 DEF SampleInv, FirstLines, Bounded

(***************************************************************************)
(* Whatever the limit and however long the source, at most limit + 2 lines *)
(* are read and the sample is the source's first lines, at most limit + 1  *)
(* (the safety boundary of take_bounded_lines).                            *)
(***************************************************************************)
THEOREM SampleBounded == Spec => [](Bounded /\ NothingWithheld)
<1>1. Spec => []SampleInv
  BY SampleInit, SampleStep, PTL DEF Spec
<1> QED BY <1>1, SampleMeans, PTL
-----------------------------------------------------------------------------
LEMMA FetchStarts == FetchInit => Init
<1> SUFFICES ASSUME FetchInit PROVE Init
  OBVIOUS
<1>1. args \in Requests /\ limit = (IF Refused(args) THEN 0 ELSE args.limit)
  BY DEF FetchInit
<1>2. limit \in Limits
  BY <1>1, FetchAssumption
<1>3. source \in Sources /\ consumed = 0 /\ out = <<>> /\ pc = "header"
  BY DEF FetchInit
<1> QED BY <1>2, <1>3 DEF Init

LEMMA FetchSteps == [FetchNext]_fetchVars => [Next]_vars
<1> SUFFICES ASSUME [FetchNext]_fetchVars PROVE [Next]_vars
  OBVIOUS
<1>1. CASE TakeLines
  BY <1>1 DEF TakeLines
<1>2. CASE WriteLines
  BY <1>2 DEF WriteLines
<1>3. CASE BoundDirectory
  BY <1>3 DEF BoundDirectory
<1>4. CASE UNCHANGED fetchVars
  BY <1>4 DEF fetchVars
<1> QED BY <1>1, <1>2, <1>3, <1>4 DEF FetchNext

(***************************************************************************)
(* scripts/fetch_sample.py refines take_bounded_lines, so for every limit  *)
(* and every source, local, remote or endless, the script reads at most    *)
(* limit + 2 lines and keeps the first ones ("the same tested bound        *)
(* governs both").                                                         *)
(***************************************************************************)
THEOREM FetchImplementsSampling == FetchSpec => Spec
BY FetchStarts, FetchSteps, PTL DEF FetchSpec, Spec

THEOREM FetchBounded == FetchSpec => []Bounded
<1>1. Spec => []Bounded
  BY SampleBounded, PTL
<1> QED BY <1>1, FetchImplementsSampling, PTL

-----------------------------------------------------------------------------
\* Ranks, and the rows of a table.
LEMMA SameWords == /\ \A S : Nga!Cardinality(S) = Cardinality(S)
                   /\ \A s : Nga!ToSet(s) = ToSet(s)
<1>1. \A S : Nga!Cardinality(S) = Cardinality(S)
  BY DEF Cardinality, Nga!Cardinality
<1>2. \A s : Nga!ToSet(s) = ToSet(s)
  BY DEF ToSet, Nga!ToSet
<1> QED BY <1>1, <1>2

\* The elements of a set of positions, counted from the left.
LEMMA Ranks ==
    ASSUME NEW n \in Nat, NEW K \in SUBSET (1 .. n)
    PROVE  /\ Cardinality(K) \in Nat
           /\ \A i \in K : Cardinality(K \cap 1 .. i) \in 1 .. Cardinality(K)
           /\ \A i, j \in K : Cardinality(K \cap 1 .. i) = Cardinality(K \cap 1 .. j) => i = j
           /\ \A k \in 1 .. Cardinality(K) : \E i \in K : Cardinality(K \cap 1 .. i) = k
<1> DEFINE rank(i) == Cardinality(K \cap 1 .. i)
           T == 1 .. Cardinality(K)
           f == [i \in K |-> rank(i)]
<1>1. IsFiniteSet(K) /\ Cardinality(K) \in Nat
  <2>1. IsFiniteSet(1 .. n)
    BY FS_Interval
  <2> QED BY <2>1, FS_Subset, FS_CardinalityType
<1>2. ASSUME NEW i \in K
      PROVE  IsFiniteSet(K \cap 1 .. i) /\ rank(i) \in T
  <2>1. /\ IsFiniteSet(K \cap 1 .. i) /\ Cardinality(K \cap 1 .. i) \in Nat
        /\ Cardinality(K \cap 1 .. i) <= Cardinality(K)
    BY <1>1, FS_Subset, FS_CardinalityType
  <2>2. K \cap 1 .. i # {}
    OBVIOUS
  <2>3. Cardinality(K \cap 1 .. i) # 0
    BY <2>1, <2>2, FS_EmptySet
  <2> QED BY <1>1, <2>1, <2>3
<1>3. ASSUME NEW i \in K, NEW j \in K, i < j
      PROVE  rank(i) # rank(j)
  <2>1. K \cap 1 .. i \in SUBSET (K \cap 1 .. j) /\ K \cap 1 .. i # K \cap 1 .. j
    BY <1>3
  <2> QED BY <1>2, <2>1, FS_Subset
<1>4. \A i, j \in K : rank(i) = rank(j) => i = j
  <2>1. \A i, j \in K : i < j \/ j < i \/ i = j
    OBVIOUS
  <2> HIDE DEF rank
  <2> QED BY <1>3, <2>1
<1>5. f \in Injection(K, T)
  <2>1. f \in [K -> T] /\ \A i, j \in K : f[i] = f[j] => i = j
    BY <1>2, <1>4
  <2> QED BY <2>1 DEF Injection, IsInjective
<1>6. IsFiniteSet(T) /\ Cardinality(T) = Cardinality(K)
  BY <1>1, FS_Interval
<1> HIDE DEF f, T
<1>7. f \in Surjection(K, T)
  BY <1>1, <1>5, <1>6, FS_Injection
<1>8. \A k \in T : \E i \in K : f[i] = k
  BY <1>7 DEF Surjection
<1> QED BY <1>1, <1>2, <1>4, <1>8 DEF f, T

\* The rows at some positions are those rows, and as many.
LEMMA RowsAtIs ==
    ASSUME NEW S, NEW rows \in Seq(S), NEW at \in SUBSET DOMAIN rows
    PROVE  /\ Nga!RowsAt(rows, at) \in Seq(S)
           /\ ToSet(Nga!RowsAt(rows, at)) = {rows[i] : i \in at}
<1> DEFINE nth(n) == CHOOSE i \in at : Cardinality(at \cap 1 .. i) = n
           N == 1 .. Cardinality(at)
<1>1. Len(rows) \in Nat /\ DOMAIN rows = 1 .. Len(rows) /\ \A i \in 1 .. Len(rows) : rows[i] \in S
  OBVIOUS
<1>2. /\ Cardinality(at) \in Nat
      /\ \A i \in at : Cardinality(at \cap 1 .. i) \in N
      /\ \A i, j \in at : Cardinality(at \cap 1 .. i) = Cardinality(at \cap 1 .. j) => i = j
      /\ \A n \in N : \E i \in at : Cardinality(at \cap 1 .. i) = n
  BY <1>1, Ranks
<1>3. \A n \in N : nth(n) \in at
  BY <1>2
<1>4. \A i \in at : Cardinality(at \cap 1 .. i) \in N /\ nth(Cardinality(at \cap 1 .. i)) = i
  BY <1>2
<1>5. Nga!RowsAt(rows, at) = [n \in N |-> rows[nth(n)]]
  BY DEF Nga!RowsAt, Nga!Cardinality, Cardinality
<1> HIDE DEF nth
<1>6. \A n \in N : rows[nth(n)] \in S
  BY <1>1, <1>3
<1>7. [n \in N |-> rows[nth(n)]] \in [N -> S]
  BY <1>6
<1>8. Nga!RowsAt(rows, at) \in Seq(S)
  BY <1>2, <1>5, <1>7, SeqDef
<1>9. ToSet(Nga!RowsAt(rows, at)) = {rows[nth(n)] : n \in N}
  BY <1>5 DEF ToSet
<1>10. {rows[nth(n)] : n \in N} = {rows[i] : i \in at}
  BY <1>3, <1>4
<1> QED BY <1>8, <1>9, <1>10

LEMMA NamingIs ==
    ASSUME NEW S, NEW rows \in Seq(S), NEW column, NEW ids
    PROVE  /\ Nga!Naming(rows, column, ids) \in Seq(S)
           /\ ToSet(Nga!Naming(rows, column, ids)) = {r \in ToSet(rows) : r[column] \in ids}
<1> DEFINE at == {i \in DOMAIN rows : rows[i][column] \in ids}
<1>1. at \in SUBSET DOMAIN rows
  OBVIOUS
<1>2. Nga!Naming(rows, column, ids) = Nga!RowsAt(rows, at)
  BY DEF Nga!Naming
<1>3. {rows[i] : i \in at} = {r \in ToSet(rows) : r[column] \in ids}
  BY DEF ToSet
<1> HIDE DEF at
<1> QED BY <1>1, <1>2, <1>3, RowsAtIs

\* A strict order of a set, and the elements that do not come after one.
Orders(R, K) ==
    /\ \A i, k \in K : i = k \/ <<i, k>> \in R \/ <<k, i>> \in R
    /\ \A i \in K : <<i, i>> \notin R
    /\ \A i, k, m \in K : <<i, k>> \in R /\ <<k, m>> \in R => <<i, m>> \in R

UpTo(R, K, i) == {k \in K : <<i, k>> \notin R}

LEMMA Places ==
    ASSUME NEW K, IsFiniteSet(K), NEW R, Orders(R, K)
    PROVE  /\ Cardinality(K) \in Nat
           /\ \A i \in K : Cardinality(UpTo(R, K, i)) \in 1 .. Cardinality(K)
           /\ \A i, j \in K : Cardinality(UpTo(R, K, i)) = Cardinality(UpTo(R, K, j)) => i = j
           /\ \A n \in 1 .. Cardinality(K) : \E i \in K : Cardinality(UpTo(R, K, i)) = n
<1> DEFINE place(i) == Cardinality(UpTo(R, K, i))
           T == 1 .. Cardinality(K)
           f == [i \in K |-> place(i)]
<1>1. Cardinality(K) \in Nat
  BY FS_CardinalityType
<1>2. ASSUME NEW i \in K
      PROVE  IsFiniteSet(UpTo(R, K, i)) /\ place(i) \in T
  <2>1. UpTo(R, K, i) \in SUBSET K /\ i \in UpTo(R, K, i)
    BY DEF UpTo, Orders
  <2>2. /\ IsFiniteSet(UpTo(R, K, i)) /\ place(i) \in Nat /\ place(i) <= Cardinality(K)
    BY <1>1, <2>1, FS_Subset, FS_CardinalityType
  <2>3. place(i) # 0
    BY <2>1, <2>2, FS_EmptySet
  <2> QED BY <1>1, <2>2, <2>3
<1>3. ASSUME NEW i \in K, NEW j \in K, <<i, j>> \in R
      PROVE  place(i) # place(j)
  <2>1. \A k \in K : <<i, k>> \notin R => <<j, k>> \notin R
    BY <1>3 DEF Orders
  <2>2. j \in UpTo(R, K, j) /\ j \notin UpTo(R, K, i)
    BY <1>3 DEF UpTo, Orders
  <2>3. UpTo(R, K, i) \in SUBSET UpTo(R, K, j) /\ UpTo(R, K, i) # UpTo(R, K, j)
    BY <2>1, <2>2 DEF UpTo
  <2> QED BY <1>2, <2>3, FS_Subset
<1> HIDE DEF place
<1>4. \A i, j \in K : place(i) = place(j) => i = j
  BY <1>3 DEF Orders
<1>5. f \in Injection(K, T)
  <2>1. f \in [K -> T] /\ \A i, j \in K : f[i] = f[j] => i = j
    BY <1>2, <1>4
  <2> QED BY <2>1 DEF Injection, IsInjective
<1>6. IsFiniteSet(T) /\ Cardinality(T) = Cardinality(K)
  BY <1>1, FS_Interval
<1> HIDE DEF f, T
<1>7. f \in Surjection(K, T)
  BY <1>1, <1>5, <1>6, FS_Injection
<1>8. \A n \in T : \E i \in K : f[i] = n
  BY <1>7 DEF Surjection
<1>9. (\A i \in K : place(i) \in T) /\ (\A n \in T : \E i \in K : place(i) = n)
  BY <1>2, <1>8 DEF f
<1> QED BY <1>1, <1>4, <1>9 DEF T, place

\* Link rows as the adapter reads them, as their columns are typed.
LinkRows == {row \in {Nga!StripIds(link) : link \in Nga!RowsOf("links")} :
                /\ row.constituentid \in Int \cup {Empty}
                /\ row.displayorder \in Int \cup {Empty}}

Mine(links, id) == {i \in DOMAIN links : links[i].objectid = id /\ links[i].constituentid # Empty}
OrderAt(links, i) == IF links[i].displayorder = Empty THEN i + 1 ELSE links[i].displayorder

\* sorted() of the pairs of order and id.
Before(links, i, k) ==
    \/ OrderAt(links, i) < OrderAt(links, k)
    \/ OrderAt(links, i) = OrderAt(links, k) /\ links[i].constituentid < links[k].constituentid
    \/ OrderAt(links, i) = OrderAt(links, k) /\ links[i].constituentid = links[k].constituentid /\ i < k
NotBefore(links, id, i) == {k \in Mine(links, id) : ~Before(links, i, k)}
NthLink(links, id, n) == CHOOSE i \in Mine(links, id) : Cardinality(NotBefore(links, id, i)) = n

LEMMA MakersAre ==
    ASSUME NEW links, NEW id
    PROVE  Nga!MakerIds(links, id)
               = [n \in 1 .. Cardinality(Mine(links, id)) |-> links[NthLink(links, id, n)].constituentid]
BY DEF Nga!MakerIds, Nga!Cardinality, Cardinality, NthLink, NotBefore, Before, OrderAt, Mine

LEMMA LinkPlaces ==
    ASSUME NEW links \in Seq(LinkRows), NEW id, NEW M, M = Mine(links, id)
    PROVE  /\ IsFiniteSet(M) /\ Cardinality(M) \in Nat
           /\ \A i \in M : /\ Cardinality(NotBefore(links, id, i)) \in 1 .. Cardinality(M)
                           /\ NthLink(links, id, Cardinality(NotBefore(links, id, i))) = i
           /\ \A n \in 1 .. Cardinality(M) :
                 /\ NthLink(links, id, n) \in M
                 /\ Cardinality(NotBefore(links, id, NthLink(links, id, n))) = n
<1> DEFINE R == {p \in M \X M : Before(links, p[1], p[2])}
<1>1. Len(links) \in Nat /\ DOMAIN links = 1 .. Len(links) /\ \A i \in 1 .. Len(links) : links[i] \in LinkRows
  OBVIOUS
<1>2. M \in SUBSET (1 .. Len(links))
  BY <1>1 DEF Mine
<1>3. IsFiniteSet(M)
  <2>1. IsFiniteSet(1 .. Len(links))
    BY <1>1, FS_Interval
  <2> QED BY <1>2, <2>1, FS_Subset
<1>4. ASSUME NEW i \in M
      PROVE  i \in Int /\ links[i].constituentid \in Int /\ OrderAt(links, i) \in Int
  BY <1>1, <1>2 DEF Mine, OrderAt, LinkRows
<1>5. ASSUME NEW i \in M, NEW k \in M
      PROVE  /\ (<<i, k>> \in R <=> Before(links, i, k))
             /\ (i = k \/ <<i, k>> \in R \/ <<k, i>> \in R)
             /\ <<i, i>> \notin R
  BY <1>4 DEF Before
<1>6. ASSUME NEW i \in M, NEW k \in M, NEW m \in M, <<i, k>> \in R, <<k, m>> \in R
      PROVE  <<i, m>> \in R
  <2>1. Before(links, i, k) /\ Before(links, k, m)
    BY <1>6
  <2>2. Before(links, i, m)
    BY <1>4, <2>1 DEF Before
  <2> QED BY <2>2
<1> HIDE DEF R
<1>7. Orders(R, M)
  BY <1>5, <1>6, ZenonT(60) DEF Orders
<1>8. \A i \in M : UpTo(R, M, i) = NotBefore(links, id, i)
  BY <1>5 DEF UpTo, NotBefore
<1>9. /\ Cardinality(M) \in Nat
      /\ \A i \in M : Cardinality(NotBefore(links, id, i)) \in 1 .. Cardinality(M)
      /\ \A i, j \in M : Cardinality(NotBefore(links, id, i)) = Cardinality(NotBefore(links, id, j)) => i = j
      /\ \A n \in 1 .. Cardinality(M) : \E i \in M : Cardinality(NotBefore(links, id, i)) = n
  BY <1>3, <1>7, <1>8, Places
<1>10. \A n : NthLink(links, id, n) = CHOOSE i \in M : Cardinality(NotBefore(links, id, i)) = n
  BY DEF NthLink
<1>11. \A n \in 1 .. Cardinality(M) :
          NthLink(links, id, n) \in M /\ Cardinality(NotBefore(links, id, NthLink(links, id, n))) = n
  BY <1>9, <1>10
<1>12. \A i \in M : NthLink(links, id, Cardinality(NotBefore(links, id, i))) = i
  BY <1>9, <1>11
<1> QED BY <1>3, <1>9, <1>11, <1>12

LEMMA MakersOf ==
    ASSUME NEW links \in Seq(LinkRows), NEW id
    PROVE  ToSet(Nga!MakerIds(links, id)) = {links[i].constituentid : i \in Mine(links, id)}
<1> DEFINE M == Mine(links, id)
           N == 1 .. Cardinality(M)
           cid(i) == links[i].constituentid
<1>1. /\ \A i \in M : \E n \in N : NthLink(links, id, n) = i
      /\ \A n \in N : NthLink(links, id, n) \in M
  BY LinkPlaces
<1>2. Nga!MakerIds(links, id) = [n \in N |-> cid(NthLink(links, id, n))]
  BY MakersAre
<1> HIDE DEF M, N, cid
<1>3. ToSet(Nga!MakerIds(links, id)) = {cid(NthLink(links, id, n)) : n \in N}
  BY <1>2 DEF ToSet
<1>4. {cid(NthLink(links, id, n)) : n \in N} = {cid(i) : i \in M}
  BY <1>1
<1> QED BY <1>3, <1>4 DEF cid, M

-----------------------------------------------------------------------------
\* The columns of a table, and the scan, row by row.
LEMMA CellsAre == \A rows, column : Nga!CellsOf(rows, column) = {r[column] : r \in ToSet(rows)}
BY DEF Nga!CellsOf, ToSet

Year(row, key) == IF key = "production_start_date" THEN row.beginyear ELSE row.endyear

SchemaFinding(row, key) == [rule |-> "SCHEMA001", id |-> row.objectid, key |-> key]
RangeFinding(row) == [rule |-> "DATE001", id |-> row.objectid,
                      key |-> <<Nga!ParseDate(row.beginyear), Nga!ParseDate(row.endyear)>>]

LEMMA ObjectsAre ==
    ASSUME NEW tables
    PROVE  /\ DOMAIN Nga!Objects(tables) = DOMAIN tables.objects
           /\ \A i \in DOMAIN tables.objects :
                 /\ Nga!Objects(tables)[i].object_id = tables.objects[i].objectid
                 /\ Nga!Objects(tables)[i].maker_ids = Nga!MakerIds(tables.links, tables.objects[i].objectid)
                 /\ \A key \in Nga!Typed : Nga!Objects(tables)[i][key] = Year(tables.objects[i], key)
                 /\ Nga!Start(Nga!Objects(tables)[i]) = Nga!ParseDate(tables.objects[i].beginyear)
                 /\ Nga!End(Nga!Objects(tables)[i]) = Nga!ParseDate(tables.objects[i].endyear)
BY DEF Nga!Objects, Nga!Typed, Year, Nga!Start, Nga!End

LEMMA SchemaIs ==
    ASSUME NEW tables, NEW f
    PROVE  f \in Nga!InvalidFieldType(Nga!Objects(tables), Nga!Typed)
               <=> \E row \in ToSet(tables.objects), key \in Nga!Typed :
                      /\ f = SchemaFinding(row, key)
                      /\ Year(row, key) # Empty /\ Nga!ParseDate(Year(row, key)) = None
<1> DEFINE O == Nga!Objects(tables)
<1>1. f \in Nga!InvalidFieldType(O, Nga!Typed)
         <=> \E i \in DOMAIN O, key \in Nga!Typed :
                /\ f = [rule |-> "SCHEMA001", id |-> O[i].object_id, key |-> key]
                /\ O[i][key] # Empty /\ Nga!ParseDate(O[i][key]) = None
  <2> DEFINE Bad(i, key) == O[i][key] # Empty /\ Nga!ParseDate(O[i][key]) = None
             Made(i, key) == [rule |-> "SCHEMA001", id |-> O[i].object_id, key |-> key]
             D == {d \in (DOMAIN O) \X Nga!Typed : Bad(d[1], d[2])}
  <2> HIDE DEF O
  <2>1. Nga!Typed \cap Nga!Typed = Nga!Typed
    OBVIOUS
  <2>2. Nga!InvalidFieldType(O, Nga!Typed) = {Made(c[1], c[2]) : c \in D}
    BY <2>1 DEF Nga!InvalidFieldType
  <2> HIDE DEF Bad, Made
  <2>3. \A i \in DOMAIN O, key \in Nga!Typed : <<i, key>> \in D <=> Bad(i, key)
    OBVIOUS
  <2>4. \A c \in D : c[1] \in DOMAIN O /\ c[2] \in Nga!Typed /\ Bad(c[1], c[2])
    OBVIOUS
  <2> HIDE DEF D
  <2>5. ASSUME f \in {Made(c[1], c[2]) : c \in D}
        PROVE  \E i \in DOMAIN O, key \in Nga!Typed : f = Made(i, key) /\ Bad(i, key)
    BY <2>4, <2>5
  <2>6. ASSUME NEW i \in DOMAIN O, NEW key \in Nga!Typed, f = Made(i, key), Bad(i, key)
        PROVE  f \in {Made(c[1], c[2]) : c \in D}
    <3>1. <<i, key>> \in D /\ <<i, key>>[1] = i /\ <<i, key>>[2] = key
      BY <2>3, <2>6
    <3> QED BY <2>6, <3>1
  <2> QED BY <2>2, <2>5, <2>6 DEF Made, Bad
<1>2. \A i \in DOMAIN tables.objects : tables.objects[i] \in ToSet(tables.objects)
  BY DEF ToSet
<1>3. \A row \in ToSet(tables.objects) : \E i \in DOMAIN tables.objects : row = tables.objects[i]
  BY DEF ToSet
<1> HIDE DEF O
<1>4. DOMAIN O = DOMAIN tables.objects
      /\ \A i \in DOMAIN tables.objects :
            /\ O[i].object_id = tables.objects[i].objectid
            /\ \A key \in Nga!Typed : O[i][key] = Year(tables.objects[i], key)
  BY ObjectsAre DEF O
<1> QED BY <1>1, <1>2, <1>3, <1>4 DEF O, SchemaFinding

LEMMA RangeIs ==
    ASSUME NEW tables, NEW f
    PROVE  f \in Nga!InvertedDateRange(Nga!Objects(tables))
               <=> \E row \in ToSet(tables.objects) :
                      /\ f = RangeFinding(row)
                      /\ None \notin {Nga!ParseDate(row.beginyear), Nga!ParseDate(row.endyear)}
                      /\ Nga!ParseDate(row.beginyear) > Nga!ParseDate(row.endyear)
<1> DEFINE O == Nga!Objects(tables)
           s(i) == Nga!Start(O[i])
           e(i) == Nga!End(O[i])
<1>1. f \in Nga!InvertedDateRange(O)
         <=> \E i \in DOMAIN O :
                /\ f = [rule |-> "DATE001", id |-> O[i].object_id, key |-> <<s(i), e(i)>>]
                /\ None \notin {s(i), e(i)} /\ s(i) > e(i)
  <2> HIDE DEF O
  <2> QED BY DEF Nga!InvertedDateRange
<1>2. \A i \in DOMAIN tables.objects : tables.objects[i] \in ToSet(tables.objects)
  BY DEF ToSet
<1>3. \A row \in ToSet(tables.objects) : \E i \in DOMAIN tables.objects : row = tables.objects[i]
  BY DEF ToSet
<1> HIDE DEF O
<1>4. DOMAIN O = DOMAIN tables.objects
      /\ \A i \in DOMAIN tables.objects :
            /\ O[i].object_id = tables.objects[i].objectid
            /\ s(i) = Nga!ParseDate(tables.objects[i].beginyear)
            /\ e(i) = Nga!ParseDate(tables.objects[i].endyear)
  BY ObjectsAre DEF O
<1> HIDE DEF s, e
<1> QED BY <1>1, <1>2, <1>3, <1>4 DEF O, RangeFinding

\* A link of an object, and the findings about its maker.
Links(tables, row) == {l \in ToSet(tables.links) : l.objectid = row.objectid /\ l.constituentid # Empty}

\* Why a maker with this life cannot have made the object of a row.
Why(row, life) ==
    IF None \in {Nga!ParseDate(row.beginyear), Nga!ParseDate(row.endyear), life[1], life[2]} THEN None
    ELSE Nga!ImpossibleReason(Nga!ParseDate(row.beginyear), Nga!ParseDate(row.endyear), life[1], life[2])
LifeFinding(row, m, life) == [rule |-> "DATE002", id |-> row.objectid, key |-> <<m, Why(row, life)>>]

LEMMA LifeIs ==
    ASSUME NEW tables, tables.links \in Seq(LinkRows), NEW f
    PROVE  f \in Nga!AgentLifespanConflict(Nga!Objects(tables), Nga!Agents(tables))
               <=> \E row \in ToSet(tables.objects) : \E l \in Links(tables, row) :
                      LET life == Nga!Lifespan(Nga!Agents(tables), l.constituentid)
                      IN  f = LifeFinding(row, l.constituentid, life) /\ Why(row, life) # None
<1> DEFINE O == Nga!Objects(tables)
           A == Nga!Agents(tables)
           life(m) == Nga!Lifespan(A, m)
           rows == tables.objects
<1>1. \A i \in DOMAIN rows : \A m : Nga!Reason(O[i], A, m) = Why(rows[i], life(m))
  <2>1. \A i \in DOMAIN rows : /\ Nga!Start(O[i]) = Nga!ParseDate(rows[i].beginyear)
                               /\ Nga!End(O[i]) = Nga!ParseDate(rows[i].endyear)
    BY ObjectsAre
  <2> HIDE DEF O, A, rows
  <2> QED BY <2>1 DEF Nga!Reason, Why
<1>2. f \in Nga!AgentLifespanConflict(O, A)
         <=> \E i \in DOMAIN O : \E m \in ToSet(O[i].maker_ids) :
                /\ Nga!Reason(O[i], A, m) # None
                /\ f = [rule |-> "DATE002", id |-> O[i].object_id, key |-> <<m, Nga!Reason(O[i], A, m)>>]
  <2> HIDE DEF O, A
  <2>1. \A s : Nga!ToSet(s) = ToSet(s)
    BY SameWords
  <2> QED BY <2>1 DEF Nga!AgentLifespanConflict
<1>3. /\ DOMAIN O = DOMAIN rows
      /\ \A i \in DOMAIN rows : /\ O[i].object_id = rows[i].objectid
                                /\ O[i].maker_ids = Nga!MakerIds(tables.links, rows[i].objectid)
  BY ObjectsAre
<1>4. \A i \in DOMAIN rows : ToSet(O[i].maker_ids) = {l.constituentid : l \in Links(tables, rows[i])}
  <2> SUFFICES ASSUME NEW i \in DOMAIN rows
               PROVE  ToSet(O[i].maker_ids) = {l.constituentid : l \in Links(tables, rows[i])}
    OBVIOUS
  <2> DEFINE id == rows[i].objectid
             links == tables.links
  <2>1. ToSet(O[i].maker_ids) = {links[k].constituentid : k \in Mine(links, id)}
    BY <1>3, MakersOf
  <2>2. /\ \A k \in Mine(links, id) : links[k] \in Links(tables, rows[i])
        /\ \A l \in Links(tables, rows[i]) : \E k \in Mine(links, id) : links[k] = l
    BY DEF Mine, Links, ToSet
  <2> HIDE DEF id, links, O, rows
  <2> QED BY <2>1, <2>2
<1> DEFINE P(row, m) == f = LifeFinding(row, m, life(m)) /\ Why(row, life(m)) # None
<1> HIDE DEF A, life, rows
<1>8. \A i \in DOMAIN rows : \A m :
         /\ Nga!Reason(O[i], A, m) # None
         /\ f = [rule |-> "DATE002", id |-> O[i].object_id, key |-> <<m, Nga!Reason(O[i], A, m)>>]
         <=> P(rows[i], m)
  BY <1>1, <1>3 DEF LifeFinding
<1> HIDE DEF O, P
<1>9. f \in Nga!AgentLifespanConflict(O, A)
         <=> \E i \in DOMAIN rows : \E m \in ToSet(O[i].maker_ids) : P(rows[i], m)
  BY <1>2, <1>3, <1>8
<1>5. f \in Nga!AgentLifespanConflict(O, A)
         <=> \E i \in DOMAIN rows : \E l \in Links(tables, rows[i]) : P(rows[i], l.constituentid)
  BY <1>4, <1>9
<1>6. ToSet(rows) = {rows[i] : i \in DOMAIN rows}
  BY DEF ToSet
<1>7. f \in Nga!AgentLifespanConflict(O, A)
         <=> \E row \in ToSet(rows) : \E l \in Links(tables, row) : P(row, l.constituentid)
  BY <1>5, <1>6
<1> QED BY <1>7 DEF O, A, life, rows, P

-----------------------------------------------------------------------------
LEMMA LastOf ==
    ASSUME NEW n \in Nat, NEW K \in SUBSET (1 .. n), K # {}
    PROVE  \E i \in K : \A k \in K : k <= i
<1>1. IsFiniteSet(K) /\ Cardinality(K) \in Nat /\ Cardinality(K) # 0
  <2>1. IsFiniteSet(1 .. n)
    BY FS_Interval
  <2> QED BY <2>1, FS_Subset, FS_CardinalityType, FS_EmptySet
<1>5. \A k \in 1 .. Cardinality(K) : \E i \in K : Cardinality(K \cap 1 .. i) = k
  BY Ranks
<1>2. PICK i \in K : Cardinality(K \cap 1 .. i) = Cardinality(K)
  BY <1>1, <1>5
<1>3. K \cap 1 .. i = K
  BY <1>1, <1>2, FS_Subset
<1>4. \A k \in K : k <= i
  BY <1>3
<1> QED BY <1>4

\* A column that tells the rows of a table apart.
Keyed(rows, column) == \A r, s \in ToSet(rows) : r[column] = s[column] => r = s

LEMMA LifespanIs ==
    ASSUME NEW S, NEW tables, tables.constituents \in Seq(S), Keyed(tables.constituents, "constituentid")
    PROVE  /\ \A c \in ToSet(tables.constituents) :
                 Nga!Lifespan(Nga!Agents(tables), c.constituentid)
                     = <<Nga!ParseDate(c.beginyear), Nga!ParseDate(c.endyear)>>
           /\ \A m : (\A c \in ToSet(tables.constituents) : c.constituentid # m) =>
                 Nga!Lifespan(Nga!Agents(tables), m) = <<None, None>>
<1> DEFINE rows == tables.constituents
           A == Nga!Agents(tables)
           at(m) == {i \in DOMAIN rows : rows[i].constituentid = m}
<1>1. Len(rows) \in Nat /\ DOMAIN rows = 1 .. Len(rows)
  OBVIOUS
<1>2. /\ DOMAIN A = DOMAIN rows
      /\ \A i \in DOMAIN rows : /\ A[i].agent_id = rows[i].constituentid
                                /\ A[i].birth_date = rows[i].beginyear
                                /\ A[i].death_date = rows[i].endyear
  BY DEF Nga!Agents
<1>3. ToSet(rows) = {rows[i] : i \in DOMAIN rows}
  BY DEF ToSet
<1> HIDE DEF rows, A
<1>4. ASSUME NEW c \in ToSet(rows)
      PROVE  Nga!Lifespan(A, c.constituentid) = <<Nga!ParseDate(c.beginyear), Nga!ParseDate(c.endyear)>>
  <2> DEFINE m == c.constituentid
             last == Nga!AgentRow(A, m)
  <2>1. at(m) \in SUBSET (1 .. Len(rows)) /\ at(m) # {}
    BY <1>1, <1>3
  <2>2. \E i \in at(m) : \A k \in at(m) : k <= i
    <3> DEFINE K == at(m)
    <3> HIDE DEF K
    <3>1. K \in SUBSET (1 .. Len(rows)) /\ K # {}
      BY <2>1 DEF K
    <3>2. \E i \in K : \A k \in K : k <= i
      BY <1>1, <3>1, LastOf
    <3> QED BY <3>2 DEF K
  <2>3. \E i \in DOMAIN A : A[i].agent_id = m /\ \A k \in DOMAIN A : A[k].agent_id = m => k <= i
    BY <1>2, <2>2
  <2>4. last \in DOMAIN A /\ A[last].agent_id = m
    BY <2>3 DEF Nga!AgentRow
  <2>5. rows[last] = c
    BY <1>2, <1>3, <2>4 DEF Keyed, rows
  <2>6. /\ A[last].birth_date = c.beginyear /\ A[last].death_date = c.endyear
        /\ \E i \in DOMAIN A : A[i].agent_id = m
    BY <1>2, <2>4, <2>5
  <2> QED BY <2>6 DEF Nga!Lifespan
<1>5. ASSUME NEW m, \A c \in ToSet(rows) : c.constituentid # m
      PROVE  Nga!Lifespan(A, m) = <<None, None>>
  <2>1. ~ \E i \in DOMAIN A : A[i].agent_id = m
    BY <1>2, <1>3, <1>5
  <2> QED BY <2>1 DEF Nga!Lifespan
<1> QED BY <1>4, <1>5 DEF rows, A

LEMMA FirstRowsAre ==
    ASSUME NEW S, NEW rows \in Seq(S), NEW n \in Nat
    PROVE  /\ Nga!FirstRows(rows, n) \in Seq(S)
           /\ Len(Nga!FirstRows(rows, n)) <= n
           /\ ToSet(Nga!FirstRows(rows, n)) \subseteq ToSet(rows)
<1> DEFINE m == IF n < Len(rows) THEN n ELSE Len(rows)
<1>1. Len(rows) \in Nat /\ m \in 0 .. Len(rows) /\ m <= n /\ DOMAIN rows = 1 .. Len(rows)
  OBVIOUS
<1>2. Nga!FirstRows(rows, n) = SubSeq(rows, 1, m)
  BY DEF Nga!FirstRows
<1> HIDE DEF m
<1>3. /\ SubSeq(rows, 1, m) \in Seq(S) /\ Len(SubSeq(rows, 1, m)) = m
      /\ \A i \in 1 .. m : SubSeq(rows, 1, m)[i] = rows[i]
      /\ DOMAIN SubSeq(rows, 1, m) = 1 .. m
  BY <1>1
<1>4. ToSet(SubSeq(rows, 1, m)) \subseteq ToSet(rows)
  BY <1>1, <1>3 DEF ToSet
<1> QED BY <1>1, <1>2, <1>3, <1>4

LEMMA SubSeqRows ==
    ASSUME NEW S, NEW rows \in Seq(S), NEW n \in 0 .. Len(rows)
    PROVE  SubSeq(rows, 1, n) \in Seq(S) /\ ToSet(SubSeq(rows, 1, n)) \subseteq ToSet(rows)
<1>1. Len(rows) \in Nat /\ DOMAIN rows = 1 .. Len(rows)
  OBVIOUS
<1>3. /\ SubSeq(rows, 1, n) \in Seq(S) /\ Len(SubSeq(rows, 1, n)) = n
      /\ \A i \in 1 .. n : SubSeq(rows, 1, n)[i] = rows[i]
      /\ DOMAIN SubSeq(rows, 1, n) = 1 .. n
  BY <1>1
<1>4. ToSet(SubSeq(rows, 1, n)) \subseteq ToSet(rows)
  BY <1>1, <1>3 DEF ToSet
<1> QED BY <1>3, <1>4

-----------------------------------------------------------------------------
(***************************************************************************)
(* The relational sampler.  What it keeps of a table is fixed when it has  *)
(* read that table, what lies in the sample directory when it has written  *)
(* it; a kill puts an end to both.                                         *)
(***************************************************************************)
Pcs == {"idle", "read objects", "read links", "read constituents", "write objects",
        "write links", "write constituents", "done", "killed", "raised"}
Unread(t) ==
    {"idle", "killed", "raised", "read objects"}
        \cup (IF t = "objects" THEN {} ELSE {"read links"})
        \cup (IF t = "constituents" THEN {"read constituents"} ELSE {})
Unwritten(t) ==
    {"idle", "killed", "raised", "read objects", "read links", "read constituents", "write objects"}
        \cup (IF t = "objects" THEN {} ELSE {"write links"})
        \cup (IF t = "constituents" THEN {"write constituents"} ELSE {})

Tabled(tables) == tables = [t \in Nga!Table |-> tables[t]]

NgaTyped ==
    /\ Tabled(pages) /\ \A t \in Nga!Table : pages[t] \in Seq(Nga!RowsOf(t))
    /\ Tabled(mem) /\ \A t \in Nga!Table : mem[t] \in Seq(Nga!RowsOf(t))
    /\ Tabled(sample)
    /\ \A t \in Nga!Table \ torn : sample[t] # None => sample[t] \in Seq(Nga!RowsOf(t))
    /\ ngaLimit \in Nat /\ edits \in Nat /\ ngaPc \in Pcs

Column(rows, column) == {r[column] : r \in ToSet(rows)}

\* What is kept belongs together.
Closed ==
    /\ ngaPc \notin Unread("objects") => Len(mem.objects) <= ngaLimit
    /\ ngaPc \notin Unread("links") => Column(mem.links, "objectid") \subseteq Column(mem.objects, "objectid")
    /\ ngaPc \notin Unread("constituents") =>
          Column(mem.constituents, "constituentid") \subseteq Column(mem.links, "constituentid")

\* Of an export at rest, without byte order marks, it is all that belongs to
\* the objects kept, as their ids are written.
Whole ==
    ~moved /\ marked = {} =>
        /\ ngaPc \notin Unread("objects") => ToSet(mem.objects) \subseteq ToSet(pages.objects)
        /\ ngaPc \notin Unread("links") =>
              ToSet(mem.links) = {r \in ToSet(pages.links) : r.objectid \in Column(mem.objects, "objectid")}
        /\ ngaPc \notin Unread("constituents") =>
              ToSet(mem.constituents)
                  = {r \in ToSet(pages.constituents) :
                        r.constituentid \in Column(mem.links, "constituentid") \ {Empty}}

Copied == \A t \in Nga!Table : ngaPc \notin Unwritten(t) => sample[t] = mem[t] /\ t \notin torn

\* Of an export that never changed nothing else can lie in the directory.
Theirs ==
    edits = 0 => \A t \in Nga!Table :
        /\ ToSet(mem[t]) \subseteq ToSet(pages[t])
        /\ t \notin torn /\ sample[t] # None => ToSet(sample[t]) \subseteq ToSet(pages[t])

\* Objects and constituents have a key, as the adapter reads them.
KeysUnique ==
    \A e \in Exports : /\ Keyed(Nga!Stripped(e).objects, "objectid")
                       /\ Keyed(Nga!Stripped(e).constituents, "constituentid")
KeysStay ==
    KeysUnique => /\ Keyed(Nga!Stripped(pages).objects, "objectid")
                  /\ Keyed(Nga!Stripped(pages).constituents, "constituentid")

NgaInv == NgaTyped /\ Closed /\ Whole /\ Copied /\ Theirs /\ KeysStay

\* Stripping a table, row by row: its ids are stripped, the rest stays.
LEMMA StripIs ==
    ASSUME NEW row, NEW c \in DOMAIN row
    PROVE  Nga!StripIds(row)[c] = IF c \in {"objectid", "constituentid"} THEN Trim[row[c]] ELSE row[c]
BY DEF Nga!StripIds

LEMMA StrippedIs ==
    ASSUME NEW tables, NEW t \in Nga!Table, NEW S, tables[t] \in Seq(S)
    PROVE  /\ Nga!Stripped(tables)[t] \in Seq({Nga!StripIds(row) : row \in S})
           /\ Len(Nga!Stripped(tables)[t]) = Len(tables[t])
           /\ \A i \in 1 .. Len(tables[t]) : Nga!Stripped(tables)[t][i] = Nga!StripIds(tables[t][i])
           /\ ToSet(Nga!Stripped(tables)[t]) = {Nga!StripIds(row) : row \in ToSet(tables[t])}
<1> DEFINE raw == tables[t]
           new == Nga!Stripped(tables)[t]
           Made == {Nga!StripIds(row) : row \in S}
<1>1. Len(raw) \in Nat /\ DOMAIN raw = 1 .. Len(raw) /\ \A i \in 1 .. Len(raw) : raw[i] \in S
  OBVIOUS
<1>2. new = [i \in DOMAIN raw |-> Nga!StripIds(raw[i])]
  BY DEF Nga!Stripped
<1> HIDE DEF raw, new
<1>3. new \in [1 .. Len(raw) -> Made]
  BY <1>1, <1>2
<1>4. new \in Seq(Made) /\ Len(new) = Len(raw)
  BY <1>1, <1>3
<1>5. \A i \in 1 .. Len(raw) : new[i] = Nga!StripIds(raw[i])
  BY <1>1, <1>2
<1>6. ToSet(new) = {Nga!StripIds(row) : row \in ToSet(raw)}
  BY <1>1, <1>2 DEF ToSet
<1> QED BY <1>4, <1>5, <1>6 DEF raw, new

LEMMA ColumnsAre ==
    ASSUME NEW t \in Nga!Table, NEW row \in Nga!RowsOf(t)
    PROVE  /\ t = "objects" => Nga!StripIds(row).objectid = Trim[row.objectid]
           /\ t = "links" => /\ Nga!StripIds(row).objectid = Trim[row.objectid]
                             /\ Nga!StripIds(row).constituentid = Trim[row.constituentid]
                             /\ Nga!StripIds(row).displayorder = row.displayorder
           /\ t = "constituents" => Nga!StripIds(row).constituentid = Trim[row.constituentid]
<1>1. DOMAIN row = Nga!Columns[t]
  BY FetchAssumption DEF Nga!WellFormed
<1>2. CASE t = "objects"
  <2>1. "objectid" \in DOMAIN row
    BY <1>1, <1>2 DEF Nga!Columns
  <2> QED BY <1>2, <2>1, StripIs
<1>3. CASE t = "links"
  <2>1. "objectid" \in DOMAIN row /\ "constituentid" \in DOMAIN row /\ "displayorder" \in DOMAIN row
    BY <1>1, <1>3 DEF Nga!Columns
  <2> QED BY <1>3, <2>1, StripIs
<1>4. CASE t = "constituents"
  <2>1. "constituentid" \in DOMAIN row
    BY <1>1, <1>4 DEF Nga!Columns
  <2> QED BY <1>4, <2>1, StripIs
<1> QED BY <1>2, <1>3, <1>4 DEF Nga!Table

LEMMA Formed == /\ Exports # {} /\ NgaLimits \subseteq Nat
                /\ \A e \in Exports : Tabled(e) /\ \A t \in Nga!Table : e[t] \in Seq(Nga!RowsOf(t))
                /\ \A row \in Nga!RowsOf("links") : Nga!StripIds(row) \in LinkRows
                /\ Trim[Empty] = Empty
                /\ \A t \in Nga!Table : \A s \in Seq(Nga!RowsOf(t)) : s # None
                /\ None \notin Int /\ None \notin {"before birth", "after death"} /\ MaxYear \in Nat
<1>1. Nga!WellFormed
  BY FetchAssumption
<1>2. \A e \in Exports : Tabled(e) /\ \A t \in Nga!Table : e[t] \in Seq(Nga!RowsOf(t))
  BY <1>1 DEF Nga!WellFormed, Tabled
<1>4. \A row \in Nga!RowsOf("links") : Nga!StripIds(row) \in LinkRows
  <2> SUFFICES ASSUME NEW row \in Nga!RowsOf("links") PROVE Nga!StripIds(row) \in LinkRows
    OBVIOUS
  <2>1. Nga!StripIds(row).constituentid = Trim[row.constituentid] /\ Nga!StripIds(row).displayorder = row.displayorder
    BY ColumnsAre DEF Nga!Table
  <2> QED BY <1>1, <2>1 DEF Nga!WellFormed, LinkRows
<1> QED BY <1>1, <1>2, <1>4 DEF Nga!WellFormed

LEMMA NgaStarts == FetchInit => NgaInv
<1> SUFFICES ASSUME FetchInit PROVE NgaInv
  OBVIOUS
<1>1. pages \in Exports /\ edits = 0 /\ ngaLimit = 0 /\ moved = FALSE /\ ngaPc = "idle"
      /\ mem = [t \in Nga!Table |-> <<>>] /\ sample = [t \in Nga!Table |-> None] /\ torn = {}
  BY Formed DEF FetchInit, Nga!Init
<1>2. \A t \in Nga!Table : mem[t] = <<>> /\ sample[t] = None
  BY <1>1
<1>3. ToSet(<<>>) = {}
  BY DEF ToSet
<1>8. \A S : <<>> \in Seq(S)
  OBVIOUS
<1>4. NgaTyped
  BY <1>1, <1>2, <1>8, Formed DEF NgaTyped, Tabled, Pcs
<1>5. Closed /\ Whole /\ Copied
  BY <1>1 DEF Closed, Whole, Copied, Unread, Unwritten
<1>6. Theirs
  BY <1>1, <1>2, <1>3 DEF Theirs
<1>7. KeysStay
  BY <1>1 DEF KeysStay, KeysUnique
<1> QED BY <1>4, <1>5, <1>6, <1>7 DEF NgaInv

LEMMA BeginKeeps == ASSUME NgaInv, NEW l \in NgaLimits, Nga!BeginRun(l) PROVE NgaInv'
<1> USE DEF NgaInv
<1>1. /\ ngaPc' = "read objects" /\ ngaLimit' = l /\ mem' = [t \in Nga!Table |-> <<>>]
      /\ pages' = pages /\ edits' = edits /\ sample' = sample /\ torn' = torn
  BY DEF Nga!BeginRun
<1>2. \A t \in Nga!Table : mem'[t] = <<>>
  BY <1>1
<1>3. ToSet(<<>>) = {}
  BY DEF ToSet
<1>8. \A S : <<>> \in Seq(S)
  OBVIOUS
<1>4. NgaTyped'
  BY <1>1, <1>2, <1>8, Formed DEF NgaTyped, Tabled, Pcs
<1>5. (Closed /\ Whole /\ Copied)'
  BY <1>1 DEF Closed, Whole, Copied, Unread, Unwritten
<1>6. Theirs'
  BY <1>1, <1>2, <1>3 DEF Theirs
<1>7. KeysStay'
  BY <1>1 DEF KeysStay
<1> QED BY <1>4, <1>5, <1>6, <1>7

\* What reading one table leaves as it was.
LEMMA ReadKeeps ==
    ASSUME NgaInv, NEW t \in Nga!Table, NEW rows \in Seq(Nga!RowsOf(t)),
           NEW then \in Pcs, Nga!Read(t, rows, then), ToSet(rows) \subseteq ToSet(pages[t])
    PROVE  /\ NgaTyped' /\ Theirs' /\ KeysStay'
           /\ mem'[t] = rows /\ \A u \in Nga!Table \ {t} : mem'[u] = mem[u]
<1> USE DEF NgaInv
<1>1. /\ mem' = [mem EXCEPT ![t] = rows] /\ ngaPc' = then
      /\ pages' = pages /\ edits' = edits /\ ngaLimit' = ngaLimit /\ sample' = sample /\ torn' = torn
  BY DEF Nga!Read
<1>2. mem'[t] = rows /\ (\A u \in Nga!Table \ {t} : mem'[u] = mem[u]) /\ Tabled(mem')
  BY <1>1 DEF NgaTyped, Tabled
<1>3. NgaTyped'
  BY <1>1, <1>2 DEF NgaTyped
<1>4. Theirs'
  BY <1>1, <1>2 DEF Theirs
<1>5. KeysStay'
  BY <1>1 DEF KeysStay
<1> QED BY <1>2, <1>3, <1>4, <1>5

\* The rows the sampler finds by their id.
LEMMA MatchingIs ==
    ASSUME NEW t, NEW S, pages[t] \in Seq(S), NEW column, NEW ids
    PROVE  /\ Nga!Matching(t, column, ids) \in Seq(S)
           /\ ToSet(Nga!Matching(t, column, ids)) \subseteq {r \in ToSet(pages[t]) : r[column] \in ids}
           /\ marked = {} =>
                 ToSet(Nga!Matching(t, column, ids)) = {r \in ToSet(pages[t]) : r[column] \in ids}
<1>1. CASE Nga!Nameless(t, pages[t])
  <2>1. Nga!Matching(t, column, ids) = <<>> /\ marked # {}
    BY <1>1 DEF Nga!Matching, Nga!Nameless
  <2>2. ToSet(<<>>) = {} /\ <<>> \in Seq(S)
    BY DEF ToSet
  <2> QED BY <2>1, <2>2
<1>2. CASE ~Nga!Nameless(t, pages[t])
  BY <1>2, NamingIs DEF Nga!Matching
<1> QED BY <1>1, <1>2

LEMMA RaiseKeeps == ASSUME NgaInv, Nga!RaiseKeyError PROVE NgaInv'
<1>1. /\ ngaPc' = "raised" /\ pages' = pages /\ edits' = edits /\ ngaLimit' = ngaLimit
      /\ mem' = mem /\ sample' = sample /\ torn' = torn
  BY DEF Nga!RaiseKeyError
<1>2. (Closed /\ Whole /\ Copied)'
  BY <1>1 DEF Closed, Whole, Copied, Unread, Unwritten
<1>3. NgaTyped' /\ Theirs' /\ KeysStay'
  BY <1>1 DEF NgaInv, NgaTyped, Theirs, KeysStay, Pcs
<1> QED BY <1>2, <1>3 DEF NgaInv

LEMMA ReadObjectsKeeps == ASSUME NgaInv, Nga!ReadObjects PROVE NgaInv'
<1> USE DEF NgaInv
<1> DEFINE rows == Nga!FirstRows(pages.objects, ngaLimit)
<1>1. "objects" \in Nga!Table /\ "links" \in Nga!Table /\ "constituents" \in Nga!Table
  BY DEF Nga!Table
<1>2. pages.objects \in Seq(Nga!RowsOf("objects")) /\ ngaLimit \in Nat
  BY <1>1 DEF NgaTyped
<1>3. /\ rows \in Seq(Nga!RowsOf("objects")) /\ Len(rows) <= ngaLimit
      /\ ToSet(rows) \subseteq ToSet(pages.objects)
  BY <1>2, FirstRowsAre
<1>4. Nga!Read("objects", rows, "read links")
  BY DEF Nga!ReadObjects
<1> HIDE DEF rows
<1>5. "read links" \in Pcs
  BY DEF Pcs
<1>6. NgaTyped' /\ Theirs' /\ KeysStay' /\ mem'["objects"] = rows
  BY <1>1, <1>3, <1>4, <1>5, ReadKeeps
<1>7. /\ ngaPc' = "read links" /\ pages' = pages /\ marked' = marked /\ moved' = moved /\ ngaLimit' = ngaLimit
  BY <1>4 DEF Nga!Read
<1>8. (Closed /\ Whole /\ Copied)'
  BY <1>3, <1>6, <1>7 DEF Closed, Whole, Copied, Unread, Unwritten, Nga!Table
<1> QED BY <1>6, <1>8

LEMMA ReadLinksKeeps == ASSUME NgaInv, Nga!ReadLinks PROVE NgaInv'
<1> USE DEF NgaInv
<1> DEFINE ids == Nga!CellsOf(mem.objects, "objectid")
           rows == Nga!Matching("links", "objectid", ids)
<1>1. "objects" \in Nga!Table /\ "links" \in Nga!Table /\ "constituents" \in Nga!Table
  BY DEF Nga!Table
<1>2. pages.links \in Seq(Nga!RowsOf("links"))
  BY <1>1 DEF NgaTyped
<1>0. ids = Column(mem.objects, "objectid")
  BY CellsAre DEF Column
<1>4. Nga!Read("links", rows, "read constituents") /\ ngaPc = "read links"
  BY DEF Nga!ReadLinks
<1> HIDE DEF ids
<1>3. /\ rows \in Seq(Nga!RowsOf("links"))
      /\ ToSet(rows) \subseteq {r \in ToSet(pages.links) : r.objectid \in ids}
      /\ marked = {} => ToSet(rows) = {r \in ToSet(pages.links) : r.objectid \in ids}
  BY <1>2, MatchingIs
<1> HIDE DEF rows
<1>5. "read constituents" \in Pcs
  BY DEF Pcs
<1>6. NgaTyped' /\ Theirs' /\ KeysStay' /\ mem'["links"] = rows /\ mem'["objects"] = mem["objects"]
  BY <1>1, <1>3, <1>4, <1>5, ReadKeeps
<1>7. /\ ngaPc' = "read constituents" /\ pages' = pages /\ marked' = marked /\ moved' = moved /\ ngaLimit' = ngaLimit
  BY <1>4 DEF Nga!Read
<1>8. Column(rows, "objectid") \subseteq ids
  BY <1>3 DEF Column
<1>9. Closed'
  BY <1>0, <1>4, <1>6, <1>7, <1>8 DEF Closed, Unread
<1>10. Whole'
  BY <1>0, <1>3, <1>4, <1>6, <1>7 DEF Whole, Unread
<1>11. Copied'
  BY <1>7 DEF Copied, Unwritten, Nga!Table
<1> QED BY <1>6, <1>9, <1>10, <1>11

LEMMA ReadConstituentsKeeps == ASSUME NgaInv, Nga!ReadConstituents PROVE NgaInv'
<1> USE DEF NgaInv
<1> DEFINE ids == Nga!CellsOf(mem.links, "constituentid") \ {Empty}
           rows == Nga!Matching("constituents", "constituentid", ids)
<1>1. "objects" \in Nga!Table /\ "links" \in Nga!Table /\ "constituents" \in Nga!Table
  BY DEF Nga!Table
<1>2. pages.constituents \in Seq(Nga!RowsOf("constituents"))
  BY <1>1 DEF NgaTyped
<1>0. ids = Column(mem.links, "constituentid") \ {Empty}
  BY CellsAre DEF Column
<1>4. Nga!Read("constituents", rows, "write objects") /\ ngaPc = "read constituents"
  BY DEF Nga!ReadConstituents
<1> HIDE DEF ids
<1>3. /\ rows \in Seq(Nga!RowsOf("constituents"))
      /\ ToSet(rows) \subseteq {r \in ToSet(pages.constituents) : r.constituentid \in ids}
      /\ marked = {} => ToSet(rows) = {r \in ToSet(pages.constituents) : r.constituentid \in ids}
  BY <1>2, MatchingIs
<1> HIDE DEF rows
<1>5. "write objects" \in Pcs
  BY DEF Pcs
<1>6. /\ NgaTyped' /\ Theirs' /\ KeysStay' /\ mem'["constituents"] = rows
      /\ mem'["links"] = mem["links"] /\ mem'["objects"] = mem["objects"]
  BY <1>1, <1>3, <1>4, <1>5, ReadKeeps
<1>7. /\ ngaPc' = "write objects" /\ pages' = pages /\ marked' = marked /\ moved' = moved /\ ngaLimit' = ngaLimit
  BY <1>4 DEF Nga!Read
<1>8. Column(rows, "constituentid") \subseteq ids
  BY <1>3 DEF Column
<1>9. Closed'
  BY <1>0, <1>4, <1>6, <1>7, <1>8 DEF Closed, Unread
<1>10. Whole'
  BY <1>0, <1>3, <1>4, <1>6, <1>7 DEF Whole, Unread
<1>11. Copied'
  BY <1>7 DEF Copied, Unwritten, Nga!Table
<1> QED BY <1>6, <1>9, <1>10, <1>11

LEMMA WriteKeeps ==
    ASSUME NgaInv, NEW t \in Nga!Table, NEW then, Nga!Write(t, then),
           \/ t = "objects" /\ then = "write links"
           \/ t = "links" /\ then = "write constituents"
           \/ t = "constituents" /\ then = "done"
    PROVE  NgaInv'
<1> USE DEF NgaInv
<1>1. /\ ngaPc = Nga!WriteStep[t] /\ ngaPc' = then
      /\ sample' = [sample EXCEPT ![t] = mem[t]] /\ torn' = torn \ {t}
      /\ pages' = pages /\ edits' = edits /\ ngaLimit' = ngaLimit /\ mem' = mem
      /\ moved' = moved /\ marked' = marked
  BY DEF Nga!Write
<1>2. sample'[t] = mem[t] /\ (\A u \in Nga!Table \ {t} : sample'[u] = sample[u]) /\ Tabled(sample')
  BY <1>1 DEF NgaTyped, Tabled
<1>3. then \in Pcs
  BY DEF Pcs
<1>4. NgaTyped'
  BY <1>1, <1>2, <1>3 DEF NgaTyped
<1>11. /\ Nga!WriteStep["objects"] = "write objects" /\ Nga!WriteStep["links"] = "write links"
       /\ Nga!WriteStep["constituents"] = "write constituents"
  BY DEF Nga!WriteStep
<1>5. \/ t = "objects" /\ then = "write links" /\ ngaPc = "write objects"
      \/ t = "links" /\ then = "write constituents" /\ ngaPc = "write links"
      \/ t = "constituents" /\ then = "done" /\ ngaPc = "write constituents"
  BY <1>1, <1>11
<1>6. ASSUME NEW u \in Nga!Table
      PROVE  /\ ngaPc \notin Unread(u) /\ ngaPc' \notin Unread(u)
             /\ ngaPc' \notin Unwritten(u) => u = t \/ ngaPc \notin Unwritten(u)
  BY <1>1, <1>5 DEF Unread, Unwritten, Nga!Table
<1>7. Closed' /\ Whole'
  BY <1>1, <1>6 DEF Closed, Whole, Nga!Table
<1>8. Copied'
  BY <1>1, <1>2, <1>6 DEF Copied
<1>9. Theirs'
  BY <1>1, <1>2 DEF Theirs
<1>10. KeysStay'
  BY <1>1 DEF KeysStay
<1> QED BY <1>4, <1>7, <1>8, <1>9, <1>10

LEMMA KillKeeps == ASSUME NgaInv, Nga!Kill PROVE NgaInv'
<1> USE DEF NgaInv
<1>1. /\ ngaPc' = "killed" /\ pages' = pages /\ edits' = edits /\ ngaLimit' = ngaLimit
      /\ mem' = mem /\ moved' = moved
  BY DEF Nga!Kill
<1>2. (Closed /\ Whole /\ Copied)'
  BY <1>1 DEF Closed, Whole, Copied, Unread, Unwritten
<1>3. KeysStay'
  BY <1>1 DEF KeysStay
<1>4. "killed" \in Pcs
  BY DEF Pcs
<1>5. CASE UNCHANGED <<sample, torn>>
  BY <1>1, <1>2, <1>3, <1>4, <1>5 DEF NgaTyped, Theirs
<1>6. ASSUME NEW t \in Nga!Table, NEW n \in 0 .. Len(mem[t]),
             sample' = [sample EXCEPT ![t] = SubSeq(mem[t], 1, n)], torn' = torn \ {t}
      PROVE  NgaInv'
  <2>1. /\ SubSeq(mem[t], 1, n) \in Seq(Nga!RowsOf(t))
        /\ ToSet(SubSeq(mem[t], 1, n)) \subseteq ToSet(mem[t])
    <3>1. mem[t] \in Seq(Nga!RowsOf(t))
      BY DEF NgaTyped
    <3> QED BY <1>6, <3>1, SubSeqRows
  <2>2. sample'[t] = SubSeq(mem[t], 1, n) /\ (\A u \in Nga!Table \ {t} : sample'[u] = sample[u]) /\ Tabled(sample')
    BY <1>6 DEF NgaTyped, Tabled
  <2>3. NgaTyped'
    BY <1>1, <1>4, <1>6, <2>1, <2>2 DEF NgaTyped
  <2>4. Theirs'
    BY <1>1, <1>6, <2>1, <2>2 DEF Theirs
  <2> QED BY <1>2, <1>3, <2>3, <2>4
<1>7. ASSUME NEW t \in Nga!Table, NEW rows,
             sample' = [sample EXCEPT ![t] = rows], torn' = torn \cup {t}
      PROVE  NgaInv'
  <2>2. (\A u \in Nga!Table \ {t} : sample'[u] = sample[u]) /\ Tabled(sample')
    BY <1>7 DEF NgaTyped, Tabled
  <2>3. NgaTyped'
    BY <1>1, <1>4, <1>7, <2>2 DEF NgaTyped
  <2>4. Theirs'
    BY <1>1, <1>7, <2>2 DEF Theirs
  <2> QED BY <1>2, <1>3, <2>3, <2>4
<1> QED BY <1>5, <1>6, <1>7 DEF Nga!Kill

\* The publisher's changes are to one table.
LEMMA PublishKeeps ==
    ASSUME NgaInv, NEW t \in Nga!Table, NEW rows \in Seq(Nga!RowsOf(t)),
           Nga!Publish([pages EXCEPT ![t] = rows]),
           t = "links" \/ ToSet(rows) \subseteq ToSet(pages[t])
    PROVE  NgaInv'
<1> USE DEF NgaInv
<1>1. /\ pages' = [pages EXCEPT ![t] = rows] /\ edits' = edits + 1 /\ moved' = TRUE
      /\ UNCHANGED <<ngaPc, ngaLimit, mem, sample, torn>>
  BY DEF Nga!Publish
<1>2. pages'[t] = rows /\ (\A u \in Nga!Table \ {t} : pages'[u] = pages[u]) /\ Tabled(pages')
  BY <1>1 DEF NgaTyped, Tabled
<1>3. edits' \in Nat /\ edits' # 0
  BY <1>1 DEF NgaTyped
<1>4. NgaTyped'
  BY <1>1, <1>2, <1>3 DEF NgaTyped
<1>5. Closed' /\ Copied'
  BY <1>1 DEF Closed, Copied
<1>6. Whole' /\ Theirs'
  BY <1>1, <1>3 DEF Whole, Theirs
<1>7. KeysStay'
  <2>1. /\ ToSet(pages'["objects"]) \subseteq ToSet(pages["objects"])
        /\ ToSet(pages'["constituents"]) \subseteq ToSet(pages["constituents"])
    BY <1>2 DEF Nga!Table
  <2>2. ASSUME NEW u \in Nga!Table
        PROVE  /\ ToSet(Nga!Stripped(pages)[u]) = {Nga!StripIds(row) : row \in ToSet(pages[u])}
               /\ ToSet(Nga!Stripped(pages')[u]) = {Nga!StripIds(row) : row \in ToSet(pages'[u])}
    <3>1. pages[u] \in Seq(Nga!RowsOf(u)) /\ pages'[u] \in Seq(Nga!RowsOf(u))
      BY <1>4 DEF NgaTyped
    <3> QED BY <3>1, StrippedIs
  <2>3. /\ ToSet(Nga!Stripped(pages')["objects"]) \subseteq ToSet(Nga!Stripped(pages)["objects"])
        /\ ToSet(Nga!Stripped(pages')["constituents"]) \subseteq ToSet(Nga!Stripped(pages)["constituents"])
    BY <2>1, <2>2 DEF Nga!Table
  <2> QED BY <2>3 DEF KeysStay, Keyed
<1> QED BY <1>4, <1>5, <1>6, <1>7

\* What removing one row does to a table.
LEMMA RowRemoved ==
    ASSUME NEW S, NEW table \in Seq(S), NEW i \in DOMAIN table
    PROVE  /\ RemoveAt(table, i) \in Seq(S)
           /\ Len(RemoveAt(table, i)) = Len(table) - 1
           /\ \A k \in 1 .. Len(table) - 1 :
                 RemoveAt(table, i)[k] = table[IF k < i THEN k ELSE k + 1]
<1> DEFINE front == SubSeq(table, 1, i - 1)
           back == SubSeq(table, i + 1, Len(table))
<1>1. i \in 1 .. Len(table) /\ Len(table) \in Nat /\ table \in [1 .. Len(table) -> S]
  OBVIOUS
<1>2. /\ front \in Seq(S) /\ Len(front) = i - 1
      /\ \A k \in 1 .. i - 1 : front[k] = table[k]
  BY <1>1
<1>3. /\ back \in Seq(S) /\ Len(back) = Len(table) - i
      /\ \A k \in 1 .. Len(table) - i : back[k] = table[i + k]
  <2> DEFINE m == i + 1  n == Len(table)
  <2>1. m \in Int /\ n \in Int /\ \A k \in m .. n : table[k] \in S
    BY <1>1
  <2>2. /\ back \in Seq(S)
        /\ Len(back) = IF m <= n THEN n - m + 1 ELSE 0
        /\ \A k \in 1 .. n - m + 1 : back[k] = table[m + k - 1]
    <3> HIDE DEF m, n
    <3>1. back = SubSeq(table, m, n)
      BY DEF m, n
    <3> HIDE DEF back
    <3> QED BY <2>1, <3>1, SubSeqProperties
  <2> HIDE DEF back
  <2>3. Len(back) = Len(table) - i
    BY <1>1, <2>2
  <2>4. ASSUME NEW k \in 1 .. Len(table) - i PROVE back[k] = table[i + k]
    <3>1. k \in 1 .. n - m + 1 /\ m + k - 1 = i + k
      BY <1>1
    <3> QED BY <2>2, <3>1
  <2> QED BY <2>2, <2>3, <2>4
<1> HIDE DEF front, back
<1>6. Len(front) + Len(back) = Len(table) - 1
  BY <1>1, <1>2, <1>3
<1>4. /\ front \o back \in Seq(S)
      /\ Len(front \o back) = Len(table) - 1
      /\ \A k \in 1 .. Len(table) - 1 :
            (front \o back)[k] = IF k <= i - 1 THEN front[k] ELSE back[k - (i - 1)]
  <2>1. /\ front \o back \in Seq(S)
        /\ Len(front \o back) = Len(front) + Len(back)
        /\ \A k \in 1 .. Len(front) + Len(back) :
              (front \o back)[k] = IF k <= Len(front) THEN front[k] ELSE back[k - Len(front)]
    BY <1>2, <1>3, ConcatProperties
  <2> QED BY <1>2, <1>6, <2>1
<1>5. ASSUME NEW k \in 1 .. Len(table) - 1
      PROVE  (front \o back)[k] = table[IF k < i THEN k ELSE k + 1]
  <2>1. CASE k < i
    BY <1>1, <1>2, <1>4, <2>1
  <2>2. CASE ~(k < i)
    <3>1. k - (i - 1) \in 1 .. Len(table) - i /\ i + (k - (i - 1)) = k + 1
      BY <1>1, <2>2
    <3>2. back[k - (i - 1)] = table[k + 1]
      BY <1>3, <3>1
    <3>3. ~(k <= i - 1)
      BY <1>1, <2>2
    <3> QED BY <1>4, <2>2, <3>2, <3>3
  <2> QED BY <2>1, <2>2
<1> QED BY <1>4, <1>5 DEF RemoveAt, front, back

\* Where a row stood before row i was moved to the front.
Stood(i, k) == IF k = 1 THEN i ELSE IF k <= i THEN k - 1 ELSE k

LEMMA ToTheFront ==
    ASSUME NEW S, NEW table \in Seq(S), NEW i \in DOMAIN table,
           NEW new, new = <<table[i]>> \o Nga!RemoveAt(table, i)
    PROVE  /\ new \in Seq(S) /\ Len(new) = Len(table)
           /\ \A k \in 1 .. Len(table) : new[k] = table[Stood(i, k)]
<1> DEFINE rest == RemoveAt(table, i)
           head == <<table[i]>>
<1>1. i \in 1 .. Len(table) /\ Len(table) \in Nat /\ table[i] \in S
  OBVIOUS
<1>2. /\ rest \in Seq(S) /\ Len(rest) = Len(table) - 1
      /\ \A k \in 1 .. Len(table) - 1 : rest[k] = table[IF k < i THEN k ELSE k + 1]
  BY RowRemoved
<1>3. new = head \o rest
  BY DEF RemoveAt, Nga!RemoveAt
<1>4. head \in Seq(S) /\ Len(head) = 1 /\ head[1] = table[i]
  BY <1>1
<1> HIDE DEF head, rest
<1>5. /\ head \o rest \in Seq(S) /\ Len(head \o rest) = Len(head) + Len(rest)
      /\ \A k \in 1 .. Len(head) + Len(rest) :
            (head \o rest)[k] = IF k <= Len(head) THEN head[k] ELSE rest[k - Len(head)]
  BY <1>2, <1>4, ConcatProperties
<1>6. Len(new) = Len(table)
  BY <1>1, <1>2, <1>3, <1>4, <1>5
<1>7. ASSUME NEW k \in 1 .. Len(table)
      PROVE  new[k] = table[Stood(i, k)]
  <2>1. CASE k = 1
    BY <1>1, <1>2, <1>3, <1>4, <1>5, <2>1 DEF Stood
  <2>2. CASE k # 1
    <3>1. k - 1 \in 1 .. Len(table) - 1 /\ k \in 1 .. Len(head) + Len(rest) /\ ~(k <= Len(head))
      BY <1>1, <1>2, <1>4, <2>2
    <3>2. new[k] = rest[k - 1]
      BY <1>3, <1>4, <1>5, <3>1
    <3>3. rest[k - 1] = table[IF k - 1 < i THEN k - 1 ELSE (k - 1) + 1]
      BY <1>2, <3>1
    <3>4. (k - 1 < i <=> k <= i) /\ (k - 1) + 1 = k
      BY <1>1
    <3> QED BY <2>2, <3>2, <3>3, <3>4 DEF Stood
  <2> QED BY <2>1, <2>2
<1> QED BY <1>3, <1>5, <1>6, <1>7

LEMMA MoveKeeps == ASSUME NgaInv, Nga!MoveLink PROVE NgaInv'
<1>1. PICK i \in DOMAIN pages.links :
          Nga!Publish([pages EXCEPT !.links = <<@[i]>> \o Nga!RemoveAt(@, i)])
  BY DEF Nga!MoveLink
<1>2. "links" \in Nga!Table /\ pages.links \in Seq(Nga!RowsOf("links"))
  BY DEF NgaInv, NgaTyped, Nga!Table
<1> DEFINE rows == <<pages.links[i]>> \o Nga!RemoveAt(pages.links, i)
<1>3. Nga!Publish([pages EXCEPT !["links"] = rows])
  BY <1>1
<1>4. rows \in Seq(Nga!RowsOf("links"))
  BY <1>2, ToTheFront
<1> HIDE DEF rows
<1> QED BY <1>2, <1>3, <1>4, PublishKeeps

LEMMA WithdrawKeeps == ASSUME NgaInv, Nga!Withdraw PROVE NgaInv'
<1>1. PICK t \in Nga!Table : pages[t] # <<>> /\ Nga!Publish([pages EXCEPT ![t] = Nga!Front(@)])
  BY DEF Nga!Withdraw
<1> DEFINE rows == Nga!Front(pages[t])
<1>2. pages[t] \in Seq(Nga!RowsOf(t))
  BY DEF NgaInv, NgaTyped
<1>3. Len(pages[t]) - 1 \in 0 .. Len(pages[t])
  BY <1>1, <1>2
<1>4. rows \in Seq(Nga!RowsOf(t)) /\ ToSet(rows) \subseteq ToSet(pages[t])
  BY <1>2, <1>3, SubSeqRows DEF Nga!Front
<1>5. Nga!Publish([pages EXCEPT ![t] = rows])
  BY <1>1
<1> HIDE DEF rows
<1> QED BY <1>4, <1>5, PublishKeeps

LEMMA NgaKeeps == NgaInv /\ [FetchNext]_fetchVars => NgaInv'
<1> SUFFICES ASSUME NgaInv, [FetchNext]_fetchVars PROVE NgaInv'
  OBVIOUS
<1>1. CASE UNCHANGED ngaVars
  BY <1>1 DEF ngaVars, NgaInv, NgaTyped, Closed, Whole, Copied, Theirs, KeysStay
<1>2. CASE Nga!Next
  <2>1. "objects" \in Nga!Table /\ "links" \in Nga!Table /\ "constituents" \in Nga!Table
    BY DEF Nga!Table
  <2>2. ASSUME Nga!WriteTables PROVE NgaInv'
    BY <2>1, <2>2, WriteKeeps DEF Nga!WriteTables
  <2> QED BY <1>2, <2>2, BeginKeeps, ReadObjectsKeeps, RaiseKeeps, ReadLinksKeeps, ReadConstituentsKeeps,
             KillKeeps, MoveKeeps, WithdrawKeeps DEF Nga!Next
<1> QED BY <1>1, <1>2 DEF FetchNext, TakeLines, WriteLines, BoundDirectory, fetchVars

LEMMA NgaHolds == FetchSpec => []NgaInv
BY NgaStarts, NgaKeeps, PTL DEF FetchSpec

(***************************************************************************)
(* bound_nga_directory: a finished sample names only what it holds and is  *)
(* within the limit, even if the export was refreshed while it was read.   *)
(***************************************************************************)
THEOREM SampleIsClosed == FetchSpec => []SampleClosed
<1>1. NgaInv => SampleClosed
  <2> SUFFICES ASSUME NgaInv, ngaPc = "done" PROVE
          /\ Nga!CellsOf(sample.links, "objectid") \subseteq Nga!CellsOf(sample.objects, "objectid")
          /\ Nga!CellsOf(sample.constituents, "constituentid")
                \subseteq Nga!CellsOf(sample.links, "constituentid")
          /\ Len(sample.objects) <= ngaLimit
    BY DEF SampleClosed, Nga!SampleClosed
  <2>1. sample.objects = mem.objects /\ sample.links = mem.links /\ sample.constituents = mem.constituents
    BY DEF NgaInv, Copied, Unwritten, Nga!Table
  <2>2. /\ Column(mem.links, "objectid") \subseteq Column(mem.objects, "objectid")
        /\ Column(mem.constituents, "constituentid") \subseteq Column(mem.links, "constituentid")
        /\ Len(mem.objects) <= ngaLimit
    BY DEF NgaInv, Closed, Unread
  <2> QED BY <2>1, <2>2, CellsAre DEF Column
<1> QED BY <1>1, NgaHolds, PTL

-----------------------------------------------------------------------------
TablesTyped(tables) == \A t \in Nga!Table : tables[t] \in Seq(Nga!RowsOf(t))

\* Tables as the adapter reads them.
ReadTyped(tables) ==
    /\ tables.links \in Seq(LinkRows)
    /\ \E S : tables.constituents \in Seq(S)

LEMMA StrippedTyped == \A tables : TablesTyped(tables) => ReadTyped(Nga!Stripped(tables))
<1> SUFFICES ASSUME NEW tables, TablesTyped(tables) PROVE ReadTyped(Nga!Stripped(tables))
  OBVIOUS
<1> DEFINE links == Nga!Stripped(tables)["links"]
           Made(t) == {Nga!StripIds(row) : row \in Nga!RowsOf(t)}
<1>1. "links" \in Nga!Table /\ "constituents" \in Nga!Table
  BY DEF Nga!Table
<1>2. links \in Seq(Made("links")) /\ Nga!Stripped(tables)["constituents"] \in Seq(Made("constituents"))
  BY <1>1, StrippedIs DEF TablesTyped
<1>3. Made("links") \subseteq LinkRows
  BY Formed
<1> HIDE DEF links, Made
<1>4. links \in Seq(LinkRows)
  BY <1>2, <1>3
<1> QED BY <1>2, <1>4 DEF ReadTyped, links

\* The findings of a rule in tables as the adapter reads them.
Found(read, rule) ==
    CASE rule = "schema" -> Nga!InvalidFieldType(Nga!Objects(read), Nga!Typed)
      [] rule = "range" -> Nga!InvertedDateRange(Nga!Objects(read))
      [] rule = "life" -> Nga!AgentLifespanConflict(Nga!Objects(read), Nga!Agents(read))

LEMMA FoundIs ==
    ASSUME NEW read
    PROVE  /\ Found(read, "schema") = Nga!InvalidFieldType(Nga!Objects(read), Nga!Typed)
           /\ Found(read, "range") = Nga!InvertedDateRange(Nga!Objects(read))
           /\ Found(read, "life") = Nga!AgentLifespanConflict(Nga!Objects(read), Nga!Agents(read))
BY DEF Found

LEMMA ScanIs ==
    ASSUME NEW tables, NEW r \in Nga!Rules
    PROVE  /\ (\E t \in Nga!Table : tables[t] = None) => Nga!Scan(tables)[r] = {}
           /\ (\A t \in Nga!Table : tables[t] # None) =>
                 Nga!Scan(tables)[r] = Found(Nga!Stripped(tables), r)
<1> DEFINE read == Nga!Stripped(tables)
           O == Nga!Objects(read)
           A == Nga!Agents(read)
<1>1. ASSUME \E t \in Nga!Table : tables[t] = None
      PROVE  Nga!Scan(tables)[r] = {}
  <2>1. Nga!Scan(tables) = [schema |-> {}, range |-> {}, life |-> {}]
    BY <1>1 DEF Nga!Scan
  <2> QED BY <2>1 DEF Nga!Rules
<1>2. ASSUME \A t \in Nga!Table : tables[t] # None
      PROVE  Nga!Scan(tables)[r] = Found(read, r)
  <2>1. Nga!Scan(tables) = [schema |-> Nga!InvalidFieldType(O, Nga!Typed),
                            range  |-> Nga!InvertedDateRange(O),
                            life   |-> Nga!AgentLifespanConflict(O, A)]
    BY <1>2 DEF Nga!Scan
  <2> HIDE DEF read, O, A
  <2>2. /\ Nga!Scan(tables)["schema"] = Nga!InvalidFieldType(O, Nga!Typed)
        /\ Nga!Scan(tables)["range"] = Nga!InvertedDateRange(O)
        /\ Nga!Scan(tables)["life"] = Nga!AgentLifespanConflict(O, A)
    BY <2>1
  <2>3. /\ Found(read, "schema") = Nga!InvalidFieldType(O, Nga!Typed)
        /\ Found(read, "range") = Nga!InvertedDateRange(O)
        /\ Found(read, "life") = Nga!AgentLifespanConflict(O, A)
    BY FoundIs DEF O, A
  <2> QED BY <2>2, <2>3 DEF Nga!Rules
<1> QED BY <1>1, <1>2

LEMMA NotNone == \A tables : TablesTyped(tables) => \A t \in Nga!Table : tables[t] # None
BY Formed DEF TablesTyped

\* What is found in some rows of an export is found in the export.
LEMMA FewerRows ==
    ASSUME NEW few, NEW all, ReadTyped(few), ReadTyped(all),
           \A t \in Nga!Table : ToSet(few[t]) \subseteq ToSet(all[t]),
           Keyed(all.constituents, "constituentid"), NEW r \in Nga!Rules
    PROVE  Found(few, r) \subseteq Found(all, r)
<1>1. /\ ToSet(few.objects) \subseteq ToSet(all.objects) /\ ToSet(few.links) \subseteq ToSet(all.links)
      /\ ToSet(few.constituents) \subseteq ToSet(all.constituents)
      /\ few.links \in Seq(LinkRows) /\ all.links \in Seq(LinkRows)
      /\ (\E S : few.constituents \in Seq(S)) /\ \E S : all.constituents \in Seq(S)
  BY DEF ReadTyped, Nga!Table
<1>2. \A tables \in {few, all} :
         /\ Found(tables, "schema") = Nga!InvalidFieldType(Nga!Objects(tables), Nga!Typed)
         /\ Found(tables, "range") = Nga!InvertedDateRange(Nga!Objects(tables))
         /\ Found(tables, "life") = Nga!AgentLifespanConflict(Nga!Objects(tables), Nga!Agents(tables))
  BY FoundIs
<1>3. CASE r = "schema"
  BY <1>1, <1>2, <1>3, SchemaIs
<1>4. CASE r = "range"
  BY <1>1, <1>2, <1>4, RangeIs
<1>5. CASE r = "life"
  <2> SUFFICES ASSUME NEW f, f \in Nga!AgentLifespanConflict(Nga!Objects(few), Nga!Agents(few))
               PROVE  f \in Nga!AgentLifespanConflict(Nga!Objects(all), Nga!Agents(all))
    BY <1>2, <1>5
  <2> DEFINE here(m) == Nga!Lifespan(Nga!Agents(few), m)
             there(m) == Nga!Lifespan(Nga!Agents(all), m)
  <2>1. PICK row \in ToSet(few.objects) : \E l \in Links(few, row) :
            f = LifeFinding(row, l.constituentid, here(l.constituentid)) /\ Why(row, here(l.constituentid)) # None
    BY <1>1, LifeIs
  <2>2. PICK l \in Links(few, row) :
            f = LifeFinding(row, l.constituentid, here(l.constituentid)) /\ Why(row, here(l.constituentid)) # None
    BY <2>1
  <2>3. PICK c \in ToSet(few.constituents) : c.constituentid = l.constituentid
    <3>1. ASSUME \A c \in ToSet(few.constituents) : c.constituentid # l.constituentid PROVE FALSE
      <4>1. Keyed(few.constituents, "constituentid")
        BY <1>1 DEF Keyed
      <4>2. here(l.constituentid) = <<None, None>>
        BY <1>1, <3>1, <4>1, LifespanIs
      <4>3. Why(row, <<None, None>>) = None
        BY DEF Why
      <4> QED BY <2>2, <4>2, <4>3
    <3> QED BY <3>1
  <2>4. here(l.constituentid) = there(l.constituentid)
    <3>1. Keyed(few.constituents, "constituentid") /\ c \in ToSet(all.constituents)
      BY <1>1 DEF Keyed
    <3> QED BY <1>1, <2>3, <3>1, LifespanIs
  <2>5. row \in ToSet(all.objects) /\ l \in Links(all, row)
    BY <1>1 DEF Links
  <2> HIDE DEF here, there
  <2>6. f = LifeFinding(row, l.constituentid, there(l.constituentid)) /\ Why(row, there(l.constituentid)) # None
    BY <2>2, <2>4
  <2> QED BY <1>1, <2>5, <2>6, LifeIs DEF there
<1> QED BY <1>3, <1>4, <1>5 DEF Nga!Rules

\* What is found in an export about the objects kept is found in the sample.
LEMMA OfTheKept ==
    ASSUME NEW few, NEW all, ReadTyped(few), ReadTyped(all),
           ToSet(few.objects) \subseteq ToSet(all.objects),
           ToSet(few.links) = {l \in ToSet(all.links) : l.objectid \in Column(few.objects, "objectid")},
           ToSet(few.constituents)
               = {c \in ToSet(all.constituents) : c.constituentid \in Column(few.links, "constituentid") \ {Empty}},
           Keyed(all.objects, "objectid"), Keyed(all.constituents, "constituentid"),
           NEW r \in Nga!Rules
    PROVE  Found(few, r) = {f \in Found(all, r) : f.id \in Column(few.objects, "objectid")}
<1> DEFINE kept == Column(few.objects, "objectid")
<1>1. /\ few.links \in Seq(LinkRows) /\ all.links \in Seq(LinkRows)
      /\ (\E S : few.constituents \in Seq(S)) /\ \E S : all.constituents \in Seq(S)
      /\ \A t \in Nga!Table : ToSet(few[t]) \subseteq ToSet(all[t])
  BY DEF ReadTyped, Nga!Table
<1>2. \A tables \in {few, all} :
         /\ Found(tables, "schema") = Nga!InvalidFieldType(Nga!Objects(tables), Nga!Typed)
         /\ Found(tables, "range") = Nga!InvertedDateRange(Nga!Objects(tables))
         /\ Found(tables, "life") = Nga!AgentLifespanConflict(Nga!Objects(tables), Nga!Agents(tables))
  BY FoundIs
<1>3. Found(few, r) \subseteq Found(all, r)
  BY <1>1, FewerRows
<1>4. \A row \in ToSet(few.objects) : row.objectid \in kept
  BY DEF Column
<1>5. \A row \in ToSet(all.objects) : row.objectid \in kept => row \in ToSet(few.objects)
  <2> SUFFICES ASSUME NEW row \in ToSet(all.objects), row.objectid \in kept PROVE row \in ToSet(few.objects)
    OBVIOUS
  <2>1. PICK other \in ToSet(few.objects) : row.objectid = other.objectid
    BY DEF Column
  <2> QED BY <2>1 DEF Keyed
<1> HIDE DEF kept
<1>6. CASE r = "schema"
  BY <1>2, <1>3, <1>4, <1>5, <1>6, SchemaIs DEF SchemaFinding, kept
<1>7. CASE r = "range"
  BY <1>2, <1>3, <1>4, <1>5, <1>7, RangeIs DEF RangeFinding, kept
<1>8. CASE r = "life"
  <2> DEFINE here(m) == Nga!Lifespan(Nga!Agents(few), m)
             there(m) == Nga!Lifespan(Nga!Agents(all), m)
  <2>1. ASSUME NEW f \in Nga!AgentLifespanConflict(Nga!Objects(few), Nga!Agents(few))
        PROVE  f.id \in kept
    <3>1. PICK row \in ToSet(few.objects) : \E l \in Links(few, row) :
              f = LifeFinding(row, l.constituentid, here(l.constituentid))
      BY <1>1, LifeIs
    <3> QED BY <1>4, <3>1 DEF LifeFinding
  <2>2. ASSUME NEW f \in Nga!AgentLifespanConflict(Nga!Objects(all), Nga!Agents(all)), f.id \in kept
        PROVE  f \in Nga!AgentLifespanConflict(Nga!Objects(few), Nga!Agents(few))
    <3>1. PICK row \in ToSet(all.objects) : \E l \in Links(all, row) :
              /\ f = LifeFinding(row, l.constituentid, there(l.constituentid))
              /\ Why(row, there(l.constituentid)) # None
      BY <1>1, LifeIs
    <3>2. PICK l \in Links(all, row) :
              /\ f = LifeFinding(row, l.constituentid, there(l.constituentid))
              /\ Why(row, there(l.constituentid)) # None
      BY <3>1
    <3>3. row.objectid \in kept
      BY <2>2, <3>2 DEF LifeFinding
    <3>4. row \in ToSet(few.objects)
      BY <1>5, <3>3
    <3>5. l \in Links(few, row)
      BY <3>3 DEF Links, kept
    <3>6. here(l.constituentid) = there(l.constituentid)
      <4>1. Keyed(few.constituents, "constituentid")
        BY DEF Keyed
      <4>2. l.constituentid \in Column(few.links, "constituentid") \ {Empty}
        BY <3>5 DEF Links, Column
      <4>3. CASE \E c \in ToSet(all.constituents) : c.constituentid = l.constituentid
        <5>1. PICK c \in ToSet(all.constituents) : c.constituentid = l.constituentid
          BY <4>3
        <5>2. c \in ToSet(few.constituents)
          BY <4>2, <5>1
        <5> QED BY <1>1, <4>1, <5>1, <5>2, LifespanIs, ZenonT(60)
      <4>4. CASE \A c \in ToSet(all.constituents) : c.constituentid # l.constituentid
        <5>1. \A c \in ToSet(few.constituents) : c.constituentid # l.constituentid
          BY <4>4
        <5> QED BY <1>1, <4>1, <4>4, <5>1, LifespanIs
      <4> QED BY <4>3, <4>4
    <3> HIDE DEF here, there
    <3>7. /\ f = LifeFinding(row, l.constituentid, here(l.constituentid))
          /\ Why(row, here(l.constituentid)) # None
      BY <3>2, <3>6
    <3> QED BY <1>1, <3>4, <3>5, <3>7, LifeIs DEF here
  <2> QED BY <1>2, <1>3, <1>8, <2>1, <2>2 DEF kept
<1> QED BY <1>6, <1>7, <1>8 DEF Nga!Rules, kept

\* The rows of typed tables, stripped.
LEMMA RowsStripped ==
    ASSUME NEW tables, TablesTyped(tables), NEW t \in Nga!Table
    PROVE  /\ ToSet(tables[t]) \subseteq Nga!RowsOf(t)
           /\ ToSet(Nga!Stripped(tables)[t]) = {Nga!StripIds(row) : row \in ToSet(tables[t])}
<1>1. tables[t] \in Seq(Nga!RowsOf(t))
  BY DEF TablesTyped
<1>2. ToSet(tables[t]) \subseteq Nga!RowsOf(t)
  BY <1>1 DEF ToSet
<1> QED BY <1>1, <1>2, StrippedIs

\* Where ids are written alike, what belongs to the objects kept as the ids
\* are written belongs to them as the adapter reads them.
LEMMA KeptStripped ==
    ASSUME NEW few, NEW all, TablesTyped(few), TablesTyped(all), Nga!WrittenAlike(all),
           NEW O, O = ToSet(few["objects"]), NEW L, L = ToSet(few["links"]),
           NEW C, C = ToSet(few["constituents"]),
           O \subseteq ToSet(all["objects"]),
           L = {l \in ToSet(all["links"]) : l.objectid \in {o.objectid : o \in O}},
           C = {c \in ToSet(all["constituents"]) : c.constituentid \in {l.constituentid : l \in L} \ {Empty}}
    PROVE  LET few2 == Nga!Stripped(few)
               all2 == Nga!Stripped(all)
           IN  /\ ToSet(few2["objects"]) \subseteq ToSet(all2["objects"])
               /\ ToSet(few2["links"])
                     = {l \in ToSet(all2["links"]) : l.objectid \in Column(few2["objects"], "objectid")}
               /\ ToSet(few2["constituents"])
                     = {c \in ToSet(all2["constituents"]) :
                           c.constituentid \in Column(few2["links"], "constituentid") \ {Empty}}
<1> DEFINE few2 == Nga!Stripped(few)
           all2 == Nga!Stripped(all)
           AO == ToSet(all["objects"])
           AL == ToSet(all["links"])
           AC == ToSet(all["constituents"])
           st(row) == Nga!StripIds(row)
<1>1. "objects" \in Nga!Table /\ "links" \in Nga!Table /\ "constituents" \in Nga!Table
  BY DEF Nga!Table
<1>2. /\ ToSet(few2["objects"]) = {st(o) : o \in O} /\ ToSet(all2["objects"]) = {st(o) : o \in AO}
      /\ ToSet(few2["links"]) = {st(l) : l \in L} /\ ToSet(all2["links"]) = {st(l) : l \in AL}
      /\ ToSet(few2["constituents"]) = {st(c) : c \in C}
      /\ ToSet(all2["constituents"]) = {st(c) : c \in AC}
  <2>1. ASSUME NEW t \in Nga!Table
        PROVE  /\ ToSet(few2[t]) = {st(row) : row \in ToSet(few[t])}
               /\ ToSet(all2[t]) = {st(row) : row \in ToSet(all[t])}
    BY RowsStripped
  <2> HIDE DEF few2, all2, st
  <2> QED BY <1>1, <2>1
<1>3. /\ AO \subseteq Nga!RowsOf("objects") /\ AL \subseteq Nga!RowsOf("links")
      /\ AC \subseteq Nga!RowsOf("constituents")
  BY <1>1, RowsStripped
<1>4. /\ \A o \in AO : st(o).objectid = Trim[o.objectid]
      /\ \A l \in AL : st(l).objectid = Trim[l.objectid] /\ st(l).constituentid = Trim[l.constituentid]
      /\ \A c \in AC : st(c).constituentid = Trim[c.constituentid]
  BY <1>1, <1>3, ColumnsAre
<1>5. Trim[Empty] = Empty /\ \A c \in AC : Trim[c.constituentid] # Empty
  BY <1>3, FetchAssumption DEF Nga!WellFormed
<1>6. /\ \A l \in AL, o \in AO : Trim[l.objectid] = Trim[o.objectid] => l.objectid = o.objectid
      /\ \A l \in AL, c \in AC : Trim[l.constituentid] = Trim[c.constituentid]
                                 => l.constituentid = c.constituentid
  <2>1. /\ \A l \in AL : /\ l.objectid \in Nga!CellsOf(all.links, "objectid")
                         /\ l.constituentid \in Nga!CellsOf(all.links, "constituentid")
        /\ \A o \in AO : o.objectid \in Nga!CellsOf(all.objects, "objectid")
        /\ \A c \in AC : c.constituentid \in Nga!CellsOf(all.constituents, "constituentid")
    BY CellsAre
  <2> HIDE DEF AO, AL, AC
  <2> QED BY <2>1 DEF Nga!WrittenAlike
<1> HIDE DEF st, AO, AL, AC, few2, all2
<1>7. /\ Column(few2["objects"], "objectid") = {st(o).objectid : o \in O}
      /\ Column(few2["links"], "constituentid") = {st(l).constituentid : l \in L}
  BY <1>2 DEF Column
<1>8. O \subseteq AO /\ L \subseteq AL /\ C \subseteq AC
  BY DEF AO, AL, AC
<1>9. ASSUME NEW l \in AL
      PROVE  st(l).objectid \in {st(o).objectid : o \in O} <=> l \in L
  <2>1. ASSUME l \in L PROVE st(l).objectid \in {st(o).objectid : o \in O}
    <3>1. PICK o \in O : l.objectid = o.objectid
      BY <2>1
    <3>2. st(l).objectid = st(o).objectid
      BY <1>4, <1>8, <3>1
    <3> QED BY <3>2
  <2>2. ASSUME NEW o \in O, st(l).objectid = st(o).objectid PROVE l \in L
    <3>1. l.objectid = o.objectid
      BY <1>4, <1>6, <1>8, <2>2
    <3> QED BY <3>1 DEF AL
  <2> QED BY <2>1, <2>2
<1>10. ASSUME NEW c \in AC
       PROVE  st(c).constituentid \in {st(l).constituentid : l \in L} \ {Empty} <=> c \in C
  <2>1. ASSUME c \in C PROVE st(c).constituentid \in {st(l).constituentid : l \in L} \ {Empty}
    <3>1. PICK l \in L : c.constituentid = l.constituentid
      BY <2>1
    <3>2. st(c).constituentid = st(l).constituentid /\ st(c).constituentid # Empty
      BY <1>4, <1>5, <1>8, <3>1
    <3> QED BY <3>2
  <2>2. ASSUME NEW l \in L, st(c).constituentid = st(l).constituentid, st(c).constituentid # Empty
        PROVE  c \in C
    <3>1. c.constituentid = l.constituentid
      BY <1>4, <1>6, <1>8, <2>2
    <3>2. c.constituentid # Empty
      BY <1>4, <1>5
    <3> QED BY <3>1, <3>2 DEF AC
  <2> QED BY <2>1, <2>2
<1>11. ToSet(few2["objects"]) \subseteq ToSet(all2["objects"])
  BY <1>2, <1>8
<1>12. ToSet(few2["links"])
          = {l \in ToSet(all2["links"]) : l.objectid \in Column(few2["objects"], "objectid")}
  BY <1>2, <1>7, <1>8, <1>9
<1>13. ToSet(few2["constituents"])
          = {c \in ToSet(all2["constituents"]) :
                c.constituentid \in Column(few2["links"], "constituentid") \ {Empty}}
  BY <1>2, <1>7, <1>8, <1>10
<1> QED BY <1>11, <1>12, <1>13 DEF few2, all2

(***************************************************************************)
(* bound_nga_directory, then the adapter and the date rules: if objects    *)
(* and constituents have unique ids, a sample taken in one go from an      *)
(* export at rest has exactly the export's findings about its objects,     *)
(* unless a table begins with a byte order mark or an id is padded here    *)
(* and not there.                                                          *)
(***************************************************************************)
THEOREM SampleFindsTheSame == ASSUME KeysUnique PROVE FetchSpec => []SampleFaithful
<1>1. NgaInv => SampleFaithful
  <2> SUFFICES ASSUME NgaInv, ngaPc = "done", ~moved, marked = {}, Nga!WrittenAlike(pages),
                      NEW r \in Nga!Rules
               PROVE  Nga!Scan(sample)[r] = {f \in Nga!Scan(pages)[r] :
                          f.id \in Nga!CellsOf(Nga!Stripped(sample).objects, "objectid")}
    BY DEF SampleFaithful, Nga!SampleFaithful
  <2>1. /\ sample.objects = mem.objects /\ sample.links = mem.links /\ sample.constituents = mem.constituents
        /\ \A t \in Nga!Table : sample[t] = mem[t]
    BY DEF NgaInv, Copied, Unwritten, Nga!Table
  <2>2. TablesTyped(sample) /\ TablesTyped(pages)
    BY <2>1 DEF NgaInv, NgaTyped, TablesTyped
  <2>3. /\ ToSet(mem.objects) \subseteq ToSet(pages.objects)
        /\ ToSet(mem.links) = {l \in ToSet(pages.links) : l.objectid \in Column(mem.objects, "objectid")}
        /\ ToSet(mem.constituents) = {c \in ToSet(pages.constituents) :
                                         c.constituentid \in Column(mem.links, "constituentid") \ {Empty}}
    BY DEF NgaInv, Whole, Unread
  <2> DEFINE few2 == Nga!Stripped(sample)
             all2 == Nga!Stripped(pages)
  <2>4. Keyed(all2.objects, "objectid") /\ Keyed(all2.constituents, "constituentid")
    BY DEF NgaInv, KeysStay
  <2>5. ReadTyped(few2) /\ ReadTyped(all2)
    BY <2>2, StrippedTyped
  <2>6. /\ ToSet(few2.objects) \subseteq ToSet(all2.objects)
        /\ ToSet(few2.links) = {l \in ToSet(all2.links) : l.objectid \in Column(few2.objects, "objectid")}
        /\ ToSet(few2.constituents)
              = {c \in ToSet(all2.constituents) :
                    c.constituentid \in Column(few2.links, "constituentid") \ {Empty}}
    <3> DEFINE O == ToSet(sample["objects"])
               L == ToSet(sample["links"])
               C == ToSet(sample["constituents"])
    <3>1. /\ O \subseteq ToSet(pages["objects"])
          /\ L = {l \in ToSet(pages["links"]) : l.objectid \in {o.objectid : o \in O}}
          /\ C = {c \in ToSet(pages["constituents"]) : c.constituentid \in {l.constituentid : l \in L} \ {Empty}}
      BY <2>1, <2>3 DEF Column
    <3> HIDE DEF few2, all2
    <3>2. O = ToSet(sample["objects"]) /\ L = ToSet(sample["links"]) /\ C = ToSet(sample["constituents"])
      OBVIOUS
    <3> HIDE DEF O, L, C
    <3> QED BY <2>2, <3>1, <3>2, KeptStripped, SMTT(60) DEF few2, all2
  <2> HIDE DEF few2, all2
  <2>7. Found(few2, r) = {f \in Found(all2, r) : f.id \in Column(few2.objects, "objectid")}
    BY <2>4, <2>5, <2>6, OfTheKept
  <2>8. Nga!Scan(sample)[r] = Found(few2, r) /\ Nga!Scan(pages)[r] = Found(all2, r)
    BY <2>2, NotNone, ScanIs DEF few2, all2
  <2>9. Nga!CellsOf(few2.objects, "objectid") = Column(few2.objects, "objectid")
    BY CellsAre DEF Column
  <2> QED BY <2>7, <2>8, <2>9 DEF few2
<1> QED BY <1>1, NgaHolds, PTL

(***************************************************************************)
(* With unique ids, nothing is found in a sample directory, whichever runs *)
(* filled it and wherever they were killed, that is not found in the       *)
(* export, unless a row is cut off (bound_nga_directory, date rules).      *)
(***************************************************************************)
THEOREM SampleRaisesNoFalseAlarm == ASSUME KeysUnique PROVE FetchSpec => []NoFalseAlarm
<1>1. NgaInv => NoFalseAlarm
  <2> SUFFICES ASSUME NgaInv, edits = 0, torn = {}, NEW r \in Nga!Rules
               PROVE  Nga!Scan(sample)[r] \subseteq Nga!Scan(pages)[r]
    BY DEF NoFalseAlarm, Nga!NoFalseAlarm
  <2>1. CASE \E t \in Nga!Table : sample[t] = None
    BY <2>1, ScanIs
  <2>2. CASE \A t \in Nga!Table : sample[t] # None
    <3>1. TablesTyped(sample) /\ TablesTyped(pages)
      BY <2>2 DEF NgaInv, NgaTyped, TablesTyped
    <3>2. \A t \in Nga!Table : ToSet(sample[t]) \subseteq ToSet(pages[t])
      BY <2>2 DEF NgaInv, Theirs
    <3> DEFINE few2 == Nga!Stripped(sample)
               all2 == Nga!Stripped(pages)
    <3>3. Keyed(all2.constituents, "constituentid")
      BY DEF NgaInv, KeysStay
    <3>4. ReadTyped(few2) /\ ReadTyped(all2)
      BY <3>1, StrippedTyped
    <3>5. \A t \in Nga!Table : ToSet(few2[t]) \subseteq ToSet(all2[t])
      <4> SUFFICES ASSUME NEW t \in Nga!Table PROVE ToSet(few2[t]) \subseteq ToSet(all2[t])
        OBVIOUS
      <4>1. /\ ToSet(few2[t]) = {Nga!StripIds(row) : row \in ToSet(sample[t])}
            /\ ToSet(all2[t]) = {Nga!StripIds(row) : row \in ToSet(pages[t])}
        BY <3>1, RowsStripped
      <4>2. ToSet(sample[t]) \subseteq ToSet(pages[t])
        BY <3>2
      <4> HIDE DEF few2, all2
      <4> QED BY <4>1, <4>2
    <3> HIDE DEF few2, all2
    <3>6. Found(few2, r) \subseteq Found(all2, r)
      BY <3>3, <3>4, <3>5, FewerRows
    <3>7. Nga!Scan(sample)[r] = Found(few2, r) /\ Nga!Scan(pages)[r] = Found(all2, r)
      BY <3>1, NotNone, ScanIs DEF few2, all2
    <3> QED BY <3>6, <3>7
  <2> QED BY <2>1, <2>2
<1> QED BY <1>1, NgaHolds, PTL

-----------------------------------------------------------------------------
\* Overlap of two spans of years.
LEMMA SpansMeet ==
    ASSUME NEW s \in Int, NEW e \in Int, NEW b \in Int, NEW d \in Int, s <= e, b <= d
    PROVE  Nga!ImpossibleReason(s, e, b, d) # None <=> (s .. e) \cap (b .. d) = {}
<1>1. Nga!ImpossibleReason(s, e, b, d) # None <=> e < b \/ s > d
  BY Formed DEF Nga!ImpossibleReason
<1>2. ASSUME e < b \/ s > d PROVE (s .. e) \cap (b .. d) = {}
  BY <1>2
<1>3. ASSUME ~(e < b \/ s > d) PROVE (s .. e) \cap (b .. d) # {}
  <2>1. CASE s <= b
    <3>1. b \in s .. e /\ b \in b .. d
      BY <1>3, <2>1
    <3> QED BY <3>1
  <2>2. CASE ~(s <= b)
    <3>1. s \in s .. e /\ s \in b .. d
      BY <1>3, <2>2
    <3> QED BY <3>1
  <2> QED BY <2>1, <2>2
<1> QED BY <1>1, <1>2, <1>3

LEMMA Years == \A raw : Nga!ParseDate(raw) = None \/ Nga!ParseDate(raw) \in Int
<1> SUFFICES ASSUME NEW raw PROVE Nga!ParseDate(raw) = None \/ Nga!ParseDate(raw) \in Int
  OBVIOUS
<1>1. CASE raw \in 1 .. MaxYear
  <2>1. Nga!ParseDate(raw) = raw
    BY <1>1 DEF Nga!ParseDate
  <2> QED BY <1>1, <2>1
<1>2. CASE raw \notin 1 .. MaxYear
  BY <1>2 DEF Nga!ParseDate
<1> QED BY <1>1, <1>2

(***************************************************************************)
(* _impossible_reason and parse_date: with unique ids, a maker is reported *)
(* if and only if the life does not meet the production range, and never   *)
(* for an object one of whose dates does not parse.                        *)
(***************************************************************************)
THEOREM LifespanRuleIsExact == ASSUME KeysUnique PROVE FetchSpec => []ConflictIffDisjoint
<1> DEFINE read == Nga!Stripped(pages)
           O == Nga!Objects(read)
           A == Nga!Agents(read)
           rows == read.objects
<1>1. ASSUME NgaInv PROVE Keyed(rows, "objectid") /\ Keyed(read.constituents, "constituentid")
  BY <1>1 DEF NgaInv, KeysStay
<1>2. ASSUME NgaInv PROVE TablesTyped(pages) /\ ReadTyped(read)
  BY <1>2, StrippedTyped DEF NgaInv, NgaTyped, TablesTyped
<1> HIDE DEF read
<1>3. \A i \in DOMAIN O : /\ i \in DOMAIN rows /\ rows[i] \in ToSet(rows)
                          /\ Nga!Start(O[i]) = Nga!ParseDate(rows[i].beginyear)
                          /\ Nga!End(O[i]) = Nga!ParseDate(rows[i].endyear)
  BY ObjectsAre DEF ToSet
<1>4. ASSUME NgaInv, NEW k \in DOMAIN A
      PROVE  Nga!Lifespan(A, A[k].agent_id)
                 = <<Nga!ParseDate(A[k].birth_date), Nga!ParseDate(A[k].death_date)>>
  <2> DEFINE c == read.constituents[k]
  <2>1. /\ c \in ToSet(read.constituents) /\ A[k].agent_id = c.constituentid
        /\ A[k].birth_date = c.beginyear /\ A[k].death_date = c.endyear
    BY DEF Nga!Agents, ToSet
  <2> HIDE DEF c, A
  <2>2. Nga!Lifespan(Nga!Agents(read), c.constituentid) = <<Nga!ParseDate(c.beginyear), Nga!ParseDate(c.endyear)>>
    BY <1>1, <1>2, <1>4, <2>1, LifespanIs DEF ReadTyped
  <2> QED BY <2>1, <2>2 DEF A
<1>5. ASSUME NgaInv, NEW i \in DOMAIN O, NEW k \in DOMAIN A,
             None \notin {Nga!Start(O[i]), Nga!End(O[i]),
                          Nga!ParseDate(A[k].birth_date), Nga!ParseDate(A[k].death_date)},
             Nga!Start(O[i]) <= Nga!End(O[i]),
             Nga!ParseDate(A[k].birth_date) <= Nga!ParseDate(A[k].death_date)
      PROVE  Nga!Reason(O[i], A, A[k].agent_id) # None
                 <=> (Nga!Start(O[i]) .. Nga!End(O[i]))
                        \cap (Nga!ParseDate(A[k].birth_date) .. Nga!ParseDate(A[k].death_date)) = {}
  <2> DEFINE s == Nga!Start(O[i])  e == Nga!End(O[i])
             b == Nga!ParseDate(A[k].birth_date)  d == Nga!ParseDate(A[k].death_date)
  <2>1. s \in Int /\ e \in Int /\ b \in Int /\ d \in Int
    BY <1>5, Years DEF Nga!Start, Nga!End
  <2>2. Nga!Lifespan(A, A[k].agent_id) = <<b, d>>
    BY <1>4, <1>5
  <2> HIDE DEF O, A
  <2>3. Nga!Reason(O[i], A, A[k].agent_id) = Nga!ImpossibleReason(s, e, b, d)
    BY <1>5, <2>2 DEF Nga!Reason
  <2> QED BY <1>5, <2>1, <2>3, SpansMeet
<1>6. ASSUME NgaInv, NEW f \in Nga!Scan(pages).schema, NEW g \in Nga!Scan(pages).range \cup Nga!Scan(pages).life
      PROVE  f.id # g.id
  <2>1. /\ Nga!Scan(pages)["schema"] = Nga!InvalidFieldType(O, Nga!Typed)
        /\ Nga!Scan(pages)["range"] = Nga!InvertedDateRange(O)
        /\ Nga!Scan(pages)["life"] = Nga!AgentLifespanConflict(O, A)
    <3>1. \A r \in Nga!Rules : Nga!Scan(pages)[r] = Found(read, r)
      BY <1>2, <1>6, ScanIs, NotNone DEF read
    <3> QED BY <3>1, FoundIs DEF Nga!Rules
  <2>2. f \in Nga!InvalidFieldType(O, Nga!Typed)
    BY <2>1
  <2>3. PICK row \in ToSet(rows) : f.id = row.objectid /\ None \in {Nga!ParseDate(row.beginyear), Nga!ParseDate(row.endyear)}
    BY <2>2, SchemaIs DEF SchemaFinding, Year, Nga!Typed
  <2>4. \E other \in ToSet(rows) : /\ g.id = other.objectid
                                   /\ None \notin {Nga!ParseDate(other.beginyear), Nga!ParseDate(other.endyear)}
    <3>1. CASE g \in Nga!InvertedDateRange(O)
      BY <3>1, RangeIs DEF RangeFinding
    <3>2. CASE g \in Nga!AgentLifespanConflict(O, A)
      <4>1. PICK other \in ToSet(rows) : \E l \in Links(read, other) :
                /\ g = LifeFinding(other, l.constituentid, Nga!Lifespan(A, l.constituentid))
                /\ Why(other, Nga!Lifespan(A, l.constituentid)) # None
        BY <1>2, <1>6, <3>2, LifeIs DEF ReadTyped
      <4> QED BY <4>1 DEF LifeFinding, Why
    <3> QED BY <2>1, <3>1, <3>2
  <2> QED BY <1>1, <1>6, <2>3, <2>4 DEF Keyed
<1>7. NgaInv => ConflictIffDisjoint
  <2> SUFFICES ASSUME NgaInv PROVE ConflictIffDisjoint
    OBVIOUS
  <2> HIDE DEF O, A
  <2>1. {f.id : f \in Nga!Scan(pages).schema}
            \cap {g.id : g \in Nga!Scan(pages).range \cup Nga!Scan(pages).life} = {}
    BY <1>6
  <2> QED BY <1>5, <2>1 DEF ConflictIffDisjoint, Nga!ConflictIffDisjoint, O, A, read
<1> QED BY <1>7, NgaHolds, PTL

-----------------------------------------------------------------------------
\* Where every link has a display order, it and the id decide.
Ordered(links) == \A i \in DOMAIN links : links[i].displayorder # Empty

Earlier(r, s) ==
    \/ r.displayorder < s.displayorder
    \/ r.displayorder = s.displayorder /\ r.constituentid < s.constituentid

LEMMA OrderedRows ==
    ASSUME NEW links \in Seq(LinkRows), Ordered(links), NEW id
    PROVE  /\ \A i \in Mine(links, id) : /\ i \in Nat /\ links[i].constituentid \in Int
                                         /\ links[i].displayorder \in Int
           /\ \A i, k \in Mine(links, id) :
                 /\ Earlier(links[i], links[k]) => Before(links, i, k)
                 /\ Before(links, i, k) => ~Earlier(links[k], links[i])
           /\ \A i \in Mine(links, id) : ~Before(links, i, i)
<1>1. Len(links) \in Nat /\ DOMAIN links = 1 .. Len(links) /\ \A i \in 1 .. Len(links) : links[i] \in LinkRows
  OBVIOUS
<1>2. \A i \in Mine(links, id) : /\ i \in Nat /\ links[i].constituentid \in Int
                                 /\ links[i].displayorder \in Int
                                 /\ OrderAt(links, i) = links[i].displayorder
  BY <1>1 DEF Mine, LinkRows, Ordered, OrderAt
<1>3. \A i, k \in Mine(links, id) :
          /\ Earlier(links[i], links[k]) => Before(links, i, k)
          /\ Before(links, i, k) => ~Earlier(links[k], links[i])
  BY <1>2 DEF Before, Earlier
<1>4. \A i \in Mine(links, id) : ~Before(links, i, i)
  BY <1>2 DEF Before
<1> QED BY <1>2, <1>3, <1>4

\* Every link of an object in one table has a place of its own in another.
Placed(p, q, id) ==
    \E h \in [Mine(p, id) -> Mine(q, id)] :
        /\ \A i, k \in Mine(p, id) : h[i] = h[k] => i = k
        /\ \A i \in Mine(p, id) : q[h[i]] = p[i]

\* If the links of one table are found in another, its n-th link is not the earlier.
LEMMA NoneEarlier ==
    ASSUME NEW p \in Seq(LinkRows), NEW q \in Seq(LinkRows), Ordered(p), Ordered(q), NEW id,
           Placed(p, q, id),
           NEW n \in (1 .. Cardinality(Mine(p, id))) \cap (1 .. Cardinality(Mine(q, id)))
    PROVE  ~Earlier(p[NthLink(p, id, n)], q[NthLink(q, id, n)])
<1> PICK h \in [Mine(p, id) -> Mine(q, id)] :
         /\ \A i, k \in Mine(p, id) : h[i] = h[k] => i = k
         /\ \A i \in Mine(p, id) : q[h[i]] = p[i]
  BY DEF Placed
<1> DEFINE P == Mine(p, id)
           Q == Mine(q, id)
           a == NthLink(p, id, n)
           b == NthLink(q, id, n)
           S == NotBefore(p, id, a)
           T == NotBefore(q, id, b)
           g == [k \in S |-> h[k]]
<1> SUFFICES ASSUME Earlier(p[a], q[b]) PROVE FALSE
  OBVIOUS
<1>1. /\ IsFiniteSet(P) /\ a \in P /\ Cardinality(S) = n
      /\ IsFiniteSet(Q) /\ b \in Q /\ Cardinality(T) = n
  BY LinkPlaces
<1>2. S \in SUBSET P /\ T \in SUBSET Q /\ \A k \in S : ~Before(p, a, k)
  BY DEF NotBefore
<1>3. \A k \in P : p[k].displayorder \in Int /\ p[k].constituentid \in Int
  BY OrderedRows
<1>4. \A k \in Q : q[k].displayorder \in Int /\ q[k].constituentid \in Int /\ k \in Nat
  BY OrderedRows
<1>5. ASSUME NEW k \in S PROVE h[k] \in T /\ h[k] # b
  <2>1. ~Earlier(p[a], p[k])
    BY <1>1, <1>2, OrderedRows
  <2>2. k \in P /\ h[k] \in Q /\ q[h[k]] = p[k]
    BY <1>2
  <2>3. Earlier(q[h[k]], q[b])
    BY <1>1, <1>3, <1>4, <2>1, <2>2, SMTT(30) DEF Earlier
  <2>4. ~Before(q, b, h[k])
    BY <1>1, <2>2, <2>3, OrderedRows
  <2>5. ~Earlier(q[b], q[b])
    BY <1>1, <1>4 DEF Earlier
  <2> QED BY <2>2, <2>3, <2>4, <2>5 DEF NotBefore
<1>6. IsFiniteSet(S) /\ IsFiniteSet(T)
  BY <1>1, <1>2, FS_Subset
<1>7. b \in T
  <2>1. ~Before(q, b, b)
    BY <1>1, OrderedRows
  <2> QED BY <1>1, <2>1 DEF NotBefore
<1>8. /\ IsFiniteSet(T \ {b}) /\ Cardinality(T \ {b}) < Cardinality(S)
  <2>1. T \ {b} \in SUBSET T /\ T \ {b} # T
    BY <1>7
  <2>2. IsFiniteSet(T \ {b}) /\ Cardinality(T \ {b}) <= Cardinality(T) /\ Cardinality(T \ {b}) # Cardinality(T)
    BY <1>6, <2>1, FS_Subset
  <2>3. Cardinality(T \ {b}) \in Nat /\ Cardinality(T) \in Nat
    BY <1>6, <2>2, FS_CardinalityType
  <2> QED BY <1>1, <2>2, <2>3
<1>9. g \in [S -> T \ {b}] /\ \A i, k \in S : g[i] = g[k] => i = k
  BY <1>2, <1>5
<1> HIDE DEF S, T, g
<1> QED BY <1>6, <1>8, <1>9, FS_PigeonHole

\* Two orders of the same links name the same makers.
LEMMA SameMakersOf ==
    ASSUME NEW p \in Seq(LinkRows), NEW q \in Seq(LinkRows), Ordered(p), Ordered(q), NEW id,
           Placed(p, q, id), Placed(q, p, id)
    PROVE  Nga!MakerIds(p, id) = Nga!MakerIds(q, id)
<1> DEFINE P == Mine(p, id)
           Q == Mine(q, id)
<1>1. IsFiniteSet(P) /\ Cardinality(P) \in Nat /\ IsFiniteSet(Q) /\ Cardinality(Q) \in Nat
  BY LinkPlaces
<1>2. Cardinality(P) = Cardinality(Q)
  <2>1. (\E h : h \in Injection(P, Q)) /\ (\E g : g \in Injection(Q, P))
    BY DEF Placed, Injection, IsInjective
  <2>2. Cardinality(P) <= Cardinality(Q) /\ Cardinality(Q) <= Cardinality(P)
    BY <1>1, <2>1, FS_Injection
  <2> QED BY <1>1, <2>2
<1>3. ASSUME NEW n \in 1 .. Cardinality(P)
      PROVE  p[NthLink(p, id, n)].constituentid = q[NthLink(q, id, n)].constituentid
  <2> DEFINE r == p[NthLink(p, id, n)]
             s == q[NthLink(q, id, n)]
  <2>1. ~Earlier(r, s)
    BY <1>2, NoneEarlier
  <2>2. ~Earlier(s, r)
    BY <1>2, NoneEarlier
  <2>3. NthLink(p, id, n) \in P /\ NthLink(q, id, n) \in Q
    BY <1>2, LinkPlaces
  <2>4. r.displayorder \in Int /\ r.constituentid \in Int /\ s.displayorder \in Int /\ s.constituentid \in Int
    BY <2>3, OrderedRows
  <2> HIDE DEF r, s
  <2>5. r.constituentid = s.constituentid
    BY <2>1, <2>2, <2>4 DEF Earlier
  <2> QED BY <2>5 DEF r, s
<1>4. /\ Nga!MakerIds(p, id) = [n \in 1 .. Cardinality(P) |-> p[NthLink(p, id, n)].constituentid]
      /\ Nga!MakerIds(q, id) = [n \in 1 .. Cardinality(Q) |-> q[NthLink(q, id, n)].constituentid]
  BY MakersAre
<1> QED BY <1>2, <1>3, <1>4

LEMMA MovedLink ==
    ASSUME NEW old \in Seq(LinkRows), Ordered(old), NEW j \in DOMAIN old,
           NEW new \in Seq(LinkRows), Len(new) = Len(old),
           \A k \in 1 .. Len(old) : new[k] = old[Stood(j, k)], NEW id
    PROVE  Nga!MakerIds(old, id) = Nga!MakerIds(new, id)
<1> DEFINE to(k) == Stood(j, k)
           from(k) == IF k = j THEN 1 ELSE IF k < j THEN k + 1 ELSE k
           N == 1 .. Len(old)
           P == Mine(old, id)
           Q == Mine(new, id)
           h == [i \in P |-> from(i)]
           g == [i \in Q |-> to(i)]
<1>10. Len(new) = Len(old) /\ \A k \in 1 .. Len(old) : new[k] = old[Stood(j, k)]
  OBVIOUS
<1>11. Len(old) \in Nat /\ DOMAIN old = N /\ j \in N /\ DOMAIN new = N
  BY <1>10
<1>2. ASSUME NEW k \in N
      PROVE  to(k) \in N /\ from(k) \in N /\ to(from(k)) = k /\ from(to(k)) = k
  <2>1. k \in 1 .. Len(old) /\ j \in 1 .. Len(old) /\ Len(old) \in Nat
    BY <1>11
  <2> HIDE DEF N
  <2>2. CASE k = 1
    BY <2>1, <2>2 DEF N, Stood
  <2>3. CASE k # 1
    BY <2>1, <2>3 DEF N, Stood
  <2> QED BY <2>2, <2>3
<1>12. \A k \in N : new[k] = old[to(k)]
  BY <1>10
<1> HIDE DEF to, from, N
<1>1. /\ DOMAIN old = N /\ new \in Seq(LinkRows) /\ DOMAIN new = N
      /\ \A k \in N : new[k] = old[to(k)]
  BY <1>10, <1>11, <1>12
<1>3. Ordered(new)
  <2> SUFFICES ASSUME NEW k \in N PROVE new[k].displayorder # Empty
    BY <1>1 DEF Ordered
  <2>1. to(k) \in N /\ new[k] = old[to(k)]
    BY <1>1, <1>2
  <2> QED BY <1>1, <2>1 DEF Ordered
<1>4. \A k \in N : old[k] = new[from(k)]
  BY <1>1, <1>2
<1>5. P \in SUBSET N /\ Q \in SUBSET N
  BY <1>1 DEF Mine
<1>6. ASSUME NEW k \in P PROVE from(k) \in Q
  BY <1>1, <1>2, <1>4, <1>5 DEF Mine
<1>7. ASSUME NEW k \in Q PROVE to(k) \in P
  BY <1>1, <1>2, <1>5 DEF Mine
<1>8. /\ h \in [P -> Q] /\ (\A i, k \in P : h[i] = h[k] => i = k) /\ \A i \in P : new[h[i]] = old[i]
  <2>1. \A i, k \in P : from(i) = from(k) => i = k
    BY <1>2, <1>5
  <2> QED BY <1>4, <1>5, <1>6, <2>1
<1>9. /\ g \in [Q -> P] /\ (\A i, k \in Q : g[i] = g[k] => i = k) /\ \A i \in Q : old[g[i]] = new[i]
  <2>1. \A i, k \in Q : to(i) = to(k) => i = k
    BY <1>2, <1>5
  <2> QED BY <1>1, <1>5, <1>7, <2>1
<1> HIDE DEF h, g
<1>13. Placed(old, new, id) /\ Placed(new, old, id)
  BY <1>8, <1>9 DEF Placed
<1> QED BY <1>1, <1>3, <1>13, SameMakersOf

\* Without its last row a table is not the same bag.
LEMMA FrontDiffers ==
    ASSUME NEW S, NEW s \in Seq(S), s # <<>>
    PROVE  Nga!ToBag(s) # Nga!ToBag(Nga!Front(s))
<1> DEFINE n == Len(s)
           t == Nga!Front(s)
           x == s[n]
           K == {i \in DOMAIN s : s[i] = x}
           L == {i \in DOMAIN t : t[i] = x}
<1>1. n \in Nat /\ n # 0 /\ DOMAIN s = 1 .. n /\ n - 1 \in 0 .. n
  OBVIOUS
<1>2. DOMAIN t = 1 .. n - 1 /\ \A i \in 1 .. n - 1 : t[i] = s[i]
  BY <1>1 DEF Nga!Front
<1> HIDE DEF t
<1>3. L = K \ {n} /\ n \in K /\ K \in SUBSET (1 .. n)
  BY <1>1, <1>2
<1>4. IsFiniteSet(K)
  <2>1. IsFiniteSet(1 .. n)
    BY <1>1, FS_Interval
  <2> QED BY <1>3, <2>1, FS_Subset
<1>5. Cardinality(L) # Cardinality(K)
  BY <1>3, <1>4, FS_Subset
<1>6. x \in Nga!Range(s) /\ Nga!ToBag(s)[x] = Cardinality(K)
  BY <1>1 DEF Nga!Range, Nga!ToBag, Nga!Cardinality, Cardinality
<1>7. x \in Nga!Range(t) => Nga!ToBag(t)[x] = Cardinality(L)
  BY DEF Nga!ToBag, Nga!Cardinality, Cardinality
<1>8. DOMAIN Nga!ToBag(s) = Nga!Range(s) /\ DOMAIN Nga!ToBag(t) = Nga!Range(t)
  BY DEF Nga!ToBag
<1> HIDE DEF x, K, L
<1> QED BY <1>5, <1>6, <1>7, <1>8 DEF t

(***************************************************************************)
(* _maker_ids_by_object: where every link has a display order, the makers  *)
(* of an object are the same in whatever order the link rows come.         *)
(***************************************************************************)
THEOREM DisplayOrderRules == FetchSpec => DisplayOrderDecides
<1> DEFINE Goal == Nga!LinksMoved /\ Empty \notin Nga!CellsOf(pages.links, "displayorder") => Nga!SameMakers
<1>1. ASSUME pages'.links = pages.links PROVE Nga!SameMakers
  <2>1. Nga!Stripped(pages').links = Nga!Stripped(pages).links
    BY <1>1 DEF Nga!Stripped, Nga!Table
  <2> QED BY <2>1 DEF Nga!SameMakers
<1>2. ASSUME NgaInv, Nga!MoveLink, Empty \notin Nga!CellsOf(pages.links, "displayorder")
      PROVE  Nga!SameMakers
  <2>1. "links" \in Nga!Table /\ pages.links \in Seq(Nga!RowsOf("links"))
    BY <1>2 DEF NgaInv, NgaTyped, Nga!Table
  <2>2. PICK j \in DOMAIN pages.links :
            Nga!Publish([pages EXCEPT !.links = <<@[j]>> \o Nga!RemoveAt(@, j)])
    BY <1>2 DEF Nga!MoveLink
  <2>3. pages' = [pages EXCEPT !.links = <<@[j]>> \o Nga!RemoveAt(@, j)]
    BY <2>2 DEF Nga!Publish
  <2>4. "links" \in DOMAIN pages
    BY <1>2, <2>1 DEF NgaInv, NgaTyped, Tabled
  <2>5. pages'.links = <<pages.links[j]>> \o Nga!RemoveAt(pages.links, j)
    BY <2>3, <2>4
  <2> DEFINE old == Nga!Stripped(pages)["links"]
             new == Nga!Stripped(pages')["links"]
             S == Nga!RowsOf("links")
             Made == {Nga!StripIds(row) : row \in S}
  <2>6. /\ pages'["links"] \in Seq(S) /\ Len(pages'["links"]) = Len(pages["links"])
        /\ \A k \in 1 .. Len(pages["links"]) : pages'["links"][k] = pages["links"][Stood(j, k)]
    BY <2>1, <2>5, ToTheFront
  <2>7. /\ old \in Seq(Made) /\ Len(old) = Len(pages["links"])
        /\ \A i \in 1 .. Len(pages["links"]) : old[i] = Nga!StripIds(pages["links"][i])
    BY <2>1, StrippedIs
  <2>8. /\ new \in Seq(Made) /\ Len(new) = Len(pages'["links"])
        /\ \A i \in 1 .. Len(pages'["links"]) : new[i] = Nga!StripIds(pages'["links"][i])
    BY <2>1, <2>6, StrippedIs
  <2>9. old \in Seq(LinkRows) /\ new \in Seq(LinkRows) /\ Len(new) = Len(old)
    <3>1. Made \subseteq LinkRows
      BY Formed
    <3> HIDE DEF Made, old, new
    <3> QED BY <2>6, <2>7, <2>8, <3>1
  <2>10. Len(pages["links"]) \in Nat /\ j \in 1 .. Len(pages["links"]) /\ j \in DOMAIN old
    <3> HIDE DEF old
    <3> QED BY <2>1, <2>2, <2>7
  <2>11. \A k \in 1 .. Len(old) : new[k] = old[Stood(j, k)]
    <3> HIDE DEF old, new
    <3> SUFFICES ASSUME NEW k \in 1 .. Len(old) PROVE new[k] = old[Stood(j, k)]
      OBVIOUS
    <3>1. k \in 1 .. Len(pages["links"]) /\ Stood(j, k) \in 1 .. Len(pages["links"])
      BY <2>7, <2>10 DEF Stood
    <3> QED BY <2>6, <2>7, <2>8, <3>1
  <2>12. Ordered(old)
    <3> HIDE DEF old, new
    <3> SUFFICES ASSUME NEW i \in DOMAIN old PROVE old[i].displayorder # Empty
      BY DEF Ordered
    <3>1. i \in 1 .. Len(pages["links"]) /\ i \in DOMAIN pages["links"]
      BY <2>1, <2>7
    <3>2. pages["links"][i] \in S /\ old[i] = Nga!StripIds(pages["links"][i])
      BY <2>1, <2>7, <3>1
    <3>3. old[i].displayorder = pages["links"][i].displayorder
      BY <2>1, <3>2, ColumnsAre
    <3> QED BY <1>2, <3>1, <3>3 DEF Nga!CellsOf
  <2>13. \A id : Nga!MakerIds(old, id) = Nga!MakerIds(new, id)
    <3> HIDE DEF old, new
    <3> QED BY <2>9, <2>10, <2>11, <2>12, MovedLink
  <2> QED BY <2>13 DEF Nga!SameMakers
<1>3. ASSUME NgaInv, Nga!Withdraw PROVE pages'.links = pages.links \/ ~Nga!LinksMoved
  <2>1. PICK t \in Nga!Table : pages[t] # <<>> /\ Nga!Publish([pages EXCEPT ![t] = Nga!Front(@)])
    BY <1>3 DEF Nga!Withdraw
  <2>2. pages' = [pages EXCEPT ![t] = Nga!Front(@)]
    BY <2>1 DEF Nga!Publish
  <2>3. DOMAIN pages = Nga!Table /\ pages[t] \in Seq(Nga!RowsOf(t))
    BY <1>3 DEF NgaInv, NgaTyped, Tabled
  <2>4. CASE t = "links"
    <3>1. pages'.links = Nga!Front(pages.links)
      BY <2>2, <2>3, <2>4
    <3>2. Nga!ToBag(pages.links) # Nga!ToBag(Nga!Front(pages.links))
      BY <2>1, <2>3, <2>4, FrontDiffers
    <3> QED BY <3>1, <3>2 DEF Nga!LinksMoved
  <2>5. CASE t # "links"
    BY <2>2, <2>3, <2>5 DEF Nga!Table
  <2> QED BY <2>4, <2>5
<1>4. NgaInv /\ [FetchNext]_fetchVars => [Goal]_fetchVars
  <2> SUFFICES ASSUME NgaInv, FetchNext PROVE Goal
    BY DEF FetchNext
  <2>1. CASE UNCHANGED pages
    BY <1>1, <2>1
  <2>2. CASE Nga!MoveLink
    BY <1>2, <2>2
  <2>3. CASE Nga!Withdraw
    BY <1>1, <1>3, <2>3
  <2>4. FetchNext => UNCHANGED pages \/ Nga!MoveLink \/ Nga!Withdraw
    BY DEF FetchNext, TakeLines, WriteLines, BoundDirectory, ngaVars, Nga!Next, Nga!BeginRun,
           Nga!ReadObjects, Nga!RaiseKeyError, Nga!ReadLinks, Nga!ReadConstituents, Nga!Read, Nga!WriteTables,
           Nga!Write, Nga!Kill
  <2> QED BY <2>1, <2>2, <2>3, <2>4
<1>5. Nga!DisplayOrderDecides <=> Goal
  BY DEF Nga!DisplayOrderDecides
<1> QED BY <1>4, <1>5, NgaHolds, PTL DEF FetchSpec, DisplayOrderDecides


-----------------------------------------------------------------------------
(***************************************************************************)
(* The sample read back.  The place of an element among the elements of    *)
(* its kind depends only on what comes before it: two lists that agree up  *)
(* to there give the same record the same number.                          *)
(***************************************************************************)
Nth(K, n) == CHOOSE i \in K : Cardinality(K \cap 1 .. i) = n

LEMMA Numbered ==
    ASSUME NEW m \in Nat, NEW K \in SUBSET (1 .. m)
    PROVE  /\ Cardinality(K) \in Nat /\ Cardinality(K) <= m
           /\ \A n \in 1 .. Cardinality(K) : Nth(K, n) \in K /\ Cardinality(K \cap 1 .. Nth(K, n)) = n
           /\ \A i \in K : /\ Cardinality(K \cap 1 .. i) \in 1 .. Cardinality(K)
                           /\ Nth(K, Cardinality(K \cap 1 .. i)) = i
<1>1. /\ Cardinality(K) \in Nat
      /\ \A i \in K : Cardinality(K \cap 1 .. i) \in 1 .. Cardinality(K)
      /\ \A i, j \in K : Cardinality(K \cap 1 .. i) = Cardinality(K \cap 1 .. j) => i = j
      /\ \A k \in 1 .. Cardinality(K) : \E i \in K : Cardinality(K \cap 1 .. i) = k
  BY Ranks
<1>2. Cardinality(K) <= m
  <2>1. IsFiniteSet(1 .. m) /\ Cardinality(1 .. m) = m
    BY FS_Interval
  <2> QED BY <2>1, FS_Subset
<1>3. \A n \in 1 .. Cardinality(K) : Nth(K, n) \in K /\ Cardinality(K \cap 1 .. Nth(K, n)) = n
  BY <1>1 DEF Nth
<1>4. ASSUME NEW i \in K
      PROVE  Nth(K, Cardinality(K \cap 1 .. i)) = i
  <2> DEFINE n == Cardinality(K \cap 1 .. i)
  <2>1. n \in 1 .. Cardinality(K)
    BY <1>1
  <2>2. Nth(K, n) \in K /\ Cardinality(K \cap 1 .. Nth(K, n)) = n
    BY <1>3, <2>1
  <2> QED BY <1>1, <2>2
<1> QED BY <1>1, <1>2, <1>3, <1>4

LEMMA SelectionIs ==
    ASSUME NEW S, NEW rows \in Seq(S), NEW K \in SUBSET DOMAIN rows
    PROVE  /\ Nga!RowsAt(rows, K) \in Seq(S)
           /\ Nga!RowsAt(rows, K) = [n \in 1 .. Cardinality(K) |-> rows[Nth(K, n)]]
           /\ Len(Nga!RowsAt(rows, K)) = Cardinality(K)
<1>1. Nga!RowsAt(rows, K) = [n \in 1 .. Cardinality(K) |-> rows[Nth(K, n)]]
  BY DEF Nga!RowsAt, Nga!Cardinality, Cardinality, Nth
<1>2. Nga!RowsAt(rows, K) \in Seq(S)
  BY RowsAtIs
<1>3. Cardinality(K) \in Nat
  <2>1. Len(rows) \in Nat /\ DOMAIN rows = 1 .. Len(rows)
    OBVIOUS
  <2> QED BY <2>1, Numbered
<1>4. DOMAIN Nga!RowsAt(rows, K) = 1 .. Cardinality(K)
  BY <1>1
<1> HIDE DEF Nth
<1>5. Len(Nga!RowsAt(rows, K)) = Cardinality(K)
  BY <1>2, <1>3, <1>4, LenProperties
<1> QED BY <1>1, <1>2, <1>5

\* Two sets of positions that agree up to b number what is there alike.
Positions(K) == \E m \in Nat : K \in SUBSET (1 .. m)
AlikeTo(b, K, J) == K \cap 1 .. b = J \cap 1 .. b

LEMMA SameNumber ==
    ASSUME NEW K, Positions(K), NEW J, Positions(J), NEW b \in Nat, AlikeTo(b, K, J),
           NEW n \in 1 .. Cardinality(K), Nth(K, n) <= b
    PROVE  n \in 1 .. Cardinality(J) /\ Nth(J, n) = Nth(K, n)
<1> USE DEF AlikeTo
<1> DEFINE i == Nth(K, n)
<1>0. PICK m \in Nat, p \in Nat : K \in SUBSET (1 .. m) /\ J \in SUBSET (1 .. p)
  BY DEF Positions
<1>1. i \in K /\ Cardinality(K \cap 1 .. i) = n /\ i \in 1 .. b
  <2>1. \A k \in 1 .. Cardinality(K) : Nth(K, k) \in K /\ Cardinality(K \cap 1 .. Nth(K, k)) = k
    BY <1>0, Numbered
  <2>2. i \in K /\ Cardinality(K \cap 1 .. i) = n
    BY <2>1
  <2>3. i <= b
    OBVIOUS
  <2> HIDE DEF i
  <2> QED BY <1>0, <2>2, <2>3
<1> HIDE DEF i
<1>2. i \in J
  BY <1>1
<1>3. K \cap 1 .. i = J \cap 1 .. i
  BY <1>1
<1>4. Cardinality(J \cap 1 .. i) = n
  BY <1>1, <1>3
<1>5. /\ Cardinality(J \cap 1 .. i) \in 1 .. Cardinality(J)
      /\ Nth(J, Cardinality(J \cap 1 .. i)) = i
  BY <1>0, <1>2, Numbered
<1> QED BY <1>4, <1>5 DEF i

\* The last position has the last number.
LEMMA LastNumber ==
    ASSUME NEW m \in Nat, NEW K \in SUBSET (1 .. m), NEW n \in 1 .. Cardinality(K)
    PROVE  /\ Nth(K, n) = m => n = Cardinality(K)
           /\ m \in K /\ n = Cardinality(K) => Nth(K, n) = m
<1>1. K \cap 1 .. m = K
  OBVIOUS
<1>2. Cardinality(K \cap 1 .. Nth(K, n)) = n
  BY Numbered
<1>3. m \in K => Nth(K, Cardinality(K \cap 1 .. m)) = m
  BY Numbered
<1> QED BY <1>1, <1>2, <1>3

-----------------------------------------------------------------------------
Firsts(lines) == {i \in DOMAIN lines : lines[i] # "close"}

\* A record read back is its first line, or cut if that line is the last.
LEMMA ReadBackIs ==
    ASSUME NEW lines \in Seq(LineKind)
    PROVE  /\ Len(ReadBack(lines)) = Cardinality(Firsts(lines))
           /\ Cardinality(Firsts(lines)) \in Nat /\ Cardinality(Firsts(lines)) <= Len(lines)
           /\ \A n \in 1 .. Cardinality(Firsts(lines)) :
                 /\ Nth(Firsts(lines), n) \in Firsts(lines)
                 /\ ReadBack(lines)[n] =
                      IF n = Cardinality(Firsts(lines)) /\ lines[Len(lines)] = "open"
                      THEN "cut" ELSE lines[Nth(Firsts(lines), n)]
<1> DEFINE K == Firsts(lines)
           read == [i \in DOMAIN lines |->
                      IF i = Len(lines) /\ lines[i] = "open" THEN "cut" ELSE lines[i]]
<1>1. /\ Len(lines) \in Nat /\ DOMAIN lines = 1 .. Len(lines) /\ K \in SUBSET (1 .. Len(lines))
      /\ \A i \in DOMAIN lines : lines[i] \in LineKind
  BY DEF Firsts
<1>2. read \in Seq(LineKind \cup {"cut"}) /\ DOMAIN read = 1 .. Len(lines)
  <2>1. read \in [1 .. Len(lines) -> LineKind \cup {"cut"}]
    BY <1>1
  <2> QED BY <1>1, <2>1, SeqDef
<1>3. ReadBack(lines) = Nga!RowsAt(read, K)
  BY DEF ReadBack, Firsts
<1>4. /\ Cardinality(K) \in Nat /\ Cardinality(K) <= Len(lines)
      /\ \A n \in 1 .. Cardinality(K) : Nth(K, n) \in K
  BY <1>1, Numbered
<1>5. /\ ReadBack(lines) = [n \in 1 .. Cardinality(K) |-> read[Nth(K, n)]]
      /\ Len(ReadBack(lines)) = Cardinality(K)
  <2> HIDE DEF read, K
  <2>1. K \in SUBSET DOMAIN read
    BY <1>1, <1>2
  <2>2. /\ Nga!RowsAt(read, K) = [n \in 1 .. Cardinality(K) |-> read[Nth(K, n)]]
        /\ Len(Nga!RowsAt(read, K)) = Cardinality(K)
    BY <1>2, <2>1, SelectionIs
  <2> QED BY <1>3, <2>2
<1>6. ASSUME NEW n \in 1 .. Cardinality(K)
      PROVE  ReadBack(lines)[n] = IF n = Cardinality(K) /\ lines[Len(lines)] = "open"
                                  THEN "cut" ELSE lines[Nth(K, n)]
  <2> DEFINE i == Nth(K, n)
  <2>1. i \in 1 .. Len(lines) /\ i \in K
    BY <1>1, <1>4
  <2>2. ReadBack(lines)[n] = IF i = Len(lines) /\ lines[i] = "open" THEN "cut" ELSE lines[i]
    BY <1>1, <1>5, <2>1
  <2>3. i = Len(lines) => n = Cardinality(K)
    BY <1>1, LastNumber
  <2>4. Len(lines) \in K /\ n = Cardinality(K) => i = Len(lines)
    BY <1>1, LastNumber
  <2>5. lines[Len(lines)] = "open" => Len(lines) \in K
    BY <1>1, <2>1 DEF Firsts
  <2> HIDE DEF i, K
  <2>6. i = Len(lines) /\ lines[i] = "open" <=> n = Cardinality(K) /\ lines[Len(lines)] = "open"
    BY <2>3, <2>4, <2>5
  <2> QED BY <2>2, <2>6 DEF i
<1> QED BY <1>4, <1>5, <1>6

\* Two lists of lines that agree up to b read alike up to there.
LEMMA ReadAlike ==
    ASSUME NEW A \in Seq(LineKind), NEW B \in Seq(LineKind), NEW b \in Nat,
           b <= Len(A), b <= Len(B), \A i \in 1 .. b : A[i] = B[i],
           NEW n \in 1 .. Cardinality(Firsts(A)), Nth(Firsts(A), n) <= b
    PROVE  n \in 1 .. Cardinality(Firsts(B)) /\ Nth(Firsts(B), n) = Nth(Firsts(A), n)
<1>1. /\ Len(A) \in Nat /\ Firsts(A) \in SUBSET (1 .. Len(A))
      /\ Len(B) \in Nat /\ Firsts(B) \in SUBSET (1 .. Len(B))
  BY DEF Firsts
<1>2. Firsts(A) \cap 1 .. b = Firsts(B) \cap 1 .. b
  BY <1>1 DEF Firsts
<1> DEFINE K == Firsts(A)
           J == Firsts(B)
<1>3. /\ Positions(K) /\ Positions(J) /\ AlikeTo(b, K, J)
      /\ n \in 1 .. Cardinality(K) /\ Nth(K, n) <= b
  BY <1>1, <1>2 DEF Positions, AlikeTo
<1> HIDE DEF K, J
<1>4. n \in 1 .. Cardinality(J) /\ Nth(J, n) = Nth(K, n)
  BY <1>3, SameNumber
<1> QED BY <1>4 DEF K, J

-----------------------------------------------------------------------------
Kept(pieces) == {i \in DOMAIN pieces : pieces[i] # "tail"}
AsLine(piece) == IF piece = "head" THEN "row" ELSE piece

\* What follows in a file of whole records.
LEMMA Rests ==
    ASSUME NEW pieces \in Seq(LineKind), WholeRecords(pieces), NEW i \in DOMAIN pieces
    PROVE  /\ pieces[i] = "open" => i + 1 \in DOMAIN pieces /\ pieces[i + 1] = "close"
           /\ pieces[i] = "tail" => i - 1 \in DOMAIN pieces /\ pieces[i - 1] = "head"
<1> DEFINE At(part) == {k \in DOMAIN pieces : pieces[k] = part}
           After(part) == {k + 1 : k \in At(part)}
<1>1. At("close") = After("open") /\ At("tail") = After("head")
  BY DEF WholeRecords
<1>2. DOMAIN pieces = 1 .. Len(pieces) /\ Len(pieces) \in Nat
  OBVIOUS
<1>3. ASSUME pieces[i] = "open"
      PROVE  i + 1 \in DOMAIN pieces /\ pieces[i + 1] = "close"
  <2>1. i + 1 \in After("open")
    BY <1>3
  <2> QED BY <1>1, <2>1
<1>4. ASSUME pieces[i] = "tail"
      PROVE  i - 1 \in DOMAIN pieces /\ pieces[i - 1] = "head"
  <2>1. i \in After("head")
    BY <1>1, <1>4
  <2>2. PICK k \in At("head") : i = k + 1
    BY <2>1
  <2>3. k \in Int /\ i - 1 = k
    BY <1>2, <2>2
  <2> QED BY <2>2, <2>3
<1> QED BY <1>3, <1>4

\* The lines of a response: those of the file that are no rest of a line.
LEMMA RemoteLines ==
    ASSUME NEW pieces \in Seq(LineKind)
    PROVE  /\ LinesOf(pieces, FALSE) \in Seq(LineKind)
           /\ Len(LinesOf(pieces, FALSE)) = Cardinality(Kept(pieces))
           /\ Cardinality(Kept(pieces)) \in Nat
           /\ \A n \in 1 .. Cardinality(Kept(pieces)) :
                 /\ Nth(Kept(pieces), n) \in Kept(pieces)
                 /\ LinesOf(pieces, FALSE)[n] = AsLine(pieces[Nth(Kept(pieces), n)])
<1> DEFINE K == Kept(pieces)
           lines == [i \in DOMAIN pieces |-> IF pieces[i] = "head" THEN "row" ELSE pieces[i]]
<1>1. /\ Len(pieces) \in Nat /\ DOMAIN pieces = 1 .. Len(pieces) /\ K \in SUBSET (1 .. Len(pieces))
      /\ \A i \in DOMAIN pieces : pieces[i] \in LineKind
  BY DEF Kept
<1>2. lines \in Seq(LineKind) /\ DOMAIN lines = 1 .. Len(pieces)
  <2>1. lines \in [1 .. Len(pieces) -> LineKind]
    BY <1>1 DEF LineKind
  <2> QED BY <1>1, <2>1, SeqDef
<1>3. LinesOf(pieces, FALSE) = Nga!RowsAt(lines, K)
  BY DEF LinesOf, Kept
<1>4. /\ Cardinality(K) \in Nat
      /\ \A n \in 1 .. Cardinality(K) : Nth(K, n) \in K
  BY <1>1, Numbered
<1>5. \A i \in DOMAIN pieces : lines[i] = AsLine(pieces[i])
  BY DEF AsLine
<1> HIDE DEF lines, K
<1>6. K \in SUBSET DOMAIN lines
  BY <1>1, <1>2
<1>7. /\ Nga!RowsAt(lines, K) \in Seq(LineKind)
      /\ Nga!RowsAt(lines, K) = [n \in 1 .. Cardinality(K) |-> lines[Nth(K, n)]]
      /\ Len(Nga!RowsAt(lines, K)) = Cardinality(K)
  BY <1>2, <1>6, SelectionIs
<1>8. \A n \in 1 .. Cardinality(K) : LinesOf(pieces, FALSE)[n] = AsLine(pieces[Nth(K, n)])
  BY <1>1, <1>3, <1>4, <1>5, <1>7
<1> QED BY <1>3, <1>4, <1>7, <1>8 DEF K

\* No file ends within a record, on either path.
LEMMA EndsWhole ==
    ASSUME NEW pieces \in Seq(LineKind), WholeRecords(pieces)
    PROVE  LET R == LinesOf(pieces, FALSE) IN Len(R) > 0 => R[Len(R)] # "open"
<1> DEFINE K == Kept(pieces)
           c == Cardinality(K)
           e == Nth(K, c)
<1>1. /\ Len(pieces) \in Nat /\ DOMAIN pieces = 1 .. Len(pieces) /\ K \in SUBSET (1 .. Len(pieces))
  BY DEF Kept
<1>2. /\ Len(LinesOf(pieces, FALSE)) = c /\ c \in Nat
      /\ \A n \in 1 .. c : Nth(K, n) \in K /\ LinesOf(pieces, FALSE)[n] = AsLine(pieces[Nth(K, n)])
  BY RemoteLines
<1>3. SUFFICES ASSUME c > 0, AsLine(pieces[e]) = "open" PROVE FALSE
  <2>1. c > 0 => c \in 1 .. c
    BY <1>2
  <2> QED BY <1>2, <2>1
<1>4. e \in K /\ Cardinality(K \cap 1 .. e) = c
  <2>1. c \in 1 .. c
    BY <1>2, <1>3
  <2> QED BY <1>1, <2>1, Numbered
<1>5. pieces[e] = "open" /\ e \in DOMAIN pieces
  BY <1>1, <1>3, <1>4 DEF AsLine
<1>6. e + 1 \in K
  BY <1>5, Rests DEF Kept
<1>7. /\ Cardinality(K \cap 1 .. (e + 1)) \in 1 .. c
      /\ Nth(K, Cardinality(K \cap 1 .. (e + 1))) = e + 1
  BY <1>1, <1>6, Numbered
<1>8. Cardinality(K \cap 1 .. e) <= Cardinality(K \cap 1 .. (e + 1))
  <2>1. e \in Int
    BY <1>1, <1>4
  <2>2. K \cap 1 .. e \in SUBSET (K \cap 1 .. (e + 1))
    BY <2>1
  <2>3. IsFiniteSet(K \cap 1 .. (e + 1))
    <3>1. IsFiniteSet(1 .. (e + 1))
      BY <2>1, FS_Interval
    <3> QED BY <3>1, FS_Subset
  <2> QED BY <2>2, <2>3, FS_Subset
<1>9. Cardinality(K \cap 1 .. (e + 1)) = c
  BY <1>2, <1>4, <1>7, <1>8
<1>10. e = e + 1 /\ e \in Int
  BY <1>1, <1>4, <1>7, <1>9
<1> QED BY <1>10

-----------------------------------------------------------------------------
(***************************************************************************)
(* A sample of a response: its first lines, and "row" after its end.  Each *)
(* record read back is the one of that number, but for a last one cut.     *)
(***************************************************************************)
ReadsLike(W, theirs, n) ==
    ReadBack(W)[n] = IF n = Len(ReadBack(W)) /\ W[Len(W)] = "open" THEN "cut"
                     ELSE IF n <= Len(theirs) THEN theirs[n] ELSE "row"

LEMMA RemoteReads ==
    ASSUME NEW L \in Seq(LineKind), Len(L) > 0 => L[Len(L)] # "open",
           NEW W \in Seq(LineKind),
           \A i \in 1 .. Len(W) : W[i] = IF i <= Len(L) THEN L[i] ELSE "row",
           NEW n \in 1 .. Len(ReadBack(W))
    PROVE  ReadsLike(W, ReadBack(L), n)
<1> DEFINE i == Nth(Firsts(W), n)
           b == IF Len(W) <= Len(L) THEN Len(W) ELSE Len(L)
           c == Cardinality(Firsts(L))
<1>1. /\ Len(W) \in Nat /\ Len(L) \in Nat
      /\ Firsts(W) \in SUBSET (1 .. Len(W)) /\ Firsts(L) \in SUBSET (1 .. Len(L))
  BY DEF Firsts
<1>2. b \in Nat /\ b <= Len(W) /\ b <= Len(L) /\ \A k \in 1 .. b : W[k] = L[k]
  BY <1>1
<1>3. /\ Len(ReadBack(W)) = Cardinality(Firsts(W))
      /\ i \in Firsts(W)
      /\ ReadBack(W)[n] = IF n = Cardinality(Firsts(W)) /\ W[Len(W)] = "open" THEN "cut" ELSE W[i]
  BY ReadBackIs
<1>4. /\ Len(ReadBack(L)) = c /\ c \in Nat
      /\ \A k \in 1 .. c :
            /\ Nth(Firsts(L), k) \in Firsts(L)
            /\ ReadBack(L)[k] = IF k = c /\ L[Len(L)] = "open" THEN "cut" ELSE L[Nth(Firsts(L), k)]
  BY ReadBackIs
<1>5. n \in 1 .. Cardinality(Firsts(W)) /\ i \in 1 .. Len(W)
  BY <1>1, <1>3
<1>6. CASE i <= Len(L)
  <2>1. i <= b
    BY <1>1, <1>5, <1>6
  <2> HIDE DEF b
  <2>2. n \in 1 .. c /\ Nth(Firsts(L), n) = i
    BY <1>2, <1>5, <2>1, ReadAlike
  <2>3. W[i] = L[i] /\ Len(L) > 0
    BY <1>1, <1>5, <1>6
  <2> HIDE DEF i, c
  <2>4. ReadBack(L)[n] = L[i] /\ n <= Len(ReadBack(L))
    BY <1>4, <2>2, <2>3
  <2> QED BY <1>3, <2>3, <2>4 DEF ReadsLike
<1>7. CASE ~(i <= Len(L))
  <2>1. W[i] = "row" /\ b = Len(L)
    BY <1>1, <1>5, <1>7
  <2> HIDE DEF b
  <2>2. ~(n <= c)
    <3> SUFFICES ASSUME n <= c PROVE FALSE
      OBVIOUS
    <3> DEFINE j == Nth(Firsts(L), n)
    <3>1. n \in 1 .. c /\ j \in 1 .. Len(L)
      BY <1>1, <1>4, <1>5
    <3>2. j <= b
      BY <1>1, <2>1, <3>1
    <3>3. \A k \in 1 .. b : L[k] = W[k]
      BY <1>2
    <3>4. i = j
      BY <1>2, <3>1, <3>2, <3>3, ReadAlike
    <3> HIDE DEF i, j
    <3> QED BY <1>1, <1>7, <3>1, <3>4
  <2> HIDE DEF i, c
  <2> QED BY <1>3, <1>4, <2>1, <2>2 DEF ReadsLike
<1> QED BY <1>6, <1>7

-----------------------------------------------------------------------------
\* Before the first record taken apart, and in a file without one, the
\* lines of the file are those of the response.
LEMMA SameLines ==
    ASSUME NEW pieces \in Seq(LineKind), WholeRecords(pieces),
           NEW b \in Nat, b <= Len(pieces), \A i \in 1 .. b : pieces[i] # "head"
    PROVE  LET R == LinesOf(pieces, FALSE)
           IN  b <= Len(R) /\ \A i \in 1 .. b : R[i] = pieces[i]
<1> DEFINE K == Kept(pieces)
           c == Cardinality(K)
<1>1. /\ Len(pieces) \in Nat /\ DOMAIN pieces = 1 .. Len(pieces) /\ K \in SUBSET (1 .. Len(pieces))
  BY DEF Kept
<1>2. \A i \in 1 .. b : pieces[i] # "tail"
  <2> SUFFICES ASSUME NEW i \in 1 .. b, pieces[i] = "tail" PROVE FALSE
    OBVIOUS
  <2>1. i \in DOMAIN pieces
    BY <1>1
  <2>2. i - 1 \in DOMAIN pieces /\ pieces[i - 1] = "head"
    BY <2>1, Rests
  <2>3. i - 1 \in 1 .. b
    BY <1>1, <2>2
  <2> QED BY <2>2, <2>3
<1>3. /\ Len(LinesOf(pieces, FALSE)) = c /\ c \in Nat
      /\ \A n \in 1 .. c : LinesOf(pieces, FALSE)[n] = AsLine(pieces[Nth(K, n)])
  BY RemoteLines
<1>4. \A i \in 1 .. b : i \in K
  BY <1>1, <1>2 DEF Kept
<1>5. ASSUME NEW i \in 1 .. b PROVE i \in 1 .. c /\ Nth(K, i) = i
  <2>1. K \cap 1 .. i = 1 .. i
    BY <1>4
  <2>2. Cardinality(1 .. i) = i
    BY FS_Interval
  <2>3. /\ Cardinality(K \cap 1 .. i) \in 1 .. c
        /\ Nth(K, Cardinality(K \cap 1 .. i)) = i
    BY <1>1, <1>4, Numbered
  <2> QED BY <2>1, <2>2, <2>3
<1>6. b <= c
  <2>1. CASE b = 0
    BY <1>3, <2>1
  <2>2. CASE b # 0
    <3>1. b \in 1 .. b
      BY <2>2
    <3> QED BY <1>5, <3>1
  <2> QED BY <2>1, <2>2
<1> HIDE DEF K, c
<1>7. \A i \in 1 .. b : LinesOf(pieces, FALSE)[i] = pieces[i]
  BY <1>3, <1>5 DEF AsLine
<1> QED BY <1>3, <1>6, <1>7

LEMMA NoneTakenApart ==
    ASSUME NEW pieces \in Seq(LineKind), WholeRecords(pieces), "head" \notin ToSet(pieces)
    PROVE  LinesOf(pieces, FALSE) = pieces
<1> DEFINE R == LinesOf(pieces, FALSE)
           b == Len(pieces)
<1>1. b \in Nat /\ b <= Len(pieces) /\ \A i \in 1 .. b : pieces[i] # "head"
  BY DEF ToSet
<1>2. b <= Len(R) /\ \A i \in 1 .. b : R[i] = pieces[i]
  <2> HIDE DEF b
  <2> QED BY <1>1, SameLines
<1>3. R \in Seq(LineKind) /\ Len(R) = Cardinality(Kept(pieces)) /\ Len(R) \in Nat
  BY RemoteLines
<1>4. Cardinality(Kept(pieces)) <= b
  <2>1. Kept(pieces) \in SUBSET (1 .. b)
    BY DEF Kept
  <2> QED BY <1>1, <2>1, Numbered
<1>5. Len(R) = b
  <2> HIDE DEF R, b
  <2> QED BY <1>1, <1>2, <1>3, <1>4
<1> QED BY <1>2, <1>3, <1>5, SeqEqual

\* The first lines of records that splitlines has not yet taken apart.
Intact(pieces) == {i \in DOMAIN pieces : pieces[i] # "close" /\ \A j \in 1 .. i : pieces[j] # "head"}

\* They are the first of the first lines.
LEMMA IntactFirst ==
    ASSUME NEW pieces \in Seq(LineKind), NEW i \in Firsts(pieces),
           Cardinality(Firsts(pieces) \cap 1 .. i) <= Cardinality(Intact(pieces))
    PROVE  i \in Intact(pieces)
<1> DEFINE K == Firsts(pieces) \cap 1 .. i
           U == Intact(pieces)
<1>1. /\ Len(pieces) \in Nat /\ DOMAIN pieces = 1 .. Len(pieces) /\ i \in 1 .. Len(pieces)
      /\ i \in K
  BY DEF Firsts
<1>2. SUFFICES ASSUME i \notin U PROVE FALSE
  OBVIOUS
<1>3. PICK h \in 1 .. i : pieces[h] = "head"
  BY <1>1, <1>2 DEF Intact, Firsts
<1>4. \A u \in U : u \in K /\ u # i
  <2> SUFFICES ASSUME NEW u \in U PROVE u \in K /\ u # i
    OBVIOUS
  <2>1. u \in Firsts(pieces) /\ u \in 1 .. Len(pieces) /\ \A j \in 1 .. u : pieces[j] # "head"
    BY <1>1 DEF Intact, Firsts
  <2>2. ~(i <= u)
    BY <1>1, <1>3, <2>1
  <2> QED BY <1>1, <2>1, <2>2
<1>5. IsFiniteSet(K) /\ Cardinality(K) \in Nat
  <2>1. IsFiniteSet(1 .. i)
    BY <1>1, FS_Interval
  <2> QED BY <2>1, FS_Subset, FS_CardinalityType
<1>6. U \in SUBSET K /\ U # K
  BY <1>1, <1>4
<1> HIDE DEF K, U
<1>7. Cardinality(U) < Cardinality(K) /\ Cardinality(U) \in Nat
  BY <1>5, <1>6, FS_Subset, FS_CardinalityType
<1> QED BY <1>5, <1>7 DEF K, U

(***************************************************************************)
(* A sample of a local file: up to the first record that splitlines takes  *)
(* apart, each record read back is the one a response would give.          *)
(***************************************************************************)
LEMMA LocalReads ==
    ASSUME NEW F \in Seq(LineKind), WholeRecords(F), NEW W \in Seq(LineKind),
           Len(W) <= Len(F), \A i \in 1 .. Len(W) : W[i] = F[i],
           NEW n \in 1 .. Len(ReadBack(W)), n <= Cardinality(Intact(F))
    PROVE  ReadsLike(W, ReadBack(LinesOf(F, FALSE)), n)
<1> DEFINE R == LinesOf(F, FALSE)
           i == Nth(Firsts(W), n)
           c == Cardinality(Firsts(R))
<1>1. /\ Len(W) \in Nat /\ Len(F) \in Nat /\ DOMAIN F = 1 .. Len(F)
      /\ Firsts(W) \in SUBSET (1 .. Len(W)) /\ Firsts(F) \in SUBSET (1 .. Len(F))
  BY DEF Firsts
<1>2. /\ Len(ReadBack(W)) = Cardinality(Firsts(W))
      /\ i \in Firsts(W)
      /\ ReadBack(W)[n] = IF n = Cardinality(Firsts(W)) /\ W[Len(W)] = "open" THEN "cut" ELSE W[i]
  BY ReadBackIs
<1>3. n \in 1 .. Cardinality(Firsts(W)) /\ i \in 1 .. Len(W) /\ i \in 1 .. Len(F)
  BY <1>1, <1>2
<1>4. i \in Firsts(F) /\ Cardinality(Firsts(F) \cap 1 .. i) = n
  <2>1. n \in 1 .. Cardinality(Firsts(F)) /\ Nth(Firsts(F), n) = i
    <3> DEFINE b == Len(W)
    <3>1. b \in Nat /\ b <= Len(W) /\ b <= Len(F) /\ \A k \in 1 .. b : W[k] = F[k]
      BY <1>1
    <3>2. i <= b
      BY <1>1, <1>3
    <3> HIDE DEF b
    <3> QED BY <1>3, <3>1, <3>2, ReadAlike
  <2>2. /\ Nth(Firsts(F), n) \in Firsts(F)
        /\ Cardinality(Firsts(F) \cap 1 .. Nth(Firsts(F), n)) = n
    BY <1>1, <2>1, Numbered
  <2> QED BY <2>1, <2>2
<1>5. i \in Intact(F)
  <2> HIDE DEF i
  <2> QED BY <1>4, IntactFirst
<1>6. /\ R \in Seq(LineKind) /\ Len(R) \in Nat /\ i <= Len(R)
      /\ \A k \in 1 .. i : R[k] = F[k]
  <2>1. i \in Nat /\ i <= Len(F) /\ \A k \in 1 .. i : F[k] # "head"
    BY <1>1, <1>3, <1>5 DEF Intact
  <2>2. i <= Len(R) /\ \A k \in 1 .. i : R[k] = F[k]
    <3> HIDE DEF i
    <3> QED BY <2>1, SameLines
  <2> QED BY <2>2, RemoteLines
<1>7. n \in 1 .. c /\ Nth(Firsts(R), n) = i
  <2>1. Nth(Firsts(W), n) = i
    OBVIOUS
  <2> HIDE DEF i, R
  <2>2. i \in Nat /\ i <= Len(W) /\ \A k \in 1 .. i : W[k] = R[k]
    BY <1>1, <1>3, <1>6
  <2>3. Nth(Firsts(W), n) <= i
    BY <2>1, <2>2
  <2>4. n \in 1 .. Cardinality(Firsts(R)) /\ Nth(Firsts(R), n) = Nth(Firsts(W), n)
    BY <1>3, <1>6, <2>2, <2>3, ReadAlike
  <2> QED BY <2>1, <2>4
<1>8. Len(ReadBack(R)) = c /\ ReadBack(R)[n] = IF n = c /\ R[Len(R)] = "open" THEN "cut" ELSE R[i]
  <2> HIDE DEF R
  <2>1. /\ Len(ReadBack(R)) = c
        /\ \A k \in 1 .. c :
              ReadBack(R)[k] = IF k = c /\ R[Len(R)] = "open" THEN "cut" ELSE R[Nth(Firsts(R), k)]
    BY <1>6, ReadBackIs
  <2> QED BY <1>7, <2>1
<1>9. R[Len(R)] # "open"
  <2>1. Len(R) > 0
    <3> HIDE DEF R, i
    <3> QED BY <1>3, <1>6
  <2> QED BY <2>1, EndsWhole
<1>10. W[i] = R[i]
  <2> HIDE DEF R, i
  <2> QED BY <1>1, <1>3, <1>6
<1> HIDE DEF R, i, c
<1>11. ReadBack(R)[n] = W[i] /\ n <= Len(ReadBack(R))
  BY <1>7, <1>8, <1>9, <1>10
<1>12. ReadsLike(W, ReadBack(R), n)
  BY <1>2, <1>11 DEF ReadsLike
<1> QED BY <1>12 DEF R

-----------------------------------------------------------------------------
\* What the script holds: the source is the file's lines, and the output
\* file, once written, is the finished sample.
Opened ==
    /\ args \in Requests /\ limit \in Nat
    /\ file \in Seq(LineKind) /\ WholeRecords(file)
    /\ source.lines = LinesOf(file, args.from) /\ source.endless \in BOOLEAN
    /\ source.endless => args.url
    /\ written = None \/ (written = out /\ pc = "done" /\ ~Refused(args))

LEMMA OpenedFirst == FetchInit => Opened
<1> SUFFICES ASSUME FetchInit PROVE Opened
  OBVIOUS
<1>1. /\ args \in Requests /\ file \in (IF Single(args) THEN Files ELSE {<<>>})
      /\ limit = (IF Refused(args) THEN 0 ELSE args.limit) /\ written = None
  BY DEF FetchInit
<1>2. source \in Sources /\ source.lines = LinesOf(file, args.from) /\ (source.endless => args.url)
  BY DEF FetchInit
<1>3. limit \in Nat /\ source.endless \in BOOLEAN
  BY <1>1, <1>2, FetchAssumption, SamplingAssumption DEF Source
<1>4. WholeRecords(<<>>) /\ <<>> \in Seq(LineKind)
  BY DEF WholeRecords
<1>5. file \in Seq(LineKind) /\ WholeRecords(file)
  BY <1>1, <1>4, FetchAssumption
<1> QED BY <1>1, <1>2, <1>3, <1>5 DEF Opened

LEMMA OpenedNext == Opened /\ [FetchNext]_fetchVars => Opened'
<1> SUFFICES ASSUME Opened, [FetchNext]_fetchVars PROVE Opened'
  OBVIOUS
<1>1. CASE TakeLines
  <2>1. UNCHANGED <<args, file, written>> /\ Next
    BY <1>1 DEF TakeLines
  <2>2. UNCHANGED <<limit, source>> /\ pc # "done"
    BY <2>1 DEF Next, TakeHeader, Exhausted, TakeLine
  <2> QED BY <2>1, <2>2 DEF Opened
<1>2. CASE WriteLines
  BY <1>2 DEF WriteLines, Opened, vars
<1>3. CASE BoundDirectory
  BY <1>3 DEF BoundDirectory, Opened, vars
<1>4. CASE UNCHANGED fetchVars
  BY <1>4 DEF fetchVars, Opened, vars
<1> QED BY <1>1, <1>2, <1>3, <1>4 DEF FetchNext

LEMMA OpenedReads == Opened /\ SampleInv => SampleReads
<1> SUFFICES ASSUME Opened, SampleInv, written # None PROVE SampleReads
  BY DEF SampleReads
<1> DEFINE R == LinesOf(file, FALSE)
<1>1. /\ written = out /\ pc = "done" /\ ~Refused(args) /\ out \in Seq(LineKind)
      /\ file \in Seq(LineKind) /\ WholeRecords(file) /\ limit \in Nat
      /\ source.lines = LinesOf(file, args.from) /\ source.endless \in BOOLEAN
      /\ Len(source.lines) \in Nat /\ args.from \in BOOLEAN
      /\ consumed \in Nat /\ Len(out) \in Nat
  BY SamplingAssumption, FetchAssumption DEF Opened, SampleInv, TypeOK, Source
<1>2. Bounded /\ NothingWithheld
  BY SampleMeans
<1>3. R \in Seq(LineKind) /\ (Len(R) > 0 => R[Len(R)] # "open")
  BY <1>1, RemoteLines, EndsWhole
<1>4. args.from => ~source.endless /\ source.lines = file
  <2>1. args.from # args.url
    BY <1>1 DEF Refused
  <2>2. args.url \in BOOLEAN
    BY FetchAssumption DEF Opened
  <2>3. args.from => ~source.endless
    BY <1>1, <2>1, <2>2 DEF Opened
  <2> QED BY <1>1, <2>3 DEF LinesOf
<1>5. ~args.from => source.lines = R
  BY <1>1
<1>6. /\ Len(out) \in Nat /\ Len(out) <= limit + 1
      /\ \A i \in 1 .. Len(out) : out[i] = IF i <= Len(source.lines) THEN source.lines[i] ELSE "row"
  BY <1>1, <1>2 DEF Bounded, LineAt
<1>7. Len(ReadBack(out)) <= limit + 1
  <2>1. /\ Len(ReadBack(out)) = Cardinality(Firsts(out)) /\ Cardinality(Firsts(out)) \in Nat
        /\ Cardinality(Firsts(out)) <= Len(out)
    BY <1>1, ReadBackIs
  <2> QED BY <1>1, <1>6, <2>1
<1>8. ASSUME NEW n \in 1 .. Len(ReadBack(out)), args.from => n <= Untouched
      PROVE  ReadsLike(out, ReadBack(R), n)
  <2>1. CASE args.from
    <3>1. n <= Cardinality(Intact(file))
      BY <1>8, <2>1 DEF Untouched, Intact
    <3>2. Len(out) <= Len(source.lines)
      <4>1. Len(out) <= consumed
        BY <1>1 DEF SampleInv, Progress
      <4>2. consumed <= Len(source.lines)
        BY <1>4, <2>1 DEF SampleInv, WithinSource
      <4> QED BY <1>1, <4>1, <4>2
    <3>3. \A i \in 1 .. Len(out) : out[i] = source.lines[i]
      BY <1>1, <1>6, <3>2
    <3>4. Len(out) <= Len(file) /\ \A i \in 1 .. Len(out) : out[i] = file[i]
      BY <1>4, <2>1, <3>2, <3>3
    <3> QED BY <1>1, <3>1, <3>4, LocalReads
  <2>2. CASE ~args.from
    <3>1. \A i \in 1 .. Len(out) : out[i] = IF i <= Len(R) THEN R[i] ELSE "row"
      BY <1>5, <1>6, <2>2
    <3> HIDE DEF R
    <3> QED BY <1>1, <1>3, <3>1, RemoteReads
  <2> QED BY <1>1, <2>1, <2>2
<1>9. ASSUME Len(out) <= limit, args.from => "head" \notin ToSet(file)
      PROVE  ~source.endless /\ ReadBack(out) = ReadBack(R)
  <2>1. ~source.endless /\ Len(out) = Len(source.lines)
    BY <1>1, <1>2, <1>6, <1>9 DEF NothingWithheld
  <2>2. source.lines = R
    BY <1>1, <1>4, <1>5, <1>9, NoneTakenApart
  <2>3. \A i \in 1 .. Len(out) : out[i] = R[i]
    <3>1. \A i \in 1 .. Len(out) : i <= Len(source.lines)
      BY <1>1, <2>1
    <3>2. \A i \in 1 .. Len(out) : out[i] = source.lines[i]
      BY <1>6, <3>1
    <3> HIDE DEF R
    <3> QED BY <2>2, <3>2
  <2>4. out = R
    <3> HIDE DEF R
    <3> QED BY <1>1, <1>3, <2>1, <2>2, <2>3, SeqEqual
  <2> QED BY <2>1, <2>4
<1> QED BY <1>1, <1>7, <1>8, <1>9 DEF SampleReads, ReadsLike

(***************************************************************************)
(* Whatever the file, the limit and the path: a local sample up to the     *)
(* first record that splitlines takes apart, and a streamed one to its     *)
(* end, read back as the source's first records, each whole but for a last *)
(* one cut in a quoted cell, and as all of them when the limit was not     *)
(* reached (_bound_single_file).                                           *)
(***************************************************************************)
THEOREM SampleReadsBack == FetchSpec => []SampleReads
<1>1. Spec => []SampleInv
  BY SampleInit, SampleStep, PTL DEF Spec
<1>2. FetchSpec => []Opened
  BY OpenedFirst, OpenedNext, PTL DEF FetchSpec
<1> QED BY <1>1, <1>2, OpenedReads, FetchImplementsSampling, PTL
=============================================================================
