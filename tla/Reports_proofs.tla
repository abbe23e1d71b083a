--------------------------- MODULE Reports_proofs ---------------------------
(***************************************************************************)
(* For any rules, severities, data and number of calls: the registry keeps *)
(* what it was asked for, scans in between included, and the reports of a  *)
(* scan agree with each other, with the viewer and with the scan before.   *)
(***************************************************************************)
EXTENDS Reports, FiniteSetTheorems, FunctionTheorems, SequenceTheorems, TLAPS

(***************************************************************************)
(* The inductive invariant: a known rule's setting is its last switch and  *)
(* grade, an unknown one has neither setting nor history, and no id is in  *)
(* the order twice.                                                        *)
(***************************************************************************)
NoIdTwice == \A i, k \in DOMAIN rules : rules[i] = rules[k] => i = k

SettingsKept ==
    /\ DOMAIN settings = Known
    /\ \A r \in Known :
          settings[r] = [enabled |-> switch[r], severity_override |-> grade[r]]
    /\ \A r \in Rule \ Known : switch[r] = TRUE /\ grade[r] = None

KeepInv == RegistryTypeOK /\ NoIdTwice /\ SettingsKept

LEMMA KeepInit == RegistryInit => KeepInv
<1> SUFFICES ASSUME RegistryInit PROVE KeepInv
  OBVIOUS
<1>1. Known = {}
  BY DEF RegistryInit, Known, ToSet
<1>2. DOMAIN settings = {}
  BY DEF RegistryInit
<1>3. RegistryTypeOK
  BY <1>1, <1>2 DEF RegistryInit, RegistryTypeOK
<1>4. NoIdTwice
  BY DEF RegistryInit, NoIdTwice
<1>5. SettingsKept
  BY <1>1, <1>2 DEF RegistryInit, SettingsKept
<1> QED
  BY <1>3, <1>4, <1>5 DEF KeepInv

\* What one more registration does to the set of ids.
LEMMA KnownAppend ==
  ASSUME NEW s \in Seq(Rule), NEW r \in Rule
  PROVE  /\ Append(s, r) \in Seq(Rule)
         /\ ToSet(Append(s, r)) = ToSet(s) \cup {r}
         /\ Len(Append(s, r)) = Len(s) + 1
         /\ \A i \in 1 .. Len(s) : Append(s, r)[i] = s[i]
         /\ Append(s, r)[Len(s) + 1] = r
<1>1. /\ Append(s, r) \in Seq(Rule) /\ Len(Append(s, r)) = Len(s) + 1
      /\ \A i \in 1 .. Len(s) : Append(s, r)[i] = s[i]
      /\ Append(s, r)[Len(s) + 1] = r
      /\ DOMAIN s = 1 .. Len(s) /\ DOMAIN Append(s, r) = 1 .. Len(s) + 1 /\ Len(s) \in Nat
  OBVIOUS
<1>2. \A i \in 1 .. Len(s) + 1 : i \in 1 .. Len(s) \/ i = Len(s) + 1
  BY <1>1
<1>3. 1 .. Len(s) \subseteq 1 .. Len(s) + 1 /\ Len(s) + 1 \in 1 .. Len(s) + 1
  BY <1>1
<1>4. ToSet(Append(s, r)) = ToSet(s) \cup {r}
  BY <1>1, <1>2, <1>3 DEF ToSet
<1> QED
  BY <1>1, <1>4

LEMMA KeepRegister ==
  ASSUME KeepInv, NEW r \in Rule, Register(r) PROVE KeepInv'
<1> USE DEF KeepInv
<1>a. rules \in Seq(Rule) /\ calls \in Nat /\ calls' \in Nat
  BY DEF RegistryTypeOK, Register, Call
<1>1. CASE r \in Known
  <2>1. UNCHANGED <<rules, settings, switch, grade>> /\ raised' = "ValueError"
    BY <1>1 DEF Register, Reject
  <2>2. Known' = Known
    BY <2>1 DEF Known
  <2> QED
    BY <2>1, <2>2, <1>a DEF RegistryTypeOK, NoIdTwice, SettingsKept
<1>2. CASE r \notin Known
  <2>1. /\ rules' = Append(rules, r) /\ UNCHANGED <<switch, grade>> /\ raised' = None
        /\ settings' = IF r \in DOMAIN settings THEN settings ELSE With(r, Unset)
    BY <1>2 DEF Register
  <2>2. settings' = With(r, Unset)
    BY <1>2, <2>1 DEF SettingsKept
  <2>3. Known' = Known \cup {r} /\ rules' \in Seq(Rule)
    BY <2>1, <1>a, KnownAppend DEF Known
  <2>4. DOMAIN settings' = Known'
    BY <2>2, <2>3 DEF With, SettingsKept
  <2>5. settings'[r] = Unset /\ \A k \in Known : settings'[k] = settings[k]
    BY <1>2, <2>2 DEF With, SettingsKept
  <2>6. switch[r] = TRUE /\ grade[r] = None
    BY <1>2 DEF SettingsKept
  <2>7. \A k \in Known' : settings'[k] = [enabled |-> switch'[k], severity_override |-> grade'[k]]
    BY <2>1, <2>3, <2>5, <2>6 DEF SettingsKept, Unset
  <2>8. SettingsKept'
    BY <2>1, <2>3, <2>4, <2>7 DEF SettingsKept
  <2>9. Known \subseteq Rule
    BY DEF RegistryTypeOK
  <2>10. Unset \in RuleSetting
    BY DEF Unset, RuleSetting
  <2>11. RegistryTypeOK'
    BY <2>1, <2>3, <2>4, <2>5, <2>9, <2>10, <1>a DEF RegistryTypeOK
  <2>12. \A i \in DOMAIN rules : rules[i] \in Known
    BY DEF Known, ToSet
  <2>13. /\ DOMAIN rules' = 1 .. Len(rules) + 1 /\ DOMAIN rules = 1 .. Len(rules)
         /\ \A i \in 1 .. Len(rules) : rules'[i] = rules[i]
         /\ rules'[Len(rules) + 1] = r /\ Len(rules) \in Nat
    BY <2>1, <1>a, KnownAppend
  <2>14. \A i \in DOMAIN rules' : i \in DOMAIN rules \/ i = Len(rules) + 1
    BY <2>13
  <2>15. NoIdTwice'
    <3> SUFFICES ASSUME NEW i \in DOMAIN rules', NEW k \in DOMAIN rules', rules'[i] = rules'[k]
                 PROVE  i = k
      BY DEF NoIdTwice
    <3> QED
      BY <1>2, <2>12, <2>13, <2>14 DEF NoIdTwice
  <2> QED
    BY <2>8, <2>11, <2>15
<1> QED
  BY <1>1, <1>2

LEMMA KeepSetting ==
  ASSUME KeepInv, NEW r \in Known, NEW setting \in RuleSetting,
         rules' = rules, settings' = With(r, setting), raised' = None, calls' \in Nat,
         switch' = [switch EXCEPT ![r] = setting.enabled],
         grade' = [grade EXCEPT ![r] = setting.severity_override]
  PROVE  KeepInv'
<1> USE DEF KeepInv
<1>1. Known' = Known /\ Known \subseteq Rule
  BY DEF Known, RegistryTypeOK
<1>2. DOMAIN settings' = Known /\ settings'[r] = setting
      /\ \A k \in Known \ {r} : settings'[k] = settings[k]
  BY DEF With, SettingsKept
<1>3. /\ switch'[r] = setting.enabled /\ grade'[r] = setting.severity_override
      /\ \A k \in Rule \ {r} : switch'[k] = switch[k] /\ grade'[k] = grade[k]
  BY <1>1 DEF RegistryTypeOK
<1>4. setting = [enabled |-> setting.enabled, severity_override |-> setting.severity_override]
      /\ setting.enabled \in BOOLEAN /\ setting.severity_override \in Grades \cup {None}
  BY DEF RuleSetting
<1>5. SettingsKept'
  BY <1>1, <1>2, <1>3, <1>4 DEF SettingsKept
<1>6. switch' \in [Rule -> BOOLEAN] /\ grade' \in [Rule -> Grades \cup {None}]
  BY <1>1, <1>4 DEF RegistryTypeOK
<1>7. RegistryTypeOK'
  BY <1>1, <1>2, <1>6 DEF RegistryTypeOK
<1>8. NoIdTwice'
  BY DEF NoIdTwice
<1> QED
  BY <1>5, <1>7, <1>8

\* A rejected call, and a step that is no call on the registry at all.
LEMMA KeepOthers ==
  ASSUME KeepInv, UNCHANGED <<rules, settings, switch, grade>>,
         calls' \in Nat, raised' \in {None, "ValueError", "KeyError"}
  PROVE  KeepInv'
<1>1. Known' = Known
  BY DEF Known
<1> QED
  BY <1>1 DEF KeepInv, RegistryTypeOK, NoIdTwice, SettingsKept

LEMMA KeepNext ==
  ASSUME KeepInv, [Next]_vars PROVE KeepInv'
<1> USE DEF KeepInv
<1>a. calls \in Nat /\ raised \in {None, "ValueError", "KeyError"}
  BY DEF RegistryTypeOK
<1>b. \A r \in Known : settings[r] \in RuleSetting /\ r \in Rule
  BY DEF RegistryTypeOK
<1>1. ASSUME NEW r \in Rule, Register(r) PROVE KeepInv'
  BY <1>1, KeepRegister
<1>2. ASSUME NEW r \in Rule, NEW enabled \in BOOLEAN, SetEnabled(r, enabled) PROVE KeepInv'
  <2>1. calls' \in Nat
    BY <1>2, <1>a DEF SetEnabled, Call
  <2>2. CASE r \notin Known
    BY <1>2, <2>1, <2>2, KeepOthers DEF SetEnabled, Reject
  <2>3. CASE r \in Known
    <3> DEFINE setting == [settings[r] EXCEPT !.enabled = enabled]
    <3>1. setting \in RuleSetting /\ setting.enabled = enabled
          /\ setting.severity_override = settings[r].severity_override
      BY <1>b, <2>3 DEF RuleSetting
    <3>2. settings[r].severity_override = grade[r]
      BY <2>3 DEF SettingsKept
    <3>3. grade = [grade EXCEPT ![r] = grade[r]]
      BY DEF RegistryTypeOK
    <3>4. /\ rules' = rules /\ settings' = With(r, setting) /\ raised' = None
          /\ switch' = [switch EXCEPT ![r] = enabled] /\ grade' = grade
      BY <1>2, <2>3 DEF SetEnabled
    <3> QED
      BY <2>1, <2>3, <3>1, <3>2, <3>3, <3>4, KeepSetting
  <2> QED
    BY <2>2, <2>3
<1>3. ASSUME NEW r \in Rule, NEW severity \in Grades, OverrideSeverity(r, severity) PROVE KeepInv'
  <2>1. calls' \in Nat
    BY <1>3, <1>a DEF OverrideSeverity, Call
  <2>2. CASE r \notin Known
    BY <1>3, <2>1, <2>2, KeepOthers DEF OverrideSeverity, Reject
  <2>3. CASE r \in Known
    <3> DEFINE setting == [settings[r] EXCEPT !.severity_override = severity]
    <3>1. setting \in RuleSetting /\ setting.severity_override = severity
          /\ setting.enabled = settings[r].enabled
      BY <1>b, <2>3 DEF RuleSetting
    <3>2. settings[r].enabled = switch[r]
      BY <2>3 DEF SettingsKept
    <3>3. switch = [switch EXCEPT ![r] = switch[r]]
      BY DEF RegistryTypeOK
    <3>4. /\ rules' = rules /\ settings' = With(r, setting) /\ raised' = None
          /\ grade' = [grade EXCEPT ![r] = severity] /\ switch' = switch
      BY <1>3, <2>3 DEF OverrideSeverity
    <3> QED
      BY <2>1, <2>3, <3>1, <3>2, <3>3, <3>4, KeepSetting
  <2> QED
    BY <2>2, <2>3
<1>4. ASSUME NEW d \in Data, NEW clock \in Clock, Scan(d, clock) PROVE KeepInv'
  BY <1>4, <1>a, KeepOthers DEF Scan, Call
<1>5. CASE UNCHANGED vars
  BY <1>5, <1>a, KeepOthers DEF vars, registry
<1> QED
  BY <1>1, <1>2, <1>3, <1>4, <1>5 DEF Next, Configure, RegistryNext

LEMMA KeepImplies == KeepInv => AsAsked
  BY DEF KeepInv, NoIdTwice, SettingsKept, AsAsked, EffectiveSeverity

(***************************************************************************)
(* Whatever calls are made, in any number and order and with scans between *)
(* them, every rule is on and graded as it was last asked for, and none is *)
(* registered twice (RuleRegistry).                                        *)
(***************************************************************************)
THEOREM SettingsAsAsked == Spec => []AsAsked
<1>1. Init => KeepInv
  BY KeepInit DEF Init
<1>2. KeepInv /\ [Next]_vars => KeepInv'
  BY KeepNext
<1>3. KeepInv => AsAsked
  BY KeepImplies
<1> QED
  BY <1>1, <1>2, <1>3, PTL DEF Spec
-----------------------------------------------------------------------------
\* A strict order of a set, and the elements that do not come after one.
Orders(R, K) ==
    /\ \A i, k \in K : i = k \/ <<i, k>> \in R \/ <<k, i>> \in R
    /\ \A i \in K : <<i, i>> \notin R
    /\ \A i, k, m \in K : <<i, k>> \in R /\ <<k, m>> \in R => <<i, m>> \in R

UpTo(R, K, i) == {k \in K : <<i, k>> \notin R}

LEMMA UpToPlaces ==
    ASSUME NEW K, IsFiniteSet(K), NEW R, Orders(R, K)
    PROVE  /\ Cardinality(K) \in Nat
           /\ \A i \in K : Cardinality(UpTo(R, K, i)) \in 1 .. Cardinality(K)
           /\ \A i, j \in K :
                 <<i, j>> \in R => Cardinality(UpTo(R, K, i)) < Cardinality(UpTo(R, K, j))
           /\ \A i, j \in K : Cardinality(UpTo(R, K, i)) = Cardinality(UpTo(R, K, j)) => i = j
           /\ \A n \in 1 .. Cardinality(K) : \E i \in K : Cardinality(UpTo(R, K, i)) = n
<1> DEFINE place(i) == Cardinality(UpTo(R, K, i))
           T == 1 .. Cardinality(K)
           f == [i \in K |-> place(i)]
<1>1. Cardinality(K) \in Nat
  BY FS_CardinalityType
<1>2. ASSUME NEW i \in K
      PROVE  IsFiniteSet(UpTo(R, K, i)) /\ place(i) \in T
  <2>1. UpTo(R, K, i) \in SUBSET K /\ i \in UpTo(R, K, i)
    BY DEF UpTo, Orders
  <2>2. /\ IsFiniteSet(UpTo(R, K, i)) /\ place(i) \in Nat /\ place(i) <= Cardinality(K)
    BY <1>1, <2>1, FS_Subset, FS_CardinalityType
  <2>3. place(i) # 0
    BY <2>1, <2>2, FS_EmptySet
  <2> QED BY <1>1, <2>2, <2>3
<1>3. ASSUME NEW i \in K, NEW j \in K, <<i, j>> \in R
      PROVE  place(i) < place(j)
  <2>1. \A k \in K : <<i, k>> \notin R => <<j, k>> \notin R
    BY <1>3 DEF Orders
  <2>2. j \in UpTo(R, K, j) /\ j \notin UpTo(R, K, i)
    BY <1>3 DEF UpTo, Orders
  <2>3. UpTo(R, K, i) \in SUBSET UpTo(R, K, j) /\ UpTo(R, K, i) # UpTo(R, K, j)
    BY <2>1, <2>2 DEF UpTo
  <2>4. place(i) \in Nat /\ place(j) \in Nat /\ place(i) <= place(j) /\ place(i) # place(j)
    BY <1>1, <1>2, <2>3, FS_Subset
  <2> QED BY <2>4
<1>10. \A i \in K : place(i) \in Nat
  BY <1>1, <1>2
<1> HIDE DEF place
<1>4. \A i, j \in K : place(i) = place(j) => i = j
  <2> SUFFICES ASSUME NEW i \in K, NEW j \in K, place(i) = place(j), i # j PROVE FALSE
    OBVIOUS
  <2>1. place(i) < place(j) \/ place(j) < place(i)
    BY <1>3 DEF Orders
  <2> QED BY <1>10, <2>1
<1>5. f \in Injection(K, T)
  <2>1. f \in [K -> T] /\ \A i, j \in K : f[i] = f[j] => i = j
    BY <1>2, <1>4
  <2> QED BY <2>1 DEF Injection, IsInjective
<1>6. IsFiniteSet(T) /\ Cardinality(T) = Cardinality(K)
  BY <1>1, FS_Interval
<1> HIDE DEF f, T
<1>7. f \in Surjection(K, T)
  BY <1>1, <1>5, <1>6, FS_Injection
<1>8. \A n \in T : \E i \in K : f[i] = n
  BY <1>7 DEF Surjection
<1>9. (\A i \in K : place(i) \in T) /\ (\A n \in T : \E i \in K : place(i) = n)
  BY <1>2, <1>8 DEF f
<1> QED BY <1>1, <1>3, <1>4, <1>9 DEF T, place

\* A sequence that has each element of a set once, in its order.
Lists(f, K, R) ==
    /\ f \in Seq(K)
    /\ \A i \in K : \E n \in DOMAIN f : f[n] = i
    /\ \A m, n \in DOMAIN f : m < n => <<f[m], f[n]>> \in R

LEMMA ListingIs ==
    ASSUME NEW K, IsFiniteSet(K), NEW R, Orders(R, K)
    PROVE  Lists(Listing(K, R), K, R) /\ Len(Listing(K, R)) = Cardinality(K)
<1> DEFINE T == 1 .. Cardinality(K)
           place(i) == Cardinality(UpTo(R, K, i))
           nth(n) == CHOOSE i \in K : place(i) = n
           f == Listing(K, R)
<1>1. /\ Cardinality(K) \in Nat
      /\ \A i \in K : place(i) \in T
      /\ \A i, j \in K : <<i, j>> \in R => place(i) < place(j)
      /\ \A i, j \in K : place(i) = place(j) => i = j
      /\ \A n \in T : \E i \in K : place(i) = n
  BY UpToPlaces
<1>2. f = [n \in T |-> nth(n)]
  BY DEF Listing, UpTo
<1> HIDE DEF place, f
<1>3. \A n \in T : nth(n) \in K /\ place(nth(n)) = n
  BY <1>1
<1> HIDE DEF nth
<1>4. f \in Seq(K) /\ DOMAIN f = T /\ Len(f) = Cardinality(K)
  <2>1. f \in [T -> K]
    BY <1>2, <1>3
  <2> QED BY <1>1, <2>1, SeqDef, LenProperties
<1>5. \A i \in K : f[place(i)] = i
  BY <1>1, <1>2, <1>3
<1>6. ASSUME NEW m \in T, NEW n \in T, m < n PROVE <<f[m], f[n]>> \in R
  <2>1. /\ f[m] \in K /\ f[n] \in K /\ place(f[m]) = m /\ place(f[n]) = n
    BY <1>2, <1>3
  <2>2. m \in Nat /\ n \in Nat
    BY <1>1
  <2>3. f[m] # f[n] /\ <<f[n], f[m]>> \notin R
    BY <1>1, <1>6, <2>1, <2>2
  <2> QED BY <2>1, <2>3 DEF Orders
<1> QED BY <1>1, <1>4, <1>5, <1>6 DEF Lists, f

\* There is only one such sequence.
LEMMA ListingIsOnly ==
    ASSUME NEW K, IsFiniteSet(K), NEW R, Orders(R, K), NEW f, Lists(f, K, R)
    PROVE  f = Listing(K, R)
<1> DEFINE T == 1 .. Cardinality(K)
           N == 1 .. Len(f)
           place(i) == Cardinality(UpTo(R, K, i))
           nth(n) == CHOOSE i \in K : place(i) = n
<1>1. /\ Cardinality(K) \in Nat
      /\ \A i, j \in K : place(i) = place(j) => i = j
  BY UpToPlaces
<1>2. /\ f \in [N -> K] /\ Len(f) \in Nat /\ DOMAIN f = N
      /\ \A i \in K : \E n \in N : f[n] = i
      /\ \A m, n \in N : m < n => <<f[m], f[n]>> \in R
  BY DEF Lists
<1>3. \A m, n \in N : m <= n <=> <<f[n], f[m]>> \notin R
  <2> SUFFICES ASSUME NEW m \in N, NEW n \in N PROVE m <= n <=> <<f[n], f[m]>> \notin R
    OBVIOUS
  <2>1. m < n \/ m = n \/ n < m
    OBVIOUS
  <2>2. m < n => m <= n
    OBVIOUS
  <2>3. n < m => ~(m <= n)
    OBVIOUS
  <2>4. f[m] \in K /\ f[n] \in K
    BY <1>2
  <2>5. CASE m < n
    <3>1. <<f[m], f[n]>> \in R
      BY <1>2, <2>5
    <3> QED BY <2>2, <2>4, <2>5, <3>1 DEF Orders
  <2>6. CASE m = n
    BY <2>4, <2>6 DEF Orders
  <2>7. CASE n < m
    BY <1>2, <2>3, <2>7
  <2> QED BY <2>1, <2>5, <2>6, <2>7
<1>4. \A m, n \in N : f[m] = f[n] => m = n
  <2> SUFFICES ASSUME NEW m \in N, NEW n \in N, f[m] = f[n] PROVE m = n
    OBVIOUS
  <2>1. m <= n /\ n <= m
    BY <1>2, <1>3 DEF Orders
  <2> QED BY <2>1
<1>5. ASSUME NEW n \in N PROVE place(f[n]) = n
  <2> DEFINE g == [m \in 1 .. n |-> f[m]]
  <2>1. n \in Nat /\ \A m \in 1 .. n : m \in N /\ m <= n
    BY <1>2
  <2>2. UpTo(R, K, f[n]) = {f[m] : m \in 1 .. n}
    <3>1. \A m \in 1 .. n : f[m] \in UpTo(R, K, f[n])
      BY <1>2, <1>3, <2>1 DEF UpTo
    <3>2. \A i \in UpTo(R, K, f[n]) : \E m \in 1 .. n : f[m] = i
      <4> SUFFICES ASSUME NEW i \in UpTo(R, K, f[n]) PROVE \E m \in 1 .. n : f[m] = i
        OBVIOUS
      <4>1. PICK m \in N : f[m] = i
        BY <1>2 DEF UpTo
      <4>2. m <= n
        BY <1>3, <4>1 DEF UpTo
      <4> QED BY <2>1, <4>1, <4>2
    <3> QED BY <3>1, <3>2
  <2>3. g \in Bijection(1 .. n, {f[m] : m \in 1 .. n})
    BY <1>4, <2>1 DEF Bijection, Injection, Surjection, IsInjective
  <2>4. IsFiniteSet(1 .. n) /\ Cardinality(1 .. n) = n
    BY <2>1, FS_Interval
  <2> HIDE DEF g
  <2> QED BY <2>2, <2>3, <2>4, FS_Bijection DEF ExistsBijection
<1>6. N = T
  <2>1. f \in Bijection(N, K)
    BY <1>2, <1>4 DEF Bijection, Injection, Surjection, IsInjective
  <2>2. Cardinality(N) = Len(f) /\ IsFiniteSet(N)
    BY <1>2, FS_Interval
  <2> QED BY <2>1, <2>2, FS_Bijection DEF ExistsBijection
<1> HIDE DEF place
<1>7. \A n \in N : nth(n) = f[n]
  BY <1>1, <1>2, <1>5
<1>8. Listing(K, R) = [n \in T |-> nth(n)]
  BY DEF Listing, UpTo, place
<1> HIDE DEF N, T, nth
<1> QED BY <1>2, <1>6, <1>7, <1>8

-----------------------------------------------------------------------------
\* Positions in their order, and the rows there.
Below(P) == {p \in P \X P : p[1] < p[2]}

Rises(f, P) ==
    /\ f \in Seq(P)
    /\ \A i \in P : \E n \in DOMAIN f : f[n] = i
    /\ \A m, n \in DOMAIN f : m < n => f[m] < f[n]

LEMMA BelowOrders == \A P \in SUBSET Nat : Orders(Below(P), P)
BY DEF Orders, Below

LEMMA RisesLists ==
    ASSUME NEW P, NEW f
    PROVE  Rises(f, P) <=> Lists(f, P, Below(P))
<1>1. ASSUME f \in Seq(P), NEW m \in DOMAIN f, NEW n \in DOMAIN f
      PROVE  f[m] < f[n] <=> <<f[m], f[n]>> \in Below(P)
  <2>1. f[m] \in P /\ f[n] \in P
    BY <1>1
  <2> QED BY <2>1 DEF Below
<1> QED BY <1>1 DEF Rises, Lists

LEMMA DomainIs ==
    ASSUME NEW T, NEW list \in Seq(T)
    PROVE  /\ DOMAIN list = 1 .. Len(list) /\ Len(list) \in Nat
           /\ DOMAIN list \subseteq Nat
           /\ IsFiniteSet(DOMAIN list) /\ Cardinality(DOMAIN list) = Len(list)
           /\ \A P \in SUBSET DOMAIN list : IsFiniteSet(P) /\ P \in SUBSET Nat
           /\ list \in [DOMAIN list -> T]
<1>1. DOMAIN list = 1 .. Len(list) /\ Len(list) \in Nat /\ list \in [1 .. Len(list) -> T]
  OBVIOUS
<1>2. IsFiniteSet(1 .. Len(list)) /\ Cardinality(1 .. Len(list)) = Len(list)
  BY <1>1, FS_Interval
<1>3. \A P \in SUBSET (1 .. Len(list)) : IsFiniteSet(P)
  BY <1>2, FS_Subset
<1>4. 1 .. Len(list) \subseteq Nat
  BY <1>1
<1> QED BY <1>1, <1>2, <1>3, <1>4

\* A list read along positions, and what stands at some.
Read(list, f) == [n \in DOMAIN f |-> list[f[n]]]
Among(list, P) == {list[i] : i \in P}

LEMMA Along ==
    ASSUME NEW T, NEW list \in Seq(T), NEW P \in SUBSET DOMAIN list, NEW f \in Seq(P),
           \A i \in P : \E n \in DOMAIN f : f[n] = i
    PROVE  /\ Read(list, f) \in Seq(T) /\ DOMAIN Read(list, f) = DOMAIN f
           /\ Len(Read(list, f)) = Len(f)
           /\ ToSet(Read(list, f)) = Among(list, P)
<1> DEFINE s == Read(list, f)
<1>1. /\ DOMAIN f = 1 .. Len(f) /\ Len(f) \in Nat /\ f \in [1 .. Len(f) -> P]
      /\ list \in [DOMAIN list -> T]
  BY DomainIs
<1>2. s \in [1 .. Len(f) -> T]
  BY <1>1 DEF Read
<1>3. s \in Seq(T) /\ DOMAIN s = DOMAIN f /\ Len(s) = Len(f)
  <2>1. DOMAIN s = DOMAIN f
    BY <1>1, <1>2
  <2> HIDE DEF s
  <2>2. s \in Seq(T)
    BY <1>1, <1>2, SeqDef
  <2>3. Len(s) = Len(f)
    BY <1>1, <2>1, <2>2, LenProperties
  <2> QED BY <2>1, <2>2, <2>3
<1>4. ToSet(s) = {list[f[n]] : n \in DOMAIN f}
  BY DEF ToSet, Read
<1>5. {list[f[n]] : n \in DOMAIN f} = {list[i] : i \in P}
  BY <1>1
<1> QED BY <1>3, <1>4, <1>5 DEF Among

LEMMA AtIs ==
    ASSUME NEW T, NEW list \in Seq(T), NEW P \in SUBSET DOMAIN list
    PROVE  /\ At(list, P) \in Seq(T) /\ Len(At(list, P)) = Cardinality(P)
           /\ ToSet(At(list, P)) = Among(list, P)
           /\ \E a : Rises(a, P) /\ At(list, P) = Read(list, a)
<1> DEFINE a == Listing(P, Below(P))
<1>1. IsFiniteSet(P) /\ P \in SUBSET Nat
  BY DomainIs
<1>2. Lists(a, P, Below(P)) /\ Len(a) = Cardinality(P)
  BY <1>1, BelowOrders, ListingIs
<1>3. At(list, P) = Read(list, a)
  BY DEF At, Below, Read
<1> HIDE DEF a
<1>4. Rises(a, P)
  BY <1>2, RisesLists
<1>5. a \in Seq(P) /\ \A i \in P : \E n \in DOMAIN a : a[n] = i
  BY <1>4 DEF Rises
<1>6. /\ At(list, P) \in Seq(T) /\ Len(At(list, P)) = Len(a)
      /\ ToSet(At(list, P)) = Among(list, P)
  BY <1>3, <1>5, Along
<1> QED BY <1>2, <1>3, <1>4, <1>6

LEMMA AtIsOnly ==
    ASSUME NEW T, NEW list \in Seq(T), NEW P \in SUBSET DOMAIN list, NEW f, Rises(f, P)
    PROVE  At(list, P) = Read(list, f)
<1>1. IsFiniteSet(P) /\ P \in SUBSET Nat
  BY DomainIs
<1>2. f = Listing(P, Below(P))
  BY <1>1, BelowOrders, RisesLists, ListingIsOnly
<1> QED BY <1>2 DEF At, Below, Read

LEMMA AtAll ==
    ASSUME NEW T, NEW list \in Seq(T)
    PROVE  At(list, DOMAIN list) = list
<1> DEFINE D == DOMAIN list
           f == [n \in D |-> n]
<1>1. D = 1 .. Len(list) /\ Len(list) \in Nat /\ list = [n \in D |-> list[n]]
  BY DomainIs
<1>2. f \in Seq(D)
  <2>1. f \in [1 .. Len(list) -> D]
    BY <1>1
  <2> HIDE DEF D, f
  <2> QED BY <1>1, <2>1, SeqDef
<1>3. Rises(f, D)
  BY <1>2 DEF Rises
<1>4. At(list, D) = Read(list, f)
  BY <1>3, AtIsOnly
<1> QED BY <1>1, <1>4 DEF Read

-----------------------------------------------------------------------------
\* What list.sort needs of a comparison, and what it makes of a list.
Weak(B, S) ==
    /\ \A x \in S : <<x, x>> \notin B
    /\ \A x, y, z \in S : <<x, y>> \in B /\ <<y, z>> \in B => <<x, z>> \in B
    /\ \A x, y, z \in S : <<x, z>> \in B => <<x, y>> \in B \/ <<y, z>> \in B

LEMMA StablyHas ==
    ASSUME NEW list, NEW B, NEW i \in DOMAIN list, NEW k \in DOMAIN list
    PROVE  <<i, k>> \in Stably(list, B) <=>
               <<list[i], list[k]>> \in B \/ (<<list[k], list[i]>> \notin B /\ i < k)
BY DEF Stably

LEMMA StablyOrders ==
    ASSUME NEW T, NEW list \in Seq(T), NEW B, Weak(B, ToSet(list))
    PROVE  Orders(Stably(list, B), DOMAIN list)
<1> DEFINE D == DOMAIN list
           Less(i, k) == <<list[i], list[k]>> \in B
           R == Stably(list, B)
<1>1. D \subseteq Nat /\ \A i \in D : list[i] \in ToSet(list)
  BY DomainIs DEF ToSet
<1>2. \A i, k \in D : <<i, k>> \in R <=> Less(i, k) \/ (~Less(k, i) /\ i < k)
  BY StablyHas
<1>3. /\ \A i \in D : ~Less(i, i)
      /\ \A i, k, m \in D : Less(i, k) /\ Less(k, m) => Less(i, m)
      /\ \A i, k, m \in D : Less(i, m) => Less(i, k) \/ Less(k, m)
  BY <1>1 DEF Weak
<1> HIDE DEF D, Less, R
<1>4. \A i, k \in D : i = k \/ <<i, k>> \in R \/ <<k, i>> \in R
  <2> SUFFICES ASSUME NEW i \in D, NEW k \in D PROVE i = k \/ <<i, k>> \in R \/ <<k, i>> \in R
    OBVIOUS
  <2>1. i = k \/ i < k \/ k < i
    BY <1>1
  <2> QED BY <1>2, <2>1
<1>5. \A i \in D : <<i, i>> \notin R
  <2> SUFFICES ASSUME NEW i \in D PROVE <<i, i>> \notin R
    OBVIOUS
  <2>1. ~(i < i)
    BY <1>1
  <2> QED BY <1>2, <1>3, <2>1
<1>6. ASSUME NEW i \in D, NEW k \in D, NEW m \in D, <<i, k>> \in R, <<k, m>> \in R
      PROVE  <<i, m>> \in R
  <2>1. i < k /\ k < m => i < m
    BY <1>1
  <2>2. Less(i, k) \/ (~Less(k, i) /\ i < k)
    BY <1>2, <1>6
  <2>3. Less(k, m) \/ (~Less(m, k) /\ k < m)
    BY <1>2, <1>6
  <2>4. Less(i, m) \/ (~Less(m, i) /\ i < m)
    BY <1>3, <2>1, <2>2, <2>3
  <2> QED BY <1>2, <2>4
<1> QED BY <1>4, <1>5, <1>6 DEF Orders, D, R

LEMMA SortIs ==
    ASSUME NEW T, NEW list \in Seq(T), NEW B, Weak(B, ToSet(list))
    PROVE  /\ StableSort(list, B) \in Seq(T) /\ Len(StableSort(list, B)) = Len(list)
           /\ ToSet(StableSort(list, B)) = ToSet(list)
           /\ \E o : /\ Lists(o, DOMAIN list, Stably(list, B)) /\ Len(o) = Len(list)
                     /\ StableSort(list, B) = Read(list, o)
<1> DEFINE D == DOMAIN list
           o == Listing(D, Stably(list, B))
<1>1. IsFiniteSet(D) /\ Cardinality(D) = Len(list)
  BY DomainIs
<1>2. Lists(o, D, Stably(list, B)) /\ Len(o) = Len(list)
  BY <1>1, StablyOrders, ListingIs
<1>3. StableSort(list, B) = Read(list, o)
  BY DEF StableSort, Read
<1> HIDE DEF o
<1>4. o \in Seq(D) /\ \A i \in D : \E n \in DOMAIN o : o[n] = i
  BY <1>2 DEF Lists
<1>5. Among(list, D) = ToSet(list)
  BY DEF ToSet, Among
<1>6. /\ StableSort(list, B) \in Seq(T) /\ Len(StableSort(list, B)) = Len(o)
      /\ ToSet(StableSort(list, B)) = Among(list, D)
  BY <1>3, <1>4, Along
<1> QED BY <1>2, <1>3, <1>5, <1>6

-----------------------------------------------------------------------------
\* Evaluation: the places where there is a finding, in the order of the rules.
LEMMA PlacesFinite ==
    ASSUME NEW d \in Data, NEW ids \in Seq(Rule)
    PROVE  /\ IsFiniteSet(PlacesOf(d, ids))
           /\ \A p : p \in PlacesOf(d, ids) <=>
                 /\ p = <<p[1], p[2]>> /\ p[1] \in DOMAIN ids /\ p[2] \in DOMAIN d[ids[p[1]]]
           /\ \A p \in PlacesOf(d, ids) :
                 p[1] \in Nat /\ p[2] \in Nat /\ ids[p[1]] \in Rule
<1> DEFINE at(i) == {i} \X DOMAIN d[ids[i]]
           S == {at(i) : i \in DOMAIN ids}
<1>1. /\ DOMAIN ids \subseteq Nat /\ IsFiniteSet(DOMAIN ids)
      /\ \A i \in DOMAIN ids : ids[i] \in Rule
  BY DomainIs
<1>2. ASSUME NEW i \in DOMAIN ids
      PROVE  /\ DOMAIN d[ids[i]] \subseteq Nat /\ IsFiniteSet(at(i))
  <2>1. d[ids[i]] \in Seq(Issues(ids[i]))
    BY <1>1, DigestAssumption
  <2>2. DOMAIN d[ids[i]] \subseteq Nat /\ IsFiniteSet(DOMAIN d[ids[i]])
    BY <2>1, DomainIs
  <2>3. IsFiniteSet({i})
    BY FS_Singleton
  <2> QED BY <2>2, <2>3, FS_Product
<1>3. PlacesOf(d, ids) = UNION S
  BY DEF PlacesOf
<1>4. \A p : p \in PlacesOf(d, ids) <=>
         p = <<p[1], p[2]>> /\ p[1] \in DOMAIN ids /\ p[2] \in DOMAIN d[ids[p[1]]]
  BY <1>3
<1> HIDE DEF at
<1>5. IsFiniteSet(S)
  <2> DEFINE f == [i \in DOMAIN ids |-> at(i)]
  <2>1. f \in Surjection(DOMAIN ids, S)
    BY DEF Surjection
  <2> HIDE DEF f, S
  <2> QED BY <1>1, <2>1, FS_Surjection
<1>6. IsFiniteSet(UNION S)
  BY <1>2, <1>5, FS_UNION
<1> QED BY <1>1, <1>2, <1>3, <1>4, <1>6

LEMMA TurnOrders ==
    ASSUME NEW d \in Data, NEW ids \in Seq(Rule)
    PROVE  Orders(InTurn(PlacesOf(d, ids)), PlacesOf(d, ids))
<1> DEFINE K == PlacesOf(d, ids)
           R == InTurn(K)
<1>1. \A p \in K : p = <<p[1], p[2]>> /\ p[1] \in Nat /\ p[2] \in Nat
  BY PlacesFinite
<1> HIDE DEF K
<1>2. \A p, q \in K : <<p, q>> \in R <=> p[1] < q[1] \/ (p[1] = q[1] /\ p[2] < q[2])
  BY DEF InTurn
<1> HIDE DEF R
<1>3. ASSUME NEW p \in K, NEW q \in K PROVE p = q \/ <<p, q>> \in R \/ <<q, p>> \in R
  <2>1. p[1] < q[1] \/ q[1] < p[1] \/ (p[1] = q[1] /\ (p[2] < q[2] \/ q[2] < p[2] \/ p[2] = q[2]))
    BY <1>1
  <2> QED BY <1>1, <1>2, <2>1
<1>4. ASSUME NEW p \in K PROVE <<p, p>> \notin R
  <2>1. ~(p[1] < p[1]) /\ ~(p[2] < p[2])
    BY <1>1
  <2> QED BY <1>2, <2>1
<1>5. ASSUME NEW p \in K, NEW q \in K, NEW s \in K, <<p, q>> \in R, <<q, s>> \in R
      PROVE  <<p, s>> \in R
  <2>1. /\ p[1] < q[1] \/ (p[1] = q[1] /\ p[2] < q[2])
        /\ q[1] < s[1] \/ (q[1] = s[1] /\ q[2] < s[2])
    BY <1>2, <1>5
  <2>2. p[1] < s[1] \/ (p[1] = s[1] /\ p[2] < s[2])
    BY <1>1, <2>1
  <2> QED BY <1>2, <2>2
<1> QED BY <1>3, <1>4, <1>5 DEF Orders, K, R

-----------------------------------------------------------------------------
\* What a scan hands to the reports: the enabled rules, each once, and at
\* every place the finding of a rule as it is graded.
Graded(set, r) ==
    IF set[r].severity_override = None THEN DefaultOf[r] ELSE set[r].severity_override

RuleAt(s, p) == s.metadata[p[1]]
IssueAt(s, p) == s.data[RuleAt(s, p)][p[2]]
Told(s, p, t) == Finding(RuleAt(s, p), Graded(s.settings, RuleAt(s, p)), IssueAt(s, p), t)

Places(s) == PlacesOf(s.data, s.metadata)

Evaluated(s) ==
    \E o, clock :
        /\ clock \in Nat /\ Lists(o, Places(s), InTurn(Places(s)))
        /\ s.findings = [n \in DOMAIN o |-> Told(s, o[n], clock + n)]

Done(s) ==
    /\ s.data \in Data
    /\ DOMAIN s.settings \subseteq Rule
    /\ \A r \in DOMAIN s.settings : s.settings[r] \in RuleSetting
    /\ s.metadata \in Seq(Rule)
    /\ \A i, k \in DOMAIN s.metadata : s.metadata[i] = s.metadata[k] => i = k
    /\ ToSet(s.metadata) = On(s.settings)
    /\ Evaluated(s)

Scanned(s) == s = NoScan \/ Done(s)

ReportsInv == KeepInv /\ Scanned(scan) /\ Scanned(earlier)

LEMMA EnabledIs ==
    ASSUME KeepInv
    PROVE  /\ EnabledRules \in Seq(Rule)
           /\ \A i, k \in DOMAIN EnabledRules : EnabledRules[i] = EnabledRules[k] => i = k
           /\ ToSet(EnabledRules) = On(settings)
           /\ On(settings) \subseteq Rule
<1> DEFINE P == {i \in DOMAIN rules : settings[rules[i]].enabled}
<1>1. /\ rules \in Seq(Rule) /\ P \in SUBSET DOMAIN rules
      /\ DOMAIN settings = {rules[i] : i \in DOMAIN rules} /\ DOMAIN settings \subseteq Rule
  BY DEF KeepInv, RegistryTypeOK, SettingsKept, Known, ToSet
<1>2. Among(rules, P) = On(settings)
  BY <1>1 DEF Among, On
<1>3. EnabledRules = At(rules, P)
  BY DEF EnabledRules
<1> HIDE DEF P
<1>4. /\ At(rules, P) \in Seq(Rule) /\ ToSet(At(rules, P)) = Among(rules, P)
      /\ \E a : Rises(a, P) /\ At(rules, P) = Read(rules, a)
  BY <1>1, AtIs
<1>5. PICK a : Rises(a, P) /\ EnabledRules = Read(rules, a)
  BY <1>3, <1>4
<1>6. DOMAIN EnabledRules = DOMAIN a /\ \A i \in DOMAIN a : EnabledRules[i] = rules[a[i]]
  BY <1>5 DEF Read
<1>7. DOMAIN a = 1 .. Len(a) /\ Len(a) \in Nat /\ \A i \in DOMAIN a : a[i] \in P
  BY <1>5 DEF Rises
<1>8. ASSUME NEW i \in DOMAIN a, NEW k \in DOMAIN a, EnabledRules[i] = EnabledRules[k]
      PROVE  i = k
  <2>1. a[i] = a[k]
    BY <1>1, <1>6, <1>7, <1>8 DEF KeepInv, NoIdTwice
  <2>2. i < k \/ k < i \/ i = k
    BY <1>7
  <2>3. a[i] \in Nat
    BY <1>1, <1>7, DomainIs
  <2> QED BY <1>5, <2>1, <2>2, <2>3 DEF Rises
<1>9. On(settings) \subseteq Rule
  BY <1>1 DEF On
<1> QED BY <1>2, <1>3, <1>4, <1>6, <1>8, <1>9

LEMMA ScanScans ==
    ASSUME KeepInv, NEW d \in Data, NEW clock \in Clock,
           NEW s,
           s = [data |-> d, settings |-> settings, findings |-> Evaluate(d, clock),
                metadata |-> EnabledRules]
    PROVE  Scanned(s)
<1>1. /\ s.data = d /\ s.settings = settings /\ s.findings = Evaluate(d, clock)
      /\ s.metadata = EnabledRules
  OBVIOUS
<1>2. /\ EnabledRules \in Seq(Rule)
      /\ \A i, k \in DOMAIN EnabledRules : EnabledRules[i] = EnabledRules[k] => i = k
      /\ ToSet(EnabledRules) = On(settings)
  BY EnabledIs
<1>3. DOMAIN settings \subseteq Rule /\ \A r \in DOMAIN settings : settings[r] \in RuleSetting
  BY DEF KeepInv, RegistryTypeOK
<1>4. Evaluated(s)
  <2> DEFINE o == Listing(Places(s), InTurn(Places(s)))
  <2>1. Lists(o, Places(s), InTurn(Places(s)))
    BY <1>1, <1>2, PlacesFinite, TurnOrders, ListingIs DEF Places
  <2>2. s.findings = [n \in DOMAIN o |-> Told(s, o[n], clock + n)]
    BY <1>1 DEF Evaluate, Told, RuleAt, IssueAt, Graded, EffectiveSeverity, Places
  <2> HIDE DEF o
  <2> QED BY <2>1, <2>2, ClockAssumption DEF Evaluated
<1> QED BY <1>1, <1>2, <1>3, <1>4 DEF Scanned, Done

LEMMA ReportsKept ==
    /\ Init => ReportsInv
    /\ ReportsInv /\ [Next]_vars => ReportsInv'
<1>1. ASSUME Init PROVE ReportsInv
  BY <1>1, KeepInit DEF Init, ReportsInv, Scanned
<1>2. ASSUME ReportsInv, [Next]_vars PROVE ReportsInv'
  <2>1. KeepInv'
    BY <1>2, KeepNext DEF ReportsInv
  <2>2. CASE UNCHANGED <<scan, earlier>>
    BY <1>2, <2>1, <2>2 DEF ReportsInv
  <2>3. ASSUME NEW d \in Data, NEW clock \in Clock, Scan(d, clock) PROVE ReportsInv'
    <3>1. Scanned(scan')
      BY <1>2, <2>3, ScanScans DEF Scan, ReportsInv
    <3>2. earlier' = scan
      BY <2>3 DEF Scan
    <3> QED BY <1>2, <2>1, <3>1, <3>2 DEF ReportsInv
  <2> QED BY <1>2, <2>2, <2>3 DEF Next, Configure, vars
<1> QED BY <1>1, <1>2

-----------------------------------------------------------------------------
\* A finding that a report may be given.
AnyFinding ==
    UNION {{Finding(r, severity, issue, t) :
                severity \in Severity, issue \in Issues(r), t \in Nat} : r \in Rule}

LEMMA AnyFindingIs ==
    ASSUME NEW f \in AnyFinding
    PROVE  /\ f.rule \in Rule /\ f.rule \in Nat /\ f.severity \in Severity
           /\ f.entity \in Nat /\ f.fingerprint \in Nat
<1>a. PICK r \in Rule :
         f \in {Finding(r, severity, issue, t) :
                   severity \in Severity, issue \in Issues(r), t \in Nat}
  BY DEF AnyFinding
<1>1. PICK severity \in Severity, issue \in Issues(r), t \in Nat :
         f = Finding(r, severity, issue, t)
  BY <1>a
<1>2. issue.entity \in Nat /\ Digest[<<r, issue.entity, issue.key>>] \in Nat
  BY DigestAssumption
<1> QED BY <1>1, <1>2, RegistryAssumption DEF Finding, Fingerprint

LEMMA ToldIs ==
    ASSUME NEW s, Done(s), NEW p \in Places(s), NEW t \in Nat
    PROVE  /\ p[1] \in DOMAIN s.metadata /\ p[2] \in DOMAIN s.data[RuleAt(s, p)]
           /\ RuleAt(s, p) \in Rule /\ RuleAt(s, p) \in On(s.settings)
           /\ IssueAt(s, p) \in Issues(RuleAt(s, p))
           /\ IssueAt(s, p) \in ToSet(s.data[RuleAt(s, p)])
           /\ Told(s, p, t) \in AnyFinding
           /\ Told(s, p, t).rule = RuleAt(s, p) /\ Told(s, p, t).entity = IssueAt(s, p).entity
           /\ Told(s, p, t).fingerprint
                 = Digest[<<RuleAt(s, p), IssueAt(s, p).entity, IssueAt(s, p).key>>]
           /\ Told(s, p, t).severity = Graded(s.settings, RuleAt(s, p))
<1> DEFINE r == RuleAt(s, p)
           issue == IssueAt(s, p)
<1>1. s.data \in Data /\ s.metadata \in Seq(Rule)
  BY DEF Done
<1>2. p[1] \in DOMAIN s.metadata /\ p[2] \in DOMAIN s.data[r] /\ r \in Rule
  BY <1>1, PlacesFinite DEF Places, RuleAt
<1>3. s.data[r] \in Seq(Issues(r))
  BY <1>1, <1>2, DigestAssumption
<1>4. issue \in Issues(r) /\ issue \in ToSet(s.data[r])
  BY <1>2, <1>3 DEF ToSet, IssueAt
<1>5. r \in On(s.settings)
  BY <1>2 DEF Done, ToSet, RuleAt
<1>6. s.settings[r] \in RuleSetting
  BY <1>5 DEF Done, On
<1>7. Graded(s.settings, r) \in Severity
  BY <1>2, <1>6, RegistryAssumption DEF Graded, RuleSetting
<1>8. Told(s, p, t) = Finding(r, Graded(s.settings, r), issue, t)
  BY DEF Told
<1>9. Told(s, p, t) \in AnyFinding
  BY <1>2, <1>4, <1>7, <1>8 DEF AnyFinding
<1>10. /\ Told(s, p, t).rule = r /\ Told(s, p, t).entity = issue.entity
       /\ Told(s, p, t).fingerprint = Digest[<<r, issue.entity, issue.key>>]
       /\ Told(s, p, t).severity = Graded(s.settings, r)
  BY <1>8 DEF Finding, Fingerprint
<1> QED BY <1>2, <1>4, <1>5, <1>9, <1>10

\* The findings of a scan are what is told at its places, each once.
TellsAt(s, o) ==
    /\ o \in [DOMAIN s.findings -> Places(s)]
    /\ \A n \in DOMAIN s.findings : \E t \in Nat : s.findings[n] = Told(s, o[n], t)
    /\ \A m, n \in DOMAIN s.findings : o[m] = o[n] => m = n
    /\ \A p \in Places(s) : \E n \in DOMAIN s.findings : o[n] = p

LEMMA FindingsAre ==
    ASSUME NEW s, Done(s)
    PROVE  /\ s.findings \in Seq(AnyFinding)
           /\ \E o : TellsAt(s, o)
<1>1. PICK o, clock :
         /\ clock \in Nat /\ Lists(o, Places(s), InTurn(Places(s)))
         /\ s.findings = [n \in DOMAIN o |-> Told(s, o[n], clock + n)]
  BY DEF Done, Evaluated
<1>2. s.data \in Data /\ s.metadata \in Seq(Rule)
  BY DEF Done
<1>3. /\ DOMAIN o = 1 .. Len(o) /\ Len(o) \in Nat /\ o \in [DOMAIN o -> Places(s)]
      /\ \A p \in Places(s) : \E n \in DOMAIN o : o[n] = p
      /\ \A m, n \in DOMAIN o : m < n => <<o[m], o[n]>> \in InTurn(Places(s))
  BY <1>1 DEF Lists
<1>4. Orders(InTurn(Places(s)), Places(s))
  BY <1>2, TurnOrders DEF Places
<1>5. ASSUME NEW m \in DOMAIN o, NEW n \in DOMAIN o, o[m] = o[n] PROVE m = n
  <2>1. m < n \/ n < m \/ m = n
    BY <1>3
  <2>2. <<o[m], o[m]>> \notin InTurn(Places(s))
    BY <1>3, <1>4 DEF Orders
  <2> QED BY <1>3, <1>5, <2>1, <2>2
<1>6. \A n \in DOMAIN o : clock + n \in Nat /\ Told(s, o[n], clock + n) \in AnyFinding
  <2>1. \A n \in DOMAIN o : clock + n \in Nat
    BY <1>1, <1>3
  <2> QED BY <1>3, <2>1, ToldIs
<1>7. s.findings \in [1 .. Len(o) -> AnyFinding] /\ DOMAIN s.findings = DOMAIN o
  BY <1>1, <1>3, <1>6
<1>8. s.findings \in Seq(AnyFinding)
  BY <1>3, <1>7, SeqDef
<1>9. \A n \in DOMAIN o : \E t \in Nat : s.findings[n] = Told(s, o[n], t)
  BY <1>1, <1>6
<1>10. TellsAt(s, o)
  <2>1. o \in [DOMAIN s.findings -> Places(s)]
    BY <1>3, <1>7
  <2> QED BY ONLY <2>1, <1>3, <1>5, <1>7, <1>9 DEF TellsAt
<1> QED BY <1>8, <1>10

\* Findings that share a fingerprint are of one rule and entity, and of one
\* severity as a rule has one in a scan.
Telling(list) ==
    /\ list \in Seq(AnyFinding)
    /\ \A f, g \in ToSet(list) :
          f.fingerprint = g.fingerprint =>
              f.rule = g.rule /\ f.entity = g.entity /\ f.severity = g.severity

LEMMA ScannedTells ==
    ASSUME NEW s, Scanned(s)
    PROVE  /\ Telling(s.findings)
           /\ s.metadata \in Seq(Rule)
           /\ \A i, k \in DOMAIN s.metadata : s.metadata[i] = s.metadata[k] => i = k
           /\ RulesIn(s.findings) \subseteq ToSet(s.metadata)
<1>1. CASE s = NoScan
  <2>1. s.findings = <<>> /\ s.metadata = <<>>
    BY <1>1 DEF NoScan
  <2>2. ToSet(s.findings) = {} /\ RulesIn(s.findings) = {} /\ DOMAIN s.metadata = {}
    BY <2>1 DEF ToSet, RulesIn
  <2> QED BY <2>1, <2>2 DEF Telling
<1>2. CASE Done(s)
  <2>1. PICK o : TellsAt(s, o)
    BY <1>2, FindingsAre
  <2>2. ASSUME NEW f \in ToSet(s.findings), NEW g \in ToSet(s.findings),
               f.fingerprint = g.fingerprint
        PROVE  f.rule = g.rule /\ f.entity = g.entity /\ f.severity = g.severity
    <3>1. PICK p \in Places(s), q \in Places(s) :
                 (\E t \in Nat : f = Told(s, p, t)) /\ \E t \in Nat : g = Told(s, q, t)
      BY <2>1 DEF TellsAt, ToSet
    <3> DEFINE r == RuleAt(s, p)   issue == IssueAt(s, p)
               t == RuleAt(s, q)   other == IssueAt(s, q)
    <3>2. /\ r \in Rule /\ issue \in Issues(r)
          /\ f.rule = r /\ f.entity = issue.entity /\ f.severity = Graded(s.settings, r)
          /\ f.fingerprint = Digest[<<r, issue.entity, issue.key>>]
      BY <1>2, <3>1, ToldIs
    <3>3. /\ t \in Rule /\ other \in Issues(t)
          /\ g.rule = t /\ g.entity = other.entity /\ g.severity = Graded(s.settings, t)
          /\ g.fingerprint = Digest[<<t, other.entity, other.key>>]
      BY <1>2, <3>1, ToldIs
    <3> HIDE DEF r, issue, t, other
    <3>4. /\ <<r, issue.entity, issue.key>> \in DOMAIN Digest
          /\ <<t, other.entity, other.key>> \in DOMAIN Digest
      BY <3>2, <3>3, DigestAssumption
    <3>5. <<r, issue.entity, issue.key>> = <<t, other.entity, other.key>>
      BY <2>2, <3>2, <3>3, <3>4, DigestAssumption
    <3> QED BY <3>2, <3>3, <3>5
  <2>3. ASSUME NEW n \in DOMAIN s.findings PROVE s.findings[n].rule \in ToSet(s.metadata)
    <3>1. o[n] \in Places(s) /\ \E t \in Nat : s.findings[n] = Told(s, o[n], t)
      BY <2>1 DEF TellsAt
    <3>2. PICK t \in Nat : s.findings[n] = Told(s, o[n], t)
      BY <3>1
    <3>3. o[n][1] \in DOMAIN s.metadata /\ Told(s, o[n], t).rule = RuleAt(s, o[n])
      BY <1>2, <3>1, ToldIs
    <3> QED BY <3>2, <3>3 DEF ToSet, RuleAt
  <2> QED BY <1>2, <2>2, <2>3, FindingsAre DEF Telling, Done, RulesIn
<1> QED BY <1>1, <1>2 DEF Scanned

-----------------------------------------------------------------------------
\* Every rule once in the SARIF report.
LEMMA Least ==
    ASSUME NEW P, IsFiniteSet(P), P \in SUBSET Nat, P # {}
    PROVE  \E m \in P : \A k \in P : m <= k
<1> DEFINE f == Listing(P, Below(P))
<1>1. Lists(f, P, Below(P))
  BY BelowOrders, ListingIs
<1> HIDE DEF f
<1>2. Rises(f, P)
  BY <1>1, RisesLists
<1>3. /\ DOMAIN f = 1 .. Len(f) /\ Len(f) \in Nat /\ \A n \in DOMAIN f : f[n] \in P
      /\ \A i \in P : \E n \in DOMAIN f : f[n] = i
      /\ \A m, n \in DOMAIN f : m < n => f[m] < f[n]
  BY <1>2 DEF Rises
<1>4. 1 \in DOMAIN f
  <2>1. PICK i \in P : TRUE
    OBVIOUS
  <2>2. PICK n \in DOMAIN f : f[n] = i
    BY <1>3
  <2> QED BY <1>3, <2>2
<1>5. ASSUME NEW k \in P PROVE f[1] <= k
  <2>1. PICK n \in DOMAIN f : f[n] = k
    BY <1>3
  <2>2. n = 1 \/ 1 < n
    BY <1>3
  <2>3. f[1] \in Nat /\ k \in Nat
    BY <1>3, <1>4
  <2>4. 1 < n => f[1] < k
    BY <1>3, <1>4, <2>1
  <2> QED BY <2>1, <2>2, <2>3, <2>4
<1> QED BY <1>3, <1>4, <1>5

IdsOf(list) == [i \in DOMAIN list |-> list[i].rule]
Listed(metadata, list) == metadata \o IdsOf(list)
Firsts(all) == {i \in DOMAIN all : \A k \in 1 .. i - 1 : all[k] # all[i]}

LEMMA OrderedIdsAre ==
    ASSUME NEW list \in Seq(AnyFinding), NEW metadata \in Seq(Rule)
    PROVE  LET ids == OrderedIds(metadata, list)
           IN  /\ ids \in Seq(Rule)
               /\ ToSet(ids) = ToSet(metadata) \cup RulesIn(list)
               /\ \A m, n \in DOMAIN ids : ids[m] = ids[n] => m = n
<1> DEFINE all == Listed(metadata, list)
           ids == OrderedIds(metadata, list)
           F == Firsts(all)
<1>1. IdsOf(list) \in Seq(Rule) /\ ToSet(IdsOf(list)) = RulesIn(list)
  <2>1. /\ DOMAIN list = 1 .. Len(list) /\ Len(list) \in Nat
        /\ \A i \in DOMAIN list : list[i] \in AnyFinding
    BY DomainIs
  <2>2. IdsOf(list) \in [1 .. Len(list) -> Rule]
    BY <2>1, AnyFindingIs DEF IdsOf
  <2>3. IdsOf(list) \in Seq(Rule)
    BY <2>1, <2>2, SeqDef
  <2>4. ToSet(IdsOf(list)) = RulesIn(list)
    BY DEF ToSet, RulesIn, IdsOf
  <2> QED BY <2>3, <2>4
<1>2. all \in Seq(Rule) /\ ToSet(all) = ToSet(metadata) \cup RulesIn(list)
  <2> DEFINE a == metadata   b == IdsOf(list)
  <2>1. /\ a \o b \in Seq(Rule) /\ DOMAIN (a \o b) = 1 .. Len(a) + Len(b)
        /\ DOMAIN a = 1 .. Len(a) /\ DOMAIN b = 1 .. Len(b) /\ Len(a) \in Nat /\ Len(b) \in Nat
        /\ \A i \in 1 .. Len(a) : (a \o b)[i] = a[i]
        /\ \A i \in 1 .. Len(b) : (a \o b)[Len(a) + i] = b[i]
    BY <1>1
  <2> HIDE DEF a, b
  <2>2. \A i \in DOMAIN (a \o b) :
           i \in DOMAIN a \/ (i - Len(a) \in DOMAIN b /\ i = Len(a) + (i - Len(a)))
    BY <2>1
  <2>3. \A i \in DOMAIN (a \o b) : (a \o b)[i] \in ToSet(a) \cup ToSet(b)
    BY <2>1, <2>2 DEF ToSet
  <2>4. \A i \in DOMAIN a : i \in DOMAIN (a \o b) /\ (a \o b)[i] = a[i]
    BY <2>1
  <2>5. \A i \in DOMAIN b : Len(a) + i \in DOMAIN (a \o b) /\ (a \o b)[Len(a) + i] = b[i]
    BY <2>1
  <2>6. ToSet(a \o b) = ToSet(a) \cup ToSet(b)
    BY <2>3, <2>4, <2>5, ZenonT(60) DEF ToSet
  <2> QED BY <1>1, <2>1, <2>6 DEF a, b, Listed
<1>3. ids = At(all, F)
  BY DEF OrderedIds, Listed, IdsOf, Firsts
<1> HIDE DEF all, ids
<1>4. DOMAIN all = 1 .. Len(all) /\ Len(all) \in Nat /\ F \in SUBSET DOMAIN all
  BY <1>2 DEF Firsts
<1>5. \A i, k \in F : all[i] = all[k] => i = k
  <2> SUFFICES ASSUME NEW i \in F, NEW k \in F, all[i] = all[k] PROVE i = k
    OBVIOUS
  <2>1. i \in Nat /\ k \in Nat /\ i >= 1 /\ k >= 1
    BY <1>4
  <2>2. i < k => i \in 1 .. k - 1
    BY <2>1
  <2>3. k < i => k \in 1 .. i - 1
    BY <2>1
  <2>4. ~(i < k) /\ ~(k < i)
    BY <2>2, <2>3 DEF Firsts
  <2> QED BY <2>1, <2>4
<1>6. ASSUME NEW i \in DOMAIN all PROVE \E k \in F : all[k] = all[i]
  <2> DEFINE P == {k \in DOMAIN all : all[k] = all[i]}
  <2>1. IsFiniteSet(P) /\ P \in SUBSET Nat /\ P # {}
    <3>1. P \in SUBSET DOMAIN all /\ i \in P
      OBVIOUS
    <3> HIDE DEF P
    <3> QED BY <1>2, <3>1, DomainIs
  <2>2. PICK m \in P : \A k \in P : m <= k
    <3> HIDE DEF P
    <3> QED BY <2>1, Least
  <2>3. \A k \in 1 .. m - 1 : k \in DOMAIN all /\ ~(m <= k)
    BY <1>4, <2>2
  <2>4. m \in F
    BY <2>2, <2>3 DEF Firsts
  <2> QED BY <2>2, <2>4
<1> HIDE DEF F
<1>7. ids \in Seq(Rule) /\ ToSet(ids) = Among(all, F)
  BY <1>2, <1>3, <1>4, AtIs
<1>8. Among(all, F) = ToSet(all)
  BY <1>4, <1>6 DEF Among, ToSet
<1>9. \E a : Rises(a, F) /\ ids = Read(all, a)
  BY <1>2, <1>3, <1>4, AtIs
<1>10. PICK a : Rises(a, F) /\ ids = Read(all, a)
  BY <1>9
<1>11. ASSUME NEW m \in DOMAIN ids, NEW n \in DOMAIN ids, ids[m] = ids[n] PROVE m = n
  <2>1. /\ DOMAIN ids = DOMAIN a /\ ids[m] = all[a[m]] /\ ids[n] = all[a[n]]
    BY <1>10, <1>11 DEF Read
  <2>2. a[m] \in F /\ a[n] \in F /\ m \in Nat /\ n \in Nat /\ a[m] \in Nat
    BY <1>4, <1>10, <2>1 DEF Rises
  <2>3. a[m] = a[n]
    BY <1>5, <1>11, <2>1, <2>2
  <2>4. ~(m < n) /\ ~(n < m)
    BY <1>10, <2>1, <2>2, <2>3 DEF Rises
  <2> QED BY <2>2, <2>4
<1> QED BY <1>2, <1>7, <1>8, <1>11 DEF ids

LEMMA SarifAgrees ==
    ASSUME NEW list \in Seq(AnyFinding), NEW metadata \in Seq(Rule)
    PROVE  LET sarif == Sarif(metadata, list)
           IN  /\ ToSet(metadata) \cup RulesIn(list) = ToSet(sarif.rules)
               /\ IsInjective(sarif.rules)
               /\ \A i \in DOMAIN sarif.results :
                     sarif.rules[sarif.results[i].ruleIndex + 1] = sarif.results[i].ruleId
<1> DEFINE ids == OrderedIds(metadata, list)
           IndexOf(r) == CHOOSE k \in DOMAIN ids :
                            ids[k] = r /\ \A m \in DOMAIN ids : ids[m] = r => m <= k
           sarif == Sarif(metadata, list)
<1>1. /\ ids \in Seq(Rule)
      /\ ToSet(ids) = ToSet(metadata) \cup RulesIn(list)
      /\ \A m, n \in DOMAIN ids : ids[m] = ids[n] => m = n
  BY OrderedIdsAre
<1>2. /\ sarif.rules = ids /\ DOMAIN sarif.results = DOMAIN list
      /\ \A i \in DOMAIN list :
            /\ sarif.results[i].ruleId = list[i].rule
            /\ sarif.results[i].ruleIndex = IndexOf(list[i].rule) - 1
  BY DEF Sarif
<1> HIDE DEF ids, sarif
<1>3. ASSUME NEW i \in DOMAIN list
      PROVE  IndexOf(list[i].rule) \in DOMAIN ids /\ ids[IndexOf(list[i].rule)] = list[i].rule
  <2>1. list[i].rule \in ToSet(ids)
    BY <1>1 DEF RulesIn
  <2>2. PICK k \in DOMAIN ids : ids[k] = list[i].rule
    BY <2>1 DEF ToSet
  <2>3. k \in Nat
    BY <1>1
  <2>4. \A m \in DOMAIN ids : ids[m] = list[i].rule => m <= k
    BY <1>1, <2>2, <2>3
  <2> QED BY <2>2, <2>4
<1> HIDE DEF IndexOf
<1>4. ASSUME NEW i \in DOMAIN list
      PROVE  sarif.rules[sarif.results[i].ruleIndex + 1] = sarif.results[i].ruleId
  <2>1. IndexOf(list[i].rule) \in Nat
    BY <1>1, <1>3
  <2>2. IndexOf(list[i].rule) - 1 + 1 = IndexOf(list[i].rule)
    BY <2>1
  <2> QED BY <1>2, <1>3, <2>2
<1> QED BY <1>1, <1>2, <1>4 DEF IsInjective, sarif

-----------------------------------------------------------------------------
\* The counts of the classes of a list's positions add up to its length.
Class(c, x) == {i \in DOMAIN c : c[i] = x}

Counting(c, counts) ==
    /\ DOMAIN c \subseteq Nat /\ IsFiniteSet(DOMAIN c)
    /\ \A i \in DOMAIN c : c[i] \in DOMAIN counts
    /\ \A x \in DOMAIN counts : counts[x] = Cardinality(Class(c, x))

LEMMA CountsAddUp ==
    ASSUME NEW c, NEW counts, Counting(c, counts)
    PROVE  SumOf(counts) = Cardinality(DOMAIN c)
<1> DEFINE D == DOMAIN c
           X == DOMAIN counts
           Of(x) == {i \in D : c[i] = x}
           R(x) == Below(Of(x))
           rank(i) == Cardinality(UpTo(R(c[i]), Of(c[i]), i))
           slots == UNION {{x} \X (1 .. counts[x]) : x \in X}
           f == [i \in D |-> <<c[i], rank(i)>>]
<1>a. \A x \in X : Class(c, x) = Of(x)
  BY DEF Class
<1>b. /\ D \in SUBSET Nat /\ IsFiniteSet(D)
      /\ \A i \in D : c[i] \in X
      /\ \A x \in X : counts[x] = Cardinality(Class(c, x))
  BY DEF Counting
<1> HIDE DEF D, X
<1>1. ASSUME NEW x \in X
      PROVE  /\ counts[x] \in Nat
             /\ \A i \in Of(x) : rank(i) \in 1 .. counts[x]
             /\ \A i, j \in Of(x) : rank(i) = rank(j) => i = j
             /\ \A n \in 1 .. counts[x] : \E i \in Of(x) : rank(i) = n
  <2>1. Of(x) \in SUBSET D /\ Of(x) \in SUBSET Nat /\ counts[x] = Cardinality(Of(x))
    BY <1>a, <1>b
  <2>2. \A i \in Of(x) : rank(i) = Cardinality(UpTo(R(x), Of(x), i))
    OBVIOUS
  <2> HIDE DEF Of, rank
  <2>3. IsFiniteSet(Of(x)) /\ Orders(R(x), Of(x))
    BY <1>b, <2>1, FS_Subset, BelowOrders
  <2> HIDE DEF R
  <2>4. /\ Cardinality(Of(x)) \in Nat
        /\ \A i \in Of(x) : Cardinality(UpTo(R(x), Of(x), i)) \in 1 .. Cardinality(Of(x))
        /\ \A i, j \in Of(x) :
              Cardinality(UpTo(R(x), Of(x), i)) = Cardinality(UpTo(R(x), Of(x), j)) => i = j
        /\ \A n \in 1 .. Cardinality(Of(x)) :
              \E i \in Of(x) : Cardinality(UpTo(R(x), Of(x), i)) = n
    BY <2>3, UpToPlaces
  <2> QED BY <2>1, <2>2, <2>4
<1> HIDE DEF rank
<1>2. \A i \in D : c[i] \in X /\ i \in Of(c[i])
  BY <1>b
<1>3. \A x, n : <<x, n>> \in slots <=> x \in X /\ n \in 1 .. counts[x]
  OBVIOUS
<1>4. \A s \in slots : \E x \in X : \E n \in 1 .. counts[x] : s = <<x, n>>
  OBVIOUS
<1>5. SumOf(counts) = Cardinality(slots)
  BY DEF SumOf, X
<1> HIDE DEF slots
<1>6. \A i \in D : f[i] \in slots
  BY <1>1, <1>2, <1>3
<1>7. ASSUME NEW i \in D, NEW j \in D, f[i] = f[j] PROVE i = j
  <2>1. c[i] = c[j] /\ rank(i) = rank(j)
    BY <1>7
  <2>2. j \in Of(c[i])
    BY <2>1
  <2> HIDE DEF Of
  <2> QED BY <1>1, <1>2, <2>1, <2>2
<1>8. ASSUME NEW s \in slots PROVE \E i \in D : f[i] = s
  <2>a. PICK x \in X : \E n \in 1 .. counts[x] : s = <<x, n>>
    BY <1>4
  <2>1. PICK n \in 1 .. counts[x] : s = <<x, n>>
    BY <2>a
  <2>2. PICK i \in Of(x) : rank(i) = n
    BY <1>1
  <2>3. i \in D /\ c[i] = x
    OBVIOUS
  <2> QED BY <2>1, <2>2, <2>3
<1>9. f \in [D -> slots]
  BY <1>6
<1> HIDE DEF f
<1>10. f \in Bijection(D, slots)
  BY <1>7, <1>8, <1>9 DEF Bijection, Injection, Surjection, IsInjective
<1> QED BY <1>b, <1>5, <1>10, FS_Bijection DEF ExistsBijection, D

WithRule(list, r) == {i \in DOMAIN list : list[i].rule = r}
WithSeverity(list, s) == {i \in DOMAIN list : list[i].severity = s}

LEMMA RowsAre ==
    ASSUME NEW list \in Seq(AnyFinding), NEW x
    PROVE  /\ RowsFor(list, x) = At(list, WithRule(list, x))
           /\ Len(RowsFor(list, x)) = Cardinality(WithRule(list, x))
           /\ RowsAt(list, x) = At(list, WithSeverity(list, x))
           /\ Len(RowsAt(list, x)) = Cardinality(WithSeverity(list, x))
<1>1. WithRule(list, x) \in SUBSET DOMAIN list /\ RowsFor(list, x) = At(list, WithRule(list, x))
  BY DEF RowsFor, WithRule
<1>2. WithSeverity(list, x) \in SUBSET DOMAIN list
      /\ RowsAt(list, x) = At(list, WithSeverity(list, x))
  BY DEF RowsAt, WithSeverity
<1> QED BY <1>1, <1>2, AtIs

LEMMA SeverityCountsAddUp ==
    ASSUME NEW list \in Seq(AnyFinding)
    PROVE  SumOf(Summary(list).severity_counts) = Len(list)
<1> DEFINE D == DOMAIN list
           X == SeveritiesIn(list)
           c == [i \in D |-> list[i].severity]
           counts == [s \in X |-> Len(RowsAt(list, s))]
<1>1. D \in SUBSET Nat /\ IsFiniteSet(D) /\ Cardinality(D) = Len(list)
  BY DomainIs
<1>2. Summary(list).severity_counts = counts
  BY DEF Summary
<1>3. c \in [D -> X]
  BY DEF SeveritiesIn
<1>4. ASSUME NEW s \in X PROVE counts[s] = Cardinality(Class(c, s))
  <2>1. Class(c, s) = WithSeverity(list, s)
    BY DEF Class, WithSeverity
  <2>2. counts[s] = Len(RowsAt(list, s))
    OBVIOUS
  <2> QED BY <2>1, <2>2, RowsAre
<1>5. DOMAIN counts = X
  OBVIOUS
<1>7. DOMAIN c = D
  OBVIOUS
<1> HIDE DEF D, X, c, counts
<1>8. Counting(c, counts)
  BY <1>1, <1>3, <1>4, <1>5, <1>7 DEF Counting
<1>6. SumOf(counts) = Cardinality(D)
  BY <1>7, <1>8, CountsAddUp
<1> QED BY <1>1, <1>2, <1>6

LEMMA RuleCountsAddUp ==
    ASSUME NEW list \in Seq(AnyFinding), NEW metadata \in Seq(Rule),
           \A i, k \in DOMAIN metadata : metadata[i] = metadata[k] => i = k,
           RulesIn(list) \subseteq ToSet(metadata)
    PROVE  SumOf(HtmlRuleCounts(metadata, list)) = Len(list)
<1> DEFINE D == DOMAIN list
           X == DOMAIN metadata
           c == [i \in D |-> CHOOSE x \in X : metadata[x] = list[i].rule]
           counts == HtmlRuleCounts(metadata, list)
<1>1. D \in SUBSET Nat /\ IsFiniteSet(D) /\ Cardinality(D) = Len(list)
  BY DomainIs
<1>2. ASSUME NEW i \in D PROVE \E x \in X : metadata[x] = list[i].rule
  BY <1>2 DEF RulesIn, ToSet
<1>3. \A i \in D : c[i] \in X /\ metadata[c[i]] = list[i].rule
  BY <1>2
<1>4. c \in [D -> X]
  BY <1>3
<1>5. ASSUME NEW x \in X PROVE counts[x] = Cardinality(Class(c, x))
  <2>1. counts[x] = Len(RowsFor(list, metadata[x]))
    BY DEF HtmlRuleCounts
  <2>2. \A i \in D : c[i] = x <=> list[i].rule = metadata[x]
    BY <1>3
  <2>4. DOMAIN c = D
    OBVIOUS
  <2> HIDE DEF c, counts
  <2>3. Class(c, x) = WithRule(list, metadata[x])
    BY <2>2, <2>4 DEF Class, WithRule
  <2> QED BY <2>1, <2>3, RowsAre
<1>6. DOMAIN counts = X
  BY DEF HtmlRuleCounts
<1>8. DOMAIN c = D
  OBVIOUS
<1> HIDE DEF D, X, c, counts
<1>9. Counting(c, counts)
  BY <1>1, <1>4, <1>5, <1>6, <1>8 DEF Counting
<1>7. SumOf(counts) = Cardinality(D)
  BY <1>8, <1>9, CountsAddUp
<1> QED BY <1>1, <1>7 DEF counts

LEMMA AgreeImplied == ReportsInv => FormatsAgree
<1> SUFFICES ASSUME ReportsInv PROVE FormatsAgree
  OBVIOUS
<1> DEFINE list == scan.findings
<1>1. /\ list \in Seq(AnyFinding) /\ scan.metadata \in Seq(Rule)
      /\ \A i, k \in DOMAIN scan.metadata : scan.metadata[i] = scan.metadata[k] => i = k
      /\ RulesIn(list) \subseteq ToSet(scan.metadata)
  BY ScannedTells DEF ReportsInv, Telling
<1>2. EnabledRules \in Seq(Rule)
  BY EnabledIs DEF ReportsInv
<1>3. ASSUME NEW metadata \in {scan.metadata, EnabledRules}
      PROVE  LET sarif == Sarif(metadata, list)
             IN  /\ ToSet(metadata) \cup RulesIn(list) = ToSet(sarif.rules)
                 /\ IsInjective(sarif.rules)
                 /\ \A i \in DOMAIN sarif.results :
                       sarif.rules[sarif.results[i].ruleIndex + 1] = sarif.results[i].ruleId
  <2>1. metadata \in Seq(Rule)
    BY <1>1, <1>2
  <2> HIDE DEF list
  <2> QED BY <1>1, <2>1, SarifAgrees
<1>4. SumOf(Summary(list).severity_counts) = Len(list)
  BY <1>1, SeverityCountsAddUp
<1>5. SumOf(HtmlRuleCounts(scan.metadata, list)) = Len(list)
  BY <1>1, RuleCountsAddUp
<1> QED BY <1>3, <1>4, <1>5 DEF FormatsAgree

(***************************************************************************)
(* Whatever was registered, switched and graded, before a scan or after    *)
(* it: a SARIF result points at its own rule, every rule is listed once,   *)
(* the summary's counts add up to the findings, and so do the rows of the  *)
(* HTML report's table of rules (build_sarif, build_summary,               *)
(* render_html_report).                                                    *)
(***************************************************************************)
THEOREM ReportsAgree == Spec => []FormatsAgree
<1>1. Init => ReportsInv
  BY ReportsKept
<1>2. ReportsInv /\ [Next]_vars => ReportsInv'
  BY ReportsKept
<1>3. ReportsInv => FormatsAgree
  BY AgreeImplied
<1> QED
  BY <1>1, <1>2, <1>3, PTL DEF Spec

-----------------------------------------------------------------------------
\* The fingerprints of a scan, by its data and its enabled rules.
HashOf(r, issue) == Digest[<<r, issue.entity, issue.key>>]
PrintsBy(s, r) == {HashOf(r, issue) : issue \in ToSet(s.data[r])}
Prints(s, R) == UNION {PrintsBy(s, r) : r \in R}

LEMMA PrintsHas ==
    ASSUME NEW s, NEW R, NEW x
    PROVE  x \in Prints(s, R) <=> \E r \in R : \E issue \in ToSet(s.data[r]) : x = HashOf(r, issue)
<1>1. x \in Prints(s, R) <=> \E r \in R : x \in PrintsBy(s, r)
  BY DEF Prints
<1>2. \A r : x \in PrintsBy(s, r) <=> \E issue \in ToSet(s.data[r]) : x = HashOf(r, issue)
  BY DEF PrintsBy
<1> QED BY <1>1, <1>2

LEMMA PrintsAre ==
    ASSUME NEW s, Done(s), NEW R
    PROVE  {f.fingerprint : f \in {g \in ToSet(s.findings) : g.rule \in R}}
             = Prints(s, On(s.settings) \cap R)
<1> DEFINE of == {f.fingerprint : f \in {g \in ToSet(s.findings) : g.rule \in R}}
<1>1. PICK o : TellsAt(s, o)
  BY FindingsAre
<1>2. /\ ToSet(s.metadata) = On(s.settings) /\ s.metadata \in Seq(Rule) /\ s.data \in Data
  BY DEF Done
<1>3. ASSUME NEW x \in of PROVE x \in Prints(s, On(s.settings) \cap R)
  <2>1. PICK f \in ToSet(s.findings) : f.rule \in R /\ x = f.fingerprint
    OBVIOUS
  <2>2. PICK p \in Places(s) : \E t \in Nat : f = Told(s, p, t)
    BY <1>1 DEF TellsAt, ToSet
  <2>3. /\ RuleAt(s, p) \in On(s.settings) \cap R
        /\ IssueAt(s, p) \in ToSet(s.data[RuleAt(s, p)])
        /\ x = HashOf(RuleAt(s, p), IssueAt(s, p))
    BY <2>1, <2>2, ToldIs DEF HashOf
  <2> QED BY <2>3, PrintsHas
<1>4. ASSUME NEW x \in Prints(s, On(s.settings) \cap R) PROVE x \in of
  <2>1. PICK r \in On(s.settings) \cap R : \E issue \in ToSet(s.data[r]) : x = HashOf(r, issue)
    BY PrintsHas
  <2>2. PICK issue \in ToSet(s.data[r]) : x = HashOf(r, issue)
    BY <2>1
  <2>3. PICK i \in DOMAIN s.metadata : s.metadata[i] = r
    BY <1>2 DEF ToSet
  <2>4. PICK k \in DOMAIN s.data[r] : s.data[r][k] = issue
    BY DEF ToSet
  <2>5. <<i, k>> \in Places(s) /\ RuleAt(s, <<i, k>>) = r /\ IssueAt(s, <<i, k>>) = issue
    BY <1>2, <2>3, <2>4, PlacesFinite DEF Places, RuleAt, IssueAt
  <2>6. \A t \in Nat : Told(s, <<i, k>>, t).rule = r /\ Told(s, <<i, k>>, t).fingerprint = x
    BY <2>2, <2>5, ToldIs DEF HashOf
  <2>7. PICK n \in DOMAIN s.findings : \E t \in Nat : s.findings[n] = Told(s, <<i, k>>, t)
    BY <1>1, <2>5 DEF TellsAt
  <2>8. s.findings[n] \in ToSet(s.findings) /\ s.findings[n].rule \in R
        /\ s.findings[n].fingerprint = x
    BY <2>6, <2>7 DEF ToSet
  <2> QED BY <2>8
<1> QED BY <1>3, <1>4

LEMMA AllPrints ==
    ASSUME NEW s, Done(s)
    PROVE  FingerprintsIn(s.findings) = Prints(s, On(s.settings))
<1> DEFINE R == On(s.settings)
<1>1. {f.fingerprint : f \in {g \in ToSet(s.findings) : g.rule \in R}} = Prints(s, R \cap R)
  <2> HIDE DEF R
  <2>1. {f.fingerprint : f \in {g \in ToSet(s.findings) : g.rule \in R}}
          = Prints(s, On(s.settings) \cap R)
    BY PrintsAre
  <2> QED BY <2>1 DEF R
<1>2. PICK o : TellsAt(s, o)
  BY FindingsAre
<1>3. ASSUME NEW g \in ToSet(s.findings) PROVE g.rule \in R
  <2>1. PICK p \in Places(s) : \E t \in Nat : g = Told(s, p, t)
    BY <1>2 DEF TellsAt, ToSet
  <2> QED BY <2>1, ToldIs
<1>4. FingerprintsIn(s.findings) = {f.fingerprint : f \in ToSet(s.findings)}
  BY DEF FingerprintsIn, ToSet
<1>5. {g \in ToSet(s.findings) : g.rule \in R} = ToSet(s.findings) /\ R \cap R = R
  BY <1>3
<1> QED BY <1>1, <1>4, <1>5

\* The same contents give the same fingerprints.
LEMMA SameBags ==
    ASSUME SameData, NEW r \in Rule
    PROVE  ToSet(Contents(earlier.data[r])) = ToSet(Contents(scan.data[r]))
<1>1. ToBag(Contents(earlier.data[r])) = ToBag(Contents(scan.data[r]))
  BY DEF SameData
<1>2. \A s : DOMAIN ToBag(s) = ToSet(s)
  BY DEF ToBag, ToSet, Range
<1> QED BY <1>1, <1>2

LEMMA ContentFound ==
    ASSUME NEW a, NEW b, ToSet(Contents(a)) = ToSet(Contents(b)), NEW x \in ToSet(a)
    PROVE  \E k \in DOMAIN b : Content(b[k]) = Content(x)
<1>1. DOMAIN Contents(b) = DOMAIN b /\ \A k \in DOMAIN b : Contents(b)[k] = Content(b[k])
  BY DEF Contents
<1>2. Content(x) \in ToSet(Contents(a))
  BY DEF ToSet, Contents
<1>3. PICK k \in DOMAIN Contents(b) : Contents(b)[k] = Content(x)
  BY <1>2 DEF ToSet
<1> QED BY <1>1, <1>3

LEMMA ContentTells ==
    ASSUME NEW x, NEW y, Content(x) = Content(y)
    PROVE  /\ x.entity = y.entity /\ x.key = y.key
           /\ Unnumbered(x.evidence) = Unnumbered(y.evidence)
BY DEF Content

LEMMA BothDone ==
    ASSUME ReportsInv, SameData
    PROVE  Done(scan) /\ Done(earlier)
<1>1. scan # NoScan /\ earlier # NoScan
  BY DEF SameData, NoScan
<1> QED BY <1>1 DEF ReportsInv, Scanned

\* What one scan has that the other has not.
LEMMA PrintsApart ==
    ASSUME NEW a, Done(a), NEW b, Done(b),
           \A r \in Rule : ToSet(Contents(a.data[r])) = ToSet(Contents(b.data[r]))
    PROVE  Prints(a, On(a.settings)) \ Prints(b, On(b.settings))
             = Prints(a, On(a.settings) \cap (Rule \ On(b.settings)))
<1> DEFINE A == On(a.settings)
           B == On(b.settings)
<1>1. A \subseteq Rule /\ B \subseteq Rule
  BY DEF Done, On
<1>2. ASSUME NEW s, Done(s), NEW r \in Rule, NEW issue \in ToSet(s.data[r])
      PROVE  issue \in Issues(r) /\ <<r, issue.entity, issue.key>> \in DOMAIN Digest
  <2>1. s.data[r] \in Seq(Issues(r))
    BY <1>2, DigestAssumption DEF Done
  <2>2. issue \in Issues(r)
    BY <1>2, <2>1 DEF ToSet
  <2> QED BY <1>2, <2>2, DigestAssumption
<1>3. ASSUME NEW s, NEW R, NEW x
      PROVE  x \in Prints(s, R)
               <=> \E r \in R : \E issue \in ToSet(s.data[r]) : x = HashOf(r, issue)
  BY PrintsHas
<1> HIDE DEF A, B
<1>4. ASSUME NEW x \in Prints(a, A), x \notin Prints(b, B)
      PROVE  x \in Prints(a, A \cap (Rule \ B))
  <2>1. PICK r \in A : \E issue \in ToSet(a.data[r]) : x = HashOf(r, issue)
    BY <1>3
  <2>2. r \notin B
    <3>1. PICK issue \in ToSet(a.data[r]) : x = HashOf(r, issue)
      BY <2>1
    <3>2. PICK k \in DOMAIN b.data[r] : Content(b.data[r][k]) = Content(issue)
      BY <1>1, <2>1, ContentFound
    <3>3. b.data[r][k] \in ToSet(b.data[r]) /\ x = HashOf(r, b.data[r][k])
      BY <3>1, <3>2, ContentTells DEF HashOf, ToSet
    <3> QED BY <1>3, <1>4, <3>3
  <2> QED BY <1>1, <1>3, <2>1, <2>2
<1>5. ASSUME NEW x \in Prints(a, A \cap (Rule \ B))
      PROVE  x \in Prints(a, A) /\ x \notin Prints(b, B)
  <2>1. PICK r \in A \cap (Rule \ B) : \E issue \in ToSet(a.data[r]) : x = HashOf(r, issue)
    BY <1>3
  <2>2. PICK issue \in ToSet(a.data[r]) : x = HashOf(r, issue)
    BY <2>1
  <2>3. <<r, issue.entity, issue.key>> \in DOMAIN Digest
    BY <1>2, <2>1
  <2>4. x \in Prints(a, A)
    BY <1>3, <2>1
  <2>5. ASSUME x \in Prints(b, B) PROVE FALSE
    <3>1. PICK t \in B : \E other \in ToSet(b.data[t]) : x = HashOf(t, other)
      BY <1>3, <2>5
    <3>2. PICK other \in ToSet(b.data[t]) : x = HashOf(t, other)
      BY <3>1
    <3>3. <<t, other.entity, other.key>> \in DOMAIN Digest
      BY <1>1, <1>2, <3>1
    <3>4. <<r, issue.entity, issue.key>> = <<t, other.entity, other.key>>
      BY <2>2, <2>3, <3>2, <3>3, DigestAssumption DEF HashOf
    <3> QED BY <2>1, <3>1, <3>4
  <2> QED BY <2>4, <2>5
<1> QED BY <1>4, <1>5 DEF A, B

LEMMA SwitchesImplied == ReportsInv => BaselineSeesSwitches
<1> SUFFICES ASSUME ReportsInv, SameData PROVE BaselineSeesSwitches
  BY DEF BaselineSeesSwitches
<1>1. Done(scan) /\ Done(earlier)
  BY BothDone
<1>2. \A r \in Rule : ToSet(Contents(earlier.data[r])) = ToSet(Contents(scan.data[r]))
  BY SameBags
<1>3. /\ FingerprintsIn(scan.findings) = Prints(scan, On(scan.settings))
      /\ FingerprintsIn(earlier.findings) = Prints(earlier, On(earlier.settings))
  BY <1>1, AllPrints
<1>4. {f.fingerprint :
         f \in {g \in ToSet(scan.findings) : g.rule \in Rule \ On(earlier.settings)}}
        = Prints(scan, On(scan.settings) \cap (Rule \ On(earlier.settings)))
  BY <1>1, PrintsAre
<1>5. {f.fingerprint :
         f \in {g \in ToSet(earlier.findings) : g.rule \in Rule \ On(scan.settings)}}
        = Prints(earlier, On(earlier.settings) \cap (Rule \ On(scan.settings)))
  BY <1>1, PrintsAre
<1>6. /\ Prints(scan, On(scan.settings)) \ Prints(earlier, On(earlier.settings))
           = Prints(scan, On(scan.settings) \cap (Rule \ On(earlier.settings)))
      /\ Prints(earlier, On(earlier.settings)) \ Prints(scan, On(scan.settings))
           = Prints(earlier, On(earlier.settings) \cap (Rule \ On(scan.settings)))
  BY <1>1, <1>2, PrintsApart
<1> QED BY <1>3, <1>4, <1>5, <1>6 DEF BaselineSeesSwitches

(***************************************************************************)
(* Between two scans of the same data a baseline sees the switches and     *)
(* nothing else, as no two rules, entities and keys share a hash: grading  *)
(* a rule anew makes no finding new and resolves none                      *)
(* (compute_fingerprint, classify).                                        *)
(***************************************************************************)
THEOREM BaselineSeesOnlySwitches == Spec => []BaselineSeesSwitches
<1>1. Init => ReportsInv
  BY ReportsKept
<1>2. ReportsInv /\ [Next]_vars => ReportsInv'
  BY ReportsKept
<1>3. ReportsInv => BaselineSeesSwitches
  BY SwitchesImplied
<1> QED
  BY <1>1, <1>2, <1>3, PTL DEF Spec

-----------------------------------------------------------------------------
\* The viewer: what a filter shows, and in which order.
LEMMA SortNothing ==
    ASSUME NEW T, NEW list \in Seq(T), NEW B,
           \A f, g \in ToSet(list) : <<f, g>> \notin B
    PROVE  StableSort(list, B) = list
<1> DEFINE D == DOMAIN list
           i == [n \in D |-> n]
           R == Stably(list, B)
<1>1. /\ D = 1 .. Len(list) /\ Len(list) \in Nat /\ list = [n \in D |-> list[n]]
      /\ IsFiniteSet(D)
  BY DomainIs
<1>2. Weak(B, ToSet(list))
  BY DEF Weak
<1>3. Orders(R, D)
  BY <1>2, StablyOrders
<1>4. i \in Seq(D)
  <2>1. i \in [1 .. Len(list) -> D]
    BY <1>1
  <2> HIDE DEF D, i
  <2> QED BY <1>1, <2>1, SeqDef
<1>5. ASSUME NEW m \in D, NEW n \in D, m < n PROVE <<m, n>> \in R
  <2>1. list[m] \in ToSet(list) /\ list[n] \in ToSet(list)
    BY DEF ToSet
  <2> QED BY <1>5, <2>1, StablyHas
<1>6. Lists(i, D, R)
  BY <1>4, <1>5 DEF Lists
<1>7. i = Listing(D, R)
  <2> HIDE DEF i, D, R
  <2> QED BY <1>1, <1>3, <1>6, ListingIsOnly
<1> QED BY <1>1, <1>7 DEF StableSort

\* render order of the viewer: by severity, then by rule.
Viewed(list) ==
    {p \in PairsOf(list) :
        \/ BySeverity(p[1], p[2])
        \/ p[1].severity = p[2].severity /\ p[1].rule < p[2].rule}

LEMMA SeverityRanks ==
    \A s, t \in Severity :
        /\ SEVERITY_ORDER[s] \in Nat
        /\ SEVERITY_ORDER[s] = SEVERITY_ORDER[t] => s = t
BY DEF Severity, SEVERITY_ORDER

LEMMA ViewedHas ==
    ASSUME NEW list, NEW f \in ToSet(list), NEW g \in ToSet(list)
    PROVE  <<f, g>> \in Viewed(list) <=>
              \/ SEVERITY_ORDER[f.severity] < SEVERITY_ORDER[g.severity]
              \/ f.severity = g.severity /\ f.rule < g.rule
BY DEF Viewed, PairsOf, BySeverity

LEMMA ViewedWeak ==
    ASSUME NEW list \in Seq(AnyFinding)
    PROVE  Weak(Viewed(list), ToSet(list))
<1> DEFINE S == ToSet(list)
           rank(f) == SEVERITY_ORDER[f.severity]
<1>1. ASSUME NEW f \in S, NEW g \in S
      PROVE  /\ rank(f) \in Nat /\ f.rule \in Nat
             /\ rank(f) = rank(g) <=> f.severity = g.severity
             /\ <<f, g>> \in Viewed(list) <=>
                   rank(f) < rank(g) \/ (rank(f) = rank(g) /\ f.rule < g.rule)
  <2>1. f \in AnyFinding /\ g \in AnyFinding
    BY DEF ToSet
  <2>2. f.severity \in Severity /\ g.severity \in Severity /\ f.rule \in Nat
    BY <2>1, AnyFindingIs
  <2>3. rank(f) \in Nat /\ (rank(f) = rank(g) <=> f.severity = g.severity)
    BY <2>2, SeverityRanks
  <2> QED BY <2>2, <2>3, ViewedHas
<1> HIDE DEF rank, S
<1>5. \A f \in S : rank(f) \in Nat /\ f.rule \in Nat
  BY <1>1
<1>2. ASSUME NEW f \in S PROVE <<f, f>> \notin Viewed(list)
  <2>1. ~(rank(f) < rank(f)) /\ ~(f.rule < f.rule)
    BY <1>5
  <2> QED BY <1>1, <2>1
<1>3. ASSUME NEW f \in S, NEW g \in S, NEW h \in S,
             <<f, g>> \in Viewed(list), <<g, h>> \in Viewed(list)
      PROVE  <<f, h>> \in Viewed(list)
  <2>1. /\ rank(f) < rank(g) \/ (rank(f) = rank(g) /\ f.rule < g.rule)
        /\ rank(g) < rank(h) \/ (rank(g) = rank(h) /\ g.rule < h.rule)
    BY <1>1, <1>3
  <2>2. rank(f) < rank(h) \/ (rank(f) = rank(h) /\ f.rule < h.rule)
    BY <1>5, <2>1
  <2> QED BY <1>1, <2>2
<1>4. ASSUME NEW f \in S, NEW g \in S, NEW h \in S, <<f, h>> \in Viewed(list)
      PROVE  <<f, g>> \in Viewed(list) \/ <<g, h>> \in Viewed(list)
  <2>1. rank(f) < rank(h) \/ (rank(f) = rank(h) /\ f.rule < h.rule)
    BY <1>1, <1>4
  <2>2. \/ rank(f) < rank(g) \/ (rank(f) = rank(g) /\ f.rule < g.rule)
        \/ rank(g) < rank(h) \/ (rank(g) = rank(h) /\ g.rule < h.rule)
    BY <1>5, <2>1
  <2> QED BY <1>1, <2>2
<1> QED BY <1>2, <1>3, <1>4 DEF Weak, S

Matching(list, severity, rule) == {i \in DOMAIN list : Matches(list[i], severity, rule)}
Shown(list, severity, rule) == At(list, Matching(list, severity, rule))

LEMMA FilterIs ==
    ASSUME NEW list \in Seq(AnyFinding), NEW severity, NEW rule
    PROVE  LET shown == Shown(list, severity, rule)
               filtered == FilterFindings(list, severity, rule)
           IN  /\ Matching(list, severity, rule) \in SUBSET DOMAIN list
               /\ shown \in Seq(AnyFinding)
               /\ ToSet(shown) = Among(list, Matching(list, severity, rule))
               /\ filtered = StableSort(shown, Viewed(shown))
               /\ filtered \in Seq(AnyFinding)
               /\ Len(filtered) = Cardinality(Matching(list, severity, rule))
               /\ ToSet(filtered) = ToSet(shown)
<1> DEFINE P == Matching(list, severity, rule)
           shown == Shown(list, severity, rule)
           filtered == FilterFindings(list, severity, rule)
<1>1. P \in SUBSET DOMAIN list
  BY DEF Matching
<1>2. shown = At(list, P)
  BY DEF Shown
<1>3. filtered = StableSort(shown, Viewed(shown))
  BY DEF FilterFindings, Shown, Matching, Viewed
<1> HIDE DEF P, shown, filtered
<1>4. shown \in Seq(AnyFinding) /\ Len(shown) = Cardinality(P) /\ ToSet(shown) = Among(list, P)
  BY <1>1, <1>2, AtIs
<1>5. Weak(Viewed(shown), ToSet(shown))
  BY <1>4, ViewedWeak
<1>6. filtered \in Seq(AnyFinding) /\ Len(filtered) = Len(shown) /\ ToSet(filtered) = ToSet(shown)
  BY <1>3, <1>4, <1>5, SortIs
<1> QED BY <1>1, <1>3, <1>4, <1>6 DEF P, shown, filtered

LEMMA Unfiltered ==
    ASSUME NEW list \in Seq(AnyFinding)
    PROVE  FilterFindings(list, None, None) = StableSort(list, Viewed(list))
<1>1. Matching(list, None, None) = DOMAIN list
  BY DEF Matching, Matches
<1>2. Shown(list, None, None) = list
  BY <1>1, AtAll DEF Shown
<1> QED BY <1>2, FilterIs

LEMMA Opens ==
    ASSUME NEW list, Telling(list), NEW f \in ToSet(list)
    PROVE  LET opened == GetFinding(list, f.fingerprint)
           IN  <<opened.rule, opened.entity, opened.severity>> = <<f.rule, f.entity, f.severity>>
<1> DEFINE found == {i \in DOMAIN list : list[i].fingerprint = f.fingerprint}
<1>1. list \in Seq(AnyFinding)
  BY DEF Telling
<1>2. found # {}
  BY DEF ToSet
<1>3. GetFinding(list, f.fingerprint) = list[Min(found)]
  BY <1>2 DEF GetFinding
<1>4. IsFiniteSet(found) /\ found \in SUBSET Nat
  <2>1. found \in SUBSET DOMAIN list
    OBVIOUS
  <2> HIDE DEF found
  <2> QED BY <1>1, <2>1, DomainIs
<1>5. Min(found) \in found
  <2> HIDE DEF found
  <2>1. \E m \in found : \A k \in found : m <= k
    BY <1>2, <1>4, Least
  <2> QED BY <2>1 DEF Min
<1>6. list[Min(found)] \in ToSet(list) /\ list[Min(found)].fingerprint = f.fingerprint
  BY <1>5 DEF ToSet
<1> QED BY <1>3, <1>6 DEF Telling

\* The rows common to two filters stand in the order of the whole list.
LEMMA BothFilters ==
    ASSUME NEW list \in Seq(AnyFinding), NEW s \in Severity, NEW r \in Rule
    PROVE  FilterFindings(list, s, r) = RowsFor(RowsAt(FilterFindings(list, None, None), s), r)
<1> DEFINE D == DOMAIN list
           P == Matching(list, s, r)
           shown == Shown(list, s, r)
           all == FilterFindings(list, None, None)
           PA == WithSeverity(all, s)
           graded == RowsAt(all, s)
           PB == WithRule(graded, r)
           R == Stably(list, Viewed(list))
<1>1. \A i \in D : i \in P <=> list[i].severity = s /\ list[i].rule = r
  BY RegistryAssumption, DigestAssumption DEF Matching, Matches, Severity
<1>2. D \subseteq Nat /\ P \in SUBSET D /\ shown \in Seq(AnyFinding)
      /\ ToSet(shown) = Among(list, P)
  BY FilterIs, DomainIs
<1>3. FilterFindings(list, s, r) = At(list, P)
  <2>1. \A f \in ToSet(shown) : f \in AnyFinding /\ f.severity = s /\ f.rule = r
    <3>1. \A f \in ToSet(shown) : \E i \in P : f = list[i]
      BY <1>2 DEF Among
    <3>2. \A i \in P : list[i] \in AnyFinding
      BY <1>2
    <3> HIDE DEF P, shown
    <3> QED BY <1>1, <1>2, <3>1, <3>2
  <2>2. ~(SEVERITY_ORDER[s] < SEVERITY_ORDER[s]) /\ ~(r < r)
    BY SeverityRanks, RegistryAssumption
  <2>3. \A f, g \in ToSet(shown) : <<f, g>> \notin Viewed(shown)
    BY <2>1, <2>2, ViewedHas
  <2>4. StableSort(shown, Viewed(shown)) = shown
    BY <1>2, <2>3, SortNothing
  <2> QED BY <2>4, FilterIs DEF Shown
<1>4. /\ all = StableSort(list, Viewed(list))
      /\ all \in Seq(AnyFinding)
  BY Unfiltered, FilterIs
<1>5. Weak(Viewed(list), ToSet(list))
  BY ViewedWeak
<1>6. PICK o : Lists(o, D, R) /\ all = Read(list, o)
  BY <1>4, <1>5, SortIs
<1>7. /\ graded = At(all, PA) /\ graded \in Seq(AnyFinding)
      /\ \E a : Rises(a, PA) /\ At(all, PA) = Read(all, a)
  <2>1. PA \in SUBSET DOMAIN all
    BY DEF WithSeverity
  <2> QED BY <1>4, <2>1, AtIs, RowsAre
<1>8. PICK a : Rises(a, PA) /\ graded = Read(all, a)
  BY <1>7
<1>9. /\ RowsFor(graded, r) = At(graded, PB)
      /\ \E b : Rises(b, PB) /\ At(graded, PB) = Read(graded, b)
  <2>1. PB \in SUBSET DOMAIN graded
    BY DEF WithRule
  <2> QED BY <1>7, <2>1, AtIs, RowsAre
<1>10. PICK b : Rises(b, PB) /\ RowsFor(graded, r) = Read(graded, b)
  BY <1>9
<1> DEFINE g == [n \in DOMAIN b |-> o[a[b[n]]]]
<1>11. /\ DOMAIN all = DOMAIN o /\ \A n \in DOMAIN o : o[n] \in D /\ all[n] = list[o[n]]
       /\ \A i \in D : \E n \in DOMAIN o : o[n] = i
       /\ \A m, n \in DOMAIN o : m < n => <<o[m], o[n]>> \in R
       /\ DOMAIN o \subseteq Nat
  BY <1>6 DEF Read, Lists
<1>12. /\ DOMAIN graded = DOMAIN a
       /\ \A n \in DOMAIN a : a[n] \in PA /\ graded[n] = all[a[n]]
       /\ \A i \in PA : \E n \in DOMAIN a : a[n] = i
       /\ \A m, n \in DOMAIN a : m < n => a[m] < a[n]
       /\ DOMAIN a \subseteq Nat
  BY <1>8 DEF Read, Rises
<1>13. /\ \A n \in DOMAIN b : b[n] \in PB
       /\ \A i \in PB : \E n \in DOMAIN b : b[n] = i
       /\ \A m, n \in DOMAIN b : m < n => b[m] < b[n]
       /\ DOMAIN b = 1 .. Len(b) /\ Len(b) \in Nat
  BY <1>10 DEF Rises
<1>14. /\ \A n : n \in PA <=> n \in DOMAIN all /\ all[n].severity = s
       /\ \A n : n \in PB <=> n \in DOMAIN graded /\ graded[n].rule = r
  BY DEF WithSeverity, WithRule
<1> HIDE DEF D, P, shown, all, PA, graded, PB, R
<1>15. ASSUME NEW n \in DOMAIN b
       PROVE  /\ b[n] \in DOMAIN a /\ a[b[n]] \in DOMAIN o /\ o[a[b[n]]] \in P
              /\ graded[b[n]] = list[o[a[b[n]]]]
  <2>1. b[n] \in DOMAIN a /\ graded[b[n]].rule = r
    BY <1>12, <1>13, <1>14
  <2>2. a[b[n]] \in DOMAIN o /\ all[a[b[n]]].severity = s /\ graded[b[n]] = all[a[b[n]]]
    BY <1>11, <1>12, <1>14, <2>1
  <2>3. o[a[b[n]]] \in D /\ all[a[b[n]]] = list[o[a[b[n]]]]
    BY <1>11, <2>2
  <2> QED BY <1>1, <2>1, <2>2, <2>3
<1>16. ASSUME NEW i \in P PROVE \E n \in DOMAIN b : o[a[b[n]]] = i
  <2>1. i \in D /\ list[i].severity = s /\ list[i].rule = r
    BY <1>1, <1>2
  <2>2. PICK k \in DOMAIN o : o[k] = i
    BY <1>11, <2>1
  <2>3. k \in PA
    BY <1>11, <1>14, <2>1, <2>2
  <2>4. PICK j \in DOMAIN a : a[j] = k
    BY <1>12, <2>3
  <2>5. j \in PB
    BY <1>11, <1>12, <1>14, <2>1, <2>2, <2>4
  <2>6. PICK n \in DOMAIN b : b[n] = j
    BY <1>13, <2>5
  <2> QED BY <2>2, <2>4, <2>6
<1>17. ASSUME NEW m \in DOMAIN b, NEW n \in DOMAIN b, m < n
       PROVE  o[a[b[m]]] < o[a[b[n]]]
  <2> DEFINE x == o[a[b[m]]]   y == o[a[b[n]]]
  <2>1. b[m] < b[n]
    BY <1>13, <1>17
  <2>2. a[b[m]] < a[b[n]]
    BY <1>12, <1>15, <2>1
  <2>3. <<x, y>> \in R
    BY <1>11, <1>15, <2>2
  <2>4. x \in P /\ y \in P
    BY <1>15
  <2> HIDE DEF x, y
  <2>5. /\ x \in D /\ y \in D /\ list[x].severity = s /\ list[y].severity = s
        /\ list[x].rule = r /\ list[y].rule = r
    BY <1>1, <1>2, <2>4
  <2>6. ~(SEVERITY_ORDER[s] < SEVERITY_ORDER[s]) /\ ~(r < r)
    BY SeverityRanks, RegistryAssumption
  <2>7. list[x] \in ToSet(list) /\ list[y] \in ToSet(list)
    BY <2>5 DEF ToSet, D
  <2>8. <<list[x], list[y]>> \notin Viewed(list)
    BY <2>5, <2>6, <2>7, ViewedHas
  <2>9. x < y
    BY <2>3, <2>5, <2>8, StablyHas DEF R, D
  <2> QED BY <2>9 DEF x, y
<1>18. Rises(g, P)
  <2>1. g \in [1 .. Len(b) -> P]
    BY <1>13, <1>15
  <2>2. g \in Seq(P)
    BY <1>13, <2>1, SeqDef
  <2> QED BY <2>2, <1>16, <1>17 DEF Rises
<1>19. At(list, P) = Read(list, g)
  <2> HIDE DEF g
  <2> QED BY <1>2, <1>18, AtIsOnly DEF D
<1>20. Read(list, g) = Read(graded, b)
  BY <1>15 DEF Read
<1> QED BY <1>3, <1>10, <1>19, <1>20 DEF graded, all

LEMMA FindsImplied == ReportsInv => ViewerFinds
<1> SUFFICES ASSUME ReportsInv PROVE ViewerFinds
  OBVIOUS
<1> DEFINE list == scan.findings
           all == FilterFindings(list, None, None)
<1>1. Telling(list) /\ list \in Seq(AnyFinding)
  BY ScannedTells DEF ReportsInv, Telling
<1>2. ToSet(all) = ToSet(list)
  <2>1. Weak(Viewed(list), ToSet(list))
    BY <1>1, ViewedWeak
  <2> QED BY <1>1, <2>1, Unfiltered, SortIs
<1>3. ASSUME NEW i \in DOMAIN all
      PROVE  LET opened == GetFinding(list, all[i].fingerprint)
             IN  <<opened.rule, opened.entity, opened.severity>>
                    = <<all[i].rule, all[i].entity, all[i].severity>>
  <2>1. all[i] \in ToSet(list)
    BY <1>2, <1>3 DEF ToSet
  <2> HIDE DEF all, list
  <2> QED BY <1>1, <2>1, Opens
<1>4. ASSUME NEW s \in SeveritiesIn(list), NEW r \in RulesIn(list)
      PROVE  /\ Len(FilterFindings(list, s, None)) = Summary(list).severity_counts[s]
             /\ Len(FilterFindings(list, None, r)) = Summary(list).findings_by_rule[r]
             /\ FilterFindings(list, s, r) = RowsFor(RowsAt(all, s), r)
  <2>1. s \in Severity /\ r \in Rule
    BY <1>1, <1>4, AnyFindingIs DEF SeveritiesIn, RulesIn
  <2>2. s # None /\ r # None
    BY <2>1, RegistryAssumption, DigestAssumption
  <2>3. Matching(list, s, None) = WithSeverity(list, s)
        /\ Matching(list, None, r) = WithRule(list, r)
    BY <2>2 DEF Matching, Matches, WithSeverity, WithRule
  <2>4. /\ Summary(list).severity_counts[s] = Len(RowsAt(list, s))
        /\ Summary(list).findings_by_rule[r] = Len(RowsFor(list, r))
    BY <1>4 DEF Summary
  <2> HIDE DEF list
  <2>5. /\ Len(FilterFindings(list, s, None)) = Cardinality(WithSeverity(list, s))
        /\ Len(FilterFindings(list, None, r)) = Cardinality(WithRule(list, r))
    BY <1>1, <2>3, FilterIs
  <2>6. FilterFindings(list, s, r) = RowsFor(RowsAt(all, s), r)
    BY <1>1, <2>1, BothFilters
  <2> QED BY <1>1, <2>4, <2>5, <2>6, RowsAre
<1> QED BY <1>3, <1>4 DEF ViewerFinds

(***************************************************************************)
(* Every row the viewer lists opens a finding of its rule, entity and      *)
(* severity; a filter shows as many rows as the summary counts; and two    *)
(* filters show the common rows in the order of the whole list, stable     *)
(* sort and all (RunView.filter_findings, get_finding).                    *)
(***************************************************************************)
THEOREM ViewerFindsAll == Spec => []ViewerFinds
<1>1. Init => ReportsInv
  BY ReportsKept
<1>2. ReportsInv /\ [Next]_vars => ReportsInv'
  BY ReportsKept
<1>3. ReportsInv => ViewerFinds
  BY FindsImplied
<1> QED
  BY <1>1, <1>2, <1>3, PTL DEF Spec

-----------------------------------------------------------------------------
\* A sort whose order tells the rows apart forgets how they came.
LEMMA SortOnly ==
    ASSUME NEW T, NEW list \in Seq(T), \A i, k \in DOMAIN list : list[i] = list[k] => i = k,
           NEW B, Orders(B, ToSet(list))
    PROVE  StableSort(list, B) = Listing(ToSet(list), B)
<1> DEFINE S == ToSet(list)
           D == DOMAIN list
           f == StableSort(list, B)
<1>1. Weak(B, S)
  BY DEF Weak, Orders
<1>2. /\ IsFiniteSet(D) /\ list \in [D -> S] /\ \A x \in S : \E i \in D : list[i] = x
      /\ list \in Seq(S)
  <2>1. list \in [D -> S] /\ \A x \in S : \E i \in D : list[i] = x
    BY DEF ToSet
  <2>2. IsFiniteSet(D) /\ D = 1 .. Len(list) /\ Len(list) \in Nat
    BY DomainIs
  <2> HIDE DEF S, D
  <2>3. list \in Seq(S)
    BY <2>1, <2>2, SeqDef
  <2> QED BY <2>1, <2>2, <2>3
<1>3. IsFiniteSet(S)
  <2>1. list \in Surjection(D, S)
    BY <1>2 DEF Surjection
  <2> QED BY <1>2, <2>1, FS_Surjection
<1>4. PICK o : Lists(o, D, Stably(list, B)) /\ f = Read(list, o)
  BY <1>1, SortIs
<1>5. f \in Seq(S)
  BY <1>1, <1>2, SortIs
<1>6. /\ DOMAIN f = DOMAIN o /\ \A n \in DOMAIN o : o[n] \in D /\ f[n] = list[o[n]]
      /\ \A i \in D : \E n \in DOMAIN o : o[n] = i
      /\ \A m, n \in DOMAIN o : m < n => <<o[m], o[n]>> \in Stably(list, B)
  BY <1>4 DEF Read, Lists
<1>7. Orders(Stably(list, B), D)
  BY <1>1, StablyOrders
<1> HIDE DEF f, D, S
<1>8. \A x \in S : \E n \in DOMAIN f : f[n] = x
  BY <1>2, <1>6
<1>9. ASSUME NEW m \in DOMAIN f, NEW n \in DOMAIN f, m < n PROVE <<f[m], f[n]>> \in B
  <2>1. <<o[m], o[n]>> \in Stably(list, B) /\ o[m] \in D /\ o[n] \in D
    BY <1>6, <1>9
  <2>2. o[m] # o[n]
    BY <1>7, <2>1 DEF Orders
  <2>3. f[m] = list[o[m]] /\ f[n] = list[o[n]] /\ f[m] \in S /\ f[n] \in S /\ f[m] # f[n]
    BY <1>2, <1>6, <2>1, <2>2 DEF D
  <2>4. <<f[m], f[n]>> \in B \/ <<f[n], f[m]>> \notin B
    BY <2>1, <2>3, StablyHas DEF D
  <2> QED BY <2>3, <2>4 DEF Orders, S
<1>10. Lists(f, S, B)
  BY <1>5, <1>8, <1>9 DEF Lists
<1>11. Orders(B, S)
  BY DEF S
<1> QED BY <1>3, <1>10, <1>11, ListingIsOnly DEF f, S

CsvOrder(S) == {p \in S \X S : p[1].fingerprint < p[2].fingerprint}

HtmlOrder(S) ==
    {p \in S \X S :
        LET f == p[1]  g == p[2]
        IN  \/ BySeverity(f, g)
            \/ f.severity = g.severity /\ f.rule < g.rule
            \/ f.severity = g.severity /\ f.rule = g.rule /\ f.entity < g.entity}

LEMMA SortsAre ==
    ASSUME NEW list
    PROVE  /\ Csv(list) = StableSort(list, CsvOrder(ToSet(list)))
           /\ Html(list) = StableSort(list, HtmlOrder(ToSet(list)))
BY DEF Csv, Html, CsvOrder, HtmlOrder, PairsOf

\* What the reports sort by.
Keyed(f) ==
    f.rule \in Nat /\ f.severity \in Severity /\ f.entity \in Nat /\ f.fingerprint \in Nat

LEMMA CsvOrders ==
    ASSUME NEW S, \A f \in S : Keyed(f),
           \A f, g \in S : f.fingerprint = g.fingerprint => f = g
    PROVE  Orders(CsvOrder(S), S)
<1>1. \A f \in S : f.fingerprint \in Nat
  BY DEF Keyed
<1>2. \A f, g \in S : <<f, g>> \in CsvOrder(S) <=> f.fingerprint < g.fingerprint
  BY DEF CsvOrder
<1>3. ASSUME NEW f \in S, NEW g \in S
      PROVE  f = g \/ <<f, g>> \in CsvOrder(S) \/ <<g, f>> \in CsvOrder(S)
  <2>1. \/ f.fingerprint < g.fingerprint \/ g.fingerprint < f.fingerprint
        \/ f.fingerprint = g.fingerprint
    BY <1>1
  <2> QED BY <1>2, <2>1
<1>4. ASSUME NEW f \in S PROVE <<f, f>> \notin CsvOrder(S)
  <2>1. ~(f.fingerprint < f.fingerprint)
    BY <1>1
  <2> QED BY <1>2, <2>1
<1>5. ASSUME NEW f \in S, NEW g \in S, NEW h \in S,
             <<f, g>> \in CsvOrder(S), <<g, h>> \in CsvOrder(S)
      PROVE  <<f, h>> \in CsvOrder(S)
  <2>1. f.fingerprint < h.fingerprint
    BY <1>1, <1>2, <1>5
  <2> QED BY <1>2, <2>1
<1> QED BY <1>3, <1>4, <1>5 DEF Orders

LEMMA HtmlOrders ==
    ASSUME NEW S, \A f \in S : Keyed(f),
           \A f, g \in S : f.rule = g.rule /\ f.entity = g.entity => f = g
    PROVE  Orders(HtmlOrder(S), S)
<1> DEFINE R == HtmlOrder(S)
           rank(f) == SEVERITY_ORDER[f.severity]
           Less(f, g) ==
              \/ rank(f) < rank(g)
              \/ rank(f) = rank(g) /\ f.rule < g.rule
              \/ rank(f) = rank(g) /\ f.rule = g.rule /\ f.entity < g.entity
<1>1. \A f \in S : rank(f) \in Nat /\ f.rule \in Nat /\ f.entity \in Nat
      /\ f.severity \in Severity
  BY SeverityRanks DEF Keyed
<1>2. ASSUME NEW f \in S, NEW g \in S PROVE <<f, g>> \in R <=> Less(f, g)
  <2>1. rank(f) = rank(g) <=> f.severity = g.severity
    BY <1>1, SeverityRanks
  <2>2. <<f, g>> \in R <=>
           \/ rank(f) < rank(g)
           \/ f.severity = g.severity /\ f.rule < g.rule
           \/ f.severity = g.severity /\ f.rule = g.rule /\ f.entity < g.entity
    BY DEF HtmlOrder, BySeverity
  <2> QED BY <2>1, <2>2
<1> HIDE DEF R, rank
<1>3. ASSUME NEW f \in S, NEW g \in S PROVE f = g \/ <<f, g>> \in R \/ <<g, f>> \in R
  <2>1. Less(f, g) \/ Less(g, f) \/ (f.rule = g.rule /\ f.entity = g.entity)
    BY <1>1
  <2> QED BY <1>2, <2>1
<1>4. ASSUME NEW f \in S PROVE <<f, f>> \notin R
  <2>1. ~Less(f, f)
    BY <1>1
  <2> QED BY <1>2, <2>1
<1>5. ASSUME NEW f \in S, NEW g \in S, NEW h \in S, <<f, g>> \in R, <<g, h>> \in R
      PROVE  <<f, h>> \in R
  <2>1. Less(f, g) /\ Less(g, h)
    BY <1>2, <1>5
  <2>2. Less(f, h)
    BY <1>1, <2>1
  <2> QED BY <1>2, <2>2
<1> QED BY <1>3, <1>4, <1>5 DEF Orders, R

LEMMA CsvWeak ==
    ASSUME NEW S, \A f \in S : Keyed(f)
    PROVE  Weak(CsvOrder(S), S)
<1>1. \A f \in S : f.fingerprint \in Nat
  BY DEF Keyed
<1>2. \A f, g \in S : <<f, g>> \in CsvOrder(S) <=> f.fingerprint < g.fingerprint
  BY DEF CsvOrder
<1> QED BY <1>1, <1>2 DEF Weak

LEMMA HtmlWeak ==
    ASSUME NEW S, \A f \in S : Keyed(f)
    PROVE  Weak(HtmlOrder(S), S)
<1> DEFINE R == HtmlOrder(S)
           rank(f) == SEVERITY_ORDER[f.severity]
           Less(f, g) ==
              \/ rank(f) < rank(g)
              \/ rank(f) = rank(g) /\ f.rule < g.rule
              \/ rank(f) = rank(g) /\ f.rule = g.rule /\ f.entity < g.entity
<1>1. \A f \in S : rank(f) \in Nat /\ f.rule \in Nat /\ f.entity \in Nat
      /\ f.severity \in Severity
  BY SeverityRanks DEF Keyed
<1>2. ASSUME NEW f \in S, NEW g \in S PROVE <<f, g>> \in R <=> Less(f, g)
  <2>1. rank(f) = rank(g) <=> f.severity = g.severity
    BY <1>1, SeverityRanks
  <2>2. <<f, g>> \in R <=>
           \/ rank(f) < rank(g)
           \/ f.severity = g.severity /\ f.rule < g.rule
           \/ f.severity = g.severity /\ f.rule = g.rule /\ f.entity < g.entity
    BY DEF HtmlOrder, BySeverity
  <2> QED BY <2>1, <2>2
<1> HIDE DEF R, rank
<1>3. \A f \in S : ~Less(f, f)
  BY <1>1
<1>4. ASSUME NEW f \in S, NEW g \in S, NEW h \in S, Less(f, g), Less(g, h) PROVE Less(f, h)
  BY <1>1, <1>4
<1>5. ASSUME NEW f \in S, NEW g \in S, NEW h \in S, Less(f, h) PROVE Less(f, g) \/ Less(g, h)
  BY <1>1, <1>5
<1> HIDE DEF Less
<1> QED BY <1>2, <1>3, <1>4, <1>5 DEF Weak, R

-----------------------------------------------------------------------------
\* A sort by keys that a statement keeps sorts the statements alike.
LEMMA SortStates ==
    ASSUME NEW T, NEW list \in Seq(T), NEW B, NEW C, Weak(B, ToSet(list)),
           \A f, g \in ToSet(list) : <<f, g>> \in B <=> <<Stated(f), Stated(g)>> \in C
    PROVE  StatedIn(StableSort(list, B)) = StableSort(StatedIn(list), C)
<1> DEFINE D == DOMAIN list
           bare == StatedIn(list)
           o == Listing(D, Stably(list, B))
<1>1. DOMAIN bare = D /\ \A i \in D : bare[i] = Stated(list[i])
  BY DEF StatedIn
<1>2. \A i \in D : list[i] \in ToSet(list)
  BY DEF ToSet
<1> HIDE DEF bare
<1>3. Stably(bare, C) = Stably(list, B)
  BY <1>1, <1>2 DEF Stably
<1>4. IsFiniteSet(D) /\ Orders(Stably(list, B), D)
  BY DomainIs, StablyOrders
<1>5. Lists(o, D, Stably(list, B))
  BY <1>4, ListingIs
<1>6. StableSort(list, B) = [n \in DOMAIN o |-> list[o[n]]]
  BY DEF StableSort
<1>7. StableSort(bare, C) = [n \in DOMAIN o |-> bare[o[n]]]
  BY <1>1, <1>3 DEF StableSort
<1> HIDE DEF o, D
<1>8. \A n \in DOMAIN o : o[n] \in D
  BY <1>5 DEF Lists
<1>9. StatedIn(StableSort(list, B)) = [n \in DOMAIN o |-> Stated(list[o[n]])]
  BY <1>6 DEF StatedIn
<1> QED BY <1>1, <1>7, <1>8, <1>9 DEF bare

LEMMA ReportsState ==
    ASSUME NEW list \in Seq(AnyFinding)
    PROVE  /\ StatedIn(Csv(list)) = StableSort(StatedIn(list), CsvOrder(ToSet(StatedIn(list))))
           /\ StatedIn(Html(list)) = StableSort(StatedIn(list), HtmlOrder(ToSet(StatedIn(list))))
           /\ \A f \in ToSet(StatedIn(list)) : Keyed(f)
           /\ DOMAIN StatedIn(list) = DOMAIN list
           /\ \A i \in DOMAIN list : StatedIn(list)[i] = Stated(list[i])
<1> DEFINE S == ToSet(list)
           N == ToSet(StatedIn(list))
<1>1. DOMAIN StatedIn(list) = DOMAIN list /\ \A i \in DOMAIN list : StatedIn(list)[i] = Stated(list[i])
  BY DEF StatedIn
<1>2. /\ \A f \in S : Stated(f) \in N
      /\ \A g \in N : \E f \in S : g = Stated(f)
  BY <1>1 DEF ToSet
<1>3. \A f \in S : f \in AnyFinding
  BY DEF ToSet
<1>4. \A f \in S : Keyed(f)
  BY <1>3, AnyFindingIs DEF Keyed
<1>5. \A f : /\ Stated(f).rule = f.rule /\ Stated(f).severity = f.severity
             /\ Stated(f).entity = f.entity /\ Stated(f).fingerprint = f.fingerprint
  BY DEF Stated
<1> HIDE DEF S, N
<1>6. \A g \in N : Keyed(g)
  BY <1>2, <1>4, <1>5 DEF Keyed
<1>7. ASSUME NEW f \in S, NEW g \in S
      PROVE  /\ <<f, g>> \in CsvOrder(S) <=> <<Stated(f), Stated(g)>> \in CsvOrder(N)
             /\ <<f, g>> \in HtmlOrder(S) <=> <<Stated(f), Stated(g)>> \in HtmlOrder(N)
  <2>1. Stated(f) \in N /\ Stated(g) \in N
    BY <1>2
  <2>2. <<f, g>> \in CsvOrder(S) <=> <<Stated(f), Stated(g)>> \in CsvOrder(N)
    BY <1>5, <2>1 DEF CsvOrder
  <2>3. BySeverity(f, g) <=> BySeverity(Stated(f), Stated(g))
    BY <1>5 DEF BySeverity
  <2>4. <<f, g>> \in HtmlOrder(S) <=> <<Stated(f), Stated(g)>> \in HtmlOrder(N)
    BY <1>5, <2>1, <2>3 DEF HtmlOrder
  <2> QED BY <2>2, <2>4
<1>8. Weak(CsvOrder(S), S) /\ Weak(HtmlOrder(S), S)
  BY <1>4, CsvWeak, HtmlWeak
<1>9. StatedIn(StableSort(list, CsvOrder(S))) = StableSort(StatedIn(list), CsvOrder(N))
  BY <1>7, <1>8, SortStates DEF S
<1>10. StatedIn(StableSort(list, HtmlOrder(S))) = StableSort(StatedIn(list), HtmlOrder(N))
  BY <1>7, <1>8, SortStates DEF S
<1> QED BY <1>1, <1>6, <1>9, <1>10, SortsAre DEF S, N

-----------------------------------------------------------------------------
\* The findings of the same data under the same settings: the same set of
\* statements, and what is stated twice in one scan is stated twice in the other.
Bare(s, p) == Stated(Told(s, p, 0))

LEMMA BareIs ==
    ASSUME NEW s, Done(s), NEW p \in Places(s)
    PROVE  /\ \A t : Stated(Told(s, p, t)) = Bare(s, p)
           /\ Bare(s, p) = [rule |-> RuleAt(s, p), severity |-> Graded(s.settings, RuleAt(s, p)),
                            entity |-> IssueAt(s, p).entity,
                            fingerprint |-> HashOf(RuleAt(s, p), IssueAt(s, p)),
                            evidence |-> Unnumbered(IssueAt(s, p).evidence)]
BY DEF Bare, Stated, Told, Finding, Fingerprint, HashOf

LEMMA StatedAt ==
    ASSUME NEW s, Done(s), NEW o, TellsAt(s, o), NEW n \in DOMAIN s.findings
    PROVE  /\ DOMAIN StatedIn(s.findings) = DOMAIN s.findings
           /\ StatedIn(s.findings)[n] = Bare(s, o[n]) /\ o[n] \in Places(s)
<1>1. PICK t \in Nat : s.findings[n] = Told(s, o[n], t)
  BY DEF TellsAt
<1>2. o[n] \in Places(s)
  BY DEF TellsAt
<1> QED BY <1>1, <1>2, BareIs DEF StatedIn

LEMMA BareAlike ==
    ASSUME NEW a, Done(a), NEW b, Done(b), a.settings = b.settings, NEW p \in Places(a),
           NEW k \in DOMAIN b.data[RuleAt(a, p)],
           Content(b.data[RuleAt(a, p)][k]) = Content(IssueAt(a, p))
    PROVE  \E i \in DOMAIN b.metadata : <<i, k>> \in Places(b) /\ Bare(b, <<i, k>>) = Bare(a, p)
<1> DEFINE r == RuleAt(a, p)
           x == IssueAt(a, p)
           y == b.data[r][k]
<1>1. r \in On(a.settings)
  BY ToldIs
<1>2. PICK i \in DOMAIN b.metadata : b.metadata[i] = r
  BY <1>1 DEF Done, ToSet
<1>3. <<i, k>> \in Places(b)
  BY <1>2, PlacesFinite DEF Done, Places
<1>4. RuleAt(b, <<i, k>>) = r /\ IssueAt(b, <<i, k>>) = y
  BY <1>2 DEF RuleAt, IssueAt
<1> HIDE DEF r, x, y
<1>5. x.entity = y.entity /\ x.key = y.key /\ Unnumbered(x.evidence) = Unnumbered(y.evidence)
  BY ContentTells DEF r, x, y
<1>6. HashOf(r, x) = HashOf(r, y)
  BY <1>5 DEF HashOf
<1>7. Bare(b, <<i, k>>) = [rule |-> r, severity |-> Graded(b.settings, r), entity |-> y.entity,
                          fingerprint |-> HashOf(r, y), evidence |-> Unnumbered(y.evidence)]
  BY <1>3, <1>4, BareIs
<1>8. Bare(a, p) = [rule |-> r, severity |-> Graded(a.settings, r), entity |-> x.entity,
                   fingerprint |-> HashOf(r, x), evidence |-> Unnumbered(x.evidence)]
  BY BareIs DEF r, x
<1> QED BY <1>2, <1>3, <1>5, <1>6, <1>7, <1>8

LEMMA SameStated ==
    ASSUME NEW a, Done(a), NEW b, Done(b), a.settings = b.settings,
           \A r \in Rule : ToSet(Contents(a.data[r])) = ToSet(Contents(b.data[r]))
    PROVE  ToSet(StatedIn(a.findings)) \subseteq ToSet(StatedIn(b.findings))
<1>1. PICK o : TellsAt(a, o)
  BY FindingsAre
<1>2. PICK q : TellsAt(b, q)
  BY FindingsAre
<1>3. ASSUME NEW f \in ToSet(StatedIn(a.findings)) PROVE f \in ToSet(StatedIn(b.findings))
  <2>1. PICK m \in DOMAIN StatedIn(a.findings) : f = StatedIn(a.findings)[m]
    BY DEF ToSet
  <2>2. m \in DOMAIN a.findings
    BY <2>1 DEF StatedIn
  <2>3. PICK p \in Places(a) : f = Bare(a, p)
    BY <1>1, <2>1, <2>2, StatedAt
  <2>4. RuleAt(a, p) \in Rule /\ IssueAt(a, p) \in ToSet(a.data[RuleAt(a, p)])
    BY <2>3, ToldIs
  <2>5. PICK k \in DOMAIN b.data[RuleAt(a, p)] :
           Content(b.data[RuleAt(a, p)][k]) = Content(IssueAt(a, p))
    BY <2>4, ContentFound
  <2>6. PICK i \in DOMAIN b.metadata : <<i, k>> \in Places(b) /\ Bare(b, <<i, k>>) = Bare(a, p)
    BY <2>3, <2>5, BareAlike
  <2>7. PICK n \in DOMAIN b.findings : q[n] = <<i, k>>
    BY <1>2, <2>6 DEF TellsAt
  <2>8. n \in DOMAIN StatedIn(b.findings) /\ StatedIn(b.findings)[n] = f
    BY <1>2, <2>3, <2>6, <2>7, StatedAt
  <2> QED BY <2>8 DEF ToSet
<1> QED BY <1>3

LEMMA GivenTwice ==
    ASSUME NEW T, NEW a \in Seq(T), NEW b \in Seq(T), ToBag(a) = ToBag(b),
           NEW i \in DOMAIN b, NEW k \in DOMAIN b, i # k, b[i] = b[k]
    PROVE  \E m, n \in DOMAIN a : m # n /\ a[m] = b[i] /\ a[n] = b[i]
<1> DEFINE x == b[i]
           A == {m \in DOMAIN a : a[m] = x}
           B == {m \in DOMAIN b : b[m] = x}
<1>1. DOMAIN ToBag(a) = Range(a) /\ DOMAIN ToBag(b) = Range(b)
  BY DEF ToBag
<1>2. x \in Range(b) /\ Range(a) = Range(b)
  BY <1>1 DEF Range
<1>3. ToBag(a)[x] = Cardinality(A) /\ ToBag(b)[x] = Cardinality(B)
  BY <1>2 DEF ToBag
<1>4. PICK m \in DOMAIN a : a[m] = x
  BY <1>2 DEF Range
<1>5. IsFiniteSet(A) /\ IsFiniteSet(B)
  <2>1. A \in SUBSET DOMAIN a /\ B \in SUBSET DOMAIN b
    OBVIOUS
  <2> HIDE DEF A, B
  <2> QED BY <2>1, DomainIs
<1>6. i \in B /\ k \in B /\ m \in A
  BY <1>4
<1>7. Cardinality(A) = Cardinality(B)
  BY <1>3
<1>8. ASSUME \A n \in A : n = m PROVE FALSE
  <2>1. A = {m}
    BY <1>6, <1>8
  <2> HIDE DEF A, B
  <2>2. Cardinality(A) = 1
    BY <2>1, FS_Singleton
  <2>3. PICK z : B = {z}
    BY <1>5, <1>7, <2>2, FS_Singleton
  <2> QED BY <1>6, <2>3
<1> QED BY <1>4, <1>8

LEMMA UnrepeatedAlike ==
    ASSUME NEW a, Done(a), NEW b, Done(b), a.settings = b.settings,
           \A r \in Rule : ToBag(Contents(a.data[r])) = ToBag(Contents(b.data[r])),
           NEW na, na = StatedIn(a.findings), NEW nb, nb = StatedIn(b.findings),
           \A i, k \in DOMAIN na : na[i] = na[k] => i = k
    PROVE  \A i, k \in DOMAIN nb : nb[i] = nb[k] => i = k
<1> SUFFICES ASSUME NEW i \in DOMAIN nb, NEW k \in DOMAIN nb, nb[i] = nb[k], i # k
             PROVE  FALSE
  OBVIOUS
<1>0. DOMAIN na = DOMAIN a.findings /\ DOMAIN nb = DOMAIN b.findings
  BY DEF StatedIn
<1>1. PICK o : TellsAt(b, o)
  BY FindingsAre
<1>2. PICK t : TellsAt(a, t)
  BY FindingsAre
<1> DEFINE p == o[i]   q == o[k]   r == RuleAt(b, p)   x == IssueAt(b, p)   y == IssueAt(b, q)
<1>3. /\ p \in Places(b) /\ q \in Places(b) /\ p # q
      /\ Bare(b, p) = nb[i] /\ Bare(b, q) = nb[i]
  <2>1. /\ nb[i] = Bare(b, p) /\ nb[k] = Bare(b, q) /\ p \in Places(b) /\ q \in Places(b)
    BY <1>0, <1>1, StatedAt
  <2>2. p # q
    BY <1>0, <1>1 DEF TellsAt
  <2> QED BY <2>1, <2>2
<1> HIDE DEF p, q
<1>4. /\ p[1] \in DOMAIN b.metadata /\ p[2] \in DOMAIN b.data[r] /\ r \in Rule /\ x \in Issues(r)
      /\ q[1] \in DOMAIN b.metadata /\ q[2] \in DOMAIN b.data[RuleAt(b, q)]
      /\ RuleAt(b, q) \in Rule /\ y \in Issues(RuleAt(b, q))
  BY <1>3, ToldIs
<1>5. /\ RuleAt(b, q) = r /\ HashOf(r, x) = HashOf(RuleAt(b, q), y)
      /\ Unnumbered(x.evidence) = Unnumbered(y.evidence)
  <2>1. /\ Bare(b, p).rule = r /\ Bare(b, p).fingerprint = HashOf(r, x)
        /\ Bare(b, p).evidence = Unnumbered(x.evidence)
    BY <1>3, BareIs
  <2>2. /\ Bare(b, q).rule = RuleAt(b, q) /\ Bare(b, q).fingerprint = HashOf(RuleAt(b, q), y)
        /\ Bare(b, q).evidence = Unnumbered(y.evidence)
    BY <1>3, BareIs
  <2> QED BY ONLY <1>3, <2>1, <2>2
<1>6. p[1] = q[1]
  BY <1>4, <1>5 DEF RuleAt, Done
<1>7. Content(y) = Content(x)
  <2>1. <<r, x.entity, x.key>> \in DOMAIN Digest /\ <<r, y.entity, y.key>> \in DOMAIN Digest
    BY <1>4, <1>5, DigestAssumption
  <2>2. HashOf(r, x) = HashOf(r, y)
    BY <1>5
  <2> HIDE DEF x, y, r
  <2>3. <<r, x.entity, x.key>> = <<r, y.entity, y.key>>
    BY <2>1, <2>2, DigestAssumption DEF HashOf
  <2> QED BY <1>5, <2>3 DEF Content
<1>8. p[2] # q[2]
  <2>1. p = <<p[1], p[2]>> /\ q = <<q[1], q[2]>>
    BY <1>3, PlacesFinite DEF Places, Done
  <2> QED BY <1>3, <1>6, <2>1
<1>9. b.data[r][p[2]] = x /\ b.data[r][q[2]] = y /\ q[2] \in DOMAIN b.data[r]
  BY <1>4, <1>5 DEF IssueAt
<1>10. a.data[r] \in Seq(Issues(r)) /\ b.data[r] \in Seq(Issues(r))
       /\ ToBag(Contents(a.data[r])) = ToBag(Contents(b.data[r]))
  BY <1>4, DigestAssumption DEF Done
<1>11. PICK m, n \in DOMAIN a.data[r] :
          m # n /\ Content(a.data[r][m]) = Content(x) /\ Content(a.data[r][n]) = Content(x)
  <2> DEFINE A == a.data[r]   B == b.data[r]   i1 == p[2]   k1 == q[2]
             T == {Content(z) : z \in Issues(r)}
             CA == Contents(A)   CB == Contents(B)
  <2>1. i1 \in DOMAIN B /\ k1 \in DOMAIN B /\ i1 # k1 /\ Content(B[i1]) = Content(B[k1])
        /\ Content(B[i1]) = Content(x)
    BY <1>4, <1>7, <1>8, <1>9
  <2>2. A \in Seq(Issues(r)) /\ B \in Seq(Issues(r)) /\ ToBag(CA) = ToBag(CB)
    BY <1>10
  <2> HIDE DEF r, x, A, B, i1, k1
  <2>3. /\ DOMAIN CA = DOMAIN A /\ \A m \in DOMAIN A : CA[m] = Content(A[m])
        /\ DOMAIN CB = DOMAIN B /\ \A m \in DOMAIN B : CB[m] = Content(B[m])
    BY DEF Contents
  <2>4. CA \in Seq(T) /\ CB \in Seq(T)
    <3>1. ASSUME NEW z \in Seq(Issues(r)) PROVE Contents(z) \in Seq(T)
      <4>1. /\ DOMAIN z = 1 .. Len(z) /\ Len(z) \in Nat
            /\ \A m \in DOMAIN z : z[m] \in Issues(r)
        BY <3>1
      <4>2. Contents(z) \in [1 .. Len(z) -> T]
        BY <4>1 DEF Contents
      <4> HIDE DEF T
      <4> QED BY <4>1, <4>2, SeqDef
    <3> QED BY <2>2, <3>1
  <2>5. i1 \in DOMAIN CB /\ k1 \in DOMAIN CB /\ CB[i1] = CB[k1]
    BY <2>1, <2>3
  <2> HIDE DEF CA, CB, T
  <2>6. \E m, n \in DOMAIN CA : m # n /\ CA[m] = CB[i1] /\ CA[n] = CB[i1]
    BY <2>1, <2>2, <2>4, <2>5, GivenTwice
  <2>7. \E m, n \in DOMAIN A : m # n /\ Content(A[m]) = Content(x) /\ Content(A[n]) = Content(x)
    BY <2>1, <2>3, <2>6
  <2> QED BY <2>7 DEF A
<1>12. PICK j \in DOMAIN a.metadata : <<j, m>> \in Places(a) /\ Bare(a, <<j, m>>) = Bare(b, p)
  BY <1>3, <1>11, BareAlike
<1>13. PICK l \in DOMAIN a.metadata : <<l, n>> \in Places(a) /\ Bare(a, <<l, n>>) = Bare(b, p)
  BY <1>3, <1>11, BareAlike
<1>14. PICK u \in DOMAIN a.findings : t[u] = <<j, m>>
  BY <1>2, <1>12 DEF TellsAt
<1>15. PICK v \in DOMAIN a.findings : t[v] = <<l, n>>
  BY <1>2, <1>13 DEF TellsAt
<1>16. na[u] = na[v]
  <2>1. na[u] = Bare(a, <<j, m>>) /\ na[v] = Bare(a, <<l, n>>)
    BY <1>2, <1>14, <1>15, StatedAt
  <2> QED BY <1>12, <1>13, <2>1
<1>17. u # v
  BY <1>11, <1>14, <1>15
<1> QED BY <1>0, <1>16, <1>17

LEMMA OrderImplied == ReportsInv => OrderIrrelevant
<1> SUFFICES ASSUME ReportsInv, SameData, scan.settings = earlier.settings PROVE OrderIrrelevant
  BY DEF OrderIrrelevant
<1> DEFINE now == scan.findings
           before == earlier.findings
           stated == StatedIn(now)
           other == StatedIn(before)
           S == ToSet(stated)
<1>1. Done(scan) /\ Done(earlier)
  BY BothDone
<1>2. now \in Seq(AnyFinding) /\ before \in Seq(AnyFinding)
  BY <1>1, FindingsAre
<1>3. \A r \in Rule : /\ ToBag(Contents(scan.data[r])) = ToBag(Contents(earlier.data[r]))
                        /\ ToSet(Contents(scan.data[r])) = ToSet(Contents(earlier.data[r]))
  BY SameBags DEF SameData
<1>4. ToSet(other) = S
  <2>1. S \subseteq ToSet(other)
    BY <1>1, <1>3, SameStated
  <2>2. ToSet(other) \subseteq S
    BY <1>1, <1>3, SameStated
  <2> QED BY <2>1, <2>2
<1>5. /\ StatedIn(Csv(now)) = StableSort(stated, CsvOrder(S))
      /\ StatedIn(Html(now)) = StableSort(stated, HtmlOrder(S))
      /\ DOMAIN stated = DOMAIN now /\ \A f \in S : Keyed(f)
      /\ \A i \in DOMAIN now : stated[i] = Stated(now[i])
  BY <1>2, ReportsState
<1>6. /\ StatedIn(Csv(before)) = StableSort(other, CsvOrder(ToSet(other)))
      /\ StatedIn(Html(before)) = StableSort(other, HtmlOrder(ToSet(other)))
      /\ DOMAIN other = DOMAIN before
  BY <1>2, ReportsState
<1>7. stated \in Seq(S) /\ other \in Seq(ToSet(other))
  <2>1. ASSUME NEW list \in Seq(AnyFinding) PROVE StatedIn(list) \in Seq(ToSet(StatedIn(list)))
    <3>1. DOMAIN list = 1 .. Len(list) /\ Len(list) \in Nat
      OBVIOUS
    <3>2. StatedIn(list) \in [1 .. Len(list) -> ToSet(StatedIn(list))]
      BY <3>1 DEF StatedIn, ToSet
    <3> QED BY <3>1, <3>2, SeqDef
  <2> QED BY <1>2, <2>1
<1>8. \A f : /\ Stated(f).fingerprint = f.fingerprint
             /\ Stated(f).rule = f.rule /\ Stated(f).entity = f.entity
  BY DEF Stated
<1>9. ASSUME NEW B, Orders(B, S), \A i, k \in DOMAIN stated : stated[i] = stated[k] => i = k
      PROVE  StableSort(stated, B) = StableSort(other, B)
  <2>1. \A i, k \in DOMAIN other : other[i] = other[k] => i = k
    BY <1>1, <1>3, <1>9, UnrepeatedAlike
  <2> HIDE DEF stated, other
  <2>2. Orders(B, ToSet(other))
    BY <1>4, <1>9
  <2>3. StableSort(stated, B) = Listing(ToSet(stated), B)
    BY <1>7, <1>9, SortOnly
  <2>4. StableSort(other, B) = Listing(ToSet(other), B)
    BY <1>7, <2>1, <2>2, SortOnly
  <2> QED BY <1>4, <2>3, <2>4
<1> HIDE DEF stated, other, now, before
<1>10. ASSUME \A i, k \in DOMAIN now : now[i].fingerprint = now[k].fingerprint => i = k
       PROVE  StatedIn(Csv(now)) = StatedIn(Csv(before))
  <2>1. \A i, k \in DOMAIN stated : stated[i].fingerprint = stated[k].fingerprint => i = k
    BY <1>5, <1>8, <1>10
  <2>2. \A f, g \in S : f.fingerprint = g.fingerprint => f = g
    BY <2>1 DEF ToSet
  <2>3. Orders(CsvOrder(S), S)
    <3> HIDE DEF S
    <3> QED BY <1>5, <2>2, CsvOrders
  <2>4. \A i, k \in DOMAIN stated : stated[i] = stated[k] => i = k
    BY <2>1
  <2>5. StableSort(stated, CsvOrder(S)) = StableSort(other, CsvOrder(S))
    BY <1>9, <2>3, <2>4
  <2> QED BY <1>4, <1>5, <1>6, <2>5
<1>11. ASSUME \A i, k \in DOMAIN now :
                 <<now[i].rule, now[i].entity>> = <<now[k].rule, now[k].entity>> => i = k
       PROVE  StatedIn(Html(now)) = StatedIn(Html(before))
  <2>1. \A i, k \in DOMAIN stated :
           stated[i].rule = stated[k].rule /\ stated[i].entity = stated[k].entity => i = k
    BY <1>5, <1>8, <1>11
  <2>2. \A f, g \in S : f.rule = g.rule /\ f.entity = g.entity => f = g
    BY <2>1 DEF ToSet
  <2>3. Orders(HtmlOrder(S), S)
    <3> HIDE DEF S
    <3> QED BY <1>5, <2>2, HtmlOrders
  <2>4. \A i, k \in DOMAIN stated : stated[i] = stated[k] => i = k
    BY <2>1
  <2>5. StableSort(stated, HtmlOrder(S)) = StableSort(other, HtmlOrder(S))
    BY <1>9, <2>3, <2>4
  <2> QED BY <1>4, <1>5, <1>6, <2>5
<1> QED BY <1>10, <1>11 DEF OrderIrrelevant, Unrepeated, now, before

(***************************************************************************)
(* Two scans of the same data under the same settings, at any hours and    *)
(* with the rows in any order, give findings.csv files that differ in      *)
(* created_at and the row numbers of the evidence only, and lists in HTML  *)
(* that differ in the row numbers only, when the sort keys tell the        *)
(* findings of one of them apart (write_findings_csv, render_html_report). *)
(***************************************************************************)
THEOREM RowOrderIrrelevant == Spec => []OrderIrrelevant
<1>1. Init => ReportsInv
  BY ReportsKept
<1>2. ReportsInv /\ [Next]_vars => ReportsInv'
  BY ReportsKept
<1>3. ReportsInv => OrderIrrelevant
  BY OrderImplied
<1> QED
  BY <1>1, <1>2, <1>3, PTL DEF Spec
=============================================================================
