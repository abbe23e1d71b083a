------------------------------- MODULE Reports ------------------------------
(***************************************************************************)
(* What the reports of a scan say (reporting/, engine/run_manifest.py) and *)
(* what the viewer answers about them (api/run_view.py), for the findings  *)
(* of any registry on data whose rows come in any order.  How the files    *)
(* are written and read is the matter of ScanRun and Viewer.               *)
(*                                                                         *)
(* Ids of rules and entities and fingerprints are numbers: only their      *)
(* order matters to a report.                                              *)
(***************************************************************************)
EXTENDS Registry

CONSTANTS Data,     \* inputs, by what the rules find in them: [Rule -> Seq(Issue)]
          Digest,   \* compute_fingerprint's hash of rule, entity and keys
          Clock     \* what the clock may show when a scan begins to evaluate

Issues(rule) == UNION {ToSet(d[rule]) : d \in Data}

ASSUME DigestAssumption ==
    /\ \A a, b \in DOMAIN Digest : Digest[a] = Digest[b] => a = b
    /\ \A r \in Rule : \A issue \in Issues(r) :
          /\ issue = [entity |-> issue.entity, key |-> issue.key, evidence |-> issue.evidence]
          /\ <<r, issue.entity, issue.key>> \in DOMAIN Digest
          /\ issue.entity \in Nat /\ Digest[<<r, issue.entity, issue.key>>] \in Nat
    /\ \A d \in Data, r \in Rule : d[r] \in Seq(Issues(r))
    /\ None \notin Rule

ASSUME ClockAssumption == Clock \subseteq Nat

VARIABLES scan,     \* the last scan: its data, its registry's settings, the
                    \* findings and the enabled rules the reports were given
          earlier   \* the scan before it, as a baseline

vars == <<registry, scan, earlier>>

\* Faulty variant: the severity is a part of what is hashed.
FingerprintGraded(rule, severity, issue) ==
    Digest[<<rule, issue.entity, issue.key>>] + (IF severity = "critical" THEN 1000 ELSE 0)

Fingerprint(rule, severity, issue) == Digest[<<rule, issue.entity, issue.key>>]

\* make_finding; the JSON report's random finding_id is left out.
Finding(r, severity, issue, created_at) ==
    [rule |-> r, severity |-> severity, entity |-> issue.entity,
     fingerprint |-> Fingerprint(r, severity, issue), evidence |-> issue.evidence,
     created_at |-> created_at]

\* RuleRegistry.evaluate: the enabled rules one after the other, each with
\* its findings in their order, and the clock read anew for each of them.
PlacesOf(d, ids) == UNION {{i} \X DOMAIN d[ids[i]] : i \in DOMAIN ids}

InTurn(places) ==
    {p \in places \X places :
        p[1][1] < p[2][1] \/ (p[1][1] = p[2][1] /\ p[1][2] < p[2][2])}

Evaluate(d, clock) ==
    LET ids == EnabledRules
        order == Listing(PlacesOf(d, ids), InTurn(PlacesOf(d, ids)))
    IN  [n \in DOMAIN order |->
            LET r == ids[order[n][1]]
            IN  Finding(r, EffectiveSeverity(r), d[r][order[n][2]], clock + n)]

NoScan == [data |-> None, settings |-> [r \in {} |-> Unset], findings |-> <<>>, metadata |-> <<>>]

Init == RegistryInit /\ scan = NoScan /\ earlier = NoScan

Scan(d, clock) ==
    /\ Call
    /\ scan' = [data |-> d, settings |-> settings, findings |-> Evaluate(d, clock),
                metadata |-> EnabledRules]
    /\ earlier' = scan
    /\ UNCHANGED <<rules, settings, raised, switch, grade>>

Configure == RegistryNext /\ UNCHANGED <<scan, earlier>>

Next == Configure \/ \E d \in Data, clock \in Clock : Scan(d, clock)

Spec == Init /\ [][Next]_vars

-----------------------------------------------------------------------------
SEVERITY_ORDER == [critical |-> 0, high |-> 1, medium |-> 2, low |-> 3]

\* list.sort and sorted are stable: where Before has neither of two elements
\* first, they stay as they are.
Stably(list, Before) ==
    {p \in (DOMAIN list) \X (DOMAIN list) :
        \/ <<list[p[1]], list[p[2]]>> \in Before
        \/ <<list[p[2]], list[p[1]]>> \notin Before /\ p[1] < p[2]}

StableSort(list, Before) ==
    LET order == Listing(DOMAIN list, Stably(list, Before))
    IN  [n \in DOMAIN order |-> list[order[n]]]

RowsFor(list, rule) == At(list, {i \in DOMAIN list : list[i].rule = rule})
RowsAt(list, severity) == At(list, {i \in DOMAIN list : list[i].severity = severity})

RulesIn(list) == {list[i].rule : i \in DOMAIN list}
SeveritiesIn(list) == {list[i].severity : i \in DOMAIN list}

\* Faulty variant: the rows are left in the order of evaluation.
CsvUnsorted(list) == list

PairsOf(list) == ToSet(list) \X ToSet(list)

\* write_findings_csv
Csv(list) == StableSort(list, {p \in PairsOf(list) : p[1].fingerprint < p[2].fingerprint})

BySeverity(f, g) == SEVERITY_ORDER[f.severity] < SEVERITY_ORDER[g.severity]

\* render_html_report: the findings, and a row per rule evaluated.
Html(list) ==
    StableSort(list, {p \in PairsOf(list) :
        LET f == p[1]  g == p[2]
        IN  \/ BySeverity(f, g)
            \/ f.severity = g.severity /\ f.rule < g.rule
            \/ f.severity = g.severity /\ f.rule = g.rule /\ f.entity < g.entity})

HtmlRuleCounts(metadata, list) ==
    [i \in DOMAIN metadata |-> Len(RowsFor(list, metadata[i]))]

\* build_summary (the manifest and the HTML report count severities alike).
Summary(list) ==
    [total_findings |-> Len(list),
     severity_counts |-> [s \in SeveritiesIn(list) |-> Len(RowsAt(list, s))],
     findings_by_rule |-> [r \in RulesIn(list) |-> Len(RowsFor(list, r))]]

severity_to_level == [critical |-> "error", high |-> "error", medium |-> "warning", low |-> "note"]

\* _location: the first evidence with a file; a row only if it is known.
Location(evidence) ==
    LET filed == {i \in DOMAIN evidence : evidence[i].source_file # None}
    IN  IF filed = {} THEN None ELSE evidence[Min(filed)]

\* Faulty variant: a rule is listed again for each of its findings.
OrderedIdsRepeated(metadata, list) ==
    metadata \o [i \in DOMAIN list |-> list[i].rule]

\* build_sarif's ordered_ids: the metadata's, then those only findings have.
OrderedIds(metadata, list) ==
    LET all == metadata \o [i \in DOMAIN list |-> list[i].rule]
    IN  At(all, {i \in DOMAIN all : \A k \in 1 .. i - 1 : all[k] # all[i]})

\* rule_index maps an id to its last position.
Sarif(metadata, list) ==
    LET ids == OrderedIds(metadata, list)
        IndexOf(r) == CHOOSE k \in DOMAIN ids :
                          ids[k] = r /\ \A m \in DOMAIN ids : ids[m] = r => m <= k
    IN  [rules |-> ids,
         results |-> [i \in DOMAIN list |->
            [ruleId |-> list[i].rule, ruleIndex |-> IndexOf(list[i].rule) - 1,
             level |-> severity_to_level[list[i].severity],
             partialFingerprint |-> list[i].fingerprint,
             location |-> Location(list[i].evidence)]]]

-----------------------------------------------------------------------------
\* The viewer's queries on findings.json; None is a filter that is not set.
\* Faulty variant: one filter is enough.
MatchesEither(f, severity, rule) ==
    \/ severity = None /\ rule = None
    \/ f.severity = severity \/ f.rule = rule

Matches(f, severity, rule) == severity \in {None, f.severity} /\ rule \in {None, f.rule}

FilterFindings(list, severity, rule) ==
    LET shown == At(list, {i \in DOMAIN list : Matches(list[i], severity, rule)})
    IN  StableSort(shown, {p \in PairsOf(shown) :
            \/ BySeverity(p[1], p[2])
            \/ p[1].severity = p[2].severity /\ p[1].rule < p[2].rule})

\* The first of the findings with the fingerprint.
GetFinding(list, fingerprint) ==
    LET found == {i \in DOMAIN list : list[i].fingerprint = fingerprint}
    IN  IF found = {} THEN None ELSE list[Min(found)]

-----------------------------------------------------------------------------
\* What the counts count, taken together.
SumOf(counts) == Cardinality(UNION {{x} \X (1 .. counts[x]) : x \in DOMAIN counts})

(***************************************************************************)
(* The formats tell one story: a SARIF result points at its own rule and   *)
(* every rule is listed once, also if the registry was changed before the  *)
(* report was built; the summary's counts add up to the findings; and each *)
(* finding stands in the HTML report's table under a rule that was         *)
(* evaluated (build_sarif, build_summary, render_html_report).             *)
(***************************************************************************)
FormatsAgree ==
    LET list == scan.findings  summary == Summary(list) IN
    /\ \A metadata \in {scan.metadata, EnabledRules} :
          LET sarif == Sarif(metadata, list)
          IN  /\ ToSet(metadata) \cup RulesIn(list) = ToSet(sarif.rules)
              /\ IsInjective(sarif.rules)
              /\ \A i \in DOMAIN sarif.results :
                    sarif.rules[sarif.results[i].ruleIndex + 1] = sarif.results[i].ruleId
    /\ SumOf(summary.severity_counts) = Len(list)
    /\ SumOf(HtmlRuleCounts(scan.metadata, list)) = Len(list)

(***************************************************************************)
(* What the viewer lists can be opened and counted: the link of a row      *)
(* opens a finding of the same rule, entity and severity, even where       *)
(* findings share a fingerprint; a filter shows as many rows as the        *)
(* summary counts; and two filters together show the common rows in the    *)
(* order of the whole list (RunView).                                      *)
(***************************************************************************)
ViewerFinds ==
    LET list == scan.findings  all == FilterFindings(list, None, None) IN
    /\ \A i \in DOMAIN all :
          LET opened == GetFinding(list, all[i].fingerprint)
          IN  <<opened.rule, opened.entity, opened.severity>>
                 = <<all[i].rule, all[i].entity, all[i].severity>>
    /\ \A s \in SeveritiesIn(list), r \in RulesIn(list) :
          /\ Len(FilterFindings(list, s, None)) = Summary(list).severity_counts[s]
          /\ Len(FilterFindings(list, None, r)) = Summary(list).findings_by_rule[r]
          /\ FilterFindings(list, s, r) = RowsFor(RowsAt(all, s), r)

\* Rows that come in another order have other numbers.
Unnumbered(evidence) == [i \in DOMAIN evidence |-> [evidence[i] EXCEPT !.source_row = None]]

Content(issue) ==
    [entity |-> issue.entity, key |-> issue.key, evidence |-> Unnumbered(issue.evidence)]

Contents(issues) == [i \in DOMAIN issues |-> Content(issues[i])]

\* The two scans saw the same rows, in whatever order.
SameData ==
    /\ None \notin {earlier.data, scan.data}
    /\ \A r \in Rule : ToBag(Contents(earlier.data[r])) = ToBag(Contents(scan.data[r]))

FingerprintsIn(list) == {list[i].fingerprint : i \in DOMAIN list}
On(settingsThen) == {r \in DOMAIN settingsThen : settingsThen[r].enabled}

(***************************************************************************)
(* Between two scans of the same data a baseline sees the switches and     *)
(* nothing else: new are the findings of rules switched on or registered   *)
(* since, resolved those of rules switched off.  Grading a rule anew makes *)
(* no finding new and resolves none (compute_fingerprint, classify).       *)
(***************************************************************************)
BaselineSeesSwitches ==
    LET now == scan.findings  before == earlier.findings
        Of(list, R) == {f.fingerprint : f \in {g \in ToSet(list) : g.rule \in R}} IN
    SameData =>
        /\ FingerprintsIn(now) \ FingerprintsIn(before) = Of(now, Rule \ On(earlier.settings))
        /\ FingerprintsIn(before) \ FingerprintsIn(now) = Of(before, Rule \ On(scan.settings))

Unrepeated(list, Key(_)) == \A i, k \in DOMAIN list : Key(list[i]) = Key(list[k]) => i = k

\* What a report says of a finding, but for the hour (created_at) and the
\* numbers of the rows (evidence_json).
Stated(f) ==
    [rule |-> f.rule, severity |-> f.severity, entity |-> f.entity,
     fingerprint |-> f.fingerprint, evidence |-> Unnumbered(f.evidence)]

StatedIn(list) == [i \in DOMAIN list |-> Stated(list[i])]

(***************************************************************************)
(* Two scans of the same data with the same settings, whenever they are    *)
(* made and whatever the order of the rows, give findings.csv files that   *)
(* line by line differ in created_at and in the row numbers of the         *)
(* evidence only, and HTML reports whose lists differ in the row numbers   *)
(* only, as long as the sort keys tell the findings apart                  *)
(* (write_findings_csv, render_html_report).  The files are not the same.  *)
(***************************************************************************)
OrderIrrelevant ==
    LET now == scan.findings  before == earlier.findings IN
    SameData /\ scan.settings = earlier.settings =>
        /\ Unrepeated(now, LAMBDA f : f.fingerprint) =>
              StatedIn(Csv(now)) = StatedIn(Csv(before))
        /\ Unrepeated(now, LAMBDA f : <<f.rule, f.entity>>) =>
              StatedIn(Html(now)) = StatedIn(Html(before))
=============================================================================
