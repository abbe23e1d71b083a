# A TLA+ model of Collection Integrity CI

`collection-ci` reads an export of a museum's collection system, evaluates fifteen
deterministic rules on it, writes reports and ends with an exit code a CI pipeline gates on.
This directory holds TLA+ modules translated from `src/src/collection_integrity/`, the TLC
configurations that check them on small instances, and theorems about them that TLAPS checks.
`PROJECT.json` says for every definition which lines of the source it stands for. Paths below
are relative to `src/src/collection_integrity/` unless they start with `src/`.

## 1. The system

```
 source files --sampling--> sample directory
      |                          |
      v                          v
  readers/mapper, csv_adapter, source adapters --> canonical entities (RuleContext)
                                                        |
                 media files <--------------------- 15 rules --> findings (fingerprints)
                                                        |
   baseline file --> comparison --> verdict, exit code  |--> six reports in OUTPUT
                                                        `--> record in runs/
   OUTPUT --> RunView --> web viewer            runs/ --> history commands
   synthetic tables --> injectors --> rules --> score (benchmark command)
```

Components share nothing but files and the values they hand on; one scan is one sequential
process. What is hard is on the boundaries: processes that share directories, files that change
while they are read, and long chains of pure functions whose composition nobody tested.

| component | state | operations | hard behaviour | what makes it correct |
|---|---|---|---|---|
| scan command (`cli.py`, `engine/baselines.py`, `engine/findings.py`) | ingested entities, findings, six reports, comparison, run record, exit code | `scan` with its options | jobs in one directory, kills and failing writes between any two file operations, the baseline read after the reports are written, exceptions no clause catches | the exit code follows from the scan's own input and from what the baseline file held at one moment of the scan; a refusal leaves no record of a run; the scan ends |
| run history (`engine/run_store.py`) | one JSON file per run | `save`, `list_runs`, `latest` | listing while runs are saved; a killed save | a listing holds every finished run and nothing half written; `latest` is the newest |
| viewer (`api/`) | a snapshot of one directory | `load`, the pages, `/report` | artifacts replaced between two reads; directories that a kill left | what is served is of one run; a refusal is due to a scan that broke off |
| entity rules (`rules/*.py`) | none: functions of the tables | `evaluate` of fifteen rules through the registry | order and repetition of rows, references that dangle, fingerprints that must survive edits | findings are exactly the inconsistencies; a fingerprint names one finding and stands still when other rows change |
| LOC002 (`rules/location_rules.py`) | parent table, node set of the walk | merging rows, missing parents, cycle walk | parent chains that lead into loops | exactly the nodes on a cycle are reported; every walk ends |
| media rules (`rules/media_rules.py`, `engine/media_files.py`) | file digests | four passes over the files | files that change or vanish between passes | untouched files are judged right; only a changed or locked file, or an image whose check raises, breaks the scan off |
| sampling (`ingestion/sampling.py`, `src/scripts/fetch_sample.py`) | what is read and kept | argument checks, line bound, relational closure | endless streams, limits at the end, lines that are no records, ids padded here and not there, byte order marks, an export refreshed in between, a kill between tables | bounded reading on every path; a sample that does not lie |
| NGA adapter (`ingestion/nga_adapter.py`) | joined tables | `load` | ties and gaps in the display order | makers in the published order |
| ingestion (`ingestion/readers.py`, `mapper.py`, `source_base.py`, `csv_adapter.py`, museum profiles, `engine/run_manifest.py`) | records of five entities read so far, then the input hashes | reading, mapping, refusing, hashing | blank, short and overlong lines; odd mappings; two ways in for one table; an export that grows between two tables and before it is hashed | all rows of a table or none; identified records; the two ways agree; no orphan that the order of reading made; the manifest names what was read |
| benchmark (`benchmark/`) | tables, labels | generators, injectors, score | injectors composed on the same rows | the rules find exactly the labelled errors |
| reports (`reporting/`, `engine/run_manifest.py`, queries of `api/run_view.py`) | the findings of a scan | one writer per format, filters and lookup | ties in the sort orders, findings that share a fingerprint, rules only findings name | the formats agree on the findings; what is listed can be opened; a baseline sees data and switches, not grades; two reports of the same data differ in the hour and the row numbers only |
| registry (`rules/registry.py`) | rules and settings | register, enable, override, evaluate | settings changed in any order, rejected calls | a rule is switched and graded as last asked |

## 2. Modules

`X_proofs` holds the theorems about `X`; `MCX` gives its constants values. `ScanRun_proofs`
also has those that rest on its invariants: that ScanRun implements ScanContract, and what a
viewer is served. `Rules_proofs` has those about LocationHierarchy and MediaScan, the two rules
that are modelled step by step; since it extends both, the specification of the first is named
`HierarchySpec`.

* **Findings** - severities, findings with their fingerprints, the comparison with a baseline
  (`New`, `Unchanged`, as in `classify`) and the threshold (`Blocks`).
* **ScanRun** (extends Findings) - every job is a process in `cli.scan`: `Start` (argument
  checks), `Ingest`, `CheckMediaRoot`, `Evaluate`, then `Open`/`Write` for each file in the order
  of the code, `LoadBaseline`, `Verdict`. `disk` maps files to what they hold, and a file can be
  empty or torn, since `Path.write_text` truncates and then writes. The environment edits the
  export, kills jobs, makes writes fail and copies a findings.json over a baseline file
  (`KeepBaseline`) whenever it likes: also while a scan that names the file is running, and such a
  scan may find the copy half made. `opts`, `seen`, `found` and `base` are the local variables of
  the Python function; `had` is a history variable, the contents a job's baseline file held one
  after the other from the start of the job until it was read.
* **ScanContract** - the abstract promise, as actions of a job (`Begin`, `Look`, `Compare`,
  `Enter`, and `Decide`, `Refuse` or `BreakOff`): it looks once at the data and once at its
  baseline as that then is, and its verdict follows from the two. Of the disk it keeps what each
  file is worth as a baseline, which may change at any moment, and the history: a job that is
  refused is not in it, and one that asked to be recorded is before its verdict. `ScanRun!Contract`
  instantiates it with a refinement mapping that forgets reports, steps and torn files.
* **RunStore** - savers and one reader of `runs/`.
* **Viewer** (extends ScanRun) - the loader of `RunView` reading one artifact at a time from
  the directory ScanRun's jobs write, and `/report`, which reads the disk at every request.
  `quiet` is a history variable: no scan ran there since loading began.
* **LocationHierarchy** - LOC002, one row, one node, one parent step per action.
* **EntityRules** - CORE001, CORE002, REF001, REF002, RIGHTS001, VOCAB001, LOC001 as operators
  on tables, each with the identity its fingerprint is computed from. **Curation** lets a
  curator append, remove and move rows of the tables and relates the findings before and after.
* **DateRules** - DATE001, DATE002, SCHEMA001. **NgaSample** (extends it) - the relational
  sampler table by table, kills, a publisher who refreshes the export in between, and the scan
  of the sample through the NGA adapter. The two read ids differently: the sampler compares cells
  as they stand and takes a byte order mark for a part of the first column's name (`Nameless`,
  `RaiseKeyError`), the adapter strips every id (`Trim`, `Stripped`) and its reader drops the mark.
* **LineSampling** - `take_bounded_lines` on finite and endless sources, one line per step.
* **FetchSample** (extends LineSampling, instances NgaSample) - the script: its argument checks,
  then lines of a local file or a response through `Next` of LineSampling, or the directory
  through `Nga!Next`. A file is a sequence of pieces of records, cut at every separator that
  `splitlines` knows; which of them are lines of a response, and how a CSV reader puts lines
  together again, is in `LinesOf` and `ReadBack`.
* **MediaScan** - MEDIA001 to MEDIA004 row by row and file operation by file operation. Pillow's
  `verify()` has three outcomes: no exception, one that `engine/media_files.py:49` catches, and
  one that ends the scan.
* **Ingestion** - `load_from_mapping` table by table for the five entities, from CSV and JSON,
  under a mapping or a museum's profile; the CSV adapter beside it; the collection system adding
  lines meanwhile (`Add`); and `HashInputs`, which reads the files once more for the manifest.
* **Registry** - register, set_enabled, override_severity with their rejections. **Reports**
  (extends it) - scans under the settings of the registry, at any hour, on inputs whose rows come in
  any order and are numbered as they come; the clock is read anew for each finding; the lists and
  counts of the CSV, HTML, SARIF and summary writers, and the viewer's queries.
* **Benchmark** (instances of EntityRules and DateRules) - clean tables, `Call` and `EndLoop` for
  the structure of the injectors, one action per kind of error, and the score. `Composable` says
  which series of injectors it is about: none is called twice, rights records are taken away before
  objects are published against them, and statuses are either misspelt or made public, not both: one
  error would overwrite the other. `run_benchmark` and the tests that score labels call such series;
  the series in `src/tests/property/test_fingerprint_determinism.py:135-141`, where an object made
  public may have its status misspelt afterwards, is never scored.

Two conventions. A *faulty variant* is an operator beside the one it varies, with a bug such
code could have; replacing the original by it must make a property fail, and `PROJECT.json`
("mutants") lists which. Modules with theorems use no recursive operators; ranks are counted and
cycles are closed sets, so that none is needed.

### Abstractions

* Text is a model value or a number. Fingerprints are the tuples they hash, so SHA-256 is
  assumed to have no collisions. Dates are years; the width and height of an image are one size.
* A finding is its rule, entity, field and evidence keys; summaries and wording are left out.
  DATE002 reports a maker linked twice to an object twice under one fingerprint: the model has
  that finding once. A set of findings stands for the list: order is not modelled, but that the
  same findings come out for every order of rows is a property (`RowOrderIrrelevant`).
* `write_text` is atomic up to its two halves. Two writers overlapping leave the text of the
  second if the file was empty when it was written, else that text or a torn file.
* Required fields are a list, as `--required-field` is repeatable; a finding of CORE002 says in
  `asked` for which of them it was made, so that a field named twice gives two findings.
* Status cells are members of small sets in one spelling: the `.lower()` of
  `rules/rights_rules.py:33,65` is the identity on them.
* The ruleset's vocabularies are part of the constant `Collections` of Curation: `cli.scan` never
  passes any, so VOCAB001 is silent on the command line; the benchmark and the tests pass them.
* Cells of an export are opaque: `Trim`, `Parts` and `Convert` are constants that stand for
  `strip`, `split_pipe` and the parsers of integers, truth values and dates, and the instance has
  cells that differ before and after each. A table is read in one step. The export grows only by
  whole lines and in an order that keeps its references sound; this is an assumption about the
  collection system, and `OrphansAreYoung` is worth nothing where it does not hold.
* In Reports a rule's findings are given with the data; ids and fingerprints are numbers, since
  only their order shows. `Digest` has no collisions (DigestAssumption). The random `finding_id`
  of the JSON report is left out; `created_at` and the row numbers of the evidence are not.
* The random generators of the benchmark are arbitrary choices, so what is shown holds for
  every seed.

## 3. Runs

| run | instance | what it shows |
|---|---|---|
| `scan` | two jobs, one after the other or overlapping, two directories, a kept baseline, six command lines, a curator | verdicts are honest across edits, kills, failed writes, baselines replaced under running scans and interleavings; every verdict is backed by the reports of its own run; a stale comparison file has an explanation |
| `scan_contract` | bad arguments, rejected and crashing inputs, broken baselines | what a refusal leaves on disk; every scan ends (`Ending` of ScanContract); ScanRun implements ScanContract |
| `scan_self_baseline` | a directory's own report as its baseline | **violated**: the report is overwritten before it is read (finding) |
| `run_store` | three savers, two listings | a listing is true and its last run is as new as any saved before it; only an unfinished save breaks a listing |
| `viewer` | two scans and a viewer | a viewer is refused only over a directory nobody wrote to or where a scan broke off; a quiet directory gives one run, on the report page too |
| `location_hierarchy` | all tables of up to four rows over three ids and none | the pass is exact, rows merge to the first parent, it ends |
| `curation` | three collections (references and rights; groups and single cells; a field required twice), all tables of a few rows, all single edits | fingerprints are unique where ids are and no field is required twice; edits are local; findings hand over between REF002 and RIGHTS001; silence means soundness |
| `sampling` | command lines of all three paths, good and bad; files of a plain record and up to three others, local, remote or endless; directories of two objects and two links, two samplings, one change, ids padded in the link table, a byte order mark on any one table | bounds of reading and keeping; the sample read back is the source's first records; a relational sample raises no false alarm, is closed under references and, where ids are written alike, finds what the export has; DATE002 reports exactly the disjoint ranges; display orders decide the makers |
| `media_scan` | up to three rows, two files, one change at any moment, files that may not be read, an image whose check raises | verdicts about untouched files; what can break a scan off |
| `ingestion` | small tables under plain and odd mappings, two profiles, the CSV adapter, and an export of five tables that grows by up to three lines | tables load whole or are refused at the right row; the two ways in agree; which orphans (of objects and of media, REF001 and REF002) a growing export can cause; the manifest is true |
| `benchmark` | two suites: four objects; or three objects, two rights records and four nodes; up to two errors per loop | after every injection the rules find exactly the labels, none merged; no injector runs out of rows |
| `reports` | three rules, two grades, seven calls in any order, three inputs (one is another turned round and renumbered, one repeats a record), two hours | settings are as asked; the formats agree; the viewer finds what it lists; a baseline sees switches only; the hour and the order of rows show in created_at, row numbers and ties only |

### Bounds, and why they are enough

* *Scans.* Two jobs: an interference involves a file, the job that wrote it and the job that reads
  or rewrites it. Two directories tell same from different. Three findings of which two share a
  fingerprint, and two severities, cover every branch of comparison and threshold. `MaxActs` bounds
  what the curator does; one edit is enough to tell the input a scan read from the one on disk, or
  to replace a baseline while the scan that names it writes its reports, which in this run does turn
  a verdict. A request says whether its job runs `alone` (jobs of a CI pipeline that share a
  concurrency group do): the run has requests of both kinds, since a property that speaks of what an
  earlier scan left needs whole scans in sequence, and the interleavings need few options. Jobs are
  symmetric: nothing in a scan depends on which job it is. GateIsHonest has no bounds.
* *LOC002.* Three ids and four rows give chains, self-loops, two- and three-cycles, tails into
  cycles, dangling parents and repeated rows. CyclePassExact has no bounds.
* *Curation.* Duplicates and conflicts are about two rows; the third object of the second
  collection shows that a pair need not be adjacent. Edits are single rows; a longer edit is a
  series of them.
* *Sampling.* Limits below, at and above the length of the source, and one that is refused;
  SampleBounded and FetchBounded have no bounds. Four records put an odd one before, at and after
  the limit.
  Relational exports have two objects so that a limit can cut one off, and makers whose lives
  touch and miss the production ranges in a single year. Years end at 99. One padded spelling of
  an object id and one of a maker's id suffice, since ids are compared only for equality.
* *Media.* Two files are enough for duplicates, three rows for one row repeating another's file;
  one change of one file can fall between any two operations. Five contents: every outcome of
  `verify()`, with sizes on both sides of the minimum.
* *Benchmark.* Two errors per loop with both turns of the alternation of `BlankField`; four
  objects let both injectors hit the same row. Rows that exceed the pool are refused, which the
  counts reach. A clean object's range is 40 years in the first suite, 0 in the second.
* *Ingestion.* A failing row first, in the middle and last. `MaxAdded` is 3: an object, its rights
  record and a media row that refers to both are the chain that the order of reading can cut.
* *Reports.* `MaxCalls` is 7: three registrations, two scans and two changes between or before them,
  the scans at the same hour or not. Settings of different rules are independent, which
  SettingsAsAsked shows for all bounds.

Deadlock checking is off where a program ends: a scan, a listing, a sampling or a benchmark
that has finished takes no more steps.

### Fairness

* ScanRun: `WF_vars(Step(j))` - a started process that is not killed is scheduled. `Start`,
  `Kill`, `WriteError` and the curator are never obliged to happen.
* LocationHierarchy: `WF_hierarchyVars(HierarchyNext)` of a single sequential loop.
* The others: none. Their properties are about what is reached, not that it is reached, and a
  saver, loader or sampler may stop anywhere (a stalled connection keeps the script waiting).

Nothing has strong fairness: the code has no lock or queue to be treated fairly by.

## 4. Proofs

TLAPS (1.4.5) checks, from the named assumptions on the constants that TLC evaluates in the runs:

* **TypeCorrect** (ScanRun_proofs): `Spec => []TypeOK`. `TypeOK` is not inductive: it allows a
  job without a command line anywhere. `Typed` adds that a started job has one and that a job
  past ingestion has an input.
* **GateIsHonest** (ScanRun_proofs): `Spec => []VerdictHonest`, with no premise, for any number
  of jobs in any interleaving with kills, failures and replaced baselines. `HonestInv` carries the
  two inputs of the verdict across the file writes between: `Pipeline` (findings are those of the
  ingested input from Evaluate on), `Watched` (whatever a baseline file that is yet to be read
  holds, whoever put it there, is recorded in `had`) and `BaselineLoaded` (what was read is one
  of the lists of findings recorded, and stays). That the list need not be the one the scan was
  started against is no weakness of the proof: nothing in the code holds the file still, and
  `scan_self_baseline` violates the stronger statement.
* **RefusalIsClean** (ScanRun_proofs): `Spec => []RefusalLeavesNoRecord`, with no premise.
  `RefusalInv` ties every text on the disk to the index its writer had reached (`WrittenBy`) and
  says where a refusal can come from (`RefusedEarly`): before the first file, or at index 6.
* **ScanKeepsContract** (ScanRun_proofs): `Spec => KeepsContract`, with no premise: initial
  states map to initial states, and each step to a step of ScanContract or a stutter. To HonestInv
  and RefusalInv it adds `RecordsFollow`: a record is written by its own run's last writing step
  only, so that whoever is refused has none and whoever decides has the one asked for.
* **CyclePassExact** (Rules_proofs): for every table the reported nodes are those
  visited that lie on a cycle. "On a cycle" is defined by upwards closed sets, not by paths, so
  no induction along the chain is needed: `TrailComplete` makes the set seen by a failing walk a
  closed set without the start, `TrailForced` makes a walk that returns a proof that every
  closed set holds it.
* **FirstParentWins** (Rules_proofs): `HierarchySpec => []FirstParentKept`; one lemma says what
  one more row does to the first row that names a parent.
* **VerdictIsBacked** and **LeftoversExplained** (ScanRun_proofs): `Spec => VerdictReported` and
  `Spec => []LeftoverComparisonExplained`. Both follow from `InHand`: while a job is not disturbed,
  or as long as the findings.json of its directory is its own, every file it has written to the end
  is there with its text. The lemmas say why a step of another job does not harm that: it writes
  elsewhere (OthersKeepOff), or it would have begun with the findings.json
  (OthersBeginWithFindings). `Opened` says that the file being written was emptied by its writer,
  `NoCompany` that a job started alone stays alone, `Owned` that texts lie where their jobs were
  sent.
* **RefusalsHaveReasons** and **OneRunServed** (ScanRun_proofs): on top of that invariant, `Parsed`
  follows the loader's stages and `Mirrors` says that memory and disk agree as long as nobody scans
  there. `Reasoned` keeps what the loader was refused over, `BegunOnly` says that a directory
  without findings has seen scans break off over their first file, and `Ended` that a scan that is
  over has an outcome: so where the findings parse, their run did not come to its end, since
  otherwise all its reports would be in hand. The assumption is that the viewer is given an output
  directory.
* **ListingIsTrue** and **OnlyUnfinishedSavesBreak** (RunStore_proofs): `FilesFollow` ties a
  record's file to how far its saver got, `ListingComplete` keeps every run saved at the beginning
  among the names to read or the summaries read, through the interleaved saves.
* **SettingsAsAsked** (Reports_proofs): `Spec => []AsAsked` for any rules and calls. `AsAsked` is
  carried by `KeepInv`: the types, `NoIdTwice` (an id that is registered is not added again) and
  `SettingsKept` (each setting holds what was last asked, and a rejected call has left none).
* **FetchImplementsSampling** and **FetchBounded** (FetchSample_proofs): `FetchSpec => Spec`, the
  refinement being the identity on the variables of LineSampling; the directory path and refused
  arguments stutter. It rests on FetchAssumption (accepted limits are limits of LineSampling).
* **MediaJudged** and **BreaksExplained** (Rules_proofs): `Spec => []UntouchedJudgedRight` and
  `Spec => []RaisedByAFile`, for any media table, media root and number of changes. The invariant
  says rule by rule which rows a rule is past (`Past`) and that it has found there, in files left
  alone, what it should and nothing else (`Judged`, `Hashed`, `Grouped`). `Looking` carries what
  `is_file` saw to the read after it: a row being read holds a file, or its path has changed. Two
  ends are left: MEDIA002 over such a change or a locked file, MEDIA004 over an image that raises.
* **SampleBounded** (FetchSample_proofs): for every limit and source, endless ones included,
  reading stops within limit + 2 lines, the lines kept are the source's first, and they are
  fewer than asked only when the source has no more. `Progress` relates lines consumed to lines
  kept.

* **FingerprintsIdentify**, **MovingRowsKeepsFingerprints**, **EditsAreLocal**,
  **RightsFindingsHandOver**, **RightsFlaggedOnce** and **SilenceIsSoundness** (Curation_proofs):
  the six properties of the `curation` run, for tables of any length over any rows. `AllPrints`
  takes the fingerprints of a scan apart, rule by rule, into statements "some rows satisfy this"
  that name no row number. A moved or removed row is then a map from the new row numbers to the old
  ones (`Drawn`, `Without`) under which each statement survives, and an edit changes a statement's
  truth only for the ids of its row. FingerprintsIdentify has the premise `RequiredOnce` beside
  `UniqueIds`; TLC finds it false without, on the third collection. `CollectionsAssumption` says
  that every row has the columns the rules read (`canonical/models.py`) and that the vocabularies
  are a finite dict.
* **ManifestOfTheRead**, **OnlyYoungOrphans**, **WaysInAgree** and **NothingLostOnTheWayIn**
  (Ingestion_proofs): for any tables, headers, mappings, profiles and growth. `IngestionInv` has
  four parts, checked by TLC before they were proved. `Growing`: a file only grows, by no more lines
  than were added. `Reading`: each entity read is what its builder makes of a moment of its file
  since the load began, and is loaded or refused as a whole. `Hashed`: the manifest is of the files
  as they were at the hashing, which begin with what was read. `References`: the rights that objects
  and media read so far refer to (`Named`) are among the rights on disk until those are read, and
  then among those read. The last one needs that a table which grows keeps its records and gains
  some (`LoadGrows`); for CSV this rests on the k-th line that is not blank staying the k-th. The
  proof counts positions (`LinesAre`) where one would expect an induction over lines.
  `CommandsAssumption` says that a CSV file has no column name twice and that the CSV adapter takes
  no mapping of fields.

* **SampleIsClosed**, **SampleFindsTheSame**, **SampleRaisesNoFalseAlarm**, **LifespanRuleIsExact**
  and **DisplayOrderRules** (FetchSample_proofs): the relational sample, for exports of any size.
  `NgaInv` says what is kept belongs together (`Closed`), is all that belongs to the kept objects
  while the export is at rest (`Whole`), lies in the directory once it is written (`Copied`), and
  that a directory fed by one unchanged export holds rows of it only, whatever was killed
  (`Theirs`). `SchemaIs`, `RangeIs` and `LifeIs` state what the date rules find row by row, so that
  samples and exports are compared as sets of rows; what is kept by raw ids is, after stripping,
  what belongs together by stripped ids if ids are written alike (`KeptStripped`). SampleFaithful
  has that premise (`WrittenAlike`) and asks for no byte order mark; NoFalseAlarm has neither, since
  what the sampler drops can only take findings away. Three of the theorems assume `KeysUnique`: no
  object id and no constituent id is repeated, as in the instance. The premise is needed: an agent
  listed twice has the dates of its last row, of which a killed run may have written only the first
  (TLC finds `NoFalseAlarm` and `ConflictIffDisjoint` violated for such an export), and of two rows
  of one object the limit may fall in between. For SampleFindsTheSame unique object ids would do.
  Makers are ordered by rank (`Place`) instead of a sort, so that DisplayOrderRules is a count: if
  the n-th link of one order came before the n-th of the other, `FS_PigeonHole` would put n links
  into n - 1 places. FetchAssumption says with `WellFormed` that rows have numbers or empty cells as
  ids of makers and as display orders.

* **ReportsAgree**, **ViewerFindsAll**, **BaselineSeesOnlySwitches** and **RowOrderIrrelevant**
  (Reports_proofs): the reports, for any rules, data, grades and calls. To `KeepInv` the invariant
  `ReportsInv` adds that a scan which was made (`Done`) has its rules once each and, at every place
  where a rule found something, the finding as that rule was then graded (`TellsAt`). Sorts and
  filters are listings of a finite set in a strict order (`Listing`), which is the only one with its
  elements in that order (`ListingIsOnly`): so a stable sort whose keys tell the rows apart forgets
  how they came. The hour and the row numbers are no keys, so that sorting the findings and leaving
  those out is the same in either order (`SortStates`, `ReportsState`), and what is left of two
  scans of the same data is the same findings (`BareAlike`), and a filter of a filter is one listing
  of the common positions. The counts add up because each finding has its own slot in the class it
  is counted in. DigestAssumption says that the hash tells rule, entity and keys apart: left out are
  collisions of SHA-256 and ids that differ only in the blanks around them, which
  `compute_fingerprint` strips.

* **SampleReadsBack** (FetchSample_proofs): `FetchSpec => []SampleReads` for any file, limit and
  path. `Opened` says that the source is the file's lines as the path reads them and that a written
  output is the finished sample; with the invariant of SampleBounded it makes the sample a first
  part of those lines. That a first part reads back as the first records is a count: the number of
  a record is how many first lines stand up to it (`Nth`), and two lists of lines that agree up to
  there give it the same number (`ReadAlike`). On the local path `SameLines` says that splitlines
  and the response give the same lines before the first record taken apart, and `IntactFirst` that
  the records before it are the first ones. FetchAssumption says that files consist of whole records.

* **BenchmarkCloses** and **RowsNeverRunOut** (Benchmark_proofs): `Spec => []Closure` and
  `Spec => []RowsSuffice`, for clean tables of any size, any counts and every composable plan. The
  invariant `BenchInv` describes the tables by the labels alone: `CoreInv`, `DateInv`, `StatusInv`,
  `MediaInv`, `PlaceInv` and `TreeInv` say of each column which cells are no longer clean and which
  label each of these has, and the `Closed...` lemmas read the findings of the ten rules off that.
  `Apart` says that no label is given twice, `PoolInv` that a row still in the pool has no error
  of the running injector, `PlanInv` that of the injectors still to be called none has left a
  label, and `ExtraInv` that the assignments added so far have the ids of the turns that added them.
  LOC002 is the hardest: that an injected pair is a cycle, that a node hanging below one is not
  on it, and that the rest stays a tree, is said with the numbers of the nodes, since a clean
  parent has a smaller one. `Room` carries RowsSuffice: each error still asked for has its own
  slot (`Slots`), and there are no more slots than rows in the pool. SuitesAssumption holds the
  sizes and `Composable`; without the latter Closure is false, since an error may undo another.

Only model-checked: `EveryScanEnds` and `RuleEnds`, the liveness properties. They need fairness
and ENABLED. Every invariant and action property of a passing run is stated by a theorem.

Induction over data is out of the provers' reach in general. Where a theorem above needed
one, the proof goes by a least counterexample (`Least` in Ingestion_proofs), by counting, or by
closed sets.

## 5. Where the code and its documents disagree

One disagreement is checked as a run that must be violated, `scan_self_baseline`: `cli.py:122`
offers `--baseline` as "A prior findings.json to compare against", but the reports are written
(`cli.py:200`) before the baseline is read (`cli.py:230`), so that a baseline inside the output
directory is the scan's own report and `--only-new` passes any new finding.

No run is given to a second one, about reports: `reporting/csv_report.py:5` says of the order of
the rows that "two runs over the same findings produce identical CSV". That is so of one list of
findings written twice; two scans of the same data differ in `created_at` (`rules/base.py:104`,
`reporting/csv_report.py:67`) and, if the rows came in another order, in the row numbers of
`evidence_json`. `OrderIrrelevant` says that nothing else differs, and that much only where the
fingerprints are distinct.

The following were met while modelling. The models contain the behaviour; the properties state
what holds beside it, so each entry names the condition under which the documented promise is kept.

* `cli.py:165` catches four exception types. Another one, such as the `TypeError` of
  `hash_record` on a row with surplus cells (`csv_adapter.py:55`), ends the process with exit 1,
  which `BUILD_BRIEF.md` reserves for a reached threshold. ScanRun ends such a job as "raised";
  it leaves no verdict (`KeepsContract`).
* `--baseline` is "A prior findings.json" (`cli.py:122`), which suggests the file as it was when the
  scan was started. It is read after six reports are written (`cli.py:230`) and nothing holds it
  still: a curator who copies another report over it meanwhile (`src/docs/DEMO.md`, section 5)
  changes the verdict, and a scan that meets the copy half made is refused. `VerdictHonest`
  allows any list of findings the file held since the start.
* Findings are compared and looked up by their fingerprints (`engine/baselines.py:52-58`), but
  `--required-field title --required-field title` is accepted (`cli.py:155`) and reports every
  object without a title twice under one fingerprint (`rules/core_rules.py:100-104`).
  `OneFindingPerFingerprint` asks that no field is required twice.
* `bound_nga_directory` promises a sample that "ingests cleanly" (`ingestion/sampling.py:65`), but
  it compares id cells as they stand (lines 73-80), while the adapter strips them
  (`ingestion/nga_adapter.py:89-90`, `ingestion/mapper.py:167`): links and makers whose ids are
  padded in one table only are dropped, and the findings they would give with them. It also reads
  plain UTF-8 (line 46), where the adapter's reader drops a byte order mark
  (`ingestion/readers.py:32`): a mark before the objects is a KeyError at line 73, one before
  another table empties it. `SampleFaithful` asks for ids written alike and no mark; the other
  properties do not.
* `RunView` is "An immutable snapshot of one scan run's artifacts" (`api/run_view.py:27`), but
  `load` compares nothing: after a scan killed between two of its reports it mixes two runs.
  `QuietViewIsOneRun` holds where the loaded run got past its manifest and nobody writes.
* `/report` opens `report.html` at each request (`api/views.py:66`), so after a rescan the page
  and the findings served are of different runs; they agree while the directory is quiet.
* `rights_by_id` keeps the last row of a repeated id (`rules/rights_rules.py:49`), so that the
  order of rights rows with one id changes findings, although `docs/VALIDATION_LOOPS.md:61` calls
  fingerprints "insensitive to input row order". `RowOrderIrrelevant` asks for distinct ids.
* `bound_csv_text` keeps "the first `limit` data rows" (`ingestion/sampling.py:40`) but counts
  lines: a record with a line break in a quoted cell can be cut in two, and counts twice.
  `SampleReads` allows that for the last record and says that nothing else happens.
* `src/scripts/fetch_sample.py:62` takes a local file apart with `splitlines`, which also ends a
  line at U+2028 or a form feed; the same file from a URL keeps such a record whole. `SampleReads`
  compares with the source only up to the first such record of a local file.
* `ingestion/sampling.py:9` says that nothing there writes to a source file, but the script does
  if `--output` names the same path as `--from` (`src/scripts/fetch_sample.py:68`). The model has
  two files.
* A comment in `ingestion/mapper.py:238` leaves integers that do not parse to SCHEMA001, but
  SCHEMA001 looks at the dates of objects only; such a value is unset without a finding.
* `is_primary` may be mapped (it is a scalar field of media in `ingestion/mapper.py`), but
  `_build_media` never sets it (`ScalarFields`, `BuiltScalars`).
* The manifest hashes the input when the scan is over (`engine/run_manifest.py:65`), not when it
  is read. `ManifestTrue` says by how much the two may differ for an export that only grows.
* A link without a display order is ordered by its row number (`ingestion/nga_adapter.py:94`),
  although lines 82-83 promise a list "stable regardless of link-table row order".
  `DisplayOrderDecides` asks for a display order on every link.
* MEDIA004 stands for "a file exists but cannot be decoded" (`rules/media_rules.py:171`), but a
  file that may not be read ends the scan earlier, in MEDIA002's `hash_file` (line 93).
  `RaisedByAFile` lists this among the ways a scan breaks off.
* A PNG with a damaged chunk or checksum cannot be decoded either, but Pillow's `verify()` raises
  a SyntaxError over it, which `engine/media_files.py:49` does not catch: the scan ends with a
  traceback instead of a finding of MEDIA004. `RaisedByAFile` names this case.
* Row numbers match "what a spreadsheet shows" (`ingestion/readers.py:4-6`) only as long as no
  line is blank: `csv.DictReader` passes over blank lines. `WholeOrRefused` says by how much.
* "No row receives more than one injected error" (`benchmark/injectors.py:9`) holds within one
  injector; `run_benchmark` calls two on the same rows (`benchmark/runner.py:101`). `Closure`
  shows that the scores are right all the same.

## 6. Not modelled

* Layout, wording and escaping of the reports, the pages' templates and the site: no property is
  about them. Of `reporting/html_report.py` the order of the findings and the table of rules are
  modelled, the markup is not.
* The validation of types by pydantic, the YAML parser, the CSV and JSON readers of Python and the
  HTTP exchange are external: they appear by what the code does with their outcome.
* A table is read at one moment. A file that is cut or rewritten while `read_rows` reads it is not
  modelled; between two tables, and before the hashing, the export does change.
* `benchmark/source_fixtures.py` and `benchmark/dataset.py` write example files for tests.
* The ratios of the benchmark's score (precision, recall, F1) are functions of the counts modelled.
* The optional AI layer and database of `src/BUILD_BRIEF.md` are not in the code.

## 7. Order of the work, and what is left

Done, in this order: scan pipeline and contract; LOC002; viewer; run history; rules and curation;
line and relational sampling; media; ingestion; benchmark; registry and reports; the sampling
script; ingestion of all five entities from a growing export; the theorems about evidence, viewer,
history and media files; those about the entity rules under edits, about ingestion, about the
relational sample and about the reports; those about the benchmark and about the sample read back.

Left, in the order of their worth:

1. One model of an export that changes while a scan reads it, joined to ScanRun, in place of the
   input that ScanRun reads in one step.
2. Rewrites, not only growth, in Ingestion.
