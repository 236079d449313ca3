# Formal model of the duckdb_spatial R-tree fuzz harness and the docs tooling

This directory holds TLA+ modules, TLC configurations and TLAPS proofs for the
parts of the `duckdb_spatial` repository that have a state machine or an
algorithm worth checking. The spatial extension itself is C++ built on DuckDB.
Its runtime is out of scope. Only the behaviour the Python harness relies on is
abstracted, and it is marked `spec_modelled` in `PROJECT.json`.

## 1. Inventory

### R-tree fuzz harness: `src/test/python/rtree_fuzz.py`

A sequential script that drives one DuckDB connection through a long random
workload. The workload is interleaved with checkpoints, soft reloads and hard
restarts.

| Part | Lines | State | Operations |
|---|---|---|---|
| Rectangle sampler | 10-17 | none | `generate_rectangle`: `x1 = randrange(W-1)`, `x2 = randrange(x1, W)`, and the same for y |
| Workload generator | 19-43 | none in Python; the engine holds `tbl` | `generate_insert` (INSERT `ST_GeneratePoints(box, n)`), `generate_delete` (DELETE where `ST_Within` envelope), `generate_query` (a coin picks one) |
| Driver / setup | 47-65 | `con`, fuzz.db on disk | remove the db, connect, LOAD, `CREATE TABLE`, `CREATE INDEX ... USING rtree` |
| Lifecycle controller | 67-96 | `checkpoints`, `restarts`, `hard_restarts`, `con` | at `i % 500 == 0`: CHECKPOINT (1/4), soft reload (3/16), hard restart (9/16) |
| Final report | 102-104 | none | prints the counters |

The parts interact as follows:
- The only shared state is the connection `con` and the database behind it.
- A soft reload replaces `con` with a fresh connection to `fuzz.db`, and only after that does it LOAD the extension.
- A hard restart first switches off checkpoint-on-shutdown, so the close leaves a WAL (write-ahead log) to replay. It then opens an in-memory instance, LOADs the extension, ATTACHes `fuzz.db` and `USE`s it.

Hard behaviours:
- Order-dependent recovery. The WAL holds R-tree index entries, so it can only be replayed once the extension is loaded.
- A pragma issued before one close that must not apply to the other kind of close.
- The default catalog after ATTACH.
- The `i = 0` boundary of the cadence.
- Degenerate random rectangles.

The harness is single-threaded, so it has no interleavings. Its hazards are
sequences of calls.

Correctness properties:
- The engine never rejects a call the harness makes.
- The counters add up to the number of cadence boundaries passed.
- Every rectangle has `x1 < x2` and `y1 < y2`, as the comment on line 11 says.

### DuckDB storage and the R-tree index (external)

This code is not under `src/`. It is modelled from the spec, and only to the
level the harness depends on:
- the committed table (row id to position);
- the image written by the last checkpoint;
- whether the WAL holds anything since then;
- the rule that replaying a non-empty WAL that contains R-tree index records needs the extension to be loaded (`ReplayOk`);
- what a close does with and without checkpoint-on-shutdown (`WalAfterClose`, `ImageAfterClose`);
- what a reopen recovers (`Recovered`). It is lossless by assumption: the image, plus the WAL when it is dirty, is the committed table. Row loss or duplication on recovery is therefore an assumption of the model, not something it checks.

### Docs tooling: `src/docs/src/verify.py`, `src/docs/src/generate.py`, `src/generate_function_reference.py`

These are offline scripts. They parse YAML front matter from markdown files,
match doc items against the function catalogue, and write markdown.

Their state is mostly the file system and some in-memory dicts:
- `verify.py`: the alias table and the doc-item table.
- `generate.py`: the sorted file list, the three dicts by doc type (keyed by id) and the tag lists.
- `generate_function_reference.py`: the three lists the catalogue query returns, and `docs/functions.md`, which is truncated before the queries run and written row by row.

The three scripts do not call each other. `verify.py` and `generate.py` read the same
doc files with the same front-matter loop.

Hazards:
- The front-matter loop never ends at EOF when the closing `---` is missing (verify.py:23, generate.py:56).
- Duplicate aliases are reported, then overwritten.
- Doc items are keyed by file name but looked up by id.
- Tagged table functions are dropped from the tag index.
- Two doc files with one id overwrite each other; only the sort makes the result independent of `os.walk` order. The tag lists keep the overwritten file's tags.
- A null description aborts `generate_function_reference.py` half way through writing the reference.

`verify.py` is modelled in `DocsVerify` (§3b), `generate.py` in `DocsGenerate` (§3c) and
`generate_function_reference.py` in `FunctionReference` (§3d).

## 2. Modules

| Module | Models | Role |
|---|---|---|
| `RTreeFuzz` | rtree_fuzz.py and the engine abstraction | component |
| `DocsGenerateFiles` | what generate.py promises, one doc file at a time | abstract specification |
| `RTreeFuzzProofs`, `RTreeFuzzAccounting` | | TLAPS proofs about `RTreeFuzz` |
| `DocsVerifyProofs`, `DocsVerifyAliases` | | TLAPS proofs about `DocsVerify` |
| `DocsGenerateProofs` | | TLAPS proofs about `DocsGenerate` |
| `FunctionReferenceProofs` | | TLAPS proofs about `FunctionReference` |
| `DocsVerify` | verify.py | component |
| `DocsGenerate` | generate.py | component |
| `FunctionReference` | generate_function_reference.py | component |
| `MCRTreeFuzz`, `MCDocsVerify`, `MCDocsGenerate`, `MCFunctionReference` | | TLC instances |

Section 5 lists what is proved and what is only model-checked.

## 3. Module `RTreeFuzz` and the code it models

| Definition | Code |
|---|---|
| `GenerateRectangle` | the set of tuples `generate_rectangle` can return (lines 10-17), over a `MaxWidth x MaxHeight` grid |
| `GeneratedPoints`, `AxisPositions` | what `ST_GeneratePoints` puts in the table. Coordinates are doubled: an even value is a grid line and an odd value is an open cell. A point lies in an open cell of the box, or on the box's line when the box is degenerate on that axis. This is exactly what `ST_Within` of an integer envelope can distinguish. |
| `Within` | `ST_Within(geom, ST_MakeEnvelope(...))` (line 33), strict interior |
| `GenerateInsert`, `GenerateDelete` | lines 19-36. Each includes `con.execute` and `fetchall`; the printed count is formatting and is left out. If the connection cannot run the statement, the exception ends the script (`pc = "failed"`). |
| `Checkpoint` | lines 69-73 |
| `SoftReload` | lines 74-81: close, connect to fuzz.db (replaying the WAL), LOAD, `restarts += 1` |
| `HardRestart` | lines 82-96: pragma, close without checkpoint, in-memory connect, LOAD, ATTACH (replay), USE fuzz, `hard_restarts += 1`. LOAD precedes ATTACH in this fixed order, so the replay always has the extension and the action has no failure branch. |
| `Setup` | lines 47-61 |
| `Finish` | the loop exit and the prints (102-104) |
| `IsLifecycleStep` | `i % 500 == 0`, with the constant `Cadence` standing for 500 |
| `con` | a record: open, default catalog, extension loaded, checkpoint on shutdown |

Random choices become `\E`:
- the coin of `generate_query`;
- the 1/4 and 3/4 choices of the lifecycle branches;
- the rectangle;
- `num_points` (in `0..PointBound-1`);
- which generated point goes to which row.

The probabilities are dropped.

## 3b. Module `DocsVerify` (`src/docs/src/verify.py`)

Data abstraction:
- A doc file is a sequence of line kinds plus the object its front matter decodes to. The line kinds are `delim` (starts with `---`), `body` (a line of well-formed JSON) and `junk`.
- A signature is a return type plus a sequence of parameter types. Parameter names are never compared by the code.
- The contents of the files are chosen in `Init` from `DocChoices`, so one run covers every combination of contents.
- `os.walk` order is arbitrary, so `OpenFile` picks any file not yet walked.

| Definition | Code |
|---|---|
| `OpenFile` | lines 39-48 and 17-20: the next file and its first readline. A file without `---` is ignored (ValueError caught at 55). |
| `ReadLine` | lines 22-25, one loop iteration. At end of file `readline` returns `""`, so the step changes nothing: this is the hang. |
| `EndFrontMatter` | lines 27-31 and 48-56: decode, `items[base] = info`, aliases. A JSON error means the file is ignored. Aliases without an `id` raise a KeyError, which is not caught. |
| `CheckSignatures`, `SigMatches` | lines 126-154 |
| `SkipAlias`, `ReportMissing` | lines 74-80 |
| `CreateDocItem`, `Decline` | lines 80-123 (the user's answer) |
| `Finish` | end of `main` |

`AliasReports` is the test at line 52 that prints "Duplicate alias" for an alias already in the table. The variable `dupAliases` records what was printed.

Fairness: `WF_vars(Next)`. The script is a single thread, and the user is assumed to answer each prompt. Repeated invalid answers to `read_yes_no` are not modelled.

## 3c. Module `DocsGenerate` (`src/docs/src/generate.py`)

The data abstraction is the one of `DocsVerify`. A path is its rank in name order
(`Files == 1..NumFiles`). The sort at line 45 puts at position `j` the path with
`j - 1` smaller paths. A front matter decodes to a type (one of the three doc types,
or `"other"` for any other value or none), an id and a list of tags. The index by
tag is recorded as the set of ids listed under each tag: no property distinguishes
the order or the repetition of entries under a tag.

| Definition | Code |
|---|---|
| `Walk`, `WalkOrders`, `SortItems` | lines 38-45: `os.walk` lists every file once, in any order (`\E w \in WalkOrders`), then the list is sorted |
| `OpenItem` | lines 48-55: open and read the first line; without `---`, ValueError. Nothing catches it, so the script stops (`"crashed"`). |
| `ReadLine` | lines 56-58, one loop iteration; at EOF the step changes nothing |
| `EndFrontMatter`, `Put` | lines 60-82: decode (JSON error: ValueError), dispatch by type (unknown type: ValueError), store under the id (a later file replaces an earlier one) |
| `AddTag`, `TagEntry`, `Data` | lines 84-87, one iteration of the tag loop: create the tag's list if new, append the id |
| `EndTags` | lines 83-84: the tags are done (or there are none); the next item |
| `WriteDocs`, `IndexEntries` | lines 90-149: docs.md is opened only now. `sections` records which file each section entry comes from; `index` records the ids written under each tag, only scalar and aggregate ones (lines 145-148). |

`DocsGenerateFiles` is the same script with a whole doc file as one step. `TakeFile`
takes the next path in name order. When the file's line 1 is `---`, the lines up to the
next `---` decode (`WellFormed`) and the type is known, `Store` puts the item under its
id and adds the id to the set of each of its tags. Any other file stops the script.
`Write` writes docs.md once every path is taken. `DocsGenerate` maps onto it with
`ByFile`:
- `pc` maps to `"run"` until the end;
- `n` counts the current file as taken once its tag loop has started;
- `tags` maps to `TagSets`, the ids listed under each tag plus the tags the current loop still has to record (`Pending`).

`FileRefinement == ByFile!Spec`. The walk, the reading of lines and the steps of the
tag loop are stutters of it. The abstract specification has no fairness. A file with no
closing `---` makes the reader spin forever, and this refinement only sees a stutter
there: `TerminatesWhenDelimited` is the property about that hang.

## 3d. Module `FunctionReference` (`src/generate_function_reference.py`)

A function is its name and its description, which is text, `""` or JSON null. The
catalogue (`Catalogue`, type to sorted names) stands for what `duckdb_functions()`
returns.

| Definition | Code |
|---|---|
| `Collect`, `QueryResults` | lines 51-59 and 32-36: functions.md is opened for writing, then the three queries run. When the shell cannot run the binary, `readlines()` is empty and no exception is raised, so a list can be empty. |
| `TocRow`, `SummaryOk` | lines 38-44: one index row; `description.split` raises on None |
| `Section` | lines 78-134: one section; its summary (line 80 or 110) is taken before the description test at line 90 or 120 |
| `NextList`, `IndexOrder`, `SectionOrder` | the loops of lines 61-72, 75 and 107-108 over the three lists |

Markdown layout, the SQL text and `to_kebab_case` are formatting and are not modelled.

## 4. Runs

All runs use `MCRTreeFuzz` with these bounds:
- 7 iterations;
- cadence 3, so lifecycle events happen at i = 0, 3 and 6, which allows every pair of consecutive lifecycle kinds with workload between them;
- a 3 x 2 grid, so there are non-degenerate boxes, degenerate boxes, and points inside and outside delete envelopes;
- up to 1 point per insert.

One point per insert is enough: the properties are about whole rows, not about how many rows an insert adds. With these bounds:
- every branch occurs, including a hard restart directly after setup (i = 0);
- a soft reload directly follows a hard restart;
- a soft reload can follow workload written after a hard restart's close without checkpoint.

`CHECK_DEADLOCK FALSE` is set because the script really stops: `Finish` leads to `done`. The failed state is a stop as well.

| Run | Expect | Properties | What it shows |
|---|---|---|---|
| `fuzz_safety` | pass | `TypeOK`, `HarnessNeverAborts`, `CountersMatchCadence` | The call order of the three lifecycle branches never makes the engine reject a statement. The counters match the number of boundaries passed. |
| `fuzz_rectangle_degenerate` | violation | `RectangleWellFormed` | `generate_rectangle` returns `x1 = x2` (line 14) or `y1 = y2` (line 16), contrary to its comment: a finding. |

`MCDocsVerify` uses:
- two files, `st_a` and `st_b`;
- front matters that are well formed (with an alias, with an id other than the file name, with a signature of the wrong arity), broken JSON, unopened and unclosed;
- a catalogue of four lines: scalar `st_a`, table `st_b`, aggregate `st_c` (documented only as an alias), and aggregate `st_b` again.

The repeated `st_b` means a later line can be checked against an item created for an earlier one.

| Run | Expect | Properties | What it shows |
|---|---|---|---|
| `docs_verify` | pass | `TypeOK`, `DuplicateAliasesReported`, `MissingDocMatchesFiles`, `SignatureReportsMatchReference`, `TerminatesWhenDelimited` | The code's match test reports exactly the signatures that the reference definition of a match (equal parameter types; equal return type unless a table function) leaves unmatched. The script terminates whenever every opened front matter is closed. "Duplicate alias" is printed once for each well-formed file claiming an alias, except the first. "Missing doc item" is printed exactly for the ids no well-formed file is named after or claims as an alias (`HasDocFile`), apart from items created at an earlier prompt. That is verify.py's own keying, by base name; the `docs_verify_missing` finding is about how it differs from the ids. The mutant `ReportMissingIgnoringAliases` (the alias test at line 75 dropped) breaks it. |
| `docs_verify_hang` | violation | `Terminates` | A front matter with `---` and no closing `---` makes `try_parse_frontmatter` spin at end of file (verify.py:23; generate.py:56 has the same loop). The comment at line 56 says invalid front matter is ignored. |
| `docs_verify_missing` | violation | `NoSpuriousMissingDoc` | Items are keyed by file base name (line 49) but looked up by id (line 74). A well-formed doc file named differently from its id is reported "Missing doc item", and the user is offered to create a second file for it. |

`MCDocsGenerate` uses three files. Their contents range over:
- three scalar items for `st_a`: untagged, tagged `t`, and tagged `u` then `t`;
- an aggregate item and a table item for `st_b`, both tagged `t`;
- an item of unknown type;
- the three malformed layouts.

Together with every `os.walk` order, this covers:
- duplicate ids in either order;
- an id that is a scalar in one file and a table function in another;
- a tag loop of two steps, over a tag that is new and then one that may already be listed;
- every kind of crash.

| Run | Expect | Properties | What it shows |
|---|---|---|---|
| `docs_generate` | pass | `TypeOK`, `LastFileWins`, `IndexComplete`, `TerminatesWhenDelimited`, `FileRefinement` | For a repeated id, docs.md shows the file that sorts last, whatever the walk order. Every scalar and aggregate function is listed under each tag of its written doc. The script ends whenever every front matter is closed. The line-by-line reader and the tag loop implement taking one whole file at a time, in path order: a file is stored exactly when its front matter is closed, decodes and has a known type. The mutant `EndFrontMatterNoJsonCheck` (a front matter that does not decode is stored anyway) breaks the refinement. |
| `docs_generate_tags` | violation | `AllTaggedItemsIndexed` | A tagged table function is missing from "Functions by tag", although line 140 says all tagged items are written: a finding. |

`MCFunctionReference` uses two scalar functions, one aggregate and one table function. Each description is text, `""` or null, and each query may come back empty.

| Run | Expect | Properties | What it shows |
|---|---|---|---|
| `function_reference` | pass | `SectionsFollowIndex` | A completed functions.md has one section per index row, in index order. |
| `function_reference_null` | violation | `MissingDescriptionHandled` | A null description raises at line 43, in the index, before the "No description" branch (lines 90-95) meant for it, leaving functions.md half written: a finding. |

Each property of a passing run has a mutant, a plausible code change that TLC catches. The most instructive one is `SoftReloadClosingWithPragma`. It applies `disable_checkpoint_on_shutdown` to the soft reload too, which is the open question of the spec. The soft reload then reconnects to fuzz.db and replays a dirty WAL before LOAD, so the run aborts. The soft reload is correct only because its close checkpoints.

Mutants for the new properties:
- `UnsortedItems`: no sort. It breaks `LastFileWins`.
- `TagEntryFirstOnly`: only the first id per tag is recorded. It breaks `IndexComplete`.
- `OpenItemNoStartCheck` (generate.py) and `OpenFileNoStartCheck` (verify.py): no test for the opening `---` on the first line, so the reader enters the front-matter loop of a file without one and spins at its end. They break `TerminatesWhenDelimited`.
- `AliasReportsAfterAssign`: the duplicate test runs after the store. It breaks `DuplicateAliasesReported`.
- `SectionOrderSwapped`: the sections are written in another order. It breaks `SectionsFollowIndex`.

No fairness is assumed and no liveness is claimed for the harness. It is a bounded for-loop, so its termination is not a question worth a run.

## 5. Proofs

The theorems are proved by TLAPS for every value of the constants that satisfies the ASSUMEs of the module that declares them. Each one states a property that a run also checks. The run shows it on a small instance; the theorem shows it for all instances.

### `RTreeFuzzProofs`, `RTreeFuzzAccounting`

Assumptions of `RTreeFuzz`:
- `Iterations \in Nat`;
- `Cadence \in Nat \ {0}`;
- `MaxWidth, MaxHeight >= 2`;
- `PointBound \in Nat \ {0}`.

`RTreeFuzzProofs`:
- `TypeCorrect`: `Spec => []TypeOK`. `TypeOK` is inductive by itself. It says that row ids are below `nextId` and that every row and every checkpointed row lies on the grid. The proof rests on three lemmas:
  - `GeneratedPointsInGrid`: generated points lie in `Point`;
  - `AxisPositionsInRange`.
- `NeverAborts`: `Spec => []HarnessNeverAborts`. `pc # "failed"` is not inductive by itself. It is strengthened to `SessionInvariant`: in the loop, the connection is exactly `FuzzCon`. That means it is open, its default catalog is fuzz, the extension is loaded, and checkpoint on shutdown is on. With that strengthening:
  - every workload step is accepted;
  - a checkpoint is accepted;
  - a soft reload's close checkpoints, so its LOAD after connecting replays nothing (lemma `SoftReloadReplaysNothing`);
  - a hard restart loads the extension before ATTACH, and its new connection has checkpoint on shutdown on again.

  Lemma `SessionInvariantHolds` (`Spec => []SessionInvariant`) carries the induction. `SessionInvariant` is defined in `RTreeFuzzProofs`; it is the proof's strengthening, not a property of its own.

`RTreeFuzzAccounting`:
- `CountersMatchCadenceHolds`: `Spec => []CountersMatchCadence`.
  - The invariant is not inductive by itself, for two reasons. It says nothing before setup, so setup needs to know that the loop counter and the three lifecycle counters are still zero. The new conjunct `StartsAtZero` says so.
  - `BoundariesStep` is the arithmetic lemma: `(x + C) \div C` is `(x + C - 1) \div C`, plus one exactly when `x % C = 0`.
  - A lifecycle step that succeeds moves `i` and one counter together. A soft reload that fails moves neither and stops the loop.
  - A workload step moves `i` only off a boundary.

### `DocsVerifyProofs`

Assumptions of `DocsVerify`:
- the catalogue's lines and the doc files are well typed;
- `TableType \in DocTypes`;
- `MaxLines \in Nat \ {0}`.

The theorems:
- `DocsTypeCorrect`: `Spec => []TypeOK`. Two facts make `TypeOK` inductive:
  - `Reading`: inside the front matter, `buf` holds one line per line read, so `Len(buf) = pos - 2` and `pos <= Len(lines) + 1`;
  - `Prompting`: the prompt is about a line of the catalogue.
- `SignatureReportsCorrect`: `Spec => SignatureReportsMatchReference`. This is an action property: at a documented line `k`, the "Missing signature" reports the step adds are exactly the catalogue signatures that no documented signature matches under the reference comparison (same parameter list, and the same return type unless the function is a table function). It rests on two facts:
  - `SigMatchesIsReference`: the code's test (equal lengths, then equal types position by position) is equality of the parameter lists, by `SeqEqual`;
  - `ReportsBefore`: every earlier report belongs to an earlier line, so the reports of line `k` are all new.

### `DocsVerifyAliases`

Additional assumption of `DocsVerify`: `Bases` is finite (the files under `functions/`).

- `DuplicateAliasesCounted`: `Spec => []DuplicateAliasesReported`. The property compares the reports with `FrontMatterOk`, a definition on the whole file, and it says nothing while a file is being read. The inductive invariant `AliasInv` adds three facts to `DVInv`:
  - `ReadPrefix`: inside a front matter, line 1 is `---`, `buf` is lines 2 to `pos - 1`, and none of them starts with `---`. With it, lemma `FrontMatterClosed` shows that at the closing `---` the file is well formed exactly when `buf` decodes. The closing `---` of `FrontMatterOk` is the first one after line 1, and that is the line at `pos`.
  - `AliasTable`: the alias table holds exactly the aliases claimed by a well-formed file parsed so far.
  - `DupCount`: the files reported for an alias are claimants, and there is one fewer of them than there are claimants.
  
  A decoded file adds itself to the claimants of each of its aliases. It is reported for exactly those aliases already in the table, that is, those with an earlier claimant (cardinality by `FS_AddElement`). A file that fails to decode, or has no opening `---`, changes neither set. The step that raises KeyError ends in `"crashed"`, where the property says nothing.

- `MissingDocReportsExact`: `Spec => []MissingDocMatchesFiles`. The invariant `ReportInv` adds two facts to `AliasInv`:
  - `Phases`: the catalogue loop has not started during the walk, it starts after the whole walk, and the line whose prompt is open has been reported.
  - `ItemTable`: the item table holds exactly the well-formed files parsed, stored under their base names, and the items created at the prompt. Like the alias table, it rests on `FrontMatterClosed`.
  
  With `AliasTable`, lemma `LookupMeansFile` shows that the two lookups of lines 73-75 fail exactly for an id that no well-formed file is named after or claims, and that was not created before.

### `DocsGenerateProofs`

Assumptions of `DocsGenerate`: `NumFiles \in Nat`, `MaxLines \in Nat`, and the doc files are well typed.

- `SortWalk` (lemma): whatever order `os.walk` lists the files in, `SortItems` yields `1..NumFiles`. An injection of `1..N` into itself is onto (`FS_Injection`), and the path of rank `j` is `j` (`FS_Interval`).
- `DocsGenerateTypeCorrect`, `LastFileWinsHolds`, `IndexCompleteHolds`: `Spec => []TypeOK`, `[]LastFileWins` and `[]IndexComplete`. The two properties speak only of the end of `main()`, so they are not inductive. `GInv` describes every point of the loop:
  - `Walked`: the items are `1..NumFiles` once walked, and the loop stands inside them.
  - `LastSoFar`: every stored path has an entry under its type and id, from itself or a larger path, and every entry comes from a stored path with that id. A new item has the largest path so far, because the list is sorted.
  - `TagsRecorded`: every tag of an item whose tag loop is over, and every tag the current loop has passed, lists the item's id. `TagEntryFacts` shows that `TagEntry` loses no id and adds the new one.
  - `WrittenOut`: docs.md is written from the dictionaries and the tag lists, after the last item.
- `FileRefines`: `Spec => FileRefinement`, the refinement of `DocsGenerateFiles`. It rests on `FInv == GInv /\ ReadPrefix`:
  - `ReadPrefix`: while a front matter is read, line 1 of the file is `---`, and `buf` holds lines `2..pos-1`, none of them `---`. It is needed because `EndFrontMatter` sees only `buf` and the current line, while `WellFormed` speaks of the whole file.
  - With it, `FrontMatterClosed` shows that at the closing `---`, `JsonOk(buf)` holds exactly when `WellFormed(n)` does: the first `---` after line 1 is the only one `WellFormed` can choose.
  - `RefineStep` has one case per action. The successful `EndFrontMatter` is `TakeFile`'s `Store`: the pending tags are the file's tags. A failed `EndFrontMatter`, or an `OpenItem` without `---`, is `TakeFile`'s crash. `WriteDocs` is `Write`. Every other step is a stutter (`QuietStep`). For `AddTag`, `TagViewShift` shows that moving one tag from pending to recorded leaves `TagSets` unchanged; it rests on `TagEntryElems`.

### `FunctionReferenceProofs`

Assumptions of `FunctionReference`: the catalogue has three lists of names, and the descriptions are drawn from `Descs`.

- `SectionsFollowIndexHolds`: `Spec => []SectionsFollowIndex`.
  - `SectionsFollowIndex` says nothing until the end, so it is not inductive. `FRInv` describes the prefix written at every loop position `(ki, k)`: the names of the lists before `ki`, followed by the first `k - 1` functions of list `ki`.
  - During the section loop, the rows are already all of `Listed`.
  - The lemmas are `WriteOne` (one more row appends one name), `EndOfList` (the end of list `ki` is the start of list `ki + 1`) and `BeforeLists`. They rest on `SubSeq` and `\o` facts from `SequenceTheorems`.

### Only model-checked, and why

- The liveness properties `TerminatesWhenDelimited` of `DocsVerify` and `DocsGenerate`. TLAPS 1.4.5 has no support for liveness under fairness or for `ENABLED`.
- What a fold, a sort or a filter over a list computes for every input is an induction over data, which the installed provers cannot do. This is why `DocsGenerate` models the tag loop one step per tag, the sort by rank, and the index by tag as sets, rather than with `FoldLeft`, `SetToSortSeq` and `SelectSeq`. The facts are then proved by induction over the steps of the run.
- The violations of the violation runs. They are counterexamples that TLC finds; they are not theorems.

## 6. Not modelled

- The R-tree index structure and the query executor: C++ in DuckDB and the extension, far beyond TLC, and not what the harness checks.
- Probabilities of the random choices.
- Printing and string formatting, including the printed row counts of `generate_insert` and `generate_delete`.
- Engine failures of the calls themselves (I/O errors, a crashed process) and what recovery does with the rows: `Recovered` is lossless by assumption, and the harness compares no row count.
- In `generate.py`: `write_function`'s layout and the intro text; the file each section comes from is kept.
- In `verify.py`: the tags and summary typed by the user, and the markdown text written for a new item. The model keeps only the item, the set of files written and the reports.
- In `generate_function_reference.py`: the SQL text, the markdown layout, examples and `to_kebab_case`. These are formatting, and no property is about them.
- `any_value` over the overloads of a function: the model takes the description as one value per function.
