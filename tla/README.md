# TLA+ models of workload-automation

These are TLA+ specifications of the parts of `src/wa` whose behaviour depends on
order, interleaving or tables that are hard to test exhaustively. Each part has
TLC configurations that model-check it on small instances. TLAPS proofs cover
the APK metadata cache for every instance. They also prove that `ApkFile.match` meets
spec 4.3 for every input, that `wa show` finds every target when ad hoc
names avoid the default ones, that `instantiate_target` honours the user's parameters
for every description, and that every `get()` step of the resolver is a step of the
spec's single sorted list. `PROJECT.json` lists the runs, the
mutants, and the source lines each definition translates (its `map`). It also
holds the findings and the hazards.

## The system and how its parts interact

| Part | Source | What it does |
|---|---|---|
| APK info cache | `wa/utils/android.py` 160-240 | `get_cacheable_apk_info(path)` stats an APK and keys the cache by `<<path, mtime>>`. It asks the process-wide `ApkInfoCache` (built at import, line 240). `get_info`/`store` first call `_update_cache`, which reloads the JSON file when its `os.stat` changed. On a miss, the APK is parsed (`ApkInfo`) and stored, and `store` rewrites the whole file through `atomic_write_path`. Every WA process has its own instance over one shared file. |
| Resources | `wa/framework/resource.py` 52-198, 310-421 | Resource kinds and their `match` predicates. `ApkFile.match` combines the version, range, variant, package, uiauto and ABI predicates, each computed from `get_cacheable_apk_info`. |
| Resolver | `resource.py` 251-307 | `load()` initializes every `resource_getter` plugin, which `register()`s sources into a `prioritylist`. `get()` asks the sources from the highest priority down and returns the first path found. |
| Target descriptors | `wa/framework/target/descriptor.py` | Parameter tables for targets, platforms and connections. `DefaultTargetDescriptor` builds one description per (platform, target) with overrides applied. Ad hoc descriptions are added by `create_target_description`. `list/get_target_description` merge all descriptors. `instantiate_target` routes user settings to the target, platform and connection parameters. |
| `wa show` | `wa/commands/show.py` | Looks a name up as "settings", then as a plugin, then as a target description, and renders the documentation. |
| Not modelled | `postgres.py`, `default.py`, `command.py`, `run.py`; `ApkInfo`, `LogcatParser`, `build_apk_launch_command` | See the last section. |

`wa.utils.types` (`prioritylist`, `version_tuple`, `list_or_string`, `caseless_string`, `identifier`) are not in this source tree. Where the models need them, they follow `spec.md`, and `PROJECT.json` marks them `spec_modelled`. `get_config_point_map` is not in the tree either, and the spec does not describe it. `ConfigPointMap` models it from the way `instantiate_target` uses it (lines 76-88). Every name and every alias is a key, a later parameter of a key wins, and the test `name == value.name` at line 87 is what tells an alias key from a name key. The one alias in the tables is `adb_name` of `device` (line 362).

## Modules

### `ApkInfoCache` (android.py)

**State.**
- The environment: the APK files (`apkVer`, a content version; `apkMtime`; `apkPresent`) and a `clock` stamping mtimes.
- The cache file: its table `disk` and its identity `diskStat`. Each rename gives a new stat.
- Per process:
  - `mem` (`self.cache`) and `lastMod` (`self.last_modified`);
  - `pc` and `cont` (where the process is inside one call);
  - `callKey` and `callVer` (the key the call built, and, as history, the content the APK had at that `os.stat`);
  - `newInfo` and `out`.
- `written` (every `<<mtime, version>>` an APK had) and `storedKeys` (keys ever persisted) are history variables.

**Actions.** Each step performs at most one file-system operation, so the processes interleave exactly where the code can be interrupted.

| Action | Code |
|---|---|
| `StatApk` / `StatApkMissing` | lines 219-223 / 221 |
| `UpdateCheck`, `UpdateRead`, `UpdateStat` | the three steps of `_update_cache` (205-210) |
| `LookupHit` / `LookupMiss` | `get_info` |
| `Extract` / `ExtractMissing` | 232-234 |
| `Write` | 184-188 (insert in `self.cache`, dump and rename) |
| `StatAfterWrite` | 189 |
| `Restart` | a process dies anywhere and a fresh one runs `__init__` (172-177, 240) |

The environment rewrites an APK (a new version and a strictly later mtime) or deletes it.

`Write` does not model the `to_pod()` of line 186, which serialises the ApkInfo and reads nothing the model tracks.

### `ResourceResolver`, `ResolverSpec`, `MC_ResourceResolver` (resource.py 251-307)

**State.** `getters` and `tiers`: the `prioritylist`, one FIFO sequence per priority, as spec §4.5 describes it.
- `answer` is what each source returns for each resource. It is chosen in `Init` and fixed, since the file system does not change during a run.
- `loads`, `phase` and `result` record the calls.

**Actions.**
- `Load` is a `load()` in which every getter registers its sources.
- `LoadFails(k, m)` is a `load()` whose k-th getter raises after m `register()` calls. The sources registered so far stay, and the getter is not appended. `ResolverSpec` allows the same partial list, because the spec says only that the exception propagates. So no property says whether a resolver used after a failed load is complete.
- `Get` is `get(resource, strict)`.

**Abstract specification.** `ResolverSpec` is what the spec promises: ONE list, sorted by decreasing priority, stable among equal priorities, searched first-match-wins. `MC_ResourceResolver` maps the tiers to that list (`Ordered`: the tiers flattened from the highest priority down) and checks `ResolverRefines == Abstract!Spec`.

### `ResourceMatch`, `ApkMatchCheck`, `ApkMatchRace` (resource.py 84-198, 310-421)

**`ResourceMatch`** holds operators only, one per predicate.
- A version string is a sequence of numeric segments. Each `Segment` is `<<leading zeros, value>>`, so "1" and "01" are different strings with the same value. `VersionTuple` keeps the values, as `version_tuple` does. `apk_version_matches` compares the strings themselves (`version in [name, code]`). The tuples are compared only by the loose prefix match and the range test.
- File names are character sequences, so that `split('.')` and substring search are what they are in Python.
- Python's tuple `<` is `PyTupleLess`.
- `file_name_matches` (370-379) first tests whether the variant is a substring of the base name (`LiteralIn`), then runs `re.search`. The regular expressions are restricted to the alphabet the runs use. `.` matches any character but a newline (`RegexSearch`). An unbalanced `(` is a pattern `re.compile` rejects (`RegexError`). Then `re.search` raises `re.error`, and so does `match` (`FileNameRaises`, `MatchRaises`). Every other metacharacter is kept out of the inputs. The proof states this as its hypothesis `Chars \cap ReMeta \subseteq {".", "("}`.

**`ApkMatchRace`** composes `ApkFile.match` with the APK it judges. `Checks(r)` is the list of predicates the request makes match evaluate, in code order. `Predicate` evaluates the next one on the metadata of the APK's current content, because each predicate calls `get_cacheable_apk_info` itself. `RewriteApk` replaces the content between two predicates. The cache is abstracted to its proved contract (`FreshReturnHolds`): a call returns the content its `os.stat` saw or a newer one, and the current content is one of those.

**`ApkMatchCheck`** is a harness for a pure function. `Init` enumerates every small input, a single `Evaluate` step computes the predicate, and the invariant compares the result with a reference definition written from the spec. `CHECK_DEADLOCK FALSE` is set there because the harness really stops after its one evaluation.

### `TargetTables`, `TargetDescriptor`, `InstantiateCheck` (descriptor.py, show.py)

**`TargetTables`** translates the data and loops of descriptor.py:
- the parameter tables (218-610), each parameter as `[name, default-is-truthy, deprecated, aliases, line]`;
- `SUPPORTED_TARGETS`, `SUPPORTED_PLATFORMS` and the Juno/TC2 overrides;
- `_apply_param_overrides` (`Override`);
- the nested loops of `DefaultTargetDescriptor.get_descriptions` (`DefaultDescriptions`, a `FoldLeft` that carries `target_params` across platforms as the code does);
- `instantiate_target` (`Instantiate`). The assistant parameters that it accepts and ignores are those of the description's own assistant (`AssistantParams(d.assistant)`, `td.assistant_params = assistant.parameters` at line 780). `conn_cls` is passed only from `tdesc.connection` (line 114). The default descriptions leave that attribute `None` (line 170) and keep their connection class in `td.conn` (783/787), so `Instantiate` passes no `conn_cls` for them (`connCls = "None"`). A gem5 description therefore does not hand `Gem5Connection` to the target. Python's `dict.update` on a copy, where the first dict's keys win, is `DictUnion(f, g)`. It is TLC's `@@` written out, because the provers cannot expand `@@`.

**`TargetDescriptor`** is the state machine of the ad hoc list: `CreateTargetDescription`, `ListTargetDescriptions`, `GetTargetDescription`, and `Show` (show.py 53-107). Each lookup is taken over both orders in which the plugin loader may list the two descriptors. `get_descriptions` of the default descriptor depends only on the static tables, so `Init` computes its names once into `defaults`, which no action changes. `Merged(order)` is the concatenated list before the duplicate check, and `ListingFails(order)` is that check failing. The check builds its `PluginLoaderError` message from `.name` of the earlier description's source (line 51). For a default description that source is the `DefaultTargetDescriptor`. For an ad hoc one it is the caller's module path, a string, so the listing raises `AttributeError` instead. `ListingError(order)` says which error, from the descriptor listed first. `get_target_description` and `Show` test it directly. `DefaultNamesDistinct` is an `ASSUME` that the default names, `<platform>_<target>` for each pair the loops emit, are distinct. TLC evaluates it on the tables in every descriptor run.

**`InstantiateCheck`** evaluates `Instantiate` on every default description with up to two user parameters, extra platform parameters and `connect`.

## Runs

| Run | cfg | Result | What it shows |
|---|---|---|---|
| apk_single | `ApkInfoCache_single.cfg` | pass (1449 states) | With one process that may crash, `MemoryCoherent` and `StoreDurable` hold. `MemoryCoherent`: whenever `last_modified` equals the file's stat, `self.cache` equals the file, so the reload test of line 207 is sound. `StoreDurable`: no persisted entry is lost. |
| apk_shared | `ApkInfoCache_shared.cfg` | pass (~1.1M states) | With two processes, rewrites and deletions, `FreshnessInvariant` holds and so does `FreshReturn`, an action property: a returned `ApkInfo` is always of the right APK, of the content seen at the `os.stat` or newer. |
| apk_lost_store | `ApkInfoCache_lost_store.cfg` | violation of `StoreDurable` | Two processes: process 2 loads the file, process 1 stores key A, then process 2 stores key B from its own stale table, and A is gone. |
| apk_missing | `ApkInfoCache_missing_apk.cfg` | violation of `NeverRaises` | A deleted APK makes `os.stat` (line 221) raise, where the spec says the call returns None. |
| resolver_order | `ResourceResolver_order.cfg` | pass (5561 states) | The refinement holds, including after a failed load. |
| apk_match | `ApkMatchCheck_conj.cfg` | pass (158976 states) | When `ApkFile.match` returns, its answer is the conjunction of the criteria that were given, as the spec defines it. A version must equal the name or the code as a string, or be a loose prefix of the name. A variant must be a substring of the file name or match it as a regular expression. |
| apk_match_regex | `ApkMatchCheck_regex.cfg` | violation of `MatchNeverRaises` | The variant `(` is not in the base name `b`, so `re.search("(", "b")` runs and raises `re.error` out of `match`. The spec describes `match` as a conjunction of pure predicates. |
| descriptor_show | `TargetDescriptor_show.cfg` | pass (282 states) | With ad hoc names that differ only in case or that name a plugin, `wa show` finds every target. |
| descriptor_clash | `TargetDescriptor_clash.cfg` | violation of `ShowFindsTargets` | `create_target_description("generic_linux")` is accepted, and afterwards every listing raises. It raises `PluginLoaderError` when the default descriptor is listed first and `AttributeError` otherwise. |
| instantiate_tables | `InstantiateCheck_tables.cfg` | pass (7696 states) | Every default description carries exactly the parameters its tables and overrides give (`DescriptionsMatchTables`), and `instantiate_target` routes each supplied setting to the object that declares it and keeps defaults when none is supplied (`InstantiateHonoursParams`). |
| apk_match_race | `ApkMatchRace_mixed.cfg` | violation of `MatchJudgesOneContent` | The request is `uiauto=True, package=Pkg`. `uiauto_test_matches` reads a uiauto test APK. The APK is then replaced by a plain one with package `Pkg`, which `package_name_matches` reads. `match` returns True, yet neither content matches on its own. |
| instantiate_leak | `InstantiateCheck_leak.cfg` | violation of `DescriptionsMatchTables` | Give juno one target default, and it appears in the tc2 and gem5 descriptions too: `target_params` is rebound inside the platform loop (line 772). |

Every property of a passing run has a mutant in `PROJECT.json`. The mutant is a plausible bug in the mapped code: a dropped `exists` check, a skipped None test, a key without mtime, a missing early return, no duplicate check, a dropped override, defaults applied last, a variant tested only as a substring, or versions compared as tuples instead of strings. TLC finds the property violated under the mutant.

**Bounds.**
- The cache runs use one APK with two contents, three clock ticks and three renames of the cache file. That is enough for a rewrite to happen between any two steps of a call, and for two processes to each store and reload.
- The resolver run has three getters over three priorities. It includes ties at two priorities across getters, and a faulty getter with two registrations, so a failure can come before, between or after them.
- The match race has two contents, each with one of two versions, three packages and two ABI lists, and every request over one or two values per parameter. Two contents are the fewest in which a rewrite can fall between two predicates.
- The APK harness uses one or two values per criterion and APK versions from none to two segments, so a requested version longer than the APK's occurs. It includes a version code "07" against a requested "7", which are equal as tuples but not as strings. It has metadata with no, one and two ABIs. Its variants are a literal, a `.` pattern that matches only as a regular expression, and a `(` that raises.
- The descriptor runs use every default description (all targets × platforms × connections in the tables).

**Fairness.** No property depends on fairness, and none is assumed. Every operation modelled here is synchronous, straight-line code that ends by its structure, so a liveness property would hold by the shape of the model. What can go wrong in this code is safety: lost entries, stale views, wrong answers and unexpected exceptions.

## Proofs (`ApkInfoCache_proofs`)

The proofs assume only `ConstantsAssumption`: non-empty process and APK sets, positive bounds, and sentinels `NoStat` and `Absent` that are not a stat or an ApkInfo. They cover every number of processes and APKs and every bound.

- `TypeCorrect`: `Spec => [](TypeOK /\ StatOK)`. `StatOK` (a process reading or stat'ing the cache file finds it existing) is needed, because `UpdateStat` and `StatAfterWrite` store `diskStat` as a stat.
- `FreshnessInvariantHolds`: `Spec => []FreshnessInvariant`.
  - The invariant `no cached entry is stale` is not inductive on its own.
  - `FreshnessInvariant` is its strengthening, and it was checked with TLC first (run apk_shared). It adds four parts:
    - `HistoryOK`/`MtimeNamesVersion`: each mtime names one content, because rewrites stamp fresh mtimes.
    - `EntryOK` for the file and for every process's memory: an entry under `<<a, m>>` is the info of a content of `a` no older than the one `a` had at mtime `m`.
    - `CallOK` for calls in progress: the content recorded at the call's `os.stat` is in the history, and what was extracted is of that content or a newer one.
    - `StatOK`.
  - The step proof has one case per action and a lemma per conjunct group (`HistStep`, `EntStep`, `CallStep`, `WriteTableOK`).
- `FreshReturnHolds`: `Spec => FreshReturn`. It follows from the invariant and the one-step lemma `ReturnFresh`.

- `SingleProcessCoherent` and `SingleProcessStoreDurable`: under the hypothesis `SingleProcess` (all elements of `Procs` are equal), `Spec => [](MemoryCoherent /\ StoreDurable)`.
  - The inductive invariant is `CohInv`. It was checked with TLC first, on the apk_single instance. It holds:
    - `TypeInv`;
    - `diskStat = 0 => disk = EmptyTable`;
    - `StoreDurable`;
    - `Coherent(p)`: the table equals the file when `last_modified` equals the stat or no file exists, and also at every place of a call reached just after a load or a write (`Synced`).
  - The strengthening is needed because a process at `write` has an older `last_modified` but must hold the file's table, since store writes that table plus one entry. `Restart` needs the empty-file case.
  - The proof of `Write` uses `Absent \notin Infos`, which is now part of `ConstantsAssumption`.
  - With two processes the theorem is false: run apk_lost_store.

## Proofs (`ApkMatchCheck_proofs`)

`MatchMeetsSpec` proves `ApkMatch(r, p, m) <=> SpecApkMatch(r, p, m)` for every request, path and metadata record, not only the ones the run enumerates. The hypotheses are the shapes the code gives its inputs:
- a version parameter is `None`, a version string or a non-empty list of them;
- `min_version` and `max_version` are `None` or version tuples;
- a variant is `None` or a string over any alphabet `Chars` whose only regex metacharacters are `.` and `(` (`Chars \cap ReMeta \subseteq {".", "("}`), and so is the file name;
- `file_name_matches` does not raise (`~MatchRaises(r, p)`), since then `match` has no answer;
- an ApkInfo's `version_name` is a tuple or `None`.

`SpecApkMatch` is spec 4.3 written directly. Its version test is "equals the name or the code as a string, or its tuple is a prefix of the name's". Its range test is the tuple order. Its variant test is "occurs in the file name, or matches it as a regular expression", and the regular-expression half is the `.`-wildcard search. Its uiauto test is membership of the package in `UiautoPackages`, the packages whose name carries the UI-automation marker.

The argument is one lemma per predicate of `match`:
- `LooseIsPrefix`: `loose_version_matching` (compare up to the shorter length, fail when the requested version is longer) is the prefix relation.
- `TupleOrder`: `not (b < a)` under Python's tuple order is `TupleLeq(a, b)`.
  - The proof takes the first index where the tuples differ. That index exists by `LeastNat`, which is derived from the well-foundedness of `<` on `Nat` (`WFMin`), because the induction rules that take a predicate parameter cannot be instantiated.
- `NameOccurs`: the literal half of `file_name_matches` (`pattern in filename`, a search over offsets) is substring occurrence.
  - The proof splits the name around an occurrence and glues it back together with the sequence lemmas of `SequenceTheorems`.
- `VersionConjunct`, `RangeConjunct` and `VariantConjunct` lift these to the guarded conjuncts of `match`. `VariantConjunct` relies on `~MatchRaises`, because a pattern with a `(` reaches `re.search` only when it is not a substring.

`NoneAssumption` (in `ResourceMatch`, evaluated by every run that extends it) says Python's `None` is not a tuple, a version string or a list parameter.

`ConjunctionHolds` proves `Spec => []ApkMatchIsConjunction` for the apk_match specification: a verdict that is not `Raised` is the spec's conjunction. Its inductive invariant `ConjInv` adds only that the arguments stay in the sets `Init` draws them from. `RunInputsCovered` shows those sets satisfy the hypotheses of `MatchMeetsSpec`. The run's bounds therefore do not carry the result.

## Proofs (`TargetDescriptor_proofs`)

`ShowFindsTargetsHolds` proves `Spec => []ShowFindsTargets` for every set of ad hoc names, plugin names, caseless mapping and bound `MaxAdhoc`. Its hypothesis is `AdhocNames \cap DefaultNames = {}`. `create_target_description` does not enforce it, and run descriptor_clash shows the property fails without it.
- Inductive invariant `IInv`: the ad hoc list is repetition-free and drawn from `AdhocNames`, and `defaults` is the tables' name list. Repetition-freedom is what the caseless duplicate check at lines 824-827 gives (`CreateKeepsDistinct`). Caseless equality is implied by equality, so no property of `Caseless` is assumed.
- `ListingComplete`: with the hypothesis and `DefaultNamesDistinct`, the merged list in either loader order has no repetition, so listing never raises, and it holds every default and created name. It rests on the sequence lemmas `ConcatDistinct` and `AppendDistinct`.
- The proof uses only that the default names are distinct. It never computes the tables, so it holds for any table contents with distinct names.

## Proofs (`InstantiateCheck_proofs`)

`HonoursParamsHolds` proves `Spec => []InstantiateHonoursParams` for the instantiate_tables specification.
- `InstantiateHonours` is the core lemma. It holds for every description record `d`, not only the default ones, and for every set of supplied names, extra platform names and `connect`. It says that a call of `Instantiate` that returns (has no `"err"` field) gives:
  - every supplied, non-deprecated target parameter the value `"user"`;
  - every supplied platform parameter the target does not declare the value `"user"`;
  - every truthy target default left in place, under its own name, where nothing was supplied.
- The platform case needs the check at lines 106-109: a returning call has no extra of the same name, so `DictUnion` keeps the user's value.
- The inductive invariant `IInv` says that `out` is `Pending` or the result of `Instantiate` on the call `Init` chose.
- The proof never computes the tables' fold, which is why it covers every description.

## Proofs (`ResourceResolver_proofs`)

`GetRefines` proves that a `Get(r, strict)` step of `ResourceResolver` is an `Abstract!Get(r, strict)` step of `ResolverSpec` under the mapping `ordered <- Ordered` of `MC_ResourceResolver`. It holds for every priority set of naturals, every set of sources, and every answer table. It covers both outcomes when nothing is found: `NotFound` when strict, and `None` otherwise.
- Hypotheses: the tiers are sequences of sources, and `Ordered` is a sequence of (source, priority) pairs that `Flattens` the tiers. `Flattens` means there is a bijection from tier places `<<priority, index>>` to list positions that preserves the entries and maps prioritylist iteration order (`Before`) to increasing positions.
- TLC checked these hypotheses on all 5561 states of run resolver_order, as an invariant of a scratch harness. They are not proved for every state: `Ordered` is a `FlattenSeq` of the tiers, and what a fold computes can only be shown by induction over data.
- `FirstHit` is the core lemma, proved for any `t`, `o` and answers `ans` with `Flattens(o, t)`. The two-level search of `get()` finds nothing exactly when the first-match search of the list finds nothing. When they find something, they return the same answer: the list's first hit is at the highest hit priority, and it is the first hit of that tier. Its least position is taken with `LeastNat`.
- `Ordered' = Ordered` follows from `tiers' = tiers` without computing `Ordered`.

`NatFacts` holds `LeastNat` (every non-empty set of naturals has a least element, from `WFMin`). `ApkMatchCheck_proofs` and `ResourceResolver_proofs` both use it.

`TypeOKHolds` (in `ApkInfoCache_proofs`) states the type invariant of run apk_single on its own, as a corollary of `TypeCorrect`.

## Checked by TLC only

- `DescriptionsMatchTables`: a statement about the concrete target tables. The `FoldLeft` over them is a fold whose result the provers cannot compute.
- The `Load` and `LoadFails` steps of the resolver refinement, its `Init`, and the resolver's `TypeOK`. `RegsOf`, `Register` (via `SelectSeq`), `Ordered` (via `FlattenSeq`) and the abstract `AddAll` (via `FoldLeft`) are defined over the registrations. Their results can only be characterised by induction over data, and the installed provers cannot instantiate the induction rules.
- Calling `load()` twice: the spec rules it out and no caller does, so the model bounds it to one call.
- `MatchNeverRaises`, `MatchJudgesOneContent` and `NeverRaises`: violation runs.
- `MemoryCoherent` and `StoreDurable` for more than one process: they fail there. With two processes TLC finds `MemoryCoherent` violated within a few thousand states. `_update_cache` records a stat taken after another process's write (line 210), and `store` does the same (line 189). The spec states no such property for the code to keep. Its consequence, a table written over newer entries, is what run apk_lost_store shows.

## Not modelled

- `postgres.py` consists of database type adapters (data conversion for the driver).
- `default.py` writes a YAML file.
- `command.py` is argparse wiring.
- `run.py` sets up the output directory and hands over to the executor, which is not in this tree.
- `ApkInfo` parsing, `LogcatParser` and `build_apk_launch_command` transform text, with no state shared between calls.
- `instantiate_assistant` and `TargetDescription.get_default_config`: no caller in this tree, and the assistant parameter lists they read live in `wa.framework.target.assistant`, which is not in it. `_get_target_defaults` is never called.
- The rendering half of `wa show` (rst, man and pandoc output).
