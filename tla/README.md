# Formal models of influxdb3-plugin-sdk

TLA+ models, TLC configurations and TLAPS proofs about the plugin SDK of
InfluxDB 3: the crates `influxdb3-plugin-schemas` (names, manifests, the
registry index), `influxdb3-plugin-sdk` (validation, packaging, archives,
scaffolding, yanking) and `influxdb3-plugin-cli` (the `influxdb3-plugin`
command), and the publish workflow that their documentation recommends. Paths
below are relative to the root of the repository, line numbers refer to the
modelled commit. `PROJECT.json` maps every definition to its lines.

## 1. Inventory

The tool is a set of short commands over files. A registry is one `index.json`
with an entry per plugin version, and one archive per entry, on a static host.
No command ever talks to the host: `package` and `yank` read an index, write a
derived one into another directory, and a CI job uploads it. So the hard
behaviour is not in threads but in *chains of commands over a document*, in
*several processes on one file system*, and in *overlapping CI runs on one host*.

| Component | State it keeps | Operations | Talks to |
|---|---|---|---|
| Plugin names (`identity.rs`) | none | validity, canonical form (case folded, `-` = `_`) | everything below |
| Registry index (`index.rs`) | `Index`: schema version, `plugins[]` | `parse_json`, `check_entry_insert`, `push_entry`, `to_canonical_json` | mutation, packaging, queries, consumers |
| Mutation (`mutate_index.rs`) | the same | `add_entry`, `yank`, `unyank` | index |
| Queries (`index_query.rs`, `commands/index.rs`) | none | `search`, `info` | index |
| Validation and selection (`validate.rs`, `plugin_format.rs`, `plugin_source_files.rs`) | none; reads the plugin directory | `plugin_dir`, `plugin_dir_with_index`, `select` | manifest, index |
| Archive, digest and packaging (`archive.rs`, `hash.rs`, `package.rs` of the SDK) | none; reads the directory again | `canonical_tar_gz`, `sha256_of_bytes`, `package_plugin` | selection, index |
| `package`, `yank` commands | files under `--out` | read `--index`, check paths, write archive, write index | file system, other invocations |
| Scaffolding (`scaffold.rs`, `commands/new/`) | files of a new directory | `new <plugin template>`, `new index` | file system, siblings, other invocations |
| Publish workflow (`docs/src/guides/ci-cd/github.md`) | release assets | fetch, skip test, package loop, uploads | the commands, GitHub, other runs |
| Manifest parsing (`manifest.rs`) | none | field validation, error aggregation | validation, packaging, the index's reader |
| Errors and output (`output/`, `error.rs`, `cli_error.rs`, `diag_render.rs`, `main.rs`, `exit.rs`) | none; the two standard streams | the way of an error to the wire, JSON envelope, human rendering, colour, exit codes | the user and CI scripts |
| Embedding library and templates (`lib.rs`, `config.rs`, `commands/new/`) | none | `PluginConfig::try_parse`, `run`, dispatch, `new list` | everything above |

What makes each of them correct:

* **Index**: what the tool writes, it can read; one entry per plugin version
  and one spelling per plugin; entries are immutable but for `yanked`; the bytes
  are a function of the entries (specification items S1-4, S2-3).
* **Manifests**: one report holds every defect, none twice; what is accepted can
  be published and read back.
* **Queries**: `search` and `info` agree, and no answer depends on entry order.
* **Packaging**: what is packaged loads in the engine, and what is refused would
  not; only a change of the sources between the two walks can break that.
* **Commands**: `--index` is never written (S2-11, S2-12), the archive is whole
  before the index that names it appears, exit 0 means that both are whole and
  agree, a refusal leaves no output.
* **Scaffolding**: a user's file is replaced only by `--force`; what `new`
  reports as done validates; siblings can be published together.
* **Output**: in JSON mode one document on stdout, whatever happens; the exit
  code agrees with it; every diagnostic that a library found arrives, and a
  result names the files that were written.
* **Workflow**: every entry a consumer may have read stays fetchable with its
  hash and, where runs are serialized, stays listed; runs end.

Hard behaviours: entries of equal SemVer precedence, NFC that outgrows a bound,
two hand-written copies of one check (insert/parse, search/info, the workflow's
skip test, the output mode that the command and `main.rs` each decide), two walks over a directory that an editor may change, two writes
that are not one, `std::fs::write` that truncates first, aliasing of paths and
links, check-then-write with a second process, CI runs that overlap, die, and
are retried, and `--clobber`, which deletes before it uploads. `PROJECT.json`
lists them as hazards, each at its line.

## 2. Modules

| Module | Models | Correspondence |
|---|---|---|
| `PluginName` | `identity.rs` | A name is a record of what its canonical form tells apart: letters (`stem`, with their rank), first letter's case, separator. |
| `IndexOps` | `index.rs`, `mutate_index.rs`, `plugin_dir_with_index` of `validate.rs` | Pure operators with the names of the functions. A document is a record with the sequence `plugins`. A sort is given by the orders it may return (`SortOrders`: one, because `sort_by` is stable). |
| `Registry` | what the documentation promises a consumer | Abstract: a set of entries that grows and in which only `yanked` moves. |
| `RegistryIndex` | the life of one registry index | `index` is the hosted document; `Package` and `Yank` are parse, SDK operation and canonical serialization in one step. Refines `Registry` (`R == INSTANCE Registry WITH catalog <- Catalog`). |
| `IndexQuery` | `index_query.rs` | `search`, `info` and the reasons of a refusal, over every index that `RegistryIndex` reaches. |
| `IndexReports` | `commands/index.rs` | The payloads of `search` and `info` and their human renderings. A line is a record of what it says. |
| `SchemaFields` | `manifest.rs`, `identity.rs`, `validate_raw_entry` and `parse_json` of `index.rs` | The two readers as functions from a raw document to its set of errors, each at a field path; one operator per field validator. A text keeps what its validator tells apart (length, scheme, whether `semver`, `url`, `pep508_rs` or `toml` accept it). Both orchestrations are written out, as in the code. |
| `SchemaDocuments` | the life of a manifest | `Validate` is `parse_toml`; `Repair` is the author, who changes exactly the places that the report names; `Package` makes an entry, inserts it and writes the index. |
| `WireTexts` | `ArtifactHash` and `PublishedAt` of `index.rs`, `hash.rs` | The two texts of an entry that the tool makes itself, byte by byte, with the readers that must accept them: calendar, digits, hexadecimal. |
| `AuthorCommands` | `commands/package.rs`, `commands/yank.rs`, `path_display.rs` | Every invocation is a process; a step is one system call that another process can come between; `std::fs::write` is two steps, and a failed one leaves `Partial`. A killed process takes no further step. `contested` is a history variable: which outputs of an invocation another one opened later or was writing at the same time. |
| `PluginFormat` | `plugin_format.rs`, the extractor of `validate.rs` | A Python source is the sequence of its top-level statements as tree-sitter gives them. `TOP_LEVEL_DEF_CONFORMANCE_CASES` is the corpus of the repository; TLC checks that the modelled extractor passes it. |
| `PluginPackaging` | `validate.rs`, `plugin_source_files.rs`, `archive.rs`, `package.rs` of the SDK | `pkg` is one packaging, step by step; `Edit` is an editor. Files are links or not, executable or not, and may have names that are not UTF-8. `Runs` says independently what the engine can load. |
| `Scaffold` | `scaffold.rs`, `commands/new/mod.rs` | Invocations of `new` on one parent directory, one at a time (`sequential`) or overlapping; each check and each write is a step, and a write may leave a torn file. |
| `PublishWorkflow` | `docs/src/guides/ci-cd/github.md:240-397` | Workflow runs over release assets; each upload is a step and may be the last. A commit is the sequence of its directories under `PLUGIN_ROOT`, with a manifest or without (`NoManifest`). |
| `ErrorMapping` | `error.rs` of both libraries, `cli_error.rs`, `output/error_mapping.rs` | An error is a record of its variant and that variant's fields; what each mapping makes of it is a `JsonError`. An option is a set of at most one element. |
| `OutputStreams` | `output/mod.rs`, `output/json.rs`, `diag_render.rs`, `color.rs`, `style.rs`, the argv scan of `main.rs` | The decisions for JSON and for colour, the envelope, the human rendering of an error. |
| `CommandResults` | the payloads of `commands/*.rs` | What each command prints when it succeeds, in both forms. |
| `CommandLine` | `main.rs`, `config.rs`, `exit.rs`, the `execute` of each command | One invocation, from its arguments to its exit code; each step succeeds or fails with any of the errors that the libraries can return, and each write to a stream may fail. |

`AuthorCommands` and `PublishWorkflow` compose the operators of `IndexOps` with
their own processes; `CommandLine` composes the errors, the streams and the
results. `MC*` modules hold the instances for TLC. Operators whose comment begins
with "Mutant:" are plausible bugs, defined next to the operator they would
replace; no model uses them, and each of them breaks a property that the
unchanged module has.

Theorems are in `IndexOpsProofs`, `RegistryIndexProofs` (with the queries and
their output), `PluginPackagingProofs`, `AuthorCommandsProofs`,
`ScaffoldProofs`, `PublishWorkflowProofs`, `CommandLineProofs` and `SchemaProofs`
(`SchemaDocuments` and `WireTexts`); see section 4.

## 3. Runs

Runs that pass:

| Run | Instance | What it shows |
|---|---|---|
| `registry_index` | 3 names (two spellings of one), 3 versions (two of equal precedence), 3 descriptions, 2 digests, 4 seed documents, `MaxEntries` = 3; 3,975 states | `RegistryConsistent`, `InsertMirrorsParse`, `ImmutablePublication`, `OutputIsCanonical`, and refinement (`ImplementsRegistry`) over all chains of commands; `SearchAgreesWithInfo`, `ReasonsSuffice`, `QueriesIgnoreOrder` (against every rearrangement of `plugins[]`) for all 108 queries on each index reached; `SearchHitMatchesInfo`: each row of `search` is what `info` says of the version it names, its visibility marker included. |
| `author_commands` | 3 invocations, symmetric, any of 9 command lines over 4 directories, one of them spelled in two ways; 155,047 states | `InputUntouched`, `RefusalTouchesNothing`; `ArtifactBeforeIndex` and `ExitZeroMeansWritten`: the archive is whole before the index is touched, and exit 0 leaves both whole and agreeing, over whatever earlier commands left there, with every write failing or being the last. Only an output that another invocation opens later, or is writing at the same time, is exempt: the commands take no lock. |
| `plugin_packaging` | 8 paths (two of them not UTF-8, with one normalized form; one too long for ustar), links, an executable file, 10 sources of the entry point, 7 exclude lists, `MaxEdits` = 1; 684,292 states | `ArchiveRuns`: what is packaged the engine can load; `RefusedForCause`: what is refused it could not; `WhitelistWins`; `Reproducible`: the archive is a function of the directory, members, modes, order and all, up to the order of two files of one normalized name. |
| `scaffold` | 2 invocations, 7 command lines, 5 layouts, overlapping or sequential; 48,093 states | `UserFilesKept`: what is replaced is asked for with `--force`, or is what another, overlapping invocation made. `SuccessClassifies`: what is reported as done is whole and has one entry point, also after an invocation that failed half-way in the same directory. `SiblingsPublishable`. |
| `schema_documents` | 541 drafts (a good manifest with up to two places changed, out of 33 changes) with 3 registries, one of them an older minor version, two unreadable; 7,313 states | `OnePass`: after the author has mended what a report names, the next one names at most repeated dependencies. `EveryErrorCounts`: no error of a report is an echo of another, but for those inside a dependency that has to go as a whole. `OneRule`: the two readers refuse the same texts at the same fields. `StaysReadable`: what `package` writes, the next reader accepts. |
| `publish_workflow` | 4 runs of 4 commits, one of them without directories and one with a directory that has no manifest, with a concurrency group or without, `MaxFaults` = 1; 23,664 states | `PublishedFetchable` always; `NothingForgotten` and `RunsEndGreen` with a group; `GreenMeansPublished` always. |
| `command_line` | every command with up to two arguments out of 12 tokens and seven triples, 5 environments, 3 index reports, 7 directory reports, 13 library errors; 215,606 states | `OneDocument`: one JSON document on stdout and nothing on stderr, or no JSON at all. `ExitAgreesWithOutput`. `NoDiagnosticLost`: everything that a library found in one pass arrives, in order and apart. `ColourPerStream`: each stream is judged by its own terminal. `ReportedIsWritten`: a result names exactly the files written. |

Runs in which TLC shows that the code departs from what a document, a comment or
a test says (`PROJECT.json`, "findings", quotes both sides):

| Run | Property | What happens |
|---|---|---|
| `build_metadata` | `BuildMetadataIgnored` | `1.0.0` and `1.0.0+build` are published side by side; `registry-index.md:162` says they are one version. |
| `linked_output` | `InputUntouched` | `<out>/index.json` is a link to the input index: `paths_overlap` compares directories, the write follows the link. `author_commands` shows, and `InputIsKept` proves, that without such a link the input is safe. |
| `publish_race` | `EntriesNeverDeleted` | The recommended workflow has no concurrency group; the later of two runs forgets the entry of the earlier. |
| `scaffold_bare_path` | `BarePathsChecked` | `new process_writes foo_bar`, typed as a bare name, skips the sibling check: `Path::parent` is `Some("")` and the fallback to `.` never applies. |
| `variant_unmapped` | `DetailsNameVariant` | Three variants of `SchemaError` go to the wire as `variant_unmapped`; the test that claims to construct every variant leaves the three out. |

### Divergences that are only noted

Met while modelling, too small for a run of their own:

* `spec.md:463` says that `validate --index` runs the canonical-name uniqueness
  check; `validate.rs:287` reports a collision only at the same version, and the
  comment above it calls this intentional. `ConflictsAreRefused` proves that
  `package` refuses every plugin that it reports.
* `spec.md:667` has existing entries preserved verbatim, while every rewrite also
  normalizes their descriptions; `ImmutablePublication` states what holds,
  immutability up to NFC.
* `spec.md:452` calls scaffolding all-or-nothing; a write that fails half-way
  leaves the files before it.
* `spec.md:774` asks that an upload of what is already there be a no-op;
  `github.md:380` fails on an archive that an earlier, interrupted run uploaded.
* `main.rs` decides between JSON and human errors by scanning the raw arguments,
  the command by clap: `-- --output=human` is read by the one and not by the
  other. `OneDocument` and `ExitAgreesWithOutput` are stated over both, the first
  for command lines that are unambiguous (`Clear`).
* `std::env::args()` panics on an argument that is not UTF-8, and `eprintln!` if
  stderr fails: exit code 101, in `ExitAgreesWithOutput`.
* `json.rs:215` says that sub-elements "never carry their own `diagnostics` or
  `cause`"; the diagnostic of a read that failed in `commands/validate.rs` has a
  cause.
* `json.rs:162-164` and `spec.md:891` have stdout empty on failure; the error
  envelope goes to stdout in JSON mode.
* `ALL_WIRE_CODES` (`json.rs:259`) lacks `validate::no_entry_point`,
  `validate::ambiguous_entry_point` and `validate::unknown`.
* If the payload of a successful command cannot be printed, the error is
  `cli::unknown` with exit code 1 although all files are written, and stdout may
  hold the beginning of one document and a second one.
* The hint to the nearest template name exists in human mode only.
* The required range that `FilteredOut` gives is that of the first entry in the
  document, whichever version a consumer would want.
* `archive.rs:3-4` promises byte-identical output; two file names that are not
  UTF-8 and have one lossy form are archived in the order of the walk.
  `Reproducible` has both of them in the archive, each with its own contents,
  and leaves only the order of the two open.

### Bounds, and why they are enough

* Three entries hold every pair of an old and a new entry (same plugin, other
  spelling, equal precedence, other plugin) and a third that a wrong sort or a
  wrong yank would disturb. The properties compare entries by pairs.
* Two digests and one timestamp: the operators compare digests and times for
  equality at most, and two runs may have built one version differently. The
  texts themselves are in `WireTexts`, where nothing is bounded; `MCSchemaDocuments`
  evaluates them at the turns of months and years and on digests with each nibble.
* Three invocations: a writer, a second writer of the same file, and a reader of
  it. The command lines are chosen so that each of these meets each.
* Two changed places in a manifest: whether one error hides or repeats another is
  a matter of pairs of fields. The instances put each length on its bound (64,
  65; 200, 201) and hold descriptions that NFC shortens and lengthens.
* One fault, one edit: `MaxFaults` and `MaxEdits` bound the environment, never
  the code. A second edit can only undo or repeat the effect of the first on
  the two walks and the reads.
* Two arguments: the scan of `main.rs` and clap disagree about one flag and what
  stands before or after it, `--` included; the triples are a value on each side
  of the flag and a flag before `--`. Of the environments each changes one stream
  or one variable. Reports have one, two and three diagnostics, so that order,
  loss and confusion of two of the same kind show.
* `CHECK_DEADLOCK FALSE` is set where the system really stops: when every
  invocation, packaging or run has ended, or the index has reached its bound.

### Fairness

Only `PublishWorkflow!FairSpec` has any: `WF_vars(\E r \in Runs : Step(r))`, the
CI service goes on executing some run that can take a step. It does not say
that a given run is ever started first, nor that nothing fails (`Fault` is not
fair, and may happen at any step). `RunsEndGreen` is conditional on a
concurrency group and on the absence of faults; without a group two runs that
delete and upload the index at once can fail each other. A run that the
tool refuses, or whose commit has no directory, counts as an end: it stops before
any upload and no retry would help it. The
commands themselves are straight-line code; nothing is claimed about their
termination.

## 4. Proofs

Each theorem holds for all constants that satisfy the named assumptions of the
modules it extends: any number of names, versions, entries, invocations,
directories, runs and commits. No theorem takes the bounds of section 3.

| Module | Theorems | Inductive invariant, and why it is needed |
|---|---|---|
| `IndexOpsProofs` | `ConflictsAreRefused` | Lemmas about the operators: `Packaged` (what `package` makes of an index, whole), `ParsesIffConsistent`, `InsertOk`, `AppendConsistent`, `SetYankedConsistent`, `CanonicalDocument`, `CanonicalConsistent`, `CanonicalIsFixed`. |
| `RegistryIndexProofs` | `TypeCorrect`, `Consistency`, `InsertAndParseAgree`, `ImmutableEntries`, `RewritesAreStable`, `Refinement` (`Spec => R!Spec`); `SearchAndInfoAgree`, `ReasonsAreSufficient`, `OrderDoesNotMatter`, `HitsMatchInfo` | `Inv == TypeOK /\ RegistryConsistent`. The queries choose by position, and only `Consistent` makes what they choose a function of the set of entries. |
| `PluginPackagingProofs` | `TypeCorrect`, `ArchivesRun`, `RefusalsHaveCause`, `WhitelistsWin`, `ArchivesAreReproducible`; `EntryPointIsLoaded`, `BindingsAreSound` | `IInv`: what each passed check saw still holds of the files that nobody edited since (`ManifestRead`, `Classified`, `Accepted`, `Refused`), and at every turn of the archive's loop each selected file is either still to do or already in, once, in order (`Pending`, `NoneIsLeftOut`, `Archived`, `Ordered`, `Once`). |
| `AuthorCommandsProofs` | `TypeCorrect`, `ArchiveFirst`, `ZeroMeansWritten`, `RefusalsAreClean`, `InputIsKept` | `IInv`: types, and for each invocation (`Kept`) what its steps have prepared, in which order files are opened, and what is in the archive and the index that it has opened, as long as they are not `contested`. |
| `ScaffoldProofs` | `TypeCorrect`, `ScaffoldIsWhole`, `UserFilesAreKept`, `SiblingsCanBePublished` | `IInv`: how far an invocation is, which files it has written, and what of its checks still holds (`Lasts`); where one runs at a time, that one does (`OneRuns`). The check of the entry points and the writes are steps apart. For siblings `SiblingsInv`: who has made a directory is in the listing that the next one reads, and who passed the check collides with nobody who entered before. |
| `PublishWorkflowProofs` | `TypeCorrect`, `ArchivesStay`, `NothingIsForgotten`, `GreenIsPublished` | `IInv`: what a run will publish is at every step covered by what is hosted and what it has still to upload (`RunInv`); in a group, one run is under way and knows every entry published (`Serial`). |
| `CommandLineProofs` | `TypeCorrect`, `ExitCodes`, `OneEnvelope`, `DiagnosticsAreComplete`, `ResultsAreTrue`, `ColourFollowsStreams` | `IInv`: nothing is printed before the end (`Quiet`), and an error that is returned has a code of its own, or follows a failed write (`Failing`). `TellsAll`: the mode is the one that the arguments and the environment give (`Decided`), an error on its way out holds every diagnostic found (`Carried`), what is written is what the step reached says (`Writing`), and an invocation that has ended printed one item of the right kind (`Ended`). |
| `SchemaProofs` | `TypeCorrect`, `ReadersAgree`, `OnePassIsEnough`, `NoFalseAlarm`, `RegistryStaysReadable`; `DigestsAreCanonical`, `TimesAreReadable` | `Documents` (what deserialization gives keeps its fields and its bound), `Reported` (a report is of the manifest at hand), `Mends` (a manifest mended by a report that was not fatal has repeated dependencies to report at most). `ReadersAgree` and the two texts need none. |

The central arguments:

1. `ParsesIffConsistent`: the loop of `parse_json`, which reads forward and
   remembers what it saw, accepts exactly the consistent sequences, a condition
   on pairs that has no order in it. `check_entry_insert` answers `Ok` exactly
   when the sequence with the new entry is consistent (`InsertOk`,
   `AppendConsistent`), and the yanked flag takes part in neither.
2. `CanonicalDocument`: a document that `to_canonical_json` returns is a
   permutation of the old one. Only surjectivity of the order is in its
   definition; that it is also injective comes from the cardinality theorems of
   finite sets. `CanonicalIsFixed`: a canonical document is the only one that
   `to_canonical_json` makes of itself, because a monotone permutation of
   `1 .. n` is the identity (by the least position where it is not).
3. `TopExists`: any set of positions of one plugin has one that every other is
   older than; by the least bound that has none. With it, the two-stage
   choice of `Latest` (precedence, then full version) is the top of a set
   (`LatestIsTop`), and a bijection of the positions takes the top of a document to
   the top of its rearrangement: the answers of both are equal (`OrderDoesNotMatter`).
4. `ArchiveFirst` and `ZeroMeansWritten`: the archive is whole when the index is
   opened, and both are when the command exits with 0, for every interleaving
   with failing writes and kills. An invocation loses an output only by being in
   `contested`: whoever opens the same file puts there those who opened it
   before, and itself if one of them is still writing.
5. `InputIsKept` has the hypothesis `OutputsNotLinked`: no `index.json` under an
   output directory is a link. The run `linked_output` is what happens without it.
6. `ArchivesStay` needs no concurrency group, `NothingIsForgotten` does: exactly
   what the recipe of `github.md` lacks.
7. `ArchivesRun`: between the check of the entry point and the archive lie a
   second walk and a second read of the directory. `Accepted` carries the verdict
   of the first over to the files of the second, for the top level that nobody
   edits. That the verdict is right is `EntryPointIsLoaded` (the classification
   and the engine's rule, which is stated apart from it) and `BindingsAreSound`
   (the list of definitions, later ones over earlier ones, and what Python binds).
8. `SiblingsCanBePublished`: the check of the siblings reads the directories there
   are, so of two invocations, one after the other, the later sees what the
   earlier made; `NoneCollides` says it of every two that have come that far. It speaks of
   paths that are spelled with their parent and end in the plugin's name: for a
   bare path the code skips the check, which the run `scaffold_bare_path` shows.
9. `DiagnosticsAreComplete`: no two validation errors that differ have one JSON
   form. The codes separate the variants, the field and the details separate the
   errors of one variant, those of a schema error by the variant's own fields.
   `OneEnvelope`: `main.rs` decides the mode again by scanning the arguments; by
   the place of the first `--output` the scan and clap come to the same.
10. `OnePassIsEnough` and `NoFalseAlarm`: each error of a field has one place in
    the report, and the validator of that place looks at that text alone
    (`FieldError`); so a mend of other places leaves it there, and its own mend
    removes it. The rule that looks at two texts, the one against repeated
    dependencies, is apart: of several with one key the first stays and the others
    go (`RepeatIsKept`).
11. `RegistryStaysReadable`: the entry that is made of an accepted manifest has no
    errors of its own (`ReadersAgree` is about the same validators), the
    insertion keeps every two entries compatible, sorting only moves entries,
    and `to_canonical_json` refuses a description that NFC made too long.

`EveryErrorCounts` speaks of places that do not lie inside another reported place.
Without that it is false, as the attempt to prove it showed: where a repeated
dependency has a bad version as well, mending the repetition takes the bad
version away. That draft is one of the run's.

What the theorems assume, beyond the kinds of the constants:

* `ScaffoldProofs`: what a template writes is never mistaken for what a user had
  or for a half-written file (`ContentsAssumption`).
* `PluginPackagingProofs`: a path that the checks look for is UTF-8, and its
  lossy form is itself (`PathsAssumption`); every file has contents and a Python
  file is a source or does not parse (`ContentsAssumption`).
* `CommandLineProofs`: the reports of the libraries consist of their own errors,
  each with the fields of its variant (`ReportsAssumption`).
* `SchemaProofs`: documents have the fields and arrays that serde requires
  (`DocumentsAssumption`); an author mends a place with a text that its own
  validator accepts (`MendedAssumption`).

TLC evaluates each assumption on the run of its module, and checks on that run
every property that a theorem states. Every property of a passing run is the
statement of a theorem, except `RunsEndGreen`: liveness under fairness is beyond
the prover. Only TLC, too, shows that the extractor passes the repository's corpus
(`ExtractorConforms`, an assumption of `MCPluginPackaging`'s instance), and the
violations. No module declares a RECURSIVE operator.

In `SchemaFields`, `(UNION {...}) \cup ...` is parenthesized where TLA+ does not
ask for it: the prover's parser reads `UNION A \cup B` as `UNION (A \cup B)`.

## 5. What is not modelled, and why

* The wording of errors and messages: every one is a text over the fields that
  the models keep. Replacement of path prefixes in `diag_render.rs`, column
  widths, wrapping.
* JSON, TOML, tar and gzip bytes, and the SHA-256 function: an index document is
  its value, a digest is 32 bytes that depend on the sources alone. `url`,
  `triggers`, `dependencies` of an entry are left out of `IndexOps` (no operation
  reads them but the queries, where `Requires` and `Declares` give them per
  version).
* The styling of clap's own messages (`ClapText`): clap decides on it by rules of
  its own that are not in this code, so `ColourPerStream` does not speak of them.
* clap, tree-sitter, the `ignore`, `semver`, `url` and `pep508_rs` crates: by
  their results.
* Python beyond the syntax tree: a decorator is assumed to return its function
  and an `if` condition to hold. The extractor cannot see a trigger that an
  assignment or an import binds again, so `ArchiveRuns` and `RefusedForCause`
  have the precondition `Plain`. Names of Python files that are not UTF-8.
* Symbolic links in `Scaffold`: `exists()` is false for a dangling one
  (`scaffold.rs:186`), a hazard that no property covers. Links are in
  `AuthorCommands` (`IndexLink`) and `PluginPackaging`.
* What the code does not protect, no property claims: a top-level file that
  changes between `validate` and the archiver's own read is archived as it then
  is (`ArchiveRuns` has the precondition `TopLevel(edited) = {}`), and of two
  commands that write one file at a time both may exit with 0.
* In `PluginPackaging` a directory walk is one step, so an edit during a walk is
  seen before it or after it.
* The bodies of the templates, the version string, completion, the re-exports of
  `lib.rs`: they have no behaviour.
* Uploads to other backends (`spec.md:774`): the repository has a recipe with
  steps for GitHub only.

## 6. Plan

Done, in this order: `PluginName`, `IndexOps`, `Registry`, `RegistryIndex`;
`AuthorCommands`; `PublishWorkflow`; `Scaffold`; `IndexQuery`; `PluginPackaging`;
`SchemaFields`, `SchemaDocuments`; `ErrorMapping`, `OutputStreams`,
`CommandResults`, `CommandLine`; `IndexReports`; `PluginFormat`; `WireTexts`; and
the proofs of section 4.

What could come next: links in `Scaffold` (a user's dangling link, and the file
that a write then creates at its end); a maintainer's `yank` beside publish runs
in `PublishWorkflow`; the loop of report and repair for an index that was migrated by hand.
