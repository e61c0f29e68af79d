--------------------------- MODULE SchemaDocuments ---------------------------
(***************************************************************************)
(* An author takes a manifest.toml from draft to registry: `validate`      *)
(* reports its defects, the author mends what the report names, `package`  *)
(* puts the entry it makes of the manifest into the registry's index.json. *)
(* Source files are the matter of PluginPackaging, paths and failing       *)
(* writes of AuthorCommands.                                               *)
(***************************************************************************)
EXTENDS SchemaFields, FiniteSets

CONSTANTS
  Drafts,      \* manifests an author may start from
  Registries,  \* index documents that may be there
  Mended,      \* per kind of field, texts that an author mends it with
  MaxEntries   \* bound on the number of entries

-----------------------------------------------------------------------------
(* What deserialization leaves of a document: its fields are there, its      *)
(* arrays are arrays.                                                        *)

IsArray(s) == s \in Seq(EntriesOf(s))

HasFields(record, fields) == record = [f \in fields |-> record[f]]

\* Descriptions has each text that is a valid description.
IsDescription(d) == Description_try_new(d) = {} => d \in Descriptions

IsRawManifest(m) ==
  /\ IsDescription(m.plugin.description)
  /\ IsArray(m.plugin.triggers)
  /\ IsArray(m.dependencies.python)
  /\ IsArray(m.dependencies.plugins)

EntryFields ==
  {"name", "version", "published_at", "description", "triggers", "homepage",
   "repository", "documentation", "dependencies", "hash", "yanked"}

IsRawEntry(e) == HasFields(e, EntryFields) /\ IsDescription(e.description)

IsRawIndex(doc) ==
  /\ HasFields(doc, {"wellformed", "index_schema_version", "artifacts_url", "plugins"})
  /\ IsArray(doc.plugins)
  /\ \A i \in DOMAIN doc.plugins : IsRawEntry(doc.plugins[i])

ASSUME DocumentsAssumption ==
  /\ \A m \in Drafts : IsRawManifest(m)
  /\ MaxEntries \in Nat
  /\ \A doc \in Registries : IsRawIndex(doc) /\ Len(doc.plugins) <= MaxEntries
  /\ \A d \in Descriptions : Description_try_new(d) = {}

\* A text that an author mends a field with is one its own validator accepts.
ASSUME MendedAssumption ==
  /\ \A t \in Mended["schema_version"] : ManifestVersion_from_str(t) = {}
  /\ \A t \in Mended["name"] : validate(t) = {}
  /\ Mended["version"] \subseteq Versions
  /\ Mended["description"] \subseteq Descriptions
  /\ \A t \in Mended["trigger"] : TriggerType_from_str(t) = {}
  /\ \A t \in Mended["link"] : parse_optional_http_url(t) = {}
  /\ \A t \in Mended["index_url"] : IndexUrl_try_new(t) = {}
  /\ Mended["range"] \subseteq Ranges
  /\ Mended["requirement"] \subseteq Requirements

-----------------------------------------------------------------------------

VARIABLES
  manifest,    \* manifest.toml
  report,      \* the errors that the last validate found
  stage,       \* what the author did last: "draft", "validated", "mended"
  index        \* index.json

vars == <<manifest, report, stage, index>>

Init ==
  /\ manifest \in Drafts
  /\ report = {}
  /\ stage = "draft"
  /\ index \in Registries

\* validate: reads the manifest and changes nothing.
Validate ==
  /\ stage # "validated"
  /\ report' = parse_toml(manifest)
  /\ stage' = "validated"
  /\ UNCHANGED <<manifest, index>>

-----------------------------------------------------------------------------
(* The author mends a manifest: each place that the errors name gets a text  *)
(* that its own validator accepts, a repeated dependency is taken out, and   *)
(* nothing else changes.                                                     *)

PathsOf(errors) == {e.path : e \in errors}

Mend(kind, old, path, bad) == IF path \in bad THEN Mended[kind] ELSE {old}

MendEach(kind, texts, path, bad) ==
  {s \in [DOMAIN texts -> Mended[kind] \cup EntriesOf(texts)] :
     \A i \in DOMAIN texts : s[i] \in Mend(kind, texts[i], Append(path, i), bad)}

MendedPlugins(p, bad) ==
  LET Field(name, kind) == Mend(kind, p[name], <<"plugin", name>>, bad)
  IN  [name : Field("name", "name"), version : Field("version", "version"),
       description : Field("description", "description"),
       triggers : IF <<"plugin", "triggers">> \in bad
                  THEN {<<t>> : t \in Mended["trigger"]}
                  ELSE MendEach("trigger", p.triggers, <<"plugin", "triggers">>, bad),
       homepage : Field("homepage", "link"), repository : Field("repository", "link"),
       documentation : Field("documentation", "link")]

MendedDependency(dep, path, bad) ==
  [index_url : Mend("index_url", dep.index_url, Append(path, "index_url"), bad),
   name : Mend("name", dep.name, Append(path, "name"), bad),
   version : Mend("range", dep.version, Append(path, "version"), bad)]

\* The enumerations of a set of positions, first to last: there is one.
Ascending(S) ==
  {p \in [1 .. Cardinality(S) -> S] :
     /\ \A i \in S : \E k \in DOMAIN p : p[k] = i
     /\ \A j, k \in DOMAIN p : j < k => p[j] < p[k]}

MendedPluginDependencies(plugins, path, bad) ==
  LET kept == {i \in DOMAIN plugins : Append(path, i) \notin bad}
      Dependency(i) == MendedDependency(plugins[i], Append(path, i), bad)
  IN  UNION {{s \in [DOMAIN p -> UNION {Dependency(i) : i \in kept}] :
                \A k \in DOMAIN p : s[k] \in Dependency(p[k])} : p \in Ascending(kept)}

MendedDependencies(d, bad) ==
  LET at == <<"dependencies">>
  IN  [database_version : Mend("range", d.database_version, at \o <<"database_version">>, bad),
       python : MendEach("requirement", d.python, at \o <<"python">>, bad),
       plugins : MendedPluginDependencies(d.plugins, at \o <<"plugins">>, bad)]

MendedManifests(m, bad) ==
  [wellformed : IF << >> \in bad THEN {TRUE} ELSE {m.wellformed},
   manifest_schema_version :
     Mend("schema_version", m.manifest_schema_version, <<"manifest_schema_version">>, bad),
   plugin : MendedPlugins(m.plugin, bad),
   dependencies : MendedDependencies(m.dependencies, bad)]

Repair ==
  /\ stage = "validated"
  /\ report # {}
  /\ manifest' \in MendedManifests(manifest, PathsOf(report))
  /\ stage' = "mended"
  /\ UNCHANGED <<report, index>>

-----------------------------------------------------------------------------
(* package: validates again, whatever validate said before.                  *)

\* IndexEntry::from_manifest_with_published_at, printed: the raw entry has
\* the texts that the manifest's fields were parsed from.
RawEntry(m, h, t) ==
  [name |-> m.plugin.name, version |-> m.plugin.version, published_at |-> t,
   description |-> m.plugin.description, triggers |-> m.plugin.triggers,
   homepage |-> m.plugin.homepage, repository |-> m.plugin.repository,
   documentation |-> m.plugin.documentation, dependencies |-> m.dependencies,
   hash |-> h, yanked |-> FALSE]

\* The schema version of a document the tool writes.
CURRENT == [wellformed |-> TRUE, major |-> 2, minor |-> 1]

Package(h, t) ==
  LET entry == RawEntry(manifest, h, t)
  IN  /\ Len(index.plugins) < MaxEntries
      /\ parse_json(index) = {}
      /\ parse_toml(manifest) = {}
      /\ check_entry_insert(index.plugins, entry) = "Ok"
      /\ \E written \in to_canonical_json(push_entry(index.plugins, entry)) :
           index' = [index EXCEPT !.index_schema_version = CURRENT,
                                  !.plugins = written.plugins]
      /\ UNCHANGED <<manifest, report, stage>>

Next == Validate \/ Repair \/ \E h \in Hashes, t \in Times : Package(h, t)

Spec == Init /\ [][Next]_vars

-----------------------------------------------------------------------------

\* A report names errors that a manifest can have, and a draft has none yet.
TypeOK ==
  /\ stage \in {"draft", "validated", "mended"}
  /\ \A p \in PathsOf(report) \ {<< >>} :
       p[1] \in {"manifest_schema_version", "plugin", "dependencies"}
  /\ {e.error : e \in report} \subseteq ManifestErrors
  /\ stage = "draft" => report = {}
  /\ Len(index.plugins) \in 0 .. MaxEntries

Fatal(errors) == \E e \in errors : e.path \in {<< >>, <<"manifest_schema_version">>}

\* docs, manifest.md: once syntax and schema version are in order, the parser
\* reports all field errors in one pass.  After the author has mended exactly
\* what a report named, the next one names at most repeated dependencies: one
\* hidden while its URL or name did not parse, or one the mending made.
OnePass ==
  [][stage = "mended" /\ stage' = "validated" /\ ~Fatal(report) =>
       \A e \in report' : e.error = "DuplicatePluginDependency"]_vars

\* A repeated dependency that is taken out takes the errors of its fields along.
GoesWithAnother(p, paths) == \E n \in 1 .. Len(p) - 1 : SubSeq(p, 1, n) \in paths

\* No false alarm, no cascade: an author who mends all places of a report but
\* one is still refused, so every error stands for a defect of its own, but for
\* those of the fields of a dependency that has to go as a whole.
EveryErrorCounts ==
  stage = "validated" =>
    \A p \in PathsOf(report) :
      ~GoesWithAnother(p, PathsOf(report)) =>
        \A m \in MendedManifests(manifest, PathsOf(report) \ {p}) : parse_toml(m) # {}

\* The same errors of fields, with the paths of manifest.toml put under an
\* entry of plugins[].
InEntry(errors, path) ==
  {[path |-> path \o (IF e.path[1] = "plugin" THEN Tail(e.path) ELSE e.path),
    error |-> e.error] : e \in errors}

\* manifest.rs and index.rs validate fields in two separate functions; on the
\* same texts they find the same errors, so an entry another producer copied
\* from a manifest is in the index refused for what validate refuses, at the
\* place that says so, and for nothing else.
OneRule ==
  LET errors == parse_toml(manifest)
      path == <<"plugins", 1>>
  IN  manifest.wellformed /\ ~Fatal(errors) =>
        \A h \in Hashes, t \in Times :
          validate_raw_entry(RawEntry(manifest, h, t), path) = InEntry(errors, path)

\* What package writes can be read back: whatever manifest was accepted, and
\* whatever Unicode normalization made of the descriptions, the registry's
\* next reader finds no error in a document that had none.
StaysReadable ==
  [][parse_json(index) = {} => parse_json(index') = {}]_index

=============================================================================
