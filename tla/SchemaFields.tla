---------------------------- MODULE SchemaFields ----------------------------
(***************************************************************************)
(* The two readers of influxdb3-plugin-schemas, manifest.toml and          *)
(* index.json, as functions from a raw document to the errors reported on  *)
(* it, each at its field path.  {} is an accepted document.                *)
(*                                                                         *)
(* Every field validator is a function from a raw text to a set of at most *)
(* one error.  A text keeps what its validator tells apart: lengths,       *)
(* schemes, whether a parser of another crate accepts it.  IndexOps' sets  *)
(* of versions, times and hashes are the texts that semver, PublishedAt    *)
(* and ArtifactHash accept.                                                *)
(***************************************************************************)
EXTENDS IndexOps

CONSTANTS
  Reserved,      \* stems that are Windows device names
  Ranges,        \* texts semver::VersionReq accepts
  Requirements   \* texts pep508_rs accepts

At(path, errors) == {[path |-> path, error |-> e] : e \in errors}

AtEach(path, Errors(_), texts) ==
  UNION {At(Append(path, i), Errors(texts[i])) : i \in DOMAIN texts}

-----------------------------------------------------------------------------
(* Field validators.                                                        *)

\* A name text is a PluginName spelling with its length in bytes and whether
\* its first byte is a letter and the rest are letters, digits, `-` and `_`.
validate(n) ==
  IF n.length \notin 1 .. 64 \/ ~n.letter_first \/ ~n.word_rest
  THEN {"InvalidPluginName"}
  ELSE IF n.stem \in Reserved THEN {"ReservedPluginName"} ELSE {}

\* Lengths count characters; the rule on lines comes before the one on length.
Description_try_new(d) ==
  IF d.length = 0 THEN {"DescriptionEmpty"}
  ELSE IF ~d.one_line THEN {"DescriptionMultiline"}
  ELSE IF d.length > 200 THEN {"DescriptionTooLong"} ELSE {}

SchemaVersion_from_str(t, supported, unsupported) ==
  IF ~t.wellformed THEN {"MalformedSchemaVersion"}
  ELSE IF t.major # supported THEN {unsupported} ELSE {}

TriggerType_from_str(t) ==
  IF t \in {"process_writes", "process_scheduled_call", "process_request"}
  THEN {} ELSE {"UnknownTriggerType"}

UrlErrors(u, schemes, unsupported) ==
  IF ~u.parses THEN {"InvalidUrl"}
  ELSE IF u.scheme \notin schemes THEN {unsupported} ELSE {}

parse_registry_scheme_url(u, unsupported) ==
  UrlErrors(u, {"https", "http", "file"}, unsupported)

IndexUrl_try_new(u) == parse_registry_scheme_url(u, "UnsupportedIndexUrlScheme")

ArtifactsUrl_try_new(u) == parse_registry_scheme_url(u, "UnsupportedArtifactScheme")

\* An optional field is the set of its texts.
parse_optional_http_url(option) ==
  UNION {UrlErrors(u, {"http", "https"}, "InvalidUrlScheme") : u \in option}

ErrorUnless(accepted, error) == IF accepted THEN {} ELSE {error}

PythonRequirement_try_new(t) == ErrorUnless(t \in Requirements, "InvalidPythonRequirement")

\* A missing field and a JSON value that is not a string are texts outside Times.
PublishedAt_try_new(t) == ErrorUnless(t \in Times, "InvalidPublishedAt")

ArtifactHash_try_new(t) == ErrorUnless(t \in Hashes, "InvalidHash")

\* What both documents say of triggers: at least one, and each known.
TriggersErrors(path, triggers) ==
  IF triggers = << >> THEN At(path, {"EmptyTriggers"})
  ELSE AtEach(path, TriggerType_from_str, triggers)

\* The optional links of a [plugin] table or of an index entry.
LinksErrors(fields, path) ==
  UNION {At(Append(path, f), parse_optional_http_url(fields[f])) :
           f \in {"homepage", "repository", "documentation"}}

-----------------------------------------------------------------------------
(* validate_raw_plugin_dependencies.  An entry repeats an earlier one when   *)
(* both have a URL and a name that parsed, and these agree once the URL is   *)
(* normalized and the name is in canonical form.                             *)

KeyParses(dep) == IndexUrl_try_new(dep.index_url) = {} /\ validate(dep.name) = {}

KeyOf(dep) == <<dep.index_url.url, canonical_name(dep.name)>>

\* Mutant: texts that did not parse take part in the check for duplicates.
RepeatsDependencyRaw(deps, i) == \E j \in 1 .. i - 1 : KeyOf(deps[j]) = KeyOf(deps[i])

RepeatsDependency(deps, i) ==
  /\ KeyParses(deps[i])
  /\ \E j \in 1 .. i - 1 : KeyParses(deps[j]) /\ KeyOf(deps[j]) = KeyOf(deps[i])

validate_raw_plugin_dependencies(deps, path) ==
  UNION {LET at == path \o <<"plugins", i>>
             dep == deps[i]
         IN  At(Append(at, "index_url"), IndexUrl_try_new(dep.index_url))
             \cup At(Append(at, "name"), validate(dep.name))
             \cup At(Append(at, "version"),
                     ErrorUnless(dep.version \in Ranges, "InvalidPluginDependencyVersion"))
             \cup At(at, ErrorUnless(~RepeatsDependency(deps, i),
                                     "DuplicatePluginDependency"))
         : i \in DOMAIN deps}

-----------------------------------------------------------------------------
(* Manifest::parse_toml                                                     *)

PluginErrors(p) ==
  LET at == <<"plugin">>
  IN  At(at \o <<"name">>, validate(p.name))
      \cup At(at \o <<"version">>, ErrorUnless(p.version \in Versions, "InvalidVersion"))
      \cup At(at \o <<"description">>, Description_try_new(p.description))
      \cup TriggersErrors(at \o <<"triggers">>, p.triggers)
      \cup LinksErrors(p, at)

\* Mutant: the manifest's Python requirements are not parsed.
DependenciesErrorsNoPython(d) ==
  LET at == <<"dependencies">>
  IN  At(at \o <<"database_version">>,
         ErrorUnless(d.database_version \in Ranges, "InvalidDatabaseVersion"))
      \cup validate_raw_plugin_dependencies(d.plugins, at)

DependenciesErrors(d) ==
  LET at == <<"dependencies">>
  IN  At(at \o <<"database_version">>,
         ErrorUnless(d.database_version \in Ranges, "InvalidDatabaseVersion"))
      \cup AtEach(at \o <<"python">>, PythonRequirement_try_new, d.python)
      \cup validate_raw_plugin_dependencies(d.plugins, at)

\* The SchemaError variants that a manifest can meet.
ManifestErrors ==
  {"TomlParse", "MalformedSchemaVersion", "UnsupportedManifestMajor",
   "InvalidPluginName", "ReservedPluginName", "InvalidVersion", "DescriptionEmpty",
   "DescriptionMultiline", "DescriptionTooLong", "EmptyTriggers", "UnknownTriggerType",
   "InvalidUrl", "InvalidUrlScheme", "InvalidDatabaseVersion", "InvalidPythonRequirement",
   "UnsupportedIndexUrlScheme", "InvalidPluginDependencyVersion",
   "DuplicatePluginDependency"}

\* Mutant: the check of the index's schema version, copied.
ManifestVersionAsIndex(t) == SchemaVersion_from_str(t, 1, "UnsupportedIndexMajor")

ManifestVersion_from_str(t) == SchemaVersion_from_str(t, 1, "UnsupportedManifestMajor")

\* Mutant: the dependencies are looked at only when [plugin] is in order.
ParseTomlTableByTable(m) ==
  LET version == ManifestVersion_from_str(m.manifest_schema_version)
  IN  IF ~m.wellformed THEN At(<< >>, {"TomlParse"})
      ELSE IF version # {} THEN At(<<"manifest_schema_version">>, version)
      ELSE IF PluginErrors(m.plugin) # {} THEN PluginErrors(m.plugin)
      ELSE DependenciesErrors(m.dependencies)

\* Syntax and schema version stop the reading; the fields are all read.
parse_toml(m) ==
  LET version == ManifestVersion_from_str(m.manifest_schema_version)
  IN  IF ~m.wellformed THEN At(<< >>, {"TomlParse"})
      ELSE IF version # {} THEN At(<<"manifest_schema_version">>, version)
      ELSE PluginErrors(m.plugin) \cup DependenciesErrors(m.dependencies)

-----------------------------------------------------------------------------
(* Index::parse_json: its fields, the fields of every entry, and the         *)
(* duplicates and collisions between entries, which are looked for on raw    *)
(* texts.                                                                    *)

validate_raw_entry(e, path) ==
  LET deps == path \o <<"dependencies">>
  IN  At(path \o <<"name">>, validate(e.name))
      \cup At(path \o <<"version">>, ErrorUnless(e.version \in Versions, "InvalidVersion"))
      \cup At(path \o <<"published_at">>, PublishedAt_try_new(e.published_at))
      \cup At(path \o <<"description">>, Description_try_new(e.description))
      \cup TriggersErrors(path \o <<"triggers">>, e.triggers)
      \cup LinksErrors(e, path)
      \cup At(deps \o <<"database_version">>,
              ErrorUnless(e.dependencies.database_version \in Ranges, "InvalidDatabaseVersion"))
      \cup AtEach(deps \o <<"python">>, PythonRequirement_try_new, e.dependencies.python)
      \cup validate_raw_plugin_dependencies(e.dependencies.plugins, deps)
      \cup At(path \o <<"hash">>, ArtifactHash_try_new(e.hash))

parse_json(doc) ==
  LET version == SchemaVersion_from_str(doc.index_schema_version, 2, "UnsupportedIndexMajor")
  IN  IF ~doc.wellformed THEN At(<< >>, {"JsonParse"})
      ELSE IF version # {} THEN At(<<"index_schema_version">>, version)
      ELSE At(<<"artifacts_url">>, ArtifactsUrl_try_new(doc.artifacts_url))
           \cup (UNION {validate_raw_entry(doc.plugins[i], <<"plugins", i>>)
                          : i \in DOMAIN doc.plugins})
           \cup {[path |-> <<"plugins", e[1]>>, error |-> e[2]] : e \in ParseErrors(doc.plugins)}

=============================================================================
