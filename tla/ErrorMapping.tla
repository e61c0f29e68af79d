---------------------------- MODULE ErrorMapping ----------------------------
(***************************************************************************)
(* The errors of the three crates and their way to the wire: SchemaError   *)
(* and ValidationError (influxdb3-plugin-schemas), SdkError and            *)
(* ValidationFailure (influxdb3-plugin-sdk), clap's errors, and the        *)
(* JsonError and the CliError that the commands make of them.              *)
(*                                                                         *)
(* An error is a record: its variant and that variant's fields under the   *)
(* names of the source.  An option is a set of at most one element.  A     *)
(* code `ns::name` is <<ns, name>>.  Messages are left out: every one is a *)
(* text over the fields that the record keeps.                             *)
(***************************************************************************)
EXTENDS Naturals, SequencesExt

-----------------------------------------------------------------------------
(* SchemaError                                                              *)

SchemaErrorFields ==
  [InvalidPluginName |-> {"name"}, ReservedPluginName |-> {"name"},
   InvalidVersion |-> {"version", "source"}, DescriptionTooLong |-> {"len"},
   DescriptionEmpty |-> {}, DescriptionMultiline |-> {"len"},
   InvalidUrlScheme |-> {"url", "scheme"}, InvalidUrl |-> {"url", "source"},
   UnknownTriggerType |-> {"trigger"}, EmptyTriggers |-> {},
   InvalidDatabaseVersion |-> {"range", "source"},
   InvalidPythonRequirement |-> {"requirement", "source"},
   UnsupportedArtifactScheme |-> {"url", "scheme"},
   UnsupportedIndexUrlScheme |-> {"url", "scheme"},
   InvalidPluginDependencyVersion |-> {"range", "source"},
   DuplicatePluginDependency |-> {"index_url", "name"},
   InvalidHash |-> {"value"}, InvalidPublishedAt |-> {"value"},
   DuplicateIndexEntry |-> {"name", "version"},
   CanonicalCollision |-> {"name", "canonical", "existing"},
   UnsupportedManifestMajor |-> {"found", "supported"},
   UnsupportedIndexMajor |-> {"found", "supported"},
   MalformedSchemaVersion |-> {"value"}, TomlParse |-> {"source"},
   JsonParse |-> {"source"}, JsonSerialize |-> {"source"}]

variant_name(err) == err.variant

Display(err) == [error_text |-> err]

\* The variants with an arm in schema_error_details.
MappedVariants ==
  DOMAIN SchemaErrorFields \ {"UnsupportedIndexUrlScheme",
                              "InvalidPluginDependencyVersion",
                              "DuplicatePluginDependency"}

\* The key under which a field of an error is printed: the error of another
\* crate becomes a text.
DetailKey(variant, field) ==
  IF field # "source" THEN field
  ELSE IF variant = "JsonSerialize" THEN "serialize_error" ELSE "parse_error"

\* What the `_` arm leaves of an error.
UnmappedDetails(err) == [schema_variant |-> "variant_unmapped", display |-> Display(err)]

MappedDetails(err) ==
  LET v == err.variant
      keys == {DetailKey(v, f) : f \in SchemaErrorFields[v]}
      FieldOf(k) == CHOOSE f \in SchemaErrorFields[v] : DetailKey(v, f) = k
  IN  [k \in {"schema_variant"} \cup keys |->
         IF k = "schema_variant" THEN variant_name(err) ELSE err[FieldOf(k)]]

schema_error_details(err) ==
  IF err.variant \in MappedVariants THEN MappedDetails(err) ELSE UnmappedDetails(err)

\* ReportedError: the root path is the empty sequence.
ReportedError(path, err) == [path |-> path, error |-> err]

\* A record of an enum whose variants have these fields.
HasFieldsOf(err, fields) ==
  /\ err.variant \in DOMAIN fields
  /\ err = [f \in {"variant"} \cup fields[err.variant] |-> err[f]]

IsReported(r) ==
  /\ r = ReportedError(r.path, r.error)
  /\ HasFieldsOf(r.error, SchemaErrorFields)

\* SchemaErrors::new is called with at least one error.
SchemaErrors(errors) == errors # << >>

-----------------------------------------------------------------------------
(* JsonError                                                                *)

JsonError(code, field, details) ==
  [code |-> code, field |-> field, details |-> details,
   diagnostics |-> << >>, cause |-> << >>]

WithDiagnostics(je, diagnostics) == [je EXCEPT !.diagnostics = diagnostics]

WithCause(je, cause) == [je EXCEPT !.cause = cause]

MapSeq(Op(_), s) == [i \in DOMAIN s |-> Op(s[i])]

-----------------------------------------------------------------------------
(* ValidationError                                                          *)

ValidationErrorFields ==
  [SchemaReported |-> {"reported"}, MissingRequiredFile |-> {"file"},
   PythonParse |-> {"entry_point", "message"},
   TriggerNotImplemented |-> {"trigger", "entry_point"},
   AsyncTriggerFn |-> {"trigger", "entry_point"}, NoEntryPoint |-> {},
   AmbiguousEntryPoint |-> {"files"}, NameVersionConflict |-> {"name", "version"}]

IsValidationError(err) ==
  /\ HasFieldsOf(err, ValidationErrorFields)
  /\ err.variant = "SchemaReported" => IsReported(err.reported)

SchemaReported(reported) == [variant |-> "SchemaReported", reported |-> reported]

json_error_from_validation(err) ==
  CASE err.variant = "SchemaReported" ->
         JsonError(<<"validate", "schema_reported">>,
                   {err.reported.path} \ {<< >>},
                   {schema_error_details(err.reported.error)})
    [] err.variant = "MissingRequiredFile" ->
         JsonError(<<"validate", "missing_required_file">>,
                   {err.file}, {[file |-> err.file]})
    [] err.variant = "PythonParse" ->
         JsonError(<<"validate", "python_parse">>,
                   {err.entry_point}, {[parse_message |-> err.message]})
    [] err.variant = "TriggerNotImplemented" ->
         JsonError(<<"validate", "trigger_not_implemented">>,
                   {err.entry_point}, {[trigger |-> err.trigger]})
    [] err.variant = "AsyncTriggerFn" ->
         JsonError(<<"validate", "async_trigger_fn">>,
                   {err.entry_point}, {[trigger |-> err.trigger]})
    [] err.variant = "NoEntryPoint" ->
         JsonError(<<"validate", "no_entry_point">>, {}, {})
    [] err.variant = "AmbiguousEntryPoint" ->
         JsonError(<<"validate", "ambiguous_entry_point">>, {}, {[files |-> err.files]})
    [] err.variant = "NameVersionConflict" ->
         JsonError(<<"validate", "name_version_conflict">>, {<<err.name, err.version>>},
                   {[name |-> err.name, version |-> err.version]})
    [] OTHER -> JsonError(<<"validate", "unknown">>, {}, {})

-----------------------------------------------------------------------------
(* SdkError and ValidationFailure, and the conversions between them          *)

SdkVariants ==
  {"Io", "Schema", "ValidationErrors", "Archive", "PathTooLong", "Hash",
   "AlreadyPublished", "CanonicalCollision", "EntryNotFound", "InvalidExcludePattern"}

\* An io::Error: its kind, and what its source() gives.
IoError(kind, source) == [kind |-> kind, source |-> source]

SdkIo(source, path) == [variant |-> "Io", source |-> source, path |-> path]

SdkSchema(err) == [variant |-> "Schema", error |-> err]

SdkArchive(message) == [variant |-> "Archive", message |-> message]

ValidationErrors(errs) == [variant |-> "ValidationErrors", errors |-> errs]

Invalid(errs) == [variant |-> "Invalid", errors |-> errs]

InvalidExcludePattern(pattern, message) ==
  [variant |-> "InvalidExcludePattern", pattern |-> pattern, message |-> message]

sdk_from_schema_errors(reports) == ValidationErrors(MapSeq(SchemaReported, reports))

failure_from_schema_errors(reports) == Invalid(MapSeq(SchemaReported, reports))

sdk_from_insert(err) ==
  IF err.variant = "Duplicate"
  THEN [variant |-> "AlreadyPublished", name |-> err.name, version |-> err.version,
        existing_versions |-> err.existing_versions]
  ELSE [variant |-> "CanonicalCollision", name |-> err.name,
        canonical |-> err.canonical, existing |-> err.existing]

\* A failed walk of the directory is an archive error for package, and an
\* I/O error without a path for validate.
sdk_from_select(err) ==
  CASE err.variant = "InvalidExcludePattern" -> err
    [] err.variant = "Io" -> SdkIo(err.source, err.path)
    [] err.variant = "Walk" -> SdkArchive(err.message)

failure_from_select(err) ==
  CASE err.variant = "InvalidExcludePattern" -> err
    [] err.variant = "Io" -> SdkIo(err.source, err.path)
    [] err.variant = "Walk" -> SdkIo(IoError("Other", {}), {})

sdk_from_failure(failure) ==
  IF failure.variant = "Invalid" THEN ValidationErrors(failure.errors) ELSE failure

\* ValidationReport::into_result: {} is Ok.
into_result(errs) == IF errs = << >> THEN {} ELSE {Invalid(errs)}

-----------------------------------------------------------------------------
(* json_error_from_sdk                                                      *)

ErrorContexts == {"Validate", "Package", "Yank", "NewPlugin", "NewIndex"}

namespace_for(ctx, suffix) ==
  <<CASE ctx = "Validate" -> "validate"
      [] ctx = "Package" -> "package"
      [] ctx = "Yank" -> "yank"
      [] ctx \in {"NewPlugin", "NewIndex"} -> "new", suffix>>

\* The text of the io::Error itself is the message; a cause is what lies below.
io_error_to_json(source, path, ctx) ==
  WithCause(
    JsonError(IF ctx \in {"NewPlugin", "NewIndex"} THEN <<"new", "scaffold_failed">>
              ELSE namespace_for(ctx, "io_failed"),
              path, {[path |-> path, io_kind |-> source.kind]}),
    SetToSeq(source.source))

json_error_from_sdk(err, ctx) ==
  CASE err.variant = "Io" -> io_error_to_json(err.source, err.path, ctx)
    [] err.variant = "Schema" ->
         JsonError(namespace_for(ctx, "schema_error"), {}, {schema_error_details(err.error)})
    [] err.variant = "ValidationErrors" ->
         WithDiagnostics(JsonError(<<"validate", "failed">>, {}, {}),
                         MapSeq(json_error_from_validation, err.errors))
    [] err.variant = "Archive" ->
         IF ctx \in {"NewPlugin", "NewIndex"}
         THEN JsonError(<<"new", "scaffold_failed">>, {}, {})
         ELSE JsonError(<<"package", "archive_failed">>, {}, {[archive_message |-> err.message]})
    [] err.variant = "PathTooLong" ->
         JsonError(<<"package", "path_too_long">>, {err.archive_path},
                   {[archive_path |-> err.archive_path, limit_bytes |-> err.limit]})
    [] err.variant = "Hash" ->
         WithCause(JsonError(<<"package", "hash_failed">>, {}, {}), <<err.source.kind>>)
    [] err.variant = "AlreadyPublished" ->
         JsonError(<<"package", "already_published">>, {<<err.name, err.version>>},
                   {[name |-> err.name, version |-> err.version,
                     existing_versions |-> err.existing_versions]})
    [] err.variant = "CanonicalCollision" ->
         JsonError(<<"package", "canonical_collision">>, {<<"plugin", "name">>},
                   {[name |-> err.name, canonical |-> err.canonical,
                     existing |-> err.existing]})
    [] err.variant = "EntryNotFound" ->
         JsonError(<<"yank", "entry_not_found">>, {<<err.name, err.version>>},
                   {[name |-> err.name, version |-> err.version]})
    [] err.variant = "InvalidExcludePattern" ->
         JsonError(namespace_for(ctx, "invalid_exclude_pattern"), {err.pattern},
                   {[pattern |-> err.pattern, message |-> err.message]})
    [] OTHER -> JsonError(namespace_for(ctx, "sdk_error"), {}, {})

-----------------------------------------------------------------------------
(* clap's errors: a kind and the context that the kind has.                  *)

ClapContext(err, keys) ==
  IF keys \cap DOMAIN err = {} THEN {} ELSE {[k \in keys \cap DOMAIN err |-> err[k]]}

ClapCode ==
  [MissingRequiredArgument |-> "missing_required_argument", InvalidValue |-> "invalid_value",
   UnknownArgument |-> "unknown_argument", InvalidSubcommand |-> "invalid_subcommand",
   MissingSubcommand |-> "missing_subcommand", TooManyValues |-> "too_many_values",
   TooFewValues |-> "too_few_values"]

ClapDetailKeys ==
  [MissingRequiredArgument |-> {"argument"}, InvalidValue |-> {"argument", "value"},
   UnknownArgument |-> {"argument"}, InvalidSubcommand |-> {"subcommand"},
   MissingSubcommand |-> {}, TooManyValues |-> {"argument", "value"},
   TooFewValues |-> {"argument", "value"}]

json_error_from_clap(err) ==
  IF err.kind = "ValueValidation"
  THEN JsonError(<<"usage", IF "argument" \in DOMAIN err /\ err.argument = "<NAME@VERSION>"
                            THEN "invalid_target" ELSE "value_validation">>,
                 {}, ClapContext(err, {"argument", "value"}))
  ELSE IF err.kind \in DOMAIN ClapCode
  THEN JsonError(<<"usage", ClapCode[err.kind]>>, {},
                 ClapContext(err, ClapDetailKeys[err.kind]))
  ELSE JsonError(<<"usage", "parse_error">>, {}, {[clap_kind |-> err.kind]})

-----------------------------------------------------------------------------
(* CliError.  An error of another type (a failed write to stdout) reaches    *)
(* main.rs as it is: Plain.                                                  *)

Usage(je)   == [kind |-> "Usage", json |-> {je}]
Runtime(je) == [kind |-> "Runtime", json |-> {je}]
Plain       == [kind |-> "Plain", json |-> {}]

json_error_of(e) == e.json

CliErrorKind_of(e) == IF e.kind = "Usage" THEN "Usage" ELSE "Runtime"

fallback_json_error(e) == JsonError(<<"cli", "unknown">>, {}, {})

=============================================================================
