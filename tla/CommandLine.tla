----------------------------- MODULE CommandLine -----------------------------
(***************************************************************************)
(* One invocation of `influxdb3-plugin`, from its arguments to its exit    *)
(* code: PluginConfig::try_parse, run, and main.rs, which prints the error *)
(* that run returns.  The files the commands read and write are those of   *)
(* AuthorCommands, PluginPackaging and Scaffold; here a step of a command  *)
(* succeeds or fails as these modules allow, and what counts is what the   *)
(* caller is told on stdout, on stderr and by the exit code.               *)
(***************************************************************************)
EXTENDS CommandResults

CONSTANTS
  Invocations,       \* command lines with their environments
  IndexReports,      \* what Index::parse_json may report
  DirectoryReports,  \* what validate::plugin_dir may report
  DirectoryErrors,   \* ... and return in place of a report
  PackageErrors,     \* what package_plugin may return after the validation
  SerializeErrors,   \* what to_canonical_json may return
  ScaffoldErrors     \* what scaffold::plugin and scaffold::index may return

ASSUME InvocationAssumption ==
  Invocations \subseteq [cmd : Commands \cup NoCommands, argv : Seq(STRING \cup {NotUnicode}),
                         given : BOOLEAN, undo : BOOLEAN, env : Environments]

ASSUME ReportsAssumption ==
  /\ \A reports \in IndexReports :
       /\ reports \in Seq(ToSet(reports)) /\ SchemaErrors(reports)
       /\ \A i \in DOMAIN reports : IsReported(reports[i])
  /\ \A errs \in DirectoryReports :
       /\ errs \in Seq(ToSet(errs))
       /\ \A i \in DOMAIN errs : IsValidationError(errs[i])

VARIABLES
  inv,      \* the invocation
  at,       \* its step
  mode,     \* the command's output mode, once it is known
  error,    \* the error that run returned
  found,    \* the validation errors that a library function returned
  outcome,  \* the entry's flag before and after a yank, and what it is called
  written,  \* the files written
  stdout, stderr,
  broken,   \* the streams on which a write failed
  exit      \* the exit code

vars == <<inv, at, mode, error, found, outcome, written, stdout, stderr, broken, exit>>

Init ==
  /\ inv \in Invocations
  /\ at = "parse" /\ mode = {} /\ error = {} /\ found = << >> /\ outcome = {}
  /\ written = {} /\ stdout = << >> /\ stderr = << >> /\ broken = {} /\ exit = {}

-----------------------------------------------------------------------------
(* The errors that the commands make themselves.                            *)

\* An object with these keys; its values are texts.
Texts(keys) == {[k \in keys |-> "text"]}

IoFailed(code, field) ==
  Runtime(WithCause(JsonError(code, {field}, Texts({"path", "io_kind"})), <<"io">>))

PathResolutionFailed == Runtime(JsonError(<<"path", "resolution_failed">>, {}, {}))

parse_database_version ==
  Usage(JsonError(<<"usage", "invalid_database_version">>, {"--database-version"},
                  Texts({"value", "reason"})))

parse_exact_version ==
  Usage(JsonError(<<"usage", "value_validation">>, {"--version"},
                  Texts({"arg", "value", "reason"})))

parse_plugin_name ==
  Usage(JsonError(<<"usage", "invalid_name">>, {"NAME"}, Texts({"value", "reason"})))

\* A name that the user typed is a usage error, one taken from the path is not.
resolve_plugin_name ==
  {Usage(JsonError(<<"usage", "invalid_name">>, {}, Texts({"value", "reason"}))),
   Runtime(JsonError(<<"new", "path_resolution_failed">>, {}, {})),
   Runtime(JsonError(<<"new", "derived_name_unavailable">>, {}, {})),
   Runtime(JsonError(<<"new", "derived_name_invalid">>, {"dir"}, {})),
   PathResolutionFailed}

sibling_canonical_collision ==
  Usage(JsonError(<<"usage", "sibling_canonical_collision">>, {},
                  Texts({"name", "sibling", "canonical"})))

BadOption(name) == Usage(JsonError(<<"usage", name>>, {}, Texts({"value", "reason"})))

\* What a command can find wrong before it opens a file.
ArgumentProblems(cmd) ==
  CASE cmd = "search" -> {parse_database_version}
    [] cmd = "info" -> {parse_plugin_name, parse_exact_version, parse_database_version}
    [] cmd \in {"package", "yank"} -> {PathResolutionFailed}
    [] cmd \in PluginTemplates -> resolve_plugin_name
                                  \cup {BadOption("invalid_database_version"),
                                        sibling_canonical_collision, PathResolutionFailed}
    [] cmd = "index" -> {BadOption("invalid_artifacts_url"), PathResolutionFailed}
    [] OTHER -> {}

\* validate makes a diagnostic of an index that cannot be read.
ValidateReadFailed ==
  Runtime(WithDiagnostics(
    JsonError(<<"validate", "failed">>, {}, {}),
    <<WithCause(JsonError(<<"validate", "index_read_failed">>, {"index"},
                          Texts({"path", "io_message"})), <<"io">>)>>))

ReadProblems(cmd) ==
  CASE cmd \in {"search", "info"} ->
         {PathResolutionFailed, IoFailed(<<"index", "index_read_failed">>, "index")}
    [] cmd = "validate" -> {PathResolutionFailed, ValidateReadFailed}
    [] cmd \in {"package", "yank"} -> {IoFailed(<<"io", "read_failed">>, "index")}

\* The namespace in which a command reports an index that does not parse.
IndexNamespace(cmd) == IF cmd \in {"search", "info"} THEN "index" ELSE cmd

\* Mutant: package stops at the first error of an index.
ParseFailedAtFirst(cmd, reports) ==
  Runtime(WithDiagnostics(
    JsonError(<<IndexNamespace(cmd), "index_parse_failed">>, {"index"}, {}),
    <<json_error_from_validation(SchemaReported(reports[1]))>>))

ParseFailed(cmd, reports) ==
  IF cmd = "validate"
  THEN Runtime(json_error_from_sdk(sdk_from_schema_errors(reports), "Validate"))
  ELSE Runtime(WithDiagnostics(
         JsonError(<<IndexNamespace(cmd), "index_parse_failed">>, {"index"}, {}),
         MapSeq(LAMBDA r : json_error_from_validation(SchemaReported(r)), reports)))

\* validate and package each make the same error of a report.
validation_errors_to_cli_error(errs) ==
  Runtime(WithDiagnostics(JsonError(<<"validate", "failed">>, {}, {}),
                          MapSeq(json_error_from_validation, errs)))

input_output_overlap ==
  Usage(JsonError(<<"usage", "input_output_overlap">>, {}, Texts({"index", "out"})))

-----------------------------------------------------------------------------
(* Steps.                                                                   *)

Cmd == inv.cmd

At(step) == at = step

Goto(step) == at' = step

\* run returns Err(e).
Returns(e) == error' = {e} /\ at' = "failed"

UnchangedStreams == UNCHANGED <<stdout, stderr, broken, exit>>

Quietly == UNCHANGED <<inv, mode, found, outcome, written>> /\ UnchangedStreams

\* The step that follows the parsing of the index.
AfterIndex ==
  IF Cmd \in {"package", "yank"} THEN "createOut"
  ELSE IF Cmd = "validate" THEN "library" ELSE "report"

\* PluginConfig::try_parse; then run, which dispatches and takes the mode.
Parse ==
  /\ At("parse")
  /\ ClapErrors(Cmd, inv.argv, inv.given) = {}
  /\ mode' = {resolve_output_mode(Explicit(inv.argv), inv.env)}
  /\ Goto("arguments")
  /\ UNCHANGED <<inv, error, found, outcome, written>> /\ UnchangedStreams

\* NewCommand::run and PluginConfig::run.
FirstStep(cmd) ==
  CASE cmd = "list" -> "report"
    [] cmd \in PluginTemplates \cup {"index"} -> "scaffold"
    [] cmd = "validate" /\ ~inv.given -> "library"
    [] OTHER -> "read"

CheckArguments ==
  /\ At("arguments")
  /\ Quietly
  /\ \/ \E e \in ArgumentProblems(Cmd) : Returns(e)
     \/ Goto(FirstStep(Cmd)) /\ UNCHANGED error

ReadIndex ==
  /\ At("read")
  /\ UNCHANGED <<inv, mode, outcome, written>> /\ UnchangedStreams
  /\ \/ \E e \in ReadProblems(Cmd) : Returns(e) /\ UNCHANGED found
     \/ \E reports \in IndexReports :
          Returns(ParseFailed(Cmd, reports)) /\ found' = MapSeq(SchemaReported, reports)
     \/ Goto(AfterIndex) /\ UNCHANGED <<error, found>>

\* create_dir_all, and canonicalize on both paths.
PrepareOut ==
  /\ At("createOut")
  /\ Quietly
  /\ \/ Returns(IoFailed(<<"io", "write_failed">>, "out"))
     \/ \E path \in {"index", "out"} : Returns(IoFailed(<<"io", "canonicalize_failed">>, path))
     \/ Returns(input_output_overlap)
     \/ Goto("library") /\ UNCHANGED error

Validate ==
  /\ At("library") /\ Cmd = "validate"
  /\ UNCHANGED <<inv, mode, outcome, written>> /\ UnchangedStreams
  /\ \/ \E errs \in DirectoryReports :
          Returns(validation_errors_to_cli_error(errs)) /\ found' = errs
     \/ \E err \in DirectoryErrors :
          Returns(Runtime(json_error_from_sdk(err, "Validate"))) /\ UNCHANGED found
     \/ Goto("report") /\ UNCHANGED <<error, found>>

\* A report that package_plugin passes on arrives as SdkError::ValidationErrors.
Package ==
  /\ At("library") /\ Cmd = "package"
  /\ UNCHANGED <<inv, mode, outcome, written>> /\ UnchangedStreams
  /\ \/ \E errs \in DirectoryReports :
          Returns(validation_errors_to_cli_error(sdk_from_failure(Invalid(errs)).errors))
          /\ found' = errs
     \/ \E err \in DirectoryErrors \cup PackageErrors :
          Returns(Runtime(json_error_from_sdk(err, "Package"))) /\ UNCHANGED found
     \/ Goto("serialize") /\ UNCHANGED <<error, found>>

\* Mutant: the outcome is named after the flag that the entry had.
OutcomeByFlag(transitioned, undo) ==
  IF transitioned THEN IF undo THEN "yanked" ELSE "unyanked"
  ELSE IF undo THEN "already_unyanked" ELSE "already_yanked"

outcome_wire(transitioned, undo) ==
  IF transitioned THEN IF undo THEN "unyanked" ELSE "yanked"
  ELSE IF undo THEN "already_unyanked" ELSE "already_yanked"

EntryNotFound == [variant |-> "EntryNotFound", name |-> "name", version |-> "version"]

Yank ==
  /\ At("library") /\ Cmd = "yank"
  /\ UNCHANGED <<inv, mode, found, written>> /\ UnchangedStreams
  /\ \/ Returns(Runtime(json_error_from_sdk(EntryNotFound, "Yank"))) /\ UNCHANGED outcome
     \/ \E yanked \in BOOLEAN :
          /\ outcome' = {[before |-> yanked, after |-> ~inv.undo,
                          wire |-> outcome_wire(yanked = inv.undo, inv.undo)]}
          /\ Goto("serialize") /\ UNCHANGED error

Context == IF Cmd = "package" THEN "Package" ELSE "Yank"

Serialize ==
  /\ At("serialize")
  /\ Quietly
  /\ \/ \E err \in SerializeErrors :
          Returns(Runtime(json_error_from_sdk(SdkSchema(err), Context)))
     \/ Goto(IF Cmd = "package" THEN "artifact" ELSE "index") /\ UNCHANGED error

\* std::fs::write, which may fail.
WriteFile(step, file, next) ==
  /\ At(step)
  /\ UNCHANGED <<inv, mode, found, outcome>> /\ UnchangedStreams
  /\ \/ Returns(IoFailed(<<"io", "write_failed">>, file)) /\ UNCHANGED written
     \/ Goto(next) /\ written' = written \cup {file} /\ UNCHANGED error

WriteArtifact == WriteFile("artifact", "artifact", "index")

WriteIndex == WriteFile("index", "index.json", "report")

\* scaffold::plugin and scaffold::index, in the order of their writes.
ScaffoldFiles ==
  IF Cmd = "index" THEN <<"index.json">> ELSE <<"manifest.toml", "<name>.py", "README.md">>

Scaffold ==
  /\ At("scaffold")
  /\ UNCHANGED <<inv, mode, found, outcome>> /\ UnchangedStreams
  /\ \E k \in 0 .. Len(ScaffoldFiles) :
       /\ written' = ToSet(SubSeq(ScaffoldFiles, 1, k))
       /\ IF k < Len(ScaffoldFiles)
          THEN \E err \in ScaffoldErrors :
                 Returns(Runtime(json_error_from_sdk(
                   err, IF Cmd = "index" THEN "NewIndex" ELSE "NewPlugin")))
          ELSE Goto("report") /\ UNCHANGED error

-----------------------------------------------------------------------------
(* The result.                                                              *)

\* What search and info print is the matter of IndexReports.
Payload ==
  CASE Cmd = "package"  -> PackageOutput
    [] Cmd = "yank"     -> YankOutput((CHOOSE o \in outcome : TRUE).wire)
    [] Cmd = "list"     -> ListOutput
    [] Cmd = "validate" -> ValidateResult
    [] Cmd \in {"search", "info"} -> [query |-> Cmd]
    [] OTHER            -> Summary(Cmd)

render_human ==
  CASE Cmd = "package"  -> render_package(Payload)
    [] Cmd = "yank"     -> render_yank(Payload)
    [] Cmd = "list"     -> render_list(Payload)
    [] Cmd = "validate" -> render_validate
    [] Cmd \in {"search", "info"} -> <<Payload>>
    [] OTHER            -> render_new(Payload)

\* search, info and `new list` are never coloured.
HumanResult ==
  Text(render_human, Cmd \in Writers \cup {"validate"} /\ stdout_palette("human", inv.env))

Result == IF mode = {"json"} THEN Envelope_Ok(Payload) ELSE HumanResult

\* What a failed write leaves on the stream: the writer may hold the text
\* back and print it with the next one.
Leftovers(item) == {<< >>, <<Torn>>, <<item>>}

Report ==
  /\ At("report")
  /\ UNCHANGED <<inv, mode, found, outcome, written, stderr>>
  /\ \/ /\ stdout' = Append(stdout, Result)
        /\ exit' = {0} /\ Goto("exited") /\ UNCHANGED <<error, broken>>
     \/ /\ \E rest \in Leftovers(Result) : stdout' = stdout \o rest
        /\ broken' = broken \cup {"stdout"}
        /\ Returns(Plain) /\ UNCHANGED exit

-----------------------------------------------------------------------------
(* main.rs.                                                                 *)

\* Mutant: sysexits' code for a usage error.
ExitCodeSysexits(kind) == IF kind = "Usage" THEN 64 ELSE 1

\* Mutant: every error that run returns is a failure of the run.
ExitCodeRuntimeOnly(kind) == 1

exit_code(kind) == IF kind = "Usage" THEN 2 ELSE 1

Exits(code) == exit' = {code} /\ Goto("exited")

UnchangedRun == UNCHANGED <<inv, mode, error, found, outcome, written>>

\* Print an item; the result of the write is not looked at.
PrintOut(item) ==
  /\ UNCHANGED stderr
  /\ \/ stdout' = Append(stdout, item) /\ UNCHANGED broken
     \/ /\ \E rest \in Leftovers(item) : stdout' = stdout \o rest
        /\ broken' = broken \cup {"stdout"}

PrintErr(item) ==
  /\ UNCHANGED stdout
  /\ \/ stderr' = Append(stderr, item) /\ UNCHANGED broken
     \/ /\ \E rest \in Leftovers(item) : stderr' = stderr \o rest
        /\ broken' = broken \cup {"stderr"}

MainMode == json_mode_active(inv.argv, inv.env)

Panics == MainMode = "panic" /\ Exits(101) /\ UNCHANGED <<stdout, stderr, broken>>

\* `new <template>`: clap's message, whole or not, and a line of our own, by
\* eprintln!, which panics when it cannot write.
PrintClapError(err) ==
  \/ PrintErr(ClapText(err)) /\ Exits(2)
  \/ /\ err.kind = "InvalidSubcommand" /\ Cmd = "unknown_template"
     /\ stderr' \in Leftovers(ClapText(err))
     /\ broken' = {"stderr"}
     /\ Exits(101) /\ UNCHANGED stdout

handle_clap_error ==
  /\ At("parse")
  /\ UnchangedRun
  /\ \E err \in ClapErrors(Cmd, inv.argv, inv.given) :
       \/ ~use_stderr(err) /\ PrintOut(ClapText(err)) /\ Exits(0)
       \/ use_stderr(err) /\ Panics
       \/ /\ use_stderr(err) /\ MainMode = "json"
          /\ PrintOut(Envelope_Error(json_error_from_clap(err))) /\ Exits(2)
       \/ use_stderr(err) /\ MainMode = "human" /\ PrintClapError(err)

render_error_and_exit ==
  /\ At("failed")
  /\ UnchangedRun
  /\ \E e \in error :
       LET typed == json_error_of(e)
           code  == exit_code(CliErrorKind_of(e))
       IN  \/ Panics
           \/ /\ MainMode = "json"
              /\ \E je \in IF typed = {} THEN {fallback_json_error(e)} ELSE typed :
                   PrintOut(Envelope_Error(je))
              /\ Exits(code)
           \/ /\ MainMode = "human"
              /\ \E je \in typed :
                   PrintErr(render_human_error(je, stderr_error_palette(inv.env)))
              /\ Exits(code)
           \/ /\ MainMode = "human" /\ typed = {}    \* eprintln!
              /\ \/ /\ stderr' = Append(stderr, Text(<<[plain |-> TRUE]>>, FALSE))
                    /\ UNCHANGED <<stdout, broken>> /\ Exits(code)
                 \/ /\ broken' = broken \cup {"stderr"}
                    /\ UNCHANGED <<stdout, stderr>> /\ Exits(101)

Next ==
  \/ Parse \/ CheckArguments \/ ReadIndex \/ PrepareOut \/ Validate \/ Package \/ Yank
  \/ Serialize \/ WriteArtifact \/ WriteIndex \/ Scaffold \/ Report
  \/ handle_clap_error \/ render_error_and_exit

Spec == Init /\ [][Next]_vars

-----------------------------------------------------------------------------

Exited == At("exited")

Documents(stream) == {i \in DOMAIN stream : "status" \in DOMAIN stream[i]}

Steps == {"parse", "arguments", "read", "createOut", "library", "serialize", "artifact",
          "index", "scaffold", "report", "failed", "exited"}

\* The shape of an invocation on its way: an error is returned before it is
\* printed, and the exit code is one of Rust's and the three of exit.rs.
TypeOK ==
  /\ inv.cmd \in Commands \cup NoCommands
  /\ at \in Steps
  /\ mode \in {{}, {"json"}, {"human"}}
  /\ \A e \in error : e.kind \in {"Usage", "Runtime", "Plain"}
  /\ at = "failed" => error # {}
  /\ written \subseteq {"artifact", "index.json", "manifest.toml", "<name>.py", "README.md"}
  /\ broken \subseteq {"stdout", "stderr"}
  /\ exit \in IF Exited THEN {{0}, {1}, {2}, {101}} ELSE {{}}

\* What the caller asked for, when the arguments leave no doubt: at most one
\* --output, with a value, and none behind `--`.
Clear(argv) ==
  /\ \A i \in OutputFlags(argv) : OutputValues(argv, i) \in {{"json"}, {"human"}}
  /\ \A i, j \in OutputFlags(argv) : i = j
  /\ \A i \in DOMAIN argv : i > EscapeAt(argv) =>
       argv[i] # "--output" /\ argv[i] \notin DOMAIN InlineOutput

AskedForJson ==
  \/ Explicit(inv.argv) = {"json"}
  \/ Explicit(inv.argv) = {} /\ (~inv.env.stdout_tty \/ {"true", "1"} \cap inv.env.CI # {})

Helped == \E i \in DOMAIN stdout : "clap" \in DOMAIN stdout[i]

\* json.rs: in JSON mode every command emits exactly one envelope on stdout,
\* and nothing else anywhere; in human mode a result goes to stdout and an
\* error to stderr, never to both.  The two decisions between the modes, of
\* the command and of main.rs, have to agree for that.
OneDocument ==
  Exited /\ broken = {} /\ exit # {101} /\ ~Helped /\ Clear(inv.argv) =>
    IF AskedForJson
    THEN Len(stdout) = 1 /\ Documents(stdout) = {1} /\ stderr = << >>
    ELSE /\ Documents(stdout) \cup Documents(stderr) = {}
         /\ IF exit = {0} THEN Len(stdout) = 1 /\ stderr = << >>
                          ELSE stdout = << >> /\ Len(stderr) = 1

\* The exit code agrees with what was printed: 0 with a result or help that
\* was printed whole, 2 with a usage:: code and 1 with any other; cli::unknown
\* appears only after stdout failed.  Another code is a panic, which needs an
\* argument that is not UTF-8 or a stderr that fails.
ExitAgreesWithOutput ==
  Exited =>
    /\ exit = {101} => \/ "stderr" \in broken
                       \/ NotUnicode \in {inv.argv[i] : i \in DOMAIN inv.argv}
    /\ exit = {0} => /\ stderr = << >>
                     /\ \A i \in Documents(stdout) : stdout[i].status = "ok"
    /\ \A i \in Documents(stdout) :
         IF stdout[i].status = "ok"
         THEN exit = {0} \/ "stdout" \in broken
         ELSE LET code == stdout[i].error.code
              IN  /\ exit = IF code[1] = "usage" THEN {2} ELSE {1}
                  /\ code = <<"cli", "unknown">> => "stdout" \in broken

\* A diagnostic on the wire belongs to this validation error: it has the
\* error's path as its field, and names the file, trigger or entry at fault.
Tells(d, err) ==
  CASE err.variant = "SchemaReported" ->
         /\ d.field = {err.reported.path} \ {<< >>}
         /\ \E o \in d.details : o.schema_variant \in {err.reported.error.variant,
                                                       "variant_unmapped"}
    [] err.variant \in {"TriggerNotImplemented", "AsyncTriggerFn"} ->
         \E o \in d.details : o.trigger = err.trigger
    [] err.variant = "MissingRequiredFile" -> \E o \in d.details : o.file = err.file
    [] OTHER -> TRUE

\* All errors that the library found in one pass reach the caller, in their
\* order, whichever command it was and whichever library function reported
\* them; in JSON no two of them look alike.
NoDiagnosticLost ==
  Exited /\ broken = {} /\ exit # {101} /\ found # << >> =>
    \/ /\ Len(stdout) = 1
       /\ LET printed == stdout[1].error.diagnostics
          IN  /\ Len(printed) = Len(found)
              /\ \A i \in DOMAIN found : Tells(printed[i], found[i])
              /\ \A i, j \in DOMAIN found : found[i] # found[j] => printed[i] # printed[j]
    \/ /\ stdout = << >> /\ Len(stderr) = 1
       /\ Len(stderr[1].lines) = Len(found) + 1

\* Escape sequences reach a stream that is no terminal only by FORCE_COLOR;
\* NO_COLOR and a dumb terminal rule them out on both, and each stream is
\* judged by its own terminal.  JSON has none.
ColourPerStream ==
  LET Coloured(item) == "coloured" \in DOMAIN item /\ item.coloured
      Allowed(tty) == ~inv.env.NO_COLOR /\ ~inv.env.dumb /\ (tty \/ inv.env.FORCE_COLOR)
  IN  /\ \A i \in DOMAIN stdout : Coloured(stdout[i]) => Allowed(inv.env.stdout_tty)
      /\ \A i \in DOMAIN stderr : Coloured(stderr[i]) => Allowed(inv.env.stderr_tty)
      /\ mode = {"json"} => \A i \in DOMAIN stdout : ~Coloured(stdout[i])

\* The payload of an item, or the lines of a human result, as a set.
Told(item) ==
  IF "status" \in DOMAIN item THEN {item.result : x \in {y \in {item} : y.status = "ok"}}
  ELSE IF "lines" \in DOMAIN item THEN ToSet(item.lines) ELSE {}

\* A result, in either form, names the files that were written, all of them
\* and no other, and a yank says what happened to the flag and what it is
\* now; a usage error and a refused input have written nothing.
ReportedIsWritten ==
  /\ \A i \in DOMAIN stdout :
       Told(stdout[i]) # {} =>
         /\ UNION {FilesOf(r) : r \in Told(stdout[i])} = written
         /\ UNION {FlagOf(r) : r \in Told(stdout[i])}
              = {<<o.before # o.after, o.after>> : o \in outcome}
  /\ exit = {2} \/ found # << >> => written = {}

-----------------------------------------------------------------------------
(* What a comment and a test of error_mapping.rs say, and the code does not *)
(* do.                                                                      *)

\* "schema_variant must match SchemaError::variant_name()".
DetailsNameVariant ==
  \A i \in Documents(stdout) :
    stdout[i].status = "error" =>
      \A k \in DOMAIN stdout[i].error.diagnostics :
        \A o \in stdout[i].error.diagnostics[k].details :
          "schema_variant" \in DOMAIN o =>
            o.schema_variant = variant_name(found[k].reported.error)

=============================================================================
