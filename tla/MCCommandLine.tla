---------------------------- MODULE MCCommandLine ----------------------------
(* Every command with at most two arguments, in five environments, for TLC. *)
EXTENDS CommandLine

Tokens == {"word", "bad", NotUnicode, "--", "--output", "json", "human", "--bogus", "--help"}
          \cup DOMAIN InlineOutput

\* Up to two arguments; and --output after, before and behind `--`.
Argvs ==
  BoundedSeq(Tokens, 2)
  \cup {<<"word", "--output", "json">>, <<"word", "--output", "human">>,
        <<"--output", "json", "word">>, <<"--output", "human", "--output=json">>,
        <<"word", "--", "--output=human">>, <<"--output", "json", NotUnicode>>,
        <<"--output", "--output", "json">>}

Terminal == [stdout_tty |-> TRUE, stderr_tty |-> TRUE, CI |-> {}, NO_COLOR |-> FALSE,
             dumb |-> FALSE, FORCE_COLOR |-> FALSE]

\* A terminal; stdout in a pipe; stderr in a file; CI with a terminal; and
\* stdout in a pipe with FORCE_COLOR and NO_COLOR.
MCEnvironments ==
  {Terminal, [Terminal EXCEPT !.stdout_tty = FALSE], [Terminal EXCEPT !.stderr_tty = FALSE],
   [Terminal EXCEPT !.CI = {"true"}],
   [Terminal EXCEPT !.stdout_tty = FALSE, !.FORCE_COLOR = TRUE, !.NO_COLOR = TRUE]}

MCInvocations ==
  {[cmd |-> cmd, argv |-> argv, given |-> given, undo |-> undo, env |-> env]
     : cmd \in Commands, argv \in Argvs, given \in {TRUE}, undo \in {FALSE},
       env \in MCEnvironments}
  \cup {[cmd |-> cmd, argv |-> <<"word">>, given |-> given, undo |-> undo, env |-> env]
          : cmd \in Commands, given \in BOOLEAN, undo \in BOOLEAN, env \in MCEnvironments}
  \cup {[cmd |-> cmd, argv |-> argv, given |-> TRUE, undo |-> FALSE, env |-> env]
          : cmd \in NoCommands, argv \in {<< >>, <<"--output=json">>}, env \in MCEnvironments}

Error(variant) == [variant |-> variant] @@ [f \in SchemaErrorFields[variant] |-> "text"]

AtRoot(err) == ReportedError(<< >>, err)

DependsTwice == ReportedError(<<"dependencies", "plugins", "2">>, Error("DuplicatePluginDependency"))

\* A syntax error; two fields of one entry; two duplicates.
MCIndexReports ==
  {<<AtRoot(Error("JsonParse"))>>,
   <<ReportedError(<<"plugins", "1", "name">>, Error("InvalidPluginName")),
     ReportedError(<<"plugins", "1", "version">>, Error("InvalidVersion"))>>,
   <<ReportedError(<<"plugins", "2">>, Error("DuplicateIndexEntry")),
     ReportedError(<<"plugins", "3">>, Error("DuplicateIndexEntry"))>>}

\* A manifest with a dependency given twice: the run on variant_unmapped.
UnmappedReports == {<<DependsTwice>>}

Trigger(variant, t) == [variant |-> variant, trigger |-> t, entry_point |-> "p.py"]

MCDirectoryReports ==
  {<<[variant |-> "MissingRequiredFile", file |-> "manifest.toml"]>>,
   <<SchemaReported(AtRoot(Error("TomlParse")))>>,
   <<SchemaReported(ReportedError(<<"plugin", "homepage">>, Error("InvalidUrl"))),
     SchemaReported(ReportedError(<<"plugin", "repository">>, Error("InvalidUrl"))),
     SchemaReported(DependsTwice)>>,
   <<[variant |-> "MissingRequiredFile", file |-> "manifest.toml"],
     [variant |-> "NoEntryPoint"],
     [variant |-> "NameVersionConflict", name |-> "p", version |-> "1.0.0"]>>,
   <<[variant |-> "AmbiguousEntryPoint", files |-> <<"a.py", "b.py">>]>>,
   <<[variant |-> "PythonParse", entry_point |-> "p.py", message |-> "text"]>>,
   <<Trigger("TriggerNotImplemented", "process_writes"),
     Trigger("TriggerNotImplemented", "process_request"),
     Trigger("AsyncTriggerFn", "process_scheduled_call")>>}

Denied == IoError("PermissionDenied", {})

Walk == [variant |-> "Walk", message |-> "text"]

MCDirectoryErrors ==
  {SdkIo(Denied, {"dir"}), failure_from_select(Walk), InvalidExcludePattern("[", "text")}

Entry == [name |-> "p", version |-> "1.0.0"]

MCPackageErrors ==
  {sdk_from_select(Walk), [variant |-> "PathTooLong", archive_path |-> "p", limit |-> 255],
   [variant |-> "Hash", source |-> Denied],
   sdk_from_insert(Entry @@ [variant |-> "Duplicate", existing_versions |-> <<"1.0.0">>]),
   sdk_from_insert([variant |-> "CanonicalCollision", name |-> "p", canonical |-> "p",
                    existing |-> <<"P">>])}

MCSerializeErrors == {Error("DescriptionTooLong"), Error("JsonSerialize")}

MCScaffoldErrors ==
  {SdkIo(IoError("AlreadyExists", {}), {"dir"}), SdkArchive("text"),
   SdkSchema(Error("InvalidDatabaseVersion"))}

=============================================================================
