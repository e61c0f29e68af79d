-------------------------- MODULE CommandLineProofs --------------------------
(***************************************************************************)
(* Theorems about CommandLine for every set of invocations, and for every  *)
(* report and error that the libraries may return: the shape of an         *)
(* invocation on its way, the agreement of the exit code with what was     *)
(* printed, and what the caller is told: one item on the stream of its     *)
(* mode, coloured as that stream allows, with every error found and every  *)
(* file written.                                                           *)
(***************************************************************************)
EXTENDS CommandLine, TLAPS, SequenceTheorems, WellFoundedInduction

-----------------------------------------------------------------------------
(* The strengthening of ExitAgreesWithOutput.                               *)

\* An error with a code of its own: usage:: if and only if it is a usage
\* error, and never cli::unknown.
Coded(e) ==
  \E je \in e.json :
    /\ e = [kind |-> e.kind, json |-> {je}]
    /\ IF je.code[1] = "usage" THEN e.kind = "Usage" ELSE e.kind = "Runtime"
    /\ je.code[1] # "cli"

\* Before the result is printed or an error is returned, nothing is printed.
Quiet ==
  at \notin {"failed", "exited"} =>
    stdout = << >> /\ stderr = << >> /\ broken = {} /\ exit = {} /\ error = {}

\* run returns a typed error with nothing printed, or the error of the write
\* of the result.
Failing ==
  at = "failed" =>
    /\ stderr = << >> /\ exit = {}
    /\ stdout \in Seq({Torn, Result})
    /\ \E e \in error :
         /\ error = {e}
         /\ \/ Coded(e) /\ stdout = << >> /\ broken = {}
            \/ e = Plain /\ broken = {"stdout"}

\* Only the commands with an index open one.
Opens ==
  /\ inv \in Invocations
  /\ at # "parse" => at = "exited" \/ Cmd \in Commands
  /\ at = "read" => Cmd \in {"search", "info", "validate", "package", "yank"}

IInv == Quiet /\ Failing /\ Opens /\ ExitAgreesWithOutput

-----------------------------------------------------------------------------
(* Codes.                                                                   *)

\* Diagnostics and causes leave the code of an error alone.
LEMMA Codes ==
  ASSUME NEW code, NEW field, NEW details, NEW s
  PROVE  /\ JsonError(code, field, details).code = code
         /\ WithDiagnostics(JsonError(code, field, details), s).code = code
         /\ WithCause(JsonError(code, field, details), s).code = code
BY DEF JsonError, WithDiagnostics, WithCause

\* An error has the kind that its code calls for.
LEMMA CodedErrors ==
  ASSUME NEW je
  PROVE  /\ je.code[1] = "usage" => Coded(Usage(je))
         /\ je.code[1] \notin {"usage", "cli"} => Coded(Runtime(je))
BY DEF Coded, Usage, Runtime

\* Whatever the SDK returns, and for whichever command, its code is of a
\* namespace of the commands.
LEMMA SdkCodes ==
  ASSUME NEW err, NEW ctx \in ErrorContexts
  PROVE  json_error_from_sdk(err, ctx).code[1] \in {"validate", "package", "yank", "new"}
<1>1. \A suffix : namespace_for(ctx, suffix)[1] \in {"validate", "package", "yank", "new"}
  BY DEF namespace_for, ErrorContexts
<1>2. ASSUME NEW source, NEW path
      PROVE  io_error_to_json(source, path, ctx).code[1]
               \in {"validate", "package", "yank", "new"}
  BY <1>1, Codes DEF io_error_to_json
<1>3. CASE err.variant = "Io"
  BY <1>2, <1>3 DEF json_error_from_sdk
<1>4. CASE err.variant = "Schema"
  BY <1>1, <1>4, Codes DEF json_error_from_sdk
<1>5. CASE err.variant = "ValidationErrors"
  BY <1>5, Codes DEF json_error_from_sdk
<1>6. CASE err.variant = "Archive"
  BY <1>6 DEF json_error_from_sdk, JsonError, WithCause
<1>9. CASE err.variant = "Hash"
  BY <1>9 DEF json_error_from_sdk, JsonError, WithCause
<1>10. CASE err.variant \in {"PathTooLong", "AlreadyPublished"}
  BY <1>10 DEF json_error_from_sdk, JsonError, WithCause
<1>11. CASE err.variant \in {"CanonicalCollision", "EntryNotFound"}
  BY <1>11 DEF json_error_from_sdk, JsonError, WithCause
<1>7. CASE err.variant = "InvalidExcludePattern"
  BY <1>1, <1>7, Codes DEF json_error_from_sdk
<1>8. CASE err.variant \notin SdkVariants
  BY <1>1, <1>8, Codes DEF json_error_from_sdk, SdkVariants
<1> QED BY <1>3, <1>4, <1>5, <1>6, <1>7, <1>8, <1>9, <1>10, <1>11 DEF SdkVariants


\* What the arguments of a command may be refused for.
LEMMA ArgumentCodes ==
  ASSUME NEW cmd, NEW e \in ArgumentProblems(cmd)
  PROVE  Coded(e)
<1>1. \A name, field, details : Coded(Usage(JsonError(<<"usage", name>>, field, details)))
  BY Codes, CodedErrors
<1>2. \A name, field, details : Coded(Runtime(JsonError(<<"new", name>>, field, details)))
  BY Codes, CodedErrors
<1>3. Coded(parse_database_version) /\ Coded(parse_exact_version) /\ Coded(parse_plugin_name)
  BY <1>1 DEF parse_database_version, parse_exact_version, parse_plugin_name
<1>4. Coded(PathResolutionFailed)
  BY Codes, CodedErrors DEF PathResolutionFailed
<1>5. \A f \in resolve_plugin_name : Coded(f)
  BY <1>1, <1>2, <1>4 DEF resolve_plugin_name
<1>6. Coded(sibling_canonical_collision) /\ \A name : Coded(BadOption(name))
  BY <1>1 DEF BadOption, sibling_canonical_collision
<1> QED BY <1>3, <1>4, <1>5, <1>6 DEF ArgumentProblems, PluginTemplates

\* So has each failed read or write,
LEMMA IoCodes ==
  ASSUME NEW code, NEW field, code[1] \notin {"usage", "cli"}
  PROVE  Coded(IoFailed(code, field))
BY Codes, CodedErrors DEF IoFailed

\* each failure to read an index,
LEMMA ReadCodes ==
  ASSUME NEW cmd \in {"search", "info", "validate", "package", "yank"}
  PROVE  /\ \A e \in ReadProblems(cmd) : Coded(e)
         /\ \A reports : Coded(ParseFailed(cmd, reports))
<1>1. Coded(PathResolutionFailed)
  BY Codes, CodedErrors DEF PathResolutionFailed
<1>2. Coded(ValidateReadFailed)
  BY Codes, CodedErrors DEF ValidateReadFailed
<1>3. /\ Coded(IoFailed(<<"index", "index_read_failed">>, "index"))
      /\ Coded(IoFailed(<<"io", "read_failed">>, "index"))
  BY IoCodes
<1>4. ASSUME NEW reports
      PROVE  Coded(ParseFailed(cmd, reports))
  <2>1. CASE cmd = "validate"
    BY <2>1, SdkCodes, CodedErrors DEF ParseFailed, ErrorContexts
  <2>2. CASE cmd # "validate"
    <3>1. IndexNamespace(cmd) \notin {"usage", "cli"}
      BY DEF IndexNamespace
    <3> QED BY <2>2, <3>1, Codes, CodedErrors DEF ParseFailed
  <2> QED BY <2>1, <2>2
<1> QED BY <1>1, <1>2, <1>3, <1>4 DEF ReadProblems

\* and each error that comes from the libraries.
LEMMA LibraryCodes ==
  ASSUME NEW x, NEW ctx \in ErrorContexts
  PROVE  /\ Coded(validation_errors_to_cli_error(x))
         /\ Coded(Runtime(json_error_from_sdk(x, ctx)))
<1>1. Coded(validation_errors_to_cli_error(x))
  BY Codes, CodedErrors DEF validation_errors_to_cli_error
<1>2. Coded(Runtime(json_error_from_sdk(x, ctx)))
  BY SdkCodes, CodedErrors
<1> QED BY <1>1, <1>2

-----------------------------------------------------------------------------
(* Steps of the command.                                                    *)

\* An error returned before anything was printed.
LEMMA ReturnsTyped ==
  ASSUME Quiet, at \notin {"failed", "exited"}, NEW e, Coded(e), Returns(e), UnchangedStreams
  PROVE  Quiet' /\ Failing' /\ at' = "failed"
<1>1. stdout' = << >> /\ stderr' = << >> /\ broken' = {} /\ exit' = {} /\ error' = {e}
  BY DEF Quiet, Returns, UnchangedStreams
<1>2. << >> \in Seq({Torn, Result}')
  BY EmptySeq
<1> QED BY <1>1, <1>2 DEF Quiet, Failing, Returns

\* A step to another step of the command.
LEMMA GoesOn ==
  ASSUME Quiet, at \notin {"failed", "exited"}, UnchangedStreams, UNCHANGED error,
         at' \notin {"failed", "exited"}
  PROVE  Quiet' /\ Failing'
BY DEF Quiet, Failing, UnchangedStreams

\* The exit status is spoken of only when there is one.
LEMMA BeforeExit ==
  ASSUME at' # "exited"
  PROVE  ExitAgreesWithOutput'
BY DEF ExitAgreesWithOutput, Exited, At

\* The steps that leave the invocation alone.
LEMMA KeepsOpens ==
  ASSUME Opens, at \notin {"parse", "exited"}, UNCHANGED inv, at' # "read"
  PROVE  Opens'
BY DEF Opens, Cmd

\* Parsing the command line keeps the invariant.
LEMMA ParseStep ==
  ASSUME IInv, Parse
  PROVE  IInv'
<1>1. at = "parse" /\ at' = "arguments" /\ inv' = inv
  BY DEF Parse, At, Goto
<1>2. Quiet' /\ Failing'
  BY <1>1, GoesOn DEF IInv, Parse
<1>3. Cmd \in Commands
  <2>1. Cmd \in Commands \cup NoCommands
    BY InvocationAssumption DEF IInv, Opens, Cmd
  <2>2. Cmd # "none" /\ Cmd # "unknown_template"
    BY DEF Parse, ClapErrors
  <2> QED BY <2>1, <2>2 DEF NoCommands
<1>4. Opens'
  BY <1>1, <1>3 DEF IInv, Opens, Cmd
<1>5. ExitAgreesWithOutput'
  BY <1>1, BeforeExit
<1> QED BY <1>2, <1>4, <1>5 DEF IInv

\* So does checking the arguments,
LEMMA ArgumentsStep ==
  ASSUME IInv, CheckArguments
  PROVE  IInv'
<1>1. at = "arguments" /\ inv' = inv /\ UnchangedStreams /\ Quiet /\ Cmd \in Commands
  BY DEF IInv, Opens, CheckArguments, Quietly, At
<1>2. CASE \E e \in ArgumentProblems(Cmd) : Returns(e)
  <2>1. Quiet' /\ Failing' /\ at' = "failed"
    BY <1>1, <1>2, ReturnsTyped, ArgumentCodes
  <2>2. Opens'
    BY <1>1, <2>1, KeepsOpens DEF IInv
  <2> QED BY <2>1, <2>2, BeforeExit DEF IInv
<1>3. CASE Goto(FirstStep(Cmd)) /\ UNCHANGED error
  <2>1. /\ at' \in {"report", "scaffold", "library", "read"}
        /\ at' = "read" => Cmd \in {"search", "info", "validate", "package", "yank"}
    BY <1>1, <1>3 DEF Goto, FirstStep, Commands
  <2>2. Quiet' /\ Failing'
    BY <1>1, <1>3, <2>1, GoesOn
  <2>3. Opens'
    BY <1>1, <2>1 DEF IInv, Opens, Cmd
  <2> QED BY <2>1, <2>2, <2>3, BeforeExit DEF IInv
<1> QED BY <1>2, <1>3 DEF CheckArguments

\* A step of the command proper: it returns a coded error or goes on.
LEMMA CommandStep ==
  ASSUME IInv, at \notin {"parse", "failed", "exited"}, UNCHANGED inv, UnchangedStreams,
         \/ \E e : Coded(e) /\ Returns(e)
         \/ UNCHANGED error /\ at' \notin {"read", "failed", "exited"}
  PROVE  IInv'
<1>1. Quiet' /\ Failing' /\ at' \notin {"read", "exited"}
  <2>1. CASE \E e : Coded(e) /\ Returns(e)
    BY <2>1, ReturnsTyped DEF IInv
  <2>2. CASE UNCHANGED error /\ at' \notin {"read", "failed", "exited"}
    BY <2>2, GoesOn DEF IInv
  <2> QED BY <2>1, <2>2
<1>2. Opens'
  BY <1>1, KeepsOpens DEF IInv
<1> QED BY <1>1, <1>2, BeforeExit DEF IInv

\* reading the index,
LEMMA ReadStep ==
  ASSUME IInv, ReadIndex
  PROVE  IInv'
<1>1. at = "read" /\ inv' = inv /\ UnchangedStreams
      /\ Cmd \in {"search", "info", "validate", "package", "yank"}
  BY DEF IInv, Opens, ReadIndex, At
<1>2. \/ \E e : Coded(e) /\ Returns(e)
      \/ UNCHANGED error /\ at' = AfterIndex
  BY <1>1, ReadCodes DEF ReadIndex, Goto
<1>3. AfterIndex \in {"createOut", "library", "report"}
  BY DEF AfterIndex
<1> QED BY <1>1, <1>2, <1>3, CommandStep

\* making sure of the output directory,
LEMMA OutStep ==
  ASSUME IInv, PrepareOut
  PROVE  IInv'
<1>1. at = "createOut" /\ inv' = inv /\ UnchangedStreams
  BY DEF PrepareOut, At, Quietly
<1>2. Coded(input_output_overlap)
  BY Codes, CodedErrors DEF input_output_overlap
<1>3. \A name, path : Coded(IoFailed(<<"io", name>>, path))
  BY IoCodes
<1>4. \/ \E e : Coded(e) /\ Returns(e)
      \/ UNCHANGED error /\ at' = "library"
  BY <1>2, <1>3 DEF PrepareOut, Goto
<1> QED BY <1>1, <1>4, CommandStep

\* a call of the libraries,
LEMMA LibraryStep ==
  ASSUME IInv, Validate \/ Package \/ Yank
  PROVE  IInv'
<1>1. at = "library" /\ inv' = inv /\ UnchangedStreams
  BY DEF Validate, Package, Yank, At
<1>2. {"Validate", "Package", "Yank"} \subseteq ErrorContexts
  BY DEF ErrorContexts
<1>3. CASE Validate
  <2>1. \/ \E e : Coded(e) /\ Returns(e)
        \/ UNCHANGED error /\ at' = "report"
    BY <1>2, <1>3, LibraryCodes DEF Validate, Goto
  <2> QED BY <1>1, <2>1, CommandStep
<1>4. CASE Package
  <2>1. \/ \E e : Coded(e) /\ Returns(e)
        \/ UNCHANGED error /\ at' = "serialize"
    BY <1>2, <1>4, LibraryCodes DEF Package, Goto
  <2> QED BY <1>1, <2>1, CommandStep
<1>5. CASE Yank
  <2>1. \/ \E e : Coded(e) /\ Returns(e)
        \/ UNCHANGED error /\ at' = "serialize"
    BY <1>2, <1>5, LibraryCodes DEF Yank, Goto
  <2> QED BY <1>1, <2>1, CommandStep
<1> QED BY <1>3, <1>4, <1>5

\* and writing.
LEMMA WriteStep ==
  ASSUME IInv, Serialize \/ WriteArtifact \/ WriteIndex \/ Scaffold
  PROVE  IInv'
<1>1. {Context, "NewPlugin", "NewIndex"} \subseteq ErrorContexts
  BY DEF Context, ErrorContexts
<1>2. CASE Serialize
  <2>1. at = "serialize" /\ inv' = inv /\ UnchangedStreams
    BY <1>2 DEF Serialize, At, Quietly
  <2>2. \/ \E e : Coded(e) /\ Returns(e)
        \/ UNCHANGED error /\ at' \in {"artifact", "index"}
    BY <1>1, <1>2, LibraryCodes DEF Serialize, Goto
  <2> QED BY <2>1, <2>2, CommandStep
<1>3. ASSUME NEW step \in {"artifact", "index"}, NEW file, NEW next \in {"index", "report"},
             WriteFile(step, file, next)
      PROVE  IInv'
  <2>1. at = step /\ inv' = inv /\ UnchangedStreams
    BY <1>3 DEF WriteFile, At
  <2>2. Coded(IoFailed(<<"io", "write_failed">>, file))
    BY IoCodes
  <2>3. \/ \E e : Coded(e) /\ Returns(e)
        \/ UNCHANGED error /\ at' = next
    BY <1>3, <2>2 DEF WriteFile, Goto
  <2> QED BY <2>1, <2>3, CommandStep
<1>4. CASE WriteArtifact
  BY <1>3, <1>4 DEF WriteArtifact
<1>5. CASE WriteIndex
  BY <1>3, <1>5 DEF WriteIndex
<1>6. CASE Scaffold
  <2>1. at = "scaffold" /\ inv' = inv /\ UnchangedStreams
    BY <1>6 DEF Scaffold, At
  <2>2. \/ \E e : Coded(e) /\ Returns(e)
        \/ UNCHANGED error /\ at' = "report"
    BY <1>1, <1>6, LibraryCodes DEF Scaffold, Goto
  <2> QED BY <2>1, <2>2, CommandStep
<1> QED BY <1>2, <1>4, <1>5, <1>6

-----------------------------------------------------------------------------
(* What is printed.                                                         *)

\* What ExitAgreesWithOutput asks of one item on stdout.
ItemAgrees(x) ==
  "status" \in DOMAIN x =>
    IF x.status = "ok"
    THEN exit = {0} \/ "stdout" \in broken
    ELSE /\ exit = IF x.error.code[1] = "usage" THEN {2} ELSE {1}
         /\ x.error.code = <<"cli", "unknown">> => "stdout" \in broken

\* What the items on the streams say of success.
LEMMA Items ==
  /\ "status" \notin DOMAIN Torn
  /\ \A err : "status" \notin DOMAIN ClapText(err)
  /\ "status" \in DOMAIN Result => Result.status = "ok"
  /\ \A je : Envelope_Error(je).status = "error" /\ Envelope_Error(je).error = je
<1>1. "status" \notin DOMAIN Torn
  BY DEF Torn
<1>2. \A err : "status" \notin DOMAIN ClapText(err)
  BY DEF ClapText
<1>3. "status" \in DOMAIN Result => Result.status = "ok"
  <2>1. CASE mode = {"json"}
    BY <2>1 DEF Result, Envelope_Ok
  <2>2. CASE mode # {"json"}
    BY <2>2 DEF Result, HumanResult, Text
  <2> QED BY <2>1, <2>2
<1>4. \A je : Envelope_Error(je).status = "error" /\ Envelope_Error(je).error = je
  BY DEF Envelope_Error
<1> QED BY <1>1, <1>2, <1>3, <1>4

\* A stream takes an item whole or torn.
LEMMA SeqItems ==
  ASSUME NEW S, NEW s \in Seq(S), NEW x \in S, Torn \in S
  PROVE  /\ Append(s, x) \in Seq(S)
         /\ \A rest \in Leftovers(x) : s \o rest \in Seq(S)
<1>1. Leftovers(x) \subseteq Seq(S)
  BY DEF Leftovers
<1> QED BY <1>1

\* Items of which each agrees with the exit code.
LEMMA AllAgree ==
  ASSUME NEW S, stdout' \in Seq(S), \A x \in S : ItemAgrees(x)',
         exit' = {101} => "stderr" \in broken' \/ NotUnicode \in {inv'.argv[i] : i \in DOMAIN inv'.argv},
         exit' = {0} => stderr' = << >> /\ \A x \in S : "status" \in DOMAIN x => x.status = "ok"
  PROVE  ExitAgreesWithOutput'
<1>1. \A i \in DOMAIN stdout' : stdout'[i] \in S
  OBVIOUS
<1> QED BY <1>1 DEF ExitAgreesWithOutput, ItemAgrees, Documents

\* Printing the result keeps the invariant.
LEMMA ReportStep ==
  ASSUME IInv, Report
  PROVE  IInv'
<1> DEFINE S == {Torn, Result}
<1>1. at = "report" /\ UNCHANGED <<inv, mode, outcome, stderr>>
  BY DEF Report, At
<1>2. stdout = << >> /\ stderr = << >> /\ broken = {} /\ exit = {} /\ error = {}
  BY <1>1 DEF IInv, Quiet
<1>3. stdout \in Seq(S) /\ S' = S
  <2>1. Result' = Result
    BY <1>1 DEF Result, HumanResult, Payload, render_human, Cmd
  <2> QED BY <1>2, <2>1, EmptySeq
<1>4. CASE /\ stdout' = Append(stdout, Result)
           /\ exit' = {0} /\ Goto("exited") /\ UNCHANGED <<error, broken>>
  <2>1. stdout' \in Seq(S)
    BY <1>3, <1>4, SeqItems
  <2>2. \A x \in S : ("status" \in DOMAIN x => x.status = "ok") /\ ItemAgrees(x)'
    BY <1>4, Items DEF ItemAgrees
  <2>3. ExitAgreesWithOutput'
    <3> HIDE DEF S
    <3> QED BY <1>1, <1>2, <1>4, <2>1, <2>2, AllAgree
  <2>4. Quiet' /\ Failing' /\ Opens'
    BY <1>1, <1>4 DEF IInv, Quiet, Failing, Opens, Goto
  <2> QED BY <2>3, <2>4 DEF IInv
<1>5. CASE /\ \E rest \in Leftovers(Result) : stdout' = stdout \o rest
           /\ broken' = broken \cup {"stdout"}
           /\ Returns(Plain) /\ UNCHANGED exit
  <2>1. at' = "failed" /\ error' = {Plain}
    BY <1>5 DEF Returns
  <2>2. stdout' \in Seq(S)
    BY <1>3, <1>5, SeqItems
  <2>3. Failing'
    BY <1>1, <1>2, <1>3, <1>5, <2>1, <2>2 DEF Failing
  <2>4. Quiet' /\ Opens'
    BY <1>1, <2>1, KeepsOpens DEF IInv, Quiet
  <2> QED BY <2>1, <2>3, <2>4, BeforeExit DEF IInv
<1> QED BY <1>4, <1>5 DEF Report

\* Printing keeps what was printed, and the record of what failed.
LEMMA PrintsItem ==
  ASSUME NEW S, stdout \in Seq(S), NEW item \in S, Torn \in S, PrintOut(item)
  PROVE  stdout' \in Seq(S) /\ stderr' = stderr /\ broken \subseteq broken'
BY SeqItems DEF PrintOut

\* main answers in one of the two modes, or panics on an argument that is not
\* Unicode.
LEMMA MainModes ==
  /\ MainMode \in {"panic", "json", "human"}
  /\ MainMode = "panic" => NotUnicode \in {inv.argv[i] : i \in DOMAIN inv.argv}
BY DEF MainMode, json_mode_active, Scanned

\* The end of an invocation.
LEMMA AtExit ==
  ASSUME inv' \in Invocations, at' = "exited", ExitAgreesWithOutput'
  PROVE  IInv'
BY DEF IInv, Quiet, Failing, Opens

\* Printing clap's error keeps the invariant.
LEMMA ClapStep ==
  ASSUME IInv, handle_clap_error
  PROVE  IInv'
<1>1. at = "parse" /\ UnchangedRun
  BY DEF handle_clap_error, At
<1>2. stdout = << >> /\ stderr = << >> /\ broken = {} /\ exit = {}
  BY <1>1 DEF IInv, Quiet
<1>3. inv' = inv /\ inv' \in Invocations
  BY <1>1 DEF UnchangedRun, IInv, Opens
<1> SUFFICES at' = "exited" /\ ExitAgreesWithOutput'
  BY <1>3, AtExit
<1>4. PICK err \in ClapErrors(Cmd, inv.argv, inv.given) :
       \/ ~use_stderr(err) /\ PrintOut(ClapText(err)) /\ Exits(0)
       \/ use_stderr(err) /\ Panics
       \/ /\ use_stderr(err) /\ MainMode = "json"
          /\ PrintOut(Envelope_Error(json_error_from_clap(err))) /\ Exits(2)
       \/ use_stderr(err) /\ MainMode = "human" /\ PrintClapError(err)
  BY DEF handle_clap_error
<1>5. at' = "exited"
  BY <1>4 DEF Exits, Goto, Panics, PrintClapError
<1>6. \A S : stdout \in Seq(S)
  BY <1>2, EmptySeq
<1>7. CASE PrintOut(ClapText(err)) /\ Exits(0)
  <2> DEFINE S == {Torn, ClapText(err)}
  <2>0. stdout \in Seq(S) /\ ClapText(err) \in S /\ Torn \in S
    BY <1>6
  <2>1. stdout' \in Seq(S) /\ stderr' = << >>
    <3> HIDE DEF S
    <3> QED BY <1>2, <1>7, <2>0, PrintsItem
  <2>2. \A x \in S : "status" \notin DOMAIN x
    BY Items
  <2>3. exit' = {0} /\ \A x \in S : ItemAgrees(x)'
    BY <1>7, <2>2 DEF Exits, ItemAgrees
  <2> HIDE DEF S
  <2> QED BY <1>5, <2>1, <2>2, <2>3, AllAgree
<1>8. CASE Panics
  <2> DEFINE S == {}
  <2>1. stdout' \in Seq(S) /\ exit' = {101}
    BY <1>6, <1>8 DEF Panics, Exits
  <2>2. NotUnicode \in {inv'.argv[i] : i \in DOMAIN inv'.argv}
    BY <1>3, <1>8, MainModes DEF Panics
  <2>3. \A x \in S : ItemAgrees(x)'
    OBVIOUS
  <2>4. exit' # {0}
    BY <2>1
  <2> HIDE DEF S
  <2> QED BY <1>5, <2>1, <2>2, <2>3, <2>4, AllAgree
<1>9. CASE PrintOut(Envelope_Error(json_error_from_clap(err))) /\ Exits(2)
  <2> DEFINE S == {Torn, Envelope_Error(json_error_from_clap(err))}
  <2>1. stdout' \in Seq(S)
    BY <1>6, <1>9, PrintsItem
  <2>2. json_error_from_clap(err).code[1] = "usage"
    BY Codes DEF json_error_from_clap
  <2>3. exit' = {2} /\ \A x \in S : ItemAgrees(x)'
    BY <1>9, <2>2, Items DEF Exits, ItemAgrees
  <2> HIDE DEF S
  <2> QED BY <1>5, <2>1, <2>3, AllAgree
<1>10. CASE PrintClapError(err)
  <2> DEFINE S == {}
  <2>1. stdout' \in Seq(S) /\ (exit' = {2} \/ (exit' = {101} /\ "stderr" \in broken'))
    BY <1>6, <1>10 DEF PrintClapError, PrintErr, Exits
  <2>2. (exit' = {101} => "stderr" \in broken') /\ exit' # {0}
    <3>1. {2} # {101} /\ {2} # {0} /\ {101} # {0}
      OBVIOUS
    <3> HIDE DEF S
    <3> QED BY <2>1, <3>1, Zenon
  <2>3. \A x \in S : ItemAgrees(x)'
    OBVIOUS
  <2> HIDE DEF S
  <2> QED BY <1>5, <2>1, <2>2, <2>3, AllAgree
<1> QED BY <1>4, <1>5, <1>7, <1>8, <1>9, <1>10

\* Printing any other error keeps it.
LEMMA FailureStep ==
  ASSUME IInv, render_error_and_exit
  PROVE  IInv'
<1>1. at = "failed" /\ UnchangedRun
  BY DEF render_error_and_exit, At
<1>2. inv' = inv /\ inv' \in Invocations /\ stderr = << >> /\ stdout \in Seq({Torn, Result})
  BY <1>1 DEF UnchangedRun, IInv, Opens, Failing
<1> SUFFICES at' = "exited" /\ ExitAgreesWithOutput'
  BY <1>2, AtExit
<1>3. PICK e \in error :
        /\ error = {e}
        /\ \/ Coded(e) /\ stdout = << >> /\ broken = {}
           \/ e = Plain /\ broken = {"stdout"}
  BY <1>1 DEF IInv, Failing
<1> DEFINE typed == json_error_of(e)
           code  == exit_code(CliErrorKind_of(e))
<1>4. \/ Panics
      \/ /\ MainMode = "json"
         /\ \E je \in IF typed = {} THEN {fallback_json_error(e)} ELSE typed :
              PrintOut(Envelope_Error(je))
         /\ Exits(code)
      \/ /\ \E item : PrintErr(item)
         /\ Exits(code)
      \/ /\ typed = {}
         /\ \/ UNCHANGED <<stdout, broken>> /\ Exits(code)
            \/ /\ broken' = broken \cup {"stderr"}
               /\ UNCHANGED stdout /\ Exits(101)
  BY <1>3 DEF render_error_and_exit
<1>5. at' = "exited"
  BY <1>4 DEF Exits, Goto, Panics
<1>6. code \in {1, 2}
  BY DEF exit_code
<1> DEFINE S == IF e = Plain THEN {Torn, Result} ELSE {Torn}
<1>7. stdout \in Seq(S)
  BY <1>2, <1>3, EmptySeq DEF Coded, Plain
<1>8. broken \subseteq broken' => \A x \in S : ItemAgrees(x)'
  <2>1. CASE e = Plain
    <3>1. "stdout" \in broken
      BY <1>3, <2>1 DEF Coded, Plain
    <3> QED BY <2>1, <3>1, Items DEF ItemAgrees
  <2>2. CASE e # Plain
    BY <2>2, Items DEF ItemAgrees
  <2> QED BY <2>1, <2>2
<1>9. CASE Panics
  <2>1. stdout' \in Seq(S) /\ exit' = {101} /\ broken' = broken
    BY <1>7, <1>9 DEF Panics, Exits
  <2>2. NotUnicode \in {inv'.argv[i] : i \in DOMAIN inv'.argv}
    BY <1>2, <1>9, MainModes DEF Panics
  <2> HIDE DEF S
  <2> QED BY <1>5, <1>8, <2>1, <2>2, AllAgree
<1>10. ASSUME NEW je \in IF typed = {} THEN {fallback_json_error(e)} ELSE typed,
              PrintOut(Envelope_Error(je)), Exits(code)
       PROVE  ExitAgreesWithOutput'
  <2> DEFINE T == S \cup {Envelope_Error(je)}
  <2>1. stdout \in Seq(T) /\ Envelope_Error(je) \in T /\ Torn \in T
    BY <1>7, SeqMonotonic
  <2>2. stdout' \in Seq(T) /\ stderr' = << >> /\ broken \subseteq broken'
    <3> HIDE DEF T
    <3> QED BY <1>2, <1>10, <2>1, PrintsItem
  <2>3. ItemAgrees(Envelope_Error(je))'
    <3>1. CASE Coded(e)
      <4>1. e.json = {je} /\ je.code[1] # "cli"
            /\ IF je.code[1] = "usage" THEN e.kind = "Usage" ELSE e.kind = "Runtime"
        BY <3>1, <1>10 DEF Coded, json_error_of
      <4>2. exit' = IF je.code[1] = "usage" THEN {2} ELSE {1}
        BY <1>10, <4>1 DEF Exits, exit_code, CliErrorKind_of
      <4> QED BY <4>1, <4>2, Items DEF ItemAgrees
    <3>2. CASE e = Plain /\ broken = {"stdout"}
      <4>1. je.code = <<"cli", "unknown">> /\ exit' = {1}
        BY <3>2, <1>10, Codes
        DEF Plain, json_error_of, fallback_json_error, Exits, exit_code, CliErrorKind_of
      <4> QED BY <3>2, <2>2, <4>1, Items DEF ItemAgrees
    <3> QED BY <1>3, <3>1, <3>2
  <2>4. \A x \in T : ItemAgrees(x)'
    BY <1>8, <2>2, <2>3
  <2>5. exit' # {0} /\ exit' # {101}
    BY <1>6, <1>10 DEF Exits
  <2> HIDE DEF T
  <2> QED BY <2>2, <2>4, <2>5, AllAgree
<1>11. ASSUME stdout' = stdout, broken \subseteq broken',
              exit' \in {{1}, {2}} \/ (exit' = {101} /\ "stderr" \in broken')
       PROVE  ExitAgreesWithOutput'
  <2>1. (exit' = {101} => "stderr" \in broken') /\ exit' # {0}
    BY <1>11
  <2> HIDE DEF S
  <2> QED BY <1>7, <1>8, <1>11, <2>1, AllAgree
<1>12. ASSUME NEW item, PrintErr(item), Exits(code)
       PROVE  ExitAgreesWithOutput'
  BY <1>6, <1>11, <1>12 DEF PrintErr, Exits
<1>13. CASE \/ UNCHANGED <<stdout, broken>> /\ Exits(code)
            \/ /\ broken' = broken \cup {"stderr"}
               /\ UNCHANGED stdout /\ Exits(101)
  BY <1>5, <1>6, <1>11, <1>13 DEF Exits
<1> HIDE DEF S, typed, code
<1> QED BY <1>4, <1>5, <1>9, <1>10, <1>12, <1>13

-----------------------------------------------------------------------------
(* The exit code and the shape of an invocation.                            *)

\* The invariant always holds.
LEMMA Invariance == Spec => []IInv
<1>1. Init => IInv
  BY DEF Init, IInv, Quiet, Failing, Opens, ExitAgreesWithOutput, Exited, At
<1>2. IInv /\ [Next]_vars => IInv'
  <2> SUFFICES ASSUME IInv, [Next]_vars PROVE IInv'
    OBVIOUS
  <2>1. CASE Next
    BY <2>1, ParseStep, ArgumentsStep, ReadStep, OutStep, LibraryStep, WriteStep, ReportStep,
       ClapStep, FailureStep DEF Next
  <2>2. CASE UNCHANGED vars
    BY <2>2 DEF vars, IInv, Quiet, Failing, Opens, ExitAgreesWithOutput, Exited, At, Documents,
       Result, HumanResult, Payload, render_human, Cmd
  <2> QED BY <2>1, <2>2
<1> QED BY <1>1, <1>2, PTL DEF Spec

\* The exit code agrees with what was printed, whatever the arguments, the
\* environment, the reports of the libraries and the writes that fail: 0 only
\* with a result or help, 2 exactly with a code usage::, 1 with any other,
\* cli::unknown only after a write to stdout failed, and no other code
\* without a panic of main.rs (exit.rs, main.rs: render_error_and_exit).
THEOREM ExitCodes == Spec => []ExitAgreesWithOutput
<1>1. IInv => ExitAgreesWithOutput
  BY DEF IInv
<1> QED BY <1>1, Invariance, PTL

\* The parts of TypeOK that IInv does not give.
Shape ==
  /\ at \in Steps
  /\ mode \in {{}, {"json"}, {"human"}}
  /\ at = "exited" => (\A e \in error : e.kind \in {"Usage", "Runtime", "Plain"})
                      /\ exit \in {{0}, {1}, {2}, {101}}
  /\ written \subseteq {"artifact", "index.json", "manifest.toml", "<name>.py", "README.md"}
  /\ broken \subseteq {"stdout", "stderr"}

\* With the invariant, the shape of the state gives TypeOK.
LEMMA ShapeSuffices ==
  ASSUME IInv, Shape
  PROVE  TypeOK
<1>1. inv.cmd \in Commands \cup NoCommands
  BY InvocationAssumption DEF IInv, Opens
<1>2. CASE at = "exited"
  BY <1>1, <1>2 DEF Shape, TypeOK, Exited, At
<1>3. CASE at = "failed"
  <2>1. exit = {} /\ \E e \in error : error = {e} /\ (Coded(e) \/ e = Plain)
    BY <1>3 DEF IInv, Failing
  <2>2. \A e \in error : e.kind \in {"Usage", "Runtime", "Plain"}
    BY <2>1 DEF Coded, Plain
  <2> QED BY <1>1, <1>3, <2>1, <2>2 DEF Shape, TypeOK, Exited, At
<1>4. CASE at \notin {"failed", "exited"}
  BY <1>1, <1>4 DEF IInv, Quiet, Shape, TypeOK, Exited, At
<1> QED BY <1>2, <1>3, <1>4

\* A scaffold writes a prefix of its files.
LEMMA ScaffoldWrites ==
  ASSUME NEW k \in 0 .. Len(ScaffoldFiles)
  PROVE  ToSet(SubSeq(ScaffoldFiles, 1, k))
           \subseteq {"index.json", "manifest.toml", "<name>.py", "README.md"}
<1> DEFINE S == {"index.json", "manifest.toml", "<name>.py", "README.md"}
<1>1. ScaffoldFiles \in Seq(S)
  <2>1. <<"index.json">> \in Seq(S) /\ <<"manifest.toml", "<name>.py", "README.md">> \in Seq(S)
    OBVIOUS
  <2> QED BY <2>1 DEF ScaffoldFiles
<1>2. SubSeq(ScaffoldFiles, 1, k) \in Seq(S)
  BY <1>1
<1> QED BY <1>2 DEF ToSet

\* Every step keeps the shape.
LEMMA ShapeStep ==
  ASSUME IInv, IInv', Shape, Next
  PROVE  Shape'
<1>1. CASE Parse
  <2>1. at' = "arguments" /\ mode' \in {{"json"}, {"human"}} /\ UNCHANGED <<written, broken>>
    BY <1>1 DEF Parse, Goto, UnchangedStreams, resolve_output_mode
  <2> QED BY <2>1 DEF Shape, Steps
<1>2. CASE CheckArguments \/ ReadIndex \/ PrepareOut \/ Validate \/ Package \/ Yank \/ Serialize
  <2>1. UNCHANGED <<mode, written, broken>>
    BY <1>2 DEF CheckArguments, ReadIndex, PrepareOut, Validate, Package, Yank, Serialize,
       Quietly, UnchangedStreams
  <2>2. at' \in Steps \ {"exited"}
    BY <1>2 DEF CheckArguments, ReadIndex, PrepareOut, Validate, Package, Yank, Serialize,
       Returns, Goto, Steps, FirstStep, AfterIndex
  <2> QED BY <2>1, <2>2 DEF Shape
<1>3. ASSUME NEW step, NEW file \in {"artifact", "index.json"}, NEW next \in {"index", "report"},
             WriteFile(step, file, next)
      PROVE  Shape'
  <2>1. UNCHANGED <<mode, broken>> /\ written' \subseteq written \cup {file}
        /\ at' \in {"failed", "index", "report"}
    BY <1>3 DEF WriteFile, UnchangedStreams, Returns, Goto
  <2> QED BY <2>1 DEF Shape, Steps
<1>4. CASE WriteArtifact
  BY <1>3, <1>4 DEF WriteArtifact
<1>5. CASE WriteIndex
  BY <1>3, <1>5 DEF WriteIndex
<1>6. CASE Scaffold
  <2>1. UNCHANGED <<mode, broken>> /\ at' \in {"failed", "report"}
    BY <1>6 DEF Scaffold, UnchangedStreams, Returns, Goto
  <2>2. written' \subseteq {"index.json", "manifest.toml", "<name>.py", "README.md"}
    BY <1>6, ScaffoldWrites DEF Scaffold
  <2> QED BY <2>1, <2>2 DEF Shape, Steps
<1>7. CASE Report
  <2>1. /\ UNCHANGED <<mode, written>> /\ broken' \subseteq broken \cup {"stdout"}
        /\ at' = "failed" \/ (at' = "exited" /\ exit' = {0} /\ error' = error)
    BY <1>7 DEF Report, Returns, Goto
  <2>2. error = {}
    BY <1>7 DEF Report, At, IInv, Quiet
  <2> QED BY <2>1, <2>2 DEF Shape, Steps
<1>8. CASE handle_clap_error
  <2>1. UNCHANGED <<mode, written, error>> /\ error = {}
    BY <1>8 DEF handle_clap_error, UnchangedRun, At, IInv, Quiet
  <2>2. /\ at' = "exited" /\ exit' \in {{0}, {2}, {101}}
        /\ broken' \subseteq broken \cup {"stdout", "stderr"}
    BY <1>8, <2>1 DEF handle_clap_error, Panics, PrintClapError, PrintOut, PrintErr, Exits, Goto,
       IInv, Quiet, At
  <2> QED BY <2>1, <2>2 DEF Shape, Steps
<1>9. CASE render_error_and_exit
  <2>1. UNCHANGED <<mode, written, error>>
        /\ \E e \in error : error = {e} /\ (Coded(e) \/ e = Plain)
    BY <1>9 DEF render_error_and_exit, UnchangedRun, At, IInv, Failing
  <2>2. /\ at' = "exited" /\ exit' \in {{1}, {2}, {101}}
        /\ broken' \subseteq broken \cup {"stdout", "stderr"}
    BY <1>9 DEF render_error_and_exit, Panics, PrintOut, PrintErr, Exits, Goto, exit_code
  <2> QED BY <2>1, <2>2 DEF Shape, Steps, Coded, Plain
<1> QED BY <1>1, <1>2, <1>4, <1>5, <1>6, <1>7, <1>8, <1>9 DEF Next

\* The shape of an invocation on its way: each step is one of the command's,
\* an error is of one of the three kinds, and the exit code is set when, and
\* only when, the process has ended (main.rs, exit.rs).
THEOREM TypeCorrect == Spec => []TypeOK
<1>1. Init => Shape
  BY DEF Init, Shape, Steps
<1>2. IInv /\ IInv' /\ Shape /\ [Next]_vars => Shape'
  <2>1. UNCHANGED vars /\ Shape => Shape'
    BY DEF vars, Shape
  <2> QED BY <2>1, ShapeStep
<1>3. IInv /\ Shape => TypeOK
  BY ShapeSuffices
<1> QED BY <1>1, <1>2, <1>3, Invariance, PTL DEF Spec

-----------------------------------------------------------------------------
(* The strengthening of the properties on what the caller is told.          *)

Diagnostics(errs) == MapSeq(json_error_from_validation, errs)

\* From the end of the parsing on, the mode is the one that the arguments and
\* the environment give.
Decided ==
  /\ mode \in {{}, {resolve_output_mode(Explicit(inv.argv), inv.env)}}
  /\ at \notin {"parse", "exited"} => mode # {}

\* Reports of the libraries are returned at once, and the error has them all.
Carried ==
  /\ found \in Seq(ToSet(found)) /\ \A i \in DOMAIN found : IsValidationError(found[i])
  /\ found # << >> => at \in {"failed", "exited"}
  /\ at = "failed" /\ found # << >> =>
       \A e \in error :
         e.kind = "Runtime" /\ \A je \in e.json : je.diagnostics = Diagnostics(found)

\* The files of a command that succeeds.
Makes ==
  CASE Cmd = "package" -> {"artifact", "index.json"}
    [] Cmd \in {"yank", "index"} -> {"index.json"}
    [] Cmd \in PluginTemplates -> {"manifest.toml", "<name>.py", "README.md"}
    [] OTHER -> {}

YankOutcome ==
  IF Cmd = "yank"
  THEN \E yanked \in BOOLEAN :
         outcome = {[before |-> yanked, after |-> ~inv.undo,
                     wire |-> outcome_wire(yanked = inv.undo, inv.undo)]}
  ELSE outcome = {}

Done == Cmd \in Commands /\ written = Makes /\ YankOutcome

\* What each step of the command finds written.
Writing ==
  /\ at \in {"parse", "arguments", "read", "createOut", "library", "serialize", "artifact",
             "scaffold"} => written = {}
  /\ at \in {"parse", "arguments", "read", "createOut", "library", "scaffold"} => outcome = {}
  /\ at = "library" => Cmd \in {"validate", "package", "yank"}
  /\ at = "createOut" => Cmd \in {"package", "yank"}
  /\ at = "serialize" => Cmd \in {"package", "yank"} /\ YankOutcome
  /\ at = "artifact" => Cmd = "package" /\ YankOutcome
  /\ at = "index" => /\ Cmd \in {"package", "yank"} /\ YankOutcome
                     /\ written = IF Cmd = "package" THEN {"artifact"} ELSE {}
  /\ at = "scaffold" => Cmd \in PluginTemplates \cup {"index"}
  /\ at = "report" => Done
  /\ at = "failed" => \A e \in error : /\ e.kind = "Usage" => written = {}
                                       /\ e = Plain => Done
  /\ exit = {2} \/ found # << >> => written = {}

\* The steps that leave the streams alone.
Working ==
  \/ Parse \/ CheckArguments \/ ReadIndex \/ PrepareOut \/ Validate \/ Package \/ Yank
  \/ Serialize \/ WriteArtifact \/ WriteIndex \/ Scaffold

\* Every step keeps the mode as the command decided it.
LEMMA DecidedStep ==
  ASSUME Decided, Next
  PROVE  Decided'
<1>1. CASE Parse
  BY <1>1 DEF Parse, Goto, Decided
<1>2. CASE CheckArguments \/ ReadIndex \/ PrepareOut \/ Validate \/ Package \/ Yank \/ Serialize
           \/ WriteArtifact \/ WriteIndex \/ Scaffold \/ Report
  BY <1>2 DEF CheckArguments, ReadIndex, PrepareOut, Validate, Package, Yank, Serialize,
     WriteArtifact, WriteIndex, WriteFile, Scaffold, Report, Quietly, At, Decided
<1>3. CASE handle_clap_error \/ render_error_and_exit
  <2>1. UNCHANGED <<inv, mode>>
    BY <1>3 DEF handle_clap_error, render_error_and_exit, UnchangedRun
  <2>2. at' = "exited"
    BY <1>3 DEF handle_clap_error, render_error_and_exit, Exits, Goto, Panics, PrintClapError
  <2> QED BY <2>1, <2>2 DEF Decided
<1> QED BY <1>1, <1>2, <1>3 DEF Next

-----------------------------------------------------------------------------
(* The reports of the libraries.                                            *)

\* The diagnostics of an error are those it was given.
LEMMA DiagnosticsOf ==
  ASSUME NEW code, NEW field, NEW details, NEW s
  PROVE  WithDiagnostics(JsonError(code, field, details), s).diagnostics = s
BY DEF WithDiagnostics, JsonError

\* An index that does not parse, whichever command reads it.
LEMMA IndexReported ==
  ASSUME NEW reports \in IndexReports, NEW cmd
  PROVE  LET errs == MapSeq(SchemaReported, reports)
             e == ParseFailed(cmd, reports)
         IN  /\ errs \in Seq(ToSet(errs)) /\ \A i \in DOMAIN errs : IsValidationError(errs[i])
             /\ e.kind = "Runtime" /\ \A je \in e.json : je.diagnostics = Diagnostics(errs)
<1> DEFINE errs == MapSeq(SchemaReported, reports)
<1>1. reports \in Seq(ToSet(reports)) /\ \A i \in DOMAIN reports : IsReported(reports[i])
  BY ReportsAssumption
<1>2. DOMAIN reports = 1 .. Len(reports) /\ Len(reports) \in Nat
  BY <1>1
<1>3. errs = [i \in 1 .. Len(reports) |-> SchemaReported(reports[i])]
  BY <1>2 DEF MapSeq
<1>4. errs \in Seq(ToSet(errs))
  BY <1>2, <1>3 DEF ToSet
<1>5. \A i \in DOMAIN errs : IsValidationError(errs[i])
  <2>1. \A r : IsReported(r) => IsValidationError(SchemaReported(r))
    BY DEF IsValidationError, SchemaReported, HasFieldsOf, ValidationErrorFields
  <2> QED BY <1>1, <1>2, <1>3, <2>1
<1>6. Diagnostics(errs)
        = [i \in 1 .. Len(reports) |-> json_error_from_validation(SchemaReported(reports[i]))]
  BY <1>3 DEF Diagnostics, MapSeq
<1> DEFINE e == ParseFailed(cmd, reports)
<1>7. e.kind = "Runtime" /\ \A je \in e.json : je.diagnostics = Diagnostics(errs)
  <2>1. CASE cmd = "validate"
    <3>1. e = Runtime(WithDiagnostics(JsonError(<<"validate", "failed">>, {}, {}), Diagnostics(errs)))
      BY <2>1 DEF ParseFailed, json_error_from_sdk, sdk_from_schema_errors, ValidationErrors,
         Diagnostics
    <3> QED BY <3>1, DiagnosticsOf DEF Runtime
  <2>2. CASE cmd # "validate"
    <3>1. MapSeq(LAMBDA r : json_error_from_validation(SchemaReported(r)), reports)
            = Diagnostics(errs)
      BY <1>2, <1>6 DEF MapSeq
    <3>2. e = Runtime(WithDiagnostics(
                JsonError(<<IndexNamespace(cmd), "index_parse_failed">>, {"index"}, {}),
                Diagnostics(errs)))
      BY <2>2, <3>1 DEF ParseFailed
    <3> QED BY <3>2, DiagnosticsOf DEF Runtime
  <2> QED BY <2>1, <2>2
<1> QED BY <1>4, <1>5, <1>7

\* A refused plugin directory is reported with all of the directory's errors.
LEMMA DirectoryReported ==
  ASSUME NEW errs \in DirectoryReports
  PROVE  LET e == validation_errors_to_cli_error(errs)
         IN  /\ errs \in Seq(ToSet(errs)) /\ \A i \in DOMAIN errs : IsValidationError(errs[i])
             /\ sdk_from_failure(Invalid(errs)).errors = errs
             /\ e.kind = "Runtime" /\ \A je \in e.json : je.diagnostics = Diagnostics(errs)
<1>1. sdk_from_failure(Invalid(errs)).errors = errs
  BY DEF sdk_from_failure, Invalid, ValidationErrors
<1>2. LET e == validation_errors_to_cli_error(errs)
      IN  e.kind = "Runtime" /\ \A je \in e.json : je.diagnostics = Diagnostics(errs)
  BY DiagnosticsOf DEF validation_errors_to_cli_error, Runtime, Diagnostics
<1> QED BY <1>1, <1>2, ReportsAssumption

\* A step that keeps what was found: nothing, before an error is returned.
LEMMA CarriedOn ==
  ASSUME Carried, at \notin {"failed", "exited"}, UNCHANGED found
  PROVE  Carried'
BY DEF Carried

\* Every step carries what was found to the error that reports it.
LEMMA CarriedStep ==
  ASSUME Carried, Next
  PROVE  Carried'
<1>1. ASSUME NEW errs, NEW e, Returns(e), found' = errs,
             errs \in Seq(ToSet(errs)), \A i \in DOMAIN errs : IsValidationError(errs[i]),
             e.kind = "Runtime", \A je \in e.json : je.diagnostics = Diagnostics(errs)
      PROVE  Carried'
  BY <1>1 DEF Carried, Returns
<1>2. CASE ReadIndex
  <2>1. CASE \E reports \in IndexReports :
               Returns(ParseFailed(Cmd, reports)) /\ found' = MapSeq(SchemaReported, reports)
    BY <1>1, <2>1, IndexReported
  <2>2. CASE UNCHANGED found
    BY <1>2, <2>2, CarriedOn DEF ReadIndex, At
  <2> QED BY <1>2, <2>1, <2>2 DEF ReadIndex
<1>3. CASE Validate \/ Package
  <2>1. at = "library"
    BY <1>3 DEF Validate, Package, At
  <2>2. \/ UNCHANGED found
        \/ \E errs \in DirectoryReports :
             found' = errs /\ Returns(validation_errors_to_cli_error(errs))
    BY <1>3, DirectoryReported DEF Validate, Package
  <2> QED BY <1>1, <2>1, <2>2, CarriedOn, DirectoryReported
<1>4. CASE Parse \/ CheckArguments \/ PrepareOut \/ Yank \/ Serialize \/ WriteArtifact
           \/ WriteIndex \/ Scaffold \/ Report
  <2>1. UNCHANGED found /\ at \notin {"failed", "exited"}
    BY <1>4 DEF Parse, CheckArguments, PrepareOut, Yank, Serialize, WriteArtifact, WriteIndex,
       WriteFile, Scaffold, Report, Quietly, At
  <2> QED BY <2>1, CarriedOn
<1>5. CASE handle_clap_error \/ render_error_and_exit
  <2>1. UNCHANGED found
    BY <1>5 DEF handle_clap_error, render_error_and_exit, UnchangedRun
  <2>2. at' = "exited"
    BY <1>5 DEF handle_clap_error, render_error_and_exit, Exits, Goto, Panics, PrintClapError
  <2> QED BY <2>1, <2>2 DEF Carried
<1> QED BY <1>2, <1>3, <1>4, <1>5 DEF Next

-----------------------------------------------------------------------------
(* The files written and the outcome of a yank.                             *)

\* An error is returned: for a usage error nothing was written.
LEMMA WritingReturns ==
  ASSUME NEW e, Returns(e), e.kind \in {"Usage", "Runtime"}, exit' = {},
         e.kind = "Usage" \/ found' # << >> => written' = {}
  PROVE  Writing'
BY DEF Writing, Returns, Plain

\* Wrong arguments are usage or runtime errors, an unreadable index is a
\* runtime error.
LEMMA ArgumentKinds ==
  /\ \A cmd : \A e \in ArgumentProblems(cmd) : e.kind \in {"Usage", "Runtime"}
  /\ \A cmd \in {"search", "info", "validate", "package", "yank"} :
       \A e \in ReadProblems(cmd) : e.kind = "Runtime"
<1>1. \A je : Usage(je).kind = "Usage" /\ Runtime(je).kind = "Runtime"
  BY DEF Usage, Runtime
<1>2. ASSUME NEW cmd, NEW e \in ArgumentProblems(cmd) PROVE e.kind \in {"Usage", "Runtime"}
  <2>1. \E je : e = Usage(je) \/ e = Runtime(je)
    BY DEF ArgumentProblems, PluginTemplates, parse_database_version, parse_exact_version,
       parse_plugin_name, PathResolutionFailed, resolve_plugin_name, BadOption,
       sibling_canonical_collision
  <2> QED BY <1>1, <2>1
<1>3. ASSUME NEW cmd \in {"search", "info", "validate", "package", "yank"},
             NEW e \in ReadProblems(cmd)
      PROVE  e.kind = "Runtime"
  <2>1. \E je : e = Runtime(je)
    BY DEF ReadProblems, PathResolutionFailed, IoFailed, ValidateReadFailed
  <2> QED BY <1>1, <2>1
<1> QED BY <1>2, <1>3

\* The outcome is named by the flag before and what was asked for.
LEMMA KeepsOutcome ==
  ASSUME UNCHANGED <<inv, outcome>>
  PROVE  /\ YankOutcome => YankOutcome'
         /\ Makes' = Makes
BY DEF YankOutcome, Makes, Cmd

\* Nothing is written before the libraries have answered.
LEMMA EarlyWriting ==
  ASSUME IInv, Writing, Parse \/ CheckArguments \/ ReadIndex \/ PrepareOut
  PROVE  Writing'
<1>1. written = {} /\ outcome = {} /\ exit = {} /\ UNCHANGED <<inv, outcome, written, exit>>
  BY DEF Parse, CheckArguments, ReadIndex, PrepareOut, Quietly, UnchangedStreams, At, Writing,
     IInv, Quiet
<1>2. \A e : Returns(e) /\ e.kind \in {"Usage", "Runtime"} => Writing'
  BY <1>1, WritingReturns
<1>3. \A je : Usage(je).kind = "Usage" /\ Runtime(je).kind = "Runtime"
  BY DEF Usage, Runtime
<1>4. CASE Parse
  BY <1>1, <1>4 DEF Parse, Goto, Writing
<1>5. CASE CheckArguments
  <2>1. CASE \E e \in ArgumentProblems(Cmd) : Returns(e)
    BY <1>2, <2>1, ArgumentKinds
  <2>2. CASE Goto(FirstStep(Cmd))
    <3>1. Cmd \in Commands /\ Cmd' = Cmd
      BY <1>1, <1>5 DEF CheckArguments, At, IInv, Opens, Cmd
    <3>2. \/ at' = "report" /\ Cmd = "list"
          \/ at' = "scaffold" /\ Cmd \in PluginTemplates \cup {"index"}
          \/ at' = "library" /\ Cmd = "validate"
          \/ at' = "read"
      BY <2>2 DEF Goto, FirstStep
    <3>3. Cmd = "list" => Done'
      BY <1>1, <3>1 DEF Done, Makes, YankOutcome, PluginTemplates, Cmd
    <3> QED BY <1>1, <3>1, <3>2, <3>3 DEF Writing
  <2> QED BY <1>5, <2>1, <2>2 DEF CheckArguments
<1>6. CASE ReadIndex
  <2>1. Cmd \in {"search", "info", "validate", "package", "yank"} /\ Cmd' = Cmd
    BY <1>1, <1>6 DEF ReadIndex, At, IInv, Opens, Cmd
  <2>2. CASE \E e \in ReadProblems(Cmd) : Returns(e)
    BY <1>2, <2>1, <2>2, ArgumentKinds
  <2>3. CASE \E reports \in IndexReports : Returns(ParseFailed(Cmd, reports))
    BY <1>2, <2>3, IndexReported
  <2>4. CASE Goto(AfterIndex)
    <3>1. \/ at' = "createOut" /\ Cmd \in {"package", "yank"}
          \/ at' = "library" /\ Cmd = "validate"
          \/ at' = "report" /\ Cmd \in {"search", "info"}
      BY <2>1, <2>4 DEF Goto, AfterIndex
    <3>2. Cmd \in {"search", "info"} => Done'
      BY <1>1, <2>1 DEF Done, Makes, YankOutcome, PluginTemplates, Commands
    <3> QED BY <1>1, <2>1, <3>1, <3>2 DEF Writing
  <2> QED BY <1>6, <2>2, <2>3, <2>4 DEF ReadIndex
<1>7. CASE PrepareOut
  <2>1. CASE \E e : Returns(e) /\ e.kind \in {"Usage", "Runtime"}
    BY <1>2, <2>1
  <2>2. CASE at' = "library"
    <3>1. Cmd \in {"package", "yank"} /\ Cmd' = Cmd
      BY <1>1, <1>7 DEF PrepareOut, At, Writing, Cmd
    <3> QED BY <1>1, <2>2, <3>1 DEF Writing
  <2>3. \A name, path : IoFailed(name, path).kind = "Runtime"
    BY <1>3 DEF IoFailed
  <2>4. input_output_overlap.kind = "Usage"
    BY <1>3 DEF input_output_overlap
  <2> QED BY <1>7, <2>1, <2>2, <2>3, <2>4 DEF PrepareOut, Goto
<1> QED BY <1>4, <1>5, <1>6, <1>7

\* Nor by their answers.
LEMMA LibraryWriting ==
  ASSUME IInv, Writing, Validate \/ Package \/ Yank \/ Serialize
  PROVE  Writing'
<1>1. /\ written = {} /\ exit = {} /\ UNCHANGED <<inv, written, exit>> /\ Cmd' = Cmd
      /\ at \in {"library", "serialize"}
  BY DEF Validate, Package, Yank, Serialize, Quietly, UnchangedStreams, At, Writing, IInv, Quiet,
     Cmd
<1>2. \A e : Returns(e) /\ e.kind \in {"Usage", "Runtime"} => Writing'
  BY <1>1, WritingReturns
<1>3. \A je : Runtime(je).kind = "Runtime"
  BY DEF Runtime
<1>4. \A errs : validation_errors_to_cli_error(errs).kind = "Runtime"
  BY <1>3 DEF validation_errors_to_cli_error
<1>5. \A err, ctx : Returns(Runtime(json_error_from_sdk(err, ctx))) => Writing'
  BY <1>2, <1>3
<1>6. CASE Validate
  <2>1. Goto("report") /\ UNCHANGED outcome => Writing'
    <3>1. outcome = {} /\ Cmd = "validate"
      BY <1>6 DEF Validate, At, Writing
    <3>2. UNCHANGED outcome => Done'
      BY <1>1, <3>1 DEF Done, Makes, YankOutcome, PluginTemplates, Commands
    <3> QED BY <1>1, <3>1, <3>2 DEF Goto, Writing
  <2> QED BY <1>2, <1>4, <1>5, <1>6, <2>1 DEF Validate
<1>7. CASE Package
  <2>1. Goto("serialize") /\ UNCHANGED outcome => Writing'
    <3>1. outcome = {} /\ Cmd = "package"
      BY <1>7 DEF Package, At, Writing
    <3> QED BY <1>1, <3>1 DEF Goto, Writing, YankOutcome
  <2> QED BY <1>2, <1>4, <1>5, <1>7, <2>1 DEF Package
<1>8. CASE Yank
  <2>1. ASSUME NEW yanked \in BOOLEAN,
               outcome' = {[before |-> yanked, after |-> ~inv.undo,
                            wire |-> outcome_wire(yanked = inv.undo, inv.undo)]},
               Goto("serialize")
        PROVE  Writing'
    <3>1. Cmd = "yank" /\ YankOutcome'
      BY <1>1, <1>8, <2>1 DEF Yank, YankOutcome
    <3> QED BY <1>1, <2>1, <3>1 DEF Goto, Writing
  <2> QED BY <1>5, <1>8, <2>1 DEF Yank
<1>9. CASE Serialize
  <2>1. Goto(IF Cmd = "package" THEN "artifact" ELSE "index") => Writing'
    <3>1. Cmd \in {"package", "yank"} /\ YankOutcome /\ UNCHANGED <<inv, outcome>>
      BY <1>9 DEF Serialize, Quietly, At, Writing
    <3> QED BY <1>1, <3>1, KeepsOutcome DEF Goto, Writing
  <2> QED BY <1>5, <1>9, <2>1 DEF Serialize
<1> QED BY <1>6, <1>7, <1>8, <1>9

\* What the writes of a scaffold leave when they all succeed.
LEMMA ScaffoldMakes ==
  ASSUME Cmd \in PluginTemplates \cup {"index"}
  PROVE  ToSet(SubSeq(ScaffoldFiles, 1, Len(ScaffoldFiles))) = Makes
<1>1. CASE Cmd = "index"
  <2>1. ScaffoldFiles = <<"index.json">> /\ Makes = {"index.json"}
    BY <1>1 DEF ScaffoldFiles, Makes, PluginTemplates
  <2> QED BY <2>1 DEF ToSet
<1>2. CASE Cmd # "index"
  <2>1. ScaffoldFiles = <<"manifest.toml", "<name>.py", "README.md">>
    BY <1>2 DEF ScaffoldFiles
  <2>2. SubSeq(ScaffoldFiles, 1, Len(ScaffoldFiles)) = ScaffoldFiles
    <3>1. ScaffoldFiles \in Seq({"manifest.toml", "<name>.py", "README.md"})
      BY <2>1
    <3> QED BY <3>1, SubSeqFull
  <2>3. ToSet(ScaffoldFiles) = {"manifest.toml", "<name>.py", "README.md"}
    BY <2>1 DEF ToSet
  <2>4. Makes = {"manifest.toml", "<name>.py", "README.md"}
    BY <1>2 DEF Makes, PluginTemplates
  <2> QED BY <2>2, <2>3, <2>4
<1> QED BY <1>1, <1>2

\* Each file that is written is recorded as written.
LEMMA FileWriting ==
  ASSUME IInv, Carried, Writing, WriteArtifact \/ WriteIndex \/ Scaffold
  PROVE  Writing'
<1>1. /\ exit = {} /\ found = << >> /\ UNCHANGED <<inv, found, outcome, exit>> /\ Cmd' = Cmd
      /\ at \in {"artifact", "index", "scaffold"}
  BY DEF WriteArtifact, WriteIndex, WriteFile, Scaffold, UnchangedStreams, At, Carried, IInv,
     Quiet, Cmd
<1>2. \A e : Returns(e) /\ e.kind = "Runtime" => Writing'
  BY <1>1, WritingReturns
<1>3. \A je : Runtime(je).kind = "Runtime"
  BY DEF Runtime
<1>4. \A file : IoFailed(<<"io", "write_failed">>, file).kind = "Runtime"
  BY <1>3 DEF IoFailed
<1>5. CASE WriteArtifact
  <2>1. Goto("index") /\ written' = written \cup {"artifact"} => Writing'
    <3>1. Cmd = "package" /\ YankOutcome /\ written = {}
      BY <1>5 DEF WriteArtifact, WriteFile, At, Writing
    <3> QED BY <1>1, <3>1, KeepsOutcome DEF Goto, Writing
  <2> QED BY <1>2, <1>4, <1>5, <2>1 DEF WriteArtifact, WriteFile
<1>6. CASE WriteIndex
  <2>1. Goto("report") /\ written' = written \cup {"index.json"} => Writing'
    <3>1. /\ Cmd \in {"package", "yank"} /\ YankOutcome
          /\ written = IF Cmd = "package" THEN {"artifact"} ELSE {}
      BY <1>6 DEF WriteIndex, WriteFile, At, Writing
    <3>2. Makes = IF Cmd = "package" THEN {"artifact", "index.json"} ELSE {"index.json"}
      BY <3>1 DEF Makes, PluginTemplates
    <3>3. written' = written \cup {"index.json"} => Done'
      BY <1>1, <3>1, <3>2, KeepsOutcome DEF Done, Commands
    <3> QED BY <1>1, <3>3 DEF Goto, Writing
  <2> QED BY <1>2, <1>4, <1>6, <2>1 DEF WriteIndex, WriteFile
<1>7. CASE Scaffold
  <2>1. Cmd \in PluginTemplates \cup {"index"} /\ outcome = {}
    BY <1>7 DEF Scaffold, At, Writing
  <2>2. PICK k \in 0 .. Len(ScaffoldFiles) :
          /\ written' = ToSet(SubSeq(ScaffoldFiles, 1, k))
          /\ \/ k < Len(ScaffoldFiles) /\ \E err, ctx : Returns(Runtime(json_error_from_sdk(err, ctx)))
             \/ k >= Len(ScaffoldFiles) /\ Goto("report")
    BY <1>7 DEF Scaffold
  <2>3. CASE Goto("report") /\ k >= Len(ScaffoldFiles)
    <3>1. k = Len(ScaffoldFiles)
      BY <2>2, <2>3 DEF ScaffoldFiles
    <3>2. Done'
      BY <1>1, <2>1, <2>2, <3>1, ScaffoldMakes, KeepsOutcome
      DEF Done, YankOutcome, PluginTemplates, Commands
    <3> QED BY <1>1, <2>3, <3>2 DEF Goto, Writing
  <2> QED BY <1>2, <1>3, <2>2, <2>3
<1> QED BY <1>5, <1>6, <1>7

\* Every step keeps the record of what was written.
LEMMA WritingStep ==
  ASSUME IInv, IInv', Carried, Writing, Next
  PROVE  Writing'
<1>1. CASE Report
  <2>1. UNCHANGED <<inv, outcome, written, found>> /\ Done /\ exit = {} /\ error = {}
    BY <1>1 DEF Report, At, Writing, IInv, Quiet
  <2>2. Done'
    BY <2>1, KeepsOutcome DEF Done, Cmd
  <2>3. found = << >>
    BY <1>1 DEF Report, At, Carried
  <2>4. \/ at' = "exited" /\ exit' = {0}
        \/ at' = "failed" /\ error' = {Plain} /\ exit' = {}
    BY <1>1, <2>1 DEF Report, Goto, Returns
  <2> QED BY <2>1, <2>2, <2>3, <2>4 DEF Writing, Plain
<1>2. CASE handle_clap_error
  <2>1. written = {} /\ UNCHANGED written
    BY <1>2 DEF handle_clap_error, At, UnchangedRun, Writing
  <2>2. at' = "exited"
    BY <1>2 DEF handle_clap_error, Exits, Goto, Panics, PrintClapError
  <2> QED BY <2>1, <2>2 DEF Writing
<1>3. CASE render_error_and_exit
  <2>1. UNCHANGED <<written, found>> /\ at = "failed"
    BY <1>3 DEF render_error_and_exit, At, UnchangedRun
  <2>2. at' = "exited" /\ \E e \in error : exit' \in {{exit_code(CliErrorKind_of(e))}, {101}}
    BY <1>3 DEF render_error_and_exit, Exits, Goto, Panics
  <2>3. exit' = {2} => \E e \in error : e.kind = "Usage"
    BY <2>2 DEF exit_code, CliErrorKind_of
  <2> QED BY <2>1, <2>2, <2>3 DEF Writing
<1> QED BY <1>1, <1>2, <1>3, EarlyWriting, LibraryWriting, FileWriting DEF Next

-----------------------------------------------------------------------------
(* The items on the two streams.                                            *)

\* On stdout: the result of a command that has done its work, or an item that
\* is neither coloured nor a result.
OutItem(x) ==
  \/ x = Result /\ Done
  \/ /\ {"lines", "coloured"} \cap DOMAIN x = {}
     /\ "status" \in DOMAIN x => x.status = "error"

\* On stderr colour is that stream's own.
ErrItem(x) == "coloured" \in DOMAIN x => (x.coloured => stderr_error_palette(inv.env))

Printed ==
  /\ \A i \in DOMAIN stdout : OutItem(stdout[i])
  /\ \A i \in DOMAIN stderr : ErrItem(stderr[i])

\* An invocation that has ended, with every write succeeding, has printed one
\* item: help, the result, or the error, each on the stream of its mode.
Ended ==
  at = "exited" /\ broken = {} /\ exit # {101} =>
    \/ Helped /\ found = << >>
    \/ /\ exit = {0} /\ stdout = <<Result>> /\ stderr = << >>
       /\ mode # {} /\ found = << >>
    \/ /\ MainMode = "json" /\ exit # {0} /\ stderr = << >>
       /\ stdout = <<stdout[1]>> /\ stdout[1] = Envelope_Error(stdout[1].error)
       /\ found # << >> => stdout[1].error.diagnostics = Diagnostics(found)
    \/ /\ MainMode = "human" /\ exit # {0} /\ stdout = << >>
       /\ stderr = <<stderr[1]>> /\ "status" \notin DOMAIN stderr[1]
       /\ found # << >> => Len(stderr[1].lines) = Len(found) + 1

TellsAll == Decided /\ Carried /\ Writing /\ Printed /\ Ended

\* Streams of good items are well printed.
LEMMA PrintedItems ==
  ASSUME NEW S, stdout' \in Seq(S), \A x \in S : OutItem(x)',
         NEW T, stderr' \in Seq(T), \A x \in T : ErrItem(x)'
  PROVE  Printed'
<1>1. (\A i \in DOMAIN stdout' : stdout'[i] \in S) /\ (\A i \in DOMAIN stderr' : stderr'[i] \in T)
  OBVIOUS
<1> QED BY <1>1 DEF Printed

\* The items that are neither a result nor coloured.
LEMMA PlainItems ==
  /\ OutItem(Torn)' /\ ErrItem(Torn)'
  /\ \A err : OutItem(ClapText(err))' /\ ErrItem(ClapText(err))' /\ "clap" \in DOMAIN ClapText(err)
  /\ \A je : OutItem(Envelope_Error(je))'
BY DEF OutItem, ErrItem, Torn, ClapText, Envelope_Error

\* What PrintErr adds.
LEMMA PrintsError ==
  ASSUME NEW T, stderr \in Seq(T), NEW item \in T, Torn \in T, PrintErr(item)
  PROVE  stderr' \in Seq(T) /\ stdout' = stdout
BY SeqItems DEF PrintErr

\* A write that succeeds prints the item and no more.
LEMMA PrintsWhole ==
  ASSUME NEW item, broken' = {}
  PROVE  /\ stdout = << >> /\ PrintOut(item) => stdout' = <<item>> /\ stderr' = stderr
         /\ stderr = << >> /\ PrintErr(item) => stderr' = <<item>> /\ stdout' = stdout
<1>1. Append(<< >>, item) = <<item>>
  OBVIOUS
<1> QED BY <1>1 DEF PrintOut, PrintErr

\* The run is as it was: so are the mode of main.rs, the result and what is done.
LEMMA RunKept ==
  ASSUME UNCHANGED <<inv, mode, outcome, written>>
  PROVE  MainMode' = MainMode /\ Result' = Result /\ Done' = Done
BY DEF MainMode, Result, HumanResult, Payload, render_human, Done, Makes, YankOutcome, Cmd

\* Before the end nothing is printed.
LEMMA WorkingPrints ==
  ASSUME IInv, Working
  PROVE  Printed' /\ Ended'
<1>1. at \notin {"failed", "exited"} /\ UNCHANGED <<stdout, stderr>>
  BY DEF Working, Parse, CheckArguments, ReadIndex, PrepareOut, Validate, Package, Yank, Serialize,
     WriteArtifact, WriteIndex, WriteFile, Scaffold, Quietly, UnchangedStreams, At
<1>2. at' # "exited"
  BY DEF Working, Parse, CheckArguments, ReadIndex, PrepareOut, Validate, Package, Yank, Serialize,
     WriteArtifact, WriteIndex, WriteFile, Scaffold, Returns, Goto, FirstStep, AfterIndex
<1>3. stdout' = << >> /\ stderr' = << >>
  BY <1>1 DEF IInv, Quiet
<1> QED BY <1>2, <1>3 DEF Printed, Ended

\* A result is printed as what was written.
LEMMA ReportPrints ==
  ASSUME IInv, TellsAll, Report
  PROVE  Printed' /\ Ended'
<1>1. /\ at = "report" /\ Done /\ UNCHANGED <<inv, mode, outcome, written, found, stderr>>
      /\ stdout = << >> /\ stderr = << >> /\ mode # {} /\ found = << >>
  BY DEF Report, At, TellsAll, Writing, Decided, Carried, IInv, Quiet
<1> DEFINE S == {Torn, Result}
<1>2. \A x \in S : OutItem(x)'
  BY <1>1, RunKept, PlainItems DEF OutItem
<1>3. stdout' \in Seq(S) /\ stderr' \in Seq({})
  <2>1. stdout \in Seq(S) /\ stderr \in Seq({})
    BY <1>1, EmptySeq
  <2> QED BY <1>1, <2>1, SeqItems DEF Report
<1>4. Printed'
  <2> HIDE DEF S
  <2> QED BY <1>2, <1>3, PrintedItems
<1>5. Ended'
  <2>1. CASE stdout' = Append(stdout, Result) /\ exit' = {0}
    <3>1. stdout' = <<Result>>
      BY <1>1, <2>1
    <3>2. Result' = Result
      BY <1>1, RunKept
    <3> QED BY <1>1, <2>1, <3>1, <3>2 DEF Ended
  <2>2. CASE at' = "failed"
    BY <2>2 DEF Ended
  <2> QED BY <2>1, <2>2 DEF Report, Returns
<1> QED BY <1>4, <1>5

\* clap's text is printed alone.
LEMMA ClapPrints ==
  ASSUME IInv, TellsAll, handle_clap_error
  PROVE  Printed' /\ Ended'
<1>1. /\ at = "parse" /\ UNCHANGED <<inv, mode, outcome, written, found>>
      /\ stdout = << >> /\ stderr = << >> /\ found = << >> /\ MainMode' = MainMode
  BY RunKept DEF handle_clap_error, At, UnchangedRun, TellsAll, Carried, IInv, Quiet
<1>2. PICK err \in ClapErrors(Cmd, inv.argv, inv.given) :
       \/ PrintOut(ClapText(err)) /\ Exits(0)
       \/ Panics
       \/ /\ MainMode = "json"
          /\ PrintOut(Envelope_Error(json_error_from_clap(err))) /\ Exits(2)
       \/ MainMode = "human" /\ PrintClapError(err)
  BY DEF handle_clap_error
<1> DEFINE S == {Torn, ClapText(err), Envelope_Error(json_error_from_clap(err))}
           T == {Torn, ClapText(err)}
<1>3. (\A x \in S : OutItem(x)') /\ (\A x \in T : ErrItem(x)')
  BY PlainItems
<1>4. stdout \in Seq(S) /\ stderr \in Seq(T) /\ <<ClapText(err)>> \in Seq(T)
  BY <1>1, EmptySeq
<1>5. stdout' \in Seq(S) /\ stderr' \in Seq(T)
  <2>1. \A item \in S : PrintOut(item) => stdout' \in Seq(S) /\ stderr' = stderr
    <3>1. Torn \in S
      OBVIOUS
    <3> HIDE DEF S
    <3> QED BY <1>4, <3>1, PrintsItem
  <2>2. \A item \in T : PrintErr(item) => stderr' \in Seq(T) /\ stdout' = stdout
    <3>1. Torn \in T
      OBVIOUS
    <3> HIDE DEF T
    <3> QED BY <1>4, <3>1, PrintsError
  <2>3. Leftovers(ClapText(err)) \subseteq Seq(T)
    <3>1. <<Torn>> \in Seq(T) /\ << >> \in Seq(T)
      BY <1>1, <1>4
    <3> QED BY <1>4, <3>1 DEF Leftovers
  <2>4. CASE MainMode = "human" /\ PrintClapError(err)
    <3>1. CASE PrintErr(ClapText(err))
      BY <1>4, <2>2, <3>1
    <3>2. CASE stderr' \in Leftovers(ClapText(err)) /\ UNCHANGED stdout
      BY <1>4, <2>3, <3>2
    <3> QED BY <2>4, <3>1, <3>2 DEF PrintClapError
  <2> QED BY <1>2, <1>4, <2>1, <2>4 DEF Panics
<1>6. Printed'
  <2> HIDE DEF S, T
  <2> QED BY <1>3, <1>5, PrintedItems
<1>7. ASSUME broken' = {}, exit' # {101} PROVE Ended'
  <2>1. CASE PrintOut(ClapText(err))
    <3>1. stdout' = <<ClapText(err)>>
      BY <1>1, <1>7, <2>1, PrintsWhole
    <3>2. Helped'
      BY <3>1, PlainItems DEF Helped
    <3> QED BY <1>1, <3>2 DEF Ended
  <2>2. CASE /\ MainMode = "json"
             /\ PrintOut(Envelope_Error(json_error_from_clap(err))) /\ Exits(2)
    <3> DEFINE je == json_error_from_clap(err)
    <3>1. stdout' = <<Envelope_Error(je)>> /\ stderr' = << >>
      BY <1>1, <1>7, <2>2, PrintsWhole
    <3>2. MainMode' = "json" /\ exit' = {2} /\ found' = << >>
      BY <1>1, <2>2 DEF Exits
    <3> HIDE DEF je
    <3>3. stdout' = <<stdout'[1]>> /\ stdout'[1] = Envelope_Error(stdout'[1].error)
      BY <3>1, Items
    <3> QED BY <3>1, <3>2, <3>3 DEF Ended
  <2>3. CASE MainMode = "human" /\ PrintClapError(err)
    <3>1. PrintErr(ClapText(err)) /\ exit' = {2}
      BY <1>7, <2>3 DEF PrintClapError, Exits
    <3>2. stderr' = <<ClapText(err)>> /\ stdout' = << >>
      BY <1>1, <1>7, <3>1, PrintsWhole
    <3>3. stderr' = <<stderr'[1]>> /\ "status" \notin DOMAIN stderr'[1]
      BY <3>2, Items
    <3>4. MainMode' = "human" /\ exit' # {0} /\ found' = << >>
      BY <1>1, <2>3, <3>1
    <3> QED BY <3>2, <3>3, <3>4 DEF Ended
  <2> QED BY <1>2, <1>7, <2>1, <2>2, <2>3 DEF Panics, Exits
<1> QED BY <1>6, <1>7 DEF Ended

\* One line for each diagnostic, and the line above them.
LEMMA HumanLines ==
  ASSUME NEW je, NEW palette, found \in Seq(ToSet(found)), found # << >>,
         je.diagnostics = Diagnostics(found)
  PROVE  Len(render_human_error(je, palette).lines) = Len(found) + 1
<1>1. je.diagnostics = [i \in 1 .. Len(found) |-> json_error_from_validation(found[i])]
  BY DEF Diagnostics, MapSeq
<1>2. Len(found) \in Nat /\ Len(found) > 0
  BY EmptySeq
<1>3. je.diagnostics # << >> /\ Len(je.diagnostics) = Len(found)
  BY <1>1, <1>2
<1>4. MapSeq(Line, je.diagnostics) = [i \in 1 .. Len(found) |-> Line(je.diagnostics[i])]
  BY <1>1 DEF MapSeq
<1>5. Len(render_multi_issue(je)) = Len(found) + 1
  <2>1. PICK heading, lines : /\ render_multi_issue(je) = <<heading>> \o lines
                              /\ lines = [i \in 1 .. Len(found) |-> Line(je.diagnostics[i])]
    BY <1>4 DEF render_multi_issue
  <2>2. lines \in Seq({Line(je.diagnostics[i]) : i \in 1 .. Len(found)}) /\ Len(lines) = Len(found)
    BY <1>2, <2>1
  <2> QED BY <1>2, <2>1, <2>2
<1> QED BY <1>3, <1>5 DEF render_human_error, Text

\* An error is printed with all that was found.
LEMMA FailurePrints ==
  ASSUME IInv, TellsAll, render_error_and_exit
  PROVE  Printed' /\ Ended'
<1>1. /\ at = "failed" /\ UNCHANGED <<inv, mode, outcome, written, found>>
      /\ stderr = << >> /\ stdout \in Seq({Torn, Result})
  BY DEF render_error_and_exit, At, UnchangedRun, IInv, Failing
<1>2. MainMode' = MainMode /\ Result' = Result /\ Done' = Done
  BY <1>1, RunKept
<1>3. PICK e \in error :
        /\ error = {e}
        /\ \/ Coded(e) /\ stdout = << >> /\ broken = {}
           \/ e = Plain /\ broken = {"stdout"}
  BY <1>1 DEF IInv, Failing
<1> DEFINE typed == json_error_of(e)
           code  == exit_code(CliErrorKind_of(e))
           plain == Text(<<[plain |-> TRUE]>>, FALSE)
<1>4. \/ Panics
      \/ /\ MainMode = "json"
         /\ \E je : /\ typed # {} => je \in typed
                    /\ PrintOut(Envelope_Error(je))
         /\ Exits(code)
      \/ /\ MainMode = "human"
         /\ \E je \in typed :
              PrintErr(render_human_error(je, stderr_error_palette(inv.env)))
         /\ Exits(code)
      \/ /\ typed = {}
         /\ stderr' \in {stderr, Append(stderr, plain)} /\ UNCHANGED stdout
  BY <1>3 DEF render_error_and_exit
<1>5. \A x \in {Torn, Result} : e = Plain => OutItem(x)'
  <2>1. e = Plain => Done
    BY <1>1, <1>3 DEF TellsAll, Writing
  <2> QED BY <1>2, <2>1, PlainItems DEF OutItem
<1> DEFINE S == IF e = Plain THEN {Torn, Result} ELSE {Torn}
<1>6. stdout \in Seq(S) /\ \A x \in S : OutItem(x)'
  BY <1>1, <1>3, <1>5, EmptySeq, PlainItems DEF Coded, Plain
<1>7. Printed'
  <2>1. CASE UNCHANGED stdout /\ stderr' \in {stderr, Append(stderr, plain)}
    <3>1. ErrItem(plain)'
      BY DEF ErrItem, Text
    <3>2. stderr' \in Seq({plain})
      <4>1. stderr \in Seq({plain})
        BY <1>1, EmptySeq
      <4> HIDE DEF plain
      <4>2. Append(stderr, plain) \in Seq({plain})
        BY <4>1
      <4> QED BY <2>1, <4>1, <4>2
    <3> HIDE DEF S, plain
    <3> QED BY <1>6, <2>1, <3>1, <3>2, PrintedItems
  <2>2. ASSUME NEW je, PrintOut(Envelope_Error(je)) PROVE Printed'
    <3> DEFINE R == S \cup {Envelope_Error(je)}
    <3>1. stdout \in Seq(R) /\ Envelope_Error(je) \in R /\ Torn \in R
      BY <1>6, SeqMonotonic
    <3>2. \A x \in R : OutItem(x)'
      BY <1>6, PlainItems
    <3> HIDE DEF R
    <3>3. stdout' \in Seq(R) /\ stderr' \in Seq({})
      BY <1>1, <2>2, <3>1, PrintsItem, EmptySeq
    <3> QED BY <3>2, <3>3, PrintedItems
  <2>3. ASSUME NEW je, PrintErr(render_human_error(je, stderr_error_palette(inv.env)))
        PROVE  Printed'
    <3> DEFINE item == render_human_error(je, stderr_error_palette(inv.env))
               T == {Torn, item}
    <3>1. ErrItem(item)'
      BY <1>1 DEF ErrItem, render_human_error, Text
    <3>2. stderr \in Seq(T) /\ Torn \in T /\ item \in T /\ \A x \in T : ErrItem(x)'
      BY <1>1, <3>1, EmptySeq, PlainItems
    <3> HIDE DEF S, T, item
    <3>3. stderr' \in Seq(T) /\ stdout' = stdout
      BY <2>3, <3>2, PrintsError DEF item
    <3> QED BY <1>6, <3>2, <3>3, PrintedItems
  <2>4. Panics => UNCHANGED <<stdout, stderr>>
    BY DEF Panics
  <2> QED BY <1>4, <2>1, <2>2, <2>3, <2>4
<1>8. ASSUME broken' = {}, exit' # {101} PROVE Ended'
  <2>1. broken \subseteq broken'
    BY DEF render_error_and_exit, Panics, PrintOut, PrintErr
  <2>2. stdout = << >> /\ Coded(e) /\ typed # {} /\ code \in {1, 2}
    BY <1>3, <1>8, <2>1 DEF Coded, json_error_of, exit_code
  <2>3. \A je \in typed : found # << >> => je.diagnostics = Diagnostics(found)
    BY <1>1, <1>3 DEF TellsAll, Carried, json_error_of
  <2>4. ASSUME NEW je \in typed, MainMode = "json", PrintOut(Envelope_Error(je)), Exits(code)
        PROVE  Ended'
    <3>1. stdout' = <<Envelope_Error(je)>> /\ stderr' = << >>
      BY <1>1, <1>8, <2>2, <2>4, PrintsWhole
    <3> QED BY <1>1, <1>2, <2>2, <2>3, <2>4, <3>1, Items DEF Ended, Exits
  <2>5. ASSUME NEW je \in typed, MainMode = "human",
               PrintErr(render_human_error(je, stderr_error_palette(inv.env))), Exits(code)
        PROVE  Ended'
    <3> DEFINE item == render_human_error(je, stderr_error_palette(inv.env))
    <3>1. stderr' = <<item>> /\ stdout' = << >>
      BY <1>1, <1>8, <2>2, <2>5, PrintsWhole
    <3>2. "status" \notin DOMAIN item
      BY DEF render_human_error, Text
    <3>3. found # << >> => Len(item.lines) = Len(found) + 1
      BY <2>3, HumanLines DEF TellsAll, Carried
    <3> HIDE DEF item
    <3> QED BY <1>1, <1>2, <2>2, <2>5, <3>1, <3>2, <3>3 DEF Ended, Exits
  <2>6. ~Panics
    BY <1>8 DEF Panics, Exits
  <2> HIDE DEF typed, code, plain
  <2> QED BY <1>4, <2>2, <2>4, <2>5, <2>6
<1> QED BY <1>7, <1>8 DEF Ended

-----------------------------------------------------------------------------
(* What a result tells.                                                     *)

\* Records that name no file, or say nothing of a flag.
LEMMA Silent ==
  ASSUME NEW r
  PROVE  /\ DOMAIN r \cap {"artifact_path", "index_path", "file", "files_written"} = {}
              => FilesOf(r) = {}
         /\ DOMAIN r \cap {"outcome", "changed"} = {} => FlagOf(r) = {}
BY DEF FilesOf, FlagOf

\* The line of a file names that file.
LEMMA FileLine ==
  ASSUME NEW f
  PROVE  FilesOf([file |-> f]) = {f} /\ FlagOf([file |-> f]) = {}
BY DEF FilesOf, FlagOf

\* The elements of a sequence in parts.
LEMMA SetOfConcat ==
  ASSUME NEW S, NEW s \in Seq(S), NEW t \in Seq(S)
  PROVE  ToSet(s \o t) = ToSet(s) \cup ToSet(t)
<1>1. ASSUME NEW x \in ToSet(s \o t) PROVE x \in ToSet(s) \cup ToSet(t)
  <2>1. PICK i \in 1 .. Len(s) + Len(t) : x = (s \o t)[i]
    BY <1>1 DEF ToSet
  <2>2. CASE i <= Len(s)
    BY <2>1, <2>2 DEF ToSet
  <2>3. CASE i > Len(s)
    <3>1. i - Len(s) \in DOMAIN t /\ x = t[i - Len(s)]
      BY <2>1, <2>3
    <3> QED BY <3>1 DEF ToSet
  <2> QED BY <2>1, <2>2, <2>3
<1>2. ASSUME NEW x \in ToSet(s) PROVE x \in ToSet(s \o t)
  <2>1. PICK i \in 1 .. Len(s) : x = s[i]
    BY <1>2 DEF ToSet
  <2>2. i \in DOMAIN (s \o t) /\ (s \o t)[i] = x
    BY <2>1
  <2> QED BY <2>2 DEF ToSet
<1>3. ASSUME NEW x \in ToSet(t) PROVE x \in ToSet(s \o t)
  <2>1. PICK i \in 1 .. Len(t) : x = t[i]
    BY <1>3 DEF ToSet
  <2>2. Len(s) + i \in DOMAIN (s \o t) /\ (s \o t)[Len(s) + i] = x
    BY <2>1
  <2> QED BY <2>2 DEF ToSet
<1> QED BY <1>1, <1>2, <1>3

\* The lines of a text are the lines of its parts.
LEMMA SetOfParts ==
  ASSUME NEW S, NEW s \in Seq(S), NEW t \in Seq(S), NEW u \in Seq(S), NEW v \in Seq(S)
  PROVE  ToSet(s \o t \o u \o v) = ToSet(s) \cup ToSet(t) \cup ToSet(u) \cup ToSet(v)
<1> DEFINE st == s \o t
           stu == st \o u
<1>1. st \in Seq(S) /\ ToSet(st) = ToSet(s) \cup ToSet(t)
  BY SetOfConcat
<1> HIDE DEF st
<1>2. stu \in Seq(S) /\ ToSet(stu) = ToSet(st) \cup ToSet(u)
  BY <1>1, SetOfConcat
<1> HIDE DEF stu
<1>3. ToSet(stu \o v) = ToSet(stu) \cup ToSet(v)
  BY <1>2, SetOfConcat
<1> QED BY <1>1, <1>2, <1>3 DEF st, stu

\* One line, and none.
LEMMA SetOfOne ==
  ASSUME NEW x
  PROVE  ToSet(<<x>>) = {x} /\ ToSet(<< >>) = {}
BY DEF ToSet

\* A line for each file.
LEMMA FileRows ==
  ASSUME NEW files, files \in Seq(ToSet(files)),
         NEW rows, rows = [i \in DOMAIN files |-> [file |-> files[i]]]
  PROVE  /\ rows \in Seq(ToSet(rows))
         /\ \A r \in ToSet(rows) : \E f \in ToSet(files) : FilesOf(r) = {f} /\ FlagOf(r) = {}
         /\ \A f \in ToSet(files) : \E r \in ToSet(rows) : FilesOf(r) = {f}
<1>1. DOMAIN files = 1 .. Len(files) /\ Len(files) \in Nat
  OBVIOUS
<1>2. /\ DOMAIN rows = DOMAIN files
      /\ \A i \in DOMAIN files : FilesOf(rows[i]) = {files[i]} /\ FlagOf(rows[i]) = {}
  BY FileLine
<1>3. \A i \in DOMAIN files : rows[i] \in ToSet(rows) /\ files[i] \in ToSet(files)
  BY <1>2 DEF ToSet
<1>4. rows = [i \in 1 .. Len(files) |-> rows[i]]
  BY <1>1
<1>5. rows \in Seq(ToSet(rows))
  BY <1>1, <1>3, <1>4
<1>6. ASSUME NEW r \in ToSet(rows)
      PROVE  \E f \in ToSet(files) : FilesOf(r) = {f} /\ FlagOf(r) = {}
  <2>1. PICK i \in DOMAIN files : r = rows[i]
    BY <1>2 DEF ToSet
  <2> QED BY <1>2, <1>3, <2>1
<1>7. ASSUME NEW f \in ToSet(files) PROVE \E r \in ToSet(rows) : FilesOf(r) = {f}
  <2>1. PICK i \in DOMAIN files : f = files[i]
    BY DEF ToSet
  <2> QED BY <1>2, <1>3, <2>1
<1> QED BY <1>5, <1>6, <1>7

\* What a sequence of lines or a payload adds up to.
TellsFiles(rs) == UNION {FilesOf(r) : r \in rs}
TellsFlag(rs) == UNION {FlagOf(r) : r \in rs}

\* The result of new names the template's files,
LEMMA SummaryTells ==
  ASSUME Cmd \in PluginTemplates \cup {"index"}
  PROVE  /\ FilesOf(Summary(Cmd)) = Makes /\ FlagOf(Summary(Cmd)) = {}
         /\ TellsFiles(ToSet(render_new(Summary(Cmd)))) = Makes
         /\ TellsFlag(ToSet(render_new(Summary(Cmd)))) = {}
<1> DEFINE s == Summary(Cmd)
           files == files_written(Cmd)
<1>1. files \in Seq(ToSet(files)) /\ ToSet(files) = Makes
  <2>1. CASE Cmd = "index"
    <3>1. files = <<"index.json">> /\ Makes = {"index.json"}
      BY <2>1 DEF files_written, SummaryKind, Makes, PluginTemplates
    <3> QED BY <3>1 DEF ToSet
  <2>2. CASE Cmd # "index"
    <3>1. /\ files = <<"manifest.toml", "<name>.py", "README.md">>
          /\ Makes = {"manifest.toml", "<name>.py", "README.md"}
      BY <2>2 DEF files_written, SummaryKind, Makes, PluginTemplates
    <3> QED BY <3>1 DEF ToSet
  <2> QED BY <2>1, <2>2
<1>2. /\ s.files_written = files /\ DOMAIN s = {"kind", "template", "name", "files_written"}
  BY DEF Summary
<1> HIDE DEF files
<1>3. FilesOf(s) = Makes /\ FlagOf(s) = {}
  <2> HIDE DEF s
  <2>1. FilesOf(s) = ToSet(files)
    BY <1>2 DEF FilesOf
  <2> QED BY <1>1, <1>2, <2>1, Silent
<1> HIDE DEF s
<1> DEFINE a == [done |-> "Scaffolded", kind |-> s.kind, template |-> s.template]
           b == [name |-> CHOOSE n \in s.name : TRUE]
           c == [heading |-> "files written"]
           middle == IF s.name = {} THEN << >> ELSE <<b>>
           rows == [i \in DOMAIN files |-> [file |-> files[i]]]
<1>4. \A x \in {a, b, c} : FilesOf(x) = {} /\ FlagOf(x) = {}
  <2>1. DOMAIN a = {"done", "kind", "template"} /\ DOMAIN b = {"name"} /\ DOMAIN c = {"heading"}
    OBVIOUS
  <2> HIDE DEF a, b, c
  <2> QED BY <2>1, Silent
<1>5. render_new(s) = <<a>> \o middle \o <<c>> \o rows
  BY <1>2 DEF render_new, MapSeq
<1>6. /\ rows \in Seq(ToSet(rows))
      /\ \A r \in ToSet(rows) : \E f \in ToSet(files) : FilesOf(r) = {f} /\ FlagOf(r) = {}
      /\ \A f \in ToSet(files) : \E r \in ToSet(rows) : FilesOf(r) = {f}
  BY <1>1, FileRows
<1>7. middle \in {<< >>, <<b>>}
  OBVIOUS
<1> HIDE DEF a, b, c, middle, rows
<1>8. ToSet(<<a>>) = {a} /\ ToSet(<<c>>) = {c} /\ ToSet(middle) \subseteq {b}
  BY <1>7, SetOfOne
<1>9. ToSet(render_new(s)) = {a} \cup ToSet(middle) \cup {c} \cup ToSet(rows)
  <2> DEFINE S == {a, b, c} \cup ToSet(rows)
  <2>1. <<a>> \in Seq(S) /\ <<c>> \in Seq(S) /\ <<b>> \in Seq(S) /\ << >> \in Seq(S)
    OBVIOUS
  <2>2. rows \in Seq(S)
    BY <1>6, SeqMonotonic
  <2>3. middle \in Seq(S)
    BY <1>7, <2>1
  <2> DEFINE first == <<a>>
             heading == <<c>>
  <2> HIDE DEF S, first, heading
  <2>4. ToSet(first \o middle \o heading \o rows)
          = ToSet(first) \cup ToSet(middle) \cup ToSet(heading) \cup ToSet(rows)
    <3>1. first \in Seq(S) /\ heading \in Seq(S)
      BY <2>1 DEF first, heading
    <3> QED BY <2>2, <2>3, <3>1, SetOfParts
  <2>5. render_new(s) = first \o middle \o heading \o rows
    BY <1>5 DEF first, heading
  <2>6. ToSet(first) = {a} /\ ToSet(heading) = {c}
    BY <1>8 DEF first, heading
  <2> QED BY <2>4, <2>5, <2>6
<1>10. /\ TellsFiles(ToSet(render_new(s))) = ToSet(files)
       /\ TellsFlag(ToSet(render_new(s))) = {}
  <2> DEFINE lines == ToSet(render_new(s))
  <2>1. \A r \in lines : r \in ToSet(rows) \/ (FilesOf(r) = {} /\ FlagOf(r) = {})
    BY <1>4, <1>8, <1>9
  <2>2. ToSet(rows) \subseteq lines
    BY <1>9
  <2> HIDE DEF lines
  <2>3. TellsFiles(lines) = ToSet(files)
    <3>1. \A f \in ToSet(files) : \E r \in lines : f \in FilesOf(r)
      BY <1>6, <2>2
    <3>2. \A r \in lines : FilesOf(r) \subseteq ToSet(files)
      BY <1>6, <2>1
    <3> QED BY <3>1, <3>2 DEF TellsFiles
  <2>4. TellsFlag(lines) = {}
    BY <1>6, <2>1 DEF TellsFlag
  <2> QED BY <2>3, <2>4 DEF lines
<1> QED BY <1>1, <1>3, <1>10 DEF s

Flags == {<<o.before # o.after, o.after>> : o \in outcome}

\* that of package the artifact and the index,
LEMMA PackageTells ==
  LET p == PackageOutput
      lines == ToSet(render_package(p))
  IN  /\ FilesOf(p) = {"artifact", "index.json"} /\ FlagOf(p) = {}
      /\ TellsFiles(lines) = {"artifact", "index.json"} /\ TellsFlag(lines) = {}
<1> DEFINE p == PackageOutput
           lines == ToSet(render_package(p))
           done == [done |-> "Packaged"]
           hash == [hash |-> "hash"]
           artifact == [file |-> "artifact"]
           index == [file |-> "index.json"]
<1>1. /\ DOMAIN p = {"artifact_path", "index_path", "hash"}
      /\ p.artifact_path = "artifact" /\ p.index_path = "index.json"
  BY DEF PackageOutput
<1>2. lines = {done, artifact, index, hash}
  <2>1. render_package(p) = <<done, artifact, index, hash>>
    BY DEF render_package, PackageOutput
  <2> HIDE DEF done, hash, artifact, index
  <2> QED BY <2>1 DEF ToSet
<1>3. DOMAIN done = {"done"} /\ DOMAIN hash = {"hash"}
  OBVIOUS
<1>4. /\ FilesOf(artifact) = {"artifact"} /\ FlagOf(artifact) = {}
      /\ FilesOf(index) = {"index.json"} /\ FlagOf(index) = {}
  BY FileLine
<1> HIDE DEF p, lines, done, hash, artifact, index
<1>5. FilesOf(p) = {"artifact", "index.json"} /\ FlagOf(p) = {}
  <2>1. FilesOf(p) = {p[k] : k \in {"artifact_path", "index_path"}}
    BY <1>1 DEF FilesOf
  <2> QED BY <1>1, <2>1, Silent
<1>6. \A x \in {done, hash} : FilesOf(x) = {} /\ FlagOf(x) = {}
  BY <1>3, Silent
<1>7. TellsFiles(lines) = {"artifact", "index.json"} /\ TellsFlag(lines) = {}
  BY <1>2, <1>4, <1>6 DEF TellsFiles, TellsFlag
<1> QED BY <1>5, <1>7 DEF p, lines

\* The four outcomes of a yank, each named by the change and the new flag.
LEMMA OutcomeTells ==
  ASSUME NEW yanked \in BOOLEAN, NEW undo \in BOOLEAN,
         NEW wire, wire = outcome_wire(yanked = undo, undo)
  PROVE  /\ (wire \in {"yanked", "unyanked"}) = (yanked # ~undo)
         /\ (wire \in {"yanked", "already_yanked"}) = ~undo
BY DEF outcome_wire

\* that of yank the index, whether the flag moved and what it is now.
LEMMA YankTells ==
  ASSUME NEW wire, NEW changed \in BOOLEAN, NEW now \in BOOLEAN,
         (wire \in {"yanked", "unyanked"}) = changed,
         (wire \in {"yanked", "already_yanked"}) = now
  PROVE  LET p == YankOutput(wire)
             lines == ToSet(render_yank(p))
         IN  /\ FilesOf(p) = {"index.json"} /\ FlagOf(p) = {<<changed, now>>}
             /\ TellsFiles(lines) = {"index.json"} /\ TellsFlag(lines) = {<<changed, now>>}
<1> DEFINE p == YankOutput(wire)
           lines == ToSet(render_yank(p))
           flag == [changed |-> changed, yanked |-> now]
           index == [file |-> "index.json"]
<1>1. DOMAIN p = {"outcome", "index_path"} /\ p.outcome = wire /\ p.index_path = "index.json"
  BY DEF YankOutput
<1>2. lines = {flag, index}
  <2>1. render_yank(p) = <<flag, index>>
    BY DEF render_yank, YankOutput
  <2> HIDE DEF flag, index
  <2> QED BY <2>1 DEF ToSet
<1>3. FilesOf(p) = {"index.json"} /\ FlagOf(p) = {<<changed, now>>}
  <2> HIDE DEF p
  <2>1. FilesOf(p) = {p[k] : k \in {"index_path"}}
    BY <1>1 DEF FilesOf
  <2>2. FlagOf(p) = {<<wire \in {"yanked", "unyanked"}, wire \in {"yanked", "already_yanked"}>>}
    BY <1>1 DEF FlagOf
  <2> QED BY <1>1, <2>1, <2>2
<1>4. FilesOf(flag) = {} /\ FlagOf(flag) = {<<changed, now>>}
  <2>1. DOMAIN flag = {"changed", "yanked"} /\ flag.changed = changed /\ flag.yanked = now
    OBVIOUS
  <2> HIDE DEF flag
  <2>2. FlagOf(flag) = {<<flag.changed, flag.yanked>>}
    BY <2>1 DEF FlagOf
  <2> QED BY <2>1, <2>2, Silent
<1>5. FilesOf(index) = {"index.json"} /\ FlagOf(index) = {}
  BY FileLine
<1> HIDE DEF p, lines, flag, index
<1>6. TellsFiles(lines) = {"index.json"} /\ TellsFlag(lines) = {<<changed, now>>}
  BY <1>2, <1>4, <1>5 DEF TellsFiles, TellsFlag
<1> QED BY <1>3, <1>6 DEF p, lines

\* The commands that write nothing name no file.
LEMMA OthersTell ==
  LET Names(r) == FilesOf(r) # {} \/ FlagOf(r) # {}
  IN  /\ ~Names(ListOutput) /\ ~Names(ValidateResult) /\ ~Names([query |-> Cmd])
      /\ \A r \in ToSet(render_list(ListOutput)) : ~Names(r)
      /\ \A r \in ToSet(render_validate) : ~Names(r)
      /\ \A r \in ToSet(<<[query |-> Cmd]>>) : ~Names(r)
<1> DEFINE Names(r) == FilesOf(r) # {} \/ FlagOf(r) # {}
           query == [query |-> Cmd]
           passed == [done |-> "validation passed: 0 diagnostics"]
<1>1. ~Names(ListOutput) /\ ~Names(ValidateResult) /\ ~Names(query) /\ ~Names(passed)
  <2>1. /\ DOMAIN ListOutput = {"templates"} /\ DOMAIN ValidateResult = {}
        /\ DOMAIN query = {"query"} /\ DOMAIN passed = {"done"}
    BY DEF ListOutput, ValidateResult
  <2> HIDE DEF query, passed
  <2> QED BY <2>1, Silent
<1>2. \A r \in ToSet(render_validate) : ~Names(r)
  <2>1. render_validate = <<passed>>
    BY DEF render_validate
  <2> HIDE DEF passed
  <2> QED BY <1>1, <2>1, SetOfOne
<1>3. \A r \in ToSet(<<query>>) : ~Names(r)
  <2>1. ~Names(query)
    BY <1>1
  <2> HIDE DEF query, Names
  <2>2. ToSet(<<query>>) = {query}
    BY SetOfOne
  <2> QED BY <2>1, <2>2
<1>4. \A r \in ToSet(render_list(ListOutput)) : ~Names(r)
  <2> DEFINE heading == [heading |-> <<"Template Name", "Short Name">>]
             rule == [rule |-> TRUE]
             rows == [i \in DOMAIN ALL |-> [row |-> <<ALL[i].name, ALL[i].short_name>>]]
             S == ToSet(rows)
  <2>1. ~Names(heading) /\ ~Names(rule)
    <3>1. DOMAIN heading = {"heading"} /\ DOMAIN rule = {"rule"}
      OBVIOUS
    <3> HIDE DEF heading, rule
    <3> QED BY <3>1, Silent
  <2>2. \A r \in ToSet(rows) : ~Names(r)
    <3>1. \A r \in ToSet(rows) : DOMAIN r = {"row"}
      BY DEF ToSet
    <3> HIDE DEF rows
    <3> QED BY <3>1, Silent
  <2>3. rows \in Seq(S)
    <3>1. DOMAIN rows = 1 .. 4
      BY DEF ALL
    <3> HIDE DEF rows
    <3>2. rows = [i \in 1 .. 4 |-> rows[i]] /\ \A i \in 1 .. 4 : rows[i] \in ToSet(rows)
      BY <3>1 DEF ToSet, rows
    <3> QED BY <3>2
  <2>4. render_list(ListOutput) = <<heading, rule>> \o rows
    BY DEF render_list, ListOutput, MapSeq
  <2> HIDE DEF heading, rule, rows
  <2>5. \A r \in ToSet(<<heading, rule>>) : ~Names(r)
    BY <2>1 DEF ToSet
  <2> DEFINE T == S \cup {heading, rule}
             top == <<heading, rule>>
  <2>6. top \in Seq(T)
    OBVIOUS
  <2>7. rows \in Seq(T)
    BY <2>3, SeqMonotonic
  <2> HIDE DEF T, top, Names
  <2>8. ToSet(top \o rows) = ToSet(top) \cup ToSet(rows)
    BY <2>6, <2>7, SetOfConcat
  <2> QED BY <2>2, <2>4, <2>5, <2>8 DEF top
<1> QED BY <1>1, <1>2, <1>3, <1>4

\* The result names what is done, in JSON as in human form.
LEMMA ResultTells ==
  ASSUME Done, inv \in Invocations
  PROVE  /\ TellsFiles(Told(Result)) = written
         /\ TellsFlag(Told(Result)) = Flags
<1>1. Told(Result) = IF mode = {"json"} THEN {Payload} ELSE ToSet(render_human)
  <2> DEFINE json == Envelope_Ok(Payload)
             human == HumanResult
  <2>1. /\ DOMAIN json = {"status", "result"} /\ json.status = "ok" /\ json.result = Payload
        /\ DOMAIN human = {"lines", "coloured"} /\ human.lines = render_human
    BY DEF Envelope_Ok, HumanResult, Text
  <2> HIDE DEF json, human
  <2>2. Told(json) = {Payload} /\ Told(human) = ToSet(render_human)
    BY <2>1 DEF Told
  <2> QED BY <2>2 DEF Result, json, human
<1>2. \A x : TellsFiles({x}) = FilesOf(x) /\ TellsFlag({x}) = FlagOf(x)
  BY DEF TellsFiles, TellsFlag
<1> DEFINE human == ToSet(render_human)
<1> SUFFICES /\ FilesOf(Payload) = Makes /\ FlagOf(Payload) = Flags
             /\ TellsFiles(human) = Makes /\ TellsFlag(human) = Flags
  BY <1>1, <1>2 DEF Done
<1>3. Cmd # "yank" => Flags = {}
  BY DEF Done, YankOutcome, Flags
<1>4. CASE Cmd = "package"
  <2>1. /\ Payload = PackageOutput /\ render_human = render_package(PackageOutput)
        /\ Makes = {"artifact", "index.json"}
    BY <1>4 DEF Payload, render_human, Makes, PluginTemplates
  <2> QED BY <1>3, <1>4, <2>1, PackageTells
<1>5. CASE Cmd = "yank"
  <2>1. PICK yanked \in BOOLEAN :
          outcome = {[before |-> yanked, after |-> ~inv.undo,
                      wire |-> outcome_wire(yanked = inv.undo, inv.undo)]}
    BY <1>5 DEF Done, YankOutcome
  <2> DEFINE o == [before |-> yanked, after |-> ~inv.undo,
                   wire |-> outcome_wire(yanked = inv.undo, inv.undo)]
  <2>2. inv.undo \in BOOLEAN
    BY InvocationAssumption
  <2>3. o.before = yanked /\ o.after = ~inv.undo
        /\ o.wire = outcome_wire(yanked = inv.undo, inv.undo)
    OBVIOUS
  <2> HIDE DEF o
  <2>4. outcome = {o}
    BY <2>1 DEF o
  <2>5. Flags = {<<yanked # ~inv.undo, ~inv.undo>>}
    BY <2>3, <2>4 DEF Flags
  <2>6. (CHOOSE x \in outcome : TRUE) = o
    BY <2>4
  <2>7. /\ Payload = YankOutput(o.wire) /\ render_human = render_yank(YankOutput(o.wire))
        /\ Makes = {"index.json"}
    BY <1>5, <2>6 DEF Payload, render_human, Makes, PluginTemplates
  <2>8. /\ (o.wire \in {"yanked", "unyanked"}) = (yanked # ~inv.undo)
        /\ (o.wire \in {"yanked", "already_yanked"}) = ~inv.undo
    BY <2>2, <2>3, OutcomeTells
  <2>9. (yanked # ~inv.undo) \in BOOLEAN /\ (~inv.undo) \in BOOLEAN
    BY <2>2
  <2> QED BY <2>5, <2>7, <2>8, <2>9, YankTells
<1>6. CASE Cmd \in PluginTemplates \cup {"index"}
  <2>1. Payload = Summary(Cmd) /\ render_human = render_new(Summary(Cmd))
    BY <1>6 DEF Payload, render_human, PluginTemplates
  <2> QED BY <1>3, <1>6, <2>1, SummaryTells DEF PluginTemplates
<1>7. CASE Cmd \in {"search", "info", "validate", "list"}
  <2>1. Makes = {} /\ Flags = {}
    BY <1>3, <1>7 DEF Makes, PluginTemplates
  <2>2. \/ Payload = ListOutput /\ render_human = render_list(ListOutput)
        \/ Payload = ValidateResult /\ render_human = render_validate
        \/ Payload = [query |-> Cmd] /\ render_human = <<[query |-> Cmd]>>
    BY <1>7 DEF Payload, render_human
  <2>3. /\ FilesOf(Payload) = {} /\ FlagOf(Payload) = {}
        /\ \A r \in human : FilesOf(r) = {} /\ FlagOf(r) = {}
    BY <2>2, OthersTell
  <2> HIDE DEF human
  <2>4. TellsFiles(human) = {} /\ TellsFlag(human) = {}
    BY <2>3 DEF TellsFiles, TellsFlag
  <2> QED BY <2>1, <2>3, <2>4
<1>8. Cmd \in {"search", "info", "validate", "list", "package", "yank"}
              \cup PluginTemplates \cup {"index"}
  BY DEF Done, Commands
<1> QED BY <1>4, <1>5, <1>6, <1>7, <1>8

-----------------------------------------------------------------------------
(* What the caller is told.                                                 *)

\* What is printed is always what happened.
LEMMA Telling == Spec => []TellsAll
<1>1. Init => TellsAll
  <2> SUFFICES ASSUME Init PROVE TellsAll
    OBVIOUS
  <2>1. found \in Seq(ToSet(found)) /\ DOMAIN found = {}
    BY EmptySeq DEF Init
  <2>2. Carried
    BY <2>1 DEF Init, Carried
  <2> QED BY <2>2 DEF Init, TellsAll, Decided, Writing, Printed, Ended
<1>2. IInv /\ IInv' /\ TellsAll /\ [Next]_vars => TellsAll'
  <2> SUFFICES ASSUME IInv, IInv', TellsAll, [Next]_vars PROVE TellsAll'
    OBVIOUS
  <2>1. CASE Next
    <3>1. Decided' /\ Carried' /\ Writing'
      BY <2>1, DecidedStep, CarriedStep, WritingStep DEF TellsAll
    <3>2. Printed' /\ Ended'
      BY <2>1, WorkingPrints, ReportPrints, ClapPrints, FailurePrints DEF Next, Working
    <3> QED BY <3>1, <3>2 DEF TellsAll
  <2>2. CASE UNCHANGED vars
    <3>1. /\ UNCHANGED <<inv, mode, outcome, written>>
          /\ UNCHANGED <<at, error, found, stdout, stderr, broken, exit>>
      BY <2>2 DEF vars
    <3>2. MainMode' = MainMode /\ Result' = Result /\ Done' = Done
      BY <3>1, RunKept
    <3>3. Decided' /\ Carried'
      BY <3>1 DEF TellsAll, Decided, Carried
    <3>4. Writing'
      BY <3>1, <3>2, KeepsOutcome DEF TellsAll, Writing, Cmd
    <3>5. Printed'
      BY <3>1, <3>2 DEF TellsAll, Printed, OutItem, ErrItem
    <3>6. Ended'
      BY <3>1, <3>2 DEF TellsAll, Ended, Helped
    <3> QED BY <3>3, <3>4, <3>5, <3>6 DEF TellsAll
  <2> QED BY <2>1, <2>2
<1> QED BY <1>1, <1>2, Invariance, PTL DEF Spec

\* Colour reaches a stream only as that stream's own terminal, NO_COLOR,
\* a dumb terminal and FORCE_COLOR allow, and JSON never has any, wherever an
\* invocation ends or a write fails (output/color.rs: decide_color).
THEOREM ColourFollowsStreams == Spec => []ColourPerStream
<1>1. ASSUME TellsAll PROVE ColourPerStream
  <2> DEFINE coloured(x) == "coloured" \in DOMAIN x /\ x.coloured
             allowed(tty) == ~inv.env.NO_COLOR /\ ~inv.env.dumb /\ (tty \/ inv.env.FORCE_COLOR)
  <2>1. coloured(Result) => mode # {"json"} /\ allowed(inv.env.stdout_tty)
    <3>1. CASE mode = {"json"}
      BY <3>1 DEF Result, Envelope_Ok
    <3>2. CASE mode # {"json"}
      <4>1. coloured(Result) => stdout_palette("human", inv.env)
        BY <3>2 DEF Result, HumanResult, Text
      <4> QED BY <3>2, <4>1 DEF stdout_palette, decide_color
    <3> QED BY <3>1, <3>2
  <2>2. \A i \in DOMAIN stdout : coloured(stdout[i]) => stdout[i] = Result
    BY <1>1 DEF TellsAll, Printed, OutItem
  <2>3. stderr_error_palette(inv.env) => allowed(inv.env.stderr_tty)
    BY DEF stderr_error_palette, decide_color
  <2>4. \A i \in DOMAIN stderr : coloured(stderr[i]) => stderr_error_palette(inv.env)
    BY <1>1 DEF TellsAll, Printed, ErrItem
  <2> QED BY <2>1, <2>2, <2>3, <2>4 DEF ColourPerStream
<1> QED BY <1>1, Telling, PTL

\* A result that is printed names every file that the command wrote and no
\* other, and says of a yank what became of the flag; a usage error and a
\* refused input leave nothing written (the run functions of commands/*.rs).
THEOREM ResultsAreTrue == Spec => []ReportedIsWritten
<1>1. ASSUME TellsAll, IInv PROVE ReportedIsWritten
  <2>1. inv \in Invocations
    BY <1>1 DEF IInv, Opens
  <2>2. ASSUME NEW i \in DOMAIN stdout, Told(stdout[i]) # {}
        PROVE  stdout[i] = Result /\ Done
    <3>1. OutItem(stdout[i])
      BY <1>1 DEF TellsAll, Printed
    <3>2. "status" \in DOMAIN stdout[i] => stdout[i].status # "error"
      BY <2>2 DEF Told
    <3>3. {"lines", "status"} \cap DOMAIN stdout[i] # {}
      BY <2>2 DEF Told
    <3> QED BY <3>1, <3>2, <3>3 DEF OutItem
  <2>3. ASSUME NEW i \in DOMAIN stdout, Told(stdout[i]) # {}
        PROVE  /\ TellsFiles(Told(stdout[i])) = written
               /\ TellsFlag(Told(stdout[i])) = Flags
    BY <2>1, <2>2, <2>3, ResultTells
  <2>4. exit = {2} \/ found # << >> => written = {}
    BY <1>1 DEF TellsAll, Writing
  <2> QED BY <2>3, <2>4 DEF ReportedIsWritten, TellsFiles, TellsFlag, Flags
<1> QED BY <1>1, Telling, Invariance, PTL

-----------------------------------------------------------------------------
(* The two decisions between JSON and human output.                         *)

\* The least of a set of positions.
LEMMA LeastIndex ==
  ASSUME NEW S, S \subseteq Nat, S # {}
  PROVE  Min(S) \in S /\ \A i \in S : Min(S) <= i
<1>1. PICK m \in S : \A i \in S : <<i, m>> \notin OpToRel(<, Nat)
  BY NatLessThanWellFounded, WFMin
<1>2. \A i \in S : ~(i < m)
  BY <1>1 DEF OpToRel
<1>3. \E x \in S : \A y \in S : x <= y
  BY <1>2
<1> QED BY <1>3 DEF Min

\* In clear arguments the first word on --output is the only one, it is an
\* option with a value, and clap makes the same of it.
LEMMA FirstIsExplicit ==
  ASSUME NEW argv \in Seq(STRING \cup {NotUnicode}), Clear(argv)
  PROVE  \/ FirstOutput(argv) = {} /\ Explicit(argv) = {}
         \/ \E f \in DOMAIN argv :
              /\ FirstOutput(argv) = {f} /\ Explicit(argv) \in {{"json"}, {"human"}}
              /\ \/ /\ argv[f] = "--output" /\ f < Len(argv)
                    /\ Explicit(argv) = {argv[f + 1]}
                 \/ /\ argv[f] # "--output"
                    /\ Explicit(argv) = {InlineOutput[argv[f]]}
<1> DEFINE says(i) == argv[i] = "--output" \/ argv[i] \in DOMAIN InlineOutput
           decisive == {i \in DOMAIN argv : says(i)}
           escapes == {i \in DOMAIN argv : argv[i] = "--"}
<1>1. DOMAIN argv = 1 .. Len(argv) /\ Len(argv) \in Nat
  OBVIOUS
<1>2. DOMAIN InlineOutput = {"--output=json", "--output=human", "--output=yaml"}
  BY DEF InlineOutput
<1>3. EscapeAt(argv) \in Nat /\ (EscapeAt(argv) \in escapes \/ EscapeAt(argv) = Len(argv) + 1)
  <2>1. CASE escapes = {}
    BY <1>1, <2>1 DEF EscapeAt
  <2>2. CASE escapes # {}
    <3>1. Min(escapes) \in escapes
      <4>1. escapes \subseteq Nat
        BY <1>1
      <4> HIDE DEF escapes
      <4> QED BY <2>2, <4>1, LeastIndex
    <3> QED BY <1>1, <2>2, <3>1 DEF EscapeAt
  <2> QED BY <2>1, <2>2
<1>4. decisive = OutputFlags(argv)
  <2>1. ASSUME NEW i \in decisive PROVE i \in 1 .. EscapeAt(argv) - 1
    <3>1. ~(i > EscapeAt(argv))
      BY <2>1 DEF Clear
    <3>2. i # EscapeAt(argv)
      BY <1>1, <1>2, <1>3, <2>1
    <3> QED BY <1>1, <1>3, <2>1, <3>1, <3>2
  <2>2. ASSUME NEW i \in 1 .. EscapeAt(argv) - 1 PROVE i \in DOMAIN argv
    BY <1>1, <1>3, <2>2
  <2> QED BY <2>1, <2>2 DEF OutputFlags, Options
<1>5. CASE decisive = {}
  <2>1. FirstOutput(argv) = {}
    BY <1>5 DEF FirstOutput
  <2>2. Explicit(argv) = {}
    BY <1>4, <1>5 DEF Explicit
  <2> QED BY <2>1, <2>2
<1>6. CASE decisive # {}
  <2>1. PICK f \in DOMAIN argv : decisive = {f}
    BY <1>4, <1>6 DEF Clear
  <2>2. Min(decisive) = f
    <3>1. {f} \subseteq Nat /\ {f} # {}
      BY <1>1
    <3>2. Min({f}) \in {f}
      BY <3>1, LeastIndex
    <3> QED BY <2>1, <3>2
  <2>3. FirstOutput(argv) = {f}
    BY <2>1, <2>2 DEF FirstOutput
  <2>4. Explicit(argv) = OutputValues(argv, f) /\ OutputValues(argv, f) \in {{"json"}, {"human"}}
    BY <1>4, <2>1 DEF Explicit, Clear
  <2>5. CASE argv[f] = "--output"
    <3>1. \E j \in DOMAIN argv : j = f + 1
      BY <2>4, <2>5 DEF OutputValues
    <3>2. OutputValues(argv, f) = {argv[f + 1]}
      BY <2>4, <2>5 DEF OutputValues
    <3>3. f < Len(argv)
      BY <1>1, <3>1
    <3> QED BY <2>3, <2>4, <2>5, <3>2, <3>3
  <2>6. CASE argv[f] # "--output"
    BY <2>3, <2>4, <2>6 DEF OutputValues
  <2> QED BY <2>5, <2>6
<1> QED BY <1>5, <1>6

\* main.rs, which reads the raw arguments again, decides as the command did.
LEMMA ModesAgree ==
  ASSUME inv \in Invocations, Clear(inv.argv), MainMode # "panic"
  PROVE  MainMode = IF AskedForJson THEN "json" ELSE "human"
<1> DEFINE argv == inv.argv
           values == {IF argv[f] = "--output" THEN argv[f + 1] ELSE InlineOutput[argv[f]]
                        : f \in {g \in FirstOutput(argv) : argv[g] # "--output" \/ g < Len(argv)}}
<1>1. MainMode = IF values # {} THEN IF values = {"json"} THEN "json" ELSE "human"
                 ELSE IF DetectsJson(inv.env) THEN "json" ELSE "human"
  BY DEF MainMode, json_mode_active
<1>2. values = Explicit(argv) /\ Explicit(argv) \in {{}, {"json"}, {"human"}}
  <2>1. argv \in Seq(STRING \cup {NotUnicode})
    BY InvocationAssumption
  <2> QED BY <2>1, FirstIsExplicit
<1>3. DetectsJson(inv.env) <=> ~inv.env.stdout_tty \/ {"true", "1"} \cap inv.env.CI # {}
  BY DEF DetectsJson
<1> HIDE DEF values
<1> QED BY <1>1, <1>2, <1>3 DEF AskedForJson

\* An invocation whose arguments are clear, and whose writes succeed, prints
\* one item: in JSON mode one envelope on stdout and nothing on stderr, in
\* human mode a result on stdout or an error on stderr and no envelope.  The
\* command and main.rs agree on the mode (output/json.rs, main.rs:
\* json_mode_active).
THEOREM OneEnvelope == Spec => []OneDocument
<1>1. ASSUME TellsAll, IInv PROVE OneDocument
  <2> SUFFICES ASSUME Exited, broken = {}, exit # {101}, ~Helped, Clear(inv.argv)
               PROVE  IF AskedForJson
                      THEN Len(stdout) = 1 /\ Documents(stdout) = {1} /\ stderr = << >>
                      ELSE /\ Documents(stdout) \cup Documents(stderr) = {}
                           /\ IF exit = {0} THEN Len(stdout) = 1 /\ stderr = << >>
                                            ELSE stdout = << >> /\ Len(stderr) = 1
    BY DEF OneDocument
  <2>1. inv \in Invocations
    BY <1>1 DEF IInv, Opens
  <2>2. MainMode # "panic" => MainMode = IF AskedForJson THEN "json" ELSE "human"
    BY <2>1, ModesAgree
  <2>3. CASE /\ exit = {0} /\ stdout = <<Result>> /\ stderr = << >>
             /\ mode # {}
    <3>1. mode = IF AskedForJson THEN {"json"} ELSE {"human"}
      <4>1. mode = {resolve_output_mode(Explicit(inv.argv), inv.env)}
        BY <1>1, <2>3 DEF TellsAll, Decided
      <4> QED BY <4>1 DEF resolve_output_mode, AskedForJson, DetectsJson
    <3>2. ("status" \in DOMAIN Result) <=> AskedForJson
      BY <3>1 DEF Result, Envelope_Ok, HumanResult, Text
    <3> DEFINE r == Result
    <3> HIDE DEF r
    <3>3. Len(stdout) = 1 /\ DOMAIN stdout = {1} /\ stdout[1] = r
      BY <2>3 DEF r
    <3>4. Documents(stdout) = (IF AskedForJson THEN {1} ELSE {}) /\ Documents(stderr) = {}
      BY <2>3, <3>2, <3>3 DEF Documents, r
    <3> QED BY <2>3, <3>3, <3>4
  <2>4. CASE /\ MainMode = "json" /\ stderr = << >>
             /\ stdout = <<stdout[1]>> /\ stdout[1] = Envelope_Error(stdout[1].error)
    <3>1. "status" \in DOMAIN stdout[1]
      BY <2>4 DEF Envelope_Error
    <3>2. Len(stdout) = 1 /\ DOMAIN stdout = {1}
      BY <2>4
    <3>3. Documents(stdout) = {1}
      BY <3>1, <3>2 DEF Documents
    <3> QED BY <2>2, <2>4, <3>2, <3>3
  <2>5. CASE /\ MainMode = "human" /\ exit # {0} /\ stdout = << >>
             /\ stderr = <<stderr[1]>> /\ "status" \notin DOMAIN stderr[1]
    <3>1. Len(stderr) = 1 /\ DOMAIN stderr = {1} /\ DOMAIN stdout = {}
      BY <2>5
    <3>2. Documents(stdout) = {} /\ Documents(stderr) = {}
      BY <2>5, <3>1 DEF Documents
    <3> QED BY <2>2, <2>5, <3>1, <3>2
  <2> QED BY <1>1, <2>3, <2>4, <2>5 DEF TellsAll, Ended, Exited, At
<1> QED BY <1>1, Telling, Invariance, PTL

-----------------------------------------------------------------------------
(* No two errors look alike in JSON.                                        *)

\* An error is its variant and that variant's fields.
LEMMA FieldsDetermine ==
  ASSUME NEW fields, NEW a, NEW b, HasFieldsOf(a, fields), HasFieldsOf(b, fields),
         a.variant = b.variant, \A f \in fields[a.variant] : a[f] = b[f]
  PROVE  a = b
<1> DEFINE D == {"variant"} \cup fields[a.variant]
<1>1. a = [f \in D |-> a[f]] /\ b = [f \in D |-> b[f]]
  BY DEF HasFieldsOf
<1>2. \A f \in D : a[f] = b[f]
  OBVIOUS
<1> HIDE DEF D
<1>3. [f \in D |-> a[f]] = [f \in D |-> b[f]]
  BY <1>2
<1> QED BY <1>1, <1>3

\* The fields of a variant are printed under keys of their own.
LEMMA Keys ==
  ASSUME NEW v \in DOMAIN SchemaErrorFields
  PROVE  /\ v # "variant_unmapped"
         /\ \A f \in SchemaErrorFields[v] : DetailKey(v, f) # "schema_variant"
         /\ \A f, g \in SchemaErrorFields[v] : DetailKey(v, f) = DetailKey(v, g) => f = g
<1>1. v # "variant_unmapped"
  BY DEF SchemaErrorFields
<1>2. SchemaErrorFields[v] \cap {"schema_variant", "parse_error", "serialize_error"} = {}
  BY DEF SchemaErrorFields
<1> QED BY <1>1, <1>2 DEF DetailKey

\* Each field of an error is among the details, under the field's key.
LEMMA MappedValue ==
  ASSUME NEW err, err.variant \in DOMAIN SchemaErrorFields,
         NEW f \in SchemaErrorFields[err.variant]
  PROVE  MappedDetails(err)[DetailKey(err.variant, f)] = err[f]
<1> DEFINE v == err.variant
           keys == {DetailKey(v, g) : g \in SchemaErrorFields[v]}
           fieldOf(k) == CHOOSE g \in SchemaErrorFields[v] : DetailKey(v, g) = k
           key == DetailKey(v, f)
<1>1. fieldOf(key) = f
  BY Keys
<1>2. key \in keys /\ key # "schema_variant"
  BY Keys
<1>3. MappedDetails(err)
        = [k \in {"schema_variant"} \cup keys |->
             IF k = "schema_variant" THEN variant_name(err) ELSE err[fieldOf(k)]]
  BY DEF MappedDetails
<1> HIDE DEF keys, fieldOf, key
<1>4. MappedDetails(err)[key] = err[fieldOf(key)]
  BY <1>2, <1>3
<1> QED BY <1>1, <1>4 DEF key

\* An error's variant is named when the mapping knows it.
LEMMA NamedVariant ==
  ASSUME NEW err
  PROVE  schema_error_details(err).schema_variant
           = IF err.variant \in MappedVariants THEN err.variant ELSE "variant_unmapped"
<1>1. MappedDetails(err).schema_variant = err.variant
  <2> DEFINE v == err.variant
             keys == {DetailKey(v, g) : g \in SchemaErrorFields[v]}
             fieldOf(k) == CHOOSE g \in SchemaErrorFields[v] : DetailKey(v, g) = k
  <2>1. MappedDetails(err)
          = [k \in {"schema_variant"} \cup keys |->
               IF k = "schema_variant" THEN variant_name(err) ELSE err[fieldOf(k)]]
    BY DEF MappedDetails
  <2> HIDE DEF keys, fieldOf
  <2> QED BY <2>1 DEF variant_name
<1>2. UnmappedDetails(err).schema_variant = "variant_unmapped"
  BY DEF UnmappedDetails
<1> QED BY <1>1, <1>2 DEF schema_error_details

\* The details of two errors of the schema differ when the errors do.
LEMMA DetailsDetermine ==
  ASSUME NEW a, NEW b, HasFieldsOf(a, SchemaErrorFields), HasFieldsOf(b, SchemaErrorFields),
         schema_error_details(a) = schema_error_details(b)
  PROVE  a = b
<1>1. a.variant \in DOMAIN SchemaErrorFields /\ b.variant \in DOMAIN SchemaErrorFields
  BY DEF HasFieldsOf
<1>2. a.variant # "variant_unmapped" /\ b.variant # "variant_unmapped"
  BY <1>1, Keys
<1>3. CASE a.variant \notin MappedVariants /\ b.variant \notin MappedVariants
  <2>1. UnmappedDetails(a) = UnmappedDetails(b)
    BY <1>3 DEF schema_error_details
  <2>2. UnmappedDetails(a).display = UnmappedDetails(b).display
    BY <2>1
  <2>3. Display(a) = Display(b)
    BY <2>2 DEF UnmappedDetails
  <2>4. Display(a).error_text = Display(b).error_text
    BY <2>3
  <2> QED BY <2>4 DEF Display
<1>4. CASE a.variant \in MappedVariants \/ b.variant \in MappedVariants
  <2>1. a.variant = b.variant /\ a.variant \in MappedVariants
    BY <1>2, <1>4, NamedVariant
  <2>2. MappedDetails(a) = MappedDetails(b)
    BY <2>1 DEF schema_error_details
  <2>3. \A f \in SchemaErrorFields[a.variant] : a[f] = b[f]
    BY <1>1, <2>1, <2>2, MappedValue
  <2> QED BY <2>1, <2>3, FieldsDetermine
<1> QED BY <1>3, <1>4

\* The code names the variant.
CodeOfVariant ==
  [SchemaReported |-> "schema_reported", MissingRequiredFile |-> "missing_required_file",
   PythonParse |-> "python_parse", TriggerNotImplemented |-> "trigger_not_implemented",
   AsyncTriggerFn |-> "async_trigger_fn", NoEntryPoint |-> "no_entry_point",
   AmbiguousEntryPoint |-> "ambiguous_entry_point",
   NameVersionConflict |-> "name_version_conflict"]

\* What is printed of an error.
Wire(err) ==
  CASE err.variant = "SchemaReported" ->
         [field |-> {err.reported.path} \ {<< >>},
          details |-> {schema_error_details(err.reported.error)}]
    [] err.variant = "MissingRequiredFile" ->
         [field |-> {err.file}, details |-> {[file |-> err.file]}]
    [] err.variant = "PythonParse" ->
         [field |-> {err.entry_point}, details |-> {[parse_message |-> err.message]}]
    [] err.variant \in {"TriggerNotImplemented", "AsyncTriggerFn"} ->
         [field |-> {err.entry_point}, details |-> {[trigger |-> err.trigger]}]
    [] err.variant = "NoEntryPoint" -> [field |-> {}, details |-> {}]
    [] err.variant = "AmbiguousEntryPoint" ->
         [field |-> {}, details |-> {[files |-> err.files]}]
    [] err.variant = "NameVersionConflict" ->
         [field |-> {<<err.name, err.version>>},
          details |-> {[name |-> err.name, version |-> err.version]}]

\* What a directory error looks like in JSON.
LEMMA OnTheWire ==
  ASSUME NEW err, err.variant \in DOMAIN ValidationErrorFields
  PROVE  /\ json_error_from_validation(err).code = <<"validate", CodeOfVariant[err.variant]>>
         /\ json_error_from_validation(err).field = Wire(err).field
         /\ json_error_from_validation(err).details = Wire(err).details
<1>1. \A code, field, details :
        /\ JsonError(code, field, details).code = code
        /\ JsonError(code, field, details).field = field
        /\ JsonError(code, field, details).details = details
  BY DEF JsonError
<1>2. DOMAIN ValidationErrorFields
        = {"SchemaReported", "MissingRequiredFile", "PythonParse", "TriggerNotImplemented",
           "AsyncTriggerFn", "NoEntryPoint", "AmbiguousEntryPoint", "NameVersionConflict"}
  BY DEF ValidationErrorFields
<1>3. json_error_from_validation(err)
        = JsonError(<<"validate", CodeOfVariant[err.variant]>>, Wire(err).field, Wire(err).details)
  <2> DEFINE Form(code, field, details) ==
               /\ json_error_from_validation(err) = JsonError(<<"validate", code>>, field, details)
               /\ Wire(err) = [field |-> field, details |-> details]
               /\ CodeOfVariant[err.variant] = code
             Goal == json_error_from_validation(err)
                       = JsonError(<<"validate", CodeOfVariant[err.variant]>>,
                                   Wire(err).field, Wire(err).details)
  <2>9. ASSUME NEW code, NEW field, NEW details, Form(code, field, details) PROVE Goal
    <3>1. Wire(err).field = field /\ Wire(err).details = details
      BY <2>9
    <3> QED BY <2>9, <3>1
  <2> SUFFICES Goal
    OBVIOUS
  <2> HIDE DEF Goal
  <2>1. CASE err.variant = "SchemaReported"
    <3> DEFINE field == {err.reported.path} \ {<< >>}
               details == {schema_error_details(err.reported.error)}
    <3>1. json_error_from_validation(err) = JsonError(<<"validate", "schema_reported">>, field, details)
      BY <2>1 DEF json_error_from_validation
    <3>2. Wire(err) = [field |-> field, details |-> details]
      BY <2>1 DEF Wire
    <3>3. CodeOfVariant[err.variant] = "schema_reported"
      BY <2>1 DEF CodeOfVariant
    <3> HIDE DEF field, details
    <3> QED BY <2>9, <3>1, <3>2, <3>3
  <2>2. CASE err.variant = "MissingRequiredFile"
    <3> DEFINE field == {err.file}
               details == {[file |-> err.file]}
    <3>1. json_error_from_validation(err) = JsonError(<<"validate", "missing_required_file">>, field, details)
      BY <2>2 DEF json_error_from_validation
    <3>2. Wire(err) = [field |-> field, details |-> details]
      BY <2>2 DEF Wire
    <3>3. CodeOfVariant[err.variant] = "missing_required_file"
      BY <2>2 DEF CodeOfVariant
    <3> HIDE DEF field, details
    <3> QED BY <2>9, <3>1, <3>2, <3>3
  <2>3. CASE err.variant = "PythonParse"
    <3> DEFINE field == {err.entry_point}
               details == {[parse_message |-> err.message]}
    <3>1. json_error_from_validation(err) = JsonError(<<"validate", "python_parse">>, field, details)
      BY <2>3 DEF json_error_from_validation
    <3>2. Wire(err) = [field |-> field, details |-> details]
      BY <2>3 DEF Wire
    <3>3. CodeOfVariant[err.variant] = "python_parse"
      BY <2>3 DEF CodeOfVariant
    <3> HIDE DEF field, details
    <3> QED BY <2>9, <3>1, <3>2, <3>3
  <2>4. CASE err.variant = "TriggerNotImplemented"
    <3> DEFINE field == {err.entry_point}
               details == {[trigger |-> err.trigger]}
    <3>1. json_error_from_validation(err) = JsonError(<<"validate", "trigger_not_implemented">>, field, details)
      BY <2>4 DEF json_error_from_validation
    <3>2. Wire(err) = [field |-> field, details |-> details]
      BY <2>4 DEF Wire
    <3>3. CodeOfVariant[err.variant] = "trigger_not_implemented"
      BY <2>4 DEF CodeOfVariant
    <3> HIDE DEF field, details
    <3> QED BY <2>9, <3>1, <3>2, <3>3
  <2>5. CASE err.variant = "AsyncTriggerFn"
    <3> DEFINE field == {err.entry_point}
               details == {[trigger |-> err.trigger]}
    <3>1. json_error_from_validation(err) = JsonError(<<"validate", "async_trigger_fn">>, field, details)
      BY <2>5 DEF json_error_from_validation
    <3>2. Wire(err) = [field |-> field, details |-> details]
      BY <2>5 DEF Wire
    <3>3. CodeOfVariant[err.variant] = "async_trigger_fn"
      BY <2>5 DEF CodeOfVariant
    <3> HIDE DEF field, details
    <3> QED BY <2>9, <3>1, <3>2, <3>3
  <2>6. CASE err.variant = "NoEntryPoint"
    <3> DEFINE field == {}
               details == {}
    <3>1. json_error_from_validation(err) = JsonError(<<"validate", "no_entry_point">>, field, details)
      BY <2>6 DEF json_error_from_validation
    <3>2. Wire(err) = [field |-> field, details |-> details]
      BY <2>6 DEF Wire
    <3>3. CodeOfVariant[err.variant] = "no_entry_point"
      BY <2>6 DEF CodeOfVariant
    <3> HIDE DEF field, details
    <3> QED BY <2>9, <3>1, <3>2, <3>3
  <2>7. CASE err.variant = "AmbiguousEntryPoint"
    <3> DEFINE field == {}
               details == {[files |-> err.files]}
    <3>1. json_error_from_validation(err) = JsonError(<<"validate", "ambiguous_entry_point">>, field, details)
      BY <2>7 DEF json_error_from_validation
    <3>2. Wire(err) = [field |-> field, details |-> details]
      BY <2>7 DEF Wire
    <3>3. CodeOfVariant[err.variant] = "ambiguous_entry_point"
      BY <2>7 DEF CodeOfVariant
    <3> HIDE DEF field, details
    <3> QED BY <2>9, <3>1, <3>2, <3>3
  <2>8. CASE err.variant = "NameVersionConflict"
    <3> DEFINE field == {<<err.name, err.version>>}
               details == {[name |-> err.name, version |-> err.version]}
    <3>1. json_error_from_validation(err) = JsonError(<<"validate", "name_version_conflict">>, field, details)
      BY <2>8 DEF json_error_from_validation
    <3>2. Wire(err) = [field |-> field, details |-> details]
      BY <2>8 DEF Wire
    <3>3. CodeOfVariant[err.variant] = "name_version_conflict"
      BY <2>8 DEF CodeOfVariant
    <3> HIDE DEF field, details
    <3> QED BY <2>9, <3>1, <3>2, <3>3
  <2> QED BY <1>2, <2>1, <2>2, <2>3, <2>4, <2>5, <2>6, <2>7, <2>8
<1> QED BY <1>1, <1>3

\* Two kinds of directory error have two codes.
LEMMA CodesApart ==
  ASSUME NEW v \in DOMAIN ValidationErrorFields, NEW w \in DOMAIN ValidationErrorFields,
         CodeOfVariant[v] = CodeOfVariant[w]
  PROVE  v = w
BY DEF ValidationErrorFields, CodeOfVariant

\* Two directory errors look different when they are.
LEMMA WireDetermines ==
  ASSUME NEW a, NEW b, IsValidationError(a), IsValidationError(b),
         json_error_from_validation(a) = json_error_from_validation(b)
  PROVE  a = b
<1> DEFINE v == a.variant
<1>1. /\ HasFieldsOf(a, ValidationErrorFields) /\ HasFieldsOf(b, ValidationErrorFields)
      /\ a.variant \in DOMAIN ValidationErrorFields /\ b.variant \in DOMAIN ValidationErrorFields
  BY DEF IsValidationError, HasFieldsOf
<1>2. a.variant = b.variant /\ Wire(a).field = Wire(b).field /\ Wire(a).details = Wire(b).details
  <2>1. CodeOfVariant[a.variant] = CodeOfVariant[b.variant]
    <3>1. <<"validate", CodeOfVariant[a.variant]>> = <<"validate", CodeOfVariant[b.variant]>>
      BY <1>1, OnTheWire
    <3> QED BY <3>1
  <2>2. a.variant = b.variant
    BY <1>1, <2>1, CodesApart
  <2> QED BY <1>1, <2>2, OnTheWire
<1> SUFFICES \A f \in ValidationErrorFields[v] : a[f] = b[f]
  BY <1>1, <1>2, FieldsDetermine
<1>3. CASE v = "SchemaReported"
  <2>1. /\ {a.reported.path} \ {<< >>} = {b.reported.path} \ {<< >>}
        /\ schema_error_details(a.reported.error) = schema_error_details(b.reported.error)
    BY <1>2, <1>3 DEF Wire
  <2>2. a.reported.path = b.reported.path
    BY <2>1
  <2>3. IsReported(a.reported) /\ IsReported(b.reported)
    BY <1>2, <1>3 DEF IsValidationError
  <2>4. a.reported.error = b.reported.error
    BY <2>1, <2>3, DetailsDetermine DEF IsReported
  <2>5. a.reported = b.reported
    BY <2>2, <2>3, <2>4 DEF IsReported
  <2>6. ValidationErrorFields[v] = {"reported"}
    BY <1>3 DEF ValidationErrorFields
  <2> QED BY <2>5, <2>6
<1>4. CASE v = "MissingRequiredFile"
  <2>1. a.file = b.file
    BY <1>2, <1>4 DEF Wire
  <2>2. ValidationErrorFields[v] = {"file"}
    BY <1>4 DEF ValidationErrorFields
  <2> QED BY <2>1, <2>2
<1>5. CASE v = "PythonParse"
  <2>1. /\ {a.entry_point} = {b.entry_point}
        /\ [parse_message |-> a.message] = [parse_message |-> b.message]
    BY <1>2, <1>5 DEF Wire
  <2>2. a.entry_point = b.entry_point /\ a.message = b.message
    BY <2>1
  <2>3. ValidationErrorFields[v] = {"entry_point", "message"}
    BY <1>5 DEF ValidationErrorFields
  <2> QED BY <2>2, <2>3
<1>6. CASE v \in {"TriggerNotImplemented", "AsyncTriggerFn"}
  <2>1. {a.entry_point} = {b.entry_point} /\ [trigger |-> a.trigger] = [trigger |-> b.trigger]
    BY <1>2, <1>6 DEF Wire
  <2>2. a.entry_point = b.entry_point /\ a.trigger = b.trigger
    BY <2>1
  <2>3. ValidationErrorFields[v] = {"trigger", "entry_point"}
    BY <1>6 DEF ValidationErrorFields
  <2> QED BY <2>2, <2>3
<1>7. CASE v = "NoEntryPoint"
  <2>1. ValidationErrorFields[v] = {}
    BY <1>7 DEF ValidationErrorFields
  <2> QED BY <2>1
<1>8. CASE v = "AmbiguousEntryPoint"
  <2>1. [files |-> a.files] = [files |-> b.files]
    BY <1>2, <1>8 DEF Wire
  <2>2. a.files = b.files
    BY <2>1
  <2>3. ValidationErrorFields[v] = {"files"}
    BY <1>8 DEF ValidationErrorFields
  <2> QED BY <2>2, <2>3
<1>9. CASE v = "NameVersionConflict"
  <2>1. <<a.name, a.version>> = <<b.name, b.version>>
    BY <1>2, <1>9 DEF Wire
  <2>2. a.name = b.name /\ a.version = b.version
    BY <2>1
  <2>3. ValidationErrorFields[v] = {"name", "version"}
    BY <1>9 DEF ValidationErrorFields
  <2> QED BY <2>2, <2>3
<1>10. DOMAIN ValidationErrorFields
         = {"SchemaReported", "MissingRequiredFile", "PythonParse", "TriggerNotImplemented",
            "AsyncTriggerFn", "NoEntryPoint", "AmbiguousEntryPoint", "NameVersionConflict"}
  BY DEF ValidationErrorFields
<1> QED BY <1>1, <1>3, <1>4, <1>5, <1>6, <1>7, <1>8, <1>9, <1>10

\* So each is told by its JSON.
LEMMA EachTells ==
  ASSUME NEW err, IsValidationError(err)
  PROVE  Tells(json_error_from_validation(err), err)
<1>1. err.variant \in DOMAIN ValidationErrorFields
  BY DEF IsValidationError, HasFieldsOf
<1> DEFINE d == json_error_from_validation(err)
<1>2. d.field = Wire(err).field /\ d.details = Wire(err).details
  BY <1>1, OnTheWire
<1> HIDE DEF d
<1>3. CASE err.variant = "SchemaReported"
  <2>1. /\ d.field = {err.reported.path} \ {<< >>}
        /\ d.details = {schema_error_details(err.reported.error)}
    BY <1>2, <1>3 DEF Wire
  <2>2. schema_error_details(err.reported.error).schema_variant
          \in {err.reported.error.variant, "variant_unmapped"}
    BY NamedVariant
  <2> QED BY <1>3, <2>1, <2>2 DEF Tells, d
<1>4. CASE err.variant \in {"TriggerNotImplemented", "AsyncTriggerFn"}
  <2>1. d.details = {[trigger |-> err.trigger]}
    BY <1>2, <1>4 DEF Wire
  <2> QED BY <1>4, <2>1 DEF Tells, d
<1>5. CASE err.variant = "MissingRequiredFile"
  <2>1. d.details = {[file |-> err.file]}
    BY <1>2, <1>5 DEF Wire
  <2> QED BY <1>5, <2>1 DEF Tells, d
<1>6. CASE err.variant \notin {"SchemaReported", "TriggerNotImplemented", "AsyncTriggerFn",
                               "MissingRequiredFile"}
  BY <1>6 DEF Tells
<1> QED BY <1>3, <1>4, <1>5, <1>6 DEF d

\* Every error that a library function found in one pass reaches the caller,
\* in its order, with the field, the file, the trigger or the variant that is
\* at fault, and in JSON no two different errors print the same: whatever
\* reports the libraries make and whichever command meets them
\* (output/error_mapping.rs: json_error_from_validation).
THEOREM DiagnosticsAreComplete == Spec => []NoDiagnosticLost
<1>1. ASSUME TellsAll PROVE NoDiagnosticLost
  <2> SUFFICES ASSUME Exited, broken = {}, exit # {101}, found # << >>
               PROVE  \/ /\ Len(stdout) = 1
                         /\ LET printed == stdout[1].error.diagnostics
                            IN  /\ Len(printed) = Len(found)
                                /\ \A i \in DOMAIN found : Tells(printed[i], found[i])
                                /\ \A i, j \in DOMAIN found :
                                     found[i] # found[j] => printed[i] # printed[j]
                      \/ /\ stdout = << >> /\ Len(stderr) = 1
                         /\ Len(stderr[1].lines) = Len(found) + 1
    BY DEF NoDiagnosticLost
  <2>1. found \in Seq(ToSet(found)) /\ \A i \in DOMAIN found : IsValidationError(found[i])
    BY <1>1 DEF TellsAll, Carried
  <2>2. CASE stdout = <<stdout[1]>> /\ stdout[1].error.diagnostics = Diagnostics(found)
    <3> DEFINE printed == stdout[1].error.diagnostics
    <3>1. printed = [i \in 1 .. Len(found) |-> json_error_from_validation(found[i])]
      BY <2>1, <2>2 DEF Diagnostics, MapSeq
    <3>2. Len(stdout) = 1
      BY <2>2
    <3> HIDE DEF printed
    <3>3. DOMAIN found = 1 .. Len(found) /\ Len(found) \in Nat
      BY <2>1
    <3>4. Len(printed) = Len(found)
      BY <3>1, <3>3
    <3>5. \A i \in DOMAIN found : Tells(printed[i], found[i])
      BY <2>1, <3>1, <3>3, EachTells
    <3>6. \A i, j \in DOMAIN found : found[i] # found[j] => printed[i] # printed[j]
      BY <2>1, <3>1, <3>3, WireDetermines
    <3> QED BY <3>2, <3>4, <3>5, <3>6 DEF printed
  <2>3. CASE /\ stdout = << >> /\ stderr = <<stderr[1]>>
             /\ Len(stderr[1].lines) = Len(found) + 1
    <3>1. Len(stderr) = 1
      BY <2>3
    <3> QED BY <2>3, <3>1
  <2> QED BY <1>1, <2>2, <2>3 DEF TellsAll, Ended, Exited, At
<1> QED BY <1>1, Telling, PTL

=============================================================================
