--------------------------- MODULE OutputStreams ---------------------------
(***************************************************************************)
(* What an invocation of influxdb3-plugin-cli prints, and where: the two   *)
(* decisions between JSON and human output (one by the command, one by     *)
(* main.rs when there is an error), the decision for colour, the envelope  *)
(* and the human rendering of an error.                                    *)
(*                                                                         *)
(* argv is the arguments after the words of the subcommand, as tokens.     *)
(* An environment records which streams are terminals and the variables    *)
(* that are read.                                                          *)
(***************************************************************************)
EXTENDS ErrorMapping, FiniteSetsExt

CONSTANT NotUnicode    \* an argument that is not valid UTF-8

\* `--output=value` as one argument.
InlineOutput ==
  [argument \in {"--output=json", "--output=human", "--output=yaml"} |->
     CASE argument = "--output=json"  -> "json"
       [] argument = "--output=human" -> "human"
       [] argument = "--output=yaml"  -> "yaml"]

Environments ==
  [stdout_tty : BOOLEAN, stderr_tty : BOOLEAN, CI : SUBSET {"true", "1", "0"},
   NO_COLOR : BOOLEAN, dumb : BOOLEAN, FORCE_COLOR : BOOLEAN]

-----------------------------------------------------------------------------
(* The mode.                                                                *)

\* No flag: a pipe, or CI.
DetectsJson(env) == ~env.stdout_tty \/ env.CI \cap {"true", "1"} # {}

\* The command's decision, on what clap made of the arguments.
resolve_output_mode(explicit, env) ==
  IF explicit = {"json"} \/ (explicit = {} /\ DetectsJson(env)) THEN "json" ELSE "human"

\* The arguments up to and with the first that says something of --output,
\* and its value.
FirstOutput(argv) ==
  LET decisive == {i \in DOMAIN argv : argv[i] = "--output" \/ argv[i] \in DOMAIN InlineOutput}
  IN  IF decisive = {} THEN {} ELSE {Min(decisive)}

\* The arguments that the scan of main.rs reads.
Scanned(argv) ==
  {i \in DOMAIN argv :
     \A f \in FirstOutput(argv) : i <= IF argv[f] = "--output" THEN f + 1 ELSE f}

\* Mutant: `--output=json` is not recognized, only `--output json`.
JsonModeSeparateOnly(argv, env) ==
  LET at == {i \in 1 .. Len(argv) - 1 : argv[i] = "--output"}
  IN  IF at # {} THEN IF argv[Min(at) + 1] = "json" THEN "json" ELSE "human"
      ELSE IF DetectsJson(env) THEN "json" ELSE "human"

\* main.rs reads the raw arguments again: std::env::args panics on one that
\* is not UTF-8.
json_mode_active(argv, env) ==
  LET values == {IF argv[f] = "--output" THEN argv[f + 1] ELSE InlineOutput[argv[f]]
                   : f \in {g \in FirstOutput(argv) : argv[g] # "--output" \/ g < Len(argv)}}
  IN  IF \E i \in Scanned(argv) : argv[i] = NotUnicode THEN "panic"
      ELSE IF values # {} THEN IF values = {"json"} THEN "json" ELSE "human"
      ELSE IF DetectsJson(env) THEN "json" ELSE "human"

-----------------------------------------------------------------------------
(* clap.  Of several things wrong with the arguments it reports one.         *)

\* `new process_writes` and the like are written by the name of the template.
PluginTemplates == {"process_writes", "process_scheduled_call", "process_request"}

Commands == {"search", "info", "validate", "package", "yank", "index", "list"} \cup PluginTemplates

\* No subcommand, and a template that does not exist.
NoCommands == {"none", "unknown_template"}

Writers == {"package", "yank", "index"} \cup PluginTemplates

Dashed == {"--", "--output", "--bogus", "--help"} \cup DOMAIN InlineOutput

EscapeAt(argv) ==
  LET at == {i \in DOMAIN argv : argv[i] = "--"}
  IN  IF at = {} THEN Len(argv) + 1 ELSE Min(at)

Options(argv) == 1 .. EscapeAt(argv) - 1

IsValue(argv, i) ==
  i - 1 \in Options(argv) /\ argv[i - 1] = "--output" /\ argv[i] \notin Dashed

Positionals(argv) ==
  {i \in DOMAIN argv :
     \/ i > EscapeAt(argv)
     \/ i < EscapeAt(argv) /\ argv[i] \notin Dashed /\ ~IsValue(argv, i)}

OutputFlags(argv) ==
  {i \in Options(argv) : argv[i] = "--output" \/ argv[i] \in DOMAIN InlineOutput}

OutputValues(argv, i) ==
  IF argv[i] # "--output" THEN {InlineOutput[argv[i]]}
  ELSE {argv[j] : j \in {k \in DOMAIN argv : k = i + 1 /\ IsValue(argv, k)}}

\* NameAtVersion::from_str: a plugin name, `@` and a version.  "word" stands
\* for an argument of the form that the command asks for.
NameAtVersion(token) == token = "word"

MostPositionals(cmd) == IF cmd = "list" THEN 0 ELSE 1

\* What is wrong with the arguments one by one, and --help.
ArgumentErrors(cmd, argv) ==
  {[kind |-> "UnknownArgument", argument |-> argv[i]]
     : i \in {j \in Options(argv) : argv[j] = "--bogus"}}
  \cup {[kind |-> "DisplayHelp"] : i \in {j \in Options(argv) : argv[j] = "--help"}}
  \cup {[kind |-> "InvalidValue", argument |-> "--output <OUTPUT>", value |-> OutputValues(argv, i)]
          : i \in {j \in OutputFlags(argv) :
                     OutputValues(argv, j) \notin {{"json"}, {"human"}}}}
  \cup {[kind |-> "ArgumentConflict"]
          : i \in {j \in OutputFlags(argv) : Cardinality(OutputFlags(argv)) > 1}}
  \cup {[kind |-> "UnknownArgument", argument |-> argv[i]]
          : i \in {j \in Positionals(argv) :
                     Cardinality(Positionals(argv)) > MostPositionals(cmd)}}
  \cup {[kind |-> "InvalidUtf8"]
          : i \in {j \in Positionals(argv) :
                     argv[j] = NotUnicode /\ cmd \in {"search", "info", "yank"}}}
  \cup {[kind |-> "ValueValidation", argument |-> "<NAME@VERSION>", value |-> argv[i]]
          : i \in {j \in Positionals(argv) :
                     cmd = "yank" /\ argv[j] # NotUnicode /\ ~NameAtVersion(argv[j])}}

\* The arguments that a command cannot do without.
SearchArgs   == {"--index"}
InfoArgs     == {"NAME", "--index"}
ValidateArgs == {}
PackageArgs  == {"--index", "--out"}
YankArgs     == {"NAME@VERSION", "--index", "--out"}

Required(cmd) ==
  CASE cmd = "search"   -> SearchArgs
    [] cmd = "info"     -> InfoArgs
    [] cmd = "validate" -> ValidateArgs
    [] cmd = "package"  -> PackageArgs
    [] cmd = "yank"     -> YankArgs
    [] OTHER            -> {}

\* given: the flags that the command requires are there.
Lacks(cmd, argv, given) ==
  LET flags == {"--index", "--out"}
  IN  \/ Required(cmd) \cap flags # {} /\ ~given
      \/ Required(cmd) \ flags # {} /\ Positionals(argv) = {}

ClapErrors(cmd, argv, given) ==
  CASE cmd = "none" ->
         {[kind |-> IF argv = << >> THEN "DisplayHelpOnMissingArgumentOrSubcommand"
                    ELSE "UnknownArgument"]}
    [] cmd = "unknown_template" -> {[kind |-> "InvalidSubcommand", subcommand |-> "unknown"]}
    [] OTHER ->
         IF ArgumentErrors(cmd, argv) # {} THEN ArgumentErrors(cmd, argv)
         ELSE IF Lacks(cmd, argv, given) THEN {[kind |-> "MissingRequiredArgument"]} ELSE {}

use_stderr(err) == err.kind \notin {"DisplayHelp", "DisplayVersion"}

\* --output as clap hands it to the command.
Explicit(argv) == UNION {OutputValues(argv, i) : i \in OutputFlags(argv)}

-----------------------------------------------------------------------------
(* Colour.                                                                  *)

\* Mutant: FORCE_COLOR is looked at before NO_COLOR.
DecideColorForceFirst(stream, mode, env, is_terminal) ==
  ~(mode = "json" /\ stream = "stdout")
  /\ (env.FORCE_COLOR \/ (~env.NO_COLOR /\ ~env.dumb /\ is_terminal))

decide_color(stream, mode, env, is_terminal) ==
  /\ ~(mode = "json" /\ stream = "stdout")
  /\ ~env.NO_COLOR
  /\ ~env.dumb
  /\ env.FORCE_COLOR \/ is_terminal

\* Palette::for_stream with what each caller passes for its stream.
stdout_palette(mode, env) == decide_color("stdout", mode, env, env.stdout_tty)

stderr_error_palette(env) == decide_color("stderr", "human", env, env.stderr_tty)

-----------------------------------------------------------------------------
(* What is printed.                                                         *)

Envelope_Ok(result) == [status |-> "ok", result |-> result]

Envelope_Error(je) == [status |-> "error", error |-> je]

Text(lines, coloured) == [lines |-> lines, coloured |-> coloured]

\* clap styles its own messages, by rules of its own that this code leaves as
\* they are: their colour is left out.
ClapText(err) == [clap |-> err.kind]

\* A document cut off by a write that failed.
Torn == [torn |-> TRUE]

Line(je) == [code |-> je.code, field |-> je.field]

render_single_issue(je) == <<Line(je)>> \o MapSeq(LAMBDA c : [cause |-> c], je.cause)

\* The code and the field of the error itself are not printed.
render_multi_issue(je) ==
  <<[diagnostics |-> Len(je.diagnostics)]>> \o MapSeq(Line, je.diagnostics)

render_human_error(je, palette) ==
  Text(IF je.diagnostics = << >> THEN render_single_issue(je) ELSE render_multi_issue(je),
       palette)

=============================================================================
