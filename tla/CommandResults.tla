--------------------------- MODULE CommandResults ---------------------------
(***************************************************************************)
(* What a command prints when it succeeds: the payload of its JSON         *)
(* envelope, and the human rendering of the same payload.  A path is the   *)
(* name of its file; a line of human output is a record of what it says.   *)
(* The results of search and info are in IndexReports.                     *)
(***************************************************************************)
EXTENDS OutputStreams

\* The catalogue of `new`, in display order, and what each template makes.
ALL ==
  <<[short_name |-> "process_writes", name |-> "Process Writes Plugin"],
    [short_name |-> "process_scheduled_call", name |-> "Scheduled Call Plugin"],
    [short_name |-> "process_request", name |-> "Process Request Plugin"],
    [short_name |-> "index", name |-> "Index"]>>

SummaryKind(template) == IF template = "index" THEN "index" ELSE "plugin"

-----------------------------------------------------------------------------
(* Payloads.                                                                *)

PackageOutput == [artifact_path |-> "artifact", index_path |-> "index.json", hash |-> "hash"]

YankOutput(outcome) == [outcome |-> outcome, index_path |-> "index.json"]

\* Summary.files_written of run_plugin_with_env and run_index_with_env.
files_written(template) ==
  IF SummaryKind(template) = "index" THEN <<"index.json">>
  ELSE <<"manifest.toml", "<name>.py", "README.md">>

Summary(template) ==
  [kind |-> SummaryKind(template), template |-> template,
   name |-> IF SummaryKind(template) = "index" THEN {} ELSE {"name"},
   files_written |-> files_written(template)]

\* A template's description is no part of the list.
ListOutput == [templates |-> ALL]

ValidateResult == << >>

-----------------------------------------------------------------------------
(* Human renderings.                                                        *)

render_package(p) ==
  <<[done |-> "Packaged"], [file |-> p.artifact_path], [file |-> p.index_path], [hash |-> p.hash]>>

\* `yanked` and `unyanked` are told apart by the flag that is printed.
render_yank(p) ==
  <<[changed |-> p.outcome \in {"yanked", "unyanked"},
     yanked |-> p.outcome \in {"yanked", "already_yanked"}],
    [file |-> p.index_path]>>

render_new(p) ==
  <<[done |-> "Scaffolded", kind |-> p.kind, template |-> p.template]>>
  \o (IF p.name = {} THEN << >> ELSE <<[name |-> CHOOSE n \in p.name : TRUE]>>)
  \o <<[heading |-> "files written"]>>
  \o MapSeq(LAMBDA f : [file |-> f], p.files_written)

render_list(p) ==
  <<[heading |-> <<"Template Name", "Short Name">>], [rule |-> TRUE]>>
  \o MapSeq(LAMBDA t : [row |-> <<t.name, t.short_name>>], p.templates)

render_validate == <<[done |-> "validation passed: 0 diagnostics"]>>

-----------------------------------------------------------------------------
(* What a reader learns from either form.                                   *)

\* The files that a payload or a line names.
FilesOf(r) ==
  {r[k] : k \in DOMAIN r \cap {"artifact_path", "index_path", "file"}}
  \cup IF "files_written" \in DOMAIN r THEN ToSet(r.files_written) ELSE {}

\* What a yank says of the flag: whether it changed, and what it is now.
FlagOf(r) ==
  CASE "outcome" \in DOMAIN r ->
         {<<r.outcome \in {"yanked", "unyanked"}, r.outcome \in {"yanked", "already_yanked"}>>}
    [] "changed" \in DOMAIN r -> {<<r.changed, r.yanked>>}
    [] OTHER -> {}

=============================================================================
