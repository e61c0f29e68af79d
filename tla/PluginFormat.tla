----------------------------- MODULE PluginFormat -----------------------------
(***************************************************************************)
(* What a valid plugin is (`plugin_format`), and the extractor that feeds  *)
(* it (`validate`): the entry point among the names of top-level files,    *)
(* the top-level definitions of a Python source, and the triggers that     *)
(* they bind.                                                              *)
(*                                                                         *)
(* A source is Unparseable, or the sequence of its top-level statements as *)
(* tree-sitter gives them; a statement has the statements inside it.       *)
(***************************************************************************)
EXTENDS Naturals, SequencesExt

CONSTANTS
  Names,         \* file names and function names
  PythonNames,   \* the file names that end in .py
  Unparseable,   \* a source, or a manifest, with a syntax error
  Absent, None

InitPy == "__init__.py"

-----------------------------------------------------------------------------
(* Statements.                                                              *)

Def(name) ==
  [kind |-> "function_definition", name |-> name, is_async |-> FALSE, body |-> << >>]

AsyncDef(name) == [Def(name) EXCEPT !.is_async = TRUE]

Nesting(def, inner) == [def EXCEPT !.body = <<inner>>]

\* A decorator, a class or an `if` around a definition.
Around(kind, name, def) ==
  [kind |-> kind, name |-> name, is_async |-> FALSE, body |-> <<def>>]

\* An import or an assignment that binds a name to something else.
Binding(kind, name) ==
  [kind |-> kind, name |-> name, is_async |-> FALSE, body |-> << >>]

IsSequence(s) == s \in Seq(ToSet(s))

\* A decorated definition is the decorators, left out here, and one definition.
IsSource(source) ==
  \/ source = Unparseable
  \/ /\ IsSequence(source)
     /\ \A i \in DOMAIN source :
          source[i].kind = "decorated_definition" =>
            IsSequence(source[i].body) /\ Len(source[i].body) = 1

-----------------------------------------------------------------------------
(* The extractor.                                                           *)

TopLevelFunctionDef == [name : Names, is_async : BOOLEAN]

IsFunction(node) == node.kind = "function_definition"

\* The function that a statement is or, as the first one, wraps.
FunctionOf(node) ==
  CASE IsFunction(node) -> {node}
    [] node.kind = "decorated_definition" ->
         {node.body[k] : k \in {j \in DOMAIN node.body :
            IsFunction(node.body[j]) /\ \A i \in 1 .. j - 1 : ~IsFunction(node.body[i])}}
    [] OTHER -> {}

\* One definition or none.
extract_top_level_def(node) ==
  {[name |-> f.name, is_async |-> f.is_async] : f \in FunctionOf(node)}

\* In source order, each at the place of its statement, a name as often as it
\* is defined; Unparseable is the error.
extract_top_level_defs(source) ==
  IF source = Unparseable THEN Unparseable
  ELSE [i \in {k \in DOMAIN source : extract_top_level_def(source[k]) # {}} |->
          CHOOSE def \in extract_top_level_def(source[i]) : TRUE]

-----------------------------------------------------------------------------
(* The contract.                                                            *)

\* The variants of ValidationError.
ValidationError ==
  {"SchemaReported", "MissingRequiredFile", "PythonParse", "TriggerNotImplemented",
   "AsyncTriggerFn", "NoEntryPoint", "AmbiguousEntryPoint", "NameVersionConflict"}

EntryPoint ==
  [kind : {"Single"}, file_name : PythonNames] \cup [kind : {"Multi"}, file_name : {InitPy}]

\* The entry point among the names of the top-level files, or None and why.
\* They are names in one directory: what ends in .py is there once.
classify_entry_point(file_names) ==
  LET py_files == file_names \cap PythonNames
      only(name) == py_files = {name}
  IN  CASE InitPy \in file_names ->
             [entry |-> [kind |-> "Multi", file_name |-> InitPy], error |-> {}]
        [] InitPy \notin file_names /\ py_files = {} ->
             [entry |-> None, error |-> {"NoEntryPoint"}]
        [] InitPy \notin file_names /\ (\E name \in py_files : only(name)) ->
             [entry |-> [kind |-> "Single", file_name |-> CHOOSE name \in py_files : only(name)],
              error |-> {}]
        [] OTHER -> [entry |-> None, error |-> {"AmbiguousEntryPoint"}]

\* Mutant: the first definition of a name decides.
BindingsOfFirst(declared, defs) ==
  LET named(t) == {i \in DOMAIN defs : defs[i].name = t}
  IN  {"TriggerNotImplemented" : t \in {u \in declared : named(u) = {}}}
      \cup
      {"AsyncTriggerFn" :
         t \in {u \in declared : named(u) # {} /\ defs[Min(named(u))].is_async}}

\* The last definition of a name decides whether it is async.
check_trigger_bindings(declared, defs) ==
  LET named(t) == {i \in DOMAIN defs : defs[i].name = t}
  IN  {"TriggerNotImplemented" : t \in {u \in declared : named(u) = {}}}
      \cup
      {"AsyncTriggerFn" :
         t \in {u \in declared : named(u) # {} /\ defs[Max(named(u))].is_async}}

-----------------------------------------------------------------------------
(* TOP_LEVEL_DEF_CONFORMANCE_CASES: sources, and what an extractor must     *)
(* find in them.                                                            *)

Sync(name) == [name |-> name, is_async |-> FALSE]

Async(name) == [name |-> name, is_async |-> TRUE]

TOP_LEVEL_DEF_CONFORMANCE_CASES ==
  {[label |-> "plain_def", source |-> <<Def("foo")>>, expected |-> <<Sync("foo")>>],
   [label |-> "async_def", source |-> <<AsyncDef("foo")>>, expected |-> <<Async("foo")>>],
   [label |-> "decorated_def",
    source |-> <<Around("decorated_definition", "staticmethod", Def("foo"))>>,
    expected |-> <<Sync("foo")>>],
   [label |-> "class_method",
    source |-> <<Around("class_definition", "C", Def("foo"))>>, expected |-> << >>],
   [label |-> "nested_def",
    source |-> <<Nesting(Def("outer"), Def("inner"))>>, expected |-> <<Sync("outer")>>],
   [label |-> "guarded_if",
    source |-> <<Around("if_statement", "True", Def("foo"))>>, expected |-> << >>],
   [label |-> "reexport",
    source |-> <<Binding("import_from_statement", "foo")>>, expected |-> << >>],
   [label |-> "assignment",
    source |-> <<Binding("expression_statement", "foo")>>, expected |-> << >>],
   [label |-> "same_kind_redefinition",
    source |-> <<Def("foo"), Def("foo")>>, expected |-> <<Sync("foo"), Sync("foo")>>],
   [label |-> "sync_then_async",
    source |-> <<Def("foo"), AsyncDef("foo")>>, expected |-> <<Sync("foo"), Async("foo")>>],
   [label |-> "unparseable_source",
    source |-> Unparseable, expected |-> Unparseable],
   [label |-> "empty_source", source |-> << >>, expected |-> << >>]}

ExtractorConforms ==
  \A case \in TOP_LEVEL_DEF_CONFORMANCE_CASES :
    extract_top_level_defs(case.source) = case.expected

-----------------------------------------------------------------------------
(* What Python makes of a source, independently of the extractor: a         *)
(* statement rebinds its own name, an `if` (whose condition holds) those of *)
(* the definitions in it; a decorator returns the function it is given.     *)

BoundBy(node) ==
  CASE IsFunction(node) -> {node}
    [] node.kind = "decorated_definition" -> ToSet(node.body)
    [] node.kind = "if_statement" -> ToSet(node.body)
    [] OTHER -> {[node EXCEPT !.body = << >>]}

\* What a name stands for when the source has run.
Environment(source, name) ==
  LET binds(i) == \E b \in BoundBy(source[i]) : b.name = name
      last == {i \in DOMAIN source : binds(i) /\ \A j \in i + 1 .. Len(source) : ~binds(j)}
      what(b) == CASE ~IsFunction(b) -> "other" [] b.is_async -> "async" [] OTHER -> "sync"
  IN  UNION {{what(b) : b \in {c \in BoundBy(source[i]) : c.name = name}} : i \in last}

\* Nothing but top-level definitions binds these names: what the contract
\* asks of an author, and cannot see when it is not so.
OnlyDefsBind(source, names) ==
  \A i \in DOMAIN source : \A b \in BoundBy(source[i]) :
    b.name \in names =>
      IsFunction(b) /\ source[i].kind \in {"function_definition", "decorated_definition"}

=============================================================================
