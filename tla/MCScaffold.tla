------------------------------ MODULE MCScaffold ------------------------------
(* Two invocations of `new` under one parent directory, for TLC.             *)
EXTENDS Scaffold

Dashed     == [stem |-> 1, upper |-> FALSE, hyphen |-> TRUE]
Underlined == [Dashed EXCEPT !.hyphen = FALSE]
Other      == [stem |-> 2, upper |-> FALSE, hyphen |-> FALSE]

MCNames == {Dashed, Underlined, Other}

Nothing == [d \in MCNames |-> [f \in Files |-> Absent]]

Having(d, fs) ==
  [dirs |-> {d},
   files |-> [Nothing EXCEPT ![d] = [f \in Files |-> IF f \in fs THEN Foreign ELSE Absent]]]

\* An empty parent; one directory, with a legacy plugin, a README only, the
\* user's own <name>.py, or an index.
MCLayouts ==
  {[dirs |-> {}, files |-> Nothing], Having(Other, {<<"__init__.py">>}),
   Having(Other, {<<"README.md">>}), Having(Other, {Py(Other), <<"manifest.toml">>}),
   Having(Dashed, {<<"index.json">>})}

New(kind, d, n, force) ==
  [kind |-> kind, dir |-> d, name |-> n, force |-> force, bare |-> FALSE]

MCJobs ==
  {New("plugin", Other, Other, force) : force \in BOOLEAN}
  \cup {New("plugin", Other, Dashed, TRUE), New("plugin", Dashed, Dashed, FALSE),
        New("plugin", Underlined, Underlined, FALSE)}
  \cup {New("index", Dashed, Dashed, force) : force \in BOOLEAN}

\* `new <template> foo_bar` beside foo-bar, from the parent directory.
BareJobs == {[New("plugin", Underlined, Underlined, FALSE) EXCEPT !.bare = TRUE]}

=============================================================================
