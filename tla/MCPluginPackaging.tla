-------------------------- MODULE MCPluginPackaging --------------------------
(* One plugin directory of at most eight files, for TLC.                   *)
EXTENDS PluginPackaging

Alpha  == <<"alpha.py">>
Beta   == <<"beta.py">>
Helper == <<"lib", "helper.py">>
Deep   == <<"lib", "deep.py">>   \* its real name is too long for ustar
Latin  == <<"d-latin.txt">>      \* two names that are not UTF-8, and that
Greek  == <<"d-greek.txt">>      \* have one normalized form

MCPythonNames == {InitPy, "alpha.py", "beta.py", "helper.py", "deep.py"}
MCNames == MCPythonNames \cup {"process_writes", "foo", "C", "outer", "inner", "True"}

MCPaths == {Init_py, Alpha, Beta, Helper, Deep, Latin, Greek, Manifest}

MCNormalized == [p \in MCPaths |-> IF p \in {Latin, Greek} THEN <<"d-?.txt">> ELSE p]

MCLongPaths == {Deep}

MCRank ==
  [p \in MCPaths |-> CASE p = Init_py -> 1 [] p = Alpha -> 2 [] p = Beta -> 3
                       [] p \in {Latin, Greek} -> 4
                       [] p = Deep -> 5 [] p = Helper -> 6 [] p = Manifest -> 7]

Exclude(glob, dir_only) == [glob |-> glob, dir_only |-> dir_only, whitelist |-> FALSE]
Keep(glob) == [glob |-> glob, dir_only |-> FALSE, whitelist |-> TRUE]

Lib == Exclude({<<"lib">>}, TRUE)

AllPython == {p \in MCPaths : p \in {Init_py, Alpha, Beta, Helper, Deep}}

\* Nothing; beta.py; lib/ with !lib/helper.py in both orders; *.py with
\* !alpha.py; everything; and a pattern that is not one.
MCExcludes ==
  {<< >>, <<Exclude({Beta}, FALSE)>>, <<Lib, Keep({Helper})>>, <<Keep({Helper}), Lib>>,
   <<Exclude(AllPython, FALSE), Keep({Alpha})>>, <<Exclude(MCPaths, FALSE)>>, <<BadPattern>>}

Writes == Def("process_writes")

\* Sources of the entry point: plain, defined twice, decorated, a method of a
\* class, below an `if`, inside a function, bound again to something else.
Plainly    == <<Writes>>
SyncFirst  == <<Writes, AsyncDef("process_writes")>>
SyncLast   == <<AsyncDef("process_writes"), Writes>>
Decorated  == <<Around("decorated_definition", "d", Writes)>>
InClass    == <<Around("class_definition", "C", Writes)>>
Guarded    == <<Around("if_statement", "True", Writes)>>
Inside     == <<Nesting(Def("outer"), Writes)>>
Rebound    == <<Writes, Binding("expression_statement", "process_writes")>>

Sources ==
  {Plainly, SyncFirst, SyncLast, Decorated, InClass, Guarded, Inside, Rebound, << >>, Unparseable}

Files(contents) == {File(c) : c \in contents}
Linked(c) == [File(c) EXCEPT !.link = TRUE]
Executable(c) == [File(c) EXCEPT !.is_exec = TRUE]

MCManifests == [exclude : MCExcludes, triggers : {{"process_writes"}}]

MCEntries ==
  [p \in MCPaths |->
     CASE p = Manifest -> Files(MCManifests \cup {Unparseable})
                          \cup {Linked([exclude |-> << >>, triggers |-> {"process_writes"}])}
       [] p = Alpha    -> Files(Sources) \cup {Linked(Plainly)}
       [] p = Helper   -> {File(Plainly), Executable(Plainly), File(Unparseable)}
       [] p = Beta     -> {File(Plainly), Linked(Plainly)}
       [] OTHER        -> {File(Plainly)}]

\* A process_writes plugin, or a manifest that does not parse.
MCLayouts ==
  {[p \in MCPaths |->
      CASE p = Manifest -> m [] p = Alpha -> a [] p = Init_py -> i [] p = Beta -> b
        [] p = Helper -> h[1] [] p = Deep -> h[2] [] p \in {Latin, Greek} -> h[3]] :
     m \in MCEntries[Manifest] \cup {Absent}, a \in MCEntries[Alpha] \cup {Absent},
     i \in {File(Plainly), Absent}, b \in MCEntries[Beta] \cup {Absent},
     h \in {<<Absent, Absent, Absent>>, <<Executable(Plainly), Absent, Absent>>,
            <<File(Plainly), File(Plainly), Absent>>, <<Absent, Absent, File(Plainly)>>}}

\* The extractor that is modelled passes the corpus of the repository.
ASSUME ConformanceAssumption == ExtractorConforms

=============================================================================
