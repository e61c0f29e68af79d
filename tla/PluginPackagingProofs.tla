------------------------ MODULE PluginPackagingProofs ------------------------
(***************************************************************************)
(* Theorems about PluginPackaging, for every set of paths, patterns,       *)
(* sources and directories and any number of changes by the editor: what   *)
(* package_plugin puts in its archive, and what it refuses.                *)
(***************************************************************************)
EXTENDS PluginPackaging, WellFoundedInduction, TLAPS

-----------------------------------------------------------------------------
(* The inductive invariant.  `validate` looks at the directory in three     *)
(* steps, the archive is made in as many as there are files; the parts say  *)
(* what each step knew that still holds, for the files not edited since.    *)

Files == Selected(disk, pkg.manifest.exclude)
Top == TopLevel(Files)
Found == classify_entry_point(FileNames(Top))
Source == Reading(disk, <<Found.entry.file_name>>)
SourceErrors == EntryErrors(Source, pkg.manifest.triggers)

Steps == {"manifest", "classify", "entryPoint", "select", "archive", "ended"}
Archiving == At("archive") \/ Packaged
Passed == At("select") \/ Archiving

Shape ==
  /\ disk = [p \in Paths |-> disk[p]]
  /\ pkg = [at |-> pkg.at, manifest |-> pkg.manifest, entry |-> pkg.entry,
            report |-> pkg.report, todo |-> pkg.todo, archive |-> pkg.archive,
            error |-> pkg.error]
  /\ IsSequence(pkg.archive)
  /\ pkg.at # "ended" => pkg.error = "none"
  /\ pkg.at \notin {"archive", "ended"} => pkg.archive = << >> /\ pkg.todo = << >>
  /\ Packaged => pkg.todo = << >>
  /\ At("classify") \/ At("entryPoint") \/ Passed => pkg.manifest # None
  /\ At("manifest") => pkg.manifest = None

ManifestRead ==
  pkg.manifest # None /\ Manifest \notin edited => Reading(disk, Manifest) = pkg.manifest

Missing == {"MissingRequiredFile" : p \in {Manifest} \ Top}

Classified ==
  At("entryPoint") /\ TopLevel(edited) = {} =>
    pkg.entry = Found.entry /\ pkg.report = Missing \cup Found.error

Accepted ==
  Passed /\ TopLevel(edited) = {} =>
    Manifest \in Top /\ Found.error = {} /\ SourceErrors = {}

\* What a refusal rests on; that the entry point could not be read is one.
Refused ==
  pkg.error = "invalid" /\ pkg.manifest # None /\ TopLevel(edited) = {} =>
    /\ pkg.entry = Found.entry
    /\ \/ Manifest \notin Top
       \/ Found.error # {}
       \/ Found.entry # None /\ "NoEntryPoint" \in pkg.report
       \/ Found.entry # None /\ SourceErrors # {}

Pending ==
  \A p \in DOMAIN pkg.todo :
    p \in Paths /\ (p \notin edited => p \in Files /\ pkg.todo[p] = disk[p].is_exec)

\* An entry of the archive stands for the file p.
Stands(e, p) ==
  /\ e.path = Normalized[p] /\ e.data = disk[p].holds
  /\ e.mode = IF disk[p].is_exec THEN "0755" ELSE "0644"

NoneIsLeftOut ==
  Archiving => \A p \in Paths \ edited : p \in Files =>
    p \in DOMAIN pkg.todo \/ \E i \in DOMAIN pkg.archive : Stands(pkg.archive[i], p)

Archived ==
  \A i \in DOMAIN pkg.archive : \E p \in Paths :
    /\ pkg.archive[i].path = Normalized[p]
    /\ pkg.archive[i].data \in {f.holds : f \in Entries[p]}
    /\ pkg.archive[i].mode \in {"0644", "0755"}
    /\ p \notin edited =>
         /\ p \in Files /\ pkg.archive[i].data = disk[p].holds
         /\ pkg.archive[i].mode = IF disk[p].is_exec THEN "0755" ELSE "0644"

Ordered ==
  \A i \in DOMAIN pkg.archive, p \in Paths : pkg.archive[i].path = Normalized[p] =>
    /\ \A q \in DOMAIN pkg.todo : Rank[p] <= Rank[q]
    /\ \A j \in DOMAIN pkg.archive, q \in Paths :
         i < j /\ pkg.archive[j].path = Normalized[q] => Rank[p] <= Rank[q]

Twice(p) == \E q \in Files \ {p} : Normalized[p] = Normalized[q]

Once ==
  \A i \in DOMAIN pkg.archive, p \in Files :
    edited = {} /\ pkg.archive[i].path = Normalized[p] /\ ~Twice(p) =>
      /\ p \notin DOMAIN pkg.todo
      /\ \A j \in DOMAIN pkg.archive : i < j => pkg.archive[j].path # Normalized[p]

IInv ==
  /\ TypeOK /\ Shape /\ ManifestRead /\ Classified /\ Accepted /\ Refused
  /\ Pending /\ NoneIsLeftOut /\ Archived /\ Ordered /\ Once

-----------------------------------------------------------------------------
(* Sequences and the last position of a set.                                *)

\* A set of naturals with a member has a least one,
LEMMA LeastNatural ==
  ASSUME NEW S, S \subseteq Nat, S # {}
  PROVE  \E m \in S : \A i \in S : m <= i
<1>1. PICK m \in S : \A i \in S : <<i, m>> \notin OpToRel(<, Nat)
  BY NatLessThanWellFounded, WFMin
<1>2. \A i \in S : ~(i < m)
  BY <1>1 DEF OpToRel
<1> QED BY <1>2

\* and a set of positions with a member has a last one.
LEMMA LastPosition ==
  ASSUME NEW n \in Nat, NEW S, S \subseteq 1 .. n, S # {}
  PROVE  Max(S) \in S /\ \A i \in S : i <= Max(S)
<1> DEFINE D == {n - i : i \in S}
<1>1. \A i \in S : i \in 1 .. n
  OBVIOUS
<1>2. D \subseteq Nat /\ D # {}
  <2>1. ASSUME NEW k \in D PROVE k \in Nat
    <3>1. PICK i \in S : k = n - i
      OBVIOUS
    <3> QED BY <1>1, <3>1
  <2> QED BY <2>1
<1>3. PICK m \in D : \A k \in D : m <= k
  <2> HIDE DEF D
  <2> QED BY <1>2, LeastNatural
<1>4. PICK i \in S : m = n - i
  OBVIOUS
<1>5. \A j \in S : i >= j
  <2>1. \A j \in S : n - j \in D
    OBVIOUS
  <2> HIDE DEF D
  <2>2. SUFFICES ASSUME NEW j \in S PROVE i >= j
    OBVIOUS
  <2>3. m <= n - j
    BY <1>3, <2>1
  <2> QED BY <1>4, <2>3
<1>6. i >= Max(S) /\ Max(S) \in S /\ \A j \in S : Max(S) >= j
  BY <1>5 DEF Max
<1> QED BY <1>6

\* What a list is: a function on the positions up to its length.
LEMMA SequenceIs ==
  ASSUME NEW s, IsSequence(s)
  PROVE  Len(s) \in Nat /\ DOMAIN s = 1 .. Len(s)
BY DEF IsSequence

\* A list with one more item.
LEMMA AppendIs ==
  ASSUME NEW s, IsSequence(s), NEW e
  PROVE  /\ IsSequence(Append(s, e))
         /\ Len(Append(s, e)) = Len(s) + 1
         /\ DOMAIN Append(s, e) = 1 .. Len(s) + 1
         /\ Append(s, e)[Len(s) + 1] = e
         /\ \A i \in DOMAIN s : Append(s, e)[i] = s[i]
<1> DEFINE S == ToSet(s) \cup {e}
           t == Append(s, e)
<1>1. s \in Seq(S)
  BY DEF IsSequence
<1>2. /\ t \in Seq(S) /\ Len(t) = Len(s) + 1 /\ DOMAIN t = 1 .. Len(t)
      /\ t[Len(s) + 1] = e /\ \A i \in 1 .. Len(s) : t[i] = s[i]
  BY <1>1
<1>3. t \in Seq(ToSet(t))
  <2> HIDE DEF t
  <2> QED BY <1>2 DEF ToSet
<1> QED BY <1>2, <1>3, SequenceIs DEF IsSequence

-----------------------------------------------------------------------------
(* The extractor against Python.                                            *)

\* What a top-level statement defines: itself, or what it decorates.
LEMMA DefinitionOf ==
  ASSUME NEW source, IsSource(source), source # Unparseable, NEW i \in DOMAIN source
  PROVE  /\ IsFunction(source[i]) =>
              FunctionOf(source[i]) = {source[i]} /\ BoundBy(source[i]) = {source[i]}
         /\ ~IsFunction(source[i]) /\ source[i].kind = "decorated_definition" =>
              \E inner : /\ BoundBy(source[i]) = {inner}
                         /\ FunctionOf(source[i]) = IF IsFunction(inner) THEN {inner} ELSE {}
         /\ ~IsFunction(source[i]) /\ source[i].kind # "decorated_definition" =>
              FunctionOf(source[i]) = {}
<1>1. IsFunction(source[i]) =>
        FunctionOf(source[i]) = {source[i]} /\ BoundBy(source[i]) = {source[i]}
  BY DEF FunctionOf, BoundBy, IsFunction
<1>2. ASSUME ~IsFunction(source[i]), source[i].kind = "decorated_definition"
      PROVE  \E inner : /\ BoundBy(source[i]) = {inner}
                        /\ FunctionOf(source[i]) = IF IsFunction(inner) THEN {inner} ELSE {}
  <2> DEFINE body == source[i].body
             inner == body[1]
  <2>1. IsSequence(body) /\ Len(body) = 1
    BY <1>2 DEF IsSource
  <2>2. DOMAIN body = {1}
    BY <2>1, SequenceIs
  <2>3. BoundBy(source[i]) = {inner}
    BY <1>2, <2>2 DEF BoundBy, ToSet
  <2>4. FunctionOf(source[i]) = IF IsFunction(inner) THEN {inner} ELSE {}
    <3> HIDE DEF inner
    <3>1. FunctionOf(source[i])
            = {body[k] : k \in {j \in DOMAIN body :
                 IsFunction(body[j]) /\ \A h \in 1 .. j - 1 : ~IsFunction(body[h])}}
      BY <1>2 DEF FunctionOf
    <3>2. inner = body[1] /\ \A h \in 1 .. 1 - 1 : FALSE
      BY DEF inner
    <3> HIDE DEF body
    <3> QED BY <2>2, <3>1, <3>2
  <2> QED BY <2>3, <2>4
<1>3. ~IsFunction(source[i]) /\ source[i].kind # "decorated_definition" =>
        FunctionOf(source[i]) = {}
  BY DEF FunctionOf, IsFunction
<1> QED BY <1>1, <1>2, <1>3

\* The positions at which the extractor finds a definition of a name are
\* those that bind it, and what it says of them is right.
LEMMA ExtractorSeesBindings ==
  ASSUME NEW source, IsSource(source), source # Unparseable,
         NEW names, NEW t \in names, OnlyDefsBind(source, names),
         NEW i \in DOMAIN source
  PROVE  LET defs == extract_top_level_defs(source)
         IN  /\ i \in DOMAIN defs /\ defs[i].name = t
                  <=> \E b \in BoundBy(source[i]) : b.name = t
             /\ i \in DOMAIN defs /\ defs[i].name = t =>
                  \E b : /\ {c \in BoundBy(source[i]) : c.name = t} = {b}
                         /\ IsFunction(b) /\ defs[i].is_async = b.is_async
<1> DEFINE node == source[i]
           defs == extract_top_level_defs(source)
           def(f) == [name |-> f.name, is_async |-> f.is_async]
<1>1. /\ i \in DOMAIN defs <=> FunctionOf(node) # {}
      /\ \A f : FunctionOf(node) = {f} => defs[i] = def(f)
  <2>1. extract_top_level_def(node) = {def(f) : f \in FunctionOf(node)}
    BY DEF extract_top_level_def
  <2>2. /\ i \in DOMAIN defs <=> extract_top_level_def(node) # {}
        /\ i \in DOMAIN defs => defs[i] \in extract_top_level_def(node)
    BY DEF extract_top_level_defs
  <2> HIDE DEF defs, def, node
  <2> QED BY <2>1, <2>2
<1>2. \A b \in BoundBy(node) : b.name = t =>
         IsFunction(b) /\ node.kind \in {"function_definition", "decorated_definition"}
  BY DEF OnlyDefsBind
<1>3. \A f : def(f).name = f.name /\ def(f).is_async = f.is_async
  OBVIOUS
<1> HIDE DEF defs, def
<1>4. CASE IsFunction(node)
  <2>1. FunctionOf(node) = {node} /\ BoundBy(node) = {node}
    BY <1>4, DefinitionOf
  <2> HIDE DEF node
  <2> QED BY <1>1, <1>3, <1>4, <2>1 DEF node, defs
<1>5. CASE ~IsFunction(node) /\ node.kind = "decorated_definition"
  <2>1. PICK inner : /\ BoundBy(node) = {inner}
                     /\ FunctionOf(node) = IF IsFunction(inner) THEN {inner} ELSE {}
    BY <1>5, DefinitionOf
  <2> HIDE DEF node
  <2>2. CASE IsFunction(inner)
    BY <1>1, <1>3, <2>1, <2>2 DEF node, defs
  <2>3. CASE ~IsFunction(inner)
    BY <1>1, <1>2, <2>1, <2>3 DEF node, defs
  <2> QED BY <2>2, <2>3
<1>6. CASE ~IsFunction(node) /\ node.kind # "decorated_definition"
  BY <1>1, <1>2, <1>6, DefinitionOf DEF IsFunction, defs
<1> QED BY <1>4, <1>5, <1>6

\* The last binding decides, for the extractor as for Python.
LEMMA BindingsOf ==
  ASSUME NEW source, IsSource(source), source # Unparseable,
         NEW names, NEW t \in names, OnlyDefsBind(source, names)
  PROVE  LET defs  == extract_top_level_defs(source)
             named == {i \in DOMAIN defs : defs[i].name = t}
         IN  Environment(source, t) = {"sync"} <=> named # {} /\ ~defs[Max(named)].is_async
<1> DEFINE defs == extract_top_level_defs(source)
           named == {i \in DOMAIN defs : defs[i].name = t}
           binds(i) == \E b \in BoundBy(source[i]) : b.name = t
           last == {i \in DOMAIN source : binds(i) /\ \A j \in i + 1 .. Len(source) : ~binds(j)}
           what(b) == CASE ~IsFunction(b) -> "other" [] b.is_async -> "async" [] OTHER -> "sync"
           bound(i) == {c \in BoundBy(source[i]) : c.name = t}
<1>1. Environment(source, t) = UNION {{what(b) : b \in bound(i)} : i \in last}
  BY DEF Environment
<1>2. DOMAIN source = 1 .. Len(source) /\ Len(source) \in Nat
  BY SequenceIs DEF IsSource
<1>3. DOMAIN defs \subseteq DOMAIN source
  BY DEF extract_top_level_defs
<1>4. \A i \in DOMAIN source : i \in DOMAIN defs /\ defs[i].name = t <=> binds(i)
  BY ExtractorSeesBindings
<1>5. named = {i \in DOMAIN source : binds(i)}
  <2> HIDE DEF defs, binds
  <2> QED BY <1>3, <1>4
<1>6. CASE named = {}
  <2>1. last = {}
    BY <1>5, <1>6
  <2> HIDE DEF last, named
  <2> QED BY <1>1, <1>6, <2>1 DEF named
<1>7. CASE named # {}
  <2> DEFINE m == Max(named)
  <2>1. m \in named /\ \A i \in named : i <= m
    <3>1. named \subseteq 1 .. Len(source)
      BY <1>2, <1>5
    <3> HIDE DEF named
    <3> QED BY <1>2, <1>7, <3>1, LastPosition
  <2>2. m \in DOMAIN source /\ binds(m) /\ m \in DOMAIN defs /\ defs[m].name = t
    BY <1>5, <2>1
  <2> HIDE DEF m
  <2>3. last = {m}
    <3> HIDE DEF binds, defs
    <3>1. ASSUME NEW i \in last PROVE i = m
      <4>1. i \in DOMAIN source /\ binds(i) /\ \A j \in i + 1 .. Len(source) : ~binds(j)
        OBVIOUS
      <4>2. i <= m
        BY <1>5, <2>1, <4>1
      <4> QED BY <1>2, <2>2, <4>1, <4>2
    <3>2. \A j \in m + 1 .. Len(source) : ~binds(j)
      <4> SUFFICES ASSUME NEW j \in m + 1 .. Len(source), binds(j) PROVE FALSE
        OBVIOUS
      <4>1. j \in DOMAIN source /\ j > m
        BY <1>2, <2>2
      <4>2. j <= m
        BY <1>5, <2>1, <4>1
      <4> QED BY <1>2, <2>2, <4>1, <4>2
    <3> QED BY <2>2, <3>1, <3>2
  <2>4. PICK b : bound(m) = {b} /\ IsFunction(b) /\ defs[m].is_async = b.is_async
    BY <2>2, ExtractorSeesBindings
  <2>5. Environment(source, t) = {what(b)}
    <3> HIDE DEF last, what, bound
    <3> QED BY <1>1, <2>3, <2>4
  <2>6. what(b) = "sync" <=> ~b.is_async
    BY <2>4
  <2> HIDE DEF what
  <2> QED BY <1>7, <2>4, <2>5, <2>6 DEF m
<1> HIDE DEF binds
<1> QED BY <1>6, <1>7

\* plugin_format.rs: where nothing but top-level definitions binds the declared
\* triggers, the check reports none exactly when Python finds a synchronous
\* function under the name of each.
THEOREM BindingsAreSound ==
  ASSUME NEW source, IsSource(source), source # Unparseable,
         NEW triggers, OnlyDefsBind(source, triggers)
  PROVE  check_trigger_bindings(triggers, extract_top_level_defs(source)) = {}
           <=> \A t \in triggers : Environment(source, t) = {"sync"}
<1> DEFINE defs == extract_top_level_defs(source)
           named(t) == {i \in DOMAIN defs : defs[i].name = t}
<1>1. \A t \in triggers : Environment(source, t) = {"sync"}
                            <=> named(t) # {} /\ ~defs[Max(named(t))].is_async
  BY BindingsOf
<1> HIDE DEF defs
<1>2. check_trigger_bindings(triggers, defs) = {}
        <=> \A t \in triggers : named(t) # {} /\ ~defs[Max(named(t))].is_async
  BY DEF check_trigger_bindings
<1> HIDE DEF named
<1> QED BY <1>1, <1>2 DEF defs

-----------------------------------------------------------------------------
(* The entry point against what the engine loads.                           *)

\* A path of one name.
LEMMA ShortPath ==
  ASSUME NEW q \in Seq(STRING), Len(q) = 1
  PROVE  q = <<q[1]>>
OBVIOUS

\* The Python files of the top level are those with a path of one name.
LEMMA FileNamesAre ==
  ASSUME NEW S, S \subseteq Paths, NEW name \in PythonNames
  PROVE  name \in FileNames(TopLevel(S)) <=> <<name>> \in S
<1>1. ASSUME <<name>> \in S PROVE name \in FileNames(TopLevel(S))
  <2>1. Len(<<name>>) = 1 /\ <<name>>[1] = name
    OBVIOUS
  <2>2. Normalized[<<name>>] = <<name>> /\ <<name>> \in TopLevel(S)
    BY <1>1, <2>1, PathsAssumption DEF LookedFor, IsPython, TopLevel
  <2> QED BY <2>1, <2>2 DEF FileNames
<1>2. ASSUME name \in FileNames(TopLevel(S)) PROVE <<name>> \in S
  <2>1. PICK p \in TopLevel(S) : Normalized[p][1] = name
    BY <1>2 DEF FileNames
  <2>2. p \in S /\ p \in Paths /\ Len(p) = 1
    BY <2>1 DEF TopLevel
  <2>3. Normalized[p] \in Seq(STRING) /\ Len(Normalized[p]) = 1
    BY <2>2, PathsAssumption
  <2>4. Normalized[p] = p
    BY <2>1, <2>2, <2>3, PathsAssumption DEF LookedFor, IsPython
  <2>5. p = <<name>>
    BY <2>1, <2>3, <2>4, ShortPath
  <2> QED BY <2>2, <2>5
<1> QED BY <1>1, <1>2

\* The four verdicts of classify_entry_point.
LEMMA Classification ==
  ASSUME NEW names
  PROVE  LET found == classify_entry_point(names)
         IN  \/ /\ InitPy \in names
                /\ found = [entry |-> [kind |-> "Multi", file_name |-> InitPy], error |-> {}]
             \/ /\ InitPy \notin names /\ names \cap PythonNames = {}
                /\ found = [entry |-> None, error |-> {"NoEntryPoint"}]
             \/ /\ InitPy \notin names
                /\ \E name : /\ names \cap PythonNames = {name}
                             /\ found = [entry |-> [kind |-> "Single", file_name |-> name],
                                         error |-> {}]
             \/ /\ InitPy \notin names /\ names \cap PythonNames # {}
                /\ \A name : names \cap PythonNames # {name}
                /\ found = [entry |-> None, error |-> {"AmbiguousEntryPoint"}]
<1> DEFINE py_files == names \cap PythonNames
<1>1. CASE InitPy \in names
  BY <1>1 DEF classify_entry_point
<1>2. CASE InitPy \notin names /\ py_files = {}
  BY <1>2 DEF classify_entry_point
<1>3. CASE InitPy \notin names /\ \E name \in py_files : py_files = {name}
  <2>1. PICK name : py_files = {name}
    BY <1>3
  <2>2. (CHOOSE n \in py_files : py_files = {n}) = name
    BY <2>1
  <2>3. classify_entry_point(names) = [entry |-> [kind |-> "Single", file_name |-> name],
                                       error |-> {}]
    <3>1. py_files # {} /\ \E n \in py_files : py_files = {n}
      BY <2>1
    <3> QED BY <1>3, <2>2, <3>1 DEF classify_entry_point
  <2> QED BY <1>3, <2>1, <2>3
<1>4. CASE InitPy \notin names /\ py_files # {} /\ ~\E name \in py_files : py_files = {name}
  <2>1. classify_entry_point(names) = [entry |-> None, error |-> {"AmbiguousEntryPoint"}]
    BY <1>4 DEF classify_entry_point
  <2> QED BY <1>4, <2>1
<1> QED BY <1>1, <1>2, <1>3, <1>4

\* A verdict is an entry point, which is there, or an error.
LEMMA FoundTyped ==
  ASSUME NEW S, S \subseteq Paths
  PROVE  LET found == classify_entry_point(FileNames(TopLevel(S)))
         IN  /\ found.entry \in EntryPoint \cup {None}
             /\ found.error \subseteq {"NoEntryPoint", "AmbiguousEntryPoint"}
             /\ found.error = {} <=> found.entry # None
             /\ found.entry # None => <<found.entry.file_name>> \in S
                                        /\ found.entry.file_name \in PythonNames
<1> DEFINE names == FileNames(TopLevel(S))
           found == classify_entry_point(names)
<1>0. \A e \in EntryPoint : e # None
  BY ContentsAssumption
<1>1. CASE found.entry = None /\ found.error \in {{"NoEntryPoint"}, {"AmbiguousEntryPoint"}}
  BY <1>1
<1>2. CASE \E name, kind : /\ name \in names /\ name \in PythonNames
                           /\ [kind |-> kind, file_name |-> name] \in EntryPoint
                           /\ found = [entry |-> [kind |-> kind, file_name |-> name],
                                       error |-> {}]
  <2>1. PICK name, kind : /\ name \in names /\ name \in PythonNames
                          /\ [kind |-> kind, file_name |-> name] \in EntryPoint
                          /\ found = [entry |-> [kind |-> kind, file_name |-> name],
                                      error |-> {}]
    BY <1>2
  <2>2. <<name>> \in S
    BY <2>1, FileNamesAre
  <2> HIDE DEF found
  <2> QED BY <1>0, <2>1, <2>2 DEF found
<1>3. InitPy \in PythonNames
  BY PathsAssumption
<1> HIDE DEF names
<1>4. \/ found.entry = None /\ found.error \in {{"NoEntryPoint"}, {"AmbiguousEntryPoint"}}
      \/ \E name, kind : /\ name \in names /\ name \in PythonNames
                         /\ [kind |-> kind, file_name |-> name] \in EntryPoint
                         /\ found = [entry |-> [kind |-> kind, file_name |-> name],
                                     error |-> {}]
  <2>1. \A name \in PythonNames : [kind |-> "Single", file_name |-> name] \in EntryPoint
    BY DEF EntryPoint
  <2>2. [kind |-> "Multi", file_name |-> InitPy] \in EntryPoint
    BY DEF EntryPoint
  <2> HIDE DEF found
  <2>3. CASE InitPy \in names
    BY <1>3, <2>2, <2>3, Classification DEF found
  <2>4. CASE InitPy \notin names
    BY <2>1, <2>4, Classification DEF found
  <2> QED BY <2>3, <2>4
<1> QED BY <1>1, <1>2, <1>4 DEF names

\* plugin_format.rs: the entry point is the file that the engine loads, and
\* there is one whenever the engine can tell which file to load.
THEOREM EntryPointIsLoaded ==
  ASSUME NEW S, S \subseteq Paths,
         NEW A, DOMAIN A \subseteq Seq(STRING),
         \A q : Len(q) = 1 /\ q[1] \in PythonNames => (q \in DOMAIN A <=> q \in S)
  PROVE  LET found == classify_entry_point(FileNames(TopLevel(S)))
         IN  /\ found.entry # None => Loads(A) = {<<found.entry.file_name>>}
             /\ found.entry = None => ~\E p : Loads(A) = {p}
<1> DEFINE names == FileNames(TopLevel(S))
           found == classify_entry_point(names)
           py_files == names \cap PythonNames
<1>1. \A name \in PythonNames : name \in names <=> <<name>> \in DOMAIN A
  <2> SUFFICES ASSUME NEW name \in PythonNames
               PROVE  name \in names <=> <<name>> \in DOMAIN A
    OBVIOUS
  <2>1. Len(<<name>>) = 1 /\ <<name>>[1] = name
    OBVIOUS
  <2> QED BY <2>1, FileNamesAre
<1>2. Init_py \in DOMAIN A <=> InitPy \in names
  BY <1>1, PathsAssumption DEF Init_py
<1>3. InitPy \notin names => Loads(A) = {<<name>> : name \in py_files}
  <2> SUFFICES ASSUME InitPy \notin names PROVE Loads(A) = {<<name>> : name \in py_files}
    OBVIOUS
  <2> HIDE DEF names
  <2>1. Loads(A) = {p \in DOMAIN A : Len(p) = 1 /\ p[1] \in PythonNames}
    BY <1>2 DEF Loads
  <2>2. ASSUME NEW p \in DOMAIN A, Len(p) = 1, p[1] \in PythonNames
        PROVE  p = <<p[1]>> /\ p[1] \in py_files
    BY <1>1, <2>2, ShortPath
  <2>3. ASSUME NEW name \in py_files
        PROVE  <<name>> \in DOMAIN A /\ Len(<<name>>) = 1 /\ <<name>>[1] = name
    BY <1>1
  <2> HIDE DEF py_files
  <2> QED BY <2>1, <2>2, <2>3 DEF py_files
<1> HIDE DEF names
<1>4. CASE InitPy \in names
  <2>1. Loads(A) = {Init_py}
    BY <1>2, <1>4 DEF Loads
  <2>2. found.entry = [kind |-> "Multi", file_name |-> InitPy]
    BY <1>4, Classification
  <2>3. found.entry # None
    <3>1. found.entry \in EntryPoint
      BY <2>2 DEF EntryPoint
    <3> QED BY <3>1, ContentsAssumption
  <2> HIDE DEF found
  <2> QED BY <2>1, <2>2, <2>3 DEF Init_py, found, names
<1>5. CASE InitPy \notin names /\ py_files = {}
  <2>1. found.entry = None
    BY <1>5, Classification
  <2>2. Loads(A) = {}
    BY <1>3, <1>5
  <2> HIDE DEF found
  <2> QED BY <2>1, <2>2 DEF found, names
<1>6. CASE InitPy \notin names /\ \E name : py_files = {name}
  <2>1. PICK name : /\ py_files = {name}
                    /\ found.entry = [kind |-> "Single", file_name |-> name]
    BY <1>6, Classification
  <2>2. Loads(A) = {<<name>>}
    BY <1>3, <1>6, <2>1
  <2>3. found.entry # None
    <3>1. found.entry \in EntryPoint
      BY <2>1 DEF EntryPoint
    <3> QED BY <3>1, ContentsAssumption
  <2> HIDE DEF found
  <2> QED BY <2>1, <2>2, <2>3 DEF found, names
<1>7. CASE InitPy \notin names /\ py_files # {} /\ ~\E name : py_files = {name}
  <2>1. found.entry = None
    <3>1. found = [entry |-> None, error |-> {"AmbiguousEntryPoint"}]
      BY <1>7 DEF classify_entry_point
    <3> QED BY <3>1
  <2>2. PICK m, n \in py_files : m # n
    BY <1>7
  <2>3. <<m>> \in Loads(A) /\ <<n>> \in Loads(A) /\ <<m>> # <<n>>
    <3>1. <<m>> # <<n>>
      BY <2>2
    <3> QED BY <1>3, <1>7, <2>2, <3>1
  <2> HIDE DEF found
  <2> QED BY <2>1, <2>3 DEF found, names
<1> QED BY <1>4, <1>5, <1>6, <1>7

-----------------------------------------------------------------------------
(* The steps.                                                               *)

\* Whether a path is selected depends on nothing but that path.
LEMMA SelectedLooksAt ==
  ASSUME NEW d, NEW e, NEW exclude, NEW p \in Paths, d[p] = e[p]
  PROVE  p \in Selected(d, exclude) <=> p \in Selected(e, exclude)
BY DEF Selected

\* The selected files are paths of the directory.
LEMMA FilesArePaths == Files \subseteq Paths
BY DEF Files, Selected

\* What the packaging selects and reads does not change while the directory
\* and its manifest do not.
LEMMA SameView ==
  ASSUME disk' = disk, pkg'.manifest = pkg.manifest
  PROVE  /\ Files' = Files /\ Top' = Top /\ Found' = Found
         /\ Source' = Source /\ SourceErrors' = SourceErrors
BY DEF Files, Top, Found, Source, SourceErrors

\* The invariant holds at first.
LEMMA InitInv == Init => IInv
<1> SUFFICES ASSUME Init PROVE IInv
  OBVIOUS
<1> USE DEF Init
<1>1. /\ pkg.at = "manifest" /\ pkg.manifest = None /\ pkg.entry = None /\ pkg.report = {}
      /\ pkg.todo = << >> /\ pkg.archive = << >> /\ pkg.error = "none"
      /\ DOMAIN pkg.todo = {} /\ DOMAIN pkg.archive = {}
  OBVIOUS
<1>2. TypeOK
  BY <1>1, ContentsAssumption DEF TypeOK
<1>3. IsSequence(pkg.archive)
  BY <1>1 DEF IsSequence, ToSet
<1>4. Shape
  <2>1. disk = [p \in Paths |-> disk[p]]
    BY ContentsAssumption
  <2> QED BY <1>1, <1>3, <2>1 DEF Shape, Packaged, Passed, Archiving, At
<1>5. ManifestRead /\ Classified /\ Accepted /\ Refused
  BY <1>1 DEF ManifestRead, Classified, Accepted, Refused, Passed, Archiving, Packaged, At
<1>6. Pending /\ NoneIsLeftOut /\ Archived /\ Ordered /\ Once
  BY <1>1 DEF Pending, NoneIsLeftOut, Stands, Archived, Ordered, Once, Archiving, Packaged, At
<1> QED BY <1>2, <1>4, <1>5, <1>6 DEF IInv

\* What holds of the archive and of what is left to do does not change when
\* neither they nor the directory do.
LEMMA ArchiveKept ==
  ASSUME IInv, disk' = disk, edited' = edited, pkg'.todo = pkg.todo,
         pkg'.archive = pkg.archive, pkg'.manifest = pkg.manifest
  PROVE  Pending' /\ Archived' /\ Ordered' /\ Once'
<1>1. Files' = Files
  BY SameView
<1> QED BY <1>1 DEF IInv, Pending, Archived, Ordered, Once, Twice

\* A failing step keeps the invariant.
LEMMA FailsStep ==
  ASSUME IInv, ~At("ended"), UNCHANGED <<disk, edited, edits>>,
         NEW error \in {"io", "exclude", "pathTooLong", "archive"}, Fails(error)
  PROVE  IInv'
<1>1. /\ pkg' = [at |-> "ended", manifest |-> pkg.manifest, entry |-> pkg.entry,
                 report |-> pkg.report, todo |-> pkg.todo, archive |-> pkg.archive,
                 error |-> error]
  BY DEF IInv, Shape, Fails
<1>2. /\ pkg'.at = "ended" /\ pkg'.manifest = pkg.manifest /\ pkg'.entry = pkg.entry
      /\ pkg'.report = pkg.report /\ pkg'.todo = pkg.todo /\ pkg'.archive = pkg.archive
      /\ pkg'.error = error
  BY <1>1
<1>3. TypeOK'
  BY <1>2 DEF IInv, TypeOK
<1>4. Shape'
  BY <1>1, <1>2 DEF IInv, Shape, Packaged, Passed, Archiving, At
<1>5. ManifestRead' /\ Classified' /\ Accepted' /\ Refused' /\ NoneIsLeftOut'
  BY <1>2 DEF IInv, ManifestRead, Classified, Accepted, Refused, NoneIsLeftOut, Stands, Reading,
              Passed, Archiving, Packaged, At
<1>6. Pending' /\ Archived' /\ Ordered' /\ Once'
  BY <1>2, ArchiveKept
<1> QED BY <1>3, <1>4, <1>5, <1>6 DEF IInv

\* So does each step: reading the manifest,
LEMMA ReadManifestStep == IInv /\ ReadManifest => IInv'
<1> SUFFICES ASSUME IInv, ReadManifest PROVE IInv'
  OBVIOUS
<1>1. UNCHANGED <<disk, edited, edits>> /\ At("manifest") /\ ~At("ended")
      /\ pkg.manifest = None /\ pkg.error = "none"
      /\ pkg.todo = << >> /\ pkg.archive = << >>
  BY DEF ReadManifest, At, IInv, Shape
<1>2. CASE Fails("io")
  BY <1>1, <1>2, FailsStep
<1>3. ASSUME NEW report \in {{"MissingRequiredFile"}, {"SchemaReported"}}, Refuses(report)
      PROVE  IInv'
  <2>1. pkg' = [at |-> "ended", manifest |-> pkg.manifest, entry |-> pkg.entry,
                report |-> report, todo |-> pkg.todo, archive |-> pkg.archive,
                error |-> "invalid"]
    BY <1>3 DEF IInv, Shape, Refuses
  <2>2. /\ pkg'.at = "ended" /\ pkg'.manifest = pkg.manifest /\ pkg'.entry = pkg.entry
        /\ pkg'.report = report /\ pkg'.todo = pkg.todo /\ pkg'.archive = pkg.archive
        /\ pkg'.error = "invalid"
    BY <2>1
  <2>3. TypeOK'
    BY <1>1, <2>2 DEF IInv, TypeOK, ValidationError
  <2>4. Shape'
    BY <1>1, <2>1, <2>2 DEF IInv, Shape, Packaged, Passed, Archiving, At
  <2>5. ManifestRead' /\ Classified' /\ Accepted' /\ Refused' /\ NoneIsLeftOut'
    BY <1>1, <2>2 DEF ManifestRead, Classified, Accepted, Refused, NoneIsLeftOut, Stands,
                      Passed, Archiving, Packaged, At
  <2>6. Pending' /\ Archived' /\ Ordered' /\ Once'
    BY <1>1, <2>2, ArchiveKept
  <2> QED BY <2>3, <2>4, <2>5, <2>6 DEF IInv
<1>4. ASSUME Reading(disk, Manifest) \in Manifests,
             pkg' = [pkg EXCEPT !.at = "classify", !.manifest = Reading(disk, Manifest)]
      PROVE  IInv'
  <2>1. pkg' = [at |-> "classify", manifest |-> Reading(disk, Manifest), entry |-> pkg.entry,
                report |-> pkg.report, todo |-> pkg.todo, archive |-> pkg.archive,
                error |-> pkg.error]
    BY <1>4 DEF IInv, Shape
  <2>2. /\ pkg'.at = "classify" /\ pkg'.manifest = Reading(disk, Manifest)
        /\ pkg'.entry = pkg.entry /\ pkg'.report = pkg.report /\ pkg'.todo = << >>
        /\ pkg'.archive = << >> /\ pkg'.error = "none"
        /\ DOMAIN pkg'.todo = {} /\ DOMAIN pkg'.archive = {}
    BY <1>1, <2>1
  <2>3. TypeOK'
    BY <1>1, <1>4, <2>2 DEF IInv, TypeOK
  <2>4. pkg'.manifest # None
    BY <1>4, <2>2, ContentsAssumption
  <2>5. Shape'
    BY <1>1, <2>1, <2>2, <2>4 DEF IInv, Shape, Packaged, Passed, Archiving, At
  <2>6. ManifestRead' /\ Classified' /\ Accepted' /\ Refused' /\ NoneIsLeftOut'
    BY <1>1, <2>2 DEF ManifestRead, Classified, Accepted, Refused, NoneIsLeftOut, Stands,
                      Passed, Archiving, Packaged, At, Reading
  <2>7. Pending' /\ Archived' /\ Ordered' /\ Once'
    BY <2>2 DEF Pending, Archived, Ordered, Once
  <2> QED BY <2>3, <2>5, <2>6, <2>7 DEF IInv
<1> QED BY <1>2, <1>3, <1>4 DEF ReadManifest

\* looking for the entry point,
LEMMA SelectAndClassifyStep == IInv /\ SelectAndClassify => IInv'
<1> SUFFICES ASSUME IInv, SelectAndClassify PROVE IInv'
  OBVIOUS
<1>1. UNCHANGED <<disk, edited, edits>> /\ At("classify") /\ ~At("ended")
      /\ pkg.manifest # None /\ pkg.error = "none"
      /\ pkg.todo = << >> /\ pkg.archive = << >>
  BY DEF SelectAndClassify, At, IInv, Shape
<1>2. CASE Fails("io")
  BY <1>1, <1>2, FailsStep
<1>3. CASE Fails("exclude")
  BY <1>1, <1>3, FailsStep
<1>4. ASSUME pkg' = [pkg EXCEPT !.at = "entryPoint", !.entry = Found.entry,
                                !.report = Missing \cup Found.error]
      PROVE  IInv'
  <2>1. pkg' = [at |-> "entryPoint", manifest |-> pkg.manifest, entry |-> Found.entry,
                report |-> Missing \cup Found.error, todo |-> pkg.todo,
                archive |-> pkg.archive, error |-> pkg.error]
    BY <1>4 DEF IInv, Shape
  <2>2. /\ pkg'.at = "entryPoint" /\ pkg'.manifest = pkg.manifest /\ pkg'.entry = Found.entry
        /\ pkg'.report = Missing \cup Found.error /\ pkg'.todo = pkg.todo
        /\ pkg'.archive = pkg.archive /\ pkg'.error = "none"
    BY <1>1, <2>1
  <2>3. TypeOK'
    <3>1. /\ Found.entry \in EntryPoint \cup {None}
          /\ Found.error \subseteq {"NoEntryPoint", "AmbiguousEntryPoint"}
      BY FilesArePaths, FoundTyped DEF Found, Top
    <3>2. Missing \cup Found.error \subseteq ValidationError
      BY <3>1 DEF Missing, ValidationError
    <3> QED BY <1>1, <2>2, <3>1, <3>2 DEF IInv, TypeOK
  <2>4. Shape'
    BY <1>1, <2>1, <2>2 DEF IInv, Shape, Packaged, Passed, Archiving, At
  <2>5. Top' = Top /\ Found' = Found
    BY <1>1, <2>2, SameView
  <2>6. Classified'
    BY <2>2, <2>5 DEF Classified, Missing
  <2>7. ManifestRead' /\ Accepted' /\ Refused' /\ NoneIsLeftOut'
    BY <1>1, <2>2 DEF IInv, ManifestRead, Accepted, Refused, NoneIsLeftOut, Stands, Reading,
                      Passed, Archiving, Packaged, At
  <2>8. Pending' /\ Archived' /\ Ordered' /\ Once'
    BY <1>1, <2>2, ArchiveKept
  <2> QED BY <2>3, <2>4, <2>6, <2>7, <2>8 DEF IInv
<1> QED BY <1>2, <1>3, <1>4 DEF SelectAndClassify, Found, Top, Files, Missing

\* The errors of an entry point are validation errors.
LEMMA EntryErrorsTyped ==
  ASSUME NEW source, NEW triggers
  PROVE  /\ EntryErrors(source, triggers) \subseteq ValidationError
         /\ EntryErrors(Absent, triggers) = {"NoEntryPoint"}
<1>1. EntryErrors(Absent, triggers) = {"NoEntryPoint"}
  <2>1. Absent # Unparseable
    BY ContentsAssumption
  <2> QED BY <2>1 DEF EntryErrors
<1>2. \A defs : check_trigger_bindings(triggers, defs) \subseteq ValidationError
  BY DEF check_trigger_bindings, ValidationError
<1>3. \/ EntryErrors(source, triggers) \in {{"NoEntryPoint"}, {"PythonParse"}}
      \/ \E defs : EntryErrors(source, triggers) = check_trigger_bindings(triggers, defs)
  BY DEF EntryErrors
<1> QED BY <1>1, <1>2, <1>3 DEF ValidationError

\* reading the entry point,
LEMMA ReadEntryPointStep == IInv /\ ReadEntryPoint => IInv'
<1> SUFFICES ASSUME IInv, ReadEntryPoint PROVE IInv'
  OBVIOUS
<1>1. UNCHANGED <<disk, edited, edits>> /\ At("entryPoint")
      /\ pkg.manifest # None /\ pkg.error = "none"
      /\ pkg.todo = << >> /\ pkg.archive = << >>
  BY DEF ReadEntryPoint, At, IInv, Shape
<1>2. PICK source \in IF pkg.entry = None THEN {None}
                      ELSE {Reading(disk, <<pkg.entry.file_name>>), Absent} :
        LET errors == IF pkg.entry = None THEN {}
                      ELSE EntryErrors(source, pkg.manifest.triggers)
            report == pkg.report \cup errors
        IN  IF report # {} THEN Refuses(report) ELSE pkg' = [pkg EXCEPT !.at = "select"]
  BY DEF ReadEntryPoint
<1> DEFINE errors == IF pkg.entry = None THEN {}
                     ELSE EntryErrors(source, pkg.manifest.triggers)
           report == pkg.report \cup errors
<1>3. /\ pkg.entry # None => source \in {Reading(disk, <<pkg.entry.file_name>>), Absent}
      /\ \/ report # {} /\ Refuses(report)
         \/ report = {} /\ pkg' = [pkg EXCEPT !.at = "select"]
  BY <1>2
<1>4. TopLevel(edited) = {} =>
        pkg.entry = Found.entry /\ pkg.report = Missing \cup Found.error
  BY <1>1 DEF IInv, Classified
<1>5. pkg.entry # None =>
        \/ errors = EntryErrors(Reading(disk, <<pkg.entry.file_name>>), pkg.manifest.triggers)
        \/ errors = {"NoEntryPoint"}
  BY <1>3, EntryErrorsTyped
<1>6. pkg.entry = None => errors = {}
  OBVIOUS
<1>7. errors \subseteq ValidationError
  BY EntryErrorsTyped
<1>8. report = pkg.report \cup errors
  OBVIOUS
<1>9. Missing = {} <=> Manifest \in Top
  BY DEF Missing
<1> HIDE DEF errors, report
<1>10. CASE report # {} /\ Refuses(report)
  <2>1. pkg' = [at |-> "ended", manifest |-> pkg.manifest, entry |-> pkg.entry,
                report |-> report, todo |-> pkg.todo, archive |-> pkg.archive,
                error |-> "invalid"]
    BY <1>10 DEF IInv, Shape, Refuses
  <2>2. /\ pkg'.at = "ended" /\ pkg'.manifest = pkg.manifest /\ pkg'.entry = pkg.entry
        /\ pkg'.report = report /\ pkg'.todo = pkg.todo /\ pkg'.archive = pkg.archive
        /\ pkg'.error = "invalid"
    BY <2>1
  <2>3. TypeOK'
    BY <1>1, <1>7, <1>8, <2>2 DEF IInv, TypeOK
  <2>4. Shape'
    BY <1>1, <2>1, <2>2 DEF IInv, Shape, Packaged, Passed, Archiving, At
  <2>5. Refused'
    <3>1. Top' = Top /\ Found' = Found /\ SourceErrors' = SourceErrors
      BY <1>1, <2>2, SameView
    <3>2. ASSUME TopLevel(edited) = {}
          PROVE  /\ pkg.entry = Found.entry
                 /\ \/ Manifest \notin Top
                    \/ Found.error # {}
                    \/ Found.entry # None /\ "NoEntryPoint" \in report
                    \/ Found.entry # None /\ SourceErrors # {}
      <4>1. CASE pkg.report # {}
        BY <1>4, <1>9, <3>2, <4>1
      <4>2. CASE pkg.report = {}
        BY <1>4, <1>5, <1>6, <1>8, <1>10, <3>2, <4>2 DEF SourceErrors, Source
      <4> QED BY <4>1, <4>2, <1>4, <3>2
    <3> QED BY <1>1, <2>2, <3>1, <3>2 DEF Refused
  <2>6. ManifestRead' /\ Classified' /\ Accepted' /\ NoneIsLeftOut'
    BY <1>1, <2>2 DEF IInv, ManifestRead, Classified, Accepted, NoneIsLeftOut, Stands, Reading,
                      Passed, Archiving, Packaged, At
  <2>7. Pending' /\ Archived' /\ Ordered' /\ Once'
    BY <1>1, <2>2, ArchiveKept
  <2> QED BY <2>3, <2>4, <2>5, <2>6, <2>7 DEF IInv
<1>11. CASE report = {} /\ pkg' = [pkg EXCEPT !.at = "select"]
  <2>1. pkg' = [at |-> "select", manifest |-> pkg.manifest, entry |-> pkg.entry,
                report |-> pkg.report, todo |-> pkg.todo, archive |-> pkg.archive,
                error |-> pkg.error]
    BY <1>11 DEF IInv, Shape
  <2>2. /\ pkg'.at = "select" /\ pkg'.manifest = pkg.manifest /\ pkg'.entry = pkg.entry
        /\ pkg'.report = pkg.report /\ pkg'.todo = pkg.todo /\ pkg'.archive = pkg.archive
        /\ pkg'.error = "none"
    BY <1>1, <2>1
  <2>3. TypeOK'
    BY <1>1, <2>2 DEF IInv, TypeOK
  <2>4. Shape'
    BY <1>1, <2>1, <2>2 DEF IInv, Shape, Packaged, Passed, Archiving, At
  <2>5. Accepted'
    <3>1. Top' = Top /\ Found' = Found /\ SourceErrors' = SourceErrors
      BY <1>1, <2>2, SameView
    <3>2. ASSUME TopLevel(edited) = {}
          PROVE  Manifest \in Top /\ Found.error = {} /\ SourceErrors = {}
      <4>1. Missing = {} /\ Found.error = {} /\ errors = {} /\ pkg.entry = Found.entry
        BY <1>4, <1>8, <1>11, <3>2
      <4>2. pkg.entry # None
        BY <4>1, FilesArePaths, FoundTyped DEF Found, Top
      <4> QED BY <1>5, <1>9, <4>1, <4>2 DEF SourceErrors, Source
    <3> QED BY <1>1, <3>1, <3>2 DEF Accepted
  <2>6. ManifestRead' /\ Classified' /\ Refused' /\ NoneIsLeftOut'
    BY <1>1, <2>2 DEF IInv, ManifestRead, Classified, Refused, NoneIsLeftOut, Stands, Reading,
                      Passed, Archiving, Packaged, At
  <2>7. Pending' /\ Archived' /\ Ordered' /\ Once'
    BY <1>1, <2>2, ArchiveKept
  <2> QED BY <2>3, <2>4, <2>5, <2>6, <2>7 DEF IInv
<1> QED BY <1>3, <1>10, <1>11

\* selecting the sources,
LEMMA SelectSourcesStep == IInv /\ SelectSources => IInv'
<1> SUFFICES ASSUME IInv, SelectSources PROVE IInv'
  OBVIOUS
<1>1. UNCHANGED <<disk, edited, edits>> /\ At("select") /\ ~At("ended")
      /\ pkg.manifest # None /\ pkg.error = "none"
      /\ pkg.todo = << >> /\ pkg.archive = << >>
  BY DEF SelectSources, At, IInv, Shape, Passed
<1>2. CASE Fails("io")
  BY <1>1, <1>2, FailsStep
<1>3. CASE Fails("pathTooLong")
  BY <1>1, <1>3, FailsStep
<1>4. ASSUME pkg' = [pkg EXCEPT !.at = "archive", !.todo = [p \in Files |-> disk[p].is_exec]]
      PROVE  IInv'
  <2>1. pkg' = [at |-> "archive", manifest |-> pkg.manifest, entry |-> pkg.entry,
                report |-> pkg.report, todo |-> [p \in Files |-> disk[p].is_exec],
                archive |-> pkg.archive, error |-> pkg.error]
    BY <1>4 DEF IInv, Shape
  <2>2. /\ pkg'.at = "archive" /\ pkg'.manifest = pkg.manifest /\ pkg'.entry = pkg.entry
        /\ pkg'.report = pkg.report /\ pkg'.archive = << >> /\ pkg'.error = "none"
        /\ DOMAIN pkg'.todo = Files /\ \A p \in Files : pkg'.todo[p] = disk[p].is_exec
        /\ DOMAIN pkg'.archive = {}
    BY <1>1, <2>1
  <2>3. TypeOK'
    BY <1>1, <2>2, FilesArePaths DEF IInv, TypeOK
  <2>4. Shape'
    BY <1>1, <2>1, <2>2 DEF IInv, Shape, Packaged, Passed, Archiving, At
  <2>5. Top' = Top /\ Found' = Found /\ SourceErrors' = SourceErrors /\ Files' = Files
    BY <1>1, <2>2, SameView
  <2>6. Accepted'
    BY <1>1, <2>2, <2>5 DEF IInv, Accepted, Passed, At
  <2>7. ManifestRead' /\ Classified' /\ Refused'
    BY <1>1, <2>2 DEF IInv, ManifestRead, Classified, Refused, Reading, At
  <2>8. Pending' /\ NoneIsLeftOut'
    BY <1>1, <2>2, <2>5, FilesArePaths DEF Pending, NoneIsLeftOut, Stands
  <2>9. Archived' /\ Ordered' /\ Once'
    BY <2>2 DEF Archived, Ordered, Once
  <2> QED BY <2>3, <2>4, <2>6, <2>7, <2>8, <2>9 DEF IInv
<1> QED BY <1>2, <1>3, <1>4 DEF SelectSources, Files

\* ending,
LEMMA FinishStep == IInv /\ Finish => IInv'
<1> SUFFICES ASSUME IInv, Finish PROVE IInv'
  OBVIOUS
<1>1. UNCHANGED <<disk, edited, edits>> /\ At("archive")
      /\ pkg.manifest # None /\ pkg.error = "none" /\ pkg.todo = << >>
  BY DEF Finish, At, IInv, Shape, Passed, Archiving
<1>2. pkg' = [at |-> "ended", manifest |-> pkg.manifest, entry |-> pkg.entry,
              report |-> pkg.report, todo |-> pkg.todo, archive |-> pkg.archive,
              error |-> pkg.error]
  BY DEF IInv, Shape, Finish
<1>3. /\ pkg'.at = "ended" /\ pkg'.manifest = pkg.manifest /\ pkg'.entry = pkg.entry
      /\ pkg'.report = pkg.report /\ pkg'.todo = pkg.todo /\ pkg'.archive = pkg.archive
      /\ pkg'.error = "none"
  BY <1>1, <1>2
<1>4. TypeOK'
  BY <1>1, <1>3 DEF IInv, TypeOK
<1>5. Shape'
  BY <1>1, <1>2, <1>3 DEF IInv, Shape, Packaged, Passed, Archiving, At
<1>6. Top' = Top /\ Found' = Found /\ SourceErrors' = SourceErrors /\ Files' = Files
  BY <1>1, <1>3, SameView
<1>7. Accepted' /\ NoneIsLeftOut'
  BY <1>1, <1>3, <1>6 DEF IInv, Accepted, NoneIsLeftOut, Stands, Passed, Archiving, Packaged, At
<1>8. ManifestRead' /\ Classified' /\ Refused'
  BY <1>1, <1>3 DEF IInv, ManifestRead, Classified, Refused, Reading, At
<1>9. Pending' /\ Archived' /\ Ordered' /\ Once'
  BY <1>1, <1>3, ArchiveKept
<1> QED BY <1>4, <1>5, <1>7, <1>8, <1>9 DEF IInv

\* putting a file into the archive,
LEMMA AppendFileStep == IInv /\ AppendFile => IInv'
<1> SUFFICES ASSUME IInv, AppendFile PROVE IInv'
  OBVIOUS
<1>1. UNCHANGED <<disk, edited, edits>> /\ At("archive") /\ ~At("ended")
      /\ pkg.manifest # None /\ pkg.error = "none"
  BY DEF AppendFile, At, IInv, Shape, Passed, Archiving
<1>2. CASE Fails("io")
  BY <1>1, <1>2, FailsStep
<1>3. CASE Fails("archive")
  BY <1>1, <1>3, FailsStep
<1>4. ASSUME NEW p \in First(DOMAIN pkg.todo), Reading(disk, p) # Absent,
             pkg' = [pkg EXCEPT !.todo = Restrict(@, DOMAIN @ \ {p}),
                                !.archive = Append(@, TarEntry(p, pkg.todo[p], Reading(disk, p)))]
      PROVE  IInv'
  <2> DEFINE new == TarEntry(p, pkg.todo[p], Reading(disk, p))
             n == Len(pkg.archive)
  <2>1. pkg' = [at |-> pkg.at, manifest |-> pkg.manifest, entry |-> pkg.entry,
                report |-> pkg.report, todo |-> Restrict(pkg.todo, DOMAIN pkg.todo \ {p}),
                archive |-> Append(pkg.archive, new), error |-> pkg.error]
    BY <1>4 DEF IInv, Shape
  <2>2. /\ pkg'.at = "archive" /\ pkg'.manifest = pkg.manifest /\ pkg'.entry = pkg.entry
        /\ pkg'.report = pkg.report /\ pkg'.error = "none"
        /\ DOMAIN pkg'.todo = DOMAIN pkg.todo \ {p}
        /\ \A q \in DOMAIN pkg'.todo : pkg'.todo[q] = pkg.todo[q]
        /\ pkg'.archive = Append(pkg.archive, new)
    BY <1>1, <2>1 DEF Restrict, At
  <2>3. /\ p \in DOMAIN pkg.todo /\ p \in Paths
        /\ \A q \in DOMAIN pkg.todo : Rank[p] <= Rank[q]
        /\ p \notin edited => p \in Files /\ pkg.todo[p] = disk[p].is_exec
    BY <1>4 DEF First, IInv, Pending
  <2>4. /\ n \in Nat /\ DOMAIN pkg.archive = 1 .. n
        /\ IsSequence(pkg'.archive) /\ Len(pkg'.archive) = n + 1
        /\ DOMAIN pkg'.archive = 1 .. n + 1 /\ pkg'.archive[n + 1] = new
        /\ \A i \in 1 .. n : pkg'.archive[i] = pkg.archive[i]
    BY <2>2, AppendIs, SequenceIs DEF IInv, Shape
  <2>5. /\ new.path = Normalized[p] /\ new.data = disk[p].holds
        /\ new.data \in {f.holds : f \in Entries[p]}
        /\ new.mode = IF pkg.todo[p] THEN "0755" ELSE "0644"
        /\ new.mode \in {"0644", "0755"}
    <3>1. disk[p] \in Entries[p] /\ Reading(disk, p) = disk[p].holds
      BY <1>4, <2>3 DEF IInv, TypeOK, Reading
    <3> QED BY <3>1 DEF TarEntry
  <2> HIDE DEF new, n
  <2>6. Top' = Top /\ Found' = Found /\ SourceErrors' = SourceErrors /\ Files' = Files
    BY <1>1, <2>2, SameView
  <2>7. Archived'
    <3> SUFFICES ASSUME NEW i \in 1 .. n + 1
                 PROVE  \E q \in Paths :
                          /\ pkg'.archive[i].path = Normalized[q]
                          /\ pkg'.archive[i].data \in {f.holds : f \in Entries[q]}
                          /\ pkg'.archive[i].mode \in {"0644", "0755"}
                          /\ q \notin edited =>
                               /\ q \in Files /\ pkg'.archive[i].data = disk[q].holds
                               /\ pkg'.archive[i].mode
                                    = IF disk[q].is_exec THEN "0755" ELSE "0644"
      BY <1>1, <2>4, <2>6 DEF Archived
    <3>1. CASE i \in 1 .. n
      BY <2>4, <3>1 DEF IInv, Archived
    <3>2. CASE i = n + 1
      BY <2>3, <2>4, <2>5, <3>2
    <3> QED BY <2>4, <3>1, <3>2
  <2>8. TypeOK'
    <3>1. \A i \in DOMAIN pkg'.archive : \E q \in Paths :
             /\ pkg'.archive[i].path = Normalized[q]
             /\ pkg'.archive[i].data \in {f.holds : f \in Entries[q]}
             /\ pkg'.archive[i].mode \in {"0644", "0755"}
      BY <2>7 DEF Archived
    <3> QED BY <1>1, <2>2, <3>1 DEF IInv, TypeOK, At
  <2>9. Shape'
    <3>1. pkg' = [at |-> pkg'.at, manifest |-> pkg'.manifest, entry |-> pkg'.entry,
                  report |-> pkg'.report, todo |-> pkg'.todo, archive |-> pkg'.archive,
                  error |-> pkg'.error]
      BY <2>1
    <3> QED BY <1>1, <2>2, <2>4, <3>1 DEF IInv, Shape, Packaged, Passed, Archiving, At
  <2>10. Accepted' /\ ManifestRead' /\ Classified' /\ Refused'
    <3>1. Accepted'
      BY <1>1, <2>2, <2>6 DEF IInv, Accepted, Passed, Archiving, At
    <3> QED BY <1>1, <2>2, <3>1 DEF IInv, ManifestRead, Classified, Refused, Reading, At
  <2>11. Pending'
    BY <1>1, <2>2, <2>6 DEF IInv, Pending
  <2>12. NoneIsLeftOut'
    <3> SUFFICES ASSUME NEW q \in Paths \ edited, q \in Files
                 PROVE  \/ q \in DOMAIN pkg.todo \ {p}
                        \/ \E i \in 1 .. n + 1 : Stands(pkg'.archive[i], q)
      BY <1>1, <2>2, <2>4, <2>6 DEF NoneIsLeftOut, Stands
    <3>1. CASE q = p
      <4>1. pkg.todo[p] = disk[p].is_exec
        BY <2>3, <3>1
      <4>2. Stands(new, q)
        BY <2>5, <3>1, <4>1 DEF Stands
      <4>3. n + 1 \in 1 .. n + 1 /\ pkg'.archive[n + 1] = new
        BY <2>4
      <4>4. Stands(pkg'.archive[n + 1], q)
        BY <4>2, <4>3
      <4> QED BY <4>3, <4>4
    <3>2. CASE q # p /\ q \in DOMAIN pkg.todo
      BY <3>2
    <3>3. CASE \E i \in 1 .. n : Stands(pkg.archive[i], q)
      BY <2>4, <3>3
    <3> QED BY <1>1, <2>4, <3>1, <3>2, <3>3 DEF IInv, NoneIsLeftOut, Archiving
  <2>13. Ordered'
    <3> SUFFICES ASSUME NEW i \in 1 .. n + 1, NEW q \in Paths,
                        pkg'.archive[i].path = Normalized[q]
                 PROVE  /\ \A r \in DOMAIN pkg.todo \ {p} : Rank[q] <= Rank[r]
                        /\ \A j \in 1 .. n + 1, r \in Paths :
                             i < j /\ pkg'.archive[j].path = Normalized[r] =>
                               Rank[q] <= Rank[r]
      BY <2>2, <2>4 DEF Ordered
    <3>1. \A r, t \in Paths : Normalized[r] = Normalized[t] => Rank[r] = Rank[t]
      BY PathsAssumption
    <3>2. CASE i \in 1 .. n
      <4>1. /\ \A r \in DOMAIN pkg.todo : Rank[q] <= Rank[r]
            /\ \A j \in 1 .. n, r \in Paths :
                 i < j /\ pkg.archive[j].path = Normalized[r] => Rank[q] <= Rank[r]
        BY <2>4, <3>2 DEF IInv, Ordered
      <4>2. ASSUME NEW r \in Paths, pkg'.archive[n + 1].path = Normalized[r]
            PROVE  Rank[q] <= Rank[r]
        <5>1. Rank[p] = Rank[r]
          BY <2>3, <2>4, <2>5, <3>1, <4>2
        <5> QED BY <2>3, <4>1, <5>1
      <4>3. ASSUME NEW j \in 1 .. n + 1, NEW r \in Paths,
                   i < j, pkg'.archive[j].path = Normalized[r]
            PROVE  Rank[q] <= Rank[r]
        <5>1. CASE j \in 1 .. n
          BY <2>4, <4>1, <4>3, <5>1
        <5>2. CASE j = n + 1
          BY <4>2, <4>3, <5>2
        <5> QED BY <2>4, <5>1, <5>2
      <4> QED BY <4>1, <4>3
    <3>3. CASE i = n + 1
      <4>1. Rank[q] = Rank[p]
        BY <2>3, <2>4, <2>5, <3>1, <3>3
      <4> QED BY <2>3, <2>4, <3>3, <4>1
    <3> QED BY <2>4, <3>2, <3>3
  <2>14. Once'
    <3> SUFFICES ASSUME edited = {}, NEW i \in 1 .. n + 1, NEW q \in Files,
                        pkg'.archive[i].path = Normalized[q], ~Twice(q)
                 PROVE  /\ q \notin DOMAIN pkg.todo \ {p}
                        /\ \A j \in 1 .. n + 1 : i < j => pkg'.archive[j].path # Normalized[q]
      BY <1>1, <2>2, <2>4, <2>6 DEF Once, Twice
    <3>1. p \in Files
      BY <2>3
    <3>2. CASE i \in 1 .. n
      <4>1. /\ q \notin DOMAIN pkg.todo
            /\ \A j \in 1 .. n : i < j => pkg.archive[j].path # Normalized[q]
        BY <2>4, <3>2 DEF IInv, Once
      <4>2. pkg'.archive[n + 1].path # Normalized[q]
        BY <2>3, <2>4, <2>5, <3>1, <4>1 DEF Twice
      <4>3. ASSUME NEW j \in 1 .. n + 1, i < j
            PROVE  pkg'.archive[j].path # Normalized[q]
        <5>1. CASE j \in 1 .. n
          BY <2>4, <4>1, <4>3, <5>1
        <5>2. CASE j = n + 1
          BY <4>2, <5>2
        <5> QED BY <2>4, <5>1, <5>2
      <4> QED BY <4>1, <4>3
    <3>3. CASE i = n + 1
      <4>1. q = p
        BY <2>4, <2>5, <3>1, <3>3 DEF Twice
      <4> QED BY <2>4, <3>3, <4>1
    <3> QED BY <2>4, <3>2, <3>3
  <2> QED BY <2>7, <2>8, <2>9, <2>10, <2>11, <2>12, <2>13, <2>14 DEF IInv
<1> QED BY <1>2, <1>3, <1>4 DEF AppendFile

\* An edit of a helper module leaves the top level as it was.
LEMMA EditStep ==
  ASSUME IInv, NEW p \in Paths, NEW f \in Entries[p] \cup {Absent}, Edit(p, f)
  PROVE  IInv'
<1>1. /\ ~At("ended") /\ pkg' = pkg /\ edits < MaxEdits
      /\ disk' = [disk EXCEPT ![p] = f]
      /\ edited' = edited \cup {p} /\ edits' = edits + 1
  BY DEF Edit
<1>2. /\ disk' = [q \in Paths |-> disk'[q]] /\ disk'[p] = f
      /\ \A q \in Paths : q # p => disk'[q] = disk[q]
  BY <1>1 DEF IInv, Shape
<1>3. TypeOK'
  BY <1>1, <1>2, ContentsAssumption DEF IInv, TypeOK
<1>4. Shape'
  BY <1>1, <1>2 DEF IInv, Shape, Packaged, Passed, Archiving, At
<1>5. \A q \in Paths : q \notin edited' => q \notin edited /\ disk'[q] = disk[q]
  BY <1>1, <1>2
<1>6. \A q \in Paths : disk'[q] = disk[q] => (q \in Files' <=> q \in Files)
  <2> SUFFICES ASSUME NEW q \in Paths, disk'[q] = disk[q]
               PROVE  q \in Files' <=> q \in Files
    OBVIOUS
  <2>1. q \in Selected(disk', pkg.manifest.exclude) <=> q \in Selected(disk, pkg.manifest.exclude)
    BY SelectedLooksAt
  <2> QED BY <1>1, <2>1 DEF Files
<1>7. ManifestRead'
  <2>1. Manifest \in Paths
    BY PathsAssumption
  <2> QED BY <1>1, <1>5, <2>1 DEF IInv, ManifestRead, Reading
<1>8. TopLevel(edited') = {} => TopLevel(edited) = {} /\ Len(p) # 1
  BY <1>1 DEF TopLevel
<1>9. ASSUME TopLevel(edited') = {}
      PROVE  Top' = Top /\ Found' = Found
  <2>1. \A q \in Paths : Len(q) = 1 => (q \in Files' <=> q \in Files)
    BY <1>2, <1>6, <1>8, <1>9
  <2>2. Files \subseteq Paths /\ Files' \subseteq Paths
    BY DEF Files, Selected
  <2>3. Top' = Top
    BY <2>1, <2>2 DEF Top, TopLevel
  <2> QED BY <2>3 DEF Found
<1>10. ASSUME TopLevel(edited') = {}, Found.entry # None
       PROVE  SourceErrors' = SourceErrors
  <2>1. <<Found.entry.file_name>> \in Paths /\ Len(<<Found.entry.file_name>>) = 1
    BY <1>10, FilesArePaths, FoundTyped DEF Found, Top
  <2>2. disk'[<<Found.entry.file_name>>] = disk[<<Found.entry.file_name>>]
    BY <1>2, <1>8, <1>10, <2>1
  <2>3. Source' = Source
    BY <1>9, <1>10, <2>2 DEF Source, Reading
  <2> QED BY <1>1, <2>3 DEF SourceErrors
<1>11. Classified'
  BY <1>1, <1>8, <1>9 DEF IInv, Classified, Missing, At
<1>12. Accepted'
  <2>1. Found.error = {} => Found.entry # None
    BY FilesArePaths, FoundTyped DEF Found, Top
  <2> QED BY <1>1, <1>8, <1>9, <1>10, <2>1 DEF IInv, Accepted, Passed, Archiving, Packaged, At
<1>13. Refused'
  BY <1>1 DEF IInv, Refused, Shape, At
<1>14. Pending'
  BY <1>1, <1>5, <1>6 DEF IInv, Pending
<1>15. NoneIsLeftOut'
  BY <1>1, <1>5, <1>6 DEF IInv, NoneIsLeftOut, Stands, Archiving, Packaged, At
<1>16. Archived'
  <2> SUFFICES ASSUME NEW i \in DOMAIN pkg.archive
               PROVE  \E q \in Paths :
                        /\ pkg.archive[i].path = Normalized[q]
                        /\ pkg.archive[i].data \in {g.holds : g \in Entries[q]}
                        /\ pkg.archive[i].mode \in {"0644", "0755"}
                        /\ q \notin edited' =>
                             /\ q \in Files' /\ pkg.archive[i].data = disk'[q].holds
                             /\ pkg.archive[i].mode
                                  = IF disk'[q].is_exec THEN "0755" ELSE "0644"
    BY <1>1 DEF Archived
  <2>1. PICK q \in Paths :
          /\ pkg.archive[i].path = Normalized[q]
          /\ pkg.archive[i].data \in {g.holds : g \in Entries[q]}
          /\ pkg.archive[i].mode \in {"0644", "0755"}
          /\ q \notin edited =>
               /\ q \in Files /\ pkg.archive[i].data = disk[q].holds
               /\ pkg.archive[i].mode = IF disk[q].is_exec THEN "0755" ELSE "0644"
    BY DEF IInv, Archived
  <2>2. q \notin edited' =>
          /\ q \in Files' /\ pkg.archive[i].data = disk'[q].holds
          /\ pkg.archive[i].mode = IF disk'[q].is_exec THEN "0755" ELSE "0644"
    BY <1>5, <1>6, <2>1
  <2> QED BY <2>1, <2>2
<1>17. Ordered'
  BY <1>1 DEF IInv, Ordered
<1>18. Once'
  BY <1>1 DEF Once
<1> QED BY <1>3, <1>4, <1>7, <1>11, <1>12, <1>13, <1>14, <1>15, <1>16, <1>17, <1>18 DEF IInv

\* and doing nothing.
LEMMA StutterStep == IInv /\ UNCHANGED vars => IInv'
<1> SUFFICES ASSUME IInv, UNCHANGED vars PROVE IInv'
  OBVIOUS
<1>1. disk' = disk /\ edited' = edited /\ edits' = edits /\ pkg' = pkg
  BY DEF vars
<1>2. Top' = Top /\ Found' = Found /\ SourceErrors' = SourceErrors /\ Files' = Files
  BY <1>1, SameView
<1>3. TypeOK'
  BY <1>1 DEF IInv, TypeOK
<1>4. Shape'
  BY <1>1 DEF IInv, Shape, Packaged, Passed, Archiving, At
<1>5. Classified' /\ Accepted' /\ Refused'
  BY <1>1, <1>2 DEF IInv, Classified, Accepted, Refused, Missing, Passed, Archiving, Packaged, At
<1>6. ManifestRead' /\ NoneIsLeftOut'
  BY <1>1, <1>2 DEF IInv, ManifestRead, NoneIsLeftOut, Stands, Reading, Archiving, Packaged, At
<1>7. Pending' /\ Archived' /\ Ordered' /\ Once'
  BY <1>1, ArchiveKept
<1> QED BY <1>3, <1>4, <1>5, <1>6, <1>7 DEF IInv

\* Every step keeps the invariant,
LEMMA NextInv == IInv /\ [Next]_vars => IInv'
<1> SUFFICES ASSUME IInv, [Next]_vars PROVE IInv'
  OBVIOUS
<1>1. CASE ReadManifest
  BY <1>1, ReadManifestStep
<1>2. CASE SelectAndClassify
  BY <1>2, SelectAndClassifyStep
<1>3. CASE ReadEntryPoint
  BY <1>3, ReadEntryPointStep
<1>4. CASE SelectSources
  BY <1>4, SelectSourcesStep
<1>5. CASE AppendFile
  BY <1>5, AppendFileStep
<1>6. CASE Finish
  BY <1>6, FinishStep
<1>7. CASE \E p \in Paths : \E f \in Entries[p] \cup {Absent} : Edit(p, f)
  BY <1>7, EditStep
<1>8. CASE UNCHANGED vars
  BY <1>8, StutterStep
<1> QED BY <1>1, <1>2, <1>3, <1>4, <1>5, <1>6, <1>7, <1>8 DEF Next

\* so it always holds.
LEMMA Invariance == Spec => []IInv
BY InitInv, NextInv, PTL DEF Spec

\* The shape of the directory and of the packaging, for any editor.
THEOREM TypeCorrect == Spec => []TypeOK
<1>1. IInv => TypeOK
  BY DEF IInv
<1> QED BY <1>1, Invariance, PTL

-----------------------------------------------------------------------------
(* What package_plugin promises.                                            *)

\* An unpacked archive has the paths of its files, each with the data of one
\* of them.
LEMMA UnpackedIs ==
  ASSUME NEW archive, IsSequence(archive)
  PROVE  LET A == Unpacked(archive)
         IN  /\ DOMAIN A = {archive[i].path : i \in DOMAIN archive}
             /\ \A path \in DOMAIN A : \E i \in DOMAIN archive :
                  archive[i].path = path /\ A[path] = archive[i].data
<1> DEFINE same(path) == {i \in DOMAIN archive : archive[i].path = path}
           A == Unpacked(archive)
<1>1. /\ DOMAIN A = {archive[i].path : i \in DOMAIN archive}
      /\ \A path \in DOMAIN A : A[path] = archive[Max(same(path))].data
  BY DEF Unpacked
<1>2. ASSUME NEW path \in DOMAIN A
      PROVE  Max(same(path)) \in same(path)
  <2>1. same(path) # {}
    BY <1>1, <1>2
  <2>2. same(path) \subseteq 1 .. Len(archive) /\ Len(archive) \in Nat
    BY SequenceIs
  <2> HIDE DEF same
  <2> QED BY <2>1, <2>2, LastPosition
<1> HIDE DEF A
<1> QED BY <1>1, <1>2 DEF A

\* While nobody edits the top level, what the checks look for there is in the
\* archive exactly when it is selected, with the contents that were checked.
LEMMA TopOfArchive ==
  ASSUME IInv, Packaged, TopLevel(edited) = {}
  PROVE  LET A == Unpacked(pkg.archive)
         IN  /\ DOMAIN A \subseteq Seq(STRING)
             /\ \A q : Len(q) = 1 /\ LookedFor(q) => (q \in DOMAIN A <=> q \in Files)
             /\ \A q \in Files : Len(q) = 1 /\ LookedFor(q) => A[q] = disk[q].holds
<1> DEFINE A == Unpacked(pkg.archive)
<1>1. /\ DOMAIN A = {pkg.archive[i].path : i \in DOMAIN pkg.archive}
      /\ \A path \in DOMAIN A : \E i \in DOMAIN pkg.archive :
           pkg.archive[i].path = path /\ A[path] = pkg.archive[i].data
  BY UnpackedIs DEF IInv, Shape
<1> HIDE DEF A
<1>2. \A p \in Paths : /\ Normalized[p] \in Seq(STRING) /\ Len(Normalized[p]) = Len(p)
                       /\ LookedFor(p) \/ LookedFor(Normalized[p]) => Normalized[p] = p
  BY PathsAssumption
<1>3. \A p \in Paths : Len(p) = 1 => p \notin edited
  BY DEF TopLevel
<1>4. \A path \in DOMAIN A : \E p \in Paths :
        /\ path = Normalized[p]
        /\ p \notin edited => p \in Files /\ A[path] = disk[p].holds
  BY <1>1 DEF IInv, Archived
<1>5. DOMAIN A \subseteq Seq(STRING)
  BY <1>2, <1>4
<1>6. ASSUME NEW q \in DOMAIN A, Len(q) = 1, LookedFor(q)
      PROVE  q \in Files /\ A[q] = disk[q].holds
  <2>1. PICK p \in Paths : /\ q = Normalized[p]
                           /\ p \notin edited => p \in Files /\ A[q] = disk[p].holds
    BY <1>4, <1>6
  <2>2. q = p
    BY <1>2, <1>6, <2>1
  <2> QED BY <1>3, <1>6, <2>1, <2>2
<1>7. ASSUME NEW q \in Files, Len(q) = 1, LookedFor(q)
      PROVE  q \in DOMAIN A
  <2>1. q \in Paths \ edited /\ Normalized[q] = q
    BY <1>2, <1>3, <1>7, FilesArePaths
  <2>2. DOMAIN pkg.todo = {}
    BY DEF IInv, Shape
  <2>3. \E i \in DOMAIN pkg.archive : pkg.archive[i].path = Normalized[q]
    BY <2>1, <2>2 DEF IInv, NoneIsLeftOut, Stands, Archiving
  <2> QED BY <1>1, <2>1, <2>3
<1> QED BY <1>5, <1>6, <1>7 DEF A

\* The checks on the source of the entry point against what it does when run.
LEMMA SourceErrorsMean ==
  ASSUME IInv, pkg.manifest # None, Found.entry # None,
         OnlyDefsBind(Source, pkg.manifest.triggers) \/ Source = Unparseable
  PROVE  /\ Source = disk[<<Found.entry.file_name>>].holds
         /\ SourceErrors = {} <=>
              /\ Source # Unparseable
              /\ \A t \in pkg.manifest.triggers : Environment(Source, t) = {"sync"}
<1> DEFINE p == <<Found.entry.file_name>>
<1>1. p \in Files /\ Found.entry.file_name \in PythonNames
  BY FilesArePaths, FoundTyped DEF Found, Top
<1>2. p \in Paths /\ disk[p] # Absent
  BY <1>1 DEF Files, Selected
<1>3. disk[p] \in Entries[p]
  BY <1>2 DEF IInv, TypeOK
<1>4. IsPython(p)
  BY <1>1 DEF IsPython
<1>5. disk[p].holds # Absent /\ IsSource(disk[p].holds)
  <2>1. \A f \in Entries[p] : f.holds # Absent /\ (IsPython(p) => IsSource(f.holds))
    BY <1>2, ContentsAssumption
  <2> QED BY <1>3, <1>4, <2>1
<1>6. Source = disk[p].holds
  BY <1>2 DEF Source, Reading
<1>7. CASE Source = Unparseable
  BY <1>5, <1>6, <1>7, ContentsAssumption DEF SourceErrors, EntryErrors
<1>8. CASE Source # Unparseable
  <2>1. SourceErrors
          = check_trigger_bindings(pkg.manifest.triggers, extract_top_level_defs(Source))
    BY <1>5, <1>6, <1>8 DEF SourceErrors, EntryErrors
  <2> QED BY <1>5, <1>6, <1>8, <2>1, BindingsAreSound
<1> QED BY <1>6, <1>7, <1>8

\* archive.rs, lib.rs: what package produces the engine can run, whatever the
\* editor does below the top level meanwhile.
THEOREM ArchivesRun == Spec => []ArchiveRuns
<1>1. IInv => ArchiveRuns
  <2> DEFINE A == Unpacked(pkg.archive)
             triggers == pkg.manifest.triggers
             p == <<Found.entry.file_name>>
  <2> SUFFICES ASSUME IInv, Packaged, TopLevel(edited) = {}, Plain(A, triggers)
               PROVE  Runs(A, triggers) /\ A[Manifest] = pkg.manifest
    BY DEF ArchiveRuns
  <2>1. pkg.manifest # None
    BY DEF IInv, Shape, Passed, Archiving
  <2>2. Manifest \in Top /\ Found.error = {} /\ SourceErrors = {}
    BY DEF IInv, Accepted, Passed, Archiving
  <2>3. /\ DOMAIN A \subseteq Seq(STRING)
        /\ \A q : Len(q) = 1 /\ LookedFor(q) => (q \in DOMAIN A <=> q \in Files)
        /\ \A q \in Files : Len(q) = 1 /\ LookedFor(q) => A[q] = disk[q].holds
    BY TopOfArchive
  <2> HIDE DEF A
  <2>4. Manifest \in Files /\ Len(Manifest) = 1 /\ LookedFor(Manifest)
    BY <2>2 DEF Top, TopLevel, LookedFor
  <2>5. Manifest \in DOMAIN A /\ A[Manifest] = pkg.manifest
    <3>1. Manifest \in Paths /\ disk[Manifest] # Absent
      BY <2>4 DEF Files, Selected
    <3>2. Manifest \notin edited
      BY <2>4 DEF TopLevel
    <3>3. Reading(disk, Manifest) = pkg.manifest
      BY <2>1, <3>2 DEF IInv, ManifestRead
    <3>4. Reading(disk, Manifest) = disk[Manifest].holds
      BY <3>1 DEF Reading
    <3> QED BY <2>3, <2>4, <3>3, <3>4
  <2>6. Found.entry # None /\ p \in Files /\ Found.entry.file_name \in PythonNames
    BY <2>2, FilesArePaths, FoundTyped DEF Found, Top
  <2>7. Loads(A) = {p}
    <3>1. \A q : Len(q) = 1 /\ q[1] \in PythonNames => (q \in DOMAIN A <=> q \in Files)
      BY <2>3 DEF LookedFor, IsPython
    <3> QED BY <2>3, <2>6, <3>1, FilesArePaths, EntryPointIsLoaded DEF Found, Top
  <2>8. p \in DOMAIN A /\ A[p] = disk[p].holds
    <3>1. Len(p) = 1 /\ LookedFor(p)
      BY <2>6 DEF LookedFor, IsPython
    <3> QED BY <2>3, <2>6, <3>1
  <2>9. A[p] = Source
    <3>1. disk[p] # Absent
      BY <2>6 DEF Files, Selected
    <3> QED BY <2>8, <3>1 DEF Source, Reading
  <2>10. Source # Unparseable /\ \A t \in triggers : Environment(Source, t) = {"sync"}
    <3>1. OnlyDefsBind(Source, triggers) \/ Source = Unparseable
      BY <2>7, <2>9 DEF Plain
    <3> QED BY <2>1, <2>2, <2>6, <3>1, SourceErrorsMean
  <2>11. Runs(A, triggers)
    <3> HIDE DEF p, triggers
    <3> QED BY <2>5, <2>7, <2>8, <2>9, <2>10 DEF Runs
  <2> QED BY <2>5, <2>11
<1> QED BY <1>1, Invariance, PTL

\* validate.rs: a report of a plugin that nobody edited has a cause that the
\* engine would meet as well.
THEOREM RefusalsHaveCause == Spec => []RefusedForCause
<1>1. IInv => RefusedForCause
  <2> DEFINE A == [q \in Files |-> disk[q].holds]
             triggers == pkg.manifest.triggers
             p == <<Found.entry.file_name>>
  <2> SUFFICES ASSUME IInv, pkg.error = "invalid", pkg.manifest # None, edited = {},
                      pkg.entry # None => "NoEntryPoint" \notin pkg.report,
                      Plain(A, triggers), Runs(A, triggers)
               PROVE  FALSE
    BY DEF RefusedForCause, Files
  <2>1. DOMAIN A = Files /\ \A q \in Files : A[q] = disk[q].holds
    OBVIOUS
  <2> HIDE DEF A
  <2>2. TopLevel(edited) = {}
    BY DEF TopLevel
  <2>3. /\ pkg.entry = Found.entry
        /\ \/ Manifest \notin Top
           \/ Found.error # {}
           \/ Found.entry # None /\ SourceErrors # {}
    BY <2>2 DEF IInv, Refused
  <2>4. Manifest \in Top
    <3>1. Manifest \in Files /\ Len(Manifest) = 1
      BY <2>1 DEF Runs, Manifest
    <3> QED BY <3>1 DEF Top, TopLevel
  <2>5. DOMAIN A \subseteq Seq(STRING)
    BY <2>1, FilesArePaths, PathsAssumption
  <2>6. /\ Found.entry # None => Loads(A) = {p}
        /\ Found.entry = None => ~\E q : Loads(A) = {q}
    <3>1. \A q : Len(q) = 1 /\ q[1] \in PythonNames => (q \in DOMAIN A <=> q \in Files)
      BY <2>1
    <3> QED BY <2>5, <3>1, FilesArePaths, EntryPointIsLoaded DEF Found, Top
  <2>7. PICK q \in DOMAIN A : /\ Loads(A) = {q} /\ A[q] # Unparseable
                              /\ \A t \in triggers : Environment(A[q], t) = {"sync"}
    BY DEF Runs
  <2>8. Found.entry # None
    BY <2>6, <2>7
  <2>9. Found.error = {}
    BY <2>8, FilesArePaths, FoundTyped DEF Found, Top
  <2>10. q = p
    BY <2>6, <2>7, <2>8
  <2>11. A[p] = Source
    <3>1. p \in Files /\ disk[p] # Absent
      BY <2>1, <2>7, <2>10 DEF Files, Selected
    <3> QED BY <2>1, <3>1 DEF Source, Reading
  <2>12. OnlyDefsBind(Source, triggers)
    BY <2>7, <2>10, <2>11 DEF Plain
  <2>13. SourceErrors = {}
    BY <2>7, <2>8, <2>10, <2>11, <2>12, SourceErrorsMean
  <2> QED BY <2>3, <2>4, <2>9, <2>13
<1> QED BY <1>1, Invariance, PTL

\* A path that only whitelisting patterns match is not ignored.
LEMMA OwnWhitelistKeeps ==
  ASSUME NEW exclude, IsSequence(exclude), NEW p \in Paths,
         Matching(exclude, p, Len(p)) # {},
         \A i \in Matching(exclude, p, Len(p)) : exclude[i].whitelist
  PROVE  ~Ignored(exclude, p)
<1> DEFINE own == Matching(exclude, p, Len(p))
           levels == {k \in 1 .. Len(p) : Matching(exclude, p, k) # {}}
           n == Len(p)
<1>1. n \in Nat /\ n \in 1 .. n
  <2>1. p \in Seq(STRING) /\ p # << >>
    BY PathsAssumption
  <2> QED BY <2>1
<1>2. n \in levels
  BY <1>1
<1>3. Max(levels) = n
  <2>1. levels \subseteq 1 .. n /\ levels # {}
    BY <1>2
  <2> HIDE DEF levels, n
  <2>2. Max(levels) \in levels /\ \A k \in levels : k <= Max(levels)
    BY <1>1, <2>1, LastPosition
  <2>3. Max(levels) \in 1 .. n /\ n <= Max(levels)
    BY <1>2, <2>1, <2>2
  <2> QED BY <1>1, <2>3
<1>4. Max(own) \in own
  <2>1. own \subseteq 1 .. Len(exclude) /\ Len(exclude) \in Nat
    BY SequenceIs DEF Matching
  <2> HIDE DEF own
  <2> QED BY <2>1, LastPosition DEF own
<1>5. exclude[Max(Matching(exclude, p, Max(levels)))].whitelist
  <2> HIDE DEF levels
  <2> QED BY <1>3, <1>4
<1> QED BY <1>5 DEF Ignored

\* plugin_source_files.rs: a file that `!` patterns name is in the archive,
\* whatever directory excludes cover it and in whatever order.
THEOREM WhitelistsWin == Spec => []WhitelistWins
<1>1. IInv => WhitelistWins
  <2> SUFFICES ASSUME IInv, NEW p \in Paths \ edited, Packaged,
                      disk[p] # Absent, ~disk[p].link,
                      Matching(pkg.manifest.exclude, p, Len(p)) # {},
                      \A i \in Matching(pkg.manifest.exclude, p, Len(p)) :
                        pkg.manifest.exclude[i].whitelist
               PROVE  \E i \in DOMAIN pkg.archive : pkg.archive[i].path = Normalized[p]
    BY DEF WhitelistWins
  <2>1. IsSequence(pkg.manifest.exclude)
    <3>1. pkg.manifest \in Manifests
      BY DEF IInv, Shape, TypeOK, Passed, Archiving
    <3> QED BY <3>1, ContentsAssumption
  <2>2. p \in Files
    BY <2>1, OwnWhitelistKeeps DEF Files, Selected
  <2>3. DOMAIN pkg.todo = {}
    BY DEF IInv, Shape
  <2> QED BY <2>2, <2>3 DEF IInv, NoneIsLeftOut, Stands, Archiving
<1> QED BY <1>1, Invariance, PTL

\* archive.rs: the archive of a directory that nobody edits is a function of
\* it, whatever the order of the walk, up to the order of two files whose
\* names have one normalized form; and these two are both there.
THEOREM ArchivesAreReproducible == Spec => []Reproducible
<1>1. IInv => Reproducible
  <2> DEFINE archive == pkg.archive
  <2> SUFFICES ASSUME IInv, Packaged, edited = {}
               PROVE  /\ \A p \in Files : \E i \in DOMAIN archive : Stands(archive[i], p)
                      /\ \A i \in DOMAIN archive : \E p \in Files :
                           /\ Stands(archive[i], p)
                           /\ \A j \in i + 1 .. Len(archive) : \E q \in Files :
                                /\ archive[j].path = Normalized[q]
                                /\ Rank[p] < Rank[q] \/ (Rank[p] = Rank[q] /\ Twice(p))
    BY DEF Reproducible, Files, Twice, Stands
  <2>1. \A i \in DOMAIN archive : \E p \in Files : p \in Paths /\ Stands(archive[i], p)
    BY DEF IInv, Archived, Stands
  <2>2. DOMAIN archive = 1 .. Len(archive) /\ Len(archive) \in Nat
    BY SequenceIs DEF IInv, Shape
  <2>3. \A p \in Files : \E i \in DOMAIN archive : Stands(archive[i], p)
    <3>1. DOMAIN pkg.todo = {}
      BY DEF IInv, Shape
    <3> QED BY <3>1, FilesArePaths DEF IInv, NoneIsLeftOut, Archiving
  <2>4. ASSUME NEW i \in DOMAIN archive, NEW p \in Files, p \in Paths, Stands(archive[i], p),
               NEW j \in i + 1 .. Len(archive)
        PROVE  \E q \in Files : /\ archive[j].path = Normalized[q]
                                /\ Rank[p] < Rank[q] \/ (Rank[p] = Rank[q] /\ Twice(p))
    <3>1. j \in DOMAIN archive /\ i < j
      BY <2>2
    <3>2. PICK q \in Files : q \in Paths /\ archive[j].path = Normalized[q]
      BY <2>1, <3>1 DEF Stands
    <3>3. Rank[p] <= Rank[q] /\ Rank[p] \in Nat /\ Rank[q] \in Nat
      BY <2>4, <3>1, <3>2, PathsAssumption DEF IInv, Ordered, Stands
    <3>4. CASE Rank[p] = Rank[q]
      <4>1. Normalized[p] = Normalized[q]
        BY <2>4, <3>2, <3>4, PathsAssumption
      <4>2. Twice(p)
        BY <2>4, <3>1, <3>2, <4>1 DEF IInv, Once, Stands
      <4> QED BY <3>2, <3>4, <4>2
    <3>5. CASE Rank[p] < Rank[q]
      BY <3>2, <3>5
    <3> QED BY <3>3, <3>4, <3>5
  <2> HIDE DEF archive
  <2> QED BY <2>1, <2>3, <2>4
<1> QED BY <1>1, Invariance, PTL

=============================================================================
