--------------------------- MODULE PluginPackaging ---------------------------
(***************************************************************************)
(* package_plugin on one plugin directory: validate::plugin_dir, then      *)
(* archive::canonical_tar_gz, each with its own walk and its own reads,    *)
(* while an editor may change the directory.  `validate` is its first      *)
(* half.  A walk is one step.                                              *)
(*                                                                         *)
(* A path is the sequence of its components; an archive gives it by its     *)
(* normalized form, where bytes that are not UTF-8 are replaced.            *)
(***************************************************************************)
EXTENDS PluginFormat

CONSTANTS
  Paths,        \* paths of files, relative to the plugin root
  Normalized,   \* their normalized forms
  Rank,         \* the byte order of the normalized forms
  LongPaths,    \* those that do not fit the ustar header
  Triggers,     \* trigger types, which are also function names
  Excludes,     \* [plugin].exclude lists
  BadPattern,   \* a pattern that gitignore does not accept
  Entries,      \* what may be at each path
  Layouts,      \* directories to package
  MaxEdits      \* bound on the editor's changes

Manifest == <<"manifest.toml">>
Init_py  == <<InitPy>>

Manifests == [exclude : Excludes, triggers : SUBSET Triggers]

\* A file, or a link to one: `holds` is what reading it gives.
File(holds) == [link |-> FALSE, is_exec |-> FALSE, holds |-> holds]

\* The paths that the checks look for.
IsPython(p) == p[Len(p)] \in PythonNames
LookedFor(p) == p = Manifest \/ IsPython(p)

\* A path that the checks look for is UTF-8, and so its own normalized form.
ASSUME PathsAssumption ==
  /\ Paths \subseteq Seq(STRING) \ {<< >>}
  /\ {Manifest, Init_py} \subseteq Paths /\ InitPy \in PythonNames
  /\ \A p \in Paths : Normalized[p] \in Seq(STRING) /\ Len(Normalized[p]) = Len(p)
  /\ \A p \in Paths : LookedFor(p) \/ LookedFor(Normalized[p]) => Normalized[p] = p
  /\ \A p, q \in Paths : Rank[p] = Rank[q] <=> Normalized[p] = Normalized[q]
  /\ \A p \in Paths : Rank[p] \in Nat
  /\ LongPaths \subseteq Paths /\ Triggers \subseteq Names

\* Every file has contents; a Python file holds a source.
ASSUME ContentsAssumption ==
  /\ \A p \in Paths : \A f \in Entries[p] :
       /\ f # Absent /\ f.link \in BOOLEAN /\ f.is_exec \in BOOLEAN
       /\ f.holds # Absent
       /\ IsPython(p) => IsSource(f.holds)
  /\ \A f \in Entries[Manifest] : f.holds \in Manifests \cup {Unparseable}
  /\ \A layout \in Layouts :
       /\ layout = [p \in Paths |-> layout[p]]
       /\ \A p \in Paths : layout[p] \in Entries[p] \cup {Absent}
  /\ \A m \in Manifests : IsSequence(m.exclude) /\ m \notin {None, Absent, Unparseable}
  /\ \A e \in EntryPoint : e # None
  /\ Absent # Unparseable
  /\ MaxEdits \in Nat

VARIABLES
  disk,     \* the contents of the directory
  edited,   \* the paths changed since the packaging began
  edits,    \* how many changes there were
  pkg       \* the packaging: its step, what it has read, its archive

vars == <<disk, edited, edits, pkg>>

-----------------------------------------------------------------------------
(* plugin_source_files::select.  A pattern has the set of the paths, of     *)
(* files and of directories, that its glob matches.                         *)

\* The patterns that match one level of p: p itself, or an ancestor directory.
Matching(exclude, p, k) ==
  {i \in DOMAIN exclude : /\ SubSeq(p, 1, k) \in exclude[i].glob
                          /\ exclude[i].dir_only => k < Len(p)}

\* Mutant: gitignore's own rule, the last pattern that matches at any level.
IgnoredByLast(exclude, p) ==
  LET matching == UNION {Matching(exclude, p, k) : k \in 1 .. Len(p)}
  IN  matching # {} /\ ~exclude[Max(matching)].whitelist

\* matched_path_or_any_parents: the file's own patterns, then its parents',
\* innermost first; at each level the last pattern wins.
Ignored(exclude, p) ==
  LET levels == {k \in 1 .. Len(p) : Matching(exclude, p, k) # {}}
  IN  levels # {} /\ ~exclude[Max(Matching(exclude, p, Max(levels)))].whitelist

\* Links are left out, as are directories.
Selected(d, exclude) ==
  {p \in Paths : d[p] # Absent /\ ~d[p].link /\ ~Ignored(exclude, p)}

\* read_to_string, fs::read: a link is followed.
Reading(d, p) == IF d[p] = Absent THEN Absent ELSE d[p].holds

Invalid(exclude) == \E i \in DOMAIN exclude : exclude[i] = BadPattern

-----------------------------------------------------------------------------
(* The selected files at the top level, and their names.                    *)

TopLevel(S) == {p \in S : Len(p) = 1}

FileNames(S) == {Normalized[p][1] : p \in S}

-----------------------------------------------------------------------------

Init ==
  /\ disk \in Layouts
  /\ edited = {} /\ edits = 0
  /\ pkg = [at |-> "manifest", manifest |-> None, entry |-> None, report |-> {},
            todo |-> << >>, archive |-> << >>, error |-> "none"]

At(step) == pkg.at = step

Fails(error) ==
  pkg' = [pkg EXCEPT !.at = "ended", !.error = error]

\* ValidationReport::into_result.
Refuses(report) ==
  pkg' = [pkg EXCEPT !.at = "ended", !.error = "invalid", !.report = report]

\* The manifest is the gate.
ReadManifest ==
  /\ At("manifest")
  /\ UNCHANGED <<disk, edited, edits>>
  /\ \/ Fails("io")
     \/ Reading(disk, Manifest) = Absent /\ Refuses({"MissingRequiredFile"})
     \/ Reading(disk, Manifest) = Unparseable /\ Refuses({"SchemaReported"})
     \/ /\ Reading(disk, Manifest) \in Manifests
        /\ pkg' = [pkg EXCEPT !.at = "classify", !.manifest = Reading(disk, Manifest)]

\* Mutant: the entry point is looked for among all the files of the directory.
SelectAndClassifyAll ==
  /\ At("classify")
  /\ UNCHANGED <<disk, edited, edits>>
  /\ ~Invalid(pkg.manifest.exclude)
  /\ LET found == classify_entry_point(FileNames(TopLevel(Selected(disk, << >>))))
         missing == {"MissingRequiredFile" :
                       p \in {Manifest} \ Selected(disk, pkg.manifest.exclude)}
     IN  pkg' = [pkg EXCEPT !.at = "entryPoint", !.entry = found.entry,
                            !.report = missing \cup found.error]

\* select, then the checks on the depth-1 files of the selection.
SelectAndClassify ==
  /\ At("classify")
  /\ UNCHANGED <<disk, edited, edits>>
  /\ \/ Fails("io")
     \/ Invalid(pkg.manifest.exclude) /\ Fails("exclude")
     \/ /\ ~Invalid(pkg.manifest.exclude)
        /\ LET top_level == TopLevel(Selected(disk, pkg.manifest.exclude))
               found == classify_entry_point(FileNames(top_level))
               missing == {"MissingRequiredFile" : p \in {Manifest} \ top_level}
           IN  pkg' = [pkg EXCEPT !.at = "entryPoint", !.entry = found.entry,
                                  !.report = missing \cup found.error]

\* What is wrong with the source of the entry point.
EntryErrors(source, triggers) ==
  CASE source = Absent -> {"NoEntryPoint"}
    [] source = Unparseable -> {"PythonParse"}
    [] OTHER -> check_trigger_bindings(triggers, extract_top_level_defs(source))

\* Read the entry point, if there is one, and end the validation.
ReadEntryPoint ==
  /\ At("entryPoint")
  /\ UNCHANGED <<disk, edited, edits>>
  /\ \E source \in IF pkg.entry = None THEN {None}
                    ELSE {Reading(disk, <<pkg.entry.file_name>>), Absent} :
       LET errors == IF pkg.entry = None THEN {}
                     ELSE EntryErrors(source, pkg.manifest.triggers)
           report == pkg.report \cup errors
       IN  IF report # {} THEN Refuses(report)
                          ELSE pkg' = [pkg EXCEPT !.at = "select"]

\* canonical_tar_gz selects again, with the manifest that was validated; the
\* executable bits are those of this moment.
SelectSources ==
  /\ At("select")
  /\ UNCHANGED <<disk, edited, edits>>
  /\ LET files == Selected(disk, pkg.manifest.exclude) IN
     \/ Fails("io")
     \/ files \cap LongPaths # {} /\ Fails("pathTooLong")
     \/ /\ files \cap LongPaths = {}
        /\ pkg' = [pkg EXCEPT !.at = "archive",
                              !.todo = [p \in files |-> disk[p].is_exec]]

\* Mutant: the files keep the order of the walk, which is any order.
FirstInWalk(files) == files

\* The sort is by the normalized form; the walk decides between equal forms.
First(files) == {q \in files : \A r \in files : Rank[q] <= Rank[r]}

\* A tar header and its data: owner, group and times are zero.
TarEntry(p, is_exec, data) ==
  [path |-> Normalized[p], mode |-> IF is_exec THEN "0755" ELSE "0644", data |-> data]

\* Mutant: a file that has gone is archived as an empty one.
AppendFileUnchecked ==
  /\ At("archive") /\ pkg.todo # << >>
  /\ UNCHANGED <<disk, edited, edits>>
  /\ \E p \in First(DOMAIN pkg.todo) :
       pkg' = [pkg EXCEPT !.todo = Restrict(@, DOMAIN @ \ {p}),
                          !.archive = Append(@, TarEntry(p, pkg.todo[p], Reading(disk, p)))]

\* Read the next selected file into the archive.
AppendFile ==
  /\ At("archive") /\ pkg.todo # << >>
  /\ UNCHANGED <<disk, edited, edits>>
  /\ \E p \in First(DOMAIN pkg.todo) :
       \/ Fails("io")
       \/ Fails("archive")
       \/ /\ Reading(disk, p) # Absent
          /\ pkg' = [pkg EXCEPT !.todo = Restrict(@, DOMAIN @ \ {p}),
                                !.archive = Append(@, TarEntry(p, pkg.todo[p], Reading(disk, p)))]

\* Both streams are finished; the new entry is made of pkg.manifest.
Finish ==
  /\ At("archive") /\ pkg.todo = << >>
  /\ UNCHANGED <<disk, edited, edits>>
  /\ pkg' = [pkg EXCEPT !.at = "ended"]

\* The author saves, creates, links, marks executable or deletes a file.
Edit(p, f) ==
  /\ ~At("ended") /\ edits < MaxEdits
  /\ disk[p] # f
  /\ disk' = [disk EXCEPT ![p] = f]
  /\ edited' = edited \cup {p} /\ edits' = edits + 1
  /\ UNCHANGED pkg

Next ==
  \/ ReadManifest \/ SelectAndClassify \/ ReadEntryPoint
  \/ SelectSources \/ AppendFile \/ Finish
  \/ \E p \in Paths : \E f \in Entries[p] \cup {Absent} : Edit(p, f)

Spec == Init /\ [][Next]_vars

-----------------------------------------------------------------------------
(* What the engine makes of a plugin directory, independently of the checks *)
(* above: it loads __init__.py, or the one Python file there is, and calls  *)
(* the name of each trigger after running the source.                       *)

\* A later entry of an archive replaces an earlier one of the same path.
Unpacked(archive) ==
  LET last(path) == Max({i \in DOMAIN archive : archive[i].path = path})
  IN  [path \in {archive[i].path : i \in DOMAIN archive} |-> archive[last(path)].data]

Loads(A) ==
  IF Init_py \in DOMAIN A THEN {Init_py}
  ELSE {p \in DOMAIN A : Len(p) = 1 /\ p[1] \in PythonNames}

Runs(A, triggers) ==
  /\ Manifest \in DOMAIN A
  /\ \E p \in DOMAIN A :
       /\ Loads(A) = {p}
       /\ A[p] # Unparseable
       /\ \A t \in triggers : Environment(A[p], t) = {"sync"}

\* The extractor sees what binds the triggers of the plugin in A.
Plain(A, triggers) ==
  \A p \in Loads(A) : A[p] # Unparseable => OnlyDefsBind(A[p], triggers)

-----------------------------------------------------------------------------

Packaged == At("ended") /\ pkg.error = "none"

\* The shape of the directory and of the packaging; every file in the archive
\* has the contents that a file had.
TypeOK ==
  /\ \A p \in Paths : disk[p] \in Entries[p] \cup {Absent}
  /\ edited \subseteq Paths /\ edits \in 0 .. MaxEdits
  /\ pkg.at \in {"manifest", "classify", "entryPoint", "select", "archive", "ended"}
  /\ pkg.manifest \in Manifests \cup {None} /\ pkg.entry \in EntryPoint \cup {None}
  /\ pkg.report \subseteq ValidationError
  /\ pkg.error \in {"none", "io", "invalid", "exclude", "pathTooLong", "archive"}
  /\ DOMAIN pkg.todo \subseteq Paths
  /\ \A i \in DOMAIN pkg.archive : \E p \in Paths :
       /\ pkg.archive[i].path = Normalized[p]
       /\ pkg.archive[i].data \in {f.holds : f \in Entries[p]}
       /\ pkg.archive[i].mode \in {"0644", "0755"}

\* What package produces, the engine can run: the archive has the manifest of
\* the new entry, and one entry point that binds its triggers.  Two walks and
\* two reads lie between the check and the archive; only a change of a
\* top-level file can come between, never one of a helper module.
ArchiveRuns ==
  LET A == Unpacked(pkg.archive) IN
  Packaged /\ TopLevel(edited) = {} /\ Plain(A, pkg.manifest.triggers) =>
    /\ Runs(A, pkg.manifest.triggers)
    /\ A[Manifest] = pkg.manifest

\* validate refuses no plugin that the engine could run: when nothing changes
\* under it and the entry point can be read, its report has a cause.
RefusedForCause ==
  /\ pkg.error = "invalid" /\ pkg.manifest # None /\ edited = {}
  /\ pkg.entry # None => "NoEntryPoint" \notin pkg.report
  => LET A == [p \in Selected(disk, pkg.manifest.exclude) |-> disk[p].holds]
     IN  Plain(A, pkg.manifest.triggers) => ~Runs(A, pkg.manifest.triggers)

\* plugin_source_files.rs: in whatever order the patterns stand, a `!` on the
\* path of a file takes precedence over a directory exclude that covers it.
WhitelistWins ==
  \A p \in Paths \ edited :
    LET exclude == pkg.manifest.exclude
        own == Matching(exclude, p, Len(p))
    IN  /\ Packaged /\ disk[p] # Absent /\ ~disk[p].link
        /\ own # {} /\ \A i \in own : exclude[i].whitelist
        => \E i \in DOMAIN pkg.archive : pkg.archive[i].path = Normalized[p]

\* archive.rs: the archive is a function of the directory, whatever the order
\* of the walk and the steps in which it was read: every selected file is in
\* it with its executable bit and its contents, sorted by path, and once.  Of
\* two names with one normalized form both are there; the walk decides which
\* comes first.
Reproducible ==
  LET files == Selected(disk, pkg.manifest.exclude)
      twice(p) == \E q \in files \ {p} : Normalized[p] = Normalized[q]
      entry(e, p) == /\ e.path = Normalized[p] /\ e.data = disk[p].holds
                     /\ e.mode = IF disk[p].is_exec THEN "0755" ELSE "0644"
  IN  Packaged /\ edited = {} =>
        /\ \A p \in files : \E i \in DOMAIN pkg.archive : entry(pkg.archive[i], p)
        /\ \A i \in DOMAIN pkg.archive : \E p \in files :
             /\ entry(pkg.archive[i], p)
             /\ \A j \in i + 1 .. Len(pkg.archive) : \E q \in files :
                  /\ pkg.archive[j].path = Normalized[q]
                  /\ Rank[p] < Rank[q] \/ (Rank[p] = Rank[q] /\ twice(p))

=============================================================================
