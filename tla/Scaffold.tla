------------------------------ MODULE Scaffold ------------------------------
(***************************************************************************)
(* `influxdb3-plugin new`: invocations that scaffold plugin and index      *)
(* directories under one parent directory.  Every check reads the disk and *)
(* every write comes later, so a second invocation, a failing disk or a    *)
(* kill (an invocation that takes no further step) can come between.       *)
(***************************************************************************)
EXTENDS PluginName, FiniteSets, Sequences

CONSTANTS
  Procs,      \* invocations of `new`
  Jobs,       \* command lines, with a valid name and URL
  Layouts,    \* what the parent directory may hold at the start
  Absent,     \* no file
  Foreign,    \* a file that no invocation wrote
  Partial     \* a file whose write was cut short

\* <name>.py is a pair, every other file a one-tuple.
Py(n) == <<"py", n>>

IsPython(f) == f = <<"__init__.py">> \/ \E n \in Names : f = Py(n)

Files ==
  {<<"manifest.toml">>, <<"README.md">>, <<"index.json">>, <<"__init__.py">>}
  \cup {Py(n) : n \in Names}

\* A directory's basename is a plugin name.  A bare path has no `/`.
ASSUME ScaffoldAssumption ==
  /\ Jobs \subseteq [kind : {"plugin", "index"}, dir : Names, name : Names,
                     force : BOOLEAN, bare : BOOLEAN]
  /\ \A layout \in Layouts :
       /\ layout.dirs \subseteq Names
       /\ layout.files \in [Names -> [Files -> {Absent, Foreign}]]
       /\ \A d \in Names \ layout.dirs, f \in Files : layout.files[d][f] = Absent

VARIABLES
  dirs,        \* the directories under the parent
  files,       \* their files
  proc,        \* each invocation: where it is, what it has written
  sequential   \* one invocation at a time

vars == <<dirs, files, proc, sequential>>

Job(p) == proc[p].job

\* Mutant: a plugin gets an index too.
WriteSetWithIndex(job) ==
  <<<<"manifest.toml">>, Py(job.name), <<"README.md">>, <<"index.json">>>>

\* The template's files, in the order in which they are written.
WriteSet(job) ==
  IF job.kind = "index"
  THEN <<<<"index.json">>>>
  ELSE <<<<"manifest.toml">>, Py(job.name), <<"README.md">>>>

InWriteSet(job, f) == \E i \in DOMAIN WriteSet(job) : WriteSet(job)[i] = f

\* A file holds the bytes that an invocation with this job writes to it.
Made(job) == <<job.kind, job.name>>

ASSUME ContentsAssumption ==
  /\ Absent # Foreign /\ Partial \notin {Absent, Foreign}
  /\ \A job \in Jobs : Made(job) \notin {Absent, Foreign, Partial}

Init ==
  /\ \E layout \in Layouts : dirs = layout.dirs /\ files = layout.files
  /\ sequential \in BOOLEAN
  /\ \E job \in [Procs -> Jobs] :
       proc = [p \in Procs |->
                 [job |-> job[p], at |-> "start", written |-> 0, error |-> "none"]]

-----------------------------------------------------------------------------

At(p, step) == proc[p].at = step

Goto(p, step) == proc' = [proc EXCEPT ![p].at = step]

Fails(p, error) == proc' = [proc EXCEPT ![p].at = "exited", ![p].error = error]

Running(p) == ~At(p, "start") /\ ~At(p, "exited")

MayRun(p) == sequential => \A q \in Procs \ {p} : ~Running(q)

UnchangedDisk == UNCHANGED <<dirs, files, sequential>>

Collides(d, n) == canonical_name(d) = canonical_name(n) /\ d # n

\* Mutant: siblings are compared with case folded and the separator kept.
CheckSiblingsByCase(p) ==
  /\ At(p, "start") /\ MayRun(p)
  /\ UnchangedDisk
  /\ IF \E d \in dirs : d # Job(p).name
                      /\ [d EXCEPT !.upper = FALSE] = [Job(p).name EXCEPT !.upper = FALSE]
     THEN Fails(p, "usage")
     ELSE Goto(p, "ensureDir")

\* check_sibling_canonical_collision: a bare path has the parent "", which
\* cannot be read, and an unreadable parent has no siblings.
CheckSiblings(p) ==
  /\ At(p, "start") /\ MayRun(p)
  /\ UnchangedDisk
  /\ IF /\ Job(p).kind = "plugin" /\ ~Job(p).bare
        /\ \E d \in dirs : Collides(d, Job(p).name)
     THEN Fails(p, "usage")
     ELSE Goto(p, "ensureDir")

ensure_dir(p) ==
  /\ At(p, "ensureDir")
  /\ UNCHANGED <<files, sequential>>
  /\ \/ Fails(p, "io") /\ UNCHANGED dirs
     \/ Goto(p, "entryPoints") /\ dirs' = dirs \cup {Job(p).dir}

\* Mutant: only a legacy __init__.py is looked for.
OtherInit(d, own) == files[d][<<"__init__.py">>] # Absent

OtherPython(d, own) == \E f \in Files \ {own} : IsPython(f) /\ files[d][f] # Absent

\* check_no_other_python_entry_points, with or without --force: reading the
\* directory may fail.
CheckEntryPoints(p) ==
  /\ At(p, "entryPoints")
  /\ UnchangedDisk
  /\ \/ Job(p).kind = "plugin" /\ Fails(p, "io")
     \/ IF Job(p).kind = "plugin" /\ OtherPython(Job(p).dir, Py(Job(p).name))
        THEN Fails(p, "conflict")
        ELSE Goto(p, "existing")

\* Mutant: the manifest stands for the whole write set.
SomeExistsManifest(p) == files[Job(p).dir][<<"manifest.toml">>] # Absent

SomeExists(p) == \E f \in Files : InWriteSet(Job(p), f) /\ files[Job(p).dir][f] # Absent

check_no_existing(p) ==
  /\ At(p, "existing")
  /\ UnchangedDisk
  /\ IF ~Job(p).force /\ SomeExists(p)
     THEN Fails(p, "conflict")
     ELSE Goto(p, "write")

\* Mutant: a file that is there already, whole or not, is not written again.
WriteMissing(p) ==
  /\ At(p, "write")
  /\ UNCHANGED <<dirs, sequential>>
  /\ LET done == proc[p].written + 1
         f == WriteSet(Job(p))[done]
         Put(c) == files' = [files EXCEPT ![Job(p).dir][f] = c]
     IN  \/ Fails(p, "io") /\ (Put(Partial) \/ UNCHANGED files)
         \/ /\ IF files[Job(p).dir][f] = Absent THEN Put(Made(Job(p))) ELSE UNCHANGED files
            /\ proc' = [proc EXCEPT ![p].written = done,
                          ![p].at = IF done = Len(WriteSet(Job(p)))
                                    THEN "exited" ELSE "write"]

\* write_file on the next file of the template; a write that fails, or that a
\* kill interrupts, may leave the file unfinished.
write_file(p) ==
  /\ At(p, "write")
  /\ UNCHANGED <<dirs, sequential>>
  /\ LET done == proc[p].written + 1
         f == WriteSet(Job(p))[done]
         Put(c) == files' = [files EXCEPT ![Job(p).dir][f] = c]
     IN  \/ Fails(p, "io") /\ (Put(Partial) \/ UNCHANGED files)
         \/ /\ Put(Made(Job(p)))
            /\ proc' = [proc EXCEPT ![p].written = done,
                          ![p].at = IF done = Len(WriteSet(Job(p)))
                                    THEN "exited" ELSE "write"]

Next ==
  \E p \in Procs :
    \/ CheckSiblings(p) \/ ensure_dir(p) \/ CheckEntryPoints(p)
    \/ check_no_existing(p) \/ write_file(p)

Spec == Init /\ [][Next]_vars

-----------------------------------------------------------------------------

Succeeded(p) == At(p, "exited") /\ proc[p].error = "none"

\* Nobody else was told to work in p's directory.
Alone(p) == \A q \in Procs \ {p} : Job(q).dir # Job(p).dir

\* Nobody else works in p's directory while p does.
Undisturbed(p) == sequential \/ Alone(p)

\* The shape of the disk and of every invocation.
TypeOK ==
  /\ dirs \subseteq Names
  /\ files \in [Names -> [Files -> {Absent, Foreign, Partial} \cup {Made(j) : j \in Jobs}]]
  /\ proc \in [Procs ->
       [job : Jobs, written : 0 .. 3, error : {"none", "usage", "conflict", "io"},
        at : {"start", "ensureDir", "entryPoints", "existing", "write", "exited"}]]
  /\ sequential \in BOOLEAN

\* A file that is there, the user's or an earlier scaffold's, whole or torn,
\* is replaced only by an invocation with --force whose template has that very
\* file.  What the window between the check and the writes costs is no more
\* than this: of invocations that overlap, one may replace what another made.
UserFilesKept ==
  [][\A d \in Names, f \in Files :
       files[d][f] # Absent /\ files'[d][f] # files[d][f] =>
         \E p \in Procs :
           /\ proc'[p] # proc[p]
           /\ Job(p).dir = d /\ InWriteSet(Job(p), f)
           /\ \/ Job(p).force
              \/ /\ ~sequential /\ files[d][f] # Foreign
                 /\ \E q \in Procs \ {p} :
                      ~At(q, "start") /\ Job(q).dir = d /\ InWriteSet(Job(q), f)
    ]_vars

\* When `new` reports a plugin directory as done in which nobody else worked
\* meanwhile, it holds the whole template and exactly one entry point, so that
\* `validate` classifies it as a single-file plugin, whatever invocation,
\* failed half-way or not, had worked there before; and it stays so where no
\* other invocation is given the directory.
SuccessClassifies ==
  [][\A p \in Procs :
       /\ Succeeded(p)' /\ Job(p).kind = "plugin"
       /\ Undisturbed(p) /\ (Succeeded(p) => Alone(p))
       => /\ \A f \in Files : InWriteSet(Job(p), f) => files'[Job(p).dir][f] = Made(Job(p))
          /\ \A f \in Files :
               IsPython(f) /\ files'[Job(p).dir][f] # Absent => f = Py(Job(p).name)
    ]_vars

\* Invocations that run one after the other never leave two directories under
\* one parent that a registry could not publish together, when each path is
\* spelled with its parent and named after its directory.
SiblingsPublishable ==
  sequential =>
    \A p, q \in Procs :
      /\ Succeeded(p) /\ Job(p).kind = "plugin" /\ Job(p).dir = Job(p).name
      /\ Succeeded(q) /\ Job(q).kind = "plugin" /\ Job(q).dir = Job(q).name
      /\ ~Job(p).bare /\ ~Job(q).bare
      => ~Collides(Job(p).name, Job(q).name)

-----------------------------------------------------------------------------
(* What a comment says, and the code does not do.                            *)

\* new/mod.rs: the check falls back to "." for a bare relative name.
BarePathsChecked ==
  \A p \in Procs :
    Succeeded(p) /\ Job(p).kind = "plugin" /\ Job(p).bare =>
      \A d \in dirs : ~Collides(d, Job(p).name)

=============================================================================
