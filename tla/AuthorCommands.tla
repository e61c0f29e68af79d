--------------------------- MODULE AuthorCommands ---------------------------
(***************************************************************************)
(* `influxdb3-plugin package` and `influxdb3-plugin yank` as processes     *)
(* over one file system.  A process takes a step at each system call that  *)
(* another process, or its own death, can come between: a process that is  *)
(* killed is one that takes no further step.                               *)
(*                                                                         *)
(* std::fs::write truncates the file, then writes: between the two, and    *)
(* after a failed write, the file is not a document.                       *)
(***************************************************************************)
EXTENDS IndexOps

CONSTANTS
  Procs,       \* invocations
  Paths,       \* spellings of directories in arguments
  Dirs,        \* directories
  Real,        \* the directory a path resolves to
  IndexLink,   \* the directory whose index.json file d/index.json is
  Jobs,        \* command lines
  Hosted,      \* the index.json file of each directory at the start
  Absent, Empty, Partial,  \* no file, a truncated file, an unfinished one
  None

NotDocuments == {Absent, Empty, Partial}

Ids == Names \X Versions

ASSUME FileSystemAssumption ==
  /\ Real \in [Paths -> Dirs]
  /\ IndexLink \in [Dirs -> Dirs]
  /\ Hosted \in [Dirs -> Index \cup {Absent}]
  /\ Jobs \subseteq
       [cmd : {"package"}, in : Paths, out : Paths, name : Names,
        version : Versions, description : Descriptions]
       \cup [cmd : {"yank"}, in : Paths, out : Paths, name : Names,
             version : Versions, target : BOOLEAN]
  /\ None \notin Index /\ None \notin Hashes
  /\ NotDocuments \cap Index = {} /\ NotDocuments \cap Hashes = {}
  /\ Empty \notin {Absent, Partial} /\ Absent # Partial

VARIABLES
  indexFile,     \* the contents of each index.json file
  artifactFile,  \* the contents of each archive, by directory and name-version
  proc           \* each invocation: where it is, what it has read and built

\* History: the outputs of each invocation that another one opened after it,
\* or was still writing when it opened them.
VARIABLE contested

vars == <<indexFile, artifactFile, proc, contested>>

Steps == {"read", "prepare", "build", "openArtifact", "writeArtifact",
          "openIndex", "writeIndex", "report", "exited"}

Job(p) == proc[p].job

\* The index.json file --index names, and the one under --out; the archive.
InFile(p)  == IndexLink[Real[Job(p).in]]
OutDir(p)  == Real[Job(p).out]
OutFile(p) == IndexLink[OutDir(p)]
Id(p)      == <<Job(p).name, Job(p).version>>

Init ==
  /\ indexFile = Hosted
  /\ artifactFile = [d \in Dirs |-> [id \in Ids |-> Absent]]
  /\ \E job \in [Procs -> Jobs] :
       proc = [p \in Procs |->
                 [job |-> job[p], at |-> "read", input |-> None, derived |-> None,
                  hash |-> None, opened |-> {}, error |-> "none"]]
  /\ contested = [p \in Procs |-> {}]

-----------------------------------------------------------------------------

At(p, step) == proc[p].at = step

Goto(p, step) == proc' = [proc EXCEPT ![p].at = step]

\* The command ends with a CliError: "usage" is exit 2, the others exit 1.
Fails(p, error) == proc' = [proc EXCEPT ![p].at = "exited", ![p].error = error]

UnchangedFiles == UNCHANGED <<indexFile, artifactFile, contested>>

\* Read and parse --index, before --out is created.
ReadIndex(p) ==
  /\ At(p, "read")
  /\ UnchangedFiles
  /\ LET raw == indexFile[InFile(p)] IN
     \/ /\ raw \notin NotDocuments
        /\ Parses(raw.plugins)
        /\ proc' = [proc EXCEPT ![p].at = "prepare", ![p].input = raw]
     \/ /\ raw \notin NotDocuments => ~Parses(raw.plugins)
        /\ Fails(p, "refused")
     \/ Fails(p, "io")

\* Mutant: the paths are compared as they are spelled.
SpelledOverlap(p) == Job(p).in = Job(p).out

\* canonicalize follows index.json itself when it is a link.
paths_overlap(p) == InFile(p) = OutDir(p)

\* create_dir_all on --out, then the path-equivalence check.
PrepareOut(p) ==
  /\ At(p, "prepare")
  /\ UnchangedFiles
  /\ \/ Fails(p, "io")
     \/ paths_overlap(p) /\ Fails(p, "usage")
     \/ ~paths_overlap(p) /\ Goto(p, "build")

\* Mutant: the archive is opened before the derived index is serialized.
PackageEagerly(p) ==
  /\ At(p, "build") /\ Job(p).cmd = "package"
  /\ UNCHANGED <<indexFile, contested>>
  /\ \E h \in Hashes, t \in Times :
       LET e == from_manifest(Job(p).name, Job(p).version, Job(p).description, h, t)
           derived == to_canonical_json(push_entry(proc[p].input.plugins, e))
       IN  /\ check_entry_insert(proc[p].input.plugins, e) = "Ok"
           /\ artifactFile' = [artifactFile EXCEPT ![OutDir(p)][Id(p)] = Empty]
           /\ proc' = [proc EXCEPT ![p].at = "exited", ![p].error = "refused",
                                   ![p].opened = {"artifact"}]
           /\ derived = {}

\* package_plugin and to_canonical_json, in memory: the archive's hash comes
\* from the plugin's sources as they are now, published_at from the clock.
Package(p) ==
  /\ At(p, "build") /\ Job(p).cmd = "package"
  /\ UnchangedFiles
  /\ \/ Fails(p, "refused")     \* the plugin directory does not validate
     \/ \E h \in Hashes, t \in Times :
          LET e == from_manifest(Job(p).name, Job(p).version, Job(p).description, h, t)
              s == proc[p].input.plugins
          IN  \/ check_entry_insert(s, e) # "Ok" /\ Fails(p, "refused")
              \/ to_canonical_json(push_entry(s, e)) = {} /\ Fails(p, "refused")
              \/ /\ check_entry_insert(s, e) = "Ok"
                 /\ \E derived \in to_canonical_json(push_entry(s, e)) :
                      proc' = [proc EXCEPT ![p].at = "openArtifact",
                                           ![p].hash = h, ![p].derived = derived]

\* mutate_index::yank or unyank, and to_canonical_json, in memory.
Yank(p) ==
  /\ At(p, "build") /\ Job(p).cmd = "yank"
  /\ UnchangedFiles
  /\ LET s == proc[p].input.plugins
         found == find_mut(s, Job(p).name, Job(p).version)
     IN  \/ found = {} /\ Fails(p, "refused")
         \/ \E i \in found :
              LET derived == to_canonical_json(set_yanked(s, i, Job(p).target))
              IN  \/ derived = {} /\ Fails(p, "refused")
                  \/ \E doc \in derived :
                       proc' = [proc EXCEPT ![p].at = "openIndex", ![p].derived = doc]

-----------------------------------------------------------------------------
(* std::fs::write.                                                          *)

SameArtifact(p, q) == OutDir(p) = OutDir(q) /\ Id(p) = Id(q)

SameIndex(p, q) == OutFile(p) = OutFile(q)

\* Another invocation is between truncating and writing one of p's files.
SharesArtifact(p) ==
  \E q \in Procs \ {p} : At(q, "writeArtifact") /\ SameArtifact(p, q)

SharesIndex(p) ==
  \E q \in Procs \ {p} : At(q, "writeIndex") /\ SameIndex(p, q)

\* p opens one of its outputs: it takes the file from those who opened it
\* before, and shares it with a writer that is not done.
Contests(p, output, others, shared) ==
  LET rivals == {q \in others \ {p} : output \in proc[q].opened}
                  \cup (IF shared THEN {p} ELSE {})
  IN  contested' = [q \in Procs |->
                      IF q \in rivals THEN contested[q] \cup {output} ELSE contested[q]]

\* What a file holds after a write that succeeds: over the bytes of another
\* writer, what was written or a mixture; and after one that fails.
Written(contents, new, shared) ==
  IF contents = Empty /\ ~shared THEN {new} ELSE {new, Partial}

Interrupted(contents) == {Partial} \cup ({contents} \ {Empty})

OpenArtifact(p) ==
  /\ At(p, "openArtifact")
  /\ UNCHANGED indexFile
  /\ \/ Fails(p, "io") /\ UNCHANGED <<artifactFile, contested>>
     \/ /\ Contests(p, "artifact", {q \in Procs : SameArtifact(p, q)}, SharesArtifact(p))
        /\ artifactFile' = [artifactFile EXCEPT ![OutDir(p)][Id(p)] = Empty]
        /\ proc' = [proc EXCEPT ![p].at = "writeArtifact",
                                ![p].opened = @ \cup {"artifact"}]

\* Mutant: the result of the archive's write is dropped.
WriteArtifactUnchecked(p) ==
  /\ At(p, "writeArtifact")
  /\ UNCHANGED <<indexFile, contested>>
  /\ Goto(p, "openIndex")
  /\ \E c \in {proc[p].hash} \cup Interrupted(artifactFile[OutDir(p)][Id(p)]) :
       artifactFile' = [artifactFile EXCEPT ![OutDir(p)][Id(p)] = c]

WriteArtifact(p) ==
  /\ At(p, "writeArtifact")
  /\ UNCHANGED <<indexFile, contested>>
  /\ LET contents == artifactFile[OutDir(p)][Id(p)] IN
     \/ /\ Fails(p, "io")
        /\ \E c \in Interrupted(contents) :
             artifactFile' = [artifactFile EXCEPT ![OutDir(p)][Id(p)] = c]
     \/ /\ Goto(p, "openIndex")
        /\ \E c \in Written(contents, proc[p].hash, SharesArtifact(p)) :
             artifactFile' = [artifactFile EXCEPT ![OutDir(p)][Id(p)] = c]

OpenIndex(p) ==
  /\ At(p, "openIndex")
  /\ UNCHANGED artifactFile
  /\ \/ Fails(p, "io") /\ UNCHANGED <<indexFile, contested>>
     \/ /\ Contests(p, "index", {q \in Procs : SameIndex(p, q)}, SharesIndex(p))
        /\ indexFile' = [indexFile EXCEPT ![OutFile(p)] = Empty]
        /\ proc' = [proc EXCEPT ![p].at = "writeIndex", ![p].opened = @ \cup {"index"}]

\* Mutant: the result of the index's write is dropped.
WriteIndexUnchecked(p) ==
  /\ At(p, "writeIndex")
  /\ UNCHANGED <<artifactFile, contested>>
  /\ Goto(p, "report")
  /\ \E c \in {proc[p].derived} \cup Interrupted(indexFile[OutFile(p)]) :
       indexFile' = [indexFile EXCEPT ![OutFile(p)] = c]

WriteIndex(p) ==
  /\ At(p, "writeIndex")
  /\ UNCHANGED <<artifactFile, contested>>
  /\ LET contents == indexFile[OutFile(p)] IN
     \/ /\ Fails(p, "io")
        /\ \E c \in Interrupted(contents) :
             indexFile' = [indexFile EXCEPT ![OutFile(p)] = c]
     \/ /\ Goto(p, "report")
        /\ \E c \in Written(contents, proc[p].derived, SharesIndex(p)) :
             indexFile' = [indexFile EXCEPT ![OutFile(p)] = c]

\* The result goes to stdout, which may be closed.
Report(p) ==
  /\ At(p, "report")
  /\ UnchangedFiles
  /\ Goto(p, "exited") \/ Fails(p, "io")

Next ==
  \E p \in Procs :
    \/ ReadIndex(p)    \/ PrepareOut(p)    \/ Package(p)   \/ Yank(p)
    \/ OpenArtifact(p) \/ WriteArtifact(p) \/ OpenIndex(p) \/ WriteIndex(p)
    \/ Report(p)

Spec == Init /\ [][Next]_vars

-----------------------------------------------------------------------------

\* The shape of the files and of every invocation.
TypeOK ==
  /\ indexFile \in [Dirs -> Index \cup NotDocuments]
  /\ artifactFile \in [Dirs -> [Ids -> Hashes \cup NotDocuments]]
  /\ proc \in [Procs ->
       [job : Jobs, at : Steps, input : Index \cup {None}, derived : Index \cup {None},
        hash : Hashes \cup {None}, opened : SUBSET {"artifact", "index"},
        error : {"none", "usage", "refused", "io"}]]
  /\ contested \in [Procs -> SUBSET {"artifact", "index"}]

\* S2-11 and S2-12: no invocation ever opens for writing the file that its
\* own --index names, however the two arguments are spelled.
InputUntouched ==
  \A p \in Procs : "index" \in proc[p].opened => OutFile(p) # InFile(p)

\* The document under --out names the archive that stands beside it.
NamesArchive(p) ==
  \E e \in EntriesOf(proc[p].derived.plugins) :
    /\ <<e.name, e.version>> = Id(p)
    /\ e.hash = artifactFile[OutDir(p)][Id(p)]

\* package writes the archive first, so from the moment it truncates
\* <out>/index.json, through every later crash and failed write, the archive
\* is whole and the one its new entry names, unless another invocation
\* overwrote it afterwards or while it was being written.
ArtifactBeforeIndex ==
  \A p \in Procs :
    Job(p).cmd = "package" /\ "index" \in proc[p].opened =>
      NamesArchive(p) \/ "artifact" \in contested[p]

\* A command that exits 0 leaves both its outputs under --out, whole and
\* agreeing with each other, whatever earlier commands, failed or finished,
\* left there: only a command that opens the same file later, or was writing
\* it at the same time, can take them away again.
ExitZeroMeansWritten ==
  \A p \in Procs :
    At(p, "exited") /\ proc[p].error = "none" =>
      /\ indexFile[OutFile(p)] = proc[p].derived \/ "index" \in contested[p]
      /\ Job(p).cmd = "package" => NamesArchive(p) \/ "artifact" \in contested[p]

\* A command that refuses its arguments, its input or its plugin has opened
\* no file of --out: only a failing disk leaves half of the outputs behind.
RefusalTouchesNothing ==
  \A p \in Procs :
    proc[p].error \in {"usage", "refused"} => proc[p].opened = {}

=============================================================================
