-------------------------- MODULE AuthorCommandsProofs --------------------------
(***************************************************************************)
(* Theorems about AuthorCommands for any number of invocations, of         *)
(* directories and of command lines, and for every interleaving, failing   *)
(* write and kill: what the order of the two writes and the check of the   *)
(* two paths give.                                                         *)
(***************************************************************************)
EXTENDS AuthorCommands, IndexOpsProofs

-----------------------------------------------------------------------------
(* Types.                                                                   *)

ProcState ==
  [job : Jobs, at : Steps, input : Index \cup {None}, derived : Index \cup {None},
   hash : Hashes \cup {None}, opened : SUBSET {"artifact", "index"},
   error : {"none", "usage", "refused", "io"}]

\* What each step finds: the input it reads, the document and the hash it
\* writes.
Prepared(p) ==
  /\ proc[p].at \in {"prepare", "build"} => proc[p].input \in Index
  /\ Job(p).cmd = "package" /\ proc[p].at \in {"openArtifact", "writeArtifact"} =>
       proc[p].hash \in Hashes
  /\ proc[p].at \in {"openArtifact", "writeArtifact", "openIndex", "writeIndex"} =>
       proc[p].derived \in Index
  /\ proc[p].at \in {"openArtifact", "writeArtifact"} => Job(p).cmd = "package"

Typed == TypeOK /\ \A p \in Procs : Prepared(p)

\* A command line is of package or of yank.
LEMMA JobFields ==
  ASSUME NEW j \in Jobs
  PROVE  /\ j.in \in Paths /\ j.out \in Paths /\ j.name \in Names /\ j.version \in Versions
         /\ j.cmd \in {"package", "yank"}
         /\ j.cmd = "package" => j.description \in Descriptions
         /\ j.cmd = "yank" => j.target \in BOOLEAN
BY FileSystemAssumption

\* The files that an invocation names.
LEMMA FileNames ==
  ASSUME TypeOK, NEW p \in Procs
  PROVE  /\ proc[p] \in ProcState
         /\ InFile(p) \in Dirs /\ OutDir(p) \in Dirs /\ OutFile(p) \in Dirs /\ Id(p) \in Ids
<1>1. proc[p] \in ProcState
  BY DEF TypeOK, ProcState
<1>2. Job(p) \in Jobs
  BY <1>1 DEF Job, ProcState
<1> QED BY <1>1, <1>2, JobFields, FileSystemAssumption DEF InFile, OutDir, OutFile, Id, Ids

\* Nothing has run yet.
LEMMA TypedInit == Init => Typed
<1> SUFFICES ASSUME Init PROVE Typed
  OBVIOUS
<1>1. indexFile \in [Dirs -> Index \cup NotDocuments]
  BY FileSystemAssumption DEF Init, NotDocuments
<1>2. artifactFile \in [Dirs -> [Ids -> Hashes \cup NotDocuments]]
  BY DEF Init, NotDocuments
<1>3. \A p \in Procs : proc[p] \in ProcState /\ proc[p].at = "read"
  BY DEF Init, ProcState, Steps
<1>4. proc \in [Procs -> ProcState]
  BY <1>3 DEF Init
<1>5. contested \in [Procs -> SUBSET {"artifact", "index"}]
  BY DEF Init
<1> QED BY <1>1, <1>2, <1>3, <1>4, <1>5 DEF Typed, TypeOK, ProcState, Prepared, At

\* A step of one invocation is a step of its record.
LEMMA OneMoves ==
  ASSUME TypeOK, NEW p \in Procs, NEW r \in ProcState, proc' = [proc EXCEPT ![p] = r],
         indexFile' \in [Dirs -> Index \cup NotDocuments],
         artifactFile' \in [Dirs -> [Ids -> Hashes \cup NotDocuments]],
         contested' \in [Procs -> SUBSET {"artifact", "index"}]
  PROVE  TypeOK' /\ proc'[p] = r /\ \A q \in Procs \ {p} : proc'[q] = proc[q]
BY DEF TypeOK, ProcState

-----------------------------------------------------------------------------
(* The inductive invariant: what each step of an invocation may rely on.    *)

\* An invocation opens nothing before it has compared the two paths and
\* built its output, and the archive before the index.
Ordered(p) ==
  /\ proc[p].at \in {"read", "prepare", "build"} => proc[p].opened = {}
  /\ proc[p].at # "exited" => proc[p].error = "none"
  /\ proc[p].error \in {"usage", "refused"} => proc[p].opened = {}
  /\ proc[p].at \notin {"read", "prepare", "exited"} => ~paths_overlap(p)
  /\ "index" \in proc[p].opened => ~paths_overlap(p)
  /\ proc[p].at \in {"openArtifact", "writeArtifact", "openIndex"} => "index" \notin proc[p].opened
  /\ At(p, "writeArtifact") => "artifact" \in proc[p].opened
  /\ At(p, "writeIndex") => "index" \in proc[p].opened
  /\ At(p, "report") \/ (At(p, "exited") /\ proc[p].error = "none") => "index" \in proc[p].opened
  /\ Job(p).cmd = "package" /\ (At(p, "openIndex") \/ "index" \in proc[p].opened) =>
       "artifact" \in proc[p].opened

\* An archive that is to be written is the one that the new entry names.
Built(r) ==
  \E e \in EntriesOf(r.derived.plugins) :
    <<e.name, e.version>> = <<r.job.name, r.job.version>> /\ e.hash = r.hash

Named(p) ==
  Job(p).cmd = "package" /\ (At(p, "openArtifact") \/ "artifact" \in proc[p].opened) =>
    Built(proc[p])

\* While nobody contests the archive that p opened, nobody else is writing it:
\* it is empty until p writes it, and whole from then on.
ArchiveOf(p) ==
  "artifact" \in proc[p].opened /\ "artifact" \notin contested[p] =>
    /\ ~SharesArtifact(p)
    /\ At(p, "writeArtifact") => artifactFile[OutDir(p)][Id(p)] = Empty
    /\ At(p, "openIndex") \/ "index" \in proc[p].opened =>
         artifactFile[OutDir(p)][Id(p)] = proc[p].hash

\* The same of the index.
IndexOf(p) ==
  "index" \in proc[p].opened /\ "index" \notin contested[p] =>
    /\ ~SharesIndex(p)
    /\ At(p, "writeIndex") => indexFile[OutFile(p)] = Empty
    /\ At(p, "report") \/ (At(p, "exited") /\ proc[p].error = "none") =>
         indexFile[OutFile(p)] = proc[p].derived

Kept(p) == Prepared(p) /\ Ordered(p) /\ Named(p) /\ ArchiveOf(p) /\ IndexOf(p)

IInv == TypeOK /\ \A p \in Procs : Kept(p)

\* p opens, or writes, its archive.
TouchesArchive(p) ==
  /\ UNCHANGED indexFile
  /\ \E c \in Hashes \cup NotDocuments :
       artifactFile' = [artifactFile EXCEPT ![OutDir(p)][Id(p)] = c]
  /\ \/ /\ Contests(p, "artifact", {q \in Procs : SameArtifact(p, q)}, SharesArtifact(p))
        /\ proc'[p].at = "writeArtifact"
     \/ /\ At(p, "writeArtifact") /\ UNCHANGED contested
        /\ proc'[p].at \notin {"writeArtifact", "writeIndex"}

\* p opens, or writes, its index.
TouchesIndex(p) ==
  /\ UNCHANGED artifactFile
  /\ \E c \in Index \cup NotDocuments :
       indexFile' = [indexFile EXCEPT ![OutFile(p)] = c]
  /\ \/ /\ Contests(p, "index", {q \in Procs : SameIndex(p, q)}, SharesIndex(p))
        /\ proc'[p].at = "writeIndex"
     \/ /\ At(p, "writeIndex") /\ UNCHANGED contested
        /\ proc'[p].at \notin {"writeArtifact", "writeIndex"}

\* What a step of p does to the rest of the system.
Moves(p) ==
  /\ \E r \in ProcState : proc' = [proc EXCEPT ![p] = r] /\ r.job = proc[p].job
  /\ \/ UnchangedFiles /\ proc'[p].at \notin {"writeArtifact", "writeIndex"}
     \/ TouchesArchive(p)
     \/ TouchesIndex(p)

\* Contesting adds to what is contested, and takes the file from every other
\* invocation that opened it.
LEMMA ContestsAdds ==
  ASSUME contested \in [Procs -> SUBSET {"artifact", "index"}], NEW p \in Procs,
         NEW output \in {"artifact", "index"}, NEW others, NEW shared \in BOOLEAN,
         Contests(p, output, others, shared)
  PROVE  /\ contested' \in [Procs -> SUBSET {"artifact", "index"}]
         /\ \A q \in Procs : contested[q] \subseteq contested'[q]
         /\ shared => output \in contested'[p]
         /\ \A q \in others \cap Procs : q # p /\ output \in proc[q].opened => output \in contested'[q]
BY DEF Contests

\* A step of one process keeps the types, the others' records, every job, and
\* what is contested.
LEMMA MovesKeep ==
  ASSUME IInv, NEW p \in Procs, Moves(p)
  PROVE  /\ TypeOK'
         /\ \A q \in Procs \ {p} : proc'[q] = proc[q]
         /\ \A q \in Procs : proc'[q].job = proc[q].job /\ contested[q] \subseteq contested'[q]
<1>1. PICK r \in ProcState : proc' = [proc EXCEPT ![p] = r] /\ r.job = proc[p].job
  BY DEF Moves
<1>2. OutDir(p) \in Dirs /\ Id(p) \in Ids /\ OutFile(p) \in Dirs
  BY FileNames DEF IInv
<1>3. artifactFile' \in [Dirs -> [Ids -> Hashes \cup NotDocuments]]
  <2>1. ASSUME NEW c \in Hashes \cup NotDocuments,
               artifactFile' = [artifactFile EXCEPT ![OutDir(p)][Id(p)] = c]
        PROVE  artifactFile' \in [Dirs -> [Ids -> Hashes \cup NotDocuments]]
    <3>1. artifactFile \in [Dirs -> [Ids -> Hashes \cup NotDocuments]]
      BY DEF IInv, TypeOK
    <3> QED BY <1>2, <2>1, <3>1
  <2>2. UNCHANGED artifactFile => artifactFile' \in [Dirs -> [Ids -> Hashes \cup NotDocuments]]
    BY DEF IInv, TypeOK
  <2> QED BY <2>1, <2>2 DEF Moves, TouchesArchive, TouchesIndex, UnchangedFiles
<1>4. indexFile' \in [Dirs -> Index \cup NotDocuments]
  BY <1>2 DEF IInv, TypeOK, Moves, TouchesArchive, TouchesIndex, UnchangedFiles
<1>5. /\ contested' \in [Procs -> SUBSET {"artifact", "index"}]
      /\ \A q \in Procs : contested[q] \subseteq contested'[q]
  <2>1. contested \in [Procs -> SUBSET {"artifact", "index"}]
    BY DEF IInv, TypeOK
  <2>2. SharesArtifact(p) \in BOOLEAN /\ SharesIndex(p) \in BOOLEAN
    BY DEF SharesArtifact, SharesIndex
  <2>3. CASE UNCHANGED contested
    BY <2>1, <2>3
  <2>4. CASE Contests(p, "artifact", {q \in Procs : SameArtifact(p, q)}, SharesArtifact(p))
    BY <2>1, <2>2, <2>4, ContestsAdds
  <2>5. CASE Contests(p, "index", {q \in Procs : SameIndex(p, q)}, SharesIndex(p))
    BY <2>1, <2>2, <2>5, ContestsAdds
  <2> QED BY <2>3, <2>4, <2>5 DEF Moves, TouchesArchive, TouchesIndex, UnchangedFiles
<1>6. TypeOK' /\ proc'[p] = r /\ \A q \in Procs \ {p} : proc'[q] = proc[q]
  BY <1>1, <1>3, <1>4, <1>5, OneMoves DEF IInv
<1> QED BY <1>1, <1>5, <1>6

\* The names of an invocation's files do not change.
LEMMA SameNames ==
  ASSUME IInv, NEW p \in Procs, Moves(p), NEW q \in Procs
  PROVE  /\ Job(q)' = Job(q) /\ InFile(q)' = InFile(q) /\ OutDir(q)' = OutDir(q)
         /\ OutFile(q)' = OutFile(q) /\ Id(q)' = Id(q)
         /\ paths_overlap(q)' = paths_overlap(q)
<1>1. Job(q)' = Job(q)
  BY MovesKeep DEF Job
<1> QED BY <1>1 DEF InFile, OutDir, OutFile, Id, paths_overlap

\* Which invocations share a file does not change.
LEMMA SameFiles ==
  ASSUME IInv, NEW p \in Procs, Moves(p), NEW q \in Procs, NEW w \in Procs
  PROVE  SameArtifact(q, w)' = SameArtifact(q, w) /\ SameIndex(q, w)' = SameIndex(q, w)
BY SameNames DEF SameArtifact, SameIndex

\* What p does leaves every other invocation its archive: p takes the file it
\* opens from those who opened it before, and writes no file that another one
\* holds uncontested.
LEMMA OtherArchives ==
  ASSUME IInv, NEW p \in Procs, Moves(p), NEW q \in Procs, q # p
  PROVE  ArchiveOf(q)'
<1> SUFFICES ASSUME "artifact" \in proc'[q].opened, "artifact" \notin contested'[q]
             PROVE  /\ ~SharesArtifact(q)'
                    /\ artifactFile'[OutDir(q)][Id(q)] = artifactFile[OutDir(q)][Id(q)]
  BY MovesKeep, SameNames DEF IInv, Kept, ArchiveOf, At
<1>1. /\ proc'[q] = proc[q] /\ "artifact" \in proc[q].opened /\ "artifact" \notin contested[q]
      /\ ~SharesArtifact(q)
  BY MovesKeep DEF IInv, Kept, ArchiveOf
<1>2. ASSUME SameArtifact(p, q)
      PROVE  UNCHANGED artifactFile /\ proc'[p].at # "writeArtifact"
  <2>1. ~At(p, "writeArtifact")
    BY <1>1, <1>2 DEF SharesArtifact, SameArtifact
  <2>2. ~Contests(p, "artifact", {w \in Procs : SameArtifact(p, w)}, SharesArtifact(p))
    <3> DEFINE others == {w \in Procs : SameArtifact(p, w)}
               shared == SharesArtifact(p)
    <3>1. q \in others \cap Procs /\ shared \in BOOLEAN
      BY <1>2 DEF SharesArtifact
    <3> HIDE DEF others, shared
    <3>2. ~Contests(p, "artifact", others, shared)
      BY <1>1, <3>1, ContestsAdds DEF IInv, TypeOK
    <3> QED BY <3>2 DEF others, shared
  <2> QED BY <2>1, <2>2 DEF Moves, TouchesArchive, TouchesIndex, UnchangedFiles
<1>3. ~SharesArtifact(q)'
  <2> SUFFICES ASSUME NEW w \in Procs \ {q}, proc'[w].at = "writeArtifact", SameArtifact(q, w)
               PROVE  FALSE
    BY SameFiles DEF SharesArtifact, At
  <2>1. CASE w = p
    BY <1>2, <2>1 DEF SameArtifact
  <2>2. CASE w # p
    BY <1>1, <2>2, MovesKeep DEF SharesArtifact, At
  <2> QED BY <2>1, <2>2
<1>4. artifactFile'[OutDir(q)][Id(q)] = artifactFile[OutDir(q)][Id(q)]
  <2>1. OutDir(p) \in Dirs /\ Id(p) \in Ids /\ OutDir(q) \in Dirs /\ Id(q) \in Ids
    BY FileNames DEF IInv
  <2>2. CASE UNCHANGED artifactFile
    BY <2>2
  <2>3. ASSUME NEW c \in Hashes \cup NotDocuments, ~SameArtifact(p, q),
               artifactFile' = [artifactFile EXCEPT ![OutDir(p)][Id(p)] = c]
        PROVE  artifactFile'[OutDir(q)][Id(q)] = artifactFile[OutDir(q)][Id(q)]
    BY <2>1, <2>3 DEF IInv, TypeOK, SameArtifact
  <2> QED BY <1>2, <2>2, <2>3 DEF Moves, TouchesArchive, TouchesIndex, UnchangedFiles
<1> QED BY <1>3, <1>4

\* The same of its index.
LEMMA OtherIndexes ==
  ASSUME IInv, NEW p \in Procs, Moves(p), NEW q \in Procs, q # p
  PROVE  IndexOf(q)'
<1> SUFFICES ASSUME "index" \in proc'[q].opened, "index" \notin contested'[q]
             PROVE  /\ ~SharesIndex(q)'
                    /\ indexFile'[OutFile(q)] = indexFile[OutFile(q)]
  BY MovesKeep, SameNames DEF IInv, Kept, IndexOf, At
<1>1. /\ proc'[q] = proc[q] /\ "index" \in proc[q].opened /\ "index" \notin contested[q]
      /\ ~SharesIndex(q)
  BY MovesKeep DEF IInv, Kept, IndexOf
<1>2. ASSUME SameIndex(p, q)
      PROVE  UNCHANGED indexFile /\ proc'[p].at # "writeIndex"
  <2>1. ~At(p, "writeIndex")
    BY <1>1, <1>2 DEF SharesIndex, SameIndex
  <2>2. ~Contests(p, "index", {w \in Procs : SameIndex(p, w)}, SharesIndex(p))
    <3> DEFINE others == {w \in Procs : SameIndex(p, w)}
               shared == SharesIndex(p)
    <3>1. q \in others \cap Procs /\ shared \in BOOLEAN
      BY <1>2 DEF SharesIndex
    <3> HIDE DEF others, shared
    <3>2. ~Contests(p, "index", others, shared)
      BY <1>1, <3>1, ContestsAdds DEF IInv, TypeOK
    <3> QED BY <3>2 DEF others, shared
  <2> QED BY <2>1, <2>2 DEF Moves, TouchesArchive, TouchesIndex, UnchangedFiles
<1>3. ~SharesIndex(q)'
  <2> SUFFICES ASSUME NEW w \in Procs \ {q}, proc'[w].at = "writeIndex", SameIndex(q, w)
               PROVE  FALSE
    BY SameFiles DEF SharesIndex, At
  <2>1. CASE w = p
    BY <1>2, <2>1 DEF SameIndex
  <2>2. CASE w # p
    BY <1>1, <2>2, MovesKeep DEF SharesIndex, At
  <2> QED BY <2>1, <2>2
<1>4. indexFile'[OutFile(q)] = indexFile[OutFile(q)]
  <2>1. OutFile(p) \in Dirs /\ OutFile(q) \in Dirs
    BY FileNames DEF IInv
  <2>2. CASE UNCHANGED indexFile
    BY <2>2
  <2>3. ASSUME NEW c \in Index \cup NotDocuments, ~SameIndex(p, q),
               indexFile' = [indexFile EXCEPT ![OutFile(p)] = c]
        PROVE  indexFile'[OutFile(q)] = indexFile[OutFile(q)]
    BY <2>1, <2>3 DEF IInv, TypeOK, SameIndex
  <2> QED BY <1>2, <2>2, <2>3 DEF Moves, TouchesArchive, TouchesIndex, UnchangedFiles
<1> QED BY <1>3, <1>4

\* What p does leaves every other invocation what it relies on.
LEMMA OtherProcs ==
  ASSUME IInv, NEW p \in Procs, Moves(p), NEW q \in Procs, q # p
  PROVE  Kept(q)'
<1>1. proc'[q] = proc[q]
  BY MovesKeep
<1>2. Prepared(q)'
  BY <1>1 DEF IInv, Kept, Prepared, At, Job
<1>3. Ordered(q)'
  BY <1>1, SameNames DEF IInv, Kept, Ordered, At
<1>4. Named(q)'
  BY <1>1 DEF IInv, Kept, Named, At, Job
<1> QED BY <1>2, <1>3, <1>4, OtherArchives, OtherIndexes DEF Kept

-----------------------------------------------------------------------------
(* Steps.                                                                   *)

\* What each action has to show of the invocation that takes it.
Step(p) == Moves(p) /\ Kept(p)'

\* A step that keeps its own promises keeps the invariant.
LEMMA StepSuffices ==
  ASSUME IInv, NEW p \in Procs, Step(p)
  PROVE  IInv'
<1>1. TypeOK'
  BY MovesKeep DEF Step
<1> QED BY <1>1, OtherProcs DEF Step, IInv

\* A step that only reads: it goes on or fails before anything is open.
LEMMA ReadingStep ==
  ASSUME IInv, NEW p \in Procs, proc[p].at \in {"read", "prepare", "build"},
         NEW r \in ProcState, proc' = [proc EXCEPT ![p] = r], UnchangedFiles,
         r.job = proc[p].job, r.opened = proc[p].opened,
         \/ r.at = "exited" /\ r.error # "none"
         \/ /\ r.error = "none" /\ r.at \in {"prepare", "build", "openArtifact", "openIndex"}
            /\ r.at # "prepare" => ~paths_overlap(p)
            /\ r.at \in {"prepare", "build"} => r.input \in Index
            /\ r.at \in {"openArtifact", "openIndex"} => r.derived \in Index
            /\ r.at = "openArtifact" => r.job.cmd = "package" /\ r.hash \in Hashes /\ Built(r)
            /\ r.at = "openIndex" => r.job.cmd = "yank"
  PROVE  Step(p)
<1>1. proc'[p] = r
  BY OneMoves DEF IInv, UnchangedFiles, TypeOK
<1>2. Moves(p)
  BY <1>1 DEF Moves
<1>3. r.opened = {}
  BY DEF IInv, Kept, Ordered
<1>4. paths_overlap(p)' = paths_overlap(p) /\ Job(p)' = Job(p)
  BY <1>2, SameNames
<1>5. Prepared(p)'
  BY <1>1, <1>4 DEF Prepared, At, Job
<1>6. Ordered(p)'
  BY <1>1, <1>3, <1>4 DEF Ordered, At, Job
<1>7. Named(p)'
  BY <1>1, <1>3 DEF Named, At, Job
<1>8. ArchiveOf(p)' /\ IndexOf(p)'
  BY <1>1, <1>3 DEF ArchiveOf, IndexOf
<1> QED BY <1>2, <1>5, <1>6, <1>7, <1>8 DEF Step, Kept

\* A failing step ends the process, and changes nothing else of its record.
LEMMA FailsRecord ==
  ASSUME IInv, NEW p \in Procs, NEW e \in {"usage", "refused", "io"}, Fails(p, e)
  PROVE  \E r \in ProcState :
           /\ proc' = [proc EXCEPT ![p] = r]
           /\ r.job = proc[p].job /\ r.opened = proc[p].opened
           /\ r.at = "exited" /\ r.error = e
<1> DEFINE r == [proc[p] EXCEPT !.at = "exited", !.error = e]
<1>1. proc[p] \in ProcState
  BY FileNames DEF IInv
<1>2. r \in ProcState
  BY <1>1 DEF ProcState, Steps
<1>3. proc' = [proc EXCEPT ![p] = r]
  BY DEF Fails
<1>4. r.job = proc[p].job /\ r.opened = proc[p].opened /\ r.at = "exited" /\ r.error = e
  BY <1>1 DEF ProcState
<1> QED BY <1>2, <1>3, <1>4

\* Reading the index, or failing to.
LEMMA ReadStep ==
  ASSUME IInv, NEW p \in Procs, ReadIndex(p)
  PROVE  Step(p)
<1>1. proc[p].at = "read" /\ UnchangedFiles /\ proc[p] \in ProcState /\ proc[p].error = "none"
  BY FileNames DEF ReadIndex, At, IInv, Kept, Ordered
<1>2. CASE \E e \in {"refused", "io"} : Fails(p, e)
  BY <1>1, <1>2, FailsRecord, ReadingStep
<1>3. ASSUME NEW raw \in Index,
             proc' = [proc EXCEPT ![p].at = "prepare", ![p].input = raw]
      PROVE  Step(p)
  <2> DEFINE r == [proc[p] EXCEPT !.at = "prepare", !.input = raw]
  <2>1. r \in ProcState /\ r.job = proc[p].job /\ r.opened = proc[p].opened
        /\ r.at = "prepare" /\ r.error = "none" /\ r.input \in Index
    BY <1>1 DEF ProcState, Steps
  <2>2. proc' = [proc EXCEPT ![p] = r]
    BY <1>3
  <2> HIDE DEF r
  <2> QED BY <1>1, <2>1, <2>2, ReadingStep
<1>4. indexFile[InFile(p)] \notin NotDocuments => indexFile[InFile(p)] \in Index
  BY FileNames DEF IInv, TypeOK
<1> QED BY <1>2, <1>3, <1>4 DEF ReadIndex

\* Making sure of the output directory, or failing to.
LEMMA PrepareStep ==
  ASSUME IInv, NEW p \in Procs, PrepareOut(p)
  PROVE  Step(p)
<1>1. /\ proc[p].at = "prepare" /\ UnchangedFiles /\ proc[p] \in ProcState
      /\ proc[p].error = "none" /\ proc[p].input \in Index
  BY FileNames DEF PrepareOut, At, IInv, Kept, Ordered, Prepared
<1>2. CASE \E e \in {"usage", "io"} : Fails(p, e)
  BY <1>1, <1>2, FailsRecord, ReadingStep
<1>3. CASE ~paths_overlap(p) /\ Goto(p, "build")
  <2> DEFINE r == [proc[p] EXCEPT !.at = "build"]
  <2>1. r \in ProcState /\ r.job = proc[p].job /\ r.opened = proc[p].opened
        /\ r.at = "build" /\ r.error = "none" /\ r.input \in Index
    BY <1>1 DEF ProcState, Steps
  <2>2. proc' = [proc EXCEPT ![p] = r]
    BY <1>3 DEF Goto
  <2> HIDE DEF r
  <2> QED BY <1>1, <1>3, <2>1, <2>2, ReadingStep
<1> QED BY <1>2, <1>3 DEF PrepareOut

\* What is built in memory is a document.
LEMMA BuildStep ==
  ASSUME IInv, NEW p \in Procs, Package(p) \/ Yank(p)
  PROVE  Step(p)
<1>1. /\ proc[p].at = "build" /\ UnchangedFiles /\ proc[p] \in ProcState
      /\ proc[p].error = "none" /\ proc[p].input \in Index /\ ~paths_overlap(p)
  BY FileNames DEF Package, Yank, At, IInv, Kept, Ordered, Prepared
<1>2. proc[p].input.plugins \in Seq(IndexEntry) /\ Job(p) \in Jobs
  BY <1>1 DEF Index, Job, ProcState
<1>3. CASE Fails(p, "refused")
  BY <1>1, <1>3, FailsRecord, ReadingStep
<1>4. ASSUME Job(p).cmd = "package", NEW h \in Hashes, NEW t \in Times,
             LET e == from_manifest(Job(p).name, Job(p).version, Job(p).description, h, t)
                 s == proc[p].input.plugins
             IN  /\ check_entry_insert(s, e) = "Ok"
                 /\ \E derived \in to_canonical_json(push_entry(s, e)) :
                      proc' = [proc EXCEPT ![p].at = "openArtifact",
                                           ![p].hash = h, ![p].derived = derived]
      PROVE  Step(p)
  <2> DEFINE e == from_manifest(Job(p).name, Job(p).version, Job(p).description, h, t)
             s == proc[p].input.plugins
  <2>1. e \in IndexEntry
    BY <1>2, <1>4, JobFields, ManifestEntry
  <2>2. PICK derived \in to_canonical_json(push_entry(s, e)) :
          proc' = [proc EXCEPT ![p].at = "openArtifact", ![p].hash = h, ![p].derived = derived]
    BY <1>4
  <2>3. push_entry(s, e) \in Seq(IndexEntry)
    BY <1>2, <2>1 DEF push_entry
  <2>4. derived \in Index
    BY <2>3, CanonicalDocument
  <2> DEFINE r == [proc[p] EXCEPT !.at = "openArtifact", !.hash = h, !.derived = derived]
  <2>5. r \in ProcState /\ r.job = proc[p].job /\ r.opened = proc[p].opened
        /\ r.at = "openArtifact" /\ r.error = "none" /\ r.derived \in Index /\ r.hash \in Hashes
    BY <1>1, <2>4 DEF ProcState, Steps
  <2>6. proc' = [proc EXCEPT ![p] = r]
    BY <2>2
  <2>7. r.job.cmd = "package"
    BY <1>4, <2>5 DEF Job
  <2>8. Built(r)
    <3>1. Lists(derived, e)
      BY <1>2, <1>4, <2>1, <2>2, Packaged DEF push_entry
    <3>2. e.name = Job(p).name /\ e.version = Job(p).version /\ e.hash = h
      BY DEF from_manifest
    <3>3. r.derived = derived /\ r.hash = h /\ r.job = Job(p)
      BY <1>1 DEF ProcState, Job
    <3> QED BY <3>1, <3>2, <3>3 DEF Lists, Same, Built
  <2> HIDE DEF r
  <2> QED BY <1>1, <2>5, <2>6, <2>7, <2>8, ReadingStep
<1>5. ASSUME Job(p).cmd = "yank",
             NEW i \in find_mut(proc[p].input.plugins, Job(p).name, Job(p).version),
             NEW doc \in to_canonical_json(set_yanked(proc[p].input.plugins, i, Job(p).target)),
             proc' = [proc EXCEPT ![p].at = "openIndex", ![p].derived = doc]
      PROVE  Step(p)
  <2> DEFINE s == proc[p].input.plugins
  <2>1. i \in Positions(s) /\ Job(p).target \in BOOLEAN
    BY <1>2, <1>5, JobFields DEF find_mut
  <2>2. set_yanked(s, i, Job(p).target) \in Seq(IndexEntry)
    BY <1>2, <2>1, SetYankedKeeps
  <2>3. doc \in Index
    BY <2>2, CanonicalDocument
  <2> DEFINE r == [proc[p] EXCEPT !.at = "openIndex", !.derived = doc]
  <2>4. r \in ProcState /\ r.job = proc[p].job /\ r.opened = proc[p].opened
        /\ r.at = "openIndex" /\ r.error = "none" /\ r.derived \in Index
    BY <1>1, <2>3 DEF ProcState, Steps
  <2>5. proc' = [proc EXCEPT ![p] = r]
    BY <1>5
  <2>6. r.job.cmd = "yank"
    BY <1>5, <2>4 DEF Job
  <2> HIDE DEF r
  <2> QED BY <1>1, <2>4, <2>5, <2>6, ReadingStep
<1>6. CASE Package(p)
  BY <1>3, <1>4, <1>6 DEF Package
<1>7. CASE Yank(p)
  BY <1>3, <1>5, <1>7 DEF Yank
<1> QED BY <1>6, <1>7

\* A step that leaves alone what p has built keeps what does not depend on
\* the files.
LEMMA WritingStep ==
  ASSUME IInv, NEW p \in Procs, Moves(p), proc[p].at \notin {"read", "prepare", "exited"},
         NEW r \in ProcState, proc'[p] = r,
         r.job = proc[p].job, r.hash = proc[p].hash, r.derived = proc[p].derived,
         proc[p].opened \subseteq r.opened,
         r.at \in {"writeArtifact", "openIndex", "writeIndex", "report", "exited"},
         r.error \in {"none", "io"}, r.at # "exited" => r.error = "none",
         r.at \in {"writeArtifact", "openIndex", "writeIndex"} => proc[p].derived \in Index,
         r.at = "writeArtifact" => Job(p).cmd = "package" /\ r.hash \in Hashes,
         r.at \in {"writeArtifact", "openIndex"} => "index" \notin r.opened,
         r.at = "writeArtifact" => "artifact" \in r.opened,
         r.at \in {"writeIndex", "report"} \/ (r.at = "exited" /\ r.error = "none") =>
           "index" \in r.opened,
         Job(p).cmd = "package" /\ (r.at = "openIndex" \/ "index" \in r.opened) =>
           "artifact" \in r.opened,
         Job(p).cmd = "package" /\ "artifact" \in r.opened => Built(proc[p])
  PROVE  Prepared(p)' /\ Ordered(p)' /\ Named(p)'
<1>1. ~paths_overlap(p) /\ paths_overlap(p)' = paths_overlap(p) /\ Job(p)' = Job(p)
  BY SameNames DEF IInv, Kept, Ordered
<1>2. Prepared(p)'
  BY <1>1 DEF Prepared, At
<1>3. Ordered(p)'
  BY <1>1 DEF Ordered, At
<1>4. Named(p)'
  BY <1>1 DEF Named, Built, At
<1> QED BY <1>2, <1>3, <1>4

\* std::fs::write on the archive: p fails, or goes on with what it has opened.
LEMMA ArchiveStep ==
  ASSUME IInv, NEW p \in Procs, OpenArtifact(p) \/ WriteArtifact(p)
  PROVE  Step(p)
<1> DEFINE file == artifactFile[OutDir(p)][Id(p)]
<1>1. /\ proc[p] \in ProcState /\ proc[p].error = "none" /\ "index" \notin proc[p].opened
      /\ proc[p].at \in {"openArtifact", "writeArtifact"} /\ UNCHANGED indexFile
      /\ proc[p].hash \in Hashes /\ proc[p].derived \in Index /\ Job(p).cmd = "package"
      /\ Built(proc[p])
  BY FileNames DEF OpenArtifact, WriteArtifact, At, IInv, Kept, Ordered, Prepared, Named
<1>2. /\ OutDir(p) \in Dirs /\ Id(p) \in Ids /\ file \in Hashes \cup NotDocuments
      /\ {Empty, Partial} \subseteq NotDocuments
  BY FileNames DEF IInv, TypeOK, NotDocuments
<1>3. proc \in [Procs -> ProcState] /\ proc[p].opened \in SUBSET {"artifact", "index"}
  BY <1>1 DEF IInv, TypeOK, ProcState
<1>4. ASSUME NEW c, artifactFile' = [artifactFile EXCEPT ![OutDir(p)][Id(p)] = c]
      PROVE  artifactFile'[OutDir(p)][Id(p)] = c
  BY <1>2, <1>4 DEF IInv, TypeOK
<1>5. CASE Fails(p, "io") /\ UNCHANGED <<artifactFile, contested>>
  <2> DEFINE r == [proc[p] EXCEPT !.at = "exited", !.opened = proc[p].opened, !.error = "io"]
  <2>1. proc' = [proc EXCEPT ![p] = r]
    BY <1>1, <1>5 DEF Fails, ProcState
  <2>2. /\ r \in ProcState /\ r.job = proc[p].job /\ r.hash = proc[p].hash
        /\ r.derived = proc[p].derived /\ r.at = "exited" /\ r.opened = proc[p].opened
        /\ r.error = "io"
    BY <1>1, <1>3 DEF ProcState, Steps
  <2> HIDE DEF r
  <2>3. proc'[p] = r
    BY <1>3, <2>1
  <2>4. Moves(p)
    BY <1>1, <1>5, <2>1, <2>2, <2>3 DEF Moves, UnchangedFiles
  <2>5. Prepared(p)' /\ Ordered(p)' /\ Named(p)'
    BY <1>1, <2>2, <2>3, <2>4, WritingStep
  <2>6. ArchiveOf(p)' /\ IndexOf(p)'
    <3>1. ~SharesArtifact(p) => ~SharesArtifact(p)'
      BY <2>4, MovesKeep, SameFiles DEF SharesArtifact, At
    <3> QED BY <1>1, <1>5, <2>2, <2>3, <3>1 DEF ArchiveOf, IndexOf, At, IInv, Kept
  <2> QED BY <2>4, <2>5, <2>6 DEF Step, Kept
<1>6. ASSUME /\ Contests(p, "artifact", {q \in Procs : SameArtifact(p, q)}, SharesArtifact(p))
             /\ artifactFile' = [artifactFile EXCEPT ![OutDir(p)][Id(p)] = Empty]
             /\ proc' = [proc EXCEPT ![p].at = "writeArtifact",
                                     ![p].opened = @ \cup {"artifact"}]
      PROVE  Step(p)
  <2> DEFINE r == [proc[p] EXCEPT !.at = "writeArtifact",
                                  !.opened = proc[p].opened \cup {"artifact"}, !.error = "none"]
  <2>1. proc' = [proc EXCEPT ![p] = r]
    BY <1>1, <1>6 DEF ProcState
  <2>2. /\ r \in ProcState /\ r.job = proc[p].job /\ r.hash = proc[p].hash
        /\ r.derived = proc[p].derived /\ r.at = "writeArtifact"
        /\ r.opened = proc[p].opened \cup {"artifact"} /\ r.error = "none"
    BY <1>1, <1>3 DEF ProcState, Steps
  <2> HIDE DEF r
  <2>3. proc'[p] = r
    BY <1>3, <2>1
  <2>4. Moves(p)
    <3>1. TouchesArchive(p)
      BY <1>1, <1>2, <1>6, <2>2, <2>3 DEF TouchesArchive
    <3> QED BY <2>1, <2>2, <3>1 DEF Moves
  <2>5. Prepared(p)' /\ Ordered(p)' /\ Named(p)'
    BY <1>1, <2>2, <2>3, <2>4, WritingStep
  <2>6. ArchiveOf(p)' /\ IndexOf(p)'
    <3>1. "artifact" \notin contested'[p] => ~SharesArtifact(p)
      BY <1>6, ContestsAdds DEF IInv, TypeOK, SharesArtifact
    <3>2. ~SharesArtifact(p) => ~SharesArtifact(p)'
      BY <2>4, MovesKeep, SameFiles DEF SharesArtifact, At
    <3>3. artifactFile'[OutDir(p)'][Id(p)'] = Empty
      BY <1>4, <1>6, <2>4, SameNames
    <3> QED BY <1>1, <2>2, <2>3, <3>1, <3>2, <3>3 DEF ArchiveOf, IndexOf, At
  <2> QED BY <2>4, <2>5, <2>6 DEF Step, Kept
<1>7. ASSUME At(p, "writeArtifact"), UNCHANGED contested,
             NEW c \in Hashes \cup NotDocuments,
             artifactFile' = [artifactFile EXCEPT ![OutDir(p)][Id(p)] = c],
             NEW step \in {"exited", "openIndex"}, NEW e \in {"none", "io"},
             proc' = [proc EXCEPT ![p] = [proc[p] EXCEPT !.at = step, !.opened = proc[p].opened,
                                                         !.error = e]],
             \/ step = "exited" /\ e = "io"
             \/ step = "openIndex" /\ e = "none"
                  /\ ("artifact" \notin contested[p] => c = proc[p].hash)
      PROVE  Step(p)
  <2> DEFINE r == [proc[p] EXCEPT !.at = step, !.opened = proc[p].opened, !.error = e]
  <2>1. proc' = [proc EXCEPT ![p] = r]
    BY <1>7
  <2>2. /\ r \in ProcState /\ r.job = proc[p].job /\ r.hash = proc[p].hash
        /\ r.derived = proc[p].derived /\ r.at = step /\ r.opened = proc[p].opened
        /\ r.error = e
    BY <1>1, <1>3, <1>7 DEF ProcState, Steps
  <2> HIDE DEF r
  <2>3. proc'[p] = r /\ "artifact" \in r.opened
    BY <1>3, <1>7, <2>1, <2>2 DEF IInv, Kept, Ordered
  <2>4. Moves(p)
    <3>1. TouchesArchive(p)
      BY <1>1, <1>2, <1>7, <2>2, <2>3 DEF TouchesArchive
    <3> QED BY <2>1, <2>2, <3>1 DEF Moves
  <2>5. Prepared(p)' /\ Ordered(p)' /\ Named(p)'
    BY <1>1, <1>7, <2>2, <2>3, <2>4, WritingStep
  <2>6. ArchiveOf(p)' /\ IndexOf(p)'
    <3>1. ~SharesArtifact(p) => ~SharesArtifact(p)'
      BY <2>4, MovesKeep, SameFiles DEF SharesArtifact, At
    <3>2. artifactFile'[OutDir(p)'][Id(p)'] = c
      BY <1>4, <1>7, <2>4, SameNames
    <3> QED BY <1>1, <1>7, <2>2, <2>3, <3>1, <3>2 DEF ArchiveOf, IndexOf, At, IInv, Kept
  <2> QED BY <2>4, <2>5, <2>6 DEF Step, Kept
<1>8. CASE WriteArtifact(p)
  <2>1. At(p, "writeArtifact") /\ UNCHANGED contested
    BY <1>8 DEF WriteArtifact
  <2>2. \A c \in Interrupted(file) : c \in Hashes \cup NotDocuments
    BY <1>2 DEF Interrupted
  <2>3. ASSUME NEW c \in Written(file, proc[p].hash, SharesArtifact(p))
        PROVE  c \in Hashes \cup NotDocuments /\ ("artifact" \notin contested[p] => c = proc[p].hash)
    BY <1>1, <1>2, <2>1 DEF Written, IInv, Kept, Ordered, ArchiveOf, At
  <2>4. CASE /\ Fails(p, "io")
             /\ \E c \in Interrupted(file) :
                  artifactFile' = [artifactFile EXCEPT ![OutDir(p)][Id(p)] = c]
    <3>1. proc' = [proc EXCEPT ![p] = [proc[p] EXCEPT !.at = "exited", !.opened = proc[p].opened,
                                                      !.error = "io"]]
      BY <1>1, <2>4 DEF Fails, ProcState
    <3> QED BY <1>7, <2>1, <2>2, <2>4, <3>1
  <2>5. CASE /\ Goto(p, "openIndex")
             /\ \E c \in Written(file, proc[p].hash, SharesArtifact(p)) :
                  artifactFile' = [artifactFile EXCEPT ![OutDir(p)][Id(p)] = c]
    <3>1. proc' = [proc EXCEPT ![p] = [proc[p] EXCEPT !.at = "openIndex", !.opened = proc[p].opened,
                                                      !.error = "none"]]
      BY <1>1, <2>5 DEF Goto, ProcState
    <3> QED BY <1>7, <2>1, <2>3, <2>5, <3>1
  <2> QED BY <1>8, <2>4, <2>5 DEF WriteArtifact
<1>9. CASE OpenArtifact(p)
  BY <1>5, <1>6, <1>9 DEF OpenArtifact
<1> QED BY <1>8, <1>9

\* std::fs::write on the index.
LEMMA IndexStep ==
  ASSUME IInv, NEW p \in Procs, OpenIndex(p) \/ WriteIndex(p)
  PROVE  Step(p)
<1> DEFINE file == indexFile[OutFile(p)]
<1>1. /\ proc[p] \in ProcState /\ proc[p].error = "none"
      /\ proc[p].at \in {"openIndex", "writeIndex"} /\ UNCHANGED artifactFile
      /\ proc[p].derived \in Index
      /\ Job(p).cmd = "package" => "artifact" \in proc[p].opened
      /\ Job(p).cmd = "package" /\ "artifact" \in proc[p].opened => Built(proc[p])
  BY FileNames DEF OpenIndex, WriteIndex, At, IInv, Kept, Ordered, Prepared, Named
<1>2. /\ OutFile(p) \in Dirs /\ file \in Index \cup NotDocuments
      /\ {Empty, Partial} \subseteq NotDocuments
  BY FileNames DEF IInv, TypeOK, NotDocuments
<1>3. proc \in [Procs -> ProcState] /\ proc[p].opened \in SUBSET {"artifact", "index"}
  BY <1>1 DEF IInv, TypeOK, ProcState
<1>4. ASSUME NEW c, indexFile' = [indexFile EXCEPT ![OutFile(p)] = c]
      PROVE  indexFile'[OutFile(p)] = c
  BY <1>2, <1>4 DEF IInv, TypeOK
\* Writing the index leaves p its archive.
<1>5. ASSUME Moves(p), proc'[p].at # "writeArtifact", proc'[p].at # "openIndex",
             proc'[p].hash = proc[p].hash, contested[p] \subseteq contested'[p],
             "artifact" \in proc'[p].opened => "artifact" \in proc[p].opened
      PROVE  ArchiveOf(p)'
  <2> SUFFICES ASSUME "artifact" \in proc'[p].opened, "artifact" \notin contested'[p]
               PROVE  /\ ~SharesArtifact(p)'
                      /\ artifactFile'[OutDir(p)'][Id(p)'] = proc'[p].hash
    BY <1>5 DEF ArchiveOf, At
  <2>1. "artifact" \in proc[p].opened /\ "artifact" \notin contested[p]
    BY <1>5
  <2>2. ~SharesArtifact(p) => ~SharesArtifact(p)'
    BY <1>5, MovesKeep, SameFiles DEF SharesArtifact, At
  <2>3. ~SharesArtifact(p) /\ artifactFile[OutDir(p)][Id(p)] = proc[p].hash
    BY <1>1, <2>1 DEF IInv, Kept, ArchiveOf, Ordered, At
  <2> QED BY <1>1, <1>5, <2>2, <2>3, SameNames
<1>6. CASE Fails(p, "io") /\ UNCHANGED <<indexFile, contested>>
  <2> DEFINE r == [proc[p] EXCEPT !.at = "exited", !.opened = proc[p].opened, !.error = "io"]
  <2>1. proc' = [proc EXCEPT ![p] = r]
    BY <1>1, <1>6 DEF Fails, ProcState
  <2>2. /\ r \in ProcState /\ r.job = proc[p].job /\ r.hash = proc[p].hash
        /\ r.derived = proc[p].derived /\ r.at = "exited" /\ r.opened = proc[p].opened
        /\ r.error = "io"
    BY <1>1, <1>3 DEF ProcState, Steps
  <2> HIDE DEF r
  <2>3. proc'[p] = r
    BY <1>3, <2>1
  <2>4. Moves(p)
    BY <1>1, <1>6, <2>1, <2>2, <2>3 DEF Moves, UnchangedFiles
  <2>5. Prepared(p)' /\ Ordered(p)' /\ Named(p)'
    BY <1>1, <2>2, <2>3, <2>4, WritingStep
  <2>6. ArchiveOf(p)'
    BY <1>5, <1>6, <2>2, <2>3, <2>4
  <2>7. IndexOf(p)'
    <3>1. ~SharesIndex(p) => ~SharesIndex(p)'
      BY <2>4, MovesKeep, SameFiles DEF SharesIndex, At
    <3> QED BY <1>1, <1>6, <2>2, <2>3, <3>1 DEF IndexOf, At, IInv, Kept
  <2> QED BY <2>4, <2>5, <2>6, <2>7 DEF Step, Kept
<1>7. ASSUME /\ Contests(p, "index", {q \in Procs : SameIndex(p, q)}, SharesIndex(p))
             /\ indexFile' = [indexFile EXCEPT ![OutFile(p)] = Empty]
             /\ proc' = [proc EXCEPT ![p].at = "writeIndex", ![p].opened = @ \cup {"index"}]
      PROVE  Step(p)
  <2> DEFINE r == [proc[p] EXCEPT !.at = "writeIndex",
                                  !.opened = proc[p].opened \cup {"index"}, !.error = "none"]
  <2>1. proc' = [proc EXCEPT ![p] = r]
    BY <1>1, <1>7 DEF ProcState
  <2>2. /\ r \in ProcState /\ r.job = proc[p].job /\ r.hash = proc[p].hash
        /\ r.derived = proc[p].derived /\ r.at = "writeIndex"
        /\ r.opened = proc[p].opened \cup {"index"} /\ r.error = "none"
    BY <1>1, <1>3 DEF ProcState, Steps
  <2> HIDE DEF r
  <2>3. proc'[p] = r
    BY <1>3, <2>1
  <2>4. Moves(p)
    <3>1. TouchesIndex(p)
      BY <1>1, <1>2, <1>7, <2>2, <2>3 DEF TouchesIndex
    <3> QED BY <2>1, <2>2, <3>1 DEF Moves
  <2>5. Prepared(p)' /\ Ordered(p)' /\ Named(p)'
    BY <1>1, <2>2, <2>3, <2>4, WritingStep
  <2>6. ArchiveOf(p)'
    BY <1>5, <2>2, <2>3, <2>4, MovesKeep
  <2>7. IndexOf(p)'
    <3>1. "index" \notin contested'[p] => ~SharesIndex(p)
      BY <1>7, ContestsAdds DEF IInv, TypeOK, SharesIndex
    <3>2. ~SharesIndex(p) => ~SharesIndex(p)'
      BY <2>4, MovesKeep, SameFiles DEF SharesIndex, At
    <3>3. indexFile'[OutFile(p)'] = Empty
      BY <1>4, <1>7, <2>4, SameNames
    <3> QED BY <2>2, <2>3, <3>1, <3>2, <3>3 DEF IndexOf, At
  <2> QED BY <2>4, <2>5, <2>6, <2>7 DEF Step, Kept
<1>8. ASSUME At(p, "writeIndex"), UNCHANGED contested,
             NEW c \in Index \cup NotDocuments,
             indexFile' = [indexFile EXCEPT ![OutFile(p)] = c],
             NEW step \in {"exited", "report"}, NEW e \in {"none", "io"},
             proc' = [proc EXCEPT ![p] = [proc[p] EXCEPT !.at = step, !.opened = proc[p].opened,
                                                         !.error = e]],
             \/ step = "exited" /\ e = "io"
             \/ step = "report" /\ e = "none"
                  /\ ("index" \notin contested[p] => c = proc[p].derived)
      PROVE  Step(p)
  <2> DEFINE r == [proc[p] EXCEPT !.at = step, !.opened = proc[p].opened, !.error = e]
  <2>1. proc' = [proc EXCEPT ![p] = r]
    BY <1>8
  <2>2. /\ r \in ProcState /\ r.job = proc[p].job /\ r.hash = proc[p].hash
        /\ r.derived = proc[p].derived /\ r.at = step /\ r.opened = proc[p].opened
        /\ r.error = e
    BY <1>1, <1>3, <1>8 DEF ProcState, Steps
  <2> HIDE DEF r
  <2>3. proc'[p] = r /\ "index" \in r.opened
    BY <1>3, <1>8, <2>1, <2>2 DEF IInv, Kept, Ordered
  <2>4. Moves(p)
    <3>1. TouchesIndex(p)
      BY <1>1, <1>2, <1>8, <2>2, <2>3 DEF TouchesIndex
    <3> QED BY <2>1, <2>2, <3>1 DEF Moves
  <2>5. Prepared(p)' /\ Ordered(p)' /\ Named(p)'
    BY <1>1, <1>8, <2>2, <2>3, <2>4, WritingStep
  <2>6. ArchiveOf(p)'
    BY <1>5, <1>8, <2>2, <2>3, <2>4
  <2>7. IndexOf(p)'
    <3>1. ~SharesIndex(p) => ~SharesIndex(p)'
      BY <2>4, MovesKeep, SameFiles DEF SharesIndex, At
    <3>2. indexFile'[OutFile(p)'] = c
      BY <1>4, <1>8, <2>4, SameNames
    <3> QED BY <1>8, <2>2, <2>3, <3>1, <3>2 DEF IndexOf, At, IInv, Kept
  <2> QED BY <2>4, <2>5, <2>6, <2>7 DEF Step, Kept
<1>9. CASE WriteIndex(p)
  <2>1. At(p, "writeIndex") /\ UNCHANGED contested
    BY <1>9 DEF WriteIndex
  <2>2. \A c \in Interrupted(file) : c \in Index \cup NotDocuments
    BY <1>2 DEF Interrupted
  <2>3. ASSUME NEW c \in Written(file, proc[p].derived, SharesIndex(p))
        PROVE  c \in Index \cup NotDocuments /\ ("index" \notin contested[p] => c = proc[p].derived)
    BY <1>1, <1>2, <2>1 DEF Written, IInv, Kept, Ordered, IndexOf, At
  <2>4. CASE /\ Fails(p, "io")
             /\ \E c \in Interrupted(file) : indexFile' = [indexFile EXCEPT ![OutFile(p)] = c]
    <3>1. proc' = [proc EXCEPT ![p] = [proc[p] EXCEPT !.at = "exited", !.opened = proc[p].opened,
                                                      !.error = "io"]]
      BY <1>1, <2>4 DEF Fails, ProcState
    <3> QED BY <1>8, <2>1, <2>2, <2>4, <3>1
  <2>5. CASE /\ Goto(p, "report")
             /\ \E c \in Written(file, proc[p].derived, SharesIndex(p)) :
                  indexFile' = [indexFile EXCEPT ![OutFile(p)] = c]
    <3>1. proc' = [proc EXCEPT ![p] = [proc[p] EXCEPT !.at = "report", !.opened = proc[p].opened,
                                                      !.error = "none"]]
      BY <1>1, <2>5 DEF Goto, ProcState
    <3> QED BY <1>8, <2>1, <2>3, <2>5, <3>1
  <2> QED BY <1>9, <2>4, <2>5 DEF WriteIndex
<1>10. CASE OpenIndex(p)
  BY <1>6, <1>7, <1>10 DEF OpenIndex
<1> QED BY <1>9, <1>10

\* Printing the result.
LEMMA ReportStep ==
  ASSUME IInv, NEW p \in Procs, Report(p)
  PROVE  Step(p)
<1>1. /\ proc[p] \in ProcState /\ proc[p].error = "none" /\ proc[p].at = "report"
      /\ UnchangedFiles /\ "index" \in proc[p].opened
      /\ Job(p).cmd = "package" => "artifact" \in proc[p].opened
      /\ Job(p).cmd = "package" /\ "artifact" \in proc[p].opened => Built(proc[p])
  BY FileNames DEF Report, At, IInv, Kept, Ordered, Named
<1>2. PICK e \in {"none", "io"} :
        proc' = [proc EXCEPT ![p] = [proc[p] EXCEPT !.at = "exited", !.opened = proc[p].opened,
                                                    !.error = e]]
  <2>1. CASE Goto(p, "exited")
    <3>1. [proc[p] EXCEPT !.at = "exited", !.opened = proc[p].opened, !.error = "none"]
            = [proc[p] EXCEPT !.at = "exited"]
      BY <1>1 DEF ProcState
    <3> QED BY <2>1, <3>1 DEF Goto
  <2>2. CASE Fails(p, "io")
    BY <1>1, <2>2 DEF Fails, ProcState
  <2> QED BY <2>1, <2>2 DEF Report
<1> DEFINE r == [proc[p] EXCEPT !.at = "exited", !.opened = proc[p].opened, !.error = e]
<1>3. /\ r \in ProcState /\ r.job = proc[p].job /\ r.hash = proc[p].hash
      /\ r.derived = proc[p].derived /\ r.at = "exited" /\ r.opened = proc[p].opened
      /\ r.error = e
  BY <1>1, <1>2 DEF ProcState, Steps
<1>4. proc' = [proc EXCEPT ![p] = r]
  BY <1>2
<1> HIDE DEF r
<1>5. proc'[p] = r
  BY <1>4 DEF IInv, TypeOK
<1>6. Moves(p)
  BY <1>1, <1>3, <1>4, <1>5 DEF Moves
<1>7. Prepared(p)' /\ Ordered(p)' /\ Named(p)'
  BY <1>1, <1>3, <1>5, <1>6, WritingStep
<1>8. ArchiveOf(p)'
  <2>1. ~SharesArtifact(p) => ~SharesArtifact(p)'
    BY <1>6, MovesKeep, SameFiles DEF SharesArtifact, At
  <2> QED BY <1>1, <1>3, <1>5, <1>6, <2>1, SameNames DEF ArchiveOf, At, IInv, Kept, UnchangedFiles
<1>9. IndexOf(p)'
  <2>1. ~SharesIndex(p) => ~SharesIndex(p)'
    BY <1>6, MovesKeep, SameFiles DEF SharesIndex, At
  <2> QED BY <1>1, <1>3, <1>5, <1>6, <2>1, SameNames DEF IndexOf, At, IInv, Kept, UnchangedFiles
<1> QED BY <1>6, <1>7, <1>8, <1>9 DEF Step, Kept

-----------------------------------------------------------------------------
(* The theorems.                                                            *)

\* The invariant holds at first,
LEMMA IInvInit == Init => IInv
<1> SUFFICES ASSUME Init PROVE IInv
  OBVIOUS
<1>1. Typed
  BY TypedInit
<1>2. ASSUME NEW p \in Procs
      PROVE  proc[p].at = "read" /\ proc[p].error = "none" /\ proc[p].opened = {}
  BY DEF Init
<1> QED BY <1>1, <1>2 DEF Typed, IInv, Kept, Ordered, Named, ArchiveOf, IndexOf, At

\* every step keeps it,
LEMMA IInvNext == IInv /\ [Next]_vars => IInv'
<1> SUFFICES ASSUME IInv, [Next]_vars PROVE IInv'
  OBVIOUS
<1>1. CASE Next
  <2>1. PICK p \in Procs :
          \/ ReadIndex(p)    \/ PrepareOut(p)    \/ Package(p)   \/ Yank(p)
          \/ OpenArtifact(p) \/ WriteArtifact(p) \/ OpenIndex(p) \/ WriteIndex(p)
          \/ Report(p)
    BY <1>1 DEF Next
  <2>2. Step(p)
    BY <2>1, ReadStep, PrepareStep, BuildStep, ArchiveStep, IndexStep, ReportStep
  <2> QED BY <2>2, StepSuffices
<1>2. CASE UNCHANGED vars
  <2>1. UNCHANGED <<indexFile, artifactFile, proc, contested>>
    BY <1>2 DEF vars
  <2>2. TypeOK'
    BY <2>1 DEF IInv, TypeOK
  <2>3. ASSUME NEW p \in Procs
        PROVE  Prepared(p)' /\ Ordered(p)' /\ Named(p)'
    BY <2>1 DEF IInv, Kept, Prepared, Ordered, Named, paths_overlap, InFile, OutDir, Job, At
  <2>4. ASSUME NEW p \in Procs
        PROVE  ArchiveOf(p)'
    BY <2>1 DEF IInv, Kept, ArchiveOf, SharesArtifact, SameArtifact, OutDir, Id, Job, At
  <2>5. ASSUME NEW p \in Procs
        PROVE  IndexOf(p)'
    BY <2>1 DEF IInv, Kept, IndexOf, SharesIndex, SameIndex, OutFile, OutDir, Job, At
  <2> QED BY <2>2, <2>3, <2>4, <2>5 DEF IInv, Kept
<1> QED BY <1>1, <1>2

\* so it always holds.
LEMMA Invariance == Spec => []IInv
BY IInvInit, IInvNext, PTL DEF Spec

\* The files and the invocations always have their shape: a document that is
\* written has the shape of an index (commands/package.rs, commands/yank.rs).
THEOREM TypeCorrect == Spec => []TypeOK
<1>1. IInv => TypeOK BY DEF IInv
<1> QED BY <1>1, Invariance, PTL

\* The archive of an index that is open is the one that the new entry names.
LEMMA ArchiveIsNamed == IInv => ArtifactBeforeIndex
<1> SUFFICES ASSUME IInv, NEW p \in Procs, Job(p).cmd = "package", "index" \in proc[p].opened,
                    "artifact" \notin contested[p]
             PROVE  NamesArchive(p)
  BY DEF ArtifactBeforeIndex
<1>1. "artifact" \in proc[p].opened
  BY DEF IInv, Kept, Ordered
<1>2. artifactFile[OutDir(p)][Id(p)] = proc[p].hash /\ Built(proc[p])
  BY <1>1 DEF IInv, Kept, ArchiveOf, Named
<1> QED BY <1>2 DEF Built, NamesArchive, Id, Job

\* From the moment package truncates the index under --out, the archive there
\* is whole and the one that its new entry names, whatever fails or is killed
\* later, unless another invocation opened that archive afterwards or was
\* writing it at the same time (commands/package.rs: the order of the writes).
THEOREM ArchiveFirst == Spec => []ArtifactBeforeIndex
BY ArchiveIsNamed, Invariance, PTL

\* A command that exits 0 has left its archive and its derived index whole
\* and agreeing with each other; only a command that opens the same file
\* later, or was writing it at the same time, can undo that, and a command
\* that had ended before cannot (commands/package.rs, commands/yank.rs).
THEOREM ZeroMeansWritten == Spec => []ExitZeroMeansWritten
<1>1. IInv => ExitZeroMeansWritten
  <2> SUFFICES ASSUME IInv, NEW p \in Procs, At(p, "exited"), proc[p].error = "none"
               PROVE  /\ indexFile[OutFile(p)] = proc[p].derived \/ "index" \in contested[p]
                      /\ Job(p).cmd = "package" => NamesArchive(p) \/ "artifact" \in contested[p]
    BY DEF ExitZeroMeansWritten
  <2>1. "index" \in proc[p].opened
    BY DEF IInv, Kept, Ordered
  <2> QED BY <2>1, ArchiveIsNamed DEF IInv, Kept, IndexOf, ArtifactBeforeIndex
<1> QED BY <1>1, Invariance, PTL

\* A command that refuses has opened nothing, however many others run
\* (commands/package.rs, commands/yank.rs: every check precedes every write).
THEOREM RefusalsAreClean == Spec => []RefusalTouchesNothing
<1>1. IInv => RefusalTouchesNothing
  BY DEF IInv, Kept, RefusalTouchesNothing, Ordered
<1> QED BY <1>1, Invariance, PTL

\* No --out directory has an index.json that is a link elsewhere.
OutputsNotLinked == \A job \in Jobs : IndexLink[Real[job.out]] = Real[job.out]

\* However --index and --out are spelled, no command opens its input for
\* writing, as long as no index.json under --out is a link; without that
\* assumption it is false (path_display.rs: paths_overlap compares the directory,
\* not the file).
THEOREM InputIsKept ==
  ASSUME OutputsNotLinked
  PROVE  Spec => []InputUntouched
<1>1. IInv => InputUntouched
  <2> SUFFICES ASSUME IInv, NEW p \in Procs, "index" \in proc[p].opened
               PROVE  OutFile(p) # InFile(p)
    BY DEF InputUntouched
  <2>1. Job(p) \in Jobs
    BY FileNames DEF IInv, Job, ProcState
  <2>2. OutFile(p) = OutDir(p)
    BY <2>1 DEF OutputsNotLinked, OutFile, OutDir
  <2> QED BY <2>2 DEF IInv, Kept, Ordered, paths_overlap
<1> QED BY <1>1, Invariance, PTL

=============================================================================
