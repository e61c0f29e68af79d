---------------------------- MODULE ScaffoldProofs ----------------------------
(***************************************************************************)
(* Theorems about Scaffold for any number of invocations of `new`, of      *)
(* directories and of names, and for every interleaving, failing write and *)
(* kill.                                                                   *)
(***************************************************************************)
EXTENDS Scaffold, TLAPS

-----------------------------------------------------------------------------
(* Jobs and their files.                                                    *)

ProcState ==
  [job : Jobs, written : 0 .. 3, error : {"none", "usage", "conflict", "io"},
   at : {"start", "ensureDir", "entryPoints", "existing", "write", "exited"}]

Held == {Absent, Foreign, Partial} \cup {Made(j) : j \in Jobs}

\* The template's files are files of the directory, one or three.
LEMMA WriteSets ==
  ASSUME NEW job \in Jobs
  PROVE  /\ job.dir \in Names /\ job.name \in Names
         /\ Len(WriteSet(job)) \in {1, 3} /\ DOMAIN WriteSet(job) = 1 .. Len(WriteSet(job))
         /\ \A i \in DOMAIN WriteSet(job) : WriteSet(job)[i] \in Files
<1>1. job.dir \in Names /\ job.name \in Names
  BY ScaffoldAssumption
<1>2. CASE job.kind = "index"
  <2>1. WriteSet(job) = <<<<"index.json">>>>
    BY <1>2 DEF WriteSet
  <2> QED BY <1>1, <2>1 DEF Files
<1>3. CASE job.kind # "index"
  <2>1. WriteSet(job) = <<<<"manifest.toml">>, Py(job.name), <<"README.md">>>>
    BY <1>3 DEF WriteSet
  <2> QED BY <1>1, <2>1 DEF Files
<1> QED BY <1>2, <1>3

\* A plugin template has one Python file, <name>.py.
LEMMA OnePython ==
  ASSUME NEW job \in Jobs, job.kind = "plugin", NEW i \in DOMAIN WriteSet(job),
         IsPython(WriteSet(job)[i])
  PROVE  WriteSet(job)[i] = Py(job.name)
<1>1. WriteSet(job) = <<<<"manifest.toml">>, Py(job.name), <<"README.md">>>>
  BY DEF WriteSet
<1>2. ~IsPython(<<"manifest.toml">>) /\ ~IsPython(<<"README.md">>)
  BY DEF IsPython, Py
<1> QED BY <1>1, <1>2

\* No file of a template is written twice.
LEMMA WrittenOnce ==
  ASSUME NEW job \in Jobs, NEW i \in DOMAIN WriteSet(job), NEW j \in DOMAIN WriteSet(job), i # j
  PROVE  WriteSet(job)[i] # WriteSet(job)[j]
<1>1. CASE job.kind = "index"
  BY <1>1 DEF WriteSet
<1>2. CASE job.kind # "index"
  <2>1. WriteSet(job) = <<<<"manifest.toml">>, Py(job.name), <<"README.md">>>>
    BY <1>2 DEF WriteSet
  <2>2. Py(job.name) # <<"manifest.toml">> /\ Py(job.name) # <<"README.md">>
    BY DEF Py
  <2> QED BY <2>1, <2>2
<1> QED BY <1>1, <1>2

-----------------------------------------------------------------------------
(* The inductive invariant.                                                 *)

\* How far p is.
Counted(p) ==
  /\ proc[p].at # "exited" => proc[p].error = "none"
  /\ proc[p].at \notin {"write", "exited"} => proc[p].written = 0
  /\ At(p, "write") => proc[p].written < Len(WriteSet(Job(p)))
  /\ Succeeded(p) => proc[p].written = Len(WriteSet(Job(p)))

\* Another invocation has set out to make this file.
Shared(p, f) ==
  \E q \in Procs \ {p} :
    ~At(q, "start") /\ Job(q).dir = Job(p).dir /\ InWriteSet(Job(q), f)

\* Without --force, p has found none of the files that it has still to write;
\* one that is there now was made by an invocation that overlaps with p.
Guarded(p) ==
  At(p, "write") /\ ~Job(p).force =>
    \A i \in DOMAIN WriteSet(Job(p)) : i > proc[p].written =>
      LET f == WriteSet(Job(p))[i] IN
      \/ files[Job(p).dir][f] = Absent
      \/ files[Job(p).dir][f] # Foreign /\ ~sequential /\ Shared(p, f)

OnlyEntry(p) ==
  \A f \in Files : IsPython(f) /\ files[Job(p).dir][f] # Absent => f = Py(Job(p).name)

Wrote(p) ==
  \A i \in 1 .. proc[p].written : files[Job(p).dir][WriteSet(Job(p))[i]] = Made(Job(p))

\* From the check of the entry points on, the directory has no Python file
\* but p's own, when nobody else works there.
Clean(p) ==
  /\ Undisturbed(p) /\ Job(p).kind = "plugin"
  /\ proc[p].at \in {"existing", "write"} \/ Succeeded(p)
  => OnlyEntry(p)

\* The files that p has written are whole, when nobody else works there.
Whole(p) == Undisturbed(p) /\ (At(p, "write") \/ Succeeded(p)) => Wrote(p)

\* What the step that p takes makes true of p,
Kept(p) == Counted(p) /\ Guarded(p) /\ Clean(p) /\ Whole(p)

\* and what of it the steps of others leave: after p has ended, a later
\* invocation may work in its directory.
Lasts(p) ==
  /\ Counted(p) /\ Guarded(p)
  /\ (Succeeded(p) => Alone(p)) => Clean(p) /\ Whole(p)

OneRuns == sequential => \A p, q \in Procs : p # q => ~(Running(p) /\ Running(q))

IInv == TypeOK /\ OneRuns /\ \A p \in Procs : Lasts(p)

\* What a step of p does to the rest of the system.
Moves(p) ==
  /\ \E r \in ProcState :
       proc' = [proc EXCEPT ![p] = r] /\ r.job = proc[p].job /\ r.at # "start"
  /\ dirs' \subseteq Names /\ UNCHANGED sequential
  /\ sequential => \A q \in Procs \ {p} : ~Running(q)
  /\ \/ UNCHANGED files
     \/ At(p, "write") /\ proc[p].written < Len(WriteSet(Job(p)))
        /\ \E c \in {Partial, Made(Job(p))} :
             files' = [files EXCEPT ![Job(p).dir][WriteSet(Job(p))[proc[p].written + 1]] = c]

\* The record of a process.
LEMMA Typed ==
  ASSUME TypeOK, NEW p \in Procs
  PROVE  proc[p] \in ProcState /\ Job(p) \in Jobs /\ Job(p).dir \in Names
<1>1. proc[p] \in ProcState
  BY DEF TypeOK, ProcState
<1>2. Job(p) \in Jobs
  BY <1>1 DEF Job, ProcState
<1> QED BY <1>1, <1>2, WriteSets

\* The file that p writes next is one of its template's.
LEMMA NextFile ==
  ASSUME TypeOK, NEW p \in Procs, proc[p].written < Len(WriteSet(Job(p)))
  PROVE  /\ proc[p].written \in 0 .. 2 /\ proc[p].written + 1 \in DOMAIN WriteSet(Job(p))
         /\ DOMAIN WriteSet(Job(p)) = 1 .. Len(WriteSet(Job(p)))
         /\ Len(WriteSet(Job(p))) \in {1, 3}
         /\ WriteSet(Job(p))[proc[p].written + 1] \in Files
         /\ InWriteSet(Job(p), WriteSet(Job(p))[proc[p].written + 1])
<1> DEFINE n == Len(WriteSet(Job(p)))
           k == proc[p].written
<1>1. Job(p) \in Jobs /\ k \in 0 .. 3
  BY Typed DEF ProcState
<1>2. n \in {1, 3} /\ DOMAIN WriteSet(Job(p)) = 1 .. n
  BY <1>1, WriteSets
<1>3. k < n
  OBVIOUS
<1> HIDE DEF n, k
<1>4. k \in 0 .. 2 /\ k + 1 \in 1 .. n
  BY <1>1, <1>2, <1>3
<1>5. WriteSet(Job(p))[k + 1] \in Files /\ InWriteSet(Job(p), WriteSet(Job(p))[k + 1])
  BY <1>1, <1>2, <1>4, WriteSets DEF InWriteSet
<1> QED BY <1>2, <1>4, <1>5 DEF n, k

\* Writing one file changes that file alone.
LEMMA OneFile ==
  ASSUME files \in [Names -> [Files -> Held]], NEW D \in Names, NEW f \in Files, NEW c \in Held,
         files' = [files EXCEPT ![D][f] = c]
  PROVE  /\ files' \in [Names -> [Files -> Held]]
         /\ \A d \in Names, g \in Files :
              files'[d][g] = files[d][g] \/ (d = D /\ g = f /\ files'[d][g] = c)
<1> DEFINE new == [files[D] EXCEPT ![f] = c]
<1>1. files[D] \in [Files -> Held]
  OBVIOUS
<1>2. new \in [Files -> Held] /\ new[f] = c /\ \A g \in Files : g # f => new[g] = files[D][g]
  BY <1>1
<1>3. files' = [files EXCEPT ![D] = new]
  OBVIOUS
<1> HIDE DEF new
<1>4. files' \in [Names -> [Files -> Held]]
  BY <1>2, <1>3
<1>5. files'[D] = new /\ \A d \in Names : d # D => files'[d] = files[d]
  BY <1>2, <1>3
<1> QED BY <1>2, <1>4, <1>5

\* A step of one process changes nothing but its own record and one file of
\* its template in its own directory, whole or half-written.
LEMMA MovesKeep ==
  ASSUME IInv, NEW p \in Procs, Moves(p)
  PROVE  /\ TypeOK'
         /\ \A q \in Procs : Job(q)' = Job(q)
         /\ \A q \in Procs \ {p} : proc'[q] = proc[q]
         /\ proc'[p].at # "start"
         /\ \A d \in Names, f \in Files :
              \/ files'[d][f] = files[d][f]
              \/ /\ d = Job(p).dir /\ files'[d][f] \in {Partial, Made(Job(p))}
                 /\ At(p, "write") /\ InWriteSet(Job(p), f)
<1>1. PICK r \in ProcState :
        proc' = [proc EXCEPT ![p] = r] /\ r.job = proc[p].job /\ r.at # "start"
  BY DEF Moves
<1>2. proc \in [Procs -> ProcState] /\ files \in [Names -> [Files -> Held]]
  BY DEF IInv, TypeOK, ProcState, Held
<1>3. proc' \in [Procs -> ProcState] /\ proc'[p] = r /\ \A q \in Procs \ {p} : proc'[q] = proc[q]
  BY <1>1, <1>2
<1>4. Job(p) \in Jobs /\ Job(p).dir \in Names
  BY Typed DEF IInv
<1>5. {Partial, Made(Job(p))} \subseteq Held
  BY <1>4 DEF Held
<1>6. CASE UNCHANGED files
  <2>1. TypeOK'
    BY <1>2, <1>3, <1>6 DEF Moves, IInv, TypeOK, ProcState, Held
  <2> QED BY <1>1, <1>3, <1>6, <2>1 DEF Job
<1>7. CASE ~UNCHANGED files
  <2> DEFINE f == WriteSet(Job(p))[proc[p].written + 1]
  <2>1. PICK c \in {Partial, Made(Job(p))} : files' = [files EXCEPT ![Job(p).dir][f] = c]
    BY <1>7 DEF Moves
  <2>2. At(p, "write") /\ f \in Files /\ InWriteSet(Job(p), f)
    BY <1>7, NextFile DEF Moves, IInv
  <2> HIDE DEF f
  <2>3. /\ files' \in [Names -> [Files -> Held]]
        /\ \A d \in Names, g \in Files :
             files'[d][g] = files[d][g] \/ (d = Job(p).dir /\ g = f /\ files'[d][g] = c)
    BY <1>2, <1>4, <1>5, <2>1, <2>2, OneFile
  <2>4. TypeOK'
    BY <1>3, <2>3 DEF Moves, IInv, TypeOK, ProcState, Held
  <2>5. \A q \in Procs : Job(q)' = Job(q)
    BY <1>1, <1>3 DEF Job
  <2> QED BY <1>1, <1>3, <2>2, <2>3, <2>4, <2>5
<1> QED BY <1>6, <1>7

\* Whether an invocation has its directory to itself never changes.
LEMMA SameCompany ==
  ASSUME IInv, NEW p \in Procs, Moves(p), NEW q \in Procs
  PROVE  Alone(q)' = Alone(q) /\ Undisturbed(q)' = Undisturbed(q)
BY MovesKeep DEF Alone, Undisturbed, Moves

\* Only one invocation runs where they run one after the other.
LEMMA OneStillRuns ==
  ASSUME IInv, NEW p \in Procs, Moves(p)
  PROVE  OneRuns'
<1>1. \A q \in Procs \ {p} : Running(q)' = Running(q)
  BY MovesKeep DEF Running, At
<1> QED BY <1>1 DEF OneRuns, Moves

\* p leaves every other invocation what it relies on: what it makes in the
\* directory of another it makes while they overlap, and in the directory that
\* another has alone it makes nothing.
LEMMA OtherProcs ==
  ASSUME IInv, NEW p \in Procs, Moves(p), NEW q \in Procs, q # p
  PROVE  Lasts(q)'
<1>1. /\ proc'[q] = proc[q] /\ Job(q)' = Job(q) /\ Alone(q)' = Alone(q)
      /\ Undisturbed(q)' = Undisturbed(q) /\ sequential' = sequential
  BY MovesKeep, SameCompany DEF Moves
<1>2. Job(q) \in Jobs /\ Job(q).dir \in Names /\ Job(p) \in Jobs
  BY Typed DEF IInv
<1>3. Counted(q)'
  BY <1>1 DEF IInv, Lasts, Counted, At, Succeeded
<1>4. sequential => ~Running(q)
  BY DEF Moves
<1>5. Guarded(q)'
  <2> SUFFICES ASSUME At(q, "write"), ~Job(q).force,
                      NEW i \in DOMAIN WriteSet(Job(q)), i > proc[q].written
               PROVE  LET f == WriteSet(Job(q))[i] IN
                      \/ files'[Job(q).dir][f] = Absent
                      \/ files'[Job(q).dir][f] # Foreign /\ ~sequential /\ Shared(q, f)'
    BY <1>1 DEF Guarded, At
  <2> DEFINE f == WriteSet(Job(q))[i]
  <2>1. ~sequential
    BY <1>4 DEF Running, At
  <2>2. f \in Files
    BY <1>2, WriteSets
  <2>3. Shared(q, f) => Shared(q, f)'
    <3>1. ASSUME NEW w \in Procs \ {q}, ~At(w, "start") PROVE ~At(w, "start")'
      BY <3>1, MovesKeep DEF At
    <3>2. \A w \in Procs : Job(w)' = Job(w) /\ InWriteSet(Job(w), f)' = InWriteSet(Job(w), f)
      <4>1. \A w \in Procs : Job(w)' = Job(w)
        BY MovesKeep
      <4> QED BY <1>1, <4>1 DEF InWriteSet, WriteSet
    <3> QED BY <3>1, <3>2 DEF Shared
  <2>4. \/ files[Job(q).dir][f] = Absent
        \/ files[Job(q).dir][f] # Foreign /\ Shared(q, f)
    BY DEF IInv, Lasts, Guarded
  <2>5. CASE files'[Job(q).dir][f] = files[Job(q).dir][f]
    BY <2>1, <2>3, <2>4, <2>5
  <2>6. CASE files'[Job(q).dir][f] # files[Job(q).dir][f]
    <3>1. /\ Job(q).dir = Job(p).dir /\ files'[Job(q).dir][f] \in {Partial, Made(Job(p))}
          /\ InWriteSet(Job(p), f)
      BY <1>2, <2>2, <2>6, MovesKeep
    <3>2. files'[Job(q).dir][f] # Foreign
      BY <1>2, <3>1, ContentsAssumption
    <3>3. Job(p)' = Job(p) /\ ~At(p, "start")' /\ InWriteSet(Job(p), f)'
      <4>1. Job(p)' = Job(p) /\ ~At(p, "start")'
        BY MovesKeep DEF At
      <4> QED BY <1>1, <3>1, <4>1 DEF InWriteSet, WriteSet
    <3>4. Shared(q, f)'
      BY <1>1, <3>1, <3>3 DEF Shared
    <3> QED BY <2>1, <3>2, <3>4
  <2> QED BY <2>5, <2>6
<1>6. ASSUME Succeeded(q) => Alone(q) PROVE Clean(q)' /\ Whole(q)'
  <2>1. Clean(q) /\ Whole(q)
    BY <1>6 DEF IInv, Lasts
  <2>2. CASE Alone(q)
    <3>1. \A f \in Files : files'[Job(q).dir][f] = files[Job(q).dir][f]
      <4>1. Job(p).dir # Job(q).dir
        BY <2>2 DEF Alone
      <4> QED BY <1>2, <4>1, MovesKeep
    <3>2. Clean(q)'
      BY <1>1, <2>1, <3>1 DEF Clean, OnlyEntry, At, Succeeded
    <3>3. Whole(q)'
      <4>1. \A i \in 1 .. proc[q].written : (At(q, "write") \/ Succeeded(q)) => WriteSet(Job(q))[i] \in Files
        <5>1. proc[q].written \in 0 .. 3
          BY Typed DEF IInv, ProcState
        <5>2. (At(q, "write") \/ Succeeded(q)) => proc[q].written <= Len(WriteSet(Job(q)))
          BY <1>2, <5>1, WriteSets DEF IInv, Lasts, Counted
        <5> QED BY <1>2, <5>1, <5>2, WriteSets
      <4>2. /\ At(q, "write")' = At(q, "write") /\ Succeeded(q)' = Succeeded(q)
            /\ Made(Job(q))' = Made(Job(q)) /\ WriteSet(Job(q))' = WriteSet(Job(q))
        BY <1>1 DEF At, Succeeded
      <4>3. SUFFICES ASSUME At(q, "write") \/ Succeeded(q), NEW i \in 1 .. proc[q].written
                     PROVE  files'[Job(q).dir][WriteSet(Job(q))[i]] = Made(Job(q))
        BY <1>1, <4>2 DEF Whole, Wrote
      <4>4. files[Job(q).dir][WriteSet(Job(q))[i]] = Made(Job(q))
        BY <2>1, <2>2, <4>3 DEF Whole, Wrote, Undisturbed
      <4> QED BY <3>1, <4>1, <4>3, <4>4
    <3> QED BY <3>2, <3>3
  <2>3. CASE ~Alone(q)
    <3>1. ~Undisturbed(q) \/ (~Succeeded(q) /\ ~Running(q))
      BY <1>4, <1>6, <2>3 DEF Undisturbed
    <3> QED BY <1>1, <3>1 DEF Clean, Whole, Running, At, Succeeded
  <2> QED BY <2>2, <2>3
<1>7. (Succeeded(q) => Alone(q))' = (Succeeded(q) => Alone(q))
  BY <1>1 DEF Succeeded, At
<1>8. (Succeeded(q) => Alone(q))' => Clean(q)' /\ Whole(q)'
  BY <1>6, <1>7
<1> QED BY <1>3, <1>5, <1>8 DEF Lasts

-----------------------------------------------------------------------------
(* The steps of one invocation.                                             *)

\* What p relies on before it takes a step.
LEMMA BeforeStep ==
  ASSUME IInv, NEW p \in Procs, ~At(p, "exited")
  PROVE  Counted(p) /\ Guarded(p) /\ Clean(p) /\ Whole(p)
BY DEF IInv, Lasts, Succeeded

\* An invocation that fails has nothing more to keep.
LEMMA FailsStep ==
  ASSUME IInv, NEW p \in Procs, NEW e \in {"usage", "conflict", "io"}, Fails(p, e),
         dirs' \subseteq Names, UNCHANGED sequential,
         sequential => \A q \in Procs \ {p} : ~Running(q),
         \/ UNCHANGED files
         \/ /\ At(p, "write") /\ proc[p].written < Len(WriteSet(Job(p)))
            /\ files' = [files EXCEPT ![Job(p).dir][WriteSet(Job(p))[proc[p].written + 1]] = Partial]
  PROVE  Moves(p) /\ Kept(p)'
<1> DEFINE r == [proc[p] EXCEPT !.at = "exited", !.error = e]
<1>1. proc[p] \in ProcState /\ proc \in [Procs -> ProcState]
  BY DEF IInv, TypeOK, ProcState
<1>2. r \in ProcState /\ r.job = proc[p].job /\ r.at = "exited" /\ r.error = e
  BY <1>1 DEF ProcState
<1>3. proc' = [proc EXCEPT ![p] = r]
  BY <1>1 DEF Fails
<1>4. proc'[p] = r
  BY <1>1, <1>3
<1> HIDE DEF r
<1>5. Moves(p)
  BY <1>2, <1>3 DEF Moves
<1>6. Kept(p)'
  BY <1>2, <1>4 DEF Kept, Counted, Guarded, Clean, Whole, At, Succeeded
<1> QED BY <1>5, <1>6

\* A check that finds nothing, or the directory being there, moves p on.
LEMMA GotoStep ==
  ASSUME IInv, NEW p \in Procs, proc[p].at \in {"start", "ensureDir", "entryPoints", "existing"},
         NEW step \in {"ensureDir", "entryPoints", "existing", "write"},
         Goto(p, step), dirs' \subseteq Names, UNCHANGED <<files, sequential>>,
         sequential => \A q \in Procs \ {p} : ~Running(q),
         step = "write" => Guarded(p)',
         step \in {"existing", "write"} => Clean(p)'
  PROVE  Moves(p) /\ Kept(p)'
<1> DEFINE r == [proc[p] EXCEPT !.at = step]
<1>1. proc[p] \in ProcState /\ proc \in [Procs -> ProcState] /\ Job(p) \in Jobs
  BY Typed DEF IInv, TypeOK, ProcState
<1>2. r \in ProcState /\ r.job = proc[p].job /\ r.at = step
        /\ r.error = proc[p].error /\ r.written = proc[p].written
  BY <1>1 DEF ProcState
<1>3. proc' = [proc EXCEPT ![p] = r]
  BY <1>1 DEF Goto
<1>4. proc'[p] = r
  BY <1>1, <1>3
<1> HIDE DEF r
<1>5. Moves(p)
  BY <1>2, <1>3 DEF Moves
<1>6. Job(p)' = Job(p) /\ proc[p].error = "none" /\ proc[p].written = 0
  BY <1>2, <1>4, BeforeStep DEF Job, At, Counted
<1>7. Counted(p)'
  <2>1. 0 < Len(WriteSet(Job(p)))
    <3> DEFINE n == Len(WriteSet(Job(p)))
    <3>1. n \in {1, 3}
      BY <1>1, WriteSets
    <3> HIDE DEF n
    <3>2. 0 < n
      BY <3>1
    <3> QED BY <3>2 DEF n
  <2>2. 0 < Len(WriteSet(Job(p)))'
    BY <1>6, <2>1 DEF WriteSet
  <2> QED BY <1>2, <1>4, <1>6, <2>2 DEF Counted, At, Succeeded
<1>8. Guarded(p)' /\ Clean(p)'
  BY <1>2, <1>4 DEF Guarded, Clean, At, Succeeded
<1>9. Whole(p)'
  BY <1>2, <1>4, <1>6 DEF Whole, Wrote, At, Succeeded
<1> QED BY <1>5, <1>7, <1>8, <1>9 DEF Kept

\* Where invocations run one after the other, the one that takes a step is the
\* only one that runs.
LEMMA NoneElseRuns ==
  ASSUME IInv, NEW p \in Procs, Running(p) \/ MayRun(p)
  PROVE  sequential => \A q \in Procs \ {p} : ~Running(q)
BY DEF IInv, OneRuns, MayRun

\* Each step moves one process and keeps what the files promise: looking at
\* the siblings,
LEMMA CheckSiblingsKeeps ==
  ASSUME IInv, NEW p \in Procs, CheckSiblings(p)
  PROVE  Moves(p) /\ Kept(p)'
<1>1. /\ UNCHANGED <<files, sequential>> /\ dirs' \subseteq Names /\ proc[p].at = "start"
      /\ sequential => \A q \in Procs \ {p} : ~Running(q)
  BY NoneElseRuns DEF CheckSiblings, UnchangedDisk, IInv, TypeOK, At
<1>2. Fails(p, "usage") \/ Goto(p, "ensureDir")
  BY DEF CheckSiblings
<1> QED BY <1>1, <1>2, FailsStep, GotoStep

\* making the directory,
LEMMA EnsureDirKeeps ==
  ASSUME IInv, NEW p \in Procs, ensure_dir(p)
  PROVE  Moves(p) /\ Kept(p)'
<1>1. /\ UNCHANGED <<files, sequential>> /\ proc[p].at = "ensureDir"
      /\ sequential => \A q \in Procs \ {p} : ~Running(q)
  BY NoneElseRuns DEF ensure_dir, At, Running
<1>2. dirs' \subseteq Names
  BY Typed DEF ensure_dir, IInv, TypeOK
<1>3. Fails(p, "io") \/ Goto(p, "entryPoints")
  BY DEF ensure_dir
<1> QED BY <1>1, <1>2, <1>3, FailsStep, GotoStep

\* looking for entry points,
LEMMA CheckEntryPointsKeeps ==
  ASSUME IInv, NEW p \in Procs, CheckEntryPoints(p)
  PROVE  Moves(p) /\ Kept(p)'
<1>1. /\ UNCHANGED <<files, sequential>> /\ dirs' \subseteq Names /\ proc[p].at = "entryPoints"
      /\ sequential => \A q \in Procs \ {p} : ~Running(q)
  BY NoneElseRuns DEF CheckEntryPoints, UnchangedDisk, IInv, TypeOK, At, Running
<1>2. CASE Fails(p, "io") \/ Fails(p, "conflict")
  BY <1>1, <1>2, FailsStep
<1>3. CASE /\ ~(Job(p).kind = "plugin" /\ OtherPython(Job(p).dir, Py(Job(p).name)))
           /\ Goto(p, "existing")
  <2>1. proc[p] \in ProcState /\ proc \in [Procs -> ProcState]
    BY Typed DEF IInv, TypeOK, ProcState
  <2>2. Job(p)' = Job(p)
    BY <1>3, <2>1 DEF Goto, Job, ProcState
  <2>3. Clean(p)'
    BY <1>1, <1>3, <2>2 DEF Clean, OnlyEntry, OtherPython
  <2> QED BY <1>1, <1>3, <2>3, GotoStep
<1> QED BY <1>2, <1>3 DEF CheckEntryPoints

\* looking for files that would be overwritten;
LEMMA CheckExistingKeeps ==
  ASSUME IInv, NEW p \in Procs, check_no_existing(p)
  PROVE  Moves(p) /\ Kept(p)'
<1>1. /\ UNCHANGED <<files, sequential>> /\ dirs' \subseteq Names /\ proc[p].at = "existing"
      /\ sequential => \A q \in Procs \ {p} : ~Running(q)
  BY NoneElseRuns DEF check_no_existing, UnchangedDisk, IInv, TypeOK, At, Running
<1>2. CASE Fails(p, "conflict")
  BY <1>1, <1>2, FailsStep
<1>3. CASE ~(~Job(p).force /\ SomeExists(p)) /\ Goto(p, "write")
  <2>1. proc[p] \in ProcState /\ proc \in [Procs -> ProcState] /\ Job(p) \in Jobs
    BY Typed DEF IInv, TypeOK, ProcState
  <2>2. Job(p)' = Job(p) /\ \A q \in Procs : Job(q)' = Job(q)
    BY <1>3, <2>1 DEF Goto, Job, TypeOK, IInv, ProcState
  <2>3. Guarded(p)'
    <3>1. ASSUME ~Job(p).force, NEW i \in DOMAIN WriteSet(Job(p))
          PROVE  files[Job(p).dir][WriteSet(Job(p))[i]] = Absent
      <4>1. WriteSet(Job(p))[i] \in Files /\ InWriteSet(Job(p), WriteSet(Job(p))[i])
        BY <2>1, WriteSets DEF InWriteSet
      <4> QED BY <1>3, <3>1, <4>1 DEF SomeExists
    <3>2. WriteSet(Job(p))' = WriteSet(Job(p))
      BY <2>2 DEF WriteSet
    <3> QED BY <1>1, <2>2, <3>1, <3>2 DEF Guarded
  <2>4. Undisturbed(p)' = Undisturbed(p)
    BY <1>1, <2>2 DEF Undisturbed, Alone
  <2>5. Clean(p)'
    BY <1>1, <2>2, <2>4, BeforeStep DEF Clean, OnlyEntry, At
  <2> QED BY <1>1, <1>3, <2>3, <2>5, GotoStep
<1> QED BY <1>2, <1>3 DEF check_no_existing

\* A file is written whole or not at all, and the last one ends the job.
LEMMA WriteKeeps ==
  ASSUME IInv, NEW p \in Procs, write_file(p)
  PROVE  Moves(p) /\ Kept(p)'
<1> DEFINE job == Job(p)
           done == proc[p].written + 1
           f == WriteSet(job)[done]
           at == IF done = Len(WriteSet(job)) THEN "exited" ELSE "write"
           r == [proc[p] EXCEPT !.written = done, !.at = at]
<1>1. /\ proc[p] \in ProcState /\ proc \in [Procs -> ProcState] /\ job \in Jobs
      /\ files \in [Names -> [Files -> Held]] /\ job.dir \in Names
  BY Typed DEF IInv, TypeOK, ProcState, Held
<1>2. /\ proc[p].at = "write" /\ dirs' \subseteq Names /\ UNCHANGED sequential
      /\ sequential => \A q \in Procs \ {p} : ~Running(q)
      /\ Counted(p) /\ Guarded(p) /\ Clean(p) /\ Whole(p)
  BY NoneElseRuns, BeforeStep DEF write_file, At, IInv, TypeOK, Running
<1>3. proc[p].error = "none" /\ proc[p].written < Len(WriteSet(job))
  BY <1>2 DEF Counted, At
<1>4. /\ done \in 1 .. Len(WriteSet(job)) /\ done \in 0 .. 3 /\ proc[p].written = done - 1
      /\ f \in Files
  <2> DEFINE n == Len(WriteSet(job))
             k == proc[p].written
  <2>1. k \in 0 .. 2 /\ n \in {1, 3} /\ k < n /\ WriteSet(job)[k + 1] \in Files
    BY <1>3, NextFile DEF IInv
  <2>2. done = k + 1
    OBVIOUS
  <2> HIDE DEF n, k, done
  <2>3. done \in 1 .. n /\ done \in 0 .. 3 /\ k = done - 1
    BY <2>1, <2>2
  <2> QED BY <2>1, <2>2, <2>3 DEF n, k
<1>5. CASE Fails(p, "io") /\ (\/ files' = [files EXCEPT ![job.dir][f] = Partial]
                              \/ UNCHANGED files)
  BY <1>2, <1>3, <1>5, FailsStep DEF At
<1>6. CASE /\ files' = [files EXCEPT ![job.dir][f] = Made(job)]
           /\ proc' = [proc EXCEPT ![p].written = done, ![p].at = at]
  <2>1. r \in ProcState /\ r.job = proc[p].job /\ r.at = at
          /\ r.error = "none" /\ r.written = done
    BY <1>1, <1>3, <1>4 DEF ProcState
  <2>2. proc' = [proc EXCEPT ![p] = r]
    BY <1>1, <1>6
  <2>3. proc'[p] = r
    BY <1>1, <2>2
  <2>4. at \in {"exited", "write"}
    OBVIOUS
  <2> HIDE DEF r
  <2>5. Moves(p)
    BY <1>2, <1>3, <1>6, <2>1, <2>2, <2>4 DEF Moves, At
  <2>6. Job(p)' = job /\ Undisturbed(p)' = Undisturbed(p)
    BY <2>1, <2>3, <2>5, SameCompany DEF Job
  <2>7. files[job.dir] \in [Files -> Held]
    BY <1>1
  <2>8. \A g \in Files : files'[job.dir][g] = IF g = f THEN Made(job) ELSE files[job.dir][g]
    BY <1>1, <1>4, <1>6, <2>7
  <2>9. Counted(p)'
    <3>1. WriteSet(Job(p))' = WriteSet(job) /\ at \in {"exited", "write"}
      BY <2>6 DEF WriteSet
    <3>2. Len(WriteSet(job)) \in Nat
      BY <1>1, WriteSets
    <3>3. proc'[p].at = at /\ proc'[p].written = done /\ proc'[p].error = "none"
      BY <2>1, <2>3
    <3>4. at = "write" => done < Len(WriteSet(job))
      BY <1>4, <3>2
    <3>5. at = "exited" => done = Len(WriteSet(job))
      OBVIOUS
    <3> HIDE DEF at, done
    <3> QED BY <3>1, <3>3, <3>4, <3>5 DEF Counted, At, Succeeded
  <2>10. Guarded(p)'
    <3>1. WriteSet(Job(p))' = WriteSet(job)
      BY <2>6 DEF WriteSet
    <3>2. \A q \in Procs : Job(q)' = Job(q)
      BY <2>5, MovesKeep
    <3>3. /\ \A q \in Procs \ {p} : At(q, "start")' = At(q, "start")
          /\ \A q \in Procs : WriteSet(Job(q))' = WriteSet(Job(q))
      BY <2>5, <3>2, MovesKeep DEF At, WriteSet
    <3>4. ASSUME ~job.force, NEW i \in DOMAIN WriteSet(job), i > done
          PROVE  LET g == WriteSet(job)[i] IN
                 \/ files'[job.dir][g] = Absent
                 \/ files'[job.dir][g] # Foreign /\ ~sequential /\ Shared(p, g)'
      <4>1. WriteSet(job)[i] \in Files /\ i # done /\ done \in DOMAIN WriteSet(job)
            /\ i > proc[p].written
        <5>1. DOMAIN WriteSet(job) = 1 .. Len(WriteSet(job)) /\ Len(WriteSet(job)) \in {1, 3}
              /\ WriteSet(job)[i] \in Files
          BY <1>1, <3>4, WriteSets
        <5> HIDE DEF done
        <5> QED BY <1>4, <3>4, <5>1
      <4>2. WriteSet(job)[i] # f
        BY <1>1, <4>1, WrittenOnce
      <4>3. files'[job.dir][WriteSet(job)[i]] = files[job.dir][WriteSet(job)[i]]
        BY <2>8, <4>1, <4>2
      <4>4. LET g == WriteSet(job)[i] IN
            \/ files[job.dir][g] = Absent
            \/ files[job.dir][g] # Foreign /\ ~sequential /\ Shared(p, g)
        BY <1>2, <3>4, <4>1 DEF Guarded, At
      <4>5. Shared(p, WriteSet(job)[i]) => Shared(p, WriteSet(job)[i])'
        BY <3>1, <3>2, <3>3 DEF Shared, InWriteSet
      <4> QED BY <4>3, <4>4, <4>5
    <3>5. proc'[p].written = done /\ sequential' = sequential
      BY <1>2, <2>1, <2>3
    <3> HIDE DEF done
    <3> QED BY <2>6, <3>1, <3>4, <3>5 DEF Guarded
  <2>11. Clean(p)'
    <3>1. Undisturbed(p) /\ job.kind = "plugin" =>
            \A g \in Files : IsPython(g) /\ files[job.dir][g] # Absent => g = Py(job.name)
      BY <1>2 DEF Clean, OnlyEntry, At
    <3>2. job.kind = "plugin" /\ IsPython(f) => f = Py(job.name)
      BY <1>1, <1>4, OnePython, WriteSets
    <3> QED BY <2>6, <2>8, <3>1, <3>2 DEF Clean, OnlyEntry
  <2>12. Whole(p)'
    <3>1. Undisturbed(p) => \A i \in 1 .. proc[p].written :
                              files[job.dir][WriteSet(job)[i]] = Made(job)
      BY <1>2 DEF Whole, Wrote, At
    <3>2. Undisturbed(p) => \A i \in 1 .. done : files'[job.dir][WriteSet(job)[i]] = Made(job)
      <4>1. SUFFICES ASSUME Undisturbed(p), NEW i \in 1 .. done
                     PROVE  files'[job.dir][WriteSet(job)[i]] = Made(job)
        OBVIOUS
      <4>2. WriteSet(job)[i] \in Files
        <5>1. DOMAIN WriteSet(job) = 1 .. Len(WriteSet(job)) /\ Len(WriteSet(job)) \in {1, 3}
              /\ \A j \in DOMAIN WriteSet(job) : WriteSet(job)[j] \in Files
          BY <1>1, WriteSets
        <5>2. i \in DOMAIN WriteSet(job)
          <6> HIDE DEF done
          <6> QED BY <1>4, <4>1, <5>1
        <5> QED BY <5>1, <5>2
      <4>3. CASE i = done
        BY <2>8, <4>2, <4>3
      <4>4. CASE i # done
        <5>1. i \in 1 .. proc[p].written
          BY <1>1, <1>4, <4>4 DEF ProcState
        <5> QED BY <2>8, <3>1, <4>1, <4>2, <5>1
      <4> QED BY <4>3, <4>4
    <3>3. proc'[p].written = done
      BY <2>1, <2>3
    <3>4. WriteSet(Job(p))' = WriteSet(job) /\ Made(Job(p))' = Made(job)
      BY <2>6 DEF WriteSet, Made
    <3> HIDE DEF done
    <3> QED BY <2>6, <3>2, <3>3, <3>4 DEF Whole, Wrote
  <2> QED BY <2>5, <2>9, <2>10, <2>11, <2>12 DEF Kept
<1> QED BY <1>5, <1>6 DEF write_file

-----------------------------------------------------------------------------
(* Every step.                                                              *)

\* so does every step.
LEMMA StepMoves ==
  ASSUME IInv, NEW p \in Procs,
         \/ CheckSiblings(p) \/ ensure_dir(p) \/ CheckEntryPoints(p)
         \/ check_no_existing(p) \/ write_file(p)
  PROVE  Moves(p) /\ Kept(p)'
BY CheckSiblingsKeeps, EnsureDirKeeps, CheckEntryPointsKeeps, CheckExistingKeeps, WriteKeeps

\* The invariant holds at first,
LEMMA InitInv == Init => IInv
<1> SUFFICES ASSUME Init PROVE IInv
  OBVIOUS
<1>1. PICK layout \in Layouts : dirs = layout.dirs /\ files = layout.files
  BY DEF Init
<1>2. PICK job \in [Procs -> Jobs] :
        proc = [p \in Procs |-> [job |-> job[p], at |-> "start", written |-> 0, error |-> "none"]]
  BY DEF Init
<1>3. proc \in [Procs -> ProcState]
  BY <1>2 DEF ProcState
<1>4. files \in [Names -> [Files -> {Absent, Foreign}]] /\ dirs \subseteq Names
  BY <1>1, ScaffoldAssumption
<1>5. files \in [Names -> [Files -> Held]]
  BY <1>4 DEF Held
<1>6. TypeOK
  BY <1>3, <1>4, <1>5 DEF TypeOK, ProcState, Held, Init
<1>7. \A p \in Procs : Lasts(p)
  BY <1>2 DEF Lasts, Counted, Guarded, Clean, Whole, At, Succeeded
<1>8. OneRuns
  BY <1>2 DEF OneRuns, Running, At
<1> QED BY <1>6, <1>7, <1>8 DEF IInv

\* every step keeps it,
LEMMA NextInv == IInv /\ [Next]_vars => IInv'
<1>1. SUFFICES ASSUME IInv, [Next]_vars PROVE IInv'
  OBVIOUS
<1>2. CASE Next
  <2>1. PICK p \in Procs : Moves(p) /\ Kept(p)'
    BY <1>1, <1>2, StepMoves DEF Next
  <2>2. TypeOK' /\ OneRuns'
    BY <1>1, <2>1, MovesKeep, OneStillRuns
  <2>3. \A q \in Procs \ {p} : Lasts(q)'
    BY <1>1, <2>1, OtherProcs
  <2>4. Lasts(p)'
    BY <2>1 DEF Kept, Lasts
  <2> QED BY <2>2, <2>3, <2>4 DEF IInv
<1>3. CASE UNCHANGED vars
  <2>1. TypeOK' /\ OneRuns'
    BY <1>1, <1>3 DEF vars, IInv, TypeOK, OneRuns, Running, At
  <2>2. ASSUME NEW p \in Procs PROVE Lasts(p)'
    <3>1. UNCHANGED <<dirs, files, proc, sequential>>
      BY <1>3 DEF vars
    <3>2. Lasts(p)
      BY <1>1 DEF IInv
    <3>3. /\ Counted(p)' = Counted(p) /\ Succeeded(p)' = Succeeded(p) /\ Alone(p)' = Alone(p)
          /\ Clean(p)' = Clean(p) /\ Whole(p)' = Whole(p)
      BY <3>1 DEF Counted, Succeeded, Alone, Clean, Whole, OnlyEntry, Wrote, Undisturbed, Job, At
    <3>4. Guarded(p)' = Guarded(p)
      BY <3>1 DEF Guarded, Shared, Job, At
    <3> QED BY <3>2, <3>3, <3>4 DEF Lasts
  <2> QED BY <2>1, <2>2 DEF IInv
<1> QED BY <1>1, <1>2, <1>3

\* so it always holds.
LEMMA Invariance == Spec => []IInv
BY InitInv, NextInv, PTL DEF Spec

\* Of every instance: files hold what the user or some invocation put there,
\* and nobody writes more files than its template has.
THEOREM TypeCorrect == Spec => []TypeOK
<1>1. IInv => TypeOK
  BY DEF IInv
<1> QED BY Invariance, <1>1, PTL

\* What an invocation that has just ended well, or has its directory to
\* itself, finds there.
LEMMA DoneIsWhole ==
  ASSUME TypeOK', NEW p \in Procs, Job(p)' = Job(p), Succeeded(p)', Job(p).kind = "plugin",
         Undisturbed(p)', Counted(p)', Clean(p)', Whole(p)'
  PROVE  /\ \A f \in Files : InWriteSet(Job(p), f) => files'[Job(p).dir][f] = Made(Job(p))
         /\ \A f \in Files :
              IsPython(f) /\ files'[Job(p).dir][f] # Absent => f = Py(Job(p).name)
<1>1. Job(p) \in Jobs
  <2>1. proc'[p] \in ProcState
    BY DEF TypeOK, ProcState
  <2>2. proc'[p].job \in Jobs
    BY <2>1 DEF ProcState
  <2>3. Job(p)' = proc'[p].job
    BY DEF Job
  <2> QED BY <2>2, <2>3
<1>2. DOMAIN WriteSet(Job(p)) = 1 .. proc'[p].written
  <2>1. proc'[p].written = Len(WriteSet(Job(p))')
    BY DEF Counted
  <2>2. WriteSet(Job(p))' = WriteSet(Job(p))
    BY DEF WriteSet
  <2> QED BY <1>1, <2>1, <2>2, WriteSets
<1>3. \A i \in 1 .. proc'[p].written : files'[Job(p).dir][WriteSet(Job(p))[i]] = Made(Job(p))
  <2>1. Wrote(p)'
    BY DEF Whole
  <2>2. WriteSet(Job(p))' = WriteSet(Job(p)) /\ Made(Job(p))' = Made(Job(p))
    BY DEF WriteSet, Made
  <2> QED BY <2>1, <2>2 DEF Wrote
<1>4. \A f \in Files : InWriteSet(Job(p), f) => files'[Job(p).dir][f] = Made(Job(p))
  BY <1>2, <1>3 DEF InWriteSet
<1>5. OnlyEntry(p)'
  BY DEF Clean
<1> QED BY <1>4, <1>5 DEF OnlyEntry

\* A plugin directory that `new` reports as done, when nobody else worked there
\* meanwhile, is whole and has one entry point, whatever was there before.  The
\* check of the entry points and the writes are steps apart: Clean and Whole
\* carry the one to the other.
THEOREM ScaffoldIsWhole == Spec => SuccessClassifies
<1> DEFINE Done(p) == /\ Succeeded(p)' /\ Job(p).kind = "plugin"
                      /\ Undisturbed(p) /\ (Succeeded(p) => Alone(p))
           Classified(p) ==
             /\ \A f \in Files : InWriteSet(Job(p), f) => files'[Job(p).dir][f] = Made(Job(p))
             /\ \A f \in Files :
                  IsPython(f) /\ files'[Job(p).dir][f] # Absent => f = Py(Job(p).name)
<1>1. ASSUME IInv, IInv', Next, NEW p \in Procs, Done(p) PROVE Classified(p)
  <2>1. PICK r \in Procs : Moves(r) /\ Kept(r)'
    BY <1>1, StepMoves DEF Next
  <2>2. /\ Job(p)' = Job(p) /\ Alone(p)' = Alone(p) /\ Undisturbed(p)' = Undisturbed(p)
        /\ \A q \in Procs \ {r} : proc'[q] = proc[q]
    BY <1>1, <2>1, MovesKeep, SameCompany
  <2>3. Counted(p)' /\ Clean(p)' /\ Whole(p)'
    <3>1. CASE Alone(p)
      BY <1>1, <2>2, <3>1 DEF IInv, Lasts
    <3>2. CASE p = r
      BY <2>1, <3>2 DEF Kept
    <3>3. CASE ~Alone(p) /\ p # r
      <4>1. proc'[p] = proc[p]
        BY <2>2, <3>3
      <4>2. Succeeded(p)
        BY <1>1, <4>1 DEF Succeeded, At
      <4> QED BY <1>1, <3>3, <4>2
    <3> QED BY <3>1, <3>2, <3>3
  <2> QED BY <1>1, <2>2, <2>3, DoneIsWhole DEF IInv
<1>2. ASSUME IInv, IInv', [Next]_vars PROVE [\A p \in Procs : Done(p) => Classified(p)]_vars
  BY <1>1, <1>2
<1> QED BY Invariance, <1>2, PTL DEF Spec, SuccessClassifies

\* However many invocations run, a file that is there is replaced only by one
\* whose template has it and that was told --force, or else overlaps with
\* another that set out to make the same file.
THEOREM UserFilesAreKept == Spec => UserFilesKept
<1> DEFINE Owned(d, f, p) ==
             /\ proc'[p] # proc[p]
             /\ Job(p).dir = d /\ InWriteSet(Job(p), f)
             /\ \/ Job(p).force
                \/ /\ ~sequential /\ files[d][f] # Foreign
                   /\ \E q \in Procs \ {p} :
                        ~At(q, "start") /\ Job(q).dir = d /\ InWriteSet(Job(q), f)
           Respects == \A d \in Names, f \in Files :
                         files[d][f] # Absent /\ files'[d][f] # files[d][f] =>
                           \E p \in Procs : Owned(d, f, p)
<1>1. ASSUME IInv, Next PROVE Respects
  <2>1. SUFFICES ASSUME NEW d \in Names, NEW f \in Files,
                        files[d][f] # Absent, files'[d][f] # files[d][f]
                 PROVE  \E p \in Procs : Owned(d, f, p)
    OBVIOUS
  <2>2. PICK p \in Procs : \/ CheckSiblings(p) \/ ensure_dir(p) \/ CheckEntryPoints(p)
                           \/ check_no_existing(p) \/ write_file(p)
    BY <1>1 DEF Next
  <2>3. CASE ~write_file(p)
    BY <2>1, <2>2, <2>3 DEF CheckSiblings, ensure_dir, CheckEntryPoints, check_no_existing,
                            UnchangedDisk
  <2>4. CASE write_file(p)
    <3> DEFINE k == proc[p].written + 1
               g == WriteSet(Job(p))[k]
    <3>1. /\ proc[p] \in ProcState /\ proc \in [Procs -> ProcState] /\ Job(p) \in Jobs
          /\ Job(p).dir \in Names /\ files \in [Names -> [Files -> Held]]
      BY <1>1, Typed DEF IInv, TypeOK, ProcState, Held
    <3>2. At(p, "write") /\ proc[p].written < Len(WriteSet(Job(p))) /\ Guarded(p)
      <4>1. At(p, "write")
        BY <2>4 DEF write_file
      <4>2. Counted(p) /\ Guarded(p)
        BY <1>1 DEF IInv, Lasts
      <4> QED BY <4>1, <4>2 DEF Counted
    <3>3. /\ k \in DOMAIN WriteSet(Job(p)) /\ k > proc[p].written
          /\ g \in Files /\ InWriteSet(Job(p), g)
      BY <1>1, <3>2, NextFile DEF IInv
    <3>4. \E c \in {Partial, Made(Job(p))} : files' = [files EXCEPT ![Job(p).dir][g] = c]
      BY <2>1, <2>4 DEF write_file
    <3>5. d = Job(p).dir /\ f = g
      <4>1. PICK c \in {Partial, Made(Job(p))} : files' = [files EXCEPT ![Job(p).dir][g] = c]
        BY <3>4
      <4>2. files[Job(p).dir] \in [Files -> Held]
        BY <3>1
      <4> HIDE DEF g
      <4> QED BY <2>1, <3>1, <3>3, <4>1, <4>2
    <3>6. Job(p).force \/ (~sequential /\ files[d][f] # Foreign /\ Shared(p, f))
      BY <2>1, <3>2, <3>3, <3>5 DEF Guarded
    <3>7. proc'[p] # proc[p]
      <4>1. CASE Fails(p, "io")
        <5>1. proc'[p].at = "exited"
          BY <3>1, <4>1 DEF Fails, ProcState
        <5> QED BY <3>2, <5>1 DEF At
      <4>2. CASE ~Fails(p, "io")
        <5>1. proc'[p].written = proc[p].written + 1
          BY <2>4, <3>1, <4>2 DEF write_file, ProcState
        <5>2. proc[p].written \in 0 .. 3
          BY <3>1 DEF ProcState
        <5> QED BY <5>1, <5>2
      <4> QED BY <4>1, <4>2
    <3> HIDE DEF g, k
    <3> QED BY <3>3, <3>5, <3>6, <3>7 DEF Shared
  <2> QED BY <2>3, <2>4
<1>2. ASSUME IInv, [Next]_vars PROVE [Respects]_vars
  BY <1>1, <1>2
<1> QED BY Invariance, <1>2, PTL DEF Spec, UserFilesKept

-----------------------------------------------------------------------------
(* Invocations one after the other.                                         *)

\* p has its directory, or is about to make it after the check of siblings.
Entered(p) == proc[p].at \in {"entryPoints", "existing", "write"} \/ Succeeded(p)

Comparable(p) == Job(p).kind = "plugin" /\ ~Job(p).bare /\ Job(p).dir = Job(p).name

DirsMade == \A p \in Procs : Entered(p) => Job(p).dir \in dirs

\* Whoever passed the check of siblings found no name that collides with its
\* own among those who had entered.
NoneCollides ==
  \A p, q \in Procs :
    /\ Comparable(p) /\ Entered(p)
    /\ Comparable(q) /\ (At(q, "ensureDir") \/ Entered(q))
    => ~Collides(Job(p).name, Job(q).name)

SiblingsInv == DirsMade /\ (sequential => NoneCollides)

\* Where a step of p leaves p, what it asked of the disk, and what it made.
LEMMA StepGoes ==
  ASSUME IInv, NEW p \in Procs,
         \/ CheckSiblings(p) \/ ensure_dir(p) \/ CheckEntryPoints(p)
         \/ check_no_existing(p) \/ write_file(p)
  PROVE  \/ /\ proc'[p].at = "exited" /\ proc'[p].error # "none"
            /\ dirs \subseteq dirs'
         \/ /\ proc[p].at = "start" /\ proc'[p].at = "ensureDir" /\ dirs' = dirs
            /\ MayRun(p)
            /\ Comparable(p) => \A d \in dirs : ~Collides(d, Job(p).name)
         \/ /\ proc[p].at = "ensureDir" /\ Entered(p)' /\ ~At(p, "ensureDir")'
            /\ dirs' = dirs \cup {Job(p).dir}
         \/ /\ Entered(p) /\ Running(p) /\ Entered(p)' /\ ~At(p, "ensureDir")' /\ dirs' = dirs
<1>1. proc[p] \in ProcState /\ proc \in [Procs -> ProcState]
  BY Typed DEF IInv, TypeOK, ProcState
<1>2. \A step, e : /\ Goto(p, step) => proc'[p].at = step
                   /\ Fails(p, e) => proc'[p].at = "exited" /\ proc'[p].error = e
  BY <1>1 DEF Goto, Fails, ProcState
<1>3. CASE CheckSiblings(p)
  BY <1>2, <1>3 DEF CheckSiblings, UnchangedDisk, At, Comparable
<1>4. CASE ensure_dir(p)
  BY <1>2, <1>4 DEF ensure_dir, At, Entered
<1>5. CASE CheckEntryPoints(p)
  BY <1>2, <1>5 DEF CheckEntryPoints, UnchangedDisk, At, Entered, Running
<1>6. CASE check_no_existing(p)
  BY <1>2, <1>6 DEF check_no_existing, UnchangedDisk, At, Entered, Running
<1>7. CASE write_file(p)
  <2>1. proc[p].at = "write" /\ proc[p].error = "none" /\ dirs' = dirs
    BY <1>7 DEF write_file, At, IInv, Lasts, Counted
  <2>2. \/ Fails(p, "io")
        \/ \E n, at : /\ at \in {"exited", "write"}
                      /\ proc' = [proc EXCEPT ![p].written = n, ![p].at = at]
    BY <1>7 DEF write_file
  <2>3. \A n, at : proc' = [proc EXCEPT ![p].written = n, ![p].at = at] =>
                     proc'[p].at = at /\ proc'[p].error = proc[p].error
    BY <1>1 DEF ProcState
  <2> QED BY <1>2, <2>1, <2>2, <2>3 DEF At, Entered, Running, Succeeded
<1> QED BY <1>3, <1>4, <1>5, <1>6, <1>7

\* Every step keeps what the siblings promise.
LEMMA SiblingsStep ==
  ASSUME IInv, SiblingsInv, NEW p \in Procs, Moves(p),
         \/ CheckSiblings(p) \/ ensure_dir(p) \/ CheckEntryPoints(p)
         \/ check_no_existing(p) \/ write_file(p)
  PROVE  SiblingsInv'
<1>1. /\ \A q \in Procs : Job(q)' = Job(q)
      /\ \A q \in Procs \ {p} : proc'[q] = proc[q]
      /\ sequential' = sequential
  BY MovesKeep DEF Moves
<1>2. \A q \in Procs : Comparable(q)' = Comparable(q)
  BY <1>1 DEF Comparable
<1>3. \A q \in Procs \ {p} :
        /\ Entered(q)' = Entered(q) /\ Running(q)' = Running(q)
        /\ At(q, "ensureDir")' = At(q, "ensureDir")
  BY <1>1 DEF Entered, Running, At, Succeeded
<1>4. CASE proc'[p].at = "exited" /\ proc'[p].error # "none" /\ dirs \subseteq dirs'
  <2>1. ~Entered(p)' /\ ~Running(p)' /\ ~At(p, "ensureDir")'
    BY <1>4 DEF Entered, Running, At, Succeeded
  <2>2. DirsMade'
    BY <1>1, <1>3, <1>4, <2>1 DEF SiblingsInv, DirsMade
  <2>3. sequential => NoneCollides'
    BY <1>1, <1>2, <1>3, <2>1 DEF SiblingsInv, NoneCollides
  <2> QED BY <1>1, <2>2, <2>3 DEF SiblingsInv
<1>5. CASE /\ proc[p].at = "start" /\ proc'[p].at = "ensureDir" /\ dirs' = dirs
           /\ MayRun(p)
           /\ Comparable(p) => \A d \in dirs : ~Collides(d, Job(p).name)
  <2>1. ~Entered(p)' /\ ~Entered(p)
    BY <1>5 DEF Entered, At, Succeeded
  <2>2. DirsMade'
    BY <1>1, <1>3, <1>5, <2>1 DEF SiblingsInv, DirsMade
  <2>3. ASSUME NEW q \in Procs, Comparable(q), Entered(q), Comparable(p)
        PROVE  ~Collides(Job(q).name, Job(p).name)
    <3>1. Job(q).name \in dirs
      BY <2>3 DEF SiblingsInv, DirsMade, Comparable
    <3> QED BY <1>5, <2>3, <3>1
  <2>4. sequential => NoneCollides'
    BY <1>1, <1>2, <1>3, <2>1, <2>3 DEF SiblingsInv, NoneCollides
  <2> QED BY <1>1, <2>2, <2>4 DEF SiblingsInv
<1>6. CASE /\ proc[p].at = "ensureDir" /\ Entered(p)' /\ ~At(p, "ensureDir")'
           /\ dirs' = dirs \cup {Job(p).dir}
  <2>1. At(p, "ensureDir") /\ Running(p)
    BY <1>6 DEF At, Running
  <2>2. DirsMade'
    BY <1>1, <1>3, <1>6 DEF SiblingsInv, DirsMade
  <2>3. ASSUME sequential, NEW q \in Procs \ {p}
        PROVE  ~At(q, "ensureDir")
    BY <2>1, <2>3 DEF IInv, OneRuns, Running, At
  <2>4. ASSUME sequential, NEW q \in Procs, Comparable(p), Comparable(q), Entered(q)
        PROVE  /\ ~Collides(Job(q).name, Job(p).name)
               /\ ~Collides(Job(p).name, Job(q).name)
    <3>1. ~Collides(Job(q).name, Job(p).name)
      BY <2>1, <2>4 DEF SiblingsInv, NoneCollides
    <3> QED BY <3>1 DEF Collides
  <2>5. ~Collides(Job(p).name, Job(p).name)
    BY DEF Collides
  <2>6. sequential => NoneCollides'
    <3> SUFFICES ASSUME sequential, NEW q \in Procs, NEW r \in Procs,
                        Comparable(q), Entered(q)',
                        Comparable(r), At(r, "ensureDir")' \/ Entered(r)'
                 PROVE  ~Collides(Job(q).name, Job(r).name)
      BY <1>1, <1>2 DEF NoneCollides
    <3>1. CASE q # p /\ r # p
      BY <1>3, <3>1 DEF SiblingsInv, NoneCollides
    <3>2. CASE q # p /\ r = p
      BY <1>3, <2>4, <3>2
    <3>3. CASE q = p /\ r # p
      BY <1>3, <2>3, <2>4, <3>3
    <3>4. CASE q = p /\ r = p
      BY <2>5, <3>4
    <3> QED BY <3>1, <3>2, <3>3, <3>4
  <2> QED BY <1>1, <2>2, <2>6 DEF SiblingsInv
<1>7. CASE Entered(p) /\ Running(p) /\ Entered(p)' /\ ~At(p, "ensureDir")' /\ dirs' = dirs
  <2>1. DirsMade'
    BY <1>1, <1>3, <1>7 DEF SiblingsInv, DirsMade
  <2>2. sequential => NoneCollides'
    BY <1>1, <1>2, <1>3, <1>7 DEF SiblingsInv, NoneCollides
  <2> QED BY <1>1, <2>1, <2>2 DEF SiblingsInv
<1> QED BY <1>4, <1>5, <1>6, <1>7, StepGoes

\* new/mod.rs: what one invocation after the other scaffolds under a parent,
\* one registry can publish together, for any number of them, as long as each
\* path is spelled with its parent and its last part is the plugin's name (a
\* bare name has no siblings: BarePathsChecked).  Who enters the directory later
\* has compared its name with all that entered before.
THEOREM SiblingsCanBePublished == Spec => []SiblingsPublishable
<1>1. Init => SiblingsInv
  <2> SUFFICES ASSUME Init PROVE SiblingsInv
    OBVIOUS
  <2>1. \A p \in Procs : proc[p].at = "start"
    BY DEF Init
  <2> QED BY <2>1 DEF SiblingsInv, DirsMade, NoneCollides, Entered, At, Succeeded
<1>2. IInv /\ SiblingsInv /\ [Next]_vars => SiblingsInv'
  <2> SUFFICES ASSUME IInv, SiblingsInv, [Next]_vars PROVE SiblingsInv'
    OBVIOUS
  <2>1. CASE Next
    <3>1. PICK p \in Procs : \/ CheckSiblings(p) \/ ensure_dir(p) \/ CheckEntryPoints(p)
                             \/ check_no_existing(p) \/ write_file(p)
      BY <2>1 DEF Next
    <3>2. Moves(p)
      BY <3>1, StepMoves
    <3> QED BY <3>1, <3>2, SiblingsStep
  <2>2. CASE UNCHANGED vars
    BY <2>2 DEF vars, SiblingsInv, DirsMade, NoneCollides, Entered, At, Succeeded,
                Comparable, Job
  <2> QED BY <2>1, <2>2
<1>3. SiblingsInv => SiblingsPublishable
  BY DEF SiblingsInv, NoneCollides, SiblingsPublishable, Comparable, Entered
<1> QED BY <1>1, <1>2, <1>3, Invariance, PTL DEF Spec

=============================================================================
