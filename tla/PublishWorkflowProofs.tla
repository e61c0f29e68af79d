------------------------ MODULE PublishWorkflowProofs ------------------------
(***************************************************************************)
(* Safety of PublishWorkflow for any number of runs, of commits and of     *)
(* plugins in a commit, and for any number of runs that die.               *)
(*                                                                         *)
(* What a run is about to publish (`next`) is at every step covered by what *)
(* is hosted and by what it has still to upload (`built`); this, and what   *)
(* mutual exclusion adds to it, is the inductive invariant.                 *)
(***************************************************************************)
EXTENDS PublishWorkflow, IndexOpsProofs

USE DEF Positions

-----------------------------------------------------------------------------
(* The identity of entries.                                                 *)

\* Entries that are the same have one identity and one hash.
LEMMA SameId ==
  ASSUME NEW e \in IndexEntry, NEW f \in IndexEntry, Same(e, f)
  PROVE  IdOf(e) = IdOf(f) /\ e.hash = f.hash
BY DEF Same, IdOf

\* The entries of an index are entries.
LEMMA EntriesTyped ==
  ASSUME NEW doc \in Index
  PROVE  EntriesOf(doc.plugins) \subseteq IndexEntry
BY DEF Index, EntriesOf

\* The identity and the hash of an entry.
LEMMA IdTyped ==
  ASSUME NEW e \in IndexEntry
  PROVE  IdOf(e) \in Ids /\ e.hash \in Hashes /\ e.hash # Absent
BY WorkflowAssumption DEF IdOf, Ids, IndexEntry

-----------------------------------------------------------------------------
(* The inductive invariant.                                                 *)

Publishing == {"uploadArtifacts", "deleteIndex", "uploadIndex"}

\* The index that is hosted lists nothing that was not published.
Listed == indexAsset # Absent => EntriesOf(indexAsset.plugins) \subseteq published

\* Each entry of the next index has its archive hosted, or still to upload.
Covered(r) ==
  \A f \in EntriesOf(run[r].next.plugins) :
    \/ artifactAsset[IdOf(f)] = f.hash
    \/ \E b \in run[r].built : IdOf(b) = IdOf(f) /\ b.hash = f.hash

\* While the run packages, an entry of its next index that was not published
\* is one that it has built.
Fresh(r) ==
  \A f \in EntriesOf(run[r].next.plugins) :
    \E e \in published \cup run[r].built : IdOf(e) = IdOf(f)

\* Each plugin of the commit is in the next index, or still to come.
Handled(r) ==
  \A i \in DOMAIN Checkout[r] : Checkout[r][i] # NoManifest =>
    \/ \E f \in EntriesOf(run[r].next.plugins) : IdOf(f) = IdOf(Checkout[r][i])
    \/ \E j \in DOMAIN run[r].todo : run[r].todo[j] = Checkout[r][i]

Green(r) ==
  /\ Checkout[r] # << >>
  /\ \A i \in DOMAIN Checkout[r] : Checkout[r][i] # NoManifest =>
       \E e \in published : IdOf(e) = IdOf(Checkout[r][i])

RunInv(r) ==
  /\ At(r, "queued") => run[r].todo = Checkout[r] /\ run[r].built = {}
  /\ run[r].at \in Publishing => run[r].todo = << >> /\ Checkout[r] # << >>
  /\ run[r].at \in {"deleteIndex", "uploadIndex"} => run[r].built = {}
  /\ Covered(r)
  /\ At(r, "package") => Fresh(r)
  /\ run[r].at \in {"package"} \cup Publishing => Handled(r)
  /\ At(r, "succeeded") => Green(r)

\* In a concurrency group one run is under way, and it knows all entries.
Serial ==
  /\ grouped => \A r, q \in Runs : Running(r) /\ Running(q) => r = q
  /\ grouped => \A r \in Runs : Running(r) => \A e \in published : Lists(run[r].next, e)
  /\ grouped => (indexAsset # Absent => \A e \in published : Lists(indexAsset, e))

IInv ==
  /\ TypeOK /\ PublishedFetchable /\ Listed
  /\ \A r \in Runs : RunInv(r)
  /\ Serial

RunRecord ==
  [at : {"queued", "package", "uploadArtifacts", "deleteIndex", "uploadIndex"} \cup Ended,
   todo : Seq(Dirs), next : Index, built : SUBSET IndexEntry]

\* The invariant holds at first.
LEMMA InitInv == Init => IInv
<1> SUFFICES ASSUME Init PROVE IInv
  OBVIOUS
<1>1. \A r \in Runs : /\ run[r].at = "queued" /\ run[r].todo = Checkout[r]
                       /\ run[r].next = Hosted /\ run[r].built = {}
  BY DEF Init
<1>2. run \in [Runs -> RunRecord]
  BY WorkflowAssumption DEF Init, RunRecord
<1>3. Hosted \in Index /\ EntriesOf(Hosted.plugins) \subseteq IndexEntry
  BY WorkflowAssumption, EntriesTyped
<1>4. \A e, f \in EntriesOf(Hosted.plugins) : IdOf(e) = IdOf(f) => e = f
  <2>1. Hosted.plugins \in Seq(IndexEntry) /\ Consistent(Hosted.plugins)
    BY WorkflowAssumption DEF Index
  <2>2. \A i, j \in Positions(Hosted.plugins) :
           i # j => IdOf(Hosted.plugins[i]) # IdOf(Hosted.plugins[j])
    BY <2>1 DEF IdOf, Consistent, SameCanonical
  <2> QED BY <2>1, <2>2 DEF EntriesOf
<1>5. \A e \in EntriesOf(Hosted.plugins) : artifactAsset[IdOf(e)] = e.hash
  <2> SUFFICES ASSUME NEW e \in EntriesOf(Hosted.plugins)
               PROVE  artifactAsset[IdOf(e)] = e.hash
    OBVIOUS
  <2> DEFINE c == CHOOSE f \in EntriesOf(Hosted.plugins) : IdOf(f) = IdOf(e)
  <2>1. c \in EntriesOf(Hosted.plugins) /\ IdOf(c) = IdOf(e)
    OBVIOUS
  <2>2. artifactAsset[IdOf(e)] = c.hash
    BY <1>3, IdTyped DEF Init
  <2> QED BY <2>1, <2>2, <1>4
<1>6. artifactAsset \in [Ids -> Hashes \cup {Absent}]
  <2> SUFFICES ASSUME NEW id \in Ids
               PROVE  artifactAsset[id] \in Hashes \cup {Absent}
    BY DEF Init
  <2>1. CASE \E e \in EntriesOf(Hosted.plugins) : IdOf(e) = id
    <3>1. PICK e \in EntriesOf(Hosted.plugins) : IdOf(e) = id
      BY <2>1
    <3> QED BY <3>1, <1>5, <1>3, IdTyped
  <2>2. CASE ~\E e \in EntriesOf(Hosted.plugins) : IdOf(e) = id
    BY <2>2 DEF Init
  <2> QED BY <2>1, <2>2
<1>7. TypeOK
  BY <1>2, <1>3, <1>6, WorkflowAssumption DEF Init, TypeOK, RunRecord
<1>8. PublishedFetchable /\ Listed
  BY <1>5 DEF Init, PublishedFetchable, Listed
<1>9. \A r \in Runs : RunInv(r)
  <2> SUFFICES ASSUME NEW r \in Runs PROVE RunInv(r)
    OBVIOUS
  <2>1. /\ run[r].at = "queued" /\ run[r].todo = Checkout[r]
        /\ run[r].next = Hosted /\ run[r].built = {}
    BY <1>1
  <2>2. Covered(r)
    BY <2>1, <1>5 DEF Covered
  <2> QED BY <2>1, <2>2 DEF RunInv, At, Publishing
<1>10. Serial
  <2>1. \A r \in Runs : ~Running(r)
    BY <1>1 DEF Running, Ended
  <2>2. \A e \in published : Lists(indexAsset, e)
    BY DEF Init, Lists, Same
  <2> QED BY <2>1, <2>2 DEF Serial
<1> QED BY <1>7, <1>8, <1>9, <1>10 DEF IInv

-----------------------------------------------------------------------------
(* Steps.                                                                   *)

\* Archives are only added, and so are published entries.
Grows ==
  /\ \A id \in Ids : artifactAsset[id] # Absent => artifactAsset'[id] = artifactAsset[id]
  /\ published \subseteq published'

\* Only run r moves.
Moves(r) == \A q \in Runs : q # r => run'[q] = run[q]

\* The record of a run.
LEMMA RecordTyped ==
  ASSUME TypeOK, NEW r \in Runs
  PROVE  run[r] \in RunRecord /\ EntriesOf(run[r].next.plugins) \subseteq IndexEntry
<1>1. run[r] \in RunRecord
  BY DEF TypeOK, RunRecord
<1> QED BY <1>1, EntriesTyped DEF RunRecord

\* A run that does not move keeps its part of the invariant.
LEMMA OtherRun ==
  ASSUME TypeOK, Grows, NEW q \in Runs, RunInv(q), run'[q] = run[q]
  PROVE  RunInv(q)'
<1>1. Covered(q)'
  <2>1. Covered(q)
    BY DEF RunInv
  <2> QED BY <2>1, RecordTyped, IdTyped DEF Covered, Grows
<1>2. Fresh(q) => Fresh(q)'
  BY DEF Fresh, Grows
<1>3. Handled(q) => Handled(q)'
  BY DEF Handled
<1>4. Green(q) => Green(q)'
  BY DEF Green, Grows
<1> QED BY <1>1, <1>2, <1>3, <1>4 DEF RunInv, At

\* Going to another step changes nothing else of a run.
LEMMA Gotos ==
  ASSUME TypeOK, NEW r \in Runs, NEW step \in Publishing \cup {"package"} \cup Ended,
         Goto(r, step)
  PROVE  /\ run' \in [Runs -> RunRecord] /\ Moves(r)
         /\ run'[r].at = step /\ run'[r].todo = run[r].todo
         /\ run'[r].next = run[r].next /\ run'[r].built = run[r].built
<1>1. run \in [Runs -> RunRecord] /\ run[r] \in RunRecord
  BY DEF TypeOK, RunRecord
<1>2. [run[r] EXCEPT !.at = step] \in RunRecord
  BY <1>1 DEF RunRecord, Publishing
<1>3. run' = [run EXCEPT ![r] = [run[r] EXCEPT !.at = step]]
  BY DEF Goto
<1> QED BY <1>1, <1>2, <1>3 DEF Moves, RunRecord

\* Nothing is published, and a run goes on or stops.
LEMMA SerialStays ==
  ASSUME TypeOK, Serial, NEW r \in Runs, Moves(r),
         UNCHANGED <<indexAsset, published, grouped>>,
         Running(r)' => Running(r),
         grouped /\ Running(r)' => \A e \in published : Lists(run'[r].next, e)
  PROVE  Serial'
<1>1. \A q \in Runs : Running(q)' => Running(q)
  BY DEF Moves, Running
<1>2. \A q \in Runs : q # r => run'[q].next = run[q].next
  BY DEF Moves
<1>3. grouped => \A p, q \in Runs : Running(p)' /\ Running(q)' => p = q
  BY <1>1 DEF Serial
<1>4. grouped => \A q \in Runs : Running(q)' => \A e \in published : Lists(run'[q].next, e)
  BY <1>1, <1>2 DEF Serial
<1> QED BY <1>3, <1>4 DEF Serial, Lists

\* What one action has to show of its run.
StepInv(r) ==
  /\ TypeOK' /\ PublishedFetchable' /\ Listed'
  /\ Grows /\ Moves(r) /\ RunInv(r)' /\ Serial'

\* A run that stops short leaves the assets as they are.
LEMMA StopStep ==
  ASSUME IInv, NEW r \in Runs, NEW step \in {"refused", "failed", "cancelled"},
         Goto(r, step), UNCHANGED assets, faults' \in 0 .. MaxFaults
  PROVE  StepInv(r)
<1>1. /\ run' \in [Runs -> RunRecord] /\ Moves(r)
      /\ run'[r].at = step /\ run'[r].next = run[r].next /\ run'[r].built = run[r].built
  BY Gotos DEF IInv, Ended
<1>2. TypeOK' /\ PublishedFetchable' /\ Listed' /\ Grows
  BY <1>1 DEF IInv, TypeOK, PublishedFetchable, Listed, Grows, assets, RunRecord
<1>3. RunInv(r)'
  <2>1. Covered(r)'
    BY <1>1 DEF IInv, RunInv, Covered, assets
  <2> QED BY <2>1, <1>1 DEF RunInv, At, Publishing
<1>4. ~Running(r)'
  BY <1>1 DEF Running, Ended
<1>5. Serial'
  BY <1>1, <1>4, SerialStays DEF IInv, assets
<1> QED BY <1>1, <1>2, <1>3, <1>5 DEF StepInv

\* Each step of a run keeps the invariant: fetching the index,
LEMMA FetchStep ==
  ASSUME IInv, NEW r \in Runs, Fetch(r)
  PROVE  StepInv(r)
<1>1. CASE indexAsset = Absent
  BY <1>1, StopStep DEF Fetch, IInv, TypeOK
<1>2. CASE indexAsset # Absent
  <2>1. /\ run' = [run EXCEPT ![r].at = "package", ![r].next = indexAsset]
        /\ indexAsset \in Index /\ run[r] \in RunRecord /\ run \in [Runs -> RunRecord]
        /\ UNCHANGED <<assets, faults>>
    BY <1>2, RecordTyped DEF Fetch, IInv, TypeOK, RunRecord
  <2>2. /\ run' \in [Runs -> RunRecord] /\ Moves(r)
        /\ run'[r].at = "package" /\ run'[r].next = indexAsset
        /\ run'[r].todo = run[r].todo /\ run'[r].built = run[r].built
    BY <2>1 DEF RunRecord, Moves
  <2>3. TypeOK' /\ PublishedFetchable' /\ Listed' /\ Grows
    BY <2>1, <2>2 DEF IInv, TypeOK, PublishedFetchable, Listed, Grows, assets, RunRecord
  <2>4. EntriesOf(indexAsset.plugins) \subseteq published
    BY <1>2 DEF IInv, Listed
  <2>5. Covered(r)'
    BY <2>1, <2>2, <2>4 DEF Covered, IInv, PublishedFetchable, assets
  <2>6. Fresh(r)'
    BY <2>1, <2>2, <2>4 DEF Fresh, assets
  <2>7. Handled(r)'
    BY <2>2 DEF Handled, IInv, RunInv, Fetch
  <2>8. RunInv(r)'
    BY <2>2, <2>5, <2>6, <2>7 DEF RunInv, At, Publishing
  <2>9. Serial'
    <3>1. grouped => \A q \in Runs : q # r => ~Running(q)'
      BY <2>2 DEF Fetch, Running, Moves
    <3>2. grouped => \A e \in published : Lists(run'[r].next, e)
      BY <1>2, <2>2 DEF IInv, Serial, Lists
    <3>3. grouped => \A q \in Runs : Running(q)' => \A e \in published : Lists(run'[q].next, e)
      BY <3>1, <3>2
    <3> QED BY <2>1, <3>1, <3>3 DEF IInv, Serial, assets, Lists
  <2> QED BY <2>2, <2>3, <2>8, <2>9 DEF StepInv
<1> QED BY <1>1, <1>2

\* What is known of a run that packages.
LEMMA PackagingRun ==
  ASSUME IInv, NEW r \in Runs, At(r, "package")
  PROVE  /\ run \in [Runs -> RunRecord] /\ run[r] \in RunRecord
         /\ EntriesOf(run[r].next.plugins) \subseteq IndexEntry
         /\ Covered(r) /\ Fresh(r) /\ Handled(r) /\ Running(r)
BY RecordTyped DEF IInv, RunInv, At, Running, Ended, TypeOK, RunRecord

\* Where an element of a sequence is after the first one is taken off.
LEMMA AfterHead ==
  ASSUME NEW T, NEW s \in Seq(T), s # << >>, NEW j \in DOMAIN s
  PROVE  \/ Head(s) = s[j]
         \/ j - 1 \in DOMAIN Tail(s) /\ Tail(s)[j - 1] = s[j]
<1>1. Len(s) \in Nat /\ DOMAIN s = 1 .. Len(s) /\ Len(s) # 0
  OBVIOUS
<1>2. Len(Tail(s)) = Len(s) - 1 /\ DOMAIN Tail(s) = 1 .. Len(s) - 1
  BY <1>1
<1>3. CASE j = 1
  BY <1>3
<1>4. CASE j # 1
  <2>1. j - 1 \in 1 .. Len(s) - 1
    BY <1>1, <1>4
  <2>2. Tail(s)[j - 1] = s[(j - 1) + 1]
    BY <1>1, <2>1
  <2> QED BY <1>1, <1>2, <2>1, <2>2
<1> QED BY <1>3, <1>4

\* leaving out what is no plugin, or is published,
LEMMA SkipStep ==
  ASSUME IInv, NEW r \in Runs, At(r, "package"), run[r].todo # << >>, UNCHANGED <<assets, faults>>,
         Skipped(run[r].next.plugins, Head(run[r].todo)),
         run' = [run EXCEPT ![r].todo = Tail(@)]
  PROVE  StepInv(r)
<1>1. /\ run \in [Runs -> RunRecord] /\ run[r] \in RunRecord /\ Running(r)
      /\ Covered(r) /\ Fresh(r) /\ Handled(r)
  BY PackagingRun
<1>2. run[r].todo \in Seq(Dirs) /\ Tail(run[r].todo) \in Seq(Dirs)
  BY <1>1 DEF RunRecord
<1>3. /\ run' \in [Runs -> RunRecord] /\ Moves(r)
      /\ run'[r].at = "package" /\ run'[r].todo = Tail(run[r].todo)
      /\ run'[r].next = run[r].next /\ run'[r].built = run[r].built
  BY <1>1, <1>2 DEF RunRecord, Moves, At
<1>4. TypeOK' /\ PublishedFetchable' /\ Listed' /\ Grows
  BY <1>3 DEF IInv, TypeOK, PublishedFetchable, Listed, Grows, assets, RunRecord
<1>5. Handled(r)'
  <2> SUFFICES ASSUME NEW i \in DOMAIN Checkout[r], Checkout[r][i] # NoManifest
               PROVE  \/ \E f \in EntriesOf(run[r].next.plugins) : IdOf(f) = IdOf(Checkout[r][i])
                      \/ \E j \in DOMAIN Tail(run[r].todo) : Tail(run[r].todo)[j] = Checkout[r][i]
    BY <1>3 DEF Handled
  <2>1. CASE \E f \in EntriesOf(run[r].next.plugins) : IdOf(f) = IdOf(Checkout[r][i])
    BY <2>1
  <2>2. CASE \E j \in DOMAIN run[r].todo : run[r].todo[j] = Checkout[r][i]
    <3>1. PICK j \in DOMAIN run[r].todo : run[r].todo[j] = Checkout[r][i]
      BY <2>2
    <3>2. CASE Head(run[r].todo) = Checkout[r][i]
      BY <3>2 DEF Skipped, AlreadyPresent, IdOf
    <3>3. CASE Head(run[r].todo) # Checkout[r][i]
      BY <1>2, <3>1, <3>3, AfterHead
    <3> QED BY <3>2, <3>3
  <2> QED BY <1>1, <2>1, <2>2 DEF Handled
<1>6. Covered(r)' /\ Fresh(r)'
  BY <1>1, <1>3 DEF Covered, Fresh, assets
<1>7. RunInv(r)'
  BY <1>3, <1>5, <1>6 DEF RunInv, At, Publishing
<1>8. Serial'
  BY <1>1, <1>3, SerialStays DEF IInv, Serial, assets
<1> QED BY <1>3, <1>4, <1>7, <1>8 DEF StepInv

\* building one that is not,
LEMMA BuildStep ==
  ASSUME IInv, NEW r \in Runs, At(r, "package"), run[r].todo # << >>, UNCHANGED <<assets, faults>>,
         Head(run[r].todo) # NoManifest,
         NEW out \in PackageOutput(run[r].next.plugins, Head(run[r].todo)),
         run' = [run EXCEPT ![r].todo = Tail(@),
                            ![r].next = out.derived_index,
                            ![r].built = @ \cup {out.new_entry}]
  PROVE  StepInv(r)
<1> DEFINE s == run[r].next.plugins
           plugin == Head(run[r].todo)
           e == out.new_entry
           doc == out.derived_index
<1>1. /\ run \in [Runs -> RunRecord] /\ run[r] \in RunRecord /\ Running(r)
      /\ Covered(r) /\ Fresh(r) /\ Handled(r) /\ EntriesOf(s) \subseteq IndexEntry
  BY PackagingRun
<1>2. run[r].todo \in Seq(Dirs) /\ Tail(run[r].todo) \in Seq(Dirs)
      /\ plugin \in PluginDir /\ s \in Seq(IndexEntry) /\ run[r].built \subseteq IndexEntry
  BY <1>1 DEF RunRecord, Index, Dirs
<1>3. /\ e \in IndexEntry /\ IdOf(e) = IdOf(plugin)
      /\ check_entry_insert(s, e) = "Ok" /\ doc \in to_canonical_json(push_entry(s, e))
  <2>1. PICK t \in Times :
          /\ e = from_manifest(plugin.name, plugin.version, plugin.description, plugin.hash, t)
          /\ check_entry_insert(s, e) = "Ok" /\ doc \in to_canonical_json(push_entry(s, e))
    BY DEF PackageOutput
  <2>2. e \in IndexEntry
    BY <1>2, <2>1, ManifestEntry DEF PluginDir
  <2>3. IdOf(e) = IdOf(plugin)
    BY <2>1 DEF from_manifest, IdOf
  <2> QED BY <2>1, <2>2, <2>3
<1> HIDE DEF s, plugin, e, doc
<1>4. /\ doc \in Index
      /\ \A f \in EntriesOf(doc.plugins) : Same(f, e) \/ \E g \in EntriesOf(s) : Same(f, g)
      /\ \A g \in EntriesOf(s) \cup {e} : Lists(doc, g)
  <2>1. doc \in to_canonical_json(Append(s, e))
    BY <1>3 DEF push_entry
  <2> QED BY <1>2, <1>3, <2>1, Packaged
<1>5. /\ run' \in [Runs -> RunRecord] /\ Moves(r)
      /\ run'[r].at = "package" /\ run'[r].todo = Tail(run[r].todo)
      /\ run'[r].next = doc /\ run'[r].built = run[r].built \cup {e}
  <2> DEFINE after == [run[r] EXCEPT !.todo = Tail(run[r].todo), !.next = doc,
                                     !.built = run[r].built \cup {e}]
  <2>1. run' = [run EXCEPT ![r] = after]
    BY DEF e, doc
  <2>2. /\ after \in RunRecord /\ after.at = "package" /\ after.todo = Tail(run[r].todo)
        /\ after.next = doc /\ after.built = run[r].built \cup {e}
    BY <1>1, <1>2, <1>3, <1>4 DEF RunRecord, At
  <2> HIDE DEF after
  <2>3. run' \in [Runs -> RunRecord] /\ Moves(r)
    <3>1. run' \in [Runs -> RunRecord]
      BY <1>1, <2>1, <2>2
    <3>2. Moves(r)
      BY <1>1, <2>1 DEF Moves
    <3> QED BY <3>1, <3>2
  <2>4. run'[r] = after
    BY <1>1, <2>1
  <2> QED BY <2>2, <2>3, <2>4
<1>6. EntriesOf(doc.plugins) \subseteq IndexEntry
  BY <1>4, EntriesTyped
<1>7. TypeOK' /\ PublishedFetchable' /\ Listed' /\ Grows
  BY <1>5 DEF IInv, TypeOK, PublishedFetchable, Listed, Grows, assets, RunRecord
<1>8. Covered(r)'
  <2> SUFFICES ASSUME NEW f \in EntriesOf(doc.plugins)
               PROVE  \/ artifactAsset[IdOf(f)] = f.hash
                      \/ \E b \in run[r].built \cup {e} : IdOf(b) = IdOf(f) /\ b.hash = f.hash
    BY <1>5 DEF Covered, assets
  <2>1. CASE Same(f, e)
    BY <2>1, <1>3, <1>6, SameId
  <2>2. ASSUME NEW g \in EntriesOf(s), Same(f, g)
        PROVE  \/ artifactAsset[IdOf(f)] = f.hash
               \/ \E b \in run[r].built : IdOf(b) = IdOf(f) /\ b.hash = f.hash
    <3>1. IdOf(f) = IdOf(g) /\ f.hash = g.hash
      BY <2>2, <1>1, <1>6, SameId
    <3> QED BY <3>1, <1>1 DEF Covered, s
  <2> QED BY <1>4, <2>1, <2>2
<1>9. Fresh(r)'
  <2> SUFFICES ASSUME NEW f \in EntriesOf(doc.plugins)
               PROVE  \E b \in published \cup (run[r].built \cup {e}) : IdOf(b) = IdOf(f)
    BY <1>5 DEF Fresh, assets
  <2>1. CASE Same(f, e)
    BY <2>1, <1>3, <1>6, SameId
  <2>2. ASSUME NEW g \in EntriesOf(s), Same(f, g)
        PROVE  \E b \in published \cup run[r].built : IdOf(b) = IdOf(f)
    <3>1. IdOf(f) = IdOf(g)
      BY <2>2, <1>1, <1>6, SameId
    <3> QED BY <3>1, <1>1 DEF Fresh, s
  <2> QED BY <1>4, <2>1, <2>2
<1>10. \A g \in EntriesOf(s) \cup {e} : \E f \in EntriesOf(doc.plugins) : IdOf(f) = IdOf(g)
  BY <1>1, <1>3, <1>4, <1>6, SameId DEF Lists
<1>11. Handled(r)'
  <2> SUFFICES ASSUME NEW i \in DOMAIN Checkout[r], Checkout[r][i] # NoManifest
               PROVE  \/ \E f \in EntriesOf(doc.plugins) : IdOf(f) = IdOf(Checkout[r][i])
                      \/ \E j \in DOMAIN Tail(run[r].todo) : Tail(run[r].todo)[j] = Checkout[r][i]
    BY <1>5 DEF Handled
  <2>1. CASE \E f \in EntriesOf(s) : IdOf(f) = IdOf(Checkout[r][i])
    BY <2>1, <1>10
  <2>2. CASE \E j \in DOMAIN run[r].todo : run[r].todo[j] = Checkout[r][i]
    <3>1. PICK j \in DOMAIN run[r].todo : run[r].todo[j] = Checkout[r][i]
      BY <2>2
    <3>2. CASE plugin = Checkout[r][i]
      BY <3>2, <1>3, <1>10
    <3>3. CASE plugin # Checkout[r][i]
      BY <1>2, <3>1, <3>3, AfterHead DEF plugin
    <3> QED BY <3>2, <3>3
  <2> QED BY <1>1, <2>1, <2>2 DEF Handled, s
<1>12. RunInv(r)'
  BY <1>5, <1>8, <1>9, <1>11 DEF RunInv, At, Publishing
<1>13. Serial'
  <2>1. ASSUME grouped, NEW b \in published
        PROVE  Lists(doc, b)
    <3>1. PICK g \in EntriesOf(s) : Same(g, b)
      BY <2>1, <1>1 DEF IInv, Serial, Lists, s
    <3>2. PICK f \in EntriesOf(doc.plugins) : Same(f, g)
      BY <1>4 DEF Lists
    <3> QED BY <3>1, <3>2 DEF Lists, Same
  <2> QED BY <1>1, <1>5, <2>1, SerialStays DEF IInv, assets
<1> QED BY <1>5, <1>7, <1>12, <1>13 DEF StepInv

\* either of the two,
LEMMA PackageStep ==
  ASSUME IInv, NEW r \in Runs, PackageNext(r)
  PROVE  StepInv(r)
<1>1. CASE /\ Skipped(run[r].next.plugins, Head(run[r].todo))
           /\ run' = [run EXCEPT ![r].todo = Tail(@)]
  BY <1>1, SkipStep DEF PackageNext
<1>2. CASE Goto(r, "refused")
  BY <1>2, StopStep DEF PackageNext, IInv, TypeOK
<1>3. CASE /\ ~Skipped(run[r].next.plugins, Head(run[r].todo))
           /\ \E out \in PackageOutput(run[r].next.plugins, Head(run[r].todo)) :
                run' = [run EXCEPT ![r].todo = Tail(@),
                                   ![r].next = out.derived_index,
                                   ![r].built = @ \cup {out.new_entry}]
  BY <1>3, BuildStep DEF PackageNext, Skipped
<1> QED BY <1>1, <1>2, <1>3 DEF PackageNext

\* ending the loop over the plugins,
LEMMA EndLoopStep ==
  ASSUME IInv, NEW r \in Runs, EndLoop(r)
  PROVE  StepInv(r)
<1>1. Running(r) /\ Covered(r) /\ Fresh(r) /\ Handled(r) /\ run[r].todo = << >>
  BY PackagingRun DEF EndLoop
<1>2. CASE Goto(r, "refused")
  BY <1>2, StopStep DEF EndLoop, IInv, TypeOK
<1>3. ASSUME NEW step \in {"succeeded", "uploadArtifacts"}, Goto(r, step), Checkout[r] # << >>,
             step = "succeeded" => run[r].built = {}
      PROVE  StepInv(r)
  <2>1. /\ run' \in [Runs -> RunRecord] /\ Moves(r) /\ run'[r].at = step
        /\ run'[r].todo = run[r].todo /\ run'[r].next = run[r].next
        /\ run'[r].built = run[r].built /\ UNCHANGED <<assets, faults>>
    BY <1>3, Gotos DEF EndLoop, IInv, Ended, Publishing
  <2>2. TypeOK' /\ PublishedFetchable' /\ Listed' /\ Grows
    BY <2>1 DEF IInv, TypeOK, PublishedFetchable, Listed, Grows, assets, RunRecord
  <2>3. Covered(r)' /\ Handled(r)'
    BY <1>1, <2>1 DEF Covered, Handled, assets
  <2>4. step = "succeeded" => Green(r)'
    <3> SUFFICES ASSUME run[r].built = {}, NEW i \in DOMAIN Checkout[r],
                        Checkout[r][i] # NoManifest
                 PROVE  \E e \in published : IdOf(e) = IdOf(Checkout[r][i])
      BY <1>3, <2>1 DEF Green, assets
    <3>1. PICK f \in EntriesOf(run[r].next.plugins) : IdOf(f) = IdOf(Checkout[r][i])
      BY <1>1 DEF Handled
    <3> QED BY <3>1, <1>1 DEF Fresh
  <2>5. RunInv(r)'
    BY <1>1, <1>3, <2>1, <2>3, <2>4 DEF RunInv, At, Publishing
  <2>6. Serial'
    BY <1>1, <2>1, SerialStays DEF IInv, Serial, assets
  <2> QED BY <2>1, <2>2, <2>5, <2>6 DEF StepInv
<1> QED BY <1>2, <1>3 DEF EndLoop

\* What is known of a run that uploads.
LEMMA UploadingRun ==
  ASSUME IInv, NEW r \in Runs, run[r].at \in Publishing
  PROVE  /\ run \in [Runs -> RunRecord] /\ run[r] \in RunRecord
         /\ EntriesOf(run[r].next.plugins) \subseteq IndexEntry
         /\ run[r].todo = << >> /\ Covered(r) /\ Handled(r) /\ Running(r) /\ Checkout[r] # << >>
BY RecordTyped DEF IInv, RunInv, At, Running, Ended, Publishing, TypeOK, RunRecord

\* uploading an artifact,
LEMMA UploadArtifactStep ==
  ASSUME IInv, NEW r \in Runs, UploadArtifact(r)
  PROVE  StepInv(r)
<1>1. /\ run \in [Runs -> RunRecord] /\ run[r] \in RunRecord /\ run[r].todo = << >>
      /\ EntriesOf(run[r].next.plugins) \subseteq IndexEntry
      /\ Covered(r) /\ Handled(r) /\ Running(r) /\ Checkout[r] # << >>
  BY UploadingRun DEF UploadArtifact, At, Publishing
<1>2. PICK e \in run[r].built :
        IF artifactAsset[IdOf(e)] = Absent
        THEN /\ artifactAsset' = [artifactAsset EXCEPT ![IdOf(e)] = e.hash]
             /\ run' = [run EXCEPT ![r].built = @ \ {e}]
        ELSE Goto(r, "failed") /\ UNCHANGED artifactAsset
  BY DEF UploadArtifact
<1>3. CASE artifactAsset[IdOf(e)] # Absent
  BY <1>2, <1>3, StopStep DEF UploadArtifact, assets, IInv, TypeOK
<1>4. CASE artifactAsset[IdOf(e)] = Absent
  <2>1. e \in IndexEntry /\ IdOf(e) \in Ids /\ e.hash \in Hashes /\ e.hash # Absent
    BY <1>1, IdTyped DEF RunRecord
  <2>2. /\ artifactAsset \in [Ids -> Hashes \cup {Absent}]
        /\ artifactAsset' = [artifactAsset EXCEPT ![IdOf(e)] = e.hash]
    BY <1>2, <1>4 DEF IInv, TypeOK
  <2>3. /\ run' \in [Runs -> RunRecord] /\ Moves(r) /\ run'[r].at = run[r].at
        /\ run'[r].todo = run[r].todo /\ run'[r].next = run[r].next
        /\ run'[r].built = run[r].built \ {e}
    <3> DEFINE after == [run[r] EXCEPT !.built = run[r].built \ {e}]
    <3>1. run' = [run EXCEPT ![r] = after]
      BY <1>2, <1>4
    <3>2. /\ after \in RunRecord /\ after.at = run[r].at /\ after.todo = run[r].todo
          /\ after.next = run[r].next /\ after.built = run[r].built \ {e}
      BY <1>1 DEF RunRecord
    <3> HIDE DEF after
    <3> QED BY <1>1, <3>1, <3>2 DEF Moves
  <2>4. Grows
    BY <1>4, <2>2 DEF Grows, UploadArtifact
  <2>5. artifactAsset' \in [Ids -> Hashes \cup {Absent}]
    BY <2>1, <2>2
  <2>6. TypeOK' /\ Listed'
    BY <2>3, <2>5 DEF IInv, TypeOK, Listed, UploadArtifact, RunRecord
  <2>7. PublishedFetchable'
    <3>1. \A f \in published : f \in IndexEntry /\ artifactAsset[IdOf(f)] = f.hash
      BY DEF IInv, TypeOK, PublishedFetchable
    <3>2. \A f \in published : artifactAsset'[IdOf(f)] = f.hash
      BY <3>1, <2>4, IdTyped DEF Grows
    <3> QED BY <3>2 DEF PublishedFetchable, UploadArtifact
  <2>8. Covered(r)'
    <3> SUFFICES ASSUME NEW f \in EntriesOf(run[r].next.plugins)
                 PROVE  \/ artifactAsset'[IdOf(f)] = f.hash
                        \/ \E b \in run[r].built \ {e} : IdOf(b) = IdOf(f) /\ b.hash = f.hash
      BY <2>3 DEF Covered
    <3>1. CASE artifactAsset[IdOf(f)] = f.hash
      BY <3>1, <1>1, <2>4, IdTyped DEF Grows
    <3>2. ASSUME NEW b \in run[r].built, IdOf(b) = IdOf(f), b.hash = f.hash
          PROVE  \/ artifactAsset'[IdOf(f)] = f.hash
                 \/ \E c \in run[r].built \ {e} : IdOf(c) = IdOf(f) /\ c.hash = f.hash
      <4>1. CASE b = e
        BY <3>2, <4>1, <2>1, <2>2
      <4>2. CASE b # e
        BY <3>2, <4>2
      <4> QED BY <4>1, <4>2
    <3> QED BY <1>1, <3>1, <3>2 DEF Covered
  <2>9. Handled(r)'
    BY <1>1, <2>3 DEF Handled
  <2>10. RunInv(r)'
    BY <1>1, <2>3, <2>8, <2>9 DEF RunInv, At, Publishing, UploadArtifact
  <2>11. Serial'
    BY <1>1, <2>3, SerialStays DEF IInv, Serial, UploadArtifact
  <2> QED BY <2>3, <2>4, <2>6, <2>7, <2>10, <2>11 DEF StepInv
<1> QED BY <1>3, <1>4

\* ending the uploads,
LEMMA EndUploadsStep ==
  ASSUME IInv, NEW r \in Runs, EndUploads(r)
  PROVE  StepInv(r)
<1>1. run[r].todo = << >> /\ Covered(r) /\ Handled(r) /\ Running(r) /\ Checkout[r] # << >>
  BY UploadingRun DEF EndUploads, At, Publishing
<1>2. /\ run' \in [Runs -> RunRecord] /\ Moves(r) /\ run'[r].at = "deleteIndex"
      /\ run'[r].todo = run[r].todo /\ run'[r].next = run[r].next
      /\ run'[r].built = run[r].built /\ UNCHANGED <<assets, faults>>
  BY Gotos DEF EndUploads, IInv, Publishing
<1>3. TypeOK' /\ PublishedFetchable' /\ Listed' /\ Grows
  BY <1>2 DEF IInv, TypeOK, PublishedFetchable, Listed, Grows, assets, RunRecord
<1>4. Covered(r)' /\ Handled(r)'
  BY <1>1, <1>2 DEF Covered, Handled, assets
<1>5. RunInv(r)'
  BY <1>1, <1>2, <1>4 DEF RunInv, At, Publishing, EndUploads
<1>6. Serial'
  BY <1>1, <1>2, SerialStays DEF IInv, Serial, assets
<1> QED BY <1>2, <1>3, <1>5, <1>6 DEF StepInv

\* deleting the published index,
LEMMA DeleteIndexStep ==
  ASSUME IInv, NEW r \in Runs, DeleteIndex(r)
  PROVE  StepInv(r)
<1>1. /\ run[r].todo = << >> /\ run[r].built = {}
      /\ Covered(r) /\ Handled(r) /\ Running(r) /\ Checkout[r] # << >>
  BY UploadingRun DEF DeleteIndex, At, Publishing, IInv, RunInv
<1>2. /\ run' \in [Runs -> RunRecord] /\ Moves(r) /\ run'[r].at = "uploadIndex"
      /\ run'[r].todo = run[r].todo /\ run'[r].next = run[r].next
      /\ run'[r].built = run[r].built
      /\ indexAsset' = Absent /\ UNCHANGED <<artifactAsset, published, grouped, faults>>
  BY Gotos DEF DeleteIndex, IInv, Publishing
<1>3. TypeOK' /\ PublishedFetchable' /\ Listed' /\ Grows
  BY <1>2 DEF IInv, TypeOK, PublishedFetchable, Listed, Grows, RunRecord
<1>4. Covered(r)' /\ Handled(r)'
  BY <1>1, <1>2 DEF Covered, Handled
<1>5. RunInv(r)'
  BY <1>1, <1>2, <1>4 DEF RunInv, At, Publishing
<1>6. Serial'
  <2>1. grouped => \A q \in Runs : q # r => ~Running(q)
    BY <1>1 DEF IInv, Serial
  <2>2. \A q \in Runs : q # r => ~(grouped /\ Running(q)')
    BY <2>1, <1>2 DEF Moves, Running
  <2>3. grouped => \A e \in published : Lists(run'[r].next, e)
    BY <1>1, <1>2 DEF IInv, Serial
  <2>4. grouped => \A q \in Runs : Running(q)' => \A e \in published : Lists(run'[q].next, e)
    BY <2>2, <2>3
  <2> QED BY <1>2, <2>2, <2>4 DEF Serial
<1> QED BY <1>2, <1>3, <1>5, <1>6 DEF StepInv

\* uploading the new one,
LEMMA UploadIndexStep ==
  ASSUME IInv, NEW r \in Runs, UploadIndex(r)
  PROVE  StepInv(r)
<1>1. /\ run[r].todo = << >> /\ run[r].built = {} /\ run[r] \in RunRecord
      /\ EntriesOf(run[r].next.plugins) \subseteq IndexEntry
      /\ Covered(r) /\ Handled(r) /\ Running(r) /\ Checkout[r] # << >>
  BY UploadingRun DEF UploadIndex, At, Publishing, IInv, RunInv
<1>2. CASE indexAsset # Absent
  BY <1>2, StopStep DEF UploadIndex, assets, IInv, TypeOK
<1>3. CASE indexAsset = Absent
  <2>1. /\ run' \in [Runs -> RunRecord] /\ Moves(r) /\ run'[r].at = "succeeded"
        /\ run'[r].todo = run[r].todo /\ run'[r].next = run[r].next
        /\ run'[r].built = run[r].built
        /\ indexAsset' = run[r].next
        /\ published' = published \cup EntriesOf(run[r].next.plugins)
        /\ UNCHANGED <<artifactAsset, grouped, faults>>
    BY <1>3, Gotos DEF UploadIndex, IInv, Ended
  <2>2. TypeOK' /\ Listed' /\ Grows
    BY <1>1, <2>1 DEF IInv, TypeOK, Listed, Grows, RunRecord
  <2>3. PublishedFetchable'
    BY <1>1, <2>1 DEF IInv, PublishedFetchable, Covered
  <2>4. Covered(r)'
    BY <1>1, <2>1 DEF Covered
  <2>5. Green(r)'
    <3> SUFFICES ASSUME NEW i \in DOMAIN Checkout[r], Checkout[r][i] # NoManifest
                 PROVE  \E e \in published' : IdOf(e) = IdOf(Checkout[r][i])
      BY <1>1 DEF Green
    <3>1. PICK f \in EntriesOf(run[r].next.plugins) : IdOf(f) = IdOf(Checkout[r][i])
      BY <1>1 DEF Handled
    <3> QED BY <3>1, <2>1
  <2>6. RunInv(r)'
    BY <2>1, <2>4, <2>5 DEF RunInv, At, Publishing
  <2>7. Serial'
    <3>1. ~Running(r)'
      BY <2>1 DEF Running, Ended
    <3>2. grouped => \A q \in Runs : ~Running(q)'
      BY <1>1, <2>1, <3>1 DEF IInv, Serial, Moves, Running
    <3>3. grouped => \A e \in published' : Lists(run[r].next, e)
      <4>1. \A e \in EntriesOf(run[r].next.plugins) : Lists(run[r].next, e)
        BY DEF Lists, Same
      <4>2. grouped => \A e \in published : Lists(run[r].next, e)
        BY <1>1 DEF IInv, Serial
      <4> QED BY <4>1, <4>2, <2>1
    <3> QED BY <2>1, <3>2, <3>3 DEF Serial, Lists
  <2> QED BY <2>1, <2>2, <2>3, <2>6, <2>7 DEF StepInv
<1> QED BY <1>2, <1>3

\* and failing.
LEMMA FaultStep ==
  ASSUME IInv, NEW r \in Runs, Fault(r)
  PROVE  StepInv(r)
<1>1. Goto(r, "cancelled") /\ UNCHANGED assets
  BY DEF Fault
<1>2. faults' \in 0 .. MaxFaults
  BY WorkflowAssumption DEF Fault, IInv, TypeOK
<1>3. "cancelled" \in {"refused", "failed", "cancelled"}
  OBVIOUS
<1> QED BY <1>1, <1>2, <1>3, StopStep

\* Every step keeps the invariant,
LEMMA NextInv == IInv /\ [Next]_vars => IInv'
<1> SUFFICES ASSUME IInv, [Next]_vars PROVE IInv'
  OBVIOUS
<1>1. ASSUME NEW r \in Runs, Step(r) \/ Fault(r)
      PROVE  IInv'
  <2>1. StepInv(r)
    <3>1. CASE Fetch(r)
      BY <3>1, FetchStep
    <3>2. CASE PackageNext(r)
      BY <3>2, PackageStep
    <3>3. CASE EndLoop(r)
      BY <3>3, EndLoopStep
    <3>4. CASE UploadArtifact(r)
      BY <3>4, UploadArtifactStep
    <3>5. CASE EndUploads(r)
      BY <3>5, EndUploadsStep
    <3>6. CASE DeleteIndex(r)
      BY <3>6, DeleteIndexStep
    <3>7. CASE UploadIndex(r)
      BY <3>7, UploadIndexStep
    <3>8. CASE Fault(r)
      BY <3>8, FaultStep
    <3> QED BY <1>1, <3>1, <3>2, <3>3, <3>4, <3>5, <3>6, <3>7, <3>8 DEF Step
  <2>2. \A q \in Runs : q # r => RunInv(q)'
    BY <2>1, OtherRun DEF StepInv, Moves, IInv
  <2> QED BY <2>1, <2>2 DEF StepInv, IInv
<1>2. CASE UNCHANGED vars
  <2>1. TypeOK' /\ PublishedFetchable' /\ Listed'
    BY <1>2 DEF vars, IInv, TypeOK, PublishedFetchable, Listed
  <2>2. Grows /\ \A q \in Runs : run'[q] = run[q]
    BY <1>2 DEF vars, Grows
  <2>3. \A q \in Runs : RunInv(q)'
    BY <2>2, OtherRun DEF IInv
  <2>4. Serial'
    BY <1>2 DEF vars, IInv, Serial, Running, Lists
  <2> QED BY <2>1, <2>3, <2>4 DEF IInv
<1> QED BY <1>1, <1>2 DEF Next

\* so it always holds.
LEMMA Invariance == Spec => []IInv
BY InitInv, NextInv, PTL DEF Spec

-----------------------------------------------------------------------------

\* Assets and runs keep their shape; a run never uploads anything but an index
\* (docs/src/guides/ci-cd/github.md, the publish job).
THEOREM TypeCorrect == Spec => []TypeOK
<1>1. IInv => TypeOK
  BY DEF IInv
<1> QED BY <1>1, Invariance, PTL

\* However many runs overlap, with or without a concurrency group, and
\* wherever they die, the archive of an entry that was ever hosted is there
\* with its hash: archives before the index, and never over another
\* (github.md: the order of the uploads, and --clobber on the index alone).
THEOREM ArchivesStay == Spec => []PublishedFetchable
<1>1. IInv => PublishedFetchable
  BY DEF IInv
<1> QED BY <1>1, Invariance, PTL

\* A concurrency group, which the recipe does not have, is enough to keep each
\* entry listed, also when runs die between deleting and uploading the index.
THEOREM NothingIsForgotten == Spec => []NothingForgotten
<1>1. IInv => NothingForgotten
  BY DEF IInv, Serial, Lists, Same, NothingForgotten, EntriesNeverDeleted
<1> QED BY <1>1, Invariance, PTL

\* A green run has published each plugin of its commit or found it published
\* (github.md: the skip test of the loop and the two skipped uploads).
THEOREM GreenIsPublished == Spec => []GreenMeansPublished
<1>1. IInv => GreenMeansPublished
  BY DEF IInv, RunInv, Green, GreenMeansPublished
<1> QED BY <1>1, Invariance, PTL

=============================================================================
