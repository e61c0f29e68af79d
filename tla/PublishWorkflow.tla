--------------------------- MODULE PublishWorkflow ---------------------------
(***************************************************************************)
(* The publish workflow of the GitHub recipe: each run downloads the       *)
(* hosted index.json, packages the plugin versions the index does not list *)
(* yet, uploads their archives without --clobber and then the index with   *)
(* it.  Runs overlap unless a concurrency group serializes them; a run may *)
(* die at any step, and its archives stay uploaded.                        *)
(*                                                                         *)
(* A release asset is external: `gh release upload` refuses to replace an  *)
(* asset, and with --clobber deletes it before it uploads the new one.     *)
(***************************************************************************)
EXTENDS IndexOps

CONSTANTS
  Runs,        \* workflow runs
  Checkout,    \* the directories under PLUGIN_ROOT in each run's commit, as `sort` has them
  NoManifest,  \* a directory without a manifest.toml
  Hosted,      \* the index the registry starts from
  Grouping,    \* whether a concurrency group lets in one run at a time, or both
  MaxFaults,   \* bound on the runs that are cancelled or lose the network
  Absent       \* no such asset

Ids == Names \X Versions

\* A directory: its manifest, and the digest of the archive of its sources.
PluginDir ==
  [name : Names, version : Versions, description : Descriptions, hash : Hashes]

Dirs == PluginDir \cup {NoManifest}

ASSUME WorkflowAssumption ==
  /\ Checkout \in [Runs -> Seq(Dirs)] /\ NoManifest \notin PluginDir
  /\ Hosted \in Index /\ Consistent(Hosted.plugins)
  /\ Grouping \subseteq BOOLEAN /\ MaxFaults \in Nat
  /\ Absent \notin Hashes /\ Absent \notin Index

VARIABLES
  indexAsset,     \* the hosted index.json
  artifactAsset,  \* the hosted archives
  run,            \* each run: its step, its copy of the index, what it built
  grouped,        \* the workflow file has a concurrency group
  faults,         \* how many runs have been cut short
  published       \* every entry that a hosted index has ever listed

vars == <<indexAsset, artifactAsset, run, grouped, faults, published>>

assets == <<indexAsset, artifactAsset, published, grouped>>

IdOf(e) == <<e.name, e.version>>

Ended == {"succeeded", "refused", "failed", "cancelled"}

\* What the registry hosts at the start is in place.
Init ==
  /\ indexAsset = Hosted
  /\ artifactAsset =
       [id \in Ids |->
          IF \E e \in EntriesOf(Hosted.plugins) : IdOf(e) = id
          THEN (CHOOSE e \in EntriesOf(Hosted.plugins) : IdOf(e) = id).hash
          ELSE Absent]
  /\ run = [r \in Runs |-> [at |-> "queued", todo |-> Checkout[r],
                            next |-> Hosted, built |-> {}]]
  /\ grouped \in Grouping
  /\ faults = 0
  /\ published = EntriesOf(Hosted.plugins)

-----------------------------------------------------------------------------

At(r, step) == run[r].at = step

Goto(r, step) == run' = [run EXCEPT ![r].at = step]

Running(r) == run[r].at \notin Ended \cup {"queued"}

\* Mutant: the run packages against the index that its commit was made with.
FetchOnce(r) ==
  /\ At(r, "queued")
  /\ grouped => \A q \in Runs : ~Running(q)
  /\ run' = [run EXCEPT ![r].at = "package", ![r].next = Hosted]
  /\ UNCHANGED <<assets, faults>>

\* Mutant: a download that found no asset is not noticed.
FetchUnchecked(r) ==
  /\ At(r, "queued")
  /\ grouped => \A q \in Runs : ~Running(q)
  /\ run' = [run EXCEPT ![r].at = "package", ![r].next = indexAsset]
  /\ UNCHANGED <<assets, faults>>

\* Fetch current registry index; without the asset the step fails.
Fetch(r) ==
  /\ At(r, "queued")
  /\ grouped => \A q \in Runs : ~Running(q)
  /\ IF indexAsset = Absent
     THEN Goto(r, "failed")
     ELSE run' = [run EXCEPT ![r].at = "package", ![r].next = indexAsset]
  /\ UNCHANGED <<assets, faults>>

\* The loop's own test, and a mutant of it: this spelling and version are in the next index.
PresentByName(s, plugin) == \E e \in EntriesOf(s) : e.name = plugin.name  \* mutant

AlreadyPresent(s, plugin) ==
  \E e \in EntriesOf(s) : e.name = plugin.name /\ e.version = plugin.version

\* What `package` can return for a directory: nothing when it refuses it.
PackageOutput(s, plugin) ==
  LET new_entries == {from_manifest(plugin.name, plugin.version, plugin.description,
                                    plugin.hash, t) : t \in Times}
  IN  UNION {{[new_entry |-> e, derived_index |-> doc] :
                doc \in to_canonical_json(push_entry(s, e))} :
             e \in {f \in new_entries : check_entry_insert(s, f) = "Ok"}}

\* A directory that is no plugin, or is published, is passed over.
Skipped(s, dir) == dir # NoManifest => AlreadyPresent(s, dir)

\* One turn of the loop: skip, or validate and package into the next index.
\* Under `set -e` the first refusal ends the run before it uploads anything.
PackageNext(r) ==
  /\ At(r, "package") /\ run[r].todo # << >>
  /\ UNCHANGED <<assets, faults>>
  /\ LET plugin == Head(run[r].todo)
         s == run[r].next.plugins
     IN  \/ /\ Skipped(s, plugin)
            /\ run' = [run EXCEPT ![r].todo = Tail(@)]
         \/ /\ ~Skipped(s, plugin)
            /\ PackageOutput(s, plugin) = {}
            /\ Goto(r, "refused")
         \/ /\ ~Skipped(s, plugin)
            /\ \E out \in PackageOutput(s, plugin) :
                 run' = [run EXCEPT ![r].todo = Tail(@),
                                    ![r].next = out.derived_index,
                                    ![r].built = @ \cup {out.new_entry}]

\* Without any directory the step refuses to go on; both uploads are skipped
\* when nothing was packaged.
EndLoop(r) ==
  /\ At(r, "package") /\ run[r].todo = << >>
  /\ \/ Checkout[r] = << >> /\ Goto(r, "refused")
     \/ Checkout[r] # << >> /\ run[r].built = {} /\ Goto(r, "succeeded")
     \/ Checkout[r] # << >> /\ run[r].built # {} /\ Goto(r, "uploadArtifacts")
  /\ UNCHANGED <<assets, faults>>

\* Mutant: the archives are uploaded with --clobber too.
UploadArtifactClobber(r) ==
  /\ At(r, "uploadArtifacts")
  /\ UNCHANGED <<indexAsset, published, grouped, faults>>
  /\ \E e \in run[r].built :
       /\ artifactAsset' = [artifactAsset EXCEPT ![IdOf(e)] = e.hash]
       /\ run' = [run EXCEPT ![r].built = @ \ {e}]

\* Upload new artifacts, one by one; one that is there already ends the run.
UploadArtifact(r) ==
  /\ At(r, "uploadArtifacts")
  /\ UNCHANGED <<indexAsset, published, grouped, faults>>
  /\ \E e \in run[r].built :
       IF artifactAsset[IdOf(e)] = Absent
       THEN /\ artifactAsset' = [artifactAsset EXCEPT ![IdOf(e)] = e.hash]
            /\ run' = [run EXCEPT ![r].built = @ \ {e}]
       ELSE Goto(r, "failed") /\ UNCHANGED artifactAsset

\* Mutant: the index is uploaded without --clobber, over the asset that is there.
EndUploadsNoClobber(r) ==
  /\ At(r, "uploadArtifacts") /\ run[r].built = {}
  /\ Goto(r, "uploadIndex")
  /\ UNCHANGED <<assets, faults>>

EndUploads(r) ==
  /\ At(r, "uploadArtifacts") /\ run[r].built = {}
  /\ Goto(r, "deleteIndex")
  /\ UNCHANGED <<assets, faults>>

\* Upload updated index: --clobber first deletes the asset that it finds.
DeleteIndex(r) ==
  /\ At(r, "deleteIndex")
  /\ indexAsset' = Absent
  /\ Goto(r, "uploadIndex")
  /\ UNCHANGED <<artifactAsset, published, grouped, faults>>

\* Another run may have uploaded an index since; then this upload fails.
UploadIndex(r) ==
  /\ At(r, "uploadIndex")
  /\ IF indexAsset = Absent
     THEN /\ indexAsset' = run[r].next
          /\ published' = published \cup EntriesOf(run[r].next.plugins)
          /\ Goto(r, "succeeded")
     ELSE Goto(r, "failed") /\ UNCHANGED <<indexAsset, published>>
  /\ UNCHANGED <<artifactAsset, grouped, faults>>

\* Cancelled, timed out, or out of network.
Fault(r) ==
  /\ Running(r) /\ faults < MaxFaults
  /\ faults' = faults + 1
  /\ Goto(r, "cancelled")
  /\ UNCHANGED assets

Step(r) ==
  \/ Fetch(r) \/ PackageNext(r) \/ EndLoop(r) \/ UploadArtifact(r)
  \/ EndUploads(r) \/ DeleteIndex(r) \/ UploadIndex(r)

Next == \E r \in Runs : Step(r) \/ Fault(r)

Spec == Init /\ [][Next]_vars

\* The runner keeps taking steps of some run; nothing makes one fail.
FairSpec == Spec /\ WF_vars(\E r \in Runs : Step(r))

-----------------------------------------------------------------------------

\* The shape of the assets and of every run.
TypeOK ==
  /\ indexAsset \in Index \cup {Absent}
  /\ artifactAsset \in [Ids -> Hashes \cup {Absent}]
  /\ run \in [Runs ->
       [at : {"queued", "package", "uploadArtifacts", "deleteIndex", "uploadIndex"}
               \cup Ended,
        todo : Seq(Dirs), next : Index, built : SUBSET IndexEntry]]
  /\ grouped \in Grouping
  /\ faults \in 0 .. MaxFaults
  /\ published \subseteq IndexEntry

\* Whatever the overlap of runs and wherever they die, the archive of every
\* entry that a consumer may ever have read is hosted, with its hash: two
\* commits that built one version differently never mix.
PublishedFetchable ==
  \A e \in published : artifactAsset[IdOf(e)] = e.hash

\* docs, explanation/registry.md: entries are never deleted.  An index that is hosted lists every
\* entry that was ever listed, with its hash and its published_at.
EntriesNeverDeleted ==
  indexAsset # Absent =>
    \A e \in published : \E f \in EntriesOf(indexAsset.plugins) :
      <<f.name, f.version, f.hash, f.published_at>>
        = <<e.name, e.version, e.hash, e.published_at>>

\* A concurrency group is enough for that, even when runs die half-way.
NothingForgotten == grouped => EntriesNeverDeleted

\* A green run has published each version in its commit, or found it published:
\* the loop's skip test never hides a version that the index does not list, and
\* a commit without any directory is not green.
GreenMeansPublished ==
  \A r \in Runs : At(r, "succeeded") =>
    /\ Checkout[r] # << >>
    /\ \A i \in DOMAIN Checkout[r] : Checkout[r][i] # NoManifest =>
         \E e \in published : IdOf(e) = IdOf(Checkout[r][i])

\* Runs that one concurrency group lets in one at a time, and that nothing
\* interrupts, do not lock each other out: each one ends green, or with a
\* plugin that the tool refuses, or for want of any.
RunsEndGreen ==
  grouped => <>((\A r \in Runs : run[r].at \in {"succeeded", "refused"}) \/ faults > 0)

=============================================================================
