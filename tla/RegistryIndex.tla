---------------------------- MODULE RegistryIndex ----------------------------
(***************************************************************************)
(* One registry index over its life: every step reads the current          *)
(* index.json, changes it with the SDK as `package` or `yank` does, and    *)
(* puts the derived document in its place.                                 *)
(***************************************************************************)
EXTENDS IndexOps

CONSTANTS
  Seeds,        \* documents a registry may start from
  MaxEntries    \* bound on the number of entries

ASSUME SeedsAssumption == Seeds \subseteq Index

VARIABLE index  \* the hosted index.json

\* What package_plugin may build from a manifest, an archive and the clock.
Candidates ==
  {from_manifest(n, v, d, h, t) :
     n \in Names, v \in Versions, d \in Descriptions, h \in Hashes, t \in Times}

\* A registry starts from `new index` or from a migrated document; one that
\* does not parse is refused by every command.
Init == index \in Seeds /\ Parses(index.plugins)

\* package_plugin on a copy of the input index, then to_canonical_json.
Package(e) ==
  /\ Len(index.plugins) < MaxEntries
  /\ Parses(index.plugins)
  /\ check_entry_insert(index.plugins, e) = "Ok"
  /\ index' \in to_canonical_json(push_entry(index.plugins, e))

\* yank and yank --undo: the document is rewritten even when nothing flips.
Yank(n, v, target) ==
  /\ Parses(index.plugins)
  /\ \E i \in find_mut(index.plugins, n, v) :
       index' \in to_canonical_json(set_yanked(index.plugins, i, target))

Next ==
  \/ \E e \in Candidates : Package(e)
  \/ \E n \in Names, v \in Versions, target \in BOOLEAN : Yank(n, v, target)

Spec == Init /\ [][Next]_index

-----------------------------------------------------------------------------

\* The hosted document has the shape of a parsed index.
TypeOK == index \in Index

\* Spec 1 invariant 1: (name, version) is unique across plugins[], and no two
\* spellings of one canonical name coexist, in whatever order and through
\* whatever chain of package and yank commands the document was derived.
RegistryConsistent == Consistent(index.plugins)

\* push_entry and parse_json guard plugins[] with two separate loops; they
\* agree on every candidate, so the tool never writes a document that its
\* next command refuses to read, and refuses no entry that it could.
InsertMirrorsParse ==
  \A e \in Candidates :
    check_entry_insert(index.plugins, e) = "Ok"
      <=> Parses(Append(index.plugins, e))

SameButYanked(e, f) == [e EXCEPT !.yanked = f.yanked] = f

EntriesKept ==
  LET old == {normalize_nfc(e) : e \in EntriesOf(index.plugins)}
      new == EntriesOf(index'.plugins)
  IN  /\ \A e \in old : \E f \in new : SameButYanked(e, f)
      /\ \A f, g \in new \ old : f = g
      /\ Len(index'.plugins) - Len(index.plugins) \in {0, 1}

\* S1-4, immutable publication: a command keeps every entry, its published_at,
\* hash and the rest (its description up to NFC), and adds at most one; the
\* sort moves entries but neither drops nor repeats any.
ImmutablePublication == [][EntriesKept]_index

\* S2-3, deterministic regeneration: a document the tool wrote is the fixed
\* point of to_canonical_json, so a command that changes no entry (a repeated
\* yank) reproduces its input byte for byte.
OutputIsCanonical == [][to_canonical_json(index'.plugins) = {index'}]_index

-----------------------------------------------------------------------------
(* The registry a consumer sees: the entries, whatever their order.         *)

Seen(e) == IF Nfc[e.description] = TooLong THEN e ELSE normalize_nfc(e)

Catalog == {Seen(e) : e \in EntriesOf(index.plugins)}

R == INSTANCE Registry WITH catalog <- Catalog

\* The index document implements the abstract registry: every command
\* publishes one new entry, moves one yanked flag, or changes nothing a
\* consumer can tell.
ImplementsRegistry == R!Spec

-----------------------------------------------------------------------------
(* What the documentation says of the index and the code does not do.       *)

\* registry-index.md: 1.0.0 and 1.0.0+build.7 are the same version for
\* uniqueness, and only one of them can appear in a registry.
BuildMetadataIgnored ==
  \A i, j \in Positions(index.plugins) :
    /\ i # j
    /\ SameCanonical(index.plugins[i], index.plugins[j])
    => index.plugins[i].version.release # index.plugins[j].version.release

=============================================================================
