------------------------------ MODULE IndexOps ------------------------------
(***************************************************************************)
(* The registry index as data: what `influxdb3-plugin-schemas` and         *)
(* `influxdb3-plugin-sdk` compute over `plugins[]`, with no state of its   *)
(* own.  The modules with a state machine extend this one.                 *)
(*                                                                         *)
(* A version keeps its SemVer precedence (`release`) and its build         *)
(* metadata, which precedence ignores.                                     *)
(***************************************************************************)
EXTENDS PluginName, Integers, Sequences

CONSTANTS
  Versions,      \* versions, pre-release folded into the precedence
  Hashes,        \* artifact digests
  Times,         \* published_at values
  Descriptions,  \* valid (1..200 characters, one line) descriptions
  Nfc,           \* Unicode NFC on them, TooLong when the result has over 200
  TooLong        \* a description `Description::try_new` rejects

ASSUME ConstantsAssumption ==
  /\ Versions \subseteq [release : Nat, build : Nat]
  /\ TooLong \notin Descriptions
  /\ Nfc \in [Descriptions -> Descriptions \cup {TooLong}]
  /\ \A d \in Descriptions : Nfc[d] \in Descriptions => Nfc[Nfc[d]] = Nfc[d]

-----------------------------------------------------------------------------
(* Entries and index documents.                                             *)

IndexEntry ==
  [name : Names, version : Versions, published_at : Times,
   description : Descriptions, hash : Hashes, yanked : BOOLEAN]

Current == "2.1"

\* A legacy index keeps "2.0" until the tool rewrites it.
Index == [index_schema_version : {"2.0", Current}, plugins : Seq(IndexEntry)]

from_manifest(n, v, d, h, t) ==
  [name |-> n, version |-> v, published_at |-> t,
   description |-> d, hash |-> h, yanked |-> FALSE]

EntriesOf(s) == {s[i] : i \in DOMAIN s}

Positions(s) == 1 .. Len(s)

-----------------------------------------------------------------------------
(* Index::parse_json: the cross-entry errors of a document, by position.    *)
(* Versions parse and print without change, so comparing the raw version    *)
(* strings is comparing versions with their build metadata.                 *)

SameCanonical(e, f) == canonical_name(e.name) = canonical_name(f.name)

Repeats(s, i) ==
  \E j \in 1 .. i - 1 : s[j].name = s[i].name /\ s[j].version = s[i].version

Respells(s, i) ==
  \E j \in 1 .. i - 1 : SameCanonical(s[j], s[i]) /\ s[j].name # s[i].name

\* Mutant: the collision check is forgotten.
ParseErrorsDuplicatesOnly(s) ==
  {<<i, "DuplicateIndexEntry">> : i \in {k \in Positions(s) : Repeats(s, k)}}

ParseErrors(s) ==
  {<<i, "DuplicateIndexEntry">> : i \in {k \in Positions(s) : Repeats(s, k)}}
  \cup
  {<<i, "CanonicalCollision">> :
     i \in {k \in Positions(s) : ~Repeats(s, k) /\ Respells(s, k)}}

Parses(s) == ParseErrors(s) = {}

\* The same condition with no order of reading: one entry per version of a
\* plugin, one spelling per plugin.
Consistent(s) ==
  \A i, j \in Positions(s) :
    i # j /\ SameCanonical(s[i], s[j]) =>
      s[i].name = s[j].name /\ s[i].version # s[j].version

-----------------------------------------------------------------------------
(* Index::check_entry_insert and Index::push_entry.                         *)

\* Mutant: entries are compared by spelling.
CheckInsertBySpelling(s, e) ==
  IF \E i \in Positions(s) : s[i].name = e.name /\ s[i].version = e.version
  THEN "AlreadyPublished"
  ELSE "Ok"

check_entry_insert(s, e) ==
  LET existing == {i \in Positions(s) : SameCanonical(s[i], e)}
  IN  IF \E i \in existing : s[i].name # e.name
      THEN "CanonicalCollision"
      ELSE IF \E i \in existing : s[i].version = e.version
           THEN "AlreadyPublished"
           ELSE "Ok"

\* Mutant: an insert-or-replace that matches versions by precedence.
PushReplacing(s, e) ==
  LET other(f) == f.name # e.name \/ f.version.release # e.version.release
  IN  Append(SelectSeq(s, other), e)

push_entry(s, e) == IF check_entry_insert(s, e) = "Ok" THEN Append(s, e) ELSE s

\* plugin_dir_with_index refuses a manifest for this index; a collision of
\* spellings alone is left to the publisher.
NameVersionConflict(s, e) ==
  \/ check_entry_insert(s, e) = "AlreadyPublished"
  \/ /\ check_entry_insert(s, e) = "CanonicalCollision"
     /\ \E i \in Positions(s) : SameCanonical(s[i], e) /\ s[i].version = e.version

-----------------------------------------------------------------------------
(* mutate_index::set_yanked: the first entry with this spelling and         *)
(* version; no position means EntryNotFound.                                *)

find_mut(s, n, v) ==
  LET found(i) == s[i].name = n /\ s[i].version = v
  IN  {i \in Positions(s) : found(i) /\ \A j \in Positions(s) : found(j) => i <= j}

\* Mutant: the flag moves on every version of the plugin.
SetYankedAllVersions(s, i, target) ==
  [j \in Positions(s) |->
     IF s[j].name = s[i].name THEN [s[j] EXCEPT !.yanked = target] ELSE s[j]]

set_yanked(s, i, target) == [s EXCEPT ![i].yanked = target]

-----------------------------------------------------------------------------
(* Index::to_canonical_json.  A stable sort by spelling, then by SemVer     *)
(* precedence (which ignores build metadata), then NFC on descriptions.     *)
(* The sort is given by what it returns: an order of the old positions.     *)

SortsBefore(e, f) ==
  \/ NameLess(e.name, f.name)
  \/ e.name = f.name /\ e.version.release < f.version.release

\* Mutant: an unstable sort.
UnstableSortOrders(s) ==
  {p \in [Positions(s) -> Positions(s)] :
     /\ \A w \in Positions(s) : \E i \in Positions(s) : p[i] = w
     /\ \A i, j \in Positions(s) : i < j => ~SortsBefore(s[p[j]], s[p[i]])}

SortOrders(s) ==
  {p \in [Positions(s) -> Positions(s)] :
     /\ \A w \in Positions(s) : \E i \in Positions(s) : p[i] = w
     /\ \A i, j \in Positions(s) : i < j =>
          \/ SortsBefore(s[p[i]], s[p[j]])
          \/ ~SortsBefore(s[p[j]], s[p[i]]) /\ p[i] < p[j]}

normalize_nfc(e) == [e EXCEPT !.description = Nfc[@]]

\* Mutant: the length is not looked at again after NFC.
CanonicalJsonUnbounded(s) ==
  {[index_schema_version |-> Current,
    plugins |-> [i \in Positions(s) |-> normalize_nfc(s[p[i]])]] :
     p \in SortOrders(s)}

\* The documents the call can return: one, or none when a description grows
\* past its bound.  The writer's schema version replaces a legacy one.
to_canonical_json(s) ==
  IF \E i \in Positions(s) : Nfc[s[i].description] = TooLong
  THEN {}
  ELSE {[index_schema_version |-> Current,
         plugins |-> [i \in Positions(s) |-> normalize_nfc(s[p[i]])]] :
          p \in SortOrders(s)}

=============================================================================
