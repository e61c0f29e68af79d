------------------------- MODULE RegistryIndexProofs -------------------------
(***************************************************************************)
(* Theorems about RegistryIndex, and about what search and info answer     *)
(* over every index that it can reach (IndexQuery) and what the commands   *)
(* print of it (IndexReports), for all sets of names, versions,            *)
(* descriptions, databases, triggers and texts, every seed and bound.      *)
(*                                                                         *)
(* Both queries choose by position; what they choose is a function of the  *)
(* set of entries alone, because the entries of one plugin have distinct   *)
(* versions (Consistent).                                                  *)
(***************************************************************************)
EXTENDS IndexReports, IndexOpsProofs, FiniteSetTheorems

USE DEF Positions

-----------------------------------------------------------------------------
(* Steps.                                                                   *)

\* What authors may publish are entries.
LEMMA CandidatesTyped == Candidates \subseteq IndexEntry
BY ManifestEntry DEF Candidates

-----------------------------------------------------------------------------
(* Type correctness and consistency.                                        *)

Inv == TypeOK /\ RegistryConsistent

\* The invariant holds at first,
LEMMA InvInit == Init => Inv
BY SeedsAssumption, ParsesIffConsistent DEF Init, Inv, TypeOK, RegistryConsistent, Index

\* What a packaging step does: the entry is appended and the result sorted.
LEMMA PackageStep ==
  ASSUME Inv, NEW e \in Candidates, Package(e)
  PROVE  /\ e \in IndexEntry
         /\ Append(index.plugins, e) \in Seq(IndexEntry)
         /\ Consistent(Append(index.plugins, e))
         /\ check_entry_insert(index.plugins, e) = "Ok"
         /\ index' \in to_canonical_json(Append(index.plugins, e))
<1>1. e \in IndexEntry /\ index.plugins \in Seq(IndexEntry)
  BY CandidatesTyped DEF Inv, TypeOK, Index
<1> QED BY <1>1, AppendConsistent DEF Inv, RegistryConsistent, Package, push_entry

\* What a yanking step does: one flag is set and the result sorted.
LEMMA YankStep ==
  ASSUME Inv, NEW n \in Names, NEW v \in Versions, NEW target \in BOOLEAN,
         Yank(n, v, target)
  PROVE  \E k \in Positions(index.plugins) :
           LET t == set_yanked(index.plugins, k, target) IN
           /\ t \in Seq(IndexEntry)
           /\ Consistent(t)
           /\ index' \in to_canonical_json(t)
<1>1. index.plugins \in Seq(IndexEntry)
  BY DEF Inv, TypeOK, Index
<1>2. PICK k \in Positions(index.plugins) :
        index' \in to_canonical_json(set_yanked(index.plugins, k, target))
  BY DEF Yank, find_mut
<1> QED BY <1>1, <1>2, SetYankedKeeps, SetYankedConsistent
        DEF Inv, RegistryConsistent

\* every step keeps it,
LEMMA InvNext == Inv /\ [Next]_index => Inv'
<1> SUFFICES ASSUME Inv, [Next]_index PROVE Inv'
  OBVIOUS
<1>1. ASSUME NEW e \in Candidates, Package(e) PROVE Inv'
  BY <1>1, PackageStep, CanonicalDocument, CanonicalConsistent
     DEF Inv, TypeOK, RegistryConsistent
<1>2. ASSUME NEW n \in Names, NEW v \in Versions, NEW target \in BOOLEAN,
             Yank(n, v, target)
      PROVE  Inv'
  BY <1>2, YankStep, CanonicalDocument, CanonicalConsistent
     DEF Inv, TypeOK, RegistryConsistent
<1>3. CASE UNCHANGED index
  BY <1>3 DEF Inv, TypeOK, RegistryConsistent, Consistent
<1> QED BY <1>1, <1>2, <1>3 DEF Next

\* so it always holds.
LEMMA Invariance == Spec => []Inv
<1> QED BY InvInit, InvNext, PTL DEF Spec

\* The hosted index.json always has the shape of a parsed index.
THEOREM TypeCorrect == Spec => []TypeOK
<1>1. Inv => TypeOK BY DEF Inv
<1> QED BY <1>1, Invariance, PTL

\* No chain of package and yank commands produces a repeated (name, version)
\* or a second spelling of a plugin.
THEOREM Consistency == Spec => []RegistryConsistent
<1>1. Inv => RegistryConsistent BY DEF Inv
<1> QED BY <1>1, Invariance, PTL

\* push_entry and parse_json agree on every document the tool can hold.
THEOREM InsertAndParseAgree == Spec => []InsertMirrorsParse
<1>1. Inv => InsertMirrorsParse
  <2> SUFFICES ASSUME Inv, NEW e \in Candidates
               PROVE  check_entry_insert(index.plugins, e) = "Ok"
                        <=> Parses(Append(index.plugins, e))
    BY DEF InsertMirrorsParse
  <2>1. e \in IndexEntry /\ index.plugins \in Seq(IndexEntry)
    BY CandidatesTyped DEF Inv, TypeOK, Index
  <2>2. Append(index.plugins, e) \in Seq(IndexEntry)
    BY <2>1
  <2> QED BY <2>1, <2>2, AppendConsistent, ParsesIffConsistent
          DEF Inv, RegistryConsistent
<1> QED BY <1>1, Invariance, PTL

-----------------------------------------------------------------------------
(* The refinement: the document implements the abstract registry.           *)

CatalogOf(s) == {Seen(s[i]) : i \in Positions(s)}

\* What a consumer sees of an entry: everything but the spelling of the
\* description.
LEMMA SeenEntry ==
  ASSUME NEW e \in IndexEntry
  PROVE  /\ Seen(e) \in IndexEntry
         /\ Seen(e).name = e.name /\ Seen(e).version = e.version /\ Seen(e).yanked = e.yanked
         /\ Nfc[e.description] # TooLong =>
              Seen(e) = normalize_nfc(e) /\ Seen(normalize_nfc(e)) = normalize_nfc(e)
<1>1. e.description \in Descriptions /\ Nfc[e.description] \in Descriptions \cup {TooLong}
  BY ConstantsAssumption DEF IndexEntry
<1>2. CASE Nfc[e.description] = TooLong
  BY <1>2 DEF Seen
<1>3. CASE Nfc[e.description] # TooLong
  <2>1. Seen(e) = normalize_nfc(e) /\ Nfc[e.description] \in Descriptions
    BY <1>1, <1>3 DEF Seen
  <2>2. normalize_nfc(e) = [e EXCEPT !.description = Nfc[e.description]]
    BY DEF normalize_nfc
  <2>3. Nfc[Nfc[e.description]] = Nfc[e.description]
    BY <1>1, <2>1, ConstantsAssumption
  <2>4. /\ normalize_nfc(e) \in IndexEntry
        /\ normalize_nfc(e).name = e.name /\ normalize_nfc(e).version = e.version
        /\ normalize_nfc(e).yanked = e.yanked
        /\ normalize_nfc(e).description = Nfc[e.description]
        /\ normalize_nfc(normalize_nfc(e)) = normalize_nfc(e)
    BY <1>1, <2>1, <2>2, <2>3 DEF normalize_nfc, IndexEntry
  <2>5. Seen(normalize_nfc(e)) = normalize_nfc(e)
    BY <2>4 DEF Seen
  <2> QED BY <2>1, <2>4, <2>5
<1> QED BY <1>2, <1>3

\* Sorting and normalizing change nothing that a consumer sees.
LEMMA CanonicalCatalog ==
  ASSUME NEW s \in Seq(IndexEntry), NEW doc \in to_canonical_json(s)
  PROVE  CatalogOf(doc.plugins) = CatalogOf(s)
<1>1. Len(doc.plugins) = Len(s)
  BY CanonicalDocument
<1>2. PICK p \in [Positions(s) -> Positions(s)] :
        /\ \A w \in Positions(s) : \E i \in Positions(s) : p[i] = w
        /\ \A i \in Positions(s) : doc.plugins[i] = normalize_nfc(s[p[i]])
  BY CanonicalDocument
<1>3. \A i \in Positions(s) : s[i] \in IndexEntry /\ Nfc[s[i].description] # TooLong
  BY DEF to_canonical_json
<1>4. \A i \in Positions(s) : Seen(doc.plugins[i]) = Seen(s[p[i]])
  <2> SUFFICES ASSUME NEW i \in Positions(s) PROVE Seen(doc.plugins[i]) = Seen(s[p[i]])
    OBVIOUS
  <2>1. p[i] \in Positions(s)
    BY <1>2
  <2>2. s[p[i]] \in IndexEntry /\ Nfc[s[p[i]].description] # TooLong
    BY <1>3, <2>1
  <2> QED BY <1>2, <2>2, SeenEntry
<1>5. Positions(doc.plugins) = Positions(s)
  BY <1>1
<1>6. CatalogOf(doc.plugins) \subseteq CatalogOf(s)
  <2> SUFFICES ASSUME NEW i \in Positions(s) PROVE Seen(doc.plugins[i]) \in CatalogOf(s)
    BY <1>5 DEF CatalogOf
  <2>1. p[i] \in Positions(s)
    BY <1>2
  <2> QED BY <1>4, <2>1 DEF CatalogOf
<1>7. CatalogOf(s) \subseteq CatalogOf(doc.plugins)
  <2> SUFFICES ASSUME NEW w \in Positions(s) PROVE Seen(s[w]) \in CatalogOf(doc.plugins)
    BY DEF CatalogOf
  <2>1. PICK i \in Positions(s) : p[i] = w
    BY <1>2
  <2> QED BY <1>4, <1>5, <2>1 DEF CatalogOf
<1> QED BY <1>6, <1>7

\* The module's catalog is the catalog of the document at hand.
LEMMA CatalogIsCatalogOf == index.plugins \in Seq(IndexEntry) => Catalog = CatalogOf(index.plugins)
BY DEF Catalog, CatalogOf, EntriesOf

\* Any two entries of a consistent document may stand in one registry, and
\* no two positions show the same entry.
LEMMA CatalogCompatible ==
  ASSUME NEW s \in Seq(IndexEntry), Consistent(s), NEW i \in Positions(s),
         NEW j \in Positions(s), i # j
  PROVE  R!Compatible(Seen(s[i]), Seen(s[j])) /\ Seen(s[i]) # Seen(s[j])
<1>1. s[i] \in IndexEntry /\ s[j] \in IndexEntry
  OBVIOUS
<1>2. /\ Seen(s[i]).name = s[i].name /\ Seen(s[i]).version = s[i].version
      /\ Seen(s[j]).name = s[j].name /\ Seen(s[j]).version = s[j].version
  BY <1>1, SeenEntry
<1>3. SameCanonical(s[i], s[j]) => s[i].name = s[j].name /\ s[i].version # s[j].version
  BY DEF Consistent
<1>4. R!Compatible(Seen(s[i]), Seen(s[j]))
  BY <1>2, <1>3 DEF R!Compatible, R!SameCanonical, R!canonical_name, SameCanonical, canonical_name
<1>5. Seen(s[i]) # Seen(s[j])
  BY <1>2, <1>3 DEF SameCanonical
<1> QED BY <1>4, <1>5

\* The registry starts with the catalog of the first document.
LEMMA RefinesInit == Init => R!Init
<1> SUFFICES ASSUME Init PROVE R!Init
  OBVIOUS
<1>1. index.plugins \in Seq(IndexEntry) /\ Consistent(index.plugins)
  BY InvInit DEF Inv, TypeOK, RegistryConsistent, Index
<1>2. Catalog = CatalogOf(index.plugins)
  BY <1>1, CatalogIsCatalogOf
<1>3. Catalog \subseteq IndexEntry
  <2>1. \A i \in Positions(index.plugins) : index.plugins[i] \in IndexEntry
    BY <1>1
  <2> QED BY <1>2, <2>1, SeenEntry DEF CatalogOf
<1>4. \A e, f \in Catalog : e # f => R!Compatible(e, f)
  BY <1>1, <1>2, CatalogCompatible DEF CatalogOf
<1> QED BY <1>3, <1>4 DEF R!Init, R!IndexEntry, IndexEntry

\* A package step publishes the entry, as readers see it.
LEMMA RefinesPackage ==
  ASSUME Inv, NEW e \in Candidates, Package(e)
  PROVE  R!Publish(Seen(e)) /\ Seen(e) \in IndexEntry
<1> DEFINE s == index.plugins
           t == Append(s, e)
<1>1. s \in Seq(IndexEntry) /\ Consistent(s) /\ Catalog = CatalogOf(s)
  BY CatalogIsCatalogOf DEF Inv, TypeOK, RegistryConsistent, Index
<1>2. e \in IndexEntry /\ t \in Seq(IndexEntry) /\ Consistent(t) /\ index' \in to_canonical_json(t)
  BY PackageStep
<1>3. Catalog' = CatalogOf(index'.plugins)
  <2>1. index'.plugins \in Seq(IndexEntry)
    BY <1>2, CanonicalDocument DEF Index
  <2> QED BY <2>1 DEF Catalog, CatalogOf, EntriesOf
<1>4. Catalog' = CatalogOf(t)
  BY <1>2, <1>3, CanonicalCatalog
<1>5. /\ Len(t) = Len(s) + 1 /\ Len(s) \in Nat
      /\ t[Len(s) + 1] = e
      /\ \A i \in Positions(s) : t[i] = s[i]
  BY <1>1, <1>2
<1>6. Catalog' = Catalog \cup {Seen(e)}
  <2> HIDE DEF t, s
  <2> QED BY <1>1, <1>4, <1>5 DEF CatalogOf
<1>7. \A f \in Catalog : R!Compatible(Seen(e), f)
  <2> SUFFICES ASSUME NEW i \in Positions(s) PROVE R!Compatible(Seen(e), Seen(s[i]))
    BY <1>1 DEF CatalogOf
  <2>1. i \in Positions(t) /\ Len(s) + 1 \in Positions(t) /\ Len(s) + 1 # i
    BY <1>5
  <2> HIDE DEF t
  <2> QED BY <1>2, <1>5, <2>1, CatalogCompatible
<1>8. Seen(e) \in IndexEntry /\ ~Seen(e).yanked
  <2>1. ~e.yanked
    BY DEF Candidates, from_manifest
  <2> QED BY <1>2, <2>1, SeenEntry
<1> QED BY <1>6, <1>7, <1>8 DEF R!Publish

\* A yank step sets the flag of one published entry.
LEMMA RefinesYank ==
  ASSUME Inv, NEW n \in Names, NEW v \in Versions, NEW target \in BOOLEAN, Yank(n, v, target)
  PROVE  \E e \in Catalog : R!SetYanked(e, target)
<1> DEFINE s == index.plugins
<1>1. s \in Seq(IndexEntry) /\ Consistent(s) /\ Catalog = CatalogOf(s)
  BY CatalogIsCatalogOf DEF Inv, TypeOK, RegistryConsistent, Index
<1>2. PICK k \in Positions(s) : index' \in to_canonical_json(set_yanked(s, k, target))
  BY DEF Yank, find_mut
<1> DEFINE t == set_yanked(s, k, target)
<1>3. /\ t \in Seq(IndexEntry) /\ Len(t) = Len(s)
      /\ \A i \in Positions(s) : t[i] = IF i = k THEN [s[i] EXCEPT !.yanked = target] ELSE s[i]
  <2> HIDE DEF s, t
  <2>1. s \in Seq(IndexEntry)
    BY <1>1
  <2>2. /\ set_yanked(s, k, target) \in Seq(IndexEntry)
        /\ Len(set_yanked(s, k, target)) = Len(s)
        /\ \A i \in Positions(s) :
             set_yanked(s, k, target)[i] = IF i = k THEN [s[i] EXCEPT !.yanked = target] ELSE s[i]
    BY <2>1, SetYankedKeeps
  <2> QED BY <2>2 DEF t
<1>4. Catalog' = CatalogOf(t)
  <2>1. index'.plugins \in Seq(IndexEntry)
    BY <1>2, <1>3, CanonicalDocument DEF Index
  <2>2. Catalog' = CatalogOf(index'.plugins)
    BY <2>1 DEF Catalog, CatalogOf, EntriesOf
  <2> QED BY <1>2, <1>3, <2>2, CanonicalCatalog
<1> DEFINE e == Seen(s[k])
<1>5. e \in Catalog
  BY <1>1 DEF CatalogOf
<1>6. Seen(t[k]) = [e EXCEPT !.yanked = target]
  <2>1. s[k] \in IndexEntry
    BY <1>1
  <2> QED BY <1>3, <2>1 DEF Seen, normalize_nfc, IndexEntry
<1>7. \A i \in Positions(s) : i # k => Seen(t[i]) = Seen(s[i]) /\ Seen(s[i]) # e
  BY <1>1, <1>3, CatalogCompatible
<1>8. Catalog' = (Catalog \ {e}) \cup {[e EXCEPT !.yanked = target]}
  <2> HIDE DEF e, t, s
  <2>1. CatalogOf(t) = {Seen(t[i]) : i \in Positions(s)}
    BY <1>3 DEF CatalogOf
  <2>2. CatalogOf(s) = {Seen(s[i]) : i \in Positions(s)}
    BY DEF CatalogOf
  <2>3. e = Seen(s[k])
    BY DEF e
  <2> QED BY <1>1, <1>4, <1>6, <1>7, <2>1, <2>2, <2>3
<1> QED BY <1>5, <1>8 DEF R!SetYanked

\* The index document implements the abstract registry: every command
\* publishes one new entry that is compatible with the others, moves one
\* yanked flag, or changes nothing that a consumer sees (package.rs,
\* mutate_index.rs, Index::to_canonical_json).
THEOREM Refinement == Spec => ImplementsRegistry
<1>1. Inv /\ [Next]_index => [R!Next]_Catalog
  <2> SUFFICES ASSUME Inv, [Next]_index PROVE [R!Next]_Catalog
    OBVIOUS
  <2>1. ASSUME NEW e \in Candidates, Package(e) PROVE R!Next
    BY <2>1, RefinesPackage DEF R!Next, R!IndexEntry, IndexEntry
  <2>2. ASSUME NEW n \in Names, NEW v \in Versions, NEW target \in BOOLEAN, Yank(n, v, target)
        PROVE  R!Next
    BY <2>2, RefinesYank DEF R!Next
  <2>3. CASE UNCHANGED index
    BY <2>3 DEF Catalog, EntriesOf
  <2> QED BY <2>1, <2>2, <2>3 DEF Next
<1> QED BY <1>1, RefinesInit, Invariance, PTL DEF Spec, ImplementsRegistry, R!Spec

-----------------------------------------------------------------------------
(* Immutable publication, as an action property of the documents.           *)

NormalizedOf(s) == {normalize_nfc(s[i]) : i \in Positions(s)}

\* The entries of a serialized document, without their order.
LEMMA CanonicalEntries ==
  ASSUME NEW s \in Seq(IndexEntry), NEW doc \in to_canonical_json(s)
  PROVE  EntriesOf(doc.plugins) = NormalizedOf(s) /\ Len(doc.plugins) = Len(s)
<1>1. Len(doc.plugins) = Len(s) /\ doc.plugins \in Seq(IndexEntry)
  BY CanonicalDocument DEF Index
<1>2. PICK p \in [Positions(s) -> Positions(s)] :
        /\ \A w \in Positions(s) : \E i \in Positions(s) : p[i] = w
        /\ \A i \in Positions(s) : doc.plugins[i] = normalize_nfc(s[p[i]])
  BY CanonicalDocument
<1>3. DOMAIN doc.plugins = Positions(s)
  BY <1>1
<1>4. EntriesOf(doc.plugins) \subseteq NormalizedOf(s)
  <2> SUFFICES ASSUME NEW i \in Positions(s) PROVE doc.plugins[i] \in NormalizedOf(s)
    BY <1>3 DEF EntriesOf
  <2>1. PICK w \in Positions(s) : p[i] = w
    BY <1>2
  <2>2. doc.plugins[i] = normalize_nfc(s[w])
    BY <1>2, <2>1
  <2> QED BY <2>2 DEF NormalizedOf
<1>5. NormalizedOf(s) \subseteq EntriesOf(doc.plugins)
  <2> SUFFICES ASSUME NEW w \in Positions(s)
               PROVE  normalize_nfc(s[w]) \in EntriesOf(doc.plugins)
    BY DEF NormalizedOf
  <2>1. PICK i \in Positions(s) : p[i] = w
    BY <1>2
  <2> QED BY <1>2, <1>3, <2>1 DEF EntriesOf
<1> QED BY <1>1, <1>4, <1>5

\* Every entry but at most one, which is new or has its flag moved, stands in
\* the document after a command as it stood before it.
LEMMA KeepsEntries ==
  ASSUME NEW s \in Seq(IndexEntry), NEW t \in Seq(IndexEntry), NEW x \in IndexEntry,
         \A i \in Positions(s) : \/ normalize_nfc(s[i]) \in NormalizedOf(t)
                                 \/ SameButYanked(normalize_nfc(s[i]), x) /\ x \in NormalizedOf(t),
         \A i \in Positions(t) : normalize_nfc(t[i]) \in NormalizedOf(s) \cup {x},
         \A i \in Positions(s) : normalize_nfc(s[i]) \in IndexEntry
  PROVE  /\ \A e \in NormalizedOf(s) : \E f \in NormalizedOf(t) : SameButYanked(e, f)
         /\ \A f, g \in NormalizedOf(t) \ NormalizedOf(s) : f = g
<1>1. \A e \in IndexEntry : SameButYanked(e, e)
  BY DEF SameButYanked, IndexEntry
<1>2. \A e \in NormalizedOf(s) : \E f \in NormalizedOf(t) : SameButYanked(e, f)
  BY <1>1 DEF NormalizedOf
<1>3. NormalizedOf(t) \ NormalizedOf(s) \subseteq {x}
  BY DEF NormalizedOf
<1> QED BY <1>2, <1>3

\* A normalized entry is an entry.
LEMMA NormalizedEntry ==
  ASSUME NEW e \in IndexEntry, Nfc[e.description] \in Descriptions
  PROVE  normalize_nfc(e) \in IndexEntry
BY DEF normalize_nfc, IndexEntry

\* package keeps every entry that is there,
LEMMA PackageKeeps ==
  ASSUME Inv, NEW e \in Candidates, Package(e)
  PROVE  EntriesKept
<1> DEFINE s == index.plugins
           t == Append(s, e)
<1>1. s \in Seq(IndexEntry) /\ e \in IndexEntry /\ t \in Seq(IndexEntry)
      /\ index' \in to_canonical_json(t)
  BY PackageStep DEF Inv, TypeOK, Index
<1>2. EntriesOf(index'.plugins) = NormalizedOf(t) /\ Len(index'.plugins) = Len(t)
  BY <1>1, CanonicalEntries
<1>3. {normalize_nfc(d) : d \in EntriesOf(s)} = NormalizedOf(s)
  BY <1>1 DEF EntriesOf, NormalizedOf
<1>4. /\ Len(t) = Len(s) + 1 /\ Len(s) \in Nat
      /\ t[Len(s) + 1] = e
      /\ \A i \in Positions(s) : t[i] = s[i] /\ i \in Positions(t)
  BY <1>1
<1>5. \A i \in Positions(t) : t[i] \in IndexEntry /\ Nfc[t[i].description] \in Descriptions
  <2> HIDE DEF t
  <2>1. \A i \in Positions(t) : Nfc[t[i].description] \in Descriptions
    BY <1>1, CanonicalDocument
  <2> QED BY <1>1, <2>1
<1>6. \A i \in Positions(t) : normalize_nfc(t[i]) \in IndexEntry
  BY <1>5, NormalizedEntry
<1>7. Len(s) + 1 \in Positions(t)
  BY <1>4
<1> DEFINE x == normalize_nfc(e)
<1> HIDE DEF s, t
<1>8. /\ x \in IndexEntry
      /\ \A i \in Positions(s) : normalize_nfc(s[i]) \in IndexEntry
      /\ \A i \in Positions(s) : normalize_nfc(s[i]) \in NormalizedOf(t)
      /\ \A i \in Positions(t) : normalize_nfc(t[i]) \in NormalizedOf(s) \cup {x}
  BY <1>4, <1>6, <1>7 DEF NormalizedOf
<1>9. /\ \A d \in NormalizedOf(s) : \E f \in NormalizedOf(t) : SameButYanked(d, f)
      /\ \A f, g \in NormalizedOf(t) \ NormalizedOf(s) : f = g
  <2> HIDE DEF x
  <2>1. \A i \in Positions(s) : \/ normalize_nfc(s[i]) \in NormalizedOf(t)
                                \/ SameButYanked(normalize_nfc(s[i]), x) /\ x \in NormalizedOf(t)
    BY <1>8
  <2> QED BY <1>1, <1>8, <2>1, KeepsEntries
<1>10. Len(t) - Len(s) \in {0, 1}
  BY <1>4
<1> QED BY <1>2, <1>3, <1>9, <1>10 DEF s, EntriesKept

\* and so does yank, but for the flag.
LEMMA YankKeeps ==
  ASSUME Inv, NEW n \in Names, NEW v \in Versions, NEW target \in BOOLEAN, Yank(n, v, target)
  PROVE  EntriesKept
<1> DEFINE s == index.plugins
<1>1. s \in Seq(IndexEntry)
  BY DEF Inv, TypeOK, Index
<1>2. PICK k \in Positions(s) : index' \in to_canonical_json(set_yanked(s, k, target))
  BY DEF Yank, find_mut
<1> DEFINE t == set_yanked(s, k, target)
<1>3. /\ t \in Seq(IndexEntry) /\ Len(t) = Len(s) /\ Len(s) \in Nat
      /\ \A i \in Positions(s) : t[i] = IF i = k THEN [s[i] EXCEPT !.yanked = target] ELSE s[i]
  BY <1>1, SetYankedKeeps
<1>4. EntriesOf(index'.plugins) = NormalizedOf(t) /\ Len(index'.plugins) = Len(t)
  BY <1>2, <1>3, CanonicalEntries
<1>5. {normalize_nfc(d) : d \in EntriesOf(s)} = NormalizedOf(s)
  BY <1>1 DEF EntriesOf, NormalizedOf
<1>6. \A i \in Positions(s) : s[i] \in IndexEntry
  BY <1>1
<1>7. \A i \in Positions(s) : t[i] \in IndexEntry /\ Nfc[t[i].description] \in Descriptions
  <2>1. index' \in to_canonical_json(t)
    BY <1>2
  <2> HIDE DEF t
  <2>2. \A i \in Positions(t) : Nfc[t[i].description] \in Descriptions
    BY <1>3, <2>1, CanonicalDocument
  <2> QED BY <1>3, <2>2
<1>8. \A i \in Positions(s) : t[i].description = s[i].description
  BY <1>3, <1>6 DEF IndexEntry
<1>9. \A i \in Positions(s) : normalize_nfc(s[i]) \in IndexEntry /\ normalize_nfc(t[i]) \in IndexEntry
  BY <1>6, <1>7, <1>8, NormalizedEntry
<1> DEFINE x == normalize_nfc(t[k])
<1>10. SameButYanked(normalize_nfc(s[k]), x)
  BY <1>3, <1>6, <1>9 DEF SameButYanked, normalize_nfc, IndexEntry
<1>11. \A i \in Positions(s) : i # k => t[i] = s[i]
  BY <1>3
<1> HIDE DEF s, t, x
<1>12. Positions(t) = Positions(s)
  BY <1>3
<1>13. x \in NormalizedOf(t) /\ x \in IndexEntry
  BY <1>9, <1>12 DEF x, NormalizedOf
<1>14. \A i \in Positions(s) : \/ normalize_nfc(s[i]) \in NormalizedOf(t)
                               \/ SameButYanked(normalize_nfc(s[i]), x) /\ x \in NormalizedOf(t)
  BY <1>10, <1>11, <1>12, <1>13 DEF NormalizedOf
<1>15. \A i \in Positions(t) : normalize_nfc(t[i]) \in NormalizedOf(s) \cup {x}
  BY <1>11, <1>12 DEF x, NormalizedOf
<1>16. /\ \A d \in NormalizedOf(s) : \E f \in NormalizedOf(t) : SameButYanked(d, f)
       /\ \A f, g \in NormalizedOf(t) \ NormalizedOf(s) : f = g
  BY <1>1, <1>3, <1>9, <1>13, <1>14, <1>15, KeepsEntries
<1>17. Len(t) - Len(s) \in {0, 1}
  BY <1>3
<1> QED BY <1>4, <1>5, <1>16, <1>17 DEF s, EntriesKept

\* S1-4: no command takes an entry away or changes one that is published,
\* whatever the registry holds and in whatever order (package.rs,
\* mutate_index.rs, Index::to_canonical_json).
THEOREM ImmutableEntries == Spec => ImmutablePublication
<1>1. Inv /\ [Next]_index => [EntriesKept]_index
  BY PackageKeeps, YankKeeps DEF Next
<1> QED BY <1>1, Invariance, PTL DEF Spec, ImmutablePublication

\* S2-3: whatever a command writes is a fixed point of the serialization, so
\* a command that changes no entry writes its input back byte for byte
\* (Index::to_canonical_json: stable sort, then NFC).
THEOREM RewritesAreStable == Spec => OutputIsCanonical
<1> DEFINE Fixed == to_canonical_json(index'.plugins) = {index'}
<1>1. ASSUME Inv, NEW e \in Candidates, Package(e) PROVE Fixed
  BY <1>1, PackageStep, CanonicalIsFixed
<1>2. ASSUME Inv, NEW n \in Names, NEW v \in Versions, NEW target \in BOOLEAN,
             Yank(n, v, target)
      PROVE  Fixed
  BY <1>2, YankStep, CanonicalIsFixed
<1>3. Inv /\ [Next]_index => [Fixed]_index
  BY <1>1, <1>2 DEF Next
<1> QED BY <1>3, Invariance, PTL DEF Spec, OutputIsCanonical

-----------------------------------------------------------------------------
(* The filter of search and the partition of info.                          *)

\* The test of search and the test of info are each other's negation.
LEMMA ExcludedOrSelectable ==
  ASSUME NEW e, NEW q
  PROVE  Excluded(e, q) <=> ~Selectable(e, q)
BY DEF Excluded, Selectable

CandidatesOf(s, n) == {i \in Positions(s) : canonical_name(s[i].name) = canonical_name(n)}

SelectableOf(s, n, q) == {i \in CandidatesOf(s, n) : Selectable(s[i], q)}

HitsOf(s, q) ==
  {i \in Positions(s) :
     /\ ~Excluded(s[i], q)
     /\ Matches(s[i], q.text)
     /\ q.trigger_type # Unset => q.trigger_type \in Declares[s[i].version]}

\* What search returns: the latest hit of every plugin that has one.
LEMMA SearchIs ==
  ASSUME NEW s, NEW q
  PROVE  search(s, q) = {s[Latest(s, {j \in HitsOf(s, q) : SameCanonical(s[i], s[j])})] :
                           i \in HitsOf(s, q)}
BY DEF search, HitsOf

\* What info answers when no version is asked for.
LEMMA InfoIs ==
  ASSUME NEW s, NEW n, NEW q
  PROVE  /\ CandidatesOf(s, n) = {} => info(s, n, Unset, q) = NotFound
         /\ SelectableOf(s, n, q) # {} =>
              info(s, n, Unset, q) = Found(s[Latest(s, SelectableOf(s, n, q))])
         /\ CandidatesOf(s, n) # {} /\ SelectableOf(s, n, q) = {} =>
              info(s, n, Unset, q)
                = FilteredOut(DistinctReasons(s, CandidatesOf(s, n), q),
                              FirstRequired(s, CandidatesOf(s, n), q))
BY DEF info, CandidatesOf, SelectableOf

\* The three kinds of answer differ.
LEMMA KindsDiffer ==
  ASSUME NEW e, NEW a, NEW b
  PROVE  /\ NotFound.kind = "NotFound"
         /\ Found(e).kind = "Found" /\ Found(e).entry = e
         /\ FilteredOut(a, b).kind = "FilteredOut" /\ FilteredOut(a, b).reasons = a
BY DEF NotFound, Found, FilteredOut

\* search by name and info return the same entries.
LEMMA SearchAgrees ==
  ASSUME NEW s \in Seq(IndexEntry), NEW q \in SearchQueries,
         q.trigger_type = Unset, q.text.descriptions = {}
  PROVE  LET asked   == {n \in Names : canonical_name(n) \in q.text.names}
             answers == {info(s, n, Unset, q) : n \in asked}
         IN  search(s, q) = {r.entry : r \in {f \in answers : f.kind = "Found"}}
<1> DEFINE asked   == {n \in Names : canonical_name(n) \in q.text.names}
           answers == {info(s, n, Unset, q) : n \in asked}
<1>1. \A i \in Positions(s) : s[i] \in IndexEntry /\ s[i].name \in Names
  <2>1. \A i \in Positions(s) : s[i] \in IndexEntry
    OBVIOUS
  <2> QED BY <2>1 DEF IndexEntry
<1>2. HitsOf(s, q) = {i \in Positions(s) : /\ Selectable(s[i], q)
                                           /\ canonical_name(s[i].name) \in q.text.names}
  BY ExcludedOrSelectable DEF HitsOf, Matches
<1>3. ASSUME NEW n \in Names, canonical_name(n) \in q.text.names,
             NEW i \in HitsOf(s, q), canonical_name(s[i].name) = canonical_name(n)
      PROVE  {j \in HitsOf(s, q) : SameCanonical(s[i], s[j])} = SelectableOf(s, n, q)
  BY <1>2, <1>3 DEF SelectableOf, CandidatesOf, SameCanonical
<1>4. ASSUME NEW i \in HitsOf(s, q)
      PROVE  \E r \in answers :
               /\ r.kind = "Found"
               /\ r.entry = s[Latest(s, {j \in HitsOf(s, q) : SameCanonical(s[i], s[j])})]
  <2> DEFINE n == s[i].name
  <2>1. n \in asked /\ SelectableOf(s, n, q) # {}
    BY <1>1, <1>2, <1>4 DEF SelectableOf, CandidatesOf
  <2>2. {j \in HitsOf(s, q) : SameCanonical(s[i], s[j])} = SelectableOf(s, n, q)
    BY <1>3, <2>1
  <2>3. info(s, n, Unset, q) = Found(s[Latest(s, SelectableOf(s, n, q))])
    BY <2>1, InfoIs
  <2>4. info(s, n, Unset, q) \in answers
    BY <2>1
  <2>5. /\ info(s, n, Unset, q).kind = "Found"
        /\ info(s, n, Unset, q).entry = s[Latest(s, SelectableOf(s, n, q))]
    BY <2>3, KindsDiffer
  <2> HIDE DEF answers
  <2> QED BY <2>2, <2>4, <2>5
<1>5. ASSUME NEW n \in asked, info(s, n, Unset, q).kind = "Found"
      PROVE  \E i \in HitsOf(s, q) :
               info(s, n, Unset, q).entry
                 = s[Latest(s, {j \in HitsOf(s, q) : SameCanonical(s[i], s[j])})]
  <2>1. SelectableOf(s, n, q) # {}
    BY <1>5, InfoIs, KindsDiffer
  <2>2. info(s, n, Unset, q).entry = s[Latest(s, SelectableOf(s, n, q))]
    BY <2>1, InfoIs, KindsDiffer
  <2>3. PICK i \in SelectableOf(s, n, q) : TRUE
    BY <2>1
  <2>4. i \in HitsOf(s, q) /\ canonical_name(s[i].name) = canonical_name(n)
    BY <1>2 DEF SelectableOf, CandidatesOf
  <2> QED BY <1>3, <2>2, <2>4
<1>6. search(s, q) = {s[Latest(s, {j \in HitsOf(s, q) : SameCanonical(s[i], s[j])})] :
                        i \in HitsOf(s, q)}
  BY SearchIs
<1>7. search(s, q) \subseteq {r.entry : r \in {f \in answers : f.kind = "Found"}}
  BY <1>4, <1>6
<1>8. {r.entry : r \in {f \in answers : f.kind = "Found"}} \subseteq search(s, q)
  BY <1>5, <1>6
<1> QED BY <1>7, <1>8

\* For a text that matches names alone, search shows of every plugin what info
\* shows, and hides what info hides (Index::search filters and then groups,
\* Index::info groups and then filters).
THEOREM SearchAndInfoAgree == Spec => []SearchAgreesWithInfo
<1>1. Inv => SearchAgreesWithInfo
  BY SearchAgrees DEF Inv, TypeOK, Index, SearchAgreesWithInfo
<1> QED BY <1>1, Invariance, PTL

-----------------------------------------------------------------------------
(* The reasons of a FilteredOut answer.                                     *)

\* A query that allows for the reasons given for a refusal finds an entry.
LEMMA ReasonsAreEnough ==
  ASSUME NEW s \in Seq(IndexEntry), NEW n \in Names, NEW q \in SearchQueries,
         info(s, n, Unset, q).kind = "FilteredOut"
  PROVE  LET answer == info(s, n, Unset, q)
             retry  == [q EXCEPT !.include_yanked = @ \/ "Yanked" \in answer.reasons,
                                 !.include_incompatible = @ \/ "Incompatible" \in answer.reasons]
         IN  info(s, n, Unset, retry).kind = "Found"
<1> DEFINE answer == info(s, n, Unset, q)
           retry  == [q EXCEPT !.include_yanked = @ \/ "Yanked" \in answer.reasons,
                               !.include_incompatible = @ \/ "Incompatible" \in answer.reasons]
<1>1. /\ CandidatesOf(s, n) # {}
      /\ answer.reasons = DistinctReasons(s, CandidatesOf(s, n), q)
  BY InfoIs, KindsDiffer
<1>2. /\ retry.database_version = q.database_version
      /\ "Yanked" \in answer.reasons => retry.include_yanked
      /\ "Incompatible" \in answer.reasons => retry.include_incompatible
  BY DEF SearchQueries
<1> HIDE DEF answer, retry
<1>3. PICK i \in CandidatesOf(s, n) : TRUE
  BY <1>1
<1>4. visibility_for(s[i], q.database_version) \subseteq answer.reasons
  BY <1>1 DEF DistinctReasons
<1>5. Selectable(s[i], retry)
  BY <1>2, <1>4 DEF Selectable, OptsIn, visibility_for
<1>6. SelectableOf(s, n, retry) # {}
  BY <1>5 DEF SelectableOf
<1> QED BY <1>6, InfoIs, KindsDiffer DEF retry, answer

\* The flags that a FilteredOut answer asks for find the plugin (Index::info
\* collects the reasons of all candidates, and a retry needs those of one).
THEOREM ReasonsAreSufficient == Spec => []ReasonsSuffice
<1>1. Inv => ReasonsSuffice
  BY ReasonsAreEnough DEF Inv, TypeOK, Index, ReasonsSuffice
<1> QED BY <1>1, Invariance, PTL

-----------------------------------------------------------------------------
(* The latest version as a function of the set of entries.                  *)

Older(e, f) ==
  \/ e.version.release < f.version.release
  \/ e.version.release = f.version.release /\ e.version.build < f.version.build

IsTop(E, e) == e \in E /\ \A f \in E : f = e \/ Older(f, e)

Top(E) == CHOOSE e : IsTop(E, e)

\* Positions of entries of one plugin.
OnePlugin(s, S) ==
  /\ S \subseteq Positions(s) /\ S # {}
  /\ \A i, j \in S : SameCanonical(s[i], s[j])

\* The parts of a version are numbers.
LEMMA VersionTyped ==
  ASSUME NEW e \in IndexEntry
  PROVE  e.version \in [release : Nat, build : Nat]
BY ConstantsAssumption DEF IndexEntry

\* Older is a strict order, total on versions.
LEMMA OlderIsStrict ==
  ASSUME NEW e \in IndexEntry, NEW f \in IndexEntry, NEW g \in IndexEntry
  PROVE  /\ ~(Older(e, f) /\ Older(f, e)) /\ ~Older(e, e)
         /\ Older(e, f) /\ Older(f, g) => Older(e, g)
         /\ e.version # f.version => Older(e, f) \/ Older(f, e)
<1>1. /\ e.version \in [release : Nat, build : Nat]
      /\ f.version \in [release : Nat, build : Nat]
      /\ g.version \in [release : Nat, build : Nat]
  BY VersionTyped
<1> QED BY <1>1 DEF Older

\* Consider the positions one after the other: the first k of them have a
\* latest version, for every k (else take the least k that has none).
LEMMA TopExists ==
  ASSUME NEW s \in Seq(IndexEntry), Consistent(s), NEW S, OnePlugin(s, S)
  PROVE  \E m \in S : \A j \in S : j = m \/ Older(s[j], s[m])
<1> DEFINE upTo(k) == {i \in S : i <= k}
           top(k) == \E m \in upTo(k) : \A j \in upTo(k) : j = m \/ Older(s[j], s[m])
           bad == {k \in 0 .. Len(s) : upTo(k) # {} /\ ~top(k)}
<1>1. Len(s) \in Nat /\ S \subseteq 1 .. Len(s) /\ S # {}
  BY DEF OnePlugin
<1>11. \A i \in S : i \in Nat /\ 1 <= i /\ i <= Len(s)
  BY <1>1
<1>12. upTo(Len(s)) = S
  <2>1. \A i \in S : i \in upTo(Len(s))
    BY <1>11
  <2>2. \A i \in upTo(Len(s)) : i \in S
    OBVIOUS
  <2> HIDE DEF upTo
  <2> QED BY <2>1, <2>2
<1>2. \A i \in S : s[i] \in IndexEntry
  BY <1>1
<1>3. ASSUME NEW i \in S, NEW j \in S, i # j
      PROVE  Older(s[i], s[j]) \/ Older(s[j], s[i])
  <2>1. s[i].version # s[j].version
    BY <1>1, <1>3 DEF OnePlugin, Consistent
  <2> QED BY <1>2, <2>1, OlderIsStrict
<1>4. ASSUME NEW k \in 0 .. Len(s), upTo(k) # {}, ~top(k)
      PROVE  \E l \in 0 .. Len(s) : l < k /\ upTo(l) # {} /\ ~top(l)
  <2>1. k # 0 /\ k - 1 \in 0 .. Len(s) /\ k - 1 < k
    <3>1. PICK i \in S : i <= k
      BY <1>4
    <3>2. k \in Nat /\ k <= Len(s) /\ i \in Nat /\ 1 <= i
      BY <1>1, <1>4, <1>11
    <3> QED BY <3>1, <3>2, <1>1
  <2>2. \A i \in upTo(k) : i \in upTo(k - 1) \/ i = k
    BY <1>1
  <2>3. \A i \in upTo(k - 1) : i \in upTo(k) /\ i # k
    BY <1>1
  <2>4. upTo(k - 1) # {}
    <3>1. CASE upTo(k - 1) = {}
      <4>1. upTo(k) = {k}
        BY <1>4, <2>2, <3>1
      <4> HIDE DEF upTo
      <4> QED BY <1>4, <4>1
    <3> QED BY <3>1
  <2>5. CASE top(k - 1)
    <3>1. PICK m \in upTo(k - 1) : \A j \in upTo(k - 1) : j = m \/ Older(s[j], s[m])
      BY <2>5
    <3>2. m \in upTo(k) /\ m \in S /\ m # k
      BY <2>3
    <3>3. CASE k \notin S
      <4>1. upTo(k) = upTo(k - 1)
        BY <2>2, <2>3, <3>3
      <4> HIDE DEF upTo
      <4> QED BY <1>4, <2>5, <4>1
    <3>4. CASE k \in S /\ Older(s[k], s[m])
      <4>1. \A j \in upTo(k) : j = m \/ Older(s[j], s[m])
        BY <2>2, <3>1, <3>4
      <4> QED BY <1>4, <3>2, <4>1
    <3>5. CASE k \in S /\ Older(s[m], s[k])
      <4>1. \A j \in upTo(k - 1) : Older(s[j], s[k])
        <5> SUFFICES ASSUME NEW j \in upTo(k - 1) PROVE Older(s[j], s[k])
          OBVIOUS
        <5>1. j \in S /\ (j = m \/ Older(s[j], s[m]))
          BY <3>1
        <5>2. s[j] \in IndexEntry /\ s[m] \in IndexEntry /\ s[k] \in IndexEntry
          BY <1>2, <3>2, <3>5, <5>1
        <5> QED BY <3>5, <5>1, <5>2, OlderIsStrict
      <4>2. k \in upTo(k)
        BY <1>1, <3>5
      <4>3. \A j \in upTo(k) : j = k \/ Older(s[j], s[k])
        BY <2>2, <4>1
      <4> QED BY <1>4, <4>2, <4>3
    <3> QED BY <1>3, <3>2, <3>3, <3>4, <3>5
  <2> HIDE DEF top, upTo
  <2> QED BY <2>1, <2>4, <2>5
<1>5. top(Len(s))
  <2> SUFFICES ASSUME ~top(Len(s)) PROVE FALSE
    OBVIOUS
  <2>1. upTo(Len(s)) = S
    BY <1>12
  <2> HIDE DEF top, upTo
  <2>2. Len(s) \in bad /\ bad \subseteq Nat
    BY <1>1, <2>1
  <2> HIDE DEF bad
  <2>3. PICK k \in bad : \A i \in bad : k <= i
    BY <2>2, LeastNatural
  <2>4. PICK l \in 0 .. Len(s) : l < k /\ upTo(l) # {} /\ ~top(l)
    BY <1>4, <2>3 DEF bad
  <2>5. l \in bad /\ k \in Nat /\ l \in Nat
    BY <2>2, <2>3, <2>4 DEF bad
  <2> QED BY <2>3, <2>4, <2>5
<1> HIDE DEF upTo
<1> QED BY <1>5, <1>12

\* A set of entries has at most one that no other is newer than.
LEMMA TopIsUnique ==
  ASSUME NEW E, E \subseteq IndexEntry, NEW e, IsTop(E, e)
  PROVE  Top(E) = e
<1>1. \A f : IsTop(E, f) => f = e
  <2> SUFFICES ASSUME NEW f, IsTop(E, f), f # e PROVE FALSE
    OBVIOUS
  <2>1. e \in IndexEntry /\ f \in IndexEntry /\ Older(e, f) /\ Older(f, e)
    BY DEF IsTop
  <2> QED BY <2>1, OlderIsStrict
<1> QED BY <1>1 DEF Top

\* The two comparisons of the code, precedence and then the full version.
LEMMA LatestIsTop ==
  ASSUME NEW s \in Seq(IndexEntry), Consistent(s), NEW S, OnePlugin(s, S)
  PROVE  Latest(s, S) \in S /\ s[Latest(s, S)] = Top({s[i] : i \in S})
<1>1. PICK m \in S : \A j \in S : j = m \/ Older(s[j], s[m])
  BY TopExists
<1>2. \A i \in S : s[i] \in IndexEntry /\ i \in Int
  BY DEF OnePlugin
<1>3. \A i \in S : s[i].version \in [release : Nat, build : Nat]
  BY <1>2, VersionTyped
<1> DEFINE newest == {i \in S : \A j \in S : s[j].version.release <= s[i].version.release}
           chosen(i) == \A j \in newest : \/ s[j].version.build < s[i].version.build
                                          \/ s[j].version = s[i].version /\ i <= j
<1>4. m \in newest
  BY <1>1, <1>3 DEF Older
<1>5. \A j \in newest : j = m \/ s[j].version.build < s[m].version.build
  <2> SUFFICES ASSUME NEW j \in newest, j # m
               PROVE  s[j].version.build < s[m].version.build
    OBVIOUS
  <2>1. s[m].version.release <= s[j].version.release /\ Older(s[j], s[m])
    BY <1>1
  <2> QED BY <1>3, <2>1 DEF Older
<1>6. chosen(m)
  BY <1>2, <1>5
<1>7. ASSUME NEW i \in newest, chosen(i)
      PROVE  i = m
  <2>1. \/ s[m].version.build < s[i].version.build
        \/ s[m].version = s[i].version
    BY <1>4, <1>7
  <2>2. i = m \/ (s[i].version.build < s[m].version.build /\ i \in S)
    BY <1>5
  <2> QED BY <1>3, <2>1, <2>2
<1>8. Latest(s, S) = CHOOSE i \in newest : chosen(i)
  BY DEF Latest
<1> HIDE DEF newest, chosen
<1>9. Latest(s, S) = m
  BY <1>4, <1>6, <1>7, <1>8
<1>10. {s[i] : i \in S} \subseteq IndexEntry
  BY <1>2
<1>11. IsTop({s[i] : i \in S}, s[m])
  BY <1>1 DEF IsTop
<1> QED BY <1>1, <1>9, <1>10, <1>11, TopIsUnique

-----------------------------------------------------------------------------
(* Answers as functions of the set of entries.                              *)

IsHit(e, q) ==
  /\ ~Excluded(e, q)
  /\ Matches(e, q.text)
  /\ q.trigger_type # Unset => q.trigger_type \in Declares[e.version]

\* search depends on the entries of a consistent document, not on their
\* order.
LEMMA SearchByEntries ==
  ASSUME NEW s \in Seq(IndexEntry), Consistent(s), NEW q
  PROVE  search(s, q) = {Top({f \in EntriesOf(s) : IsHit(f, q) /\ SameCanonical(e, f)}) :
                           e \in {f \in EntriesOf(s) : IsHit(f, q)}}
<1> DEFINE group(i) == {j \in HitsOf(s, q) : SameCanonical(s[i], s[j])}
           family(e) == {f \in EntriesOf(s) : IsHit(f, q) /\ SameCanonical(e, f)}
<1>1. \A i : i \in HitsOf(s, q) <=> i \in Positions(s) /\ IsHit(s[i], q)
  BY DEF HitsOf, IsHit
<1>2. ASSUME NEW i \in HitsOf(s, q)
      PROVE  s[Latest(s, group(i))] = Top(family(s[i]))
  <2>1. OnePlugin(s, group(i))
    BY <1>1 DEF OnePlugin, SameCanonical
  <2>2. {s[j] : j \in group(i)} = family(s[i])
    BY <1>1 DEF EntriesOf
  <2> HIDE DEF group, family
  <2> QED BY <2>1, <2>2, LatestIsTop
<1>3. search(s, q) = {s[Latest(s, group(i))] : i \in HitsOf(s, q)}
  BY SearchIs
<1>4. {f \in EntriesOf(s) : IsHit(f, q)} = {s[i] : i \in HitsOf(s, q)}
  BY <1>1 DEF EntriesOf
<1> HIDE DEF group, family
<1>5. search(s, q) = {Top(family(s[i])) : i \in HitsOf(s, q)}
  BY <1>2, <1>3
<1>6. search(s, q) = {Top(family(e)) : e \in {f \in EntriesOf(s) : IsHit(f, q)}}
  BY <1>4, <1>5
<1> QED BY <1>6 DEF family

NamedIn(E, n) == {e \in E : canonical_name(e.name) = canonical_name(n)}

\* So does info,
LEMMA InfoByEntries ==
  ASSUME NEW s \in Seq(IndexEntry), Consistent(s), NEW n, NEW q
  PROVE  /\ CandidatesOf(s, n) = {} <=> NamedIn(EntriesOf(s), n) = {}
         /\ SelectableOf(s, n, q) = {}
              <=> {e \in NamedIn(EntriesOf(s), n) : Selectable(e, q)} = {}
         /\ DistinctReasons(s, CandidatesOf(s, n), q)
              = UNION {visibility_for(e, q.database_version) : e \in NamedIn(EntriesOf(s), n)}
         /\ SelectableOf(s, n, q) # {} =>
              s[Latest(s, SelectableOf(s, n, q))]
                = Top({e \in NamedIn(EntriesOf(s), n) : Selectable(e, q)})
<1>1. \A i : i \in CandidatesOf(s, n)
              <=> i \in Positions(s) /\ s[i] \in NamedIn(EntriesOf(s), n)
  BY DEF CandidatesOf, NamedIn, EntriesOf
<1>2. NamedIn(EntriesOf(s), n) = {s[i] : i \in CandidatesOf(s, n)}
  BY DEF CandidatesOf, NamedIn, EntriesOf
<1>3. {e \in NamedIn(EntriesOf(s), n) : Selectable(e, q)}
        = {s[i] : i \in SelectableOf(s, n, q)}
  BY <1>2 DEF SelectableOf
<1>4. DistinctReasons(s, CandidatesOf(s, n), q)
        = UNION {visibility_for(e, q.database_version) : e \in NamedIn(EntriesOf(s), n)}
  BY <1>2 DEF DistinctReasons
<1>5. ASSUME SelectableOf(s, n, q) # {}
      PROVE  OnePlugin(s, SelectableOf(s, n, q))
  BY <1>5 DEF OnePlugin, SelectableOf, CandidatesOf, SameCanonical
<1>6. ASSUME SelectableOf(s, n, q) # {}
      PROVE  s[Latest(s, SelectableOf(s, n, q))]
               = Top({e \in NamedIn(EntriesOf(s), n) : Selectable(e, q)})
  BY <1>3, <1>5, <1>6, LatestIsTop
<1>7. CandidatesOf(s, n) = {} <=> NamedIn(EntriesOf(s), n) = {}
  BY <1>2
<1>8. SelectableOf(s, n, q) = {}
        <=> {e \in NamedIn(EntriesOf(s), n) : Selectable(e, q)} = {}
  BY <1>3
<1> QED BY <1>4, <1>6, <1>7, <1>8

PinnedOf(s, n, v) == Pinned(s, CandidatesOf(s, n), v)

\* also when a version is asked for.
LEMMA PinnedByEntries ==
  ASSUME NEW s \in Seq(IndexEntry), Consistent(s), NEW n, NEW v
  PROVE  /\ PinnedOf(s, n, v) = {}
              <=> {e \in NamedIn(EntriesOf(s), n) : e.version = v} = {}
         /\ PinnedOf(s, n, v) # {} =>
              s[CHOOSE i \in PinnedOf(s, n, v) : TRUE]
                = CHOOSE e \in {e \in NamedIn(EntriesOf(s), n) : e.version = v} : TRUE
<1> DEFINE P == PinnedOf(s, n, v)
           F == {e \in NamedIn(EntriesOf(s), n) : e.version = v}
<1>1. \A i : i \in P <=> i \in Positions(s) /\ s[i] \in F
  BY DEF PinnedOf, Pinned, CandidatesOf, NamedIn, EntriesOf
<1>2. F = {s[i] : i \in P}
  BY DEF PinnedOf, Pinned, CandidatesOf, NamedIn, EntriesOf
<1>3. \A i, j \in P : i = j
  BY DEF PinnedOf, Pinned, CandidatesOf, Consistent, SameCanonical
<1> HIDE DEF P, F
<1>4. ASSUME NEW i \in P PROVE F = {s[i]} /\ P = {i}
  BY <1>2, <1>3
<1>5. ASSUME P # {}
      PROVE  s[CHOOSE i \in P : TRUE] = CHOOSE e \in F : TRUE
  BY <1>4, <1>5
<1> QED BY <1>2, <1>5 DEF P, F

\* Two documents with the same entries get the same answer, but for which
\* entry names the required version.
LEMMA SameInfo ==
  ASSUME NEW s \in Seq(IndexEntry), Consistent(s), NEW t \in Seq(IndexEntry), Consistent(t),
         EntriesOf(s) = EntriesOf(t), NEW n, NEW v, NEW q
  PROVE  \/ info(t, n, v, q) = info(s, n, v, q)
         \/ \E r, a, b : /\ info(t, n, v, q) = FilteredOut(r, a)
                         /\ info(s, n, v, q) = FilteredOut(r, b)
<1>1. CASE v # Unset
  <2>1. \A u : info(u, n, v, q) = IF PinnedOf(u, n, v) = {} THEN NotFound
                                 ELSE Found(u[CHOOSE i \in PinnedOf(u, n, v) : TRUE])
    BY <1>1 DEF info, PinnedOf, CandidatesOf
  <2> DEFINE F == {e \in NamedIn(EntriesOf(s), n) : e.version = v}
  <2>2. /\ PinnedOf(s, n, v) = {} <=> F = {}
        /\ PinnedOf(s, n, v) # {} =>
             s[CHOOSE i \in PinnedOf(s, n, v) : TRUE] = CHOOSE e \in F : TRUE
    BY PinnedByEntries
  <2>3. /\ PinnedOf(t, n, v) = {} <=> F = {}
        /\ PinnedOf(t, n, v) # {} =>
             t[CHOOSE i \in PinnedOf(t, n, v) : TRUE] = CHOOSE e \in F : TRUE
    <3>1. F = {e \in NamedIn(EntriesOf(t), n) : e.version = v}
      OBVIOUS
    <3> HIDE DEF F
    <3> QED BY <3>1, PinnedByEntries
  <2> HIDE DEF F
  <2> QED BY <2>1, <2>2, <2>3
<1>2. CASE v = Unset
  <2> DEFINE N == NamedIn(EntriesOf(s), n)
             F == {e \in N : Selectable(e, q)}
             D == UNION {visibility_for(e, q.database_version) : e \in N}
  <2>1. /\ CandidatesOf(s, n) = {} <=> N = {}
        /\ SelectableOf(s, n, q) = {} <=> F = {}
        /\ DistinctReasons(s, CandidatesOf(s, n), q) = D
        /\ SelectableOf(s, n, q) # {} => s[Latest(s, SelectableOf(s, n, q))] = Top(F)
    BY InfoByEntries
  <2>2. /\ CandidatesOf(t, n) = {} <=> N = {}
        /\ SelectableOf(t, n, q) = {} <=> F = {}
        /\ DistinctReasons(t, CandidatesOf(t, n), q) = D
        /\ SelectableOf(t, n, q) # {} => t[Latest(t, SelectableOf(t, n, q))] = Top(F)
    <3> DEFINE M == NamedIn(EntriesOf(t), n)
    <3>1. /\ CandidatesOf(t, n) = {} <=> M = {}
          /\ SelectableOf(t, n, q) = {} <=> {e \in M : Selectable(e, q)} = {}
          /\ DistinctReasons(t, CandidatesOf(t, n), q)
               = UNION {visibility_for(e, q.database_version) : e \in M}
          /\ SelectableOf(t, n, q) # {} =>
               t[Latest(t, SelectableOf(t, n, q))] = Top({e \in M : Selectable(e, q)})
      BY InfoByEntries
    <3>2. M = N
      OBVIOUS
    <3> HIDE DEF M, N
    <3> QED BY <3>1, <3>2
  <2> HIDE DEF N, F, D
  <2>3. CASE CandidatesOf(s, n) = {}
    <3>1. CandidatesOf(t, n) = {}
      BY <2>3, <2>1, <2>2
    <3> QED BY <1>2, <2>3, <3>1, InfoIs
  <2>4. CASE SelectableOf(s, n, q) # {}
    <3>1. /\ SelectableOf(t, n, q) # {}
          /\ s[Latest(s, SelectableOf(s, n, q))] = t[Latest(t, SelectableOf(t, n, q))]
      BY <2>4, <2>1, <2>2
    <3> QED BY <1>2, <2>4, <3>1, InfoIs
  <2>5. CASE CandidatesOf(s, n) # {} /\ SelectableOf(s, n, q) = {}
    <3>1. /\ CandidatesOf(t, n) # {} /\ SelectableOf(t, n, q) = {}
          /\ DistinctReasons(t, CandidatesOf(t, n), q) = DistinctReasons(s, CandidatesOf(s, n), q)
      BY <2>5, <2>1, <2>2
    <3>2. /\ info(s, n, v, q) = FilteredOut(DistinctReasons(s, CandidatesOf(s, n), q),
                                            FirstRequired(s, CandidatesOf(s, n), q))
          /\ info(t, n, v, q) = FilteredOut(DistinctReasons(s, CandidatesOf(s, n), q),
                                            FirstRequired(t, CandidatesOf(t, n), q))
      BY <1>2, <2>5, <3>1, InfoIs
    <3> QED BY <3>2
  <2> QED BY <2>3, <2>4, <2>5
<1> QED BY <1>1, <1>2

\* A consistent document in another order is consistent.
LEMMA RearrangedIsConsistent ==
  ASSUME NEW s \in Seq(IndexEntry), Consistent(s),
         NEW order \in Bijection(Positions(s), Positions(s))
  PROVE  LET t == [i \in Positions(s) |-> s[order[i]]]
         IN  t \in Seq(IndexEntry) /\ Consistent(t) /\ EntriesOf(t) = EntriesOf(s)
<1> DEFINE t == [i \in Positions(s) |-> s[order[i]]]
<1>1. /\ \A i \in Positions(s) : order[i] \in Positions(s)
      /\ \A i, j \in Positions(s) : i # j => order[i] # order[j]
      /\ \A k \in Positions(s) : \E i \in Positions(s) : order[i] = k
  BY DEF Bijection, Injection, Surjection, IsInjective
<1>2. Len(s) \in Nat /\ \A i \in Positions(s) : s[i] \in IndexEntry
  OBVIOUS
<1>3. t \in [1 .. Len(s) -> IndexEntry]
  BY <1>1, <1>2
<1>4. t \in Seq(IndexEntry) /\ Positions(t) = Positions(s)
  <2> HIDE DEF t
  <2> QED BY <1>2, <1>3
<1>5. \A i \in Positions(s) : t[i] = s[order[i]]
  OBVIOUS
<1> HIDE DEF t
<1>6. Consistent(t)
  <2> SUFFICES ASSUME NEW i \in Positions(t), NEW j \in Positions(t), i # j,
                      SameCanonical(t[i], t[j])
               PROVE  t[i].name = t[j].name /\ t[i].version # t[j].version
    BY DEF Consistent
  <2>1. PICK k, m \in Positions(s) : k # m /\ t[i] = s[k] /\ t[j] = s[m]
    <3>1. i \in Positions(s) /\ j \in Positions(s)
      BY <1>4
    <3>2. order[i] \in Positions(s) /\ order[j] \in Positions(s) /\ order[i] # order[j]
      BY <1>1, <3>1
    <3> QED BY <1>5, <3>1, <3>2
  <2> QED BY <2>1 DEF Consistent
<1>7. EntriesOf(t) = EntriesOf(s)
  <2>1. \A i \in Positions(s) : \E k \in Positions(s) : t[i] = s[k]
    BY <1>1, <1>5
  <2>2. \A k \in Positions(s) : \E i \in Positions(s) : t[i] = s[k]
    BY <1>1, <1>5
  <2>3. EntriesOf(s) = {s[i] : i \in Positions(s)} /\ EntriesOf(t) = {t[i] : i \in Positions(s)}
    BY <1>4 DEF EntriesOf
  <2> QED BY <2>1, <2>2, <2>3
<1> QED BY <1>4, <1>6, <1>7 DEF t

\* The order of plugins[] in a document that can be read matters to neither
\* search nor info, the example of a required range apart, which is that of the
\* first incompatible entry (Index::search and Index::info walk the entries as
\* parse_json left them).
THEOREM OrderDoesNotMatter == Spec => []QueriesIgnoreOrder
<1>1. ASSUME Inv PROVE QueriesIgnoreOrder
  <2> DEFINE s == index.plugins
             documents == {[i \in Positions(s) |-> s[order[i]]] :
                             order \in Bijection(Positions(s), Positions(s))}
             Essence(answer) == [k \in DOMAIN answer \ {"required"} |-> answer[k]]
             Agrees(t) == \A q \in SearchQueries :
                            /\ search(t, q) = search(s, q)
                            /\ q.trigger_type = Unset =>
                                 \A n \in Names, v \in Versions \cup {Unset} :
                                   Essence(info(t, n, v, q)) = Essence(info(s, n, v, q))
  <2>1. s \in Seq(IndexEntry) /\ Consistent(s)
    BY <1>1 DEF Inv, TypeOK, Index, RegistryConsistent
  <2>2. ASSUME NEW t \in Seq(IndexEntry), Consistent(t), EntriesOf(t) = EntriesOf(s)
        PROVE  Agrees(t)
    <3> HIDE DEF s
    <3>1. ASSUME NEW q \in SearchQueries PROVE search(t, q) = search(s, q)
      <4> DEFINE chosen(E) == {Top({f \in E : IsHit(f, q) /\ SameCanonical(e, f)}) :
                                 e \in {f \in E : IsHit(f, q)}}
      <4>1. search(s, q) = chosen(EntriesOf(s))
        BY <2>1, SearchByEntries
      <4>2. search(t, q) = chosen(EntriesOf(t))
        BY <2>2, SearchByEntries
      <4> HIDE DEF chosen
      <4> QED BY <2>2, <4>1, <4>2
    <3>2. \A r, a, b : Essence(FilteredOut(r, a)) = Essence(FilteredOut(r, b))
      BY DEF FilteredOut
    <3>3. ASSUME NEW q \in SearchQueries, NEW n \in Names, NEW v \in Versions \cup {Unset}
          PROVE  Essence(info(t, n, v, q)) = Essence(info(s, n, v, q))
      <4> HIDE DEF Essence
      <4> QED BY <2>1, <2>2, <3>2, SameInfo
    <3> HIDE DEF Essence
    <3> QED BY <3>1, <3>3
  <2>3. ASSUME NEW t \in documents PROVE Agrees(t)
    <3> HIDE DEF Agrees
    <3>1. PICK order \in Bijection(Positions(s), Positions(s)) :
            t = [i \in Positions(s) |-> s[order[i]]]
      OBVIOUS
    <3> HIDE DEF s
    <3>2. t \in Seq(IndexEntry) /\ Consistent(t) /\ EntriesOf(t) = EntriesOf(s)
      BY <2>1, <3>1, RearrangedIsConsistent
    <3> QED BY <2>2, <3>2
  <2> QED BY <2>3 DEF QueriesIgnoreOrder
<1> QED BY <1>1, Invariance, PTL

-----------------------------------------------------------------------------
(* The outputs of search and info.                                          *)

\* Entries of different plugins.
Apart(S) == \A e, f \in S : SameCanonical(e, f) => e = f

\* Canonical names are ordered and told apart by their letters.
LEMMA NameOrder ==
  ASSUME NEW e \in IndexEntry, NEW f \in IndexEntry
  PROVE  /\ e.name.stem \in Nat
         /\ NameLess(canonical_name(e.name), canonical_name(f.name))
              <=> e.name.stem < f.name.stem
         /\ SameCanonical(e, f) <=> e.name.stem = f.name.stem
<1> DEFINE Spelling == [stem : Nat, upper : BOOLEAN, hyphen : BOOLEAN]
<1>1. e.name \in Spelling /\ f.name \in Spelling
  BY NamesAssumption DEF IndexEntry
<1>2. ASSUME NEW n \in Spelling
      PROVE  canonical_name(n) = [stem |-> n.stem, upper |-> FALSE, hyphen |-> FALSE]
  <2>1. canonical_name(n) \in Spelling
    BY DEF canonical_name
  <2>2. /\ canonical_name(n).stem = n.stem
        /\ canonical_name(n).upper = FALSE /\ canonical_name(n).hyphen = FALSE
    BY DEF canonical_name
  <2> QED BY <2>1, <2>2
<1>3. /\ canonical_name(e.name) = [stem |-> e.name.stem, upper |-> FALSE, hyphen |-> FALSE]
      /\ canonical_name(f.name) = [stem |-> f.name.stem, upper |-> FALSE, hyphen |-> FALSE]
  BY <1>1, <1>2
<1>4. NameLess(canonical_name(e.name), canonical_name(f.name)) <=> e.name.stem < f.name.stem
  BY <1>3 DEF NameLess
<1>5. SameCanonical(e, f) <=> e.name.stem = f.name.stem
  <2>1. canonical_name(e.name) = canonical_name(f.name) => e.name.stem = f.name.stem
    <3>1. canonical_name(e.name).stem = e.name.stem /\ canonical_name(f.name).stem = f.name.stem
      BY <1>3
    <3> QED BY <3>1
  <2> QED BY <1>3, <2>1 DEF SameCanonical
<1> QED BY <1>1, <1>4, <1>5

\* A set of naturals with a member has a least one.
LEMMA LeastOf ==
  ASSUME NEW S, S \subseteq Nat, S # {}
  PROVE  \E m \in S : \A i \in S : m <= i
<1>1. PICK m \in S : \A i \in S : <<i, m>> \notin OpToRel(<, Nat)
  BY NatLessThanWellFounded, WFMin
<1>2. \A i \in S : ~(i < m)
  BY <1>1 DEF OpToRel
<1> QED BY <1>2

\* One more hit finds its place among those already in order.
LEMMA Insertion ==
  ASSUME NEW S, IsFiniteSet(S), S \subseteq IndexEntry, Apart(S), NEW x \in S,
         NEW h \in ByName(S \ {x})
  PROVE  ByName(S) # {}
<1> DEFINE n == Cardinality(S)
           key(e) == e.name.stem
           later == {i \in 1 .. n - 1 : key(x) < key(h[i])}
<1>1. n \in Nat /\ n > 0 /\ Cardinality(S \ {x}) = n - 1
  BY FS_CardinalityType, FS_EmptySet, FS_RemoveElement
<1>2. /\ h \in [1 .. n - 1 -> S \ {x}]
      /\ \A i, j \in 1 .. n - 1 : i < j => key(h[i]) < key(h[j])
  <2>1. /\ h \in [1 .. n - 1 -> S \ {x}] /\ DOMAIN h = 1 .. n - 1
        /\ \A i, j \in DOMAIN h :
             i < j => NameLess(canonical_name(h[i].name), canonical_name(h[j].name))
    BY <1>1 DEF ByName
  <2> HIDE DEF n
  <2>2. \A i \in 1 .. n - 1 : h[i] \in IndexEntry
    BY <2>1
  <2> QED BY <2>1, <2>2, NameOrder
<1>3. /\ key(x) \in Nat
      /\ \A i \in 1 .. n - 1 : h[i] \in S /\ key(h[i]) \in Nat /\ key(h[i]) # key(x)
  <2>1. \A e \in S : e \in IndexEntry /\ (e # x => key(e) # key(x))
    BY NameOrder DEF Apart
  <2> HIDE DEF n
  <2> QED BY <1>2, <2>1, NameOrder
<1> HIDE DEF n, key
<1>4. PICK k \in 1 .. n : /\ \A i \in 1 .. n - 1 : i < k => ~(key(x) < key(h[i]))
                          /\ \A i \in 1 .. n - 1 : k <= i => key(x) < key(h[i])
  <2>1. CASE later = {}
    BY <1>1, <2>1
  <2>2. CASE later # {}
    <3>1. later \subseteq Nat
      OBVIOUS
    <3>2. PICK k \in later : \A i \in later : k <= i
      BY <2>2, <3>1, LeastOf
    <3>3. ASSUME NEW i \in 1 .. n - 1, k <= i PROVE key(x) < key(h[i])
      <4>1. CASE i = k
        BY <3>2, <4>1
      <4>2. CASE k < i
        <5>1. k \in 1 .. n - 1 /\ key(x) < key(h[k]) /\ key(h[k]) < key(h[i])
          BY <1>2, <3>2, <4>2
        <5> QED BY <1>3, <5>1
      <4> QED BY <3>2, <3>3, <4>1, <4>2
    <3>4. \A i \in 1 .. n - 1 : i < k => ~(key(x) < key(h[i]))
      BY <3>2
    <3>5. k \in 1 .. n
      BY <1>1, <3>2
    <3> QED BY <3>3, <3>4, <3>5
  <2> QED BY <2>1, <2>2
<1> DEFINE g == [i \in 1 .. n |-> IF i < k THEN h[i] ELSE IF i = k THEN x ELSE h[i - 1]]
<1>5. /\ \A i \in 1 .. n : i < k => i \in 1 .. n - 1 /\ g[i] = h[i]
      /\ g[k] = x
      /\ \A i \in 1 .. n : k < i => i - 1 \in 1 .. n - 1 /\ k <= i - 1 /\ g[i] = h[i - 1]
  BY <1>1, <1>4
<1>6. g \in [1 .. n -> S]
  <2>1. \A i \in 1 .. n : g[i] \in S
    <3> HIDE DEF g
    <3> QED BY <1>3, <1>4, <1>5
  <2> QED BY <2>1
<1> HIDE DEF g
<1>7. ASSUME NEW i \in 1 .. n, NEW j \in 1 .. n, i < j
      PROVE  key(g[i]) < key(g[j])
  <2>1. CASE j < k
    BY <1>2, <1>5, <1>7, <2>1
  <2>2. CASE j = k
    <3>1. i \in 1 .. n - 1 /\ g[i] = h[i] /\ g[j] = x /\ ~(key(x) < key(h[i]))
      BY <1>4, <1>5, <1>7, <2>2
    <3> QED BY <1>3, <3>1
  <2>3. CASE k < j /\ i < k
    <3>1. /\ i \in 1 .. n - 1 /\ j - 1 \in 1 .. n - 1 /\ i < j - 1
          /\ g[i] = h[i] /\ g[j] = h[j - 1]
      BY <1>4, <1>5, <1>7, <2>3
    <3> QED BY <1>2, <3>1
  <2>4. CASE k < j /\ i = k
    BY <1>4, <1>5, <1>7, <2>4
  <2>5. CASE k < j /\ k < i
    <3>1. /\ i - 1 \in 1 .. n - 1 /\ j - 1 \in 1 .. n - 1 /\ i - 1 < j - 1
          /\ g[i] = h[i - 1] /\ g[j] = h[j - 1]
      BY <1>4, <1>5, <1>7, <2>5
    <3> QED BY <1>2, <3>1
  <2> QED BY <1>4, <1>7, <2>1, <2>2, <2>3, <2>4, <2>5
<1>8. \A i, j \in DOMAIN g :
        i < j => NameLess(canonical_name(g[i].name), canonical_name(g[j].name))
  <2> SUFFICES ASSUME NEW i \in 1 .. n, NEW j \in 1 .. n, i < j
               PROVE  NameLess(canonical_name(g[i].name), canonical_name(g[j].name))
    BY <1>6
  <2>1. g[i] \in IndexEntry /\ g[j] \in IndexEntry
    BY <1>6
  <2> QED BY <1>7, <2>1, NameOrder DEF key
<1>9. g \in ByName(S)
  BY <1>6, <1>8 DEF ByName, n
<1> QED BY <1>9

\* Hits of different plugins can be put in the order of their names: else take
\* a least number of hits that cannot.
LEMMA HitsCanBeSorted ==
  ASSUME NEW S, IsFiniteSet(S), S \subseteq IndexEntry, Apart(S)
  PROVE  ByName(S) # {}
<1> DEFINE bad(T) == IsFiniteSet(T) /\ T \subseteq IndexEntry /\ Apart(T) /\ ByName(T) = {}
           sizes == {n \in Nat : \E T \in SUBSET S : bad(T) /\ n = Cardinality(T)}
<1> SUFFICES ASSUME ByName(S) = {} PROVE FALSE
  OBVIOUS
<1>1. sizes # {}
  <2>1. Cardinality(S) \in Nat /\ bad(S)
    BY FS_CardinalityType
  <2> QED BY <2>1
<1>2. PICK m \in sizes : \A n \in sizes : m <= n
  <2> HIDE DEF sizes
  <2>1. sizes \subseteq Nat
    BY DEF sizes
  <2> QED BY <1>1, <2>1, LeastOf
<1>3. PICK T \in SUBSET S : bad(T) /\ m = Cardinality(T)
  BY <1>2
<1>4. T # {}
  <2> SUFFICES ASSUME T = {} PROVE FALSE
    OBVIOUS
  <2>1. Cardinality(T) = 0
    BY FS_EmptySet
  <2>2. << >> \in ByName(T)
    BY <2>1 DEF ByName
  <2> QED BY <1>3, <2>2
<1>5. PICK x \in T : TRUE
  BY <1>4
<1>6. /\ IsFiniteSet(T \ {x}) /\ T \ {x} \subseteq IndexEntry /\ Apart(T \ {x})
      /\ Cardinality(T \ {x}) = m - 1 /\ Cardinality(T \ {x}) \in Nat /\ T \ {x} \in SUBSET S
  <2>1. IsFiniteSet(T \ {x}) /\ Cardinality(T \ {x}) = m - 1
    BY <1>3, <1>5, FS_RemoveElement
  <2> QED BY <1>3, <2>1, FS_CardinalityType DEF Apart
<1>7. ByName(T \ {x}) # {}
  <2> SUFFICES ASSUME ByName(T \ {x}) = {} PROVE FALSE
    OBVIOUS
  <2>1. m - 1 \in sizes
    BY <1>6
  <2> HIDE DEF sizes, bad
  <2>2. m \in Nat
    BY <1>2 DEF sizes
  <2> QED BY <1>2, <2>1, <2>2
<1> QED BY <1>3, <1>5, <1>7, Insertion

\* A hit is an entry of the document, and the only one of its plugin.
LEMMA HitsAreEntries ==
  ASSUME NEW s \in Seq(IndexEntry), Consistent(s), NEW q
  PROVE  /\ \A e \in search(s, q) : \E k \in Positions(s) : e = s[k]
         /\ search(s, q) \subseteq IndexEntry
         /\ Apart(search(s, q)) /\ IsFiniteSet(search(s, q))
<1> DEFINE group(i) == {j \in HitsOf(s, q) : SameCanonical(s[i], s[j])}
           S == search(s, q)
<1>1. \A i \in HitsOf(s, q) : Latest(s, group(i)) \in group(i)
  <2> SUFFICES ASSUME NEW i \in HitsOf(s, q) PROVE Latest(s, group(i)) \in group(i)
    OBVIOUS
  <2>1. OnePlugin(s, group(i))
    BY DEF OnePlugin, SameCanonical, HitsOf
  <2> HIDE DEF group
  <2> QED BY <2>1, LatestIsTop
<1>2. S = {s[Latest(s, group(i))] : i \in HitsOf(s, q)}
  BY SearchIs
<1> HIDE DEF S
<1>3. HitsOf(s, q) \subseteq Positions(s)
  BY DEF HitsOf
<1>4. \A e \in S : \E k \in Positions(s) : e = s[k]
  BY <1>1, <1>2, <1>3
<1>5. S \subseteq IndexEntry
  BY <1>4
<1>6. Apart(S)
  <2> SUFFICES ASSUME NEW e \in S, NEW f \in S, SameCanonical(e, f) PROVE e = f
    BY DEF Apart
  <2>1. PICK i \in HitsOf(s, q) : e = s[Latest(s, group(i))]
    BY <1>2
  <2>2. PICK j \in HitsOf(s, q) : f = s[Latest(s, group(j))]
    BY <1>2
  <2>3. SameCanonical(s[i], e) /\ SameCanonical(s[j], f)
    BY <1>1, <2>1, <2>2
  <2>4. group(i) = group(j)
    BY <2>3 DEF SameCanonical
  <2> HIDE DEF group
  <2> QED BY <2>1, <2>2, <2>4
<1>7. IsFiniteSet(S)
  <2> DEFINE at == [e \in S |-> CHOOSE k \in Positions(s) : e = s[k]]
  <2>1. \A e \in S : at[e] \in Positions(s) /\ s[at[e]] = e
    BY <1>4
  <2>2. at \in Injection(S, Positions(s))
    <3>1. at \in [S -> Positions(s)]
      BY <2>1
    <3>2. \A e, f \in S : at[e] = at[f] => e = f
      BY <2>1
    <3> HIDE DEF at
    <3> QED BY <3>1, <3>2 DEF Injection, IsInjective
  <2>3. IsFiniteSet(Positions(s))
    BY FS_Interval
  <2> HIDE DEF at
  <2> QED BY <2>2, <2>3, FS_Injection
<1> QED BY <1>4, <1>5, <1>6, <1>7 DEF S

\* The version that a hit names pins its entry.
LEMMA HitIsPinned ==
  ASSUME NEW s \in Seq(IndexEntry), Consistent(s), NEW q, NEW k \in Positions(s)
  PROVE  info(s, s[k].name, s[k].version, q) = Found(s[k])
<1> DEFINE e == s[k]
           P == PinnedOf(s, e.name, e.version)
<1>1. e.version \in Versions /\ e.version # Unset
  <2>1. e \in IndexEntry
    OBVIOUS
  <2> QED BY <2>1, QueryAssumption DEF IndexEntry
<1>2. P = {k}
  BY DEF PinnedOf, Pinned, CandidatesOf, Consistent, SameCanonical
<1>3. info(s, e.name, e.version, q) = IF P = {} THEN NotFound ELSE Found(s[CHOOSE i \in P : TRUE])
  BY <1>1 DEF info, PinnedOf, CandidatesOf
<1> HIDE DEF P
<1> QED BY <1>2, <1>3

\* commands/index.rs: in every reachable index, and for every query, search
\* has an output, and each of its hits is what info shows of that version.
THEOREM HitsMatchInfo == Spec => []SearchHitMatchesInfo
<1>1. ASSUME Inv PROVE SearchHitMatchesInfo
  <2> DEFINE s == index.plugins
  <2>1. s \in Seq(IndexEntry) /\ Consistent(s)
    BY <1>1 DEF Inv, TypeOK, Index, RegistryConsistent
  <2> HIDE DEF s
  <2> SUFFICES ASSUME NEW q \in SearchQueries
               PROVE  LET outputs == search_output(s, q)
                      IN  /\ outputs # {}
                          /\ \A hits \in outputs : \A i \in DOMAIN hits :
                               LET rows   == render_search_human(hits)
                                   output == info_output(s, hits[i].name, hits[i].version, q)
                                   lines  == render_info_human(output)
                                   marker == rows[i].description[1]
                               IN  /\ output.outcome = "found"
                                   /\ \A k \in DOMAIN hits[i] : hits[i][k] = output.plugin[k]
                                   /\ lines[Len(lines)].visibility
                                        = IF marker = << >> THEN <<"visible">>
                                          ELSE <<"hidden", marker>>
    BY DEF SearchHitMatchesInfo, s
  <2>2. search_output(s, q) # {}
    <3>1. PICK h : h \in ByName(search(s, q))
      BY <2>1, HitsAreEntries, HitsCanBeSorted
    <3> QED BY <3>1 DEF search_output
  <2>3. ASSUME NEW hits \in search_output(s, q), NEW i \in DOMAIN hits
        PROVE  LET rows   == render_search_human(hits)
                   output == info_output(s, hits[i].name, hits[i].version, q)
                   lines  == render_info_human(output)
                   marker == rows[i].description[1]
               IN  /\ output.outcome = "found"
                   /\ \A k \in DOMAIN hits[i] : hits[i][k] = output.plugin[k]
                   /\ lines[Len(lines)].visibility
                        = IF marker = << >> THEN <<"visible">> ELSE <<"hidden", marker>>
    <3>1. PICK h \in ByName(search(s, q)) :
            hits = [j \in DOMAIN h |-> search_hit_output(h[j], q)]
      BY DEF search_output
    <3>2. PICK k \in Positions(s) : h[i] = s[k]
      BY <2>1, <3>1, HitsAreEntries DEF ByName
    <3> DEFINE e == s[k]
               v == visibility_output(e, q.database_version)
               plugin == info_plugin_output(e, q)
    <3>3. hits[i] = search_hit_output(e, q)
      BY <3>1, <3>2
    <3>4. hits[i].name = e.name /\ hits[i].version = e.version /\ hits[i].visibility = v
      BY <3>3 DEF search_hit_output
    <3>5. info(s, e.name, e.version, q) = Found(e)
      BY <2>1, HitIsPinned
    <3> HIDE DEF e
    <3>6. info_output(s, e.name, e.version, q) = [outcome |-> "found", plugin |-> plugin]
      BY <3>5 DEF info_output, Found
    <3>7. \A f \in DOMAIN hits[i] : hits[i][f] = plugin[f]
      <4> HIDE DEF v
      <4>1. hits[i] = [name |-> e.name, version |-> e.version, published_at |-> e.published_at,
                       description |-> e.description, triggers |-> trigger_strings(e),
                       visibility |-> v]
        BY <3>3 DEF search_hit_output, v
      <4>2. plugin = [name |-> e.name, version |-> e.version, published_at |-> e.published_at,
                      description |-> e.description, triggers |-> trigger_strings(e),
                      artifact_url |-> artifact_url(e), database_version |-> Requires[e.version],
                      hash |-> e.hash, visibility |-> v]
        BY DEF info_plugin_output, v
      <4> HIDE DEF plugin
      <4> QED BY <4>1, <4>2
    <3>8. render_search_human(hits)[i].description[1] = hidden_marker(v)
      <4>1. hits # << >>
        OBVIOUS
      <4>2. render_search_human(hits)[i].description = <<hidden_marker(v), hits[i].description>>
        BY <3>4, <4>1 DEF render_search_human
      <4> QED BY <4>2
    <3>9. LET lines == render_info_human([outcome |-> "found", plugin |-> plugin])
          IN  lines[Len(lines)].visibility = visibility_label(v)
      <4>1. plugin.visibility = v
        BY DEF info_plugin_output
      <4> HIDE DEF plugin, v
      <4> QED BY <4>1 DEF render_info_human
    <3>10. visibility_label(v) = IF hidden_marker(v) = << >> THEN <<"visible">>
                                 ELSE <<"hidden", hidden_marker(v)>>
      <4> DEFINE reasons == visibility_for(e, q.database_version)
      <4>1. CASE reasons = {}
        <5>1. v = [status |-> "visible"]
          BY <4>1 DEF visibility_output
        <5> QED BY <5>1 DEF visibility_label, hidden_marker
      <4>2. CASE reasons # {}
        <5> DEFINE r == reasons_output(reasons, {Requires[e.version]}, q.database_version)
        <5>1. v.status = "hidden" /\ v.reasons = r
          BY <4>2 DEF visibility_output
        <5>2. 1 \in DOMAIN InOrder(reasons)
          <6>1. "Yanked" \in reasons \/ "Incompatible" \in reasons
            BY <4>2 DEF visibility_for
          <6> HIDE DEF reasons
          <6> QED BY <6>1 DEF InOrder
        <5>3. DOMAIN r = DOMAIN InOrder(reasons)
          BY DEF reasons_output
        <5> HIDE DEF r, v, reasons
        <5>4. hidden_marker(v) = reason_list_label(r)
              /\ visibility_label(v) = <<"hidden", reason_list_label(r)>>
          BY <5>1 DEF hidden_marker, visibility_label
        <5>5. 1 \in DOMAIN reason_list_label(r)
          BY <5>2, <5>3 DEF reason_list_label
        <5>6. reason_list_label(r) # << >>
          BY <5>5
        <5> QED BY <5>4, <5>6
      <4> QED BY <4>1, <4>2
    <3> HIDE DEF v, plugin
    <3> QED BY <3>4, <3>6, <3>7, <3>8, <3>9, <3>10
  <2> QED BY <2>2, <2>3
<1> QED BY <1>1, Invariance, PTL

=============================================================================
