--------------------------- MODULE IndexOpsProofs ---------------------------
(***************************************************************************)
(* Lemmas about the operators of IndexOps, for every set of names,         *)
(* versions, hashes and descriptions: what insertion, a yank and the       *)
(* canonical serialization do to a document.                               *)
(***************************************************************************)
EXTENDS IndexOps, WellFoundedInduction, TLAPS

USE DEF Positions

-----------------------------------------------------------------------------
(* Lemmas about the operators of IndexOps.                                  *)

\* parse_json reads the entries in order; what it accepts does not depend on
\* that order.
LEMMA ParsesIffConsistent ==
  ASSUME NEW S, NEW s \in Seq(S)
  PROVE  Parses(s) <=> Consistent(s)
<1>1. Parses(s) <=> \A i \in Positions(s) : ~Repeats(s, i) /\ ~Respells(s, i)
  BY DEF Parses, ParseErrors
<1>2. ASSUME \A i \in Positions(s) : ~Repeats(s, i) /\ ~Respells(s, i)
      PROVE  Consistent(s)
  <2> SUFFICES ASSUME NEW i \in Positions(s), NEW j \in Positions(s),
                      i # j, SameCanonical(s[i], s[j])
               PROVE  s[i].name = s[j].name /\ s[i].version # s[j].version
    BY DEF Consistent
  <2>1. CASE i < j
    BY <1>2, <2>1 DEF Repeats, Respells
  <2>2. CASE j < i
    BY <1>2, <2>2 DEF Repeats, Respells, SameCanonical
  <2> QED BY <2>1, <2>2
<1>3. ASSUME Consistent(s)
      PROVE  \A i \in Positions(s) : ~Repeats(s, i) /\ ~Respells(s, i)
  BY <1>3 DEF Consistent, Repeats, Respells, SameCanonical
<1> QED BY <1>1, <1>2, <1>3

\* check_entry_insert answers Ok exactly when the new entry is compatible
\* with each entry already there.
LEMMA InsertOk ==
  ASSUME NEW S, NEW s \in Seq(S), NEW e \in S
  PROVE  check_entry_insert(s, e) = "Ok"
           <=> \A i \in Positions(s) : SameCanonical(s[i], e) =>
                 s[i].name = e.name /\ s[i].version # e.version
BY DEF check_entry_insert

\* validate.rs: a conflict with an index is the pair of canonical name and
\* version, in whatever spelling, and publishing such an entry changes nothing.
THEOREM ConflictsAreRefused ==
  ASSUME NEW s \in Seq(IndexEntry), NEW e \in IndexEntry
  PROVE  /\ NameVersionConflict(s, e) <=>
              \E i \in Positions(s) :
                canonical_name(s[i].name) = canonical_name(e.name) /\ s[i].version = e.version
         /\ NameVersionConflict(s, e) => push_entry(s, e) = s
<1>1. NameVersionConflict(s, e) <=>
        \E i \in Positions(s) : SameCanonical(s[i], e) /\ s[i].version = e.version
  <2>1. CASE \E i \in Positions(s) : SameCanonical(s[i], e) /\ s[i].name # e.name
    BY <2>1 DEF NameVersionConflict, check_entry_insert
  <2>2. CASE ~\E i \in Positions(s) : SameCanonical(s[i], e) /\ s[i].name # e.name
    BY <2>2 DEF NameVersionConflict, check_entry_insert
  <2> QED BY <2>1, <2>2
<1>2. NameVersionConflict(s, e) => check_entry_insert(s, e) # "Ok"
  BY DEF NameVersionConflict
<1> QED BY <1>1, <1>2 DEF SameCanonical, push_entry

\* Appending what check_entry_insert accepts, and nothing else, keeps a
\* document consistent.
LEMMA AppendConsistent ==
  ASSUME NEW S, NEW s \in Seq(S), NEW e \in S, Consistent(s)
  PROVE  check_entry_insert(s, e) = "Ok" <=> Consistent(Append(s, e))
<1> DEFINE t == Append(s, e)
<1>1. /\ Len(t) = Len(s) + 1
      /\ t[Len(s) + 1] = e
      /\ \A i \in Positions(s) : t[i] = s[i]
      /\ Len(s) \in Nat
  OBVIOUS
<1>2. ASSUME check_entry_insert(s, e) = "Ok"
      PROVE  Consistent(t)
  <2>1. \A i \in Positions(s) : SameCanonical(s[i], e) =>
           s[i].name = e.name /\ s[i].version # e.version
    BY <1>2, InsertOk
  <2> SUFFICES ASSUME NEW i \in Positions(t), NEW j \in Positions(t),
                      i # j, SameCanonical(t[i], t[j])
               PROVE  t[i].name = t[j].name /\ t[i].version # t[j].version
    BY DEF Consistent
  <2>2. CASE i \in Positions(s) /\ j \in Positions(s)
    BY <2>2, <1>1 DEF Consistent
  <2>3. CASE i = Len(s) + 1 /\ j \in Positions(s)
    BY <2>1, <2>3, <1>1 DEF SameCanonical
  <2>4. CASE i \in Positions(s) /\ j = Len(s) + 1
    BY <2>1, <2>4, <1>1 DEF SameCanonical
  <2> HIDE DEF t
  <2> QED BY <2>2, <2>3, <2>4, <1>1
<1>3. ASSUME Consistent(t)
      PROVE  check_entry_insert(s, e) = "Ok"
  <2> HIDE DEF t
  <2>1. ASSUME NEW i \in Positions(s), SameCanonical(s[i], e)
        PROVE  s[i].name = e.name /\ s[i].version # e.version
    <3>1. i \in Positions(t) /\ Len(s) + 1 \in Positions(t) /\ i # Len(s) + 1
      BY <1>1
    <3> QED BY <3>1, <2>1, <1>1, <1>3 DEF Consistent
  <2> QED BY <2>1, InsertOk
<1> QED BY <1>2, <1>3

\* A flag moves, the rest of the document stays.
LEMMA SetYankedKeeps ==
  ASSUME NEW s \in Seq(IndexEntry), NEW k \in Positions(s), NEW target \in BOOLEAN
  PROVE  /\ set_yanked(s, k, target) \in Seq(IndexEntry)
         /\ Len(set_yanked(s, k, target)) = Len(s)
         /\ \A i \in Positions(s) :
              set_yanked(s, k, target)[i]
                = IF i = k THEN [s[i] EXCEPT !.yanked = target] ELSE s[i]
<1>1. s[k] \in IndexEntry
  OBVIOUS
<1>2. [s[k] EXCEPT !.yanked = target] \in IndexEntry
  BY <1>1 DEF IndexEntry
<1> QED BY <1>2 DEF set_yanked

\* A flag does not matter to the consistency of a document.
LEMMA SetYankedConsistent ==
  ASSUME NEW s \in Seq(IndexEntry), NEW k \in Positions(s), NEW target \in BOOLEAN,
         Consistent(s)
  PROVE  Consistent(set_yanked(s, k, target))
<1> DEFINE t == set_yanked(s, k, target)
<1> SUFFICES Consistent(t)
  OBVIOUS
<1>1. Len(t) = Len(s)
  BY SetYankedKeeps
<1>2. ASSUME NEW i \in Positions(s)
      PROVE  t[i].name = s[i].name /\ t[i].version = s[i].version
  <2>1. s[i] \in IndexEntry
    OBVIOUS
  <2>2. t[i] = IF i = k THEN [s[i] EXCEPT !.yanked = target] ELSE s[i]
    BY SetYankedKeeps
  <2> QED BY <2>1, <2>2 DEF IndexEntry
<1> HIDE DEF t
<1> QED BY <1>1, <1>2 DEF Consistent, SameCanonical

\* What to_canonical_json returns: the same entries, normalized, in an order
\* that repeats none and drops none.
LEMMA CanonicalDocument ==
  ASSUME NEW s \in Seq(IndexEntry), NEW doc \in to_canonical_json(s)
  PROVE  /\ doc \in Index
         /\ Len(doc.plugins) = Len(s)
         /\ \A i \in Positions(s) : Nfc[s[i].description] \in Descriptions
         /\ \E p \in [Positions(s) -> Positions(s)] :
              /\ \A w \in Positions(s) : \E i \in Positions(s) : p[i] = w
              /\ \A i, j \in Positions(s) : i # j => p[i] # p[j]
              /\ \A i \in Positions(s) : doc.plugins[i] = normalize_nfc(s[p[i]])
<1>1. \A i \in Positions(s) : Nfc[s[i].description] \in Descriptions
  <2>1. \A i \in Positions(s) : s[i].description \in Descriptions
    <3>1. \A i \in Positions(s) : s[i] \in IndexEntry
      OBVIOUS
    <3> QED BY <3>1 DEF IndexEntry
  <2>2. \A i \in Positions(s) : Nfc[s[i].description] # TooLong
    BY DEF to_canonical_json
  <2> QED BY <2>1, <2>2, ConstantsAssumption
<1>2. PICK p \in SortOrders(s) :
        doc = [index_schema_version |-> Current,
               plugins |-> [i \in Positions(s) |-> normalize_nfc(s[p[i]])]]
  BY DEF to_canonical_json
<1>3. p \in [Positions(s) -> Positions(s)]
  BY DEF SortOrders
<1>4. \A w \in Positions(s) : \E i \in Positions(s) : p[i] = w
  BY DEF SortOrders
<1>5. \A i, j \in Positions(s) : i < j =>
         \/ SortsBefore(s[p[i]], s[p[j]])
         \/ ~SortsBefore(s[p[j]], s[p[i]]) /\ p[i] < p[j]
  BY DEF SortOrders
<1>6. \A i \in Positions(s) : ~SortsBefore(s[i], s[i])
  <2> SUFFICES ASSUME NEW i \in Positions(s) PROVE ~SortsBefore(s[i], s[i])
    OBVIOUS
  <2>1. /\ s[i].name \in [stem : Nat, upper : BOOLEAN, hyphen : BOOLEAN]
        /\ s[i].version \in [release : Nat, build : Nat]
    <3>1. s[i] \in IndexEntry
      OBVIOUS
    <3> QED BY <3>1, NamesAssumption, ConstantsAssumption DEF IndexEntry
  <2> QED BY <2>1 DEF SortsBefore, NameLess
<1>7. \A i, j \in Positions(s) : i < j => p[i] # p[j]
  BY <1>3, <1>5, <1>6
<1>8. \A i, j \in Positions(s) : i # j => p[i] # p[j]
  BY <1>7
<1>9. \A i \in Positions(s) : normalize_nfc(s[p[i]]) \in IndexEntry
  <2> SUFFICES ASSUME NEW i \in Positions(s)
               PROVE  normalize_nfc(s[p[i]]) \in IndexEntry
    OBVIOUS
  <2>1. p[i] \in Positions(s) /\ s[p[i]] \in IndexEntry
    BY <1>3
  <2> QED BY <2>1, <1>1 DEF normalize_nfc, IndexEntry
<1>10. doc.plugins = [i \in Positions(s) |-> normalize_nfc(s[p[i]])]
  BY <1>2
<1>11. doc.plugins \in Seq(IndexEntry) /\ Len(doc.plugins) = Len(s)
  BY <1>9, <1>10
<1>12. doc \in Index
  BY <1>2, <1>11, <1>10 DEF Index, Current
<1> QED BY <1>1, <1>3, <1>4, <1>8, <1>10, <1>11, <1>12

\* Nor do the order of its entries and the Unicode form of their
\* descriptions.
LEMMA CanonicalConsistent ==
  ASSUME NEW s \in Seq(IndexEntry), NEW doc \in to_canonical_json(s), Consistent(s)
  PROVE  Consistent(doc.plugins)
<1>1. PICK p \in [Positions(s) -> Positions(s)] :
        /\ \A i, j \in Positions(s) : i # j => p[i] # p[j]
        /\ \A i \in Positions(s) : doc.plugins[i] = normalize_nfc(s[p[i]])
  BY CanonicalDocument
<1>2. Len(doc.plugins) = Len(s)
  BY CanonicalDocument
<1>3. \A i \in Positions(s) : /\ doc.plugins[i].name = s[p[i]].name
                              /\ doc.plugins[i].version = s[p[i]].version
  <2>1. \A i \in Positions(s) : s[p[i]] \in IndexEntry
    OBVIOUS
  <2> QED BY <1>1, <2>1 DEF normalize_nfc, IndexEntry
<1>4. ASSUME NEW i \in Positions(s), NEW j \in Positions(s), i # j,
             SameCanonical(doc.plugins[i], doc.plugins[j])
      PROVE  /\ doc.plugins[i].name = doc.plugins[j].name
             /\ doc.plugins[i].version # doc.plugins[j].version
  <2>1. p[i] \in Positions(s) /\ p[j] \in Positions(s) /\ p[i] # p[j]
    BY <1>1, <1>4
  <2>2. SameCanonical(s[p[i]], s[p[j]])
    BY <1>3, <1>4 DEF SameCanonical
  <2>3. s[p[i]].name = s[p[j]].name /\ s[p[i]].version # s[p[j]].version
    BY <2>1, <2>2 DEF Consistent
  <2> QED BY <1>3, <2>3
<1> QED BY <1>2, <1>4 DEF Consistent

\* What package builds is an entry.
LEMMA ManifestEntry ==
  ASSUME NEW n \in Names, NEW v \in Versions, NEW d \in Descriptions,
         NEW h \in Hashes, NEW t \in Times
  PROVE  from_manifest(n, v, d, h, t) \in IndexEntry
BY DEF from_manifest, IndexEntry

-----------------------------------------------------------------------------
(* Entries up to their description and their yanked flag.                   *)

Same(e, f) ==
  /\ e.name = f.name /\ e.version = f.version
  /\ e.hash = f.hash /\ e.published_at = f.published_at

Lists(doc, e) == \E f \in EntriesOf(doc.plugins) : Same(f, e)

\* Packaging adds one entry to the next index and keeps the others.
LEMMA Packaged ==
  ASSUME NEW s \in Seq(IndexEntry), NEW e \in IndexEntry,
         NEW doc \in to_canonical_json(Append(s, e))
  PROVE  /\ doc \in Index
         /\ \A f \in EntriesOf(doc.plugins) : Same(f, e) \/ \E g \in EntriesOf(s) : Same(f, g)
         /\ \A g \in EntriesOf(s) \cup {e} : Lists(doc, g)
<1> DEFINE t == Append(s, e)
<1>1. /\ t \in Seq(IndexEntry) /\ Len(t) = Len(s) + 1 /\ t[Len(s) + 1] = e
      /\ \A i \in Positions(s) : t[i] = s[i]
      /\ Len(s) \in Nat
  OBVIOUS
<1>2. doc \in to_canonical_json(t)
  OBVIOUS
<1>3. \A i \in Positions(t) : t[i] = e \/ t[i] \in EntriesOf(s)
  BY <1>1 DEF EntriesOf
<1>4. \A g \in EntriesOf(s) \cup {e} : \E i \in Positions(t) : t[i] = g
  <2>1. \E i \in Positions(t) : t[i] = e
    BY <1>1
  <2>2. \A g \in EntriesOf(s) : \E i \in Positions(t) : t[i] = g
    BY <1>1 DEF EntriesOf
  <2> QED BY <2>1, <2>2
<1> HIDE DEF t
<1>5. doc \in Index /\ Len(doc.plugins) = Len(t)
  BY <1>1, <1>2, CanonicalDocument
<1>6. PICK p \in [Positions(t) -> Positions(t)] :
        /\ \A w \in Positions(t) : \E i \in Positions(t) : p[i] = w
        /\ \A i \in Positions(t) : doc.plugins[i] = normalize_nfc(t[p[i]])
  BY <1>1, <1>2, CanonicalDocument
<1>7. \A i \in Positions(t) : Same(doc.plugins[i], t[p[i]])
  <2>1. \A i \in Positions(t) : t[p[i]] \in IndexEntry
    BY <1>1
  <2>2. \A g \in IndexEntry : Same(normalize_nfc(g), g)
    BY DEF Same, normalize_nfc, IndexEntry
  <2> QED BY <1>6, <2>1, <2>2
<1>8. EntriesOf(doc.plugins) = {doc.plugins[i] : i \in Positions(t)}
  BY <1>5 DEF EntriesOf, Index
<1>9. ASSUME NEW f \in EntriesOf(doc.plugins)
      PROVE  Same(f, e) \/ \E g \in EntriesOf(s) : Same(f, g)
  <2>1. PICK i \in Positions(t) : f = doc.plugins[i]
    BY <1>8
  <2> QED BY <2>1, <1>7, <1>3, <1>6
<1>10. ASSUME NEW g \in EntriesOf(s) \cup {e}
       PROVE  Lists(doc, g)
  <2>1. PICK w \in Positions(t) : t[w] = g
    BY <1>4
  <2>2. PICK i \in Positions(t) : p[i] = w
    BY <1>6
  <2>3. Same(doc.plugins[i], g) /\ doc.plugins[i] \in EntriesOf(doc.plugins)
    BY <2>1, <2>2, <1>7, <1>8
  <2> QED BY <2>3 DEF Lists
<1> QED BY <1>5, <1>9, <1>10

-----------------------------------------------------------------------------
(* Serialization is idempotent.                                             *)

\* A set of naturals with a member has a least one.
LEMMA LeastNatural ==
  ASSUME NEW S, S \subseteq Nat, NEW k \in S
  PROVE  \E m \in S : \A i \in S : m <= i
<1>1. PICK m \in S : \A i \in S : <<i, m>> \notin OpToRel(<, Nat)
  BY NatLessThanWellFounded, WFMin
<1>2. \A i \in S : ~(i < m)
  BY <1>1 DEF OpToRel
<1> QED BY <1>2

\* An order of positions that is strictly increasing is the identity.
LEMMA MonotoneIsIdentity ==
  ASSUME NEW n \in Nat, NEW p \in [1 .. n -> 1 .. n],
         \A w \in 1 .. n : \E i \in 1 .. n : p[i] = w,
         \A i, j \in 1 .. n : i < j => p[i] < p[j]
  PROVE  \A i \in 1 .. n : p[i] = i
<1> SUFFICES ASSUME NEW k \in 1 .. n, p[k] # k PROVE FALSE
  OBVIOUS
<1> DEFINE moved == {i \in 1 .. n : p[i] # i}
<1>1. PICK m \in moved : \A i \in moved : m <= i
  <2>1. k \in moved /\ moved \subseteq Nat
    OBVIOUS
  <2> HIDE DEF moved
  <2> QED BY <2>1, LeastNatural
<1>2. m \in 1 .. n /\ p[m] # m /\ \A i \in 1 .. n : i < m => p[i] = i
  BY <1>1
<1> HIDE DEF moved
<1>3. p[m] > m
  <2>1. CASE p[m] < m
    <3>1. p[m] \in 1 .. n /\ p[p[m]] = p[m]
      BY <1>2, <2>1
    <3> QED BY <1>2, <2>1, <3>1
  <2>2. p[m] \in Nat /\ m \in Nat
    BY <1>2
  <2> QED BY <1>2, <2>1, <2>2
<1>4. PICK w \in 1 .. n : p[w] = m
  BY <1>2
<1>5. CASE w < m
  BY <1>2, <1>4, <1>5
<1>6. CASE w > m
  BY <1>2, <1>3, <1>4, <1>6
<1> QED BY <1>2, <1>4, <1>5, <1>6

\* Of two entries at most one sorts before the other.
LEMMA SortsBeforeAsymmetric ==
  ASSUME NEW e \in IndexEntry, NEW f \in IndexEntry, SortsBefore(e, f)
  PROVE  ~SortsBefore(f, e)
<1>1. /\ e.name \in [stem : Nat, upper : BOOLEAN, hyphen : BOOLEAN]
      /\ f.name \in [stem : Nat, upper : BOOLEAN, hyphen : BOOLEAN]
      /\ e.version \in [release : Nat, build : Nat]
      /\ f.version \in [release : Nat, build : Nat]
  BY NamesAssumption, ConstantsAssumption DEF IndexEntry
<1>2. ~(NameLess(e.name, f.name) /\ NameLess(f.name, e.name))
  BY <1>1 DEF NameLess
<1>3. ~NameLess(e.name, e.name)
  BY <1>1 DEF NameLess
<1> QED BY <1>1, <1>2, <1>3 DEF SortsBefore

\* What to_canonical_json returns, it returns unchanged.
LEMMA CanonicalIsFixed ==
  ASSUME NEW s \in Seq(IndexEntry), NEW doc \in to_canonical_json(s)
  PROVE  to_canonical_json(doc.plugins) = {doc}
<1>1. PICK p \in SortOrders(s) :
        doc = [index_schema_version |-> Current,
               plugins |-> [i \in Positions(s) |-> normalize_nfc(s[p[i]])]]
  BY DEF to_canonical_json
<1> DEFINE t == doc.plugins
<1>2. doc \in Index /\ t \in Seq(IndexEntry) /\ Len(t) = Len(s) /\ Len(s) \in Nat
      /\ \A i \in Positions(s) : Nfc[s[i].description] \in Descriptions
  <2>1. doc \in Index /\ Len(t) = Len(s)
        /\ \A i \in Positions(s) : Nfc[s[i].description] \in Descriptions
    BY CanonicalDocument
  <2> QED BY <2>1 DEF Index
<1>3. /\ p \in [Positions(s) -> Positions(s)]
      /\ \A i, j \in Positions(s) : i < j =>
           \/ SortsBefore(s[p[i]], s[p[j]])
           \/ ~SortsBefore(s[p[j]], s[p[i]])
  BY DEF SortOrders
<1>4. \A i \in Positions(s) : p[i] \in Positions(s) /\ s[p[i]] \in IndexEntry
  BY <1>3
<1>5. \A i \in Positions(s) : t[i] = normalize_nfc(s[p[i]])
  BY <1>1
<1>6. \A i \in Positions(s) : /\ t[i].name = s[p[i]].name
                              /\ t[i].version = s[p[i]].version
                              /\ t[i].description = Nfc[s[p[i]].description]
  <2>1. \A e \in IndexEntry : /\ normalize_nfc(e).name = e.name
                              /\ normalize_nfc(e).version = e.version
                              /\ normalize_nfc(e).description = Nfc[e.description]
    BY DEF normalize_nfc, IndexEntry
  <2> HIDE DEF t
  <2> QED BY <1>4, <1>5, <2>1
<1>7. \A i \in Positions(s) : t[i] \in IndexEntry
  BY <1>2
<1> HIDE DEF t
<1>8. \A i, j \in Positions(s) : i < j => ~SortsBefore(t[j], t[i])
  <2>1. \A i, j \in Positions(s) : i < j => ~SortsBefore(s[p[j]], s[p[i]])
    BY <1>3, <1>4, SortsBeforeAsymmetric
  <2> QED BY <1>6, <2>1 DEF SortsBefore
<1>9. \A i \in Positions(s) : /\ Nfc[t[i].description] # TooLong
                              /\ normalize_nfc(t[i]) = t[i]
  <2> SUFFICES ASSUME NEW i \in Positions(s)
               PROVE  Nfc[t[i].description] # TooLong /\ normalize_nfc(t[i]) = t[i]
    OBVIOUS
  <2>1. s[p[i]].description \in Descriptions /\ Nfc[s[p[i]].description] \in Descriptions
    BY <1>2, <1>4 DEF IndexEntry
  <2>2. Nfc[t[i].description] = t[i].description /\ t[i].description \in Descriptions
    BY <2>1, <1>6, ConstantsAssumption
  <2>3. Nfc[t[i].description] # TooLong
    BY <2>2, ConstantsAssumption
  <2>4. normalize_nfc(t[i]) = t[i]
    BY <2>2, <1>7 DEF normalize_nfc, IndexEntry
  <2> QED BY <2>3, <2>4
<1>10. ASSUME NEW q \in SortOrders(t)
       PROVE  \A i \in Positions(s) : q[i] = i
  <2>1. /\ q \in [1 .. Len(s) -> 1 .. Len(s)]
        /\ \A w \in 1 .. Len(s) : \E i \in 1 .. Len(s) : q[i] = w
        /\ \A i, j \in 1 .. Len(s) : i < j =>
             \/ SortsBefore(t[q[i]], t[q[j]])
             \/ ~SortsBefore(t[q[j]], t[q[i]]) /\ q[i] < q[j]
    BY <1>2 DEF SortOrders
  <2>2. \A i \in 1 .. Len(s) : ~SortsBefore(t[i], t[i])
    BY <1>7, SortsBeforeAsymmetric
  <2>3. \A i, j \in 1 .. Len(s) : i < j => q[i] < q[j]
    <3> SUFFICES ASSUME NEW i \in 1 .. Len(s), NEW j \in 1 .. Len(s), i < j,
                        SortsBefore(t[q[i]], t[q[j]])
                 PROVE  q[i] < q[j]
      BY <2>1
    <3>1. q[i] \in 1 .. Len(s) /\ q[j] \in 1 .. Len(s)
      BY <2>1
    <3>2. q[i] # q[j]
      BY <2>2, <3>1
    <3>3. ~(q[j] < q[i])
      BY <1>8, <3>1
    <3> QED BY <3>1, <3>2, <3>3
  <2> QED BY <1>2, <2>1, <2>3, MonotoneIsIdentity
<1> DEFINE id == [i \in Positions(s) |-> i]
<1>11. id \in SortOrders(t)
  <2>1. id \in [Positions(t) -> Positions(t)] /\ \A i \in Positions(t) : id[i] = i
    BY <1>2
  <2> HIDE DEF id
  <2> QED BY <2>1, <1>2, <1>8 DEF SortOrders
<1>12. ASSUME NEW q \in SortOrders(t)
       PROVE  [index_schema_version |-> Current,
               plugins |-> [i \in Positions(t) |-> normalize_nfc(t[q[i]])]] = doc
  <2>1. [i \in Positions(t) |-> normalize_nfc(t[q[i]])] = t
    BY <1>2, <1>9, <1>10
  <2> QED BY <2>1, <1>1 DEF t
<1>13. to_canonical_json(t) = {[index_schema_version |-> Current,
                                plugins |-> [i \in Positions(t) |-> normalize_nfc(t[q[i]])]] :
                                  q \in SortOrders(t)}
  BY <1>2, <1>9 DEF to_canonical_json
<1> HIDE DEF id
<1> QED BY <1>11, <1>12, <1>13 DEF t

=============================================================================
