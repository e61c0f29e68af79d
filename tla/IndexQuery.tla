----------------------------- MODULE IndexQuery -----------------------------
(***************************************************************************)
(* Index::search and Index::info over the index of a registry: which       *)
(* version of a plugin a consumer is shown.  The two are written apart:    *)
(* search filters the entries and then groups them by plugin, info takes   *)
(* the entries of one plugin and then filters them.                        *)
(***************************************************************************)
EXTENDS RegistryIndex, Functions

CONSTANTS
  Databases,   \* database versions in a query
  Requires,    \* the databases that each plugin version accepts
  Triggers,    \* trigger types
  Declares,    \* the trigger types of each plugin version
  Texts,       \* query texts: the canonical names and the descriptions that contain each
  Unset        \* an option that the query leaves out

ASSUME QueryAssumption ==
  /\ Requires \in [Versions -> SUBSET Databases]
  /\ Declares \in [Versions -> SUBSET Triggers]
  /\ Unset \notin Databases \cup Triggers \cup Versions
  /\ Texts \subseteq [names : SUBSET {canonical_name(n) : n \in Names},
                     descriptions : SUBSET Descriptions]

SearchQueries ==
  [text : Texts, trigger_type : Triggers \cup {Unset},
   database_version : Databases \cup {Unset},
   include_yanked : BOOLEAN, include_incompatible : BOOLEAN]

-----------------------------------------------------------------------------

\* The reasons to hide an entry; none means Visible.
visibility_for(e, database_version) ==
  {r \in {"Yanked", "Incompatible"} :
     \/ r = "Yanked" /\ e.yanked
     \/ /\ r = "Incompatible" /\ database_version # Unset
        /\ database_version \notin Requires[e.version]}

OptsIn(q, r) == IF r = "Yanked" THEN q.include_yanked ELSE q.include_incompatible

\* Mutant: search drops an entry only when no reason is opted in to.
ExcludedByAll(e, q) ==
  LET reasons == visibility_for(e, q.database_version)
  IN  reasons # {} /\ \A r \in reasons : ~OptsIn(q, r)

\* The filter of search, and the partition of info.
Excluded(e, q) == \E r \in visibility_for(e, q.database_version) : ~OptsIn(q, r)

Selectable(e, q) == \A r \in visibility_for(e, q.database_version) : OptsIn(q, r)

Matches(e, text) ==
  canonical_name(e.name) \in text.names \/ e.description \in text.descriptions

\* Mutant: versions of equal precedence are taken in the order of the document.
LatestByPrecedence(s, S) ==
  LET newest == {i \in S : \A j \in S : s[j].version.release <= s[i].version.release}
  IN  CHOOSE i \in newest : \A j \in newest : i <= j

\* The position of the latest of the entries at positions S: by precedence,
\* then by the full version, build metadata included.
Latest(s, S) ==
  LET newest == {i \in S : \A j \in S : s[j].version.release <= s[i].version.release}
  IN  CHOOSE i \in newest :
        \A j \in newest : \/ s[j].version.build < s[i].version.build
                          \/ s[j].version = s[i].version /\ i <= j

\* One hit per plugin.
search(s, q) ==
  LET hits == {i \in Positions(s) :
                 /\ ~Excluded(s[i], q)
                 /\ Matches(s[i], q.text)
                 /\ q.trigger_type # Unset => q.trigger_type \in Declares[s[i].version]}
      groups == {{j \in hits : SameCanonical(s[i], s[j])} : i \in hits}
  IN  {s[Latest(s, group)] : group \in groups}

\* The info query names a plugin, and may pin a version.
NotFound == [kind |-> "NotFound"]
Found(e) == [kind |-> "Found", entry |-> e]
FilteredOut(reasons, required) ==
  [kind |-> "FilteredOut", reasons |-> reasons, required |-> required]

\* Mutant: a second reason to hide the same entry is not reported.
DistinctReasonsFirst(s, S, q) ==
  {IF s[i].yanked THEN "Yanked" ELSE "Incompatible" : i \in S}

DistinctReasons(s, S, q) == UNION {visibility_for(s[i], q.database_version) : i \in S}

\* The databases that the first incompatible entry of the document accepts.
FirstRequired(s, S, q) ==
  LET incompatible == {i \in S : "Incompatible" \in visibility_for(s[i], q.database_version)}
  IN  {Requires[s[i].version] : i \in {j \in incompatible : \A k \in incompatible : j <= k}}

\* Mutant: build metadata does not count.
PinnedByPrecedence(s, candidates, version) ==
  {i \in candidates : s[i].version.release = version.release}

Pinned(s, candidates, version) == {i \in candidates : s[i].version = version}

info(s, name, version, q) ==
  LET candidates == {i \in Positions(s) : canonical_name(s[i].name) = canonical_name(name)}
      pinned == Pinned(s, candidates, version)
      selectable == {i \in candidates : Selectable(s[i], q)}
  IN  IF version # Unset
      THEN IF pinned = {} THEN NotFound ELSE Found(s[CHOOSE i \in pinned : TRUE])
      ELSE IF candidates = {} THEN NotFound
      ELSE IF selectable # {} THEN Found(s[Latest(s, selectable)])
      ELSE FilteredOut(DistinctReasons(s, candidates, q), FirstRequired(s, candidates, q))

-----------------------------------------------------------------------------

\* Search filters and then groups, info groups and then filters: for a text
\* that matches names alone they show the same version of every plugin,
\* whichever spelling of its name is asked for, and hide the same plugins.
SearchAgreesWithInfo ==
  \A q \in SearchQueries :
    q.trigger_type = Unset /\ q.text.descriptions = {} =>
      LET asked   == {n \in Names : canonical_name(n) \in q.text.names}
          answers == {info(index.plugins, n, Unset, q) : n \in asked}
      IN  search(index.plugins, q) = {r.entry : r \in {f \in answers : f.kind = "Found"}}

\* The reasons of a FilteredOut answer are the flags that its reader needs:
\* the same query with those flags finds the plugin.
ReasonsSuffice ==
  \A n \in Names, q \in SearchQueries :
    LET answer == info(index.plugins, n, Unset, q)
        retry  == [q EXCEPT !.include_yanked = @ \/ "Yanked" \in answer.reasons,
                            !.include_incompatible = @ \/ "Incompatible" \in answer.reasons]
    IN  answer.kind = "FilteredOut" =>
          info(index.plugins, n, Unset, retry).kind = "Found"

\* Of the documents with the entries of one that can be read, in whatever order
\* plugins[] has them: search finds the same, info shows the same version, hides
\* a plugin for the same reasons, and knows the same plugins.  Versions that
\* differ in build metadata alone are told apart.  (What does depend on the order
\* is the example of a required range that FilteredOut gives, that of the first
\* incompatible entry: it is left out.)
QueriesIgnoreOrder ==
  LET s == index.plugins
      documents == {[i \in Positions(s) |-> s[order[i]]] :
                      order \in Bijection(Positions(s), Positions(s))}
      Essence(answer) == [k \in DOMAIN answer \ {"required"} |-> answer[k]]
  IN  \A q \in SearchQueries :
        /\ LET found == search(s, q)
           IN  \A t \in documents : search(t, q) = found
        /\ q.trigger_type = Unset =>
             \A n \in Names, v \in Versions \cup {Unset} :
               LET shown == Essence(info(s, n, v, q))
               IN  \A t \in documents : Essence(info(t, n, v, q)) = shown

=============================================================================
