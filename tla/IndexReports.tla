---------------------------- MODULE IndexReports ----------------------------
(***************************************************************************)
(* What the commands search and info print of the answers of IndexQuery:   *)
(* the payloads of commands/index.rs and their human renderings.  A        *)
(* version, a range or a URL is printed as it is; a line of human output   *)
(* is a record of what it says.                                            *)
(***************************************************************************)
EXTENDS IndexQuery, FiniteSets

-----------------------------------------------------------------------------
(* Payloads.                                                                *)

\* required: the range of the entry, where there is one to blame.
reason_output(r, required, actual) ==
  IF r = "Yanked" THEN [kind |-> "yanked"]
  ELSE [kind |-> "incompatible_database_version", required |-> required, actual |-> actual]

\* In the order in which visibility_for and info collect them.
InOrder(reasons) ==
  LET some(r) == IF r \in reasons THEN <<r>> ELSE << >>
  IN  some("Yanked") \o some("Incompatible")

reasons_output(reasons, required, actual) ==
  [i \in DOMAIN InOrder(reasons) |-> reason_output(InOrder(reasons)[i], required, actual)]

visibility_output(e, database_version) ==
  LET reasons == visibility_for(e, database_version)
  IN  IF reasons = {} THEN [status |-> "visible"]
      ELSE [status |-> "hidden",
            reasons |-> reasons_output(reasons, {Requires[e.version]}, database_version)]

trigger_strings(e) == Declares[e.version]

search_hit_output(e, q) ==
  [name |-> e.name, version |-> e.version, published_at |-> e.published_at,
   description |-> e.description, triggers |-> trigger_strings(e),
   visibility |-> visibility_output(e, q.database_version)]

\* One hit per canonical name, in the order of the names: the sequence of a
\* set of hits, as a set.
ByName(hits) ==
  {h \in [1 .. Cardinality(hits) -> hits] :
     \A i, j \in DOMAIN h :
       i < j => NameLess(canonical_name(h[i].name), canonical_name(h[j].name))}

search_output(s, q) ==
  {[i \in DOMAIN h |-> search_hit_output(h[i], q)] : h \in ByName(search(s, q))}

\* ArtifactsUrl::artifact_url: one file name per entry, below the index's URL.
artifact_url(e) == <<"artifacts_url", e.name, e.version>>

\* homepage, repository, documentation and the two lists of dependencies are
\* copied as they are.
info_plugin_output(e, q) ==
  [name |-> e.name, version |-> e.version, published_at |-> e.published_at,
   description |-> e.description, triggers |-> trigger_strings(e),
   artifact_url |-> artifact_url(e), database_version |-> Requires[e.version],
   hash |-> e.hash, visibility |-> visibility_output(e, q.database_version)]

info_output(s, name, version, q) ==
  LET answer == info(s, name, version, q)
  IN  CASE answer.kind = "Found" ->
             [outcome |-> "found", plugin |-> info_plugin_output(answer.entry, q)]
        [] answer.kind = "NotFound" ->
             [outcome |-> "not_found", name |-> name, version |-> {version} \ {Unset}]
        [] answer.kind = "FilteredOut" ->
             [outcome |-> "filtered_out", name |-> name,
              reasons |-> reasons_output(answer.reasons, answer.required, q.database_version)]

-----------------------------------------------------------------------------
(* Human renderings.                                                        *)

reason_label(r) ==
  IF r.kind = "yanked" THEN <<"yanked">> ELSE <<"incompatible", r.required, r.actual>>

reason_list_label(reasons) == [i \in DOMAIN reasons |-> reason_label(reasons[i])]

\* `[yanked, incompatible: ...]` before a description, or nothing.
hidden_marker(visibility) ==
  IF visibility.status = "visible" THEN << >> ELSE reason_list_label(visibility.reasons)

visibility_label(visibility) ==
  IF visibility.status = "visible" THEN <<"visible">>
  ELSE <<"hidden", reason_list_label(visibility.reasons)>>

render_search_human(hits) ==
  IF hits = << >> THEN <<"No matching plugins found.">>
  ELSE [i \in DOMAIN hits |->
          [name |-> hits[i].name, version |-> hits[i].version, triggers |-> hits[i].triggers,
           description |-> <<hidden_marker(hits[i].visibility), hits[i].description>>]]

render_info_human(output) ==
  CASE output.outcome = "found" ->
         LET p == output.plugin
         IN  <<p.name, p.description, [version |-> p.version], [published_at |-> p.published_at],
               [triggers |-> p.triggers], [database |-> p.database_version],
               [artifact_url |-> p.artifact_url], [hash |-> p.hash],
               [visibility |-> visibility_label(p.visibility)]>>
    [] output.outcome = "not_found" -> <<[not_found |-> output.name, version |-> output.version]>>
    [] output.outcome = "filtered_out" ->
         <<[no_selectable_version |-> output.name]>>
         \o [i \in DOMAIN output.reasons |-> [reason |-> reason_label(output.reasons[i])]]

-----------------------------------------------------------------------------

\* A hit of search is what `info NAME --version VERSION` shows of the same
\* version for the same database: every column of the hit, and the reasons
\* that its human line is marked with.  A reader who pins what search told
\* them is not sent to another build of that version, nor told that it is
\* visible when search called it hidden.
SearchHitMatchesInfo ==
  \A q \in SearchQueries :
    LET outputs == search_output(index.plugins, q)
    IN  /\ outputs # {}
        /\ \A hits \in outputs : \A i \in DOMAIN hits :
          LET rows   == render_search_human(hits)
              output == info_output(index.plugins, hits[i].name, hits[i].version, q)
              lines  == render_info_human(output)
              marker == rows[i].description[1]
          IN  /\ output.outcome = "found"
              /\ \A k \in DOMAIN hits[i] : hits[i][k] = output.plugin[k]
              /\ lines[Len(lines)].visibility
                   = IF marker = << >> THEN <<"visible">> ELSE <<"hidden", marker>>

=============================================================================
