--------------------------- MODULE MCAuthorCommands ---------------------------
(* Three invocations over four directories, for TLC.                         *)
EXTENDS AuthorCommands, TLC

Foo    == [stem |-> 2, upper |-> FALSE, hyphen |-> FALSE]
V(n)   == [release |-> n, build |-> 0]

AnyOrder == Permutations(Procs)

MCNames == {Foo}

MCVersions == {V(1), V(2)}

MCNfc == [d \in {"short", "grows"} |-> IF d = "grows" THEN "toolong" ELSE d]

Entry(v, d) ==
  [name |-> Foo, version |-> v, published_at |-> "t1", description |-> d,
   hash |-> "h1", yanked |-> FALSE]

Document(s) == [index_schema_version |-> Current, plugins |-> s]

\* `registry` and `store` each host foo 1.0.0; the description in `store` is
\* one that no rewrite can hold; `out` and `next` are empty.
MCHosted ==
  [d \in {"registry", "store", "out", "next"} |->
     CASE d = "registry" -> Document(<<Entry(V(1), "short")>>)
       [] d = "store"    -> Document(<<Entry(V(1), "grows")>>)
       [] OTHER          -> Absent]

\* `alias` is another spelling of `registry`.
MCPaths == {"registry", "alias", "store", "out", "next"}
MCReal  == [p \in MCPaths |-> IF p = "alias" THEN "registry" ELSE p]

NoLink == [d \in {"registry", "store", "out", "next"} |-> d]

\* out/index.json is a link to registry/index.json.
OutLinked == [NoLink EXCEPT !["out"] = "registry"]

Packages(in, out, v) ==
  [cmd |-> "package", in |-> in, out |-> out, name |-> Foo, version |-> v,
   description |-> "short"]

Yanks(in, out, v) ==
  [cmd |-> "yank", in |-> in, out |-> out, name |-> Foo, version |-> v,
   target |-> TRUE]

\* Two that race on `out`, one that reads what they write, one of each that
\* the tool refuses, and one whose input another may be writing.
MCJobs ==
  {Packages("registry", "out", V(2)), Packages("registry", "out", V(1)),
   Packages("alias", "registry", V(2)), Packages("store", "out", V(2)),
   Packages("out", "next", V(1)), Yanks("registry", "out", V(1)),
   Yanks("out", "next", V(2)), Yanks("store", "registry", V(1)),
   Packages("store", "registry", V(2))}

=============================================================================
