--------------------------- MODULE MCRegistryIndex ---------------------------
(* Small instances of RegistryIndex and IndexReports for TLC.               *)
EXTENDS IndexReports

\* `foo-bar` and `Foo_bar` are two spellings of one plugin, `baz` is another.
FooDashBar  == [stem |-> 2, upper |-> FALSE, hyphen |-> TRUE]
FooBar      == [stem |-> 2, upper |-> TRUE, hyphen |-> FALSE]
Baz         == [stem |-> 1, upper |-> FALSE, hyphen |-> FALSE]

MCNames == {FooDashBar, FooBar, Baz}

\* 1.0.0, 2.0.0 and 1.0.0+build
MCVersions == [release : {1}, build : {0, 1}] \cup [release : {2}, build : {0}]

\* "composed" is in NFC already, "decomposed" composes to it, "grows" has at
\* most 200 characters before NFC and more after.
MCNfc == [d \in {"composed", "decomposed", "grows"} |->
            IF d = "grows" THEN "toolong" ELSE "composed"]

Published(n, r, d) ==
  [name |-> n, version |-> [release |-> r, build |-> 0], published_at |-> "t1",
   description |-> d, hash |-> "h1", yanked |-> FALSE]

\* `new index`; a migrated document out of canonical order, one description
\* decomposed; one whose descriptions no rewrite can hold; one with a spelling
\* collision, which does not parse.
MCSeeds ==
  {[index_schema_version |-> Current, plugins |-> << >>],
   [index_schema_version |-> "2.0",
    plugins |-> <<Published(FooBar, 2, "decomposed"),
                  Published(Baz, 1, "composed")>>],
   [index_schema_version |-> "2.0", plugins |-> <<Published(Baz, 1, "grows")>>],
   [index_schema_version |-> "2.0",
    plugins |-> <<Published(FooBar, 2, "composed"),
                  Published(FooDashBar, 1, "composed")>>]}

\* 1.0.0 accepts both databases, 1.0.0+build the older one and 2.0.0 the newer.
MCRequires ==
  [v \in MCVersions |-> IF v.release = 2 THEN {"db4"}
                       ELSE IF v.build = 1 THEN {"db3"} ELSE {"db3", "db4"}]

MCDeclares == [v \in MCVersions |-> {IF v.build = 0 THEN "writes" ELSE "request"}]

\* No text (it matches every name), a part of one name, and a part of one
\* description.
MCTexts ==
  {[names |-> {canonical_name(n) : n \in MCNames}, descriptions |-> {}],
   [names |-> {canonical_name(Baz)}, descriptions |-> {}],
   [names |-> {}, descriptions |-> {"composed"}]}

=============================================================================
