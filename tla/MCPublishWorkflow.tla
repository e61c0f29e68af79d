-------------------------- MODULE MCPublishWorkflow --------------------------
(* Four workflow runs on one registry, for TLC.                             *)
EXTENDS PublishWorkflow

Foo    == [stem |-> 2, upper |-> FALSE, hyphen |-> FALSE]
BigFoo == [Foo EXCEPT !.upper = TRUE]
Baz    == [Foo EXCEPT !.stem = 1]
Qux    == [Foo EXCEPT !.stem = 3]

MCNames == {Foo, BigFoo, Baz, Qux}

V(n) == [release |-> n, build |-> 0]

MCVersions == {V(1), V(2)}

MCNfc == [d \in {"short"} |-> d]

Dir(n, v, h) == [name |-> n, version |-> V(v), description |-> "short", hash |-> h]

\* The registry hosts baz 1.0.0.
MCHosted ==
  [index_schema_version |-> Current,
   plugins |-> <<from_manifest(Baz, V(1), "short", "h1", "t1")>>]

\* Four commits: foo 1.0.0, next to what is no plugin; its next version, with a
\* new plugin qux; other sources of qux 1.0.0, with a second spelling of foo;
\* and one that has moved PLUGIN_ROOT.
MCCheckout ==
  [r \in {"r1", "r2", "r3", "r4"} |->
     CASE r = "r1" -> <<Dir(Baz, 1, "h1"), NoManifest, Dir(Foo, 1, "h1")>>
       [] r = "r2" -> <<Dir(Foo, 2, "h1"), Dir(Qux, 1, "h1")>>
       [] r = "r3" -> <<Dir(BigFoo, 1, "h1"), Dir(Qux, 1, "h2")>>
       [] r = "r4" -> << >>]

Either == {FALSE, TRUE}
Never  == {FALSE}
Always == {TRUE}

=============================================================================
