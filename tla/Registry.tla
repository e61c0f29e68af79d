------------------------------ MODULE Registry ------------------------------
(***************************************************************************)
(* What a plugin registry promises its consumers: a growing catalog of     *)
(* immutable entries in which only the yanked flag ever moves.  No order,  *)
(* no file, no parsing; RegistryIndex is shown to implement it.            *)
(***************************************************************************)
EXTENDS IndexOps

VARIABLE catalog   \* the set of published entries

\* Two entries may stand in one registry: different plugins, or two versions
\* of one plugin under one spelling.
Compatible(e, f) ==
  SameCanonical(e, f) => e.name = f.name /\ e.version # f.version

Init ==
  /\ catalog \subseteq IndexEntry
  /\ \A e, f \in catalog : e # f => Compatible(e, f)

\* A new version appears; nothing else changes.
Publish(e) ==
  /\ \A f \in catalog : Compatible(e, f)
  /\ ~e.yanked
  /\ catalog' = catalog \cup {e}

\* One entry becomes unavailable, or available again, for new resolution.
SetYanked(e, target) ==
  catalog' = (catalog \ {e}) \cup {[e EXCEPT !.yanked = target]}

Next ==
  \/ \E e \in IndexEntry : Publish(e)
  \/ \E e \in catalog, target \in BOOLEAN : SetYanked(e, target)

Spec == Init /\ [][Next]_catalog

=============================================================================
