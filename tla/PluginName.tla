----------------------------- MODULE PluginName -----------------------------
(***************************************************************************)
(* Plugin names.  A name keeps what its canonical form tells apart: its    *)
(* letters (`stem`, a number that is also their lexical rank), whether its *)
(* first letter is upper case, and whether its separator is `-` or `_`.    *)
(***************************************************************************)
EXTENDS Naturals

CONSTANT Names  \* valid spellings of plugin names

ASSUME NamesAssumption ==
  Names \subseteq [stem : Nat, upper : BOOLEAN, hyphen : BOOLEAN]

\* Lower-cases, and maps `-` to `_`.
canonical_name(n) == [n EXCEPT !.upper = FALSE, !.hyphen = FALSE]

\* Byte order of the spellings: upper case sorts before lower, `-` before `_`.
NameLess(a, b) ==
  \/ a.upper /\ ~b.upper
  \/ a.upper = b.upper /\ a.stem < b.stem
  \/ a.upper = b.upper /\ a.stem = b.stem /\ a.hyphen /\ ~b.hyphen

=============================================================================
