-------------------------- MODULE MCStatePublication --------------------------
(***************************************************************************)
(* StatePublication for TLC: owners, keys and digests are interchangeable, *)
(* and no property below names one of them.                                *)
(***************************************************************************)
EXTENDS StatePublication, Naturals, FiniteSets, TLC

CONSTANT MaxEvents   \* bound on the committed events

FewEvents == Cardinality(events) <= MaxEvents

\* An analysis names one key at most: the keys it names are swept independently.
OneDoomed == Cardinality(doomed) <= 1

Symmetry == Permutations(Owners) \cup Permutations(Keys) \cup Permutations(Digests)
=============================================================================
