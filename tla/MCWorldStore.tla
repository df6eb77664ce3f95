----------------------------- MODULE MCWorldStore -----------------------------
(***************************************************************************)
(* WorldStore for TLC.  Runs, worlds and sessions all interleave with the  *)
(* collector; MaxActors bounds how many of them a state may hold at once.  *)
(***************************************************************************)
EXTENDS WorldStore, FiniteSets, TLC

CONSTANT MaxActors

FewActors ==
  Cardinality(running)
    + Cardinality({w \in WorldIds : Exists(w)})
    + Cardinality({q \in Sessions : pin[q] # None})
    + (IF analysis = None THEN 0 ELSE 1) <= MaxActors

Symmetry == Permutations(Runs) \cup Permutations(TUs) \cup Permutations(Snapshots)
=============================================================================
