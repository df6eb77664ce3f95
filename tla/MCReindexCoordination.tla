------------------------- MODULE MCReindexCoordination -------------------------
(***************************************************************************)
(* ReindexCoordination for TLC.                                            *)
(***************************************************************************)
EXTENDS ReindexCoordination, FiniteSets, TLC

\* Sound for the safety runs; the run with liveness does not use it.
Symmetry == Permutations(Files) \cup Permutations(Runs) \cup Permutations(Manuals)

\* Once a change is lost, at most three operations, users' runs and daemon starts.
FewWhenLost ==
  dropped # {} => (MaxOps - left.ops) + (MaxCli - left.cli) + (MaxBoots - left.boots) <= 3
=============================================================================
