------------------------------ MODULE MCPurge ------------------------------
(* Instances of Purge for TLC.                                             *)
EXTENDS Purge, TLC

\* Of these alone no fairness condition and no property speaks.
Symmetry == Permutations(Finishers) \cup Permutations(Chunks)

=============================================================================
