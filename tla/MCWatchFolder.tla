--------------------------- MODULE MCWatchFolder ---------------------------
(* Instances of WatchFolder for TLC.                                       *)
EXTENDS WatchFolder, TLC

Symmetry == Permutations(Scanners) \cup Permutations(Names) \cup Permutations(Copies)

=============================================================================
