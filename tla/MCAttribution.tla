--------------------------- MODULE MCAttribution ---------------------------
(* Instances of Attribution for TLC.                                       *)
EXTENDS Attribution, TLC

Symmetry == Permutations(Humans) \cup Permutations(Names)
                \cup Permutations(Clusters) \cup Permutations(Extractors)

=============================================================================
