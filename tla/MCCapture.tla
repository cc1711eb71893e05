----------------------------- MODULE MCCapture -----------------------------
(* Instances of Capture for TLC.                                           *)
EXTENDS Capture, TLC

Symmetry == Permutations(Finishers) \cup Permutations(Uploaders)
                \cup Permutations(Chunks)

=============================================================================
