---------------------------- MODULE MCRetention -----------------------------
(* Instances of Retention for TLC.                                         *)
EXTENDS Retention, TLC

Body(a, m) == [audio |-> a, meeting |-> m]

\* Two thresholds, each one alone, and a policy that the validator refuses.
SomeBodies == {Body(0, 1), Body(Keep, 1), Body(1, Keep), Body(1, 0)}

\* Admins, workers and the Meetings that can be purged are interchangeable.
\* No fairness condition and no property speaks of one of these alone.
Symmetry ==
    Permutations(Puts) \cup Permutations(Tasks) \cup Permutations(Meetings \ Broken)

=============================================================================
