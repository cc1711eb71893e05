---------------------------- MODULE MCBotIngest ----------------------------
(* Instances of BotIngest for TLC.                                         *)
EXTENDS BotIngest, TLC

Symmetry == Permutations(Finishers) \cup Permutations(Uploaders)
                \cup Permutations(Chunks) \cup Permutations(Starters)

=============================================================================
