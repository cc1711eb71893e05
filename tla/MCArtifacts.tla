---------------------------- MODULE MCArtifacts -----------------------------
(* Instances of Artifacts for TLC.                                         *)
EXTENDS Artifacts, TLC

CONSTANTS here, elsewhere, reader, auditor, stranger, q1, q2, w1, w2

OrgOf  == [a \in Accounts |-> IF a = stranger THEN elsewhere ELSE here]
RoleOf == (reader :> "member") @@ (auditor :> "auditor") @@ (stranger :> "admin")

\* No owner, as before migration f591adcdbe39; a share that was left behind.
SomeGrants ==
    {[owner |-> None, visibility |-> "private", sharedWith |-> {}],
     [owner |-> reader, visibility |-> "private", sharedWith |-> {}],
     [owner |-> None, visibility |-> "private", sharedWith |-> {reader}],
     [owner |-> None, visibility |-> "shared", sharedWith |-> {reader}],
     [owner |-> None, visibility |-> "organization", sharedWith |-> {}]}

\* Requests are alike, and so are workers.
Symmetry == Permutations({q1, q2}) \cup Permutations({w1, w2})

=============================================================================
