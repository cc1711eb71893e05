------------------------------- MODULE Access -------------------------------
(***************************************************************************)
(* Who may see and change a Meeting (authz.py).  The rule is written twice *)
(* in the code: can_read decides about one Meeting that has been loaded,   *)
(* readable is the WHERE clause that selects those of a list.  A Meeting   *)
(* is [org, owner, visibility], an account has an organization and a role, *)
(* and `shares` holds the pairs <<meeting, account>> of meeting_share.      *)
(***************************************************************************)

CONSTANTS
    Accounts,   \* accounts of every organization
    Org, Role   \* [Accounts -> organizations], [Accounts -> Roles]

Roles        == {"admin", "auditor", "member"}
Visibilities == {"private", "organization", "shared"}

ASSUME RoleAssumption == Role \in [Accounts -> Roles]

SeesAll(a) == Role[a] \in {"admin", "auditor"}

\* _can_read: a share counts only while the Meeting is "shared".
CanRead(a, meeting, shares) ==
    \/ SeesAll(a)
    \/ meeting.owner = a
    \/ meeting.visibility = "organization"
    \/ meeting.visibility = "shared" /\ <<meeting.id, a>> \in shares

\* Mutation: the list filter gives the whole list to admins only.
ListsAll_Admin(a) == Role[a] = "admin"
ListsAll(a)       == Role[a] \in {"admin", "auditor"}

\* readable_meetings_filter: a share counts whatever the visibility.
Readable(a, meeting, shares) ==
    \/ ListsAll(a)
    \/ meeting.owner = a
    \/ meeting.visibility = "organization"
    \/ <<meeting.id, a>> \in shares

\* What list_meetings returns, and what authorize lets pass.
Listed(a, meeting, shares) == meeting.org = Org[a] /\ Readable(a, meeting, shares)
MayRead(a, meeting, shares) == meeting.org = Org[a] /\ CanRead(a, meeting, shares)
MayWrite(a, meeting, shares) == MayRead(a, meeting, shares) /\ Role[a] # "auditor"

=============================================================================
