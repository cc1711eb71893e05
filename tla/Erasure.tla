------------------------------ MODULE Erasure -------------------------------
(***************************************************************************)
(* What the retention tasks promise of one Meeting, however many of them   *)
(* are at it and wherever they stop: it is taken up only for a purge that  *)
(* is due; its audio is only deleted while it is taken up; its rows go     *)
(* last, in one step, when none of the objects that they name is left; and *)
(* nothing comes back to a Meeting that is gone.                           *)
(*                                                                         *)
(* Purge, in which every call of a purge is a step, and Retention, in      *)
(* which a whole purge is one, both keep it.                               *)
(***************************************************************************)

VARIABLES
    row, audio,   \* the Meeting is not gone, and its Recording has a row
    kept,         \* the objects a Recording of it has named and that are left
    due,          \* the kinds of purge, "full" and "audio", it is due for
    chosen,       \* the kinds of purge that have taken it up
    spoiled       \* something was written behind the back of a purge

Init ==
    /\ row = TRUE /\ (~audio => kept = {})
    /\ due = {} /\ chosen = {} /\ ~spoiled

\* The Meeting gets its Recording.
Record ==
    /\ row /\ ~audio /\ audio'
    /\ kept \subseteq kept'
    /\ row' = row

\* The Recording names an object more.
Add ==
    /\ audio
    /\ kept \subseteq kept'
    /\ row' = row /\ audio' = audio

\* A purge deletes objects.
Erase ==
    /\ audio /\ chosen # {}
    /\ kept' \subseteq kept
    /\ row' = row /\ audio' = audio

\* A purge deletes the rows.
Remove(kind) ==
    /\ kind \in chosen
    /\ row' <=> row /\ kind # "full"
    /\ ~audio' /\ kept' = {}

\* Purges take the Meeting up, end and stop; it grows old.
Wait == UNCHANGED <<row, audio, kept>>

Next ==
    \/ spoiled'
    \/ /\ ~spoiled /\ ~spoiled'
       /\ chosen' \subseteq chosen \cup due
       /\ Wait \/ Record \/ Add \/ Erase \/ \E kind \in chosen : Remove(kind)

vars == <<row, audio, kept, due, chosen, spoiled>>

Spec == Init /\ [][Next]_vars

=============================================================================
