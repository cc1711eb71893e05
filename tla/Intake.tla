------------------------------- MODULE Intake -------------------------------
(***************************************************************************)
(* What every way into the system promises of one Meeting, whichever       *)
(* requests, scans and sweeps compete for it: it is given one Recording,   *)
(* which is there before the pipeline hears of it; the pipeline is told    *)
(* once at most; and a Meeting that has been purged is given none.  A      *)
(* Meeting the pipeline is never told of is one whose request ended        *)
(* between the two.                                                        *)
(*                                                                         *)
(* Pipeline begins where this ends: a Recording, and one message.          *)
(***************************************************************************)
EXTENDS Naturals

VARIABLES
    recording,   \* "none", "stored", or "purged" with its Meeting
    telling,     \* a request that has stored it is about to tell the pipeline
    messages,    \* run_pipeline messages that no worker has taken
    excused      \* two requests have overlapped: nothing is promised any more

Init == recording = "none" /\ ~telling /\ messages = 0 /\ ~excused

Store ==
    /\ recording = "none" /\ ~telling
    /\ recording' = "stored" /\ telling' = TRUE
    /\ UNCHANGED messages

Tell ==
    /\ telling /\ ~telling'
    /\ messages' = messages + 1
    /\ UNCHANGED recording

\* The request ends before it has told the pipeline.
Strand ==
    /\ telling /\ ~telling'
    /\ UNCHANGED <<recording, messages>>

\* A worker takes the message.
Take ==
    /\ messages > 0
    /\ messages' = messages - 1
    /\ UNCHANGED <<recording, telling>>

Purge ==
    /\ recording' = "purged"
    /\ UNCHANGED <<telling, messages>>

Next ==
    \/ excused'
    \/ ~excused /\ ~excused' /\ (Store \/ Tell \/ Strand \/ Take \/ Purge)

vars == <<recording, telling, messages, excused>>
Same == UNCHANGED vars

Spec == Init /\ [][Next]_vars

=============================================================================
