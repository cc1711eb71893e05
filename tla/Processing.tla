----------------------------- MODULE Processing -----------------------------
(***************************************************************************)
(* What the pipeline promises about one Meeting, whatever its workers and  *)
(* its broker do (design specification section 4): each mandatory output   *)
(* is written after the ones it is built from, no output is taken back,    *)
(* the Meeting is published only when it has all of them, and what is      *)
(* published stays published unless a message has come once more, from the *)
(* broker or from an operator who does not look.                           *)
(***************************************************************************)
EXTENDS Naturals

CONSTANT Outputs   \* the number of mandatory outputs, which are 1..Outputs

VARIABLES
    outcome,       \* how the Meeting reads
    done,          \* the outputs that are in the database
    repeated       \* a message has come once more

Init == outcome = "pending" /\ done = {} /\ repeated = FALSE

\* The outcome may change.
Open == outcome = "published" => repeated

\* Output k is written, once or again, from the outputs before it.
Write(k) ==
    /\ 1..(k - 1) \subseteq done
    /\ done' = done \cup {k}
    /\ IF k = 1 THEN Open /\ outcome' = "processing" ELSE UNCHANGED outcome
    /\ UNCHANGED repeated

Publish ==
    /\ done = 1..Outputs
    /\ outcome' = "published"
    /\ UNCHANGED <<done, repeated>>

Fail ==
    /\ Open
    /\ outcome' = "failed"
    /\ UNCHANGED <<done, repeated>>

Repeat ==
    /\ repeated' = TRUE
    /\ UNCHANGED <<outcome, done>>

Next == (\E k \in 1..Outputs : Write(k)) \/ Publish \/ Fail \/ Repeat

Spec == Init /\ [][Next]_<<outcome, done, repeated>>

=============================================================================
