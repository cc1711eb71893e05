------------------------------ MODULE Pipeline ------------------------------
(***************************************************************************)
(* The processing of one Meeting (pipeline/orchestrate.py): run_pipeline   *)
(* walks the stages from its from_stage on, each stage committing its own  *)
(* transaction.  Celery delivers the task at least once (pipeline/app.py): *)
(* it is acknowledged when the run ends, requeued when its worker is lost, *)
(* and handed to a second worker when it outlives the visibility timeout.  *)
(*                                                                         *)
(* A worker's pc names what it does next for its stage at[w]:              *)
(*   enter    commit current_stage = the stage         (line 54)           *)
(*   work     run the stage function                   (line 57)           *)
(*   failure  commit status and failed_stage           (lines 59-64)       *)
(*   leave    commit current_stage = None              (lines 63, 66)      *)
(* A stage reads and computes outside any write transaction and writes     *)
(* once, at its end: a stage is one step, which writes all or nothing.     *)
(***************************************************************************)
EXTENDS MeetingRow, Naturals

CONSTANTS
    Workers,          \* Celery worker processes
    Extractions,      \* number of optional extraction stages (4 in the code)
    MaxRedeliveries,  \* bound: messages that come once more
    MaxResumes,       \* bound: runs an operator starts from failed_stage
    MaxDrops          \* bound: runs that end with nobody to repeat them

ASSUME PipelineAssumption ==
    Extractions \in Nat /\ MaxRedeliveries \in Nat
        /\ MaxResumes \in Nat /\ MaxDrops \in Nat

\* STAGES, by position.
NoStage    == 0
Normalize  == 1
Diarize    == 2
Transcribe == 3
Align      == 4
Attribute  == 5
Optional   == 6..(5 + Extractions)
Publish    == 6 + Extractions
Stages     == 1..Publish
\* The stages that insert rows; none of them looks for rows of an earlier run.
Appending  == {Diarize, Transcribe, Attribute} \cup Optional

VARIABLES
    status, current, failed,      \* Meeting.status, current_stage, failed_stage
    normalized,                   \* Recording.normalized_key is set
    rows,                         \* batches of rows each stage has inserted
    aligned,                      \* batches of Segments whose cluster_id is set
    queue,                        \* undelivered messages, by from_stage
    pc, at,                       \* the runs
    from, owned,                  \* their message, and whether it is still theirs
    redeliveries, resumes, drops  \* history

meeting == <<status, current, failed>>
output  == <<normalized, rows, aligned>>
runs    == <<pc, at, from, owned>>
history == <<redeliveries, resumes, drops>>
vars    == <<meeting, output, queue, runs, history>>

\* create_meeting, finish or the watch folder has enqueued the Meeting.
Init ==
    /\ status = "pending" /\ current = NoStage /\ failed = NoStage
    /\ normalized = FALSE
    /\ rows = [s \in Appending |-> 0]
    /\ aligned = 0
    /\ queue = [s \in Stages |-> IF s = Normalize THEN 1 ELSE 0]
    /\ pc = [w \in Workers |-> "idle"]
    /\ at = [w \in Workers |-> Normalize]
    /\ from = [w \in Workers |-> Normalize]
    /\ owned = [w \in Workers |-> FALSE]
    /\ redeliveries = 0 /\ resumes = 0 /\ drops = 0

Quiet == (\A s \in Stages : queue[s] = 0) /\ (\A w \in Workers : pc[w] = "idle")

-----------------------------------------------------------------------------
(* run_pipeline.                                                           *)

Deliver(w, s) ==
    /\ pc[w] = "idle"
    /\ queue[s] > 0
    /\ queue' = [queue EXCEPT ![s] = @ - 1]
    /\ pc' = [pc EXCEPT ![w] = "enter"]
    /\ at' = [at EXCEPT ![w] = s]
    /\ from' = [from EXCEPT ![w] = s]
    /\ owned' = [owned EXCEPT ![w] = TRUE]
    /\ UNCHANGED <<meeting, output, history>>

EnterStage(w) ==
    /\ pc[w] = "enter"
    /\ current' = at[w]
    /\ pc' = [pc EXCEPT ![w] = "work"]
    /\ UNCHANGED <<status, failed, output, queue, at, from, owned, history>>

\* The loop goes on with the stage after at[w], or ends.
NextStage(w) ==
    IF at[w] = Publish
    THEN pc' = [pc EXCEPT ![w] = "leave"] /\ UNCHANGED at
    ELSE /\ pc' = [pc EXCEPT ![w] = "enter"]
         /\ at' = [at EXCEPT ![w] = @ + 1]

\* What the stage functions commit.
StageStatus(s) == IF s = Normalize THEN "processing"
                  ELSE IF s = Publish THEN "published" ELSE status

StageOutput(s) ==
    /\ normalized' = (normalized \/ s = Normalize)
    /\ rows' = [r \in Appending |-> IF r = s THEN rows[r] + 1 ELSE rows[r]]
    /\ aligned' = IF s = Align THEN rows[Transcribe] ELSE aligned

StageDone(w) ==
    /\ pc[w] = "work"
    /\ at[w] \in {Diarize, Transcribe} => normalized
    /\ status' = StageStatus(at[w])
    /\ StageOutput(at[w])
    /\ NextStage(w)
    /\ UNCHANGED <<current, failed, queue, from, owned, history>>

\* ffmpeg, the diarizer, the ASR or LLM endpoint, storage or the database
\* raises: the stage's transaction has not begun or rolls back.
StageRaises(w) ==
    /\ pc[w] = "work"
    /\ pc' = [pc EXCEPT ![w] = "failure"]
    /\ UNCHANGED <<meeting, output, queue, at, from, owned, history>>

\* Mutations: every failed stage is skipped, not only the extractions; the
\* first failed stage is kept; current_stage is not cleared on a failure.
Skippable_Every(s)    == TRUE
Skippable(s)          == s \in Optional
FailedStage_First(w)  == IF failed = NoStage THEN at[w] ELSE failed
FailedStage(w)        == at[w]
AfterFailure_NoClear  == "idle"
AfterFailure          == "leave"

\* set_stage_failure; only an extraction's failure lets the loop go on.
RecordFailure(w) ==
    /\ pc[w] = "failure"
    /\ status' = "failed" /\ failed' = FailedStage(w)
    /\ IF Skippable(at[w]) THEN NextStage(w)
       ELSE pc' = [pc EXCEPT ![w] = AfterFailure] /\ UNCHANGED at
    /\ UNCHANGED <<current, output, queue, from, owned, history>>

\* The run returns or raises; either way the message is acknowledged.
Leave(w) ==
    /\ pc[w] = "leave"
    /\ current' = NoStage
    /\ pc' = [pc EXCEPT ![w] = "idle"]
    /\ UNCHANGED <<status, failed, output, queue, at, from, owned, history>>

-----------------------------------------------------------------------------
(* Delivery (app.py lines 28-32) and the operator.                         *)

\* Mutation: the message of a lost worker is not requeued.
Requeued_Acked(w) == queue
Requeued(w)       == [queue EXCEPT ![from[w]] = @ + 1]

\* task_reject_on_worker_lost: the message goes back as it was sent.
WorkerLost(w) ==
    /\ pc[w] # "idle" /\ owned[w]
    /\ redeliveries < MaxRedeliveries
    /\ redeliveries' = redeliveries + 1
    /\ queue' = Requeued(w)
    /\ pc' = [pc EXCEPT ![w] = "idle"]
    /\ UNCHANGED <<meeting, output, at, from, owned, resumes, drops>>

\* visibility_timeout: the broker offers the message of a run that goes on.
VisibilityTimeout(w) ==
    /\ pc[w] # "idle" /\ owned[w]
    /\ redeliveries < MaxRedeliveries
    /\ redeliveries' = redeliveries + 1
    /\ queue' = Requeued(w)
    /\ owned' = [owned EXCEPT ![w] = FALSE]
    /\ UNCHANGED <<meeting, output, pc, at, from, resumes, drops>>

\* A run ends half way with no message left to repeat it: its worker is lost
\* after the timeout, or a commit outside the try block fails and the
\* exception acknowledges the task.
Dropped(w) ==
    /\ \/ pc[w] # "idle" /\ ~owned[w]
       \/ pc[w] \in {"enter", "failure", "leave"}
    /\ drops < MaxDrops
    /\ drops' = drops + 1
    /\ pc' = [pc EXCEPT ![w] = "idle"]
    /\ UNCHANGED <<meeting, output, queue, at, from, owned, redeliveries, resumes>>

\* Mutation: the operator starts over.
ResumeAt_Start == Normalize
ResumeAt       == failed

Resumed == queue' = [queue EXCEPT ![ResumeAt] = @ + 1]

\* docs/admin-guide.md, "A pipeline stage fails": run_pipeline(meeting_id,
\* from_stage=failed_stage), called by hand on a failed Meeting at rest.
Resume ==
    /\ status = "failed" /\ failed # NoStage /\ Quiet
    /\ resumes < MaxResumes
    /\ resumes' = resumes + 1
    /\ Resumed
    /\ UNCHANGED <<meeting, output, runs, redeliveries, drops>>

\* Nothing looks at the status, which a resumed run leaves "failed", or at the
\* broker, and a later success does not clear failed_stage: the operator
\* resumes a Meeting that is published, or that a run or a message goes on with.
ResumeBlindly ==
    /\ failed # NoStage /\ ~(status = "failed" /\ Quiet)
    /\ redeliveries < MaxRedeliveries
    /\ redeliveries' = redeliveries + 1
    /\ Resumed
    /\ UNCHANGED <<meeting, output, runs, resumes, drops>>

-----------------------------------------------------------------------------

RunStep(w) ==
    \/ EnterStage(w) \/ StageDone(w) \/ StageRaises(w)
    \/ RecordFailure(w) \/ Leave(w)

Take(w) == \E s \in Stages : Deliver(w, s)

Next ==
    \/ \E w \in Workers : \/ Take(w) \/ RunStep(w)
                          \/ WorkerLost(w) \/ VisibilityTimeout(w) \/ Dropped(w)
    \/ Resume \/ ResumeBlindly

\* A worker takes waiting messages and goes on with the run it has taken.
Fairness == \A w \in Workers : WF_vars(Take(w)) /\ WF_vars(RunStep(w))

Spec     == Init /\ [][Next]_vars
FairSpec == Spec /\ Fairness

-----------------------------------------------------------------------------

TypeOK ==
    /\ status \in LiveStatuses
    /\ current \in Stages \cup {NoStage} /\ failed \in Stages \cup {NoStage}
    /\ normalized \in BOOLEAN
    /\ rows \in [Appending -> Nat]
    /\ aligned \in Nat
    /\ queue \in [Stages -> Nat]
    /\ pc \in [Workers -> {"idle", "enter", "work", "failure", "leave"}]
    /\ at \in [Workers -> Stages] /\ from \in [Workers -> Stages]
    /\ owned \in [Workers -> BOOLEAN]
    /\ redeliveries \in Nat /\ resumes \in Nat /\ drops \in Nat

\* Every mandatory stage before position k has its output in the database.
DoneBefore(k) ==
    /\ k > Normalize  => normalized
    /\ k > Diarize    => rows[Diarize] > 0
    /\ k > Transcribe => rows[Transcribe] > 0
    /\ k > Align      => aligned > 0
    /\ k > Attribute  => rows[Attribute] > 0

\* OPTIONAL_STAGES (lines 17-19, 61-64): whatever fails, is delivered twice
\* or is resumed, a published Meeting has a normalized Recording, clusters,
\* a Transcript, its alignment and the pass that proposes names.
PublishedIsComplete == status = "published" => DoneBefore(Publish)

\* The design's "earlier stages are not recomputed": a stage's rows are
\* inserted once, however often a run fails and is resumed, plus once for
\* each message that comes once more, from the broker or from an operator who
\* does not look, and each run that is dropped (a resumed run leaves status and
\* failed_stage as they are until it fails or publishes, so a dropped one reads
\* as failed at the stage it was resumed from).
RowsBoundedByDeliveries ==
    \A s \in Appending : rows[s] <= 1 + redeliveries + drops

\* The stage a Meeting at rest is failed at is where a resumed run has to
\* begin: a mandatory stage, every one before it done, none from it on.
FailedStageIsFirstGap ==
    Quiet /\ status = "failed" /\ redeliveries = 0 /\ drops = 0 =>
        /\ failed \in Stages \ Optional
        /\ DoneBefore(failed)
        /\ \A s \in Appending : s >= failed => rows[s] = 0

\* docs/admin-guide.md, "a named failed state": no run and no message is left,
\* the Meeting is published or failed, and shows no current stage.
Settled ==
    Quiet /\ status \in {"published", "failed"} /\ current = NoStage

\* No Meeting is left pending or processing, or at a stage, with nobody to go on
\* with it: when the last run and the last message have gone, whichever workers
\* were lost and however runs overlapped, it is settled; unless a run was dropped.
RestIsSettled == Quiet /\ drops = 0 => Settled

\* app.py, "a lost worker must not lose an hour of GPU work": a Meeting in the
\* pipeline gets out of it, through failures, lost workers and redeliveries.
RunsSettle == ~Settled ~> Settled \/ drops > 0

-----------------------------------------------------------------------------
(* The abstract specification.                                             *)

\* The mandatory outputs that are in the database, by stage.
Written(s) ==
    \/ s = Normalize /\ normalized
    \/ s \in {Diarize, Transcribe, Attribute} /\ rows[s] > 0
    \/ s = Align /\ aligned > 0

Done == {s \in 1..Attribute : Written(s)}

Promised == INSTANCE Processing
            WITH Outputs <- Attribute, outcome <- status, done <- Done,
                 repeated <- (redeliveries > 0)

\* Requeued, overlapping, dropped and resumed runs together implement the
\* promise: outputs appear in the order of the stages and are never taken
\* back, publishing waits for all of them, and only a message that comes once more
\* takes a published Meeting back.
KeepsPromise == Promised!Spec

=============================================================================
