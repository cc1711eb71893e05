--------------------------- MODULE PipelineProofs ---------------------------
(***************************************************************************)
(* Theorems about Pipeline, for every set of workers, every number of      *)
(* extraction stages and every number of redeliveries, resumed and dropped *)
(* runs; and about Progress, for every number of viewers, reloads, broken  *)
(* streams and lost announcements.                                         *)
(***************************************************************************)
EXTENDS Progress, FiniteSetTheorems, TLAPS

\* What can happen to the run of worker w.
WorkerStep(w) ==
    Take(w) \/ RunStep(w) \/ WorkerLost(w) \/ VisibilityTimeout(w) \/ Dropped(w)

-----------------------------------------------------------------------------
(* Type correctness.                                                       *)

\* The named stages are positions of the loop, whatever the number of
\* extractions.
LEMMA StagesType ==
    /\ Publish \in Nat /\ Publish >= 6
    /\ {Normalize, Diarize, Transcribe, Align, Attribute, Publish} \subseteq Stages
    /\ Appending \subseteq Stages
    /\ \A s \in Stages : s \in Nat /\ (s # Publish => s + 1 \in Stages)
BY PipelineAssumption
   DEF Publish, Stages, Appending, Optional,
       Normalize, Diarize, Transcribe, Align, Attribute

\* The loop's next stage is one of the stages.
LEMMA NextStageType ==
    ASSUME TypeOK, NEW w \in Workers, NextStage(w)
    PROVE  /\ pc' \in [Workers -> {"idle", "enter", "work", "failure", "leave"}]
           /\ at' \in [Workers -> Stages]
BY StagesType DEF TypeOK, NextStage

\* Every variable of the pipeline model keeps its type: no run leaves the
\* stage list, and no message count or row count goes below zero.
THEOREM TypeCorrect == Spec => []TypeOK
<1>1. Init => TypeOK
  <2> SUFFICES ASSUME Init PROVE TypeOK
    OBVIOUS
  <2>1. normalized \in BOOLEAN
    BY Zenon DEF Init
  <2> QED
    BY <2>1, StagesType DEF Init, TypeOK, LiveStatuses, NoStage
<1>2. TypeOK /\ [Next]_vars => TypeOK'
  <2> SUFFICES ASSUME TypeOK, [Next]_vars
               PROVE  TypeOK'
    OBVIOUS
  <2> USE DEF TypeOK, meeting, output, history
  <2>1. ASSUME NEW w \in Workers, WorkerStep(w)
        PROVE  TypeOK'
    <3>1. ASSUME NEW s \in Stages, Deliver(w, s)
          PROVE  TypeOK'
      BY <3>1 DEF Deliver
    <3>2. CASE EnterStage(w)
      BY <3>2 DEF EnterStage
    <3>3. CASE StageDone(w)
      <4>1. status' \in LiveStatuses
        BY <3>3 DEF StageDone, StageStatus, LiveStatuses
      <4>2. normalized' \in BOOLEAN
        BY <3>3, Zenon DEF StageDone, StageOutput
      <4>3. rows' \in [Appending -> Nat] /\ aligned' \in Nat
        BY <3>3 DEF StageDone, StageOutput, Appending
      <4> QED
        BY <3>3, <4>1, <4>2, <4>3, NextStageType DEF StageDone
    <3>4. CASE StageRaises(w)
      BY <3>4 DEF StageRaises
    <3>5. CASE RecordFailure(w)
      BY <3>5, NextStageType DEF RecordFailure, FailedStage, Skippable, AfterFailure, LiveStatuses
    <3>6. CASE Leave(w)
      BY <3>6 DEF Leave
    <3>7. CASE WorkerLost(w)
      BY <3>7 DEF WorkerLost, Requeued
    <3>8. CASE VisibilityTimeout(w)
      BY <3>8 DEF VisibilityTimeout, Requeued
    <3>9. CASE Dropped(w)
      BY <3>9 DEF Dropped
    <3> QED
      BY <2>1, <3>1, <3>2, <3>3, <3>4, <3>5, <3>6, <3>7, <3>8, <3>9
         DEF WorkerStep, Take, RunStep
  <2>2. CASE Resume
    BY <2>2 DEF Resume, Resumed, ResumeAt, runs, NoStage
  <2>3. CASE ResumeBlindly
    BY <2>3 DEF ResumeBlindly, Resumed, ResumeAt, runs, NoStage
  <2>4. CASE UNCHANGED vars
    BY <2>4 DEF vars, runs
  <2> QED
    BY <2>1, <2>2, <2>3, <2>4 DEF Next, WorkerStep
<1> QED
  BY <1>1, <1>2, PTL DEF Spec

-----------------------------------------------------------------------------
(* A stage runs only when everything it builds on has been written.        *)

\* A run that is between two stages, or in one, has what that stage needs, and
\* so would a run that started over from its message.
RunsSupplied ==
    \A w \in Workers :
        /\ pc[w] \in {"enter", "work", "failure"} => DoneBefore(at[w])
        /\ pc[w] # "idle" => DoneBefore(from[w])

\* So does every message that waits, and the stage an operator resumes from.
MessagesSupplied == \A s \in Stages : queue[s] > 0 => DoneBefore(s)
FailedSupplied   == failed # NoStage => DoneBefore(failed)

Supplied == /\ RunsSupplied /\ MessagesSupplied /\ FailedSupplied
            /\ PublishedIsComplete

\* What a stage writes never takes back what a stage before it wrote: the only
\* assignment, align's, happens when there are Segments.
LEMMA OutputKept ==
    ASSUME TypeOK, NEW s \in Stages, DoneBefore(s), StageOutput(s),
           NEW k \in Nat, DoneBefore(k)
    PROVE  DoneBefore(k)'
<1> USE DEF DoneBefore, StageOutput, TypeOK
<1>1. k > Normalize => normalized'
  BY Zenon
<1>2. ASSUME NEW r \in Appending, rows[r] > 0
      PROVE  rows'[r] > 0
  BY <1>2 DEF Appending
<1>3. k > Align => aligned' > 0
  BY DEF Align, Transcribe
<1> QED
  BY <1>1, <1>2, <1>3 DEF Appending

\* A stage that is done has supplied the next one.
LEMMA StageSupplies ==
    ASSUME TypeOK, NEW s \in Stages, DoneBefore(s), StageOutput(s)
    PROVE  DoneBefore(s + 1)'
<1>1. DoneBefore(s)'
  BY OutputKept, StagesType
<1>2. s = Normalize => normalized'
  BY Zenon DEF StageOutput
<1>3. s \in {Diarize, Transcribe, Attribute} => rows'[s] > 0
  BY DEF StageOutput, TypeOK, Appending
<1>4. s = Align => aligned' > 0
  BY DEF StageOutput, TypeOK, DoneBefore, Align, Transcribe
<1> QED
  BY <1>1, <1>2, <1>3, <1>4, StagesType
     DEF DoneBefore, Normalize, Diarize, Transcribe, Align, Attribute

\* A Meeting is supplied when it is enqueued: its only message starts at
\* normalize, which needs nothing but the Recording.
LEMMA InitSupplied == Init => Supplied
BY DEF Init, Supplied, RunsSupplied, MessagesSupplied, FailedSupplied, Stages,
       PublishedIsComplete, DoneBefore, Normalize, Diarize, Transcribe, Align,
       Attribute

\* A step that keeps the output, and one that completes stage s.
OutputStays == \A k \in Nat : DoneBefore(k) => DoneBefore(k)'
Completes(s) == \A k \in Nat : k = s + 1 => DoneBefore(k)'

\* A step that writes no output keeps it.
LEMMA NoOutput ==
    ASSUME UNCHANGED output
    PROVE  OutputStays
BY DEF output, OutputStays, DoneBefore

\* The loop goes on from a completed stage; no other run is disturbed.
LEMMA NextStageSupplied ==
    ASSUME TypeOK, RunsSupplied, OutputStays, NEW w \in Workers,
           pc[w] # "idle", NextStage(w), UNCHANGED from, Completes(at[w])
    PROVE  RunsSupplied'
<1> USE DEF TypeOK
<1> SUFFICES ASSUME NEW v \in Workers
             PROVE  /\ pc'[v] \in {"enter", "work", "failure"} => DoneBefore(at[v])'
                    /\ pc'[v] # "idle" => DoneBefore(from[v])'
  BY DEF RunsSupplied
<1>1. from[v] \in Nat /\ at[v] \in Nat
  BY StagesType
<1>2. pc'[v] # "idle" => DoneBefore(from[v])'
  BY <1>1 DEF NextStage, RunsSupplied, OutputStays, DoneBefore
<1>3. CASE v # w
  BY <1>1, <1>2, <1>3 DEF NextStage, RunsSupplied, OutputStays, DoneBefore
<1>4. CASE v = w /\ at[w] # Publish
  <2>1. at'[w] = at[w] + 1 /\ at'[w] \in Nat
    BY <1>1, <1>4 DEF NextStage
  <2> QED
    BY <1>2, <1>4, <2>1 DEF Completes, DoneBefore
<1>5. CASE v = w /\ at[w] = Publish
  BY <1>2, <1>5 DEF NextStage
<1> QED
  BY <1>3, <1>4, <1>5

\* A stage that succeeds keeps everybody supplied.
LEMMA StageDoneSupplied ==
    ASSUME TypeOK, Supplied, NEW w \in Workers, StageDone(w)
    PROVE  Supplied'
<1> USE DEF StageDone
<1>1. PICK s \in Stages : s = at[w]
  BY DEF TypeOK
<1>2. DoneBefore(s) /\ StageOutput(s)
  BY <1>1 DEF Supplied, RunsSupplied
<1>3. OutputStays
  BY <1>2, OutputKept DEF OutputStays
<1>4. Completes(at[w])
  <2>1. DoneBefore(s + 1)'
    BY <1>2, StageSupplies
  <2> QED
    BY <1>1, <2>1 DEF Completes
<1>5. RunsSupplied'
  BY <1>3, <1>4, NextStageSupplied DEF Supplied
<1>6. MessagesSupplied' /\ FailedSupplied'
  BY <1>3, StagesType
     DEF Supplied, MessagesSupplied, FailedSupplied, OutputStays, DoneBefore,
         TypeOK, NoStage
<1>7. PublishedIsComplete'
  <2>1. CASE s = Publish
    BY <1>2, <1>3, <2>1, StagesType DEF PublishedIsComplete, OutputStays, DoneBefore
  <2>2. CASE s # Publish
    BY <1>1, <1>3, <2>2, StagesType
       DEF Supplied, PublishedIsComplete, OutputStays, DoneBefore, StageStatus
  <2> QED
    BY <2>1, <2>2
<1> QED
  BY <1>5, <1>6, <1>7 DEF Supplied

\* So does a stage that fails: only an extraction's failure lets the loop go
\* on, and no stage builds on an extraction.
LEMMA RecordFailureSupplied ==
    ASSUME TypeOK, Supplied, NEW w \in Workers, RecordFailure(w)
    PROVE  Supplied'
<1> USE DEF RecordFailure, FailedStage, Skippable, AfterFailure
<1>1. OutputStays
  BY NoOutput
<1>2. at[w] \in Stages /\ DoneBefore(at[w])
  BY DEF TypeOK, Supplied, RunsSupplied
<1>3. RunsSupplied'
  <2>1. CASE at[w] \in Optional
    <3>1. Completes(at[w])
      BY <1>1, <1>2, <2>1, StagesType
         DEF Completes, OutputStays, DoneBefore, Optional, Normalize, Diarize,
             Transcribe, Align, Attribute
    <3> QED
      BY <1>1, <2>1, <3>1, NextStageSupplied DEF Supplied
  <2>2. CASE at[w] \notin Optional
    BY <2>2 DEF Supplied, RunsSupplied, DoneBefore, TypeOK, output
  <2> QED
    BY <2>1, <2>2
<1>4. MessagesSupplied' /\ FailedSupplied' /\ PublishedIsComplete'
  BY <1>2 DEF Supplied, MessagesSupplied, FailedSupplied, PublishedIsComplete,
              DoneBefore, output
<1> QED
  BY <1>3, <1>4 DEF Supplied

\* Nothing else writes output; a message is put back as it was sent, and a run
\* is taken from a message.
LEMMA OtherSupplied ==
    ASSUME TypeOK, Supplied, NEW w \in Workers,
           \/ Take(w) \/ EnterStage(w) \/ StageRaises(w) \/ Leave(w)
           \/ WorkerLost(w) \/ VisibilityTimeout(w) \/ Dropped(w)
    PROVE  Supplied'
<1> USE DEF Supplied, RunsSupplied, MessagesSupplied, FailedSupplied,
            PublishedIsComplete, DoneBefore, TypeOK, meeting, output, history
<1>1. ASSUME NEW s \in Stages, Deliver(w, s)
      PROVE  Supplied'
  BY <1>1 DEF Deliver
<1>2. CASE EnterStage(w)
  BY <1>2 DEF EnterStage
<1>3. CASE StageRaises(w)
  BY <1>3 DEF StageRaises
<1>4. CASE Leave(w)
  BY <1>4 DEF Leave
<1>5. CASE WorkerLost(w)
  BY <1>5 DEF WorkerLost, Requeued
<1>6. CASE VisibilityTimeout(w)
  BY <1>6 DEF VisibilityTimeout, Requeued
<1>7. CASE Dropped(w)
  BY <1>7 DEF Dropped
<1> QED
  BY <1>1, <1>2, <1>3, <1>4, <1>5, <1>6, <1>7 DEF Take

\* Supplied is an invariant.
LEMMA SuppliedHolds == Spec => []Supplied
<1>1. Init => Supplied
  BY InitSupplied
<1>2. TypeOK /\ Supplied /\ [Next]_vars => Supplied'
  <2> SUFFICES ASSUME TypeOK, Supplied, [Next]_vars
               PROVE  Supplied'
    OBVIOUS
  <2>1. ASSUME NEW w \in Workers, WorkerStep(w)
        PROVE  Supplied'
    BY <2>1, StageDoneSupplied, RecordFailureSupplied, OtherSupplied
       DEF WorkerStep, RunStep
  <2> USE DEF Supplied, RunsSupplied, MessagesSupplied, FailedSupplied,
              PublishedIsComplete, DoneBefore, meeting, output, runs
  <2>2. CASE Resume \/ ResumeBlindly
    BY <2>2 DEF Resume, ResumeBlindly, Resumed, ResumeAt, TypeOK
  <2>3. CASE UNCHANGED vars
    BY <2>3 DEF vars
  <2> QED
    BY <2>1, <2>2, <2>3 DEF Next, WorkerStep
<1> QED
  BY <1>1, <1>2, TypeCorrect, PTL DEF Spec

\* Whatever fails, is delivered twice, is dropped or is resumed, a published
\* Meeting has everything the mandatory stages write.
THEOREM PublishedIsCompleteHolds == Spec => []PublishedIsComplete
<1>1. Supplied => PublishedIsComplete
  BY DEF Supplied
<1> QED
  BY <1>1, SuppliedHolds, PTL


-----------------------------------------------------------------------------
(* The refinement of Processing.                                           *)

\* As long as nothing has been delivered twice there is one message or one
\* run, and none of a Meeting that is published.
OneRun ==
    redeliveries = 0 =>
        /\ \A w, v \in Workers : pc[w] # "idle" /\ pc[v] # "idle" => w = v
        /\ \A w \in Workers, s \in Stages : pc[w] # "idle" => queue[s] = 0
        /\ \A s, r \in Stages :
               queue[s] > 0 => queue[s] = 1 /\ (queue[r] > 0 => r = s)
        /\ status = "published" =>
               /\ \A s \in Stages : queue[s] = 0
               /\ \A w \in Workers : pc[w] \in {"idle", "leave"}

\* OneRun is inductive: a run is taken from the one message, which is gone
\* then; only publishing ends with "published"; a resume finds everything
\* quiet; and losing a worker or a timeout makes redeliveries positive.
LEMMA OneRunStep == TypeOK /\ OneRun /\ [Next]_vars => OneRun'
<1> SUFFICES ASSUME TypeOK, OneRun, [Next]_vars
             PROVE  OneRun'
  OBVIOUS
<1> USE DEF TypeOK, OneRun, meeting, output, history
<1>1. ASSUME NEW w \in Workers, WorkerStep(w)
      PROVE  OneRun'
  <2>1. ASSUME NEW s \in Stages, Deliver(w, s)
        PROVE  OneRun'
    BY <2>1 DEF Deliver
  <2>2. CASE EnterStage(w)
    BY <2>2 DEF EnterStage
  <2>3. CASE StageDone(w)
    BY <2>3, StagesType DEF StageDone, StageStatus, NextStage
  <2>4. CASE StageRaises(w)
    BY <2>4 DEF StageRaises
  <2>5. CASE RecordFailure(w)
    BY <2>5 DEF RecordFailure, NextStage, AfterFailure
  <2>6. CASE Leave(w)
    BY <2>6 DEF Leave
  <2>7. CASE WorkerLost(w) \/ VisibilityTimeout(w)
    BY <2>7 DEF WorkerLost, VisibilityTimeout
  <2>8. CASE Dropped(w)
    BY <2>8 DEF Dropped
  <2> QED
    BY <1>1, <2>1, <2>2, <2>3, <2>4, <2>5, <2>6, <2>7, <2>8
       DEF WorkerStep, Take, RunStep
<1>2. CASE Resume
  BY <1>2 DEF Resume, Resumed, ResumeAt, Quiet, runs
<1>3. CASE ResumeBlindly
  BY <1>3 DEF ResumeBlindly
<1>4. CASE UNCHANGED vars
  BY <1>4 DEF vars, runs
<1> QED
  BY <1>1, <1>2, <1>3, <1>4 DEF Next, WorkerStep

\* Everything before stage k is written when k may run.
LEMMA DoneUpTo ==
    ASSUME NEW k \in Stages, DoneBefore(k)
    PROVE  /\ k \in 1..Attribute => 1..(k - 1) \subseteq Done
           /\ k = Publish => Done = 1..Attribute
BY StagesType
   DEF DoneBefore, Done, Written, Normalize, Diarize, Transcribe, Align, Attribute

\* A stage adds its own output and nothing else; an extraction adds none.
LEMMA DoneGrows ==
    ASSUME TypeOK, NEW s \in Stages, DoneBefore(s), StageOutput(s)
    PROVE  Done' = Done \cup ({s} \cap 1..Attribute)
<1>1. ASSUME NEW r \in 1..Attribute
      PROVE  Written(r)' <=> Written(r) \/ r = s
  <2>1. CASE r = Normalize
    <3>1. normalized' <=> normalized \/ s = Normalize
      BY Zenon DEF StageOutput
    <3>2. (Written(r) <=> normalized) /\ (Written(r)' <=> normalized')
      BY <2>1 DEF Written, Normalize, Diarize, Transcribe, Align, Attribute
    <3> QED
      BY <2>1, <3>1, <3>2
  <2>2. CASE r = Align
    BY <2>2
       DEF Written, StageOutput, TypeOK, DoneBefore, Appending, Normalize, Diarize,
           Transcribe, Align, Attribute
  <2>3. CASE r \in {Diarize, Transcribe, Attribute}
    BY <2>3
       DEF Written, StageOutput, TypeOK, Appending, Normalize, Diarize, Transcribe,
           Align, Attribute
  <2> QED
    BY <2>1, <2>2, <2>3 DEF Normalize, Diarize, Transcribe, Align, Attribute
<1> QED
  BY <1>1 DEF Done

\* A stage that succeeds is a Write, a Publish or, for an extraction, a
\* stutter of the abstract specification.
LEMMA StageDoneRefines ==
    ASSUME TypeOK, Supplied, OneRun, NEW w \in Workers, StageDone(w)
    PROVE  [Promised!Next]_<<status, Done, redeliveries > 0>>
<1>1. PICK s \in Stages : s = at[w]
  BY DEF TypeOK
<1>2. DoneBefore(s) /\ StageOutput(s) /\ pc[w] = "work"
  BY <1>1 DEF Supplied, RunsSupplied, StageDone
<1>3. Done' = Done \cup ({s} \cap 1..Attribute)
  BY <1>2, DoneGrows
<1>4. status' = StageStatus(s) /\ redeliveries' = redeliveries
  BY <1>1 DEF StageDone, history
<1>5. CASE s \in 1..Attribute
  <2>1. 1..(s - 1) \subseteq Done
    BY <1>2, <1>5, DoneUpTo
  <2>2. s # Publish /\ (s = Normalize <=> s = 1)
    BY <1>5, StagesType DEF Attribute, Normalize
  <2>3. status = "published" => redeliveries > 0
    BY <1>2 DEF OneRun, TypeOK
  <2>4. Promised!Write(s)
    BY <1>3, <1>4, <1>5, <2>1, <2>2, <2>3
       DEF Promised!Write, Promised!Open, StageStatus
  <2> QED
    BY <1>5, <2>4 DEF Promised!Next
<1>6. CASE s = Publish
  <2>1. Done = 1..Attribute /\ Done' = Done
    BY <1>2, <1>3, <1>6, DoneUpTo, StagesType DEF Attribute
  <2> QED
    BY <1>4, <1>6, <2>1, StagesType
       DEF Promised!Next, Promised!Publish, StageStatus, Normalize
<1>7. CASE s \notin 1..Attribute /\ s # Publish
  BY <1>3, <1>4, <1>7 DEF StageStatus, Attribute, Normalize
<1> QED
  BY <1>5, <1>6, <1>7

\* Without output the written outputs are the same.
LEMMA DoneKept ==
    ASSUME UNCHANGED output
    PROVE  Done' = Done
BY DEF output, Done, Written

\* The pipeline, with its redelivered, overlapping, dropped and resumed runs,
\* implements what Processing promises of a Meeting.
THEOREM KeepsPromiseHolds == Spec => KeepsPromise
<1> DEFINE Inv == TypeOK /\ Supplied /\ OneRun
<1>1. Init => OneRun /\ Promised!Init
  <2> SUFFICES ASSUME Init PROVE OneRun /\ Promised!Init
    OBVIOUS
  <2>1. ~normalized
    BY Zenon DEF Init
  <2>2. Done = {}
    BY <2>1
       DEF Init, Done, Written, Appending, Normalize, Diarize, Transcribe, Align,
           Attribute
  <2>3. (redeliveries > 0) = FALSE
    BY DEF Init
  <2> QED
    BY <2>2, <2>3 DEF Init, OneRun, Promised!Init, Stages
<1>2. Inv /\ [Next]_vars => [Promised!Next]_<<status, Done, redeliveries > 0>>
  <2> SUFFICES ASSUME Inv, [Next]_vars
               PROVE  [Promised!Next]_<<status, Done, redeliveries > 0>>
    OBVIOUS
  <2>1. ASSUME NEW w \in Workers, WorkerStep(w)
        PROVE  [Promised!Next]_<<status, Done, redeliveries > 0>>
    <3>1. CASE StageDone(w)
      BY <3>1, StageDoneRefines
    <3>2. CASE RecordFailure(w)
      <4>1. Done' = Done /\ redeliveries' = redeliveries /\ status' = "failed"
        BY <3>2, DoneKept DEF RecordFailure, history
      <4>2. status = "published" => redeliveries > 0
        BY <3>2 DEF RecordFailure, OneRun, TypeOK
      <4> QED
        BY <4>1, <4>2 DEF Promised!Next, Promised!Fail, Promised!Open
    <3>3. CASE WorkerLost(w) \/ VisibilityTimeout(w)
      <4>1. Done' = Done /\ status' = status
        BY <3>3, DoneKept DEF WorkerLost, VisibilityTimeout, meeting
      <4>2. (redeliveries' > 0) = TRUE
        BY <3>3 DEF WorkerLost, VisibilityTimeout, TypeOK
      <4> QED
        BY <4>1, <4>2 DEF Promised!Next, Promised!Repeat
    <3>4. CASE Take(w) \/ EnterStage(w) \/ StageRaises(w) \/ Leave(w) \/ Dropped(w)
      <4>1. Done' = Done
        BY <3>4, DoneKept
           DEF Take, Deliver, EnterStage, StageRaises, Leave, Dropped
      <4>2. status' = status /\ redeliveries' = redeliveries
        BY <3>4
           DEF Take, Deliver, EnterStage, StageRaises, Leave, Dropped, meeting, history
      <4> QED
        BY <4>1, <4>2
    <3> QED
      BY <2>1, <3>1, <3>2, <3>3, <3>4 DEF WorkerStep, RunStep
  <2>2. CASE Resume
    BY <2>2, DoneKept DEF Resume, meeting
  <2>3. CASE ResumeBlindly
    <3>1. Done' = Done /\ status' = status
      BY <2>3, DoneKept DEF ResumeBlindly, meeting
    <3>2. (redeliveries' > 0) = TRUE
      BY <2>3 DEF ResumeBlindly, TypeOK
    <3> QED
      BY <3>1, <3>2 DEF Promised!Next, Promised!Repeat
  <2>4. CASE UNCHANGED vars
    BY <2>4, DoneKept DEF vars, meeting, history
  <2> QED
    BY <2>1, <2>2, <2>3, <2>4 DEF Next, WorkerStep
<1>3. Spec => []Supplied
  BY SuppliedHolds
<1> QED
  BY <1>1, <1>2, <1>3, TypeCorrect, OneRunStep, PTL DEF Spec, KeepsPromise, Promised!Spec

-----------------------------------------------------------------------------
(* The stage a Meeting has failed at.                                      *)

\* No stage from k on has inserted a row.
NothingFrom(k) == \A s \in Appending : s >= k => rows[s] = 0

\* One run after another, none repeated or dropped: what is to run has nothing
\* behind its start, and a run that failed for good has nothing from there on.
FirstGap ==
    redeliveries = 0 /\ drops = 0 =>
        /\ \A s \in Stages : queue[s] > 0 => NothingFrom(s)
        /\ \A w \in Workers :
               pc[w] \in {"enter", "work", "failure"} => NothingFrom(at[w])
        /\ /\ status = "failed"
           /\ \A s \in Stages : queue[s] = 0
           /\ \A w \in Workers : pc[w] \in {"idle", "leave"}
           => failed \in Stages \ Optional /\ NothingFrom(failed)

\* A run's steps.
LEMMA FirstGapRun ==
    ASSUME TypeOK, OneRun, FirstGap, NEW w \in Workers, WorkerStep(w)
    PROVE  FirstGap'
<1> USE DEF TypeOK, FirstGap, NothingFrom, meeting, output, history
<1>1. ASSUME NEW s \in Stages, Deliver(w, s)
      PROVE  FirstGap'
  BY <1>1 DEF Deliver
<1>2. CASE EnterStage(w) \/ StageRaises(w)
  BY <1>2 DEF EnterStage, StageRaises
<1>3. CASE StageDone(w)
  <2>1. PICK s \in Stages : s = at[w]
    OBVIOUS
  <2>2. /\ pc[w] = "work"
        /\ rows' = [r \in Appending |-> IF r = s THEN rows[r] + 1 ELSE rows[r]]
        /\ UNCHANGED <<queue, history>>
    BY <1>3, <2>1 DEF StageDone, StageOutput
  <2>3. ASSUME redeliveries = 0
        PROVE  /\ \A r \in Stages : queue[r] = 0
               /\ \A v \in Workers : v # w => pc[v] = "idle"
    BY <2>2, <2>3 DEF OneRun
  <2>4. CASE s = Publish
    <3>1. status' = "published" /\ pc' = [pc EXCEPT ![w] = "leave"]
      BY <1>3, <2>1, <2>4, StagesType DEF StageDone, StageStatus, NextStage, Normalize
    <3> QED
      BY <2>2, <2>3, <3>1
  <2>5. CASE s # Publish
    <3>1. /\ pc' = [pc EXCEPT ![w] = "enter"]
          /\ at' = [at EXCEPT ![w] = s + 1]
      BY <1>3, <2>1, <2>5 DEF StageDone, NextStage
    <3>2. ASSUME redeliveries = 0, drops = 0, NEW r \in Appending, r >= s + 1
          PROVE  rows'[r] = 0
      <4>1. r \in Nat /\ s \in Nat
        BY StagesType
      <4>2. rows[r] = 0
        BY <2>1, <2>2, <3>2, <4>1
      <4> QED
        BY <2>2, <3>2, <4>1, <4>2
    <3> QED
      BY <2>1, <2>2, <2>3, <3>1, <3>2
  <2> QED
    BY <2>4, <2>5
<1>4. CASE RecordFailure(w)
  <2>1. CASE at[w] \in Optional
    <3>1. at[w] # Publish
      BY <2>1, PipelineAssumption DEF Optional, Publish
    <3>2. /\ pc' = [pc EXCEPT ![w] = "enter"]
          /\ at' = [at EXCEPT ![w] = at[w] + 1]
          /\ UNCHANGED <<rows, queue, history>>
      BY <1>4, <2>1, <3>1 DEF RecordFailure, Skippable, NextStage
    <3>3. ASSUME NEW r \in Appending, r >= at[w] + 1
          PROVE  r >= at[w]
      <4>1. r \in Nat /\ at[w] \in Nat
        BY StagesType
      <4> QED
        BY <3>3, <4>1
    <3>4. redeliveries = 0 /\ drops = 0 => NothingFrom(at[w])
      BY <1>4 DEF RecordFailure
    <3>5. redeliveries = 0 /\ drops = 0 =>
              \A r \in Appending : r >= at[w] + 1 => rows[r] = 0
      BY <3>3, <3>4
    <3>6. pc'[w] = "enter" /\ at'[w] = at[w] + 1
      BY <3>2
    <3>7. \A v \in Workers : v # w => pc'[v] = pc[v] /\ at'[v] = at[v]
      BY <3>2
    <3> QED
      BY <3>2, <3>5, <3>6, <3>7
  <2>2. CASE at[w] \notin Optional
    BY <1>4, <2>2 DEF RecordFailure, Skippable, FailedStage, AfterFailure
  <2> QED
    BY <2>1, <2>2
<1>5. CASE Leave(w)
  BY <1>5 DEF Leave
<1>6. CASE WorkerLost(w) \/ VisibilityTimeout(w) \/ Dropped(w)
  BY <1>6 DEF WorkerLost, VisibilityTimeout, Dropped
<1> QED
  BY <1>1, <1>2, <1>3, <1>4, <1>5, <1>6 DEF WorkerStep, Take, RunStep

\* OneRun is an invariant.
LEMMA OneRunHolds == Spec => []OneRun
<1>1. Init => OneRun
  BY DEF Init, OneRun, Stages
<1> QED
  BY <1>1, TypeCorrect, OneRunStep, PTL DEF Spec

\* A Meeting at rest is failed at a mandatory stage that everything before it
\* has been done for, and nothing from it on.
THEOREM FailedStageIsFirstGapHolds == Spec => []FailedStageIsFirstGap
<1>1. Init => FirstGap
  BY DEF Init, FirstGap, NothingFrom
<1>2. TypeOK /\ OneRun /\ FirstGap /\ [Next]_vars => FirstGap'
  <2> SUFFICES ASSUME TypeOK, OneRun, FirstGap, [Next]_vars
               PROVE  FirstGap'
    OBVIOUS
  <2>1. ASSUME NEW w \in Workers, WorkerStep(w)
        PROVE  FirstGap'
    BY <2>1, FirstGapRun
  <2>2. CASE Resume
    BY <2>2 DEF Resume, Resumed, ResumeAt, Quiet, TypeOK, FirstGap, NothingFrom,
                meeting, output, runs, history
  <2>3. CASE ResumeBlindly
    BY <2>3 DEF ResumeBlindly, FirstGap, TypeOK
  <2>4. CASE UNCHANGED vars
    BY <2>4 DEF vars, FirstGap, NothingFrom, meeting, output, runs, history
  <2> QED
    BY <2>1, <2>2, <2>3, <2>4 DEF Next, WorkerStep
<1>3. Supplied /\ FirstGap => FailedStageIsFirstGap
  <2> SUFFICES ASSUME Supplied, FirstGap, Quiet, status = "failed", redeliveries = 0,
                      drops = 0
               PROVE  /\ failed \in Stages \ Optional /\ DoneBefore(failed)
                      /\ \A s \in Appending : s >= failed => rows[s] = 0
    BY DEF FailedStageIsFirstGap
  <2>1. failed \in Stages \ Optional /\ NothingFrom(failed)
    BY DEF FirstGap, Quiet
  <2>2. failed # NoStage
    BY <2>1 DEF Stages, NoStage
  <2> QED
    BY <2>1, <2>2 DEF Supplied, FailedSupplied, NothingFrom
<1> QED
  BY <1>1, <1>2, <1>3, TypeCorrect, OneRunHolds, SuppliedHolds, PTL DEF Spec

-----------------------------------------------------------------------------
(* How often a stage inserts its rows.                                     *)

\* The messages and runs that have yet to pass stage s.
Messages(s) ==
    {m \in Stages \X Nat : m[1] <= s /\ 1 <= m[2] /\ m[2] <= queue[m[1]]}
Runs(s) ==
    {w \in Workers : pc[w] \in {"enter", "work", "failure"} /\ at[w] <= s}

\* Nothing is coming or going on, but for runs that only have to leave.
AtRest ==
    /\ \A s \in Stages : queue[s] = 0
    /\ \A w \in Workers : pc[w] \in {"idle", "leave"}

\* Every batch of rows, and everything that may insert one more, is paid for;
\* and for what a Meeting at rest is failed at there is one in hand.
Paid(s) ==
    /\ IsFiniteSet(Messages(s)) /\ IsFiniteSet(Runs(s))
    /\ rows[s] + Cardinality(Messages(s)) + Cardinality(Runs(s))
           <= 1 + redeliveries + drops
    /\ status = "failed" /\ AtRest /\ failed <= s => rows[s] <= redeliveries + drops

AllPaid == \A s \in Appending : Paid(s)

\* Two sets that differ in one element at most.
LEMMA OneElement ==
    ASSUME NEW S, NEW T, NEW x, IsFiniteSet(S), \A y : y # x => (y \in S <=> y \in T)
    PROVE  /\ IsFiniteSet(T) /\ Cardinality(S) \in Nat /\ Cardinality(T) \in Nat
           /\ Cardinality(T) = Cardinality(S) + (IF x \in T THEN 1 ELSE 0)
                                              - (IF x \in S THEN 1 ELSE 0)
<1>1. Cardinality(S) \in Nat
  BY FS_CardinalityType
<1>2. CASE x \in S <=> x \in T
  <2>1. S = T
    BY <1>2
  <2> QED
    BY <1>1, <1>2, <2>1
<1>3. CASE x \in S /\ x \notin T
  <2>1. T = S \ {x}
    BY <1>3
  <2>2. IsFiniteSet(S \ {x}) /\ Cardinality(S \ {x}) = Cardinality(S) - 1
    BY <1>3, FS_RemoveElement
  <2>3. Cardinality(T) \in Nat
    BY <2>1, <2>2, FS_CardinalityType
  <2> QED
    BY <1>1, <1>3, <2>1, <2>2, <2>3
<1>4. CASE x \notin S /\ x \in T
  <2>1. T = S \cup {x}
    BY <1>4
  <2> QED
    BY <1>1, <1>4, <2>1, FS_AddElement
<1> QED
  BY <1>2, <1>3, <1>4

\* One message more or less.
LEMMA MessagesChange ==
    ASSUME TypeOK, NEW r \in Stages, NEW s \in Nat, IsFiniteSet(Messages(s)),
           NEW d \in {-1, 1}, queue[r] + d \in Nat,
           queue' = [queue EXCEPT ![r] = queue[r] + d]
    PROVE  /\ IsFiniteSet(Messages(s)') /\ Cardinality(Messages(s)') \in Nat
           /\ Cardinality(Messages(s)) \in Nat
           /\ Cardinality(Messages(s)') =
                  Cardinality(Messages(s)) + (IF r <= s THEN d ELSE 0)
<1> DEFINE x == <<r, IF d = 1 THEN queue[r] + 1 ELSE queue[r]>>
<1>0. x \in Stages \X Nat
  BY DEF TypeOK
<1>1. ASSUME NEW y, y # x
      PROVE  y \in Messages(s) <=> y \in Messages(s)'
  <2>1. CASE y \notin Stages \X Nat
    BY <2>1 DEF Messages
  <2>2. CASE y \in Stages \X Nat
    <3>1. PICK a \in Stages, i \in Nat : y = <<a, i>>
      BY <2>2
    <3>2. a # r \/ i # x[2]
      BY <1>1, <3>1
    <3>3. i <= queue[a] <=> i <= queue'[a]
      BY <3>2 DEF TypeOK
    <3> QED
      BY <3>1, <3>3 DEF Messages
  <2> QED
    BY <2>1, <2>2
<1>2. /\ x \in Messages(s) <=> d = -1 /\ r <= s
      /\ x \in Messages(s)' <=> d = 1 /\ r <= s
  BY <1>0 DEF Messages, TypeOK
<1>3. /\ IsFiniteSet(Messages(s)') /\ Cardinality(Messages(s)) \in Nat
      /\ Cardinality(Messages(s)') \in Nat
      /\ Cardinality(Messages(s)') = Cardinality(Messages(s))
             + (IF x \in Messages(s)' THEN 1 ELSE 0) - (IF x \in Messages(s) THEN 1 ELSE 0)
  BY <1>1, OneElement
<1> QED
  BY <1>2, <1>3, StagesType

\* One message comes back or is sent anew.
LEMMA OneMessageMore ==
    ASSUME TypeOK, NEW r \in Stages, NEW s \in Nat, IsFiniteSet(Messages(s)),
           queue' = [queue EXCEPT ![r] = queue[r] + 1]
    PROVE  /\ IsFiniteSet(Messages(s)') /\ Cardinality(Messages(s)') \in Nat
           /\ Cardinality(Messages(s)) \in Nat
           /\ Cardinality(Messages(s)') =
                  Cardinality(Messages(s)) + (IF r <= s THEN 1 ELSE 0)
<1> DEFINE d == 1
<1>1. queue[r] + d \in Nat /\ d \in {-1, 1}
  BY DEF TypeOK
<1>2. queue' = [queue EXCEPT ![r] = queue[r] + d]
  OBVIOUS
<1>3. d = 1
  OBVIOUS
<1> HIDE DEF d
<1>4. /\ IsFiniteSet(Messages(s)') /\ Cardinality(Messages(s)') \in Nat
      /\ Cardinality(Messages(s)) \in Nat
      /\ Cardinality(Messages(s)') =
             Cardinality(Messages(s)) + (IF r <= s THEN d ELSE 0)
  BY <1>1, <1>2, MessagesChange
<1> QED
  BY <1>3, <1>4

\* One run goes on, starts or ends.
LEMMA RunsChange ==
    ASSUME TypeOK, NEW s \in Nat, NEW w \in Workers, IsFiniteSet(Runs(s)),
           \A v \in Workers : v # w => pc'[v] = pc[v] /\ at'[v] = at[v]
    PROVE  /\ IsFiniteSet(Runs(s)') /\ Cardinality(Runs(s)') \in Nat
           /\ Cardinality(Runs(s)) \in Nat
           /\ Cardinality(Runs(s)') = Cardinality(Runs(s))
                  + (IF w \in Runs(s)' THEN 1 ELSE 0) - (IF w \in Runs(s) THEN 1 ELSE 0)
<1>1. \A v : v # w => (v \in Runs(s) <=> v \in Runs(s)')
  BY DEF Runs
<1> QED
  BY <1>1, OneElement

\* The stages that insert rows come before publish.
LEMMA AppendingBefore ==
    ASSUME NEW s \in Appending
    PROVE  s \in Stages /\ s \in Nat /\ s < Publish
BY PipelineAssumption
   DEF Appending, Stages, Optional, Publish, Diarize, Transcribe, Attribute

\* The messages are the same ones.
LEMMA MessagesKept ==
    ASSUME NEW s, UNCHANGED queue
    PROVE  Messages(s)' = Messages(s)
BY DEF Messages

\* A run that is started has its message behind it.
LEMMA DeliverPaid ==
    ASSUME TypeOK, NEW s \in Appending, Paid(s),
           NEW w \in Workers, NEW r \in Stages, Deliver(w, r)
    PROVE  Paid(s)'
<1> USE DEF TypeOK, meeting, output, history
<1>1. s \in Nat /\ r \in Nat
  BY AppendingBefore, StagesType
<1>2. /\ pc[w] = "idle" /\ pc' = [pc EXCEPT ![w] = "enter"]
      /\ at' = [at EXCEPT ![w] = r]
      /\ queue[r] > 0 /\ queue' = [queue EXCEPT ![r] = queue[r] + (-1)]
      /\ UNCHANGED <<rows, status, failed, redeliveries, drops>>
  BY DEF Deliver
<1>3. /\ w \notin Runs(s)
      /\ w \in Runs(s)' <=> r <= s
  BY <1>2 DEF Runs
<1>4. /\ IsFiniteSet(Runs(s)') /\ Cardinality(Runs(s)') \in Nat
      /\ Cardinality(Runs(s)) \in Nat
      /\ Cardinality(Runs(s)') = Cardinality(Runs(s)) + (IF r <= s THEN 1 ELSE 0)
  BY <1>1, <1>2, <1>3, RunsChange DEF Paid
<1>5. /\ IsFiniteSet(Messages(s)') /\ Cardinality(Messages(s)') \in Nat
      /\ Cardinality(Messages(s)) \in Nat
      /\ Cardinality(Messages(s)') = Cardinality(Messages(s)) + (IF r <= s THEN -1 ELSE 0)
  <2>1. queue[r] + (-1) \in Nat /\ -1 \in {-1, 1}
    BY <1>2
  <2>2. IsFiniteSet(Messages(s))
    BY DEF Paid
  <2> HIDE DEF TypeOK
  <2> QED
    BY <1>1, <1>2, <2>1, <2>2, MessagesChange
<1>6. ~AtRest'
  BY <1>2 DEF AtRest
<1> QED
  BY <1>1, <1>2, <1>4, <1>5, <1>6 DEF Paid

\* A stage that succeeds inserts its batch, and the run has passed it.
LEMMA StageDonePaid ==
    ASSUME TypeOK, NEW s \in Appending, Paid(s), NEW w \in Workers, StageDone(w)
    PROVE  Paid(s)'
<1> USE DEF TypeOK, history
<1>1. s \in Nat /\ at[w] \in Nat /\ s < Publish
  BY AppendingBefore, StagesType
<1>2. /\ pc[w] = "work" /\ NextStage(w)
      /\ status' = StageStatus(at[w])
      /\ rows'[s] = IF s = at[w] THEN rows[s] + 1 ELSE rows[s]
      /\ UNCHANGED <<queue, redeliveries, drops>>
  BY DEF StageDone, StageOutput
<1>3. Messages(s)' = Messages(s)
  BY <1>2, MessagesKept
<1>4. /\ w \in Runs(s) <=> at[w] <= s
      /\ w \in Runs(s)' <=> at[w] # Publish /\ at[w] + 1 <= s
  BY <1>1, <1>2 DEF Runs, NextStage
<1>5. \A v \in Workers : v # w => pc'[v] = pc[v] /\ at'[v] = at[v]
  BY <1>2 DEF NextStage
<1>6. /\ IsFiniteSet(Runs(s)') /\ Cardinality(Runs(s)') \in Nat
      /\ Cardinality(Runs(s)) \in Nat
      /\ Cardinality(Runs(s)') = Cardinality(Runs(s)) - (IF s = at[w] THEN 1 ELSE 0)
  BY <1>1, <1>4, <1>5, RunsChange DEF Paid
<1>7. Cardinality(Messages(s)) \in Nat
  BY FS_CardinalityType DEF Paid
<1>8. status' # "failed" \/ ~AtRest'
  <2>1. CASE at[w] = Publish
    BY <1>2, <2>1, StagesType DEF StageStatus, Normalize
  <2>2. CASE at[w] # Publish
    BY <1>2, <2>2 DEF NextStage, AtRest
  <2> QED
    BY <2>1, <2>2
<1> QED
  BY <1>1, <1>2, <1>3, <1>6, <1>7, <1>8 DEF Paid

\* A stage that fails is passed without its batch, or ends the run before it.
LEMMA RecordFailurePaid ==
    ASSUME TypeOK, NEW s \in Appending, Paid(s), NEW w \in Workers, RecordFailure(w)
    PROVE  Paid(s)'
<1> USE DEF TypeOK, history, output
<1>1. s \in Nat /\ at[w] \in Nat /\ s < Publish
  BY AppendingBefore, StagesType
<1>2. /\ pc[w] = "failure" /\ failed' = at[w]
      /\ UNCHANGED <<rows, queue, redeliveries, drops>>
      /\ \A v \in Workers : v # w => pc'[v] = pc[v] /\ at'[v] = at[v]
  BY DEF RecordFailure, FailedStage, NextStage
<1>3. \/ pc'[w] = "leave"
      \/ pc'[w] = "enter" /\ at'[w] = at[w] + 1
  BY DEF RecordFailure, NextStage, AfterFailure
<1>4. Messages(s)' = Messages(s)
  BY <1>2, MessagesKept
<1>5. /\ w \in Runs(s) <=> at[w] <= s
      /\ w \in Runs(s)' => at[w] <= s
      /\ pc'[w] = "leave" => w \notin Runs(s)'
  BY <1>1, <1>2, <1>3 DEF Runs
<1>6. /\ IsFiniteSet(Runs(s)') /\ Cardinality(Runs(s)') \in Nat
      /\ Cardinality(Runs(s)) \in Nat
      /\ Cardinality(Runs(s)') <= Cardinality(Runs(s))
      /\ pc'[w] = "leave" /\ at[w] <= s => Cardinality(Runs(s)') = Cardinality(Runs(s)) - 1
  BY <1>1, <1>2, <1>5, RunsChange DEF Paid
<1>7. Cardinality(Messages(s)) \in Nat
  BY FS_CardinalityType DEF Paid
<1>8. AtRest' => pc'[w] = "leave"
  BY <1>3 DEF AtRest
<1> QED
  BY <1>1, <1>2, <1>4, <1>6, <1>7, <1>8 DEF Paid

\* A run that begins a stage, meets its failure or leaves inserts nothing and
\* has as far to go as before.
LEMMA GoesOnPaid ==
    ASSUME TypeOK, NEW s \in Appending, Paid(s), NEW w \in Workers,
           EnterStage(w) \/ StageRaises(w) \/ Leave(w)
    PROVE  Paid(s)'
<1> USE DEF EnterStage, StageRaises, Leave, meeting, output, history
<1>1. UNCHANGED <<rows, status, failed, queue, at, redeliveries, drops>>
  OBVIOUS
<1>2. Messages(s)' = Messages(s)
  BY <1>1, MessagesKept
<1>3. Runs(s)' = Runs(s)
  BY DEF Runs, TypeOK
<1>4. AtRest' => AtRest
  BY DEF AtRest, TypeOK
<1> QED
  BY <1>1, <1>2, <1>3, <1>4 DEF Paid

\* A message that comes back pays for the batch it may insert again.
LEMMA RequeuedPaid ==
    ASSUME TypeOK, NEW s \in Appending, Paid(s), NEW w \in Workers,
           WorkerLost(w) \/ VisibilityTimeout(w)
    PROVE  Paid(s)'
<1> USE DEF meeting, output
<1>1. s \in Nat /\ from[w] \in Stages /\ from[w] \in Nat
  BY AppendingBefore, StagesType DEF TypeOK
<1>2. /\ queue' = [queue EXCEPT ![from[w]] = queue[from[w]] + 1]
      /\ redeliveries' = redeliveries + 1
      /\ UNCHANGED <<rows, drops>>
      /\ \A v \in Workers : v # w => pc'[v] = pc[v] /\ at'[v] = at[v]
      /\ w \in Runs(s)' => w \in Runs(s)
  BY DEF WorkerLost, VisibilityTimeout, Requeued, Runs, TypeOK
<1>3. IsFiniteSet(Messages(s)) /\ IsFiniteSet(Runs(s))
  BY DEF Paid
<1>4. /\ IsFiniteSet(Messages(s)') /\ Cardinality(Messages(s)') \in Nat
      /\ Cardinality(Messages(s)) \in Nat
      /\ Cardinality(Messages(s)') <= Cardinality(Messages(s)) + 1
  <2>1. PICK r \in Stages : r = from[w]
    BY <1>1
  <2>2. queue' = [queue EXCEPT ![r] = queue[r] + 1]
    BY <1>2, <2>1
  <2>3. /\ IsFiniteSet(Messages(s)') /\ Cardinality(Messages(s)') \in Nat
        /\ Cardinality(Messages(s)) \in Nat
        /\ Cardinality(Messages(s)') = Cardinality(Messages(s)) + (IF r <= s THEN 1 ELSE 0)
    BY <1>1, <1>3, <2>2, OneMessageMore
  <2> QED
    BY <2>3
<1>5. /\ IsFiniteSet(Runs(s)') /\ Cardinality(Runs(s)') \in Nat
      /\ Cardinality(Runs(s)) \in Nat
      /\ Cardinality(Runs(s)') <= Cardinality(Runs(s))
  BY <1>1, <1>2, <1>3, RunsChange
<1> QED
  BY <1>2, <1>4, <1>5 DEF Paid, TypeOK

\* A run that is dropped pays for the one that is started in its place.
LEMMA DroppedPaid ==
    ASSUME TypeOK, NEW s \in Appending, Paid(s), NEW w \in Workers, Dropped(w)
    PROVE  Paid(s)'
<1> USE DEF meeting, output
<1>1. s \in Nat
  BY AppendingBefore
<1>2. /\ drops' = drops + 1 /\ UNCHANGED <<rows, queue, redeliveries>>
      /\ \A v \in Workers : v # w => pc'[v] = pc[v] /\ at'[v] = at[v]
      /\ w \notin Runs(s)'
  BY DEF Dropped, Runs, TypeOK
<1>3. Messages(s)' = Messages(s)
  BY <1>2, MessagesKept
<1>4. /\ IsFiniteSet(Runs(s)') /\ Cardinality(Runs(s)') \in Nat
      /\ Cardinality(Runs(s)) \in Nat
      /\ Cardinality(Runs(s)') <= Cardinality(Runs(s))
  BY <1>1, <1>2, RunsChange DEF Paid
<1>5. Cardinality(Messages(s)) \in Nat
  BY FS_CardinalityType DEF Paid
<1> QED
  BY <1>2, <1>3, <1>4, <1>5 DEF Paid, TypeOK

\* An operator starts from the stage the Meeting is failed at, which has not
\* inserted its rows, or there is a redelivery or a dropped run to charge.
LEMMA ResumePaid ==
    ASSUME TypeOK, NEW s \in Appending, Paid(s), Resume
    PROVE  Paid(s)'
<1> USE DEF meeting, output, runs
<1>1. s \in Nat /\ failed \in Stages /\ failed \in Nat
  BY AppendingBefore, StagesType DEF Resume, TypeOK
<1>2. /\ status = "failed" /\ Quiet
      /\ queue' = [queue EXCEPT ![failed] = queue[failed] + 1]
      /\ UNCHANGED <<rows, pc, at, redeliveries, drops>>
  BY DEF Resume, Resumed, ResumeAt
<1>3. Runs(s) = {} /\ Messages(s) = {} /\ Runs(s)' = {}
  BY <1>2 DEF Runs, Messages, Quiet, TypeOK
<1>4. IsFiniteSet({}) /\ Cardinality({}) = 0
  BY FS_EmptySet
<1>5. /\ IsFiniteSet(Messages(s)')
      /\ Cardinality(Messages(s)') = IF failed <= s THEN 1 ELSE 0
  <2>1. PICK r \in Stages : r = failed
    BY <1>1
  <2>2. queue' = [queue EXCEPT ![r] = queue[r] + 1]
    BY <1>2, <2>1
  <2>3. IsFiniteSet(Messages(s))
    BY <1>3, <1>4
  <2>4. /\ IsFiniteSet(Messages(s)')
        /\ Cardinality(Messages(s)') = Cardinality(Messages(s)) + (IF r <= s THEN 1 ELSE 0)
    BY <1>1, <2>2, <2>3, OneMessageMore
  <2> QED
    BY <1>3, <1>4, <2>1, <2>4
<1>6. AtRest /\ ~AtRest'
  BY <1>1, <1>2 DEF AtRest, Quiet, TypeOK
<1> QED
  BY <1>1, <1>2, <1>3, <1>4, <1>5, <1>6 DEF Paid, TypeOK

\* A run that an operator starts without looking pays for itself.
LEMMA ResumeBlindlyPaid ==
    ASSUME TypeOK, NEW s \in Appending, Paid(s), ResumeBlindly
    PROVE  Paid(s)'
<1> USE DEF meeting, output, runs
<1>1. s \in Nat
  BY AppendingBefore
<1>2. PICK r \in Stages : r = failed /\ r \in Nat
  BY StagesType DEF ResumeBlindly, TypeOK
<1>3. /\ queue' = [queue EXCEPT ![r] = queue[r] + 1]
      /\ redeliveries' = redeliveries + 1
      /\ UNCHANGED <<rows, pc, at, drops>>
  BY <1>2 DEF ResumeBlindly, Resumed, ResumeAt
<1>4. Runs(s)' = Runs(s) /\ IsFiniteSet(Messages(s)) /\ IsFiniteSet(Runs(s))
  BY <1>3 DEF Runs, Paid
<1>5. /\ IsFiniteSet(Messages(s)') /\ Cardinality(Messages(s)') \in Nat
      /\ Cardinality(Messages(s)) \in Nat
      /\ Cardinality(Messages(s)') = Cardinality(Messages(s)) + (IF r <= s THEN 1 ELSE 0)
  BY <1>1, <1>3, <1>4, OneMessageMore
<1>6. Cardinality(Runs(s)) \in Nat
  BY <1>4, FS_CardinalityType
<1> QED
  BY <1>3, <1>4, <1>5, <1>6 DEF Paid, TypeOK

\* A stage's rows are inserted once, plus once for each message that comes
\* once more and each run that is dropped, however many runs fail and are resumed.
THEOREM RowsBoundedByDeliveriesHolds == Spec => []RowsBoundedByDeliveries
<1>1. Init => AllPaid
  <2> SUFFICES ASSUME Init, NEW s \in Appending
               PROVE  Paid(s)
    BY DEF AllPaid
  <2>1. s \in Nat /\ s >= Normalize
    BY AppendingBefore DEF Stages, Normalize
  <2>2. Messages(s) = {<<Normalize, 1>>}
    BY <2>1, StagesType DEF Init, Messages
  <2>3. Runs(s) = {}
    BY DEF Init, Runs
  <2>4. IsFiniteSet(Messages(s)) /\ Cardinality(Messages(s)) = 1
    BY <2>2, FS_Singleton
  <2>5. IsFiniteSet(Runs(s)) /\ Cardinality(Runs(s)) = 0
    BY <2>3, FS_EmptySet
  <2> QED
    BY <2>4, <2>5 DEF Init, Paid
<1>2. TypeOK /\ AllPaid /\ [Next]_vars => AllPaid'
  <2> SUFFICES ASSUME TypeOK, AllPaid, [Next]_vars, NEW s \in Appending
               PROVE  Paid(s)'
    BY DEF AllPaid
  <2>0. Paid(s)
    BY DEF AllPaid
  <2>1. ASSUME NEW w \in Workers, WorkerStep(w)
        PROVE  Paid(s)'
    BY <2>0, <2>1, DeliverPaid, StageDonePaid, RecordFailurePaid, GoesOnPaid,
       RequeuedPaid, DroppedPaid DEF WorkerStep, Take, RunStep
  <2>2. CASE Resume
    BY <2>0, <2>2, ResumePaid
  <2>3. CASE ResumeBlindly
    BY <2>0, <2>3, ResumeBlindlyPaid
  <2>4. CASE UNCHANGED vars
    <3>1. UNCHANGED <<rows, status, failed, queue, pc, at, redeliveries, drops>>
      BY <2>4 DEF vars, meeting, output, runs, history
    <3>2. Messages(s)' = Messages(s) /\ Runs(s)' = Runs(s) /\ AtRest' = AtRest
      BY <3>1 DEF Messages, Runs, AtRest
    <3> QED
      BY <2>0, <3>1, <3>2 DEF Paid
  <2> QED
    BY <2>1, <2>2, <2>3, <2>4 DEF Next, WorkerStep
<1>3. TypeOK /\ AllPaid => RowsBoundedByDeliveries
  <2> SUFFICES ASSUME TypeOK, AllPaid, NEW s \in Appending
               PROVE  rows[s] <= 1 + redeliveries + drops
    BY DEF RowsBoundedByDeliveries
  <2>1. Paid(s)
    BY DEF AllPaid
  <2>2. Cardinality(Messages(s)) \in Nat /\ Cardinality(Runs(s)) \in Nat
    BY <2>1, FS_CardinalityType DEF Paid
  <2> QED
    BY <2>1, <2>2 DEF Paid, TypeOK
<1> QED
  BY <1>1, <1>2, <1>3, TypeCorrect, PTL DEF Spec

-----------------------------------------------------------------------------
(* A Meeting at rest is settled.                                           *)

Waits  == \E s \in Stages : queue[s] > 0
Driven == Waits \/ \E w \in Workers : pc[w] \in {"enter", "work", "failure"}

\* A Meeting that is not published or failed has a message, or a run with a
\* stage to go; one that shows a stage has a message or a run.
Attended ==
    drops = 0 =>
        /\ status \in {"published", "failed"} \/ Driven
        /\ current = NoStage \/ Waits \/ \E w \in Workers : pc[w] # "idle"

\* A step of run w, or of its message, either leaves somebody behind to go on,
\* or is the last of a run whose end is in the row.
LEMMA AttendedStep ==
    ASSUME TypeOK, Attended, [Next]_vars
    PROVE  Attended'
<1> USE DEF TypeOK, Attended, Driven, Waits, meeting, output, history
<1>1. ASSUME NEW w \in Workers, NEW s \in Stages, Deliver(w, s)
      PROVE  Attended'
  BY <1>1 DEF Deliver
<1>2. ASSUME NEW w \in Workers, EnterStage(w) \/ StageRaises(w)
      PROVE  Attended'
  BY <1>2 DEF EnterStage, StageRaises
<1>3. ASSUME NEW w \in Workers, StageDone(w)
      PROVE  Attended'
  <2>1. \/ pc'[w] = "enter"
        \/ pc'[w] = "leave" /\ status' = "published"
    BY <1>3, StagesType DEF StageDone, StageStatus, NextStage, Normalize
  <2> QED
    BY <2>1
<1>4. ASSUME NEW w \in Workers, RecordFailure(w)
      PROVE  Attended'
  <2>1. pc'[w] \in {"enter", "leave"} /\ status' = "failed"
    BY <1>4 DEF RecordFailure, NextStage, AfterFailure
  <2> QED
    BY <2>1
<1>5. ASSUME NEW w \in Workers, Leave(w)
      PROVE  Attended'
  <2>1. /\ UNCHANGED <<status, queue, drops>> /\ current' = NoStage
        /\ pc[w] = "leave" /\ \A u \in Workers : u # w => pc'[u] = pc[u]
    BY <1>5 DEF Leave
  <2> QED
    BY <2>1
<1>6. ASSUME NEW w \in Workers, WorkerLost(w) \/ VisibilityTimeout(w)
      PROVE  Attended'
  <2>1. from[w] \in Stages /\ queue'[from[w]] > 0
    BY <1>6 DEF WorkerLost, VisibilityTimeout, Requeued
  <2> QED
    BY <2>1
<1>7. ASSUME NEW w \in Workers, Dropped(w)
      PROVE  Attended'
  BY <1>7 DEF Dropped
<1>8. CASE Resume \/ ResumeBlindly
  <2>1. failed \in Stages /\ queue'[failed] > 0
    BY <1>8 DEF Resume, ResumeBlindly, Resumed, ResumeAt, NoStage
  <2> QED
    BY <2>1
<1>9. CASE UNCHANGED vars
  BY <1>9 DEF vars, runs
<1> QED
  BY <1>1, <1>2, <1>3, <1>4, <1>5, <1>6, <1>7, <1>8, <1>9 DEF Next, Take, RunStep

LEMMA AttendedHolds == Spec => []Attended
<1>1. Init => Attended
  BY StagesType DEF Init, Attended, Driven, Waits
<1> QED
  BY <1>1, AttendedStep, TypeCorrect, PTL DEF Spec

\* When nobody is left to go on with a Meeting there is nothing to go on with,
\* however many workers were lost and however their runs overlapped.
THEOREM RestIsSettledHolds == Spec => []RestIsSettled
<1>1. TypeOK /\ Attended => RestIsSettled
  BY DEF TypeOK, Attended, Driven, Waits, RestIsSettled, Settled, Quiet
<1> QED
  BY <1>1, AttendedHolds, TypeCorrect, PTL

-----------------------------------------------------------------------------
(* What a viewer is told (Progress).                                       *)

\* With its announcements, a run is a run of Pipeline.
LEMMA RunsOfProgress == [PNext]_allVars => [Next]_vars
<1> SUFFICES ASSUME [PNext]_allVars
             PROVE  [Next]_vars
  OBVIOUS
<1>1. ASSUME NEW w \in Workers,
             TakeMessage(w) \/ RunAnd(w) \/ RunEnds(w) \/ Announce(w)
      PROVE  [Next]_vars
  BY <1>1 DEF TakeMessage, RunAnd, RunEnds, Announce, Next, RunStep
<1>2. CASE RepeatMessage
  BY <1>2 DEF RepeatMessage, Next
<1>3. ASSUME NEW v \in Viewers, Open(v) \/ StreamStep(v) \/ Break(v)
      PROVE  UNCHANGED vars
  BY <1>3 DEF Open, StreamStep, ReadRow, SendSnapshot, Subscribe, Forward, Break
<1>4. CASE UNCHANGED allVars
  BY <1>4 DEF allVars
<1> QED
  BY <1>1, <1>2, <1>3, <1>4 DEF PNext

\* So what is proved of Pipeline holds under Progress.
LEMMA SpecOfProgress == PSpec => Spec
<1>1. PInit => Init
  BY DEF PInit
<1> QED
  BY <1>1, RunsOfProgress, PTL DEF PSpec, Spec

LEMMA EventType ==
    ASSUME NEW s \in Stages \cup {NoStage}, NEW x \in {"started", "finished", "failed"}
    PROVE  /\ Event(s, x) \in Events
           /\ Event(s, x).stage = s /\ Event(s, x).state = x
BY DEF Event, Events

LEMMA QueueType ==
    ASSUME NEW S, NEW q \in Seq(S)
    PROVE  /\ <<>> \in Seq(S) /\ \A e \in S : Append(q, e) \in Seq(S)
           /\ q # <<>> => Head(q) \in S /\ Tail(q) \in Seq(S)
OBVIOUS

\* An event that is announced or is next in an inbox, and a snapshot, are of
\* the types a page can show.
LEMMA ProgressTypeStep ==
    ASSUME PTypeOK, TypeOK', [PNext]_allVars
    PROVE  PTypeOK'
<1>1. Nothing \in Events
  BY EventType DEF Nothing
<1>2. ASSUME NEW w \in Workers, TakeMessage(w)
      PROVE  PTypeOK'
  BY <1>2 DEF TakeMessage, PTypeOK, viewers, bounds
<1>3. ASSUME NEW w \in Workers, RunAnd(w)
      PROVE  PTypeOK'
  <2>1. at[w] \in Stages /\ OnEnter \in {"started", "finished", "failed"}
    BY DEF PTypeOK, TypeOK, OnEnter
  <2>2. ASSUME NEW x \in {"started", "finished", "failed"}, Queues(w, x)
        PROVE  outbox' \in [Workers -> Events]
    <3>1. Event(at[w], x) \in Events
      BY <2>1, EventType
    <3> QED
      BY <2>2, <3>1 DEF Queues, PTypeOK
  <2>3. outbox' \in [Workers -> Events]
    BY <1>3, <2>1, <2>2 DEF RunAnd, PTypeOK
  <2> QED
    BY <1>3, <2>3 DEF RunAnd, PTypeOK, viewers, bounds
<1>4. ASSUME NEW w \in Workers, RunEnds(w)
      PROVE  PTypeOK'
  BY <1>1, <1>4 DEF RunEnds, PTypeOK, viewers, bounds
<1>5. ASSUME NEW w \in Workers, Announce(w)
      PROVE  PTypeOK'
  <2>1. outbox[w] \in Events
    BY DEF PTypeOK
  <2>2. outbox' \in [Workers -> Events]
    BY <1>1, <1>5 DEF Announce, PTypeOK
  <2>3. inbox' \in [Viewers -> Seq(Events)]
    <3>1. \A v \in Viewers : inbox[v] \in Seq(Events)
      BY DEF PTypeOK
    <3>2. \A v \in Viewers : Append(inbox[v], outbox[w]) \in Seq(Events)
      BY <2>1, <3>1, QueueType
    <3>3. CASE Heard(outbox[w])
      BY <3>1, <3>2, <3>3 DEF Heard
    <3>4. CASE Lost(outbox[w])
      BY <3>4 DEF Lost, PTypeOK
    <3> QED
      BY <1>5, <3>3, <3>4 DEF Announce
  <2>4. missed' \in [Viewers -> BOOLEAN]
    BY <1>5, Zenon DEF Announce, Heard, Lost, PTypeOK
  <2>5. breaks' \in 0..MaxBreaks
    BY <1>5, ProgressAssumption DEF Announce, Lost, PTypeOK
  <2> QED
    BY <1>5, <2>2, <2>3, <2>4, <2>5 DEF Announce, PTypeOK
<1>6. CASE RepeatMessage
  BY <1>6 DEF RepeatMessage, PTypeOK, viewers, bounds
<1>7. Unknown \in Views /\ Row \in Views
  BY DEF Unknown, Row, Views, PTypeOK, TypeOK
<1>8. ASSUME NEW v \in Viewers, Open(v) \/ Break(v)
      PROVE  PTypeOK'
  <2>1. missed' \in [Viewers -> BOOLEAN]
    BY <1>8, Zenon DEF Open, Break, PTypeOK
  <2>2. opens' \in 0..MaxOpens /\ breaks' \in 0..MaxBreaks
    BY <1>8, ProgressAssumption DEF Open, Break, PTypeOK
  <2>3. /\ phase' \in [Viewers -> {"away", "connecting", "snapshot", "sent",
                                  "subscribed", "closed"}]
        /\ seen' \in [Viewers -> Views] /\ view' \in [Viewers -> Views]
    BY <1>7, <1>8 DEF Open, Break, Goto, PTypeOK
  <2>5. inbox' \in [Viewers -> Seq(Events)]
    <3>1. <<>> \in Seq(Events)
      OBVIOUS
    <3>2. inbox' = [inbox EXCEPT ![v] = <<>>]
      BY <1>8 DEF Open, Break
    <3> QED
      BY <3>1, <3>2 DEF PTypeOK
  <2>4. UNCHANGED outbox
    BY <1>8 DEF Open, Break
  <2> QED
    BY <1>8, <2>1, <2>2, <2>3, <2>4, <2>5 DEF PTypeOK
<1>9. ASSUME NEW v \in Viewers, StreamStep(v)
      PROVE  PTypeOK'
  <2>1. CASE ReadRow(v) \/ SendSnapshot(v) \/ Subscribe(v)
    BY <1>7, <2>1 DEF ReadRow, SendSnapshot, Subscribe, Goto, PTypeOK, bounds
  <2>2. CASE Forward(v)
    <3>1. Head(inbox[v]) \in Events /\ Tail(inbox[v]) \in Seq(Events)
      BY <2>2, QueueType DEF Forward, PTypeOK
    <3>2. Shown(view[v], Head(inbox[v])) \in Views
      BY <3>1 DEF Shown, Views, Events, PTypeOK, LiveStatuses
    <3>3. view' \in [Viewers -> Views]
      BY <2>2, <3>2 DEF Forward, PTypeOK
    <3>4. inbox' \in [Viewers -> Seq(Events)]
      BY <2>2, <3>1, QueueType DEF Forward, PTypeOK
    <3>5. phase' \in [Viewers -> {"away", "connecting", "snapshot", "sent",
                                  "subscribed", "closed"}]
      BY <2>2 DEF Forward, Goto, PTypeOK
    <3> QED
      BY <2>2, <3>3, <3>4, <3>5 DEF Forward, PTypeOK, bounds
  <2> QED
    BY <1>9, <2>1, <2>2 DEF StreamStep
<1>10. CASE UNCHANGED allVars
  BY <1>10 DEF allVars, viewers, bounds, PTypeOK
<1> QED
  BY <1>2, <1>3, <1>4, <1>5, <1>6, <1>8, <1>9, <1>10 DEF PNext

LEMMA InitProgressType == PInit => PTypeOK \/ ~TypeOK
<1> SUFFICES ASSUME PInit, TypeOK PROVE PTypeOK
  OBVIOUS
<1>1. Nothing \in Events /\ Unknown \in Views /\ <<>> \in Seq(Events)
  BY EventType DEF Nothing, Unknown, Views
<1>2. missed \in [Viewers -> BOOLEAN]
  BY Zenon DEF PInit
<1> QED
  BY <1>1, <1>2, ProgressAssumption DEF PInit, PTypeOK

\* The stream and the page keep their types, whatever the run announces.
THEOREM PTypeOKHolds == PSpec => []PTypeOK
BY InitProgressType, ProgressTypeStep, SpecOfProgress, TypeCorrect, PTL DEF PSpec

\* In a single run, a Meeting that has failed at a mandatory stage is at rest,
\* and stays failed there.
FailedForGood ==
    Undisturbed /\ status = "failed" /\ failed \notin Optional => AtRest

\* What an event, or the part of the row a page shows, says of the Meeting.
TruePublished(b) == b => status = "published" \/ redeliveries > 0
TrueFailed(b, s) ==
    b /\ Undisturbed => s \in Optional \/ (status = "failed" /\ failed = s)
TrueView(x)  == TruePublished(x.status = "published") /\ TrueFailed(x.status = "failed", x.failed)
TrueEvent(e) == TruePublished(e = Event(Publish, "finished"))
                    /\ TrueFailed(e.state = "failed", e.stage)

Truth ==
    /\ \A w \in Workers : TrueEvent(outbox[w])
    /\ \A v \in Viewers :
           /\ TrueView(seen[v]) /\ TrueView(view[v])
           /\ \A i \in DOMAIN inbox[v] : TrueEvent(inbox[v][i])
           /\ phase[v] = "closed" => Ended(view[v].status)

LEMMA FailedForGoodStep ==
    ASSUME TypeOK, OneRun, FailedForGood, [Next]_vars
    PROVE  FailedForGood'
<1> SUFFICES ASSUME Undisturbed', (status = "failed")', (failed \notin Optional)'
             PROVE  AtRest'
  BY DEF FailedForGood
<1> USE DEF TypeOK, AtRest, meeting, output, history
<1>1. redeliveries' = 0 /\ resumes' = 0 /\ drops' = 0 /\ status' = "failed" /\ failed' \notin Optional
  BY DEF Undisturbed, Optional
<1>2. ASSUME NEW w \in Workers, RecordFailure(w)
      PROVE  AtRest'
  BY <1>1, <1>2 DEF RecordFailure, Skippable, FailedStage, AfterFailure, OneRun
<1>3. ASSUME UNCHANGED <<status, failed, history>>
      PROVE  AtRest
  BY <1>1, <1>3 DEF FailedForGood, Undisturbed
<1>4. ASSUME NEW w \in Workers, StageDone(w)
      PROVE  AtRest'
  <2>1. pc[w] = "work" /\ UNCHANGED <<failed, history>>
    BY <1>4 DEF StageDone
  <2>2. status = "failed"
    BY <1>1, <1>4 DEF StageDone, StageStatus
  <2> QED
    BY <1>1, <1>3, <2>1, <2>2
<1>5. ASSUME NEW w \in Workers, Take(w) \/ EnterStage(w) \/ StageRaises(w) \/ Leave(w)
      PROVE  AtRest'
  BY <1>3, <1>5 DEF Take, Deliver, EnterStage, StageRaises, Leave
<1>6. ASSUME NEW w \in Workers, WorkerLost(w) \/ VisibilityTimeout(w) \/ Dropped(w)
      PROVE  FALSE
  BY <1>1, <1>6 DEF WorkerLost, VisibilityTimeout, Dropped
<1>7. CASE Resume
  BY <1>1, <1>7 DEF Resume
<1>7a. CASE ResumeBlindly
  BY <1>1, <1>7a DEF ResumeBlindly
<1>8. CASE UNCHANGED vars
  BY <1>3, <1>8 DEF vars, runs
<1> QED
  BY <1>2, <1>4, <1>5, <1>6, <1>7, <1>7a, <1>8 DEF Next, RunStep

\* So what has been said stays true.
LEMMA TruthStays ==
    ASSUME TypeOK, OneRun, FailedForGood, [Next]_vars
    PROVE  /\ \A b \in BOOLEAN : TruePublished(b) => TruePublished(b)'
           /\ \A b \in BOOLEAN : \A s : TrueFailed(b, s) => TrueFailed(b, s)'
<1> USE DEF TypeOK, meeting, output, history
<1>1. /\ redeliveries' \in Nat /\ redeliveries' >= redeliveries
      /\ Undisturbed' => Undisturbed
  BY DEF Next, RunStep, Take, Deliver, EnterStage, StageDone, StageRaises, RecordFailure,
         Leave, WorkerLost, VisibilityTimeout, Dropped, Resume, ResumeBlindly, vars,
         Undisturbed
<1>2. status = "published" => status' = "published" \/ redeliveries' > 0
  <2>1. ASSUME NEW w \in Workers, StageDone(w) \/ RecordFailure(w), status = "published"
        PROVE  redeliveries' > 0
    BY <2>1 DEF StageDone, RecordFailure, OneRun
  <2> QED
    BY <2>1 DEF Next, RunStep, Take, Deliver, EnterStage, StageRaises, Leave, WorkerLost,
                VisibilityTimeout, Dropped, Resume, ResumeBlindly, vars
<1>3. ASSUME status = "failed", failed \notin Optional, Undisturbed
      PROVE  status' = "failed" /\ failed' = failed
  <2>1. \A w \in Workers : pc[w] \in {"idle", "leave"}
    BY <1>3 DEF FailedForGood, AtRest
  <2> QED
    BY <1>3, <2>1 DEF Next, RunStep, Take, Deliver, EnterStage, StageDone, StageRaises,
                      RecordFailure, Leave, WorkerLost, VisibilityTimeout, Dropped, Resume,
                      ResumeBlindly, vars
<1>4. Optional' = Optional
  BY DEF Optional
<1>5. ASSUME NEW b \in BOOLEAN, TruePublished(b)
      PROVE  TruePublished(b)'
  <2>1. b => status' = "published" \/ redeliveries' > 0
    BY <1>1, <1>2, <1>5 DEF TruePublished
  <2> QED
    BY <2>1 DEF TruePublished
<1>6. ASSUME NEW b \in BOOLEAN, NEW s, TrueFailed(b, s)
      PROVE  TrueFailed(b, s)'
  BY <1>1, <1>3, <1>4, <1>6 DEF TrueFailed
<1> QED
  BY <1>5, <1>6

\* A view or an event that was true, of the same or of another viewer, is true.
LEMMA ToldStays ==
    ASSUME TypeOK, OneRun, FailedForGood, [Next]_vars
    PROVE  /\ \A x : TrueView(x) => TrueView(x)'
           /\ \A e : TrueEvent(e) => TrueEvent(e)'
<1>1. ASSUME NEW x, TrueView(x)
      PROVE  TrueView(x)'
  BY <1>1, TruthStays DEF TrueView
<1>2. Event(Publish, "finished")' = Event(Publish, "finished")
  BY DEF Event, Publish
<1>3. ASSUME NEW e, TrueEvent(e)
      PROVE  TrueEvent(e)'
  BY <1>2, <1>3, TruthStays DEF TrueEvent
<1> QED
  BY <1>1, <1>3

\* A page that shows nothing, an event that says nothing, and the row.
LEMMA TrueStarts == TrueView(Unknown) /\ TrueEvent(Nothing) /\ TrueView(Row)
BY DEF TrueView, TrueEvent, TruePublished, TrueFailed, Unknown, Nothing, Row, Event

\* An event that is kept or dropped is as true as it was.
LEMMA OutboxKept ==
    ASSUME TypeOK, OneRun, FailedForGood, Truth, [Next]_vars,
           NEW u \in Workers, outbox'[u] \in {outbox[u], Nothing}
    PROVE  TrueEvent(outbox[u])'
<1>1. PICK e : e = outbox'[u]
  OBVIOUS
<1>2. TrueEvent(e)
  BY <1>1, TrueStarts DEF Truth
<1>3. TrueEvent(e)'
  BY <1>2, ToldStays
<1> QED
  BY <1>1, <1>3 DEF TrueEvent

\* A run announces what it has committed.
LEMMA RunTells ==
    ASSUME PTypeOK, OneRun, FailedForGood, Truth, [Next]_vars,
           NEW w \in Workers, RunAnd(w)
    PROVE  \A u \in Workers : TrueEvent(outbox[u])'
<1>1. at[w] \in Stages /\ at[w] # NoStage
  BY StagesType DEF PTypeOK, TypeOK, Stages, NoStage
<1>2. ASSUME UNCHANGED outbox
      PROVE  \A u \in Workers : TrueEvent(outbox[u])'
  BY <1>2, OutboxKept DEF PTypeOK
<1>3. ASSUME NEW x \in {"started", "finished", "failed"}, Queues(w, x),
             x = "finished" /\ at[w] = Publish => status' = "published",
             x = "failed" => status' = "failed" /\ failed' = at[w]
      PROVE  \A u \in Workers : TrueEvent(outbox[u])'
  <2>1. PICK e : e = Event(at[w], x)
    OBVIOUS
  <2>2. CASE ~Telling(e)
    BY <1>2, <1>3, <2>1, <2>2 DEF Queues
  <2>3. CASE Telling(e)
    <3>1. /\ outbox'[w] = e
          /\ \A u \in Workers : u # w => outbox'[u] = outbox[u]
      BY <1>3, <2>1, <2>3 DEF Queues, PTypeOK
    <3>2. /\ e.state = "failed" => status' = "failed" /\ failed' = e.stage
          /\ e = Event(Publish, "finished") => status' = "published"
      <4>1. e.stage = at[w] /\ e.state = x
        BY <2>1 DEF Event
      <4>2. e = Event(Publish, "finished") => at[w] = Publish /\ x = "finished"
        BY <2>1, <4>1 DEF Event
      <4> QED
        BY <1>3, <4>1, <4>2
    <3>3. Event(Publish, "finished")' = Event(Publish, "finished")
      BY DEF Event, Publish
    <3>4. TrueEvent(outbox[w])'
      BY <3>1, <3>2, <3>3 DEF TrueEvent, TruePublished, TrueFailed
    <3>5. ASSUME NEW u \in Workers, u # w
          PROVE  TrueEvent(outbox[u])'
      BY <3>1, <3>5, OutboxKept DEF PTypeOK
    <3> QED
      BY <3>4, <3>5
  <2> QED
    BY <2>2, <2>3
<1>4. CASE EnterStage(w) /\ Queues(w, OnEnter)
  BY <1>3, <1>4 DEF OnEnter
<1>5. CASE StageDone(w) /\ Queues(w, "finished")
  <2>1. at[w] = Publish => status' = "published"
    BY <1>5, StagesType DEF StageDone, StageStatus, Normalize
  <2> QED
    BY <1>3, <1>5, <2>1
<1>6. CASE RecordFailure(w) /\ Queues(w, "failed")
  BY <1>3, <1>6 DEF RecordFailure, FailedStage
<1> QED
  BY <1>2, <1>4, <1>5, <1>6 DEF RunAnd

\* What a viewer holds, as one fact.
TrueOf(v) ==
    /\ TrueView(seen[v]) /\ TrueView(view[v])
    /\ \A i \in DOMAIN inbox[v] : TrueEvent(inbox[v][i])
    /\ phase[v] = "closed" => Ended(view[v].status)

\* It stays true as long as it stays, for a viewer that gets no event.
LEMMA ViewerKept ==
    ASSUME TypeOK, OneRun, FailedForGood, Truth, [Next]_vars, NEW v \in Viewers,
           seen'[v] \in {seen[v], Unknown, Row}, view'[v] \in {view[v], seen[v], Unknown},
           inbox'[v] \in {inbox[v], <<>>},
           phase'[v] = "closed" => Ended(view'[v].status)
    PROVE  TrueOf(v)'
<1>1. PICK x, y, q : x = seen'[v] /\ y = view'[v] /\ q = inbox'[v]
  OBVIOUS
<1>2. TrueView(x) /\ TrueView(y)
  BY <1>1, TrueStarts DEF Truth
<1>3. \A i \in DOMAIN q : TrueEvent(q[i])
  BY <1>1 DEF Truth
<1>4. TrueView(x)' /\ TrueView(y)' /\ \A i \in DOMAIN q : TrueEvent(q[i])'
  BY <1>2, <1>3, ToldStays
<1>5. TrueView(seen[v])' /\ TrueView(view[v])'
  BY <1>1, <1>4 DEF TrueView
<1>6. \A i \in DOMAIN inbox'[v] : TrueEvent(inbox[v][i])'
  BY <1>1, <1>4 DEF TrueEvent
<1> QED
  BY <1>5, <1>6 DEF TrueOf, Ended

\* An event reaches the inbox as it was announced.
LEMMA AnnounceTells ==
    ASSUME PTypeOK, OneRun, FailedForGood, Truth, [Next]_vars,
           NEW w \in Workers, Announce(w), NEW v \in Viewers
    PROVE  TrueOf(v)'
<1>1. UNCHANGED <<vars, phase, seen, view>>
  BY DEF Announce
<1>2. phase'[v] = "closed" => Ended(view'[v].status)
  BY <1>1 DEF Truth
<1>3. inbox'[v] = inbox[v] \/ inbox'[v] = Append(inbox[v], outbox[w])
  BY DEF Announce, Heard, Lost
<1>4. CASE inbox'[v] = inbox[v]
  BY <1>1, <1>2, <1>4, ViewerKept DEF PTypeOK
<1>5. CASE inbox'[v] = Append(inbox[v], outbox[w])
  <2>1. PICK q, e : q = inbox[v] /\ e = outbox[w]
    OBVIOUS
  <2>2. TrueEvent(e) /\ \A i \in DOMAIN q : TrueEvent(q[i])
    BY <2>1 DEF Truth
  <2>3. q \in Seq(Events)
    BY <2>1 DEF PTypeOK
  <2>4. \A i \in DOMAIN Append(q, e) : Append(q, e)[i] = e \/ (i \in DOMAIN q /\ Append(q, e)[i] = q[i])
    BY <2>3
  <2>5. \A i \in DOMAIN Append(q, e) : TrueEvent(Append(q, e)[i])
    BY <2>2, <2>4
  <2>6. PICK r : r = Append(q, e)
    OBVIOUS
  <2>7. \A i \in DOMAIN r : TrueEvent(r[i])'
    BY <2>5, <2>6, ToldStays DEF PTypeOK
  <2>8. inbox'[v] = r
    BY <1>5, <2>1, <2>6
  <2>9. \A i \in DOMAIN inbox'[v] : TrueEvent(inbox[v][i])'
    BY <2>7, <2>8 DEF TrueEvent
  <2>10. PICK x, y : x = seen[v] /\ y = view[v]
    OBVIOUS
  <2>11. TrueView(x)' /\ TrueView(y)'
    BY <2>10, ToldStays DEF PTypeOK, Truth
  <2>12. TrueView(seen[v])' /\ TrueView(view[v])'
    BY <1>1, <2>10, <2>11 DEF TrueView
  <2> QED
    BY <1>2, <2>9, <2>12 DEF TrueOf, Ended
<1> QED
  BY <1>3, <1>4, <1>5

\* An event that is shown makes the page say what it says.
LEMMA ForwardTells ==
    ASSUME PTypeOK, OneRun, FailedForGood, Truth, [Next]_vars,
           NEW v \in Viewers, Forward(v)
    PROVE  TrueOf(v)'
<1>1. PICK q, e, p : q = inbox[v] /\ e = Head(q) /\ p = view[v]
  OBVIOUS
<1>2. q \in Seq(Events) /\ q # <<>> /\ phase[v] = "subscribed"
  BY <1>1 DEF Forward, PTypeOK
<1>3. e = q[1] /\ 1 \in DOMAIN q
  BY <1>1, <1>2
<1>4. TrueEvent(e) /\ TrueView(p) /\ \A i \in DOMAIN q : TrueEvent(q[i])
  BY <1>1, <1>3 DEF Truth
<1>5. PICK y : y = Shown(p, e)
  OBVIOUS
<1>6. TrueView(y)
  BY <1>4, <1>5 DEF TrueView, TrueEvent, TruePublished, TrueFailed, Shown, Event
<1>7. /\ view'[v] = y /\ seen'[v] = seen[v]
      /\ inbox'[v] \in {<<>>, Tail(q)}
      /\ phase'[v] = "closed" => Closing(e)
  BY <1>1, <1>2, <1>5 DEF Forward, Goto, PTypeOK
<1>8. Closing(e) => Ended(y.status)
  BY <1>5 DEF Closing, Telling, Ended, Shown
<1>9. PICK r, x : r = inbox'[v] /\ x = seen[v]
  OBVIOUS
<1>10. \A i \in DOMAIN Tail(q) : i + 1 \in DOMAIN q /\ Tail(q)[i] = q[i + 1]
  BY <1>2
<1>11. \A i \in DOMAIN r : TrueEvent(r[i])
  <2>1. CASE r = <<>>
    BY <2>1
  <2>2. CASE r = Tail(q)
    BY <1>4, <1>10, <2>2
  <2> QED
    BY <1>7, <1>9, <2>1, <2>2
<1>12. /\ TrueView(x)' /\ TrueView(y)'
       /\ \A i \in DOMAIN r : TrueEvent(r[i])'
  BY <1>6, <1>9, <1>11, ToldStays DEF PTypeOK, Truth
<1>13. TrueView(seen[v])' /\ TrueView(view[v])'
  BY <1>7, <1>9, <1>12 DEF TrueView
<1>14. \A i \in DOMAIN inbox'[v] : TrueEvent(inbox[v][i])'
  BY <1>9, <1>12 DEF TrueEvent
<1> QED
  BY <1>7, <1>8, <1>13, <1>14 DEF TrueOf, Ended

\* Every other step of a page and its stream shows what the stream has read.
LEMMA StreamTells ==
    ASSUME PTypeOK, OneRun, FailedForGood, Truth, [Next]_vars, NEW v \in Viewers,
           Open(v) \/ ReadRow(v) \/ SendSnapshot(v) \/ Subscribe(v) \/ Break(v),
           NEW u \in Viewers
    PROVE  TrueOf(u)'
<1>1. phase[u] = "closed" => Ended(view[u].status)
  BY DEF Truth
<1>2. CASE u # v
  <2>1. /\ seen'[u] = seen[u] /\ view'[u] = view[u]
        /\ inbox'[u] = inbox[u] /\ phase'[u] = phase[u]
    BY <1>2 DEF Open, ReadRow, SendSnapshot, Subscribe, Break, Goto, PTypeOK
  <2> QED
    BY <1>1, <2>1, ViewerKept DEF PTypeOK
<1>3. CASE u = v
  <2>1. /\ seen'[v] \in {seen[v], Unknown, Row} /\ view'[v] \in {view[v], seen[v], Unknown}
        /\ inbox'[v] \in {inbox[v], <<>>}
    BY DEF Open, ReadRow, SendSnapshot, Subscribe, Break, PTypeOK
  <2>2. phase'[v] = "closed" => Ended(view'[v].status)
    BY DEF Open, ReadRow, SendSnapshot, Subscribe, Break, Goto, PTypeOK
  <2> QED
    BY <1>3, <2>1, <2>2, ViewerKept DEF PTypeOK
<1> QED
  BY <1>2, <1>3

LEMMA TruthStep ==
    ASSUME PTypeOK, OneRun, FailedForGood, Truth, [PNext]_allVars
    PROVE  Truth'
<1>1. [Next]_vars
  BY RunsOfProgress
<1>2. Truth' <=> /\ \A w \in Workers : TrueEvent(outbox[w])'
                 /\ \A v \in Viewers : TrueOf(v)'
  BY DEF Truth, TrueOf
<1>3. ASSUME UNCHANGED <<phase, seen, inbox, view>>
      PROVE  \A v \in Viewers : TrueOf(v)'
  BY <1>1, <1>3, ViewerKept DEF PTypeOK, Truth
<1>4. ASSUME \A w \in Workers : outbox'[w] \in {outbox[w], Nothing}
      PROVE  \A w \in Workers : TrueEvent(outbox[w])'
  BY <1>1, <1>4, OutboxKept DEF PTypeOK
<1>5. ASSUME NEW w \in Workers, RunAnd(w)
      PROVE  Truth'
  <2>1. UNCHANGED <<phase, seen, inbox, view>>
    BY <1>5 DEF RunAnd, viewers
  <2> QED
    BY <1>1, <1>2, <1>3, <1>5, <2>1, RunTells
<1>6. ASSUME NEW w \in Workers, TakeMessage(w) \/ RunEnds(w)
      PROVE  Truth'
  <2>1. UNCHANGED <<phase, seen, inbox, view>>
    BY <1>6 DEF TakeMessage, RunEnds, viewers
  <2>2. \A u \in Workers : outbox'[u] \in {outbox[u], Nothing}
    BY <1>6 DEF TakeMessage, RunEnds, PTypeOK
  <2> QED
    BY <1>2, <1>3, <1>4, <2>1, <2>2
<1>7. ASSUME NEW w \in Workers, Announce(w)
      PROVE  Truth'
  <2>1. \A u \in Workers : outbox'[u] \in {outbox[u], Nothing}
    BY <1>7 DEF Announce, PTypeOK
  <2>2. \A v \in Viewers : TrueOf(v)'
    BY <1>1, <1>7, AnnounceTells
  <2> QED
    BY <1>2, <1>4, <2>1, <2>2
<1>8. ASSUME NEW v \in Viewers, Open(v) \/ StreamStep(v) \/ Break(v)
      PROVE  Truth'
  <2>1. UNCHANGED <<vars, outbox>>
    BY <1>8 DEF Open, StreamStep, ReadRow, SendSnapshot, Subscribe, Forward, Break
  <2>2. CASE Forward(v)
    <3>1. ASSUME NEW u \in Viewers, u # v
          PROVE  TrueOf(u)'
      <4>1. /\ seen'[u] = seen[u] /\ view'[u] = view[u]
            /\ inbox'[u] = inbox[u] /\ phase'[u] = phase[u]
        BY <2>2, <3>1 DEF Forward, Goto, PTypeOK
      <4>2. phase[u] = "closed" => Ended(view[u].status)
        BY DEF Truth
      <4> QED
        BY <1>1, <4>1, <4>2, ViewerKept DEF PTypeOK
    <3>2. TrueOf(v)'
      BY <1>1, <2>2, ForwardTells
    <3> QED
      BY <1>2, <1>4, <2>1, <3>1, <3>2
  <2>3. CASE ~Forward(v)
    <3>1. \A u \in Viewers : TrueOf(u)'
      BY <1>1, <1>8, <2>3, StreamTells DEF StreamStep
    <3> QED
      BY <1>2, <1>4, <2>1, <3>1
  <2> QED
    BY <2>2, <2>3
<1>9. CASE RepeatMessage \/ UNCHANGED allVars
  BY <1>2, <1>3, <1>4, <1>9 DEF RepeatMessage, allVars, viewers
<1> QED
  BY <1>5, <1>6, <1>7, <1>8, <1>9 DEF PNext

\* However often pages are reloaded, streams break and announcements are lost,
\* nobody is shown what has not happened, and what a page shows of the end of
\* a single run is its end.
THEOREM ViewersAreToldTheTruthHolds == PSpec => []ViewersAreToldTheTruth
<1> DEFINE Told == FailedForGood /\ Truth
<1>1. PInit => Told
  <2> SUFFICES ASSUME PInit PROVE Told
    OBVIOUS
  <2>1. FailedForGood
    BY DEF PInit, Init, FailedForGood
  <2>2. /\ \A w \in Workers : outbox[w] = Nothing
        /\ \A v \in Viewers : /\ seen[v] = Unknown /\ view[v] = Unknown
                              /\ inbox[v] = <<>> /\ phase[v] = "away"
    BY DEF PInit
  <2> QED
    BY <2>1, <2>2, TrueStarts DEF Truth
<1>2. PTypeOK /\ OneRun /\ Told /\ [PNext]_allVars => Told'
  BY TruthStep, FailedForGoodStep, RunsOfProgress DEF PTypeOK
<1>3. Told => ViewersAreToldTheTruth
  BY DEF Truth, ViewersAreToldTheTruth, TrueView, TruePublished, TrueFailed
<1>4. PSpec => []PTypeOK /\ []OneRun
  BY PTypeOKHolds, SpecOfProgress, OneRunHolds, PTL
<1> QED
  BY <1>1, <1>2, <1>3, <1>4, PTL DEF PSpec

-----------------------------------------------------------------------------
(* What a viewer waits for.                                                *)

\* A run, or the message of one, has its end yet to announce.
Coming == Driven \/ \E w \in Workers : LastOfRun(outbox[w])

\* What is announced changes what a page shows.
Speaking == \A w \in Workers : outbox[w] = Nothing \/ Telling(outbox[w])

\* A stream that is not about to close has an event, or one is to come.
Owed ==
    \A v \in Viewers :
        /\ inbox[v] # <<>> => Telling(Head(inbox[v]))
        /\ phase[v] \in {"snapshot", "sent", "subscribed"} /\ ~missed[v] /\ drops = 0 =>
               \/ phase[v] = "snapshot" /\ Ended(seen[v].status)
               \/ phase[v] = "subscribed" /\ inbox[v] # <<>>
               \/ Coming

\* A run that goes on has its end to announce when it reaches it.
LEMMA RunAnnounces ==
    ASSUME PTypeOK, NEW w \in Workers, RunAnd(w)
    PROVE  \/ pc'[w] \in {"enter", "work", "failure"} \/ LastOfRun(outbox'[w])
           \/ /\ pc[w] = "leave" /\ UNCHANGED outbox
              /\ \A u \in Workers : u # w => pc'[u] = pc[u]
<1> USE DEF PTypeOK, TypeOK
<1>1. CASE EnterStage(w) \/ StageRaises(w)
  BY <1>1 DEF EnterStage, StageRaises
<1>2. ASSUME NEW x \in {"finished", "failed"}, Queues(w, x),
             at[w] \notin Optional, x = "finished" => at[w] = Publish
      PROVE  LastOfRun(outbox'[w])
  <2>1. Telling(Event(at[w], x)) /\ Event(at[w], x).stage = at[w]
    BY <1>2 DEF Telling, Event
  <2>2. outbox'[w] = Event(at[w], x)
    BY <1>2, <2>1 DEF Queues
  <2> QED
    BY <1>2, <2>1, <2>2 DEF LastOfRun
<1>3. Publish \notin Optional
  BY PipelineAssumption DEF Publish, Optional
<1>4. CASE StageDone(w) /\ Queues(w, "finished")
  <2>1. pc'[w] = "enter" \/ at[w] = Publish
    BY <1>4 DEF StageDone, NextStage
  <2> QED
    BY <1>2, <1>3, <1>4, <2>1
<1>5. CASE RecordFailure(w) /\ Queues(w, "failed")
  <2>1. pc'[w] = "enter" \/ at[w] \notin Optional
    BY <1>3, <1>5 DEF RecordFailure, Skippable, NextStage
  <2> QED
    BY <1>2, <1>5, <2>1
<1>6. CASE Leave(w) /\ UNCHANGED outbox
  BY <1>6 DEF Leave
<1> QED
  BY <1>1, <1>4, <1>5, <1>6 DEF RunAnd

\* What is to come is to come until it is announced.
LEMMA ComingStays ==
    ASSUME PTypeOK, Coming, [PNext]_allVars, drops' = 0
    PROVE  \/ Coming'
           \/ \E w \in Workers : Announce(w) /\ LastOfRun(outbox[w])
<1> USE DEF PTypeOK, TypeOK, Coming, Driven, Waits
<1>0. \A e : LastOfRun(e)' <=> LastOfRun(e)
  BY DEF LastOfRun, Telling, Optional, Event, Publish
<1>1. ASSUME NEW w \in Workers, TakeMessage(w)
      PROVE  Coming'
  BY <1>1 DEF TakeMessage, Take, Deliver
<1>2. ASSUME NEW w \in Workers, RunAnd(w)
      PROVE  Coming'
  <2>1. UNCHANGED queue
    BY <1>2 DEF RunAnd, EnterStage, StageDone, StageRaises, RecordFailure, Leave
  <2>2. outbox[w] = Nothing /\ ~LastOfRun(Nothing)
    BY <1>2 DEF RunAnd, LastOfRun, Telling, Nothing, Event
  <2>3. CASE pc'[w] \in {"enter", "work", "failure"} \/ LastOfRun(outbox'[w])
    BY <1>0, <2>3
  <2>4. CASE /\ pc[w] = "leave" /\ UNCHANGED outbox
             /\ \A u \in Workers : u # w => pc'[u] = pc[u]
    BY <1>0, <2>1, <2>2, <2>4
  <2> QED
    BY <1>2, <2>3, <2>4, RunAnnounces
<1>3. ASSUME NEW w \in Workers, RunEnds(w)
      PROVE  Coming'
  <2>1. WorkerLost(w)
    BY <1>3 DEF RunEnds, Dropped
  <2>2. from[w] \in Stages /\ queue'[from[w]] > 0
    BY <2>1 DEF WorkerLost, Requeued
  <2> QED
    BY <2>2
<1>4. ASSUME NEW w \in Workers, Announce(w), ~LastOfRun(outbox[w])
      PROVE  Coming'
  <2>1. UNCHANGED <<queue, pc>> /\ \A u \in Workers : u # w => outbox'[u] = outbox[u]
    BY <1>4 DEF Announce, vars, runs
  <2> QED
    BY <1>0, <1>4, <2>1
<1>5. CASE RepeatMessage
  <2>1. CASE \E w \in Workers : VisibilityTimeout(w)
    BY <2>1 DEF VisibilityTimeout, Requeued
  <2>2. CASE Resume
    BY <2>2 DEF Resume, Resumed, ResumeAt, NoStage
  <2>3. CASE ResumeBlindly
    BY <2>3 DEF ResumeBlindly, Resumed, ResumeAt, NoStage
  <2> QED
    BY <1>5, <2>1, <2>2, <2>3 DEF RepeatMessage
<1>6. ASSUME (\E v \in Viewers : Open(v) \/ StreamStep(v) \/ Break(v)) \/ UNCHANGED allVars
      PROVE  Coming'
  <2>1. UNCHANGED <<queue, pc, outbox>>
    BY <1>6 DEF Open, StreamStep, ReadRow, SendSnapshot, Subscribe, Forward, Break,
                allVars, vars, runs
  <2> QED
    BY <1>0, <2>1
<1> QED
  BY <1>1, <1>2, <1>3, <1>4, <1>5, <1>6 DEF PNext

LEMMA SpeakingStays ==
    ASSUME PTypeOK, Speaking, [PNext]_allVars
    PROVE  Speaking'
<1> USE DEF PTypeOK, Speaking
<1>0. \A e : Telling(e)' <=> Telling(e)
  BY DEF Telling, Event, Publish
<1>1. ASSUME NEW w \in Workers, RunAnd(w)
      PROVE  \A u \in Workers : outbox'[u] \in {outbox[u], Nothing} \/ Telling(outbox'[u])
  BY <1>1 DEF RunAnd, Queues
<1>2. ASSUME NEW w \in Workers, RunEnds(w) \/ Announce(w)
      PROVE  \A u \in Workers : outbox'[u] \in {outbox[u], Nothing}
  BY <1>2 DEF RunEnds, Announce
<1>3. CASE \/ \E w \in Workers : TakeMessage(w)
           \/ RepeatMessage
           \/ \E v \in Viewers : Open(v) \/ StreamStep(v) \/ Break(v)
           \/ UNCHANGED allVars
  <2>1. UNCHANGED outbox
    BY <1>3 DEF TakeMessage, RepeatMessage, Open, StreamStep, ReadRow, SendSnapshot,
                Subscribe, Forward, Break, allVars
  <2> QED
    BY <1>0, <2>1
<1>4. \A u \in Workers : outbox'[u] \in {outbox[u], Nothing} \/ Telling(outbox'[u])
  BY <1>1, <1>2, <1>3 DEF PNext
<1>5. UNCHANGED Nothing
  BY DEF Nothing, Event
<1> QED
  BY <1>0, <1>4, <1>5

\* The step of a run, or of its message, seen by a viewer.
LEMMA RunOwes ==
    ASSUME PTypeOK, Owed, [PNext]_allVars, UNCHANGED viewers,
           \A w \in Workers : ~Announce(w), drops' = 0 => drops = 0
    PROVE  Owed'
<1>1. \A s : Ended(s)' <=> Ended(s)
  BY DEF Ended
<1>2. \A e : Telling(e)' <=> Telling(e)
  BY DEF Telling, Event, Publish
<1>3. drops' = 0 /\ Coming => Coming'
  BY ComingStays
<1>4. UNCHANGED <<phase, seen, inbox, missed>>
  BY DEF viewers
<1> QED
  BY <1>1, <1>2, <1>3, <1>4 DEF Owed

\* An end that is announced reaches a viewer, or is missed.
LEMMA AnnounceOwes ==
    ASSUME PTypeOK, Speaking, Owed, NEW w \in Workers, Announce(w)
    PROVE  Owed'
<1> SUFFICES ASSUME NEW v \in Viewers
             PROVE  /\ inbox'[v] # <<>> => Telling(Head(inbox'[v]))
                    /\ /\ phase'[v] \in {"snapshot", "sent", "subscribed"}
                       /\ ~missed'[v] /\ drops' = 0
                       => \/ phase'[v] = "snapshot" /\ Ended(seen'[v].status)
                          \/ phase'[v] = "subscribed" /\ inbox'[v] # <<>>
                          \/ Coming'
  BY DEF Owed, Telling, Event, Publish, Ended
<1> DEFINE e == outbox[w]
<1>1. UNCHANGED <<phase, seen, drops, queue, pc>> /\ (Heard(e) \/ Lost(e))
  BY DEF Announce, vars, runs, history
<1>2. inbox[v] \in Seq(Events) /\ e \in Events /\ Telling(e)
  BY DEF PTypeOK, Speaking, Announce
<1>3. \/ inbox'[v] = inbox[v]
      \/ inbox'[v] = Append(inbox[v], e) /\ phase[v] = "subscribed"
  BY <1>1 DEF Heard, Lost
<1>4. /\ inbox[v] # <<>> => inbox'[v] # <<>> /\ Head(inbox'[v]) = Head(inbox[v])
      /\ inbox[v] = <<>> /\ inbox'[v] # <<>> => Head(inbox'[v]) = e
  BY <1>2, <1>3
<1>5. missed[v] => missed'[v]
  BY <1>1 DEF Heard, Lost
<1>6. inbox'[v] # <<>> => Telling(Head(inbox'[v]))
  BY <1>2, <1>4 DEF Owed
<1>7. ASSUME LastOfRun(e), phase[v] \in {"snapshot", "sent", "subscribed"}, ~missed'[v]
      PROVE  phase[v] = "subscribed" /\ inbox'[v] # <<>>
  <2>1. phase[v] = "subscribed" /\ Heard(e)
    BY <1>1, <1>7 DEF Heard, Lost
  <2>2. inbox'[v] = Append(inbox[v], e)
    BY <2>1 DEF Heard
  <2> QED
    BY <1>2, <2>1, <2>2
<1>8. ASSUME Coming, ~LastOfRun(e)
      PROVE  Coming'
  <2>1. \A f : LastOfRun(f)' <=> LastOfRun(f)
    BY DEF LastOfRun, Telling, Optional, Event, Publish
  <2>2. \A u \in Workers : u # w => outbox'[u] = outbox[u]
    BY DEF Announce, PTypeOK
  <2>3. CASE Driven
    BY <1>1, <2>3 DEF Coming, Driven, Waits
  <2>4. CASE \E u \in Workers : LastOfRun(outbox[u])
    BY <1>8, <2>1, <2>2, <2>4 DEF Coming
  <2> QED
    BY <1>8, <2>3, <2>4 DEF Coming
<1> QED
  BY <1>1, <1>4, <1>5, <1>6, <1>7, <1>8 DEF Owed

\* What a viewer does about its own stream leaves the others as they were.
LEMMA ViewerOwes ==
    ASSUME PTypeOK, TypeOK, Attended, Owed, NEW v \in Viewers, Open(v) \/ StreamStep(v) \/ Break(v)
    PROVE  Owed'
<1>1. UNCHANGED <<queue, pc, drops, outbox>>
  BY DEF Open, StreamStep, ReadRow, SendSnapshot, Subscribe, Forward, Break, vars, runs, history
<1>2. Coming' <=> Coming
  BY <1>1 DEF Coming, Driven, Waits, LastOfRun, Telling, Optional, Event, Publish
<1>3. \A u \in Viewers : u # v =>
          /\ phase'[u] = phase[u] /\ seen'[u] = seen[u]
          /\ inbox'[u] = inbox[u] /\ missed'[u] = missed[u]
  BY DEF Open, StreamStep, ReadRow, SendSnapshot, Subscribe, Forward, Break, Goto, PTypeOK
<1>4. /\ inbox'[v] # <<>> => Telling(Head(inbox'[v]))
      /\ phase'[v] \in {"snapshot", "sent", "subscribed"} /\ ~missed'[v] /\ drops = 0 =>
             \/ phase'[v] = "snapshot" /\ Ended(seen'[v].status)
             \/ Coming
  <2> USE DEF PTypeOK, Goto
  <2>1. CASE ReadRow(v)
    <3>1. phase'[v] = "snapshot" /\ seen'[v].status = status /\ inbox'[v] = inbox[v]
      BY <2>1 DEF ReadRow, Row
    <3>2. drops = 0 => Ended(status) \/ Coming
      BY DEF Attended, Ended, Coming
    <3> QED
      BY <3>1, <3>2 DEF Owed
  <2>2. CASE SendSnapshot(v)
    BY <2>2 DEF SendSnapshot, Owed
  <2>3. CASE Subscribe(v)
    BY <2>3 DEF Subscribe, Owed
  <2>4. CASE Forward(v)
    <3>1. Closing(Head(inbox[v]))
      BY <2>4 DEF Forward, Owed, Closing
    <3> QED
      BY <2>4, <3>1 DEF Forward
  <2>5. CASE Open(v) \/ Break(v)
    BY <2>5 DEF Open, Break
  <2> QED
    BY <2>1, <2>2, <2>3, <2>4, <2>5 DEF StreamStep
<1>5. \A s : Ended(s)' <=> Ended(s)
  BY DEF Ended
<1>6. \A e : Telling(e)' <=> Telling(e)
  BY DEF Telling, Event, Publish
<1> QED
  BY <1>1, <1>2, <1>3, <1>4, <1>5, <1>6 DEF Owed

LEMMA OwedStep ==
    ASSUME PTypeOK, TypeOK, Attended, Speaking, Owed, [PNext]_allVars
    PROVE  Owed'
<1>1. CASE \E w \in Workers : Announce(w)
  BY <1>1, AnnounceOwes
<1>2. CASE \E v \in Viewers : Open(v) \/ StreamStep(v) \/ Break(v)
  BY <1>2, ViewerOwes
<1>3. CASE /\ \A w \in Workers : ~Announce(w)
           /\ ~\E v \in Viewers : Open(v) \/ StreamStep(v) \/ Break(v)
  <2>1. UNCHANGED viewers
    BY <1>3 DEF PNext, TakeMessage, RunAnd, RunEnds, RepeatMessage, allVars
  <2>2. drops' = 0 => drops = 0
    <3>1. [Next]_vars
      BY RunsOfProgress
    <3> QED
      BY <3>1 DEF Next, Take, Deliver, RunStep, EnterStage, StageDone, StageRaises,
                  RecordFailure, Leave, WorkerLost, Dropped, VisibilityTimeout,
                  Resume, ResumeBlindly, vars, history, TypeOK
  <2> QED
    BY <1>3, <2>1, <2>2, RunOwes
<1> QED
  BY <1>1, <1>2, <1>3

\* Nobody sits before a page that will never change: a stream without an
\* event has missed the end of a run, or a run has it yet to announce.
THEOREM NobodyWaitsInVainHolds == PSpec => []NobodyWaitsInVain
<1>1. PInit => Owed /\ Speaking
  BY DEF PInit, Owed, Speaking
<1>2. PTypeOK /\ TypeOK /\ Attended /\ Speaking /\ Owed /\ [PNext]_allVars => Owed' /\ Speaking'
  BY OwedStep, SpeakingStays
<1>3. PTypeOK => TypeOK
  BY DEF PTypeOK
<1>4. PTypeOK /\ Owed => NobodyWaitsInVain
  <2> SUFFICES ASSUME PTypeOK, Owed, NEW v \in Viewers,
                      phase[v] = "subscribed", inbox[v] = <<>>, ~missed[v], ~(drops > 0)
               PROVE  Coming
    BY DEF NobodyWaitsInVain, Coming, Driven, Waits
  <2>1. drops = 0
    BY DEF PTypeOK, TypeOK
  <2> QED
    BY <2>1 DEF Owed
<1> QED
  BY <1>1, <1>2, <1>3, <1>4, PTypeOKHolds, SpecOfProgress, AttendedHolds, PTL DEF PSpec

=============================================================================
