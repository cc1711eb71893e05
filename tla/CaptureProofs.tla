--------------------------- MODULE CaptureProofs ---------------------------
(***************************************************************************)
(* Theorems about Capture, for every set of clients and chunks and every   *)
(* number of aborted requests.                                             *)
(***************************************************************************)
EXTENDS Capture, TLAPS

\* The actions of Next, one operator per kind of process.
FinishAny(f) == FinishRead(f) \/ FinishStep(f) \/ FinishAbort(f)
Worker       == PipelineTake \/ PipelineEnd

-----------------------------------------------------------------------------
(* Type correctness.                                                       *)

\* Whatever loads and writes the row, it holds one of the two values.
LEMMA OrmWriteType ==
    ASSUME NEW S, NEW new \in S, NEW current \in S, NEW loaded
    PROVE  OrmWrite(loaded, new, current) \in S
BY DEF OrmWrite

\* Every variable of the capture model keeps its type: no answer outside the
\* handler's, no negative message count, no foreign lock holder.
THEOREM TypeCorrect == Spec => []TypeOK
<1>1. Init => TypeOK
  <2> SUFFICES ASSUME Init PROVE TypeOK
    OBVIOUS
  <2>1. overlapped \in BOOLEAN /\ stranded \in BOOLEAN
    BY Zenon DEF Init
  <2> QED
    BY <2>1 DEF Init, TypeOK, Statuses, LiveStatuses
<1>2. TypeOK /\ [Next]_vars => TypeOK'
  <2> SUFFICES ASSUME TypeOK, [Next]_vars
               PROVE  TypeOK'
    OBVIOUS
  <2> USE DEF TypeOK
  <2>1. ASSUME NEW u \in Uploaders, Upload(u)
        PROVE  TypeOK'
    <3>1. ASSUME NEW c \in Chunks, UploadCheck(u, c)
          PROVE  TypeOK'
      BY <3>1 DEF UploadCheck, row, objects, celery, finishes, purge, history
    <3>2. CASE UploadPut(u)
      BY <3>2 DEF UploadPut, StoredBy, row, celery, finishes, purge
    <3>3. CASE UploadAbort(u)
      BY <3>3, CaptureAssumption DEF UploadAbort, row, celery, finishes, purge
    <3> QED
      BY <2>1, <3>1, <3>2, <3>3 DEF Upload
  <2>2. ASSUME NEW f \in Finishers, FinishAny(f)
        PROVE  TypeOK'
    <3> USE DEF row, objects, celery, purge, history, Goto, End, Statuses,
                LiveStatuses
    <3>1. CASE FinishRead(f)
      BY <3>1 DEF FinishRead, Finishable
    <3>2. CASE FinishFlip(f)
      <4>1. status' \in Statuses
        BY <3>2, OrmWriteType DEF FinishFlip
      <4> QED
        BY <3>2, <4>1 DEF FinishFlip
    <3>3. CASE FinishFlipGone(f)
      BY <3>3 DEF FinishFlipGone
    <3>4. CASE FinishList(f)
      BY <3>4 DEF FinishList
    <3>5. CASE FinishEmpty(f)
      BY <3>5 DEF FinishEmpty, Reverted
    <3>6. CASE FinishManifest(f)
      BY <3>6 DEF FinishManifest
    <3>7. CASE FinishCommit(f)
      BY <3>7 DEF FinishCommit, AfterCommit
    <3>8. CASE FinishLost(f)
      BY <3>8 DEF FinishLost
    <3>9. CASE FinishReport(f)
      BY <3>9 DEF FinishReport
    <3>10. CASE FinishDispatch(f)
      BY <3>10 DEF FinishDispatch
    <3>11. CASE FinishAbort(f)
      BY <3>11, CaptureAssumption DEF FinishAbort
    <3> QED
      BY <2>2, <3>1, <3>2, <3>3, <3>4, <3>5, <3>6, <3>7, <3>8, <3>9, <3>10,
         <3>11 DEF FinishAny, FinishStep
  <2>3. CASE Worker
    <3> USE DEF objects, finishes, purge, history, Statuses, LiveStatuses, Purged
    <3>1. CASE PipelineTake
      <4>1. stranded' \in BOOLEAN
        BY <3>1, Zenon DEF PipelineTake
      <4> QED
        BY <3>1, <4>1 DEF PipelineTake
    <3>2. CASE PipelineEnd
      BY <3>2 DEF PipelineEnd
    <3> QED
      BY <2>3, <3>1, <3>2 DEF Worker
  <2>4. CASE PurgeStep
    <3> USE DEF row, objects, celery, finishes, history, Statuses
    <3>1. CASE PurgeRead \/ PurgeManifestRead \/ PurgeManifest
      BY <3>1 DEF PurgeRead, PurgeManifestRead, PurgeManifest
    <3>2. CASE (\E c \in Chunks : PurgeChunk(c)) \/ PurgeStops
      BY <3>2 DEF PurgeChunk, PurgeStops
    <3>3. CASE PurgeMeeting \/ PurgeRecording
      BY <3>3 DEF PurgeMeeting, PurgeRecording
    <3> QED
      BY <2>4, <3>1, <3>2, <3>3 DEF PurgeStep
  <2>5. CASE UNCHANGED vars
    BY <2>5 DEF vars, row, objects, celery, finishes, purge, history
  <2> QED
    BY <2>1, <2>2, <2>3, <2>4, <2>5 DEF Next, FinishAny, Worker
<1> QED
  BY <1>1, <1>2, PTL DEF Spec

-----------------------------------------------------------------------------
(* The row lock.                                                           *)

\* A finish that is about to commit holds the lock, nobody else does, and
\* under it the row still reads "finishing".
LockOK ==
    /\ \A f \in Finishers : fpc[f] = "commit" <=> lock = f
    /\ lock # NoOne => status = "finishing"

LEMMA LockInductive == Spec => []LockOK
<1>1. Init => LockOK
  BY CaptureAssumption DEF Init, LockOK
<1>2. TypeOK /\ LockOK /\ [Next]_vars => LockOK'
  <2> SUFFICES ASSUME TypeOK, LockOK, [Next]_vars
               PROVE  LockOK'
    OBVIOUS
  <2> USE CaptureAssumption DEF TypeOK, LockOK, row, objects, celery, finishes,
          purge, history, Goto, End
  <2>1. ASSUME NEW u \in Uploaders, Upload(u)
        PROVE  LockOK'
    BY <2>1 DEF Upload, UploadCheck, UploadPut, StoredBy, UploadAbort
  <2>2. ASSUME NEW f \in Finishers, FinishAny(f)
        PROVE  LockOK'
    <3>1. CASE FinishRead(f)
      BY <3>1 DEF FinishRead, AtRest
    <3>2. CASE FinishFlip(f)
      BY <3>2 DEF FinishFlip, OrmWrite
    <3>3. CASE FinishFlipGone(f)
      BY <3>3 DEF FinishFlipGone
    <3>4. CASE FinishList(f)
      BY <3>4 DEF FinishList
    <3>5. CASE FinishEmpty(f)
      BY <3>5 DEF FinishEmpty, Reverted, SwapMatches
    <3>6. CASE FinishManifest(f)
      BY <3>6 DEF FinishManifest, SwapMatches
    <3>7. CASE FinishCommit(f)
      BY <3>7 DEF FinishCommit, AfterCommit
    <3>8. CASE FinishLost(f)
      BY <3>8 DEF FinishLost
    <3>9. CASE FinishReport(f)
      BY <3>9 DEF FinishReport
    <3>10. CASE FinishDispatch(f)
      BY <3>10 DEF FinishDispatch
    <3>11. CASE FinishAbort(f)
      BY <3>11 DEF FinishAbort, AtRest
    <3> QED
      BY <2>2, <3>1, <3>2, <3>3, <3>4, <3>5, <3>6,
         <3>7, <3>8, <3>9, <3>10, <3>11 DEF FinishAny, FinishStep
  <2>3. CASE Worker
    BY <2>3 DEF Worker, PipelineTake, PipelineEnd
  <2>4. CASE PurgeStep
    BY <2>4 DEF PurgeStep, PurgeRead, PurgeManifestRead, PurgeChunk, PurgeManifest,
                PurgeMeeting, PurgeRecording, PurgeStops, Purged
  <2>5. CASE UNCHANGED vars
    BY <2>5 DEF vars
  <2> QED
    BY <2>1, <2>2, <2>3, <2>4, <2>5 DEF Next, FinishAny, Worker
<1> QED
  BY <1>1, <1>2, TypeCorrect, PTL DEF Spec

-----------------------------------------------------------------------------
(* PendingOnlyFromFinishing.                                               *)

\* The conditional UPDATE and its lock: whatever other requests do between
\* the UPDATE and the COMMIT, only a Meeting in "finishing" becomes "pending".
THEOREM PendingOnlyFromFinishingHolds == Spec => PendingOnlyFromFinishing
<1> DEFINE Step == status' = "pending" /\ status # "pending" => status = "finishing"
<1>1. TypeOK /\ LockOK /\ [Next]_vars => [Step]_vars
  <2> SUFFICES ASSUME TypeOK, LockOK, [Next]_vars
               PROVE  Step
    OBVIOUS
  <2> USE CaptureAssumption DEF TypeOK, LockOK, row, objects, celery, finishes,
          purge, history, Goto, End
  <2>1. ASSUME NEW u \in Uploaders, Upload(u)
        PROVE  Step
    BY <2>1 DEF Upload, UploadCheck, UploadPut, StoredBy, UploadAbort
  <2>2. ASSUME NEW f \in Finishers, FinishAny(f)
        PROVE  Step
    <3>1. CASE FinishRead(f)
      BY <3>1 DEF FinishRead
    <3>2. CASE FinishFlip(f)
      BY <3>2 DEF FinishFlip, OrmWrite
    <3>3. CASE FinishFlipGone(f)
      BY <3>3 DEF FinishFlipGone
    <3>4. CASE FinishList(f)
      BY <3>4 DEF FinishList
    <3>5. CASE FinishEmpty(f)
      BY <3>5 DEF FinishEmpty, Reverted
    <3>6. CASE FinishManifest(f)
      BY <3>6 DEF FinishManifest
    <3>7. CASE FinishCommit(f)
      BY <3>7 DEF FinishCommit, AfterCommit
    <3>8. CASE FinishLost(f)
      BY <3>8 DEF FinishLost
    <3>9. CASE FinishReport(f)
      BY <3>9 DEF FinishReport
    <3>10. CASE FinishDispatch(f)
      BY <3>10 DEF FinishDispatch
    <3>11. CASE FinishAbort(f)
      BY <3>11 DEF FinishAbort
    <3> QED
      BY <2>2, <3>1, <3>2, <3>3, <3>4, <3>5, <3>6,
         <3>7, <3>8, <3>9, <3>10, <3>11 DEF FinishAny, FinishStep
  <2>3. CASE Worker
    BY <2>3 DEF Worker, PipelineTake, PipelineEnd
  <2>4. CASE PurgeStep
    BY <2>4 DEF PurgeStep, PurgeRead, PurgeManifestRead, PurgeChunk, PurgeManifest,
                PurgeMeeting, PurgeRecording, PurgeStops, Purged
  <2>5. CASE UNCHANGED vars
    BY <2>5 DEF vars
  <2> QED
    BY <2>1, <2>2, <2>3, <2>4, <2>5 DEF Next, FinishAny, Worker
<1> QED
  BY <1>1, TypeCorrect, LockInductive, PTL DEF Spec, PendingOnlyFromFinishing

-----------------------------------------------------------------------------
(* OnlyLossStrands, inductive as it stands.                                *)

\* A "pending" Meeting without a message, or a finish about to send it, has lost
\* the message: to a finish that died between its commit and its dispatch, or to
\* a worker that raised before it could write.
THEOREM OnlyLossStrandsHolds == Spec => []OnlyLossStrands
<1>1. Init => OnlyLossStrands
  BY DEF Init, OnlyLossStrands
<1>2. TypeOK /\ OnlyLossStrands /\ [Next]_vars => OnlyLossStrands'
  <2> SUFFICES ASSUME TypeOK, OnlyLossStrands, [Next]_vars
               PROVE  OnlyLossStrands'
    OBVIOUS
  <2> USE DEF TypeOK, OnlyLossStrands, row, objects, celery, finishes,
          purge, history, Goto, End
  <2>1. ASSUME NEW u \in Uploaders, Upload(u)
        PROVE  OnlyLossStrands'
    BY <2>1 DEF Upload, UploadCheck, UploadPut, StoredBy, UploadAbort
  <2>2. ASSUME NEW f \in Finishers, FinishAny(f)
        PROVE  OnlyLossStrands'
    <3>1. CASE FinishRead(f)
      BY <3>1 DEF FinishRead, AtRest
    <3>2. CASE FinishFlip(f)
      BY <3>2 DEF FinishFlip, OrmWrite
    <3>3. CASE FinishFlipGone(f)
      BY <3>3 DEF FinishFlipGone
    <3>4. CASE FinishList(f)
      BY <3>4 DEF FinishList
    <3>5. CASE FinishEmpty(f)
      BY <3>5 DEF FinishEmpty, Reverted
    <3>6. CASE FinishManifest(f)
      BY <3>6 DEF FinishManifest, SwapMatches
    <3>7. CASE FinishCommit(f)
      BY <3>7 DEF FinishCommit, AfterCommit
    <3>8. CASE FinishLost(f)
      BY <3>8 DEF FinishLost
    <3>9. CASE FinishReport(f)
      BY <3>9 DEF FinishReport
    <3>10. CASE FinishDispatch(f)
      BY <3>10 DEF FinishDispatch
    <3>11. CASE FinishAbort(f)
      BY <3>11 DEF FinishAbort
    <3> QED
      BY <2>2, <3>1, <3>2, <3>3, <3>4, <3>5, <3>6,
         <3>7, <3>8, <3>9, <3>10, <3>11 DEF FinishAny, FinishStep
  <2>3. CASE Worker
    BY <2>3 DEF Worker, PipelineTake, PipelineEnd
  <2>4. CASE PurgeStep
    BY <2>4 DEF PurgeStep, PurgeRead, PurgeManifestRead, PurgeChunk, PurgeManifest,
                PurgeMeeting, PurgeRecording, PurgeStops, Purged
  <2>5. CASE UNCHANGED vars
    BY <2>5 DEF vars
  <2> QED
    BY <2>1, <2>2, <2>3, <2>4, <2>5 DEF Next, FinishAny, Worker
<1> QED
  BY <1>1, <1>2, TypeCorrect, PTL DEF Spec

-----------------------------------------------------------------------------
(* AckedChunksInManifest.                                                  *)

\* Only a purge takes chunks away, so what a finish has listed covers, but for
\* those a purge has deleted, every upload acknowledged before the finish began;
\* the manifest under the lock is that list until a purge deletes it.
ListingOK ==
    /\ acked \subseteq stored \cup erased
    /\ \A f \in Finishers :
          /\ need[f] \subseteq acked
          /\ fpc[f] \in {"swap", "commit"} => need[f] \subseteq snap[f] \cup erased
          /\ lock = f => need[f] \subseteq manifest \cup erased

LEMMA ListingInductive == Spec => []ListingOK
<1>1. Init => ListingOK
  BY CaptureAssumption DEF Init, ListingOK
<1>2. TypeOK /\ LockOK /\ ListingOK /\ [Next]_vars => ListingOK'
  <2> SUFFICES ASSUME TypeOK, LockOK, ListingOK, [Next]_vars
               PROVE  ListingOK'
    OBVIOUS
  <2> USE CaptureAssumption DEF TypeOK, LockOK, ListingOK, row, objects, celery,
          finishes, purge, history, Goto, End
  <2>1. ASSUME NEW u \in Uploaders, Upload(u)
        PROVE  ListingOK'
    BY <2>1 DEF Upload, UploadCheck, UploadPut, StoredBy, UploadAbort
  <2>2. ASSUME NEW f \in Finishers, FinishAny(f)
        PROVE  ListingOK'
    <3>1. CASE FinishRead(f)
      BY <3>1 DEF FinishRead, AtRest, Finishable
    <3>2. CASE FinishFlip(f)
      BY <3>2 DEF FinishFlip, OrmWrite, AtRest
    <3>3. CASE FinishFlipGone(f)
      BY <3>3 DEF FinishFlipGone
    <3>4. CASE FinishList(f)
      BY <3>4 DEF FinishList, AtRest
    <3>5. CASE FinishEmpty(f)
      BY <3>5 DEF FinishEmpty, Reverted, SwapMatches, AtRest, Purged
    <3>6. CASE FinishManifest(f)
      BY <3>6 DEF FinishManifest, SwapMatches, AtRest
    <3>7. CASE FinishCommit(f)
      BY <3>7 DEF FinishCommit, AfterCommit, Purged
    <3>8. CASE FinishLost(f)
      BY <3>8 DEF FinishLost, AtRest
    <3>9. CASE FinishReport(f)
      BY <3>9 DEF FinishReport
    <3>10. CASE FinishDispatch(f)
      BY <3>10 DEF FinishDispatch
    <3>11. CASE FinishAbort(f)
      BY <3>11 DEF FinishAbort, AtRest
    <3> QED
      BY <2>2, <3>1, <3>2, <3>3, <3>4, <3>5, <3>6,
         <3>7, <3>8, <3>9, <3>10, <3>11 DEF FinishAny, FinishStep
  <2>3. CASE Worker
    BY <2>3 DEF Worker, PipelineTake, PipelineEnd
  <2>4. CASE PurgeStep
    BY <2>4 DEF PurgeStep, PurgeRead, PurgeManifestRead, PurgeChunk, PurgeManifest,
                PurgeMeeting, PurgeRecording, PurgeStops, Purged
  <2>5. CASE UNCHANGED vars
    BY <2>5 DEF vars
  <2> QED
    BY <2>1, <2>2, <2>3, <2>4, <2>5 DEF Next, FinishAny, Worker
<1> QED
  BY <1>1, <1>2, TypeCorrect, LockInductive, PTL DEF Spec

-----------------------------------------------------------------------------
(* Requests that never overlap.                                            *)

\* One request at a time.  Once the Meeting has left capture no request is
\* before its flip, so nothing leads it back; it has a Recording, a message and
\* a pipeline run only then; and while a request is past its flip it takes no
\* chunks.
Open == {"capturing", "finishing"}

SequentialOK ==
    ~overlapped =>
        /\ \A f, g \in Finishers :
              fpc[f] \notin AtRest /\ fpc[g] \notin AtRest => f = g
        /\ recordings <= 1
        /\ recordings # 0 => status \notin Open \cup {Purged}
        /\ queue # 0 \/ running # 0 => status \notin Open
        /\ status \notin Open \cup {Purged} => \A f \in Finishers : fpc[f] # "flip"
        /\ \A f \in Finishers :
              /\ fpc[f] = "dispatch" => status \notin Open
              /\ \/ fpc[f] = "flip" /\ seen[f] = "finishing"
                 \/ fpc[f] \in {"list", "swap", "commit"}
                 => status # "capturing"

LEMMA SequentialInductive == Spec => []SequentialOK
<1>1. Init => SequentialOK
  BY DEF Init, SequentialOK, AtRest
<1>2. TypeOK /\ LockOK /\ SequentialOK /\ [Next]_vars => SequentialOK'
  <2> SUFFICES ASSUME TypeOK, LockOK, SequentialOK, [Next]_vars
               PROVE  SequentialOK'
    OBVIOUS
  <2> USE CaptureAssumption DEF TypeOK, LockOK, SequentialOK, row, objects,
          celery, finishes, purge, history, Goto, End, AtRest, Open, Purged
  <2>1. ASSUME NEW u \in Uploaders, Upload(u)
        PROVE  SequentialOK'
    BY <2>1 DEF Upload, UploadCheck, UploadPut, StoredBy, UploadAbort
  <2>2. ASSUME NEW f \in Finishers, FinishAny(f)
        PROVE  SequentialOK'
    <3>1. CASE FinishRead(f)
      <4>1. ASSUME ~overlapped'
            PROVE  ~overlapped /\ \A g \in Finishers : fpc[g] \in AtRest
        BY <3>1, <4>1, Zenon DEF FinishRead
      <4> QED
        BY <3>1, <4>1 DEF FinishRead, Finishable
    <3>2. CASE FinishFlip(f)
      BY <3>2 DEF FinishFlip, OrmWrite, AtRest
    <3>3. CASE FinishFlipGone(f)
      BY <3>3 DEF FinishFlipGone
    <3>4. CASE FinishList(f)
      BY <3>4 DEF FinishList, AtRest
    <3>5. CASE FinishEmpty(f)
      BY <3>5 DEF FinishEmpty, Reverted, SwapMatches, AtRest
    <3>6. CASE FinishManifest(f)
      BY <3>6 DEF FinishManifest, SwapMatches, AtRest
    <3>7. CASE FinishCommit(f)
      BY <3>7 DEF FinishCommit, AfterCommit, AtRest
    <3>8. CASE FinishLost(f)
      BY <3>8 DEF FinishLost, AtRest
    <3>9. CASE FinishReport(f)
      BY <3>9 DEF FinishReport
    <3>10. CASE FinishDispatch(f)
      BY <3>10 DEF FinishDispatch
    <3>11. CASE FinishAbort(f)
      BY <3>11 DEF FinishAbort, AtRest
    <3> QED
      BY <2>2, <3>1, <3>2, <3>3, <3>4, <3>5, <3>6,
         <3>7, <3>8, <3>9, <3>10, <3>11 DEF FinishAny, FinishStep
  <2>3. CASE Worker
    BY <2>3 DEF Worker, PipelineTake, PipelineEnd
  <2>4. CASE PurgeStep
    BY <2>4 DEF PurgeStep, PurgeRead, PurgeManifestRead, PurgeChunk, PurgeManifest,
                PurgeMeeting, PurgeRecording, PurgeStops, Purged
  <2>5. CASE UNCHANGED vars
    BY <2>5 DEF vars
  <2> QED
    BY <2>1, <2>2, <2>3, <2>4, <2>5 DEF Next, FinishAny, Worker
<1> QED
  BY <1>1, <1>2, TypeCorrect, LockInductive, PTL DEF Spec

\* Retrying finish after any crash, one request at a time, never gives the
\* Meeting a second Recording, nor lets a chunk in behind the listing.
THEOREM SequentialFinish ==
    Spec => [](SequentialFinishRecordsOnce /\ FlipClosesUploads)
<1>1. TypeOK /\ SequentialOK => SequentialFinishRecordsOnce /\ FlipClosesUploads
  BY DEF TypeOK, SequentialOK, SequentialFinishRecordsOnce, OneRecording,
         FlipClosesUploads, AcceptsChunks
<1> QED
  BY <1>1, TypeCorrect, SequentialInductive, PTL

-----------------------------------------------------------------------------
(* AckedChunksInManifest.                                                  *)

\* As long as no two requests overlap, no purge touches the objects of a
\* Meeting that is still being captured: it finds no Recording to go by.
UntouchedOK ==
    ~overlapped /\ status \in Open =>
        /\ erased = {} /\ ppc \in {"idle", "meeting"}
        /\ \A f \in Finishers :
              /\ fpc[f] \in {"swap", "commit"} => snap[f] \subseteq stored
              /\ lock = f => manifest = snap[f]

LEMMA UntouchedInductive == Spec => []UntouchedOK
<1>1. Init => UntouchedOK
  BY CaptureAssumption DEF Init, UntouchedOK
<1>2. TypeOK /\ LockOK /\ SequentialOK /\ UntouchedOK /\ [Next]_vars => UntouchedOK'
  <2> SUFFICES ASSUME TypeOK, LockOK, SequentialOK, UntouchedOK, [Next]_vars,
                      ~overlapped', status' \in Open
               PROVE  UntouchedOK'
    BY DEF UntouchedOK
  <2> USE CaptureAssumption DEF TypeOK, UntouchedOK, row, objects, celery,
          finishes, purge, history, Goto, End, Open
  <2>1. ASSUME NEW u \in Uploaders, Upload(u)
        PROVE  UntouchedOK'
    BY <2>1 DEF Upload, UploadCheck, UploadPut, StoredBy, UploadAbort
  <2>2. ASSUME NEW f \in Finishers, FinishAny(f)
        PROVE  UntouchedOK'
    <3>1. CASE FinishRead(f)
      <4>1. ~overlapped
        BY <3>1, Zenon DEF FinishRead
      <4> QED
        BY <3>1, <4>1 DEF FinishRead, AtRest
    <3>2. CASE FinishFlip(f)
      BY <3>2 DEF FinishFlip, OrmWrite, SequentialOK
    <3>3. CASE FinishFlipGone(f) \/ FinishList(f)
      BY <3>3 DEF FinishFlipGone, FinishList, LockOK
    <3>4. CASE FinishEmpty(f) \/ FinishManifest(f)
      BY <3>4 DEF FinishEmpty, FinishManifest, SwapMatches
    <3>5. CASE FinishCommit(f) \/ FinishLost(f)
      BY <3>5 DEF FinishCommit, FinishLost, AfterCommit
    <3>6. CASE FinishReport(f) \/ FinishDispatch(f)
      BY <3>6 DEF FinishReport, FinishDispatch, LockOK
    <3>7. CASE FinishAbort(f)
      <4>1. /\ fpc' = [fpc EXCEPT ![f] = "retry"] /\ snap' = [snap EXCEPT ![f] = {}]
            /\ UNCHANGED <<overlapped, status, erased, ppc, stored, manifest>>
        BY <3>7 DEF FinishAbort
      <4>2. \A g \in Finishers : lock' = g => g # f /\ lock = g
        BY <3>7 DEF FinishAbort
      <4> QED
        BY <4>1, <4>2
    <3> QED
      BY <2>2, <3>1, <3>2, <3>3, <3>4, <3>5, <3>6, <3>7 DEF FinishAny, FinishStep
  <2>3. CASE Worker
    BY <2>3 DEF Worker, PipelineTake, PipelineEnd, SequentialOK
  <2>4. CASE PurgeStep
    BY <2>4 DEF PurgeStep, PurgeRead, PurgeManifestRead, PurgeChunk, PurgeManifest,
                PurgeMeeting, PurgeRecording, PurgeStops, Purged, SequentialOK
  <2>5. CASE UNCHANGED vars
    BY <2>5 DEF vars
  <2> QED
    BY <2>1, <2>2, <2>3, <2>4, <2>5 DEF Next, FinishAny, Worker
<1> QED
  BY <1>1, <1>2, TypeCorrect, LockInductive, SequentialInductive, PTL DEF Spec

\* The manifest a finish is about to commit lists every chunk acknowledged
\* before that finish began, but for those that a purge of an overlapping
\* finish's Recording has deleted; without overlap it lists them all, and they
\* are in storage, at whatever moment purges begin, end and die.
THEOREM AckedChunksInManifestHolds == Spec => []AckedChunksInManifest
<1>1. TypeOK /\ LockOK /\ ListingOK /\ UntouchedOK => AckedChunksInManifest
  BY CaptureAssumption
     DEF TypeOK, LockOK, ListingOK, UntouchedOK, Open, SwapMatches, AckedChunksInManifest
<1> QED
  BY <1>1, TypeCorrect, LockInductive, ListingInductive, UntouchedInductive, PTL

-----------------------------------------------------------------------------
(* FinishingIsOwned, inductive as it stands.                               *)

\* Whatever crashes, a Meeting in "finishing" is never left to nobody: the
\* request that leads it out is at work, or its client has been told to retry.
THEOREM FinishingIsOwnedHolds == Spec => []FinishingIsOwned
<1>1. Init => FinishingIsOwned
  BY DEF Init, FinishingIsOwned
<1>2. TypeOK /\ FinishingIsOwned /\ [Next]_vars => FinishingIsOwned'
  <2> SUFFICES ASSUME TypeOK, FinishingIsOwned, [Next]_vars
               PROVE  FinishingIsOwned'
    OBVIOUS
  <2> USE DEF TypeOK, FinishingIsOwned, row, objects, celery, finishes,
          purge, history, Goto, End
  <2>1. ASSUME NEW u \in Uploaders, Upload(u)
        PROVE  FinishingIsOwned'
    BY <2>1 DEF Upload, UploadCheck, UploadPut, StoredBy, UploadAbort
  <2>2. ASSUME NEW f \in Finishers, FinishAny(f)
        PROVE  FinishingIsOwned'
    <3>1. CASE FinishRead(f) \/ FinishList(f) \/ FinishReport(f) \/ FinishDispatch(f)
      BY <3>1 DEF FinishRead, FinishList, FinishReport, FinishDispatch
    <3>2. CASE FinishFlip(f) \/ FinishFlipGone(f)
      BY <3>2 DEF FinishFlip, FinishFlipGone
    <3>3. CASE FinishEmpty(f) \/ FinishLost(f)
      BY <3>3 DEF FinishEmpty, Reverted, FinishLost
    <3>4. CASE FinishManifest(f) \/ FinishCommit(f)
      BY <3>4 DEF FinishManifest, FinishCommit
    <3>5. CASE FinishAbort(f)
      BY <3>5 DEF FinishAbort
    <3> QED
      BY <2>2, <3>1, <3>2, <3>3, <3>4, <3>5 DEF FinishAny, FinishStep
  <2>3. CASE Worker
    BY <2>3 DEF Worker, PipelineTake, PipelineEnd
  <2>4. CASE PurgeStep
    BY <2>4 DEF PurgeStep, PurgeRead, PurgeManifestRead, PurgeChunk, PurgeManifest,
                PurgeMeeting, PurgeRecording, PurgeStops, Purged
  <2>5. CASE UNCHANGED vars
    BY <2>5 DEF vars
  <2> QED
    BY <2>1, <2>2, <2>3, <2>4, <2>5 DEF Next, FinishAny, Worker
<1> QED
  BY <1>1, <1>2, TypeCorrect, PTL DEF Spec

-----------------------------------------------------------------------------
(* The refinement of Intake.                                               *)

\* What Intake sees of a capture.
Recording == IF recordings > 0 THEN "stored"
             ELSE IF status \in Open THEN "none" ELSE "purged"
Telling   == \E f \in Finishers : fpc[f] = "dispatch"
Promises  == <<Recording, Telling, queue, overlapped>>

\* One finish at a time: its commit is the Recording, its dispatch the message.
LEMMA FinishRefines ==
    ASSUME TypeOK, LockOK, SequentialOK, NEW f \in Finishers, FinishAny(f)
    PROVE  Promised!Next \/ UNCHANGED Promises
<1> SUFFICES ASSUME ~overlapped, overlapped' = overlapped
             PROVE  Promised!Next \/ UNCHANGED Promises
  <2>1. CASE FinishRead(f)
    <3>1. CASE overlapped'
      BY <3>1 DEF Promised!Next
    <3>2. CASE ~overlapped'
      <4>1. ~overlapped /\ (overlapped' = FALSE)
        BY <2>1, <3>2, Zenon DEF FinishRead
      <4>2. overlapped' = overlapped
        BY <4>1 DEF TypeOK
      <4> QED
        BY <4>1, <4>2
    <3> QED
      BY <3>1, <3>2
  <2>2. CASE ~FinishRead(f)
    <3>1. overlapped' = overlapped
      BY <2>2 DEF FinishAny, FinishStep, FinishFlip, FinishFlipGone, FinishList,
           FinishEmpty, Reverted, FinishManifest, FinishCommit, FinishLost, FinishReport,
           FinishDispatch, FinishAbort, history
    <3> QED
      BY <3>1 DEF Promised!Next
  <2> QED
    BY <2>1, <2>2
<1> USE DEF TypeOK, row, celery, Goto, Open
<1>1. \A g \in Finishers : g # f /\ fpc[f] \notin AtRest => fpc[g] \in AtRest
  BY DEF SequentialOK
<1>2. CASE FinishCommit(f)
  <2>1. status = "finishing" /\ recordings = 0
    BY <1>2, CaptureAssumption DEF FinishCommit, LockOK, SequentialOK
  <2>2. Recording = "none" /\ Recording' = "stored"
    BY <1>2, <2>1 DEF FinishCommit, Recording, Open
  <2>3. ~Telling /\ Telling'
    BY <1>1, <1>2 DEF FinishCommit, Telling, AfterCommit, AtRest
  <2> QED
    BY <1>2, <2>2, <2>3
       DEF FinishCommit, Recording, Telling, Promised!Next, Promised!Store
<1>3. ASSUME ~FinishCommit(f)
      PROVE  Recording' = Recording
  BY <1>3 DEF FinishAny, FinishStep, FinishRead, FinishFlip, FinishFlipGone,
              FinishList, FinishEmpty, Reverted, FinishManifest, FinishLost, FinishReport,
              FinishDispatch, FinishAbort, Recording, OrmWrite, SwapMatches, Purged,
              SequentialOK
<1>4. CASE FinishDispatch(f)
  <2>1. Telling /\ ~Telling' /\ queue' = queue + 1
    BY <1>1, <1>4 DEF FinishDispatch, Telling, AtRest, End
  <2> QED
    BY <1>3, <1>4, <2>1
       DEF FinishDispatch, FinishCommit, Recording, Telling, Promised!Next, Promised!Tell
<1>5. CASE FinishAbort(f) /\ fpc[f] = "dispatch"
  <2>1. Telling /\ ~Telling' /\ queue' = queue
    BY <1>1, <1>5 DEF FinishAbort, Telling, AtRest, End
  <2> QED
    BY <1>3, <1>5, <2>1
       DEF FinishCommit, Recording, Telling, Promised!Next, Promised!Strand
<1>6. CASE ~FinishCommit(f) /\ ~FinishDispatch(f) /\ ~(FinishAbort(f) /\ fpc[f] = "dispatch")
  <2> USE DEF FinishAny, FinishStep, FinishRead, FinishFlip, FinishFlipGone,
              FinishList, FinishEmpty, Reverted, FinishManifest, FinishLost, FinishReport,
              FinishAbort, End, AtRest
  <2>1. queue' = queue
    BY <1>6
  <2>2. /\ \A g \in Finishers \ {f} : fpc'[g] = fpc[g]
        /\ fpc[f] # "dispatch" /\ fpc'[f] # "dispatch"
    <3>1. CASE FinishRead(f) \/ FinishFlip(f) \/ FinishFlipGone(f) \/ FinishList(f)
      BY <3>1
    <3>2. CASE FinishEmpty(f) \/ FinishManifest(f) \/ FinishLost(f) \/ FinishReport(f)
      BY <3>2 DEF SwapMatches
    <3>3. CASE FinishAbort(f)
      BY <1>6, <3>3
    <3> QED
      BY <1>6, <3>1, <3>2, <3>3
  <2>3. Telling' = Telling
    BY <2>2 DEF Telling
  <2> QED
    BY <1>3, <1>6, <2>1, <2>3 DEF Promises
<1> QED
  BY <1>2, <1>4, <1>5, <1>6

\* A browser capture, with its crashes, retries and stragglers, implements
\* what Intake promises of a Meeting.
THEOREM KeepsPromiseHolds == Spec => KeepsPromise
<1>1. Init => Promised!Init
  <2> SUFFICES ASSUME Init PROVE Promised!Init
    OBVIOUS
  <2>1. ~overlapped
    BY Zenon DEF Init
  <2> QED
    BY <2>1 DEF Init, Promised!Init
<1>2. TypeOK /\ LockOK /\ SequentialOK /\ UntouchedOK /\ [Next]_vars
        => [Promised!Next]_(Promised!vars)
  <2> SUFFICES ASSUME TypeOK, LockOK, SequentialOK, UntouchedOK, [Next]_vars
               PROVE  Promised!Next \/ UNCHANGED Promises
    BY DEF Promised!vars, Promises, Recording, Telling, Open
  <2> USE DEF Promises, Recording, Telling, Open
  <2>1. ASSUME NEW u \in Uploaders, Upload(u)
        PROVE  UNCHANGED Promises
    BY <2>1 DEF Upload, UploadCheck, UploadPut, StoredBy, UploadAbort, row, celery,
                finishes, history
  <2>2. ASSUME NEW f \in Finishers, FinishAny(f)
        PROVE  Promised!Next \/ UNCHANGED Promises
    BY <2>2, FinishRefines
  <2>3. CASE PipelineTake
    <3>1. queue > 0 /\ queue' = queue - 1
      BY <2>3 DEF PipelineTake
    <3>2. UNCHANGED <<Telling, overlapped>>
      BY <2>3 DEF PipelineTake, finishes
    <3>3. ~overlapped => UNCHANGED Recording
      BY <2>3 DEF PipelineTake, SequentialOK, Open, TypeOK
    <3>4. overlapped => overlapped'
      BY <3>2
    <3> QED
      BY <3>1, <3>2, <3>3, <3>4 DEF Promised!Next, Promised!Take, TypeOK
  <2>4. CASE PipelineEnd
    <3>1. UNCHANGED <<Telling, overlapped, queue>>
      BY <2>4 DEF PipelineEnd, finishes, history
    <3>2. ~overlapped => UNCHANGED Recording
      BY <2>4 DEF PipelineEnd, SequentialOK, Open, TypeOK
    <3> QED
      BY <3>1, <3>2 DEF Promised!Next
  <2>5. CASE PurgeStep
    <3>1. UNCHANGED <<Telling, overlapped, queue>>
      BY <2>5 DEF PurgeStep, PurgeRead, PurgeManifestRead, PurgeChunk, PurgeManifest,
                  PurgeMeeting, PurgeRecording, PurgeStops, celery, finishes, history
    <3>2. CASE PurgeMeeting \/ PurgeRecording
      <4>1. CASE overlapped
        BY <3>1, <4>1 DEF Promised!Next
      <4>2. CASE ~overlapped
        <5>1. Recording' = "purged"
          BY <3>2, <4>2 DEF PurgeMeeting, PurgeRecording, Recording, Open, Purged,
                            UntouchedOK
        <5> QED
          BY <3>1, <4>2, <5>1 DEF Promised!Next, Promised!Purge, Recording, Telling
      <4> QED
        BY <4>1, <4>2
    <3>3. CASE ~(PurgeMeeting \/ PurgeRecording)
      <4>1. UNCHANGED <<status, recordings>>
        BY <2>5, <3>3 DEF PurgeStep, PurgeRead, PurgeManifestRead, PurgeChunk,
                          PurgeManifest, PurgeStops, row
      <4> QED
        BY <3>1, <4>1
    <3> QED
      BY <3>2, <3>3
  <2>6. CASE UNCHANGED vars
    BY <2>6 DEF vars, row, celery, finishes, history
  <2> QED
    BY <2>1, <2>2, <2>3, <2>4, <2>5, <2>6 DEF Next, FinishAny
<1> QED
  BY <1>1, <1>2, TypeCorrect, LockInductive, SequentialInductive,
     UntouchedInductive, PTL
     DEF Spec, KeepsPromise, Promised!Spec

=============================================================================
