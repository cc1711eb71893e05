--------------------------- MODULE BotIngestProofs ---------------------------
(***************************************************************************)
(* What TLAPS proves of BotIngest for every number of starts, uploads,     *)
(* finishes and sweeps in flight: the types, that a session is one Meeting *)
(* with one Recording, and that no acknowledged chunk is left out.         *)
(***************************************************************************)
EXTENDS BotIngest, TLAPS

-----------------------------------------------------------------------------
(* Types.                                                                  *)

FailedStages == {"none", "bot_ingest", "bot_ingest_finish_stuck", "normalize", "stage"}
Rows         == [status : Statuses \cup {Absent}, failedStage : FailedStages]

\* An attribute assignment leaves a row.
LEMMA AssignType ==
    ASSUME row \in Rows, NEW old \in Rows,
           NEW st \in Statuses, NEW fs \in FailedStages
    PROVE  Assign(old, st, fs) \in Rows
BY DEF Assign, OrmWrite, Rows

\* Every variable keeps its type.
THEOREM TypeCorrect == Spec => []TypeOK
<1>1. Init => TypeOK
  <2> SUFFICES ASSUME Init PROVE TypeOK
    OBVIOUS
  <2>1. quiet \in BOOLEAN /\ overlapped \in BOOLEAN
    BY Zenon DEF Init
  <2> QED
    BY <2>1 DEF Init, TypeOK, Fresh, Statuses, LiveStatuses
<1>2. TypeOK /\ [Next]_vars => TypeOK'
  <2> SUFFICES ASSUME TypeOK, [Next]_vars
               PROVE  TypeOK'
    OBVIOUS
  <2> USE DEF TypeOK, database, objects, celery, finishes, uploads, sweeps, history, purge
  <2>1. ASSUME NEW s \in Starters, Start(s)
        PROVE  TypeOK'
    <3>1. CASE StartRead(s) \/ StartReplay(s)
      BY <3>1 DEF StartRead, StartReplay
    <3>2. CASE StartInsert(s)
      BY <3>2 DEF StartInsert, Fresh, Statuses, LiveStatuses
    <3> QED
      BY <2>1, <3>1, <3>2 DEF Start
  <2>2. ASSUME NEW u \in Uploaders, NEW c \in Chunks, UploadCheck(u, c)
        PROVE  TypeOK'
    BY <2>2 DEF UploadCheck
  <2>3. ASSUME NEW u \in Uploaders, Upload(u)
        PROVE  TypeOK'
    <3>1. CASE UploadPut(u)
      BY <3>1 DEF UploadPut, StoredBy
    <3>2. CASE UploadCommit(u)
      <4>1. quiet' \in BOOLEAN
        BY <3>2, Zenon DEF UploadCommit
      <4>2. acked' \subseteq Chunks
        BY <3>2 DEF UploadCommit
      <4> QED
        BY <3>2, <4>1, <4>2 DEF UploadCommit
    <3>3. CASE UploadAbort(u)
      BY <3>3 DEF UploadAbort
    <3> QED
      BY <2>3, <3>1, <3>2, <3>3 DEF Upload
  <2>4. ASSUME NEW f \in Finishers, FinishRead(f)
        PROVE  TypeOK'
    <3>1. overlapped' \in BOOLEAN
      BY <2>4, Zenon DEF FinishRead
    <3> QED
      BY <2>4, <3>1 DEF FinishRead, Goto
  <2>5. ASSUME NEW f \in Finishers, FinishFlip(f)
        PROVE  TypeOK'
    <3>1. row' \in Rows
      BY <2>5, AssignType DEF FinishFlip, Rows, FailedStages, Statuses, LiveStatuses
    <3> QED
      BY <2>5, <3>1 DEF FinishFlip, Goto, Rows, FailedStages
  <2>6. ASSUME NEW f \in Finishers, FinishList(f) \/ FinishLoad(f)
        PROVE  TypeOK'
    <3>1. CASE FinishList(f)
      BY <3>1 DEF FinishList, Goto
    <3>2. CASE FinishLoad(f)
      BY <3>2 DEF FinishLoad, Goto
    <3> QED
      BY <2>6, <3>1, <3>2
  <2>7. ASSUME NEW f \in Finishers, FinishEmpty(f)
        PROVE  TypeOK'
    <3>1. row' \in Rows
      BY <2>7, AssignType DEF FinishEmpty, Rows, FailedStages, Statuses, LiveStatuses
    <3> QED
      BY <2>7, <3>1
         DEF FinishEmpty, Answer, Forget, Fresh, Rows, FailedStages, Statuses, LiveStatuses
  <2>8. ASSUME NEW f \in Finishers, FinishCommit(f)
        PROVE  TypeOK'
    <3>1. row' \in Rows
      BY <2>8, AssignType DEF FinishCommit, Forget, Fresh, Rows, FailedStages, Statuses, LiveStatuses
    <3> QED
      BY <2>8, <3>1
         DEF FinishCommit, Forget, Fresh, Goto, Rows, FailedStages, Statuses, LiveStatuses
  <2>9. ASSUME NEW f \in Finishers, FinishGone(f) \/ FinishDispatch(f) \/ FinishAbort(f)
        PROVE  TypeOK'
    <3> USE DEF Answer, Forget, Fresh, Statuses, LiveStatuses
    <3>1. CASE FinishGone(f)
      BY <3>1 DEF FinishGone
    <3>2. CASE FinishDispatch(f)
      BY <3>2 DEF FinishDispatch
    <3>3. CASE FinishAbort(f)
      BY <3>3 DEF FinishAbort
    <3> QED
      BY <2>9, <3>1, <3>2, <3>3
  <2>10. ASSUME NEW w \in Sweepers, SweepSelect(w) \/ SweepRead(w) \/ SweepLeave(w)
         PROVE  TypeOK'
    <3>1. CASE SweepSelect(w)
      BY <3>1 DEF SweepSelect
    <3>2. CASE SweepRead(w)
      BY <3>2 DEF SweepRead
    <3>3. CASE SweepLeave(w)
      BY <3>3 DEF SweepLeave
    <3> QED
      BY <2>10, <3>1, <3>2, <3>3
  <2>11. ASSUME NEW w \in Sweepers, SweepWrite(w)
         PROVE  TypeOK'
    <3>1. row' \in Rows
      BY <2>11, AssignType DEF SweepWrite, Rows, FailedStages, Statuses, LiveStatuses
    <3> QED
      BY <2>11, <3>1
         DEF SweepWrite, Fresh, Rows, FailedStages, Statuses, LiveStatuses
  <2>12. ASSUME NEW w \in Sweepers, SweepSkip(w)
         PROVE  TypeOK'
    BY <2>12 DEF SweepSkip, Fresh, Statuses, LiveStatuses
  <2>13. CASE GoQuiet \/ PurgeStep
    <3>1. CASE GoQuiet
      BY <3>1 DEF GoQuiet
    <3>2. CASE PurgeMeeting
      <4>1. row' \in Rows
        BY <3>2 DEF PurgeMeeting, Rows, FailedStages, Statuses
      <4>2. quiet' \in BOOLEAN
        BY <3>2, Zenon DEF PurgeMeeting
      <4> QED
        BY <3>2, <4>1, <4>2 DEF PurgeMeeting, Rows, FailedStages
    <3>5. CASE PurgeRecording
      BY <3>5 DEF PurgeRecording
    <3>3. CASE PurgeRead \/ PurgeManifestRead \/ PurgeManifest \/ PurgeStops
      BY <3>3 DEF PurgeRead, PurgeManifestRead, PurgeManifest, PurgeStops
    <3>4. CASE \E c \in Chunks : PurgeChunk(c)
      BY <3>4 DEF PurgeChunk
    <3> QED
      BY <2>13, <3>1, <3>2, <3>3, <3>4, <3>5 DEF PurgeStep
  <2>14. CASE PipelineTake \/ PipelineEnd
    BY <2>14
       DEF PipelineTake, PipelineEnd, SetStatus, Statuses, LiveStatuses
  <2>15. CASE UNCHANGED vars
    BY <2>15 DEF vars
  <2> QED
    BY <2>1, <2>2, <2>3, <2>4, <2>5, <2>6, <2>7, <2>8, <2>9, <2>10, <2>11, <2>12,
       <2>13, <2>14, <2>15
       DEF Next, FinishStep, SweepStep
<1> QED
  BY <1>1, <1>2, PTL DEF Spec

-----------------------------------------------------------------------------
(* One Meeting, one Recording.                                             *)

\* The session, its Meeting and what is at work on it.
SessionKept ==
    /\ meetings = IF session = NoOne THEN {} ELSE {session}
    /\ session = NoOne <=> row.status \in {Absent, Purged}
    /\ session = NoOne => recordings = 0
    /\ row.status = Absent => /\ \A f \in Finishers : fpc[f] = "idle"
                              /\ \A w \in Sweepers : wpc[w] = "idle"
                              /\ queue = 0 /\ running = 0

\* A finish flips a row it has read as "capturing", and none is after that.
Flipped ==
    \A f \in Finishers :
        /\ fpc[f] = "flip" => loaded[f].status = "capturing"
        /\ fpc[f] \in {"list", "load", "empty", "commit", "dispatch"} =>
               row.status # "capturing"

\* While no two finishes overlap, the one in flight finds no Recording.
FinishedOnce ==
    ~overlapped =>
        /\ \A f, g \in Finishers : fpc[f] # "idle" /\ fpc[g] # "idle" => f = g
        /\ \A f \in Finishers : fpc[f] \notin {"idle", "dispatch"} => recordings = 0
        /\ row.status = "capturing" => recordings = 0
        /\ recordings <= 1

SessionInv == SessionKept /\ Flipped /\ FinishedOnce

\* A start inserts the Meeting and its session, or neither.
LEMMA StartSession ==
    ASSUME TypeOK, SessionInv, NEW s \in Starters, Start(s)
    PROVE  SessionInv'
<1> USE BotAssumption
        DEF TypeOK, SessionInv, SessionKept, Flipped, FinishedOnce, database, celery,
            finishes, sweeps, history
<1>1. CASE StartRead(s) \/ StartReplay(s)
  BY <1>1 DEF StartRead, StartReplay
<1>2. CASE StartInsert(s)
  <2>1. row.status = Absent
    BY <1>2 DEF StartInsert
  <2> QED
    BY <1>2, <2>1 DEF StartInsert, Fresh, Absent, Purged
<1> QED
  BY <1>1, <1>2 DEF Start

\* A finish.
LEMMA FinishSession ==
    ASSUME TypeOK, SessionInv, NEW f \in Finishers,
           FinishRead(f) \/ FinishStep(f) \/ FinishAbort(f)
    PROVE  SessionInv'
<1> USE DEF TypeOK, SessionInv, SessionKept, Flipped, FinishedOnce, Absent, Purged,
            database, celery, finishes, sweeps, history
<1>1. CASE FinishRead(f)
  <2>1. overlapped' <=> overlapped \/ \E g \in Finishers : fpc[g] # "idle"
    BY <1>1, Zenon DEF FinishRead
  <2> QED
    BY <1>1, <2>1 DEF FinishRead, Goto, Finishable
<1>2. CASE FinishFlip(f)
  <2>1. row'.status = "finishing"
    BY <1>2 DEF FinishFlip, Goto, Assign, OrmWrite
  <2> QED
    BY <1>2, <2>1 DEF FinishFlip, Goto
<1>3. CASE FinishList(f)
  BY <1>3 DEF FinishList, Goto
<1>4. CASE FinishLoad(f)
  <2>1. UNCHANGED <<database, celery, sweeps, overlapped>>
    BY <1>4 DEF FinishLoad
  <2>2. /\ fpc[f] = "load" /\ \E pc \in {"empty", "commit"} : fpc' = [fpc EXCEPT ![f] = pc]
        /\ loaded' = [loaded EXCEPT ![f] = row]
    BY <1>4 DEF FinishLoad, Goto
  <2> QED
    BY <2>1, <2>2
<1>5. CASE FinishEmpty(f)
  <2>1. row'.status \in {row.status, "failed"}
    BY <1>5 DEF FinishEmpty, Assign, OrmWrite
  <2> QED
    BY <1>5, <2>1 DEF FinishEmpty, Answer, Forget
<1>6. CASE FinishCommit(f)
  <2>1. row'.status \in {row.status, "pending"}
    BY <1>6 DEF FinishCommit, Forget, Assign, OrmWrite
  <2> QED
    BY <1>6, <2>1 DEF FinishCommit, Forget, Goto
<1>7. CASE FinishGone(f)
  BY <1>7 DEF FinishGone, Answer, Forget
<1>8. CASE FinishDispatch(f)
  BY <1>8 DEF FinishDispatch, Answer, Forget
<1>9. CASE FinishAbort(f)
  BY <1>9 DEF FinishAbort, Answer, Forget
<1> QED
  BY <1>1, <1>2, <1>3, <1>4, <1>5, <1>6, <1>7, <1>8, <1>9 DEF FinishStep

\* The sweep, the pipeline and the purge: none takes a Meeting back to
\* "capturing" or adds a Recording.
LEMMA OtherSession ==
    ASSUME TypeOK, SessionInv,
           \/ \E w \in Sweepers : SweepStep(w) \/ SweepSkip(w)
           \/ PipelineTake \/ PipelineEnd \/ PurgeMeeting \/ PurgeRecording
    PROVE  SessionInv'
<1> USE DEF TypeOK, SessionInv, SessionKept, Flipped, FinishedOnce, Absent, Purged,
            database, celery, finishes, sweeps, history
<1>1. ASSUME NEW w \in Sweepers, SweepWrite(w)
      PROVE  SessionInv'
  <2>1. row'.status \in {row.status, "failed"}
    BY <1>1 DEF SweepWrite, Assign, OrmWrite
  <2> QED
    BY <1>1, <2>1 DEF SweepWrite
<1>2. ASSUME NEW w \in Sweepers,
             SweepSelect(w) \/ SweepRead(w) \/ SweepLeave(w) \/ SweepSkip(w)
      PROVE  SessionInv'
  <2>1. UNCHANGED <<database, celery, finishes, overlapped>>
    BY <1>2 DEF SweepSelect, SweepRead, SweepLeave, SweepSkip
  <2>2. row.status = Absent => \A v \in Sweepers : wpc'[v] = "idle"
    BY <1>2 DEF SweepSelect, SweepRead, SweepLeave, SweepSkip, Open
  <2> QED
    BY <2>1, <2>2
<1>3. CASE PipelineTake
  BY <1>3 DEF PipelineTake, SetStatus
<1>4. CASE PipelineEnd
  BY <1>4 DEF PipelineEnd, SetStatus
<1>5. CASE PurgeMeeting \/ PurgeRecording
  BY <1>5 DEF PurgeMeeting, PurgeRecording
<1> QED
  BY <1>1, <1>2, <1>3, <1>4, <1>5 DEF SweepStep

\* Uploads and time.
LEMMA UploadSession ==
    ASSUME SessionInv,
           UNCHANGED <<meetings, session, row, recordings, celery, finishes, sweeps,
                       overlapped>>
    PROVE  SessionInv'
BY DEF SessionInv, SessionKept, Flipped, FinishedOnce, celery, finishes, sweeps

\* Every step preserves the three parts together.
LEMMA SessionInvHolds == Spec => []SessionInv
<1>1. Init => SessionInv
  BY DEF Init, SessionInv, SessionKept, Flipped, FinishedOnce, Absent, Purged
<1>2. TypeOK /\ SessionInv /\ [Next]_vars => SessionInv'
  <2> SUFFICES ASSUME TypeOK, SessionInv, [Next]_vars
               PROVE  SessionInv'
    OBVIOUS
  <2>1. ASSUME NEW u \in Uploaders, Upload(u) \/ \E c \in Chunks : UploadCheck(u, c)
        PROVE  SessionInv'
    BY <2>1, UploadSession
       DEF Upload, UploadPut, UploadCommit, UploadAbort, UploadCheck, database, history
  <2>2. CASE GoQuiet
    BY <2>2, UploadSession DEF GoQuiet, history
  <2>3. CASE PurgeStep /\ ~PurgeMeeting /\ ~PurgeRecording
    BY <2>3, UploadSession
       DEF PurgeStep, PurgeRead, PurgeManifestRead, PurgeChunk, PurgeManifest,
           PurgeStops, database, history
  <2>4. CASE UNCHANGED vars
    BY <2>4, UploadSession DEF vars, database, history
  <2> QED
    BY <2>1, <2>2, <2>3, <2>4, StartSession, FinishSession, OtherSession DEF Next
<1> QED
  BY <1>1, <1>2, TypeCorrect, PTL DEF Spec

\* However often a bot starts and finishes a session, it is one Meeting with
\* one Recording, unless two finishes were in flight together.
THEOREM SessionRecordedOnceHolds == Spec => []SessionRecordedOnce
<1>1. SessionInv => SessionRecordedOnce
  BY DEF SessionInv, SessionKept, FinishedOnce, SessionRecordedOnce
<1> QED
  BY <1>1, SessionInvHolds, PTL

-----------------------------------------------------------------------------
(* No acknowledged chunk is lost.                                          *)

\* Only a purge takes chunks away.  But for those it has deleted, every chunk
\* that was acknowledged is in the store, and every chunk a finish must find is
\* in whatever a finish past its listing has listed, hence in the manifest when
\* a finish commits: nobody begins a finish once another has flipped the row.
ChunksKept ==
    /\ acked \subseteq stored \cup erased
    /\ \A u \in Uploaders : upc[u] = "touch" => useq[u] \in stored \cup erased
    /\ \A f \in Finishers : need[f] \subseteq acked
    /\ \A f, g \in Finishers :
           /\ fpc[g] \in {"load", "empty", "commit"} => need[f] \subseteq snap[g] \cup erased
           /\ fpc[g] = "empty" => snap[g] = {}
           /\ fpc[g] = "commit" => need[f] \subseteq manifest \cup erased

\* A purge finds objects by a Recording only, which a manifest comes before.
Listed == manifest # {} \/ erased # {}

PurgeFollows ==
    /\ ppc \in {"manifest", "objects", "recording"} => recordings # 0
    /\ recordings # 0 => Listed
    /\ \A f \in Finishers : fpc[f] = "commit" => Listed
    /\ ppc = "recording" => erased # {}
    /\ row.status = Absent => erased = {} /\ ppc = "idle"
    /\ ~overlapped /\ (erased # {} \/ ppc \in {"manifest", "objects", "recording"})
         => /\ row.status # "capturing"
            /\ \A f \in Finishers : fpc[f] \in {"idle", "dispatch"}

ChunkInv == ChunksKept /\ PurgeFollows

\* A finish: the listing is taken after the chunks it must hold were stored.
LEMMA FinishKeepsChunks ==
    ASSUME TypeOK, SessionInv, ChunkInv, NEW f \in Finishers,
           FinishRead(f) \/ FinishStep(f) \/ FinishAbort(f)
    PROVE  ChunkInv'
<1> USE DEF TypeOK, ChunkInv, ChunksKept, PurgeFollows, Listed, database, objects,
            uploads, history, purge, Assign, OrmWrite, Absent
<1>1. CASE FinishRead(f)
  <2>1. \A g \in Finishers : fpc[g] \notin {"list", "load", "empty", "commit"}
    BY <1>1 DEF FinishRead, Finishable, SessionInv, Flipped
  <2>2. overlapped => overlapped'
    BY <1>1, Zenon DEF FinishRead
  <2>3. ~overlapped => erased = {} /\ ppc \in {"idle", "meeting"}
    BY <1>1 DEF FinishRead, Finishable
  <2> QED
    BY <1>1, <2>1, <2>2, <2>3 DEF FinishRead, Goto
<1>2. CASE FinishFlip(f)
  BY <1>2 DEF FinishFlip, Goto
<1>3. CASE FinishList(f)
  BY <1>3 DEF FinishList, Goto
<1>4. CASE FinishLoad(f)
  <2>1. CASE snap[f] = {}
    BY <1>4, <2>1 DEF FinishLoad, Goto
  <2>2. CASE snap[f] # {}
    BY <1>4, <2>2 DEF FinishLoad, Goto
  <2> QED
    BY <2>1, <2>2
<1>5. CASE FinishCommit(f)
  BY <1>5 DEF FinishCommit, Forget, Goto
<1>6. CASE FinishEmpty(f)
  BY <1>6 DEF FinishEmpty, Answer, Forget
<1>7. CASE FinishGone(f)
  BY <1>7 DEF FinishGone, Answer, Forget
<1>8. CASE FinishDispatch(f)
  BY <1>8 DEF FinishDispatch, Answer, Forget
<1>9. CASE FinishAbort(f)
  BY <1>9 DEF FinishAbort, Answer, Forget
<1> QED
  BY <1>1, <1>2, <1>3, <1>4, <1>5, <1>6, <1>7, <1>8, <1>9 DEF FinishStep

\* An upload: the answer comes after the put.
LEMMA UploadKeepsChunks ==
    ASSUME TypeOK, ChunkInv, NEW u \in Uploaders,
           Upload(u) \/ \E c \in Chunks : UploadCheck(u, c)
    PROVE  ChunkInv'
<1> USE DEF TypeOK, ChunkInv, ChunksKept, PurgeFollows, Listed, database, objects,
            finishes, history, purge
<1>1. ASSUME NEW c \in Chunks, UploadCheck(u, c)
      PROVE  ChunkInv'
  BY <1>1 DEF UploadCheck
<1>2. CASE UploadPut(u)
  BY <1>2 DEF UploadPut, StoredBy
<1>3. CASE UploadCommit(u)
  BY <1>3 DEF UploadCommit
<1>4. CASE UploadAbort(u)
  BY <1>4 DEF UploadAbort
<1> QED
  BY <1>1, <1>2, <1>3, <1>4 DEF Upload

\* A purge: what it deletes it has found by a Recording, which no finish comes
\* after unless it overlapped the one that inserted it.
LEMMA PurgeKeepsChunks ==
    ASSUME TypeOK, SessionInv, ChunkInv, PurgeStep
    PROVE  ChunkInv'
<1> USE DEF TypeOK, ChunkInv, ChunksKept, PurgeFollows, Listed, database, objects,
            finishes, uploads, history
<1>1. CASE PurgeRead
  BY <1>1 DEF PurgeRead, SessionInv, SessionKept, FinishedOnce, Absent, Purged
<1>2. CASE PurgeManifestRead
  BY <1>2 DEF PurgeManifestRead
<1>3. ASSUME NEW c \in Chunks, PurgeChunk(c)
      PROVE  ChunkInv'
  BY <1>3 DEF PurgeChunk
<1>4. CASE PurgeManifest
  BY <1>4 DEF PurgeManifest
<1>5. CASE PurgeMeeting
  <2>1. row'.status = "purged" /\ recordings' = 0 /\ ppc' = "idle"
    BY <1>5 DEF PurgeMeeting, Purged
  <2> QED
    BY <1>5, <2>1 DEF PurgeMeeting, Absent
<1>7. CASE PurgeRecording
  BY <1>7 DEF PurgeRecording
<1>6. CASE PurgeStops
  BY <1>6 DEF PurgeStops
<1> QED
  BY <1>1, <1>2, <1>3, <1>4, <1>5, <1>6, <1>7 DEF PurgeStep

\* Starts, sweeps, time and the pipeline leave the chunks alone, and none of
\* them takes a Meeting back to "capturing".
LEMMA OtherKeepsChunks ==
    ASSUME TypeOK, ChunkInv,
           UNCHANGED <<objects, finishes, uploads, purge, recordings, acked, need, overlapped>>,
           row'.status = Absent => row.status = Absent,
           row'.status = "capturing" => row.status \in {"capturing", Absent}
    PROVE  ChunkInv'
BY DEF ChunkInv, ChunksKept, PurgeFollows, Listed, objects, finishes, uploads, purge

\* Every step preserves what is known of the chunks.
LEMMA ChunkInvHolds == Spec => []ChunkInv
<1>1. Init => ChunkInv
  BY DEF Init, ChunkInv, ChunksKept, PurgeFollows
<1>2. TypeOK /\ SessionInv /\ ChunkInv /\ [Next]_vars => ChunkInv'
  <2> SUFFICES ASSUME TypeOK, SessionInv, ChunkInv, [Next]_vars
               PROVE  ChunkInv'
    OBVIOUS
  <2>1. ASSUME NEW s \in Starters, Start(s)
        PROVE  ChunkInv'
    BY <2>1, OtherKeepsChunks
       DEF Start, StartRead, StartInsert, StartReplay, database, history, Fresh,
           SessionInv, SessionKept, Absent, Purged
  <2>2. ASSUME NEW w \in Sweepers, SweepStep(w) \/ SweepSkip(w)
        PROVE  ChunkInv'
    <3>1. row'.status \in {row.status, "failed"}
      BY <2>2 DEF SweepStep, SweepSelect, SweepRead, SweepLeave, SweepWrite, SweepSkip,
                  database, Assign, OrmWrite
    <3> QED
      BY <2>2, <3>1, OtherKeepsChunks
         DEF SweepStep, SweepSelect, SweepRead, SweepLeave, SweepWrite, SweepSkip,
             database, history, Absent
  <2>3. CASE GoQuiet \/ PipelineTake \/ PipelineEnd
    BY <2>3, OtherKeepsChunks DEF GoQuiet, PipelineTake, PipelineEnd, SetStatus, Absent, history
  <2>4. CASE UNCHANGED vars
    BY <2>4, OtherKeepsChunks DEF vars, database, history
  <2> QED
    BY <2>1, <2>2, <2>3, <2>4, FinishKeepsChunks, UploadKeepsChunks,
       PurgeKeepsChunks DEF Next
<1> QED
  BY <1>1, <1>2, TypeCorrect, SessionInvHolds, PTL DEF Spec

\* A finish commits a manifest that lists every chunk acknowledged before it
\* began, and fails no session that has one as empty, at whatever moment purges
\* begin, end and die.
THEOREM AckedChunksInManifestHolds == Spec => []AckedChunksInManifest
<1>1. TypeOK /\ ChunkInv => AckedChunksInManifest
  BY DEF TypeOK, ChunkInv, ChunksKept, PurgeFollows, AckedChunksInManifest
<1> QED
  BY <1>1, TypeCorrect, ChunkInvHolds, PTL

-----------------------------------------------------------------------------
(* The refinement of Intake.                                               *)

\* What Intake sees of a bot session.
Recording == IF recordings > 0 THEN "stored"
             ELSE IF row.status = Purged \/ erased # {} THEN "purged" ELSE "none"
Telling   == \E f \in Finishers : fpc[f] = "dispatch"
Promises  == <<Recording, Telling, queue, overlapped>>

\* A row that is written keeps the kind of status it has.
LEMMA AssignKeepsRow ==
    ASSUME NEW old, NEW st, NEW fs, row.status # Purged, st # Purged,
           row' = Assign(old, st, fs)
    PROVE  row'.status # Purged
BY DEF Assign, OrmWrite

\* One finish at a time: its commit is the Recording, its dispatch the message.
LEMMA FinishRefines ==
    ASSUME TypeOK, SessionInv, ChunkInv, NEW f \in Finishers,
           FinishRead(f) \/ FinishStep(f) \/ FinishAbort(f)
    PROVE  Promised!Next \/ UNCHANGED Promises
<1> USE DEF TypeOK, database, celery, history, purge, Goto, Answer, Forget
<1>1. CASE FinishRead(f)
  <2>1. UNCHANGED <<row, recordings, erased, queue>>
    BY <1>1 DEF FinishRead
  <2>2. Telling' = Telling
    BY <1>1 DEF FinishRead, Telling
  <2>3. CASE overlapped'
    BY <2>3 DEF Promised!Next
  <2>4. CASE ~overlapped'
    <3>1. ~overlapped /\ (overlapped' = FALSE)
      BY <1>1, <2>4, Zenon DEF FinishRead
    <3> QED
      BY <2>1, <2>2, <3>1 DEF Promises, Recording
  <2> QED
    BY <2>3, <2>4
<1>2. CASE ~FinishRead(f)
  <2>1. overlapped' = overlapped
    BY <1>2 DEF FinishStep, FinishFlip, FinishList, FinishLoad, FinishEmpty,
                FinishCommit, FinishGone, FinishDispatch, FinishAbort
  <2>2. CASE overlapped
    BY <2>1, <2>2 DEF Promised!Next
  <2> SUFFICES ASSUME ~overlapped, ~overlapped'
               PROVE  Promised!Next \/ UNCHANGED Promises
    BY <2>1, <2>2
  <2>3. \A g \in Finishers : g # f /\ fpc[f] # "idle" => fpc[g] = "idle"
    BY DEF SessionInv, FinishedOnce
  <2>4. CASE FinishCommit(f)
    <3>1. recordings = 0 /\ recordings' = 1
      BY <2>4 DEF FinishCommit, SessionInv, FinishedOnce
    <3>2. row.status # Purged /\ erased = {}
      BY <2>4 DEF FinishCommit, ChunkInv, PurgeFollows
    <3>3. ~Telling /\ Telling' /\ queue' = queue
      BY <2>3, <2>4 DEF FinishCommit, Telling
    <3> QED
      BY <3>1, <3>2, <3>3 DEF Recording, Telling, Promised!Next, Promised!Store
  <2>5. ASSUME ~FinishCommit(f)
        PROVE  Recording' = Recording
    <3>1. UNCHANGED <<recordings, erased>>
      BY <1>2, <2>5 DEF FinishStep, FinishFlip, FinishList, FinishLoad,
                        FinishEmpty, FinishGone, FinishDispatch, FinishAbort
    <3>2. row.status = Purged <=> row'.status = Purged
      <4>1. CASE FinishFlip(f) \/ FinishEmpty(f)
        BY <4>1, AssignKeepsRow DEF FinishFlip, FinishEmpty, Purged
      <4>2. CASE ~FinishFlip(f) /\ ~FinishEmpty(f)
        BY <1>2, <2>5, <4>2 DEF FinishStep, FinishList, FinishLoad, FinishGone,
                                FinishDispatch, FinishAbort
      <4> QED
        BY <4>1, <4>2
    <3> QED
      BY <3>1, <3>2 DEF Recording
  <2>6. CASE FinishDispatch(f)
    <3>1. Telling /\ ~Telling' /\ queue' = queue + 1
      BY <2>3, <2>6 DEF FinishDispatch, Telling
    <3> QED
      BY <2>5, <2>6, <3>1
         DEF FinishDispatch, FinishCommit, Recording, Telling, Promised!Next, Promised!Tell
  <2>7. CASE FinishAbort(f) /\ fpc[f] = "dispatch"
    <3>1. Telling /\ ~Telling' /\ queue' = queue
      BY <2>3, <2>7 DEF FinishAbort, Telling
    <3> QED
      BY <2>5, <2>7, <3>1
         DEF FinishCommit, Recording, Telling, Promised!Next, Promised!Strand
  <2>8. CASE /\ ~FinishCommit(f) /\ ~FinishDispatch(f)
             /\ ~(FinishAbort(f) /\ fpc[f] = "dispatch")
    <3> USE DEF FinishStep, FinishFlip, FinishList, FinishLoad, FinishEmpty,
                FinishGone, FinishAbort
    <3>1. queue' = queue
      BY <1>2, <2>8
    <3>2. /\ \A g \in Finishers \ {f} : fpc'[g] = fpc[g]
          /\ fpc[f] # "dispatch" /\ fpc'[f] # "dispatch"
      BY <1>2, <2>8
    <3>3. Telling' = Telling
      BY <3>2 DEF Telling
    <3> QED
      BY <2>1, <2>5, <2>8, <3>1, <3>3 DEF Promises
  <2> QED
    BY <2>4, <2>6, <2>7, <2>8
<1> QED
  BY <1>1, <1>2

\* A bot session, with its racing starts, its stragglers, its crashes and the
\* sweep, implements what Intake promises of a Meeting.
THEOREM KeepsPromiseHolds == Spec => KeepsPromise
<1>1. Init => Promised!Init
  <2> SUFFICES ASSUME Init PROVE Promised!Init
    OBVIOUS
  <2>1. ~overlapped
    BY Zenon DEF Init
  <2> QED
    BY <2>1 DEF Init, Promised!Init, Purged, Absent
<1>2. TypeOK /\ SessionInv /\ ChunkInv /\ [Next]_vars
        => [Promised!Next]_(Promised!vars)
  <2> SUFFICES ASSUME TypeOK, SessionInv, ChunkInv, [Next]_vars
               PROVE  Promised!Next \/ UNCHANGED Promises
    BY DEF Promised!vars, Promises, Recording, Telling
  <2> USE DEF Promises, Recording, Telling, database, celery, finishes, history, purge
  <2>1. ASSUME NEW s \in Starters, Start(s)
        PROVE  UNCHANGED Promises
    BY <2>1 DEF Start, StartRead, StartInsert, StartReplay, Fresh, Purged
  <2>2. ASSUME NEW u \in Uploaders, Upload(u) \/ \E c \in Chunks : UploadCheck(u, c)
        PROVE  UNCHANGED Promises
    BY <2>2 DEF Upload, UploadPut, UploadCommit, UploadAbort, UploadCheck
  <2>3. ASSUME NEW f \in Finishers, FinishRead(f) \/ FinishStep(f) \/ FinishAbort(f)
        PROVE  Promised!Next \/ UNCHANGED Promises
    BY <2>3, FinishRefines
  <2>4. ASSUME NEW w \in Sweepers, SweepStep(w) \/ SweepSkip(w)
        PROVE  UNCHANGED Promises
    <3>1. CASE SweepWrite(w)
      <4>1. row.status # Purged /\ row'.status # Purged
        BY <3>1, AssignKeepsRow DEF SweepWrite, Purged
      <4> QED
        BY <3>1, <4>1 DEF SweepWrite
    <3>2. CASE ~SweepWrite(w)
      BY <2>4, <3>2
         DEF SweepStep, SweepSelect, SweepRead, SweepLeave, SweepSkip
    <3> QED
      BY <3>1, <3>2
  <2>5. CASE PipelineTake
    <3>1. queue > 0 /\ queue' = queue - 1
      BY <2>5 DEF PipelineTake
    <3>2. UNCHANGED <<Recording, Telling, overlapped>>
      BY <2>5 DEF PipelineTake, SetStatus, Purged
    <3> QED
      BY <3>1, <3>2 DEF Promised!Next, Promised!Take
  <2>6. CASE PipelineEnd
    BY <2>6 DEF PipelineEnd, SetStatus, Purged
  <2>7. CASE PurgeStep
    <3>1. UNCHANGED <<Telling, overlapped, queue>>
      BY <2>7 DEF PurgeStep, PurgeRead, PurgeManifestRead, PurgeChunk, PurgeManifest,
                  PurgeMeeting, PurgeRecording, PurgeStops
    <3>2. CASE overlapped
      BY <3>1, <3>2 DEF Promised!Next
    <3> SUFFICES ASSUME ~overlapped, ~overlapped'
                 PROVE  Promised!Next \/ UNCHANGED Promises
      BY <3>1, <3>2
    <3>3. CASE PurgeMeeting \/ PurgeRecording
      <4>1. Recording' = "purged"
        BY <3>3 DEF PurgeMeeting, PurgeRecording, ChunkInv, PurgeFollows, TypeOK
      <4> QED
        BY <3>1, <4>1 DEF Promised!Next, Promised!Purge
    <3>4. CASE PurgeStep /\ ~PurgeMeeting /\ ~PurgeRecording
      <4>1. UNCHANGED <<row, recordings>>
        BY <3>4 DEF PurgeStep, PurgeRead, PurgeManifestRead, PurgeChunk,
                    PurgeManifest, PurgeStops
      <4>2. erased' # erased => recordings # 0 \/ erased # {}
        BY <3>4 DEF PurgeStep, PurgeRead, PurgeManifestRead, PurgeChunk,
                    PurgeManifest, PurgeStops, ChunkInv, PurgeFollows
      <4>3. erased # {} => erased' # {}
        BY <3>4 DEF PurgeStep, PurgeRead, PurgeManifestRead, PurgeChunk,
                    PurgeManifest, PurgeStops
      <4> QED
        BY <3>1, <4>1, <4>2, <4>3 DEF TypeOK
    <3> QED
      BY <2>7, <3>3, <3>4
  <2>8. CASE GoQuiet \/ UNCHANGED vars
    BY <2>8 DEF GoQuiet, vars
  <2> QED
    BY <2>1, <2>2, <2>3, <2>4, <2>5, <2>6, <2>7, <2>8 DEF Next
<1> QED
  BY <1>1, <1>2, TypeCorrect, SessionInvHolds, ChunkInvHolds, PTL
     DEF Spec, KeepsPromise, Promised!Spec

=============================================================================
