----------------------------- MODULE BotIngest -----------------------------
(***************************************************************************)
(* Meeting-bot ingest (api/bot.py) and the Celery sweep that closes quiet  *)
(* sessions (pipeline/bot.py), for one (credential, platform meeting).     *)
(*                                                                         *)
(* Start, upload and finish requests and sweep tasks are processes; a step *)
(* is a transaction's read, its commit, or a storage call between them.    *)
(* Unlike browser capture, every write of the Meeting row is an attribute  *)
(* assignment on a row loaded earlier in the transaction, so a commit      *)
(* writes what MeetingRow!OrmWrite says.                                   *)
(*                                                                         *)
(* Bounds: one Meeting (a session started again after the purge of its     *)
(* Meeting would be another one); MaxAborts requests or sweep steps die;   *)
(* MaxPurges purges begin.                                                 *)
(***************************************************************************)
EXTENDS MeetingRow, Naturals

CONSTANTS
    Starters,    \* requests POST /bot/sessions; each names the Meeting it inserts
    Finishers,   \* client slots that call finish, any number of times
    Uploaders,   \* client slots that send chunks
    Sweepers,    \* concurrent executions of sweep_stale_bot_sessions
    Chunks,
    NoOne,
    MaxAborts, MaxPurges

ASSUME BotAssumption ==
    NoOne \notin Starters /\ MaxAborts \in Nat /\ MaxPurges \in Nat

VARIABLES
    meetings,    \* Meeting rows inserted for the session, by inserting request
    session,     \* the Meeting the BotSession row points at, NoOne without a row
    row,         \* that Meeting's status and failed_stage
    recordings,  \* number of its Recording rows
    quiet,       \* last_activity_at is older than STALE_SESSION_SECONDS
    stored, manifest,
    queue, running,
    spc,                       \* start requests
    fpc, loaded, snap,         \* finish requests
    upc, useq,                 \* chunk uploads
    wpc, wloaded,              \* sweeps
    ppc, doomed, \* a purge, and the chunks it has still to delete
    acked,       \* history: chunks whose upload was answered 200
    need,        \* history: acked when the finish request began
    overlapped,  \* history: two finish requests were in flight together
    erased,      \* history: chunks a purge has deleted, or whose listing it has
    aborts, purges

database == <<meetings, session, row, recordings, quiet>>
objects  == <<stored, manifest>>
celery   == <<queue, running>>
finishes == <<fpc, loaded, snap>>
uploads  == <<upc, useq>>
sweeps   == <<wpc, wloaded>>
history  == <<acked, need, overlapped, aborts>>
purge    == <<ppc, doomed, erased, purges>>
vars     == <<database, objects, celery, spc, finishes, uploads, sweeps, purge,
              history>>

Absent == "absent"
Open   == {"capturing", "finishing"}
Fresh  == [status |-> "capturing", failedStage |-> "none"]

\* The row after a session that loaded `old` assigns both columns and commits.
Assign(old, st, fs) ==
    [status      |-> OrmWrite(old.status, st, row.status),
     failedStage |-> OrmWrite(old.failedStage, fs, row.failedStage)]

Init ==
    /\ meetings = {} /\ session = NoOne
    /\ row = [status |-> Absent, failedStage |-> "none"]
    /\ recordings = 0 /\ quiet = FALSE
    /\ stored = {} /\ manifest = {} /\ queue = 0 /\ running = 0
    /\ spc = [s \in Starters |-> "idle"]
    /\ fpc = [f \in Finishers |-> "idle"] /\ loaded = [f \in Finishers |-> Fresh]
    /\ snap = [f \in Finishers |-> {}]
    /\ upc = [u \in Uploaders |-> "idle"] /\ useq \in [Uploaders -> Chunks]
    /\ wpc = [w \in Sweepers |-> "idle"] /\ wloaded = [w \in Sweepers |-> Fresh]
    /\ ppc = "idle" /\ doomed = {} /\ erased = {} /\ purges = 0
    /\ acked = {} /\ need = [f \in Finishers |-> {}]
    /\ overlapped = FALSE /\ aborts = 0

-----------------------------------------------------------------------------
(* start_session.                                                          *)

\* A start that finds the session answers with it and changes nothing.
StartRead(s) ==
    /\ spc[s] = "idle"
    /\ session = NoOne /\ row.status # Purged
    /\ spc' = [spc EXCEPT ![s] = "insert"]
    /\ UNCHANGED <<purge, database, objects, celery, finishes, uploads, sweeps, history>>

StartInsert(s) ==
    /\ spc[s] = "insert" /\ session = NoOne /\ row.status # Purged
    /\ meetings' = meetings \cup {s}
    /\ session' = s
    /\ row' = Fresh
    /\ spc' = [spc EXCEPT ![s] = "idle"]
    /\ UNCHANGED <<purge, recordings, quiet, objects, celery, finishes, uploads,
                   sweeps, history>>

\* Mutation: without the SAVEPOINT the loser's Meeting row stays.
StartReplay_NoSavepoint(s) ==
    /\ spc[s] = "insert" /\ session # NoOne
    /\ meetings' = meetings \cup {s}
    /\ spc' = [spc EXCEPT ![s] = "idle"]
    /\ UNCHANGED <<purge, session, row, recordings, quiet, objects, celery, finishes,
                   uploads, sweeps, history>>

\* The unique constraint refuses the BotSession; the savepoint takes the
\* Meeting back too and the winner's session is the answer.
StartReplay(s) ==
    /\ spc[s] = "insert" /\ session # NoOne
    /\ spc' = [spc EXCEPT ![s] = "idle"]
    /\ UNCHANGED <<purge, database, objects, celery, finishes, uploads, sweeps, history>>

-----------------------------------------------------------------------------
(* upload_chunk: check, put and the activity stamp are one transaction,    *)
(* which locks nothing.                                                    *)

UploadCheck(u, c) ==
    /\ upc[u] = "idle"
    /\ row.status = "capturing"
    /\ upc' = [upc EXCEPT ![u] = "put"]
    /\ useq' = [useq EXCEPT ![u] = c]
    /\ UNCHANGED <<purge, database, objects, celery, spc, finishes, sweeps, history>>

\* Mutation: a put that fails is logged, and the chunk answered all the same.
StoredBy_Swallows(u) == stored
StoredBy(u)          == stored \cup {useq[u]}

UploadPut(u) ==
    /\ upc[u] = "put"
    /\ stored' = StoredBy(u)
    /\ upc' = [upc EXCEPT ![u] = "touch"]
    /\ UNCHANGED <<purge, database, manifest, celery, spc, finishes, useq, sweeps, history>>

\* The stamp of a session whose row the purge's cascade removed raises.
UploadCommit(u) ==
    /\ upc[u] = "touch"
    /\ upc' = [upc EXCEPT ![u] = "idle"]
    /\ IF session = NoOne
         THEN UNCHANGED <<quiet, acked>>
         ELSE quiet' = FALSE /\ acked' = acked \cup {useq[u]}
    /\ UNCHANGED <<purge, meetings, session, row, recordings, objects, celery,
                   spc, finishes, useq, sweeps, need, overlapped, aborts>>

UploadAbort(u) ==
    /\ upc[u] # "idle"
    /\ aborts < MaxAborts
    /\ aborts' = aborts + 1
    /\ upc' = [upc EXCEPT ![u] = "idle"]
    /\ UNCHANGED <<purge, database, objects, celery, spc, finishes, useq, sweeps,
                   acked, need, overlapped>>

-----------------------------------------------------------------------------
(* finish_session.                                                         *)

Goto(f, from, to) == fpc[f] = from /\ fpc' = [fpc EXCEPT ![f] = to]

\* What the request has read is not looked at again.
Forget(f) == /\ loaded' = [loaded EXCEPT ![f] = Fresh]
             /\ snap' = [snap EXCEPT ![f] = {}]
             /\ need' = [need EXCEPT ![f] = {}]

\* The answer ends the request; the client may send another.
Answer(f) == fpc' = [fpc EXCEPT ![f] = "idle"] /\ Forget(f)

\* Mutation: a finish is accepted again after the commit.
Finishable_Late == row.status \in {"capturing", "pending"}

Finishable == row.status = "capturing"

\* A finish in any other status is answered 409, without a session 404, and
\* changes nothing.
FinishRead(f) ==
    /\ Goto(f, "idle", "flip")
    /\ Finishable
    /\ overlapped' = (overlapped \/ \E g \in Finishers : fpc[g] # "idle")
    /\ loaded' = [loaded EXCEPT ![f] = row]
    /\ need' = [need EXCEPT ![f] = acked]
    /\ UNCHANGED <<purge, database, objects, celery, spc, snap, uploads, sweeps,
                   acked, aborts>>

FinishFlip(f) ==
    /\ Goto(f, "flip", "list")
    /\ row.status # Purged
    /\ row' = Assign(loaded[f], "finishing", loaded[f].failedStage)
    /\ UNCHANGED <<purge, meetings, session, recordings, quiet, objects, celery,
                   spc, loaded, snap, uploads, sweeps, history>>

FinishList(f) ==
    /\ Goto(f, "list", "load")
    /\ snap' = [snap EXCEPT ![f] = stored]
    /\ UNCHANGED <<purge, database, objects, celery, spc, loaded, uploads,
                   sweeps, history>>

\* The second transaction loads the row but branches on the listing only; a
\* non-empty one is put as the manifest before anything is written.
FinishLoad(f) ==
    /\ fpc[f] = "load" /\ row.status # Purged
    /\ loaded' = [loaded EXCEPT ![f] = row]
    /\ IF snap[f] = {}
         THEN Goto(f, "load", "empty") /\ UNCHANGED manifest
         ELSE Goto(f, "load", "commit") /\ manifest' = snap[f]
    /\ UNCHANGED <<purge, database, stored, celery, spc, snap, uploads, sweeps, history>>

FinishEmpty(f) ==
    /\ fpc[f] = "empty" /\ row.status # Purged
    /\ row' = Assign(loaded[f], "failed", "bot_ingest")
    /\ Answer(f)
    /\ UNCHANGED <<purge, meetings, session, recordings, quiet, objects, celery, spc,
                   uploads, sweeps, acked, overlapped, aborts>>

FinishCommit(f) ==
    /\ Goto(f, "commit", "dispatch")
    /\ row.status # Purged
    /\ row' = Assign(loaded[f], "pending", loaded[f].failedStage)
    /\ recordings' = recordings + 1
    /\ Forget(f)
    /\ UNCHANGED <<purge, meetings, session, quiet, objects, celery, spc,
                   uploads, sweeps, acked, overlapped, aborts>>

\* The Meeting was purged under the request: its statement matches no row or
\* violates the foreign key.  A non-empty finish that loads nothing has put
\* its manifest before it touches the missing row (lines 238-241).
FinishGone(f) ==
    /\ fpc[f] \in {"flip", "load", "empty", "commit"} /\ row.status = Purged
    /\ manifest' = IF fpc[f] = "load" /\ snap[f] # {} THEN snap[f] ELSE manifest
    /\ Answer(f)
    /\ UNCHANGED <<purge, database, stored, celery, spc, uploads, sweeps,
                   acked, overlapped, aborts>>

FinishDispatch(f) ==
    /\ fpc[f] = "dispatch"
    /\ queue' = queue + 1
    /\ Answer(f)
    /\ UNCHANGED <<purge, database, objects, running, spc, uploads, sweeps,
                   acked, overlapped, aborts>>

FinishAbort(f) ==
    /\ fpc[f] # "idle"
    /\ aborts < MaxAborts
    /\ aborts' = aborts + 1
    /\ Answer(f)
    /\ UNCHANGED <<purge, database, objects, celery, spc, uploads, sweeps,
                   acked, overlapped>>

-----------------------------------------------------------------------------
(* sweep_stale_bot_sessions.                                               *)

SweepSelect(w) ==
    /\ wpc[w] = "idle"
    /\ row.status \in Open /\ quiet
    /\ wpc' = [wpc EXCEPT ![w] = "read"]
    /\ UNCHANGED <<purge, database, objects, celery, spc, finishes, uploads, wloaded,
                   history>>

\* Mutation: only "capturing" is swept, as before finish was made two-phase.
Swept_CapturingOnly == {"capturing"}
Swept               == Open

\* Each row is read again in a transaction of its own: its status, not its
\* session's last activity.
SweepRead(w) ==
    /\ wpc[w] = "read" /\ row.status \in Swept
    /\ wloaded' = [wloaded EXCEPT ![w] = row]
    /\ wpc' = [wpc EXCEPT ![w] = "write"]
    /\ UNCHANGED <<purge, database, objects, celery, spc, finishes, uploads, history>>

SweepLeave(w) ==
    /\ wpc[w] = "read" /\ row.status \notin Swept
    /\ wpc' = [wpc EXCEPT ![w] = "idle"]
    /\ UNCHANGED <<purge, database, objects, celery, spc, finishes, uploads, wloaded,
                   history>>

SweepWrite(w) ==
    /\ wpc[w] = "write"
    /\ row.status # Purged
    /\ row' = Assign(wloaded[w], "failed",
                     IF wloaded[w].status = "capturing" THEN "bot_ingest"
                                                        ELSE "bot_ingest_finish_stuck")
    /\ wpc' = [wpc EXCEPT ![w] = "idle"]
    /\ wloaded' = [wloaded EXCEPT ![w] = Fresh]
    /\ UNCHANGED <<purge, meetings, session, recordings, quiet, objects, celery, spc,
                   finishes, uploads, history>>

\* The statement fails, or finds no row to write: logged, and the Meeting is
\* left to the next sweep.
SweepSkip(w) ==
    /\ \/ wpc[w] = "write" /\ row.status = Purged /\ UNCHANGED aborts
       \/ wpc[w] # "idle" /\ aborts < MaxAborts /\ aborts' = aborts + 1
    /\ wpc' = [wpc EXCEPT ![w] = "idle"]
    /\ wloaded' = [wloaded EXCEPT ![w] = Fresh]
    /\ UNCHANGED <<purge, database, objects, celery, spc, finishes, uploads, acked,
                   need, overlapped>>

-----------------------------------------------------------------------------
(* Time and the worker.                                                    *)

GoQuiet ==
    /\ session # NoOne /\ ~quiet
    /\ quiet' = TRUE
    /\ UNCHANGED <<purge, meetings, session, row, recordings, objects, celery,
                   spc, finishes, uploads, sweeps, history>>

SetStatus(st, fs) == row' = [status |-> st, failedStage |-> fs]

\* A worker takes the message.  normalize may raise, and does when there is
\* not exactly one Recording (.one()).  When the row is gone, or the commit of
\* current_stage or of the failure raises, nothing has been written.
PipelineTake ==
    /\ queue > 0
    /\ queue' = queue - 1
    /\ \/ /\ row.status # Purged /\ recordings = 1
          /\ SetStatus("processing", row.failedStage) /\ running' = running + 1
       \/ /\ row.status # Purged
          /\ SetStatus("failed", "normalize") /\ UNCHANGED running
       \/ UNCHANGED <<row, running>>
    /\ UNCHANGED <<purge, meetings, session, recordings, quiet, objects, spc,
                   finishes, uploads, sweeps, history>>

\* A run ends; one that cannot write that leaves the row as it is.
PipelineEnd ==
    /\ running > 0
    /\ running' = running - 1
    /\ \/ row.status # Purged /\ SetStatus("published", row.failedStage)
       \/ row.status # Purged /\ SetStatus("failed", "stage")
       \/ UNCHANGED row
    /\ UNCHANGED <<purge, meetings, session, recordings, quiet, objects, queue,
                   spc, finishes, uploads, sweeps, history>>

-----------------------------------------------------------------------------
(* A retention purge of the Meeting (pipeline/purge.py): objects first,    *)
(* rows last, and nothing locked before.                                   *)

\* one_or_none() raises when there are two Recordings.  Without one there are
\* no objects to be found, and only a full purge has anything to delete.
PurgeRead ==
    /\ ppc = "idle" /\ session # NoOne
    /\ purges < MaxPurges
    /\ purges' = purges + 1
    /\ recordings <= 1
    /\ ppc' = IF recordings = 1 THEN "manifest" ELSE "meeting"
    /\ UNCHANGED <<database, objects, celery, spc, finishes, uploads, sweeps,
                   doomed, erased, history>>

PurgeManifestRead ==
    /\ ppc = "manifest"
    /\ ppc' = "objects" /\ doomed' = manifest
    /\ UNCHANGED <<database, objects, celery, spc, finishes, uploads, sweeps,
                   erased, purges, history>>

PurgeChunk(c) ==
    /\ ppc = "objects" /\ c \in doomed
    /\ doomed' = doomed \ {c}
    /\ stored' = stored \ {c}
    /\ erased' = erased \cup {c}
    /\ UNCHANGED <<database, manifest, celery, spc, finishes, uploads, sweeps,
                   ppc, purges, history>>

\* The manifest goes last; the rows a full and an audio-only purge delete
\* after it are the Meeting's, and the Recording's.
PurgeManifest ==
    /\ ppc = "objects" /\ doomed = {}
    /\ manifest' = {}
    /\ erased' = erased \cup manifest
    /\ ppc' \in {"meeting", "recording"}
    /\ UNCHANGED <<database, stored, celery, spc, finishes, uploads, sweeps,
                   doomed, purges, history>>

\* The cascade of the Meeting removes BotSession and Recording.
PurgeMeeting ==
    /\ ppc = "meeting"
    /\ session' = NoOne /\ meetings' = {}
    /\ row' = [status |-> Purged, failedStage |-> "none"]
    /\ recordings' = 0 /\ quiet' = FALSE
    /\ ppc' = "idle"
    /\ UNCHANGED <<objects, celery, spc, finishes, uploads, sweeps,
                   doomed, erased, purges, history>>

PurgeRecording ==
    /\ ppc = "recording"
    /\ recordings' = 0
    /\ ppc' = "idle"
    /\ UNCHANGED <<meetings, session, row, quiet, objects, celery, spc, finishes,
                   uploads, sweeps, doomed, erased, purges, history>>

\* A crash or a storage error ends the purge; the next sweep starts over.
PurgeStops ==
    /\ ppc # "idle"
    /\ ppc' = "idle" /\ doomed' = {}
    /\ UNCHANGED <<database, objects, celery, spc, finishes, uploads, sweeps,
                   erased, purges, history>>

PurgeStep ==
    \/ PurgeRead \/ PurgeManifestRead \/ (\E c \in Chunks : PurgeChunk(c))
    \/ PurgeManifest \/ PurgeMeeting \/ PurgeRecording \/ PurgeStops

-----------------------------------------------------------------------------

Start(s) == StartRead(s) \/ StartInsert(s) \/ StartReplay(s)

Upload(u) == UploadPut(u) \/ UploadCommit(u) \/ UploadAbort(u)

FinishStep(f) ==
    \/ FinishFlip(f) \/ FinishList(f) \/ FinishLoad(f) \/ FinishEmpty(f)
    \/ FinishCommit(f) \/ FinishGone(f) \/ FinishDispatch(f)

SweepStep(w) ==
    SweepSelect(w) \/ SweepRead(w) \/ SweepLeave(w) \/ SweepWrite(w)

Next ==
    \/ \E s \in Starters : Start(s)
    \/ \E u \in Uploaders : Upload(u) \/ \E c \in Chunks : UploadCheck(u, c)
    \/ \E f \in Finishers : FinishRead(f) \/ FinishStep(f) \/ FinishAbort(f)
    \/ \E w \in Sweepers : SweepStep(w) \/ SweepSkip(w)
    \/ GoQuiet \/ PipelineTake \/ PipelineEnd \/ PurgeStep

\* Time passes, and beat starts the sweep every 900 s.  The bot owes nothing: it
\* may never upload or finish, and its requests may hang.
Fairness == WF_vars(GoQuiet) /\ \A w \in Sweepers : WF_vars(SweepStep(w))

Spec     == Init /\ [][Next]_vars
FairSpec == Spec /\ Fairness

-----------------------------------------------------------------------------

TypeOK ==
    LET Rows == [status : Statuses \cup {Absent},
                 failedStage : {"none", "bot_ingest", "bot_ingest_finish_stuck",
                                "normalize", "stage"}]
    IN
    /\ meetings \subseteq Starters /\ session \in Starters \cup {NoOne}
    /\ row \in Rows
    /\ recordings \in Nat /\ queue \in Nat /\ running \in Nat /\ aborts \in Nat
    /\ quiet \in BOOLEAN /\ overlapped \in BOOLEAN
    /\ stored \subseteq Chunks /\ manifest \subseteq Chunks /\ acked \subseteq Chunks
    /\ spc \in [Starters -> {"idle", "insert"}]
    /\ fpc \in [Finishers -> {"idle", "flip", "list", "load", "empty", "commit",
                              "dispatch"}]
    /\ loaded \in [Finishers -> Rows]
    /\ snap \in [Finishers -> SUBSET Chunks] /\ need \in [Finishers -> SUBSET Chunks]
    /\ upc \in [Uploaders -> {"idle", "put", "touch"}]
    /\ useq \in [Uploaders -> Chunks]
    /\ ppc \in {"idle", "manifest", "objects", "meeting", "recording"}
    /\ doomed \subseteq Chunks /\ erased \subseteq Chunks /\ purges \in Nat
    /\ wpc \in [Sweepers -> {"idle", "read", "write"}]
    /\ wloaded \in [Sweepers -> Rows]

\* docs/ingest.md:66-69 and lines 174-191: a session, however often it is
\* started and finished, is one Meeting with one Recording.  Losing the race of
\* two first starts leaves no Meeting without a session behind, and a finish
\* that has crashed inserts no second Recording when it is sent again; two that
\* overlap from the start both pass the check.
SessionRecordedOnce ==
    /\ meetings = IF session = NoOne THEN {} ELSE {session}
    /\ ~overlapped => recordings <= 1

\* A finish commits a manifest that lists every chunk acknowledged before the
\* finish began, whichever finish put it last, and fails no session as empty
\* that has such a chunk.  A Meeting that already has a Recording can only be
\* finished by requests that overlap, and a purge may then be erasing it: what
\* is missing is what that purge has deleted.
AckedChunksInManifest ==
    \A f \in Finishers :
        LET listed == IF fpc[f] = "commit" THEN manifest ELSE {} IN
        fpc[f] \in {"empty", "commit"} =>
            /\ need[f] \subseteq listed \cup erased
            /\ ~overlapped => need[f] \subseteq listed

\* As long as no two finish requests overlap, a bot session keeps the promise
\* of Intake, whatever the starts, the sweep and purges do to its Meeting.
Promised == INSTANCE Intake
            WITH recording <- IF recordings > 0 THEN "stored"
                              ELSE IF row.status = Purged \/ erased # {} THEN "purged"
                              ELSE "none",
                 telling   <- \E f \in Finishers : fpc[f] = "dispatch",
                 messages  <- queue,
                 excused   <- overlapped

KeepsPromise == Promised!Spec

\* api/bot.py:187-190: the sweep never touches a Meeting whose finish is in
\* progress.
SweepSparesLiveFinish ==
    [][\A w \in Sweepers : SweepWrite(w) =>
         \A f \in Finishers : fpc[f] \notin {"list", "load", "commit"}]_vars

\* api/bot.py:182-186: a Meeting a crash leaves in "finishing" is moved on by
\* the sweep, whatever the bot does afterwards.
FinishingIsSwept == []<>(row.status # "finishing")

=============================================================================
