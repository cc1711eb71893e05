------------------------------ MODULE Capture ------------------------------
(***************************************************************************)
(* Browser capture (api/capture.py): one Meeting whose audio arrives as    *)
(* numbered chunks and is closed by POST .../capture/finish.               *)
(*                                                                         *)
(* A finish request is a process that takes one step per transaction or    *)
(* storage call, so that other requests run between its transactions.  Its *)
(* pc (fpc) names the call it makes next:                                  *)
(*   flip      commit status "finishing"                 (lines 107-162)   *)
(*   list      list the chunk objects                    (lines 164-170)   *)
(*   swap      the conditional UPDATE that leaves it     (lines 174-217)   *)
(*   commit    commit of that transaction; it holds the row's lock         *)
(*   report    read the status a concurrent finish left  (lines 232-242)   *)
(*   dispatch  enqueue run_pipeline                      (line 246)        *)
(* The Celery worker and a retention purge (ppc) work on the same Meeting: *)
(* they are here as far as a finish request can observe them.              *)
(***************************************************************************)
EXTENDS MeetingRow, Naturals

CONSTANTS
    Finishers,   \* client slots that call finish, any number of times
    Uploaders,   \* client slots that send chunks
    Chunks,      \* sequence numbers a client uses
    NoOne,       \* nobody holds the row lock, nothing is being sent
    MaxAborts,   \* bound: requests that die half way (crash, storage error)
    MaxPurges    \* bound: purges that begin

ASSUME CaptureAssumption ==
    NoOne \notin Finishers \cup Chunks /\ MaxAborts \in Nat /\ MaxPurges \in Nat

VARIABLES
    status,      \* Meeting.status
    recordings,  \* number of Recording rows of the Meeting
    lock,        \* finisher whose open transaction has updated the row
    stored,      \* chunk objects in storage
    manifest,    \* chunks the manifest object lists, {} when there is none
    queue,       \* run_pipeline messages not taken yet
    running,     \* pipeline runs past normalize
    fpc, seen, snap,     \* finish requests
    sending,     \* the chunk an upload has been let in with, or NoOne
    ppc, doomed,         \* a purge, and the chunks it has still to delete
    acked,       \* history: chunks whose upload was answered 200
    need,        \* history: acked when the finish request began
    overlapped,  \* history: two finish requests were in flight together
    stranded,    \* history: the message to the pipeline has been lost
    erased,      \* history: chunks a purge has deleted, or whose listing it has
    aborts, purges       \* history: requests that died half way, purges begun

row      == <<status, recordings, lock>>
objects  == <<stored, manifest>>
celery   == <<queue, running>>
finishes == <<fpc, seen, snap>>
purge    == <<ppc, doomed, erased, purges>>
history  == <<acked, need, overlapped, stranded, aborts>>
vars     == <<row, objects, celery, finishes, sending, purge, history>>

\* A slot without a request in flight; in "retry" its last one was answered
\* with a server error.
AtRest == {"idle", "retry"}

\* start_capture has committed the new Meeting.
Init ==
    /\ status = "capturing"
    /\ recordings = 0
    /\ lock = NoOne
    /\ stored = {} /\ manifest = {}
    /\ queue = 0 /\ running = 0
    /\ fpc = [f \in Finishers |-> "idle"]
    /\ seen = [f \in Finishers |-> "capturing"]
    /\ snap = [f \in Finishers |-> {}]
    /\ sending = [u \in Uploaders |-> NoOne]
    /\ ppc = "idle" /\ doomed = {} /\ erased = {} /\ purges = 0
    /\ acked = {} /\ need = [f \in Finishers |-> {}]
    /\ overlapped = FALSE /\ stranded = FALSE /\ aborts = 0

-----------------------------------------------------------------------------
(* upload_chunk: the status check commits, then the object is put.         *)

AcceptsChunks == status = "capturing"

UploadCheck(u, c) ==
    /\ sending[u] = NoOne
    /\ AcceptsChunks
    /\ sending' = [sending EXCEPT ![u] = c]
    /\ UNCHANGED <<purge, row, objects, celery, finishes, history>>

\* Mutation: a put that fails is logged, and the chunk answered all the same.
StoredBy_Swallows(u) == stored
StoredBy(u)          == stored \cup {sending[u]}

UploadPut(u) ==
    /\ sending[u] # NoOne
    /\ stored' = StoredBy(u)
    /\ acked' = acked \cup {sending[u]}
    /\ sending' = [sending EXCEPT ![u] = NoOne]
    /\ UNCHANGED <<purge, row, manifest, celery, finishes, need, overlapped,
                   stranded, aborts>>

\* The request dies: the object may be in storage, the client has no answer.
UploadAbort(u) ==
    /\ sending[u] # NoOne
    /\ aborts < MaxAborts
    /\ aborts' = aborts + 1
    /\ stored' \in {stored, stored \cup {sending[u]}}
    /\ sending' = [sending EXCEPT ![u] = NoOne]
    /\ UNCHANGED <<purge, row, manifest, celery, finishes, acked, need,
                   overlapped, stranded>>

-----------------------------------------------------------------------------
(* finish_capture.                                                         *)

Goto(f, from, to) == fpc[f] = from /\ fpc' = [fpc EXCEPT ![f] = to]

\* The request ends, and its locals with it.
End(f, rest) == /\ fpc' = [fpc EXCEPT ![f] = rest]
                /\ seen' = [seen EXCEPT ![f] = "capturing"]
                /\ snap' = [snap EXCEPT ![f] = {}]
                /\ need' = [need EXCEPT ![f] = {}]

\* Mutation: a finish is accepted again after the commit.
Finishable_Late == status \in {"capturing", "finishing", "pending"}

Finishable == status \in {"capturing", "finishing"}

\* A finish in any other status is answered 409, without a Meeting 404, and
\* changes nothing.
FinishRead(f) ==
    /\ fpc[f] \in AtRest
    /\ Finishable
    /\ overlapped' = (overlapped \/ \E g \in Finishers : fpc[g] \notin AtRest)
    /\ seen' = [seen EXCEPT ![f] = status]
    /\ need' = [need EXCEPT ![f] = acked]
    /\ fpc' = [fpc EXCEPT ![f] = "flip"]
    /\ UNCHANGED <<purge, row, objects, celery, snap, sending, acked, stranded, aborts>>

\* The flip is an ORM assignment: it waits for the row's lock, and is no
\* statement at all when the request already read "finishing".
FinishFlip(f) ==
    /\ Goto(f, "flip", "list")
    /\ seen[f] # "finishing" => lock = NoOne /\ status # Purged
    /\ status' = OrmWrite(seen[f], "finishing", status)
    /\ UNCHANGED <<purge, recordings, lock, objects, celery, seen, snap,
                   sending, history>>

\* The UPDATE of a deleted row matches nothing: SQLAlchemy raises.
FinishFlipGone(f) ==
    /\ fpc[f] = "flip" /\ seen[f] # "finishing" /\ status = Purged
    /\ End(f, "retry")
    /\ UNCHANGED <<purge, row, objects, celery, sending, acked,
                   overlapped, stranded, aborts>>

FinishList(f) ==
    /\ Goto(f, "list", "swap")
    /\ snap' = [snap EXCEPT ![f] = stored]
    /\ UNCHANGED <<purge, row, objects, celery, seen, sending, history>>

\* UPDATE ... WHERE status = 'finishing': waits for the lock, then re-checks.
SwapMatches(f) == /\ fpc[f] = "swap"
                  /\ lock = NoOne
                  /\ status = "finishing"

\* Mutation: a finish that finds no chunk leaves the status as it is.
Reverted_Kept == "finishing"
Reverted      == "capturing"

FinishEmpty(f) ==
    /\ SwapMatches(f)
    /\ snap[f] = {}
    /\ status' = Reverted
    /\ End(f, "idle")
    /\ UNCHANGED <<purge, recordings, lock, objects, celery, sending, acked,
                   overlapped, stranded, aborts>>

FinishManifest(f) ==
    /\ SwapMatches(f)
    /\ snap[f] # {}
    /\ lock' = f
    /\ manifest' = snap[f]
    /\ fpc' = [fpc EXCEPT ![f] = "commit"]
    /\ UNCHANGED <<purge, status, recordings, stored, celery, seen, snap,
                   sending, history>>

\* Mutation: the handler returns without enqueuing the pipeline.
AfterCommit_NoDispatch == "report"
AfterCommit            == "dispatch"

FinishCommit(f) ==
    /\ Goto(f, "commit", AfterCommit)
    /\ status' = "pending"
    /\ recordings' = recordings + 1
    /\ lock' = NoOne
    /\ UNCHANGED <<purge, objects, celery, seen, snap, sending, history>>

FinishLost(f) ==
    /\ Goto(f, "swap", "report")
    /\ lock = NoOne /\ status # "finishing"
    /\ UNCHANGED <<purge, row, objects, celery, seen, snap, sending, history>>

FinishReport(f) ==
    /\ fpc[f] = "report"
    /\ End(f, "idle")
    /\ UNCHANGED <<purge, row, objects, celery, sending, acked,
                   overlapped, stranded, aborts>>

FinishDispatch(f) ==
    /\ fpc[f] = "dispatch"
    /\ queue' = queue + 1
    /\ End(f, "idle")
    /\ UNCHANGED <<purge, row, objects, running, sending, acked,
                   overlapped, stranded, aborts>>

\* A crash or a storage error ends the request; an open transaction rolls back.
FinishAbort(f) ==
    /\ fpc[f] \notin AtRest
    /\ aborts < MaxAborts
    /\ aborts' = aborts + 1
    /\ lock' = IF lock = f THEN NoOne ELSE lock
    /\ stranded' = (stranded \/ fpc[f] = "dispatch")
    /\ End(f, "retry")
    /\ UNCHANGED <<purge, status, recordings, objects, celery, sending,
                   acked, overlapped>>

-----------------------------------------------------------------------------
(* The other writers of the row.                                           *)

\* A worker takes the message.  normalize may raise, and does when there is
\* not exactly one Recording (.one()): the failure is written to the row, if
\* the row is still there.  When the commit of current_stage or of the failure
\* raises, the message is acknowledged and nothing has been written.
PipelineTake ==
    /\ queue > 0
    /\ lock = NoOne
    /\ queue' = queue - 1
    /\ \/ /\ status # Purged /\ recordings = 1
          /\ status' = "processing" /\ running' = running + 1
          /\ UNCHANGED stranded
       \/ status # Purged /\ status' = "failed" /\ UNCHANGED <<running, stranded>>
       \/ stranded' = TRUE /\ UNCHANGED <<status, running>>
    /\ UNCHANGED <<recordings, lock, objects, finishes, sending, purge,
                   acked, need, overlapped, aborts>>

\* A run ends; one that cannot write that leaves the row as it is.
PipelineEnd ==
    /\ running > 0
    /\ lock = NoOne
    /\ running' = running - 1
    /\ status' \in {status} \cup (IF status = Purged THEN {} ELSE {"published", "failed"})
    /\ UNCHANGED <<recordings, lock, objects, queue, finishes, sending, purge, history>>

-----------------------------------------------------------------------------
(* A retention purge of this Meeting (pipeline/purge.py), at any time and   *)
(* any number of times.  It deletes objects first and rows last, and has    *)
(* locked nothing before it deletes the rows.                              *)

\* one_or_none() raises when there are two Recordings.  Without one there are
\* no objects to be found, and only a full purge has anything to delete.
PurgeRead ==
    /\ ppc = "idle" /\ status # Purged
    /\ purges < MaxPurges
    /\ purges' = purges + 1
    /\ recordings <= 1
    /\ ppc' = IF recordings = 1 THEN "manifest" ELSE "meeting"
    /\ UNCHANGED <<row, objects, celery, finishes, sending, doomed, erased, history>>

PurgeManifestRead ==
    /\ ppc = "manifest"
    /\ ppc' = "objects" /\ doomed' = manifest
    /\ UNCHANGED <<row, objects, celery, finishes, sending, erased, purges, history>>

PurgeChunk(c) ==
    /\ ppc = "objects" /\ c \in doomed
    /\ doomed' = doomed \ {c}
    /\ stored' = stored \ {c}
    /\ erased' = erased \cup {c}
    /\ UNCHANGED <<row, manifest, celery, finishes, sending, ppc, purges, history>>

\* The manifest goes last; the rows a full and an audio-only purge delete
\* after it are the Meeting's, and the Recording's.
PurgeManifest ==
    /\ ppc = "objects" /\ doomed = {}
    /\ manifest' = {}
    /\ erased' = erased \cup manifest
    /\ ppc' \in {"meeting", "recording"}
    /\ UNCHANGED <<row, stored, celery, finishes, sending, doomed, purges, history>>

\* DELETE of the Meeting waits for the row's lock; the Recording goes with it.
PurgeMeeting ==
    /\ ppc = "meeting" /\ lock = NoOne
    /\ status' = Purged /\ recordings' = 0
    /\ ppc' = "idle"
    /\ UNCHANGED <<lock, objects, celery, finishes, sending, doomed, erased, purges, history>>

PurgeRecording ==
    /\ ppc = "recording"
    /\ recordings' = 0
    /\ ppc' = "idle"
    /\ UNCHANGED <<status, lock, objects, celery, finishes, sending, doomed, erased, purges, history>>

\* A crash or a storage error ends the purge; the next sweep starts over.
PurgeStops ==
    /\ ppc # "idle"
    /\ ppc' = "idle" /\ doomed' = {}
    /\ UNCHANGED <<row, objects, celery, finishes, sending, erased, purges, history>>

PurgeStep ==
    \/ PurgeRead \/ PurgeManifestRead \/ (\E c \in Chunks : PurgeChunk(c))
    \/ PurgeManifest \/ PurgeMeeting \/ PurgeRecording \/ PurgeStops

-----------------------------------------------------------------------------

Upload(u) == (\E c \in Chunks : UploadCheck(u, c)) \/ UploadPut(u) \/ UploadAbort(u)

FinishStep(f) ==
    \/ FinishFlip(f) \/ FinishFlipGone(f) \/ FinishList(f)
    \/ FinishEmpty(f) \/ FinishManifest(f) \/ FinishCommit(f)
    \/ FinishLost(f) \/ FinishReport(f) \/ FinishDispatch(f)

Next ==
    \/ \E u \in Uploaders : Upload(u)
    \/ \E f \in Finishers : FinishRead(f) \/ FinishStep(f) \/ FinishAbort(f)
    \/ PipelineTake \/ PipelineEnd \/ PurgeStep

\* A started request runs on until it answers or dies.  Nobody has to repeat a
\* finish that died: no code does, and the page calls finish once.
Fairness == \A f \in Finishers : WF_vars(FinishStep(f))

Spec     == Init /\ [][Next]_vars
FairSpec == Spec /\ Fairness

-----------------------------------------------------------------------------

TypeOK ==
    /\ status \in Statuses
    /\ recordings \in Nat
    /\ lock \in Finishers \cup {NoOne}
    /\ stored \subseteq Chunks /\ manifest \subseteq Chunks
    /\ queue \in Nat /\ running \in Nat
    /\ fpc \in [Finishers -> {"idle", "flip", "list", "swap", "commit",
                              "report", "dispatch", "retry"}]
    /\ seen \in [Finishers -> {"capturing", "finishing"}]
    /\ snap \in [Finishers -> SUBSET Chunks]
    /\ sending \in [Uploaders -> Chunks \cup {NoOne}]
    /\ ppc \in {"idle", "manifest", "objects", "meeting", "recording"}
    /\ doomed \subseteq Chunks /\ erased \subseteq Chunks /\ purges \in Nat
    /\ acked \subseteq Chunks
    /\ need \in [Finishers -> SUBSET Chunks]
    /\ overlapped \in BOOLEAN /\ stranded \in BOOLEAN
    /\ aborts \in Nat

\* CONTEXT.md, "Recording": a Meeting has exactly one.  Two finish requests
\* that both read "capturing" break it (the unconditional flip of line 162
\* takes the Meeting back from "pending" to "finishing").
OneRecording == recordings <= 1

\* As long as no two finish requests are ever in flight together, whatever
\* crashes and retries happen, finish inserts at most one Recording.
SequentialFinishRecordsOnce == ~overlapped => OneRecording

\* A chunk that was acknowledged before a finish request began is found by that
\* request: it reports no capture as empty that has one, and the manifest it is
\* about to commit lists it.  Only a straggler can be left out.  Two finish
\* requests that overlap can write the manifest of a Meeting that has a
\* Recording already, which a purge may be erasing: what is missing then is what
\* that purge has deleted.
AckedChunksInManifest ==
    \A f \in Finishers :
        LET found == IF lock = f THEN manifest ELSE snap[f] IN
        lock = f \/ SwapMatches(f) =>
            /\ need[f] \subseteq found \cup erased
            /\ ~overlapped => need[f] \subseteq found /\ found \subseteq stored

\* The crash points of finish_capture (lines 143-161): a Meeting waits in
\* "pending" with nothing coming to process it only when the message to the
\* pipeline was lost, by a finish that died between its commit and the
\* dispatch or by a worker that raised before it could write to the row.
OnlyLossStrands ==
    status = "pending" =>
        \/ queue > 0
        \/ stranded
        \/ \E f \in Finishers : fpc[f] = "dispatch"

\* The row leaves "finishing" for "pending" only: no finish, however stale
\* what it read, publishes a Recording for a Meeting in another status.
PendingOnlyFromFinishing ==
    [][status' = "pending" /\ status # "pending" => status = "finishing"]_vars

\* Lines 127-130: once a finish has committed its flip, an upload whose
\* status check comes later is rejected.  It needs the requests not to
\* overlap: the revert of a second, empty finish opens the Meeting to chunks
\* while the first is between its listing and its UPDATE.
FlipClosesUploads ==
    ~overlapped =>
        \A f \in Finishers :
            fpc[f] \in {"list", "swap", "commit"} => ~AcceptsChunks

\* As long as no two finish requests overlap, the capture keeps the promise of
\* Intake: one Recording, committed before one message, and none for a Meeting
\* that has been purged, of its audio or altogether.
Promised == INSTANCE Intake
            WITH recording <- IF recordings > 0 THEN "stored"
                              ELSE IF status \in {"capturing", "finishing"} THEN "none"
                              ELSE "purged",
                 telling   <- \E f \in Finishers : fpc[f] = "dispatch",
                 messages  <- queue,
                 excused   <- overlapped

KeepsPromise == Promised!Spec

\* Lines 111-117: a Meeting in "finishing" is in the hands of somebody who can
\* lead it out, a finish request at work or a client that was told to retry.
FinishingIsOwned ==
    status = "finishing" =>
        \E f \in Finishers : fpc[f] \in {"flip", "list", "swap", "commit", "retry"}

\* Lines 143-159: "no crash point here leaves the Meeting in a state nothing can
\* move it out of".  A finish that is not cut short leads the Meeting out of
\* "finishing", whatever other requests and purges do meanwhile; when one has
\* died there, the client that was told so has to finish again.
FinishingEnds ==
    []<>(status = "finishing" => \E f \in Finishers : fpc[f] = "retry")

=============================================================================
