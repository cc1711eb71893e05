# Meeting-MGR in TLA+

A model of the parts of Meeting-MGR that several actors share: the Meeting row,
its Recording and the objects in the bucket, written by HTTP requests, Celery
tasks and the beat schedule. TLC checks the modules on small instances; TLAPS
proves the main properties for every value of the constants.

## The system

FastAPI handlers, Celery workers and a beat scheduler share a PostgreSQL
database, an S3 bucket and a Redis broker. There is no lock service: handlers
read a row without locking it and write it back, at READ COMMITTED. Storage and
database share no transaction. Tasks are delivered at least once.

| Component | State | Operations | Talks to | What must hold |
| --- | --- | --- | --- | --- |
| Browser capture, `api/capture.py` | Meeting.status, chunk objects, manifest, Recording | start, upload, list, finish | storage, queue | one Recording, no acknowledged chunk lost, nothing but a lost message strands the Meeting |
| Bot ingest, `api/bot.py`, `pipeline/bot.py` | the same and BotSession | start, upload, list, finish, stale sweep | storage, queue, beat | one Meeting per session, one Recording, a stuck session ends |
| Pipeline, `pipeline/orchestrate.py`, `app.py`, stages | status, current_stage, failed_stage, stage rows | run_pipeline, stages, failure, resume | queue, storage, diarizer, ASR, LLM | published means complete, rows inserted once, every run ends in a named state |
| Retention purge, `pipeline/purge.py`, `retention.py` | rows, objects, policy, audit | select, purge audio, purge full, sweep | storage, beat | nothing survives, nothing unreachable after a crash, audited once |
| Direct upload, `api/meetings.py` | Meeting, Recording, raw object | create, list, read, audio | storage, queue | enqueued once committed |
| Progress, `progress.py`, `stream_events`, `useProgress.ts` | Redis channel, open streams | publish, subscribe, snapshot | Redis, browser | a client sees the end of the run |
| Watch folders, `pipeline/watch.py`, `api/watch_folders.py` | files, WatchFolder rows | scan, ingest, move | file system, queue | one Meeting per file, no file lost |
| Review edits, `api/edits.py`, `participants.py` | Attribution, artifacts, Participant | confirm, edit, delete, regenerate | queue, LLM | a human decision stands, the log explains the section |
| Access, `authz.py`, `auth/`, `bot_credentials.py` | Account, MeetingShare, BotCredential | authorize, filter, login, revoke | database | what may be opened is listed, revoked means refused |
| Audit log, `audit.py` | audit rows | append, read | database | one entry per committed change |

What is hard here: two requests that both pass a status check before either
commits; a status check that commits before the storage call it guards; a
listing taken while uploads are in flight; a crash between two commits, between
a commit and an enqueue, between a storage call and a commit; a task that is
delivered twice, or runs while another one is still at work on the same
Meeting; sweeps that decide on state they read earlier; a purge, which deletes objects
long before it locks the row they belong to. `PROJECT.json` lists
them one by one, at their lines, with the properties that cover them.

## Modules

| Module | Models |
| --- | --- |
| `MeetingRow` | the values of Meeting.status; `OrmWrite`, what an attribute assignment writes when the row has changed since it was loaded |
| `Intake` | the abstract specification the three ways into the system implement |
| `Capture` | browser capture of one Meeting |
| `CaptureProofs` | theorems about `Capture` |
| `BotIngest` | one bot session, its requests and the sweep |
| `BotIngestProofs` | theorems about `BotIngest` |
| `Pipeline` | the processing of one Meeting by workers fed at least once |
| `Processing` | the abstract specification `Pipeline` implements |
| `PipelineProofs` | theorems about `Pipeline`, the refinement, and theorems about `Progress` |
| `Progress` | `Pipeline` with its announcements, the event stream and the page that watches |
| `Erasure` | the abstract specification `Purge` and `Retention` implement |
| `Purge` | retention purge of one Meeting against capture and normalize |
| `PurgeProofs` | theorems about `Purge` |
| `Retention` | the policy, its preview, and the tasks that purge what it selects |
| `RetentionProofs` | theorems about `Retention` |
| `WatchFolder` | overlapping scans of one watched folder, and the files in it |
| `WatchFolderProofs` | theorems about `WatchFolder` |
| `Attribution` | confirming a speaker against the attribute stage, and the naming of Participants |
| `AttributionProofs` | theorems about `Attribution` |
| `Access` | the read rule of `authz.py`, as the check and as the list filter |
| `Artifacts` | editing, deleting and regenerating one section against its extractions |
| `ArtifactsProofs` | theorems about `Artifacts` and `Access` |
| `MC...` | the same modules with the values and symmetry sets TLC uses |

The interacting components are composed by the state they share. `Capture` and
`BotIngest` contain the pipeline as far as their requests can observe it (one
step that takes the message, one that ends the run) and a purge with each of its
calls a step; `Pipeline` opens the run up, and `Purge` composes several purges,
which also delete the normalized audio and write the audit log, with several
captures and the runs that normalize.
`Progress` EXTENDS `Pipeline` and adds to its steps what they announce;
`Retention` contains the purge of one Meeting as one step, which `Purge` opens
up, and both implement `Erasure`; a Meeting that `Capture`, `BotIngest` or
`WatchFolder` has handed over, as `Intake` says, is an initial state of
`Pipeline`; `Artifacts` asks `Access` who may send a request.

A request or task is a process with a pc, and a step is one transaction or one
storage call: between two steps anything else may run. A block that loads a
row, assigns it and commits, with no call in between, is one step in
`Pipeline`; in `Capture` and `BotIngest`, where the race between the load and
the commit matters, the load and the commit are two. A refused request (404,
409, 422 without a write) changes nothing and is no step.

### MeetingRow

SQLAlchemy emits an UPDATE for an attribute only when the value differs from
the loaded one, by primary key and without a check of the old value. A finish
that has read "finishing" and assigns "finishing" therefore writes nothing at
all, and one that has read "capturing" overwrites whatever is there by then.
`OrmWrite(loaded, new, current)` says so and is used for each such commit.

### Intake

The promise of a Meeting's way in: it gets one Recording, the pipeline is told of
it once at most and never before the Recording is committed, and a purged
Meeting gets none. `telling` is a request between its commit and its dispatch;
`Strand` is one that ends there. `excused` is the one exception, two finish
requests that overlap (or a file dropped under a name that is being ingested):
the promise is then off. A Meeting whose Recording an audio-only purge has
deleted counts as purged too. Under `Promised` the Recording is the count of committed Recordings and the
Meeting's status in `Capture` and `BotIngest`, the committed Meetings of one
file in `WatchFolder`, where `Promised(c)` is the promise to copy c.

### Capture

`fpc[f]` walks `finish_capture`: `FinishRead` (status check), `FinishFlip`
(commit of "finishing"; it waits for the row's lock, and a deleted row makes it
fail), `FinishList` (the key listing), then the conditional UPDATE, which is
`FinishEmpty` (revert to "capturing"), `FinishManifest` and `FinishCommit`
(manifest, Recording and "pending" in one transaction that holds the row lock)
or `FinishLost` and `FinishReport`, and `FinishDispatch`. `FinishAbort` is a
crash or an exception at any of these points; the slot is then in "retry", which
is history: nothing in the model, or in the code, repeats the request. Uploads
are a status check and, later, a put. `PipelineTake` and `PipelineEnd` are the
worker's commits; a worker may also lose the message to an exception in a commit
that is outside the try block (`orchestrate.py` line 54), which `stranded`
remembers, as it does a finish that died before its dispatch.

A purge (`ppc`) reads the Recording, reads the manifest, deletes each chunk and
the manifest, and only then waits for the row's lock to delete the Meeting or,
audio-only, the Recording. Everything before that takes no lock: a finish may
list, write its manifest and commit between any two of these calls. It may stop
anywhere (`PurgeStops`), begins at any time, and raises on a Meeting with two
Recordings, where `PurgeRead` is disabled. `erased` is history.

### BotIngest

The differences to browser capture are the model's reason: start is replayed
behind a SAVEPOINT, a finish is refused while another is in flight, the commit
is an attribute assignment instead of a conditional UPDATE, an empty session
fails instead of reopening, and `sweep_stale_bot_sessions` moves "capturing"
and "finishing" sessions to "failed" once they have been quiet (`GoQuiet`) for
the threshold. The sweep selects, reads again and writes in separate steps.
The purge is the one of `Capture`, call by call; what it deletes at the end takes
the session along by cascade. A Meeting row that has been purged ends the model:
one session is one Meeting.

### Pipeline

Stages are positions 1 to `Publish`; `Extractions` of them are optional. The
loop of `run_pipeline` is `EnterStage`, `StageDone` or `StageRaises`,
`RecordFailure`, `Leave`. `queue[s]` counts the undelivered messages with
from_stage s. `WorkerLost` puts the message back, `VisibilityTimeout` puts a
copy back while the first run goes on, `Dropped` is a run that ends without a
message left (an exception in a commit outside the try block, or the loss of a
worker whose message was already given to another). `Resume` is the call the admin
guide describes, by an operator on a failed Meeting at rest. `run_pipeline`
itself checks nothing, and failed_stage outlives the failure: `ResumeBlindly` is
the same call on a Meeting that is published, or on which a message or a run is
still under way. It counts against the bound of repeated deliveries, because it is
one: a second message about a Meeting that has one, or has had all it needs.
`rows[s]` counts the batches a
stage has committed: no stage looks for rows of an earlier run.

### Processing

What a reader of the Meeting may rely on: output k is written after outputs 1 to
k - 1 and never taken back, publishing waits for all of them, and the outcome of
a published Meeting changes only after a repeated delivery. Under
`Promised` in `Pipeline` an output is "the normalized key is set", "a batch of
rows is there" or "an align pass has committed", the outcome is `status`, and
`repeated` is `redeliveries > 0`. Two overlapping runs, a requeue from the
start and a resume in the middle are steps of this specification or stutter.

### Progress

`outbox[w]` is the event run w announces next: `publish` comes after the commit
it tells of, and the run goes on after it. The stream of a viewer reads the row
(`ReadRow`), sends it (`SendSnapshot`) and then subscribes (`Subscribe`);
an event announced between the first and the last of these reaches nobody.
`Forward` is the server's loop and the hook's `setProgress` at once: nothing
can happen between them that either could tell apart. `Break` is a lost connection, after which the
browser connects again; `Lost` is an exception in `publish`, which is
swallowed. Of the events only those are kept that change the status a page
shows (`Telling`); the name of the stage in progress is left out.
`missed[v]` is history: the last event of a run was announced while v was
between its snapshot and its subscription, or was lost.

### Erasure

The promise of a Meeting's way out: it is taken up only for a purge it is due for
(`due`, `chosen`), nothing of it is deleted unless it is taken up, the rows go last,
in one step, when no object they have named is left, and nothing comes back to a
Meeting that is gone. `kept` is the named objects that are still stored: in
`Purge` `named \cap store`, where each deletion is a step; in `Retention` the
audio of the Meeting, which goes with its row in the one step a purge is there.
`spoiled` is `raced` in `Purge`, and never the case in `Retention`.

### Purge

A purge reads the Recording, reads the manifest, deletes chunks one by one,
then the manifest, then the normalized audio, then the rows with the audit
entry. It may stop before any of these. `GrowOld` moves the Meeting past the
thresholds. The capture uploads and finishes as in `Capture`: a finish reads the
status, flips it unconditionally and later tests it in its UPDATE, so two that
overlap insert two Recordings of one manifest (`doubled`), after which
`ReadRecording` raises and the purge ends where it began. A run takes a message,
fetches object by object, puts its result and commits; a run that dies puts the
message back (`RunRepeats`). `named` remembers what a committed Recording has
named, `made` counts them, and `raced` remembers that something a Recording names was
written after it: by an upload that landed after the flip, a second finish, a second
normalize, or a Recording that came after the purge had read.

### Retention

Meetings appear (`Create`, with the Recording of an upload or without), get a
Recording (`Record`) and grow old with the clock (`Tick`) at any time, also between
a preview and a purge or inside a batch; created_at is the beginning of the
inserting transaction, which may lie before its commit. `Batches(limit)` is
`select_purge_candidates`: the oldest `limit` Meetings past
the Meeting threshold, and the oldest `limit` with a Recording past the audio
threshold that are not due for a full purge at all; the order of Meetings created at the same
moment is open. Preview and task call it with different limits, as in the
code. A PUT loads the row and writes by attribute assignment, so two of them
can combine; the first PUT inserts. `Bodies` are the policies requests carry, of
which the validator lets through the valid ones. A task purges its batch in order
(`ComesFirst`), and a purge that raises is skipped; `Broken` are the Meetings of
which it raises every time, those with two Recordings among them. `Trigger` and
`Sweep` put the same message in the queue, which holds one that no task has
taken. History is the last preview of the policy in force (`listed`, `asked`), the candidates
whose rows have come since (`fresh`) and the tasks that have selected since (`told`).

### WatchFolder

The ledger of what was ingested is where a file lies: `root`, `ingested` and
`failed` map a name to the copy there. A writer drops a copy in one go or in two
(`whole`), and may resume between any two steps of a scan. `pc[s]` walks
`scan_watch_folder` and, for each name it listed, `ingest_file`: `Judge` (is the
file stable), `Baseline` and `Verify` (the two signatures), `Read`, `Move` (the
rename inside the transaction), `Commit`, `Dispatch`, and for an exception
`MoveToFailed`. `Heartbeat` records the outcome. A directory is flat, a
name that `listdir` returned may be gone when it is opened, and a writer that
resumes after the move is not modelled.

### Attribution

A process is one transaction at READ COMMITTED and a step one statement of it.
A confirmation finds the rows to delete, waits for another transaction that has
deleted one of them, then resolves the name and inserts. The attribute stage
and the extractions resolve the names of a model's answer one after the other
(`plan`, `pos`). `Look` and `Insert` are `resolve_participant`: the insert
waits for an uncommitted row of the same name and then either inserts or rolls
its savepoint back and reads the winner. `WaitsFor`, `Circled` and `Deadlock`
are PostgreSQL's: a set of transactions in which each waits for another and is
waited for may lose any of them. `raced` marks transactions that another writer of the same
cluster overlapped, `decided` what a person who was alone has decided. Each
transaction runs once; the audit entry a confirmation adds is part of its
commit and not represented.

### Access and Artifacts

`CanRead` is `_can_read`, `Readable` the WHERE clause; `Artifacts` keeps the
Meeting's access columns and its shares fixed, because nothing under `src/`
writes them after creation (an operator does, in SQL), and takes every
combination as an initial state. The role of an account is a constant too.

The rows of a section are named by the extraction that wrote them
(`[ask, try, item]`): 0 is the pipeline's own, each regeneration asks for one
more, and `try` tells deliveries of one message apart. An edit and a
deletion load the row in one step and write it in another; an UPDATE of a row that
has gone is an error (`EditStale`), a DELETE of one is not. A regeneration
deletes what is committed when it runs, and dispatches after its own commit. An
extraction takes any time between its start and its insert, and may insert
nothing. `born`, `written`, `replaced`, `repeated` and `overlapped` are
history.

## Runs

| Run | Question | Bounds |
| --- | --- | --- |
| `capture` | do stragglers, racing finishes, crashes, lost messages and a purge leave the capture correct? | 2 finish slots used any number of times, 1 uploader, 1 chunk, 1 abort, 1 purge |
| `capture_duplicate` | is there one Recording when finishes overlap? (no) | 2 finishes, 1 chunk |
| `bot` | the same for a bot session with racing starts, and is a stuck one swept? | 2 starts, 2 finish slots, 1 uploader, 1 sweep, 1 chunk, 1 abort, 1 purge |
| `bot_sweep` | does the sweep spare a live finish? (no) | one of each |
| `pipeline` | does a Meeting get through, complete and as promised, when stages fail, workers die and messages repeat? | 2 workers, 2 of the 4 extractions, 1 repeated delivery or blind resume, 1 resume, 1 dropped run |
| `progress` | is a viewer told the truth, and the end? | 1 worker, 1 extraction, 1 redelivery, 1 resume, 1 dropped run, 1 viewer, 2 opens, 1 break or lost event |
| `purge` | does a purge that stops anywhere leave nothing unreachable, audit once and finish? | 2 purges used any number of times, 2 finish slots, 1 uploader, 1 chunk, 1 abort; no finish begins after a Recording |
| `purge_orphan` | does anything survive a full purge? (yes) | 1 purge, 1 upload |
| `retention` | is the policy the one that was put, is a purge foreseen by the preview, and does a backlog drain? | 2 Meetings, 1 of which never purges, batches of 1, periods 0, 1 and null, 2 moments, 2 PUTs, 2 tasks, 1 failure |
| `watch` | is a dropped file one Meeting, whole, and gone from the folder, when scans overlap, fail or die? | 2 scanners used any number of times, 1 name, 2 copies, 1 fault, 1 switch of the flag |
| `attribution` | do names stay unique and decisions stand when transactions wait, fail and abort? | 2 people, 1 attribute stage, 1 extraction, 1 cluster, 2 names, answers of up to 2, 1 fault |
| `artifacts` | does a section show one answer, does the log explain it, and does the list show what the check allows? | 3 accounts, 5 ways to share, 1 item, 2 texts, 2 request slots, 2 workers, 3 requests, 1 redelivery or failed dispatch |

Why the bounds are enough: a race needs two parties, so two slots of a kind
suffice, and where slots are reused without a counter the number of requests is
not bounded. One chunk is enough where no step relates two: an upload, a listing
and a deletion treat each chunk by itself, a property is about each chunk by
itself, and the chunk may be one that was listed, one that came too late or one
that is deleted while the next call is made; the manifest is the second object
the order of deletion is about. The theorems hold for any number. One abort is
enough to reach every crash point followed by every continuation; the properties
speak of one crash and its recovery. In `purge` the two finishes may have begun
before the first Recording, which is how a second one comes about. The
extractions differ only in their name; two of
them give a failure before a success and the reverse. One name in the folder is
enough because no step of a scan relates two names; its second copy is the file
dropped again. Two names are what a circle of waits needs. Viewers do not affect
each other or the run, so one is enough, and its second open is the reload. In
`retention` a batch holds one of two Meetings, either of which may be the older
or both equally old, so a page ends among equals, the Meeting that never purges
fills a batch or does not, and the clock and the rows move between preview,
selection and purge; the bodies are two thresholds, each one alone, and a policy
the validator refuses.
Three requests on a section are a regeneration between the read and the write of
an edit, followed by a deletion. Deadlock is not checked because each of these systems may
come to rest: a capture published and no request in flight, a Meeting purged.

`bot`, `purge` and `retention` check liveness under a symmetry set. That is sound
here because no fairness condition and no property names one of the permuted
elements: in `bot` these are the requests and chunks (fair are time and the sweep),
in `purge` finishes and chunks but not the purges, in `retention` admins, the
Meetings that purge, and tasks, whose fairness is of some task and not of each. In
`capture` each finish is fair by itself, so there is no symmetry.

The type invariant of each module is a theorem (`TypeCorrect`, `TypeOKHolds`,
`PTypeOKHolds`), so no run repeats it.

What the properties say, by run:

- `capture`: a finish finds every chunk that was acknowledged before it began, both
  when it decides whether the capture is empty and in the manifest it is about to
  commit, and each is in storage then; when finishes overlap, what is missing is
  what a purge has deleted (`AckedChunksInManifest`). A "pending" Meeting without
  a message has lost it, to a finish that died before its dispatch or to a worker
  that raised before it could write (`OnlyLossStrands`). "finishing" is always in
  the hands of a request at work or of a client that was
  told that its finish failed (`FinishingIsOwned`), and while no finish has
  failed it is left again (`FinishingEnds`): a crash after the flip leaves it for as long as
  nobody finishes again, and nothing in the code makes anybody do so.
  The capture implements `Intake` (`KeepsPromise`): a Recording is inserted once as
  long as no two finishes overlap, which contains `SequentialFinishRecordsOnce`.
- `bot`: one Meeting per session, with one Recording unless two finishes
  overlapped (`SessionRecordedOnce`); chunks as above (`AckedChunksInManifest`); the session
  implements `Intake` (`KeepsPromise`); and the sweep as the way out of
  "finishing", whatever the bot does (`FinishingIsSwept`).
- `pipeline`: a published Meeting is complete (`PublishedIsComplete`); the
  batches of a stage are bounded by the deliveries, the messages of operators who
  did not look among them (`RowsBoundedByDeliveries`);
  failed_stage is where a resume must begin (`FailedStageIsFirstGap`); the runs
  implement `Processing` (`KeepsPromise`); a Meeting nobody is at work on any
  more is published or failed and shows no stage (`RestIsSettled`), and every
  run comes to that (`RunsSettle`).
- `progress`: a page shows "published" only of a published Meeting, "failed" of
  a single run only where the Meeting has failed and stays failed or for an
  extraction, and one whose stream has closed shows one of the two
  (`ViewersAreToldTheTruth`); a stream that waits for an event has one to come,
  or has missed the last (`NobodyWaitsInVain`); it closes in the end unless the last event fell
  into its gap (`ViewersLearnTheEnd`).
- `purge`: the manifest outlives its chunks (`ManifestOutlivesChunks`); with
  the rows gone every named object is gone (`NamedObjectsAreGone`), both unless
  something was written behind the purge's back; one audit entry for the Meeting,
  and for its audio as many at most as there were Recordings (`DeletionAuditedOnce`);
  the calls of all purges implement `Erasure` (`KeepsPromise`); what is past its
  threshold is deleted in the end, unless two finishes have left two Recordings
  (`RetentionIsEnforced`).
- `retention`: the policy in force is the last one put and a valid one, unless
  PUTs overlapped (`PolicyIsTheLastPut`); what a task deletes that selects after a
  preview was in it, as the same kind of purge, or has appeared or passed its
  threshold since, which is as far as two readings at two moments can agree
  (`PreviewForetells`); whichever batches
  a Meeting is in, it is erased as `Erasure` has it (`ErasesWhatIsDue`); what is due is
  deleted as long as the Meetings that always fail do not fill the batch of its kind
  (`BacklogDrains`).
- `watch`: a file has a Meeting if and only if it is in `.ingested/`, unless its
  scan ended between the move and the commit or a file was dropped under a name
  that was being ingested, and never two (`PlacementIsTheLedger`); no half file
  becomes a Meeting (`OnlyWholeFiles`); a file written to while it is ingested
  stays (`ResumedIsSkipped`); each file implements `Intake` (`KeepsPromise`); an
  enabled folder empties (`FilesLeave`).
- `attribution`: one Participant per name, and every Attribution names one that
  exists (`OneParticipantPerName`); a decision nobody overlapped is all there is
  about its cluster until a model's next answer (`DecisionHolds`); while any
  transaction is active one can go on, or is in a circle that PostgreSQL breaks
  (`NobodyIsStuck`); nobody waits for ever (`TransactionsEnd`). Two overlapping confirmations may leave two
  holders, and so may an answer that names one label twice: `raced` and the last
  clause of `Decision` leave both out.
- `artifacts`: two answers stand side by side only if their extractions
  overlapped or a message was delivered twice, and what a regeneration has
  discarded does not come back otherwise (`OneAnswerPerSection`); "confirmed"
  is an entry in the audit log, and what has gone was deleted or regenerated by
  one (`LogExplainsSection`); an edit of an item that had gone left no entry in the
  log, unless it says what an earlier one said (`EditsFoundTheirItem`); what an
  account may open is in its list (`ListShowsWhatOpens`).

The three runs that end in a violation are disagreements between the code and
what its comments or documents say, quoted in `PROJECT.json`. What the
properties above except is a disagreement too, each reachable in its run:

- the two Recordings of `capture_duplicate` make `.one_or_none()` raise in every
  later purge (`pipeline/purge.py` line 77), so neither the audio nor the Meeting is
  ever deleted, although "the periodic sweep IS the reconciliation path" (line
  10): `doubled`;
- a Meeting or Recording that appears, or passes its threshold, after a preview is
  purged without having been in it, while `docs/retention.md` lines 50-51 say that
  preview and purge "can never disagree, by construction": `fresh`, `asked`;
- two overlapping PUTs, each valid, leave an audio period longer than the
  Meeting's, which the validator would refuse (`retention.py` line 47,
  `docs/retention.md` line 22): `raced`;
- two overlapping confirmations of a cluster leave two Attributions, where
  `api/edits.py` line 56 says "a cluster has one holder": `raced`;
- two requests that have both loaded an item delete it, the second deletes nothing
  and is audited all the same (`api/edits.py` line 170);
- `authz.py` line 25 calls the check and the list filter two encodings of the same
  rule, and `CONTEXT.md` line 74 gives a private Meeting's explicit shares
  access; the filter lists such a Meeting, the check does not open it.
  `ListShowsWhatOpens` is the direction that holds. No endpoint writes a share
  or a visibility yet;
- a redelivered message runs a Meeting again from the stage it was sent with
  (`pipeline/app.py` line 29), so stages that had committed insert their rows
  again, and a published Meeting goes back to "processing"; the design document
  (section 4) has earlier stages "not recomputed";
- failed_stage outlives the failure and status stays "failed" during a resumed run,
  so an operator who goes by them (`docs/admin-guide.md` lines 329-339) may
  resume a Meeting that is being processed: `ResumeBlindly`;
- a file may change after the scan judged it and before `ingest_file` takes its
  first signature (`pipeline/watch.py` lines 88-95 call that gap covered):
  `paused`;
- `resolve_participant` holds a new name until its caller commits, so two
  callers with two names in opposite order deadlock and one loses its whole
  transaction (`participants.py` lines 20-21 say only the insert rolls back):
  the `Deadlock` step;
- the failure of an extraction closes the stream of a run that goes on.

## Fairness

Weak fairness is put on what the platform keeps running, never on users: a
request that has started runs on until it answers or dies, workers take waiting
messages and go on with their runs, beat starts each sweep again and again. No
client step is fair: the page calls finish once, and `FinishingEnds` asks only for
what a request does that runs on. Of a bot session nothing is fair but
time and the sweep: the bot may never upload or finish, and its requests may hang. The writer
of a watched file is not fair either: a file that is never finished stays. A
transaction goes on unless it waits, and a circle of waits is broken. The stream of
a viewer does what it has to do; nobody need open a page. Beat
sends the retention sweep every day, and some worker takes the message and goes on with
its batch: the backlog drains by repetition, not because a purge is retried. In
`Purge`, where only this Meeting is looked at, that is the fairness of each purge to
select it and go on; finishes and runs owe nothing. Crashes,
redeliveries and resumes are not fair and are bounded. `Artifacts` has no
fairness and no liveness property: a dispatch that fails is not repeated, and
nothing in the code promises that a section is ever filled.

## Proofs

`CaptureProofs`, for every set of clients and chunks and every bound:

- `TypeCorrect`: the type invariant.
- `LockInductive`: the row lock is held exactly by a finish between its UPDATE
  and its commit, and the status stays "finishing" meanwhile. From it
  `PendingOnlyFromFinishingHolds`. `OnlyLossStrandsHolds` is inductive as it stands.
- `ListingInductive`: what was acknowledged when a finish began is stored or
  `erased`, and contained in its listing, but for what is erased, once it has one.
  `UntouchedInductive`: while no two finishes overlap a purge of a Meeting that is
  still "capturing" or "finishing" has found no Recording, hence no object, so it has
  erased nothing and a listing is still stored. `AckedChunksInManifestHolds`
  follows from both. The row's lock keeps the manifest from other finishes only: a
  purge takes none before its last statement.
- `SequentialInductive`: while no two finishes overlap at most one is in
  flight, a finish past its flip has no Recording before it, and the status is
  one no upload accepts. `SequentialFinish` follows.
- `FinishingIsOwnedHolds`, inductive as it stands: "finishing" is entered only by a
  flip, whose request is then at work; it leaves by the UPDATE that takes the status
  along, or by a crash, of which the client is told; a request whose
  UPDATE matches nothing was not in its way.
- `KeepsPromiseHolds`: the refinement of `Intake`. The commit is `Store`, the dispatch
  `Tell`, a crash between them `Strand`, the last statement of either purge `Purge`. What it needs is `SequentialInductive`
  (no Recording before the one that is committed) and that nobody else is about
  to dispatch.

`PipelineProofs`, for every number of extractions, workers, redeliveries and viewers:

- `TypeCorrect`: the type invariant.
- `PublishedIsCompleteHolds`: the invariant is that every run, message and
  failed_stage stands at a stage whose mandatory predecessors are done; the
  outputs never go away, so every step of every interleaved run preserves it.
- `KeepsPromiseHolds`: the refinement. Each step of `Pipeline` is a step of
  `Processing` under the mapping, or leaves its variables alone: `StageDone` of a
  mandatory stage is `Write`, of the last one `Publish`, `RecordFailure` is
  `Fail`, a second delivery is `Repeat`. The lemma `OneRunStep` carries the argument:
  while nothing has been delivered twice there is at most one run or message, and
  none at all once the Meeting is published, so "published" is left by no step.
- `FailedStageIsFirstGapHolds`: the property speaks of a Meeting at rest, so
  `FirstGap` says what leads there: without redelivery or drop, no message and
  no run is at a stage that has already inserted rows, nor does any stage after
  it have them. `OneRun` is needed again, because a second run could insert them.
- `RowsBoundedByDeliveriesHolds`: a count of rows is no invariant without a
  count of what may still insert them. `Paid(s)` bounds the sum of the batches of
  stage s, the messages sent from stages up to s (`Messages`) and the runs that
  have yet to pass s (`Runs`) by the repeated deliveries, blind resumes among them
  (`ResumeBlindlyPaid`), and says that a Meeting that is failed at or
  before s with nothing under way is one below that bound, which is what a
  resumed run spends.
- `RestIsSettledHolds`: `Attended` says that without a dropped run a Meeting that is
  not published or failed has a message or a run with a stage to go, and one
  that shows a stage a message or a run. The last step of each run is the
  case to look at: another run may be at work on the same row.
- `PTypeOKHolds` and `ViewersAreToldTheTruthHolds`, of `Progress`, whose steps are
  steps of `Pipeline` or leave it alone (`SpecOfProgress`), so that its
  invariants hold here too. `Truth` says the same of every event on its way and
  every snapshot read as of a page, and `FailedForGood` is why it stays true: in a
  single run a Meeting that has failed at a mandatory stage is at rest.
- `NobodyWaitsInVainHolds`: `Owed` says of every stream from its snapshot on that
  it is about to close, holds an event, or has the end of a run to come
  (`Coming`), unless it has missed one. `ComingStays`: what is to come remains so
  through crashes, repeats and resumes until it is announced, and `Attended` is why
  something is to come when a stream reads a row that has not ended.

`BotIngestProofs`, for every set of starts, finishes, uploads, sweeps and chunks:

- `TypeCorrect`: the type invariant.
- `SessionRecordedOnceHolds`: `SessionInv` adds that nothing is at work on a
  session before it has a row (`SessionKept`), that a finish past its flip
  leaves no "capturing" behind (`Flipped`), and that while no two finishes
  overlap the one in flight finds no Recording (`FinishedOnce`).
- `AckedChunksInManifestHolds`: `ChunkInv`. `ChunksKept` ties the chunks that must be found
  to the store and, once it is made, to the listing, but for what a purge has erased;
  `PurgeFollows` says that a purge that deletes objects has a Recording to go by,
  and that while no two finishes overlap no finish is past its listing then.
- `KeepsPromiseHolds`: the refinement of `Intake`, from `SessionInv`: that a finish
  about to commit finds no Recording is `FinishedOnce`, and that only one is
  about to dispatch follows from the overlap it would otherwise be.

`PurgeProofs`, for every set of purges, uploads, finishes and chunks:

- `TypeCorrect`: the type invariant.
- `DeletionAuditedOnceHolds`, `ManifestOutlivesChunksHolds` and
  `NamedObjectsAreGoneHolds` are parts of one induction, `PurgeInv`: what the
  history tells of the Recording (`Recorded`), that a Meeting is an upload, which
  nobody finishes, or a capture (`Sourced`), what a Recording names (`Named`),
  what a purge has still to delete (`Listing`) and
  what it has left behind at each point (`Swept`). The last two say why a purge
  that stopped may be overtaken by another: each deletes chunks first, then the
  manifest, then the rows.
- `KeepsPromiseHolds`: the refinement of `Erasure`, from `PurgeInv`: each deletion of
  an object is `Erase`, the last commit `Remove`, which `NamedObjectsAreGone` of the
  state after it allows; a purge begins with a kind that is due then
  (`ChosenIsDue`) and may be late by the time it ends.

`WatchFolderProofs`, for every set of scans, names and copies:

- `TypeCorrect`: the type invariant, from `Typed`, which adds that a scan that is
  at a file has seen one.
- `PlacementIsTheLedgerHolds`, `OnlyWholeFilesHolds`, `ResumedIsSkippedHolds`:
  the induction `FileInv` says that a file a scan saw change does not look again
  as it did (`Resumed`), that what a scan has judged is still under its name
  (`Judged`), and that a copy is in one place and at one scan when it
  commits (`Placed`): the rename is what lets one of two scans go on.
- `KeepsPromiseHolds`: the refinement of `Intake` for every copy. `Announced` adds to
  `FileInv` that at most one scan is between the commit of a copy and its dispatch,
  and `CommitClaims` that a commit is the first of its copy.

`RetentionProofs`, for every finite set of Meetings, every number of admins and
tasks and every batch limit:

- `TypeOKHolds`: the type invariant, with a bound of the queue (`Typed`).
- `PolicyIsTheLastPutHolds`: a PUT that nobody overlapped holds the policy as it
  is, so what its attribute writes leave alone has the value it sent.
- `PreviewForetellsHolds`, an action property: `Foreseen` says that everything that
  is due can be foreseen from the preview in force (`DueIsForeseeable`), and so can what
  a task has selected since (`BatchIsForeseeable`). A Meeting that is due and was not
  listed has come since, or passed its threshold since (`RowForeseen`,
  `TickForeseen`); a purge makes nothing due (`DueKept`), and what can be foreseen
  stays so until the policy changes (`StaysForeseeable`). A fresh preview lists all
  that is due (`PreviewIsComplete`), which needs that its limit is not reached, for
  which the number of Meetings has to be finite.
- `ErasesWhatIsDueHolds`: the refinement of `Erasure`, one for every Meeting. A batch
  is part of what is due when it is selected and only shrinks afterwards, so
  whoever deletes a row holds it, for whatever kind, from a time it was due.

`AttributionProofs`, for every number of people, stages, names and clusters:

- `OneParticipantPerNameHolds`: `NamesInv` counts the rows that are not committed:
  a name is inserted once, committed or not (`UniqueNames`), and a transaction
  names Participants that are committed or its own (`Named`).
- `TypeOKHolds`: `Typed` adds that a person's plan is one pair and a model's has
  only names (`Planned`), which is why `pos` never leaves it, and that nothing is
  left of a transaction that has ended.
- `DecisionHoldsHolds`: the property is about committed rows only.
  `DecisionInv` says what leads to them: a transaction finds, deletes and inserts
  rows of its own clusters (`Own`), nobody else writes those of one that was not
  overlapped (`Alone`), and a confirmation nobody overlapped has found or
  deleted all there is about its cluster and will insert the decision and
  nothing else (`Deciding`).
- `NobodyIsStuckHolds`: a transaction waits for an active one only (`WaitsForActive`). If
  none could go on, each active one would wait for another of a finite set;
  the smallest set closed under waiting is then a circle
  (`SmallestCircle`, by well-founded induction on cardinality), which the
  deadlock detector breaks.

`ArtifactsProofs`, for every number of requests, workers, items, accounts,
redeliveries and ways to share:

- `TypeOKHolds`: the type invariant.
- `OneAnswerPerSectionHolds`: the property says nothing of where an extraction
  is, so it is not inductive. `SectionInv` adds that an extraction delivered once
  is in one place (`Sole`: a request, the queue or a worker), that its number
  is one that was asked for (`Known`), that one which may still answer has not
  answered (`Unwritten`), that what is shown was written (`ShownIsWritten`), and
  that without overlap an awaited answer finds an empty section (`OneAtATime`).
  One lemma per kind of step preserves them.
- `LogExplainsSectionHolds`: the log explains an item only if none comes back
  after its entry, so `LogInv` first says that each delivery has its own
  number and one worker (`Numbered`, `Once`): what an extraction inserts is new
  (`Ahead`), and the entries there are when it does are older than it (`Dated`).
  `Kept`, `Accounted` and `Agrees` tie a request between its read and
  its write to the section and the log.
- `EditsFoundTheirItemHolds`: an entry of the log stays, so it is enough to say of the
  moment it is written that the item was there (`There`). An edit that writes
  finds its row, and one that has nothing to write has loaded an item somebody has
  confirmed, whose edit found it (`Found`); `FoundInv` adds the latter to the property.
- `ListShowsWhatOpensHolds`: it follows from the definitions of `Access` in
  any state, for every table of roles and every set of shares.

Assumptions: `CaptureAssumption`, `BotAssumption`, `PipelineAssumption`, `ProgressAssumption`,
`PurgeAssumption`, `WatchAssumption`, `RetentionAssumption`,
`AttributionAssumption`, `RoleAssumption`, `ArtifactsAssumption` and
`NoneAssumption`. They say that the bounds are numbers, that roles and
visibilities are those of the code, that the Meetings of the retention model are
finitely many and so are the transactions of `Attribution`, that the keys of chunks are not those of the other objects, and
that people and stages do not share a transaction, and that `NoOne`, `None`,
`NoName`, `NoFile` and the like are nobody and nothing. TLC evaluates them.

What the models assume of the system beside that: storage calls are atomic and take
effect at once; PostgreSQL is at READ COMMITTED and its row locks are held to the
end of a transaction; a selection of `Retention` reads one committed moment, though it
is two or three statements; API, workers and database go by one clock; and nothing
under `src/` writes `Meeting.visibility` or a `MeetingShare` after creation.

Only model-checked: the liveness properties (`FinishingEnds`, `FinishingIsSwept`,
`RunsSettle`, `ViewersLearnTheEnd`, `RetentionIsEnforced`, `BacklogDrains`, `FilesLeave`,
`TransactionsEnd`), which are out of the prover's reach. What can be said of
them without fairness is proved where the code leaves it to a chain of steps:
`FinishingIsOwned` for `FinishingEnds`, `RestIsSettled` for `RunsSettle`,
`NobodyWaitsInVain` for `ViewersLearnTheEnd` and `NobodyIsStuck` for
`TransactionsEnd` each say that there is somebody who can take the next step.

## Not modelled

- What a stage computes (alignment overlap, prompts, citations), audio bytes,
  streaming and rendering. The batch a stage inserts is one unit, and may be
  empty in the code.
- Login, password and certificate checks: each is local to its request. Two
  first logins of one OIDC account are settled by the unique subject.
- Bot credentials: each operation is one statement on one row nothing else
  writes. A revocation does not stop a request that was let in before it.
- Row-level security, which repeats the organization filter in PostgreSQL; the
  models are of one organization and `Access` compares organizations itself.
- Of watch folders: nested directories, a change of root or owner, the race of two
  upserts of one path, the failed file that the next one of its name replaces
  (`pipeline/watch.py` line 156), and an unreadable directory, which
  `os.walk` reports as an empty one (line 169).
- The length of a streaming thread's life, pool sizes, timeouts of HTTP clients.
- Changes of roles, visibility and shares: no code under `src/` makes them.

## Plan

All modules of the plan are written, and every safety property of a passing run
is proved, the refinements of `Processing`, `Intake` and `Erasure` among them. What
remains is what "Not modelled" lists, and the counterparts without fairness of
`FinishingIsSwept`, `RetentionIsEnforced`, `BacklogDrains` and `FilesLeave`.
