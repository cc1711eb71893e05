------------------------------- MODULE Purge -------------------------------
(***************************************************************************)
(* Retention purge of one Meeting (pipeline/purge.py) against the requests *)
(* and tasks that write the same rows and objects: a capture that is being *)
(* uploaded and finished (api/capture.py) and the normalize stage.         *)
(*                                                                         *)
(* Object storage and the database share no transaction.  A purge deletes  *)
(* the objects its Recording names one call at a time and the rows last;   *)
(* whatever stops it half way, the next sweep selects the Meeting again.   *)
(* A purge's pc names the call it makes next:                              *)
(*   read        load the Recording              (purge.py lines 77-79)    *)
(*   manifest    read the chunk manifest         (lines 38-51, 81-83)      *)
(*   objects     delete chunks, then manifest or raw file (84-91)          *)
(*   normalized  delete the normalized audio     (92-95)                   *)
(*   rows        delete the rows and audit       (113-122, 145-154)        *)
(* Nothing but the UPDATE of a finish keeps a Meeting to one Recording: two *)
(* finishes that both read "capturing" commit two of one manifest.         *)
(***************************************************************************)
EXTENDS MeetingRow, Naturals

CONSTANTS
    Purgers,    \* concurrent executions of purge_organization
    Uploaders,
    Finishers,
    Chunks,
    MaxRecordings,  \* bound: no finish is begun after so many Recordings
    MaxAborts       \* bound: tasks and requests that stop half way

ASSUME PurgeAssumption ==
    /\ MaxRecordings \in Nat /\ MaxAborts \in Nat
    /\ Chunks \cap {"raw", "manifest", "normalized"} = {}

VARIABLES
    status,     \* Meeting.status, "pending" from there on; Purged without a row
    rec,        \* a Recording row: what raw_key is, is normalized_key set
    doubled,    \* there is another Recording row, of the same manifest
    store,      \* the objects in the bucket
    listed,     \* chunks the manifest object lists
    age,        \* the retention threshold the Meeting is past
    ppc, kind, pread, todo,    \* purges: candidate kind, Recording read, chunks left
    queue,                     \* undelivered run_pipeline messages
    npc, nleft,                \* a run: objects normalize has still to fetch
    upc, useq,                 \* chunk uploads
    fpc, snap,                 \* finish requests
    named,      \* history: objects a committed Recording has named
    made,       \* history: Recordings committed
    raced,      \* history: what a Recording names was written after it
    audits,     \* history: purge audit entries, by kind
    aborts

recordings == <<rec, doubled>>
purges     == <<ppc, kind, pread, todo>>
run        == <<queue, npc, nleft>>
uploads    == <<upc, useq>>
finishes   == <<fpc, snap>>
history    == <<named, made, raced, audits, aborts>>
vars       == <<status, recordings, store, listed, age, purges, run, uploads,
                finishes, history>>

Objects == Chunks \cup {"raw", "manifest", "normalized"}
NoRec   == [raw |-> "none", norm |-> FALSE]
Kinds   == {"full", "audio"}

\* A Meeting created by a file upload, or a capture just started.
Init ==
    /\ \/ /\ status = "pending" /\ rec = [raw |-> "file", norm |-> FALSE]
          /\ store = {"raw"} /\ named = {"raw"} /\ made = 1 /\ queue = 1
       \/ /\ status = "capturing" /\ rec = NoRec
          /\ store = {} /\ named = {} /\ made = 0 /\ queue = 0
    /\ doubled = FALSE /\ listed = {} /\ age = "young"
    /\ ppc = [p \in Purgers |-> "idle"] /\ kind = [p \in Purgers |-> "full"]
    /\ pread = [p \in Purgers |-> NoRec] /\ todo = [p \in Purgers |-> {}]
    /\ npc = "idle" /\ nleft = {}
    /\ upc = [u \in Uploaders |-> "idle"] /\ useq \in [Uploaders -> Chunks]
    /\ fpc = [f \in Finishers |-> "idle"] /\ snap = [f \in Finishers |-> {}]
    /\ raced = FALSE /\ audits = [k \in Kinds |-> 0] /\ aborts = 0

-----------------------------------------------------------------------------
(* purge_organization.                                                     *)

\* created_at passes audio_retention_days, then meeting_retention_days.
GrowOld ==
    /\ age' \in CASE age = "young" -> {"audio", "full"}
                  [] age = "audio" -> {"full"}
                  [] OTHER -> {}
    /\ UNCHANGED <<status, recordings, store, listed, purges, run, uploads,
                   finishes, history>>

\* The candidate is full past the Meeting threshold; audio past the audio
\* threshold, if the Recording row is there.
Select(p) ==
    /\ ppc[p] = "idle" /\ status # Purged
    /\ \/ age = "full"
       \/ age = "audio" /\ rec # NoRec
    /\ kind' = [kind EXCEPT ![p] = age]
    /\ ppc' = [ppc EXCEPT ![p] = "read"]
    /\ UNCHANGED <<status, recordings, store, listed, age, pread, todo, run,
                   uploads, finishes, history>>

PGoto(p, from, to) == ppc[p] = from /\ ppc' = [ppc EXCEPT ![p] = to]

\* A Meeting without a Recording has no objects as far as a purge can tell;
\* one with two makes one_or_none() raise, and the batch goes on without it.
ReadRecording(p) ==
    /\ PGoto(p, "read", IF doubled THEN "idle"
                        ELSE CASE rec = NoRec -> "rows"
                               [] rec.raw = "file" -> "objects"
                               [] OTHER -> "manifest")
    /\ pread' = [pread EXCEPT ![p] = IF doubled THEN NoRec ELSE rec]
    /\ UNCHANGED <<status, recordings, store, listed, age, kind, todo, run,
                   uploads, finishes, history>>

\* Mutations: the manifest is deleted among the chunks; a missing manifest is
\* an error.
ListedKeys_WithItself == listed \cup {"manifest"}
ListedKeys            == listed
NoManifest_Raises     == "idle"
NoManifest            == "objects"

\* A missing manifest means that an earlier purge got that far.
ReadManifest(p) ==
    /\ PGoto(p, "manifest", IF "manifest" \in store THEN "objects" ELSE NoManifest)
    /\ todo' = [todo EXCEPT ![p] = IF "manifest" \in store THEN ListedKeys ELSE {}]
    /\ UNCHANGED <<status, recordings, store, listed, age, kind, pread, run,
                   uploads, finishes, history>>

DeleteChunk(p) ==
    /\ ppc[p] = "objects"
    /\ \E c \in todo[p] :
         /\ todo' = [todo EXCEPT ![p] = @ \ {c}]
         /\ store' = store \ {c}
    /\ UNCHANGED <<status, recordings, listed, age, ppc, kind, pread, run,
                   uploads, finishes, history>>

\* Mutation: the manifest does not wait for the chunks it lists.
ChunksGone_Unchecked(p) == TRUE
ChunksGone(p)           == todo[p] = {}

\* The manifest goes after every chunk it lists.
DeleteRaw(p) ==
    /\ PGoto(p, "objects", "normalized")
    /\ ChunksGone(p)
    /\ store' = store \ {IF pread[p].raw = "file" THEN "raw" ELSE "manifest"}
    /\ UNCHANGED <<status, recordings, listed, age, kind, pread, todo, run,
                   uploads, finishes, history>>

\* Mutation: only the raw audio is deleted.
NormalizedKeys_Skipped(p) == {}
NormalizedKeys(p)         == IF pread[p].norm THEN {"normalized"} ELSE {}

DeleteNormalized(p) ==
    /\ PGoto(p, "normalized", "rows")
    /\ store' = store \ NormalizedKeys(p)
    /\ UNCHANGED <<status, recordings, listed, age, kind, pread, todo, run,
                   uploads, finishes, history>>

\* Mutation: the audit entry does not depend on what was deleted.
Deleted_Always(p) == TRUE
Deleted(p)        == IF kind[p] = "full" THEN status # Purged ELSE rec # NoRec

\* DELETE of the Meeting by id, whose cascade takes its Recordings, or of every
\* Recording it has by now.  The audit entry of the same transaction is written when the
\* statement has deleted a row, which only one of two purges sees.
DeleteRows(p) ==
    /\ PGoto(p, "rows", "idle")
    /\ rec' = NoRec /\ doubled' = FALSE
    /\ raced' = (raced \/ rec \notin {NoRec, pread[p]})
    /\ status' = IF kind[p] = "full" THEN Purged ELSE status
    /\ audits' = [audits EXCEPT ![kind[p]] = IF Deleted(p) THEN @ + 1 ELSE @]
    /\ pread' = [pread EXCEPT ![p] = NoRec]
    /\ UNCHANGED <<store, listed, age, kind, todo, run, uploads, finishes,
                   named, made, aborts>>

Abort == aborts < MaxAborts /\ aborts' = aborts + 1

\* The worker dies or a call raises: the transaction rolls back, the deleted
\* objects stay deleted, and the Meeting remains a candidate.
PurgeFails(p) ==
    /\ ppc[p] # "idle"
    /\ Abort
    /\ ppc' = [ppc EXCEPT ![p] = "idle"]
    /\ pread' = [pread EXCEPT ![p] = NoRec]
    /\ todo' = [todo EXCEPT ![p] = {}]
    /\ UNCHANGED <<status, recordings, store, listed, age, kind, run, uploads,
                   finishes, named, made, raced, audits>>

-----------------------------------------------------------------------------
(* A run of the pipeline, up to the commit of normalize.                   *)

RGoto(from, to) == npc = from /\ npc' = to

\* The stages, and the failure of one, write the status of a Meeting that is
\* there, whatever it is by then.
RunWrites == status' = IF status = Purged THEN Purged ELSE "pending"

\* .one() raises unless there is one Recording.
OneRecording == rec # NoRec /\ ~doubled

NormalizeRead ==
    /\ queue > 0 /\ queue' = queue - 1
    /\ RGoto("idle", IF OneRecording THEN "fetch" ELSE "failed")
    /\ nleft' = IF ~OneRecording THEN {}
                ELSE IF rec.raw = "file" THEN {"raw"} ELSE {"manifest"}
    /\ UNCHANGED <<status, recordings, store, listed, age, purges, uploads, finishes,
                   history>>

\* The manifest leads to its chunks; an object that is gone raises.
NormalizeFetch ==
    /\ npc = "fetch"
    /\ \E o \in nleft :
         IF o \notin store THEN npc' = "failed" /\ nleft' = {}
         ELSE /\ nleft' = (nleft \ {o}) \cup (IF o = "manifest" THEN listed ELSE {})
              /\ UNCHANGED npc
    /\ UNCHANGED <<status, recordings, store, listed, age, purges, queue, uploads,
                   finishes, history>>

NormalizePut ==
    /\ nleft = {}
    /\ RGoto("fetch", "commit")
    /\ store' = store \cup {"normalized"}
    /\ raced' = (raced \/ "normalized" \in named)
    /\ UNCHANGED <<status, recordings, listed, age, purges, queue, nleft, uploads,
                   finishes, named, made, audits, aborts>>

\* Without its Recording the stage raises and the object it put stays.
NormalizeCommit ==
    /\ RGoto("commit", IF OneRecording THEN "later" ELSE "failed")
    /\ IF OneRecording
       THEN /\ rec' = [rec EXCEPT !.norm = TRUE]
            /\ named' = named \cup {"normalized"}
            /\ RunWrites
       ELSE UNCHANGED <<rec, named, status>>
    /\ UNCHANGED <<doubled, store, listed, age, purges, queue, nleft, uploads,
                   finishes, made, raced, audits, aborts>>

\* The run fails, or goes on to its end.
RunEnds ==
    /\ npc \in {"failed", "later"}
    /\ npc' = "idle"
    /\ RunWrites
    /\ UNCHANGED <<recordings, store, listed, age, purges, queue, nleft, uploads,
                   finishes, history>>

\* The worker dies: the message is back in the queue.
RunRepeats ==
    /\ npc # "idle"
    /\ Abort
    /\ queue' = queue + 1
    /\ npc' = "idle" /\ nleft' = {}
    /\ UNCHANGED <<status, recordings, store, listed, age, purges, uploads,
                   finishes, named, made, raced, audits>>

-----------------------------------------------------------------------------
(* Capture.                                                                *)

UploadCheck(u, c) ==
    /\ upc[u] = "idle" /\ status = "capturing"
    /\ upc' = [upc EXCEPT ![u] = "put"]
    /\ useq' = [useq EXCEPT ![u] = c]
    /\ UNCHANGED <<status, recordings, store, listed, age, purges, run, finishes,
                   history>>

\* What is written for a Meeting that has had its Recording.
Late == raced' = (raced \/ named # {})

\* The put needs no row: it lands after a finish, or after the purge.
UploadPut(u) ==
    /\ upc[u] = "put"
    /\ store' = store \cup {useq[u]}
    /\ upc' = [upc EXCEPT ![u] = "idle"]
    /\ Late
    /\ UNCHANGED <<status, recordings, listed, age, purges, run, useq, finishes,
                   named, made, audits, aborts>>

FGoto(f, from, to) == fpc[f] = from /\ fpc' = [fpc EXCEPT ![f] = to]

\* A request that reads "finishing" has nothing to flip.
FinishRead(f) ==
    /\ status \in {"capturing", "finishing"}
    /\ made < MaxRecordings
    /\ FGoto(f, "idle", IF status = "capturing" THEN "flip" ELSE "list")
    /\ UNCHANGED <<status, recordings, store, listed, age, purges, run, uploads,
                   snap, history>>

\* The status it writes over may have changed since it was read; without the
\* row the UPDATE raises.
FinishFlip(f) ==
    /\ FGoto(f, "flip", IF status = Purged THEN "idle" ELSE "list")
    /\ status' = IF status = Purged THEN Purged ELSE "finishing"
    /\ UNCHANGED <<recordings, store, listed, age, purges, run, uploads, snap,
                   history>>

FinishList(f) ==
    /\ FGoto(f, "list", "swap")
    /\ snap' = [snap EXCEPT ![f] = store \cap Chunks]
    /\ UNCHANGED <<status, recordings, store, listed, age, purges, run, uploads,
                   history>>

\* UPDATE ... WHERE status = 'finishing', which one of two requests matches.
Swap(f) ==
    /\ FGoto(f, "swap", "idle")
    /\ snap' = [snap EXCEPT ![f] = {}]
    /\ status = "finishing"

FinishEmpty(f) ==
    /\ Swap(f)
    /\ snap[f] = {}
    /\ status' = "capturing"
    /\ UNCHANGED <<recordings, store, listed, age, purges, run, uploads, history>>

PutManifest(f) ==
    /\ snap[f] # {}
    /\ store' = store \cup {"manifest"} /\ listed' = snap[f]
    /\ Late

\* The Recording is added, not replaced, and the pipeline started.
FinishCommit(f) ==
    /\ Swap(f)
    /\ PutManifest(f)
    /\ status' = "pending"
    /\ rec' = IF rec = NoRec THEN [raw |-> "manifest", norm |-> FALSE] ELSE rec
    /\ doubled' = (rec # NoRec)
    /\ named' = named \cup {"manifest"} \cup snap[f]
    /\ made' = made + 1
    /\ queue' = queue + 1
    /\ UNCHANGED <<age, purges, npc, nleft, uploads, audits, aborts>>

FinishLost(f) ==
    /\ FGoto(f, "swap", "idle")
    /\ status # "finishing"
    /\ snap' = [snap EXCEPT ![f] = {}]
    /\ UNCHANGED <<status, recordings, store, listed, age, purges, run, uploads,
                   history>>

\* The transaction rolls back after its manifest was put; a later finish
\* writes the object again.
FinishFails(f) ==
    /\ Swap(f)
    /\ PutManifest(f)
    /\ Abort
    /\ UNCHANGED <<status, recordings, age, purges, run, uploads, named, made, audits>>

-----------------------------------------------------------------------------

PurgeStep(p) ==
    \/ ReadRecording(p) \/ ReadManifest(p) \/ DeleteChunk(p) \/ DeleteRaw(p)
    \/ DeleteNormalized(p) \/ DeleteRows(p)

RunStep ==
    NormalizeRead \/ NormalizeFetch \/ NormalizePut \/ NormalizeCommit \/ RunEnds

FinishStep(f) ==
    FinishFlip(f) \/ FinishList(f) \/ FinishEmpty(f) \/ FinishCommit(f) \/ FinishLost(f)

Next ==
    \/ GrowOld
    \/ \E p \in Purgers : Select(p) \/ PurgeStep(p) \/ PurgeFails(p)
    \/ RunStep \/ RunRepeats
    \/ \E u \in Uploaders : UploadPut(u) \/ \E c \in Chunks : UploadCheck(u, c)
    \/ \E f \in Finishers : FinishRead(f) \/ FinishStep(f) \/ FinishFails(f)

\* Beat starts the sweep every day and a started purge runs on.
Fairness == \A p \in Purgers : WF_vars(Select(p) \/ PurgeStep(p))

Spec     == Init /\ [][Next]_vars
FairSpec == Spec /\ Fairness

-----------------------------------------------------------------------------

Recs == [raw : {"none", "file", "manifest"}, norm : BOOLEAN]

TypeOK ==
    /\ status \in {"capturing", "finishing", "pending", Purged}
    /\ rec \in Recs /\ doubled \in BOOLEAN
    /\ store \subseteq Objects /\ listed \subseteq Chunks
    /\ age \in {"young", "audio", "full"}
    /\ ppc \in [Purgers -> {"idle", "read", "manifest", "objects",
                            "normalized", "rows"}]
    /\ kind \in [Purgers -> Kinds]
    /\ pread \in [Purgers -> Recs] /\ todo \in [Purgers -> SUBSET Chunks]
    /\ queue \in Nat
    /\ npc \in {"idle", "fetch", "commit", "failed", "later"} /\ nleft \subseteq Objects
    /\ upc \in [Uploaders -> {"idle", "put"}] /\ useq \in [Uploaders -> Chunks]
    /\ fpc \in [Finishers -> {"idle", "flip", "list", "swap"}]
    /\ snap \in [Finishers -> SUBSET Chunks]
    /\ named \subseteq Objects /\ made \in Nat /\ raced \in BOOLEAN
    /\ audits \in [Kinds -> Nat] /\ aborts \in Nat

\* purge.py:65-76: wherever a purge stops, while a chunk the manifest lists is
\* in the bucket the manifest is there too, so that the next sweep finds it.
ManifestOutlivesChunks ==
    rec.raw = "manifest" /\ ~raced /\ listed \cap store # {}
        => "manifest" \in store

\* purge.py:1-11: when the rows are gone, so is every object a Recording of
\* the Meeting ever named, however many purges ran over it and wherever they
\* stopped; unless an upload, a second finish or normalize wrote once more
\* what the Recording names.
NamedObjectsAreGone == rec = NoRec /\ ~raced => named \cap store = {}

\* Lines 114-122, 146-154: what is deleted is audited once, though several
\* purges may run over the same candidate, each may stop anywhere, and a finish
\* may bring the Recording back: one entry for the Meeting, and not more about
\* its audio than there have been Recordings that are gone.
DeletionAuditedOnce ==
    /\ audits["full"] = (IF status = Purged THEN 1 ELSE 0)
    /\ audits["audio"] + (IF rec = NoRec THEN 0 ELSE 1) <= made

\* The calls of a purge, between those of other purges, of normalize and of a
\* capture, implement the one step that Retention takes a purge for: the rows
\* go last, in one step, and leave nothing that they named.
Promised == INSTANCE Erasure
            WITH row     <- status # Purged,
                 audio   <- rec # NoRec,
                 kept    <- named \cap store,
                 due     <- CASE status = Purged \/ age = "young" -> {}
                              [] age = "audio" /\ rec = NoRec -> {}
                              [] OTHER -> {age},
                 chosen  <- {kind[p] : p \in {q \in Purgers : ppc[q] # "idle"}},
                 spoiled <- raced

KeepsPromise == Promised!Spec

\* purge.py:4-11, "the periodic sweep IS the reconciliation path": what is due,
\* a Meeting or its audio, is deleted in the end, wherever its purges stop and
\* whatever writes to it; unless two finishes have left it with two Recordings,
\* of which no purge can read one.
RetentionIsEnforced ==
    []<>(\/ status = Purged \/ doubled
         \/ age = "young"
         \/ age = "audio" /\ rec = NoRec)

\* docs/retention.md:28-31: of a fully purged Meeting nothing survives, once
\* every request and task on it has ended; here even without an upload or a
\* normalize that races the purge.
NothingSurvives ==
    /\ status = Purged /\ ~raced
    /\ \A p \in Purgers : ppc[p] = "idle"
    /\ \A u \in Uploaders : upc[u] = "idle"
    /\ \A f \in Finishers : fpc[f] = "idle"
    /\ npc = "idle"
    => store = {}

=============================================================================
