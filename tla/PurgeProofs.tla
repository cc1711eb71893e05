---------------------------- MODULE PurgeProofs ----------------------------
(***************************************************************************)
(* What TLAPS proves of Purge for every number of purges, uploads and      *)
(* chunks and any number of stops half way: the types, that a deletion is  *)
(* audited once, that the manifest outlives the chunks it lists, and that  *)
(* nothing a Recording has named outlives its row.                         *)
(***************************************************************************)
EXTENDS Purge, TLAPS

-----------------------------------------------------------------------------
(* Types.                                                                  *)

\* A purge's step.
LEMMA PurgeTyped ==
    ASSUME TypeOK, NEW p \in Purgers, Select(p) \/ PurgeStep(p) \/ PurgeFails(p)
    PROVE  TypeOK'
<1> USE DEF TypeOK, Kinds, recordings, purges, run, uploads, finishes, history
<1>1. CASE Select(p)
  BY <1>1 DEF Select
<1>2. CASE ReadRecording(p)
  BY <1>2 DEF ReadRecording, PGoto, Recs, NoRec
<1>3. CASE ReadManifest(p)
  BY <1>3 DEF ReadManifest, PGoto, ListedKeys, NoManifest
<1>4. CASE DeleteChunk(p)
  BY <1>4 DEF DeleteChunk
<1>5. CASE DeleteRaw(p)
  BY <1>5 DEF DeleteRaw, PGoto
<1>6. CASE DeleteNormalized(p)
  BY <1>6 DEF DeleteNormalized, PGoto
<1>7. CASE DeleteRows(p)
  <2>1. raced' \in BOOLEAN
    BY <1>7, Zenon DEF DeleteRows
  <2>2. audits' \in [Kinds -> Nat]
    BY <1>7 DEF DeleteRows
  <2> QED
    BY <1>7, <2>1, <2>2 DEF DeleteRows, PGoto, Recs, NoRec
<1>8. CASE PurgeFails(p)
  BY <1>8 DEF PurgeFails, Abort, Recs, NoRec
<1> QED
  BY <1>1, <1>2, <1>3, <1>4, <1>5, <1>6, <1>7, <1>8 DEF PurgeStep

\* A step of a run.
LEMMA RunTyped ==
    ASSUME TypeOK, RunStep \/ RunRepeats
    PROVE  TypeOK'
<1> USE DEF TypeOK, Objects, recordings, purges, run, uploads, finishes, history
<1>1. CASE NormalizeRead
  BY <1>1 DEF NormalizeRead, RGoto
<1>2. CASE NormalizeFetch
  BY <1>2 DEF NormalizeFetch
<1>3. CASE NormalizePut
  <2>1. raced' \in BOOLEAN
    BY <1>3, Zenon DEF NormalizePut
  <2> QED
    BY <1>3, <2>1 DEF NormalizePut, RGoto
<1>4. CASE NormalizeCommit
  BY <1>4 DEF NormalizeCommit, RGoto, RunWrites, OneRecording, Recs
<1>5. CASE RunEnds \/ RunRepeats
  BY <1>5 DEF RunEnds, RunRepeats, RunWrites, Abort
<1> QED
  BY <1>1, <1>2, <1>3, <1>4, <1>5 DEF RunStep

\* A step of a capture.
CaptureStep ==
    \/ \E u \in Uploaders : UploadPut(u) \/ \E c \in Chunks : UploadCheck(u, c)
    \/ \E f \in Finishers : FinishRead(f) \/ FinishStep(f) \/ FinishFails(f)

LEMMA CaptureTyped ==
    ASSUME TypeOK, CaptureStep
    PROVE  TypeOK'
<1> USE DEF TypeOK, Objects, recordings, purges, run, uploads, finishes, history
<1>1. ASSUME NEW u \in Uploaders, UploadPut(u) \/ \E c \in Chunks : UploadCheck(u, c)
      PROVE  TypeOK'
  <2>1. raced' \in BOOLEAN
    BY <1>1, Zenon DEF UploadPut, UploadCheck, Late
  <2> QED
    BY <1>1, <2>1 DEF UploadPut, UploadCheck
<1>2. ASSUME NEW f \in Finishers,
             FinishRead(f) \/ FinishFlip(f) \/ FinishList(f) \/ FinishLost(f)
      PROVE  TypeOK'
  BY <1>2 DEF FinishRead, FinishFlip, FinishList, FinishLost, FGoto
<1>3. ASSUME NEW f \in Finishers, FinishEmpty(f)
      PROVE  TypeOK'
  BY <1>3 DEF FinishEmpty, Swap, FGoto
<1>4. ASSUME NEW f \in Finishers, FinishCommit(f) \/ FinishFails(f)
      PROVE  TypeOK'
  <2>1. raced' \in BOOLEAN /\ doubled' \in BOOLEAN
    BY <1>4, Zenon DEF FinishCommit, FinishFails, PutManifest, Late
  <2>2. CASE FinishCommit(f)
    BY <2>1, <2>2 DEF FinishCommit, PutManifest, Swap, FGoto, Recs
  <2>3. CASE FinishFails(f)
    BY <2>1, <2>3 DEF FinishFails, PutManifest, Swap, FGoto, Abort
  <2> QED
    BY <1>4, <2>2, <2>3
<1> QED
  BY <1>1, <1>2, <1>3, <1>4 DEF CaptureStep, FinishStep

\* Every variable keeps its type.
THEOREM TypeCorrect == Spec => []TypeOK
<1>1. Init => TypeOK
  <2> SUFFICES ASSUME Init PROVE TypeOK
    OBVIOUS
  <2>1. raced \in BOOLEAN /\ doubled \in BOOLEAN
    BY Zenon DEF Init
  <2>2. /\ made \in Nat /\ queue \in Nat /\ status \in {"capturing", "pending"}
        /\ rec \in Recs /\ store \subseteq Objects /\ named \subseteq Objects
    <3>1. CASE rec = NoRec
      BY <3>1 DEF Init, Objects, Recs, NoRec
    <3>2. CASE rec = [raw |-> "file", norm |-> FALSE]
      BY <3>2 DEF Init, Objects, Recs, NoRec
    <3> QED
      BY <3>1, <3>2 DEF Init
  <2>3. pread \in [Purgers -> Recs] /\ audits \in [Kinds -> Nat]
    BY DEF Init, Recs, NoRec
  <2> QED
    BY <2>1, <2>2, <2>3 DEF Init, TypeOK, Kinds
<1>2. TypeOK /\ [Next]_vars => TypeOK'
  <2>1. TypeOK /\ UNCHANGED vars => TypeOK'
    BY DEF TypeOK, vars, recordings, purges, run, uploads, finishes, history
  <2>2. TypeOK /\ GrowOld => TypeOK'
    BY DEF TypeOK, GrowOld, recordings, purges, run, uploads, finishes, history
  <2> QED
    BY <2>1, <2>2, PurgeTyped, RunTyped, CaptureTyped DEF Next, CaptureStep
<1> QED
  BY <1>1, <1>2, PTL DEF Spec

-----------------------------------------------------------------------------
(* What purges, capture and normalize keep between them.                   *)

\* What the history of a Meeting tells of its Recording.
Recorded ==
    /\ rec.raw = "none" => rec = NoRec
    /\ made = 0 <=> named = {}
    /\ named = {} => rec = NoRec /\ \A p \in Purgers : pread[p].raw = "none"
    /\ DeletionAuditedOnce

\* A Meeting is an upload or a capture, and an upload is never finished.
Sourced ==
    /\ "raw" \in named => status \in {"pending", Purged} /\ rec.raw # "manifest"
    /\ "raw" \notin named => rec.raw # "file" /\ \A p \in Purgers : pread[p].raw # "file"
    /\ "raw" \in named => \A f \in Finishers : fpc[f] = "idle"
    /\ \A p \in Purgers :
           /\ ppc[p] = "manifest" => pread[p].raw = "manifest"
           /\ ppc[p] = "objects" => pread[p].raw # "none"

\* A purge has read what normalize set only since, and the only committed
\* Recording names what its manifest lists, and what has been set.
Named ==
    /\ rec.norm => "normalized" \in named
    /\ \A p \in Purgers : pread[p].norm => "normalized" \in named
    /\ npc = "commit" /\ ~raced => "normalized" \notin named
    /\ rec # NoRec /\ ~raced =>
           /\ "normalized" \in named <=> rec.norm
           /\ named \ {"normalized"} = IF rec.raw = "file" THEN {"raw"}
                                                         ELSE {"manifest"} \cup listed

\* A purge at the objects has yet to delete what of the manifest is left.
Listing ==
    rec.raw = "manifest" /\ ~raced =>
        \A p \in Purgers : ppc[p] = "objects" => listed \cap store \subseteq todo[p]

\* A purge of the Recording as it stands leaves no object behind it.
Swept ==
    rec # NoRec /\ ~raced =>
        \A p \in Purgers : pread[p] = rec =>
            /\ ppc[p] \in {"normalized", "rows"} =>
                   named \cap store \subseteq {"normalized"}
            /\ ppc[p] = "rows" => named \cap store = {}

PurgeInv ==
    /\ Recorded /\ Sourced /\ Named /\ Listing /\ Swept
    /\ ManifestOutlivesChunks /\ NamedObjectsAreGone

\* Reading decides what a purge deletes: all that is there to be deleted.
LEMMA ReadingKeeps ==
    ASSUME TypeOK, PurgeInv, NEW p \in Purgers,
           Select(p) \/ ReadRecording(p) \/ ReadManifest(p) \/ PurgeFails(p)
    PROVE  PurgeInv'
<1> USE DEF TypeOK, Recs, NoRec, Recorded, DeletionAuditedOnce, Sourced, Named,
            Listing, Swept, ManifestOutlivesChunks, NamedObjectsAreGone, recordings,
            purges, run, uploads, finishes, history
<1>1. CASE Select(p)
  BY <1>1 DEF PurgeInv, Select
<1>2. CASE ReadRecording(p)
  <2>1. ppc[p] = "read" /\ ppc'[p] \in {"idle", "rows", "objects", "manifest"}
    BY <1>2 DEF ReadRecording, PGoto
  <2>2. /\ ppc'[p] = "rows" => rec = NoRec
        /\ ppc'[p] = "objects" => rec.raw = "file" /\ pread'[p] = rec
        /\ ppc'[p] = "manifest" => rec.raw = "manifest" /\ pread'[p] = rec
    BY <1>2, <2>1 DEF PurgeInv, ReadRecording, PGoto
  <2>3. \A q \in Purgers : q # p => ppc'[q] = ppc[q] /\ pread'[q] = pread[q]
    BY <1>2 DEF ReadRecording, PGoto
  <2>4. pread'[p] \in {rec, NoRec}
    BY <1>2 DEF ReadRecording
  <2>5. UNCHANGED <<status, rec, store, listed, todo, npc, fpc, named, made, raced, audits>>
    BY <1>2 DEF ReadRecording
  <2> QED
    <3>1. Recorded' /\ Sourced' /\ Named'
      BY <2>1, <2>2, <2>3, <2>4, <2>5 DEF PurgeInv
    <3>2. Listing' /\ ManifestOutlivesChunks' /\ NamedObjectsAreGone'
      BY <2>1, <2>2, <2>3, <2>4, <2>5 DEF PurgeInv
    <3>3. Swept'
      BY <2>1, <2>2, <2>3, <2>4, <2>5 DEF PurgeInv
    <3> QED
      BY <3>1, <3>2, <3>3 DEF PurgeInv
<1>3. CASE ReadManifest(p)
  BY <1>3 DEF PurgeInv, ReadManifest, PGoto, ListedKeys, NoManifest
<1>4. CASE PurgeFails(p)
  BY <1>4 DEF PurgeInv, PurgeFails
<1> QED
  BY <1>1, <1>2, <1>3, <1>4

\* Deleting an object takes it off the list of those left, or is the last call
\* of its kind.
LEMMA DeletingKeeps ==
    ASSUME TypeOK, PurgeInv, NEW p \in Purgers,
           DeleteChunk(p) \/ DeleteRaw(p) \/ DeleteNormalized(p)
    PROVE  PurgeInv'
<1> USE PurgeAssumption
        DEF TypeOK, Recs, NoRec, Objects, Recorded, DeletionAuditedOnce, Sourced,
            Named, Listing, Swept, ManifestOutlivesChunks, NamedObjectsAreGone,
            recordings, purges, run, uploads, finishes, history
<1>1. CASE DeleteChunk(p)
  BY <1>1 DEF PurgeInv, DeleteChunk
<1>2. CASE DeleteRaw(p)
  BY <1>2 DEF PurgeInv, DeleteRaw, PGoto, ChunksGone
<1>3. CASE DeleteNormalized(p)
  BY <1>3 DEF PurgeInv, DeleteNormalized, PGoto, NormalizedKeys
<1> QED
  BY <1>1, <1>2, <1>3

\* Deleting the rows: if they are those the purge has read, their objects have
\* gone before them.
LEMMA RowsKeep ==
    ASSUME TypeOK, PurgeInv, NEW p \in Purgers, DeleteRows(p)
    PROVE  PurgeInv'
<1> USE DEF TypeOK, Recs, NoRec, Kinds, Recorded, DeletionAuditedOnce, Sourced,
            Named, Listing, Swept, ManifestOutlivesChunks, NamedObjectsAreGone,
            recordings, purges, run, uploads, finishes, history
<1>1. raced' <=> raced \/ rec \notin {NoRec, pread[p]}
  BY Zenon DEF DeleteRows
<1>2. audits' = [audits EXCEPT ![kind[p]] = IF Deleted(p) THEN @ + 1 ELSE @]
  BY DEF DeleteRows
<1>3. Recorded'
  BY <1>2 DEF PurgeInv, DeleteRows, PGoto, Deleted
<1>4. Sourced' /\ Named' /\ Listing' /\ Swept'
  BY <1>1 DEF PurgeInv, DeleteRows, PGoto
<1>5. ManifestOutlivesChunks' /\ NamedObjectsAreGone'
  BY <1>1 DEF PurgeInv, DeleteRows, PGoto
<1> QED
  BY <1>3, <1>4, <1>5 DEF PurgeInv

\* normalize sets its key on a Recording that no purge has read so.
LEMMA RunKeeps ==
    ASSUME TypeOK, PurgeInv, RunStep \/ RunRepeats
    PROVE  PurgeInv'
<1> USE PurgeAssumption
        DEF TypeOK, Recs, NoRec, Objects, Recorded, DeletionAuditedOnce, Sourced,
            Named, Listing, Swept, ManifestOutlivesChunks, NamedObjectsAreGone,
            recordings, purges, run, uploads, finishes, history
<1>1. CASE NormalizeRead
  BY <1>1 DEF PurgeInv, NormalizeRead, RGoto
<1>2. CASE NormalizeFetch
  BY <1>2 DEF PurgeInv, NormalizeFetch
<1>3. CASE NormalizePut
  <2>1. raced' <=> raced \/ "normalized" \in named
    BY <1>3, Zenon DEF NormalizePut
  <2> QED
    BY <1>3, <2>1 DEF PurgeInv, NormalizePut, RGoto
<1>4. CASE NormalizeCommit
  <2>1. CASE ~OneRecording
    BY <1>4, <2>1 DEF PurgeInv, NormalizeCommit, RGoto
  <2>2. CASE OneRecording
    <3>1. /\ rec' = [raw |-> rec.raw, norm |-> TRUE] /\ rec # NoRec /\ rec' # NoRec
          /\ named' = named \cup {"normalized"} /\ named # {}
      BY <1>4, <2>2 DEF PurgeInv, NormalizeCommit, OneRecording
    <3>2. ~raced => \A p \in Purgers : pread'[p] # rec'
      BY <1>4, <3>1 DEF PurgeInv, NormalizeCommit, RGoto
    <3>3. status' \in {status, "pending"} /\ (status' = Purged <=> status = Purged)
      BY <1>4, <2>2 DEF NormalizeCommit, RunWrites, Purged
    <3>4. Recorded' /\ Sourced' /\ Named'
      BY <1>4, <3>1, <3>3 DEF PurgeInv, NormalizeCommit, RGoto
    <3>5. Listing' /\ Swept' /\ ManifestOutlivesChunks' /\ NamedObjectsAreGone'
      BY <1>4, <3>1, <3>2 DEF PurgeInv, NormalizeCommit, RGoto
    <3> QED
      BY <3>4, <3>5 DEF PurgeInv
  <2> QED
    BY <2>1, <2>2
<1>5. CASE RunEnds \/ RunRepeats
  <2>1. status' \in {status, "pending"} /\ (status' = Purged <=> status = Purged)
    BY <1>5 DEF RunEnds, RunRepeats, RunWrites, Purged
  <2> QED
    BY <1>5, <2>1 DEF PurgeInv, RunEnds, RunRepeats
<1> QED
  BY <1>1, <1>2, <1>3, <1>4, <1>5 DEF RunStep

\* Before there is a Recording no purge has anything to delete; what comes
\* after it is late.
LEMMA CaptureKeeps ==
    ASSUME TypeOK, PurgeInv, CaptureStep
    PROVE  PurgeInv'
<1> USE PurgeAssumption
        DEF TypeOK, Recs, NoRec, Objects, Recorded, DeletionAuditedOnce, Sourced,
            Named, Listing, Swept, ManifestOutlivesChunks, NamedObjectsAreGone,
            Purged, recordings, purges, run, uploads, finishes, history
<1>1. ASSUME NEW u \in Uploaders, UploadPut(u)
      PROVE  PurgeInv'
  <2>1. raced' <=> raced \/ named # {}
    BY <1>1, Zenon DEF UploadPut, Late
  <2> QED
    BY <1>1, <2>1 DEF PurgeInv, UploadPut
<1>2. ASSUME NEW u \in Uploaders, NEW c \in Chunks, UploadCheck(u, c)
      PROVE  PurgeInv'
  BY <1>2 DEF PurgeInv, UploadCheck
<1>3. ASSUME NEW f \in Finishers,
             FinishRead(f) \/ FinishFlip(f) \/ FinishList(f) \/ FinishLost(f)
      PROVE  PurgeInv'
  BY <1>3 DEF PurgeInv, FinishRead, FinishFlip, FinishList, FinishLost, FGoto
<1>4. ASSUME NEW f \in Finishers, FinishEmpty(f)
      PROVE  PurgeInv'
  BY <1>4 DEF PurgeInv, FinishEmpty, Swap, FGoto
<1>5. ASSUME NEW f \in Finishers, FinishFails(f)
      PROVE  PurgeInv'
  <2>1. raced' <=> raced \/ named # {}
    BY <1>5, Zenon DEF FinishFails, PutManifest, Late
  <2> QED
    BY <1>5, <2>1 DEF PurgeInv, FinishFails, PutManifest, Swap, FGoto
<1>6. ASSUME NEW f \in Finishers, FinishCommit(f)
      PROVE  PurgeInv'
  <2>1. raced' <=> raced \/ named # {}
    BY <1>6, Zenon DEF FinishCommit, PutManifest, Late
  <2>2. /\ named' = named \cup {"manifest"} \cup snap[f] /\ made' = made + 1
        /\ status = "finishing" /\ status' = "pending" /\ fpc[f] = "swap"
        /\ listed' = snap[f] /\ store' = store \cup {"manifest"}
        /\ rec' = IF rec = NoRec THEN [raw |-> "manifest", norm |-> FALSE] ELSE rec
        /\ fpc' = [fpc EXCEPT ![f] = "idle"]
        /\ UNCHANGED <<ppc, pread, todo, npc, audits>>
    BY <1>6 DEF FinishCommit, PutManifest, Swap, FGoto
  <2>3. "raw" \notin named /\ "raw" \notin named'
    BY <2>2 DEF PurgeInv
  <2>4. ~raced' => rec = NoRec /\ named = {}
    BY <2>1 DEF PurgeInv
  <2>5. Recorded'
    <3>1. named' # {} /\ made' # 0 /\ rec'.raw # "none"
      BY <2>2 DEF PurgeInv
    <3>2. DeletionAuditedOnce'
      BY <2>2 DEF PurgeInv, Kinds
    <3> QED
      BY <3>1, <3>2
  <2>5a. Sourced'
    BY <2>2, <2>3 DEF PurgeInv
  <2>6. Named'
    BY <2>1, <2>2, <2>4 DEF PurgeInv
  <2>7. Listing' /\ Swept' /\ ManifestOutlivesChunks' /\ NamedObjectsAreGone'
    BY <2>2, <2>4 DEF PurgeInv
  <2> QED
    BY <2>5, <2>5a, <2>6, <2>7 DEF PurgeInv
<1> QED
  BY <1>1, <1>2, <1>3, <1>4, <1>5, <1>6 DEF CaptureStep, FinishStep

\* Nothing else touches what the invariant speaks of.
LEMMA IdleKeeps ==
    ASSUME PurgeInv, GrowOld \/ UNCHANGED vars
    PROVE  PurgeInv'
BY DEF GrowOld, vars, PurgeInv, Recorded, DeletionAuditedOnce, Sourced, Named,
       Listing, Swept, ManifestOutlivesChunks, NamedObjectsAreGone,
       recordings, purges, run, uploads, finishes, history

LEMMA PurgeInvHolds == Spec => []PurgeInv
<1>1. Init => PurgeInv
  <2> SUFFICES ASSUME Init PROVE PurgeInv
    OBVIOUS
  <2> QED
    BY DEF Init, PurgeInv, Recorded, DeletionAuditedOnce, Sourced, Named, Listing,
           Swept, ManifestOutlivesChunks, NamedObjectsAreGone, NoRec, Kinds, Purged
<1>2. TypeOK /\ PurgeInv /\ [Next]_vars => PurgeInv'
  BY ReadingKeeps, DeletingKeeps, RowsKeep, RunKeeps, CaptureKeeps, IdleKeeps
     DEF Next, PurgeStep, CaptureStep
<1> QED
  BY <1>1, <1>2, TypeCorrect, PTL DEF Spec

\* A deletion is audited once, though several purges may run over a candidate
\* and each may stop anywhere.
THEOREM DeletionAuditedOnceHolds == Spec => []DeletionAuditedOnce
<1>1. PurgeInv => DeletionAuditedOnce
  BY DEF PurgeInv, Recorded
<1> QED
  BY <1>1, PurgeInvHolds, PTL

\* Wherever purges stop, the manifest is there while a chunk it lists is.
THEOREM ManifestOutlivesChunksHolds == Spec => []ManifestOutlivesChunks
<1>1. PurgeInv => ManifestOutlivesChunks
  BY DEF PurgeInv
<1> QED
  BY <1>1, PurgeInvHolds, PTL

\* What the Recording of a Meeting has named is gone before its row is, unless
\* something was written behind the purge's back.
THEOREM NamedObjectsAreGoneHolds == Spec => []NamedObjectsAreGone
<1>1. PurgeInv => NamedObjectsAreGone
  BY DEF PurgeInv
<1> QED
  BY <1>1, PurgeInvHolds, PTL

-----------------------------------------------------------------------------
(* The promise of Erasure.                                                 *)

Kept   == named \cap store
Due    == CASE status = Purged \/ age = "young" -> {}
            [] age = "audio" /\ rec = NoRec -> {}
            [] OTHER -> {age}
Chosen == {kind[p] : p \in {q \in Purgers : ppc[q] # "idle"}}

\* Only Select takes the Meeting up, for the purge it is due for.
LEMMA ChosenIsDue ==
    ASSUME TypeOK, [Next]_vars
    PROVE  Chosen' \subseteq Chosen \cup Due
<1> USE DEF TypeOK, purges
<1>1. ASSUME NEW p \in Purgers, Select(p)
      PROVE  Chosen' \subseteq Chosen \cup Due
  <2>1. Due = {kind'[p]}
    BY <1>1 DEF Select, Due
  <2>2. \A q \in Purgers \ {p} : ppc'[q] = ppc[q] /\ kind'[q] = kind[q]
    BY <1>1 DEF Select
  <2> QED
    BY <2>1, <2>2 DEF Chosen
<1>2. ASSUME NEW p \in Purgers, PurgeStep(p) \/ PurgeFails(p)
      PROVE  Chosen' \subseteq Chosen
  <2>1. kind' = kind /\ ppc[p] # "idle"
    BY <1>2 DEF PurgeStep, ReadRecording, ReadManifest, DeleteChunk, DeleteRaw,
                DeleteNormalized, DeleteRows, PurgeFails, PGoto
  <2>2. \A q \in Purgers \ {p} : ppc'[q] = ppc[q]
    BY <1>2 DEF PurgeStep, ReadRecording, ReadManifest, DeleteChunk, DeleteRaw,
                DeleteNormalized, DeleteRows, PurgeFails, PGoto
  <2> QED
    BY <2>1, <2>2 DEF Chosen
<1>3. ASSUME ~\E p \in Purgers : Select(p) \/ PurgeStep(p) \/ PurgeFails(p)
      PROVE  Chosen' = Chosen
  <2>1. UNCHANGED <<ppc, kind>>
    BY <1>3 DEF Next, vars, GrowOld, RunStep, NormalizeRead, NormalizeFetch,
                NormalizePut, NormalizeCommit, RunEnds, RunRepeats, UploadPut,
                UploadCheck, FinishRead, FinishFlip, FinishStep, FinishList,
                FinishEmpty, FinishCommit, FinishLost, FinishFails
  <2> QED
    BY <2>1 DEF Chosen
<1> QED
  BY <1>1, <1>2, <1>3

\* What a step does to the Meeting, its Recording and their objects, as long as
\* nothing is written behind a purge's back.
ErasureStep ==
    \/ UNCHANGED <<status, rec, Kept>>
    \/ /\ UNCHANGED <<status, rec>>
       /\ rec # NoRec /\ Chosen # {} /\ Kept' \subseteq Kept
    \/ /\ status' = Purged <=> status = Purged
       /\ status # Purged \/ rec # NoRec
       /\ rec' # NoRec /\ Kept \subseteq Kept'
    \/ status' # Purged /\ status # Purged /\ UNCHANGED <<rec, Kept>>
    \/ \E k \in Chosen : /\ status' = IF k = "full" THEN Purged ELSE status
                         /\ rec' = NoRec /\ Kept' = {}

\* A purge deletes what is named until its last call, which deletes the rows.
LEMMA PurgeSteps ==
    ASSUME TypeOK, PurgeInv, NEW p \in Purgers, ~raced, ~raced',
           Select(p) \/ PurgeStep(p) \/ PurgeFails(p)
    PROVE  ErasureStep
<1> USE DEF TypeOK, recordings, purges, history
<1>1. CASE \/ Select(p) \/ ReadRecording(p) \/ ReadManifest(p) \/ PurgeFails(p)
  BY <1>1 DEF Select, ReadRecording, ReadManifest, PurgeFails, ErasureStep, Kept
<1>2. CASE DeleteChunk(p) \/ DeleteRaw(p) \/ DeleteNormalized(p)
  <2>1. /\ UNCHANGED <<status, rec, named>> /\ store' \subseteq store
        /\ ppc[p] # "idle"
    BY <1>2 DEF DeleteChunk, DeleteRaw, DeleteNormalized, PGoto
  <2>2. CASE rec = NoRec
    BY <2>1, <2>2 DEF PurgeInv, NamedObjectsAreGone, ErasureStep, Kept
  <2>3. CASE rec # NoRec
    BY <2>1, <2>3 DEF ErasureStep, Kept, Chosen
  <2> QED
    BY <2>2, <2>3
<1>3. CASE DeleteRows(p)
  <2>1. /\ ppc[p] = "rows" /\ rec \in {NoRec, pread[p]}
        /\ rec' = NoRec /\ UNCHANGED <<store, named>>
        /\ status' = IF kind[p] = "full" THEN Purged ELSE status
    <3>1. rec \in {NoRec, pread[p]}
      BY <1>3, Zenon DEF DeleteRows
    <3> QED
      BY <1>3, <3>1 DEF DeleteRows, PGoto
  <2>2. Kept = {}
    BY <2>1 DEF PurgeInv, NamedObjectsAreGone, Swept, Kept
  <2>3. kind[p] \in Chosen
    BY <2>1 DEF Chosen
  <2> QED
    BY <2>1, <2>2, <2>3 DEF ErasureStep, Kept
<1> QED
  BY <1>1, <1>2, <1>3 DEF PurgeStep

\* A capture and a run write only what no Recording has named, or name it.
LEMMA OtherSteps ==
    ASSUME TypeOK, PurgeInv, ~raced, ~raced',
           GrowOld \/ RunStep \/ RunRepeats \/ CaptureStep \/ UNCHANGED vars
    PROVE  ErasureStep
<1> USE DEF TypeOK, recordings, history
<1>1. CASE GrowOld \/ NormalizeRead \/ NormalizeFetch \/ RunRepeats \/ UNCHANGED vars
  BY <1>1 DEF GrowOld, NormalizeRead, NormalizeFetch, RunRepeats, vars, ErasureStep, Kept
<1>2. CASE NormalizePut
  <2>1. "normalized" \notin named
    BY <1>2, Zenon DEF NormalizePut
  <2> QED
    BY <1>2, <2>1 DEF NormalizePut, ErasureStep, Kept
<1>3. CASE NormalizeCommit
  <2>1. CASE ~OneRecording
    BY <1>3, <2>1 DEF NormalizeCommit, ErasureStep, Kept
  <2>2. CASE OneRecording
    <3>1. /\ rec' = [raw |-> rec.raw, norm |-> TRUE] /\ rec # NoRec
          /\ store' = store /\ named' = named \cup {"normalized"}
      BY <1>3, <2>2 DEF NormalizeCommit, OneRecording, Recs
    <3>2. status' = Purged <=> status = Purged
      BY <1>3, <2>2 DEF NormalizeCommit, RunWrites, Purged
    <3>3. rec' # NoRec
      BY <3>1 DEF PurgeInv, Recorded, NoRec, Recs
    <3> QED
      BY <3>1, <3>2, <3>3 DEF ErasureStep, Kept
  <2> QED
    BY <2>1, <2>2
<1>4. CASE RunEnds
  BY <1>4 DEF RunEnds, RunWrites, ErasureStep, Kept, Purged
<1>5. ASSUME NEW u \in Uploaders, UploadPut(u) \/ \E c \in Chunks : UploadCheck(u, c)
      PROVE  ErasureStep
  <2>1. CASE UploadPut(u)
    <3>1. named = {}
      BY <2>1, Zenon DEF UploadPut, Late
    <3> QED
      BY <2>1, <3>1 DEF UploadPut, ErasureStep, Kept
  <2>2. CASE \E c \in Chunks : UploadCheck(u, c)
    BY <2>2 DEF UploadCheck, ErasureStep, Kept
  <2> QED
    BY <1>5, <2>1, <2>2
<1>6. ASSUME NEW f \in Finishers,
             \/ FinishRead(f) \/ FinishFlip(f) \/ FinishList(f) \/ FinishLost(f)
             \/ FinishEmpty(f)
      PROVE  ErasureStep
  BY <1>6 DEF FinishRead, FinishFlip, FinishList, FinishEmpty, FinishLost, Swap,
              ErasureStep, Kept, Purged
<1>7. ASSUME NEW f \in Finishers, FinishCommit(f) \/ FinishFails(f)
      PROVE  ErasureStep
  <2>1. named = {}
    BY <1>7, Zenon DEF FinishCommit, FinishFails, PutManifest, Late
  <2>2. status = "finishing" /\ rec = NoRec
    BY <1>7, <2>1 DEF FinishCommit, FinishFails, Swap, PurgeInv, Recorded
  <2>3. CASE FinishCommit(f)
    BY <2>1, <2>2, <2>3 DEF FinishCommit, ErasureStep, Kept, NoRec, Purged
  <2>4. CASE FinishFails(f)
    BY <2>1, <2>2, <2>4 DEF FinishFails, ErasureStep, Kept
  <2> QED
    BY <1>7, <2>3, <2>4
<1> QED
  BY <1>1, <1>2, <1>3, <1>4, <1>5, <1>6, <1>7 DEF RunStep, CaptureStep, FinishStep

\* Purges of one Meeting, call by call and wherever they stop, implement the
\* one step that Retention takes a purge for.
THEOREM KeepsPromiseHolds == Spec => KeepsPromise
<1>1. Init => Promised!Init
  <2> SUFFICES ASSUME Init PROVE Promised!Init
    OBVIOUS
  <2>1. ~raced
    BY Zenon DEF Init
  <2>2. status # Purged /\ (rec = NoRec => named = {})
    BY DEF Init, Purged, NoRec
  <2> QED
    BY <2>1, <2>2 DEF Init, Promised!Init
<1>2. TypeOK /\ PurgeInv /\ [Next]_vars => [Promised!Next]_(Promised!vars)
  <2> SUFFICES ASSUME TypeOK, PurgeInv, [Next]_vars
               PROVE  Promised!Next
    OBVIOUS
  <2>1. CASE raced'
    BY <2>1 DEF Promised!Next
  <2>2. CASE ~raced'
    <3>1. ~raced
      BY <2>2 DEF Next, vars, history, GrowOld, Select, PurgeStep, ReadRecording,
                  ReadManifest, DeleteChunk, DeleteRaw, DeleteNormalized, DeleteRows,
                  PurgeFails, RunStep, NormalizeRead, NormalizeFetch, NormalizePut,
                  NormalizeCommit, RunEnds, RunRepeats, UploadPut, UploadCheck, Late,
                  FinishRead, FinishFlip, FinishStep, FinishList, FinishEmpty,
                  FinishCommit, FinishLost, FinishFails, PutManifest
    <3>2. Chosen' \subseteq Chosen \cup Due
      BY ChosenIsDue
    <3>3. ErasureStep
      BY <2>2, <3>1, PurgeSteps, OtherSteps DEF Next, CaptureStep
    <3>4. Promised!Wait \/ Promised!Record \/ Promised!Add \/ Promised!Erase
              \/ \E k \in Chosen : Promised!Remove(k)
      BY <3>3 DEF ErasureStep, Kept, Chosen, Promised!Wait, Promised!Record, Promised!Add,
                  Promised!Erase, Promised!Remove
    <3> QED
      BY <2>2, <3>1, <3>2, <3>4 DEF Promised!Next, Chosen, Due
  <2> QED
    BY <2>1, <2>2
<1> QED
  BY <1>1, <1>2, TypeCorrect, PurgeInvHolds, PTL DEF Spec, KeepsPromise, Promised!Spec

=============================================================================
