-------------------------- MODULE WatchFolderProofs --------------------------
(***************************************************************************)
(* What TLAPS proves of WatchFolder for every number of scans, names and   *)
(* copies, and any number of faults and switches: the types, that where a  *)
(* file lies tells whether it is a Meeting, that a scan skips a file that  *)
(* is written under it, and that no half file becomes a Meeting.           *)
(***************************************************************************)
EXTENDS WatchFolder, TLAPS

Signatures == {Gone} \cup (Copies \X BOOLEAN)
States     == {"idle", "scan", "ingest", "flush", "read", "move", "commit",
               "dispatch", "fail"}

Looking    == {"ingest", "flush", "read", "move", "commit", "dispatch"}

\* TypeOK, variable by variable; a scan that is at a file has seen it.
Typed ==
    /\ root \in [Names -> Copies \cup {NoFile}]
    /\ ingested \in [Names -> Copies \cup {NoFile}]
    /\ failed \in [Names -> Copies \cup {NoFile}]
    /\ whole \in [Copies -> BOOLEAN] /\ quiet \in [Copies -> BOOLEAN]
    /\ enabled \in BOOLEAN /\ lastError \in BOOLEAN
    /\ recorded \in [Copies -> Nat] /\ dispatched \in [Copies -> Nat]
    /\ pc \in [Scanners -> States]
    /\ \A s \in Scanners : pc[s] \in Looking => seen[s] \in Copies \X BOOLEAN
    /\ todo \in [Scanners -> SUBSET Names] /\ name \in [Scanners -> Names]
    /\ errors \in [Scanners -> BOOLEAN] /\ seen \in [Scanners -> Signatures]
    /\ dropped \subseteq Copies /\ resumed \subseteq Scanners
    /\ faults \in Nat /\ switches \in Nat
    /\ swapped \in BOOLEAN /\ paused \in BOOLEAN /\ orphans \subseteq Copies

LEMMA TypedIsTypeOK == Typed => TypeOK
BY DEF Typed, TypeOK, Signatures, States

-----------------------------------------------------------------------------
(* Types.                                                                  *)

\* A signature is that of a file, or that of none.
LEMMA SignatureType ==
    ASSUME Typed, NEW n \in Names
    PROVE  /\ Signature(n) \in Signatures
           /\ root[n] = NoFile => Signature(n) = Gone
           /\ root[n] # NoFile => /\ root[n] \in Copies
                                  /\ Signature(n) \in Copies \X BOOLEAN
                                  /\ Signature(n) = <<root[n], whole[root[n]]>>
                                  /\ Signature(n)[1] = root[n]
                                  /\ Signature(n)[2] = whole[root[n]]
                                  /\ Signature(n) # Gone
BY DEF Typed, Signature, Signatures, Gone

\* The files and their writers.
LEMMA FilesTyped ==
    ASSUME Typed,
           \/ \E c \in Copies : WriteRest(c) \/ GoQuiet(c) \/ \E n \in Names : Drop(c, n)
           \/ SetEnabled
    PROVE  Typed'
<1> USE DEF Typed, disk, files, folder, meetings, scans, history
<1>1. ASSUME NEW c \in Copies, NEW n \in Names, Drop(c, n)
      PROVE  Typed'
  <2>1. swapped' \in BOOLEAN
    BY <1>1, Zenon DEF Drop
  <2> QED
    BY <1>1, <2>1 DEF Drop, Comparing, Ingesting
<1>2. ASSUME NEW c \in Copies, WriteRest(c)
      PROVE  Typed'
  <2>1. resumed' \subseteq Scanners
    BY <1>2 DEF WriteRest, Comparing, Ingesting
  <2> QED
    BY <1>2, <2>1 DEF WriteRest
<1>3. ASSUME NEW c \in Copies, GoQuiet(c)
      PROVE  Typed'
  <2>1. paused' \in BOOLEAN
    BY <1>3, Zenon DEF GoQuiet
  <2> QED
    BY <1>3, <2>1 DEF GoQuiet
<1>4. CASE SetEnabled
  <2>1. enabled' \in BOOLEAN
    BY <1>4, Zenon DEF SetEnabled
  <2> QED
    BY <1>4, <2>1 DEF SetEnabled
<1> QED
  BY <1>1, <1>2, <1>3, <1>4

\* The end of ingest_file.
LEMMA ReturnTyped ==
    ASSUME Typed, NEW s \in Scanners, NEW raised \in BOOLEAN, Return(s, raised)
    PROVE  /\ pc' \in [Scanners -> States] /\ seen' \in [Scanners -> Signatures]
           /\ errors' \in [Scanners -> BOOLEAN] /\ resumed' \subseteq Scanners
           /\ \A t \in Scanners :
                  pc'[t] \in Looking => seen'[t] \in Copies \X BOOLEAN
<1>1. errors' = [errors EXCEPT ![s] = errors[s] \/ raised]
  BY DEF Return
<1>2. (errors[s] \/ raised) \in BOOLEAN
  BY DEF Typed
<1>3. errors' \in [Scanners -> BOOLEAN]
  BY <1>1, <1>2 DEF Typed
<1> QED
  BY <1>3 DEF Return, Typed, States, Signatures, Looking

\* A scan's own steps.
LEMMA ScanTyped ==
    ASSUME Typed, NEW s \in Scanners,
           \/ ScanStart(s) \/ Heartbeat(s) \/ \E n \in Names : Judge(s, n)
           \/ Baseline(s) \/ Verify(s) \/ Read(s)
    PROVE  Typed'
<1> USE DEF Typed, States, Looking, disk, files, folder, meetings, scans, history
<1>1. CASE ScanStart(s)
  BY <1>1 DEF ScanStart, Goto
<1>2. CASE Heartbeat(s)
  <2>1. lastError' \in BOOLEAN
    BY <1>2, Zenon DEF Heartbeat
  <2> QED
    BY <1>2, <2>1 DEF Heartbeat, Goto
<1>3. ASSUME NEW n \in Names, Judge(s, n)
      PROVE  Typed'
  <2>1. CASE IsStable(n)
    BY <1>3, <2>1, SignatureType DEF Judge, IsStable
  <2>2. CASE ~IsStable(n)
    BY <1>3, <2>2 DEF Judge
  <2> QED
    BY <2>1, <2>2
<1>4. CASE Baseline(s)
  <2>1. CASE Return(s, FALSE)
    BY <1>4, <2>1, ReturnTyped DEF Baseline
  <2>2. CASE Signature(name[s]) # Gone
    <3>1. Signature(name[s]) \in Copies \X BOOLEAN
      BY <2>2, SignatureType
    <3>2. /\ pc[s] = "ingest" /\ pc' = [pc EXCEPT ![s] = "flush"]
          /\ seen' = [seen EXCEPT ![s] = Signature(name[s])]
          /\ UNCHANGED <<disk, files, folder, meetings, todo, name, errors, history>>
      BY <1>4, <2>2 DEF Baseline, Goto
    <3> QED
      BY <3>1, <3>2 DEF Signatures
  <2> QED
    BY <1>4, <2>1, <2>2 DEF Baseline
<1>5. CASE Verify(s)
  <2>1. CASE Return(s, FALSE)
    BY <1>5, <2>1, ReturnTyped DEF Verify
  <2>2. CASE /\ Goto(s, "flush", "fail") \/ Goto(s, "flush", "read")
             /\ UNCHANGED <<seen, errors, resumed>>
    BY <1>5, <2>2 DEF Verify, Goto
  <2> QED
    BY <1>5, <2>1, <2>2 DEF Verify
<1>6. CASE Read(s)
  BY <1>6, SignatureType DEF Read, Goto
<1> QED
  BY <1>1, <1>2, <1>3, <1>4, <1>5, <1>6

\* The move and what follows it, and what may go wrong.
LEMMA IngestTyped ==
    ASSUME Typed, NEW s \in Scanners,
           \/ Move(s) \/ Commit(s) \/ Dispatch(s) \/ MoveToFailed(s)
           \/ Raise(s) \/ Crash(s)
    PROVE  Typed'
<1> USE DEF Typed, States, Looking, disk, files, folder, meetings, scans, history
<1>1. CASE Move(s)
  BY <1>1 DEF Move, MoveMissing, Goto
<1>2. CASE Commit(s)
  BY <1>2 DEF Commit, Goto
<1>3. CASE Dispatch(s)
  <2>1. dispatched' \in [Copies -> Nat]
    BY <1>3 DEF Dispatch
  <2>2. Return(s, FALSE)
    BY <1>3 DEF Dispatch
  <2> QED
    BY <1>3, <2>1, <2>2, ReturnTyped DEF Dispatch
<1>4. CASE MoveToFailed(s)
  BY <1>4, ReturnTyped DEF MoveToFailed
<1>5. CASE Raise(s)
  <2>0. orphans' \subseteq Copies /\ faults' \in Nat
    BY <1>5 DEF Raise, Leaves
  <2>1. CASE Return(s, TRUE)
    BY <1>5, <2>0, <2>1, ReturnTyped DEF Raise
  <2>2. CASE /\ pc[s] \in {"flush", "read", "move", "commit"}
             /\ pc' = [pc EXCEPT ![s] = "fail"]
             /\ UNCHANGED <<seen, errors, resumed>>
    BY <1>5, <2>0, <2>2 DEF Raise
  <2> QED
    BY <1>5, <2>1, <2>2 DEF Raise
<1>6. CASE Crash(s)
  BY <1>6 DEF Crash, Leaves, Signatures
<1> QED
  BY <1>1, <1>2, <1>3, <1>4, <1>5, <1>6

\* Every variable keeps its type.
LEMMA TypedHolds == Spec => []Typed
<1>1. Init => Typed
  <2> SUFFICES ASSUME Init PROVE Typed
    OBVIOUS
  <2>1. swapped \in BOOLEAN /\ paused \in BOOLEAN /\ enabled \in BOOLEAN
    BY Zenon DEF Init
  <2>2. lastError \in BOOLEAN
    BY Zenon DEF Init
  <2> QED
    BY <2>1, <2>2 DEF Init, Typed, Signatures, States, Looking
<1>2. Typed /\ [Next]_vars => Typed'
  <2>1. Typed /\ UNCHANGED vars => Typed'
    BY DEF Typed, vars, disk, files, folder, meetings, scans, history
  <2> QED
    BY <2>1, FilesTyped, ScanTyped, IngestTyped DEF Next, ScanStep
<1> QED
  BY <1>1, <1>2, PTL DEF Spec

\* The type invariant.
THEOREM TypeCorrect == Spec => []TypeOK
BY TypedHolds, TypedIsTypeOK, PTL

-----------------------------------------------------------------------------
(* Files and Meetings.                                                     *)

\* What is found on the disk was dropped there, and grows.
Dropped ==
    /\ \A n \in Names : /\ root[n] \in dropped \cup {NoFile}
                        /\ ingested[n] \in dropped \cup {NoFile}
                        /\ failed[n] \in dropped \cup {NoFile}
    /\ \A s \in Scanners : seen[s] # Gone =>
           /\ seen[s][1] \in dropped
           /\ seen[s][2] => whole[seen[s][1]]
    /\ \A c \in Copies : recorded[c] > 0 => c \in dropped

\* A file that a scan saw change does not look again as it did.
Resumed ==
    \A s \in resumed :
        /\ pc[s] \in {"flush", "fail"}
        /\ pc[s] = "flush" => \/ root[name[s]] # seen[s][1]
                              \/ whole[seen[s][1]] /\ ~seen[s][2]

\* Until it is moved, the file a scan has judged is the one of its name; it was
\* quiet, so its writer has finished or paused.
Judged ==
    /\ ~paused => \A c \in Copies : quiet[c] => whole[c]
    /\ ~swapped => \A s \in Scanners :
           /\ pc[s] \in {"ingest", "flush", "read", "move"} =>
                  root[name[s]] \in {NoFile, seen[s][1]}
           /\ ~paused /\ pc[s] \in Looking => whole[seen[s][1]]
           /\ ~paused /\ pc[s] \in {"move", "commit", "dispatch"} => seen[s][2]

\* A copy is in one place.
Placed ==
    /\ \A m, n \in Names : root[m] # NoFile => /\ root[m] = root[n] => m = n
                                               /\ root[m] # failed[n]
    /\ ~swapped => \A s \in Scanners : pc[s] = "commit" =>
           /\ recorded[seen[s][1]] = 0
           /\ \A n \in Names : seen[s][1] # root[n] /\ seen[s][1] # failed[n]
           /\ \A t \in Scanners : pc[t] = "commit" /\ seen[t][1] = seen[s][1] => t = s

FileInv == Dropped /\ Resumed /\ Judged /\ Placed /\ PlacementIsTheLedger

\* A drop is a new copy, under a name that no scan is at unless it is noted.
LEMMA DropKeeps ==
    ASSUME Typed, FileInv, NEW c \in Copies, NEW n \in Names, Drop(c, n)
    PROVE  FileInv'
<1> USE WatchAssumption
        DEF Typed, States, Signatures, Looking, folder, meetings, scans, history
<1>1. /\ dropped' = dropped \cup {c} /\ c \notin dropped
      /\ root' = [root EXCEPT ![n] = c]
      /\ resumed' = resumed \cup Comparing(n)
      /\ UNCHANGED <<ingested, failed, whole, quiet, paused, meetings, scans, orphans>>
  BY DEF Drop
<1>2. swapped' <=> swapped \/ Ingesting(n) # {}
  BY Zenon DEF Drop
<1>3. Dropped'
  BY <1>1 DEF FileInv, Dropped
<1>4. Resumed'
  BY <1>1 DEF FileInv, Dropped, Resumed, Comparing, Ingesting, Gone
<1>5. Judged'
  BY <1>1, <1>2 DEF FileInv, Judged, Ingesting
<1>6. Placed'
  BY <1>1, <1>2 DEF FileInv, Dropped, Placed, Gone
<1>7. PlacementIsTheLedger'
  BY <1>1, <1>2 DEF FileInv, Dropped, PlacementIsTheLedger
<1> QED
  BY <1>3, <1>4, <1>5, <1>6, <1>7 DEF FileInv

\* A write makes the file it ends look different from what was seen of it.
LEMMA WriteKeeps ==
    ASSUME Typed, FileInv, NEW c \in Copies, WriteRest(c) \/ GoQuiet(c)
    PROVE  FileInv'
<1> USE WatchAssumption
        DEF Typed, States, Signatures, Looking, disk, folder, meetings, scans, history
<1>1. CASE WriteRest(c)
  <2>1. Dropped'
    BY <1>1 DEF WriteRest, FileInv, Dropped
  <2>2. Resumed'
    BY <1>1 DEF WriteRest, FileInv, Dropped, Resumed, Comparing, Ingesting, Gone
  <2>3. Judged'
    BY <1>1 DEF WriteRest, FileInv, Judged
  <2>4. Placed' /\ PlacementIsTheLedger'
    BY <1>1 DEF WriteRest, FileInv, Placed, PlacementIsTheLedger
  <2> QED
    BY <2>1, <2>2, <2>3, <2>4 DEF FileInv
<1>2. CASE GoQuiet(c)
  <2>1. paused' <=> paused \/ ~whole[c]
    BY <1>2, Zenon DEF GoQuiet
  <2>2. Dropped' /\ Resumed'
    BY <1>2 DEF GoQuiet, FileInv, Dropped, Resumed
  <2>3. Judged'
    BY <1>2, <2>1 DEF GoQuiet, FileInv, Judged
  <2>4. Placed' /\ PlacementIsTheLedger'
    BY <1>2 DEF GoQuiet, FileInv, Placed, PlacementIsTheLedger
  <2> QED
    BY <2>2, <2>3, <2>4 DEF FileInv
<1> QED
  BY <1>1, <1>2

\* A scan that goes on, at the same file or at none.
LEMMA LeavingKeeps ==
    ASSUME Typed, FileInv, NEW s \in Scanners,
           UNCHANGED <<disk, files, recorded, name, orphans>>,
           \/ /\ pc' = [pc EXCEPT ![s] = "scan"] \/ pc' = [pc EXCEPT ![s] = "idle"]
              /\ seen' = [seen EXCEPT ![s] = Gone] /\ resumed' = resumed \ {s}
           \/ /\ pc' = [pc EXCEPT ![s] = "fail"]
              /\ UNCHANGED <<seen, resumed>>
           \/ /\ pc[s] \in {"idle", "scan"} /\ pc'[s] \in {"idle", "scan"}
              /\ pc' = [pc EXCEPT ![s] = pc'[s]]
              /\ UNCHANGED <<seen, resumed>>
           \/ UNCHANGED <<pc, seen, resumed>>,
           pc[s] # "commit" \/ pc'[s] = "commit"
    PROVE  FileInv'
<1> USE DEF Typed, States, Signatures, Looking, disk, files
<1>1. Dropped'
  BY DEF FileInv, Dropped
<1>2. Resumed'
  BY DEF FileInv, Resumed
<1>3. Judged'
  BY DEF FileInv, Judged
<1>4. Placed'
  BY DEF FileInv, Placed
<1>5. PlacementIsTheLedger'
  BY DEF FileInv, PlacementIsTheLedger
<1> QED
  BY <1>1, <1>2, <1>3, <1>4, <1>5 DEF FileInv

\* Judging a file, and looking at it again.
LEMMA LookingKeeps ==
    ASSUME Typed, FileInv, NEW s \in Scanners,
           \/ ScanStart(s) \/ Heartbeat(s) \/ \E n \in Names : Judge(s, n)
           \/ Baseline(s) \/ Verify(s) \/ Read(s)
    PROVE  FileInv'
<1> USE DEF Typed, States, Signatures, Looking, disk, files, folder, meetings, scans,
            history
<1>1. CASE ScanStart(s) \/ Heartbeat(s)
  <2>1. /\ pc[s] \in {"idle", "scan"} /\ pc'[s] \in {"idle", "scan"}
        /\ pc' = [pc EXCEPT ![s] = pc'[s]]
    BY <1>1 DEF ScanStart, Heartbeat, Goto
  <2>2. UNCHANGED <<disk, files, recorded, name, orphans, seen, resumed>>
    BY <1>1 DEF ScanStart, Heartbeat
  <2> QED
    BY <2>1, <2>2, LeavingKeeps
<1>2. ASSUME NEW n \in Names, Judge(s, n), IsStable(n)
      PROVE  FileInv'
  <2>1. /\ pc[s] = "scan" /\ pc' = [pc EXCEPT ![s] = "ingest"]
        /\ name' = [name EXCEPT ![s] = n]
        /\ seen' = [seen EXCEPT ![s] = Signature(n)]
        /\ root[n] # NoFile /\ quiet[root[n]]
        /\ UNCHANGED <<disk, files, meetings, resumed, orphans>>
    BY <1>2 DEF Judge, IsStable
  <2>2. /\ seen'[s][1] = root[n] /\ seen'[s][2] = whole[root[n]]
        /\ root[n] \in Copies
    BY <2>1, SignatureType
  <2>3. Dropped'
    BY <2>1, <2>2 DEF FileInv, Dropped
  <2>4. Resumed'
    BY <2>1 DEF FileInv, Resumed
  <2>5. Judged'
    BY <2>1, <2>2 DEF FileInv, Judged
  <2>6. Placed' /\ PlacementIsTheLedger'
    BY <2>1 DEF FileInv, Placed, PlacementIsTheLedger
  <2> QED
    BY <2>3, <2>4, <2>5, <2>6 DEF FileInv
<1>3. ASSUME NEW n \in Names, Judge(s, n), ~IsStable(n)
      PROVE  FileInv'
  BY <1>3, LeavingKeeps DEF Judge
<1>4. CASE Baseline(s) /\ Signature(name[s]) = Gone
  BY <1>4, LeavingKeeps DEF Baseline, Return
<1>5. ASSUME Signature(name[s]) # Gone, Baseline(s) \/ Read(s)
      PROVE  FileInv'
  <2>1. /\ \/ pc[s] = "ingest" /\ pc' = [pc EXCEPT ![s] = "flush"]
           \/ pc[s] = "read" /\ pc' = [pc EXCEPT ![s] = "move"]
        /\ seen' = [seen EXCEPT ![s] = Signature(name[s])]
        /\ UNCHANGED <<disk, files, meetings, name, resumed, orphans>>
    BY <1>5 DEF Baseline, Read, Goto
  <2>2. /\ root[name[s]] # NoFile /\ root[name[s]] \in Copies
        /\ seen'[s][1] = root[name[s]] /\ seen'[s][2] = whole[root[name[s]]]
    BY <1>5, <2>1, SignatureType
  <2>3. Dropped'
    BY <2>1, <2>2 DEF FileInv, Dropped
  <2>4. Resumed'
    BY <2>1 DEF FileInv, Resumed
  <2>5. Judged'
    BY <2>1, <2>2 DEF FileInv, Judged
  <2>6. \A t \in Scanners : /\ pc'[t] = "commit" <=> pc[t] = "commit"
                            /\ pc[t] = "commit" => seen'[t] = seen[t]
    BY <2>1
  <2>7. Placed'
    BY <2>1, <2>6 DEF FileInv, Placed
  <2>8. PlacementIsTheLedger'
    BY <2>1, <2>6 DEF FileInv, PlacementIsTheLedger
  <2> QED
    BY <2>3, <2>4, <2>5, <2>7, <2>8 DEF FileInv
<1>6. CASE Read(s) /\ Signature(name[s]) = Gone
  BY <1>6, LeavingKeeps DEF Read, Goto
<1>7. CASE Verify(s) /\ (Goto(s, "flush", "fail") \/ Return(s, FALSE))
  BY <1>7, LeavingKeeps DEF Verify, Goto, Return
<1>8. CASE Verify(s) /\ Goto(s, "flush", "read")
  <2>1. /\ Signature(name[s]) = seen[s] /\ Signature(name[s]) # Gone
        /\ UNCHANGED <<seen, resumed>>
    BY <1>8 DEF Verify, Goto, Return, Changed
  <2>2. s \notin resumed
    BY <1>8, <2>1, SignatureType DEF FileInv, Resumed, Goto
  <2>3. Resumed'
    BY <1>8, <2>1, <2>2 DEF Verify, Goto, FileInv, Resumed
  <2>4. Dropped' /\ Judged' /\ Placed' /\ PlacementIsTheLedger'
    BY <1>8, <2>1 DEF Verify, Goto, FileInv, Dropped, Judged, Placed,
                      PlacementIsTheLedger
  <2> QED
    BY <2>3, <2>4 DEF FileInv
<1> QED
  BY <1>1, <1>2, <1>3, <1>4, <1>5, <1>6, <1>7, <1>8 DEF Verify

\* A move takes the file that was read, and a commit makes it a Meeting; no
\* other scan is at the same one.
LEMMA MovingKeeps ==
    ASSUME Typed, FileInv, NEW s \in Scanners, Move(s) \/ Commit(s)
    PROVE  FileInv'
<1> USE WatchAssumption
        DEF Typed, States, Signatures, Looking, disk, files, folder, meetings, scans,
            history
<1>1. CASE Move(s) /\ root[name[s]] = NoFile
  BY <1>1, LeavingKeeps DEF Move, MoveMissing, Goto
<1>2. CASE Move(s) /\ root[name[s]] # NoFile
  <2> DEFINE n == name[s]
  <2>1. /\ pc[s] = "move" /\ pc' = [pc EXCEPT ![s] = "commit"]
        /\ ingested' = [ingested EXCEPT ![n] = root[n]]
        /\ root' = [root EXCEPT ![n] = NoFile]
        /\ UNCHANGED <<failed, files, meetings, name, seen, resumed, orphans>>
    BY <1>2 DEF Move, Goto
  <2>2. n \in Names /\ root[n] \in Copies /\ seen[s][1] \in Copies
    BY <1>2, <2>1
  <2>3. ~swapped => root[n] = seen[s][1]
    BY <1>2, <2>1 DEF FileInv, Judged
  <2>4. Dropped'
    BY <2>1, <2>2 DEF FileInv, Dropped
  <2>5. Resumed'
    BY <2>1, <2>2 DEF FileInv, Resumed
  <2>6. Judged'
    BY <2>1, <2>2 DEF FileInv, Judged
  <2>7. Placed'
    BY <1>2, <2>1, <2>2, <2>3 DEF FileInv, Placed, PlacementIsTheLedger
  <2>8. PlacementIsTheLedger'
    BY <1>2, <2>1, <2>2, <2>3 DEF FileInv, PlacementIsTheLedger
  <2> QED
    BY <2>4, <2>5, <2>6, <2>7, <2>8 DEF FileInv
<1>3. CASE Commit(s)
  <2> DEFINE c == seen[s][1]
  <2>1. /\ pc[s] = "commit" /\ pc' = [pc EXCEPT ![s] = "dispatch"]
        /\ recorded' = [recorded EXCEPT ![c] = recorded[c] + 1]
        /\ UNCHANGED <<disk, files, name, seen, resumed, orphans>>
    BY <1>3 DEF Commit, Goto
  <2>2. c \in Copies /\ seen[s] # Gone
    BY <2>1 DEF Gone
  <2>3. Dropped'
    BY <2>1, <2>2 DEF FileInv, Dropped
  <2>4. Resumed'
    BY <2>1 DEF FileInv, Resumed
  <2>5. Judged'
    BY <2>1 DEF FileInv, Judged
  <2>6. Placed'
    BY <2>1, <2>2 DEF FileInv, Placed
  <2>7. PlacementIsTheLedger'
    BY <2>1, <2>2 DEF FileInv, Placed, PlacementIsTheLedger
  <2> QED
    BY <2>3, <2>4, <2>5, <2>6, <2>7 DEF FileInv
<1> QED
  BY <1>1, <1>2, <1>3

\* A scan that ends before its commit leaves an orphan or nothing; a move to
\* .failed/ takes whatever has the name.
LEMMA EndingKeeps ==
    ASSUME Typed, FileInv, NEW s \in Scanners,
           Dispatch(s) \/ MoveToFailed(s) \/ Raise(s) \/ Crash(s)
    PROVE  FileInv'
<1> USE WatchAssumption
        DEF Typed, States, Signatures, Looking, disk, files, folder, meetings, scans,
            history
<1>1. CASE Dispatch(s)
  BY <1>1, LeavingKeeps DEF Dispatch, Return
<1>2. CASE MoveToFailed(s) /\ root[name[s]] = NoFile
  BY <1>2, LeavingKeeps DEF MoveToFailed, Return
<1>3. CASE MoveToFailed(s) /\ root[name[s]] # NoFile
  <2> DEFINE n == name[s]
  <2>1. /\ pc[s] = "fail" /\ pc' = [pc EXCEPT ![s] = "scan"]
        /\ seen' = [seen EXCEPT ![s] = Gone] /\ resumed' = resumed \ {s}
        /\ failed' = [failed EXCEPT ![n] = root[n]]
        /\ root' = [root EXCEPT ![n] = NoFile]
        /\ UNCHANGED <<ingested, files, meetings, name, orphans>>
    BY <1>3 DEF MoveToFailed, Return
  <2>2. n \in Names /\ root[n] \in Copies
    BY <1>3
  <2>3. Dropped'
    BY <2>1, <2>2 DEF FileInv, Dropped
  <2>4. Resumed'
    BY <2>1, <2>2 DEF FileInv, Resumed
  <2>5. Judged'
    BY <2>1, <2>2 DEF FileInv, Judged
  <2>6. Placed'
    BY <1>3, <2>1, <2>2 DEF FileInv, Placed
  <2>7. PlacementIsTheLedger'
    BY <1>3, <2>1, <2>2 DEF FileInv, PlacementIsTheLedger
  <2> QED
    BY <2>3, <2>4, <2>5, <2>6, <2>7 DEF FileInv
<1>4. CASE Raise(s) \/ Crash(s)
  <2>1. /\ \/ /\ pc' = [pc EXCEPT ![s] = "scan"] \/ pc' = [pc EXCEPT ![s] = "idle"]
              /\ seen' = [seen EXCEPT ![s] = Gone] /\ resumed' = resumed \ {s}
           \/ pc' = [pc EXCEPT ![s] = "fail"] /\ UNCHANGED <<seen, resumed>>
        /\ UNCHANGED <<disk, files, recorded, name>>
        /\ Leaves(s)
    BY <1>4 DEF Raise, Crash, Return
  <2>2. CASE pc[s] # "commit"
    BY <2>1, <2>2, LeavingKeeps DEF Leaves
  <2>3. CASE pc[s] = "commit"
    <3>1. orphans' = orphans \cup {seen[s][1]}
      BY <2>1, <2>3 DEF Leaves
    <3>2. Dropped'
      BY <2>1 DEF FileInv, Dropped
    <3>3. Resumed'
      BY <2>1, <2>3 DEF FileInv, Resumed
    <3>4. Judged' /\ Placed'
      BY <2>1, <2>3 DEF FileInv, Judged, Placed
    <3>5. PlacementIsTheLedger'
      BY <2>1, <2>3, <3>1 DEF FileInv, PlacementIsTheLedger
    <3> QED
      BY <3>2, <3>3, <3>4, <3>5 DEF FileInv
  <2> QED
    BY <2>2, <2>3
<1> QED
  BY <1>1, <1>2, <1>3, <1>4

LEMMA FileInvHolds == Spec => []FileInv
<1>1. Init => FileInv
  <2> SUFFICES ASSUME Init PROVE FileInv
    OBVIOUS
  <2> USE DEF Init, Gone
  <2>1. Dropped /\ Resumed
    BY DEF Dropped, Resumed
  <2>2. Judged /\ Placed
    BY DEF Judged, Placed, Looking
  <2>3. PlacementIsTheLedger
    BY DEF PlacementIsTheLedger
  <2> QED
    BY <2>1, <2>2, <2>3 DEF FileInv
<1>2. Typed /\ FileInv /\ [Next]_vars => FileInv'
  <2> SUFFICES ASSUME Typed, FileInv, [Next]_vars
               PROVE  FileInv'
    OBVIOUS
  <2>1. CASE SetEnabled \/ UNCHANGED vars
    <3>1. UNCHANGED <<disk, files, meetings, scans, resumed, orphans>>
      BY <2>1 DEF SetEnabled, vars, history
    <3> QED
      BY <3>1 DEF FileInv, Dropped, Resumed, Judged, Placed, PlacementIsTheLedger,
                  disk, files, meetings, scans
  <2> QED
    BY <2>1, DropKeeps, WriteKeeps, LookingKeeps, MovingKeeps, EndingKeeps
       DEF Next, ScanStep
<1> QED
  BY <1>1, <1>2, TypedHolds, PTL DEF Spec

\* Where a file lies is whether it is a Meeting, and no file becomes two,
\* however many scans meet it and wherever they stop.
THEOREM PlacementIsTheLedgerHolds == Spec => []PlacementIsTheLedger
<1>1. FileInv => PlacementIsTheLedger
  BY DEF FileInv
<1> QED
  BY <1>1, FileInvHolds, PTL

\* A file that nobody paused in writing is ingested to its end.
THEOREM OnlyWholeFilesHolds == Spec => []OnlyWholeFiles
<1>1. FileInv => OnlyWholeFiles
  BY DEF FileInv, Judged, OnlyWholeFiles
<1> QED
  BY <1>1, FileInvHolds, PTL

\* A file written to between the two looks of a scan is left to the next one.
THEOREM ResumedIsSkippedHolds == Spec => []ResumedIsSkipped
<1>1. FileInv => ResumedIsSkipped
  BY DEF FileInv, Resumed, ResumedIsSkipped
<1> QED
  BY <1>1, FileInvHolds, PTL

-----------------------------------------------------------------------------
(* The promise of Intake.                                                  *)

Recording(c) == IF recorded[c] > 0 THEN "stored" ELSE "none"
Telling(c)   == \E s \in Scanners : pc[s] = "dispatch" /\ seen[s][1] = c
Promises(c)  == <<Recording(c), Telling(c), dispatched[c], swapped>>

\* A file that is about to be announced is a Meeting, and one scan announces it.
Announced ==
    ~swapped => \A s \in Scanners : pc[s] = "dispatch" =>
        /\ recorded[seen[s][1]] > 0
        /\ \A t \in Scanners : pc[t] = "dispatch" /\ seen[t][1] = seen[s][1] => t = s

\* What a step that neither commits nor announces does to a scan's claim.
LEMMA QuietStep ==
    ASSUME Typed, NEW s \in Scanners, ~Commit(s), ScanStep(s) \/ Raise(s) \/ Crash(s)
    PROVE  /\ recorded' = recorded /\ swapped' = swapped
           /\ pc'[s] # "dispatch"
           /\ \A t \in Scanners \ {s} : pc'[t] = pc[t] /\ seen'[t] = seen[t]
<1> USE DEF Typed, States, files, meetings, scans, Goto, Return
<1>1. CASE ScanStart(s) \/ Heartbeat(s) \/ \E n \in Names : Judge(s, n)
  BY <1>1 DEF ScanStart, Heartbeat, Judge
<1>2. CASE Baseline(s) \/ Verify(s) \/ Read(s)
  BY <1>2 DEF Baseline, Verify, Read
<1>3. CASE Move(s) \/ Dispatch(s) \/ MoveToFailed(s)
  BY <1>3 DEF Move, MoveMissing, Dispatch, MoveToFailed
<1>4. CASE Raise(s) \/ Crash(s)
  BY <1>4 DEF Raise, Crash
<1> QED
  BY <1>1, <1>2, <1>3, <1>4 DEF ScanStep

\* A commit is the first of its file, and makes its scan the one to announce it.
LEMMA CommitClaims ==
    ASSUME Typed, FileInv, NEW s \in Scanners, Commit(s)
    PROVE  /\ pc[s] = "commit" /\ pc' = [pc EXCEPT ![s] = "dispatch"]
           /\ seen[s][1] \in Copies
           /\ recorded' = [recorded EXCEPT ![seen[s][1]] = recorded[seen[s][1]] + 1]
           /\ UNCHANGED <<seen, swapped, dispatched>>
           /\ ~swapped => recorded[seen[s][1]] = 0
BY DEF Typed, Looking, FileInv, Placed, Commit, Goto, files

LEMMA AnnouncedHolds == Spec => []Announced
<1>1. Init => Announced
  BY DEF Init, Announced
<1>2. Typed /\ FileInv /\ Announced /\ [Next]_vars => Announced'
  <2> SUFFICES ASSUME Typed, FileInv, Announced, [Next]_vars
               PROVE  Announced'
    OBVIOUS
  <2> USE DEF Typed, States
  <2>1. CASE \/ \E c \in Copies : WriteRest(c) \/ GoQuiet(c) \/ \E n \in Names : Drop(c, n)
             \/ SetEnabled \/ UNCHANGED vars
    <3>1. UNCHANGED <<pc, seen, recorded>>
      BY <2>1 DEF WriteRest, GoQuiet, Drop, SetEnabled, vars, meetings, scans
    <3>2. swapped => swapped'
      BY <2>1, Zenon DEF WriteRest, GoQuiet, Drop, SetEnabled, vars, files
    <3> QED
      BY <3>1, <3>2 DEF Announced
  <2>2. ASSUME NEW s \in Scanners, Commit(s)
        PROVE  Announced'
    <3>1. CASE swapped
      BY <2>2, <3>1, CommitClaims DEF Announced
    <3>2. CASE ~swapped
      <4>1. \A t \in Scanners : pc[t] = "dispatch" => seen[t][1] # seen[s][1]
        BY <2>2, <3>2, CommitClaims DEF Announced
      <4>2. recorded'[seen[s][1]] > 0
            /\ \A c \in Copies : recorded[c] > 0 => recorded'[c] > 0
        BY <2>2, CommitClaims
      <4>3. \A t \in Scanners : pc[t] = "dispatch" => seen[t][1] \in Copies
        BY DEF Looking
      <4>4. \A t \in Scanners : pc'[t] = "dispatch" <=> t = s \/ pc[t] = "dispatch"
        BY <2>2, CommitClaims
      <4>5. seen' = seen /\ pc[s] = "commit"
        BY <2>2, CommitClaims
      <4> QED
        BY <3>2, <4>1, <4>2, <4>3, <4>4, <4>5 DEF Announced
    <3> QED
      BY <3>1, <3>2
  <2>3. ASSUME NEW s \in Scanners, ~Commit(s), ScanStep(s) \/ Raise(s) \/ Crash(s)
        PROVE  Announced'
    BY <2>3, QuietStep DEF Announced
  <2> QED
    BY <2>1, <2>2, <2>3 DEF Next
<1> QED
  BY <1>1, <1>2, TypedHolds, FileInvHolds, PTL DEF Spec

\* A step of a scan, seen by one file.
LEMMA ScanRefines ==
    ASSUME Typed, FileInv, Announced, NEW c \in Copies, NEW s \in Scanners,
           ScanStep(s) \/ Raise(s) \/ Crash(s)
    PROVE  Promised(c)!Next \/ UNCHANGED Promises(c)
<1> USE DEF Typed, States
<1>1. swapped' = swapped
  BY CommitClaims, QuietStep
<1>2. CASE swapped
  BY <1>1, <1>2 DEF Promised!Next
<1> SUFFICES ASSUME ~swapped, ~swapped'
             PROVE  Promised(c)!Next \/ UNCHANGED Promises(c)
  BY <1>1, <1>2
<1>3. CASE Commit(s)
  <2>1. CASE seen[s][1] = c
    <3>1. Recording(c) = "none" /\ Recording(c)' = "stored"
      BY <1>3, <2>1, CommitClaims DEF Recording
    <3>2. ~Telling(c)
      BY <1>3, <2>1, CommitClaims DEF Telling, Announced
    <3>3. Telling(c)'
      BY <1>3, <2>1, CommitClaims DEF Telling
    <3>4. dispatched'[c] = dispatched[c]
      BY <1>3, CommitClaims
    <3> QED
      BY <3>1, <3>2, <3>3, <3>4
         DEF Recording, Telling, Promised!Next, Promised!Store
  <2>2. CASE seen[s][1] # c
    <3>1. recorded'[c] = recorded[c] /\ dispatched' = dispatched
      BY <1>3, <2>2, CommitClaims
    <3>2. Telling(c)' = Telling(c)
      BY <1>3, <2>2, CommitClaims DEF Telling
    <3> QED
      BY <1>1, <3>1, <3>2 DEF Promises, Recording
  <2> QED
    BY <2>1, <2>2
<1>4. CASE ~Commit(s)
  <2>1. /\ recorded' = recorded /\ pc'[s] # "dispatch"
        /\ \A t \in Scanners \ {s} : pc'[t] = pc[t] /\ seen'[t] = seen[t]
    BY <1>4, QuietStep
  <2>2. CASE pc[s] = "dispatch" /\ seen[s][1] = c
    <3>1. Telling(c) /\ ~Telling(c)'
      BY <2>1, <2>2 DEF Telling, Announced
    <3>2. \/ dispatched'[c] = dispatched[c] + 1
          \/ dispatched'[c] = dispatched[c]
      BY <2>2 DEF ScanStep, ScanStart, Heartbeat, Judge, Baseline, Verify, Read,
                  Move, Commit, Dispatch, MoveToFailed, Raise, Crash, meetings
    <3> QED
      BY <2>1, <3>1, <3>2
         DEF Telling, Promised!Next, Promised!Tell, Promised!Strand
  <2>3. CASE ~(pc[s] = "dispatch" /\ seen[s][1] = c)
    <3>1. Telling(c)' = Telling(c)
      BY <2>1, <2>3 DEF Telling
    <3>2. dispatched'[c] = dispatched[c]
      BY <2>3 DEF ScanStep, ScanStart, Heartbeat, Judge, Baseline, Verify, Read,
                  Move, Commit, Dispatch, MoveToFailed, Raise, Crash, meetings, Looking
    <3> QED
      BY <1>1, <2>1, <3>1, <3>2 DEF Promises, Recording
  <2> QED
    BY <2>2, <2>3
<1> QED
  BY <1>3, <1>4

\* Every file in a watch folder gets what Intake promises of a Meeting, however
\* many scans are at it, until one is put under a name that a scan is ingesting.
THEOREM KeepsPromiseHolds == Spec => KeepsPromise
<1>1. Init => \A c \in Copies : Promised(c)!Init
  <2> SUFFICES ASSUME Init, NEW c \in Copies PROVE Promised(c)!Init
    OBVIOUS
  <2>1. ~swapped
    BY Zenon DEF Init
  <2> QED
    BY <2>1 DEF Init, Promised!Init
<1>2. Typed /\ FileInv /\ Announced /\ [Next]_vars =>
          [\A c \in Copies : Promised(c)!Next \/ Promised(c)!Same]_vars
  <2> SUFFICES ASSUME Typed, FileInv, Announced, Next, NEW c \in Copies
               PROVE  Promised(c)!Next \/ UNCHANGED Promises(c)
    BY DEF Promised!Same, Promised!vars, Promises, Recording, Telling
  <2>1. CASE \/ \E d \in Copies : WriteRest(d) \/ GoQuiet(d) \/ \E n \in Names : Drop(d, n)
             \/ SetEnabled
    <3>1. UNCHANGED <<pc, seen, recorded, dispatched>>
      BY <2>1 DEF WriteRest, GoQuiet, Drop, SetEnabled, meetings, scans
    <3>2. CASE swapped'
      BY <3>2 DEF Promised!Next
    <3>3. CASE ~swapped'
      <4>1. ASSUME NEW d \in Copies, NEW n \in Names, Drop(d, n)
            PROVE  ~swapped /\ (swapped' = FALSE)
        BY <3>3, <4>1, Zenon DEF Drop
      <4>2. ASSUME NEW d \in Copies, WriteRest(d) \/ GoQuiet(d) \/ SetEnabled
            PROVE  swapped' = swapped
        BY <4>2 DEF WriteRest, GoQuiet, SetEnabled, files
      <4>3. swapped' = swapped
        BY <2>1, <4>1, <4>2 DEF Typed, SetEnabled, files
      <4> QED
        BY <3>1, <4>3 DEF Promises, Recording, Telling
    <3> QED
      BY <3>2, <3>3
  <2>2. CASE \E s \in Scanners : ScanStep(s) \/ Raise(s) \/ Crash(s)
    BY <2>2, ScanRefines
  <2> QED
    BY <2>1, <2>2 DEF Next
<1> QED
  BY <1>1, <1>2, TypedHolds, FileInvHolds, AnnouncedHolds, PTL DEF Spec, KeepsPromise

=============================================================================
