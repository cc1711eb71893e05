---------------------------- MODULE WatchFolder ----------------------------
(***************************************************************************)
(* Watch-folder ingest (pipeline/watch.py): scans of one registered        *)
(* directory.  Where a file lies is the only record of whether it has been *)
(* ingested: under the root, under .ingested/ or under .failed/.  Nothing  *)
(* keeps two scans of a folder apart (beat sends one every 300 s, whether  *)
(* or not the last has ended), and a person or a recorder goes on putting  *)
(* files under the root meanwhile.                                         *)
(*                                                                         *)
(* A step is a file system call, a storage call or a commit; os.walk lists *)
(* a directory at once.  Every copy is dropped once.                       *)
(***************************************************************************)
EXTENDS MeetingRow, Naturals

CONSTANTS
    Scanners,   \* concurrent executions of scan_watch_folder
    Names,      \* paths relative to root_path
    Copies,     \* the files ever put under the root
    NoFile,
    MaxSwitches, \* bound: times the folder is enabled or disabled
    MaxFaults    \* bound: calls that raise, tasks that die

ASSUME WatchAssumption ==
    NoFile \notin Copies /\ MaxSwitches \in Nat /\ MaxFaults \in Nat

VARIABLES
    root, ingested, failed,  \* the file under each name, by directory
    whole, quiet,            \* per copy: written to its end; st_mtime is old
    enabled, lastError,      \* the WatchFolder row; last_scan_error is not NULL
    recorded, dispatched,    \* per copy: committed Meetings, pipeline messages
    pc, todo, name, errors,  \* scans, and the file each is at
    seen,                    \* what a scan found it to be, when it last looked
    dropped, faults, switches,   \* history: the bounds
    resumed,                     \* history: scans written under
    swapped, paused, orphans  \* history: what the properties excuse

disk     == <<root, ingested, failed>>
files    == <<whole, quiet, dropped, swapped, paused>>
folder   == <<enabled, lastError, switches>>
meetings == <<recorded, dispatched>>
scans    == <<pc, todo, name, errors, seen>>
history  == <<faults, resumed, orphans>>
vars     == <<disk, files, folder, meetings, scans, history>>

\* _stat_signature: (size, mtime) tells copies and their lengths apart.
Signature(n) == IF root[n] = NoFile THEN <<NoFile>> ELSE <<root[n], whole[root[n]]>>

Gone == <<NoFile>>

Init ==
    /\ root = [n \in Names |-> NoFile]
    /\ ingested = root /\ failed = root
    /\ whole = [c \in Copies |-> FALSE] /\ quiet = whole
    /\ enabled = TRUE /\ switches = 0 /\ lastError = FALSE
    /\ recorded = [c \in Copies |-> 0] /\ dispatched = recorded
    /\ pc = [s \in Scanners |-> "idle"]
    /\ todo = [s \in Scanners |-> {}]
    /\ name \in [Scanners -> Names]
    /\ errors = [s \in Scanners |-> FALSE]
    /\ seen = [s \in Scanners |-> Gone]
    /\ dropped = {} /\ resumed = {} /\ faults = 0
    /\ swapped = FALSE /\ paused = FALSE /\ orphans = {}

-----------------------------------------------------------------------------
(* The people and programs that put files there, time, and the admin.      *)

\* The scans that have judged the file called n and not moved it yet.
Ingesting(n) ==
    {s \in Scanners :
        name[s] = n /\ pc[s] \in {"ingest", "flush", "read", "move", "fail"}}

\* The scans between their two looks at the file called n.
Comparing(n) == {s \in Ingesting(n) : pc[s] = "flush"}

\* A file is put under a name, in place of the one that is there.
Drop(c, n) ==
    /\ c \notin dropped
    /\ dropped' = dropped \cup {c}
    /\ root' = [root EXCEPT ![n] = c]
    /\ swapped' = (swapped \/ Ingesting(n) # {})
    /\ resumed' = resumed \cup Comparing(n)
    /\ UNCHANGED <<ingested, failed, whole, quiet, paused, folder, meetings,
                   scans, faults, orphans>>

\* The rest of a file is written.  (A writer may go on after the move; no scan
\* looks at the file again, so neither does the model.)
WriteRest(c) ==
    /\ \E n \in Names : root[n] = c
    /\ ~whole[c]
    /\ whole' = [whole EXCEPT ![c] = TRUE]
    /\ quiet' = [quiet EXCEPT ![c] = FALSE]
    /\ resumed' = resumed \cup UNION {Comparing(n) : n \in {m \in Names : root[m] = c}}
    /\ UNCHANGED <<disk, dropped, swapped, paused, folder, meetings, scans,
                   faults, orphans>>

\* STABLE_QUIET_SECONDS pass without a write.
GoQuiet(c) ==
    /\ \E n \in Names : root[n] = c
    /\ ~quiet[c]
    /\ quiet' = [quiet EXCEPT ![c] = TRUE]
    /\ paused' = (paused \/ ~whole[c])
    /\ UNCHANGED <<disk, whole, dropped, swapped, folder, meetings, scans, history>>

\* PUT /watch-folders.
SetEnabled ==
    /\ switches < MaxSwitches
    /\ switches' = switches + 1
    /\ enabled' = ~enabled
    /\ UNCHANGED <<disk, files, lastError, meetings, scans, history>>

-----------------------------------------------------------------------------
(* scan_watch_folder and ingest_file.                                      *)

Goto(s, from, to) == pc[s] = from /\ pc' = [pc EXCEPT ![s] = to]

\* A scan of a disabled folder returns at once.
ScanStart(s) ==
    /\ Goto(s, "idle", "scan")
    /\ enabled
    /\ todo' = [todo EXCEPT ![s] = {n \in Names : root[n] # NoFile}]
    /\ UNCHANGED <<disk, files, folder, meetings, name, errors, seen, history>>

\* _is_stable.  Mutation: a file that is being written is stable too.
IsStable_Always(n) == root[n] # NoFile
IsStable(n)        == root[n] # NoFile /\ quiet[root[n]]

Judge(s, n) ==
    /\ pc[s] = "scan" /\ n \in todo[s]
    /\ todo' = [todo EXCEPT ![s] = @ \ {n}]
    /\ IF IsStable(n)
         THEN /\ pc' = [pc EXCEPT ![s] = "ingest"]
              /\ name' = [name EXCEPT ![s] = n]
              /\ seen' = [seen EXCEPT ![s] = Signature(n)]
         ELSE UNCHANGED <<pc, name, seen>>
    /\ UNCHANGED <<disk, files, folder, meetings, errors, history>>

\* ingest_file is over, raising or not: its locals are gone.
Return(s, raised) ==
    /\ pc' = [pc EXCEPT ![s] = "scan"]
    /\ seen' = [seen EXCEPT ![s] = Gone]
    /\ errors' = [errors EXCEPT ![s] = @ \/ raised]
    /\ resumed' = resumed \ {s}

\* ensure_bucket, then the first look at the file.
Baseline(s) ==
    /\ pc[s] = "ingest"
    /\ IF Signature(name[s]) = Gone
         THEN Return(s, FALSE)
         ELSE /\ Goto(s, "ingest", "flush")
              /\ seen' = [seen EXCEPT ![s] = Signature(name[s])]
              /\ UNCHANGED <<errors, resumed>>
    /\ UNCHANGED <<disk, files, folder, meetings, todo, name, faults, orphans>>

\* Mutations: the two looks are not compared; they never compare equal.
Changed_Never(s)  == FALSE
Changed_Always(s) == TRUE
Changed(s)        == Signature(name[s]) # seen[s]

\* The Meeting has been flushed, not committed; the second look.
Verify(s) ==
    /\ pc[s] = "flush"
    /\ \/ /\ Signature(name[s]) = Gone
          /\ Goto(s, "flush", "fail")
          /\ UNCHANGED <<seen, errors, resumed>>
       \/ /\ Signature(name[s]) # Gone /\ Changed(s)
          /\ Return(s, FALSE)
       \/ /\ Signature(name[s]) # Gone /\ ~Changed(s)
          /\ Goto(s, "flush", "read")
          /\ UNCHANGED <<seen, errors, resumed>>
    /\ UNCHANGED <<disk, files, folder, meetings, todo, name, faults, orphans>>

\* open and put_stream.
Read(s) ==
    /\ IF Signature(name[s]) = Gone
         THEN Goto(s, "read", "fail") /\ UNCHANGED seen
         ELSE /\ Goto(s, "read", "move")
              /\ seen' = [seen EXCEPT ![s] = Signature(name[s])]
    /\ UNCHANGED <<disk, files, folder, meetings, todo, name, errors, history>>

\* Mutation: a move that finds no file is taken for one already made.
MoveMissing_Ignored == "commit"
MoveMissing         == "fail"

\* os.replace into .ingested/, over whatever has that name there.
Move(s) ==
    /\ LET n == name[s] IN
       IF root[n] = NoFile
         THEN Goto(s, "move", MoveMissing) /\ UNCHANGED disk
         ELSE /\ Goto(s, "move", "commit")
              /\ ingested' = [ingested EXCEPT ![n] = root[n]]
              /\ root' = [root EXCEPT ![n] = NoFile]
              /\ UNCHANGED failed
    /\ UNCHANGED <<files, folder, meetings, todo, name, errors, seen, history>>

Commit(s) ==
    /\ Goto(s, "commit", "dispatch")
    /\ recorded' = [recorded EXCEPT ![seen[s][1]] = @ + 1]
    /\ UNCHANGED <<disk, files, folder, dispatched, todo, name, errors,
                   seen, history>>

Dispatch(s) ==
    /\ pc[s] = "dispatch"
    /\ dispatched' = [dispatched EXCEPT ![seen[s][1]] = @ + 1]
    /\ Return(s, FALSE)
    /\ UNCHANGED <<disk, files, folder, recorded, todo, name, faults, orphans>>

\* The except clause: the transaction is rolled back and whatever file has
\* the name now goes to .failed/; without one the clause itself raises.
MoveToFailed(s) ==
    /\ pc[s] = "fail"
    /\ LET n == name[s] IN
       IF root[n] = NoFile THEN UNCHANGED disk
       ELSE /\ failed' = [failed EXCEPT ![n] = root[n]]
            /\ root' = [root EXCEPT ![n] = NoFile]
            /\ UNCHANGED ingested
    /\ Return(s, TRUE)
    /\ UNCHANGED <<files, folder, meetings, todo, name, faults, orphans>>

\* The heartbeat is written whatever the files did.
Heartbeat(s) ==
    /\ Goto(s, "scan", "idle")
    /\ todo[s] = {}
    /\ lastError' = errors[s]
    /\ errors' = [errors EXCEPT ![s] = FALSE]
    /\ UNCHANGED <<disk, files, enabled, switches, meetings, todo, name, seen, history>>

-----------------------------------------------------------------------------
(* Failures.                                                               *)

\* What an ingest that stops now leaves behind.
Leaves(s) ==
    /\ orphans' = IF pc[s] = "commit" THEN orphans \cup {seen[s][1]} ELSE orphans

\* The database, the bucket, the disk or the broker raises.  Before and after
\* the try block nothing is moved; a move to .failed/ that fails leaves the
\* file where it is.
Raise(s) ==
    /\ faults < MaxFaults
    /\ faults' = faults + 1
    /\ Leaves(s)
    /\ \/ pc[s] \in {"ingest", "dispatch", "fail"} /\ Return(s, TRUE)
       \/ /\ pc[s] \in {"flush", "read", "move", "commit"}
          /\ pc' = [pc EXCEPT ![s] = "fail"]
          /\ UNCHANGED <<seen, errors, resumed>>
    /\ UNCHANGED <<disk, files, folder, meetings, todo, name>>

\* The worker dies, or a statement of scan_watch_folder itself raises.
Crash(s) ==
    /\ pc[s] # "idle"
    /\ faults < MaxFaults
    /\ faults' = faults + 1
    /\ Leaves(s)
    /\ pc' = [pc EXCEPT ![s] = "idle"]
    /\ todo' = [todo EXCEPT ![s] = {}]
    /\ errors' = [errors EXCEPT ![s] = FALSE]
    /\ seen' = [seen EXCEPT ![s] = Gone]
    /\ resumed' = resumed \ {s}
    /\ UNCHANGED <<disk, files, folder, meetings, name>>

-----------------------------------------------------------------------------

ScanStep(s) ==
    \/ ScanStart(s) \/ Heartbeat(s) \/ \E n \in Names : Judge(s, n)
    \/ Baseline(s) \/ Verify(s) \/ Read(s) \/ Move(s) \/ Commit(s)
    \/ Dispatch(s) \/ MoveToFailed(s)

Next ==
    \/ \E c \in Copies : WriteRest(c) \/ GoQuiet(c) \/ \E n \in Names : Drop(c, n)
    \/ SetEnabled
    \/ \E s \in Scanners : ScanStep(s) \/ Raise(s) \/ Crash(s)

\* Time passes, and a started scan goes on; beat starts one every 300 s.
Fairness == (\A c \in Copies : WF_vars(GoQuiet(c)))
                /\ (\A s \in Scanners : WF_vars(ScanStep(s)))

Spec     == Init /\ [][Next]_vars
FairSpec == Spec /\ Fairness

-----------------------------------------------------------------------------

TypeOK ==
    LET Signatures == {Gone} \cup (Copies \X BOOLEAN) IN
    /\ {root, ingested, failed} \subseteq [Names -> Copies \cup {NoFile}]
    /\ {whole, quiet} \subseteq [Copies -> BOOLEAN]
    /\ enabled \in BOOLEAN /\ lastError \in BOOLEAN
    /\ {recorded, dispatched} \subseteq [Copies -> Nat]
    /\ pc \in [Scanners -> {"idle", "scan", "ingest", "flush", "read", "move",
                            "commit", "dispatch", "fail"}]
    /\ todo \in [Scanners -> SUBSET Names] /\ name \in [Scanners -> Names]
    /\ errors \in [Scanners -> BOOLEAN]
    /\ seen \in [Scanners -> Signatures]
    /\ dropped \subseteq Copies /\ resumed \subseteq Scanners
    /\ faults \in Nat /\ switches \in Nat
    /\ swapped \in BOOLEAN /\ paused \in BOOLEAN
    /\ orphans \subseteq Copies

\* "Filesystem placement is the only idempotency key" (line 100): a file under
\* the root or under .failed/ has no Meeting, and one under .ingested/ has
\* exactly one, unless its scan ended between the move and the commit or a file
\* was put under a name that a scan was ingesting.  No file becomes two Meetings,
\* also when it has been overwritten in .ingested/ since.
PlacementIsTheLedger ==
    ~swapped =>
        /\ \A n \in Names :
               /\ \A c \in {root[n], failed[n]} \ {NoFile} : recorded[c] = 0
               /\ ingested[n] # NoFile /\ ingested[n] \notin orphans =>
                     \/ recorded[ingested[n]] = 1
                     \/ \E s \in Scanners : pc[s] = "commit" /\ seen[s][1] = ingested[n]
        /\ \A c \in Copies : recorded[c] <= 1

\* A file whose writer never pauses for STABLE_QUIET_SECONDS is ingested to
\* its end, however many scans met it half written.
OnlyWholeFiles ==
    ~swapped /\ ~paused =>
        \A s \in Scanners : pc[s] \in {"move", "commit", "dispatch"} => seen[s][2]

\* Lines 87-97: a file written or replaced while its Meeting is flushed is not
\* ingested by that pass, whatever state the writer left it in.
ResumedIsSkipped ==
    \A s \in resumed : pc[s] \notin {"read", "move", "commit", "dispatch"}

\* Each file keeps the promise of Intake, until one is put under a name that a
\* scan is ingesting: one Meeting, committed before one message, however many
\* scans are at work and wherever they stop.
Promised(c) == INSTANCE Intake
               WITH recording <- IF recorded[c] > 0 THEN "stored" ELSE "none",
                    telling   <- \E s \in Scanners : pc[s] = "dispatch" /\ seen[s][1] = c,
                    messages  <- dispatched[c],
                    excused   <- swapped

KeepsPromise ==
    /\ \A c \in Copies : Promised(c)!Init
    /\ [][\A c \in Copies : Promised(c)!Next \/ Promised(c)!Same]_vars

\* A file left alone in an enabled folder does not stay under the root for
\* ever, whatever fails on the way and whatever lies next to it.
FilesLeave ==
    \A c \in Copies, n \in Names :
        root[n] = c ~> root[n] # c \/ ~enabled

=============================================================================
