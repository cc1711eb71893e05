--------------------------- MODULE RetentionProofs ---------------------------
(***************************************************************************)
(* What TLAPS proves of Retention for every number of Meetings, admins and *)
(* tasks, every batch limit and every set of periods: the types, that the  *)
(* policy in force is the one that was put last, and that a preview        *)
(* foretells what the tasks delete.                                        *)
(***************************************************************************)
EXTENDS Retention, FiniteSetTheorems, TLAPS

\* A purge that has been selected.
Purges == [meeting : Meetings, kind : Kinds]

-----------------------------------------------------------------------------
(* What select_purge_candidates returns.                                   *)

\* A page is a part of what it was taken from, and all of it if the limit is
\* no smaller.
LEMMA PageOf ==
    ASSUME NEW S, NEW limit \in Nat, NEW page \in Pages(S, limit)
    PROVE  /\ page \subseteq S
           /\ IsFiniteSet(S) /\ Cardinality(S) <= limit => page = S
<1>1. page \subseteq S
  BY DEF Pages
<1>2. ASSUME IsFiniteSet(S), Cardinality(S) <= limit
      PROVE  page = S
  <2>1. Cardinality(S) \in Nat
    BY <1>2, FS_CardinalityType
  <2>2. Cardinality(page) = Cardinality(S)
    BY <1>2, <2>1 DEF Pages
  <2> QED
    BY <1>1, <1>2, <2>2, FS_Subset
<1> QED
  BY <1>1, <1>2

\* A batch holds nothing that is not due, and each Meeting in its own way.
LEMMA BatchIsDue ==
    ASSUME NEW limit \in Nat, NEW b \in Batches(limit), NEW c \in b
    PROVE  \/ c.kind = "full" /\ c.meeting \in FullDue
              /\ c = Candidate(c.meeting, "full")
           \/ c.kind = "audio" /\ c.meeting \in AudioDue \ FullDue
              /\ c = Candidate(c.meeting, "audio")
<1>1. PICK full \in Pages(FullDue, limit) :
          \E sound \in Pages(AudioDue \ Excluded(full), limit) :
              b = Candidates(full, "full") \cup Candidates(sound, "audio")
  BY DEF Batches
<1>0. PICK sound \in Pages(AudioDue \ Excluded(full), limit) :
          b = Candidates(full, "full") \cup Candidates(sound, "audio")
  BY <1>1
<1>2. full \subseteq FullDue /\ sound \subseteq AudioDue \ FullDue
  BY PageOf DEF Excluded
<1> QED
  BY <1>0, <1>2 DEF Candidates, Candidate

\* Without a limit nothing that is due is missing.
LEMMA PreviewIsComplete ==
    ASSUME TypeOK, NEW b \in Batches(Cardinality(Meetings))
    PROVE  /\ Candidates(FullDue, "full") \subseteq b
           /\ Candidates(AudioDue \ FullDue, "audio") \subseteq b
<1> DEFINE limit == Cardinality(Meetings)
<1>1. limit \in Nat
  BY RetentionAssumption, FS_CardinalityType
<1>2. PICK full \in Pages(FullDue, limit) :
          \E sound \in Pages(AudioDue \ Excluded(full), limit) :
              b = Candidates(full, "full") \cup Candidates(sound, "audio")
  BY DEF Batches
<1>0. PICK sound \in Pages(AudioDue \ Excluded(full), limit) :
          b = Candidates(full, "full") \cup Candidates(sound, "audio")
  BY <1>2
<1>3. FullDue \subseteq Meetings /\ AudioDue \ FullDue \subseteq Meetings
  BY DEF FullDue, AudioDue, TypeOK
<1>4. \A S \in SUBSET Meetings : IsFiniteSet(S) /\ Cardinality(S) <= limit
  BY RetentionAssumption, FS_Subset
<1>5. full = FullDue
  BY <1>1, <1>3, <1>4, PageOf
<1>6. sound = AudioDue \ FullDue
  BY <1>1, <1>3, <1>4, PageOf DEF Excluded
<1> QED
  BY <1>0, <1>5, <1>6

\* A batch is a set of purges of the organization's Meetings.
LEMMA BatchType ==
    ASSUME TypeOK, NEW limit \in Nat, NEW b \in Batches(limit)
    PROVE  b \subseteq Purges
<1> SUFFICES ASSUME NEW c \in b PROVE c \in Purges
  OBVIOUS
<1>1. FullDue \subseteq Meetings /\ AudioDue \subseteq Meetings
  BY DEF FullDue, AudioDue, TypeOK
<1> QED
  BY <1>1, BatchIsDue DEF Purges, Kinds, Candidate

-----------------------------------------------------------------------------
(* Types.                                                                  *)

\* TypeOK, the queue holds at most one message that was asked for and one for
\* each worker that was lost, and what is selected has been created.
Typed ==
    /\ TypeOK
    /\ queue <= 1 + failures
    /\ \A t \in Tasks : \A c \in batch[t] : created[c.meeting] # Never

\* PUT is a handler with no task in it: what it loads and sends are policies.
LEMMA PutTyped ==
    ASSUME Typed, NEW p \in Puts, PutRead(p) \/ PutCommit(p) \/ PutRefused(p)
    PROVE  Typed'
<1> USE DEF Typed, TypeOK, meetings, admin, tasks, preview, history
<1>1. CASE PutRead(p)
  <2>1. PICK body \in Policies :
            put' = [put EXCEPT ![p] = [pc |-> "loaded", loaded |-> policy, body |-> body]]
    BY <1>1, RetentionAssumption DEF PutRead, Policies, Periods
  <2>2. \A q \in Puts :
            \/ put'[q] = [pc |-> "idle"]
            \/ put'[q] \in [pc : {"loaded"}, loaded : Policies \cup {NoPolicy},
                            body : Policies]
    BY <2>1
  <2> QED
    BY <1>1, <2>2, RetentionAssumption DEF PutRead
<1>2. CASE PutCommit(p)
  <2>1. put[p] \in [pc : {"loaded"}, loaded : Policies \cup {NoPolicy}, body : Policies]
    BY <1>2 DEF PutCommit
  <2>2. policy' \in Policies
    <3>1. CASE policy = NoPolicy
      BY <1>2, <2>1, <3>1 DEF PutCommit
    <3>2. CASE policy # NoPolicy
      <4>1. put[p].loaded \in Policies
        BY <1>2, <2>1, <3>2 DEF PutCommit
      <4>2. policy' = [f \in {"audio", "meeting"} |->
                          Stored(put[p].loaded[f], put[p].body[f], policy[f])]
        BY <1>2, <3>2 DEF PutCommit
      <4>3. \A f \in {"audio", "meeting"} :
                Stored(put[p].loaded[f], put[p].body[f], policy[f]) \in Periods
        BY <2>1, <3>2, <4>1 DEF Policies, Stored, OrmWrite
      <4>4. policy' = [audio |-> policy'.audio, meeting |-> policy'.meeting]
        BY <4>2
      <4> QED
        BY <4>2, <4>3, <4>4 DEF Policies
    <3> QED
      BY <3>1, <3>2
  <2>3. (listed' = NoList) /\ asked' \in 0..now' /\ fresh' = {} /\ told' = {}
    BY <1>2 DEF PutCommit
  <2>4. raced' \in BOOLEAN
    BY <1>2, Zenon DEF PutCommit
  <2> QED
    BY <1>2, <2>1, <2>2, <2>3, <2>4 DEF PutCommit
<1>3. CASE PutRefused(p)
  BY <1>3 DEF PutRefused
<1> QED
  BY <1>1, <1>2, <1>3

\* A task keeps to the candidates it has selected.
LEMMA TaskTyped ==
    ASSUME Typed, NEW t \in Tasks, TaskStep(t) \/ WorkerLost(t)
    PROVE  Typed'
<1> USE RetentionAssumption DEF Typed, TypeOK, meetings, admin, tasks, preview, history
<1>1. CASE Select(t)
  <2>1. PICK b \in Batches(Limit) : batch' = [batch EXCEPT ![t] = b]
    BY <1>1 DEF Select
  <2>2. b \subseteq Purges
    BY BatchType
  <2>3. batch' \in [Tasks -> SUBSET [meeting : Meetings, kind : Kinds]]
    BY <2>1, <2>2 DEF Purges
  <2>4. \A c \in b : created[c.meeting] # Never
    BY BatchIsDue DEF FullDue, AudioDue
  <2> QED
    BY <1>1, <2>1, <2>3, <2>4 DEF Select
<1>2. ASSUME NEW c \in batch[t], PurgeOne(t, c)
      PROVE  Typed'
  <2>1. row' \subseteq {n \in Meetings : created'[n] # Never} /\ audio' \subseteq row'
    BY <1>2 DEF PurgeOne
  <2> QED
    BY <1>2, <2>1 DEF PurgeOne
<1>3. ASSUME NEW c \in batch[t], PurgeRaises(t, c)
      PROVE  Typed'
  BY <1>3 DEF PurgeRaises, AfterFailure
<1>4. CASE WorkerLost(t)
  BY <1>4 DEF WorkerLost
<1> QED
  BY <1>1, <1>2, <1>3, <1>4 DEF TaskStep

\* The rows that appear.
LEMMA RowTyped ==
    ASSUME Typed, NEW m \in Meetings, Create(m) \/ Record(m)
    PROVE  Typed'
<1> USE RetentionAssumption DEF Typed, TypeOK, admin, tasks, history
<1>1. {Candidate(m, k) : k \in Kinds} \subseteq [meeting : Meetings, kind : Kinds]
  BY DEF Candidate
<1>2. CASE Create(m)
  <2>1. PICK began \in 0..now : created' = [created EXCEPT ![m] = began]
    BY <1>2 DEF Create
  <2>2. \A n \in Meetings :
            /\ created'[n] \in 0..now \cup {Never}
            /\ n \in row \cup {m} => created'[n] # Never
    BY <2>1
  <2>3. created' \in [Meetings -> 0..now' \cup {Never}]
    BY <1>2, <2>1, <2>2 DEF Create
  <2>4. /\ row' \subseteq {n \in Meetings : created'[n] # Never}
        /\ audio' \subseteq row' /\ recorded' \subseteq Meetings
    BY <1>2, <2>2 DEF Create
  <2>5. fresh' \in SUBSET [meeting : Meetings, kind : Kinds]
    BY <1>1, <1>2 DEF Create, Appear, Kinds
  <2> QED
    BY <1>2, <2>3, <2>4, <2>5 DEF Create
<1>3. CASE Record(m)
  <2>1. fresh' \in SUBSET [meeting : Meetings, kind : Kinds]
    BY <1>1, <1>3 DEF Record, Appear, Kinds
  <2> QED
    BY <1>3, <2>1 DEF Record
<1> QED
  BY <1>2, <1>3

\* The rest: the clock, previews and messages.
LEMMA OtherTyped ==
    ASSUME Typed, Tick \/ Preview \/ Trigger \/ Sweep
    PROVE  Typed'
<1> USE RetentionAssumption DEF Typed, TypeOK, meetings, admin, tasks, preview, history
<1>1. CASE Tick
  BY <1>1 DEF Tick
<1>2. CASE Preview
  <2>1. PICK b \in Batches(Cardinality(Meetings)) : listed' = b
    BY <1>2 DEF Preview
  <2>2. b \subseteq Purges
    BY BatchType, FS_CardinalityType
  <2> QED
    BY <1>2, <2>1, <2>2 DEF Preview, Purges
<1>3. CASE Enqueue
  BY <1>3 DEF Enqueue
<1> QED
  BY <1>1, <1>2, <1>3 DEF Trigger, Sweep

\* Retention's variables keep their types, and no Recording is left of a
\* Meeting that is gone (purge_meeting_full deletes both).
LEMMA TypedHolds == Spec => []Typed
<1>1. Init => Typed
  <2> SUFFICES ASSUME Init PROVE Typed
    OBVIOUS
  <2>1. raced \in BOOLEAN
    BY Zenon DEF Init
  <2> QED
    BY <2>1, RetentionAssumption DEF Init, Typed, TypeOK
<1>2. Typed /\ [Next]_vars => Typed'
  <2>1. ASSUME Typed, UNCHANGED vars PROVE Typed'
    BY <2>1 DEF Typed, TypeOK, vars, meetings, admin, tasks, preview, history
  <2> QED
    BY <2>1, PutTyped, TaskTyped, RowTyped, OtherTyped DEF Next
<1> QED
  BY <1>1, <1>2, PTL DEF Spec

\* The type invariant, for every number of Meetings, admins and tasks.
THEOREM TypeOKHolds == Spec => []TypeOK
<1>1. Typed => TypeOK
  BY DEF Typed
<1> QED
  BY <1>1, TypedHolds, PTL

-----------------------------------------------------------------------------
(* The policy.                                                             *)

\* What a PUT that has loaded will commit has passed the validator.
BodiesAreValid == \A p \in Puts : put[p].pc = "loaded" => Valid(put[p].body)

\* The policy is the last one put: a PUT that nobody overlapped holds the
\* policy as it is, so that what it leaves alone has the value it sent.
THEOREM PolicyIsTheLastPutHolds == Spec => []PolicyIsTheLastPut
<1> DEFINE Inv == PolicyIsTheLastPut /\ BodiesAreValid
<1>1. Init => Inv
  BY DEF Init, PolicyIsTheLastPut, BodiesAreValid
<1>2. Typed /\ Inv /\ [Next]_vars => Inv'
  <2> SUFFICES ASSUME Typed, Inv, [Next]_vars
               PROVE  Inv'
    OBVIOUS
  <2> USE DEF PolicyIsTheLastPut, BodiesAreValid, Typed, TypeOK
  <2>1. ASSUME NEW p \in Puts, PutRead(p)
        PROVE  Inv'
    BY <2>1 DEF PutRead
  <2>2. ASSUME NEW p \in Puts, PutCommit(p)
        PROVE  Inv'
    <3> DEFINE r == put[p]
    <3>1. /\ r \in [pc : {"loaded"}, loaded : Policies \cup {NoPolicy}, body : Policies]
          /\ Valid(r.body)
      BY <2>2 DEF PutCommit
    <3>2. BodiesAreValid'
      BY <2>2 DEF PutCommit
    <3>3. ASSUME policy = r.loaded
          PROVE  policy' = r.body
      <4>1. CASE policy = NoPolicy
        BY <2>2, <4>1 DEF PutCommit
      <4>2. CASE policy # NoPolicy
        <5>1. policy \in Policies /\ r.body \in Policies
          BY <3>1, <4>2
        <5>2. policy' = [f \in {"audio", "meeting"} |->
                            Stored(policy[f], r.body[f], policy[f])]
          BY <2>2, <3>3, <4>2 DEF PutCommit
        <5>3. policy' = [f \in {"audio", "meeting"} |-> r.body[f]]
          BY <5>2 DEF Stored, OrmWrite
        <5> QED
          BY <5>1, <5>3 DEF Policies
      <4> QED
        BY <4>1, <4>2
    <3>4. last' = r.body /\ (~raced' => policy = r.loaded)
      BY <2>2, Zenon DEF PutCommit
    <3> QED
      BY <3>1, <3>2, <3>3, <3>4
  <2>3. ASSUME NEW p \in Puts, PutRefused(p)
        PROVE  Inv'
    BY <2>3 DEF PutRefused, history
  <2>4. CASE \/ Tick \/ Preview \/ Trigger \/ Sweep
             \/ \E m \in Meetings : Create(m) \/ Record(m)
    BY <2>4 DEF Tick, Preview, Trigger, Sweep, Enqueue, Create, Record, admin, history
  <2>5. ASSUME NEW t \in Tasks, TaskStep(t) \/ WorkerLost(t)
        PROVE  Inv'
    BY <2>5
       DEF TaskStep, Select, PurgeOne, PurgeRaises, WorkerLost, admin, history
  <2>6. CASE UNCHANGED vars
    BY <2>6 DEF vars, admin, history
  <2> QED
    BY <2>1, <2>2, <2>3, <2>4, <2>5, <2>6 DEF Next
<1> QED
  BY <1>1, <1>2, TypedHolds, PTL DEF Spec

-----------------------------------------------------------------------------
(* The preview.                                                            *)

\* Everything that is due when a preview is in force can be foreseen from it.
DueIsForeseeable ==
    listed # NoList =>
        /\ \A m \in FullDue : Foreseeable(Candidate(m, "full"))
        /\ \A m \in AudioDue \ FullDue : Foreseeable(Candidate(m, "audio"))

\* So is everything that a task has selected since.
BatchIsForeseeable ==
    /\ listed = NoList => told = {}
    /\ \A t \in told : \A c \in batch[t] : Foreseeable(c)

Foreseen == DueIsForeseeable /\ BatchIsForeseeable

\* What can be foreseen from a preview stays so until the policy changes or the
\* next preview: created_at is written once, and fresh grows.
LEMMA StaysForeseeable ==
    ASSUME UNCHANGED <<policy, listed, asked>>, fresh \subseteq fresh',
           NEW c, Foreseeable(c), created'[c.meeting] = created[c.meeting]
    PROVE  Foreseeable(c)'
BY DEF Foreseeable, Period

\* Purging makes no Meeting due.
LEMMA DueKept ==
    ASSUME DueIsForeseeable, UNCHANGED <<now, created, policy, preview>>,
           row' \subseteq row, audio' \subseteq audio
    PROVE  DueIsForeseeable'
<1>1. FullDue' \subseteq FullDue /\ AudioDue' \ FullDue' \subseteq AudioDue \ FullDue
  BY DEF FullDue, AudioDue, Past
<1>2. \A c : Foreseeable(c) <=> Foreseeable(c)'
  BY DEF Foreseeable, Period, preview
<1> QED
  BY <1>1, <1>2 DEF DueIsForeseeable, preview

\* A task's step drops candidates or selects new ones.
LEMMA TaskForeseen ==
    ASSUME Typed, Foreseen, NEW t \in Tasks, TaskStep(t) \/ WorkerLost(t)
    PROVE  Foreseen'
<1> USE RetentionAssumption DEF Typed, TypeOK, Foreseen
<1>1. \A c : UNCHANGED <<created, policy, preview>> =>
                 (Foreseeable(c) <=> Foreseeable(c)')
  BY DEF Foreseeable, Period, preview
<1>2. CASE Select(t)
  <2>1. PICK b \in Batches(Limit) : batch' = [batch EXCEPT ![t] = b]
    BY <1>2 DEF Select
  <2>2. listed # NoList => \A c \in b : Foreseeable(c)
    BY BatchIsDue DEF DueIsForeseeable
  <2>3. BatchIsForeseeable'
    BY <1>1, <1>2, <2>1, <2>2 DEF Select, BatchIsForeseeable, meetings, admin, preview
  <2> QED
    BY <1>2, <2>3, DueKept DEF Select, meetings, admin
<1>3. ASSUME NEW c \in batch[t], PurgeOne(t, c)
      PROVE  Foreseen'
  <2>1. BatchIsForeseeable'
    BY <1>1, <1>3 DEF PurgeOne, BatchIsForeseeable, admin, preview
  <2> QED
    BY <1>3, <2>1, DueKept DEF PurgeOne, admin
<1>4. ASSUME (\E c \in batch[t] : PurgeRaises(t, c)) \/ WorkerLost(t)
      PROVE  Foreseen'
  <2>1. UNCHANGED <<now, meetings, admin, preview, told>>
    BY <1>4 DEF PurgeRaises, WorkerLost
  <2>2. \A u \in Tasks : batch'[u] \subseteq batch[u]
    BY <1>4 DEF PurgeRaises, AfterFailure, WorkerLost
  <2>3. BatchIsForeseeable'
    BY <1>1, <2>1, <2>2 DEF BatchIsForeseeable, meetings, admin, preview
  <2> QED
    BY <2>1, <2>3, DueKept DEF meetings, admin
<1> QED
  BY <1>2, <1>3, <1>4 DEF TaskStep

\* A Meeting or Recording that appears is among the fresh ones.
LEMMA RowForeseen ==
    ASSUME Typed, Foreseen, NEW m \in Meetings, Create(m) \/ Record(m)
    PROVE  Foreseen'
<1> USE DEF Typed, TypeOK, Foreseen
<1>1. CASE listed = NoList
  BY <1>1 DEF Create, Record, DueIsForeseeable, BatchIsForeseeable
<1>2. CASE listed # NoList
  <2>1. /\ UNCHANGED <<now, policy, batch, listed, asked, told>>
        /\ fresh \subseteq fresh' /\ Candidate(m, "audio") \in fresh'
        /\ \/ Candidate(m, "full") \in fresh'
           \/ row' = row /\ created' = created
    BY <1>2 DEF Create, Record, Appear, admin, tasks
  <2>2. /\ \A n \in Meetings \ {m} : created'[n] = created[n]
        /\ row' \subseteq row \cup {m} /\ row \subseteq row'
        /\ audio' \subseteq audio \cup {m} /\ audio \subseteq audio'
    BY DEF Create, Record
  <2>3. m \in row => created' = created
    BY DEF Create, Record
  <2>4. \A n \in Meetings \ {m}, k \in Kinds :
            Foreseeable(Candidate(n, k)) => Foreseeable(Candidate(n, k))'
    BY <2>1, <2>2 DEF Foreseeable, Period, Candidate
  <2>5. Foreseeable(Candidate(m, "audio"))'
    BY <2>1 DEF Foreseeable
  <2>6. m \in FullDue' => Foreseeable(Candidate(m, "full"))'
    <3>1. CASE Candidate(m, "full") \in fresh'
      BY <3>1 DEF Foreseeable
    <3>2. CASE row' = row /\ created' = created
      BY <1>2, <2>1, <3>2, StaysForeseeable DEF DueIsForeseeable, FullDue, Past
    <3> QED
      BY <2>1, <3>1, <3>2
  <2>7. DueIsForeseeable'
    <3>1. ASSUME NEW n \in FullDue' PROVE Foreseeable(Candidate(n, "full"))'
      <4>1. n # m => n \in FullDue
        BY <2>1, <2>2 DEF FullDue, Past
      <4> QED
        BY <1>2, <2>4, <2>6, <4>1 DEF DueIsForeseeable, FullDue, Kinds
    <3>2. ASSUME NEW n \in AudioDue' \ FullDue' PROVE Foreseeable(Candidate(n, "audio"))'
      <4>1. n # m => n \in AudioDue \ FullDue
        BY <2>1, <2>2 DEF FullDue, AudioDue, Past
      <4> QED
        BY <1>2, <2>4, <2>5, <4>1 DEF DueIsForeseeable, FullDue, AudioDue, Kinds
    <3> QED
      BY <3>1, <3>2 DEF DueIsForeseeable
  <2>8. BatchIsForeseeable'
    <3> SUFFICES ASSUME NEW t \in told, NEW c \in batch[t]
                 PROVE  Foreseeable(c)'
      BY <1>2, <2>1 DEF BatchIsForeseeable
    <3>1. Foreseeable(c) /\ c \in Purges
      BY DEF BatchIsForeseeable, Purges
    <3>2. c = Candidate(c.meeting, c.kind) /\ c.meeting \in Meetings /\ c.kind \in Kinds
      BY <3>1 DEF Purges, Candidate
    <3>3. CASE c.meeting # m
      BY <2>4, <3>1, <3>2, <3>3
    <3>4. CASE c.meeting = m
      <4>1. CASE c.kind = "audio"
        BY <2>5, <3>2, <3>4, <4>1
      <4>2. CASE c.kind = "full"
        <5>1. CASE Candidate(m, "full") \in fresh'
          BY <3>2, <3>4, <4>2, <5>1 DEF Foreseeable
        <5>2. CASE created' = created
          BY <2>1, <3>1, <5>2, StaysForeseeable
        <5> QED
          BY <2>1, <5>1, <5>2
      <4> QED
        BY <3>2, <4>1, <4>2 DEF Kinds
    <3> QED
      BY <3>3, <3>4
  <2> QED
    BY <2>7, <2>8
<1> QED
  BY <1>1, <1>2

\* What comes due at a tick passes its threshold after the preview, which is
\* not younger than the time before the tick.
LEMMA TickForeseen ==
    ASSUME Typed, Foreseen, Tick
    PROVE  Foreseen'
<1> USE RetentionAssumption DEF Typed, TypeOK, Foreseen
<1>1. /\ now' = now + 1
      /\ UNCHANGED <<created, row, audio, policy, batch, listed, asked, fresh, told>>
  BY DEF Tick, meetings, admin, tasks, preview
<1>2. \A c : Foreseeable(c) <=> Foreseeable(c)'
  BY <1>1 DEF Foreseeable, Period
<1>3. BatchIsForeseeable'
  BY <1>1, <1>2 DEF BatchIsForeseeable
<1>4. ASSUME NEW m \in row, NEW kind \in Kinds, policy # NoPolicy,
             Past(m, Period(kind))', ~Past(m, Period(kind))
      PROVE  Foreseeable(Candidate(m, kind))
  <2>1. /\ created[m] \in Nat /\ now \in Nat /\ asked \in 0..now
    BY DEF Kinds
  <2>2. Period(kind) # Keep /\ Period(kind) \in Nat
    BY <1>1, <1>4 DEF Past, Period, Policies, Periods
  <2>3. now + 1 - created[m] >= Period(kind) /\ ~(now - created[m] >= Period(kind))
    BY <1>1, <1>4, <2>2 DEF Past, Period
  <2>4. asked < created[m] + Period(kind)
    BY <2>1, <2>2, <2>3
  <2> QED
    BY <2>2, <2>4 DEF Foreseeable, Candidate
<1>5. ASSUME listed # NoList, NEW m \in FullDue'
      PROVE  Foreseeable(Candidate(m, "full"))
  <2>1. m \in row /\ policy # NoPolicy /\ Past(m, Period("full"))'
    BY <1>1 DEF FullDue, Period
  <2>2. Past(m, Period("full")) => m \in FullDue
    BY <2>1 DEF FullDue, Period
  <2> QED
    BY <1>4, <1>5, <2>1, <2>2 DEF DueIsForeseeable, Kinds
<1>6. ASSUME listed # NoList, NEW m \in AudioDue' \ FullDue'
      PROVE  Foreseeable(Candidate(m, "audio"))
  <2>1. m \in row \cap audio /\ policy # NoPolicy /\ Past(m, Period("audio"))'
    BY <1>1 DEF AudioDue, Period
  <2>2. m \notin FullDue
    <3>1. created[m] \in Nat /\ now \in Nat
      BY <2>1
    <3>2. ASSUME m \in FullDue PROVE m \in FullDue'
      <4>1. policy.meeting # Keep /\ policy.meeting \in Nat
        BY <2>1, <3>2 DEF FullDue, Past, Policies, Periods
      <4>2. now + 1 - created[m] >= policy.meeting
        BY <3>1, <3>2, <4>1 DEF FullDue, Past
      <4> QED
        BY <1>1, <2>1, <4>1, <4>2 DEF FullDue, Past
    <3> QED
      BY <3>2
  <2>3. Past(m, Period("audio")) => m \in AudioDue \ FullDue
    BY <2>1, <2>2 DEF AudioDue, Period
  <2> QED
    BY <1>4, <1>6, <2>1, <2>3 DEF DueIsForeseeable, Kinds
<1> QED
  BY <1>1, <1>2, <1>3, <1>5, <1>6 DEF DueIsForeseeable

\* A preview lists all that is due when it is made.
LEMMA PreviewForeseen ==
    ASSUME Typed, Preview
    PROVE  Foreseen'
<1>1. UNCHANGED <<now, created, row, audio, policy>> /\ told' = {}
  BY DEF Preview, meetings, admin
<1>2. PICK b \in Batches(Cardinality(Meetings)) : listed' = b
  BY DEF Preview
<1>3. FullDue' = FullDue /\ AudioDue' = AudioDue
  BY <1>1 DEF FullDue, AudioDue, Past
<1>4. /\ \A m \in FullDue : Candidate(m, "full") \in listed'
      /\ \A m \in AudioDue \ FullDue : Candidate(m, "audio") \in listed'
  BY <1>2, PreviewIsComplete DEF Typed, Candidates
<1> QED
  BY <1>1, <1>3, <1>4 DEF Foreseen, DueIsForeseeable, BatchIsForeseeable, Foreseeable

\* All that is due, or selected since the preview, can be foreseen from it.
LEMMA ForeseenHolds == Spec => []Foreseen
<1>1. Init => Foreseen
  BY DEF Init, Foreseen, DueIsForeseeable, BatchIsForeseeable
<1>2. Typed /\ Foreseen /\ [Next]_vars => Foreseen'
  <2> SUFFICES ASSUME Typed, Foreseen, [Next]_vars
               PROVE  Foreseen'
    OBVIOUS
  <2>1. ASSUME UNCHANGED <<now, meetings, policy, batch, preview, told>>
        PROVE  Foreseen'
    <3>1. \A c : Foreseeable(c) <=> Foreseeable(c)'
      BY <2>1 DEF Foreseeable, Period, meetings, preview
    <3>2. BatchIsForeseeable'
      BY <2>1, <3>1 DEF Foreseen, BatchIsForeseeable, preview
    <3> QED
      BY <2>1, <3>2, DueKept DEF Foreseen, meetings
  <2>2. ASSUME NEW p \in Puts, PutCommit(p)
        PROVE  Foreseen'
    BY <2>2 DEF PutCommit, Foreseen, DueIsForeseeable, BatchIsForeseeable
  <2>3. CASE Trigger \/ Sweep \/ \E p \in Puts : PutRead(p) \/ PutRefused(p)
    BY <2>1, <2>3 DEF Trigger, Sweep, Enqueue, PutRead, PutRefused, admin, tasks
  <2>4. CASE UNCHANGED vars
    BY <2>1, <2>4 DEF vars, admin, tasks
  <2> QED
    BY <2>2, <2>3, <2>4, TickForeseen, RowForeseen, PreviewForeseen, TaskForeseen
       DEF Next
<1> QED
  BY <1>1, <1>2, TypedHolds, PTL DEF Spec

\* Whatever appears, grows old and is purged between a preview and the tasks that
\* select after it, they delete nothing that could not be foreseen from it.
THEOREM PreviewForetellsHolds == Spec => PreviewForetells
<1> DEFINE Told(m, t, kind) ==
        Deletes(t, m, kind) => Foreseeable(Candidate(m, kind))
<1>1. Typed /\ Foreseen /\ [Next]_vars =>
          [\A m \in Meetings, t \in told, kind \in Kinds : Told(m, t, kind)]_vars
  <2> SUFFICES ASSUME Typed, Foreseen, Next, NEW m \in Meetings, NEW t \in told,
                      NEW kind \in Kinds, Deletes(t, m, kind)
               PROVE  Foreseeable(Candidate(m, kind))
    OBVIOUS
  <2> USE DEF Typed, TypeOK
  <2>1. ~(row \subseteq row') \/ ~(audio \subseteq audio')
    BY DEF Deletes, Kinds
  <2>2. ASSUME NEW u \in Tasks, NEW c \in batch[u], PurgeOne(u, c)
        PROVE  Foreseeable(Candidate(m, kind))
    <3>1. u = t
      BY <2>2 DEF PurgeOne, Deletes
    <3>2. c \in Purges
      BY DEF Purges
    <3>3. c.meeting = m /\ c.kind = kind
      BY <2>2, <3>2 DEF PurgeOne, Deletes, Kinds, Purges
    <3>4. c = Candidate(m, kind)
      BY <3>2, <3>3 DEF Purges, Candidate
    <3> QED
      BY <3>1, <3>4 DEF Foreseen, BatchIsForeseeable
  <2>3. CASE \/ Tick \/ Preview \/ Trigger \/ Sweep
             \/ \E n \in Meetings : Create(n) \/ Record(n)
             \/ \E p \in Puts : PutRead(p) \/ PutCommit(p) \/ PutRefused(p)
    BY <2>1, <2>3 DEF Tick, Preview, Trigger, Sweep, Enqueue, Create, Record,
                      PutRead, PutCommit, PutRefused, meetings
  <2>4. ASSUME NEW u \in Tasks, TaskStep(u) \/ WorkerLost(u)
        PROVE  Foreseeable(Candidate(m, kind))
    BY <2>1, <2>2, <2>4 DEF TaskStep, Select, PurgeRaises, WorkerLost, meetings
  <2> QED
    BY <2>3, <2>4 DEF Next
<1> QED
  BY <1>1, TypedHolds, ForeseenHolds, PTL DEF Spec, PreviewForetells

-----------------------------------------------------------------------------
(* The promise of Erasure.                                                 *)

Chosen(m) == {k \in Kinds : \E t \in Tasks : Candidate(m, k) \in batch[t]}

\* What Erasure's row stands for.
Here(m) == m \in row \/ created[m] = Never

\* A task's step takes a Meeting up for what it is due for, and deletes it for
\* what it was taken up for.
LEMMA TaskErases ==
    ASSUME Typed, NEW m \in Meetings, NEW t \in Tasks, TaskStep(t) \/ WorkerLost(t)
    PROVE  /\ Chosen(m)' \subseteq Chosen(m) \cup {k \in Kinds : Due(m, k)}
           /\ \/ m \notin audio' /\ (Here(m)' <=> Here(m)) /\ "audio" \in Chosen(m)
              \/ m \notin audio' /\ ~Here(m)' /\ "full" \in Chosen(m)
              \/ (Here(m)' <=> Here(m)) /\ (m \in audio' <=> m \in audio)
<1> USE RetentionAssumption DEF Typed, TypeOK, Here
<1>1. CASE Select(t)
  <2>1. PICK b \in Batches(Limit) : batch' = [batch EXCEPT ![t] = b]
    BY <1>1 DEF Select
  <2>2. \A k \in Kinds : Candidate(m, k) \in b => Due(m, k)
    BY BatchIsDue DEF Due, Kinds, Candidate
  <2>3. \A u \in Tasks : batch'[u] = b \/ batch'[u] = batch[u]
    BY <2>1
  <2>4. Chosen(m)' \subseteq Chosen(m) \cup {k \in Kinds : Due(m, k)}
    BY <2>2, <2>3 DEF Chosen
  <2> QED
    BY <1>1, <2>4 DEF Select, meetings
<1>2. ASSUME NEW c \in batch[t], PurgeOne(t, c)
      PROVE  /\ Chosen(m)' \subseteq Chosen(m)
             /\ \/ m \notin audio' /\ (Here(m)' <=> Here(m)) /\ "audio" \in Chosen(m)
                \/ m \notin audio' /\ ~Here(m)' /\ "full" \in Chosen(m)
                \/ (Here(m)' <=> Here(m)) /\ (m \in audio' <=> m \in audio)
  <2>1. \A u \in Tasks : batch'[u] \subseteq batch[u]
    BY <1>2 DEF PurgeOne
  <2>2. Chosen(m)' \subseteq Chosen(m)
    BY <2>1 DEF Chosen
  <2>3. /\ c.kind \in Kinds /\ c = Candidate(c.meeting, c.kind)
        /\ created[c.meeting] # Never /\ created' = created
        /\ row' = IF c.kind = "full" THEN row \ {c.meeting} ELSE row
        /\ audio' = audio \ {c.meeting}
    BY <1>2 DEF PurgeOne, Candidate
  <2>4. CASE c.meeting = m
    <3>1. c.kind \in Chosen(m)
      BY <1>2, <2>3, <2>4 DEF Chosen
    <3> QED
      BY <2>2, <2>3, <2>4, <3>1 DEF Kinds
  <2>5. CASE c.meeting # m
    BY <2>2, <2>3, <2>5
  <2> QED
    BY <2>4, <2>5
<1>3. ASSUME (\E c \in batch[t] : PurgeRaises(t, c)) \/ WorkerLost(t)
      PROVE  Chosen(m)' \subseteq Chosen(m) /\ UNCHANGED meetings
  <2>1. \A u \in Tasks : batch'[u] \subseteq batch[u]
    BY <1>3 DEF PurgeRaises, AfterFailure, WorkerLost
  <2> QED
    BY <1>3, <2>1 DEF Chosen, PurgeRaises, WorkerLost
<1> QED
  BY <1>1, <1>2, <1>3 DEF TaskStep, meetings

\* Every Meeting is erased as Erasure has it, from the moment it appears,
\* whichever tasks have it in their batches, whatever the policy becomes
\* meanwhile and whichever purges raise.
THEOREM ErasesWhatIsDueHolds == Spec => ErasesWhatIsDue
<1>1. Init => \A m \in Meetings : Erased(m)!Init
  <2> SUFFICES ASSUME Init, NEW m \in Meetings PROVE Erased(m)!Init
    OBVIOUS
  <2>1. (m \in row \/ created[m] = Never) = TRUE
    BY DEF Init
  <2>2. ~Due(m, "full") /\ ~Due(m, "audio")
    BY DEF Init, Due, FullDue, AudioDue
  <2>3. {k \in Kinds : Due(m, k)} = {} /\ Chosen(m) = {}
    BY <2>2 DEF Init, Kinds, Chosen
  <2>4. m \notin audio => audio \cap {m} = {}
    OBVIOUS
  <2> QED
    BY <2>1, <2>3, <2>4 DEF Erased!Init, Chosen
<1>2. Typed /\ [Next]_vars => [\A m \in Meetings : Erased(m)!Next]_vars
  <2> SUFFICES ASSUME Typed, Next, NEW m \in Meetings
               PROVE  Erased(m)!Next
    OBVIOUS
  <2> USE DEF Here
  <2>1. ASSUME (Here(m)' <=> Here(m)), (m \in audio' <=> m \in audio)
        PROVE  Erased(m)!Wait
    <3>1. (Here(m)') = (Here(m)) /\ ((m \in audio') = (m \in audio))
      BY <2>1
    <3>2. audio' \cap {m} = audio \cap {m}
      BY <2>1
    <3> QED
      BY <3>1, <3>2 DEF Erased!Wait
  <2>2. CASE \/ Tick \/ Preview \/ Trigger \/ Sweep
             \/ \E p \in Puts : PutRead(p) \/ PutCommit(p) \/ PutRefused(p)
    <3>1. UNCHANGED <<meetings, batch>>
      BY <2>2 DEF Tick, Preview, Trigger, Sweep, Enqueue, PutRead, PutCommit,
                  PutRefused, tasks
    <3> QED
      BY <2>1, <3>1 DEF Erased!Next, meetings
  <2>3. ASSUME NEW n \in Meetings, Create(n) \/ Record(n)
        PROVE  Erased(m)!Next
    <3>1. UNCHANGED batch /\ audio \subseteq audio'
      BY <2>3 DEF Create, Record, tasks
    <3>2. Here(m)' <=> Here(m)
      BY <2>3, RetentionAssumption DEF Create, Record, Typed, TypeOK
    <3>3. CASE m \in audio' <=> m \in audio
      BY <2>1, <3>1, <3>2, <3>3 DEF Erased!Next
    <3>4. CASE m \notin audio /\ m \in audio'
      <4>1. Here(m)
        BY <2>3, <3>4 DEF Create, Record
      <4>2. (Here(m)') = (Here(m))
        BY <3>2
      <4>3. Erased(m)!Record
        BY <3>4, <4>1, <4>2 DEF Erased!Record
      <4> QED
        BY <3>1, <4>3 DEF Erased!Next
    <3> QED
      BY <3>1, <3>3, <3>4
  <2>4. ASSUME NEW t \in Tasks, TaskStep(t) \/ WorkerLost(t)
        PROVE  Erased(m)!Next
    <3>1. Chosen(m)' \subseteq Chosen(m) \cup {k \in Kinds : Due(m, k)}
      BY <2>4, TaskErases
    <3>2. \/ Erased(m)!Wait
          \/ \E k \in Chosen(m) : Erased(m)!Remove(k)
      <4>1. ASSUME m \notin audio', (Here(m)' <=> Here(m)), "audio" \in Chosen(m)
            PROVE  Erased(m)!Remove("audio")
        BY <4>1 DEF Erased!Remove, Chosen
      <4>2. ASSUME m \notin audio', ~Here(m)', "full" \in Chosen(m)
            PROVE  Erased(m)!Remove("full")
        BY <4>2 DEF Erased!Remove, Chosen
      <4> QED
        BY <2>1, <2>4, <4>1, <4>2, TaskErases
    <3> QED
      BY <3>1, <3>2 DEF Erased!Next, Chosen
  <2> QED
    BY <2>2, <2>3, <2>4 DEF Next
<1> QED
  BY <1>1, <1>2, TypedHolds, PTL DEF Spec, ErasesWhatIsDue

=============================================================================
