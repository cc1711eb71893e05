----------------------------- MODULE Retention ------------------------------
(***************************************************************************)
(* One organization's retention policy (retention.py, api/retention.py)    *)
(* and the tasks that enforce it (purge_organization and sweep_retention   *)
(* in pipeline/purge.py).  A task selects its candidates in one            *)
(* transaction and purges them one after the other in later ones, while    *)
(* admins change and preview the policy, Meetings and Recordings appear    *)
(* and grow old, and a second task does the same.  How one Meeting is      *)
(* purged is the module Purge; here it is one step, which may raise.  So is *)
(* a selection, whose two or three queries read here what is committed at  *)
(* one moment.  The audit entries of PUT and of the trigger say what       *)
(* happened and are left out.                                              *)
(***************************************************************************)
EXTENDS MeetingRow, Integers, FiniteSets

CONSTANTS
    Meetings,         \* the organization's Meetings, sooner or later
    Broken,           \* those whose purge raises every time
    Limit,            \* candidates of each kind in one batch (500 in the code)
    Days, Keep,       \* retention periods, and null
    Bodies,           \* the policies that PUT requests carry
    NoPolicy, NoList, \* no RetentionPolicy row yet, no preview of the policy
    Never,            \* the created_at of a Meeting that is still to come
    Puts, Tasks,      \* PUT requests and workers
    LastTick,         \* bound: the time at which the clock stops
    MaxPuts,          \* bound: PUT requests
    MaxFailures       \* bound: purges that raise once, workers that are lost

ASSUME RetentionAssumption ==
    /\ IsFiniteSet(Meetings) /\ Broken \subseteq Meetings
    /\ Limit \in Nat /\ Days \subseteq Nat /\ Keep \notin Days /\ Never \notin Nat
    /\ Bodies \subseteq [audio : Days \cup {Keep}, meeting : Days \cup {Keep}]
    /\ LastTick \in Nat /\ MaxPuts \in Nat /\ MaxFailures \in Nat

VARIABLES
    now,              \* the clock; a period is so many of its ticks
    created,          \* created_at of each Meeting
    row, audio,       \* the Meetings that have a row, and a Recording
    recorded,         \* history: those that have had a Recording
    policy,           \* the RetentionPolicy row
    put,              \* the PUT requests
    queue,            \* undelivered purge_organization messages
    batch,            \* the candidates a task has still to purge
    listed, asked,    \* the last preview of the policy in force, and its time
    fresh,            \* history: candidates whose rows have come since then
    told,             \* history: tasks that have selected since then
    last, raced,      \* history: the last PUT, and whether two overlapped
    puts, failures    \* history

meetings == <<created, row, audio, recorded>>
admin    == <<policy, put>>
tasks    == <<queue, batch>>
preview  == <<listed, asked, fresh>>
history  == <<last, raced, puts>>
vars     == <<now, meetings, admin, tasks, preview, told, history, failures>>

Periods  == Days \cup {Keep}
Policies == [audio : Periods, meeting : Periods]
Kinds    == {"full", "audio"}

\* RetentionPolicyIn._validate.
Valid(p) == p.audio # Keep /\ p.meeting # Keep => p.audio <= p.meeting

Candidate(m, kind) == [meeting |-> m, kind |-> kind]

Init ==
    /\ now = 0
    /\ created = [m \in Meetings |-> Never]
    /\ row = {} /\ audio = {} /\ recorded = {}
    /\ policy = NoPolicy
    /\ put = [p \in Puts |-> [pc |-> "idle"]]
    /\ queue = 0
    /\ batch = [t \in Tasks |-> {}]
    /\ listed = NoList /\ asked = 0 /\ fresh = {} /\ told = {}
    /\ last = NoPolicy /\ raced = FALSE
    /\ puts = 0 /\ failures = 0

-----------------------------------------------------------------------------
(* select_purge_candidates.                                                *)

Past(m, period) == period # Keep /\ now - created[m] >= period

FullDue  == {m \in row : policy # NoPolicy /\ Past(m, policy.meeting)}
AudioDue == {m \in row \cap audio : policy # NoPolicy /\ Past(m, policy.audio)}

\* The first `limit` of S by created_at, which leaves the order of equals open.
Pages(S, limit) ==
    {page \in SUBSET S :
        /\ Cardinality(page) = IF Cardinality(S) < limit THEN Cardinality(S) ELSE limit
        /\ \A m \in page, n \in S \ page : created[m] <= created[n]}

Candidates(S, kind) == {Candidate(m, kind) : m \in S}

\* Mutation: a page of audio candidates excludes the page of full ones only.
Excluded_Page(page) == page
Excluded(page)      == FullDue

Batches(limit) ==
    UNION {{Candidates(full, "full") \cup Candidates(sound, "audio") :
                sound \in Pages(AudioDue \ Excluded(full), limit)} :
           full \in Pages(FullDue, limit)}

-----------------------------------------------------------------------------
(* The rows that appear, and the clock.                                    *)

Appear(S) == fresh' = IF listed = NoList THEN {} ELSE fresh \cup S

\* The transaction that inserts the Meeting commits, with the Recording if it
\* is an upload or a watched file.  created_at is the time at which it began.
Create(m) ==
    /\ created[m] = Never
    /\ \E began \in 0..now : created' = [created EXCEPT ![m] = began]
    /\ row' = row \cup {m}
    /\ \/ UNCHANGED <<audio, recorded>>
       \/ audio' = audio \cup {m} /\ recorded' = recorded \cup {m}
    /\ Appear({Candidate(m, "full"), Candidate(m, "audio")})
    /\ UNCHANGED <<now, admin, tasks, listed, asked, told, history, failures>>

\* A finish commits the Recording of a capture or bot session.
Record(m) ==
    /\ m \in row \ recorded
    /\ audio' = audio \cup {m} /\ recorded' = recorded \cup {m}
    /\ Appear({Candidate(m, "audio")})
    /\ UNCHANGED <<now, created, row, admin, tasks, listed, asked, told, history, failures>>

Tick ==
    /\ now < LastTick
    /\ now' = now + 1
    /\ UNCHANGED <<meetings, admin, tasks, preview, told, history, failures>>

-----------------------------------------------------------------------------
(* api/retention.py.                                                       *)

\* write_policy: upsert_policy reads the row ...
PutRead(p) ==
    /\ put[p].pc = "idle" /\ puts < MaxPuts
    /\ puts' = puts + 1
    /\ \E body \in Bodies :
           /\ Valid(body)
           /\ put' = [put EXCEPT ![p] =
                         [pc |-> "loaded", loaded |-> policy, body |-> body]]
    /\ UNCHANGED <<now, meetings, policy, tasks, preview, told, last, raced, failures>>

\* Mutation: a null in the body leaves the period as it is.
Stored_KeepsNull(loaded, new, held) ==
    IF new = Keep THEN held ELSE OrmWrite(loaded, new, held)
Stored(loaded, new, held) == OrmWrite(loaded, new, held)

\* ... and its transaction commits, each period by attribute assignment.
PutCommit(p) ==
    LET r == put[p] IN
    /\ r.pc = "loaded"
    /\ r.loaded = NoPolicy => policy = NoPolicy
    /\ policy' = IF policy = NoPolicy THEN r.body
                 ELSE [f \in {"audio", "meeting"} |->
                           Stored(r.loaded[f], r.body[f], policy[f])]
    /\ put' = [put EXCEPT ![p] = [pc |-> "idle"]]
    /\ last' = r.body
    /\ raced' = (raced \/ policy # r.loaded)
    /\ listed' = NoList /\ asked' = 0 /\ fresh' = {} /\ told' = {}
    /\ UNCHANGED <<now, meetings, tasks, puts, failures>>

\* The first PUT of another admin has inserted the organization's row: the
\* unique constraint makes this one a 500, and nothing is written.
PutRefused(p) ==
    /\ put[p].pc = "loaded"
    /\ put[p].loaded = NoPolicy /\ policy # NoPolicy
    /\ put' = [put EXCEPT ![p] = [pc |-> "idle"]]
    /\ UNCHANGED <<now, meetings, policy, tasks, preview, told, history, failures>>

\* preview_purge: no limit.
Preview ==
    /\ \E list \in Batches(Cardinality(Meetings)) : listed' = list
    /\ asked' = now /\ fresh' = {} /\ told' = {}
    /\ UNCHANGED <<now, meetings, admin, tasks, history, failures>>

-----------------------------------------------------------------------------
(* pipeline/purge.py.                                                      *)

Enqueue ==
    /\ queue = 0   \* bound: one waiting message
    /\ queue' = 1
    /\ UNCHANGED <<now, meetings, admin, batch, preview, told, history, failures>>

\* trigger_purge: an admin asks for a purge, whatever the policy says.
Trigger == Enqueue

\* sweep_retention, once a day.
Sweep ==
    /\ policy # NoPolicy
    /\ policy.audio # Keep \/ policy.meeting # Keep
    /\ Enqueue

Select(t) ==
    /\ queue > 0 /\ batch[t] = {}
    /\ queue' = queue - 1
    /\ \E b \in Batches(Limit) : batch' = [batch EXCEPT ![t] = b]
    /\ told' = IF listed = NoList THEN {} ELSE told \cup {t}
    /\ UNCHANGED <<now, meetings, admin, preview, history, failures>>

\* Full purges come first, and each kind's oldest Meeting.
ComesFirst(c, b) ==
    \A d \in b : IF c.kind = d.kind THEN created[c.meeting] <= created[d.meeting]
                 ELSE c.kind = "full"

\* purge_meeting_full and purge_meeting_audio, which find nothing to do when
\* the other task has been there.
PurgeOne(t, c) ==
    /\ c \in batch[t] /\ ComesFirst(c, batch[t])
    /\ c.meeting \notin Broken
    /\ row' = IF c.kind = "full" THEN row \ {c.meeting} ELSE row
    /\ audio' = audio \ {c.meeting}
    /\ batch' = [batch EXCEPT ![t] = @ \ {c}]
    /\ UNCHANGED <<now, created, recorded, admin, queue, preview, told, history, failures>>

\* Mutation: the batch ends with the first purge that raises.
AfterFailure_Stops(t, c) == {}
AfterFailure(t, c)       == batch[t] \ {c}

\* One bad Meeting must not abort the rest of the purge.
PurgeRaises(t, c) ==
    /\ c \in batch[t] /\ ComesFirst(c, batch[t])
    /\ \/ c.meeting \in Broken /\ UNCHANGED failures
       \/ /\ c.meeting \notin Broken /\ failures < MaxFailures
          /\ failures' = failures + 1
    /\ batch' = [batch EXCEPT ![t] = AfterFailure(t, c)]
    /\ UNCHANGED <<now, meetings, admin, queue, preview, told, history>>

\* The worker is lost; its message is delivered again.
WorkerLost(t) ==
    /\ batch[t] # {}
    /\ failures < MaxFailures
    /\ failures' = failures + 1
    /\ queue' = queue + 1
    /\ batch' = [batch EXCEPT ![t] = {}]
    /\ UNCHANGED <<now, meetings, admin, preview, told, history>>

TaskStep(t) ==
    Select(t) \/ \E c \in batch[t] : PurgeOne(t, c) \/ PurgeRaises(t, c)

-----------------------------------------------------------------------------

Next ==
    \/ Tick \/ \E m \in Meetings : Create(m) \/ Record(m)
    \/ Preview \/ Trigger \/ Sweep
    \/ \E p \in Puts : PutRead(p) \/ PutCommit(p) \/ PutRefused(p)
    \/ \E t \in Tasks : TaskStep(t) \/ WorkerLost(t)

\* Beat sends the sweep every day, and some worker goes on with what has been
\* taken, or takes what waits.
Fairness == WF_vars(Sweep) /\ WF_vars(\E t \in Tasks : TaskStep(t))

Spec     == Init /\ [][Next]_vars
FairSpec == Spec /\ Fairness

-----------------------------------------------------------------------------

TypeOK ==
    /\ now \in 0..LastTick
    /\ created \in [Meetings -> 0..now \cup {Never}]
    /\ row \subseteq {m \in Meetings : created[m] # Never} /\ audio \subseteq row
    /\ recorded \subseteq Meetings
    /\ policy \in Policies \cup {NoPolicy}
    /\ \A p \in Puts :
           \/ put[p] = [pc |-> "idle"]
           \/ put[p] \in [pc : {"loaded"}, loaded : Policies \cup {NoPolicy},
                          body : Policies]
    /\ queue \in 0..(1 + MaxFailures)
    /\ batch \in [Tasks -> SUBSET [meeting : Meetings, kind : Kinds]]
    /\ listed = NoList \/ listed \in SUBSET [meeting : Meetings, kind : Kinds]
    /\ asked \in 0..now /\ fresh \in SUBSET [meeting : Meetings, kind : Kinds]
    /\ told \subseteq Tasks
    /\ last \in Policies \cup {NoPolicy} /\ raced \in BOOLEAN
    /\ puts \in 0..MaxPuts /\ failures \in 0..MaxFailures

\* docs/retention.md lines 22-24, "audio_retention_days must not exceed
\* meeting_retention_days (422 otherwise)": the policy in force is the one an admin
\* sent last, whole and valid, unless PUT requests overlapped.  Two that do each
\* write only what differs from what they loaded, and together they may leave an
\* audio period that is longer than the Meeting's.
PolicyIsTheLastPut ==
    ~raced => policy = last /\ (policy # NoPolicy => Valid(policy))

\* What a task deletes in a step, as a full or as an audio-only purge.
Deletes(t, m, kind) ==
    /\ batch'[t] # batch[t]
    /\ m \in IF kind = "full" THEN row \ row' ELSE (audio \ audio') \cap row'

Period(kind) == IF kind = "full" THEN policy.meeting ELSE policy.audio

\* c is in the preview, or its rows have come since, or the time at which it has
\* grown old enough.
Foreseeable(c) ==
    \/ c \in listed \cup fresh
    \/ Period(c.kind) # Keep /\ asked < created[c.meeting] + Period(c.kind)

\* docs/retention.md lines 50-51, "the preview and the real purge can never
\* disagree, by construction", as far as the code keeps it, where each reads the
\* rows and the clock of its own moment: a task that selects after a preview deletes
\* beyond it only what has appeared or passed its threshold in between, and a
\* Meeting that was listed for one kind of purge gets no other one before it
\* passes its second threshold, whatever the batch limit and whoever purges at
\* the same time.
PreviewForetells ==
    [][\A m \in Meetings, t \in told, kind \in Kinds :
          Deletes(t, m, kind) => Foreseeable(Candidate(m, kind))]_vars

Due(m, kind) == IF kind = "full" THEN m \in FullDue ELSE m \in AudioDue \ FullDue

\* A task takes a Meeting up for the purge it is due for and no other, and its
\* rows go while it is taken up, however the batches of two tasks overlap: each
\* Meeting is erased as Erasure has it, of which Purge shows the calls.
Erased(m) == INSTANCE Erasure
             WITH row     <- m \in row \/ created[m] = Never,
                  audio   <- m \in audio,
                  kept    <- audio \cap {m},
                  due     <- {k \in Kinds : Due(m, k)},
                  chosen  <- {k \in Kinds : \E t \in Tasks :
                                  Candidate(m, k) \in batch[t]},
                  spoiled <- FALSE

ErasesWhatIsDue ==
    /\ \A m \in Meetings : Erased(m)!Init
    /\ [][\A m \in Meetings : Erased(m)!Next]_vars

\* retention.py, "a backlog simply drains", and purge.py, "must not withhold
\* the rest": what is due is deleted although single purges raise, if those
\* that raise every time do not fill the batch of its kind.
BacklogDrains ==
    \A kind \in Kinds :
        []<>(\/ Cardinality({m \in Broken : Due(m, kind)}) >= Limit
             \/ \A m \in Meetings \ Broken : ~Due(m, kind))

=============================================================================
