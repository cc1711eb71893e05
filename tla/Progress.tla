------------------------------ MODULE Progress ------------------------------
(***************************************************************************)
(* What a person watching a Meeting is shown (progress.py, the event       *)
(* stream of api/meetings.py and useProgress.ts), on top of Pipeline.      *)
(*                                                                         *)
(* A run announces each stage after the commit it is about, through a      *)
(* Redis channel without a backlog.  The stream of a viewer reads the row, *)
(* sends that snapshot, and only then subscribes.  A viewer's phase is     *)
(*   away        no page is open                                           *)
(*   connecting  the EventSource has asked for the stream                  *)
(*   snapshot    the stream has read the row              (lines 144-151)  *)
(*   sent        the viewer shows the snapshot            (line 157)       *)
(*   subscribed  events go to its inbox and are forwarded (lines 160-161)  *)
(*   closed      the client has closed the EventSource                     *)
(***************************************************************************)
EXTENDS Pipeline, Sequences

CONSTANTS
    Viewers,      \* open pages
    MaxOpens,     \* bound: pages opened or reloaded
    MaxBreaks     \* bound: streams that break and announcements Redis loses

ASSUME ProgressAssumption == MaxOpens \in Nat /\ MaxBreaks \in Nat

VARIABLES
    outbox,       \* the event a run announces next
    phase, seen,  \* the viewers, and the snapshot their stream has read
    inbox,        \* events their subscription holds
    view,         \* what they show
    missed,       \* history: the end of a run was announced, but not to it
    opens, breaks \* history

viewers  == <<phase, seen, inbox, view, missed>>
bounds   == <<opens, breaks>>
allVars  == <<vars, outbox, viewers, bounds>>

Event(s, what) == [stage |-> s, state |-> what]
Nothing        == Event(NoStage, "started")
\* What the page shows of the row; the stage it is at is left out.
Unknown        == [status |-> "unknown", failed |-> NoStage]
Row            == [status |-> status, failed |-> failed]

PInit ==
    /\ Init
    /\ outbox = [w \in Workers |-> Nothing]
    /\ phase = [v \in Viewers |-> "away"]
    /\ seen = [v \in Viewers |-> Unknown]
    /\ inbox = [v \in Viewers |-> <<>>]
    /\ view = [v \in Viewers |-> Unknown]
    /\ missed = [v \in Viewers |-> FALSE]
    /\ opens = 0 /\ breaks = 0

-----------------------------------------------------------------------------
(* run_pipeline with its announcements.                                    *)

\* What changes the status a page shows.  The other events only name the
\* stage it is at, which is left out, and so are they.
Telling(e) == e = Event(Publish, "finished") \/ e.state = "failed"

Queues(w, what) ==
    LET e == Event(at[w], what) IN
    outbox' = IF Telling(e) THEN [outbox EXCEPT ![w] = e] ELSE outbox

\* Mutation: a stage is announced as finished when it begins.
OnEnter_Finished == "finished"
OnEnter          == "started"

\* A run goes on when what it has announced is out.
RunAnd(w) ==
    /\ outbox[w] = Nothing
    /\ \/ EnterStage(w)    /\ Queues(w, OnEnter)
       \/ StageDone(w)     /\ Queues(w, "finished")
       \/ RecordFailure(w) /\ Queues(w, "failed")
       \/ (StageRaises(w) \/ Leave(w)) /\ UNCHANGED outbox
    /\ UNCHANGED <<viewers, bounds>>

\* A worker that is lost announces nothing more; a commit that fails comes
\* after the announcement before it.
RunEnds(w) ==
    /\ \/ WorkerLost(w)
       \/ Dropped(w) /\ (owned[w] => outbox[w] = Nothing)
    /\ outbox' = [outbox EXCEPT ![w] = Nothing]
    /\ UNCHANGED <<viewers, bounds>>

TakeMessage(w) == Take(w) /\ UNCHANGED <<outbox, viewers, bounds>>

RepeatMessage ==
    /\ (\E w \in Workers : VisibilityTimeout(w)) \/ Resume \/ ResumeBlindly
    /\ UNCHANGED <<outbox, viewers, bounds>>

\* Mutation: the server and the client wait for a published Meeting only.
Closing_OnlyPublished(e) == e = Event(Publish, "finished")
Closing(e)               == Telling(e)

\* A run goes on after an extraction's failure, and announces its end.
LastOfRun(e) == Telling(e) /\ e.stage \notin Optional

\* publish: whoever is subscribed gets the event, nobody else ever will.
Heard(e) ==
    /\ inbox' = [v \in Viewers |->
                    IF phase[v] = "subscribed" THEN Append(inbox[v], e) ELSE inbox[v]]
    /\ missed' = [v \in Viewers |->
                    missed[v] \/ (phase[v] \in {"snapshot", "sent"} /\ LastOfRun(e))]

\* Redis is down: the exception is swallowed.
Lost(e) ==
    /\ breaks < MaxBreaks
    /\ missed' = [v \in Viewers |->
                    missed[v] \/ (phase[v] \in {"snapshot", "sent", "subscribed"} /\ LastOfRun(e))]
    /\ UNCHANGED inbox

Announce(w) ==
    LET e == outbox[w] IN
    /\ e # Nothing
    /\ \/ Heard(e) /\ UNCHANGED breaks
       \/ Lost(e)  /\ breaks' = breaks + 1
    /\ outbox' = [outbox EXCEPT ![w] = Nothing]
    /\ UNCHANGED <<vars, phase, seen, view, opens>>

-----------------------------------------------------------------------------
(* stream_events and useProgress.                                          *)

Goto(v, p) == phase' = [phase EXCEPT ![v] = p]

\* A page is opened or reloaded, at any time: it starts from nothing.
Open(v) ==
    /\ opens < MaxOpens
    /\ opens' = opens + 1
    /\ Goto(v, "connecting")
    /\ view' = [view EXCEPT ![v] = Unknown]
    /\ inbox' = [inbox EXCEPT ![v] = <<>>]
    /\ seen' = [seen EXCEPT ![v] = Unknown]
    /\ missed' = [missed EXCEPT ![v] = FALSE]
    /\ UNCHANGED <<vars, outbox, breaks>>

ReadRow(v) ==
    /\ phase[v] = "connecting"
    /\ seen' = [seen EXCEPT ![v] = Row]
    /\ Goto(v, "snapshot")
    /\ UNCHANGED <<vars, outbox, inbox, view, missed, bounds>>

\* Mutation: the client stays on a snapshot that says failed.
Ended_OnlyPublished(s) == s = "published"
Ended(s)               == s \in {"published", "failed"}

\* The snapshot is shown; one of a Meeting that has ended closes both sides.
SendSnapshot(v) ==
    /\ phase[v] = "snapshot"
    /\ view' = [view EXCEPT ![v] = seen[v]]
    /\ seen' = [seen EXCEPT ![v] = Unknown]
    /\ Goto(v, IF Ended(seen[v].status) THEN "closed" ELSE "sent")
    /\ UNCHANGED <<vars, outbox, inbox, missed, bounds>>

Subscribe(v) ==
    /\ phase[v] = "sent"
    /\ Goto(v, "subscribed")
    /\ UNCHANGED <<vars, outbox, seen, inbox, view, missed, bounds>>

\* setProgress on an event.
Shown(p, e) ==
    [status |-> IF e = Event(Publish, "finished") THEN "published"
                ELSE IF e.state = "failed" THEN "failed" ELSE p.status,
     failed |-> IF e.state = "failed" THEN e.stage ELSE p.failed]

Forward(v) ==
    LET e == Head(inbox[v]) IN
    /\ phase[v] = "subscribed" /\ inbox[v] # <<>>
    /\ view' = [view EXCEPT ![v] = Shown(@, e)]
    /\ IF Closing(e)
       THEN Goto(v, "closed") /\ inbox' = [inbox EXCEPT ![v] = <<>>]
       ELSE UNCHANGED phase /\ inbox' = [inbox EXCEPT ![v] = Tail(@)]
    /\ UNCHANGED <<vars, outbox, seen, missed, bounds>>

\* The connection, or the subscription in Redis, breaks: the browser connects
\* again and keeps what it shows.
Break(v) ==
    /\ phase[v] \in {"snapshot", "sent", "subscribed"}
    /\ breaks < MaxBreaks
    /\ breaks' = breaks + 1
    /\ Goto(v, "connecting")
    /\ inbox' = [inbox EXCEPT ![v] = <<>>]
    /\ seen' = [seen EXCEPT ![v] = Unknown]
    /\ missed' = [missed EXCEPT ![v] = FALSE]
    /\ UNCHANGED <<vars, outbox, view, opens>>

StreamStep(v) == ReadRow(v) \/ SendSnapshot(v) \/ Subscribe(v) \/ Forward(v)

-----------------------------------------------------------------------------

PNext ==
    \/ \E w \in Workers : TakeMessage(w) \/ RunAnd(w) \/ RunEnds(w) \/ Announce(w)
    \/ RepeatMessage
    \/ \E v \in Viewers : Open(v) \/ StreamStep(v) \/ Break(v)

\* Runs go on as in Pipeline, and a stream that has something to do does it.
PFairness ==
    /\ \A w \in Workers :
           /\ WF_allVars(TakeMessage(w))
           /\ WF_allVars(RunAnd(w) \/ Announce(w))
    /\ \A v \in Viewers : WF_allVars(StreamStep(v))

PSpec     == PInit /\ [][PNext]_allVars
PFairSpec == PSpec /\ PFairness

-----------------------------------------------------------------------------

Events == [stage : Stages \cup {NoStage}, state : {"started", "finished", "failed"}]
Views  == [status : LiveStatuses \cup {"unknown"}, failed : Stages \cup {NoStage}]

PTypeOK ==
    /\ TypeOK
    /\ outbox \in [Workers -> Events]
    /\ phase \in [Viewers -> {"away", "connecting", "snapshot", "sent",
                              "subscribed", "closed"}]
    /\ seen \in [Viewers -> Views] /\ view \in [Viewers -> Views]
    /\ inbox \in [Viewers -> Seq(Events)]
    /\ missed \in [Viewers -> BOOLEAN]
    /\ opens \in 0..MaxOpens /\ breaks \in 0..MaxBreaks

Undisturbed == redeliveries = 0 /\ resumes = 0 /\ drops = 0

\* No viewer is told more than has been committed, however its stream breaks: a
\* page that says "published" shows a published Meeting, and one that says
\* "failed", in a single run, shows where the Meeting has failed and stays
\* failed.  One exception: it may show the failure of an extraction, on which
\* the stream closes and which the run survives.
ViewersAreToldTheTruth ==
    \A v \in Viewers :
        /\ view[v].status = "published" => status = "published" \/ redeliveries > 0
        /\ view[v].status = "failed" /\ Undisturbed =>
               \/ view[v].failed \in Optional
               \/ status = "failed" /\ failed = view[v].failed
        /\ phase[v] = "closed" => Ended(view[v].status)

\* A page that waits for an event waits for one that can come: a run, or the
\* message of one, has its end yet to announce, whatever was lost, repeated or
\* reloaded in between; unless this page has missed it or a run was dropped.
NobodyWaitsInVain ==
    \A v \in Viewers :
        phase[v] = "subscribed" /\ inbox[v] = <<>> =>
            \/ missed[v] \/ drops > 0
            \/ \E s \in Stages : queue[s] > 0
            \/ \E w \in Workers :
                  pc[w] \in {"enter", "work", "failure"} \/ LastOfRun(outbox[w])

\* api/meetings.py lines 154-156, "the snapshot is what makes reconnect and
\* refresh work": however often pages are reloaded and streams break, a viewer
\* comes to an end, unless the event that would have ended it was announced
\* between its snapshot and its subscription, or was lost in Redis.
ViewersLearnTheEnd ==
    \A v \in Viewers :
        phase[v] = "connecting" ~>
            phase[v] = "closed" \/ missed[v] \/ drops > 0

=============================================================================
