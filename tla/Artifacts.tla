----------------------------- MODULE Artifacts ------------------------------
(***************************************************************************)
(* One section of what was extracted from a Meeting, its key topics say:   *)
(* people edit and delete its items and have it regenerated (api/edits.py) *)
(* while extractions write it (extract.py).  Extraction 0 is the pipeline's *)
(* own; each regeneration asks for one more.  A request reads in one step  *)
(* and commits in a later one; see MeetingRow for what its writes do.      *)
(***************************************************************************)
EXTENDS MeetingRow, Access, Naturals, Sequences, FiniteSets

CONSTANTS
    Home,             \* the Meeting's organization
    Grants,           \* [owner, visibility, sharedWith] it may have
    Items,            \* places in an extraction's answer
    Texts, ModelText, \* what an item may say, and what the model wrote
    Requests, Workers,
    None,             \* no request, no job
    MaxRequests,      \* bound: edits, deletions and regenerations
    MaxRedeliveries   \* bound: messages delivered again, dispatches that fail

ASSUME ArtifactsAssumption ==
    /\ \A g \in Grants : g.visibility \in Visibilities
    /\ ModelText \in Texts
    /\ MaxRequests \in Nat /\ MaxRedeliveries \in Nat

VARIABLES
    meeting, shares,  \* the row's access columns, and meeting_share
    rows,             \* the ids in the section
    text, prov,       \* their text and provenance
    audit,            \* the audit log's entries about this section
    req,              \* the requests
    queue,            \* undelivered extractions
    job,              \* what each worker does
    asked,            \* extractions asked for after the pipeline's
    requests,         \* history
    redeliveries,     \* history
    written,          \* history: extractions that have committed an answer
    replaced,         \* history: those a regeneration found written
    repeated,         \* history: those whose message was delivered again
    overlapped,       \* history: a regeneration began before one had ended
    born              \* history: the length of the log when a row appeared

access   == <<meeting, shares>>
section  == <<rows, text, prov>>
messages == <<queue, job>>
history  == <<written, replaced, repeated, overlapped, born>>
vars     == <<access, section, audit, req, messages, asked, requests,
              redeliveries, history>>

Asks     == 0..MaxRequests
Tries    == 0..MaxRedeliveries
Messages == [ask : Asks, try : Tries]
Ids      == [ask : Asks, try : Tries, item : Items]

Provenance == {"inferred", "confirmed"}
Edits      == [pc : {"edit"}, id : Ids, text : Texts, prov : Provenance, new : Texts]
Deletions  == [pc : {"delete"}, id : Ids]
Dispatches == [pc : {"dispatch"}, ask : Asks]
Jobs       == [pc : {"asking", "written"}, ask : Asks, try : Tries]
Actions    == {"artifact.edit", "artifact.delete", "artifact.regenerate"}
Entries    == [action : Actions, target : Ids \cup {None}]

ASSUME NoneAssumption == None \notin Ids \cup Edits \cup Deletions \cup Dispatches \cup Jobs

Init ==
    /\ \E g \in Grants :
           /\ meeting = [id |-> 1, org |-> Home, owner |-> g.owner,
                         visibility |-> g.visibility]
           /\ shares = {1} \X g.sharedWith
    /\ rows = {}
    /\ text = [i \in Ids |-> ModelText]
    /\ prov = [i \in Ids |-> "inferred"]
    /\ audit = <<>>
    /\ req = [q \in Requests |-> None]
    /\ queue = {[ask |-> 0, try |-> 0]}
    /\ job = [w \in Workers |-> None]
    /\ asked = 0 /\ requests = 0 /\ redeliveries = 0
    /\ written = {} /\ replaced = {} /\ repeated = {} /\ overlapped = FALSE
    /\ born = [i \in Ids |-> 0]

Entry(action, target) == [action |-> action, target |-> target]

\* Extractions whose answer may still come.
Outstanding ==
    {m.ask : m \in queue}
        \cup {job[w].ask : w \in {v \in Workers : job[v] # None /\ job[v].pc = "asking"}}
        \cup {req[q].ask : q \in {p \in Requests : req[p] # None /\ req[p].pc = "dispatch"}}

-----------------------------------------------------------------------------
(* api/edits.py.                                                           *)

\* A request of an account that authorize lets write; the others change
\* nothing.
Begins(q) ==
    /\ req[q] = None /\ requests < MaxRequests
    /\ \E a \in Accounts : MayWrite(a, meeting, shares)
    /\ requests' = requests + 1

Ends(q) == req' = [req EXCEPT ![q] = None]

\* edit_artifact: the row is loaded, its fields are set and it is confirmed;
EditRead(q) ==
    /\ Begins(q)
    /\ \E i \in rows, new \in Texts :
           req' = [req EXCEPT ![q] = [pc |-> "edit", id |-> i, text |-> text[i],
                                      prov |-> prov[i], new |-> new]]
    /\ UNCHANGED <<access, section, audit, messages, asked, redeliveries, history>>

\* Mutation: only an edit that changes the text confirms.
Promoted_IfChanged(r) == IF r.new = r.text THEN r.prov ELSE "confirmed"
Promoted(r)           == "confirmed"

\* ... what differs from what was loaded goes into an UPDATE.
NothingToWrite(r) == r.new = r.text /\ Promoted(r) = r.prov

EditCommit(q) ==
    LET r == req[q] IN
    /\ r # None /\ r.pc = "edit"
    /\ r.id \in rows \/ NothingToWrite(r)
    /\ IF r.id \in rows
       THEN /\ text' = [text EXCEPT ![r.id] = OrmWrite(r.text, r.new, @)]
            /\ prov' = [prov EXCEPT ![r.id] = OrmWrite(r.prov, Promoted(r), @)]
       ELSE UNCHANGED <<text, prov>>
    /\ audit' = Append(audit, Entry("artifact.edit", r.id))
    /\ Ends(q)
    /\ UNCHANGED <<access, rows, messages, asked, requests, redeliveries, history>>

\* Mutation: the audit entry of an edit that fails is committed all the same.
RolledBack_Logged(r) == Append(audit, Entry("artifact.edit", r.id))
RolledBack(r)        == audit

\* The row has gone since it was loaded: the UPDATE matches nothing, which is
\* an error, and the transaction is rolled back.
EditStale(q) ==
    LET r == req[q] IN
    /\ r # None /\ r.pc = "edit"
    /\ r.id \notin rows /\ ~NothingToWrite(r)
    /\ audit' = RolledBack(r)
    /\ Ends(q)
    /\ UNCHANGED <<access, section, messages, asked, requests, redeliveries, history>>

DeleteRead(q) ==
    /\ Begins(q)
    /\ \E i \in rows : req' = [req EXCEPT ![q] = [pc |-> "delete", id |-> i]]
    /\ UNCHANGED <<access, section, audit, messages, asked, redeliveries, history>>

\* delete_artifact: a DELETE that matches nothing is only a warning, and the
\* audit entry is written all the same.
DeleteCommit(q) ==
    LET r == req[q] IN
    /\ r # None /\ r.pc = "delete"
    /\ rows' = rows \ {r.id}
    /\ audit' = Append(audit, Entry("artifact.delete", r.id))
    /\ Ends(q)
    /\ UNCHANGED <<access, text, prov, messages, asked, requests, redeliveries,
                   history>>

\* Mutation: a regeneration leaves what people have confirmed.
Discarded_Inferred == {i \in rows : prov[i] = "inferred"}
Discarded          == rows

\* regenerate_artifact: the section is emptied in a transaction ...
Regenerate(q) ==
    /\ Begins(q)
    /\ rows' = rows \ Discarded
    /\ audit' = Append(audit, Entry("artifact.regenerate", None))
    /\ asked' = asked + 1
    /\ req' = [req EXCEPT ![q] = [pc |-> "dispatch", ask |-> asked + 1]]
    /\ replaced' = replaced \cup written
    /\ overlapped' = (overlapped \/ Outstanding # {})
    /\ UNCHANGED <<access, text, prov, messages, redeliveries, written, repeated, born>>

\* ... and the extraction is dispatched after it.
Dispatch(q) ==
    /\ req[q] # None /\ req[q].pc = "dispatch"
    /\ queue' = queue \cup {[ask |-> req[q].ask, try |-> 0]}
    /\ Ends(q)
    /\ UNCHANGED <<access, section, audit, job, asked, requests, redeliveries, history>>

\* The process dies, or Redis does not answer: nothing will be extracted.  (A
\* request that dies before its commit has done nothing.)
DispatchFails(q) ==
    /\ req[q] # None /\ req[q].pc = "dispatch"
    /\ redeliveries < MaxRedeliveries
    /\ redeliveries' = redeliveries + 1
    /\ Ends(q)
    /\ UNCHANGED <<access, section, audit, messages, asked, requests, history>>

RequestStep(q) ==
    \/ EditRead(q) \/ EditCommit(q) \/ EditStale(q)
    \/ DeleteRead(q) \/ DeleteCommit(q)
    \/ Regenerate(q) \/ Dispatch(q) \/ DispatchFails(q)

-----------------------------------------------------------------------------
(* _regenerate_task, extract.py, and the queue.                            *)

Job(pc, m) == [pc |-> pc, ask |-> m.ask, try |-> m.try]

Take(w) ==
    /\ job[w] = None
    /\ \E m \in queue :
           /\ queue' = queue \ {m}
           /\ job' = [job EXCEPT ![w] = Job("asking", m)]
    /\ UNCHANGED <<access, section, audit, req, asked, requests, redeliveries, history>>

\* The model has answered: what is cited is inserted in one transaction, which
\* may be nothing at all.
Insert(w) ==
    LET m == job[w] IN
    /\ m # None /\ m.pc = "asking"
    /\ \E cited \in SUBSET Items :
           LET new == {[ask |-> m.ask, try |-> m.try, item |-> k] : k \in cited} IN
           /\ rows' = rows \cup new
           /\ born' = [i \in Ids |-> IF i \in new THEN Len(audit) ELSE born[i]]
    /\ written' = written \cup {m.ask}
    /\ job' = [job EXCEPT ![w] = Job("written", m)]
    /\ UNCHANGED <<access, text, prov, audit, req, queue, asked, requests,
                   redeliveries, replaced, repeated, overlapped>>

\* The task returns, or the model cannot be reached: no retry.
Leave(w) ==
    /\ job[w] # None
    /\ job' = [job EXCEPT ![w] = None]
    /\ UNCHANGED <<access, section, audit, req, queue, asked, requests,
                   redeliveries, history>>

\* The message of a task that has not been acknowledged is delivered again,
\* because its worker is lost or the task takes too long.
Redeliver(w) ==
    /\ job[w] # None
    /\ redeliveries < MaxRedeliveries
    /\ redeliveries' = redeliveries + 1
    /\ queue' = queue \cup {[ask |-> job[w].ask, try |-> redeliveries + 1]}
    /\ repeated' = repeated \cup {job[w].ask}
    /\ job' \in {job, [job EXCEPT ![w] = None]}
    /\ UNCHANGED <<access, section, audit, req, asked, requests, written, replaced,
                   overlapped, born>>

WorkerStep(w) == Take(w) \/ Insert(w) \/ Leave(w) \/ Redeliver(w)

-----------------------------------------------------------------------------

Next ==
    \/ \E q \in Requests : RequestStep(q)
    \/ \E w \in Workers : WorkerStep(w)

Spec == Init /\ [][Next]_vars

-----------------------------------------------------------------------------

TypeOK ==
    /\ rows \subseteq Ids
    /\ text \in [Ids -> Texts] /\ prov \in [Ids -> Provenance]
    /\ audit \in Seq(Entries)
    /\ req \in [Requests -> {None} \cup Edits \cup Deletions \cup Dispatches]
    /\ queue \subseteq Messages
    /\ job \in [Workers -> {None} \cup Jobs]
    /\ asked \in 0..requests /\ requests \in 0..MaxRequests
    /\ redeliveries \in Tries
    /\ written \cup replaced \cup repeated \subseteq 0..asked
    /\ overlapped \in BOOLEAN /\ born \in [Ids -> Nat]

\* The number of answers the section shows.
Shown == {i.ask : i \in rows}

\* edits.py lines 219-220, "a failed re-run must leave the category empty, not
\* stale-but-plausible": nothing a regeneration has discarded is shown again,
\* unless its message was delivered twice, and the items of two extractions
\* stand side by side only if one was asked for before the other had ended.
OneAnswerPerSection ==
    /\ Shown \cap replaced \subseteq repeated
    /\ ~overlapped /\ repeated = {} => \A i, j \in rows : i.ask = j.ask

\* ADR-0003 and the comments of edits.py on targets: an item is "confirmed"
\* exactly if the audit log holds an edit of it, an item nobody has edited says
\* what the model wrote, and an item that is not there any more was deleted or
\* its section regenerated, by an entry younger than the item.
LogExplainsSection ==
    LET Logged(action, i) ==
            \E n \in DOMAIN audit : audit[n] = Entry(action, i)
    IN  /\ \A i \in rows :
               /\ prov[i] = "confirmed" <=> Logged("artifact.edit", i)
               /\ prov[i] = "inferred" => text[i] = ModelText
               /\ ~Logged("artifact.delete", i)
        /\ \A n \in DOMAIN audit :
               LET i == audit[n].target IN
               i # None /\ i \notin rows =>
                   \E k \in born[i] + 1 .. Len(audit) :
                       audit[k] \in {Entry("artifact.delete", i),
                                     Entry("artifact.regenerate", None)}

\* edits.py lines 144-155, where the flush comes before the entry: the log has an
\* edit of an item only if one was made while the item was there.  (One more that
\* says what the item said already is logged although it has gone meanwhile.)
EditsFoundTheirItem ==
    \A n \in DOMAIN audit :
        LET i == audit[n].target IN
        audit[n].action = "artifact.edit" =>
            \E m \in 1..n :
                /\ audit[m] = Entry("artifact.edit", i)
                /\ \A k \in born[i] + 1 .. m :
                       audit[k] \notin {Entry("artifact.delete", i),
                                       Entry("artifact.regenerate", None)}

\* What authorize lets an account open is in its list: a private Meeting of its
\* own, one that is shared with it, one of an organization it audits.  (The code
\* keeps one direction only of "the SAME read-visibility rule", authz.py lines
\* 25-29: a share of a Meeting that is not "shared" lists what it does not open.)
ListShowsWhatOpens ==
    \A a \in Accounts : MayRead(a, meeting, shares) => Listed(a, meeting, shares)

=============================================================================
