--------------------------- MODULE ArtifactsProofs ---------------------------
(***************************************************************************)
(* What TLAPS proves of Artifacts for every number of requests, workers,    *)
(* items and redeliveries: the types, that the two encodings of the read   *)
(* rule agree, that a section shows one answer, and that the log explains  *)
(* what it shows.                                                          *)
(***************************************************************************)
EXTENDS Artifacts, TLAPS

-----------------------------------------------------------------------------
(* The inductive invariant.                                                *)

Queued(a)         == \E m \in queue : m.ask = a
Works(w, a)       == job[w] # None /\ job[w].ask = a
Dispatching(q, a) == req[q] # None /\ req[q].pc = "dispatch" /\ req[q].ask = a
Alive(a)          == \/ Queued(a)
                     \/ \E w \in Workers : Works(w, a)
                     \/ \E q \in Requests : Dispatching(q, a)

\* Extractions are numbered in the order they were asked for.
Known == \A a : Alive(a) => a \in 0..asked

\* One that has been delivered once is in one place.
Sole ==
    \A a : a \notin repeated =>
        /\ \A m, n \in queue : m.ask = a /\ n.ask = a => m = n
        /\ \A w, v \in Workers : Works(w, a) /\ Works(v, a) => w = v
        /\ \A q, p \in Requests : Dispatching(q, a) /\ Dispatching(p, a) => q = p
        /\ \A w \in Workers : Works(w, a) => ~Queued(a)
        /\ \A q \in Requests :
               Dispatching(q, a) => ~Queued(a) /\ \A w \in Workers : ~Works(w, a)

\* An extraction whose answer may still come has not written one.
Unwritten == Outstanding \cap written \subseteq repeated

\* What the section shows has been written, and what a regeneration has found
\* written is not shown again.
ShownIsWritten == Shown \cup replaced \subseteq written
NothingBack    == Shown \cap replaced \subseteq repeated

\* Without overlap the section is empty while an answer is awaited.
OneAtATime ==
    ~overlapped /\ repeated = {} =>
        /\ \A i, j \in rows : i.ask = j.ask
        /\ rows = {} \/ Outstanding = {}
        /\ \A a, b \in Outstanding : a = b

SectionInv ==
    TypeOK /\ Known /\ Sole /\ Unwritten /\ ShownIsWritten /\ NothingBack /\ OneAtATime

-----------------------------------------------------------------------------
(* Types.                                                                  *)

\* Initially every variable has its type.
LEMMA InitTypeOK == Init => TypeOK
<1> SUFFICES ASSUME Init PROVE TypeOK
  OBVIOUS
<1>1. rows \subseteq Ids /\ audit \in Seq(Entries)
  BY DEF Init
<1>2. text \in [Ids -> Texts] /\ prov \in [Ids -> Provenance] /\ born \in [Ids -> Nat]
  BY ArtifactsAssumption DEF Init, Provenance
<1>3. req \in [Requests -> {None} \cup Edits \cup Deletions \cup Dispatches]
  BY DEF Init
<1>4. queue \subseteq Messages /\ job \in [Workers -> {None} \cup Jobs]
  BY ArtifactsAssumption DEF Init, Messages, Asks, Tries
<1>5. /\ asked \in 0..requests /\ requests \in 0..MaxRequests /\ redeliveries \in Tries
  BY ArtifactsAssumption DEF Init, Tries
<1>6. written \cup replaced \cup repeated \subseteq 0..asked /\ overlapped \in BOOLEAN
  BY DEF Init
<1> QED
  BY <1>1, <1>2, <1>3, <1>4, <1>5, <1>6 DEF TypeOK

\* What a request of edits.py does keeps the types.
LEMMA RequestTypeOK ==
  ASSUME TypeOK, NEW q \in Requests, RequestStep(q)
  PROVE  TypeOK'
<1> USE ArtifactsAssumption
<1>1. CASE EditRead(q)
  BY <1>1 DEF TypeOK, EditRead, Begins, Edits, access, section, messages, history
<1>2. CASE EditCommit(q)
  <2>1. req[q] \in Edits
    BY <1>2 DEF TypeOK, EditCommit, Edits, Deletions, Dispatches
  <2>2. text' \in [Ids -> Texts] /\ prov' \in [Ids -> Provenance]
    BY <1>2, <2>1 DEF TypeOK, EditCommit, Edits, OrmWrite, Promoted, Provenance
  <2>3. Entry("artifact.edit", req[q].id) \in Entries
    BY <2>1 DEF Entry, Entries, Actions, Edits
  <2>4. audit' \in Seq(Entries)
    BY <1>2, <2>3 DEF TypeOK, EditCommit
  <2> QED
    BY <1>2, <2>2, <2>4 DEF TypeOK, EditCommit, Ends, access, messages, history
<1>3. CASE EditStale(q)
  BY <1>3 DEF TypeOK, EditStale, RolledBack, Ends, access, section, messages, history
<1>4. CASE DeleteRead(q)
  BY <1>4 DEF TypeOK, DeleteRead, Begins, Deletions, access, section, messages, history
<1>5. CASE DeleteCommit(q)
  <2>1. req[q] \in Deletions
    BY <1>5 DEF TypeOK, DeleteCommit, Edits, Deletions, Dispatches
  <2>2. Entry("artifact.delete", req[q].id) \in Entries
    BY <2>1 DEF Entry, Entries, Actions, Deletions
  <2>3. audit' \in Seq(Entries)
    BY <1>5, <2>2 DEF TypeOK, DeleteCommit
  <2> QED
    BY <1>5, <2>3 DEF TypeOK, DeleteCommit, Ends, access, messages, history
<1>6. CASE Regenerate(q)
  <2>1. Entry("artifact.regenerate", None) \in Entries
    BY DEF Entry, Entries, Actions
  <2>2. audit' \in Seq(Entries)
    BY <1>6, <2>1 DEF TypeOK, Regenerate
  <2>3. asked + 1 \in Asks
    BY <1>6 DEF TypeOK, Regenerate, Begins, Asks
  <2>4. req' \in [Requests -> {None} \cup Edits \cup Deletions \cup Dispatches]
    BY <1>6, <2>3 DEF TypeOK, Regenerate, Dispatches
  <2>5. (written \cup replaced \cup repeated \subseteq 0..asked)'
    BY <1>6 DEF TypeOK, Regenerate, Begins
  <2> QED
    BY <1>6, <2>2, <2>4, <2>5 DEF TypeOK, Regenerate, Begins, access, messages
<1>7. CASE Dispatch(q)
  <2>1. req[q] \in Dispatches
    BY <1>7 DEF TypeOK, Dispatch, Edits, Deletions, Dispatches
  <2>2. [ask |-> req[q].ask, try |-> 0] \in Messages
    BY <2>1 DEF Messages, Dispatches, Tries
  <2> QED
    BY <1>7, <2>2 DEF TypeOK, Dispatch, Ends, access, section, history
<1>8. CASE DispatchFails(q)
  BY <1>8 DEF TypeOK, DispatchFails, Ends, Tries, access, section, messages, history
<1> QED
  BY <1>1, <1>2, <1>3, <1>4, <1>5, <1>6, <1>7, <1>8 DEF RequestStep

\* What a worker does keeps the types.
LEMMA WorkerTypeOK ==
  ASSUME TypeOK, Known, NEW w \in Workers, WorkerStep(w)
  PROVE  TypeOK'
<1> USE ArtifactsAssumption
<1>1. CASE Take(w)
  BY <1>1 DEF TypeOK, Take, Job, Jobs, Messages, access, section, history
<1>2. CASE Insert(w)
  <2>1. job[w] \in Jobs
    BY <1>2 DEF TypeOK, Insert
  <2>2. job' \in [Workers -> {None} \cup Jobs]
    BY <1>2, <2>1 DEF TypeOK, Insert, Job, Jobs
  <2>3. rows' \subseteq Ids
    BY <1>2, <2>1 DEF TypeOK, Insert, Ids, Jobs
  <2>4. Len(audit) \in Nat
    BY DEF TypeOK
  <2>5. born' \in [Ids -> Nat]
    BY <1>2, <2>4 DEF TypeOK, Insert
  <2>6. job[w].ask \in 0..asked
    BY <1>2 DEF Insert, Known, Alive, Works
  <2>7. (written \cup replaced \cup repeated \subseteq 0..asked)'
    BY <1>2, <2>6 DEF TypeOK, Insert
  <2> QED
    BY <1>2, <2>2, <2>3, <2>5, <2>7 DEF TypeOK, Insert, access
<1>3. CASE Leave(w)
  BY <1>3 DEF TypeOK, Leave, access, section, history
<1>4. CASE Redeliver(w)
  <2>1. job[w] \in Jobs
    BY <1>4 DEF TypeOK, Redeliver
  <2>2. [ask |-> job[w].ask, try |-> redeliveries + 1] \in Messages
    BY <1>4, <2>1 DEF TypeOK, Redeliver, Messages, Jobs, Tries
  <2>3. job' \in [Workers -> {None} \cup Jobs]
    BY <1>4 DEF TypeOK, Redeliver
  <2>4. redeliveries' \in Tries
    BY <1>4 DEF TypeOK, Redeliver, Tries
  <2>5. job[w].ask \in 0..asked
    BY <1>4 DEF Redeliver, Known, Alive, Works
  <2> QED
    BY <1>4, <2>2, <2>3, <2>4, <2>5 DEF TypeOK, Redeliver, access, section
<1> QED
  BY <1>1, <1>2, <1>3, <1>4 DEF WorkerStep

-----------------------------------------------------------------------------
(* Steps.                                                                  *)

\* Outstanding, one extraction at a time.
LEMMA OutstandingMember ==
  ASSUME NEW a
  PROVE  a \in Outstanding <=>
             \/ Queued(a)
             \/ \E w \in Workers : Works(w, a) /\ job[w].pc = "asking"
             \/ \E q \in Requests : Dispatching(q, a)
  BY DEF Outstanding, Queued, Works, Dispatching

LEMMA InitSectionInv == Init => SectionInv
<1> SUFFICES ASSUME Init PROVE SectionInv
  OBVIOUS
<1>1. TypeOK
  BY InitTypeOK
<1>2. \A a : ~(\E w \in Workers : Works(w, a)) /\ ~(\E q \in Requests : Dispatching(q, a))
  BY DEF Init, Works, Dispatching
<1>3. \A a : Queued(a) <=> a = 0
  BY DEF Init, Queued
<1>4. Known
  <2>1. asked = 0 /\ \A a : Alive(a) => a = 0
    BY <1>2, <1>3 DEF Alive, Init
  <2> QED
    BY <2>1 DEF Known
<1>5. Sole
  BY <1>2, <1>3 DEF Sole, Init
<1>6. \A a \in Outstanding : a = 0
  BY <1>2, <1>3, OutstandingMember
<1>7. Unwritten /\ ShownIsWritten /\ NothingBack /\ OneAtATime
  BY <1>6 DEF Unwritten, ShownIsWritten, NothingBack, OneAtATime, Shown, Init
<1> QED
  BY <1>1, <1>4, <1>5, <1>7 DEF SectionInv

\* A step that delivers and writes nothing and adds no row keeps the invariant.
LEMMA QuietStep ==
  ASSUME SectionInv, TypeOK', rows' \subseteq rows,
         \A a : Queued(a)' <=> Queued(a),
         UNCHANGED <<queue, asked, written, replaced, repeated, overlapped>>,
         \A w \in Workers : job[w]' = job[w] \/ job[w]' = None,
         \A q \in Requests : \A a : Dispatching(q, a)' => Dispatching(q, a)
  PROVE  SectionInv'
<1>1. \A w \in Workers : \A a : Works(w, a)' => Works(w, a) /\ job[w]' = job[w]
  BY DEF Works
<1>2. Known'
  BY <1>1 DEF SectionInv, Known, Alive
<1>3. Sole'
  BY <1>1 DEF SectionInv, Sole
<1>4. Outstanding' \subseteq Outstanding
  <2> SUFFICES ASSUME NEW a \in Outstanding' PROVE a \in Outstanding
    OBVIOUS
  <2>1. \/ Queued(a)'
        \/ \E w \in Workers : Works(w, a)' /\ job[w]'.pc = "asking"
        \/ \E q \in Requests : Dispatching(q, a)'
    BY DEF Outstanding, Queued, Works, Dispatching
  <2> QED
    BY <2>1, <1>1, OutstandingMember
<1>5. Unwritten' /\ ShownIsWritten' /\ NothingBack'
  BY <1>4 DEF SectionInv, Unwritten, ShownIsWritten, NothingBack, Shown
<1>6. OneAtATime'
  BY <1>4 DEF SectionInv, OneAtATime
<1> QED
  BY <1>2, <1>3, <1>5, <1>6 DEF SectionInv

\* A regeneration is the only thing under way when nothing else was.
LEMMA RegenerateStep ==
  ASSUME SectionInv, TypeOK', NEW q \in Requests, Regenerate(q)
  PROVE  SectionInv'
<1> DEFINE new == asked + 1
<1>1. /\ rows' = {} /\ asked' = new /\ queue' = queue /\ job' = job
      /\ written' = written /\ repeated' = repeated
      /\ req' = [req EXCEPT ![q] = [pc |-> "dispatch", ask |-> new]]
      /\ req[q] = None
      /\ asked \in Nat
  BY ArtifactsAssumption DEF SectionInv, TypeOK, Regenerate, Begins, Discarded, messages
<1>2. \A a : (Queued(a)' <=> Queued(a)) /\ \A w \in Workers : Works(w, a)' <=> Works(w, a)
  BY <1>1 DEF Queued, Works
<1>3. [pc |-> "dispatch", ask |-> new] # None
  <2>1. req'[q] = [pc |-> "dispatch", ask |-> new]
    BY <1>1 DEF SectionInv, TypeOK
  <2>2. asked' \in Asks
    BY ArtifactsAssumption DEF TypeOK, Asks
  <2>3. [pc |-> "dispatch", ask |-> new] \in Dispatches
    BY <1>1, <2>2 DEF Dispatches
  <2> QED
    BY <2>3, NoneAssumption
<1>4. \A p \in Requests : \A a :
          Dispatching(p, a)' <=> IF p = q THEN a = new ELSE Dispatching(p, a)
  BY <1>1, <1>3 DEF Dispatching, SectionInv, TypeOK
<1>5. ~Alive(new) /\ new \notin written /\ new \notin repeated
  BY <1>1 DEF SectionInv, Known, TypeOK
<1>6. Known'
  <2> SUFFICES ASSUME NEW a, Alive(a)' PROVE a \in 0..new
    BY <1>1 DEF Known
  <2>1. a = new \/ Alive(a)
    BY <1>2, <1>4 DEF Alive
  <2> QED
    BY <2>1, <1>1 DEF SectionInv, Known
<1>7. Sole'
  BY <1>1, <1>2, <1>4, <1>5 DEF SectionInv, Sole, Alive
<1>8. \A a : a \in Outstanding' => a = new \/ a \in Outstanding
  <2> SUFFICES ASSUME NEW a \in Outstanding', a # new PROVE a \in Outstanding
    OBVIOUS
  <2>1. \/ Queued(a)'
        \/ \E w \in Workers : Works(w, a)' /\ job[w]'.pc = "asking"
        \/ \E p \in Requests : Dispatching(p, a)'
    BY DEF Outstanding, Queued, Works, Dispatching
  <2> QED
    BY <2>1, <1>1, <1>2, <1>4, OutstandingMember
<1>9. Unwritten' /\ ShownIsWritten' /\ NothingBack'
  <2>1. replaced' = replaced \cup written
    BY DEF Regenerate
  <2> QED
    BY <2>1, <1>1, <1>5, <1>8 DEF SectionInv, Unwritten, ShownIsWritten, NothingBack, Shown
<1>10. OneAtATime'
  <2>1. overlapped' <=> (overlapped \/ Outstanding # {})
    BY DEF Regenerate
  <2> QED
    BY <1>1, <1>8, <2>1 DEF OneAtATime
<1> QED
  BY <1>6, <1>7, <1>9, <1>10 DEF SectionInv

\* A dispatch turns a request into a message.
LEMMA DispatchStep ==
  ASSUME SectionInv, TypeOK', NEW q \in Requests, Dispatch(q)
  PROVE  SectionInv'
<1> PICK n : n = req[q].ask
  OBVIOUS
<1>1. /\ queue' = queue \cup {[ask |-> n, try |-> 0]} /\ job' = job
      /\ req' = [req EXCEPT ![q] = None]
      /\ Dispatching(q, n)
      /\ UNCHANGED <<rows, asked, written, replaced, repeated, overlapped>>
  BY DEF Dispatch, Ends, Dispatching, section, history
<1>2. \A a : \A w \in Workers : Works(w, a)' <=> Works(w, a)
  BY <1>1 DEF Works
<1>3. \A a : Queued(a)' <=> Queued(a) \/ a = n
  <2>1. [ask |-> n, try |-> 0].ask = n /\ [ask |-> n, try |-> 0] \in queue'
    BY <1>1
  <2>2. Queued(n)'
    BY <2>1 DEF Queued
  <2>3. \A m \in queue' : m \in queue \/ m.ask = n
    BY <1>1
  <2>4. \A m \in queue : m \in queue'
    BY <1>1
  <2> QED
    BY <2>2, <2>3, <2>4 DEF Queued
<1>4. \A p \in Requests : \A a : Dispatching(p, a)' => p # q /\ Dispatching(p, a)
  BY <1>1 DEF Dispatching, SectionInv, TypeOK
<1>5. Known'
  BY <1>1, <1>2, <1>3, <1>4 DEF SectionInv, Known, Alive
<1>6. Sole'
  <2> SUFFICES ASSUME NEW a, a \notin repeated
               PROVE  /\ \A m, k \in queue' : m.ask = a /\ k.ask = a => m = k
                      /\ \A w, v \in Workers : Works(w, a)' /\ Works(v, a)' => w = v
                      /\ \A r, p \in Requests : Dispatching(r, a)' /\ Dispatching(p, a)' => r = p
                      /\ \A w \in Workers : Works(w, a)' => ~Queued(a)'
                      /\ \A r \in Requests :
                             Dispatching(r, a)' => ~Queued(a)' /\ \A w \in Workers : ~Works(w, a)'
    BY <1>1 DEF Sole
  <2>1. CASE a = n
    <3>1. ~Queued(a) /\ (\A w \in Workers : ~Works(w, a)) /\ \A p \in Requests : ~Dispatching(p, a)'
      BY <1>1, <1>4, <2>1 DEF SectionInv, Sole
    <3>2. \A m \in queue' : m.ask = a => m = [ask |-> n, try |-> 0]
      BY <1>1, <3>1 DEF Queued
    <3> QED
      BY <3>1, <3>2, <1>2
  <2>2. CASE a # n
    <3>1. \A m \in queue' : m.ask = a => m \in queue
      BY <1>1, <2>2
    <3> QED
      BY <3>1, <1>2, <1>3, <1>4, <2>2 DEF SectionInv, Sole
  <2> QED
    BY <2>1, <2>2
<1>7. Outstanding' \subseteq Outstanding
  <2> SUFFICES ASSUME NEW a \in Outstanding' PROVE a \in Outstanding
    OBVIOUS
  <2>1. \/ Queued(a)'
        \/ \E w \in Workers : Works(w, a)' /\ job[w]'.pc = "asking"
        \/ \E p \in Requests : Dispatching(p, a)'
    BY DEF Outstanding, Queued, Works, Dispatching
  <2> QED
    BY <2>1, <1>1, <1>2, <1>3, <1>4, OutstandingMember
<1>8. Unwritten' /\ ShownIsWritten' /\ NothingBack' /\ OneAtATime'
  BY <1>1, <1>7 DEF SectionInv, Unwritten, ShownIsWritten, NothingBack, OneAtATime, Shown
<1> QED
  BY <1>5, <1>6, <1>8 DEF SectionInv

\* A message that is taken becomes a job.
LEMMA TakeStep ==
  ASSUME SectionInv, TypeOK', NEW w \in Workers, Take(w)
  PROVE  SectionInv'
<1>1. PICK m \in queue : queue' = queue \ {m} /\ job' = [job EXCEPT ![w] = Job("asking", m)]
  BY DEF Take
<1>2. /\ job[w] = None
      /\ UNCHANGED <<rows, req, asked, written, replaced, repeated, overlapped>>
  BY DEF Take, section, history
<1>3. job'[w] = Job("asking", m) /\ \A v \in Workers : v # w => job'[v] = job[v]
  BY <1>1 DEF SectionInv, TypeOK
<1>4. Job("asking", m) # None
  <2>1. Job("asking", m) \in Jobs
    BY <1>1 DEF SectionInv, TypeOK, Messages, Job, Jobs
  <2> QED
    BY <2>1, NoneAssumption
<1>5. \A v \in Workers : \A a : Works(v, a)' <=> IF v = w THEN a = m.ask ELSE Works(v, a)
  BY <1>3, <1>4 DEF Works, Job
<1>6. \A q \in Requests : \A a : Dispatching(q, a)' <=> Dispatching(q, a)
  BY <1>2 DEF Dispatching
<1>7. Queued(m.ask) /\ \A a : Queued(a)' => Queued(a)
  BY <1>1 DEF Queued
<1>8. Known'
  BY <1>2, <1>5, <1>6, <1>7 DEF SectionInv, Known, Alive
<1>9. Sole'
  <2>1. m.ask \notin repeated => ~Queued(m.ask)'
    BY <1>1 DEF SectionInv, Sole, Queued
  <2>2. \A k \in queue' : k \in queue
    BY <1>1
  <2> QED
    BY <2>1, <2>2, <1>2, <1>5, <1>6, <1>7 DEF SectionInv, Sole
<1>10. Outstanding' \subseteq Outstanding
  <2> SUFFICES ASSUME NEW a \in Outstanding' PROVE a \in Outstanding
    OBVIOUS
  <2>1. \/ Queued(a)'
        \/ \E v \in Workers : Works(v, a)' /\ job'[v].pc = "asking"
        \/ \E q \in Requests : Dispatching(q, a)'
    BY DEF Outstanding, Queued, Works, Dispatching
  <2> QED
    BY <2>1, <1>3, <1>5, <1>6, <1>7, OutstandingMember
<1>11. Unwritten' /\ ShownIsWritten' /\ NothingBack' /\ OneAtATime'
  BY <1>2, <1>10 DEF SectionInv, Unwritten, ShownIsWritten, NothingBack, OneAtATime, Shown
<1> QED
  BY <1>8, <1>9, <1>11 DEF SectionInv

\* An answer is inserted: without overlap the section was empty, and no other
\* answer is awaited.
LEMMA InsertStep ==
  ASSUME SectionInv, TypeOK', NEW w \in Workers, Insert(w)
  PROVE  SectionInv'
<1> DEFINE n == job[w].ask
<1>1. /\ job[w] # None /\ job[w].pc = "asking"
      /\ job' = [job EXCEPT ![w] = Job("written", job[w])]
      /\ written' = written \cup {n}
      /\ UNCHANGED <<req, queue, asked, replaced, repeated, overlapped>>
      /\ \A i \in rows' : i \in rows \/ i.ask = n
  BY DEF Insert
<1>2. job'[w] = Job("written", job[w]) /\ \A v \in Workers : v # w => job'[v] = job[v]
  BY <1>1 DEF SectionInv, TypeOK
<1>3. Works(w, n) /\ \A v \in Workers : \A a : Works(v, a)' => Works(v, a)
  BY <1>1, <1>2 DEF Works, Job
<1>4. \A a : /\ Queued(a)' <=> Queued(a)
            /\ \A q \in Requests : Dispatching(q, a)' <=> Dispatching(q, a)
  BY <1>1 DEF Queued, Dispatching
<1>5. Known'
  BY <1>1, <1>3, <1>4 DEF SectionInv, Known, Alive
<1>6. Sole'
  BY <1>1, <1>3, <1>4 DEF SectionInv, Sole
<1>7. n \in Outstanding
  BY <1>1, <1>3, OutstandingMember
<1>8. ASSUME NEW a \in Outstanding' PROVE a \in Outstanding /\ (a = n => n \in repeated)
  <2>1. \/ Queued(a)'
        \/ \E v \in Workers : Works(v, a)' /\ job'[v].pc = "asking"
        \/ \E q \in Requests : Dispatching(q, a)'
    BY DEF Outstanding, Queued, Works, Dispatching
  <2>2. \/ Queued(a)
        \/ \E v \in Workers : v # w /\ Works(v, a) /\ job[v].pc = "asking"
        \/ \E q \in Requests : Dispatching(q, a)
    BY <2>1, <1>2, <1>3, <1>4 DEF Job
  <2>3. a = n /\ n \notin repeated => FALSE
    BY <2>2, <1>3 DEF SectionInv, Sole
  <2> QED
    BY <2>2, <2>3, OutstandingMember
<1>9. Unwritten'
  BY <1>1, <1>8 DEF SectionInv, Unwritten
<1>10. ShownIsWritten'
  BY <1>1 DEF SectionInv, ShownIsWritten, Shown
<1>11. NothingBack'
  <2>1. n \in replaced => n \in written
    BY DEF SectionInv, ShownIsWritten
  <2> QED
    BY <1>1, <1>7, <2>1 DEF SectionInv, NothingBack, Unwritten, Shown
<1>12. OneAtATime'
  BY <1>1, <1>7, <1>8 DEF SectionInv, OneAtATime
<1> QED
  BY <1>5, <1>6, <1>9, <1>10, <1>11, <1>12 DEF SectionInv

\* A message that is delivered again belongs to an extraction of which nothing
\* more is claimed.
LEMMA RedeliverStep ==
  ASSUME SectionInv, TypeOK', NEW w \in Workers, Redeliver(w)
  PROVE  SectionInv'
<1> PICK n : n = job[w].ask
  OBVIOUS
<1>1. /\ Works(w, n)
      /\ queue' = queue \cup {[ask |-> n, try |-> redeliveries + 1]}
      /\ repeated' = repeated \cup {n}
      /\ UNCHANGED <<rows, req, asked, written, replaced, overlapped>>
      /\ \A v \in Workers : job'[v] = job[v] \/ job'[v] = None
  BY DEF SectionInv, TypeOK, Redeliver, Works, section
<1>2. \A v \in Workers : \A a : Works(v, a)' => Works(v, a) /\ job'[v] = job[v]
  BY <1>1 DEF Works
<1>3. \A a : Queued(a)' => Queued(a) \/ a = n
  BY <1>1 DEF Queued
<1>4. \A q \in Requests : \A a : Dispatching(q, a)' <=> Dispatching(q, a)
  BY <1>1 DEF Dispatching
<1>5. Known'
  BY <1>1, <1>2, <1>3, <1>4 DEF SectionInv, Known, Alive
<1>6. Sole'
  <2> SUFFICES ASSUME NEW a, a \notin repeated, a # n
               PROVE  /\ \A m, k \in queue' : m.ask = a /\ k.ask = a => m = k
                      /\ \A u, v \in Workers : Works(u, a)' /\ Works(v, a)' => u = v
                      /\ \A q, p \in Requests :
                             Dispatching(q, a)' /\ Dispatching(p, a)' => q = p
                      /\ \A v \in Workers : Works(v, a)' => ~Queued(a)'
                      /\ \A q \in Requests :
                             Dispatching(q, a)' =>
                                 ~Queued(a)' /\ \A v \in Workers : ~Works(v, a)'
    BY <1>1 DEF Sole
  <2>1. \A m \in queue' : m.ask = a => m \in queue
    BY <1>1
  <2> QED
    BY <2>1, <1>2, <1>3, <1>4 DEF SectionInv, Sole
<1>7. ASSUME NEW a \in Outstanding' PROVE a \in Outstanding \/ a = n
  <2>1. \/ Queued(a)'
        \/ \E v \in Workers : Works(v, a)' /\ job'[v].pc = "asking"
        \/ \E q \in Requests : Dispatching(q, a)'
    BY DEF Outstanding, Queued, Works, Dispatching
  <2> QED
    BY <2>1, <1>2, <1>3, <1>4, OutstandingMember
<1>8. Unwritten' /\ ShownIsWritten' /\ NothingBack' /\ OneAtATime'
  BY <1>1, <1>7 DEF SectionInv, Unwritten, ShownIsWritten, NothingBack, OneAtATime, Shown
<1> QED
  BY <1>5, <1>6, <1>8 DEF SectionInv

-----------------------------------------------------------------------------
(* Theorems.                                                               *)

LEMMA NextSectionInv == SectionInv /\ [Next]_vars => SectionInv'
<1> SUFFICES ASSUME SectionInv, [Next]_vars PROVE SectionInv'
  OBVIOUS
<1>1. ASSUME NEW q \in Requests, RequestStep(q) PROVE SectionInv'
  <2>1. TypeOK'
    BY <1>1, RequestTypeOK DEF SectionInv
  <2>2. CASE Regenerate(q)
    BY <2>1, <2>2, RegenerateStep
  <2>3. CASE Dispatch(q)
    BY <2>1, <2>3, DispatchStep
  <2>4. CASE EditRead(q) \/ EditCommit(q) \/ EditStale(q) \/ DeleteRead(q)
             \/ DeleteCommit(q) \/ DispatchFails(q)
    <3>1. /\ rows' \subseteq rows
          /\ UNCHANGED <<queue, job, asked, written, replaced, repeated, overlapped>>
      BY <2>4 DEF EditRead, EditCommit, EditStale, DeleteRead, DeleteCommit,
                  DispatchFails, section, messages, history
    <3>2. \A p \in Requests : \A a : Dispatching(p, a)' => Dispatching(p, a)
      <4>1. \A p \in Requests : p # q => req'[p] = req[p]
        BY <2>4 DEF EditRead, EditCommit, EditStale, DeleteRead, DeleteCommit,
                    DispatchFails, Ends, SectionInv, TypeOK
      <4>2. req'[q] = None \/ req'[q].pc \in {"edit", "delete"}
        BY <2>4 DEF EditRead, EditCommit, EditStale, DeleteRead, DeleteCommit,
                    DispatchFails, Ends, SectionInv, TypeOK
      <4> QED
        BY <4>1, <4>2 DEF Dispatching
    <3>3. \A a : Queued(a)' <=> Queued(a)
      BY <3>1 DEF Queued
    <3> QED
      BY <2>1, <3>1, <3>2, <3>3, QuietStep
  <2> QED
    BY <1>1, <2>2, <2>3, <2>4 DEF RequestStep
<1>2. ASSUME NEW w \in Workers, WorkerStep(w) PROVE SectionInv'
  <2>1. TypeOK'
    BY <1>2, WorkerTypeOK DEF SectionInv
  <2>2. CASE Leave(w)
    <3>1. /\ UNCHANGED <<rows, req, queue, asked, written, replaced, repeated, overlapped>>
          /\ \A v \in Workers : job'[v] = job[v] \/ job'[v] = None
      BY <2>2 DEF Leave, section, history, SectionInv, TypeOK
    <3>2. /\ \A a : Queued(a)' <=> Queued(a)
          /\ \A q \in Requests : \A a : Dispatching(q, a)' => Dispatching(q, a)
      BY <3>1 DEF Queued, Dispatching
    <3> QED
      BY <2>1, <3>1, <3>2, QuietStep
  <2> QED
    BY <1>2, <2>1, <2>2, TakeStep, InsertStep, RedeliverStep DEF WorkerStep
<1>3. CASE UNCHANGED vars
  <2>1. TypeOK'
    BY <1>3 DEF SectionInv, TypeOK, vars, access, section, messages, history
  <2>2. UNCHANGED <<rows, req, queue, job, asked, written, replaced, repeated, overlapped>>
    BY <1>3 DEF vars, section, messages, history
  <2>3. /\ \A a : Queued(a)' <=> Queued(a)
        /\ \A q \in Requests : \A a : Dispatching(q, a)' => Dispatching(q, a)
    BY <2>2 DEF Queued, Dispatching
  <2> QED
    BY <2>1, <2>2, <2>3, QuietStep
<1> QED
  BY <1>1, <1>2, <1>3 DEF Next

\* Every variable keeps its type.
THEOREM TypeOKHolds == Spec => []TypeOK
<1>1. SectionInv => TypeOK
  BY DEF SectionInv
<1> QED
  BY InitSectionInv, NextSectionInv, <1>1, PTL DEF Spec

\* The section shows one answer: nothing that was discarded comes back unless a
\* message was delivered twice, and two extractions' items stand side by side
\* only if one was asked for before the other had ended.
THEOREM OneAnswerPerSectionHolds == Spec => []OneAnswerPerSection
<1>1. SectionInv => OneAnswerPerSection
  BY DEF SectionInv, NothingBack, OneAtATime, OneAnswerPerSection
<1> QED
  BY InitSectionInv, NextSectionInv, <1>1, PTL DEF Spec

\* For whatever accounts, roles, owners and shares: the list of an account misses
\* nothing that authorize lets it open.
THEOREM ListShowsWhatOpensHolds == Spec => []ListShowsWhatOpens
<1>1. ListShowsWhatOpens
  BY DEF ListShowsWhatOpens, MayRead, Listed, CanRead, Readable, SeesAll, ListsAll
<1> QED
  BY <1>1, PTL DEF Spec

-----------------------------------------------------------------------------
(* What the log explains.                                                  *)

\* The log holds entry e, or one about item i.
Has(e)      == \E n \in DOMAIN audit : audit[n] = e
Targeted(i) == \E n \in DOMAIN audit : audit[n].target = i
Holds(q, i) == req[q] # None /\ req[q].pc \in {"edit", "delete"} /\ req[q].id = i

\* Something has been done with item i, or is about to be.
Touched(i) ==
    \/ i \in rows \/ Targeted(i) \/ \E q \in Requests : Holds(q, i)
    \/ prov[i] # "inferred" \/ text[i] # ModelText

\* An entry younger than the item says why it is not there any more.
Explains(i) == {Entry("artifact.delete", i), Entry("artifact.regenerate", None)}
Explained(i) == \E k \in born[i] + 1 .. Len(audit) : audit[k] \in Explains(i)

\* Worker w is to insert the answer to message (a, t).
Asking(w, a, t) ==
    job[w] # None /\ job[w].pc = "asking" /\ job[w].ask = a /\ job[w].try = t

\* An answer to message (a, t) may still be inserted.
Coming(a, t) ==
    \/ [ask |-> a, try |-> t] \in queue
    \/ \E w \in Workers : Asking(w, a, t)
    \/ t = 0 /\ \E q \in Requests : Dispatching(q, a)

\* Each delivery has a number of its own, and one worker.
Numbered ==
    /\ \A m \in queue : m.try <= redeliveries
    /\ \A w \in Workers : job[w] # None => job[w].try <= redeliveries
Once ==
    /\ \A q \in Requests : \A a : Dispatching(q, a) =>
           /\ ~Queued(a)
           /\ \A w \in Workers : ~Works(w, a)
           /\ \A p \in Requests : Dispatching(p, a) => p = q
    /\ \A w \in Workers : \A a, t : Asking(w, a, t) =>
           /\ [ask |-> a, try |-> t] \notin queue
           /\ \A v \in Workers : Asking(v, a, t) => v = w

\* So an item is new when it is inserted.
Dated == \A i \in Ids : /\ born[i] <= Len(audit)
                        /\ Touched(i) => i.ask <= asked /\ i.try <= redeliveries
Ahead == \A i \in Ids : Coming(i.ask, i.try) => ~Touched(i)

\* What has been read as confirmed is, and what has been read or logged is in
\* the section or explained.
Kept == \A q \in Requests :
            req[q] # None /\ req[q].pc = "edit" /\ req[q].prov = "confirmed"
                => prov[req[q].id] = "confirmed"
Accounted ==
    \A i \in Ids : (Targeted(i) \/ \E q \in Requests : Holds(q, i)) /\ i \notin rows
                       => Explained(i)
Agrees ==
    \A i \in rows :
        /\ prov[i] = "confirmed" <=> Has(Entry("artifact.edit", i))
        /\ prov[i] = "inferred" => text[i] = ModelText
        /\ ~Has(Entry("artifact.delete", i))

LogInv == Numbered /\ Once /\ Dated /\ Ahead /\ Kept /\ Accounted /\ Agrees

\* An entry is added to the log.
LEMMA AuditGrows ==
    ASSUME TypeOK, NEW e \in Entries, audit' = Append(audit, e)
    PROVE  /\ Len(audit) \in Nat /\ Len(audit') = Len(audit) + 1
           /\ \A x : Has(x)' <=> Has(x) \/ x = e
           /\ \A i : Targeted(i)' <=> Targeted(i) \/ i = e.target
           /\ \A i \in Ids : born'[i] = born[i] =>
                  /\ Explained(i) => Explained(i)'
                  /\ born[i] <= Len(audit) /\ e \in Explains(i) => Explained(i)'
<1>1. /\ Len(audit) \in Nat /\ Len(audit') = Len(audit) + 1
      /\ DOMAIN audit = 1..Len(audit) /\ DOMAIN audit' = 1..(Len(audit) + 1)
      /\ \A n \in 1..Len(audit) : audit'[n] = audit[n]
      /\ audit'[Len(audit) + 1] = e
  BY DEF TypeOK
<1>2. \A x : Has(x)' <=> Has(x) \/ x = e
  BY <1>1 DEF Has
<1>3. \A i : Targeted(i)' <=> Targeted(i) \/ i = e.target
  BY <1>1 DEF Targeted
<1>4. ASSUME NEW i \in Ids, born'[i] = born[i]
      PROVE  /\ Explained(i) => Explained(i)'
             /\ born[i] <= Len(audit) /\ e \in Explains(i) => Explained(i)'
  <2>1. born[i] \in Nat /\ born'[i] = born[i]
    BY <1>4 DEF TypeOK
  <2>2. ASSUME NEW k \in born[i] + 1 .. Len(audit), audit[k] \in Explains(i)
        PROVE  Explained(i)'
    <3>1. k \in born[i] + 1 .. Len(audit') /\ audit'[k] = audit[k]
      BY <1>1, <2>1
    <3> QED
      BY <2>1, <2>2, <3>1 DEF Explained, Explains
  <2>3. ASSUME born[i] <= Len(audit), e \in Explains(i)
        PROVE  Explained(i)'
    <3>1. Len(audit) + 1 \in born[i] + 1 .. Len(audit')
      BY <1>1, <2>1, <2>3
    <3> QED
      BY <1>1, <2>1, <2>3, <3>1 DEF Explained, Explains
  <2> QED
    BY <2>2, <2>3 DEF Explained
<1> QED
  BY <1>1, <1>2, <1>3, <1>4

\* Deliveries, when a request that does not dispatch goes on.
LEMMA DeliveryKept ==
    ASSUME TypeOK, Numbered, Once, UNCHANGED queue, redeliveries' \in {redeliveries, redeliveries + 1},
           \A w \in Workers : job'[w] = job[w] \/ job'[w] = None,
           \A q \in Requests : \A a : Dispatching(q, a)' => Dispatching(q, a)
    PROVE  /\ Numbered' /\ Once'
           /\ \A a, t : Coming(a, t)' => Coming(a, t)
<1>1. \A m \in queue : m.try \in Nat
  BY DEF TypeOK, Messages, Tries
<1>2. \A w \in Workers : job[w] # None => job[w].try \in Nat
  BY DEF TypeOK, Jobs, Tries
<1>3. redeliveries \in Nat
  BY DEF TypeOK, Tries
<1>4. Numbered'
  BY <1>1, <1>2, <1>3 DEF Numbered
<1>5. /\ \A a : Queued(a)' <=> Queued(a)
      /\ \A w \in Workers : \A a : Works(w, a)' => Works(w, a)
      /\ \A w \in Workers : \A a, t : Asking(w, a, t)' => Asking(w, a, t)
  BY DEF Queued, Works, Asking
<1> QED
  BY <1>4, <1>5 DEF Once, Coming

\* What nothing was done with is as new as before, unless its delivery is.
LEMMA UntouchedStep ==
    ASSUME TypeOK, TypeOK', Dated, Ahead, UNCHANGED born, Len(audit) <= Len(audit)',
           asked <= asked', redeliveries <= redeliveries',
           \A i \in Ids : Touched(i)' => Touched(i),
           \A i \in Ids : Coming(i.ask, i.try)' =>
               Coming(i.ask, i.try) \/ i.ask > asked \/ i.try > redeliveries
    PROVE  Dated' /\ Ahead'
<1>1. /\ \A i \in Ids : i.ask \in Nat /\ i.try \in Nat /\ born[i] \in Nat
      /\ asked \in Nat /\ asked' \in Nat /\ redeliveries \in Nat /\ redeliveries' \in Nat
      /\ Len(audit) \in Nat /\ Len(audit)' \in Nat
  <2>1. Len(audit) \in Nat /\ Len(audit)' \in Nat
    BY DEF TypeOK
  <2>2. \A i \in Ids : i.ask \in Nat /\ i.try \in Nat
    BY ArtifactsAssumption DEF Ids, Asks, Tries
  <2>3. \A i \in Ids : born[i] \in Nat
    BY DEF TypeOK
  <2>4. /\ asked \in Nat /\ asked' \in Nat /\ redeliveries \in Nat
        /\ redeliveries' \in Nat
    BY ArtifactsAssumption DEF TypeOK, Tries
  <2> QED
    BY <2>1, <2>2, <2>3, <2>4
<1>2. Dated'
  BY <1>1 DEF Dated
<1>3. Ahead'
  <2> SUFFICES ASSUME NEW i \in Ids, Coming(i.ask, i.try)', Touched(i)'
               PROVE  FALSE
    BY DEF Ahead
  <2>1. Touched(i) /\ ~Coming(i.ask, i.try)
    BY DEF Ahead
  <2>2. i.ask <= asked /\ i.try <= redeliveries
    BY <2>1 DEF Dated
  <2> QED
    BY <1>1, <2>1, <2>2
<1> QED
  BY <1>2, <1>3

\* The section, when it and the log stay as they are.
LEMMA SectionKept ==
    ASSUME Kept, Accounted, Agrees, UNCHANGED <<rows, text, prov, audit, born>>,
           \A q \in Requests : \A i : Holds(q, i)' => Holds(q, i) \/ i \in rows,
           Kept'
    PROVE  /\ \A i \in Ids : Touched(i)' => Touched(i)
           /\ Accounted' /\ Agrees'
<1>1. /\ \A i : Targeted(i)' <=> Targeted(i)
      /\ \A e : Has(e)' <=> Has(e)
      /\ \A i : Explained(i)' <=> Explained(i)
  BY DEF Targeted, Has, Explained, Explains
<1>2. \A i \in Ids : Touched(i)' => Touched(i)
  BY <1>1 DEF Touched
<1>3. Accounted'
  BY <1>1 DEF Accounted
<1>4. Agrees'
  BY <1>1 DEF Agrees
<1> QED
  BY <1>2, <1>3, <1>4

\* A request loads an item, or ends without a change.
LEMMA LoadLog ==
    ASSUME SectionInv, LogInv, TypeOK', NEW q \in Requests,
           EditRead(q) \/ DeleteRead(q) \/ EditStale(q) \/ DispatchFails(q)
    PROVE  LogInv'
<1>0. TypeOK
  BY DEF SectionInv
<1>1. UNCHANGED <<rows, text, prov, audit, born, queue, job, asked>>
  BY DEF EditRead, DeleteRead, EditStale, RolledBack, DispatchFails, section, messages,
         history
<1>2. redeliveries' \in {redeliveries, redeliveries + 1} /\ redeliveries \in Nat
  BY <1>0 DEF EditRead, DeleteRead, EditStale, DispatchFails, TypeOK, Tries
<1>3. /\ \A p \in Requests : p # q => req'[p] = req[p]
      /\ \/ req'[q] = None
         \/ /\ req'[q].pc \in {"edit", "delete"} /\ req'[q].id \in rows
            /\ req'[q].pc = "edit" => req'[q].prov = prov[req'[q].id]
  BY <1>0 DEF EditRead, DeleteRead, EditStale, DispatchFails, Ends, TypeOK
<1>4. /\ \A p \in Requests : \A a : Dispatching(p, a)' => Dispatching(p, a)
      /\ \A p \in Requests : \A i : Holds(p, i)' => Holds(p, i) \/ i \in rows
  BY <1>3 DEF Dispatching, Holds
<1>5. Kept'
  BY <1>1, <1>3 DEF LogInv, Kept
<1>6. Numbered' /\ Once' /\ \A a, t : Coming(a, t)' => Coming(a, t)
  BY <1>0, <1>1, <1>2, <1>4, DeliveryKept DEF LogInv
<1>7. (\A i \in Ids : Touched(i)' => Touched(i)) /\ Accounted' /\ Agrees'
  BY <1>1, <1>4, <1>5, SectionKept DEF LogInv
<1>8. Len(audit) <= Len(audit)' /\ asked <= asked' /\ redeliveries <= redeliveries'
  BY <1>0, <1>1, <1>2 DEF TypeOK
<1>9. Dated' /\ Ahead'
  BY <1>0, <1>1, <1>6, <1>7, <1>8, UntouchedStep DEF LogInv
<1> QED
  BY <1>5, <1>6, <1>7, <1>9 DEF LogInv

\* A message is taken, or a task ends: what may come may still come.
LEMMA TaskLog ==
    ASSUME SectionInv, LogInv, TypeOK', NEW w \in Workers, Take(w) \/ Leave(w)
    PROVE  LogInv'
<1>0. TypeOK
  BY DEF SectionInv
<1>1. UNCHANGED <<rows, text, prov, audit, born, req, asked, redeliveries>>
  BY DEF Take, Leave, section, history
<1>2. \A q \in Requests : /\ \A a : Dispatching(q, a)' <=> Dispatching(q, a)
                          /\ \A i : Holds(q, i)' <=> Holds(q, i)
  BY <1>1 DEF Dispatching, Holds
<1>3. Numbered' /\ Once' /\ \A a, t : Coming(a, t)' => Coming(a, t)
  <2>1. CASE Leave(w)
    <3>1. UNCHANGED queue /\ \A v \in Workers : job'[v] = job[v] \/ job'[v] = None
      BY <1>0, <2>1 DEF Leave, TypeOK
    <3> QED
      BY <1>0, <1>1, <1>2, <3>1, DeliveryKept DEF LogInv
  <2>2. CASE Take(w)
    <3>1. PICK m \in queue : /\ queue' = queue \ {m}
                             /\ job' = [job EXCEPT ![w] = Job("asking", m)]
      BY <2>2 DEF Take
    <3>2. /\ job'[w] = Job("asking", m) /\ job[w] = None
          /\ \A v \in Workers : v # w => job'[v] = job[v]
          /\ m = [ask |-> m.ask, try |-> m.try]
      BY <1>0, <2>2, <3>1 DEF TypeOK, Take, Messages
    <3>3. /\ \A v \in Workers : \A a, t :
                 Asking(v, a, t)' => IF v = w THEN a = m.ask /\ t = m.try ELSE Asking(v, a, t)
          /\ \A v \in Workers : \A a : Works(v, a)' => Works(v, a) \/ a = m.ask
      BY <3>2 DEF Asking, Works, Job
    <3>4. Queued(m.ask) /\ \A a : Queued(a)' => Queued(a)
      BY <3>1 DEF Queued
    <3>5. Numbered'
      BY <1>1, <3>1, <3>2 DEF LogInv, Numbered, Job
    <3>6. \A a, t : a = m.ask /\ t = m.try =>
              [ask |-> a, try |-> t] \notin queue' /\ [ask |-> a, try |-> t] \in queue
      BY <3>1, <3>2
    <3>7. Once'
      <4>1. ASSUME NEW q \in Requests, NEW a, Dispatching(q, a)'
            PROVE  /\ ~Queued(a)' /\ \A v \in Workers : ~Works(v, a)'
                   /\ \A p \in Requests : Dispatching(p, a)' => p = q
        BY <1>2, <3>3, <3>4, <4>1 DEF LogInv, Once
      <4>2. ASSUME NEW v \in Workers, NEW a, NEW t, Asking(v, a, t)'
            PROVE  /\ [ask |-> a, try |-> t] \notin queue'
                   /\ \A u \in Workers : Asking(u, a, t)' => u = v
        <5>1. CASE a = m.ask /\ t = m.try
          BY <3>3, <3>6, <4>2, <5>1 DEF LogInv, Once
        <5>2. CASE ~(a = m.ask /\ t = m.try)
          BY <3>1, <3>3, <4>2, <5>2 DEF LogInv, Once
        <5> QED
          BY <5>1, <5>2
      <4> QED
        BY <4>1, <4>2 DEF Once
    <3>8. ASSUME NEW a, NEW t, Coming(a, t)' PROVE Coming(a, t)
      BY <1>2, <3>1, <3>3, <3>6, <3>8 DEF Coming
    <3> QED
      BY <3>5, <3>7, <3>8
  <2> QED
    BY <2>1, <2>2
<1>4. Kept'
  BY <1>1 DEF LogInv, Kept
<1>5. (\A i \in Ids : Touched(i)' => Touched(i)) /\ Accounted' /\ Agrees'
  BY <1>1, <1>2, <1>4, SectionKept DEF LogInv
<1>6. Len(audit) <= Len(audit)' /\ asked <= asked' /\ redeliveries <= redeliveries'
  BY <1>0, <1>1 DEF TypeOK, Tries
<1>7. Dated' /\ Ahead'
  BY <1>0, <1>1, <1>3, <1>5, <1>6, UntouchedStep DEF LogInv
<1> QED
  BY <1>3, <1>4, <1>5, <1>7 DEF LogInv

\* A dispatch: the message is what the request had in hand.
LEMMA DispatchLog ==
    ASSUME SectionInv, LogInv, TypeOK', NEW q \in Requests, Dispatch(q)
    PROVE  LogInv'
<1>0. TypeOK
  BY DEF SectionInv
<1> PICK n : n = req[q].ask
  OBVIOUS
<1>1. /\ UNCHANGED <<rows, text, prov, audit, born, job, asked, redeliveries>>
      /\ queue' = queue \cup {[ask |-> n, try |-> 0]}
      /\ req' = [req EXCEPT ![q] = None] /\ Dispatching(q, n)
  BY DEF Dispatch, Ends, Dispatching, section, history
<1>2. \A p \in Requests :
          /\ \A a : Dispatching(p, a)' => p # q /\ Dispatching(p, a)
          /\ \A i : Holds(p, i)' => Holds(p, i)
  BY <1>0, <1>1 DEF Dispatching, Holds, TypeOK
<1>3. \A v \in Workers : /\ \A a, t : Asking(v, a, t)' <=> Asking(v, a, t)
                         /\ \A a : Works(v, a)' <=> Works(v, a)
  BY <1>1 DEF Asking, Works
<1>4. /\ \A a : Queued(a)' => Queued(a) \/ a = n
      /\ \A a, t : [ask |-> a, try |-> t] \in queue' =>
             [ask |-> a, try |-> t] \in queue \/ (a = n /\ t = 0)
  <2>1. \A a, t : [ask |-> a, try |-> t] = [ask |-> n, try |-> 0] => a = n /\ t = 0
    OBVIOUS
  <2>2. \A m \in queue' : m \in queue \/ m.ask = n
    BY <1>1
  <2>3. \A a : Queued(a)' => Queued(a) \/ a = n
    BY <2>2 DEF Queued
  <2> QED
    BY <1>1, <2>1, <2>3
<1>5. Numbered'
  BY <1>0, <1>1 DEF LogInv, Numbered, TypeOK, Tries
<1>6. Once'
  <2>1. ASSUME NEW p \in Requests, NEW a, Dispatching(p, a)'
        PROVE  /\ ~Queued(a)' /\ \A v \in Workers : ~Works(v, a)'
               /\ \A r \in Requests : Dispatching(r, a)' => r = p
    BY <1>1, <1>2, <1>3, <1>4, <2>1 DEF LogInv, Once
  <2>2. ASSUME NEW v \in Workers, NEW a, NEW t, Asking(v, a, t)'
        PROVE  /\ [ask |-> a, try |-> t] \notin queue'
               /\ \A u \in Workers : Asking(u, a, t)' => u = v
    <3>1. Asking(v, a, t) /\ Works(v, a)
      BY <1>3, <2>2 DEF Asking, Works
    <3>2. a # n
      BY <1>1, <3>1 DEF LogInv, Once
    <3> QED
      BY <1>3, <1>4, <3>1, <3>2 DEF LogInv, Once
  <2> QED
    BY <2>1, <2>2 DEF Once
<1>7. ASSUME NEW a, NEW t, Coming(a, t)' PROVE Coming(a, t)
  BY <1>1, <1>2, <1>3, <1>4, <1>7 DEF Coming
<1>8. Kept'
  BY <1>0, <1>1 DEF LogInv, Kept, TypeOK
<1>9. (\A i \in Ids : Touched(i)' => Touched(i)) /\ Accounted' /\ Agrees'
  BY <1>1, <1>2, <1>8, SectionKept DEF LogInv
<1>10. Len(audit) <= Len(audit)' /\ asked <= asked' /\ redeliveries <= redeliveries'
  BY <1>0, <1>1 DEF TypeOK, Tries
<1>11. Dated' /\ Ahead'
  BY <1>0, <1>1, <1>7, <1>9, <1>10, UntouchedStep DEF LogInv
<1> QED
  BY <1>5, <1>6, <1>8, <1>9, <1>11 DEF LogInv

\* A message that is delivered again has a number nothing bears yet.
LEMMA RedeliverLog ==
    ASSUME SectionInv, LogInv, TypeOK', NEW w \in Workers, Redeliver(w)
    PROVE  LogInv'
<1>0. TypeOK
  BY DEF SectionInv
<1> PICK n : n = job[w].ask
  OBVIOUS
<1> DEFINE r == redeliveries + 1
<1>1. /\ UNCHANGED <<rows, text, prov, audit, born, req, asked>>
      /\ queue' = queue \cup {[ask |-> n, try |-> r]} /\ redeliveries' = r
      /\ \A v \in Workers : job'[v] = job[v] \/ job'[v] = None
      /\ Works(w, n) /\ redeliveries \in Nat
  BY <1>0 DEF Redeliver, Works, section, TypeOK, Tries
<1>2. \A p \in Requests : /\ \A a : Dispatching(p, a)' <=> Dispatching(p, a)
                          /\ \A i : Holds(p, i)' <=> Holds(p, i)
  BY <1>1 DEF Dispatching, Holds
<1>3. \A v \in Workers : /\ \A a, t : Asking(v, a, t)' => Asking(v, a, t)
                         /\ \A a : Works(v, a)' => Works(v, a)
  BY <1>1 DEF Asking, Works
<1>4. /\ \A a : Queued(a)' => Queued(a) \/ a = n
      /\ \A a, t : [ask |-> a, try |-> t] \in queue' =>
             [ask |-> a, try |-> t] \in queue \/ (a = n /\ t = r)
  <2>1. \A a, t : [ask |-> a, try |-> t] = [ask |-> n, try |-> r] => a = n /\ t = r
    OBVIOUS
  <2>2. \A m \in queue' : m \in queue \/ m.ask = n
    BY <1>1
  <2>3. \A a : Queued(a)' => Queued(a) \/ a = n
    BY <2>2 DEF Queued
  <2> QED
    BY <1>1, <2>1, <2>3
<1>5. Numbered'
  <2>1. /\ \A m \in queue : m.try \in Nat
        /\ \A v \in Workers : job[v] # None => job[v].try \in Nat
    BY <1>0, ArtifactsAssumption DEF TypeOK, Messages, Jobs, Tries
  <2>2. ASSUME NEW m \in queue' PROVE m.try <= r
    BY <1>1, <2>1 DEF LogInv, Numbered
  <2>3. ASSUME NEW v \in Workers, job'[v] # None PROVE job'[v].try <= r
    BY <1>1, <2>1, <2>3 DEF LogInv, Numbered
  <2> QED
    BY <1>1, <2>2, <2>3 DEF Numbered
<1>6. Once'
  <2>1. ASSUME NEW p \in Requests, NEW a, Dispatching(p, a)'
        PROVE  /\ ~Queued(a)' /\ \A v \in Workers : ~Works(v, a)'
               /\ \A q \in Requests : Dispatching(q, a)' => q = p
    BY <1>1, <1>2, <1>3, <1>4, <2>1 DEF LogInv, Once
  <2>2. ASSUME NEW v \in Workers, NEW a, NEW t, Asking(v, a, t)'
        PROVE  /\ [ask |-> a, try |-> t] \notin queue'
               /\ \A u \in Workers : Asking(u, a, t)' => u = v
    <3>1. Asking(v, a, t)
      BY <1>3, <2>2
    <3>2. t <= redeliveries /\ t \in Nat
      BY <1>0, <3>1, ArtifactsAssumption DEF LogInv, Numbered, Asking, TypeOK, Jobs, Tries
    <3>3. t # r
      BY <1>1, <3>2
    <3> QED
      BY <1>3, <1>4, <3>1, <3>3 DEF LogInv, Once
  <2> QED
    BY <2>1, <2>2 DEF Once
<1>7. ASSUME NEW i \in Ids, Coming(i.ask, i.try)'
      PROVE  Coming(i.ask, i.try) \/ i.ask > asked \/ i.try > redeliveries
  <2>1. Coming(i.ask, i.try) \/ i.try = r
    BY <1>2, <1>3, <1>4, <1>7 DEF Coming
  <2> QED
    BY <1>1, <2>1
<1>8. Kept'
  BY <1>1 DEF LogInv, Kept
<1>9. (\A i \in Ids : Touched(i)' => Touched(i)) /\ Accounted' /\ Agrees'
  BY <1>1, <1>2, <1>8, SectionKept DEF LogInv
<1>10. Len(audit) <= Len(audit)' /\ asked <= asked' /\ redeliveries <= redeliveries'
  BY <1>0, <1>1 DEF TypeOK
<1>11. Dated' /\ Ahead'
  BY <1>0, <1>1, <1>7, <1>9, <1>10, UntouchedStep DEF LogInv
<1> QED
  BY <1>5, <1>6, <1>8, <1>9, <1>11 DEF LogInv

\* An edit is logged and leaves its item confirmed; one of an item that has gone
\* changes nothing, and is explained by what explained the item.
LEMMA EditCommitLog ==
    ASSUME SectionInv, LogInv, TypeOK', NEW q \in Requests, EditCommit(q)
    PROVE  LogInv'
<1>0. TypeOK
  BY DEF SectionInv
<1> PICK i : i = req[q].id
  OBVIOUS
<1>1. req[q] \in Edits /\ i \in Ids /\ Holds(q, i)
  BY <1>0 DEF TypeOK, EditCommit, Edits, Deletions, Dispatches, Holds
<1>2. Entry("artifact.edit", i) \in Entries
  BY <1>1 DEF Entry, Entries, Actions
<1>3. /\ UNCHANGED <<rows, born, queue, job, asked, redeliveries>>
      /\ audit' = Append(audit, Entry("artifact.edit", i))
      /\ req' = [req EXCEPT ![q] = None]
      /\ \A j \in Ids : j # i => prov'[j] = prov[j] /\ text'[j] = text[j]
  BY <1>0, <1>1 DEF EditCommit, Ends, messages, history, TypeOK
<1>4. /\ i \in rows => prov'[i] = "confirmed"
      /\ \A j \in Ids : prov[j] = "confirmed" => prov'[j] = "confirmed"
  <2>1. req[q].prov = "confirmed" => prov[i] = "confirmed"
    BY <1>1 DEF LogInv, Kept, EditCommit
  <2>2. i \in rows => prov'[i] = OrmWrite(req[q].prov, "confirmed", prov[i])
    BY <1>0, <1>1 DEF EditCommit, Promoted, TypeOK
  <2>3. i \notin rows => prov' = prov
    BY DEF EditCommit
  <2> QED
    BY <1>3, <2>1, <2>2, <2>3 DEF OrmWrite
<1>5. /\ Len(audit) \in Nat /\ Len(audit') = Len(audit) + 1
      /\ \A x : Has(x)' <=> Has(x) \/ x = Entry("artifact.edit", i)
      /\ \A j : Targeted(j)' <=> Targeted(j) \/ j = i
      /\ \A j \in Ids : Explained(j) => Explained(j)'
  BY <1>0, <1>2, <1>3, AuditGrows DEF Entry
<1>6. \A p \in Requests : /\ \A a : Dispatching(p, a)' => Dispatching(p, a)
                          /\ \A j : Holds(p, j)' => Holds(p, j)
  BY <1>0, <1>3 DEF Dispatching, Holds, TypeOK
<1>7. Numbered' /\ Once' /\ \A a, t : Coming(a, t)' => Coming(a, t)
  <2>1. redeliveries' \in {redeliveries, redeliveries + 1}
    BY <1>3
  <2> QED
    BY <1>0, <1>3, <1>6, <2>1, DeliveryKept DEF LogInv
<1>8. ASSUME NEW j \in Ids, Touched(j)' PROVE Touched(j)
  <2>1. CASE j = i
    BY <1>1, <2>1 DEF Touched
  <2>2. CASE j # i
    BY <1>3, <1>5, <1>6, <1>8, <2>2 DEF Touched
  <2> QED
    BY <2>1, <2>2
<1>9. Len(audit) <= Len(audit)' /\ asked <= asked' /\ redeliveries <= redeliveries'
  BY <1>0, <1>3, <1>5 DEF TypeOK, Tries
<1>10. Dated' /\ Ahead'
  BY <1>0, <1>3, <1>7, <1>8, <1>9, UntouchedStep DEF LogInv
<1>11. Kept'
  <2> SUFFICES ASSUME NEW p \in Requests, req'[p] # None, req'[p].pc = "edit",
                      req'[p].prov = "confirmed"
               PROVE  prov'[req'[p].id] = "confirmed"
    BY DEF Kept
  <2>1. p # q /\ req'[p] = req[p]
    BY <1>0, <1>3 DEF TypeOK
  <2>2. req[p].id \in Ids
    BY <1>0, <2>1 DEF TypeOK, Edits, Deletions, Dispatches
  <2> QED
    BY <1>4, <2>1, <2>2 DEF LogInv, Kept
<1>12. Accounted'
  BY <1>1, <1>3, <1>5, <1>6 DEF LogInv, Accounted
<1>13. Agrees'
  <2> SUFFICES ASSUME NEW j \in rows
               PROVE  /\ prov'[j] = "confirmed" <=> Has(Entry("artifact.edit", j))'
                      /\ prov'[j] = "inferred" => text'[j] = ModelText
                      /\ ~Has(Entry("artifact.delete", j))'
    BY <1>3 DEF Agrees
  <2>1. /\ j \in Ids
        /\ Entry("artifact.edit", j) = Entry("artifact.edit", i) <=> j = i
        /\ Entry("artifact.delete", j) # Entry("artifact.edit", i)
    BY <1>0 DEF TypeOK, Entry
  <2> QED
    BY <1>3, <1>4, <1>5, <2>1 DEF LogInv, Agrees
<1> QED
  BY <1>7, <1>10, <1>11, <1>12, <1>13 DEF LogInv

\* A deletion is an entry younger than its item.
LEMMA DeleteCommitLog ==
    ASSUME SectionInv, LogInv, TypeOK', NEW q \in Requests, DeleteCommit(q)
    PROVE  LogInv'
<1>0. TypeOK
  BY DEF SectionInv
<1> PICK i : i = req[q].id
  OBVIOUS
<1>1. req[q] \in Deletions /\ i \in Ids /\ Holds(q, i)
  BY <1>0 DEF TypeOK, DeleteCommit, Edits, Deletions, Dispatches, Holds
<1>2. Entry("artifact.delete", i) \in Entries
  BY <1>1 DEF Entry, Entries, Actions
<1>3. /\ UNCHANGED <<text, prov, born, queue, job, asked, redeliveries>>
      /\ rows' = rows \ {i}
      /\ audit' = Append(audit, Entry("artifact.delete", i))
      /\ req' = [req EXCEPT ![q] = None]
  BY DEF DeleteCommit, Ends, messages, history
<1>4. /\ Len(audit) \in Nat /\ Len(audit') = Len(audit) + 1
      /\ \A x : Has(x)' <=> Has(x) \/ x = Entry("artifact.delete", i)
      /\ \A j : Targeted(j)' <=> Targeted(j) \/ j = i
      /\ \A j \in Ids : Explained(j) => Explained(j)'
      /\ born[i] <= Len(audit) => Explained(i)'
  <2>1. Entry("artifact.delete", i) \in Explains(i) /\ Entry("artifact.delete", i).target = i
    BY DEF Explains, Entry
  <2>2. \A j \in Ids : born'[j] = born[j]
    BY <1>3
  <2> QED
    BY <1>0, <1>1, <1>2, <1>3, <2>1, <2>2, AuditGrows
<1>5. \A p \in Requests : /\ \A a : Dispatching(p, a)' => Dispatching(p, a)
                          /\ \A j : Holds(p, j)' => Holds(p, j)
  BY <1>0, <1>3 DEF Dispatching, Holds, TypeOK
<1>6. Numbered' /\ Once' /\ \A a, t : Coming(a, t)' => Coming(a, t)
  <2>1. redeliveries' \in {redeliveries, redeliveries + 1}
    BY <1>3
  <2> QED
    BY <1>0, <1>3, <1>5, <2>1, DeliveryKept DEF LogInv
<1>7. ASSUME NEW j \in Ids, Touched(j)' PROVE Touched(j)
  <2>1. CASE j = i
    BY <1>1, <2>1 DEF Touched
  <2>2. CASE j # i
    BY <1>3, <1>4, <1>5, <1>7, <2>2 DEF Touched
  <2> QED
    BY <2>1, <2>2
<1>8. Len(audit) <= Len(audit)' /\ asked <= asked' /\ redeliveries <= redeliveries'
  BY <1>0, <1>3, <1>4 DEF TypeOK, Tries
<1>9. Dated' /\ Ahead'
  BY <1>0, <1>3, <1>6, <1>7, <1>8, UntouchedStep DEF LogInv
<1>10. Kept'
  BY <1>0, <1>3 DEF LogInv, Kept, TypeOK
<1>11. Accounted'
  <2>1. Explained(i)'
    BY <1>1, <1>4 DEF LogInv, Dated
  <2> QED
    BY <1>3, <1>4, <1>5, <2>1 DEF LogInv, Accounted
<1>12. Agrees'
  <2> SUFFICES ASSUME NEW j \in rows, j # i
               PROVE  /\ prov[j] = "confirmed" <=> Has(Entry("artifact.edit", j))'
                      /\ prov[j] = "inferred" => text[j] = ModelText
                      /\ ~Has(Entry("artifact.delete", j))'
    BY <1>3 DEF Agrees
  <2>1. /\ Entry("artifact.edit", j) # Entry("artifact.delete", i)
        /\ Entry("artifact.delete", j) # Entry("artifact.delete", i)
    BY DEF Entry
  <2> QED
    BY <1>4, <2>1 DEF LogInv, Agrees
<1> QED
  BY <1>6, <1>9, <1>10, <1>11, <1>12 DEF LogInv

\* A regeneration explains every item, and what it asks for is new.
LEMMA RegenerateLog ==
    ASSUME SectionInv, LogInv, TypeOK', NEW q \in Requests, Regenerate(q)
    PROVE  LogInv'
<1>0. TypeOK
  BY DEF SectionInv
<1> DEFINE new  == asked + 1
           gone == Entry("artifact.regenerate", None)
<1>1. /\ UNCHANGED <<text, prov, born, queue, job, redeliveries>>
      /\ rows' = {} /\ asked' = new /\ asked \in Nat
      /\ audit' = Append(audit, gone)
      /\ req' = [req EXCEPT ![q] = [pc |-> "dispatch", ask |-> new]]
  BY <1>0, ArtifactsAssumption DEF TypeOK, Regenerate, Begins, Discarded, messages
<1>2. /\ Len(audit) \in Nat /\ Len(audit') = Len(audit) + 1
      /\ \A j \in Ids : Targeted(j)' <=> Targeted(j)
      /\ \A j \in Ids : Explained(j)'
  <2>1. gone \in Entries /\ gone.target = None /\ \A j : gone \in Explains(j)
    BY DEF Entry, Entries, Actions, Explains
  <2>2. None \notin Ids
    BY NoneAssumption
  <2>3. \A j \in Ids : born'[j] = born[j] /\ born[j] <= Len(audit)
    BY <1>1 DEF LogInv, Dated
  <2> HIDE DEF gone
  <2> QED
    BY <1>0, <1>1, <2>1, <2>2, <2>3, AuditGrows
<1>3. \A p \in Requests :
          /\ \A a : Dispatching(p, a)' =>
                 \/ a = new /\ p = q
                 \/ p # q /\ Dispatching(p, a)
          /\ \A j : Holds(p, j)' => Holds(p, j)
  <2>1. /\ req'[q].pc = "dispatch" /\ req'[q].ask = new
        /\ \A p \in Requests : p # q => req'[p] = req[p]
    BY <1>0, <1>1 DEF TypeOK
  <2> QED
    BY <2>1 DEF Dispatching, Holds
<1>4. /\ \A a : Queued(a)' <=> Queued(a)
      /\ \A w \in Workers : /\ \A a : Works(w, a)' <=> Works(w, a)
                            /\ \A a, t : Asking(w, a, t)' <=> Asking(w, a, t)
  BY <1>1 DEF Queued, Works, Asking
<1>5. ~Alive(new)
  BY <1>1 DEF SectionInv, Known
<1>6. Numbered'
  BY <1>1 DEF LogInv, Numbered
<1>7. Once'
  <2>1. ASSUME NEW p \in Requests, NEW a, Dispatching(p, a)'
        PROVE  /\ ~Queued(a)' /\ \A v \in Workers : ~Works(v, a)'
               /\ \A r \in Requests : Dispatching(r, a)' => r = p
    <3>1. CASE a = new /\ p = q
      BY <1>3, <1>4, <1>5, <3>1 DEF Alive
    <3>2. CASE p # q /\ Dispatching(p, a)
      <4>1. a # new
        BY <1>5, <3>2 DEF Alive
      <4> QED
        BY <1>3, <1>4, <3>2, <4>1 DEF LogInv, Once
    <3> QED
      BY <1>3, <2>1, <3>1, <3>2
  <2>2. ASSUME NEW v \in Workers, NEW a, NEW t, Asking(v, a, t)'
        PROVE  /\ [ask |-> a, try |-> t] \notin queue'
               /\ \A u \in Workers : Asking(u, a, t)' => u = v
    BY <1>1, <1>4, <2>2 DEF LogInv, Once
  <2> QED
    BY <2>1, <2>2 DEF Once
<1>8. ASSUME NEW i \in Ids, Coming(i.ask, i.try)'
      PROVE  Coming(i.ask, i.try) \/ i.ask > asked \/ i.try > redeliveries
  <2>1. Coming(i.ask, i.try) \/ i.ask = new
    BY <1>1, <1>3, <1>4, <1>8 DEF Coming
  <2> QED
    BY <1>1, <2>1
<1>9. \A j \in Ids : Touched(j)' => Touched(j)
  BY <1>1, <1>2, <1>3 DEF Touched
<1>10. Len(audit) <= Len(audit)' /\ asked <= asked' /\ redeliveries <= redeliveries'
  BY <1>0, <1>1, <1>2 DEF TypeOK, Tries
<1>11. Dated' /\ Ahead'
  BY <1>0, <1>1, <1>8, <1>9, <1>10, UntouchedStep DEF LogInv
<1>12. Kept'
  BY <1>0, <1>1 DEF LogInv, Kept, TypeOK
<1>13. Accounted' /\ Agrees'
  BY <1>1, <1>2 DEF Accounted, Agrees
<1> QED
  BY <1>6, <1>7, <1>11, <1>12, <1>13 DEF LogInv

\* What is inserted is new, and nothing inserts it again.
LEMMA InsertLog ==
    ASSUME SectionInv, LogInv, TypeOK', NEW w \in Workers, Insert(w)
    PROVE  LogInv'
<1>0. TypeOK
  BY DEF SectionInv
<1> PICK a, t : a = job[w].ask /\ t = job[w].try
  OBVIOUS
<1>1. Asking(w, a, t) /\ job[w] \in Jobs
  BY <1>0 DEF Insert, Asking, TypeOK
<1> DEFINE New(c) == {[ask |-> job[w].ask, try |-> job[w].try, item |-> k] : k \in c}
<1>2. PICK cited \in SUBSET Items :
          /\ rows' = rows \cup New(cited)
          /\ born' = [i \in Ids |-> IF i \in New(cited) THEN Len(audit) ELSE born[i]]
  BY Zenon DEF Insert
<1> DEFINE new == New(cited)
<1>3. /\ UNCHANGED <<text, prov, audit, req, queue, asked, redeliveries>>
      /\ job' = [job EXCEPT ![w] = Job("written", job[w])]
  BY DEF Insert
<1>4. /\ rows' = rows \cup new
      /\ born' = [i \in Ids |-> IF i \in new THEN Len(audit) ELSE born[i]]
  BY <1>2
<1>5. \A i \in new : i \in Ids /\ i.ask = a /\ i.try = t
  BY <1>1 DEF Asking, Ids, Jobs
<1>6. \A i \in new : ~Touched(i)
  <2>1. Coming(a, t)
    BY <1>1 DEF Coming
  <2> QED
    BY <1>5, <2>1 DEF LogInv, Ahead
<1> HIDE DEF new
<1>7. /\ job'[w] = Job("written", job[w])
      /\ \A v \in Workers : v # w => job'[v] = job[v]
  BY <1>0, <1>3 DEF TypeOK
<1>8. /\ \A b : Queued(b)' <=> Queued(b)
      /\ \A q \in Requests : /\ \A b : Dispatching(q, b)' <=> Dispatching(q, b)
                             /\ \A i : Holds(q, i)' <=> Holds(q, i)
      /\ \A i : Targeted(i)' <=> Targeted(i)
      /\ \A e : Has(e)' <=> Has(e)
  BY <1>3 DEF Queued, Dispatching, Holds, Targeted, Has
<1>9. \A v \in Workers : /\ \A b : Works(v, b)' => Works(v, b)
                         /\ \A b, u : Asking(v, b, u)' => v # w /\ Asking(v, b, u)
  BY <1>1, <1>7 DEF Works, Asking, Job
<1>10. Numbered'
  BY <1>1, <1>3, <1>7 DEF LogInv, Numbered, Asking, Job
<1>11. Once'
  <2>1. ASSUME NEW p \in Requests, NEW b, Dispatching(p, b)'
        PROVE  /\ ~Queued(b)' /\ \A v \in Workers : ~Works(v, b)'
               /\ \A r \in Requests : Dispatching(r, b)' => r = p
    BY <1>8, <1>9, <2>1 DEF LogInv, Once
  <2>2. ASSUME NEW v \in Workers, NEW b, NEW u, Asking(v, b, u)'
        PROVE  /\ [ask |-> b, try |-> u] \notin queue'
               /\ \A x \in Workers : Asking(x, b, u)' => x = v
    BY <1>3, <1>9, <2>2 DEF LogInv, Once
  <2> QED
    BY <2>1, <2>2 DEF Once
<1>12. /\ \A b, u : Coming(b, u)' => Coming(b, u)
       /\ ~Coming(a, t)'
  <2>1. \A b, u : Coming(b, u)' => Coming(b, u)
    BY <1>3, <1>8, <1>9 DEF Coming
  <2>2. [ask |-> a, try |-> t] \notin queue'
    <3>1. [ask |-> a, try |-> t] \notin queue
      BY <1>1 DEF LogInv, Once
    <3> QED
      BY <1>3, <3>1
  <2>3. \A v \in Workers : ~Asking(v, a, t)'
    <3>1. \A v \in Workers : Asking(v, a, t) => v = w
      BY <1>1 DEF LogInv, Once
    <3> QED
      BY <1>9, <3>1
  <2>4. Works(w, a)
    BY <1>1 DEF Asking, Works
  <2>5. \A q \in Requests : ~Dispatching(q, a)'
    BY <1>8, <2>4 DEF LogInv, Once
  <2> QED
    BY <2>1, <2>2, <2>3, <2>5 DEF Coming
<1>13. \A i \in Ids : Touched(i)' => Touched(i) \/ i \in new
  BY <1>3, <1>4, <1>8 DEF Touched
<1>14. Ahead'
  BY <1>5, <1>12, <1>13 DEF LogInv, Ahead
<1>15. Dated'
  <2>1. a <= asked /\ t <= redeliveries
    <3>1. a \in 0..asked
      BY <1>1 DEF SectionInv, Known, Alive, Works, Asking
    <3>2. t <= redeliveries
      BY <1>1 DEF LogInv, Numbered, Asking
    <3> QED
      BY <3>1, <3>2
  <2>2. Len(audit) \in Nat
    BY <1>0 DEF TypeOK
  <2> SUFFICES ASSUME NEW i \in Ids
               PROVE  /\ born'[i] <= Len(audit)
                      /\ Touched(i)' => i.ask <= asked /\ i.try <= redeliveries
    BY <1>3 DEF Dated
  <2>3. born'[i] <= Len(audit)
    BY <1>4, <2>2 DEF LogInv, Dated
  <2> QED
    BY <1>5, <1>13, <2>1, <2>3 DEF LogInv, Dated
<1>16. Kept'
  BY <1>3 DEF LogInv, Kept
<1>17. Accounted'
  <2> SUFFICES ASSUME NEW i \in Ids, i \notin rows',
                      Targeted(i)' \/ \E q \in Requests : Holds(q, i)'
               PROVE  Explained(i)'
    BY DEF Accounted
  <2>1. Explained(i)
    BY <1>4, <1>8 DEF LogInv, Accounted
  <2>2. born'[i] = born[i] /\ audit' = audit
    BY <1>3, <1>4
  <2> QED
    BY <2>1, <2>2 DEF Explained, Explains
<1>18. Agrees'
  <2> SUFFICES ASSUME NEW i \in rows'
               PROVE  /\ prov[i] = "confirmed" <=> Has(Entry("artifact.edit", i))
                      /\ prov[i] = "inferred" => text[i] = ModelText
                      /\ ~Has(Entry("artifact.delete", i))
    BY <1>3, <1>8 DEF Agrees
  <2>1. CASE i \in rows
    BY <2>1 DEF LogInv, Agrees
  <2>2. CASE i \in new
    <3>1. prov[i] = "inferred" /\ text[i] = ModelText /\ ~Targeted(i)
      BY <1>6, <2>2 DEF Touched
    <3>2. ~Has(Entry("artifact.edit", i)) /\ ~Has(Entry("artifact.delete", i))
      BY <3>1 DEF Has, Targeted, Entry
    <3> QED
      BY <3>1, <3>2
  <2> QED
    BY <1>4, <2>1, <2>2
<1> QED
  BY <1>10, <1>11, <1>14, <1>15, <1>16, <1>17, <1>18 DEF LogInv

\* An empty section with an empty log.
LEMMA InitLogInv == Init => LogInv
<1> SUFFICES ASSUME Init PROVE LogInv
  OBVIOUS
<1>1. /\ \A w \in Workers : \A a, t : ~Works(w, a) /\ ~Asking(w, a, t)
      /\ \A q \in Requests : \A a : ~Dispatching(q, a) /\ ~Holds(q, a)
      /\ \A i : ~Targeted(i)
  BY DEF Init, Works, Asking, Dispatching, Holds, Targeted
<1>2. \A i \in Ids : ~Touched(i)
  BY <1>1 DEF Init, Touched
<1>3. Numbered /\ Once /\ Dated /\ Ahead
  BY <1>1, <1>2 DEF Init, Numbered, Once, Dated, Ahead
<1>4. Kept /\ Accounted /\ Agrees
  BY <1>1 DEF Init, Kept, Accounted, Agrees
<1> QED
  BY <1>3, <1>4 DEF LogInv

\* The log and the section stay in step.
LEMMA LogInvHolds == Spec => [](SectionInv /\ LogInv)
<1>1. SectionInv /\ LogInv /\ [Next]_vars => LogInv'
  <2> SUFFICES ASSUME SectionInv, LogInv, [Next]_vars PROVE LogInv'
    OBVIOUS
  <2>1. TypeOK'
    BY NextSectionInv DEF SectionInv
  <2>2. ASSUME NEW q \in Requests, RequestStep(q) PROVE LogInv'
    BY <2>1, <2>2, LoadLog, EditCommitLog, DeleteCommitLog, RegenerateLog, DispatchLog
       DEF RequestStep
  <2>3. ASSUME NEW w \in Workers, WorkerStep(w) PROVE LogInv'
    BY <2>1, <2>3, TaskLog, InsertLog, RedeliverLog DEF WorkerStep
  <2>4. CASE UNCHANGED vars
    BY <2>4 DEF vars, section, messages, history, LogInv, Numbered, Once, Dated, Ahead,
                Kept, Accounted, Agrees, Has, Targeted, Holds, Touched, Explains, Explained,
                Asking, Coming, Queued, Works, Dispatching
  <2> QED
    BY <2>2, <2>3, <2>4 DEF Next
<1> QED
  BY InitSectionInv, NextSectionInv, InitLogInv, <1>1, PTL DEF Spec

\* The log explains the section: an item is confirmed exactly if an edit of it
\* is logged, one that nobody edited says what the model wrote, and one that has
\* gone was deleted or regenerated by an entry younger than the item.
THEOREM LogExplainsSectionHolds == Spec => []LogExplainsSection
<1>1. SectionInv /\ LogInv => LogExplainsSection
  <2> SUFFICES ASSUME SectionInv, LogInv PROVE LogExplainsSection
    OBVIOUS
  <2>1. ASSUME NEW n \in DOMAIN audit, audit[n].target # None, audit[n].target \notin rows
        PROVE  Explained(audit[n].target)
    <3>1. audit[n] \in Entries
      BY DEF SectionInv, TypeOK
    <3>2. audit[n].target \in Ids /\ Targeted(audit[n].target)
      BY <2>1, <3>1 DEF Entries, Targeted
    <3> QED
      BY <2>1, <3>2 DEF LogInv, Accounted
  <2> QED
    BY <2>1 DEF LogInv, Agrees, LogExplainsSection, Has, Explained, Explains
<1> QED
  BY LogInvHolds, <1>1, PTL

-----------------------------------------------------------------------------
(* What an edit found.                                                     *)

\* Until entry n nothing says that item i has gone.
There(i, n) == \A k \in born[i] + 1 .. n : audit[k] \notin Explains(i)

\* Entry n has an edit of item i as old as itself that found the item.
Found(n, i) == \E m \in 1..n : audit[m] = Entry("artifact.edit", i) /\ There(i, m)

\* Each edit has one that found its item, edits are of items, what is confirmed
\* was edited, and what is in the section has not gone.
FoundInv ==
    /\ \A n \in DOMAIN audit, i \in Ids :
           audit[n] = Entry("artifact.edit", i) => Found(n, i)
    /\ \A n \in DOMAIN audit : audit[n].action = "artifact.edit" => audit[n].target \in Ids
    /\ \A i \in Ids : prov[i] = "confirmed" => Has(Entry("artifact.edit", i))
    /\ \A i \in rows : There(i, Len(audit))

\* What the log says of an edit stays true when an entry is added to it.
LEMMA FoundStays ==
    ASSUME TypeOK, FoundInv, NEW e \in Entries, audit' = Append(audit, e), UNCHANGED born
    PROVE  /\ \A i \in Ids : There(i, Len(audit)) /\ e \notin Explains(i)
                               => There(i, Len(audit))'
           /\ \A n \in DOMAIN audit, i \in Ids :
                  audit[n] = Entry("artifact.edit", i) => Found(n, i)'
<1>1. /\ Len(audit) \in Nat /\ Len(audit') = Len(audit) + 1
      /\ DOMAIN audit = 1..Len(audit)
      /\ \A n \in 1..Len(audit) : audit'[n] = audit[n]
      /\ audit'[Len(audit) + 1] = e
  BY DEF TypeOK
<1>2. \A i \in Ids : born[i] \in Nat
  BY DEF TypeOK
<1>3. \A i : Explains(i)' = Explains(i)
  BY DEF Explains
<1>4. ASSUME NEW i \in Ids, There(i, Len(audit)), e \notin Explains(i)
      PROVE  There(i, Len(audit))'
  <2> SUFFICES ASSUME NEW k \in born[i] + 1 .. Len(audit) + 1
               PROVE  audit'[k] \notin Explains(i)
    BY <1>1, <1>3 DEF There
  <2>1. CASE k = Len(audit) + 1
    BY <1>1, <1>4, <2>1
  <2>2. CASE k # Len(audit) + 1
    BY <1>1, <1>2, <1>4, <2>2 DEF There
  <2> QED
    BY <2>1, <2>2
<1>5. ASSUME NEW n \in DOMAIN audit, NEW i \in Ids, audit[n] = Entry("artifact.edit", i)
      PROVE  Found(n, i)'
  <2>1. PICK m \in 1..n : audit[m] = Entry("artifact.edit", i) /\ There(i, m)
    BY <1>5 DEF FoundInv, Found
  <2>2. m \in 1..Len(audit) /\ audit'[m] = audit[m]
    BY <1>1, <2>1
  <2>3. \A k \in born[i] + 1 .. m : audit'[k] = audit[k]
    BY <1>1, <1>2, <2>2
  <2>4. There(i, m)'
    BY <1>3, <2>1, <2>3 DEF There
  <2>5. Entry("artifact.edit", i)' = Entry("artifact.edit", i)
    BY DEF Entry
  <2> QED
    BY <2>1, <2>2, <2>4, <2>5 DEF Found
<1> QED
  BY <1>4, <1>5

\* An edit that commits has found its item, or says what an earlier one said.
LEMMA EditCommitFound ==
    ASSUME SectionInv, LogInv, FoundInv, NEW q \in Requests, EditCommit(q)
    PROVE  FoundInv'
<1>0. TypeOK
  BY DEF SectionInv
<1> PICK i : i = req[q].id
  OBVIOUS
<1> DEFINE e == Entry("artifact.edit", i)
<1>1. i \in Ids /\ req[q] \in Edits
  BY <1>0 DEF TypeOK, EditCommit, Edits, Deletions, Dispatches
<1>2. /\ e \in Entries /\ e.action = "artifact.edit" /\ e.target = i
      /\ \A j : e \notin Explains(j)
  BY <1>1 DEF Entry, Entries, Actions, Explains
<1>3. /\ UNCHANGED <<rows, born>> /\ audit' = Append(audit, e)
      /\ \A j \in Ids : j # i => prov'[j] = prov[j]
      /\ i \notin rows => Promoted(req[q]) = req[q].prov
  BY <1>0, <1>1 DEF EditCommit, history, TypeOK, NothingToWrite
<1> HIDE DEF e
<1>4. /\ Len(audit) \in Nat /\ Len(audit') = Len(audit) + 1
      /\ DOMAIN audit = 1..Len(audit) /\ DOMAIN audit' = 1..(Len(audit) + 1)
      /\ \A n \in 1..Len(audit) : audit'[n] = audit[n]
      /\ audit'[Len(audit) + 1] = e
  BY <1>0, <1>2, <1>3 DEF TypeOK
<1>5. /\ \A j \in Ids : There(j, Len(audit)) => There(j, Len(audit))'
      /\ \A n \in DOMAIN audit, j \in Ids :
             audit[n] = Entry("artifact.edit", j) => Found(n, j)'
  BY <1>0, <1>2, <1>3, FoundStays
<1>6. \A x : Has(x)' <=> Has(x) \/ x = e
  BY <1>0, <1>2, <1>3, AuditGrows
<1>7. Found(Len(audit), i)'
  <2>1. CASE i \in rows
    <3>1. There(i, Len(audit))'
      BY <1>1, <1>5, <2>1 DEF FoundInv
    <3> QED
      BY <1>4, <3>1 DEF Found, e
  <2>2. CASE i \notin rows
    <3>1. req[q].prov = "confirmed"
      BY <1>3, <2>2 DEF Promoted
    <3>2. prov[i] = "confirmed"
      BY <3>1 DEF LogInv, Kept, EditCommit
    <3>3. PICK n \in DOMAIN audit : audit[n] = Entry("artifact.edit", i)
      BY <1>1, <3>2 DEF FoundInv, Has
    <3>4. Found(n, i)'
      BY <1>1, <1>5, <3>3
    <3> QED
      BY <1>4, <3>3, <3>4 DEF Found
  <2> QED
    BY <2>1, <2>2
<1>8. ASSUME NEW n \in DOMAIN audit', NEW j \in Ids, audit'[n] = Entry("artifact.edit", j)
      PROVE  Found(n, j)'
  <2>1. CASE n = Len(audit) + 1
    <3>1. i = j
      BY <1>4, <1>8, <2>1 DEF e, Entry
    <3> QED
      BY <1>4, <1>7, <2>1, <3>1
  <2>2. CASE n # Len(audit) + 1
    <3>1. n \in DOMAIN audit /\ audit'[n] = audit[n]
      BY <1>4, <2>2
    <3>2. Entry("artifact.edit", j)' = Entry("artifact.edit", j)
      BY DEF Entry
    <3>3. audit[n] = Entry("artifact.edit", j)
      BY <1>8, <3>1, <3>2
    <3> QED
      BY <1>5, <3>1, <3>3
  <2> QED
    BY <2>1, <2>2
<1>9. \A n \in DOMAIN audit' : audit'[n].action = "artifact.edit" => audit'[n].target \in Ids
  BY <1>1, <1>2, <1>4 DEF FoundInv
<1>10. \A j \in Ids : prov'[j] = "confirmed" => Has(Entry("artifact.edit", j))'
  BY <1>3, <1>6 DEF FoundInv, e
<1>11. \A j \in rows' : There(j, Len(audit))'
  BY <1>0, <1>3, <1>5 DEF FoundInv, TypeOK
<1> QED
  BY <1>8, <1>9, <1>10, <1>11 DEF FoundInv

\* An entry that says that items have gone is added when they go.
LEMMA GoneFound ==
    ASSUME SectionInv, FoundInv, NEW q \in Requests, DeleteCommit(q) \/ Regenerate(q)
    PROVE  FoundInv'
<1>0. TypeOK
  BY DEF SectionInv
<1>1. \E e \in Entries :
          /\ audit' = Append(audit, e) /\ e.action # "artifact.edit"
          /\ UNCHANGED <<prov, born>> /\ rows' \subseteq rows
          /\ \A i \in rows' : e \notin Explains(i)
  <2>1. CASE DeleteCommit(q)
    <3> DEFINE e == Entry("artifact.delete", req[q].id)
    <3>1. req[q].id \in Ids
      BY <1>0, <2>1 DEF TypeOK, DeleteCommit, Edits, Deletions, Dispatches
    <3>2. e \in Entries /\ e.action # "artifact.edit"
      BY <3>1 DEF Entry, Entries, Actions
    <3>3. \A i \in rows' : e \notin Explains(i)
      BY <2>1 DEF DeleteCommit, Explains, Entry
    <3> QED
      BY <2>1, <3>2, <3>3 DEF DeleteCommit, history
  <2>2. CASE Regenerate(q)
    <3> DEFINE e == Entry("artifact.regenerate", None)
    <3>1. e \in Entries /\ e.action # "artifact.edit"
      BY DEF Entry, Entries, Actions
    <3> QED
      BY <2>2, <3>1 DEF Regenerate, Discarded
  <2> QED
    BY <2>1, <2>2
<1>2. PICK e \in Entries :
          /\ audit' = Append(audit, e) /\ e.action # "artifact.edit"
          /\ UNCHANGED <<prov, born>> /\ rows' \subseteq rows
          /\ \A i \in rows' : e \notin Explains(i)
  BY <1>1
<1>3. /\ Len(audit) \in Nat /\ Len(audit') = Len(audit) + 1
      /\ DOMAIN audit = 1..Len(audit) /\ DOMAIN audit' = 1..(Len(audit) + 1)
      /\ \A n \in 1..Len(audit) : audit'[n] = audit[n]
      /\ audit'[Len(audit) + 1] = e
  BY <1>0, <1>2 DEF TypeOK
<1>4. /\ \A i \in Ids : There(i, Len(audit)) /\ e \notin Explains(i) => There(i, Len(audit))'
      /\ \A n \in DOMAIN audit, j \in Ids :
             audit[n] = Entry("artifact.edit", j) => Found(n, j)'
  BY <1>0, <1>2, FoundStays
<1>5. ASSUME NEW n \in DOMAIN audit', NEW i \in Ids, audit'[n] = Entry("artifact.edit", i)
      PROVE  Found(n, i)'
  <2>1. n \in DOMAIN audit /\ audit'[n] = audit[n]
    BY <1>2, <1>3, <1>5 DEF Entry
  <2> QED
    BY <1>4, <1>5, <2>1
<1>6. \A n \in DOMAIN audit' : audit'[n].action = "artifact.edit" => audit'[n].target \in Ids
  BY <1>2, <1>3 DEF FoundInv
<1>7. \A i \in Ids : prov'[i] = "confirmed" => Has(Entry("artifact.edit", i))'
  BY <1>0, <1>2, AuditGrows DEF FoundInv
<1>8. \A i \in rows' : There(i, Len(audit))'
  BY <1>0, <1>2, <1>4 DEF FoundInv, TypeOK
<1> QED
  BY <1>5, <1>6, <1>7, <1>8 DEF FoundInv

\* An item that appears is younger than the whole log, and no edit of it has been.
LEMMA InsertFound ==
    ASSUME SectionInv, LogInv, FoundInv, NEW w \in Workers, Insert(w)
    PROVE  FoundInv'
<1>0. TypeOK
  BY DEF SectionInv
<1> DEFINE New(c) == {[ask |-> job[w].ask, try |-> job[w].try, item |-> k] : k \in c}
<1>1. PICK cited \in SUBSET Items :
          /\ rows' = rows \cup New(cited)
          /\ born' = [i \in Ids |-> IF i \in New(cited) THEN Len(audit) ELSE born[i]]
  BY Zenon DEF Insert
<1> DEFINE new == New(cited)
<1>2. UNCHANGED <<prov, audit>> /\ rows' = rows \cup new
  BY <1>1 DEF Insert
<1>3. Asking(w, job[w].ask, job[w].try) /\ job[w] \in Jobs
  BY <1>0 DEF Insert, Asking, TypeOK
<1>4. \A i \in new : i \in Ids /\ i.ask = job[w].ask /\ i.try = job[w].try
  BY <1>3 DEF Ids, Jobs
<1>5. \A i \in new : ~Targeted(i)
  BY <1>3, <1>4 DEF LogInv, Ahead, Coming, Touched
<1>6. /\ \A i \in new : born'[i] = Len(audit)
      /\ \A i \in Ids \ new : born'[i] = born[i]
  BY <1>1, <1>4
<1> HIDE DEF new
<1>7. \A i \in Ids \ new : \A n : There(i, n) => There(i, n)'
  BY <1>2, <1>6 DEF There, Explains
<1>8. ASSUME NEW n \in DOMAIN audit, NEW i \in Ids, audit[n] = Entry("artifact.edit", i)
      PROVE  Found(n, i)'
  <2>1. i \notin new
    BY <1>5, <1>8 DEF Targeted, Entry
  <2>2. PICK m \in 1..n : audit[m] = Entry("artifact.edit", i) /\ There(i, m)
    BY <1>8 DEF FoundInv, Found
  <2> QED
    BY <1>2, <1>7, <2>1, <2>2 DEF Found, Entry
<1>9. ASSUME NEW i \in rows' PROVE There(i, Len(audit))'
  <2>1. CASE i \in new
    BY <1>0, <1>2, <1>6, <2>1 DEF There, TypeOK
  <2>2. CASE i \notin new
    BY <1>0, <1>2, <1>7, <2>2 DEF FoundInv, TypeOK
  <2> QED
    BY <2>1, <2>2
<1> QED
  BY <1>2, <1>8, <1>9 DEF FoundInv, Has

\* However edits, deletions, regenerations and extractions interleave, the log has
\* no edit of an item that nobody edited while it was there.
THEOREM EditsFoundTheirItemHolds == Spec => []EditsFoundTheirItem
<1>1. Init => FoundInv
  BY DEF Init, FoundInv
<1>2. SectionInv /\ LogInv /\ FoundInv /\ [Next]_vars => FoundInv'
  <2> SUFFICES ASSUME SectionInv, LogInv, FoundInv, [Next]_vars PROVE FoundInv'
    OBVIOUS
  <2>1. ASSUME UNCHANGED <<rows, prov, audit, born>> PROVE FoundInv'
    BY <2>1 DEF FoundInv, Found, There, Explains, Has, Entry
  <2>2. ASSUME NEW q \in Requests, RequestStep(q) PROVE FoundInv'
    <3>1. CASE EditRead(q) \/ EditStale(q) \/ DeleteRead(q) \/ Dispatch(q)
                 \/ DispatchFails(q)
      BY <2>1, <3>1 DEF EditRead, EditStale, RolledBack, DeleteRead, Dispatch,
                        DispatchFails, section, history
    <3> QED
      BY <2>2, <3>1, EditCommitFound, GoneFound DEF RequestStep
  <2>3. ASSUME NEW w \in Workers, WorkerStep(w) PROVE FoundInv'
    <3>1. CASE Take(w) \/ Leave(w) \/ Redeliver(w)
      BY <2>1, <3>1 DEF Take, Leave, Redeliver, section, history
    <3> QED
      BY <2>3, <3>1, InsertFound DEF WorkerStep
  <2>4. CASE UNCHANGED vars
    BY <2>1, <2>4 DEF vars, section, history
  <2> QED
    BY <2>2, <2>3, <2>4 DEF Next
<1>3. SectionInv /\ FoundInv => EditsFoundTheirItem
  <2> SUFFICES ASSUME SectionInv, FoundInv,
                      NEW n \in DOMAIN audit, audit[n].action = "artifact.edit"
               PROVE  \E m \in 1..n : /\ audit[m] = Entry("artifact.edit", audit[n].target)
                                      /\ There(audit[n].target, m)
    BY DEF EditsFoundTheirItem, There, Explains
  <2>1. audit[n] \in Entries
    BY DEF SectionInv, TypeOK
  <2>2. audit[n] = Entry("artifact.edit", audit[n].target)
    BY <2>1 DEF Entries, Entry
  <2> QED
    BY <2>2 DEF FoundInv, Found
<1> QED
  BY LogInvHolds, <1>1, <1>2, <1>3, PTL DEF Spec

=============================================================================
