---------------------------- MODULE Attribution ----------------------------
(***************************************************************************)
(* Who a SpeakerCluster is: the attribute stage proposes (pipeline/        *)
(* attribute.py), a person decides (PATCH .../clusters/{id}, api/edits.py),*)
(* and both turn a name into the organization's Participant               *)
(* (participants.py), as extraction passes of any of its Meetings do.      *)
(*                                                                         *)
(* A process is one database transaction at READ COMMITTED, a step one     *)
(* statement: a statement sees what is committed when it starts, plus what *)
(* its own transaction has written; a DELETE waits for the transaction     *)
(* that has deleted a row it found, an INSERT for the one that has         *)
(* inserted its unique key, and PostgreSQL aborts one of the transactions  *)
(* that wait for each other.                                               *)
(***************************************************************************)
EXTENDS Naturals, Sequences, FiniteSets

CONSTANTS
    Humans,       \* PATCH requests
    Attributers,  \* attribute stages of this Meeting
    Extractors,   \* other stages that resolve names in the organization
    Clusters,     \* the Meeting's SpeakerClusters
    Names,
    NoName,       \* an empty name box
    NoCluster,    \* what an extraction resolves a name for
    MaxProposed,  \* bound: names in one model answer
    MaxFaults     \* bound: transactions that raise or lose their connection

ASSUME AttributionAssumption ==
    /\ Humans \cap (Attributers \cup Extractors) = {}
    /\ IsFiniteSet(Humans \cup Attributers \cup Extractors)
    /\ NoName \notin Names /\ NoCluster \notin Clusters
    /\ MaxProposed \in Nat /\ MaxFaults \in Nat

Machines     == Attributers \cup Extractors
Transactions == Humans \cup Machines

VARIABLES
    participants,     \* committed rows <<name, the transaction that inserted it>>
    attributions,     \* committed rows [cluster, who, provenance, id]
    pc, plan, pos,    \* transactions; the <<cluster, name>> pairs each resolves
    found, doomed,    \* Attributions its DELETE found, and has deleted
    new, added,       \* Participants and Attributions it has inserted
    raced,            \* history: transactions another writer of a cluster overlapped
    decided,          \* history: what a person has decided alone, per cluster
    faults

tables  == <<participants, attributions>>
pending == <<found, doomed, new, added>>
history == <<raced, decided, faults>>
vars    == <<tables, pc, plan, pos, pending, history>>

Open == "open"

Init ==
    /\ participants = {} /\ attributions = {}
    /\ pc = [t \in Transactions |-> "idle"]
    /\ plan = [t \in Transactions |-> <<>>] /\ pos = [t \in Transactions |-> 1]
    /\ found = [t \in Transactions |-> {}] /\ doomed = found
    /\ new = found /\ added = found
    /\ raced = {} /\ decided = [c \in Clusters |-> Open] /\ faults = 0

Active(t)   == pc[t] \notin {"idle", "done", "aborted"}
Touches(t)  == {plan[t][i][1] : i \in DOMAIN plan[t]} \cap Clusters
NameOf(t)   == plan[t][pos[t]][2]
Visible(t)  == participants \cup new[t]
Rows(ps, n) == {p \in ps : p[1] = n}

\* The writers of a cluster that t touches, when t's plan is p.
Rivals(t, p) ==
    LET mine == {p[i][1] : i \in DOMAIN p} IN
    {u \in Transactions \ {t} : Active(u) /\ Touches(u) \cap mine # {}}

Begin(t, p, to) ==
    /\ pc[t] = "idle"
    /\ pc' = [pc EXCEPT ![t] = to]
    /\ plan' = [plan EXCEPT ![t] = p]
    /\ raced' = IF Rivals(t, p) = {} THEN raced
                ELSE raced \cup {t} \cup Rivals(t, p)
    /\ UNCHANGED <<tables, pos, pending, decided, faults>>

-----------------------------------------------------------------------------
(* confirm_attribution.                                                    *)

ConfirmBegin(h, c, n) == Begin(h, << <<c, n>> >>, "find")

\* The DELETE: what it finds is fixed before it waits for anybody.
\* Mutation: the decision is added to the holders there are.
Found_None(h) == {}
Found(h)      == {a \in attributions : a.cluster \in Touches(h)}

ConfirmFind(h) ==
    /\ pc[h] = "find"
    /\ found' = [found EXCEPT ![h] = Found(h)]
    /\ pc' = [pc EXCEPT ![h] = "delete"]
    /\ UNCHANGED <<tables, plan, pos, doomed, new, added, history>>

ConfirmDelete(h) ==
    /\ pc[h] = "delete"
    /\ \A u \in Transactions \ {h} : doomed[u] \cap found[h] = {}
    /\ doomed' = [doomed EXCEPT ![h] = found[h] \cap attributions]
    /\ found' = [found EXCEPT ![h] = {}]
    /\ pc' = [pc EXCEPT ![h] = IF NameOf(h) = NoName THEN "commit" ELSE "look"]
    /\ UNCHANGED <<tables, plan, pos, new, added, history>>

-----------------------------------------------------------------------------
(* attribute, and the extraction passes that name people.                  *)

\* What a model may answer: labels and names in any order, also repeated.
Answers(cs) ==
    UNION {[1..k -> cs \X Names] : k \in 0..MaxProposed}

MachineBegin(m, p) == Begin(m, p, IF p = <<>> THEN "commit" ELSE "look")

-----------------------------------------------------------------------------
(* resolve_participant, then the Attribution of the Participant.           *)

Last(t) == pos[t] = Len(plan[t])

\* Row p is the Participant of the current name.
Resolved(t, p) ==
    LET c == plan[t][pos[t]][1] IN
    /\ added' = [added EXCEPT ![t] = IF c = NoCluster THEN @ ELSE @ \cup
           {[cluster |-> c, who |-> p, id |-> <<t, pos[t]>>,
             provenance |-> IF t \in Humans THEN "confirmed" ELSE "inferred"]}]
    /\ IF Last(t)
         THEN pc' = [pc EXCEPT ![t] = "commit"] /\ UNCHANGED pos
         ELSE pc' = [pc EXCEPT ![t] = "look"] /\ pos' = [pos EXCEPT ![t] = @ + 1]

Look(t) ==
    /\ pc[t] = "look"
    /\ IF Rows(Visible(t), NameOf(t)) = {}
         THEN pc' = [pc EXCEPT ![t] = "insert"] /\ UNCHANGED <<pos, added>>
         ELSE \E p \in Rows(Visible(t), NameOf(t)) : Resolved(t, p)
    /\ UNCHANGED <<tables, plan, found, doomed, new, history>>

\* Mutations: the table has no unique constraint; the row of the savepoint
\* that was rolled back is used.
Taken_NotUnique(t) == FALSE
Taken(t)           == Rows(participants, NameOf(t)) # {}

Winner_Own(t) == <<NameOf(t), t>>
Winner(t)     == CHOOSE p \in Rows(participants, NameOf(t)) : TRUE

\* uq_participant: wait for an uncommitted row of the name, then insert or
\* roll the savepoint back and read the winner's row.
Insert(t) ==
    /\ pc[t] = "insert"
    /\ \A u \in Transactions \ {t} : Rows(new[u], NameOf(t)) = {}
    /\ IF Taken(t)
         THEN Resolved(t, Winner(t)) /\ UNCHANGED new
         ELSE /\ new' = [new EXCEPT ![t] = @ \cup {<<NameOf(t), t>>}]
              /\ Resolved(t, <<NameOf(t), t>>)
    /\ UNCHANGED <<tables, plan, found, doomed, history>>

-----------------------------------------------------------------------------
(* The ends of a transaction (db.py).                                      *)

\* Mutation: the locks of a transaction that failed are kept.
Forget_Kept(t) == UNCHANGED <<plan, pos, pending>>
Forget(t) ==
    /\ plan' = [plan EXCEPT ![t] = <<>>] /\ pos' = [pos EXCEPT ![t] = 1]
    /\ found' = [found EXCEPT ![t] = {}] /\ doomed' = [doomed EXCEPT ![t] = {}]
    /\ new' = [new EXCEPT ![t] = {}] /\ added' = [added EXCEPT ![t] = {}]

\* A person who was alone with the cluster has decided; a model answer that
\* comes after it, or one of several at once, leaves that open again.
Decision(t) ==
    decided' = [c \in Clusters |->
        IF c \notin Touches(t) THEN decided[c]
        ELSE IF t \in Humans /\ t \notin raced THEN plan[t][1][2] ELSE Open]

Commit(t) ==
    /\ pc[t] = "commit"
    /\ participants' = participants \cup new[t]
    /\ attributions' = (attributions \ doomed[t]) \cup added[t]
    /\ Decision(t)
    /\ Forget(t)
    /\ pc' = [pc EXCEPT ![t] = "done"]
    /\ raced' = raced \ {t}
    /\ UNCHANGED faults

Rollback(t) ==
    /\ Forget(t)
    /\ pc' = [pc EXCEPT ![t] = "aborted"]
    /\ raced' = raced \ {t}
    /\ UNCHANGED <<tables, decided>>

\* A statement raises, or the process dies.
Fail(t) ==
    /\ Active(t)
    /\ faults < MaxFaults
    /\ faults' = faults + 1
    /\ Rollback(t)

WaitsFor(t, u) ==
    \/ pc[t] = "insert" /\ t # u /\ Rows(new[u], NameOf(t)) # {}
    \/ pc[t] = "delete" /\ t # u /\ doomed[u] \cap found[t] # {}

\* Each transaction of a circle waits for another of it.
Circled(t) ==
    \E circle \in SUBSET {x \in Transactions : pc[x] \in {"delete", "insert"}} :
        /\ t \in circle
        /\ \A x \in circle : \E y, z \in circle : WaitsFor(x, y) /\ WaitsFor(z, x)

\* PostgreSQL ends a circle of waits.  The error is no IntegrityError: it leaves
\* resolve_participant and the session.
Deadlock(t) ==
    /\ Circled(t)
    /\ Rollback(t)
    /\ UNCHANGED faults

-----------------------------------------------------------------------------

Start(t) ==
    \/ t \in Humans /\ \E c \in Clusters, n \in Names \cup {NoName} : ConfirmBegin(t, c, n)
    \/ t \in Attributers /\ \E p \in Answers(Clusters) : MachineBegin(t, p)
    \/ t \in Extractors /\ \E p \in Answers({NoCluster}) : MachineBegin(t, p)

Proceed(t) == ConfirmFind(t) \/ ConfirmDelete(t) \/ Look(t) \/ Insert(t)
                  \/ Commit(t) \/ Deadlock(t)

Next == \E t \in Transactions : Start(t) \/ Proceed(t) \/ Fail(t)

Fairness == \A t \in Transactions : WF_vars(Proceed(t))

Spec     == Init /\ [][Next]_vars
FairSpec == Spec /\ Fairness

-----------------------------------------------------------------------------

TypeOK ==
    LET People == Names \X Transactions
        Holders == [cluster : Clusters, who : People, id : Transactions \X Nat,
                    provenance : {"inferred", "confirmed"}]
    IN
    /\ participants \subseteq People /\ attributions \subseteq Holders
    /\ pc \in [Transactions -> {"idle", "find", "delete", "look", "insert", "commit",
                                "done", "aborted"}]
    /\ \A t \in Transactions :
          /\ pos[t] \in DOMAIN plan[t] \cup {1}
          /\ \A i \in DOMAIN plan[t] :
                plan[t][i] \in (Clusters \cup {NoCluster}) \X (Names \cup {NoName})
          /\ found[t] \subseteq Holders /\ doomed[t] \subseteq Holders
          /\ new[t] \subseteq People /\ added[t] \subseteq Holders
    /\ raced \subseteq Transactions /\ faults \in Nat
    /\ decided \in [Clusters -> Names \cup {NoName, Open}]

\* participants.py lines 3-5: two transactions that meet the same new name end
\* with one Participant, whichever fails or waits, and an Attribution names one
\* that is there, also when its transaction lost the race for the name or the
\* winner was rolled back.
OneParticipantPerName ==
    /\ \A p, q \in participants : p[1] = q[1] => p = q
    /\ \A a \in attributions : a.who \in participants

\* edits.py line 56, "a cluster has one holder": a decision nobody overlapped
\* is the whole truth about its cluster until the next answer of a model.
DecisionHolds ==
    \A c \in Clusters :
        decided[c] # Open =>
            {<<a.who[1], a.provenance>> : a \in {b \in attributions : b.cluster = c}}
                = IF decided[c] = NoName THEN {} ELSE {<<decided[c], "confirmed">>}

\* The locks a transaction takes, in the order of a plan a model wrote, stop the
\* others only while it runs: while any transaction is under way, one of them
\* waits for nobody or is in a circle that PostgreSQL breaks.  No lock is left
\* behind by one that ended, however it did.
NobodyIsStuck ==
    (\E t \in Transactions : Active(t)) =>
        \E t \in Transactions :
            /\ Active(t)
            /\ Circled(t) \/ ~\E u \in Transactions : WaitsFor(t, u)

\* Whoever waits for whom, every transaction ends (each is started once).
TransactionsEnd == []<>(\A t \in Transactions : ~Active(t))

=============================================================================
